-------------------------- MODULE NdpStorageSteps ---------------------------
(***************************************************************************)
(* NdpInvariant and the steps of the storage server: to it the host is one *)
(* that asks once and reads packets in order, and to the host the storage  *)
(* server is one that adds packets behind the others.                      *)
(***************************************************************************)
EXTENDS NdpInvariant, StoragePipelineProofs

USE DEF mainVars, prodVars, mkVars, consVars, mkRing, pcsRing, storageVars,
        wireVars, hostMain, hostProd, hostCons, hostRing, hostVars

-----------------------------------------------------------------------------
(***************************************************************************)
(* The storage server inside the system.                                   *)
(***************************************************************************)

\* A step of the system is one of the storage server or of its host.
LEMMA StepOfStorage ==
  ASSUME TypeOK, HostPhaseInv, [SysNext]_sysVars
  PROVE  [Next]_vars
<1>1. CASE Storage
  BY <1>1 DEF Next
<1>2. CASE HMain /\ UNCHANGED storageVars
  <2>1. CASE HMainSend
    <3>1. query_sent = FALSE
      BY <2>1 DEF HMainSend, HMainStep, HostPhaseInv, TypeOK, WireTypeOK
    <3>2. CASE h_main' = "schema"
      BY <1>2, <2>1, <3>1, <3>2, Zenon DEF HMainSend, Next, HostAsks
    <3>3. CASE h_main' # "schema"
      BY <1>2, <2>1, <3>1, <3>3, Zenon DEF HMainSend, vars
    <3> QED
      BY <3>2, <3>3
  <2>2. CASE ~HMainSend
    BY <1>2, <2>2 DEF HMain, HMainSchema, HMainSpawnProducer,
       HMainSpawnConsumer, HMainJoin, HMainQuery, vars
  <2> QED
    BY <2>1, <2>2
<1>3. CASE HProducer /\ UNCHANGED storageVars
  BY <1>3 DEF HProducer, HProducerRecv, HProducerPush, HProducerPublish,
     HProducerTest, Next, HostReads, vars
<1>4. CASE HConsumer /\ UNCHANGED storageVars
  BY <1>4 DEF HConsumer, HConsumerTake, HConsumerRelease, HConsumerInsert,
     HConsumerFree, vars
<1>5. CASE UNCHANGED sysVars
  BY <1>5 DEF sysVars, vars
<1> QED
  BY <1>1, <1>2, <1>3, <1>4, <1>5 DEF SysNext, Host

\* A record packet carries on where the one before it stops.
LEMMA RowsOfPacket ==
  ASSUME CoreInv, NEW i \in 1..Len(wire), IsRec(wire[i]), RowsUpTo(i - 1) \in Nat
  PROVE  /\ wire[i] \in Packet
         /\ wire[i].num_records = Len(wire[i].serial_data)
         /\ Len(wire[i].serial_data) \in Nat \ {0}
         /\ RowsUpTo(i) = RowsUpTo(i - 1) + Len(wire[i].serial_data)
         /\ \A j \in 1..Len(wire[i].serial_data) :
              /\ wire[i].serial_data[j] \in Rec
              /\ wire[i].serial_data[j].row = RowsUpTo(i - 1) + j
<1>1. wire \in Seq(Packet) /\ wire[i] \in Packet
  BY DEF CoreInv, TypeOK, WireTypeOK
<1>2. GoodBatch(wire[i], RowsUpTo(i - 1))
  BY DEF CoreInv, WireInv
<1>3. wire[i].serial_data \in Seq(Rec) /\ wire[i].serial_data # <<>>
  BY <1>1, <1>2 DEF Packet, GoodBatch
<1>4. Len(wire[i].serial_data) \in Nat \ {0}
  BY <1>3
<1>5. \A j \in 1..Len(wire[i].serial_data) :
        /\ wire[i].serial_data[j] \in Rec
        /\ wire[i].serial_data[j].row = RowsUpTo(i - 1) + j
  BY <1>2, <1>3 DEF GoodBatch, GoodRec
<1>6. RowsUpTo(i) = wire[i].serial_data[Len(wire[i].serial_data)].row
  BY DEF RowsUpTo
<1>7. wire[i].num_records = Len(wire[i].serial_data)
  BY <1>2 DEF GoodBatch
<1>8. RowsUpTo(i) = RowsUpTo(i - 1) + Len(wire[i].serial_data)
  <2>1. Len(wire[i].serial_data) \in 1..Len(wire[i].serial_data)
    BY <1>4
  <2> QED
    BY <2>1, <1>5, <1>6
<1> QED
  BY <1>1, <1>4, <1>5, <1>7, <1>8

\* Steps of the storage server only ever add to the connection.
LEMMA WireGrows ==
  ASSUME CoreInv, Storage
  PROVE  /\ UNCHANGED <<query_sent, rcvd>>
         /\ Len(wire) \in Nat /\ Len(wire') \in Nat /\ Len(wire) <= Len(wire')
         /\ \A i \in 1..Len(wire) : wire'[i] = wire[i]
         /\ \A i \in 0..Len(wire) : RowsUpTo(i)' = RowsUpTo(i)
<1>1. wire \in Seq(Packet) /\ rec_pkt \in Packet
  BY DEF CoreInv, TypeOK, WireTypeOK
<1>2. CASE UNCHANGED wireVars \/ MainReply
  BY <1>1, <1>2, SentFrame DEF MainReply
<1>3. CASE ConsumerSend
  BY <1>1, <1>3, SentStep DEF ConsumerSend, WritePacket
<1>4. CASE ConsumerSendEnd
  <2> DEFINE pkt == [rec_pkt EXCEPT !.pkt_type = "END_PKT"]
  <2>1. /\ wire' = Append(wire, pkt) /\ UNCHANGED <<query_sent, rcvd>>
    BY <1>4 DEF ConsumerSendEnd, WritePacket
  <2>2. pkt \in Packet
    BY <1>1 DEF Packet
  <2> HIDE DEF pkt
  <2> QED
    BY <1>1, <2>1, <2>2, SentStep
<1>5. UNCHANGED wireVars \/ MainReply \/ ConsumerSend \/ ConsumerSendEnd
  BY Zenon DEF Storage, Main, MainRecv, MainCreate, MainSchema, MainSpawnProducer,
     MainSpawnMkRecord, MainSpawnConsumer, MainJoin, MainDrop, Producer,
     ProducerStep, ProducerPush, ProducerPublish, ProducerReturn,
     ProducerFinish, MkRec, MkRecPoll, MkRecGrab, MkRecRelease, MkRecBuild,
     MkRecPush, MkRecPublish, MkRecFinish, Consumer, ConsumerPoll,
     ConsumerFirst, ConsumerMore, ConsumerRelease
<1> QED
  BY <1>2, <1>3, <1>4, <1>5

-----------------------------------------------------------------------------
(***************************************************************************)
(* Steps of the storage server.                                            *)
(***************************************************************************)

\* The rows sent have been published.
LEMMA ShippedPublished ==
  CoreInv => Shipped <= mk_tail /\ Shipped \in Nat
<1> SUFFICES ASSUME CoreInv PROVE Shipped <= mk_tail /\ Shipped \in Nat
  OBVIOUS
<1>1. /\ pcs_head \in Nat /\ pcs_tail \in Nat
      /\ mk_head \in Nat /\ mk_tail \in Nat
  BY DEF CoreInv, TypeOK
<1>2. pcs_head <= pcs_tail /\ mk_head <= mk_tail
  BY DEF CoreInv, PcsRingInv, MkRingInv
<1>3. pcs_tail <= mk_head
  BY <1>1 DEF CoreInv, MkRecInv
<1>4. Shipped \in Nat /\ Shipped <= pcs_head
  <2>1. Shipped \in Nat /\ (~in_batch => Shipped = pcs_head)
    BY DEF CoreInv, ConsumerInv
  <2>2. CASE in_batch
    <3>1. rec_pkt.serial_data \in Seq(Rec) /\ rec_pkt.serial_data # <<>>
      BY <2>2 DEF CoreInv, TypeOK, Packet, ConsumerInv, GoodBatch
    <3>2. Len(rec_pkt.serial_data) \in Nat \ {0}
      BY <3>1
    <3>3. Shipped + Len(rec_pkt.serial_data) \in {pcs_head, pcs_head + 1}
      BY <2>2 DEF CoreInv, ConsumerInv
    <3> QED
      BY <1>1, <2>1, <3>2, <3>3
  <2> QED
    BY <1>1, <2>1, <2>2
<1> QED
  BY <1>1, <1>2, <1>3, <1>4

\* Only the producer changes what ScanInv says of the scan.
LEMMA ScanStep ==
  ASSUME CoreInv, ScanInv, Storage
  PROVE  /\ mk_tail' \in {mk_tail, mk_tail + 1}
         /\ ~exec_ok' => p_pc' \in {"finish", "exit"}
<1>1. CASE Producer
  BY <1>1 DEF Producer, ProducerStep, ProducerPush, ProducerPublish,
     ProducerReturn, ProducerFinish, ScanInv
<1>2. CASE Main
  BY <1>2 DEF Main, MainRecv, MainCreate, MainSchema, MainReply,
     MainSpawnProducer, MainSpawnMkRecord, MainSpawnConsumer, MainJoin,
     MainDrop, MainStep, ScanInv, CoreInv, PhaseInv, BeforeThreads
<1>3. CASE MkRec \/ Consumer
  BY <1>3 DEF MkRec, MkRecPoll, MkRecGrab, MkRecRelease, MkRecBuild,
     MkRecPush, MkRecPublish, MkRecFinish, Consumer, ConsumerPoll,
     ConsumerFirst, ConsumerMore, ConsumerRelease, ConsumerSend,
     ConsumerSendEnd, ScanInv
<1> QED
  BY <1>1, <1>2, <1>3 DEF Storage

\* A packet that is sent holds published rows.
LEMMA ScanStorage ==
  ASSUME CoreInv, CoreInv', ScanInv, Storage
  PROVE  ScanInv'
<1>1. /\ mk_tail' \in {mk_tail, mk_tail + 1}
      /\ ~exec_ok' => p_pc' \in {"finish", "exit"}
  BY ScanStep
<1>2. mk_tail \in Nat /\ Shipped' <= mk_tail'
  <2>1. (Shipped <= mk_tail)'
    BY ShippedPublished, PTL
  <2> QED
    BY <2>1 DEF CoreInv, TypeOK
<1>3. /\ wire \in Seq(Packet) /\ wire' \in Seq(Packet)
      /\ Len(wire) \in Nat /\ Len(wire') \in Nat
  <2>1. WireTypeOK /\ WireTypeOK'
    BY DEF CoreInv, TypeOK
  <2>2. wire \in Seq(Packet) /\ wire' \in Seq(Packet)
    BY <2>1 DEF WireTypeOK
  <2> QED
    BY <2>2
<1>4. /\ \A i \in 1..Len(wire) : wire'[i] = wire[i]
      /\ \A i \in 0..Len(wire) : RowsUpTo(i)' = RowsUpTo(i)
  BY WireGrows
<1>5. ASSUME NEW i \in 1..Len(wire'), IsRec(wire'[i])
      PROVE  RowsUpTo(i)' <= mk_tail'
  <2>1. CASE i <= Len(wire)
    <3>1. i \in 1..Len(wire) /\ i \in 0..Len(wire)
      BY <1>3, <2>1
    <3>2. IsRec(wire[i]) /\ RowsUpTo(i)' = RowsUpTo(i)
      BY <1>4, <1>5, <3>1
    <3>3. RowsUpTo(i) <= mk_tail
      BY <3>1, <3>2 DEF ScanInv
    <3>4. RowsUpTo(i) \in Int
      <4>1. wire[i] \in Packet /\ wire[i].serial_data # <<>>
        BY <3>1, <3>2, <1>3 DEF CoreInv, WireInv, GoodBatch
      <4>2. wire[i].serial_data \in Seq(Rec)
        BY <4>1 DEF Packet
      <4>3. wire[i].serial_data[Len(wire[i].serial_data)] \in Rec
        BY <4>1, <4>2
      <4> QED
        BY <4>3, <3>1 DEF RowsUpTo, Rec
    <3> QED
      BY <1>1, <1>2, <3>2, <3>3, <3>4
  <2>2. CASE i > Len(wire)
    <3>1. i = Len(wire') /\ wire' # <<>> /\ ~Ended'
      <4>1. Len(wire') <= Len(wire) + 1
        <5>1. wire' = wire \/ \E pkt : wire' = Append(wire, pkt)
          BY Zenon DEF Storage, Main, MainRecv, MainCreate, MainSchema, MainReply,
             MainSpawnProducer, MainSpawnMkRecord, MainSpawnConsumer, MainJoin,
             MainDrop, Producer, ProducerStep, ProducerPush, ProducerPublish,
             ProducerReturn, ProducerFinish, MkRec, MkRecPoll, MkRecGrab,
             MkRecRelease, MkRecBuild, MkRecPush, MkRecPublish, MkRecFinish,
             Consumer, ConsumerPoll, ConsumerFirst, ConsumerMore,
             ConsumerRelease, ConsumerSend, ConsumerSendEnd, WritePacket
        <5> QED
          BY <5>1, <1>3
      <4>2. i = Len(wire')
        BY <1>3, <2>2, <4>1
      <4> QED
        BY <4>2, <1>3, <1>5 DEF Ended
    <3>2. Shipped' = RowsUpTo(i)'
      BY <3>1 DEF Shipped, RowsUpTo
    <3> QED
      BY <1>2, <3>2
  <2> QED
    BY <1>3, <2>1, <2>2
<1> QED
  BY <1>1, <1>5 DEF ScanInv

\* Where the counters of the host can be.
LEMMA HostCounters ==
  ASSUME CoreInv, HostInv
  PROVE  /\ h_head \in Nat /\ h_tail \in Nat /\ rcvd \in Nat /\ Len(wire) \in Nat
         /\ h_head <= h_tail /\ h_tail <= rcvd /\ rcvd <= Len(wire)
         /\ wire \in Seq(Packet)
<1>1. /\ h_head \in Nat /\ h_tail \in Nat /\ wire \in Seq(Packet)
      /\ rcvd \in 0..Len(wire)
  BY DEF CoreInv, TypeOK, WireTypeOK, HostInv, SysTypeOK
<1>2. h_head <= h_tail /\ h_tail <= rcvd
  BY <1>1 DEF HostInv, HostRingInv, HostProducerInv
<1> QED
  BY <1>1, <1>2

\* A longer connection is the same to the host up to what it has read.
LEMMA HostGrows ==
  ASSUME CoreInv, HostInv, UNCHANGED <<hostVars, query_sent, rcvd>>,
         Len(wire') \in Nat, Len(wire) <= Len(wire'),
         \A i \in 1..Len(wire) : wire'[i] = wire[i],
         \A i \in 0..Len(wire) : RowsUpTo(i)' = RowsUpTo(i)
  PROVE  /\ HostPhaseInv' /\ HostProducerInv' /\ HostRingInv'
         /\ HostConsumerInv' /\ TableInv'
<1>1. /\ h_head \in Nat /\ h_tail \in Nat /\ rcvd \in Nat /\ Len(wire) \in Nat
      /\ h_head <= h_tail /\ h_tail <= rcvd /\ rcvd <= Len(wire)
  BY HostCounters
<1>2. HostPhaseInv'
  BY DEF HostInv, HostPhaseInv, BeforeHostThreads
<1>3. HostProducerInv'
  BY <1>1 DEF HostInv, HostProducerInv
<1>4. HostRingInv'
  <2>1. \A k \in h_head..h_tail-1 : wire'[k + 1] = wire[k + 1]
    BY <1>1
  <2> QED
    BY <2>1 DEF HostInv, HostRingInv
<1>5. HostConsumerInv'
  <2>1. h_head > 0 => wire'[h_head] = wire[h_head]
    BY <1>1
  <2>2. h_head < h_tail => wire'[h_head + 1] = wire[h_head + 1]
    BY <1>1
  <2> QED
    BY <1>1, <2>1, <2>2 DEF HostInv, HostConsumerInv, IsRec
<1>6. TableInv'
  <2>1. Offered' = Offered
    <3>1. RowsUpTo(h_head)' = RowsUpTo(h_head)
      <4>1. PICK n \in Nat : n = h_head
        BY <1>1
      <4>2. RowsUpTo(n)' = RowsUpTo(n)
        BY <1>1, <4>1
      <4> QED
        BY <4>1, <4>2 DEF RowsUpTo
    <3>2. h_head > 0 => RowsUpTo(h_head - 1)' = RowsUpTo(h_head - 1)
      <4> SUFFICES ASSUME h_head > 0
                   PROVE  RowsUpTo(h_head - 1)' = RowsUpTo(h_head - 1)
        OBVIOUS
      <4>1. PICK n \in Nat : n = h_head - 1
        BY <1>1
      <4>2. RowsUpTo(n)' = RowsUpTo(n)
        BY <1>1, <4>1
      <4> QED
        BY <4>1, <4>2 DEF RowsUpTo
    <3>3. hc_pc \in {"insert", "free_end", "exit"} => h_head > 0
      BY DEF HostInv, HostConsumerInv
    <3> QED
      BY <3>1, <3>2, <3>3 DEF Offered
  <2> QED
    BY <2>1 DEF HostInv, TableInv
<1> QED
  BY <1>2, <1>3, <1>4, <1>5, <1>6

LEMMA SysStorage ==
  ASSUME SysInv, CoreInv', Storage, UNCHANGED hostVars
  PROVE  HostInv'
<1>1. /\ UNCHANGED <<query_sent, rcvd>>
      /\ Len(wire') \in Nat /\ Len(wire) <= Len(wire')
      /\ \A i \in 1..Len(wire) : wire'[i] = wire[i]
      /\ \A i \in 0..Len(wire) : RowsUpTo(i)' = RowsUpTo(i)
  BY WireGrows DEF SysInv
<1>2. /\ HostPhaseInv' /\ HostProducerInv' /\ HostRingInv'
      /\ HostConsumerInv' /\ TableInv'
  BY <1>1, HostGrows DEF SysInv
<1>3. ScanInv'
  BY ScanStorage DEF SysInv, HostInv
<1>4. SysTypeOK'
  BY DEF SysInv, HostInv, CoreInv, SysTypeOK
<1> QED
  BY <1>2, <1>3, <1>4 DEF HostInv

=============================================================================
