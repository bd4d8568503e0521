---------------------------- MODULE NdpHostSteps ----------------------------
(***************************************************************************)
(* NdpInvariant and the steps of the host server: the invariant holds      *)
(* initially and every step of the system preserves it.                    *)
(***************************************************************************)
EXTENDS NdpStorageSteps

USE DEF mainVars, prodVars, mkVars, consVars, mkRing, pcsRing, storageVars,
        wireVars, hostMain, hostProd, hostCons, hostRing, hostVars

-----------------------------------------------------------------------------
(***************************************************************************)
(* Steps of the host.                                                      *)
(***************************************************************************)

LEMMA SysInitInv == SysInit => SysInv
<1> SUFFICES ASSUME SysInit PROVE SysInv
  OBVIOUS
<1>1. CoreInv
  BY CoreInit DEF SysInit, Init
<1> USE DEF SysInit, SInit, HInit, WireInit
<1>2. NoPacket \in Packet
  BY DEF NoPacket, Packet
<1>3. SysTypeOK
  <2>1. table \in Seq(Rec) /\ minus_one \in 0..NRows /\ insert_ok \in BOOLEAN
    BY NRowsAssumption
  <2> QED
    BY <1>1, <1>2, <2>1, BufPoolAssumption DEF CoreInv, SysTypeOK
<1>4. ScanInv /\ HostPhaseInv /\ HostProducerInv
  BY DEF ScanInv, HostPhaseInv, BeforeHostThreads, HostProducerInv
<1>5. HostRingInv /\ HostConsumerInv
  BY BufPoolAssumption DEF HostRingInv, HostConsumerInv
<1>6. TableInv
  BY DEF TableInv, Offered, RowsUpTo
<1> QED
  BY <1>1, <1>3, <1>4, <1>5, <1>6 DEF SysInv, HostInv

\* Steps of the host leave the scan and what was sent alone.
LEMMA ScanFrame ==
  ASSUME ScanInv, UNCHANGED <<storageVars, wire>>
  PROVE  ScanInv'
  BY SentFrame DEF ScanInv, IsRec

\* Steps that leave the consumer and the table alone.
LEMMA TableFrame ==
  ASSUME TableInv, UNCHANGED <<wire, hostCons, h_head>>
  PROVE  TableInv'
<1>1. Offered' = Offered
  BY DEF Offered, RowsUpTo
<1> QED
  BY <1>1 DEF TableInv

LEMMA SysMain ==
  ASSUME SysInv, CoreInv', HMain, UNCHANGED storageVars
  PROVE  HostInv'
<1>0. /\ SysTypeOK /\ ScanInv /\ HostPhaseInv /\ HostProducerInv
      /\ HostRingInv /\ HostConsumerInv /\ TableInv
  BY DEF SysInv, HostInv
<1>1. /\ UNCHANGED <<hostRing, hp_batch, hc_batch, hc_next, freed, table,
                     minus_one, insert_ok, wire, rcvd>>
      /\ \/ UNCHANGED hp_pc
         \/ hp_pc = "off" /\ hp_pc' \in {"off", "recv"}
      /\ \/ UNCHANGED hc_pc
         \/ hc_pc = "off" /\ hc_pc' \in {"off", "take"}
  BY <1>0 DEF HMain, HMainSend, HMainSchema, HMainSpawnProducer,
     HMainSpawnConsumer, HMainJoin, HMainQuery, HMainStep, HostPhaseInv,
     BeforeHostThreads
<1>2. SysTypeOK'
  <2>1. h_main' \in {"send", "schema", "spawn_producer", "spawn_consumer",
                     "join", "query", "exit", "failed"}
    BY DEF HMain, HMainSend, HMainSchema, HMainSpawnProducer,
       HMainSpawnConsumer, HMainJoin, HMainQuery, HMainStep
  <2> QED
    BY <1>0, <1>1, <2>1 DEF SysTypeOK, CoreInv
<1>3. HostPhaseInv'
  BY <1>0 DEF HMain, HMainSend, HMainSchema, HMainSpawnProducer,
     HMainSpawnConsumer, HMainJoin, HMainQuery, HMainStep, HJoined,
     HostPhaseInv, BeforeHostThreads
<1>4. HostProducerInv' /\ HostRingInv'
  BY <1>0, <1>1 DEF HostProducerInv, HostRingInv
<1>5. HostConsumerInv'
  BY <1>0, <1>1 DEF HostConsumerInv, IsRec
<1>6. TableInv'
  <2>1. Offered' = Offered
    BY <1>1 DEF Offered, RowsUpTo
  <2> QED
    BY <1>0, <1>1, <2>1 DEF TableInv
<1>7. ScanInv'
  BY <1>0, <1>1, ScanFrame
<1> QED
  BY <1>2, <1>3, <1>4, <1>5, <1>6, <1>7 DEF HostInv

LEMMA SysProducer ==
  ASSUME SysInv, CoreInv', HProducer, UNCHANGED storageVars
  PROVE  HostInv'
<1>0. /\ SysTypeOK /\ ScanInv /\ HostPhaseInv /\ HostProducerInv
      /\ HostRingInv /\ HostConsumerInv /\ TableInv
  BY DEF SysInv, HostInv
<1>1. UNCHANGED <<hostMain, hostCons, h_head, query_sent, schema_sent, wire>>
  BY DEF HProducer, HProducerRecv, HProducerPush, HProducerPublish,
     HProducerTest
<1>2. /\ h_head \in Nat /\ h_tail \in Nat /\ rcvd \in Nat /\ Len(wire) \in Nat
      /\ h_head <= h_tail /\ h_tail <= rcvd /\ rcvd <= Len(wire)
      /\ wire \in Seq(Packet)
  BY HostCounters DEF SysInv
<1>3. ScanInv' /\ TableInv'
  BY <1>0, <1>1, ScanFrame, TableFrame
<1>4. HostPhaseInv'
  <2>1. hp_pc # "off" /\ hp_pc' # "off"
    BY DEF HProducer, HProducerRecv, HProducerPush, HProducerPublish,
       HProducerTest
  <2> QED
    BY <1>0, <1>1, <2>1 DEF HostPhaseInv, BeforeHostThreads
<1>5. CASE HProducerRecv
  <2>1. /\ hp_pc = "recv" /\ hp_pc' = "push" /\ rcvd' = rcvd + 1
        /\ hp_batch' = wire[rcvd + 1] /\ rcvd < Len(wire)
        /\ UNCHANGED hostRing
    BY <1>5 DEF HProducerRecv
  <2>2. wire[rcvd + 1] \in Packet
    BY <1>2, <2>1
  <2>3. SysTypeOK'
    BY <1>0, <1>1, <2>1, <2>2 DEF SysTypeOK, CoreInv
  <2>4. HostProducerInv' /\ HostRingInv'
    BY <1>0, <1>1, <1>2, <2>1 DEF HostProducerInv, HostRingInv
  <2>5. HostConsumerInv'
    BY <1>0, <1>1, <2>1 DEF HostConsumerInv, IsRec
  <2> QED
    BY <1>3, <1>4, <2>3, <2>4, <2>5 DEF HostInv
<1>6. CASE HProducerPush
  <2>1. /\ hp_pc = "push" /\ hp_pc' = "publish" /\ HRoom
        /\ h_pool' = [h_pool EXCEPT ![h_tail % BufPoolSize] = hp_batch]
        /\ UNCHANGED <<hp_batch, h_tail, rcvd>>
    BY <1>6 DEF HProducerPush
  <2>2. h_pool' \in [0..BufPoolSize-1 -> Packet]
    BY <1>0, <2>1, Zenon DEF SysTypeOK
  <2>3. SysTypeOK'
    BY <1>0, <1>1, <2>1, <2>2 DEF SysTypeOK, CoreInv
  <2>4. HostProducerInv'
    BY <1>0, <1>1, <2>1 DEF HostProducerInv
  <2>5. HostRingInv'
    <3>1. h_tail < h_head + BufPoolSize
      <4>1. h_tail <= h_head + BufPoolSize
        BY <1>0 DEF HostRingInv
      <4>2. h_tail # h_head + BufPoolSize
        BY <2>1 DEF HRoom
      <4> QED
        BY <1>2, <4>1, <4>2, BufPoolAssumption
    <3>2. h_tail % BufPoolSize \in 0..BufPoolSize-1
      BY <1>2, SlotInRing, BufPoolAssumption
    <3>3. h_pool'[h_tail % BufPoolSize] = hp_batch
      BY <1>0, <2>1, <3>2 DEF SysTypeOK
    <3>4. ASSUME NEW k \in h_head..h_tail-1
          PROVE  h_pool'[k % BufPoolSize] = wire[k + 1]
      <4>1. k \in Nat /\ k < h_tail /\ h_tail < k + BufPoolSize
        BY <1>2, <3>1, <3>4, BufPoolAssumption
      <4>2. /\ k % BufPoolSize # h_tail % BufPoolSize
            /\ k % BufPoolSize \in 0..BufPoolSize-1
        BY <1>2, <4>1, SlotsDiffer, SlotInRing, BufPoolAssumption, Zenon
      <4>3. h_pool'[k % BufPoolSize] = h_pool[k % BufPoolSize]
        BY <1>0, <2>1, <4>2 DEF SysTypeOK
      <4> QED
        BY <1>0, <3>4, <4>3 DEF HostRingInv
    <3> QED
      BY <1>0, <1>1, <2>1, <3>1, <3>3, <3>4 DEF HostRingInv
  <2>6. HostConsumerInv'
    BY <1>0, <1>1, <2>1 DEF HostConsumerInv, IsRec
  <2> QED
    BY <1>3, <1>4, <2>3, <2>4, <2>5, <2>6 DEF HostInv
<1>7. CASE HProducerPublish
  <2>1. /\ hp_pc = "publish" /\ hp_pc' = "test" /\ h_tail' = h_tail + 1
        /\ UNCHANGED <<hp_batch, h_pool, rcvd>>
    BY <1>7 DEF HProducerPublish
  <2>2. SysTypeOK'
    <3>1. freed' \in 0..h_tail' /\ h_tail' \in Nat
      BY <1>0, <1>1, <1>2, <2>1 DEF SysTypeOK
    <3> QED
      BY <1>0, <1>1, <2>1, <3>1 DEF SysTypeOK, CoreInv
  <2>3. HostProducerInv' /\ rcvd = h_tail + 1 /\ hp_batch = wire[h_tail + 1]
    BY <1>0, <1>1, <2>1 DEF HostProducerInv
  <2>4. HostRingInv'
    <3>1. /\ h_tail < h_head + BufPoolSize
          /\ h_pool[h_tail % BufPoolSize] = wire[h_tail + 1]
          /\ \A k \in h_head..h_tail-1 : h_pool[k % BufPoolSize] = wire[k + 1]
      BY <1>0, <2>1, <2>3 DEF HostRingInv
    <3>2. \A k \in h_head..h_tail : h_pool[k % BufPoolSize] = wire[k + 1]
      BY <1>2, <3>1
    <3>3. /\ h_tail' - 1 = h_tail /\ h_head <= h_tail'
          /\ h_tail' <= h_head + BufPoolSize
      BY <1>2, <2>1, <3>1, BufPoolAssumption
    <3> QED
      BY <1>1, <2>1, <3>2, <3>3 DEF HostRingInv
  <2>5. HostConsumerInv'
    <3>1. h_head < h_tail => h_head < h_tail'
      BY <1>2, <2>1
    <3> QED
      BY <1>0, <1>1, <3>1 DEF HostConsumerInv, IsRec
  <2> QED
    BY <1>3, <1>4, <2>2, <2>3, <2>4, <2>5 DEF HostInv
<1>8. CASE HProducerTest
  <2>1. /\ hp_pc = "test" /\ hp_pc' \in {"recv", "exit"}
        /\ UNCHANGED <<hp_batch, hostRing, rcvd>>
    BY <1>8 DEF HProducerTest
  <2>2. SysTypeOK'
    BY <1>0, <1>1, <2>1 DEF SysTypeOK, CoreInv
  <2>3. HostProducerInv' /\ HostRingInv'
    BY <1>0, <1>1, <2>1 DEF HostProducerInv, HostRingInv
  <2>4. HostConsumerInv'
    BY <1>0, <1>1, <2>1 DEF HostConsumerInv, IsRec
  <2> QED
    BY <1>3, <1>4, <2>2, <2>3, <2>4 DEF HostInv
<1> QED
  BY <1>5, <1>6, <1>7, <1>8 DEF HProducer

\* The packet whose records the consumer inserts: the rows before it, and its
\* own, which were published.
LEMMA PacketInHand ==
  ASSUME SysInv, hc_pc = "insert"
  PROVE  /\ RowsUpTo(h_head - 1) \in Nat
         /\ hc_batch.num_records = Len(hc_batch.serial_data)
         /\ Len(hc_batch.serial_data) \in Nat
         /\ RowsUpTo(h_head) = RowsUpTo(h_head - 1) + Len(hc_batch.serial_data)
         /\ \A j \in 1..Len(hc_batch.serial_data) :
              /\ hc_batch.serial_data[j] \in Rec
              /\ hc_batch.serial_data[j].row = RowsUpTo(h_head - 1) + j
         /\ RowsUpTo(h_head) <= mk_tail
         /\ hc_next \in Nat \ {0} /\ hc_next <= Len(hc_batch.serial_data) + 1
         /\ Offered = RowsUpTo(h_head - 1) + hc_next - 1
<1>0. CoreInv /\ SysTypeOK /\ ScanInv /\ HostConsumerInv
  BY DEF SysInv, HostInv
<1>1. /\ h_head > 0 /\ IsRec(wire[h_head]) /\ hc_batch = wire[h_head]
      /\ hc_next \in Nat \ {0} /\ hc_next <= Len(hc_batch.serial_data) + 1
  BY <1>0 DEF HostConsumerInv, SysTypeOK
<1>2. /\ h_head \in Nat /\ h_tail \in Nat /\ rcvd \in Nat /\ Len(wire) \in Nat
      /\ h_head <= h_tail /\ h_tail <= rcvd /\ rcvd <= Len(wire)
  BY HostCounters DEF SysInv
<1>3. h_head \in 1..Len(wire)
  BY <1>1, <1>2
<1>4. Offered = RowsUpTo(h_head - 1) + hc_next - 1
  BY DEF Offered
<1>5. RowsUpTo(h_head - 1) \in Nat
  <2>1. CASE h_head = 1
    BY <2>1 DEF RowsUpTo
  <2>2. CASE h_head # 1
    <3>1. h_head - 1 \in 1..Len(wire) /\ h_head - 1 < Len(wire)
      BY <1>3, <2>2, <1>2
    <3>2. IsRec(wire[h_head - 1]) /\ wire[h_head - 1] \in Packet
      BY <1>0, <3>1 DEF CoreInv, TypeOK, WireTypeOK, WireInv
    <3>3. wire[h_head - 1].serial_data # <<>>
      BY <1>0, <3>1, <3>2 DEF CoreInv, WireInv, GoodBatch
    <3>4. wire[h_head - 1].serial_data \in Seq(Rec)
      BY <3>2 DEF Packet
    <3>5. wire[h_head - 1].serial_data[Len(wire[h_head - 1].serial_data)] \in Rec
      BY <3>3, <3>4
    <3>6. RowsUpTo(h_head - 1)
            = wire[h_head - 1].serial_data[Len(wire[h_head - 1].serial_data)].row
      BY <3>1 DEF RowsUpTo
    <3>7. \A rec \in Rec : rec.row \in Nat
      BY NRowsAssumption DEF Rec
    <3> QED
      BY <3>5, <3>6, <3>7
  <2> QED
    BY <2>1, <2>2
<1>6. /\ hc_batch.num_records = Len(hc_batch.serial_data)
      /\ Len(hc_batch.serial_data) \in Nat
      /\ RowsUpTo(h_head) = RowsUpTo(h_head - 1) + Len(hc_batch.serial_data)
      /\ \A j \in 1..Len(hc_batch.serial_data) :
           /\ hc_batch.serial_data[j] \in Rec
           /\ hc_batch.serial_data[j].row = RowsUpTo(h_head - 1) + j
  BY <1>0, <1>1, <1>3, <1>5, RowsOfPacket
<1>7. RowsUpTo(h_head) <= mk_tail
  BY <1>0, <1>1, <1>3 DEF ScanInv
<1> QED
  BY <1>1, <1>4, <1>5, <1>6, <1>7

\* The record the consumer inserts is the one after the last it has offered,
\* and it was published.
LEMMA NextIsNext ==
  ASSUME SysInv, hc_pc = "insert", hc_next <= hc_batch.num_records
  PROVE  /\ NextRecord \in Rec
         /\ NextRecord.row = Offered + 1
         /\ NextRecord.row <= mk_tail
         /\ hc_next <= Len(hc_batch.serial_data)
         /\ Offered \in Nat
<1>1. mk_tail \in Nat
  BY DEF SysInv, CoreInv, TypeOK
<1>2. hc_next \in 1..Len(hc_batch.serial_data)
  BY PacketInHand
<1>3. NextRecord \in Rec /\ NextRecord.row = RowsUpTo(h_head - 1) + hc_next
  BY <1>2, PacketInHand DEF NextRecord
<1> QED
  BY <1>1, <1>2, <1>3, PacketInHand

LEMMA SysConsumer ==
  ASSUME SysInv, CoreInv', HConsumer, UNCHANGED storageVars
  PROVE  HostInv'
<1>0. /\ CoreInv /\ SysTypeOK /\ ScanInv /\ HostPhaseInv /\ HostProducerInv
      /\ HostRingInv /\ HostConsumerInv /\ TableInv
  BY DEF SysInv, HostInv
<1>1. UNCHANGED <<hostMain, hostProd, h_tail, h_pool, wireVars>>
  BY Zenon DEF HConsumer, HConsumerTake, HConsumerRelease, HConsumerInsert,
     HConsumerFree
<1>2. /\ h_head \in Nat /\ h_tail \in Nat /\ rcvd \in Nat /\ Len(wire) \in Nat
      /\ h_head <= h_tail /\ h_tail <= rcvd /\ rcvd <= Len(wire)
      /\ wire \in Seq(Packet)
  BY HostCounters DEF SysInv
<1>3. ScanInv' /\ HostProducerInv'
  BY <1>0, <1>1, ScanFrame DEF HostProducerInv
<1>4. HostPhaseInv'
  <2>1. hc_pc \notin {"off", "exit"} /\ hc_pc' # "off"
    BY DEF HConsumer, HConsumerTake, HConsumerRelease, HConsumerInsert,
       HConsumerFree, AfterRelease
  <2> QED
    BY <1>0, <1>1, <2>1 DEF HostPhaseInv, BeforeHostThreads
<1>5. CASE HConsumerTake
  <2>1. /\ hc_pc = "take" /\ hc_pc' = "release" /\ h_head # h_tail
        /\ hc_batch' = h_pool[h_head % BufPoolSize] /\ hc_next' = 1
        /\ UNCHANGED <<freed, table, minus_one, insert_ok, h_head>>
    BY <1>5 DEF HConsumerTake, FirstRecord
  <2>2. h_head < h_tail /\ hc_batch' = wire[h_head + 1]
    BY <1>0, <1>2, <2>1 DEF HostRingInv
  <2>3. SysTypeOK'
    <3>1. hc_batch' \in Packet
      BY <1>2, <2>2
    <3> QED
      BY <1>0, <1>1, <2>1, <3>1 DEF SysTypeOK, CoreInv
  <2>4. HostRingInv'
    BY <1>0, <1>1, <2>1 DEF HostRingInv
  <2>5. HostConsumerInv'
    BY <1>0, <1>1, <2>1, <2>2 DEF HostConsumerInv, IsRec
  <2>6. TableInv'
    <3>1. Offered' = Offered
      BY <1>1, <2>1 DEF Offered, RowsUpTo
    <3> QED
      BY <1>0, <2>1, <3>1 DEF TableInv
  <2> QED
    BY <1>3, <1>4, <2>3, <2>4, <2>5, <2>6 DEF HostInv
<1>6. CASE HConsumerRelease
  <2>1. /\ hc_pc = "release" /\ hc_pc' = AfterRelease /\ h_head' = h_head + 1
        /\ UNCHANGED <<hc_batch, hc_next, freed, table, minus_one, insert_ok>>
    BY <1>6 DEF HConsumerRelease
  <2>2. /\ h_head < h_tail /\ hc_batch = wire[h_head + 1] /\ hc_next = 1
        /\ freed = h_head
    BY <1>0, <2>1 DEF HostConsumerInv
  <2>3. \/ hc_pc' = "insert" /\ IsRec(hc_batch)
        \/ hc_pc' = "free_end" /\ ~IsRec(hc_batch)
    BY <1>0, <2>1 DEF AfterRelease, IsRec, SysTypeOK, Packet
  <2>4. SysTypeOK'
    <3>1. h_head' \in Nat
      BY <1>2, <2>1
    <3>2. hc_pc' \in {"off", "take", "release", "insert", "free_end", "exit"}
      BY <2>3
    <3> QED
      BY <1>0, <1>1, <2>1, <3>1, <3>2 DEF SysTypeOK, CoreInv
  <2>5. HostRingInv'
    <3>1. /\ h_tail <= h_head + BufPoolSize
          /\ \A k \in h_head..h_tail-1 : h_pool[k % BufPoolSize] = wire[k + 1]
      BY <1>0 DEF HostRingInv
    <3>2. /\ h_head' <= h_tail /\ h_tail <= h_head' + BufPoolSize
          /\ \A k \in h_head'..h_tail-1 : k \in h_head..h_tail-1
      BY <1>2, <2>1, <2>2, <3>1, BufPoolAssumption
    <3>3. hp_pc = "publish" => /\ h_tail < h_head' + BufPoolSize
                               /\ h_pool[h_tail % BufPoolSize] = hp_batch
      <4>1. hp_pc = "publish" => /\ h_tail < h_head + BufPoolSize
                                 /\ h_pool[h_tail % BufPoolSize] = hp_batch
        BY <1>0 DEF HostRingInv
      <4>2. h_tail < h_head + BufPoolSize => h_tail < h_head' + BufPoolSize
        BY <1>2, <2>1, BufPoolAssumption
      <4> QED
        BY <4>1, <4>2
    <3> QED
      BY <1>1, <3>1, <3>2, <3>3 DEF HostRingInv
  <2>6. HostConsumerInv'
    <3>1. /\ h_head' > 0 /\ hc_batch' = wire'[h_head'] /\ freed' = h_head' - 1
          /\ IsRec(wire'[h_head']) <=> IsRec(hc_batch)
      BY <1>1, <1>2, <2>1, <2>2
    <3>2. IsRec(hc_batch) => hc_next' <= Len(hc_batch'.serial_data) + 1
      <4>1. hc_batch.serial_data \in Seq(Rec)
        BY <1>0 DEF SysTypeOK, Packet
      <4>2. Len(hc_batch.serial_data) \in Nat
        BY <4>1
      <4> QED
        BY <2>1, <2>2, <4>2
    <3> QED
      BY <2>3, <3>1, <3>2 DEF HostConsumerInv, IsRec
  <2>7. TableInv'
    <3>1. Offered = RowsUpTo(h_head) /\ Offered \in Nat
      BY <1>0, <2>1 DEF Offered, TableInv
    <3>2. RowsUpTo(h_head - 1)' = RowsUpTo(h_head)
      <4>1. h_head' - 1 = h_head
        BY <1>2, <2>1
      <4> QED
        BY <1>1, <4>1, Zenon DEF RowsUpTo
    <3>3. Offered' = Offered
      BY <2>1, <2>2, <2>3, <3>1, <3>2 DEF Offered
    <3> QED
      BY <1>0, <2>1, <3>3 DEF TableInv
  <2> QED
    BY <1>3, <1>4, <2>4, <2>5, <2>6, <2>7 DEF HostInv
<1>7. CASE HConsumerInsert
  <2>1. /\ hc_pc = "insert" /\ hc_pc' = "insert"
        /\ hc_next <= hc_batch.num_records /\ hc_next' = hc_next + 1
        /\ UNCHANGED <<hc_batch, freed, h_head>>
    BY <1>7 DEF HConsumerInsert
  <2>2. /\ NextRecord \in Rec /\ NextRecord.row = Offered + 1
        /\ hc_next <= Len(hc_batch.serial_data) /\ Offered \in Nat
    BY <2>1, NextIsNext
  <2>3. \/ table' = Append(table, NextRecord) /\ UNCHANGED <<minus_one, insert_ok>>
        \/ /\ insert_ok' = FALSE /\ UNCHANGED table
           /\ minus_one' = minus_one \/ minus_one' = NextRecord.row
    BY <1>7 DEF HConsumerInsert
  <2>4. table \in Seq(Rec) /\ minus_one \in 0..NRows /\ hc_next \in Nat \ {0}
    BY <1>0 DEF SysTypeOK
  <2>5. SysTypeOK'
    <3>1. table' \in Seq(Rec) /\ minus_one' \in 0..NRows
      <4>1. NextRecord.row \in 0..NRows
        BY <2>2 DEF Rec
      <4>2. Append(table, NextRecord) \in Seq(Rec)
        BY <2>2, <2>4
      <4> QED
        BY <2>3, <2>4, <4>1, <4>2
    <3>2. insert_ok' \in BOOLEAN
      BY <1>0, <2>3, Zenon DEF SysTypeOK
    <3>3. hc_next' \in Nat \ {0}
      BY <2>1, <2>4
    <3> QED
      BY <1>0, <1>1, <2>1, <3>1, <3>2, <3>3 DEF SysTypeOK, CoreInv
  <2>6. HostRingInv'
    BY <1>0, <1>1, <2>1 DEF HostRingInv
  <2>7. HostConsumerInv'
    <3>1. hc_next' <= Len(hc_batch.serial_data) + 1
      <4>1. hc_batch.serial_data \in Seq(Rec)
        BY <1>0 DEF SysTypeOK, Packet
      <4>2. Len(hc_batch.serial_data) \in Nat
        BY <4>1
      <4> QED
        BY <2>1, <2>2, <2>4, <4>2
    <3> QED
      BY <1>0, <1>1, <2>1, <3>1 DEF HostConsumerInv, IsRec
  <2>8. TableInv'
    <3>1. Offered' = Offered + 1
      <4>1. /\ Offered = RowsUpTo(h_head - 1) + hc_next - 1
            /\ Offered' = RowsUpTo(h_head - 1) + hc_next' - 1
        BY <1>1, <2>1 DEF Offered, RowsUpTo
      <4>2. RowsUpTo(h_head - 1) \in Int
        BY <2>1, PacketInHand
      <4> QED
        BY <2>1, <2>4, <4>1, <4>2
    <3>2. CASE table' = Append(table, NextRecord) /\ UNCHANGED <<minus_one, insert_ok>>
      <4>1. /\ Len(table') = Len(table) + 1 /\ Len(table) \in Nat
            /\ \A i \in 1..Len(table) : table'[i] = table[i]
            /\ table'[Len(table) + 1] = NextRecord
        BY <2>2, <2>4, <3>2
      <4>2. \A i \in 1..Len(table) : table[i].row \in 1..Offered
        BY <1>0 DEF TableInv
      <4>3. \A i \in 1..Len(table') : table'[i].row \in 1..Offered'
        <5> SUFFICES ASSUME NEW i \in 1..Len(table')
                     PROVE  table'[i].row \in 1..Offered'
          OBVIOUS
        <5>1. CASE i \in 1..Len(table)
          BY <2>2, <3>1, <4>1, <4>2, <5>1
        <5>2. CASE i = Len(table) + 1
          BY <2>2, <3>1, <4>1, <5>2
        <5> QED
          BY <4>1, <5>1, <5>2
      <4>4. \A i \in 1..Len(table')-1 : table'[i].row < table'[i+1].row
        <5> SUFFICES ASSUME NEW i \in 1..Len(table)
                     PROVE  table'[i].row < table'[i+1].row
          BY <4>1
        <5>1. CASE i < Len(table)
          <6>1. i \in 1..Len(table)-1 /\ i + 1 \in 1..Len(table)
            BY <4>1, <5>1
          <6> QED
            BY <1>0, <4>1, <6>1 DEF TableInv
        <5>2. CASE i = Len(table)
          <6>1. table'[i].row \in 1..Offered /\ table'[i+1].row = Offered + 1
            BY <2>2, <4>1, <4>2, <5>2
          <6> QED
            BY <2>2, <6>1
        <5> QED
          BY <4>1, <5>1, <5>2
      <4>5. insert_ok' => /\ Len(table') = Offered' /\ minus_one' = 0
                          /\ \A i \in 1..Len(table') : table'[i].row = i
        <5> SUFFICES ASSUME insert_ok
                     PROVE  /\ Len(table') = Offered' /\ minus_one' = 0
                            /\ \A i \in 1..Len(table') : table'[i].row = i
          BY <3>2
        <5>1. /\ Len(table) = Offered /\ minus_one' = 0
              /\ \A i \in 1..Len(table) : table[i].row = i
          BY <1>0, <3>2 DEF TableInv
        <5>2. table'[Len(table) + 1].row = Len(table) + 1
          BY <2>2, <4>1, <5>1
        <5> QED
          BY <3>1, <4>1, <5>1, <5>2
      <4>6. Offered' \in Nat
        BY <2>2, <3>1
      <4>7. minus_one' \in 0..Offered' /\ minus_one' # Offered + 1
        BY <1>0, <2>2, <3>1, <3>2 DEF TableInv
      <4>8. \A i \in 1..Len(table') : table'[i].row # minus_one'
        <5> SUFFICES ASSUME NEW i \in 1..Len(table')
                     PROVE  table'[i].row # minus_one'
          OBVIOUS
        <5>1. CASE i \in 1..Len(table)
          BY <1>0, <3>2, <4>1, <5>1 DEF TableInv
        <5>2. CASE i = Len(table) + 1
          BY <2>2, <4>1, <4>7, <5>2
        <5> QED
          BY <4>1, <5>1, <5>2
      <4> QED
        BY <4>3, <4>4, <4>5, <4>6, <4>7, <4>8 DEF TableInv
    <3>3. CASE /\ insert_ok' = FALSE /\ UNCHANGED table
               /\ minus_one' = minus_one \/ minus_one' = NextRecord.row
      <4>1. /\ \A i \in 1..Len(table) : table[i].row \in 1..Offered
            /\ \A i \in 1..Len(table)-1 : table[i].row < table[i+1].row
        BY <1>0 DEF TableInv
      <4>2. Offered' \in Nat /\ \A n \in 1..Offered : n \in 1..Offered'
        BY <2>2, <3>1
      <4>3. \A i \in 1..Len(table) : table[i].row \in 1..Offered'
        BY <4>1, <4>2
      <4>4. /\ minus_one' \in 0..Offered'
            /\ \A i \in 1..Len(table) : table[i].row # minus_one'
        <5>1. CASE minus_one' = minus_one
          BY <1>0, <2>2, <3>1, <5>1 DEF TableInv
        <5>2. CASE minus_one' = NextRecord.row
          BY <2>2, <3>1, <4>1, <5>2
        <5> QED
          BY <3>3, <5>1, <5>2
      <4> QED
        BY <3>3, <4>1, <4>2, <4>3, <4>4 DEF TableInv
    <3> QED
      BY <2>3, <3>2, <3>3, Zenon
  <2> QED
    BY <1>3, <1>4, <2>5, <2>6, <2>7, <2>8 DEF HostInv
<1>8. CASE HConsumerFree
  <2>1. /\ \/ /\ hc_pc = "insert" /\ hc_next > hc_batch.num_records
              /\ hc_pc' = "take"
           \/ hc_pc = "free_end" /\ hc_pc' = "exit"
        /\ freed' = freed + 1
        /\ UNCHANGED <<hc_batch, hc_next, table, minus_one, insert_ok, h_head>>
    BY <1>8 DEF HConsumerFree
  <2>2. h_head > 0 /\ freed = h_head - 1
    BY <1>0, <2>1 DEF HostConsumerInv
  <2>3. SysTypeOK'
    <3>1. freed' \in 0..h_tail'
      BY <1>1, <1>2, <2>1, <2>2
    <3> QED
      BY <1>0, <1>1, <2>1, <3>1 DEF SysTypeOK, CoreInv
  <2>4. HostRingInv'
    BY <1>0, <1>1, <2>1 DEF HostRingInv
  <2>5. HostConsumerInv'
    <3>1. freed' = h_head
      BY <1>2, <2>1, <2>2
    <3> QED
      BY <1>0, <1>1, <2>1, <2>2, <3>1 DEF HostConsumerInv, IsRec
  <2>6. TableInv'
    <3>1. Offered' = Offered
      <4>1. CASE hc_pc = "free_end"
        BY <1>1, <2>1, <4>1 DEF Offered, RowsUpTo
      <4>2. CASE hc_pc = "insert"
        <5>1. /\ Offered = RowsUpTo(h_head - 1) + hc_next - 1
              /\ hc_next = Len(hc_batch.serial_data) + 1
              /\ RowsUpTo(h_head) = RowsUpTo(h_head - 1) + Len(hc_batch.serial_data)
          <6>1. /\ hc_batch.num_records = Len(hc_batch.serial_data)
                /\ Len(hc_batch.serial_data) \in Nat /\ hc_next \in Nat
                /\ hc_next <= Len(hc_batch.serial_data) + 1
                /\ Offered = RowsUpTo(h_head - 1) + hc_next - 1
                /\ RowsUpTo(h_head)
                     = RowsUpTo(h_head - 1) + Len(hc_batch.serial_data)
            BY <4>2, PacketInHand
          <6>2. hc_next > hc_batch.num_records
            BY <2>1, <4>2
          <6>3. hc_next = Len(hc_batch.serial_data) + 1
            BY <6>1, <6>2
          <6> QED
            BY <6>1, <6>3
        <5>2. Offered' = RowsUpTo(h_head)
          BY <1>1, <2>1, <4>2 DEF Offered, RowsUpTo
        <5> QED
          <6>1. /\ RowsUpTo(h_head - 1) \in Nat
                /\ Len(hc_batch.serial_data) \in Nat
            BY <4>2, PacketInHand
          <6> QED
            BY <5>1, <5>2, <6>1
      <4> QED
        BY <2>1, <4>1, <4>2
    <3> QED
      BY <1>0, <2>1, <3>1 DEF TableInv
  <2> QED
    BY <1>3, <1>4, <2>3, <2>4, <2>5, <2>6 DEF HostInv
<1> QED
  BY <1>5, <1>6, <1>7, <1>8 DEF HConsumer

LEMMA SysStep == SysInv /\ [SysNext]_sysVars => SysInv'
<1> SUFFICES ASSUME SysInv, [SysNext]_sysVars PROVE SysInv'
  OBVIOUS
<1>1. CoreInv'
  <2>1. [Next]_vars
    BY StepOfStorage DEF SysInv, HostInv, CoreInv
  <2> QED
    BY <2>1, CoreStep DEF SysInv
<1>2. CASE Storage /\ UNCHANGED hostVars
  BY <1>1, <1>2, SysStorage DEF SysInv
<1>3. CASE Host /\ UNCHANGED storageVars
  BY <1>1, <1>3, SysMain, SysProducer, SysConsumer DEF SysInv, Host
<1>4. CASE UNCHANGED sysVars
  <2>1. /\ UNCHANGED <<hostVars, query_sent, rcvd, wire>>
    BY <1>4 DEF sysVars
  <2>2. Len(wire) \in Nat
    BY HostCounters DEF SysInv
  <2>3. /\ HostPhaseInv' /\ HostProducerInv' /\ HostRingInv'
        /\ HostConsumerInv' /\ TableInv'
    BY <2>1, <2>2, SentFrame, HostGrows DEF SysInv
  <2>4. ScanInv'
    BY <1>4, ScanFrame DEF sysVars, SysInv, HostInv
  <2>5. SysTypeOK'
    BY <1>1, <2>1 DEF SysInv, HostInv, CoreInv, SysTypeOK
  <2> QED
    BY <1>1, <2>3, <2>4, <2>5 DEF SysInv, HostInv
<1> QED
  BY <1>2, <1>3, <1>4 DEF SysNext

=============================================================================
