------------------------ MODULE StoragePipelineProofs ------------------------
(***************************************************************************)
(* Proofs about StoragePipeline, for every number of rows and columns,     *)
(* every ring and packet size and every size of the records.               *)
(*                                                                         *)
(* CoreInv is preserved by every step whatever WeakLoads is.  DoneInv is   *)
(* preserved when the loads of a busy wait happen in program order.        *)
(***************************************************************************)
EXTENDS StorageInvariant, TLAPS

USE DEF mainVars, prodVars, mkVars, consVars, mkRing, pcsRing, storageVars,
        wireVars

-----------------------------------------------------------------------------
(***************************************************************************)
(* Slots.  Two counters less than a ring apart use different slots.        *)
(***************************************************************************)

\* One more turn of the ring is at least S slots further on.
LEMMA NextTurn ==
  ASSUME NEW S \in Nat \ {0}, NEW a \in Int, NEW b \in Int, a < b
  PROVE  S * a + S <= S * b
<1>1. S * (b - a) >= S
  OBVIOUS
<1>2. S * (b - a) = S * b - S * a
  OBVIOUS
<1> QED
  BY <1>1, <1>2

\* A masked counter indexes a slot of the ring.
LEMMA SlotInRing ==
  ASSUME NEW S \in Nat \ {0}, NEW k \in Nat
  PROVE  k % S \in 0..S-1
  OBVIOUS

\* The entries between head and tail, and the one at tail when there is room,
\* are in different slots.
LEMMA SlotsDiffer ==
  ASSUME NEW S \in Nat \ {0}, NEW j \in Nat, NEW k \in Nat, j < k, k < j + S
  PROVE  j % S # k % S
<1> SUFFICES ASSUME j % S = k % S PROVE FALSE
  OBVIOUS
<1> DEFINE a == j \div S
           b == k \div S
<1>1. /\ a \in Int /\ b \in Int /\ k % S \in Int
      /\ j = S * a + (j % S) /\ k = S * b + (k % S)
  BY SlotInRing
<1> HIDE DEF a, b
<1>2. S * a < S * b
  BY <1>1
<1>3. a < b
  <2>1. CASE b = a
    BY <2>1, <1>2, <1>1
  <2>2. CASE b < a
    BY <2>2, <1>2, <1>1, NextTurn
  <2> QED
    BY <2>1, <2>2, <1>1
<1>4. S * a + S <= S * b
  BY <1>1, <1>3, NextTurn
<1> QED
  BY <1>1, <1>4

-----------------------------------------------------------------------------
(***************************************************************************)
(* What a step that leaves a part of the state alone preserves.            *)
(***************************************************************************)

\* Steps that write neither rec_queue nor its counters.
LEMMA MkRingFrame ==
  ASSUME MkRingInv, UNCHANGED <<mk_head, mk_tail, rec_queue, p_row>>,
         p_pc' = "publish" => p_pc = "publish"
  PROVE  MkRingInv'
  BY DEF MkRingInv

\* Steps that write neither record_pool nor its counters.
LEMMA PcsRingFrame ==
  ASSUME PcsRingInv, UNCHANGED <<pcs_head, pcs_tail, record_pool, ssd_record>>,
         m_pc' = "publish" => m_pc = "publish"
  PROVE  PcsRingInv'
  BY DEF PcsRingInv, GoodRec

\* Steps that send nothing leave the rows sent as they are.
LEMMA SentFrame ==
  ASSUME UNCHANGED wire
  PROVE  /\ Shipped' = Shipped
         /\ Ended' <=> Ended
         /\ \A i : RowsUpTo(i)' = RowsUpTo(i)
  BY DEF Shipped, Ended, RowsUpTo, IsRec

LEMMA WireFrame ==
  ASSUME WireInv, UNCHANGED wire, (c_pc' = "exit") <=> (c_pc = "exit")
  PROVE  WireInv'
  BY SentFrame DEF WireInv, IsRec, GoodBatch, GoodRec, OnlyFirstShort

\* Steps of other threads: they only ever add to record_pool.
LEMMA ConsumerFrame ==
  ASSUME ConsumerInv, UNCHANGED <<wire, consVars, pcs_head>>,
         pcs_head \in Nat, pcs_tail \in Nat, pcs_tail' \in Nat,
         pcs_tail <= pcs_tail'
  PROVE  ConsumerInv'
  BY SentFrame DEF ConsumerInv, IsRec, GoodBatch, GoodRec, OnlyFirstShort

-----------------------------------------------------------------------------
(***************************************************************************)
(* CoreInv.                                                                *)
(***************************************************************************)

LEMMA CoreInit == Init => CoreInv
<1> SUFFICES ASSUME Init PROVE CoreInv
  OBVIOUS
<1> USE DEF Init, SInit, WireInit, NoRec
<1>0. rec_pkt \in Packet /\ rec_pkt.serial_data = <<>>
  <2>1. PICK n \in 0..1 : rec_pkt = UnsetPacket(n)
    OBVIOUS
  <2> QED
    BY <2>1 DEF Packet, UnsetPacket
<1>1. TypeOK
  <2>1. NoRec \in Rec
    BY NRowsAssumption, NColsAssumption DEF Rec
  <2>2. /\ rec_queue \in [0..MkRecPoolSize-1 -> 0..NRows]
        /\ record_pool \in [0..RecPoolSize-1 -> Rec]
    BY <2>1, NRowsAssumption
  <2>3. wire \in Seq(Packet) /\ rcvd \in 0..Len(wire)
    OBVIOUS
  <2>4. /\ exec_ok \in BOOLEAN /\ in_batch \in BOOLEAN
        /\ mk_done \in BOOLEAN /\ pcs_done \in BOOLEAN
        /\ query_sent \in BOOLEAN /\ schema_sent \in BOOLEAN
    BY Zenon
  <2>5. /\ p_row \in 0..NRows /\ aMem \in 0..NRows
        /\ mk_head \in Nat /\ mk_tail \in Nat
        /\ pcs_head \in Nat /\ pcs_tail \in Nat /\ window \in Int
    BY NRowsAssumption
  <2> QED
    BY <1>0, <2>1, <2>2, <2>3, <2>4, <2>5 DEF TypeOK, WireTypeOK
<1>2. PhaseInv /\ ProducerInv
  BY NRowsAssumption, NColsAssumption DEF PhaseInv, ProducerInv, BeforeThreads
<1>3. MkRingInv /\ MkRecInv /\ PcsRingInv
  BY PoolAssumption DEF MkRingInv, MkRecInv, PcsRingInv
<1>4. ConsumerInv /\ WireInv
  BY <1>0 DEF ConsumerInv, WireInv, OnlyFirstShort, Shipped, Ended, RowsUpTo
<1> QED
  BY <1>1, <1>2, <1>3, <1>4 DEF CoreInv

\* main only starts threads and, before that, sets num_rec_fields.
LEMMA CoreMain == CoreInv /\ Main => CoreInv'
<1> SUFFICES ASSUME CoreInv, Main PROVE CoreInv'
  OBVIOUS
<1> USE DEF CoreInv, Main, MainRecv, MainCreate, MainSchema, MainReply,
            MainSpawnProducer, MainSpawnMkRecord, MainSpawnConsumer, MainJoin,
            MainDrop, MainStep
<1>1. TypeOK'
  <2>1. UNCHANGED <<p_row, exec_ok, aMem, ssd_record, in_batch, rec_pkt, window,
                    mkRing, pcsRing, query_sent, wire, rcvd>>
    OBVIOUS
  <2>2. /\ s_main' \in {"create", "schema", "reply", "spawn_producer",
                        "spawn_mk_record", "spawn_consumer", "join", "drop",
                        "exit", "failed"}
        /\ p_pc' \in {p_pc, "off", "step"}
        /\ m_pc' \in {m_pc, "off", "wait"}
        /\ c_pc' \in {c_pc, "off", "wait"}
        /\ num_rec_fields' \in {num_rec_fields, 1}
    OBVIOUS
  <2>3. schema_sent' \in {schema_sent, TRUE}
    BY Zenon
  <2> HIDE DEF CoreInv, Main
  <2>t. TypeOK
    BY DEF CoreInv
  <2>4. schema_sent' \in BOOLEAN
    BY <2>3, <2>t, Zenon DEF TypeOK, WireTypeOK
  <2> QED
    BY <2>1, <2>2, <2>4, <2>t DEF TypeOK, WireTypeOK
<1>2. PhaseInv'
  BY NColsAssumption DEF TypeOK, PhaseInv, BeforeThreads
<1>3. ProducerInv'
  BY NColsAssumption DEF TypeOK, ProducerInv, PhaseInv, BeforeThreads
<1>4. MkRecInv'
  BY DEF TypeOK, MkRecInv, PhaseInv, BeforeThreads, GoodRec
<1>5. MkRingInv' /\ PcsRingInv'
  BY MkRingFrame, PcsRingFrame
<1>6. ConsumerInv' /\ WireInv'
  <2>1. UNCHANGED <<wire, in_batch, rec_pkt, pcs_head, pcs_tail>>
    OBVIOUS
  <2>2. CASE c_pc' = c_pc
    BY <2>1, <2>2, SentFrame, WireFrame
       DEF ConsumerInv, GoodBatch, GoodRec, IsRec, OnlyFirstShort
  <2>3. CASE c_pc' # c_pc
    <3>1. c_pc = "off" /\ c_pc' = "wait"
      BY <2>3 DEF PhaseInv, BeforeThreads
    <3> QED
      BY <2>1, <3>1, SentFrame, WireFrame
         DEF ConsumerInv, GoodBatch, GoodRec, IsRec, OnlyFirstShort
  <2> QED
    BY <2>2, <2>3
<1> QED
  BY <1>1, <1>2, <1>3, <1>4, <1>5, <1>6

\* The producer fills a free slot of rec_queue and publishes it.
LEMMA CoreProducer == CoreInv /\ Producer => CoreInv'
<1> SUFFICES ASSUME CoreInv, Producer PROVE CoreInv'
  OBVIOUS
<1> USE NRowsAssumption, NColsAssumption, PoolAssumption
<1>0. /\ TypeOK /\ PhaseInv /\ ProducerInv /\ MkRingInv
      /\ MkRecInv /\ PcsRingInv /\ ConsumerInv /\ WireInv
  BY DEF CoreInv
<1>1. UNCHANGED <<mainVars, mkVars, consVars, mk_head, pcsRing, wireVars>>
  BY DEF Producer, ProducerStep, ProducerPush, ProducerPublish, ProducerReturn,
         ProducerFinish
<1>2. PcsRingInv' /\ ConsumerInv' /\ WireInv'
  BY <1>0, <1>1, PcsRingFrame, ConsumerFrame, WireFrame DEF TypeOK
<1>3. CASE ProducerStep
  <2>1. exec_ok' \in BOOLEAN
    BY <1>0, <1>3, Zenon DEF ProducerStep, TypeOK
  <2>2. TypeOK'
    BY <1>0, <1>1, <1>3, <2>1 DEF ProducerStep, HasRow, TypeOK, WireTypeOK
  <2>3. PhaseInv' /\ ProducerInv' /\ MkRecInv'
    BY <1>0, <1>1, <1>3
       DEF ProducerStep, HasRow, TypeOK, PhaseInv, ProducerInv, MkRecInv,
           BeforeThreads, GoodRec
  <2>4. MkRingInv'
    BY <1>0, <1>3 DEF ProducerStep, MkRingInv
  <2> QED
    BY <1>2, <2>2, <2>3, <2>4 DEF CoreInv
<1>4. CASE ProducerPush
  <2>1. mk_tail % MkRecPoolSize \in 0..MkRecPoolSize-1
    BY <1>0, SlotInRing DEF TypeOK
  <2>2. rec_queue' \in [0..MkRecPoolSize-1 -> 0..NRows]
    BY <1>0, <1>4, <2>1 DEF ProducerPush, TypeOK
  <2>3. TypeOK'
    BY <1>0, <1>1, <1>4, <2>2 DEF ProducerPush, TypeOK, WireTypeOK
  <2>4. PhaseInv' /\ ProducerInv' /\ MkRecInv'
    BY <1>0, <1>1, <1>4
       DEF ProducerPush, TypeOK, PhaseInv, ProducerInv, MkRecInv, BeforeThreads,
           GoodRec
  <2>5. mk_tail < mk_head + MkRecPoolSize
    BY <1>0, <1>4 DEF ProducerPush, MkRoom, MkRingInv, TypeOK
  <2>6. \A k \in mk_head..mk_tail-1 : rec_queue'[k % MkRecPoolSize] = k + 1
    <3> SUFFICES ASSUME NEW k \in mk_head..mk_tail-1
                 PROVE  rec_queue'[k % MkRecPoolSize] = k + 1
      OBVIOUS
    <3>1. k \in Nat /\ k < mk_tail /\ mk_tail < k + MkRecPoolSize
      BY <1>0, <2>5 DEF TypeOK
    <3>2. /\ k % MkRecPoolSize # mk_tail % MkRecPoolSize
          /\ k % MkRecPoolSize \in 0..MkRecPoolSize-1
      BY <1>0, <3>1, SlotsDiffer, SlotInRing, Zenon DEF TypeOK
    <3> QED
      BY <1>0, <1>4, <3>2, Zenon DEF ProducerPush, MkRingInv, TypeOK
  <2>7. rec_queue'[mk_tail % MkRecPoolSize] = p_row
    BY <1>0, <1>4, <2>1 DEF ProducerPush, TypeOK
  <2>8. MkRingInv'
    BY <1>0, <1>1, <1>4, <2>5, <2>6, <2>7 DEF ProducerPush, MkRingInv
  <2> QED
    BY <1>2, <2>3, <2>4, <2>8 DEF CoreInv
<1>5. CASE ProducerPublish
  <2>1. TypeOK'
    BY <1>0, <1>1, <1>5 DEF ProducerPublish, TypeOK, WireTypeOK
  <2>2. PhaseInv' /\ ProducerInv' /\ MkRecInv'
    BY <1>0, <1>1, <1>5
       DEF ProducerPublish, TypeOK, PhaseInv, ProducerInv, MkRecInv,
           BeforeThreads, GoodRec
  <2>3. \A k \in mk_head..mk_tail : rec_queue[k % MkRecPoolSize] = k + 1
    <3> SUFFICES ASSUME NEW k \in mk_head..mk_tail
                 PROVE  rec_queue[k % MkRecPoolSize] = k + 1
      OBVIOUS
    <3>1. CASE k = mk_tail
      BY <1>0, <1>5, <3>1 DEF ProducerPublish, MkRingInv, ProducerInv
    <3>2. CASE k \in mk_head..mk_tail-1
      BY <1>0, <3>2 DEF MkRingInv
    <3> QED
      BY <1>0, <3>1, <3>2 DEF TypeOK
  <2>4. MkRingInv'
    BY <1>0, <1>1, <1>5, <2>3 DEF ProducerPublish, MkRingInv, TypeOK
  <2> QED
    BY <1>2, <2>1, <2>2, <2>4 DEF CoreInv
<1>6. CASE ProducerReturn
  <2>1. exec_ok' \in BOOLEAN
    BY <1>0, <1>6, Zenon DEF ProducerReturn, TypeOK
  <2>2. TypeOK'
    BY <1>0, <1>1, <1>6, <2>1 DEF ProducerReturn, FieldsAfterRow, TypeOK, WireTypeOK
  <2>3. PhaseInv' /\ ProducerInv' /\ MkRecInv'
    BY <1>0, <1>1, <1>6
       DEF ProducerReturn, FieldsAfterRow, TypeOK, PhaseInv, ProducerInv, MkRecInv,
           BeforeThreads, GoodRec
  <2>4. MkRingInv'
    BY <1>0, <1>6 DEF ProducerReturn, MkRingInv
  <2> QED
    BY <1>2, <2>2, <2>3, <2>4 DEF CoreInv
<1>7. CASE ProducerFinish
  <2>1. TypeOK'
    BY <1>0, <1>1, <1>7 DEF ProducerFinish, TypeOK, WireTypeOK
  <2>2. PhaseInv' /\ ProducerInv' /\ MkRecInv'
    BY <1>0, <1>1, <1>7
       DEF ProducerFinish, TypeOK, PhaseInv, ProducerInv, MkRecInv, BeforeThreads,
           GoodRec
  <2>3. MkRingInv'
    BY <1>0, <1>7 DEF ProducerFinish, MkRingInv
  <2> QED
    BY <1>2, <2>1, <2>2, <2>3 DEF CoreInv
<1> QED
  BY <1>3, <1>4, <1>5, <1>6, <1>7 DEF Producer

\* mk_rec_thread takes one row out of rec_queue and adds its record to
\* record_pool.
LEMMA CoreMkRec == CoreInv /\ MkRec => CoreInv'
<1> SUFFICES ASSUME CoreInv, MkRec PROVE CoreInv'
  OBVIOUS
<1> USE NRowsAssumption, NColsAssumption, PoolAssumption
<1>0. /\ TypeOK /\ PhaseInv /\ ProducerInv /\ MkRingInv
      /\ MkRecInv /\ PcsRingInv /\ ConsumerInv /\ WireInv
  BY DEF CoreInv
<1>1. /\ UNCHANGED <<mainVars, prodVars, consVars, mk_tail, mk_done, rec_queue,
                     pcs_head, num_rec_fields, wireVars>>
      /\ m_pc # "off" /\ m_pc' # "off"
      /\ mk_head' \in {mk_head, mk_head + 1}
      /\ pcs_tail' \in {pcs_tail, pcs_tail + 1}
  BY DEF MkRec, MkRecPoll, MkRecGrab, MkRecRelease, MkRecBuild, MkRecPush,
         MkRecPublish, MkRecFinish, AfterWait, AfterSpin, AfterCheck, AfterRecheck
<1>2. PhaseInv' /\ ProducerInv'
  BY <1>0, <1>1 DEF TypeOK, PhaseInv, ProducerInv
<1>3. ConsumerInv' /\ WireInv'
  BY <1>0, <1>1, ConsumerFrame, WireFrame DEF TypeOK
<1>4. CASE MkRecPoll
  <2>1. UNCHANGED <<mk_head, aMem, ssd_record, pcsRing>>
    BY <1>4 DEF MkRecPoll
  <2>2. TypeOK' /\ MkRecInv'
    BY <1>0, <1>1, <1>4, <2>1
       DEF MkRecPoll, AfterWait, AfterSpin, AfterCheck, AfterRecheck, TypeOK,
           WireTypeOK, MkRecInv, GoodRec
  <2>3. m_pc' # "publish"
    BY <1>4 DEF MkRecPoll, AfterWait, AfterSpin, AfterCheck, AfterRecheck
  <2>4. MkRingInv' /\ PcsRingInv'
    BY <1>0, <1>1, <2>1, <2>3, MkRingFrame, PcsRingFrame
  <2> QED
    BY <1>2, <1>3, <2>2, <2>4 DEF CoreInv
<1>5. CASE MkRecGrab
  <2>1. mk_head % MkRecPoolSize \in 0..MkRecPoolSize-1
    BY <1>0, SlotInRing DEF TypeOK
  <2>2. TypeOK'
    BY <1>0, <1>1, <1>5, <2>1 DEF MkRecGrab, TypeOK, WireTypeOK
  <2>3. mk_head \in mk_head..mk_tail-1
    BY <1>0, <1>5 DEF MkRecGrab, MkRingInv, TypeOK
  <2>4. aMem' = mk_head + 1
    BY <1>0, <1>5, <2>3 DEF MkRecGrab, MkRingInv
  <2>5. MkRecInv'
    BY <1>0, <1>1, <1>5, <2>3, <2>4 DEF MkRecGrab, MkRecInv, GoodRec, TypeOK
  <2>6. MkRingInv' /\ PcsRingInv'
    BY <1>0, <1>5, MkRingFrame, PcsRingFrame DEF MkRecGrab
  <2> QED
    BY <1>2, <1>3, <2>2, <2>5, <2>6 DEF CoreInv
<1>6. CASE MkRecRelease
  <2>1. TypeOK' /\ MkRecInv'
    BY <1>0, <1>1, <1>6 DEF MkRecRelease, TypeOK, WireTypeOK, MkRecInv, GoodRec
  <2>2. /\ mk_head' <= mk_tail /\ mk_tail <= mk_head' + MkRecPoolSize
        /\ p_pc = "publish" => mk_tail < mk_head' + MkRecPoolSize
        /\ mk_head'..mk_tail-1 \subseteq mk_head..mk_tail-1
    BY <1>0, <1>6 DEF MkRecRelease, MkRingInv, MkRecInv, TypeOK
  <2>3. MkRingInv'
    BY <1>0, <1>1, <2>2 DEF MkRingInv
  <2>4. PcsRingInv'
    BY <1>0, <1>6, PcsRingFrame DEF MkRecRelease
  <2> QED
    BY <1>2, <1>3, <2>1, <2>3, <2>4 DEF CoreInv
<1>7. CASE MkRecBuild
  <2>1. num_rec_fields \in 1..NCols
    BY <1>0, <1>7 DEF MkRecBuild, TypeOK, PhaseInv
  <2>2. mk_head # 1 => num_rec_fields = NCols
    BY <1>0, <1>7 DEF MkRecBuild, MkRecInv, MkRingInv, ProducerInv, TypeOK
  <2>3. ssd_record' \in Rec /\ GoodRec(ssd_record', mk_head)
    BY <1>0, <1>7, <2>1, <2>2 DEF MkRecBuild, MkRecInv, GoodRec, Rec, TypeOK
  <2>4. TypeOK'
    BY <1>0, <1>1, <1>7, <2>3 DEF MkRecBuild, TypeOK, WireTypeOK
  <2>5. MkRecInv'
    BY <1>0, <1>1, <1>7, <2>3 DEF MkRecBuild, MkRecInv, GoodRec
  <2>6. MkRingInv'
    BY <1>0, <1>7, MkRingFrame DEF MkRecBuild
  <2>7. PcsRingInv'
    BY <1>0, <1>7 DEF MkRecBuild, PcsRingInv, GoodRec
  <2> QED
    BY <1>2, <1>3, <2>4, <2>5, <2>6, <2>7 DEF CoreInv
<1>8. CASE MkRecPush
  <2>1. pcs_tail % RecPoolSize \in 0..RecPoolSize-1
    BY <1>0, SlotInRing DEF TypeOK
  <2>2. record_pool' \in [0..RecPoolSize-1 -> Rec]
    BY <1>0, <1>8, <2>1 DEF MkRecPush, TypeOK
  <2>3. TypeOK'
    BY <1>0, <1>1, <1>8, <2>2 DEF MkRecPush, TypeOK, WireTypeOK
  <2>4. MkRecInv'
    BY <1>0, <1>1, <1>8 DEF MkRecPush, MkRecInv, GoodRec
  <2>5. MkRingInv'
    BY <1>0, <1>8, MkRingFrame DEF MkRecPush
  <2>6. pcs_tail < pcs_head + RecPoolSize
    BY <1>0, <1>8 DEF MkRecPush, PcsRingInv, TypeOK
  <2>7. \A k \in pcs_head..pcs_tail-1 :
           record_pool'[k % RecPoolSize] = record_pool[k % RecPoolSize]
    <3> SUFFICES ASSUME NEW k \in pcs_head..pcs_tail-1
                 PROVE  record_pool'[k % RecPoolSize] = record_pool[k % RecPoolSize]
      OBVIOUS
    <3>1. k \in Nat /\ k < pcs_tail /\ pcs_tail < k + RecPoolSize
      BY <1>0, <2>6 DEF TypeOK
    <3>2. /\ k % RecPoolSize # pcs_tail % RecPoolSize
          /\ k % RecPoolSize \in 0..RecPoolSize-1
      BY <1>0, <3>1, SlotsDiffer, SlotInRing, Zenon DEF TypeOK
    <3> QED
      BY <1>0, <1>8, <3>2 DEF MkRecPush, TypeOK
  <2>8. record_pool'[pcs_tail % RecPoolSize] = ssd_record
    BY <1>0, <1>8, <2>1 DEF MkRecPush, TypeOK
  <2>9. PcsRingInv'
    BY <1>0, <1>1, <1>8, <2>6, <2>7, <2>8 DEF MkRecPush, PcsRingInv, GoodRec
  <2> QED
    BY <1>2, <1>3, <2>3, <2>4, <2>5, <2>9 DEF CoreInv
<1>9. CASE MkRecPublish
  <2>1. TypeOK' /\ MkRecInv'
    BY <1>0, <1>1, <1>9 DEF MkRecPublish, TypeOK, WireTypeOK, MkRecInv, GoodRec
  <2>2. MkRingInv'
    BY <1>0, <1>9, MkRingFrame DEF MkRecPublish
  <2>3. \A k \in pcs_head..pcs_tail : GoodRec(record_pool[k % RecPoolSize], k + 1)
    <3> SUFFICES ASSUME NEW k \in pcs_head..pcs_tail
                 PROVE  GoodRec(record_pool[k % RecPoolSize], k + 1)
      OBVIOUS
    <3>1. CASE k = pcs_tail
      BY <1>0, <1>9, <3>1 DEF MkRecPublish, PcsRingInv, MkRecInv
    <3>2. CASE k \in pcs_head..pcs_tail-1
      BY <1>0, <3>2 DEF PcsRingInv
    <3> QED
      BY <1>0, <3>1, <3>2 DEF TypeOK
  <2>4. PcsRingInv'
    BY <1>0, <1>1, <1>9, <2>3 DEF MkRecPublish, PcsRingInv, TypeOK, GoodRec
  <2> QED
    BY <1>2, <1>3, <2>1, <2>2, <2>4 DEF CoreInv
<1>10. CASE MkRecFinish
  <2>1. TypeOK' /\ MkRecInv'
    BY <1>0, <1>1, <1>10 DEF MkRecFinish, TypeOK, WireTypeOK, MkRecInv, GoodRec
  <2>2. MkRingInv' /\ PcsRingInv'
    BY <1>0, <1>10, MkRingFrame, PcsRingFrame DEF MkRecFinish
  <2> QED
    BY <1>2, <1>3, <2>1, <2>2 DEF CoreInv
<1> QED
  BY <1>4, <1>5, <1>6, <1>7, <1>8, <1>9, <1>10 DEF MkRec

\* What a packet that is put behind the others adds to the rows sent.
LEMMA SentStep ==
  ASSUME NEW pkt, wire \in Seq(Packet), pkt \in Packet, wire' = Append(wire, pkt)
  PROVE  /\ wire' \in Seq(Packet)
         /\ Len(wire') = Len(wire) + 1
         /\ wire'[Len(wire')] = pkt
         /\ \A i \in 1..Len(wire) : wire'[i] = wire[i]
         /\ \A i \in 0..Len(wire) : RowsUpTo(i)' = RowsUpTo(i)
         /\ Ended' <=> ~IsRec(pkt)
<1>1. /\ wire' \in Seq(Packet)
      /\ Len(wire') = Len(wire) + 1 /\ Len(wire) \in Nat
      /\ wire'[Len(wire')] = pkt
      /\ \A i \in 1..Len(wire) : wire'[i] = wire[i]
  OBVIOUS
<1>2. \A i \in 0..Len(wire) : RowsUpTo(i)' = RowsUpTo(i)
  BY <1>1 DEF RowsUpTo
<1>3. Ended' <=> ~IsRec(pkt)
  BY <1>1 DEF Ended, IsRec
<1> QED
  BY <1>1, <1>2, <1>3

\* The slot the consumer takes holds the record of row pcs_head+1.
LEMMA NextSlotGood ==
  ASSUME CoreInv, pcs_head # pcs_tail
  PROVE  /\ NextSlot \in Rec
         /\ GoodRec(NextSlot, pcs_head + 1)
         /\ pcs_head < pcs_tail
         /\ SizeOf(NextSlot) \in Int
<1>1. /\ TypeOK /\ PcsRingInv /\ MkRecInv /\ MkRingInv /\ ProducerInv
      /\ pcs_head \in Nat /\ pcs_tail \in Nat
  BY DEF CoreInv, TypeOK
<1>2. pcs_head \in pcs_head..pcs_tail-1 /\ pcs_head < pcs_tail
  BY <1>1 DEF PcsRingInv
<1>3. GoodRec(NextSlot, pcs_head + 1)
  BY <1>1, <1>2 DEF PcsRingInv, NextSlot
<1>4. NextSlot \in Rec
  BY <1>1, SlotInRing, PoolAssumption DEF TypeOK, NextSlot
<1>5. pcs_head + 1 \in Rows
  BY <1>1, <1>2, NRowsAssumption DEF MkRecInv, MkRingInv, ProducerInv, TypeOK, Rows
<1>6. SizeOf(NextSlot) \in 1..Payload
  BY <1>3, <1>5, RecLenAssumption, Zenon DEF GoodRec, SizeOf
<1> QED
  BY <1>2, <1>3, <1>4, <1>6, RecLenAssumption

\* The type invariant after a step of the consumer, from the variables that the
\* consumer writes.
LEMMA ConsumerType ==
  ASSUME TypeOK,
         UNCHANGED <<mainVars, prodVars, mkVars, mkRing, pcs_tail, pcs_done,
                     record_pool, num_rec_fields, query_sent, schema_sent>>,
         c_pc' \in {"off", "wait", "spin", "check", "recheck", "take", "release",
                    "send", "send_end", "exit"},
         in_batch' \in BOOLEAN, rec_pkt' \in Packet, window' \in Int,
         pcs_head' \in Nat, wire' \in Seq(Packet), rcvd' \in 0..Len(wire')
  PROVE  TypeOK'
<1>1. WireTypeOK'
  BY DEF TypeOK, WireTypeOK
<1> QED
  BY <1>1 DEF TypeOK, mainVars, prodVars, mkVars, mkRing

\* The consumer moves records from record_pool to a packet and sends it.
LEMMA CoreConsumer == CoreInv /\ Consumer => CoreInv'
<1> SUFFICES ASSUME CoreInv, Consumer PROVE CoreInv'
  OBVIOUS
<1> USE NRowsAssumption, NColsAssumption, PoolAssumption
<1>0. /\ TypeOK /\ PhaseInv /\ ProducerInv /\ MkRingInv
      /\ MkRecInv /\ PcsRingInv /\ ConsumerInv /\ WireInv
  BY DEF CoreInv
<1>T. /\ pcs_head \in Nat /\ pcs_tail \in Nat
      /\ in_batch \in BOOLEAN /\ rec_pkt \in Packet /\ window \in Int
      /\ wire \in Seq(Packet) /\ Len(wire) \in Nat /\ rcvd \in 0..Len(wire)
  BY <1>0 DEF TypeOK, WireTypeOK
<1>1. /\ UNCHANGED <<mainVars, prodVars, mkVars, mkRing, pcs_tail, pcs_done,
                     record_pool, num_rec_fields, query_sent, schema_sent, rcvd>>
      /\ c_pc \notin {"off", "exit"} /\ c_pc' # "off"
  BY DEF Consumer, ConsumerPoll, ConsumerFirst, ConsumerMore, ConsumerRelease,
         ConsumerSend, ConsumerSendEnd, WritePacket, AfterWait, AfterSpin,
         AfterCheck, AfterRecheck, Drained
<1>R. rcvd' = rcvd
  BY <1>1
<1>2. PhaseInv' /\ ProducerInv' /\ MkRingInv' /\ MkRecInv'
  <2>1. PhaseInv' /\ ProducerInv' /\ MkRecInv'
    BY <1>0, <1>1 DEF PhaseInv, ProducerInv, MkRecInv, GoodRec, BeforeThreads
  <2> QED
    BY <1>0, <1>1, <2>1, MkRingFrame
<1>3. CASE ConsumerPoll
  <2>1. UNCHANGED <<pcs_head, in_batch, rec_pkt, window, wire>>
    BY <1>3 DEF ConsumerPoll
  <2>2. /\ c_pc' \in {"spin", "wait", "check", "recheck", "take", Drained}
        /\ c_pc \in {"spin", "wait", "check", "recheck"}
    BY <1>3 DEF ConsumerPoll, AfterWait, AfterSpin, AfterCheck, AfterRecheck
  <2>3. TypeOK'
    BY <1>0, <1>T, <1>1, <2>1, <2>2, ConsumerType DEF Drained
  <2>4. PcsRingInv' /\ WireInv'
    BY <1>0, <1>1, <2>1, <2>2, PcsRingFrame, WireFrame DEF Drained
  <2>5. ConsumerInv'
    BY <1>0, <1>1, <2>1, <2>2, SentFrame
       DEF ConsumerInv, Drained, GoodBatch, GoodRec, IsRec, OnlyFirstShort
  <2> QED
    BY <1>2, <2>3, <2>4, <2>5 DEF CoreInv
<1>4. CASE ConsumerFirst
  <2> DEFINE rec == NextSlot
  <2>1. /\ rec \in Rec /\ GoodRec(rec, pcs_head + 1) /\ pcs_head < pcs_tail
        /\ SizeOf(rec) \in Int
    BY <1>4, NextSlotGood DEF ConsumerFirst
  <2>2. /\ UNCHANGED <<pcs_head, wire>> /\ c_pc = "take" /\ c_pc' = "release"
        /\ ~in_batch /\ in_batch' = TRUE
        /\ rec_pkt' = FreshBatch(rec)
        /\ window' = Payload - SizeOf(rec)
    BY <1>4 DEF ConsumerFirst
  <2> HIDE DEF rec
  <2>3. /\ rec_pkt'.serial_data = <<rec>> /\ rec_pkt'.num_records = 1
        /\ rec_pkt'.pkt_type = "REC_PKT" /\ rec_pkt' \in Packet
    BY <2>1, <2>2 DEF FreshBatch, Packet
  <2>4. TypeOK'
    <3>1. window' \in Int /\ in_batch' \in BOOLEAN
      BY <2>1, <2>2, RecLenAssumption
    <3> QED
      BY <1>0, <1>T, <1>1, <2>2, <2>3, <3>1, ConsumerType
  <2>5. PcsRingInv' /\ WireInv'
    BY <1>0, <1>1, <2>2, PcsRingFrame, WireFrame
  <2>6. Shipped' = pcs_head
    BY <1>0, <2>2, SentFrame DEF ConsumerInv
  <2>7. /\ Len(rec_pkt'.serial_data) = 1
        /\ \A j \in 1..1 : rec_pkt'.serial_data[j] = rec
        /\ rec_pkt'.serial_data # <<>>
    BY <2>3
  <2>8. GoodBatch(rec_pkt', pcs_head) /\ OnlyFirstShort(rec_pkt'.serial_data)
    BY SMTT(30), <1>0, <2>1, <2>3, <2>7 DEF GoodBatch, GoodRec, IsRec, OnlyFirstShort, TypeOK
  <2>9. ConsumerInv'
    BY <1>0, <1>1, <2>1, <2>2, <2>6, <2>7, <2>8
       DEF ConsumerInv, GoodBatch, GoodRec, IsRec, OnlyFirstShort
  <2> QED
    BY <1>2, <2>4, <2>5, <2>9 DEF CoreInv
<1>5. CASE ConsumerMore
  <2> DEFINE rec == NextSlot
             recs == rec_pkt.serial_data
  <2>1. /\ rec \in Rec /\ GoodRec(rec, pcs_head + 1) /\ pcs_head < pcs_tail
        /\ SizeOf(rec) \in Int
    BY <1>5, NextSlotGood DEF ConsumerMore
  <2>2. UNCHANGED <<pcs_head, wire, in_batch>> /\ c_pc = "take" /\ in_batch
    BY <1>5 DEF ConsumerMore
  <2>3. PcsRingInv'
    BY <1>0, <1>1, <2>2, PcsRingFrame
  <2>4. CASE Fits(rec)
    <3>1. /\ rec_pkt' = [rec_pkt EXCEPT !.num_records = @ + 1,
                                        !.serial_data = Append(@, rec)]
          /\ window' = window - SizeOf(rec)
          /\ c_pc' = "release"
      BY <1>5, <2>4 DEF ConsumerMore
    <3> HIDE DEF rec
    <3>2. /\ rec_pkt \in Packet /\ recs \in Seq(Rec)
          /\ rec_pkt.num_records \in Nat
      BY <1>0 DEF TypeOK, Packet
    <3>3. /\ rec_pkt' \in Packet
          /\ rec_pkt'.serial_data = Append(recs, rec)
          /\ rec_pkt'.num_records = rec_pkt.num_records + 1
          /\ rec_pkt'.pkt_type = rec_pkt.pkt_type
      <4>1. Append(recs, rec) \in Seq(Rec)
        BY <2>1, <3>2
      <4>2. rec_pkt.pkt_type \in {"REC_PKT", "END_PKT"}
        BY <3>2 DEF Packet
      <4>3. rec_pkt' = [pkt_type |-> rec_pkt.pkt_type,
                        num_records |-> rec_pkt.num_records + 1,
                        serial_data |-> Append(recs, rec)]
        BY <3>1, <3>2, Zenon DEF Packet
      <4> QED
        BY <3>2, <4>1, <4>2, <4>3 DEF Packet
    <3>4. TypeOK'
      <4>1. window' \in Int
        BY <1>T, <2>1, <3>1
      <4> QED
        BY <1>0, <1>T, <1>1, <2>2, <3>1, <3>3, <4>1, ConsumerType
    <3>5. WireInv'
      BY <1>0, <2>2, <3>1, WireFrame
    <3>6. /\ GoodBatch(rec_pkt, Shipped)
          /\ Shipped + Len(recs) = pcs_head
          /\ OnlyFirstShort(recs)
          /\ Shipped' = Shipped /\ Shipped \in Nat
      BY <1>0, <2>2, SentFrame DEF ConsumerInv
    <3>7. /\ Len(Append(recs, rec)) = Len(recs) + 1
          /\ Len(recs) \in Nat
          /\ \A j \in 1..Len(recs) : Append(recs, rec)[j] = recs[j]
          /\ Append(recs, rec)[Len(recs) + 1] = rec
          /\ Append(recs, rec) # <<>>
      BY <2>1, <3>2
    <3> HIDE DEF recs
    <3>8. \A j \in 1..Len(recs)+1 : GoodRec(Append(recs, rec)[j], Shipped + j)
      <4> SUFFICES ASSUME NEW j \in 1..Len(recs)+1
                   PROVE  GoodRec(Append(recs, rec)[j], Shipped + j)
        OBVIOUS
      <4>1. CASE j = Len(recs) + 1
        <5>1. Shipped + j = pcs_head + 1
          BY <1>T, <3>6, <3>7, <4>1
        <5> QED
          BY <2>1, <3>7, <4>1, <5>1
      <4>2. CASE j \in 1..Len(recs)
        BY <3>6, <3>7, <4>2 DEF GoodBatch, recs
      <4> QED
        BY <3>7, <4>1, <4>2
    <3>9. GoodBatch(rec_pkt', Shipped)
      BY <3>3, <3>6, <3>7, <3>8 DEF GoodBatch, IsRec, recs
    <3>10. OnlyFirstShort(rec_pkt'.serial_data)
      BY <1>T, <2>1, <3>3, <3>6, <3>7 DEF OnlyFirstShort, GoodRec
    <3>11. Shipped + Len(rec_pkt'.serial_data) = pcs_head + 1
      BY <1>T, <3>3, <3>6, <3>7
    <3>12. ConsumerInv'
      BY Zenon, <1>1, <2>1, <2>2, <3>1, <3>6, <3>9, <3>10, <3>11
         DEF ConsumerInv, GoodBatch, GoodRec, IsRec, OnlyFirstShort
    <3> QED
      BY <1>2, <2>3, <3>4, <3>5, <3>12 DEF CoreInv
  <2>5. CASE ~Fits(rec)
    <3>1. UNCHANGED <<rec_pkt, window>> /\ c_pc' = "send"
      BY <1>5, <2>5 DEF ConsumerMore
    <3>2. TypeOK'
      BY <1>0, <1>T, <1>1, <2>2, <3>1, ConsumerType
    <3>3. WireInv'
      BY <1>0, <2>2, <3>1, WireFrame
    <3>4. ConsumerInv'
      BY <1>0, <1>1, <2>2, <3>1, SentFrame
         DEF ConsumerInv, GoodBatch, GoodRec, IsRec, OnlyFirstShort
    <3> QED
      BY <1>2, <2>3, <3>2, <3>3, <3>4 DEF CoreInv
  <2> QED
    BY <2>4, <2>5
<1>6. CASE ConsumerRelease
  <2>1. /\ UNCHANGED <<in_batch, rec_pkt, window, wire>>
        /\ pcs_head' = pcs_head + 1 /\ c_pc = "release" /\ c_pc' = "wait"
    BY <1>6 DEF ConsumerRelease
  <2>2. TypeOK'
    BY <1>0, <1>T, <1>1, <2>1, ConsumerType
  <2>3. /\ pcs_head' <= pcs_tail /\ pcs_tail <= pcs_head' + RecPoolSize
        /\ m_pc = "publish" => pcs_tail < pcs_head' + RecPoolSize
        /\ pcs_head'..pcs_tail-1 \subseteq pcs_head..pcs_tail-1
    BY <1>0, <1>T, <2>1 DEF PcsRingInv, ConsumerInv
  <2>4. PcsRingInv'
    BY <1>0, <1>1, <2>3 DEF PcsRingInv, GoodRec
  <2>5. WireInv'
    BY <1>0, <2>1, WireFrame
  <2>6. ConsumerInv'
    BY <1>0, <1>1, <2>1, SentFrame
       DEF ConsumerInv, GoodBatch, GoodRec, IsRec, OnlyFirstShort
  <2> QED
    BY <1>2, <2>2, <2>4, <2>5, <2>6 DEF CoreInv
<1>7. CASE ConsumerSend
  <2>1. /\ UNCHANGED <<rec_pkt, window, pcs_head>>
        /\ wire' = Append(wire, rec_pkt)
        /\ c_pc = "send" /\ c_pc' = "wait" /\ in_batch' = FALSE
    BY <1>7 DEF ConsumerSend, WritePacket
  <2>2. /\ GoodBatch(rec_pkt, Shipped) /\ ~Ended
        /\ Shipped + Len(rec_pkt.serial_data) = pcs_head
        /\ OnlyFirstShort(rec_pkt.serial_data)
        /\ wire \in Seq(Packet) /\ rec_pkt \in Packet /\ Len(wire) \in Nat
    BY <1>0, <1>T, <2>1 DEF ConsumerInv, WireInv
  <2>3. /\ wire' \in Seq(Packet)
        /\ Len(wire') = Len(wire) + 1
        /\ wire'[Len(wire) + 1] = rec_pkt
        /\ \A i \in 1..Len(wire) : wire'[i] = wire[i]
        /\ \A i \in 0..Len(wire) : RowsUpTo(i)' = RowsUpTo(i)
        /\ ~Ended'
    BY <2>1, <2>2, SentStep DEF GoodBatch
  <2>4. TypeOK'
    <3>1. rcvd' \in 0..Len(wire')
      <4>1. Len(wire') = Len(wire) + 1
        BY <2>3
      <4> QED
        BY <1>T, <1>R, <4>1
    <3>2. in_batch' \in BOOLEAN
      BY <2>1, Zenon
    <3> QED
      BY <1>0, <1>T, <1>1, <2>1, <2>3, <3>1, <3>2, ConsumerType
  <2>5. PcsRingInv'
    BY <1>0, <1>1, <2>1, PcsRingFrame
  <2>6. Shipped = RowsUpTo(Len(wire))
    BY <2>2 DEF Shipped
  <2>7. Shipped' = pcs_head
    <3>1. Shipped' = RowsUpTo(Len(wire))'
      BY <2>3 DEF Shipped
    <3>2. RowsUpTo(Len(wire))' = rec_pkt.serial_data[Len(rec_pkt.serial_data)].row
      BY SMTT(30), <2>2, <2>3 DEF RowsUpTo
    <3>3. Len(rec_pkt.serial_data) \in 1..Len(rec_pkt.serial_data)
      BY <2>2 DEF GoodBatch, Packet
    <3> QED
      BY <2>2, <3>1, <3>2, <3>3 DEF GoodBatch, GoodRec
  <2>8. ConsumerInv'
    BY <1>T, <2>1, <2>2, <2>7 DEF ConsumerInv, OnlyFirstShort
  <2>9. WireInv'
    <3> SUFFICES ASSUME NEW i \in 1..Len(wire)+1
                 PROVE  /\ i < Len(wire) + 1 => IsRec(wire'[i])
                        /\ IsRec(wire'[i]) => GoodBatch(wire'[i], RowsUpTo(i - 1)')
                        /\ OnlyFirstShort(wire'[i].serial_data)
      BY <2>1, <2>3 DEF WireInv, GoodBatch, GoodRec, IsRec, OnlyFirstShort
    <3>1. CASE i = Len(wire) + 1
      <4>0. i - 1 = Len(wire) /\ Len(wire) \in 0..Len(wire)
        BY <1>T, <3>1
      <4>1. wire'[i] = rec_pkt
        BY <2>3, <3>1
      <4>2. RowsUpTo(i - 1)' = Shipped
        BY <2>3, <2>6, <4>0
      <4> QED
        <5>1. GoodBatch(wire'[i], RowsUpTo(i - 1)')
          BY <2>2, <4>1, <4>2
        <5>2. IsRec(wire'[i])
          BY <5>1 DEF GoodBatch
        <5>3. OnlyFirstShort(wire'[i].serial_data)
          BY <2>2, <4>1
        <5> QED
          BY <5>1, <5>2, <5>3
    <3>2. CASE i \in 1..Len(wire)
      <4>0. i - 1 \in 0..Len(wire)
        BY <1>T, <3>2
      <4>1. wire'[i] = wire[i]
        BY <2>3, <3>2
      <4>2. IsRec(wire[i])
        BY <1>0, <2>2, <3>2 DEF WireInv, Ended
      <4> QED
        BY <1>0, <2>3, <3>2, <4>0, <4>1, <4>2 DEF WireInv
    <3>3. i = Len(wire) + 1 \/ i \in 1..Len(wire)
      BY <1>T
    <3> QED
      BY <3>1, <3>2, <3>3
  <2> QED
    BY <1>2, <2>4, <2>5, <2>8, <2>9 DEF CoreInv
<1>8. CASE ConsumerSendEnd
  <2> DEFINE pkt == [rec_pkt EXCEPT !.pkt_type = "END_PKT"]
  <2>1. /\ UNCHANGED <<in_batch, window, pcs_head>>
        /\ rec_pkt' = pkt /\ wire' = Append(wire, pkt)
        /\ c_pc = "send_end" /\ c_pc' = "exit"
    BY <1>8 DEF ConsumerSendEnd, WritePacket
  <2>2. /\ ~in_batch /\ Shipped = pcs_head /\ ~Ended
        /\ OnlyFirstShort(rec_pkt.serial_data)
        /\ wire \in Seq(Packet) /\ rec_pkt \in Packet /\ Len(wire) \in Nat
    BY <1>0, <1>T, <2>1 DEF ConsumerInv, WireInv
  <2>3. /\ pkt \in Packet /\ ~IsRec(pkt)
        /\ pkt.serial_data = rec_pkt.serial_data
    BY <2>2 DEF Packet, IsRec
  <2> HIDE DEF pkt
  <2>4. /\ wire' \in Seq(Packet)
        /\ Len(wire') = Len(wire) + 1
        /\ wire'[Len(wire) + 1] = pkt
        /\ \A i \in 1..Len(wire) : wire'[i] = wire[i]
        /\ \A i \in 0..Len(wire) : RowsUpTo(i)' = RowsUpTo(i)
        /\ Ended'
    BY <2>1, <2>2, <2>3, SentStep
  <2>5. TypeOK'
    <3>1. rcvd' \in 0..Len(wire')
      <4>1. Len(wire') = Len(wire) + 1
        BY <2>4
      <4> QED
        BY <1>T, <1>R, <4>1
    <3> QED
      BY <1>0, <1>T, <1>1, <2>1, <2>3, <2>4, <3>1, ConsumerType
  <2>6. PcsRingInv'
    BY <1>0, <1>1, <2>1, PcsRingFrame
  <2>7. Shipped' = pcs_head
    <3>1. PICK n \in Nat : n = Len(wire)
      BY <2>2
    <3>2. Ended' /\ Len(wire') = Len(wire) + 1
      BY <2>4
    <3>3. Len(wire') - 1 = n /\ n \in 0..Len(wire)
      BY <1>T, <3>1, <3>2
    <3>4. Shipped = RowsUpTo(n)
      BY <2>2, <3>1 DEF Shipped
    <3>5. Shipped' = RowsUpTo(n)'
      BY <3>2, <3>3 DEF Shipped
    <3>6. \A i \in 0..Len(wire) : RowsUpTo(i)' = RowsUpTo(i)
      BY <2>4
    <3>7. RowsUpTo(n)' = RowsUpTo(n)
      BY <3>3, <3>6
    <3>8. Shipped = pcs_head
      BY <2>2
    <3> QED
      BY <3>4, <3>5, <3>7, <3>8
  <2>8. ConsumerInv'
    BY <1>T, <2>1, <2>2, <2>3, <2>7 DEF ConsumerInv, OnlyFirstShort
  <2>9. WireInv'
    <3> SUFFICES ASSUME NEW i \in 1..Len(wire)+1
                 PROVE  /\ i < Len(wire) + 1 => IsRec(wire'[i])
                        /\ IsRec(wire'[i]) => GoodBatch(wire'[i], RowsUpTo(i - 1)')
                        /\ OnlyFirstShort(wire'[i].serial_data)
      BY <2>1, <2>4 DEF WireInv, GoodBatch, GoodRec, IsRec, OnlyFirstShort
    <3>1. CASE i = Len(wire) + 1
      <4>1. wire'[i] = pkt
        BY <2>4, <3>1
      <4> QED
        <5>1. ~IsRec(wire'[i])
          BY <2>3, <4>1
        <5>2. OnlyFirstShort(wire'[i].serial_data)
          BY <2>2, <2>3, <4>1
        <5>3. ~(i < Len(wire) + 1)
          BY <1>T, <3>1
        <5> QED
          BY <5>1, <5>2, <5>3
    <3>2. CASE i \in 1..Len(wire)
      <4>0. i - 1 \in 0..Len(wire)
        BY <1>T, <3>2
      <4>1. wire'[i] = wire[i]
        BY <2>4, <3>2
      <4>2. IsRec(wire[i])
        BY <1>0, <2>2, <3>2 DEF WireInv, Ended
      <4> QED
        BY <1>0, <2>4, <3>2, <4>0, <4>1, <4>2 DEF WireInv
    <3>3. i = Len(wire) + 1 \/ i \in 1..Len(wire)
      BY <1>T
    <3> QED
      BY <3>1, <3>2, <3>3
  <2> QED
    BY <1>2, <2>5, <2>6, <2>8, <2>9 DEF CoreInv
<1> QED
  BY <1>3, <1>4, <1>5, <1>6, <1>7, <1>8 DEF Consumer

\* The host adds nothing to the storage server's state.
LEMMA CoreHost == CoreInv /\ (HostAsks \/ HostReads \/ UNCHANGED vars) => CoreInv'
<1> SUFFICES ASSUME CoreInv, HostAsks \/ HostReads \/ UNCHANGED vars
             PROVE  CoreInv'
  OBVIOUS
<1>0. /\ TypeOK /\ PhaseInv /\ ProducerInv /\ MkRingInv
      /\ MkRecInv /\ PcsRingInv /\ ConsumerInv /\ WireInv
  BY DEF CoreInv
<1>1. UNCHANGED <<storageVars, wire, schema_sent>>
  BY DEF HostAsks, HostReads, vars
<1>2. query_sent' \in {query_sent, TRUE}
  BY Zenon DEF HostAsks, HostReads, vars
<1>3. query_sent' \in BOOLEAN
  BY <1>0, <1>2, Zenon DEF TypeOK, WireTypeOK
<1>4. rcvd' \in 0..Len(wire)
  <2>1. rcvd \in 0..Len(wire) /\ Len(wire) \in Nat
    BY <1>0 DEF TypeOK, WireTypeOK
  <2>2. CASE HostReads
    BY <2>1, <2>2 DEF HostReads
  <2>3. CASE HostAsks \/ UNCHANGED vars
    BY <2>1, <2>3 DEF HostAsks, vars
  <2> QED
    BY <2>2, <2>3
<1>5. TypeOK'
  BY SMTT(30), <1>0, <1>1, <1>3, <1>4 DEF TypeOK, WireTypeOK
<1>6. PhaseInv' /\ ProducerInv' /\ MkRecInv'
  <2>1. PhaseInv'
    BY <1>0, <1>1 DEF PhaseInv, BeforeThreads
  <2>2. ProducerInv'
    BY <1>0, <1>1 DEF ProducerInv
  <2>3. MkRecInv'
    BY <1>0, <1>1 DEF MkRecInv, GoodRec
  <2> QED
    BY <2>1, <2>2, <2>3
<1>7. MkRingInv' /\ PcsRingInv' /\ ConsumerInv' /\ WireInv'
  <2>1. MkRingInv' /\ PcsRingInv'
    BY <1>0, <1>1, MkRingFrame, PcsRingFrame
  <2>2. ConsumerInv'
    BY <1>0, <1>1, ConsumerFrame DEF TypeOK
  <2>3. WireInv'
    BY <1>0, <1>1, WireFrame
  <2> QED
    BY <2>1, <2>2, <2>3
<1> QED
  BY <1>5, <1>6, <1>7 DEF CoreInv

LEMMA CoreStep == CoreInv /\ [Next]_vars => CoreInv'
  BY CoreMain, CoreProducer, CoreMkRec, CoreConsumer, CoreHost DEF Next, Storage

\* CoreInv holds in every reachable state, in whatever order the loads of the
\* busy waits are satisfied.
THEOREM CoreInvariant == Spec => []CoreInv
  BY CoreInit, CoreStep, PTL DEF Spec

\* Every variable of the storage server keeps its type.
THEOREM TypeCorrect == Spec => []TypeOK
<1>1. CoreInv => TypeOK
  BY DEF CoreInv
<1> QED
  BY <1>1, CoreInvariant, PTL

\* Neither ring of the storage server is ever written where its reader still
\* has to read: OP_ResultRow and make_ssd_record only fill free slots.
THEOREM SlotsSafe == Spec => []NoSlotRace
<1>1. CoreInv => NoSlotRace
  <2> SUFFICES ASSUME CoreInv PROVE NoSlotRace
    OBVIOUS
  <2>1. ASSUME p_pc = "publish", NEW k \in mk_head..mk_tail-1
        PROVE  k % MkRecPoolSize # mk_tail % MkRecPoolSize
    <3>1. /\ k \in Nat /\ mk_tail \in Nat /\ k < mk_tail
          /\ mk_tail < k + MkRecPoolSize
      <4>1. mk_head \in Nat /\ mk_tail \in Nat
        BY DEF CoreInv, TypeOK
      <4>2. MkRingInv
        BY DEF CoreInv
      <4>3. mk_tail < mk_head + MkRecPoolSize
        BY <2>1, <4>2 DEF MkRingInv
      <4> QED
        BY <2>1, <4>1, <4>3, PoolAssumption
    <3> QED
      BY <3>1, SlotsDiffer, PoolAssumption, Zenon
  <2>2. ASSUME m_pc = "publish", NEW k \in pcs_head..pcs_tail-1
        PROVE  k % RecPoolSize # pcs_tail % RecPoolSize
    <3>1. /\ k \in Nat /\ pcs_tail \in Nat /\ k < pcs_tail
          /\ pcs_tail < k + RecPoolSize
      <4>1. pcs_head \in Nat /\ pcs_tail \in Nat
        BY DEF CoreInv, TypeOK
      <4>2. PcsRingInv
        BY DEF CoreInv
      <4>3. pcs_tail < pcs_head + RecPoolSize
        BY <2>2, <4>2 DEF PcsRingInv
      <4> QED
        BY <2>2, <4>1, <4>3, PoolAssumption
    <3> QED
      BY <3>1, SlotsDiffer, PoolAssumption, Zenon
  <2> QED
    BY <2>1, <2>2 DEF NoSlotRace
<1> QED
  BY <1>1, CoreInvariant, PTL

\* The packets hold the rows of the scan in order, each once, with the right
\* counts, and nothing follows the end packet.
THEOREM PacketsInOrder == Spec => []InOrder
<1>1. CoreInv => InOrder
  BY DEF CoreInv, WireInv, GoodBatch, GoodRec, InOrder
<1> QED
  BY <1>1, CoreInvariant, PTL

\* A stale num_rec_fields can only have gone into the record of the first row.
THEOREM ShortRecords == Spec => []OnlyFirstRowShort
<1>1. CoreInv => OnlyFirstRowShort
  BY DEF CoreInv, WireInv, OnlyFirstShort, OnlyFirstRowShort
<1> QED
  BY <1>1, CoreInvariant, PTL

-----------------------------------------------------------------------------
(***************************************************************************)
(* DoneInv, when loads happen in program order.                            *)
(***************************************************************************)

\* A thread that is about to leave its loop stays right: done is set last by
\* a thread that no longer publishes.
LEMMA DoneStep ==
  ASSUME ~WeakLoads
  PROVE  CoreInv /\ DoneInv /\ [Next]_vars => DoneInv'
<1> SUFFICES ASSUME CoreInv, DoneInv, [Next]_vars PROVE DoneInv'
  OBVIOUS
<1>0. TypeOK /\ PhaseInv /\ ProducerInv /\ MkRecInv /\ ConsumerInv
  BY DEF CoreInv
<1> USE DEF DoneInv
<1>1. CASE Main
  BY Zenon, <1>0, <1>1
     DEF Main, MainRecv, MainCreate, MainSchema, MainReply, MainSpawnProducer,
         MainSpawnMkRecord, MainSpawnConsumer, MainJoin, MainDrop, MainStep,
         Joined, PhaseInv, BeforeThreads
<1>2. CASE Producer
  BY <1>0, <1>2
     DEF Producer, ProducerStep, ProducerPush, ProducerPublish, ProducerReturn,
         ProducerFinish, ProducerInv
<1>3. CASE MkRec
  BY <1>0, <1>3
     DEF MkRec, MkRecPoll, MkRecGrab, MkRecRelease, MkRecBuild, MkRecPush,
         MkRecPublish, MkRecFinish, AfterWait, AfterSpin, AfterCheck,
         AfterRecheck, MkRecInv
<1>4. CASE Consumer
  BY <1>0, <1>4
     DEF Consumer, ConsumerPoll, ConsumerFirst, ConsumerMore, ConsumerRelease,
         ConsumerSend, ConsumerSendEnd, WritePacket, AfterWait, AfterSpin,
         AfterCheck, AfterRecheck, Drained, Alive
<1>5. CASE HostAsks \/ HostReads \/ UNCHANGED vars
  BY <1>5 DEF HostAsks, HostReads, vars
<1> QED
  BY <1>1, <1>2, <1>3, <1>4, <1>5 DEF Next, Storage

\* With loads in program order the whole inductive invariant holds.
THEOREM DoneInvariant == ~WeakLoads => (Spec => []IndInv)
<1> SUFFICES ASSUME ~WeakLoads PROVE Spec => []IndInv
  OBVIOUS
<1>1. Init => DoneInv
  BY DEF Init, SInit, DoneInv
<1>2. CoreInv /\ DoneInv /\ [Next]_vars => DoneInv'
  BY DoneStep
<1>3. Spec => []DoneInv
  BY <1>1, <1>2, CoreInvariant, PTL DEF Spec
<1> QED
  BY <1>3, CoreInvariant, PTL DEF IndInv

\* With loads in program order the done flags lose no row: when the end packet
\* is out, every published row has been sent, all of them if the scan did not
\* fail.
THEOREM NoRowLost == ~WeakLoads => (Spec => []EndComplete)
<1> SUFFICES ASSUME ~WeakLoads PROVE Spec => []EndComplete
  OBVIOUS
<1>1. IndInv => EndComplete
  <2> SUFFICES ASSUME IndInv, Ended
               PROVE  /\ RowsUpTo(Len(wire) - 1) = mk_tail
                      /\ exec_ok => mk_tail = NRows
    BY DEF EndComplete
  <2>1. c_pc = "exit" /\ ~in_batch
    BY Zenon DEF IndInv, CoreInv, WireInv, ConsumerInv
  <2>2. RowsUpTo(Len(wire) - 1) = pcs_head
    BY <2>1 DEF IndInv, CoreInv, ConsumerInv, Shipped
  <2>3. m_pc = "exit" /\ pcs_head = pcs_tail
    BY <2>1 DEF IndInv, CoreInv, DoneInv, MkRecInv
  <2>4. p_pc = "exit" /\ mk_head = mk_tail /\ mk_head = pcs_tail
    BY <2>3 DEF IndInv, CoreInv, DoneInv, MkRecInv, ProducerInv
  <2>5. exec_ok => mk_tail = NRows
    BY <2>4 DEF IndInv, CoreInv, ProducerInv
  <2> QED
    BY <2>2, <2>3, <2>4, <2>5
<1> QED
  BY <1>1, DoneInvariant, PTL

\* With loads in program order joining the consumer is joining all three
\* threads.
THEOREM JoinSuffices == ~WeakLoads => (Spec => []JoinCoversAllThreads)
<1> SUFFICES ASSUME ~WeakLoads PROVE Spec => []JoinCoversAllThreads
  OBVIOUS
<1>1. IndInv => JoinCoversAllThreads
  BY DEF IndInv, CoreInv, DoneInv, MkRecInv, ProducerInv, JoinCoversAllThreads
<1> QED
  BY <1>1, DoneInvariant, PTL

=============================================================================
