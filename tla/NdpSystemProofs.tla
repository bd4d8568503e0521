-------------------------- MODULE NdpSystemProofs ---------------------------
(***************************************************************************)
(* Proofs about the two servers together, for every number of rows and     *)
(* columns and every size of the rings, of the packets, of the records and *)
(* of the socket buffers.                                                  *)
(*                                                                         *)
(* SysInv is preserved by every step whatever WeakLoads is.  With loads in *)
(* program order the two servers implement OffloadedQuery.                 *)
(***************************************************************************)
EXTENDS NdpHostSteps

USE DEF mainVars, prodVars, mkVars, consVars, mkRing, pcsRing, storageVars,
        wireVars, hostMain, hostProd, hostCons, hostRing, hostVars

-----------------------------------------------------------------------------
(***************************************************************************)
(* What follows.                                                           *)
(***************************************************************************)

\* Every packet the host has read is in its producer's hands, in its ring or
\* taken, and the table follows the rows of the packets that were taken.
THEOREM SysInvariant == SysSpec => []SysInv
  BY SysInitInv, SysStep, PTL DEF SysSpec

\* The host server is one of the hosts the storage server was proved against:
\* every theorem about Spec holds of the two servers together.
THEOREM StorageInSystem == SysSpec => Spec
<1>1. SysInit => Init
  BY DEF SysInit, Init
<1>2. SysInv /\ [SysNext]_sysVars => [Next]_vars
  BY StepOfStorage DEF SysInv, HostInv, CoreInv
<1> QED
  BY <1>1, <1>2, SysInvariant, PTL DEF SysSpec, Spec

\* The host's producer_func only fills slots its consumer_func has taken.
THEOREM HostSlotsSafe == SysSpec => []HostNoSlotRace
<1>1. SysInv => HostNoSlotRace
  <2> SUFFICES ASSUME SysInv, hp_pc = "publish", NEW k \in h_head..h_tail-1
               PROVE  k % BufPoolSize # h_tail % BufPoolSize
    BY DEF HostNoSlotRace
  <2>1. h_head \in Nat /\ h_tail \in Nat
    BY DEF SysInv, HostInv, SysTypeOK
  <2>2. h_tail < h_head + BufPoolSize
    BY DEF SysInv, HostInv, HostRingInv
  <2>3. k \in Nat /\ k < h_tail /\ h_tail < k + BufPoolSize
    BY <2>1, <2>2, BufPoolAssumption
  <2> QED
    BY <2>1, <2>3, SlotsDiffer, BufPoolAssumption, Zenon
<1> QED
  BY <1>1, SysInvariant, PTL

\* The in-memory table never holds a row of the scan twice, its rows are in scan
\* order but for one stored under rowid -1 in front of them, and it is an initial
\* segment of the scan as long as no insertion has failed.
THEOREM TableInOrder == SysSpec => []TableFollowsScan
<1>1. SysInv => TableFollowsScan
  BY DEF SysInv, HostInv, TableInv, TableFollowsScan
<1> QED
  BY <1>1, SysInvariant, PTL

\* Once the host's consumer has ended, the storage server is through with the
\* scan and every published row has been offered to the table.
LEMMA AllOffered ==
  ASSUME SysInv, DoneInv, hc_pc = "exit"
  PROVE  Offered = mk_tail /\ mk_done /\ (exec_ok => mk_tail = NRows)
<1>1. /\ h_head \in Nat /\ h_tail \in Nat /\ rcvd \in Nat /\ Len(wire) \in Nat
      /\ h_head <= h_tail /\ h_tail <= rcvd /\ rcvd <= Len(wire)
      /\ wire \in Seq(Packet)
  BY HostCounters DEF SysInv
<1>2. h_head > 0 /\ ~IsRec(wire[h_head]) /\ Offered = RowsUpTo(h_head - 1)
  BY DEF SysInv, HostInv, HostConsumerInv, Offered
<1>3. h_head = Len(wire) /\ Ended
  <2>1. h_head \in 1..Len(wire)
    BY <1>1, <1>2
  <2>2. ~(h_head < Len(wire))
    BY <1>2, <2>1 DEF SysInv, CoreInv, WireInv
  <2>3. h_head = Len(wire)
    BY <1>1, <2>1, <2>2
  <2> QED
    BY <1>1, <1>2, <2>3 DEF Ended
<1>4. c_pc = "exit" /\ ~in_batch
  BY <1>3 DEF SysInv, CoreInv, WireInv, ConsumerInv
<1>5. Offered = pcs_head
  BY <1>2, <1>3, <1>4 DEF SysInv, CoreInv, ConsumerInv, Shipped
<1>6. m_pc = "exit" /\ pcs_head = pcs_tail
  BY <1>4 DEF SysInv, CoreInv, DoneInv, MkRecInv
<1>7. /\ p_pc = "exit" /\ mk_done /\ mk_head = mk_tail /\ mk_head = pcs_tail
  BY <1>6 DEF SysInv, CoreInv, DoneInv, MkRecInv, ProducerInv
<1>8. exec_ok => mk_tail = NRows
  BY <1>7 DEF SysInv, CoreInv, ProducerInv
<1> QED
  BY <1>5, <1>6, <1>7, <1>8

\* With loads in program order the inductive invariants of both servers hold.
LEMMA SysDone == ~WeakLoads => (SysSpec => [](SysInv /\ DoneInv))
<1> SUFFICES ASSUME ~WeakLoads PROVE SysSpec => [](SysInv /\ DoneInv)
  OBVIOUS
<1>1. IndInv => DoneInv
  BY DEF IndInv
<1> QED
  BY <1>1, SysInvariant, StorageInSystem, DoneInvariant, PTL

\* With loads in program order the outer query runs over every row the storage
\* server published, the whole result unless the subquery failed there.
THEOREM OuterQueryComplete == ~WeakLoads => (SysSpec => []OuterQuerySeesAllRows)
<1> SUFFICES ASSUME ~WeakLoads PROVE SysSpec => []OuterQuerySeesAllRows
  OBVIOUS
<1>1. SysInv /\ DoneInv => OuterQuerySeesAllRows
  <2> SUFFICES ASSUME SysInv, DoneInv, h_main \in {"query", "exit"}, insert_ok
               PROVE  /\ Len(table) = mk_tail /\ minus_one = 0
                      /\ exec_ok => Len(table) = NRows
    BY DEF OuterQuerySeesAllRows
  <2>1. hc_pc = "exit"
    BY DEF SysInv, HostInv, HostPhaseInv
  <2>2. Len(table) = Offered /\ minus_one = 0
    BY DEF SysInv, HostInv, TableInv
  <2> QED
    BY <2>1, <2>2, AllOffered
<1> QED
  BY <1>1, SysDone, PTL

-----------------------------------------------------------------------------
(***************************************************************************)
(* The two servers implement OffloadedQuery.                               *)
(***************************************************************************)

\* The table as OffloadedQuery sees it.
TableRows == [i \in 1..Len(table) |-> table[i].row]

LEMMA RowsTyped ==
  ASSUME SysInv
  PROVE  /\ table \in Seq(Rec) /\ Len(table) \in Nat
         /\ TableRows \in Seq(Int) /\ Len(TableRows) = Len(table)
<1>1. table \in Seq(Rec) /\ Len(table) \in Nat
  BY DEF SysInv, HostInv, SysTypeOK
<1>2. \A i \in 1..Len(table) : table[i] \in Rec
  BY <1>1
<1>3. \A i \in 1..Len(table) : table[i].row \in Int
  BY <1>2 DEF Rec
<1> QED
  BY <1>1, <1>3 DEF TableRows

LEMMA RowsAppended ==
  ASSUME SysInv, NEW rec \in Rec, table' = Append(table, rec)
  PROVE  TableRows' = Append(TableRows, rec.row)
<1>1. /\ table \in Seq(Rec) /\ Len(table) \in Nat
      /\ TableRows \in Seq(Int) /\ Len(TableRows) = Len(table)
  BY RowsTyped
<1>2. /\ Len(table') = Len(table) + 1
      /\ \A i \in 1..Len(table) : table'[i] = table[i]
      /\ table'[Len(table) + 1] = rec
  BY <1>1
<1>3. TableRows' = [i \in 1..Len(table) + 1 |-> table'[i].row]
  BY <1>2 DEF TableRows
<1>4. Append(TableRows, rec.row) =
        [i \in 1..Len(table) + 1 |->
           IF i = Len(table) + 1 THEN rec.row ELSE TableRows[i]]
  BY <1>1
<1>5. ASSUME NEW i \in 1..Len(table) + 1
      PROVE  table'[i].row = IF i = Len(table) + 1 THEN rec.row ELSE TableRows[i]
  <2>1. CASE i = Len(table) + 1
    BY <1>2, <2>1
  <2>2. CASE i \in 1..Len(table)
    <3>1. TableRows[i] = table[i].row
      BY <2>2 DEF TableRows
    <3>2. table'[i] = table[i] /\ i # Len(table) + 1
      BY <1>1, <1>2, <2>2
    <3> QED
      BY <3>1, <3>2
  <2> QED
    BY <1>1, <2>1, <2>2
<1> QED
  BY <1>3, <1>4, <1>5

\* The last row taken is at most the last one offered, and is that one, and the
\* last of the table, if no insertion has failed.
LEMMA LastRow ==
  ASSUME SysInv
  PROVE  /\ Query!LastTaken \in Nat /\ Offered \in Nat
         /\ Query!LastTaken <= Offered
         /\ insert_ok => Query!LastTaken = Offered /\ Query!LastInTable = Offered
<1>1. table \in Seq(Rec) /\ Len(table) \in Nat /\ TableInv
  BY DEF SysInv, HostInv, SysTypeOK
<1>2. TableRows \in Seq(Int) /\ Len(TableRows) = Len(table)
  BY RowsTyped
<1>3. Query!LastInTable = IF TableRows = <<>> THEN 0 ELSE TableRows[Len(TableRows)]
  BY DEF Query!LastInTable, TableRows
<1>6. /\ Query!LastInTable \in Nat /\ Query!LastInTable <= Offered
      /\ insert_ok => Query!LastInTable = Offered
  <2>4. CASE Len(table) = 0
    <3>1. TableRows = <<>>
      BY <1>2, <2>4
    <3> QED
      BY <1>1, <1>3, <2>4, <3>1 DEF TableInv
  <2>5. CASE Len(table) # 0
    <3>1. TableRows # <<>> /\ Len(table) \in 1..Len(table)
      BY <1>1, <1>2, <2>5
    <3>2. Query!LastInTable = table[Len(table)].row
      BY <1>2, <1>3, <3>1 DEF TableRows
    <3> QED
      BY <1>1, <3>1, <3>2 DEF TableInv
  <2> QED
    BY <2>4, <2>5
<1>7. /\ Query!LastTaken = IF minus_one > Query!LastInTable THEN minus_one
                           ELSE Query!LastInTable
      /\ minus_one \in 0..Offered /\ Offered \in Nat /\ (insert_ok => minus_one = 0)
  BY <1>1 DEF Query!LastTaken, TableInv
<1> QED
  BY <1>6, <1>7

\* Steps of the storage server are steps of the scan, or nothing.
LEMMA QueryStorage ==
  ASSUME SysInv, Storage, UNCHANGED hostVars
  PROVE  [Query!QueryNext]_(Query!queryVars)
<1>0. TypeOK /\ ProducerInv /\ ScanInv /\ PhaseInv
  BY DEF SysInv, HostInv, CoreInv
<1> USE DEF Query!QueryNext, Query!queryVars
<1>1. CASE ProducerStep
  BY <1>0, <1>1 DEF ProducerStep, ProducerInv, TypeOK, Query!ScanFails
<1>2. CASE ProducerPublish
  <2>1. /\ p_pc = "publish" /\ mk_tail' = mk_tail + 1
        /\ UNCHANGED <<exec_ok, mk_done>>
    BY <1>2 DEF ProducerPublish
  <2>2. ~mk_done /\ exec_ok /\ p_row = mk_tail + 1
    BY <1>0, <2>1 DEF ProducerInv, ScanInv
  <2>3. mk_tail < NRows
    BY <1>0, <2>2, NRowsAssumption DEF TypeOK
  <2> QED
    BY <2>1, <2>2, <2>3 DEF Query!ScanRow
<1>3. CASE ProducerReturn
  BY <1>0, <1>3 DEF ProducerReturn, ProducerInv, TypeOK, Query!ScanFails
<1>4. CASE ProducerFinish
  BY <1>0, <1>4, Zenon DEF ProducerFinish, ProducerInv, Query!ScanEnds
<1>5. CASE ProducerPush
  BY <1>5 DEF ProducerPush
<1>6. CASE Main
  BY <1>6 DEF Main, MainRecv, MainCreate, MainSchema, MainReply,
     MainSpawnProducer, MainSpawnMkRecord, MainSpawnConsumer, MainJoin, MainDrop
<1>7. CASE MkRec \/ Consumer
  BY <1>7 DEF MkRec, MkRecPoll, MkRecGrab, MkRecRelease, MkRecBuild,
     MkRecPush, MkRecPublish, MkRecFinish, Consumer, ConsumerPoll,
     ConsumerFirst, ConsumerMore, ConsumerRelease, ConsumerSend, ConsumerSendEnd
<1> QED
  BY <1>1, <1>2, <1>3, <1>4, <1>5, <1>6, <1>7 DEF Storage, Producer

\* Steps of the host insert the next row, put it in front, lose it, or answer the
\* query.
LEMMA QueryHost ==
  ASSUME SysInv, DoneInv, Host, UNCHANGED storageVars
  PROVE  [Query!QueryNext]_(Query!queryVars)
<1>0. TypeOK /\ SysTypeOK /\ HostPhaseInv /\ TableInv
  BY DEF SysInv, HostInv, CoreInv
<1>L. /\ Query!LastTaken \in Nat /\ Offered \in Nat
      /\ Query!LastTaken <= Offered
      /\ insert_ok => Query!LastTaken = Offered /\ Query!LastInTable = Offered
  BY LastRow
<1> USE DEF Query!QueryNext, Query!queryVars
<1>1. CASE HMainJoin
  <2>1. /\ h_main = "join" /\ h_main' = "query" /\ hc_pc = "exit"
        /\ UNCHANGED <<table, minus_one, insert_ok>>
    BY <1>1 DEF HMainJoin, HJoined
  <2>2. Offered = mk_tail /\ mk_done
    BY <2>1, AllOffered
  <2> QED
    BY <1>L, <2>1, <2>2 DEF Query!AnswerQuery
<1>2. CASE HMain /\ ~HMainJoin
  <2>1. /\ UNCHANGED <<table, minus_one, insert_ok>>
        /\ (h_main' \in {"query", "exit"}) <=> (h_main \in {"query", "exit"})
    BY <1>2 DEF HMain, HMainSend, HMainSchema, HMainSpawnProducer,
       HMainSpawnConsumer, HMainQuery, HMainStep
  <2> QED
    BY <2>1
<1>3. CASE HProducer
  <2>1. UNCHANGED <<table, minus_one, insert_ok, h_main>>
    BY <1>3 DEF HProducer, HProducerRecv, HProducerPush, HProducerPublish,
       HProducerTest
  <2> QED
    BY <2>1
<1>4. CASE HConsumerTake \/ HConsumerRelease \/ HConsumerFree
  <2>1. UNCHANGED <<table, minus_one, insert_ok, h_main>>
    BY <1>4 DEF HConsumerTake, HConsumerRelease, HConsumerFree
  <2> QED
    BY <2>1
<1>5. CASE HConsumerInsert
  <2>1. /\ hc_pc = "insert" /\ hc_next <= hc_batch.num_records
        /\ UNCHANGED h_main
    BY <1>5 DEF HConsumerInsert
  <2>2. /\ NextRecord \in Rec /\ NextRecord.row = Offered + 1
        /\ NextRecord.row <= mk_tail /\ mk_tail \in Nat
    BY <1>0, <2>1, NextIsNext DEF TypeOK
  <2>3. h_main \notin {"query", "exit"}
    BY <1>0, <2>1 DEF HostPhaseInv
  <2>4. CASE table' = Append(table, NextRecord) /\ UNCHANGED <<minus_one, insert_ok>>
    <3> DEFINE r == NextRecord.row
    <3>1. r \in Query!LastTaken + 1 .. mk_tail
      BY <1>L, <2>2
    <3>2. insert_ok => r = Query!LastTaken + 1
      BY <1>L, <2>2
    <3>3. TableRows' = Append(TableRows, r)
      BY <2>2, <2>4, RowsAppended
    <3> HIDE DEF r
    <3>4. \E q \in Query!LastTaken + 1 .. mk_tail :
            /\ insert_ok => q = Query!LastTaken + 1
            /\ TableRows' = Append(TableRows, q)
      BY <3>1, <3>2, <3>3
    <3>5. Query!InsertRow
      BY <2>1, <2>3, <2>4, <3>4 DEF Query!InsertRow, TableRows
    <3> QED
      BY <3>5
  <2>5. CASE insert_ok' = FALSE /\ UNCHANGED <<table, minus_one>>
    BY <1>L, <2>1, <2>2, <2>3, <2>5 DEF Query!LoseRow
  <2>6. CASE insert_ok' = FALSE /\ minus_one' = NextRecord.row /\ UNCHANGED table
    BY <1>L, <2>1, <2>2, <2>3, <2>6 DEF Query!DisplaceRow
  <2> QED
    BY <1>5, <2>4, <2>5, <2>6, Zenon DEF HConsumerInsert
<1> QED
  BY <1>1, <1>2, <1>3, <1>4, <1>5 DEF Host, HConsumer

\* With loads in program order the two servers implement the query as its
\* issuer sees it: rows arrive in scan order and the outer query is answered
\* once, after the scan, over every row that was not lost by an insertion.
THEOREM QueryImplemented == ~WeakLoads => (SysSpec => ImplementsQuery)
<1> SUFFICES ASSUME ~WeakLoads PROVE SysSpec => ImplementsQuery
  OBVIOUS
<1>1. SysInit => Query!QueryInit
  BY DEF SysInit, SInit, HInit, Query!QueryInit
<1>2. SysInv /\ DoneInv /\ [SysNext]_sysVars => [Query!QueryNext]_(Query!queryVars)
  <2> SUFFICES ASSUME SysInv, DoneInv, [SysNext]_sysVars
               PROVE  [Query!QueryNext]_(Query!queryVars)
    OBVIOUS
  <2>1. CASE UNCHANGED sysVars
    BY <2>1 DEF sysVars, Query!queryVars
  <2> QED
    BY <2>1, QueryStorage, QueryHost DEF SysNext
<1> QED
  BY <1>1, <1>2, SysDone, PTL DEF SysSpec, ImplementsQuery, Query!QuerySpec

=============================================================================
