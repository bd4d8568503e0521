-------------------------- MODULE StoragePipeline --------------------------
(***************************************************************************)
(* The storage server of one offloaded query: main (sec_ssd_server.c) and  *)
(* its three threads.                                                      *)
(*                                                                         *)
(*   producer_func --rec_queue--> mk_rec_thread --record_pool-->           *)
(*                                    consumer_func --SSL_write--> host    *)
(*                                                                         *)
(* The producer runs the subquery; OP_ResultRow, patched into SQLite, puts *)
(* a copy of each result row in rec_queue.  make_ssd_record() turns a row  *)
(* into a SQLite record in record_pool.  The consumer packs records into   *)
(* packets and writes them to the connection.  Both rings are single       *)
(* producer, single consumer; head and tail only grow and are masked when  *)
(* they index a slot.  All waiting is busy waiting on plain variables, so  *)
(* every load of a variable that another thread writes is its own step.    *)
(***************************************************************************)
EXTENDS NdpWire

CONSTANTS
  MkRecPoolSize,  \* MK_REC_POOL_SIZE, slots of rec_queue
  RecPoolSize,    \* REC_POOL_SIZE, slots of record_pool
  Payload,        \* bytes of serial_data in a packet
  RecLen,         \* RecLen[row][n]: bytes of row's record when built with n fields
  WeakLoads       \* TRUE: a core may satisfy two loads out of program order

Rows == 1..NRows

ASSUME PoolAssumption ==
  /\ MkRecPoolSize \in Nat \ {0}
  /\ RecPoolSize \in Nat \ {0}
\* The code copies the first record of a packet without comparing its size
\* with the window, so it relies on every record fitting in an empty packet.
ASSUME RecLenAssumption ==
  /\ Payload \in Nat
  /\ RecLen \in [Rows -> [1..NCols -> 1..Payload]]
ASSUME WeakLoadsAssumption == WeakLoads \in BOOLEAN

VARIABLES
  s_main,                     \* where main is
  p_pc, p_row, exec_ok,       \* producer: position, rows stepped, exec's result
  m_pc, aMem, ssd_record,     \* mk_rec_thread and its locals
  c_pc, in_batch, rec_pkt, window,   \* consumer and its locals
  mk_head, mk_tail, mk_done, rec_queue,     \* mk_rec_state
  pcs_head, pcs_tail, pcs_done, record_pool,  \* pcs_state
  num_rec_fields              \* the global field count of sec_sqlite3.c

mainVars == <<s_main>>
prodVars == <<p_pc, p_row, exec_ok>>
mkVars   == <<m_pc, aMem, ssd_record>>
consVars == <<c_pc, in_batch, rec_pkt, window>>
mkRing   == <<mk_head, mk_tail, mk_done, rec_queue>>
pcsRing  == <<pcs_head, pcs_tail, pcs_done, record_pool>>
storageVars == <<mainVars, prodVars, mkVars, consVars, mkRing, pcsRing,
                 num_rec_fields>>

NoRec == [row |-> 0, nField |-> 0]

\* rec_pkt is not initialized: if no row is ever batched, the end packet is
\* sent with whatever count was on the stack.
UnsetPacket(n) == [pkt_type |-> "REC_PKT", num_records |-> n, serial_data |-> <<>>]

SInit ==
  /\ s_main = "recv"
  /\ p_pc = "off" /\ p_row = 0 /\ exec_ok = TRUE
  /\ m_pc = "off" /\ aMem = 0 /\ ssd_record = NoRec
  /\ c_pc = "off" /\ in_batch = FALSE /\ window = 0
  /\ rec_pkt \in {UnsetPacket(n) : n \in 0..1}
  /\ mk_head = 0 /\ mk_tail = 0 /\ mk_done = FALSE
  /\ rec_queue = [i \in 0..MkRecPoolSize-1 |-> 0]
  /\ pcs_head = 0 /\ pcs_tail = 0 /\ pcs_done = FALSE
  /\ record_pool = [i \in 0..RecPoolSize-1 |-> NoRec]
  /\ num_rec_fields = -1

-----------------------------------------------------------------------------
(***************************************************************************)
(* main.  Returning from main ends the process and every thread with it.   *)
(***************************************************************************)
Alive == s_main \notin {"exit", "failed"}

\* main moves on, or one of its calls fails and it returns.
MainStep(from, to) ==
  /\ s_main = from
  /\ s_main' \in {to, "failed"}

\* The 4096-byte read of the subquery.
MainRecv ==
  /\ s_main = "recv"
  /\ query_sent
  /\ s_main' = "create"
  /\ UNCHANGED <<prodVars, mkVars, consVars, mkRing, pcsRing, num_rec_fields,
                 wireVars>>

\* CREATE TEMPORARY TABLE TABLE1 AS <subquery> LIMIT 0, run with no callback.
MainCreate ==
  /\ MainStep("create", "schema")
  /\ UNCHANGED <<prodVars, mkVars, consVars, mkRing, pcsRing, num_rec_fields,
                 wireVars>>

\* SELECT sql FROM sqlite_temp_master: one column, so sqlite3_exec leaves 1
\* in num_rec_fields.
MainSchema ==
  /\ MainStep("schema", "reply")
  /\ num_rec_fields' = IF s_main' = "reply" THEN 1 ELSE num_rec_fields
  /\ UNCHANGED <<prodVars, mkVars, consVars, mkRing, pcsRing, wireVars>>

MainReply ==
  /\ MainStep("reply", "spawn_producer")
  /\ schema_sent' = TRUE
  /\ UNCHANGED <<prodVars, mkVars, consVars, mkRing, pcsRing, num_rec_fields,
                 query_sent, wire, rcvd>>

MainSpawnProducer ==
  /\ MainStep("spawn_producer", "spawn_mk_record")
  /\ p_pc' = IF s_main' = "failed" THEN "off" ELSE "step"
  /\ UNCHANGED <<p_row, exec_ok, mkVars, consVars, mkRing, pcsRing,
                 num_rec_fields, wireVars>>

MainSpawnMkRecord ==
  /\ MainStep("spawn_mk_record", "spawn_consumer")
  /\ m_pc' = IF s_main' = "failed" THEN "off" ELSE "wait"
  /\ UNCHANGED <<prodVars, aMem, ssd_record, consVars, mkRing, pcsRing,
                 num_rec_fields, wireVars>>

MainSpawnConsumer ==
  /\ MainStep("spawn_consumer", "join")
  /\ c_pc' = IF s_main' = "failed" THEN "off" ELSE "wait"
  /\ UNCHANGED <<prodVars, mkVars, in_batch, rec_pkt, window, mkRing, pcsRing,
                 num_rec_fields, wireVars>>

\* pthread_join(consumer): the only thread that is joined.
JoinedMkRecord == m_pc = "exit"
Joined == c_pc = "exit"

MainJoin ==
  /\ s_main = "join"
  /\ Joined
  /\ s_main' = "drop"
  /\ UNCHANGED <<prodVars, mkVars, consVars, mkRing, pcsRing, num_rec_fields,
                 wireVars>>

\* DROP TABLE TABLE1 on the handle the producer used; main returns either way.
MainDrop ==
  /\ s_main = "drop"
  /\ s_main' = "exit"
  /\ UNCHANGED <<prodVars, mkVars, consVars, mkRing, pcsRing, num_rec_fields,
                 wireVars>>

-----------------------------------------------------------------------------
(***************************************************************************)
(* producer_func: sqlite3_exec of the subquery with make_record = 1.       *)
(***************************************************************************)

HasRow == p_row < NRows

\* sqlite3_step runs to the next row, to the end of the result, or into an
\* error (a page that does not verify, an I/O error, no memory).
ProducerStep ==
  /\ Alive
  /\ p_pc = "step"
  /\ \/ HasRow /\ p_row' = p_row + 1 /\ p_pc' = "push" /\ UNCHANGED exec_ok
     \/ ~HasRow /\ p_pc' = "finish" /\ UNCHANGED <<p_row, exec_ok>>
     \/ p_pc' = "finish" /\ exec_ok' = FALSE /\ UNCHANGED p_row
  /\ UNCHANGED <<mainVars, mkVars, consVars, mkRing, pcsRing, num_rec_fields,
                 wireVars>>

\* while(mk_rec_state.tail == mk_rec_state.head + MK_REC_POOL_SIZE){};
MkRoomOffByOne == mk_tail # mk_head + MkRecPoolSize + 1
MkRoom == mk_tail # mk_head + MkRecPoolSize

\* OP_ResultRow, still inside sqlite3_step: wait for a free slot and store
\* the copied row in it.
ProducerPush ==
  /\ Alive
  /\ p_pc = "push"
  /\ MkRoom
  /\ rec_queue' = [rec_queue EXCEPT ![mk_tail % MkRecPoolSize] = p_row]
  /\ p_pc' = "publish"
  /\ UNCHANGED <<mainVars, p_row, exec_ok, mkVars, consVars, mk_head, mk_tail,
                 mk_done, pcsRing, num_rec_fields, wireVars>>

ProducerPublish ==
  /\ Alive
  /\ p_pc = "publish"
  /\ mk_tail' = mk_tail + 1
  /\ p_pc' = "return"
  /\ UNCHANGED <<mainVars, p_row, exec_ok, mkVars, consVars, mk_head, mk_done,
                 rec_queue, pcsRing, num_rec_fields, wireVars>>

\* if( !callbackIsInit ) num_rec_fields = nCol;
FieldsAfterRowLate == IF p_row = NRows THEN NCols ELSE num_rec_fields
FieldsAfterRow == IF p_row = 1 THEN NCols ELSE num_rec_fields

\* sqlite3_step returns to sqlite3_exec.  The first row's return sets
\* num_rec_fields.  An allocation can still fail here, after the row was
\* published, and ends sqlite3_exec.
ProducerReturn ==
  /\ Alive
  /\ p_pc = "return"
  /\ \/ /\ p_pc' = "step"
        /\ num_rec_fields' = FieldsAfterRow
        /\ UNCHANGED exec_ok
     \/ p_pc' = "finish" /\ exec_ok' = FALSE /\ UNCHANGED num_rec_fields
  /\ UNCHANGED <<mainVars, p_row, mkVars, consVars, mkRing, pcsRing, wireVars>>

\* The end of the scan and an error look the same to the other threads.
ProducerFinish ==
  /\ Alive
  /\ p_pc = "finish"
  /\ mk_done' = TRUE
  /\ p_pc' = "exit"
  /\ UNCHANGED <<mainVars, p_row, exec_ok, mkVars, consVars, mk_head, mk_tail,
                 rec_queue, pcsRing, num_rec_fields, wireVars>>

Producer == ProducerStep \/ ProducerPush \/ ProducerPublish \/ ProducerReturn
            \/ ProducerFinish

-----------------------------------------------------------------------------
(***************************************************************************)
(* The busy wait that mk_rec_thread and consumer_func share:               *)
(*                                                                         *)
(*     while (head == tail) { if (done) break; }     -- "wait", "spin"     *)
(*     if (done && head == tail) break;              -- "check", "recheck" *)
(*                                                                         *)
(* With WeakLoads the load of tail in the last test may be satisfied       *)
(* before the loads of done, with the value the spin saw: the loop is left *)
(* for good although a slot was published before done was set.             *)
(***************************************************************************)
AfterWait(head, tail) == IF head # tail THEN "check" ELSE "spin"
AfterSpinForever(done, leave) == {"wait"}
AfterSpin(done, leave) ==
  IF done THEN {"check"} \cup (IF WeakLoads THEN {leave} ELSE {}) ELSE {"wait"}
AfterCheck(done, go) == IF done THEN "recheck" ELSE go
AfterRecheckDropped(head, tail, go, leave) == leave
AfterRecheck(head, tail, go, leave) == IF head = tail THEN leave ELSE go

(***************************************************************************)
(* mk_rec_thread and make_ssd_record().                                    *)
(***************************************************************************)
MkRecPoll ==
  /\ Alive
  /\ \/ m_pc = "wait" /\ m_pc' = AfterWait(mk_head, mk_tail)
     \/ m_pc = "spin" /\ m_pc' \in AfterSpin(mk_done, "finish")
     \/ m_pc = "check" /\ m_pc' = AfterCheck(mk_done, "grab")
     \/ m_pc = "recheck" /\ m_pc' = AfterRecheck(mk_head, mk_tail, "grab", "finish")
  /\ UNCHANGED <<mainVars, prodVars, aMem, ssd_record, consVars, mkRing, pcsRing,
                 num_rec_fields, wireVars>>

MkRecGrab ==
  /\ Alive
  /\ m_pc = "grab"
  /\ mk_head # mk_tail
  /\ aMem' = rec_queue[mk_head % MkRecPoolSize]
  /\ m_pc' = "release"
  /\ UNCHANGED <<mainVars, prodVars, ssd_record, consVars, mkRing, pcsRing,
                 num_rec_fields, wireVars>>

MkRecRelease ==
  /\ Alive
  /\ m_pc = "release"
  /\ mk_head' = mk_head + 1
  /\ m_pc' = "build"
  /\ UNCHANGED <<mainVars, prodVars, aMem, ssd_record, consVars, mk_tail,
                 mk_done, rec_queue, pcsRing, num_rec_fields, wireVars>>

\* The record gets as many fields as num_rec_fields says at this moment.
MkRecBuild ==
  /\ Alive
  /\ m_pc = "build"
  /\ ssd_record' = [row |-> aMem, nField |-> num_rec_fields]
  /\ m_pc' = "push"
  /\ UNCHANGED <<mainVars, prodVars, aMem, consVars, mkRing, pcsRing,
                 num_rec_fields, wireVars>>

MkRecPush ==
  /\ Alive
  /\ m_pc = "push"
  /\ pcs_tail # pcs_head + RecPoolSize
  /\ record_pool' = [record_pool EXCEPT ![pcs_tail % RecPoolSize] = ssd_record]
  /\ m_pc' = "publish"
  /\ UNCHANGED <<mainVars, prodVars, aMem, ssd_record, consVars, mkRing, pcs_head,
                 pcs_tail, pcs_done, num_rec_fields, wireVars>>

MkRecPublish ==
  /\ Alive
  /\ m_pc = "publish"
  /\ pcs_tail' = pcs_tail + 1
  /\ m_pc' = "wait"
  /\ UNCHANGED <<mainVars, prodVars, aMem, ssd_record, consVars, mkRing, pcs_head,
                 pcs_done, record_pool, num_rec_fields, wireVars>>

MkRecFinish ==
  /\ Alive
  /\ m_pc = "finish"
  /\ pcs_done' = TRUE
  /\ m_pc' = "exit"
  /\ UNCHANGED <<mainVars, prodVars, aMem, ssd_record, consVars, mkRing, pcs_head,
                 pcs_tail, record_pool, num_rec_fields, wireVars>>

MkRec == MkRecPoll \/ MkRecGrab \/ MkRecRelease \/ MkRecBuild \/ MkRecPush
         \/ MkRecPublish \/ MkRecFinish

-----------------------------------------------------------------------------
(***************************************************************************)
(* consumer_func.  in_batch tells the inner batching loop from the outer   *)
(* one, whose busy waits are the same code.                                *)
(***************************************************************************)

\* Where a busy wait leads once the queue is empty for good: the inner loop
\* sends the batch it has, the outer one sends the end packet.
Drained == IF in_batch THEN "send" ELSE "send_end"

ConsumerPoll ==
  /\ Alive
  /\ \/ c_pc = "wait" /\ c_pc' = AfterWait(pcs_head, pcs_tail)
     \/ c_pc = "spin" /\ c_pc' \in AfterSpin(pcs_done, Drained)
     \/ c_pc = "check" /\ c_pc' = AfterCheck(pcs_done, "take")
     \/ c_pc = "recheck" /\ c_pc' = AfterRecheck(pcs_head, pcs_tail, "take", Drained)
  /\ UNCHANGED <<mainVars, prodVars, mkVars, in_batch, rec_pkt, window, mkRing,
                 pcsRing, num_rec_fields, wireVars>>

NextSlot == record_pool[pcs_head % RecPoolSize]
SizeOf(rec) == RecLen[rec.row][rec.nField]

\* The packet a batch starts with, and whether a record fits in the rest.
FreshBatchNoReset(rec) ==
  [pkt_type |-> "REC_PKT", num_records |-> 1,
   serial_data |-> Append(rec_pkt.serial_data, rec)]
FreshBatch(rec) ==
  [pkt_type |-> "REC_PKT", num_records |-> 1, serial_data |-> <<rec>>]
FitsAlways(rec) == TRUE
Fits(rec) == window >= SizeOf(rec)

\* The first record of a packet is copied whatever its size.
ConsumerFirst ==
  /\ Alive
  /\ c_pc = "take" /\ ~in_batch
  /\ pcs_head # pcs_tail
  /\ rec_pkt' = FreshBatch(NextSlot)
  /\ window' = Payload - SizeOf(NextSlot)
  /\ in_batch' = TRUE
  /\ c_pc' = "release"
  /\ UNCHANGED <<mainVars, prodVars, mkVars, mkRing, pcsRing, num_rec_fields,
                 wireVars>>

\* A further record is copied if it fits in what is left of the packet and
\* stays in its slot otherwise.
ConsumerMore ==
  /\ Alive
  /\ c_pc = "take" /\ in_batch
  /\ pcs_head # pcs_tail
  /\ \/ /\ Fits(NextSlot)
        /\ rec_pkt' = [rec_pkt EXCEPT !.num_records = @ + 1,
                                      !.serial_data = Append(@, NextSlot)]
        /\ window' = window - SizeOf(NextSlot)
        /\ c_pc' = "release"
     \/ /\ ~Fits(NextSlot)
        /\ c_pc' = "send"
        /\ UNCHANGED <<rec_pkt, window>>
  /\ UNCHANGED <<mainVars, prodVars, mkVars, in_batch, mkRing, pcsRing,
                 num_rec_fields, wireVars>>

ConsumerRelease ==
  /\ Alive
  /\ c_pc = "release"
  /\ pcs_head' = pcs_head + 1
  /\ c_pc' = "wait"
  /\ UNCHANGED <<mainVars, prodVars, mkVars, in_batch, rec_pkt, window, mkRing,
                 pcs_tail, pcs_done, record_pool, num_rec_fields, wireVars>>

ConsumerSend ==
  /\ Alive
  /\ c_pc = "send"
  /\ WritePacket(rec_pkt)
  /\ in_batch' = FALSE
  /\ c_pc' = "wait"
  /\ UNCHANGED <<mainVars, prodVars, mkVars, rec_pkt, window, mkRing, pcsRing,
                 num_rec_fields>>

\* The end packet is rec_pkt with another type: it still carries the count
\* and the data of the last batch.
ConsumerSendEnd ==
  /\ Alive
  /\ c_pc = "send_end"
  /\ rec_pkt' = [rec_pkt EXCEPT !.pkt_type = "END_PKT"]
  /\ WritePacket(rec_pkt')
  /\ c_pc' = "exit"
  /\ UNCHANGED <<mainVars, prodVars, mkVars, in_batch, window, mkRing, pcsRing,
                 num_rec_fields>>

Consumer == ConsumerPoll \/ ConsumerFirst \/ ConsumerMore \/ ConsumerRelease
            \/ ConsumerSend \/ ConsumerSendEnd

Main == MainRecv \/ MainCreate \/ MainSchema \/ MainReply \/ MainSpawnProducer
        \/ MainSpawnMkRecord \/ MainSpawnConsumer \/ MainJoin \/ MainDrop

Storage == Main \/ Producer \/ MkRec \/ Consumer

-----------------------------------------------------------------------------
(***************************************************************************)
(* The storage server against any host: one that sends the subquery and    *)
(* reads packets at its own pace.                                          *)
(***************************************************************************)
HostAsks ==
  /\ ~query_sent
  /\ query_sent' = TRUE
  /\ UNCHANGED <<schema_sent, wire, rcvd, storageVars>>

HostReads ==
  /\ rcvd < Len(wire)
  /\ rcvd' = rcvd + 1
  /\ UNCHANGED <<query_sent, schema_sent, wire, storageVars>>

vars == <<storageVars, wireVars>>

Init == SInit /\ WireInit

Next == Storage \/ HostAsks \/ HostReads

\* Every thread keeps being scheduled and every blocking call of a live
\* connection returns.
StorageFairness == /\ WF_vars(Main)
                   /\ WF_vars(Producer)
                   /\ WF_vars(MkRec)
                   /\ WF_vars(Consumer)

Spec == Init /\ [][Next]_vars

FairSpec == Spec /\ StorageFairness /\ WF_vars(HostAsks) /\ WF_vars(HostReads)

-----------------------------------------------------------------------------
(***************************************************************************)
(* Properties.                                                             *)
(***************************************************************************)

\* Every variable keeps its type.
TypeOK ==
  /\ s_main \in {"recv", "create", "schema", "reply", "spawn_producer",
                 "spawn_mk_record", "spawn_consumer", "join", "drop", "exit",
                 "failed"}
  /\ p_pc \in {"off", "step", "push", "publish", "return", "finish", "exit"}
  /\ p_row \in 0..NRows
  /\ exec_ok \in BOOLEAN
  /\ m_pc \in {"off", "wait", "spin", "check", "recheck", "grab", "release",
               "build", "push", "publish", "finish", "exit"}
  /\ aMem \in 0..NRows
  /\ ssd_record \in Rec
  /\ c_pc \in {"off", "wait", "spin", "check", "recheck", "take", "release",
               "send", "send_end", "exit"}
  /\ in_batch \in BOOLEAN
  /\ rec_pkt \in Packet
  /\ window \in Int
  /\ mk_head \in Nat /\ mk_tail \in Nat /\ mk_done \in BOOLEAN
  /\ rec_queue \in [0..MkRecPoolSize-1 -> 0..NRows]
  /\ pcs_head \in Nat /\ pcs_tail \in Nat /\ pcs_done \in BOOLEAN
  /\ record_pool \in [0..RecPoolSize-1 -> Rec]
  /\ num_rec_fields \in {-1, 1, NCols}
  /\ WireTypeOK

\* A slot that has been filled and is not yet published is none of the slots
\* the reading thread still has to take, so neither ring overwrites an entry
\* or hands over a half-written one (OP_ResultRow against make_ssd_record,
\* make_ssd_record against consumer_func).
NoSlotRace ==
  /\ p_pc = "publish" =>
       \A k \in mk_head..mk_tail-1 : k % MkRecPoolSize # mk_tail % MkRecPoolSize
  /\ m_pc = "publish" =>
       \A k \in pcs_head..pcs_tail-1 : k % RecPoolSize # pcs_tail % RecPoolSize

IsRec(pkt) == pkt.pkt_type = "REC_PKT"
Ended == wire # <<>> /\ ~IsRec(wire[Len(wire)])

\* The last row that has been sent once packet i is out.
RowsUpTo(i) ==
  IF i = 0 THEN 0
  ELSE LET recs == wire[i].serial_data IN recs[Len(recs)].row

\* The packets on the wire hold the rows 1, 2, 3, ... of the scan, each row
\* once and in scan order, cut into nonempty batches whose num_records is
\* right; nothing follows the end packet.
InOrder ==
  \A i \in 1..Len(wire) :
    /\ i < Len(wire) => IsRec(wire[i])
    /\ IsRec(wire[i]) =>
         LET recs == wire[i].serial_data
         IN  /\ recs # <<>>
             /\ wire[i].num_records = Len(recs)
             /\ \A j \in 1..Len(recs) : recs[j].row = RowsUpTo(i - 1) + j

\* Once the end packet is out, every row the scan published has been sent,
\* and that is the whole result unless sqlite3_exec failed: the handover of
\* the two done flags loses no row.
EndComplete ==
  Ended => /\ RowsUpTo(Len(wire) - 1) = mk_tail
           /\ exec_ok => mk_tail = NRows

\* main joins the consumer alone, yet when it goes on to use the database
\* handle and to return, the other two threads are done with the handle and
\* with both queues.
JoinCoversAllThreads ==
  s_main \in {"drop", "exit"} => p_pc = "exit" /\ m_pc = "exit" /\ c_pc = "exit"

\* A record built from any row but the first has all the columns of the row:
\* num_rec_fields may be stale only while the first row is in flight.
OnlyFirstRowShort ==
  \A i \in 1..Len(wire) : \A j \in 1..Len(wire[i].serial_data) :
    LET rec == wire[i].serial_data[j]
    IN  rec.row # 1 => rec.nField = NCols

\* "Assuming the record contains N fields": every record that is shipped has
\* one field for each column of the result.
AllFieldsShipped ==
  \A i \in 1..Len(wire) : \A j \in 1..Len(wire[i].serial_data) :
    wire[i].serial_data[j].nField = NCols

\* The server finishes: it answers with an end packet and returns, or one of
\* main's own calls fails.  No combination of full rings, empty rings, done
\* flags and a full connection blocks it.
ServerFinishes == <>(s_main = "failed" \/ (s_main = "exit" /\ Ended))

=============================================================================
