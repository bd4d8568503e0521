-------------------------- MODULE StorageInvariant --------------------------
(***************************************************************************)
(* The inductive invariant of StoragePipeline.  Row numbers tie the parts  *)
(* together: ring entry k holds row k+1, so the four counters and the rows *)
(* already sent say exactly which rows are where.                          *)
(***************************************************************************)
EXTENDS StoragePipeline

\* The record of row n as the queues and packets may hold it: only the first
\* row can have been built with a stale field count.
GoodRec(rec, n) ==
  /\ rec.row = n
  /\ rec.nField \in 1..NCols
  /\ n # 1 => rec.nField = NCols

\* A batch of records that continues the scan after row n.
GoodBatch(pkt, n) ==
  /\ IsRec(pkt)
  /\ pkt.serial_data # <<>>
  /\ pkt.num_records = Len(pkt.serial_data)
  /\ \A j \in 1..Len(pkt.serial_data) : GoodRec(pkt.serial_data[j], n + j)

OnlyFirstShort(recs) ==
  \A j \in 1..Len(recs) : recs[j].row # 1 => recs[j].nField = NCols

BeforeThreads == {"recv", "create", "schema", "reply", "spawn_producer"}

\* A thread runs only after main has created it, and by then the schema query
\* has set num_rec_fields.
PhaseInv ==
  /\ s_main \in BeforeThreads => p_pc = "off"
  /\ s_main \in BeforeThreads \cup {"spawn_mk_record"} => m_pc = "off"
  /\ s_main \in BeforeThreads \cup {"spawn_mk_record", "spawn_consumer"} => c_pc = "off"
  /\ num_rec_fields = -1 => /\ s_main \in {"recv", "create", "schema", "failed"}
                            /\ m_pc = "off"

\* The producer's row is the next one to publish or the last one published;
\* from the second row on num_rec_fields is right.
ProducerInv ==
  /\ p_row = IF p_pc \in {"push", "publish"} THEN mk_tail + 1 ELSE mk_tail
  /\ p_pc = "off" => p_row = 0
  /\ p_row >= 2 \/ (p_row = 1 /\ p_pc = "step") => num_rec_fields = NCols
  /\ exec_ok /\ p_pc \in {"finish", "exit"} => p_row = NRows
  /\ mk_done <=> p_pc = "exit"

\* rec_queue holds the rows mk_head+1..mk_tail.
MkRingInv ==
  /\ mk_head <= mk_tail /\ mk_tail <= mk_head + MkRecPoolSize
  /\ \A k \in mk_head..mk_tail-1 : rec_queue[k % MkRecPoolSize] = k + 1
  /\ p_pc = "publish" => /\ mk_tail < mk_head + MkRecPoolSize
                         /\ rec_queue[mk_tail % MkRecPoolSize] = p_row

\* mk_rec_thread has at most one row in its hands, the one after pcs_tail.
MkRecInv ==
  /\ mk_head = IF m_pc \in {"build", "push", "publish"} THEN pcs_tail + 1 ELSE pcs_tail
  /\ m_pc = "release" => mk_head < mk_tail /\ aMem = mk_head + 1
  /\ m_pc = "build" => aMem = mk_head
  /\ m_pc \in {"push", "publish"} => GoodRec(ssd_record, mk_head)
  /\ pcs_done <=> m_pc = "exit"

\* record_pool holds the records of the rows pcs_head+1..pcs_tail.
PcsRingInv ==
  /\ pcs_head <= pcs_tail /\ pcs_tail <= pcs_head + RecPoolSize
  /\ \A k \in pcs_head..pcs_tail-1 : GoodRec(record_pool[k % RecPoolSize], k + 1)
  /\ m_pc = "publish" => /\ pcs_tail < pcs_head + RecPoolSize
                         /\ record_pool[pcs_tail % RecPoolSize] = ssd_record

\* The rows that have been sent.
Shipped == RowsUpTo(IF Ended THEN Len(wire) - 1 ELSE Len(wire))

\* The consumer's batch continues the rows sent and ends where pcs_head is.
ConsumerInv ==
  /\ Shipped \in Nat
  /\ in_batch => /\ GoodBatch(rec_pkt, Shipped)
                 /\ Shipped + Len(rec_pkt.serial_data)
                      = IF c_pc = "release" THEN pcs_head + 1 ELSE pcs_head
  /\ ~in_batch => Shipped = pcs_head
  /\ c_pc = "release" => in_batch /\ pcs_head < pcs_tail
  /\ c_pc = "send" => in_batch
  /\ c_pc \in {"off", "send_end", "exit"} => ~in_batch
  /\ OnlyFirstShort(rec_pkt.serial_data)

\* The packets sent so far continue one another.
WireInv ==
  /\ Ended <=> c_pc = "exit"
  /\ \A i \in 1..Len(wire) :
       /\ i < Len(wire) => IsRec(wire[i])
       /\ IsRec(wire[i]) => GoodBatch(wire[i], RowsUpTo(i - 1))
       /\ OnlyFirstShort(wire[i].serial_data)

\* What holds in whatever order the loads of a busy wait are satisfied.
CoreInv == /\ TypeOK
           /\ PhaseInv
           /\ ProducerInv
           /\ MkRingInv
           /\ MkRecInv
           /\ PcsRingInv
           /\ ConsumerInv
           /\ WireInv

\* What the order of the loads is needed for: a thread that saw done and then
\* an empty queue is right that nothing will ever follow.
DoneInv ==
  /\ m_pc = "recheck" => mk_done
  /\ m_pc \in {"finish", "exit"} => mk_done /\ mk_head = mk_tail
  /\ c_pc = "recheck" => pcs_done
  /\ c_pc \in {"send_end", "exit"} => pcs_done /\ pcs_head = pcs_tail
  /\ s_main \in {"drop", "exit"} => c_pc = "exit"

IndInv == CoreInv /\ DoneInv

=============================================================================
