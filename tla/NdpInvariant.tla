---------------------------- MODULE NdpInvariant ----------------------------
(***************************************************************************)
(* The inductive invariant of NdpSystem: that of the storage server, and   *)
(* on the host the same idea with packets for rows.  Ring entry k holds    *)
(* packet k+1 of the connection, so the counters say where each packet is, *)
(* and the packets say which rows the table has been offered.              *)
(***************************************************************************)
EXTENDS StorageInvariant, NdpSystem

\* The scan goes on only while it has not failed, and no packet holds a row
\* that was not published.
ScanInv ==
  /\ ~exec_ok => p_pc \in {"finish", "exit"}
  /\ \A i \in 1..Len(wire) : IsRec(wire[i]) => RowsUpTo(i) <= mk_tail

BeforeHostThreads == {"send", "schema", "spawn_producer"}

\* A thread runs only after main has created it; the outer query only after
\* the consumer has ended.
HostPhaseInv ==
  /\ h_main = "send" => ~query_sent
  /\ h_main \in BeforeHostThreads => hp_pc = "off"
  /\ h_main \in BeforeHostThreads \cup {"spawn_consumer"} => hc_pc = "off"
  /\ h_main \in {"query", "exit"} => hc_pc = "exit"

\* The producer holds the packet it has read and not published.
HostProducerInv ==
  /\ rcvd = IF hp_pc \in {"push", "publish"} THEN h_tail + 1 ELSE h_tail
  /\ hp_pc \in {"push", "publish"} => hp_batch = wire[rcvd]

\* pc_state.record_pool holds the packets h_head+1..h_tail.
HostRingInv ==
  /\ h_head <= h_tail /\ h_tail <= h_head + BufPoolSize
  /\ \A k \in h_head..h_tail-1 : h_pool[k % BufPoolSize] = wire[k + 1]
  /\ hp_pc = "publish" => /\ h_tail < h_head + BufPoolSize
                          /\ h_pool[h_tail % BufPoolSize] = hp_batch

\* The consumer's packet is the one at h_head, before or after it has advanced
\* it; the end packet is the last one it takes.
HostConsumerInv ==
  /\ hc_pc \in {"off", "take", "release"} => h_head = 0 \/ IsRec(wire[h_head])
  /\ hc_pc = "release" => /\ h_head < h_tail
                          /\ hc_batch = wire[h_head + 1]
                          /\ hc_next = 1
  /\ hc_pc = "insert" => /\ h_head > 0 /\ IsRec(wire[h_head])
                         /\ hc_batch = wire[h_head]
                         /\ hc_next <= Len(hc_batch.serial_data) + 1
  /\ hc_pc \in {"free_end", "exit"} => h_head > 0 /\ ~IsRec(wire[h_head])
  /\ freed = IF hc_pc \in {"insert", "free_end"} THEN h_head - 1 ELSE h_head

\* The last row the consumer has inserted, or has tried to.
Offered ==
  CASE hc_pc = "insert" -> RowsUpTo(h_head - 1) + hc_next - 1
    [] hc_pc \in {"free_end", "exit"} -> RowsUpTo(h_head - 1)
    [] OTHER -> RowsUpTo(h_head)

\* The table has rows that were offered, each once, in scan order but for the one
\* under -1, and all of them unless an insertion failed.
TableInv ==
  /\ Offered \in Nat
  /\ \A i \in 1..Len(table) : table[i].row \in 1..Offered
  /\ \A i \in 1..Len(table)-1 : table[i].row < table[i+1].row
  /\ minus_one \in 0..Offered
  /\ \A i \in 1..Len(table) : table[i].row # minus_one
  /\ insert_ok => /\ Len(table) = Offered /\ minus_one = 0
                  /\ \A i \in 1..Len(table) : table[i].row = i

HostInv == /\ SysTypeOK
           /\ ScanInv
           /\ HostPhaseInv
           /\ HostProducerInv
           /\ HostRingInv
           /\ HostConsumerInv
           /\ TableInv

\* Both servers are where the rows and the packets say (sec_ssd_server.c,
\* host_server.c): every packet the host has read is in its hands, in its ring
\* or taken, and the table follows the rows of the packets that were taken.
SysInv == CoreInv /\ HostInv

=============================================================================
