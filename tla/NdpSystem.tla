----------------------------- MODULE NdpSystem -----------------------------
(***************************************************************************)
(* One query on the whole system: the storage server and the host server   *)
(* over their connection.                                                  *)
(***************************************************************************)
EXTENDS StoragePipeline, HostPipeline

sysVars == <<storageVars, hostVars, wireVars>>

SysInit == SInit /\ HInit /\ WireInit

SysNext ==
  \/ Storage /\ UNCHANGED hostVars
  \/ Host /\ UNCHANGED storageVars

\* Each thread of the two processes keeps being scheduled.
SysFairness ==
  /\ WF_sysVars(Main /\ UNCHANGED hostVars)
  /\ WF_sysVars(Producer /\ UNCHANGED hostVars)
  /\ WF_sysVars(MkRec /\ UNCHANGED hostVars)
  /\ WF_sysVars(Consumer /\ UNCHANGED hostVars)
  /\ WF_sysVars(HMain /\ UNCHANGED storageVars)
  /\ WF_sysVars(HProducer /\ UNCHANGED storageVars)
  /\ WF_sysVars(HConsumer /\ UNCHANGED storageVars)

SysSpec == SysInit /\ [][SysNext]_sysVars

SysFairSpec == SysSpec /\ SysFairness

-----------------------------------------------------------------------------
(***************************************************************************)
(* Properties.                                                             *)
(***************************************************************************)

\* Every variable keeps its type.
SysTypeOK ==
  /\ TypeOK
  /\ h_main \in {"send", "schema", "spawn_producer", "spawn_consumer", "join",
                 "query", "exit", "failed"}
  /\ hp_pc \in {"off", "recv", "push", "publish", "test", "exit"}
  /\ hp_batch \in Packet
  /\ hc_pc \in {"off", "take", "release", "insert", "free_end", "exit"}
  /\ hc_batch \in Packet
  /\ hc_next \in Nat \ {0}
  /\ h_head \in Nat /\ h_tail \in Nat
  /\ h_pool \in [0..BufPoolSize-1 -> Packet]
  /\ freed \in 0..h_tail
  /\ table \in Seq(Rec) /\ minus_one \in 0..NRows
  /\ insert_ok \in BOOLEAN

\* The table (AddRawRecord, host_sqlite3.c:122239) never holds a row of the scan
\* twice, its rows are in scan order but for one stored under rowid -1, which
\* comes first, and as long as no insertion failed there is none of these and
\* the table is an initial segment of the scan.
TableFollowsScan ==
  /\ \A i \in 1..Len(table)-1 : table[i].row < table[i+1].row
  /\ \A i \in 1..Len(table) : table[i].row # minus_one
  /\ insert_ok => minus_one = 0 /\ \A i \in 1..Len(table) : table[i].row = i

\* When main runs the outer query, the table holds exactly the rows the
\* storage server published, all of the result unless the subquery failed on
\* the storage server.  (Main cannot tell whether it did.)
OuterQuerySeesAllRows ==
  h_main \in {"query", "exit"} /\ insert_ok =>
    /\ Len(table) = mk_tail /\ minus_one = 0
    /\ exec_ok => Len(table) = NRows

\* The host's producer never fills a slot its consumer still has to take.
HostNoSlotRace ==
  hp_pc = "publish" =>
    \A k \in h_head..h_tail-1 : k % BufPoolSize # h_tail % BufPoolSize

\* A query as its issuer sees it (module OffloadedQuery): rows are scanned,
\* arrive in the table in order, and the answer is computed once over all of
\* them.
Query == INSTANCE OffloadedQuery
           WITH scanned <- mk_tail, scan_over <- mk_done, scan_ok <- exec_ok,
                first <- minus_one, rows <- [i \in 1..Len(table) |-> table[i].row],
                lost <- ~insert_ok,
                answered <- h_main \in {"query", "exit"}

\* The two servers together implement that query.
ImplementsQuery == Query!QuerySpec

Failed == s_main = "failed" \/ h_main = "failed"

\* Unless one of the two main functions gives up, the host's consumer gets
\* the end packet and with it every row that was sent.
AllRowsArrive == <>(Failed \/ hc_pc = "exit")

\* "When the producer and consumer thread signal that they are done run Q1":
\* unless one of the two main functions gives up, the outer query is run.
OuterQueryRuns == <>(Failed \/ h_main = "exit")

=============================================================================
