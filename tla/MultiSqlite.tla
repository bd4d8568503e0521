---------------------------- MODULE MultiSqlite ----------------------------
(***************************************************************************)
(* The scalability benchmark, multi_sqlite.c: main starts one thread per   *)
(* copy of the database; each opens its copy, sets the key, waits at the   *)
(* barrier, runs the query and stores its time in the array main frees.    *)
(***************************************************************************)
EXTENDS Integers, FiniteSets

CONSTANTS
  threads,  \* argv[5]
  kind      \* argv[1]: "secure" or "non-secure"

ASSUME BenchAssumption ==
  /\ threads \in Nat \ {0}
  /\ kind \in {"secure", "non-secure"}

Id == 1..threads

VARIABLES
  main,    \* where main is: creating threads, joining them, or done
  i,       \* the loop variable of main
  pc,      \* where each worker is
  waited,  \* workers that have arrived at the barrier
  res      \* the array of results: the ids stored in it, or freed

vars == <<main, i, pc, waited, res>>

Ended == {"unset", "unrun", "ended"}
AtWork == {"open", "key", "wait", "exec", "store"}
Past == {"exec", "store", "unrun", "ended"}

\* Every variable keeps its type.
TypeOK ==
  /\ main \in {"create", "join", "done"}
  /\ i \in 0..threads
  /\ pc \in [Id -> Ended \cup AtWork \cup {"none"}]
  /\ waited \subseteq Id
  /\ res \in [state : {"live", "freed"}, ids : SUBSET Id]

Init ==
  /\ main = "create" /\ i = 0
  /\ pc = [w \in Id |-> "none"]
  /\ waited = {}
  /\ res = [state |-> "live", ids |-> {}]

-----------------------------------------------------------------------------
\* The creating loop of main.
Create ==
  /\ main = "create"
  /\ IF i < threads
     THEN i' = i + 1 /\ pc' = [pc EXCEPT ![i + 1] = "open"] /\ UNCHANGED main
     ELSE i' = 0 /\ main' = "join" /\ UNCHANGED pc
  /\ UNCHANGED <<waited, res>>

\* The joining loop of main and the calls of free after it.
JoinableAtOnce(w) == TRUE
Joinable(w) == pc[w] \in Ended

Join ==
  /\ main = "join"
  /\ IF i < threads
     THEN Joinable(i + 1) /\ i' = i + 1 /\ UNCHANGED <<main, res>>
     ELSE main' = "done" /\ res' = [res EXCEPT !.state = "freed"] /\ UNCHANGED i
  /\ UNCHANGED <<pc, waited>>

\* sqlite_worker: sqlite3_open and sqlite3_key, each of which may fail.
Open(w) ==
  /\ pc[w] = "open"
  /\ \E next \in {IF kind = "secure" THEN "key" ELSE "wait", "unset"} :
       pc' = [pc EXCEPT ![w] = next]
  /\ UNCHANGED <<main, i, waited, res>>

Key(w) ==
  /\ pc[w] = "key"
  /\ \E next \in {"wait", "unset"} : pc' = [pc EXCEPT ![w] = next]
  /\ UNCHANGED <<main, i, waited, res>>

\* pthread_barrier_wait: the worker arrives, and goes on once as many have
\* arrived as the barrier was initialized with.
Arrive(w) ==
  /\ pc[w] = "wait" /\ w \notin waited
  /\ waited' = waited \cup {w}
  /\ UNCHANGED <<main, i, pc, res>>

BarrierCountShort == threads - 1
BarrierCountLong == threads + 1
BarrierCount == threads

Pass(w) ==
  /\ pc[w] = "wait" /\ w \in waited
  /\ Cardinality(waited) >= BarrierCount
  /\ pc' = [pc EXCEPT ![w] = "exec"]
  /\ UNCHANGED <<main, i, waited, res>>

Exec(w) ==
  /\ pc[w] = "exec"
  /\ \E next \in {"store", "unrun"} : pc' = [pc EXCEPT ![w] = next]
  /\ UNCHANGED <<main, i, waited, res>>

Store(w) ==
  /\ pc[w] = "store"
  /\ pc' = [pc EXCEPT ![w] = "ended"]
  /\ res' = [res EXCEPT !.ids = @ \cup {w}]
  /\ UNCHANGED <<main, i, waited>>

Worker(w) == Open(w) \/ Key(w) \/ Arrive(w) \/ Pass(w) \/ Exec(w) \/ Store(w)
Main == Create \/ Join
Next == Main \/ \E w \in Id : Worker(w)

\* The threads are scheduled by the kernel: none starves.
Spec == Init /\ [][Next]_vars /\ WF_vars(Main) /\ \A w \in Id : WF_vars(Worker(w))

-----------------------------------------------------------------------------
\* The queries are timed against each other: when one worker runs its query,
\* every worker has opened and keyed its database and none has failed to
\* (multi_sqlite.c:13, :117).
StartTogether ==
  (\E w \in Id : pc[w] \in Past) =>
    \A v \in Id : pc[v] \in {"wait"} \cup Past /\ v \in waited

\* main frees the results when no worker can still store one, and every worker
\* whose query ran has stored its own (multi_sqlite.c:130, :167-174).
FreedLast ==
  res.state = "freed" =>
    /\ \A w \in Id : pc[w] \in Ended
    /\ res.ids = {w \in Id : pc[w] = "ended"}

\* The inductive invariant behind the two: who has passed the barrier found all
\* workers at it, no worker runs before main creates it, main has seen the end
\* of every worker it has joined, and the array holds the results of the
\* workers that ended (multi_sqlite.c:117-174).
BenchInv ==
  /\ TypeOK
  /\ \A w \in Id : pc[w] \in Past => waited = Id
  /\ \A w \in waited : pc[w] \in {"wait"} \cup Past
  /\ \A w \in Id : main = "create" /\ w > i => pc[w] = "none"
  /\ \A w \in Id : (main = "join" /\ w <= i) \/ main = "done" => pc[w] \in Ended
  /\ res.ids = {w \in Id : pc[w] = "ended"}
  /\ res.state = "freed" <=> main = "done"

\* The benchmark ends unless some worker fails before the barrier; then the
\* others wait there, and main waits for them (multi_sqlite.c:91-113, :152).
EndsOrUnset == <>(main = "done" \/ \E w \in Id : pc[w] = "unset")

=============================================================================
