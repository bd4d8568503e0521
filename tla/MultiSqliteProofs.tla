-------------------------- MODULE MultiSqliteProofs --------------------------
(***************************************************************************)
(* The barrier and the join of the scalability benchmark, for any number   *)
(* of threads.                                                             *)
(***************************************************************************)
EXTENDS MultiSqlite, FiniteSetTheorems, TLAPS

\* The barrier opens only when every worker has arrived: pthread_barrier_wait
\* counts to threads, and no worker arrives twice.
LEMMA AllArrived ==
  ASSUME waited \subseteq Id, Cardinality(waited) >= threads
  PROVE  waited = Id
<1>1. IsFiniteSet(Id) /\ Cardinality(Id) = threads
  <2>1. threads \in Nat
    BY BenchAssumption
  <2>2. Cardinality(1..threads) = threads /\ IsFiniteSet(1..threads)
    BY <2>1, FS_Interval
  <2> QED
    BY <2>2 DEF Id
<1>2. IsFiniteSet(waited) /\ Cardinality(waited) <= Cardinality(Id)
  BY <1>1, FS_Subset
<1>3. Cardinality(waited) \in Nat
  BY <1>2, FS_CardinalityType
<1>4. Cardinality(waited) = Cardinality(Id)
  BY <1>1, <1>2, <1>3, BenchAssumption
<1> QED
  BY <1>1, <1>4, FS_Subset

LEMMA InitBench == Init => BenchInv
BY BenchAssumption DEF Init, BenchInv, TypeOK, Id, Ended, AtWork, Past

\* One step of main.
LEMMA MainStep == BenchInv /\ Main => BenchInv'
<1> SUFFICES ASSUME BenchInv, Main PROVE BenchInv'
  OBVIOUS
<1> USE BenchAssumption DEF BenchInv, TypeOK, Id, Ended, AtWork, Past
<1>1. CASE Create
  <2>1. CASE i < threads
    BY <1>1, <2>1 DEF Create
  <2>2. CASE ~(i < threads)
    BY <1>1, <2>2 DEF Create
  <2> QED
    BY <2>1, <2>2
<1>2. CASE Join
  <2>1. CASE i < threads
    BY <1>2, <2>1 DEF Join, Joinable
  <2>2. CASE ~(i < threads)
    BY <1>2, <2>2 DEF Join
  <2> QED
    BY <2>1, <2>2
<1> QED
  BY <1>1, <1>2 DEF Main

\* One step of a worker.
LEMMA WorkerStep == ASSUME NEW w \in Id, BenchInv, Worker(w) PROVE BenchInv'
<1> USE BenchAssumption DEF BenchInv, TypeOK, Id, Ended, AtWork, Past
<1>1. CASE Open(w)
  BY <1>1 DEF Open
<1>2. CASE Key(w)
  BY <1>2 DEF Key
<1>3. CASE Arrive(w)
  BY <1>3 DEF Arrive
<1>4. CASE Pass(w)
  <2>1. waited = 1..threads
    BY <1>4, AllArrived DEF Pass, BarrierCount
  <2> QED
    BY <1>4, <2>1 DEF Pass
<1>5. CASE Exec(w)
  BY <1>5 DEF Exec
<1>6. CASE Store(w)
  <2>1. /\ res'.state = res.state
        /\ res'.ids = res.ids \cup {w}
        /\ res' = [state |-> res.state, ids |-> res.ids \cup {w}]
    BY <1>6, Zenon DEF Store
  <2>2. TypeOK'
    BY <1>6, <2>1 DEF Store
  <2>3. res'.ids = {v \in Id : pc'[v] = "ended"}
    BY <1>6, <2>1 DEF Store
  <2> QED
    BY <1>6, <2>1, <2>2, <2>3 DEF Store
<1> QED
  BY <1>1, <1>2, <1>3, <1>4, <1>5, <1>6 DEF Worker

\* The invariant holds in every reachable state of the benchmark.
THEOREM BenchInductive == Spec => []BenchInv
<1>1. BenchInv /\ [Next]_vars => BenchInv'
  <2>1. BenchInv /\ Next => BenchInv'
    BY MainStep, WorkerStep DEF Next
  <2>2. BenchInv /\ UNCHANGED vars => BenchInv'
    BY DEF BenchInv, TypeOK, vars, Id, Ended, AtWork, Past
  <2> QED
    BY <2>1, <2>2
<1> QED
  BY <1>1, InitBench, PTL DEF Spec

\* No query runs before every worker is at the barrier (multi_sqlite.c:117),
\* for any number of threads.
THEOREM QueriesStartTogether == Spec => []StartTogether
<1>1. BenchInv => StartTogether
  BY DEF BenchInv, StartTogether
<1> QED
  BY <1>1, BenchInductive, PTL

\* The array of results is freed when no worker can store into it any more
\* (multi_sqlite.c:167-174), for any number of threads.
THEOREM ResultsFreedLast == Spec => []FreedLast
<1>1. BenchInv => FreedLast
  BY DEF BenchInv, FreedLast
<1> QED
  BY <1>1, BenchInductive, PTL

=============================================================================
