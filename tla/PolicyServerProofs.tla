------------------------- MODULE PolicyServerProofs -------------------------
(***************************************************************************)
(* What the policy server and the logging server told their clients is on  *)
(* the disk: for any number of runs and clients, any mix of use cases, any *)
(* number of killed runs and power losses.                                 *)
(***************************************************************************)
EXTENDS PolicyServer, TLAPS

USE DEF Nobody

(***************************************************************************)
(* Lemmas about files and the entries in them.                             *)
(***************************************************************************)
\* An entry, as flush writes it: three pieces of the log.
LEMMA EntryType ==
  ASSUME NEW c \in Client
  PROVE  Entry(c) \in Seq(Piece) /\ Len(Entry(c)) = 3
BY DEF Entry, Piece

\* open, flush and fsync keep a file a file (run_use_cases.py:78-90).
LEMMA FileOps ==
  ASSUME NEW f \in File, NEW mode \in {"a", "w"}, NEW s \in Seq(Piece)
  PROVE  /\ Opened(f, mode) \in File
         /\ Flushed(f, mode, s) \in File
         /\ Synced(f) \in File
<1>1. Opened(f, mode) \in File
  <2>1. <<>> \in Seq(Piece)
    OBVIOUS
  <2>2. CASE mode = "w"
    BY <2>1, <2>2, Zenon DEF Opened, File
  <2>3. CASE mode = "a"
    BY <2>3 DEF Opened, File
  <2> QED BY <2>2, <2>3
<1>2. SubSeq(f.cache, Len(s) + 1, Len(f.cache)) \in Seq(Piece)
  BY DEF File
<1>3. f.cache \o s \in Seq(Piece) /\ s \o SubSeq(f.cache, Len(s) + 1, Len(f.cache)) \in Seq(Piece)
  BY <1>2 DEF File
<1>4. Flushed(f, mode, s) \in File
  BY <1>3, Zenon DEF Flushed, File
<1>5. Synced(f) \in File
  BY Zenon DEF Synced, File
<1> QED BY <1>1, <1>4, <1>5

\* A power loss leaves a file, and one with nothing left to write back.
LEMMA SurvivorsType ==
  ASSUME NEW f \in File, NEW g \in Survivors(f)
  PROVE  g \in File /\ Clean(g)
<1>1. PICK s \in {f.disk} \cup {p \in Prefixes(f.cache) :
                                f.state = "truncated" \/ Len(p) >= Len(f.disk)} :
        g = [f EXCEPT !.cache = s, !.disk = s, !.state = IF @ = "absent" THEN @ ELSE "kept"]
  BY Zenon DEF Survivors
<1>2. s \in Seq(Piece)
  BY <1>1 DEF Prefixes, File
<1> QED BY <1>1, <1>2, Zenon DEF File, Clean

\* A synced file survives as it is: what fsync is for.
LEMMA CleanSurvives ==
  ASSUME NEW f \in File, Clean(f), NEW g \in Survivors(f)
  PROVE  g.disk = f.disk
<1>1. PICK s \in {f.disk} \cup {p \in Prefixes(f.cache) :
                                f.state = "truncated" \/ Len(p) >= Len(f.disk)} :
        g = [f EXCEPT !.cache = s, !.disk = s, !.state = IF @ = "absent" THEN @ ELSE "kept"]
  BY Zenon DEF Survivors
<1>2. CASE s = f.disk
  BY <1>1, <1>2 DEF File
<1>3. CASE s \in Prefixes(f.cache) /\ Len(s) >= Len(f.disk)
  <2>1. PICK l \in 0..Len(f.cache) : s = SubSeq(f.cache, 1, l)
    BY <1>3 DEF Prefixes
  <2>2. l = Len(f.disk)
    BY <2>1, <1>3 DEF File, Clean
  <2>3. s = f.disk
    BY <2>1, <2>2 DEF File, Clean
  <2> QED BY <1>1, <2>3 DEF File
<1> QED BY <1>1, <1>2, <1>3 DEF Clean

\* A file that was only added to since it was synced keeps what was synced.
LEMMA ExtendedSurvives ==
  ASSUME NEW f \in File, f.state # "truncated", Extends(f.cache, f.disk), NEW g \in Survivors(f)
  PROVE  Extends(g.disk, f.disk)
<1>1. PICK s \in {f.disk} \cup {p \in Prefixes(f.cache) :
                                f.state = "truncated" \/ Len(p) >= Len(f.disk)} :
        g = [f EXCEPT !.cache = s, !.disk = s, !.state = IF @ = "absent" THEN @ ELSE "kept"]
  BY Zenon DEF Survivors
<1>2. g.disk = s
  BY <1>1 DEF File
<1>3. CASE s = f.disk
  BY <1>2, <1>3 DEF Extends, File
<1>4. CASE s \in Prefixes(f.cache) /\ Len(s) >= Len(f.disk)
  <2>1. PICK l \in 0..Len(f.cache) : s = SubSeq(f.cache, 1, l)
    BY <1>4 DEF Prefixes
  <2>2. Len(s) = l /\ \A i \in 1..l : s[i] = f.cache[i]
    BY <2>1 DEF File
  <2> QED BY <1>2, <1>4, <2>2 DEF Extends, File
<1> QED BY <1>1, <1>3, <1>4

\* Entries stay where they are when a file grows.
LEMMA PlacedExtends ==
  ASSUME NEW q \in Seq(Client), NEW s \in Seq(Piece), NEW t \in Seq(Piece),
         NEW n \in Int, NEW m \in Int, n <= m, Extends(t, s), PlacedIn(q, s, n)
  PROVE  PlacedIn(q, t, m)
<1>1. PICK place \in [DOMAIN q -> 1..Len(s)] :
        /\ \A i \in DOMAIN q : EntryAt(s, place[i], q[i]) /\ place[i] + 2 <= n
        /\ \A i, j \in DOMAIN q : i < j => place[i] + 2 < place[j]
  BY Zenon DEF PlacedIn
<1>2. place \in [DOMAIN q -> 1..Len(t)]
  BY DEF Extends
<1>3. ASSUME NEW i \in DOMAIN q PROVE EntryAt(t, place[i], q[i]) /\ place[i] + 2 <= m
  <2>1. EntryAt(s, place[i], q[i]) /\ place[i] + 2 <= n /\ place[i] \in 1..Len(s)
    BY <1>1
  <2> DEFINE a == place[i]
  <2>2. a \in 1..Len(s) - 2 /\ Len(s) \in Nat /\ Len(t) \in Nat /\ Len(s) <= Len(t)
    BY <2>1 DEF EntryAt, Extends
  <2>3. a \in 1..Len(s) /\ a + 1 \in 1..Len(s) /\ a + 2 \in 1..Len(s) /\ a \in 1..Len(t) - 2
    BY <2>2
  <2>4. t[a] = s[a] /\ t[a+1] = s[a+1] /\ t[a+2] = s[a+2]
    BY <2>3 DEF Extends
  <2>5. EntryAt(t, a, q[i])
    BY <2>1, <2>3, <2>4 DEF EntryAt
  <2> QED BY <2>1, <2>2, <2>5
<1> QED BY <1>1, <1>2, <1>3, Zenon DEF PlacedIn

\* One more entry, after the others.
LEMMA PlacedAppend ==
  ASSUME NEW q \in Seq(Client), NEW c \in Client, NEW s \in Seq(Piece),
         EntryAt(s, Len(s) - 2, c), PlacedIn(q, s, Len(s) - 3)
  PROVE  PlacedIn(Append(q, c), s, Len(s))
<1>1. PICK place \in [DOMAIN q -> 1..Len(s)] :
        /\ \A i \in DOMAIN q : EntryAt(s, place[i], q[i]) /\ place[i] + 2 <= Len(s) - 3
        /\ \A i, j \in DOMAIN q : i < j => place[i] + 2 < place[j]
  BY DEF PlacedIn
<1> DEFINE q2 == Append(q, c)
           new == [i \in DOMAIN q2 |-> IF i \in DOMAIN q THEN place[i] ELSE Len(s) - 2]
<1>2. /\ DOMAIN q = 1..Len(q) /\ DOMAIN q2 = 1..(Len(q) + 1) /\ Len(q) \in Nat
      /\ \A i \in DOMAIN q : q2[i] = q[i]
      /\ q2[Len(q) + 1] = c
  OBVIOUS
<1>3. Len(s) - 2 \in 1..Len(s)
  BY DEF EntryAt
<1>4. new \in [DOMAIN q2 -> 1..Len(s)]
  BY <1>1, <1>3
<1>5. ASSUME NEW i \in DOMAIN q2 PROVE EntryAt(s, new[i], q2[i]) /\ new[i] + 2 <= Len(s)
  <2>1. CASE i \in DOMAIN q
    <3>1. new[i] = place[i] /\ q2[i] = q[i] /\ place[i] \in 1..Len(s)
      BY <1>1, <1>2, <2>1
    <3> QED BY <1>1, <2>1, <3>1
  <2>2. CASE i \notin DOMAIN q
    <3>1. i = Len(q) + 1 /\ new[i] = Len(s) - 2
      BY <1>2, <2>2
    <3> QED BY <1>2, <3>1
  <2> QED BY <2>1, <2>2
<1>6. ASSUME NEW i \in DOMAIN q2, NEW j \in DOMAIN q2, i < j PROVE new[i] + 2 < new[j]
  <2>1. i \in DOMAIN q /\ new[i] = place[i] /\ place[i] \in 1..Len(s) /\ place[i] + 2 <= Len(s) - 3
    BY <1>1, <1>2, <1>6
  <2>2. CASE j \in DOMAIN q
    BY <1>1, <1>6, <2>1, <2>2
  <2>3. CASE j \notin DOMAIN q
    BY <2>1, <2>3
  <2> QED BY <2>2, <2>3
<1> HIDE DEF new, q2
<1>7. PlacedIn(q2, s, Len(s))
  BY <1>4, <1>5, <1>6 DEF PlacedIn
<1> QED BY <1>7 DEF q2

-----------------------------------------------------------------------------
(***************************************************************************)
(* The first state.                                                        *)
(***************************************************************************)
\* Nothing runs, there is no log and nobody was told anything.
LEMMA InitInv == Init => ServerInv
<1> SUFFICES ASSUME Init PROVE ServerInv
  OBVIOUS
<1> USE ServerAssumption
<1>1. NoFile \in File /\ <<>> \in Seq(Client)
  BY DEF NoFile, File
<1>2. TypeOK
  BY <1>1 DEF Init, TypeOK, Alive, Serving, Service, ServiceOf
<1>3. PolicyInv
  BY DEF Init, PolicyInv, PolicyDurable, Service, Told, Elements
<1>4. LogInv
  <2>1. file["logging"] = NoFile /\ acked["logging"] = <<>>
    BY DEF Init, Service
  <2>2. PlacedIn(<<>>, <<>>, 0)
    <3>1. DOMAIN <<>> = {}
      OBVIOUS
    <3>2. [i \in {} |-> 1] \in [{} -> 1..Len(<<>>)]
      OBVIOUS
    <3> QED BY <3>1, <3>2, Zenon DEF PlacedIn
  <2>3. LogDurable
    BY <2>1, <2>2 DEF LogDurable, NoFile
  <2> QED BY <2>1, <2>3 DEF LogInv, Extends, NoFile, Init, Told
<1> QED BY <1>2, <1>3, <1>4 DEF ServerInv

(***************************************************************************)
(* Types and the port.                                                     *)
(***************************************************************************)
\* The end of runs R frees their ports and ends their clients.
LEMMA EndedType ==
  ASSUME TypeOK, NEW R \in SUBSET Run, Ended(R)
  PROVE  /\ port' \in [Service -> Run \cup {Nobody}]
         /\ client' \in [Client -> {"idle", "waiting", "answered", "closed", "refused"}]
         /\ backlog' \in [Run -> Seq(Client)]
<1>1. port' \in [Service -> Run \cup {Nobody}]
  BY DEF Ended, TypeOK
<1>2. client' \in [Client -> {"idle", "waiting", "answered", "closed", "refused"}]
  BY DEF Ended, TypeOK
<1>3. backlog' \in [Run -> Seq(Client)]
  BY DEF Ended, TypeOK
<1> QED BY <1>1, <1>2, <1>3

\* Every step keeps the types, and the port with the run that serves.
LEMMA TypeStep == ServerInv /\ [Next]_vars => TypeOK'
<1> SUFFICES ASSUME TypeOK, [Next]_vars PROVE TypeOK'
  BY DEF ServerInv
<1> USE ServerAssumption
<1>1. ASSUME NEW r \in Run, Bind(r) PROVE TypeOK'
  <2>1. ServiceOf(r) \in Service
    BY DEF ServiceOf, Service
  <2>2. CASE port[ServiceOf(r)] = Nobody
    <3>1. /\ port' = [port EXCEPT ![ServiceOf(r)] = r] /\ pc' = [pc EXCEPT ![r] = "accept"]
          /\ UNCHANGED <<use_case, conn, ret_val, backlog, client, file, acked, crashes>>
      BY <1>1, <2>2 DEF Bind
    <3>2. \A q \in Run : Alive(q)' <=> port'[ServiceOf(q)'] = q
      BY <1>1, <2>1, <2>2, <3>1 DEF Bind, TypeOK, Alive, Serving, Service, ServiceOf
    <3> QED BY <2>1, <3>1, <3>2 DEF TypeOK, Serving
  <2>3. CASE port[ServiceOf(r)] # Nobody
    <3>1. /\ pc' = [pc EXCEPT ![r] = "failed"]
          /\ UNCHANGED <<port, use_case, conn, ret_val, backlog, client, file, acked, crashes>>
      BY <1>1, <2>3 DEF Bind
    <3>2. \A q \in Run : Alive(q)' <=> port'[ServiceOf(q)'] = q
      BY <1>1, <3>1 DEF Bind, TypeOK, Alive, Serving, Service, ServiceOf
    <3> QED BY <3>1, <3>2 DEF TypeOK, Serving
  <2> QED BY <2>2, <2>3
<1>2. ASSUME NEW c \in Client, NEW s \in Service, Connect(c, s) PROVE TypeOK'
  <2>0. \/ /\ port[s] = Nobody
           /\ client' = [client EXCEPT ![c] = "refused"]
           /\ UNCHANGED backlog
        \/ /\ port[s] # Nobody
           /\ client' = [client EXCEPT ![c] = "waiting"]
           /\ backlog' = [backlog EXCEPT ![port[s]] = Append(@, c)]
    BY <1>2 DEF Connect
  <2>1. backlog' \in [Run -> Seq(Client)]
    <3>1. CASE port[s] = Nobody
      BY <2>0, <3>1 DEF TypeOK
    <3>2. CASE port[s] # Nobody
      <4>1. port[s] \in Run
        BY <3>2 DEF TypeOK
      <4>2. Append(backlog[port[s]], c) \in Seq(Client)
        BY <4>1 DEF TypeOK
      <4>3. backlog' = [backlog EXCEPT ![port[s]] = Append(backlog[port[s]], c)]
        BY <2>0, <3>2
      <4>4. backlog \in [Run -> Seq(Client)]
        BY DEF TypeOK
      <4> QED BY <4>1, <4>2, <4>3, <4>4
    <3> QED BY <3>1, <3>2
  <2>2. client' \in [Client -> {"idle", "waiting", "answered", "closed", "refused"}]
    <3>1. client' = [client EXCEPT ![c] = "refused"] \/ client' = [client EXCEPT ![c] = "waiting"]
      BY <2>0
    <3>2. client \in [Client -> {"idle", "waiting", "answered", "closed", "refused"}]
      BY DEF TypeOK
    <3> QED BY <3>1, <3>2
  <2>3. UNCHANGED <<use_case, pc, conn, ret_val, port, file, acked, crashes>>
    BY <1>2 DEF Connect
  <2> QED BY <2>1, <2>2, <2>3 DEF TypeOK, Alive, ServiceOf
<1>3. ASSUME NEW r \in Run, Accept(r) PROVE TypeOK'
  <2>1. Head(backlog[r]) \in Client /\ Tail(backlog[r]) \in Seq(Client)
    BY <1>3 DEF Accept, TypeOK
  <2> QED BY <1>3, <2>1 DEF Accept, TypeOK, Alive, Serving, ServiceOf
<1>4. ASSUME NEW r \in Run, Recv(r) PROVE TypeOK'
  <2>1. PICK whole, listed, owner \in BOOLEAN, place \in {"ok", "refused", "missing"} :
          /\ pc' = [pc EXCEPT ![r] = UseCase(use_case[r], whole, listed, owner, place)[1]]
          /\ ret_val' = [ret_val EXCEPT ![r] = UseCase(use_case[r], whole, listed, owner, place)[2]]
    BY <1>4, Zenon DEF Recv
  <2>2. UseCase(use_case[r], whole, listed, owner, place)[1] \in {"open", "reply", "raise"}
    BY DEF UseCase, TypeOK, run_timely_deletion_case, run_indiscr_use_case,
           run_obtain_user_shared_data, run_risk_agno_use_case, run_hiding_breaches
  <2> QED BY <1>4, <2>1, <2>2 DEF Recv, TypeOK, Alive, Serving, ServiceOf
<1>5. ASSUME NEW r \in Run, OpenLog(r) PROVE TypeOK'
  <2>1. ServiceOf(r) \in Service /\ Mode(r) \in {"a", "w"}
    BY DEF ServiceOf, Service, Mode
  <2>2. file' \in [Service -> File] /\ acked' \in [Service -> Seq(Client)]
    <3>1. <<>> \in Seq(Client) /\ <<>> \in Seq(Piece)
      OBVIOUS
    <3> QED BY <1>5, <2>1, <3>1, FileOps, Zenon DEF OpenLog, TypeOK
  <2> QED BY <1>5, <2>2 DEF OpenLog, TypeOK, Alive, Serving, ServiceOf
<1>6. ASSUME NEW r \in Run, WriteLog(r) PROVE TypeOK'
  <2>1. ServiceOf(r) \in Service /\ Mode(r) \in {"a", "w"} /\ conn[r] \in Client
    BY <1>6 DEF ServiceOf, Service, Mode, WriteLog, TypeOK, Serving
  <2>2. file' \in [Service -> File]
    BY <1>6, <2>1, FileOps, EntryType, Zenon DEF WriteLog, TypeOK
  <2> QED BY <1>6, <2>2 DEF WriteLog, TypeOK, Alive, Serving, ServiceOf
<1>7. ASSUME NEW r \in Run, SyncLog(r) PROVE TypeOK'
  <2>1. ServiceOf(r) \in Service /\ <<>> \in Seq(Piece)
    BY DEF ServiceOf, Service
  <2>2. file' \in [Service -> File]
    BY <1>7, <2>1, FileOps, Zenon DEF SyncLog, TypeOK
  <2> QED BY <1>7, <2>2 DEF SyncLog, TypeOK, Alive, Serving, ServiceOf
<1>8. ASSUME NEW r \in Run, SendReply(r) PROVE TypeOK'
  <2>1. conn[r] \in Client /\ ServiceOf(r) \in Service
    BY <1>8 DEF SendReply, TypeOK, Serving, ServiceOf, Service
  <2>2. acked' \in [Service -> Seq(Client)]
    BY <1>8, <2>1 DEF SendReply, TypeOK
  <2> QED BY <1>8, <2>1, <2>2 DEF SendReply, TypeOK, Alive, Serving, ServiceOf
<1> DEFINE End(R) ==
      /\ Ended(R) /\ UNCHANGED <<use_case, conn, ret_val, acked>>
      /\ \A r \in R : Alive(r)
      /\ pc' = [r \in Run |-> IF r \in R THEN "done" ELSE pc[r]]
      /\ file' \in [Service -> File] /\ crashes' \in 0..MaxCrashes
<1>9. ASSUME NEW R \in SUBSET Run, End(R) PROVE TypeOK'
  <2>1. \A r \in Run : Alive(r)' <=> port'[ServiceOf(r)'] = r
    BY <1>9 DEF Ended, TypeOK, Alive, Serving, ServiceOf, Service
  <2> QED BY <1>9, <2>1, EndedType DEF TypeOK, Alive, Serving
<1>10. ASSUME NEW r \in Run, Close(r) PROVE TypeOK'
  <2>1. pc' = [q \in Run |-> IF q \in {r} THEN "done" ELSE pc[q]]
    BY <1>10, Zenon DEF Close, TypeOK
  <2>2. End({r})
    BY <1>10, <2>1, Zenon DEF Close, TypeOK, Alive
  <2> HIDE DEF End
  <2> QED BY <1>9, <2>2
<1>11. ASSUME NEW r \in Run, Kill(r) PROVE TypeOK'
  <2>1. pc' = [q \in Run |-> IF q \in {r} THEN "done" ELSE pc[q]]
    BY <1>11, Zenon DEF Kill, TypeOK
  <2>2. crashes' \in 0..MaxCrashes
    BY <1>11 DEF Kill, TypeOK
  <2>3. UNCHANGED <<use_case, conn, ret_val, file, acked>> /\ Ended({r}) /\ Alive(r)
    BY <1>11 DEF Kill
  <2>4. End({r})
    BY <2>1, <2>2, <2>3 DEF TypeOK
  <2> HIDE DEF End
  <2> QED BY <1>9, <2>4
<1>12. CASE PowerLoss
  <2> DEFINE R == {r \in Run : Alive(r)}
  <2>1. pc' = [q \in Run |-> IF q \in R THEN "done" ELSE pc[q]]
    BY <1>12 DEF PowerLoss
  <2>2. file' \in [Service -> File]
    BY <1>12, SurvivorsType DEF PowerLoss, TypeOK
  <2>3. End(R)
    BY <1>12, <2>1, <2>2 DEF PowerLoss, TypeOK
  <2> HIDE DEF End
  <2> QED BY <1>9, <2>3
<1>13. CASE UNCHANGED vars
  BY <1>13 DEF vars, TypeOK, Alive, ServiceOf
<1> QED BY <1>1, <1>2, <1>3, <1>4, <1>5, <1>6, <1>7, <1>8, <1>10, <1>11, <1>12, <1>13
        DEF Next, Step

(***************************************************************************)
(* The logs.  A step that leaves the files and the told entries alone, and *)
(* takes no run to where it writes, keeps both invariants.                 *)
(***************************************************************************)
Quiet ==
  /\ UNCHANGED <<use_case, file, acked>>
  /\ \A r \in Run :
       \/ pc'[r] \notin {"write", "sync", "reply"}
       \/ pc'[r] = pc[r] /\ conn'[r] = conn[r] /\ ret_val'[r] = ret_val[r]
       \/ pc'[r] = "reply" /\ (Logs(r) => ret_val'[r] # <<"Success">>)

\* Quiet steps.
LEMMA QuietSteps ==
  ASSUME TypeOK, [Next]_vars,
         ~(\E r \in Run : OpenLog(r) \/ WriteLog(r) \/ SyncLog(r) \/ SendReply(r)), ~PowerLoss
  PROVE  Quiet
<1>1. ASSUME NEW r \in Run, Bind(r) PROVE Quiet
  BY <1>1 DEF Bind, Quiet, TypeOK
<1>2. ASSUME NEW c \in Client, NEW s \in Service, Connect(c, s) PROVE Quiet
  BY <1>2 DEF Connect, Quiet
<1>3. ASSUME NEW r \in Run, Accept(r) PROVE Quiet
  BY <1>3 DEF Accept, Quiet, TypeOK
<1>4. ASSUME NEW r \in Run, Recv(r) PROVE Quiet
  <2>1. PICK whole, listed, owner \in BOOLEAN, place \in {"ok", "refused", "missing"} :
          /\ pc' = [pc EXCEPT ![r] = UseCase(use_case[r], whole, listed, owner, place)[1]]
          /\ ret_val' = [ret_val EXCEPT ![r] = UseCase(use_case[r], whole, listed, owner, place)[2]]
    BY <1>4, Zenon DEF Recv
  <2> DEFINE res == UseCase(use_case[r], whole, listed, owner, place)
  <2>2. use_case[r] \in {"1", "2", "3", "4", "5", "log"}
    BY ServerAssumption, Zenon DEF TypeOK
  <2>3. /\ res[1] \in {"open", "reply", "raise"}
        /\ Logs(r) /\ res[1] = "reply" => res[2] = <<"Failure">>
    BY <2>2 DEF UseCase, Logs, run_timely_deletion_case, run_indiscr_use_case,
           run_obtain_user_shared_data, run_risk_agno_use_case, run_hiding_breaches
  <2> HIDE DEF res
  <2>4. <<"Failure">> # <<"Success">>
    OBVIOUS
  <2>5. UNCHANGED <<use_case, file, acked, conn>>
    BY <1>4 DEF Recv
  <2>6. pc' = [pc EXCEPT ![r] = res[1]] /\ ret_val' = [ret_val EXCEPT ![r] = res[2]]
    BY <2>1 DEF res
  <2> QED BY <2>3, <2>4, <2>5, <2>6 DEF Quiet, TypeOK
<1>5. ASSUME NEW r \in Run, Close(r) PROVE Quiet
  BY <1>5 DEF Close, Quiet, TypeOK
<1>6. ASSUME NEW r \in Run, Kill(r) PROVE Quiet
  BY <1>6 DEF Kill, Quiet, TypeOK
<1>7. CASE UNCHANGED vars
  BY <1>7 DEF vars, Quiet
<1> QED BY <1>1, <1>2, <1>3, <1>4, <1>5, <1>6, <1>7 DEF Next, Step

\* While a run of a service is past its open, no other is: they share a port.
LEMMA AloneAtWork ==
  ASSUME TypeOK, NEW r \in Run, NEW q \in Run, ServiceOf(r) = ServiceOf(q),
         pc[r] \in {"open", "write", "sync", "reply"},
         pc[q] \in {"open", "write", "sync", "reply"}
  PROVE  r = q
<1>1. Alive(r) /\ Alive(q)
  BY DEF Alive
<1>2. port[ServiceOf(r)] = r /\ port[ServiceOf(q)] = q
  BY <1>1 DEF TypeOK
<1> QED BY <1>2

\* Every step keeps the invariant of the policy log.
LEMMA PolicyStep == ServerInv /\ [Next]_vars => PolicyInv'
<1> SUFFICES ASSUME TypeOK, PolicyInv, [Next]_vars PROVE PolicyInv'
  BY DEF ServerInv
<1>1. CASE Quiet
  <2>1. \A r \in Run : ServiceOf(r)' = ServiceOf(r) /\ (Logs(r)' <=> Logs(r))
    BY <1>1 DEF Quiet, ServiceOf, Logs
  <2>2. \A r \in Run : pc'[r] \in {"write", "sync"} => pc'[r] = pc[r] /\ conn'[r] = conn[r]
    BY <1>1 DEF Quiet
  <2>3. \A r \in Run : Told(r)' => Told(r) /\ conn'[r] = conn[r]
    BY <1>1, <2>1 DEF Quiet, Told
  <2> QED BY <1>1, <2>1, <2>2, <2>3 DEF PolicyInv, PolicyDurable, Quiet
<1>2. ASSUME NEW r \in Run, OpenLog(r) \/ WriteLog(r) \/ SyncLog(r) \/ SendReply(r),
             ServiceOf(r) = "logging"
      PROVE  PolicyInv'
  <2>1. /\ file'["policy"] = file["policy"] /\ acked'["policy"] = acked["policy"]
        /\ UNCHANGED <<use_case, conn, ret_val>>
        /\ \A q \in Run : ServiceOf(q) = "policy" => pc'[q] = pc[q]
    BY <1>2 DEF OpenLog, WriteLog, SyncLog, SendReply, TypeOK, Service
  <2>2. \A q \in Run : ServiceOf(q)' = ServiceOf(q) /\ (Logs(q)' <=> Logs(q))
    BY <2>1 DEF ServiceOf, Logs
  <2>3. \A q \in Run : ServiceOf(q) = "policy" => (Told(q)' <=> Told(q))
    BY <2>1, <2>2 DEF Told
  <2> QED BY <2>1, <2>2, <2>3 DEF PolicyInv, PolicyDurable
<1>3. ASSUME NEW r \in Run, OpenLog(r) \/ WriteLog(r) \/ SyncLog(r) \/ SendReply(r),
             ServiceOf(r) = "policy"
      PROVE  PolicyInv'
  <2>1. /\ UNCHANGED <<use_case, conn, ret_val>>
        /\ \A q \in Run : q # r => pc'[q] = pc[q]
    BY <1>3 DEF OpenLog, WriteLog, SyncLog, SendReply, TypeOK
  <2>2. \A q \in Run : ServiceOf(q)' = ServiceOf(q) /\ (Logs(q)' <=> Logs(q))
    BY <2>1 DEF ServiceOf, Logs
  <2>3. \A q \in Run : q # r /\ ServiceOf(q) = "policy" =>
          pc'[q] \notin {"write", "sync", "reply"}
    BY <1>3, <2>1, AloneAtWork DEF OpenLog, WriteLog, SyncLog, SendReply
  <2>4. Mode(r) = "w" /\ conn[r] \in Client
    BY <1>3 DEF Mode, ServiceOf, OpenLog, WriteLog, SyncLog, SendReply, TypeOK, Serving
  <2>5. file["policy"] \in File /\ acked["policy"] \in Seq(Client)
    BY DEF TypeOK, Service
  <2>6. CASE OpenLog(r)
    <3>1. pc'[r] = "write" /\ acked'["policy"] = <<>> /\ file'["policy"].cache = <<>>
      BY <1>3, <2>4, <2>5, <2>6 DEF OpenLog, TypeOK, Service, Opened, File
    <3>2. Elements(<<>>) = {}
      BY DEF Elements
    <3> QED BY <2>2, <2>3, <3>1, <3>2 DEF PolicyInv, PolicyDurable, Told
  <2>7. CASE WriteLog(r)
    <3>1. pc'[r] = "sync" /\ acked'["policy"] = acked["policy"] /\ pc[r] = "write"
      BY <2>7 DEF WriteLog, TypeOK
    <3>2. file["policy"].cache = <<>> /\ acked["policy"] = <<>>
      BY <1>3, <3>1 DEF PolicyInv
    <3>3. file'["policy"].cache = Entry(conn[r]) \o SubSeq(<<>>, 4, 0)
      BY <1>3, <2>4, <2>5, <2>7, <3>2, EntryType DEF WriteLog, TypeOK, Service, Flushed, File
    <3>4. file'["policy"].cache = Entry(conn[r])
      BY <2>4, <3>3, EntryType
    <3>5. Elements(<<>>) = {}
      BY DEF Elements
    <3> QED BY <2>1, <2>2, <2>3, <3>1, <3>2, <3>4, <3>5 DEF PolicyInv, PolicyDurable, Told
  <2>8. CASE SyncLog(r)
    <3>1. pc'[r] = "reply" /\ acked'["policy"] = acked["policy"] /\ pc[r] = "sync"
      BY <2>8 DEF SyncLog, TypeOK
    <3>2. file["policy"].cache = Entry(conn[r]) /\ acked["policy"] = <<>>
      BY <1>3, <3>1 DEF PolicyInv
    <3>3. Clean(file["policy"])' /\ file'["policy"].disk = Entry(conn[r])
      BY <1>3, <2>5, <2>8, <3>2 DEF SyncLog, TypeOK, Service, Synced, File, Clean
    <3>4. Elements(<<>>) = {}
      BY DEF Elements
    <3> QED BY <2>1, <2>2, <2>3, <3>1, <3>2, <3>3, <3>4 DEF PolicyInv, PolicyDurable, Told
  <2>9. CASE SendReply(r)
    <3>1. pc'[r] = "close" /\ file' = file /\ pc[r] = "reply"
      BY <2>9 DEF SendReply, TypeOK
    <3>2. CASE Told(r)
      <4>1. acked'["policy"] = Append(<<>>, conn[r]) /\ Clean(file["policy"])
              /\ file["policy"].disk = Entry(conn[r])
        BY <1>3, <2>9, <3>2, Zenon DEF SendReply, TypeOK, Service, Told, PolicyInv
      <4>2. Elements(acked'["policy"]) = {conn[r]}
        BY <4>1 DEF Elements
      <4> QED BY <2>2, <2>3, <3>1, <4>1, <4>2 DEF PolicyInv, PolicyDurable, Told, Clean
    <3>3. CASE ~Told(r)
      <4>1. acked'["policy"] = acked["policy"]
        BY <1>3, <2>9, <3>1, <3>3 DEF SendReply, TypeOK, Service, Told
      <4> QED BY <2>2, <2>3, <3>1, <4>1 DEF PolicyInv, PolicyDurable, Told, Clean
    <3> QED BY <3>2, <3>3
  <2> QED BY <1>3, <2>6, <2>7, <2>8, <2>9
<1>4. CASE PowerLoss
  <2>1. /\ file'["policy"] \in Survivors(file["policy"]) /\ acked' = acked
        /\ \A r \in Run : pc'[r] \notin {"write", "sync", "reply"}
    BY <1>4 DEF PowerLoss, TypeOK, Alive, Service
  <2>2. file["policy"] \in File
    BY DEF TypeOK, Service
  <2>3. Clean(file'["policy"])
    BY <2>1, <2>2, SurvivorsType
  <2>4. acked["policy"] # <<>> => file'["policy"].disk = file["policy"].disk
    BY <2>1, <2>2, CleanSurvives DEF PolicyInv
  <2>5. Elements(<<>>) = {}
    BY DEF Elements
  <2>6. PolicyDurable'
    BY <2>1, <2>4, <2>5 DEF PolicyInv, PolicyDurable
  <2> QED BY <2>1, <2>3, <2>6 DEF PolicyInv, Told, Clean
<1>5. \A r \in Run : ServiceOf(r) \in {"policy", "logging"}
  BY DEF ServiceOf
<1> QED BY <1>1, <1>2, <1>3, <1>4, <1>5, QuietSteps

\* Two pieces of log, one after the other.
LEMMA Concatenated ==
  ASSUME NEW s \in Seq(Piece), NEW u \in Seq(Piece)
  PROVE  s \o u \in Seq(Piece) /\ Len(s \o u) = Len(s) + Len(u)
OBVIOUS

\* An entry added to a log is its last three pieces.
LEMMA AppendedEntry ==
  ASSUME NEW s \in Seq(Piece), NEW c \in Client
  PROVE  LET t == s \o Entry(c)
         IN  /\ t \in Seq(Piece) /\ Len(t) = Len(s) + 3
             /\ EntryAt(t, Len(t) - 2, c) /\ Extends(t, s)
<1> DEFINE t == s \o Entry(c)
<1>1. t \in Seq(Piece) /\ Len(t) = Len(s) + 3 /\ Len(s) \in Nat
  <2>1. Entry(c) \in Seq(Piece) /\ Len(Entry(c)) = 3
    BY EntryType
  <2> HIDE DEF t
  <2>2. t = s \o Entry(c)
    BY DEF t
  <2>3. s \o Entry(c) \in Seq(Piece) /\ Len(s \o Entry(c)) = Len(s) + Len(Entry(c))
    BY <2>1, Concatenated, Zenon
  <2> QED BY <2>1, <2>2, <2>3
<1>2. Extends(t, s)
  BY <1>1, EntryType DEF Extends
<1>3. Entry(c)[1] = <<c, 1>> /\ Entry(c)[2] = <<c, 2>> /\ Entry(c)[3] = <<c, 3>>
  BY DEF Entry
<1>4. /\ t[Len(s) + 1] = Entry(c)[1]
      /\ t[Len(s) + 2] = Entry(c)[2]
      /\ t[Len(s) + 3] = Entry(c)[3]
  BY <1>1, EntryType
<1> HIDE DEF t
<1>5. EntryAt(t, Len(s) + 1, c)
  BY <1>1, <1>3, <1>4 DEF EntryAt
<1>6. Len(t) - 2 = Len(s) + 1
  BY <1>1
<1> QED BY <1>1, <1>2, <1>5, <1>6 DEF t

\* Every step keeps the invariant of the execution log.
LEMMA LogStep == ServerInv /\ [Next]_vars => LogInv'
<1> SUFFICES ASSUME TypeOK, LogInv, [Next]_vars PROVE LogInv'
  BY DEF ServerInv
<1> DEFINE f == file["logging"]
           q == acked["logging"]
<1>0. f \in File /\ q \in Seq(Client) /\ f.disk \in Seq(Piece) /\ f.cache \in Seq(Piece)
  BY DEF TypeOK, Service, File
<1>1. CASE Quiet
  <2>1. \A r \in Run : ServiceOf(r)' = ServiceOf(r) /\ (Logs(r)' <=> Logs(r))
    BY <1>1 DEF Quiet, ServiceOf, Logs
  <2>2. \A r \in Run : pc'[r] = "sync" => pc'[r] = pc[r] /\ conn'[r] = conn[r]
    BY <1>1 DEF Quiet
  <2>3. \A r \in Run : Told(r)' => Told(r) /\ conn'[r] = conn[r]
    BY <1>1, <2>1 DEF Quiet, Told
  <2>4. file' = file /\ acked' = acked
    BY <1>1 DEF Quiet
  <2> QED BY <2>1, <2>2, <2>3, <2>4 DEF LogInv, LogDurable
<1>2. ASSUME NEW r \in Run, OpenLog(r) \/ WriteLog(r) \/ SyncLog(r) \/ SendReply(r),
             ServiceOf(r) = "policy"
      PROVE  LogInv'
  <2>1. /\ file'["logging"] = file["logging"] /\ acked'["logging"] = acked["logging"]
        /\ UNCHANGED <<use_case, conn, ret_val>>
        /\ \A p \in Run : ServiceOf(p) = "logging" => pc'[p] = pc[p]
    BY <1>2 DEF OpenLog, WriteLog, SyncLog, SendReply, TypeOK, Service
  <2>2. \A p \in Run : ServiceOf(p)' = ServiceOf(p) /\ (Logs(p)' <=> Logs(p))
    BY <2>1 DEF ServiceOf, Logs
  <2>3. \A p \in Run : ServiceOf(p) = "logging" => (Told(p)' <=> Told(p))
    BY <2>1, <2>2 DEF Told
  <2> QED BY <2>1, <2>2, <2>3 DEF LogInv, LogDurable
<1>3. ASSUME NEW r \in Run, OpenLog(r) \/ WriteLog(r) \/ SyncLog(r) \/ SendReply(r),
             ServiceOf(r) = "logging"
      PROVE  LogInv'
  <2>1. /\ UNCHANGED <<use_case, conn, ret_val>>
        /\ \A p \in Run : p # r => pc'[p] = pc[p]
    BY <1>3 DEF OpenLog, WriteLog, SyncLog, SendReply, TypeOK
  <2>2. \A p \in Run : ServiceOf(p)' = ServiceOf(p) /\ (Logs(p)' <=> Logs(p))
    BY <2>1 DEF ServiceOf, Logs
  <2>3. \A p \in Run : p # r /\ ServiceOf(p) = "logging" =>
          pc'[p] \notin {"write", "sync", "reply"}
    BY <1>3, <2>1, AloneAtWork DEF OpenLog, WriteLog, SyncLog, SendReply
  <2>4. Mode(r) = "a" /\ conn[r] \in Client
    BY <1>3 DEF Mode, ServiceOf, OpenLog, WriteLog, SyncLog, SendReply, TypeOK, Serving
  <2>5. CASE OpenLog(r)
    <3>1. /\ pc'[r] = "write" /\ acked'["logging"] = q
          /\ file'["logging"] = Opened(f, "a")
      BY <1>3, <2>4, <2>5 DEF OpenLog, TypeOK, Service
    <3>2. /\ file'["logging"].cache = f.cache /\ file'["logging"].disk = f.disk
          /\ file'["logging"].state # "truncated"
      BY <1>0, <3>1 DEF Opened, File, LogInv
    <3> QED BY <2>2, <2>3, <3>1, <3>2 DEF LogInv, LogDurable, Told
  <2>6. CASE WriteLog(r)
    <3>1. /\ pc'[r] = "sync" /\ acked'["logging"] = q
          /\ file'["logging"] = Flushed(f, "a", Entry(conn[r]))
      BY <1>3, <2>4, <2>6 DEF WriteLog, TypeOK, Service
    <3> DEFINE t == f.cache \o Entry(conn[r])
    <3>2. /\ file'["logging"].cache = t /\ file'["logging"].disk = f.disk
          /\ file'["logging"].state # "truncated"
      BY <1>0, <3>1, Zenon DEF Flushed, File, LogInv
    <3>3. /\ t \in Seq(Piece) /\ Len(t) = Len(f.cache) + 3
          /\ EntryAt(t, Len(t) - 2, conn[r]) /\ Extends(t, f.cache)
      BY <1>0, <2>4, AppendedEntry, Zenon
    <3> HIDE DEF t
    <3>4. Extends(f.cache, f.disk) /\ Len(f.disk) \in Nat /\ Len(f.cache) \in Nat
      <4>1. Extends(f.cache, f.disk)
        BY DEF LogInv
      <4>2. Len(f.disk) \in Nat /\ Len(f.cache) \in Nat
        BY <1>0
      <4> QED BY <4>1, <4>2
    <3>5. Extends(t, f.disk) /\ Len(f.disk) + 3 <= Len(t)
      BY <3>3, <3>4 DEF Extends
    <3>6. LogDurable'
      BY <3>1, <3>2 DEF LogInv, LogDurable
    <3> QED BY <2>1, <2>2, <2>3, <3>1, <3>2, <3>3, <3>5, <3>6, Zenon DEF LogInv, Told
  <2>7. CASE SyncLog(r)
    <3>1. /\ pc'[r] = "reply" /\ acked'["logging"] = q /\ pc[r] = "sync"
          /\ file'["logging"] = Synced(f)
      BY <1>3, <2>7 DEF SyncLog, TypeOK, Service
    <3>2. /\ file'["logging"].cache = f.cache /\ file'["logging"].disk = f.cache
          /\ file'["logging"].state # "truncated"
      BY <1>0, <3>1 DEF Synced, File
    <3>3. /\ Extends(f.cache, f.disk) /\ PlacedIn(q, f.disk, Len(f.disk))
          /\ EntryAt(f.cache, Len(f.cache) - 2, conn[r]) /\ Len(f.disk) + 3 <= Len(f.cache)
      BY <1>3, <3>1 DEF LogInv, LogDurable
    <3>4. /\ Len(f.disk) \in Int /\ Len(f.cache) \in Int /\ Len(f.cache) - 3 \in Int
          /\ Len(f.disk) <= Len(f.cache) - 3 /\ Len(f.disk) <= Len(f.cache)
      BY <1>0, <3>3
    <3>5. PlacedIn(q, f.cache, Len(f.cache) - 3)
      BY <1>0, <3>3, <3>4, PlacedExtends
    <3>6. PlacedIn(q, f.cache, Len(f.cache))
      BY <1>0, <3>3, <3>4, PlacedExtends
    <3>7. LogDurable'
      BY <3>1, <3>2, <3>6 DEF LogDurable
    <3>8. Extends(f.cache, f.cache)
      BY <1>0 DEF Extends
    <3> QED BY <2>1, <2>2, <2>3, <3>1, <3>2, <3>3, <3>5, <3>7, <3>8, Zenon DEF LogInv, Told
  <2>8. CASE SendReply(r)
    <3>1. pc'[r] = "close" /\ file' = file /\ pc[r] = "reply"
      BY <2>8 DEF SendReply, TypeOK
    <3>2. LogDurable'
      <4>1. CASE Told(r)
        <5>1. acked'["logging"] = Append(q, conn[r])
          BY <1>3, <2>8, <4>1 DEF SendReply, TypeOK, Service, Told
        <5>2. EntryAt(f.disk, Len(f.disk) - 2, conn[r]) /\ PlacedIn(q, f.disk, Len(f.disk) - 3)
          BY <1>3, <4>1 DEF LogInv
        <5>3. PlacedIn(Append(q, conn[r]), f.disk, Len(f.disk))
          BY <1>0, <2>4, <5>2, PlacedAppend
        <5> QED BY <3>1, <5>1, <5>3 DEF LogDurable
      <4>2. CASE ~Told(r)
        <5>1. acked'["logging"] = q
          BY <1>3, <2>8, <3>1, <4>2 DEF SendReply, TypeOK, Service, Told
        <5> QED BY <3>1, <5>1 DEF LogInv, LogDurable
      <4> QED BY <4>1, <4>2
    <3> QED BY <2>2, <2>3, <3>1, <3>2 DEF LogInv, Told
  <2> QED BY <1>3, <2>5, <2>6, <2>7, <2>8
<1>4. CASE PowerLoss
  <2>1. /\ file'["logging"] \in Survivors(f) /\ acked' = acked
        /\ \A r \in Run : pc'[r] \notin {"write", "sync", "reply"}
    BY <1>4 DEF PowerLoss, TypeOK, Alive, Service
  <2> DEFINE g == file'["logging"]
  <2>2. g \in File /\ Clean(g)
    BY <1>0, <2>1, SurvivorsType
  <2>3. Extends(g.disk, f.disk)
    BY <1>0, <2>1, ExtendedSurvives DEF LogInv
  <2>4. g.disk \in Seq(Piece) /\ g.cache = g.disk /\ g.state # "truncated"
    BY <2>2 DEF File, Clean
  <2>5. Len(f.disk) \in Int /\ Len(g.disk) \in Int /\ Len(f.disk) <= Len(g.disk)
    BY <1>0, <2>3, <2>4 DEF Extends
  <2>6. PlacedIn(q, g.disk, Len(g.disk))
    BY <1>0, <2>3, <2>4, <2>5, PlacedExtends DEF LogInv, LogDurable
  <2>7. Extends(g.cache, g.disk)
    BY <2>4 DEF Extends
  <2>8. LogDurable'
    BY <2>1, <2>6 DEF LogDurable
  <2> QED BY <2>1, <2>4, <2>7, <2>8 DEF LogInv, Told
<1>5. \A r \in Run : ServiceOf(r) \in {"policy", "logging"}
  BY DEF ServiceOf
<1> QED BY <1>1, <1>2, <1>3, <1>4, <1>5, QuietSteps

-----------------------------------------------------------------------------
\* The invariant of the servers holds in every reachable state.
THEOREM Inductive == Spec => []ServerInv
<1>1. ServerInv /\ [Next]_vars => ServerInv'
  BY TypeStep, PolicyStep, LogStep DEF ServerInv
<1> QED BY <1>1, InitInv, PTL DEF Spec

\* The runs of a service never overlap: a run has the port of its service
\* exactly while it serves (policy_server.py:15-18 and 61).
THEOREM ServersTyped == Spec => []TypeOK
<1>1. ServerInv => TypeOK
  BY DEF ServerInv
<1> QED BY <1>1, Inductive, PTL

\* What a client of use case 4 or 5 was told is logged is the log, on the disk,
\* until another run replaces it (run_use_cases.py:78-92, 100-114).
THEOREM PolicyLogDurable == Spec => []PolicyDurable
<1>1. ServerInv => PolicyDurable
  BY DEF ServerInv, PolicyInv
<1> QED BY <1>1, Inductive, PTL

\* What a client of the logging server was told is logged stays in the log, on
\* the disk, in the order of the answers (execution_logger.py:5-20).
THEOREM ExecutionLogDurable == Spec => []LogDurable
<1>1. ServerInv => LogDurable
  BY DEF ServerInv, LogInv
<1> QED BY <1>1, Inductive, PTL

=============================================================================
