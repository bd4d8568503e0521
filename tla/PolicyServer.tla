---------------------------- MODULE PolicyServer ----------------------------
(***************************************************************************)
(* The policy server and the logging server (policy_server.py,             *)
(* logging_server.py) with the logs they keep (run_use_cases.py,           *)
(* execution_logger.py).                                                   *)
(*                                                                         *)
(* A server process serves one client and ends, so a service is a series   *)
(* of runs that somebody starts, at any time, one port for all of them.    *)
(* A run can be killed at any point, and the machine can lose power: what  *)
(* survives of a file is then up to the write-back of its cached pages.    *)
(* A policy is what the use cases find in it, chosen when they look.       *)
(***************************************************************************)
EXTENDS Sequences, Integers

CONSTANTS
  Run,         \* runs of the servers
  Client,      \* clients; each sends one request
  Case,        \* use cases: a subset of {"1", "2", "3", "4", "5", "log"}
  MaxCrashes   \* bound: killed runs and power losses

Nobody == "nobody"

ASSUME ServerAssumption ==
  /\ Case \subseteq {"1", "2", "3", "4", "5", "log"}
  /\ MaxCrashes \in Nat /\ Nobody \notin Run

VARIABLES
  use_case,    \* of each run: its command line
  pc,          \* of each run: what it does next
  conn,        \* of each run: the client it accepted
  ret_val,     \* of each run: what it replies
  backlog,     \* of each run: clients waiting to be accepted
  port,        \* of each service: the run bound to its port
  client,      \* of each client: where it stands
  file,        \* of each service: its log
  acked,       \* of each service: entries whose clients were told Success and
               \*   that no later run of the policy server began to replace
  crashes

vars == <<use_case, pc, conn, ret_val, backlog, port, client, file, acked, crashes>>

Service == {"policy", "logging"}
ServiceOf(r) == IF use_case[r] = "log" THEN "logging" ELSE "policy"

-----------------------------------------------------------------------------
(***************************************************************************)
(* Files.  cache is what a read returns and disk what was last synced.  A  *)
(* file is absent, kept (only added to since it was synced) or truncated.  *)
(***************************************************************************)
NoFile == [state |-> "absent", cache |-> <<>>, disk |-> <<>>]

\* A line of the log, in three pieces of which the last is the newline.
Entry(c) == <<<<c, 1>>, <<c, 2>>, <<c, 3>>>>
rstrip(s) == IF s # <<>> /\ s[Len(s)][2] = 3 THEN SubSeq(s, 1, Len(s) - 1) ELSE s

Prefixes(s) == {SubSeq(s, 1, n) : n \in 0..Len(s)}
Elements(s) == {s[i] : i \in DOMAIN s}

Opened(f, mode) ==
  IF mode = "w" THEN [f EXCEPT !.state = "truncated", !.cache = <<>>]
                ELSE [f EXCEPT !.state = IF @ = "absent" THEN "kept" ELSE @]
\* The one write that flush makes: at the start of the file for "w", where the
\* run has its offset, and at its end for "a".
Flushed(f, mode, s) ==
  [f EXCEPT !.cache = IF mode = "w" THEN s \o SubSeq(@, Len(s) + 1, Len(@)) ELSE @ \o s]
SyncedNot(f) == f
Synced(f) == [f EXCEPT !.disk = f.cache, !.state = "kept"]
\* After a power loss: the synced content, or as much of the later as was
\* written back.
Survivors(f) ==
  {[f EXCEPT !.cache = s, !.disk = s, !.state = IF @ = "absent" THEN @ ELSE "kept"] :
     s \in {f.disk} \cup {p \in Prefixes(f.cache) :
                           f.state = "truncated" \/ Len(p) >= Len(f.disk)}}

ModeTruncates(r) == "w"
Mode(r) == IF use_case[r] = "log" THEN "a" ELSE "w"

-----------------------------------------------------------------------------
Init ==
  /\ use_case \in [Run -> Case]
  /\ pc = [r \in Run |-> "start"]
  /\ conn = [r \in Run |-> Nobody]
  /\ ret_val = [r \in Run |-> <<>>]
  /\ backlog = [r \in Run |-> <<>>]
  /\ port = [s \in Service |-> Nobody]
  /\ client = [c \in Client |-> "idle"]
  /\ file = [s \in Service |-> NoFile]
  /\ acked = [s \in Service |-> <<>>]
  /\ crashes = 0

\* socket, bind and listen; bind fails while another run has the port.
BindShared(r) ==
  /\ pc[r] = "start"
  /\ pc' = [pc EXCEPT ![r] = "accept"]
  /\ port' = [port EXCEPT ![ServiceOf(r)] = r]
  /\ UNCHANGED <<use_case, conn, ret_val, backlog, client, file, acked, crashes>>
Bind(r) ==
  /\ pc[r] = "start"
  /\ \/ /\ port[ServiceOf(r)] = Nobody
        /\ port' = [port EXCEPT ![ServiceOf(r)] = r]
        /\ pc' = [pc EXCEPT ![r] = "accept"]
     \/ /\ port[ServiceOf(r)] # Nobody
        /\ pc' = [pc EXCEPT ![r] = "failed"]
        /\ UNCHANGED port
  /\ UNCHANGED <<use_case, conn, ret_val, backlog, client, file, acked, crashes>>

\* policy_client.py: connect, which the listening socket completes whatever
\* the run does, and send.  Without a listener the client ends.
Connect(c, s) ==
  /\ client[c] = "idle"
  /\ \/ /\ port[s] = Nobody
        /\ client' = [client EXCEPT ![c] = "refused"]
        /\ UNCHANGED backlog
     \/ /\ port[s] # Nobody
        /\ client' = [client EXCEPT ![c] = "waiting"]
        /\ backlog' = [backlog EXCEPT ![port[s]] = Append(@, c)]
  /\ UNCHANGED <<use_case, pc, conn, ret_val, port, file, acked, crashes>>

Accept(r) ==
  /\ pc[r] = "accept" /\ backlog[r] # <<>>
  /\ conn' = [conn EXCEPT ![r] = Head(backlog[r])]
  /\ backlog' = [backlog EXCEPT ![r] = Tail(@)]
  /\ pc' = [pc EXCEPT ![r] = "recv"]
  /\ UNCHANGED <<use_case, ret_val, port, client, file, acked, crashes>>

\* What the run does next after the use case has looked at the policy, and
\* the reply it has: "raise" for an exception, which ends the run.  whole says
\* that recv returned a policy that compiles; listed and owner what the access
\* policy says of its session key; place how the first of the four location and
\* firmware conditions that does not hold fails.
run_timely_deletion_case(listed) ==
  IF listed THEN <<"reply", <<"query">>>> ELSE <<"raise", <<>>>>
run_indiscr_use_case(listed) ==
  <<"reply", IF listed THEN <<"Success">> ELSE <<"Failure">>>>
run_obtain_user_shared_data(owner) ==
  IF owner /\ file["policy"].state # "absent"
  THEN <<"reply", rstrip(file["policy"].cache)>> ELSE <<"raise", <<>>>>
run_risk_agno_use_case(listed, place) ==
  CASE ~listed \/ place = "refused" -> <<"reply", <<"Failure">>>>
    [] listed /\ place = "missing"  -> <<"raise", <<>>>>
    [] listed /\ place = "ok"       -> <<"open", <<"Success">>>>
run_hiding_breaches(listed) ==
  IF listed THEN <<"open", <<"Success">>>> ELSE <<"reply", <<"Failure">>>>

UseCase(k, whole, listed, owner, place) ==
  CASE ~whole -> <<"raise", <<>>>>
    [] whole /\ k = "1" -> run_timely_deletion_case(listed)
    [] whole /\ k = "2" -> run_indiscr_use_case(listed)
    [] whole /\ k = "3" -> run_obtain_user_shared_data(owner)
    [] whole /\ k = "4" -> run_risk_agno_use_case(listed, place)
    [] whole /\ k = "5" -> run_hiding_breaches(listed)
    [] whole /\ k = "log" -> <<"open", <<"Success">>>>

\* recv, compile_policy and the use case up to its log.
Recv(r) ==
  /\ pc[r] = "recv"
  /\ \E whole, listed, owner \in BOOLEAN, place \in {"ok", "refused", "missing"} :
       LET res == UseCase(use_case[r], whole, listed, owner, place)
       IN  /\ pc' = [pc EXCEPT ![r] = res[1]]
           /\ ret_val' = [ret_val EXCEPT ![r] = res[2]]
  /\ UNCHANGED <<use_case, conn, backlog, port, client, file, acked, crashes>>

\* open: "w" empties the log, "a" does not.
OpenLog(r) ==
  /\ pc[r] = "open"
  /\ file' = [file EXCEPT ![ServiceOf(r)] = Opened(@, Mode(r))]
  /\ acked' = [acked EXCEPT ![ServiceOf(r)] = IF ServiceOf(r) = "policy" THEN <<>> ELSE @]
  /\ pc' = [pc EXCEPT ![r] = "write"]
  /\ UNCHANGED <<use_case, conn, ret_val, backlog, port, client, crashes>>

WriteLog(r) ==
  /\ pc[r] = "write"
  /\ file' = [file EXCEPT ![ServiceOf(r)] = Flushed(@, Mode(r), Entry(conn[r]))]
  /\ pc' = [pc EXCEPT ![r] = "sync"]
  /\ UNCHANGED <<use_case, conn, ret_val, backlog, port, client, acked, crashes>>

SyncLog(r) ==
  /\ pc[r] = "sync"
  /\ file' = [file EXCEPT ![ServiceOf(r)] = Synced(@)]
  /\ pc' = [pc EXCEPT ![r] = "reply"]
  /\ UNCHANGED <<use_case, conn, ret_val, backlog, port, client, acked, crashes>>

Logs(r) == use_case[r] \in {"4", "5", "log"}

SendReply(r) ==
  /\ pc[r] = "reply"
  /\ client' = [client EXCEPT ![conn[r]] = "answered"]
  /\ acked' = [acked EXCEPT ![ServiceOf(r)] =
                 IF Logs(r) /\ ret_val[r] = <<"Success">> THEN Append(@, conn[r]) ELSE @]
  /\ pc' = [pc EXCEPT ![r] = "close"]
  /\ UNCHANGED <<use_case, conn, ret_val, backlog, port, file, crashes>>

\* What the end of runs R does: their sockets are closed, the client that was
\* accepted reads the end of the stream and the ones in the backlog are reset.
EndedQueued(R) ==
  /\ port' = [s \in Service |-> IF port[s] \in R THEN Nobody ELSE port[s]]
  /\ client' = [c \in Client |->
                  IF client[c] = "waiting" /\ \E r \in R : conn[r] = c
                  THEN "closed" ELSE client[c]]
  /\ backlog' = [r \in Run |-> IF r \in R THEN <<>> ELSE backlog[r]]
Ended(R) ==
  /\ port' = [s \in Service |-> IF port[s] \in R THEN Nobody ELSE port[s]]
  /\ client' = [c \in Client |->
                  IF client[c] = "waiting" /\ \E r \in R : conn[r] = c \/ c \in Elements(backlog[r])
                  THEN "closed" ELSE client[c]]
  /\ backlog' = [r \in Run |-> IF r \in R THEN <<>> ELSE backlog[r]]

\* The end of run_server, and an exception on its way there.
Close(r) ==
  /\ pc[r] \in {"close", "raise"}
  /\ pc' = [pc EXCEPT ![r] = "done"]
  /\ Ended({r})
  /\ UNCHANGED <<use_case, conn, ret_val, file, acked, crashes>>

Alive(r) == pc[r] \notin {"start", "failed", "done"}

Kill(r) ==
  /\ Alive(r) /\ crashes < MaxCrashes
  /\ crashes' = crashes + 1
  /\ pc' = [pc EXCEPT ![r] = "done"]
  /\ Ended({r})
  /\ UNCHANGED <<use_case, conn, ret_val, file, acked>>

PowerLoss ==
  /\ crashes < MaxCrashes
  /\ crashes' = crashes + 1
  /\ pc' = [r \in Run |-> IF Alive(r) THEN "done" ELSE pc[r]]
  /\ Ended({r \in Run : Alive(r)})
  /\ \E f \in [Service -> UNION {Survivors(file[s]) : s \in Service}] :
       /\ \A s \in Service : f[s] \in Survivors(file[s])
       /\ file' = f
  /\ UNCHANGED <<use_case, conn, ret_val, acked>>

Step(r) == \/ Bind(r) \/ Accept(r) \/ Recv(r)
           \/ OpenLog(r) \/ WriteLog(r) \/ SyncLog(r)
           \/ SendReply(r) \/ Close(r)

Next == \/ \E r \in Run : Step(r)
        \/ \E c \in Client, s \in Service : Connect(c, s)
        \/ \E r \in Run : Kill(r)
        \/ PowerLoss

\* A run is scheduled until it ends; nobody need start one, or connect.
Spec == Init /\ [][Next]_vars /\ \A r \in Run : WF_vars(Step(r))

-----------------------------------------------------------------------------
\* Types; and a run has the port of its service exactly while it serves, so
\* the runs of a service never overlap (policy_server.py:15-18 and 61).
Piece == Client \X (1..3)
File == [state : {"absent", "kept", "truncated"}, cache : Seq(Piece), disk : Seq(Piece)]
Serving == {"recv", "open", "write", "sync", "reply", "raise", "close"}
TypeOK ==
  /\ use_case \in [Run -> Case]
  /\ pc \in [Run -> Serving \cup {"start", "accept", "done", "failed"}]
  /\ conn \in [Run -> Client \cup {Nobody}]
  /\ DOMAIN ret_val = Run
  /\ backlog \in [Run -> Seq(Client)]
  /\ port \in [Service -> Run \cup {Nobody}]
  /\ client \in [Client -> {"idle", "waiting", "answered", "closed", "refused"}]
  /\ file \in [Service -> File]
  /\ acked \in [Service -> Seq(Client)]
  /\ crashes \in 0..MaxCrashes
  /\ \A r \in Run : pc[r] \in Serving => conn[r] \in Client
  /\ \A r \in Run : Alive(r) <=> port[ServiceOf(r)] = r

\* The policy log is the entry whose client was last told Success, on the disk
\* and whole, until another run begins to replace it (run_use_cases.py:85-92
\* syncs before it returns), whatever was killed and wherever the power failed.
PolicyDurable == \A c \in Elements(acked["policy"]) : file["policy"].disk = Entry(c)

\* The execution log has on the disk every entry whose client was told Success
\* (execution_logger.py:15-20), whole and in the order of the answers, whatever
\* was killed and wherever the power failed.
EntryAt(s, a, c) ==
  /\ a \in 1..Len(s) - 2
  /\ s[a] = <<c, 1>> /\ s[a+1] = <<c, 2>> /\ s[a+2] = <<c, 3>>
PlacedIn(q, s, n) ==
  \E place \in [DOMAIN q -> 1..Len(s)] :
    /\ \A i \in DOMAIN q : EntryAt(s, place[i], q[i]) /\ place[i] + 2 <= n
    /\ \A i, j \in DOMAIN q : i < j => place[i] + 2 < place[j]
LogDurable == PlacedIn(acked["logging"], file["logging"].disk, Len(file["logging"].disk))

\* What makes them inductive.  While a run of the policy server writes, no
\* entry counts as told; its file is empty, then the entry, then the entry on
\* the disk when the run is about to say so.  A run of the logging server only
\* adds to what is on the disk, and its entry comes after those told before.
Told(r) == pc[r] = "reply" /\ Logs(r) /\ ret_val[r] = <<"Success">>
Clean(f) == f.state # "truncated" /\ f.cache = f.disk
PolicyInv ==
  /\ \A r \in Run : ServiceOf(r) = "policy" =>
       /\ pc[r] = "write" => file["policy"].cache = <<>>
       /\ pc[r] = "sync" => file["policy"].cache = Entry(conn[r])
       /\ Told(r) => Clean(file["policy"]) /\ file["policy"].disk = Entry(conn[r])
       /\ pc[r] \in {"write", "sync"} \/ Told(r) => acked["policy"] = <<>>
  /\ acked["policy"] # <<>> => Clean(file["policy"])
  /\ PolicyDurable
Extends(t, s) == Len(s) <= Len(t) /\ \A i \in 1..Len(s) : t[i] = s[i]
LogInv ==
  /\ file["logging"].state # "truncated"
  /\ Extends(file["logging"].cache, file["logging"].disk)
  /\ LogDurable
  /\ \A r \in Run : ServiceOf(r) = "logging" =>
       /\ pc[r] = "sync" =>
            /\ EntryAt(file["logging"].cache, Len(file["logging"].cache) - 2, conn[r])
            /\ Len(file["logging"].disk) + 3 <= Len(file["logging"].cache)
       /\ Told(r) =>
            /\ EntryAt(file["logging"].disk, Len(file["logging"].disk) - 2, conn[r])
            /\ PlacedIn(acked["logging"], file["logging"].disk, Len(file["logging"].disk) - 3)
ServerInv == TypeOK /\ PolicyInv /\ LogInv

\* What use case 3 reads (run_use_cases.py:52-55) comes from one entry, since
\* no other run writes while it has the port, and is the whole of it when
\* nothing crashed.  After a crash it can be a part of it, or nothing, although
\* run_use_cases.py:54 assumes a single entry.
OneEntry ==
  \A r \in Run : use_case[r] = "3" /\ pc[r] = "reply" =>
    \E c \in Client : \/ ret_val[r] = SubSeq(Entry(c), 1, 2)
                      \/ crashes > 0 /\ ret_val[r] \in Prefixes(Entry(c))

\* A client that a service let connect is answered or sees its connection
\* closed, also one whom the run never accepts (policy_server.py:20-61).
ClientEnds == \A c \in Client : client[c] = "waiting" ~> client[c] \in {"answered", "closed"}

=============================================================================
