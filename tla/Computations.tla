---------------------------- MODULE Computations ----------------------------
(***************************************************************************)
(* The parts of the system that compute an answer from their input and     *)
(* keep nothing: the policy compiler, the policy checker, and the way of a *)
(* row from the storage server into a query of the host.  Each run is one  *)
(* of them on one input, and is compared with what the answer should mean. *)
(***************************************************************************)
EXTENDS PolicyCompiler, PolicyChecker, RecordFormat

VARIABLES
  program,  \* the part that runs
  input,    \* its input
  answer    \* its answer, once it has ended: a sequence of at most one

vars == <<program, input, answer>>

Init ==
  /\ answer = <<>>
  /\ \/ program = "compiler" /\ input \in Policies
     \/ program = "checker"  /\ input \in Requests
     \/ program = "row"      /\ input \in Rows

Ends(p, result) ==
  /\ program = p /\ answer = <<>>
  /\ answer' = <<result>>
  /\ UNCHANGED <<program, input>>

Compile == Ends("compiler", compile_policy(input))
Check   == Ends("checker", main(input))

\* The storage server builds the record; the host stores its bytes and reads
\* the columns.
Ship ==
  LET record == make_ssd_record(input)
  IN  Ends("row", [record |-> record, read |-> Column(Stored(record), Len(input))])

Next == Compile \/ Check \/ Ship

Spec == Init /\ [][Next]_vars

Answered(p) == program = p /\ answer # <<>>

-----------------------------------------------------------------------------
\* policy_compiler.py:22-26: for a policy of the form the docstring gives,
\* replacing both signs by one loses nothing: the lists match exactly the
\* attributes that satisfy it, but that of several session keys or queries,
\* which the docstring allows, only the first counts (lines 49-50).
CompiledMeans ==
  Answered("compiler") /\ answer[1].outcome = "dict" /\ WellFormed(input) =>
    SameMeaning(input, answer[1].dict)

\* policy_checker.py:60 and :82: the check grants a node exactly when the
\* docstrings say so, with two departures: the node's version is "greater than
\* or equal" in the order of words (line 66), so version 10 falls short of 9 and
\* only databases with versions of one length are compared as documented; and a
\* policy that asks for the latest firmware is never granted (line 92), on the
\* node that has it either.  A check that ends in an exception grants nothing.
GrantsAsDocumented ==
  Answered("checker") =>
    LET granted == answer[1] = "True"
    IN  /\ AsksLatest(input) => ~granted
        /\ ~AsksLatest(input) => (granted <=> Documented(input, AsWords))
        /\ ~AsksLatest(input) /\ OneLength(input) => (granted <=> Documented(input, AsNumbers))

\* A supported and complete policy gets a verdict, and not an exception, for
\* every node whose firmware is in the database (compare_versions,
\* policy_checker.py:64-66).
VerdictForKnownNode ==
  /\ Answered("checker")
  /\ check_policy(input.user_policy) /\ Complete(input.user_policy)
  /\ input.node.fw \in DOMAIN input.db
  => answer[1] \in {"True", "False"}

\* The assertions at the end of make_ssd_record() (sec_sqlite3.c:126865): the
\* sizes of the first loop are what the second one writes, so the header ends
\* where the data begins and the data where the allocation ends; but for the
\* bytes of a zeroblob that data follows, whose expansion is commented out
\* (line 126781): they are allocated and not written.
SizesExact ==
  Answered("row") => LET r == answer[1].record
                     IN  r.zHdr = r.nHdr /\ r.zPayload + Unwritten(input) = r.n

\* The host reads from the stored record the values of the row of the storage
\* server (make_ssd_record, sec_sqlite3.c:126591; OP_Column).  A zeroblob that
\* no data follows makes the record corrupt to the host, which gets none of its
\* values; one that data follows spoils its column and those after it.
RoundTrip ==
  Answered("row") =>
    LET read == answer[1].read
    IN  /\ Zeroblobs(input) = {} =>
             read = [rc |-> "SQLITE_OK", columns |-> [k \in DOMAIN input |-> Meant(input[k])]]
        /\ Zeroblobs(input) # Inner(input) => read.rc = "SQLITE_CORRUPT"
        /\ Zeroblobs(input) = Inner(input) =>
             /\ read.rc = "SQLITE_OK"
             /\ \A k \in Ahead(input) : read.columns[k] = Meant(input[k])

=============================================================================
