---------------------------- MODULE PolicyCompiler ----------------------------
(***************************************************************************)
(* compile_policy (policy_compiler.py): a policy is predicates joined by   *)
(* '&' and '|'; compiled, it is the list of values of every predicate.     *)
(*                                                                         *)
(* A predicate of the text is a record: its name, its value, whether both  *)
(* parentheses are there, and the sign behind it.                          *)
(***************************************************************************)
EXTENDS SequencesExt, Integers

CONSTANTS
  Predicates,   \* names, with "sessionKeyIs" and "query" among them
  PolicyValues, \* values
  MaxItems      \* bound: predicates of a policy

ASSUME CompilerAssumption ==
  /\ {"sessionKeyIs", "query"} \subseteq Predicates
  /\ MaxItems \in Nat

Signs == {"&", "|"}
Item == [name : Predicates, value : PolicyValues, whole : BOOLEAN, sign : Signs]

\* The outcome is a dictionary, None, or the exception that ends the program.
None == "None"
KeyError == "KeyError"
Dict(d) == [outcome |-> "dict", dict |-> d]
NoDict(o) == [outcome |-> o, dict |-> [p \in {} |-> <<>>]]

obtain_key_val(item) == IF item.whole THEN <<item.name, item.value>> ELSE <<>>

AddedReplaces(d, k, v) == [p \in DOMAIN d \cup {k} |-> IF p = k THEN <<v>> ELSE d[p]]
Added(d, k, v) ==
  [p \in DOMAIN d \cup {k} |->
     CASE p = k /\ k \in DOMAIN d -> Append(d[k], v)
       [] p = k /\ k \notin DOMAIN d -> <<v>>
       [] OTHER -> d[p]]

Collected(items) ==
  FoldLeft(LAMBDA d, i : Added(d, obtain_key_val(i)[1], obtain_key_val(i)[2]),
           [p \in {} |-> <<>>], items)

\* Of the session key and of the query only the first is kept.
FirstOnly(d, k) == [d EXCEPT ![k] = <<d[k][1]>>]

compile_policy(items) ==
  IF \E i \in DOMAIN items : obtain_key_val(items[i]) = <<>> THEN NoDict(None)
  ELSE LET d == Collected(items)
       IN  IF {"sessionKeyIs", "query"} \subseteq DOMAIN d
           THEN Dict(FirstOnly(FirstOnly(d, "sessionKeyIs"), "query"))
           ELSE NoDict(KeyError)

-----------------------------------------------------------------------------
(***************************************************************************)
(* What a policy says, from the docstring: predicates of one name are      *)
(* joined by '|' and those of different names by '&'.                      *)
(***************************************************************************)
WellFormed(items) ==
  /\ \A i \in DOMAIN items : items[i].whole
  /\ \A i \in 1..Len(items)-1 : (items[i].sign = "|") <=> (items[i].name = items[i + 1].name)
  /\ \A i, j \in DOMAIN items : i < j /\ items[i].name = items[j].name =>
       \A k \in i..j : items[k].name = items[i].name
  /\ items # <<>> => items[Len(items)].sign = "&"

\* attr gives every predicate the value that holds.
Satisfied(items, attr) ==
  \A i \in DOMAIN items :
    \E j \in DOMAIN items : items[j].name = items[i].name /\ items[j].value = attr[items[i].name]

Matched(d, attr) == \A p \in DOMAIN d : attr[p] \in ToSet(d[p])

Policies == BoundedSeq(Item, MaxItems)

\* The value the policy gives predicate p first.
FirstValue(items, p) ==
  items[Min({i \in DOMAIN items : items[i].name = p})].value

\* The lists match exactly the attributes that satisfy the policy and have the
\* first of its session keys and the first of its queries.
SameMeaning(items, d) ==
  \A attr \in [Predicates -> PolicyValues] :
    Matched(d, attr) <=>
      /\ Satisfied(items, attr)
      /\ \A p \in {"sessionKeyIs", "query"} : attr[p] = FirstValue(items, p)

=============================================================================
