---------------------------- MODULE PolicyChecker ----------------------------
(***************************************************************************)
(* policy_checker.py: does a storage node comply with a user's policy, as  *)
(* main reads both from their files?  A request is what one run reads: db, *)
(* the rows of the version database; user_policy, its predicates, the      *)
(* attributes of fwVersion and what they say; node, the location and the   *)
(* firmware hash of the node; identities, the lines of the identity file.  *)
(*                                                                         *)
(* The version database maps firmware hashes to version numbers, which the *)
(* file holds as decimal numerals.  A numeral is the sequence of its       *)
(* digits; Python compares two strings place by place.  A location is a    *)
(* region code with the case of its letters.                               *)
(***************************************************************************)
EXTENDS SequencesExt, Integers

CONSTANTS
  Hashes,        \* firmware hashes
  Versions,      \* version numbers of the database
  Locations,     \* region codes, without "all", in lower case
  MaxUserFws,    \* bound: firmware entries of a policy
  MaxIdentities  \* bound: lines of the identity file

ASSUME CheckerAssumption ==
  Versions \subseteq 1..99 /\ {MaxUserFws, MaxIdentities} \subseteq Nat

-----------------------------------------------------------------------------
(***************************************************************************)
(* Strings.  None is the empty sequence.                                   *)
(***************************************************************************)
NoneStr == <<>>
Numeral(n) == IF n < 10 THEN <<n>> ELSE <<n \div 10, n % 10>>

\* a >= b for strings: by the first place where they differ, or by length.
StrGeq(a, b) ==
  \/ \E i \in 1..Len(a) :
       /\ \A j \in 1..i-1 : j <= Len(b) /\ a[j] = b[j]
       /\ i > Len(b) \/ a[i] > b[i]
  \/ a = b

\* A region code as it is written, and str.lower.
Written(codes) == [code : codes, upper : BOOLEAN]
lower(loc) == [loc EXCEPT !.upper = FALSE]

Verdict(p) == IF p THEN "True" ELSE "False"

(***************************************************************************)
(* The functions of the module.                                            *)
(***************************************************************************)
map_storage_fw_to_version(db, h) == IF h \in DOMAIN db THEN Numeral(db[h]) ELSE NoneStr

get_latest_storage_fw_version(db) == Max({0} \cup {db[h] : h \in DOMAIN db})

\* Mutants: an equal version refused; a firmware not in the database compared.
compare_versions_strict(usr, nod) ==
  CASE usr = NoneStr -> "False"
    [] usr # NoneStr /\ nod = NoneStr -> "TypeError"
    [] OTHER -> Verdict(~StrGeq(usr, nod))
compare_versions_unguarded(usr, nod) ==
  IF NoneStr \in {usr, nod} THEN "TypeError" ELSE Verdict(StrGeq(nod, usr))

\* False for a policy's firmware that is not in the database; an exception
\* for a node's that is not.
compare_versions(usr, nod) ==
  CASE usr = NoneStr -> "False"
    [] usr # NoneStr /\ nod = NoneStr -> "TypeError"
    [] OTHER -> Verdict(StrGeq(nod, usr))

\* A numeral and the number it denotes are different objects to Python, so
\* the comparison under "latest" is always false.
SameObject(numeral, number) == FALSE

check_node_fw(db, user_fws, node_fw) ==
  LET nod == map_storage_fw_to_version(db, node_fw)
      res == {compare_versions(map_storage_fw_to_version(db, h), nod) : h \in ToSet(user_fws)}
  IN  CASE "latest" \in ToSet(user_fws) ->
             Verdict(SameObject(nod, get_latest_storage_fw_version(db)))
        [] "latest" \notin ToSet(user_fws) /\ "TypeError" \in res -> "TypeError"
        [] OTHER -> Verdict("True" \in res)

\* The policy's locations are put in lower case, the node's is not.
check_node_location(user_locs, node_loc) ==
  LET locs == {lower(l) : l \in ToSet(user_locs)}
  IN  Verdict((\E l \in locs : l.code = "all") \/ node_loc \in locs)

\* The file is read up to its first blank line.
check_usr_identity(identities) ==
  Verdict(\E i \in DOMAIN identities : /\ identities[i] = "user"
                                       /\ \A j \in 1..i-1 : identities[j] # "blank")

Supported == {"sessionKeyIs", "storageLocIs", "fwVersion", "hostQuery", "storageQuery", "query"}
fw_ver_attributes == {"host", "storage"}
check_policy(user_policy) ==
  /\ user_policy.preds \subseteq Supported
  /\ "fwVersion" \in user_policy.preds => user_policy.attributes \subseteq fw_ver_attributes

\* The checks in their order; the first that fails ends the function, and a
\* predicate or attribute the policy lacks is an exception when its turn comes.
check_node_policy_compliance(req) ==
  LET policy == req.user_policy
      Turn(pred, res) == IF pred \in policy.preds THEN res ELSE "KeyError"
      loc == Turn("storageLocIs", check_node_location(policy.storageLocIs, req.node.loc))
      fw  == Turn("fwVersion", IF "storage" \in policy.attributes
                               THEN check_node_fw(req.db, policy.fwVersion, req.node.fw)
                               ELSE "KeyError")
  IN  CASE loc # "True" -> loc
        [] loc = "True" /\ fw # "True" -> fw
        [] OTHER -> Turn("sessionKeyIs", check_usr_identity(req.identities))

\* exit(1), or the verdict.
main(req) ==
  IF check_policy(req.user_policy) THEN check_node_policy_compliance(req) ELSE "exit"

-----------------------------------------------------------------------------
\* The predicates main's checks read, all or all but one, and one it does not know.
Needed == {"storageLocIs", "fwVersion", "sessionKeyIs"}
PredicateSets == {Needed, Needed \cup {"other"}} \cup {Needed \ {p} : p \in Needed}

Requests ==
  [db : UNION {[H -> Versions] : H \in SUBSET Hashes},
   user_policy : [preds : PredicateSets,
                  storageLocIs : BoundedSeq(Written(Locations \cup {"all"}), 1),
                  attributes : {{}, {"storage"}, {"storage", "other"}},
                  fwVersion : BoundedSeq(Hashes \cup {"latest"}, MaxUserFws)],
   node : [loc : Written(Locations), fw : Hashes],
   identities : BoundedSeq({"user", "someone", "blank"}, MaxIdentities)]

(***************************************************************************)
(* What the docstrings say: the node is in one of the policy's regions,    *)
(* its version is greater than or equal to that of one of the policy's     *)
(* firmwares, and the key is in the identity file (which ends at a blank   *)
(* line, as the code reads it).  Leq is the order of the versions.         *)
(***************************************************************************)
Complete(policy) == Needed \subseteq policy.preds /\ "storage" \in policy.attributes
LocationAllowed(req) ==
  \E l \in ToSet(req.user_policy.storageLocIs) :
    l.code = "all" \/ (l.code = req.node.loc.code /\ ~req.node.loc.upper)
FirmwareAllowed(req, Leq(_, _)) ==
  /\ req.node.fw \in DOMAIN req.db
  /\ \E h \in ToSet(req.user_policy.fwVersion) \cap DOMAIN req.db :
       Leq(req.db[h], req.db[req.node.fw])
KeyListed(ids) ==
  LET blanks == {i \in DOMAIN ids : ids[i] = "blank"}
  IN  "user" \in ToSet(SubSeq(ids, 1, Min({Len(ids)} \cup blanks)))

Documented(req, Leq(_, _)) ==
  /\ check_policy(req.user_policy) /\ Complete(req.user_policy)
  /\ LocationAllowed(req) /\ FirmwareAllowed(req, Leq) /\ KeyListed(req.identities)

\* The order of two versions as numbers, and in a dictionary: 10 comes before 9.
AsNumbers(m, n) == m <= n
AsWords(m, n) ==
  LET first(v) == IF v < 10 THEN v ELSE v \div 10
  IN  first(m) < first(n) \/ (first(m) = first(n) /\ m <= n)

AsksLatest(req) == "latest" \in ToSet(req.user_policy.fwVersion)
OneLength(req) == \A g, h \in DOMAIN req.db : req.db[g] < 10 <=> req.db[h] < 10

=============================================================================
