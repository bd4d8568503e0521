----------------------------- MODULE MerkleTree -----------------------------
(***************************************************************************)
(* The Merkle tree library (mt_impl.c) over its resizeable arrays          *)
(* (mt_arr_list.c), as it is built by default: with assertions.            *)
(*                                                                         *)
(* level[0] holds the leaves.  level[l][i] is the hash over the leaves     *)
(* i*2^l to (i+1)*2^l-1 and exists once the right half of that range has a *)
(* leaf; while it does not, the node below stands for it.  A digest is a   *)
(* term: <<t>> for the leaf with tag t, <<a, b>> for the hash of the pair. *)
(***************************************************************************)
EXTENDS SequencesExt, Integers

CONSTANTS
  TREE_LEVELS,      \* number of levels
  MT_AL_MAX_ELEMS   \* most elements an array may have

ASSUME TreeAssumption ==
  /\ TREE_LEVELS \in Nat \ {0, 1}
  /\ MT_AL_MAX_ELEMS = 2^(TREE_LEVELS - 2)

Levels == 0..TREE_LEVELS-1

-----------------------------------------------------------------------------
(***************************************************************************)
(* mt_arr_list.c.  An array is its elements and the number of elements its *)
(* memory has room for.  A call returns a code and the array it leaves.    *)
(* "ABORT" is a failed assertion or the use of a null pointer.             *)
(***************************************************************************)
NULL == <<>>
EmptyList == [store |-> <<>>, alloc |-> 0]

is_power_of_two(v) == v # 0 /\ \E k \in Levels : v = 2^k

\* Its assertion on the length is in AddStep: an array fills up in mt_add only,
\* and the last element it takes is a right child, for which AddStep aborts.
mt_al_get(al, i) == IF i < Len(al.store) THEN al.store[i + 1] ELSE NULL

GrownLate(n, alloc) == IF n # 0 /\ is_power_of_two(n - 1) THEN 2 * (n - 1) ELSE alloc
Grown(n, alloc) == IF n = 0 THEN 1 ELSE IF is_power_of_two(n) THEN 2 * n ELSE alloc

\* oom: malloc or realloc fails, if this call allocates.
mt_al_add(al, h, oom) ==
  LET n == Len(al.store)
      grows == n = 0 \/ is_power_of_two(n)
      rc == CASE n >= MT_AL_MAX_ELEMS -> "ABORT"
              [] n # 0 /\ grows /\ 2 * n > MT_AL_MAX_ELEMS -> "ILLEGAL_STATE"
              [] grows /\ oom -> "OUT_OF_MEMORY"
              [] OTHER -> "SUCCESS"
  IN  [rc |-> rc,
       al |-> IF rc = "SUCCESS"
              THEN [store |-> Append(al.store, h), alloc |-> Grown(n, al.alloc)]
              ELSE al]

mt_al_update_if_exists(al, h, i) ==
  CASE Len(al.store) >= MT_AL_MAX_ELEMS -> [rc |-> "ABORT", al |-> al]
    [] i < Len(al.store) -> [rc |-> "SUCCESS", al |-> [al EXCEPT !.store[i + 1] = h]]
    [] OTHER -> [rc |-> "SUCCESS", al |-> al]

mt_al_update(al, h, i) ==
  IF Len(al.store) < MT_AL_MAX_ELEMS /\ i >= Len(al.store)
  THEN [rc |-> "ILLEGAL_PARAM", al |-> al]
  ELSE mt_al_update_if_exists(al, h, i)

mt_al_add_or_update(al, h, i, oom) ==
  IF i = Len(al.store) THEN mt_al_add(al, h, oom) ELSE mt_al_update(al, h, i)

-----------------------------------------------------------------------------
(***************************************************************************)
(* mt_impl.c.                                                              *)
(***************************************************************************)
mt_create_short == [elems |-> 0, level |-> [l \in 0..TREE_LEVELS-2 |-> EmptyList]]
mt_create == [elems |-> 0, level |-> [l \in Levels |-> EmptyList]]

mt_get_size(mt) == Len(mt.level[0].store)

mt_right(q) == q % 2 = 1

UpTo(n) == [i \in 1..n |-> i - 1]   \* the levels 0, 1, ..., n-1 in order

mt_hash(left, right) == <<left, right>>

\* The hash of a right child with its left neighbour.
ParentSwapped(left, digest) == mt_hash(digest, left)
Parent(left, digest) == mt_hash(left, digest)

\* One turn of mt_add's loop for leaf q: a right child is hashed with its
\* left neighbour into the parent.  oom is the set of levels whose array
\* cannot grow during the call.
AddStep(st, l, q, oom) ==
  LET p == q \div 2^l
      left == mt_al_get(st.mt.level[l], p - 1)
      digest == Parent(left, st.digest)
      up == mt_al_add_or_update(st.mt.level[l + 1], digest, p \div 2, l + 1 \in oom)
  IN  CASE st.rc # "SUCCESS" \/ ~mt_right(p) -> st
        [] Len(st.mt.level[l].store) >= MT_AL_MAX_ELEMS -> [st EXCEPT !.rc = "ABORT"]
        [] left = NULL -> [st EXCEPT !.rc = "ILLEGAL_PARAM"]
        [] OTHER -> [rc |-> up.rc, digest |-> digest,
                     mt |-> [st.mt EXCEPT !.level[l + 1] = up.al]]

\* The level at which q has been shifted out: where the loop of mt_add ends.
ExitLevel(q) == CHOOSE l \in 0..TREE_LEVELS : q < 2^l /\ (l > 0 => q >= 2^(l - 1))

\* The leaf is counted only once it is in the array; what fails after that
\* leaves the leaf behind.
Counted(mt, al) == [elems |-> mt.elems + 1, level |-> [mt.level EXCEPT ![0] = al]]

UncountedTooEarly(mt) == [mt EXCEPT !.elems = @ + 1]
Uncounted(mt) == mt

mt_add(mt, tag, oom) ==
  LET leaf == mt_al_add(mt.level[0], <<tag>>, 0 \in oom)
      q == mt.elems
      st == FoldLeft(LAMBDA s, l : AddStep(s, l, q, oom),
                     [rc |-> "SUCCESS", digest |-> <<tag>>, mt |-> Counted(mt, leaf.al)],
                     UpTo(ExitLevel(q)))
  IN  CASE leaf.rc # "SUCCESS" -> [rc |-> leaf.rc, mt |-> Uncounted(mt)]
        [] /\ leaf.rc = "SUCCESS" /\ st.rc = "SUCCESS"
           /\ q > 0
           /\ st.digest # mt_al_get(st.mt.level[ExitLevel(q)], 0) ->
             [rc |-> "ABORT", mt |-> st.mt]
        [] OTHER -> [rc |-> st.rc, mt |-> st.mt]

hasNextLevelExceptRoot(mt, l) ==
  l + 1 < TREE_LEVELS - 1 /\ mt.level[l + 1].store # <<>>

\* The level of the root: where the loops of mt_verify, mt_update and
\* mt_get_root end.
RootLevel(mt) ==
  CHOOSE l \in Levels : /\ ~hasNextLevelExceptRoot(mt, l)
                        /\ \A k \in 0..l-1 : hasNextLevelExceptRoot(mt, k)

\* The node at offset i of level l or, if it does not exist, the one below
\* that stands for it.
findRightNeighborHere(mt, i, l) == mt_al_get(mt.level[l], i)
findRightNeighbor(mt, i, l) ==
  LET at == {k \in 0..l : i * 2^(l - k) < Len(mt.level[k].store)}
  IN  IF at = {} THEN NULL
      ELSE LET k == Max(at) IN mt_al_get(mt.level[k], i * 2^(l - k))

\* One turn of the loop mt_verify and mt_update share.
Climb(st, l, offset) ==
  LET q == offset \div 2^l
      right == findRightNeighbor(st.mt, q + 1, l)
      left == mt_al_get(st.mt.level[l], q - 1)
  IN  IF st.rc # "SUCCESS" THEN st
      ELSE IF ~mt_right(q)
      THEN IF right = NULL THEN st ELSE [st EXCEPT !.digest = mt_hash(@, right)]
      ELSE IF left = NULL THEN [st EXCEPT !.rc = "ILLEGAL_PARAM"]
                          ELSE [st EXCEPT !.digest = mt_hash(left, @)]

mt_verify(mt, tag, offset) ==
  LET top == RootLevel(mt)
      st == FoldLeft(LAMBDA s, l : Climb(s, l, offset),
                     [rc |-> "SUCCESS", digest |-> <<tag>>, mt |-> mt], UpTo(top))
      root == mt_al_get(mt.level[top], offset \div 2^top)
  IN  CASE offset >= mt.elems -> "ILLEGAL_PARAM"
        [] offset < mt.elems /\ st.rc # "SUCCESS" -> st.rc
        [] OTHER -> IF root = NULL THEN "ABORT"
                    ELSE IF st.digest = root THEN "SUCCESS" ELSE "ROOT_MISMATCH"

\* mt_update stores the digest of each turn in the node it belongs to.
UpdateStepLeafOnly(st, l, offset) == Climb(st, l, offset)
UpdateStep(st, l, offset) ==
  LET st2 == Climb(st, l, offset)
      up == mt_al_update_if_exists(st.mt.level[l + 1], st2.digest, offset \div 2^(l + 1))
  IN  IF st2.rc # "SUCCESS" THEN st2
      ELSE [st2 EXCEPT !.rc = up.rc, !.mt.level[l + 1] = up.al]

mt_update(mt, tag, offset) ==
  LET leaf == mt_al_update(mt.level[0], <<tag>>, offset)
      top == RootLevel(mt)
      st == FoldLeft(LAMBDA s, l : UpdateStep(s, l, offset),
                     [rc |-> leaf.rc, digest |-> <<tag>>,
                      mt |-> [mt EXCEPT !.level[0] = leaf.al]], UpTo(top))
      same == st.digest = mt_al_get(st.mt.level[top], offset \div 2^top)
  IN  IF offset >= mt.elems THEN [rc |-> "ILLEGAL_PARAM", mt |-> mt]
      ELSE [rc |-> IF st.rc = "SUCCESS" /\ ~same THEN "ABORT" ELSE st.rc, mt |-> st.mt]

mt_get_root(mt) == mt_al_get(mt.level[RootLevel(mt)], 0)

=============================================================================
