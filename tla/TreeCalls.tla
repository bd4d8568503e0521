------------------------------ MODULE TreeCalls ------------------------------
(***************************************************************************)
(* Any sequence of calls of the Merkle tree library.  The library is       *)
(* called from one thread, so each call is one step.                       *)
(***************************************************************************)
EXTENDS MerkleTree

CONSTANTS
  Tag,              \* integrity tags
  MaxLeaves         \* bound: no leaf is added beyond this many

ASSUME LeavesAssumption == MaxLeaves \in 0..MT_AL_MAX_ELEMS

-----------------------------------------------------------------------------
(***************************************************************************)
(* A tree, the code of the last call on it, and whether every call so far  *)
(* has succeeded.                                                          *)
(***************************************************************************)
VARIABLES mt, rc, intact

treeVars == <<mt, rc, intact>>

Returns(r) ==
  /\ mt' = r.mt
  /\ rc' = r.rc
  /\ intact' = (intact /\ r.rc = "SUCCESS")

TreeInit == mt = mt_create /\ rc = "SUCCESS" /\ intact = TRUE

Add == /\ rc # "ABORT"
       /\ mt_get_size(mt) < MaxLeaves
       /\ \E tag \in Tag, oom \in {{}} \cup {{l} : l \in Levels} :
            Returns(mt_add(mt, tag, oom))

Update == /\ rc # "ABORT"
          /\ \E tag \in Tag, offset \in 0..MaxLeaves : Returns(mt_update(mt, tag, offset))

TreeNext == Add \/ Update

TreeSpec == TreeInit /\ [][TreeNext]_treeVars

-----------------------------------------------------------------------------
(***************************************************************************)
(* Properties.                                                             *)
(***************************************************************************)

\* The tree has all its levels and every call returns one of the codes.
TreeTypeOK ==
  /\ mt.elems \in Nat
  /\ DOMAIN mt.level = Levels
  /\ \A l \in Levels : mt.level[l].alloc \in Nat
  /\ rc \in {"SUCCESS", "OUT_OF_MEMORY", "ILLEGAL_PARAM", "ILLEGAL_STATE", "ABORT"}
  /\ intact \in BOOLEAN

Leaves == mt.level[0].store

\* mt_verify accepts no tag but the one at the offset, not even in a tree
\* that a failed mt_add has left half way; and it accepts that one as long as
\* no call has failed.
VerifyExact ==
  \A o \in 0..Len(Leaves)-1, t \in Tag :
    /\ mt_verify(mt, t, o) = "SUCCESS" => Leaves[o + 1] = <<t>>
    /\ intact /\ Leaves[o + 1] = <<t>> => mt_verify(mt, t, o) = "SUCCESS"

\* No array has more elements than its memory has room for, although it only
\* grows when its length is a power of two.
StoreFits == \A l \in Levels : Len(mt.level[l].store) <= mt.level[l].alloc

\* "mt->elems: number of blocks protected by this tree": elems, which bounds
\* the offsets, and the length of level 0, which numbers new blocks, agree,
\* also after calls that failed (in a tree made by mt_create: the one that
\* deserialize_init_mt makes has the size of its file in elems).
ElemsCountsLeaves == mt.elems = mt_get_size(mt)

\* In a tree no call has failed on, a call fails only for want of memory or,
\* leaving the tree alone, for an offset that is not there: the loops find
\* every neighbour they need and the assertions on the root hold.
CallsSucceed ==
  [][intact => \/ rc' \in {"SUCCESS", "OUT_OF_MEMORY"}
               \/ rc' = "ILLEGAL_PARAM" /\ mt' = mt]_treeVars

\* "this can only happen due to outside interference": no assertion on the
\* length of an array fails in a tree no call has failed on.
NoAssertionFails == [][intact => rc' # "ABORT"]_treeVars

=============================================================================
