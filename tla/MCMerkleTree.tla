---------------------------- MODULE MCMerkleTree ----------------------------
(***************************************************************************)
(* The Merkle tree library on small instances: the calls of the tree, with *)
(* the hash of a list of leaves to compare its root with, or the calls of  *)
(* the hash.                                                               *)
(***************************************************************************)
EXTENDS TreeCalls, Sha256

\* The hash of a nonempty list: the leaf itself, or the pair of the hashes of
\* the longest proper prefix of 2^k leaves and of the rest.
RECURSIVE HashOf(_)
HashOf(s) ==
  IF Len(s) = 1 THEN s[1]
  ELSE LET k == Max({2^j : j \in {i \in Levels : 2^i < Len(s)}})
       IN  mt_hash(HashOf(SubSeq(s, 1, k)), HashOf(SubSeq(s, k + 1, Len(s))))

\* The root that mt_add and mt_update keep up to date one path at a time is
\* the hash of all the leaves.
RootIsHash == intact /\ Leaves # <<>> => mt_get_root(mt) = HashOf(Leaves)

VARIABLE part  \* the part of the library that is called
libVars == <<treeVars, shaVars, part>>

LibInit == TreeInit /\ ShaInit /\ part \in {"tree", "hash"}

LibNext ==
  \/ part = "tree" /\ TreeNext /\ UNCHANGED <<shaVars, part>>
  \/ part = "hash" /\ ShaNext /\ UNCHANGED <<treeVars, part>>

LibSpec == LibInit /\ [][LibNext]_libVars

\* The types of the tree and of the hash's context: the tree has all its levels,
\* calls return one of the codes, and no call of the hash leaves the block full
\* (mt_impl.c, sha224-256.c:239-247).
LibTypeOK == TreeTypeOK /\ ShaTypeOK

=============================================================================
