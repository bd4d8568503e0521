------------------------------ MODULE PageCodec ------------------------------
(***************************************************************************)
(* The page codec: what sqlcipher_page_cipher stores for a page and what   *)
(* it makes of a stored page, and the file the Merkle tree is saved in     *)
(* (mt_serialize.c).                                                       *)
(*                                                                         *)
(* A stored page holds the encrypted content, the integrity tag and the    *)
(* number of the tag's leaf in the tree.  Every encryption takes a fresh   *)
(* initialisation vector, so a tag is a name that occurs once; the number  *)
(* of leaves before it is added is as good a name as any.  Stored pages    *)
(* are not altered by anybody else: the tag of a stored page is its own.   *)
(***************************************************************************)
EXTENDS MerkleTree

HASH_LENGTH == 32
SIZEOF_INT  == 4

\* The content of a page of zeros, and the stored page of zeros.
Zeros == 0
ZeroPage == [data |-> Zeros, tag |-> -1, leaf |-> 0]

(***************************************************************************)
(* Encryption under a fault: "none"; "cipher", one of the calls before     *)
(* mt_add fails; "leaf" and "parent", there is no memory for the array of  *)
(* the leaves, or for those above it.  A failed encryption leaves zeros in *)
(* the output.                                                             *)
(***************************************************************************)
NoMemory(fault) ==
  CASE fault = "leaf" -> {0} [] fault = "parent" -> Levels \ {0} [] OTHER -> {}

\* num_blocks is the number of the next leaf: counted once the tag is added.
Numbered(num_blocks, ok) == IF ok THEN num_blocks + 1 ELSE num_blocks

\* What is stored once mt_add, or a call before it, has returned r.
Tagged(codec, data, tag, r) ==
  LET ok == r.rc = "SUCCESS"
  IN  [ok    |-> ok,
       codec |-> [mt |-> r.mt, num_blocks |-> Numbered(codec.num_blocks, ok)],
       page  |-> IF ok THEN [data |-> data, tag |-> tag, leaf |-> codec.num_blocks]
                 ELSE ZeroPage]

Encrypt(codec, data, fault) ==
  LET tag == mt_get_size(codec.mt)
  IN  Tagged(codec, data, tag,
             IF fault = "cipher" THEN [rc |-> "ERROR", mt |-> codec.mt]
             ELSE mt_add(codec.mt, tag, NoMemory(fault)))

\* A page of zeros is what a read past the end of the file gives, and is let
\* through; any other page must have its tag at its leaf of the tree.
Decrypt(codec, page) ==
  LET r == IF page = ZeroPage THEN "SUCCESS" ELSE mt_verify(codec.mt, page.tag, page.leaf)
  IN  [ok |-> r = "SUCCESS", abort |-> r = "ABORT",
       data |-> IF r = "SUCCESS" THEN page.data ELSE Zeros]

-----------------------------------------------------------------------------
(***************************************************************************)
(* The file of the tree.  Its first word is its size in bytes, the next    *)
(* the number of elements.  deserialize_init_mt takes the first word for   *)
(* the number of elements, and makes room for a power of two of them in    *)
(* every array.  sqlcipher_codec_ctx_init then numbers on from the leaves. *)
(***************************************************************************)
next_power_two(n) == IF n = 0 THEN 0 ELSE Min({v \in {2^k : k \in 0..TREE_LEVELS} : v >= n})

serialize_mt(mt) ==
  [num_bytes |-> 2 * SIZEOF_INT +
                 MapThenSumSet(LAMBDA l : SIZEOF_INT + HASH_LENGTH * Len(mt.level[l].store), Levels),
   elems     |-> mt.elems,
   level     |-> [l \in Levels |-> mt.level[l].store]]

deserialize_init_mt(file) ==
  [elems |-> file.num_bytes,
   level |-> [l \in Levels |-> [store |-> file.level[l],
                                alloc |-> next_power_two(Len(file.level[l]))]]]

codec_ctx_init(mt) == [mt |-> mt, num_blocks |-> mt_get_size(mt)]

=============================================================================
