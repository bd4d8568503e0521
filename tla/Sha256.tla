-------------------------------- MODULE Sha256 --------------------------------
(***************************************************************************)
(* The hash context of sha224-256.c, which mt_hash feeds: how the octets   *)
(* of a message reach the compression function, block by block, whatever   *)
(* pieces they come in.  The compression function itself is free: the      *)
(* intermediate hash is the sequence of the blocks it has been given.      *)
(*                                                                         *)
(* The i-th octet of the message is i.  The octet with the padding bit     *)
(* behind n message bits is Mark(n), a zero octet is 0, and the two words  *)
(* of the length take one place of the block each.                         *)
(***************************************************************************)
EXTENDS SequencesExt, Integers

CONSTANTS
  SHA256_Message_Block_Size,  \* places of a block, two of them for the length
  Word,                       \* the number of values of a length word
  MaxInput,                   \* bound: octets given in one call
  MaxMessage                  \* bound: octets given to one context

ASSUME ShaAssumption ==
  /\ SHA256_Message_Block_Size \in Nat \ 0..3
  /\ Word \in Nat \ 0..8
  /\ MaxInput \in Nat /\ MaxMessage \in Nat

VARIABLES
  ctx,      \* the SHA256Context
  ret,      \* what the last call returned
  octets,   \* octets of the message the calls have given since the reset
  bits      \* bits behind them (SHA256FinalBits)

shaVars == <<ctx, ret, octets, bits>>

Mark(n) == -1 - n
LengthAt == SHA256_Message_Block_Size - 2

\* Codes of sha.h.  shaInputTooLong, which is 2, is never returned.
shaSuccess == 0
shaNull == 1
shaStateError == 3

-----------------------------------------------------------------------------
SHA224_256Reset ==
  [Length_Low |-> 0, Length_High |-> 0, Message_Block_Index |-> 0,
   Message_Block |-> [i \in 0..SHA256_Message_Block_Size-1 |-> 0],
   Intermediate_Hash |-> <<>>, Computed |-> FALSE, Corrupted |-> shaSuccess]

\* Corrupted becomes 1, the value of the comparison and also of shaNull, when
\* both words overflow, and 0 otherwise.
AddLengthLowOnly(c, n) == [c EXCEPT !.Length_Low = (@ + n) % Word]
SHA224_256AddLength(c, n) ==
  LET low  == (c.Length_Low + n) % Word
      high == IF low < c.Length_Low THEN (c.Length_High + 1) % Word ELSE c.Length_High
  IN  [c EXCEPT !.Length_Low = low, !.Length_High = high,
                !.Corrupted = IF low < c.Length_Low /\ high = 0 THEN shaNull ELSE shaSuccess]

SHA224_256ProcessMessageBlock(c) ==
  [c EXCEPT !.Intermediate_Hash = Append(@, c.Message_Block), !.Message_Block_Index = 0]

PutOctet(c, o) == [c EXCEPT !.Message_Block[c.Message_Block_Index] = o,
                            !.Message_Block_Index = @ + 1]

\* The turn of SHA256Input's loop for one octet.
InputOctet(c, o) ==
  LET d == SHA224_256AddLength(PutOctet(c, o), 8)
  IN  CASE c.Corrupted # 0 -> c
        [] c.Corrupted = 0 /\ d.Corrupted = 0
           /\ d.Message_Block_Index = SHA256_Message_Block_Size ->
             SHA224_256ProcessMessageBlock(d)
        [] OTHER -> d

\* Zeros up to place n.
ZerosTo(c, n) ==
  [c EXCEPT !.Message_Block = [i \in DOMAIN @ |-> IF i \in c.Message_Block_Index..n-1
                                                  THEN 0 ELSE @[i]],
            !.Message_Block_Index = IF @ < n THEN n ELSE @]

\* The padding takes a block of its own if the length does not fit behind the
\* mark.
MarkedLate(c, pad) ==
  LET m == PutOctet(c, pad)
  IN  IF c.Message_Block_Index > LengthAt
      THEN SHA224_256ProcessMessageBlock(ZerosTo(m, SHA256_Message_Block_Size))
      ELSE m
Marked(c, pad) ==
  LET m == PutOctet(c, pad)
  IN  IF c.Message_Block_Index >= LengthAt
      THEN SHA224_256ProcessMessageBlock(ZerosTo(m, SHA256_Message_Block_Size))
      ELSE m

SHA224_256PadMessage(c, pad) ==
  LET z == ZerosTo(Marked(c, pad), LengthAt)
  IN  SHA224_256ProcessMessageBlock(
        [z EXCEPT !.Message_Block[LengthAt] = c.Length_High,
                  !.Message_Block[LengthAt + 1] = c.Length_Low])

SHA224_256Finalize(c, pad) ==
  [SHA224_256PadMessage(c, pad) EXCEPT
     !.Message_Block = [i \in DOMAIN @ |-> 0],
     !.Length_Low = 0, !.Length_High = 0, !.Computed = TRUE]

-----------------------------------------------------------------------------
(***************************************************************************)
(* The calls.                                                              *)
(***************************************************************************)
ShaInit ==
  /\ ctx = SHA224_256Reset
  /\ ret = shaSuccess /\ octets = 0 /\ bits = 0

SHA256Reset ==
  /\ ctx' = SHA224_256Reset
  /\ ret' = shaSuccess /\ octets' = 0 /\ bits' = 0

\* A state error is noted in the context; a corrupted one reports itself.
Refused(computed) ==
  /\ ctx.Corrupted # 0 \/ computed
  /\ ctx' = [ctx EXCEPT !.Corrupted = IF computed THEN shaStateError ELSE @]
  /\ ret' = ctx'.Corrupted
  /\ UNCHANGED <<octets, bits>>

Usable == ~ctx.Computed /\ ctx.Corrupted = 0

SHA256Input(n) ==
  \/ /\ Usable \/ n = 0
     /\ octets + n <= MaxMessage
     /\ ctx' = FoldLeft(InputOctet, ctx, [i \in 1..n |-> octets + i])
     /\ ret' = shaSuccess
     /\ octets' = octets + n
     /\ UNCHANGED bits
  \/ n # 0 /\ ~Usable /\ Refused(ctx.Computed)

SHA256FinalBits(n) ==
  \/ /\ n \in 1..7 /\ Usable
     /\ ctx' = SHA224_256Finalize(SHA224_256AddLength(ctx, n), Mark(n))
     /\ ret' = shaSuccess
     /\ bits' = n
     /\ UNCHANGED octets
  \/ n = 0 /\ ret' = shaSuccess /\ UNCHANGED <<ctx, octets, bits>>
  \/ n # 0 /\ ~(n \in 1..7 /\ Usable) /\ Refused(ctx.Computed \/ n >= 8)

SHA256Result ==
  /\ ctx' = IF ctx.Corrupted # 0 \/ ctx.Computed THEN ctx
            ELSE SHA224_256Finalize(ctx, Mark(0))
  /\ ret' = ctx.Corrupted
  /\ UNCHANGED <<octets, bits>>

ShaNext ==
  \/ SHA256Reset
  \/ \E n \in 0..MaxInput : SHA256Input(n)
  \/ \E n \in 0..8 : SHA256FinalBits(n)
  \/ SHA256Result

ShaSpec == ShaInit /\ [][ShaNext]_shaVars

-----------------------------------------------------------------------------
(***************************************************************************)
(* The reference: the message, the mark, the fewest zeros that fill the    *)
(* last block, and the length, cut into blocks.                            *)
(***************************************************************************)
BitLength == 8 * octets + bits
TooLong == BitLength >= Word * Word

PaddedMessage ==
  LET B == SHA256_Message_Block_Size
      n == octets + 1 + 2
      zeros == (B - (n % B)) % B
  IN  [i \in 1..octets |-> i] \o <<Mark(bits)>> \o [i \in 1..zeros |-> 0]
        \o <<BitLength \div Word, BitLength % Word>>

Blocks(s) ==
  LET B == SHA256_Message_Block_Size
  IN  [k \in 1..(Len(s) \div B) |-> [i \in 0..B-1 |-> s[(k - 1) * B + i + 1]]]

\* Every variable keeps its type; no call leaves the block full, so the next
\* octet has a place (sha224-256.c:239-247).
ShaTypeOK ==
  /\ ctx.Message_Block_Index \in 0..SHA256_Message_Block_Size-1
  /\ ctx.Length_Low \in 0..Word-1 /\ ctx.Length_High \in 0..Word-1
  /\ ctx.Corrupted \in {shaSuccess, shaNull, shaStateError}
  /\ ret \in {shaSuccess, shaNull, shaStateError}

\* sha224-256.c: however the message is cut into calls of SHA256Input, and
\* wherever its end falls in a block, a context that has been finished without
\* an error has compressed the padded message.
DigestExact ==
  ctx.Computed /\ ctx.Corrupted = 0 => ctx.Intermediate_Hash = Blocks(PaddedMessage)

\* A message whose length the two words cannot hold never gets a digest: the
\* context is corrupted from the call on that makes it too long until a reset,
\* although AddLength assigns Corrupted anew.  The calls only test whether
\* Corrupted is zero, so which error it holds does not matter.
TooLongCorrupted == TooLong => ctx.Corrupted # 0

=============================================================================
