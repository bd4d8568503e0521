---------------------------- MODULE MCNdpSystem ----------------------------
(***************************************************************************)
(* Small instances of NdpSystem.                                           *)
(***************************************************************************)
EXTENDS NdpInvariant

\* Every field is one byte and every record has one more.
MCRecLen == [r \in 1..NRows |-> [n \in 1..NCols |-> n + 1]]

=============================================================================
