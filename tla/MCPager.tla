------------------------------- MODULE MCPager -------------------------------
(***************************************************************************)
(* Instances of the pager for TLC.                                         *)
(***************************************************************************)
EXTENDS Pager

=============================================================================
