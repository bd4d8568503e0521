--------------------------- MODULE OffloadedQuery ---------------------------
(***************************************************************************)
(* What an offloaded query promises, with no threads, rings or packets.    *)
(* The storage side scans rows 1..NRows in order until it is through or    *)
(* fails.  Scanned rows show up in the host's table in scan order, but for *)
(* one that may have been put in front of the others.  The outer query is  *)
(* answered once, after the scan is over, over a table that holds every    *)
(* scanned row unless an insertion on the host failed.                     *)
(***************************************************************************)
EXTENDS Integers, Sequences

CONSTANT NRows

VARIABLES
  scanned,    \* rows scanned so far
  scan_over,  \* the scan has ended
  scan_ok,    \* and has not failed
  first,      \* the table: a row in front of the others, 0 if none
  rows,       \* and the others: row numbers in insertion order
  lost,       \* an insertion failed
  answered    \* the outer query has been started

queryVars == <<scanned, scan_over, scan_ok, first, rows, lost, answered>>

QueryInit ==
  /\ scanned = 0
  /\ scan_over = FALSE
  /\ scan_ok = TRUE
  /\ first = 0 /\ rows = <<>>
  /\ lost = FALSE
  /\ answered = FALSE

ScanRow ==
  /\ ~scan_over /\ scan_ok
  /\ scanned < NRows
  /\ scanned' = scanned + 1
  /\ UNCHANGED <<scan_over, scan_ok, first, rows, lost, answered>>

ScanFails ==
  /\ ~scan_over
  /\ scan_ok' = FALSE
  /\ UNCHANGED <<scanned, scan_over, first, rows, lost, answered>>

ScanEnds ==
  /\ ~scan_over
  /\ scan_ok => scanned = NRows
  /\ scan_over' = TRUE
  /\ UNCHANGED <<scanned, scan_ok, first, rows, lost, answered>>

LastInTable == IF rows = <<>> THEN 0 ELSE rows[Len(rows)]

\* Rows are taken in scan order, wherever they are put.
LastTaken == IF first > LastInTable THEN first ELSE LastInTable

InsertRow ==
  /\ ~answered
  /\ \E r \in LastTaken+1 .. scanned :
       /\ ~lost => r = LastTaken + 1
       /\ rows' = Append(rows, r)
  /\ UNCHANGED <<scanned, scan_over, scan_ok, first, lost, answered>>

LoseRow ==
  /\ ~answered
  /\ LastTaken < scanned
  /\ lost' = TRUE
  /\ UNCHANGED <<scanned, scan_over, scan_ok, first, rows, answered>>

\* The row in front, if there was one, is lost to another.
DisplaceRow ==
  /\ ~answered
  /\ first' \in LastTaken+1 .. scanned
  /\ lost' = TRUE
  /\ UNCHANGED <<scanned, scan_over, scan_ok, rows, answered>>

AnswerQuery ==
  /\ ~answered
  /\ scan_over
  /\ lost \/ LastInTable = scanned
  /\ answered' = TRUE
  /\ UNCHANGED <<scanned, scan_over, scan_ok, first, rows, lost>>

QueryNext == ScanRow \/ ScanFails \/ ScanEnds \/ InsertRow \/ LoseRow \/ DisplaceRow
             \/ AnswerQuery

QuerySpec == QueryInit /\ [][QueryNext]_queryVars

=============================================================================
