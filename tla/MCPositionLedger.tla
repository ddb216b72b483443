--------------------------- MODULE MCPositionLedger ---------------------------
(* Model-checking instances of PositionLedger.                             *)
EXTENDS PositionLedger

(* Where a handler waits for something that may not come: reports, reviews *)
(* and analyses.  A sync that dies between its listing and its merge is    *)
(* left out: it has seen a position and does not reset its counter, so     *)
(* that the absences that are counted are not consecutive any more.        *)
LongSteps == {"exit", "report", "review", "failed", "undo", "views"}
=============================================================================
