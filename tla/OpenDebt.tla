------------------------------ MODULE OpenDebt ------------------------------
(***************************************************************************)
(* What the entry alerts promise, without queues, jobs or rule states: the *)
(* alert of a position is a debt.  It is incurred when the position        *)
(* appears and settled once, and a settled debt stays settled ("if it was  *)
(* tried once it is paid", test_open_alert_backfill).                      *)
(***************************************************************************)
CONSTANT Positions
VARIABLE debt

Init == debt = [p \in Positions |-> "none"]

Incur(p) ==
  /\ debt[p] = "none"
  /\ debt' = [debt EXCEPT ![p] = "owed"]

Settle(p) ==
  /\ debt[p] = "owed"
  /\ debt' = [debt EXCEPT ![p] = "settled"]

Next == \E p \in Positions : Incur(p) \/ Settle(p)

Spec == Init /\ [][Next]_debt
=============================================================================
