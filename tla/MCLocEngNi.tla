----------------------------- MODULE MCLocEngNi -----------------------------
(* The instance of LocEngNi that TLC checks: two normal requests and one of *)
(* emergency SUPL.                                                          *)
EXTENDS LocEngNi

CONSTANTS n1, n2, e1

MCSessionOf == [r \in Requests |-> IF r = e1 THEN "sessionEs" ELSE "session"]
=============================================================================
