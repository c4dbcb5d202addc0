---------------------------- MODULE MCLocEngAtl ----------------------------
(* Instances of LocEngAtl for TLC. *)
EXTENDS LocEngAtl, TLC

Symmetry == Permutations(Handles)

MCKinds == [emergency \in BOOLEAN |->
    IF emergency THEN {"SUPL", "ES"} ELSE {"SUPL", "ANY", "ES"}]
MCQueueBound == [emergency \in BOOLEAN |-> IF emergency THEN 2 ELSE 3]
=============================================================================
