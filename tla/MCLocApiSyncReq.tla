--------------------------- MODULE MCLocApiSyncReq ---------------------------
(* The instances of LocApiSyncReq that TLC checks: every thread waits for   *)
(* an indication of its own.                                                *)
EXTENDS LocApiSyncReq, TLC

CONSTANTS t1, t2, t3

MCIndOf == [t \in Threads |-> t]
Symmetry == Permutations(Threads)
=============================================================================
