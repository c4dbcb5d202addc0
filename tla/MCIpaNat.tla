------------------------------ MODULE MCIpaNat ------------------------------
(* Five connections over tables of 3 base and 3 expansion entries: all      *)
(* collide inbound, so that the expansion table is full before the last one *)
(* is added; outbound they are two chains.                                  *)
EXTENDS IpaNat, TLC

CONSTANTS c1, c2, c3, c4, c5

MCDst == [c \in Conns |-> 1]
MCSrc == [c \in Conns |-> IF c = c1 THEN 1 ELSE 2]

(* Connections with equal hashes are interchangeable.                       *)
SameHashes == Permutations({c2, c3, c4, c5})
=============================================================================
