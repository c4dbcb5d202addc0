------------------------- MODULE MCConntrackListener -------------------------
(* Instances of ConntrackListener: connections c1, c2, c4 of client a and c3 *)
(* of client b, to a client x of the station's network or, if x is not among *)
(* StaIps, to a host of the internet.                                        *)
EXTENDS ConntrackListener, TLC

CONSTANTS c1, c2, c3, c4, a, b, x, y, z, dev, w1, w2

MCPrivate == [c \in Conns |-> IF c = c3 THEN b ELSE a]
MCTarget == [c \in Conns |-> x]
MCIps == {a, b, x, y, z, dev}

\* No connection goes to y or z; c1, c2 and c4 are alike.
MCSymmetry == Permutations({c1, c2, c4}) \cup Permutations({y, z})
=============================================================================
