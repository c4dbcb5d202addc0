---------------------------- MODULE MCIpacmWlan ----------------------------
(* Instance of IpacmWlan; APs, clients and addresses of a kind are alike. *)
EXTENDS IpacmWlan, TLC

Symmetry == Permutations(Aps) \cup Permutations(Macs) \cup Permutations(Ip4) \cup Permutations(Ip6)
=============================================================================
