------------------------------ MODULE NatTable ------------------------------
(***************************************************************************)
(* What the IPA NAT driver promises the connection manager: a table of NAT *)
(* rules, each known by the handle the driver gave when it was added.  The *)
(* interface is ipa_nat_add_ipv4_tbl, ipa_nat_del_ipv4_tbl,                *)
(* ipa_nat_add_ipv4_rule and ipa_nat_del_ipv4_rule of ipa_nat_drv.c.       *)
(* IpaNat implements it; NatApp is its only user.                          *)
(***************************************************************************)
CONSTANTS Conns,     \* connections a rule can be for
          NoConn,    \* what a handle that is free stands for
          Handles    \* rule handles

VARIABLE table       \* the connection each handle stands for

Empty == [h \in Handles |-> NoConn]

Init == table = Empty

(* A rule gets a handle nobody holds; nobody adds a connection twice.      *)
Add(h, c) ==
  /\ table[h] = NoConn
  /\ \A g \in Handles : table[g] # c
  /\ table' = [table EXCEPT ![h] = c]

Del(h) ==
  /\ table[h] # NoConn
  /\ table' = [table EXCEPT ![h] = NoConn]

(* A table is made empty, and a deleted one has no rule.                   *)
Clear == table' = Empty

Next ==
  \/ \E h \in Handles, c \in Conns : Add(h, c)
  \/ \E h \in Handles : Del(h)
  \/ Clear

Spec == Init /\ [][Next]_table
=============================================================================
