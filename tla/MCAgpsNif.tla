----------------------------- MODULE MCAgpsNif -----------------------------
(* The instance of AgpsNif that TLC checks: two modem clients.              *)
EXTENDS AgpsNif

CONSTANTS c1, c2

MCClients == {c1, c2}
=============================================================================
