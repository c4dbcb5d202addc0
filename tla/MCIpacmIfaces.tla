--------------------------- MODULE MCIpacmIfaces ---------------------------
(* Instance of IpacmIfaces: two WLAN APs, a USB function.         *)
EXTENDS IpacmIfaces

MCWlans == {"wlan0", "wlan1"}
MCUsbs  == {"ecm0"}
=============================================================================
