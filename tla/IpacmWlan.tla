----------------------------- MODULE IpacmWlan -----------------------------
(***************************************************************************)
(* The clients of the WLAN APs of IPACM: IPACM_Wlan.cpp, in the Android    *)
(* build, with the lists of client addresses that ConntrackListener and    *)
(* NatApp keep for them.                                                   *)
(*                                                                         *)
(* An IPACM_Wlan keeps its clients in an array without holes.  For each it *)
(* has two headers in the hardware, and, while the client is awake, a rule *)
(* for its IPv4 address and two for each of its IPv6 addresses.  The queue *)
(* thread runs one handler after the other, so a handler is an action.     *)
(*                                                                         *)
(* A handle of the hardware is modelled by what it stands for, and the     *)
(* hardware by a bag, since the same rule may be there twice.  Each        *)
(* addition may be refused; the hardware is taken to delete what it is     *)
(* given a handle of, so that the returns of the handlers behind a         *)
(* deletion that fails are left out.  The driver says that a client        *)
(* joins before anything else about it and once until it leaves, a         *)
(* client's address is not another's, and a client's addresses are not 0.  *)
(* Each AP has one IPv4 and one IPv6 property for transmission.            *)
(*                                                                         *)
(* Left out: filters, the events for LAN to LAN, the switch between SCC    *)
(* and MCC, and the life of the object itself, which is in IpacmIfaces.    *)
(***************************************************************************)
EXTENDS Naturals, Sequences, FiniteSets, Bags, SequencesExt

CONSTANTS
  Aps, Macs, Ip4, Ip6, NoIp,
  IPA_MAX_NUM_WIFI_CLIENTS, IPV6_NUM_ADDR,
  MaxFaults    \* bound: additions refused and clients not cleaned up

ASSUME WlanAssumption ==
  /\ NoIp \notin Ip4 \cup Ip6
  /\ IPA_MAX_NUM_WIFI_CLIENTS \in Nat /\ IPV6_NUM_ADDR \in Nat
  /\ MaxFaults \in Nat

VARIABLES
  active,      \* is_active of the AP's object, if there is one
  ip_type,     \* of the AP: IPACM_IP_NULL, IPA_IP_v4, or with IPv6 (IPA_IP_v6 and IPA_IP_MAX)
  wlan_client, \* the array of each AP; num_wifi_client is its length
  total_num_wifi_clients,
  nat_iface_ipv4_addr,  \* ConntrackListener: addresses of clients behind NAT
  PwrSaveIfs,           \* NatApp: those that sleep
  hw,          \* the bag of what is installed in the hardware
  leaked,      \* history: what of it was installed and then forgotten
  abandoned,   \* history: addresses of clients whose AP closed without cleaning up
  faults       \* how many additions were refused and clients not cleaned up

natVars == <<nat_iface_ipv4_addr, PwrSaveIfs, abandoned>>
vars == <<active, ip_type, wlan_client, total_num_wifi_clients, natVars, hw, leaked, faults>>

Thing(kind, m, ip) == <<kind, m, ip>>
Headers(m) == {Thing("hdr4", m, NoIp), Thing("hdr6", m, NoIp)}
V6Rules(m, ip) == <<Thing("lan", m, ip), Thing("wan", m, ip)>>

(* A client.  asleep is what the driver said last; the others are          *)
(* histories.  mixed: power_save_set was taken over from another client    *)
(* and is not its own.  denied: a rule for it was refused.  cut: a reset   *)
(* took its IPv6 rules, stopped at it and left it its addresses.           *)
NewClient(m) ==
  [mac |-> m, v4_addr |-> NoIp, rule_v4 |-> {}, v6_addr |-> <<>>, rules_v6 |-> {},
   route_rule_set_v6 |-> 0, power_save_set |-> FALSE,
   asleep |-> FALSE, mixed |-> FALSE, denied |-> FALSE, cut |-> FALSE]

Init ==
  /\ active = [a \in Aps |-> FALSE] /\ ip_type = [a \in Aps |-> "null"]
  /\ wlan_client = [a \in Aps |-> <<>>]
  /\ total_num_wifi_clients = 0
  /\ nat_iface_ipv4_addr = {} /\ PwrSaveIfs = {} /\ abandoned = {}
  /\ hw = EmptyBag /\ leaked = EmptyBag /\ faults = 0

Clients(a) == Range(wlan_client[a])
All == UNION {Clients(a) : a \in Aps}
Remembers(c) == Headers(c.mac) \cup c.rule_v4 \cup c.rules_v6
V4(cs) == {c.v4_addr : c \in cs} \ {NoIp}

-----------------------------------------------------------------------------
(* The lists for NAT.                                                      *)

(* Mutant: the address stays in power save.                                *)
DelEvtStillSleeps(ips) ==
  /\ nat_iface_ipv4_addr' = nat_iface_ipv4_addr \ ips
  /\ abandoned' = abandoned \ ips
  /\ UNCHANGED PwrSaveIfs

HandleNeighIpAddrDelEvt(ips) ==
  /\ nat_iface_ipv4_addr' = nat_iface_ipv4_addr \ ips
  /\ PwrSaveIfs' = PwrSaveIfs \ ips
  /\ abandoned' = abandoned \ ips

(* A client gets the address ip instead of old.  An address already listed *)
(* is left alone.                                                          *)
HandleNeighIpAddrAddEvt(ip, old) ==
  /\ nat_iface_ipv4_addr' = (nat_iface_ipv4_addr \ {old}) \cup {ip}
  /\ PwrSaveIfs' = PwrSaveIfs \ (IF ip \in nat_iface_ipv4_addr THEN {old} ELSE {old, ip})
  /\ abandoned' = abandoned \ {old}

-----------------------------------------------------------------------------
(* The rules of a client.                                                  *)

(* What delete_default_qos_rtrules takes from the client.                  *)
NoRuleV4(c) == [c EXCEPT !.rule_v4 = {}]
NoRulesV6(c) == [c EXCEPT !.rules_v6 = {}, !.route_rule_set_v6 = 0]

(* The rules handle_wlan_client_route_rule adds, in order.                 *)
NeededV4(c) ==
  IF c.power_save_set \/ c.rule_v4 # {} \/ c.v4_addr = NoIp THEN <<>>
  ELSE <<Thing("rt4", c.mac, c.v4_addr)>>

NeededV6(c) ==
  IF c.power_save_set THEN <<>>
  ELSE [k \in 1 .. 2 * (Len(c.v6_addr) - c.route_rule_set_v6) |->
          V6Rules(c.mac, c.v6_addr[c.route_rule_set_v6 + (k + 1) \div 2])[2 - (k % 2)]]

(* The client when the first n of these have been added, and whether that  *)
(* is all of them: the count and the handles are of use only then.         *)
RoutedV4(c, n) ==
  IF n < Len(NeededV4(c)) THEN [c EXCEPT !.denied = TRUE]
  ELSE [c EXCEPT !.rule_v4 = @ \cup Range(NeededV4(c))]

(* Mutant: the rules are counted although one was refused.                 *)
RoutedV6Anyway(c, n) ==
  [c EXCEPT !.rules_v6 = @ \cup Range(NeededV6(c)), !.route_rule_set_v6 = Len(c.v6_addr), !.cut = FALSE]

RoutedV6(c, n) ==
  IF n < Len(NeededV6(c)) THEN [c EXCEPT !.denied = TRUE]
  ELSE [c EXCEPT !.rules_v6 = @ \cup Range(NeededV6(c)),
                 !.route_rule_set_v6 = IF c.power_save_set THEN @ ELSE Len(c.v6_addr),
                 !.cut = @ /\ c.power_save_set]

(* Client i of AP a becomes c, with the rules of the versions ipv: what it *)
(* remembered and does not any more has been deleted.                      *)
handle_wlan_client_route_rule(a, i, c, ipv) ==
  LET needed4 == IF 4 \in ipv THEN NeededV4(c) ELSE <<>>
      needed6 == IF 6 \in ipv THEN NeededV6(c) ELSE <<>>
      deleted == Remembers(wlan_client[a][i]) \ Remembers(c)
  IN \E n4 \in 0 .. Len(needed4), n6 \in 0 .. Len(needed6) :
       LET new4 == IF 4 \in ipv THEN RoutedV4(c, n4) ELSE c
           new  == IF 6 \in ipv THEN RoutedV6(new4, n6) ELSE new4
           lost == IF n6 < Len(needed6) THEN Range(SubSeq(needed6, 1, n6)) ELSE {}
       IN /\ faults' = faults + (IF n4 < Len(needed4) THEN 1 ELSE 0)
                               + (IF n6 < Len(needed6) THEN 1 ELSE 0)
          /\ faults' <= MaxFaults
          /\ hw' = (hw (-) SetToBag(deleted))
                     (+) SetToBag(Range(SubSeq(needed4, 1, n4)) \cup Range(SubSeq(needed6, 1, n6)))
          /\ leaked' = leaked (+) SetToBag(lost)
          /\ wlan_client' = [wlan_client EXCEPT ![a][i] = new]

Only(a) == active[a] /\ UNCHANGED <<active, ip_type>>

-----------------------------------------------------------------------------
(* Events of the AP.                                                       *)

(* An object for the AP.                                                   *)
LinkUp(a) ==
  /\ ~active[a]
  /\ active' = [active EXCEPT ![a] = TRUE]
  /\ UNCHANGED <<ip_type, wlan_client, total_num_wifi_clients, natVars, hw, leaked, faults>>

(* The AP gets an address: init_fl_rule.                                   *)
IPA_ADDR_ADD_EVENT(a) ==
  /\ active[a]
  /\ \/ ip_type[a] = "null" /\ ip_type' = [ip_type EXCEPT ![a] = "v4"]
     \/ ip_type' = [ip_type EXCEPT ![a] = "v6"]
  /\ UNCHANGED <<active, wlan_client, total_num_wifi_clients, natVars, hw, leaked, faults>>

(* All clients of the AP leave the count.                                  *)
DownCounted(a) == total_num_wifi_clients' = total_num_wifi_clients - Len(wlan_client[a])

(* An AP that never had an address skips the clean-up of its clients.      *)
handle_down_evt(a) ==
  LET things == UNION {Remembers(c) : c \in Clients(a)}
  IN IF ip_type[a] # "null"
     THEN /\ HandleNeighIpAddrDelEvt(V4(Clients(a)))
          /\ hw' = hw (-) SetToBag(things)
          /\ UNCHANGED <<leaked, faults>>
     ELSE /\ faults' = faults + Len(wlan_client[a])
          /\ faults' <= MaxFaults
          /\ leaked' = leaked (+) SetToBag(things)
          /\ abandoned' = abandoned \cup V4(Clients(a))
          /\ UNCHANGED <<hw, nat_iface_ipv4_addr, PwrSaveIfs>>

IPA_WLAN_LINK_DOWN_EVENT(a) ==
  /\ active[a]
  /\ active' = [active EXCEPT ![a] = FALSE]
  /\ handle_down_evt(a)
  /\ DownCounted(a)
  /\ wlan_client' = [wlan_client EXCEPT ![a] = <<>>]
  /\ ip_type' = [ip_type EXCEPT ![a] = "null"]

(* The IPv6 rules go, and the addresses are forgotten.                     *)
ResetV6(c) == [NoRulesV6(c) EXCEPT !.v6_addr = <<>>, !.cut = FALSE]

(* The rules go and the addresses stay.                                    *)
CutShort(c) == [NoRulesV6(c) EXCEPT !.cut = TRUE]

(* handle_lan2lan_msg_post fails for a client with IPv6 addresses of an AP *)
(* without one.                                                            *)
Reported(a, c) == c.v6_addr = <<>> \/ ip_type[a] = "v6"

(* What the reset makes of the clients of AP a: it ends at the first that  *)
(* cannot be reported, when its rules are gone already.                    *)
handle_wlan_client_reset_rt(a) ==
  LET cs == wlan_client[a]
      Reached(i) == \A j \in 1 .. i - 1 : Reported(a, cs[j])
  IN [i \in DOMAIN cs |-> IF ~Reached(i) THEN cs[i]
                          ELSE IF Reported(a, cs[i]) THEN ResetV6(cs[i]) ELSE CutShort(cs[i])]

(* The AP that is tethered to the connection gets the event.               *)
IPA_HANDLE_WAN_DOWN_V6_TETHER(a) ==
  LET left == handle_wlan_client_reset_rt(a)
      deleted == (UNION {Remembers(c) : c \in Clients(a)}) \ (UNION {Remembers(c) : c \in Range(left)})
  IN /\ Only(a)
     /\ hw' = hw (-) SetToBag(deleted)
     /\ wlan_client' = [wlan_client EXCEPT ![a] = left]
     /\ UNCHANGED <<total_num_wifi_clients, natVars, leaked, faults>>

-----------------------------------------------------------------------------
(* Events of a client.                                                     *)

(* The first header is leaked when the second is refused.                  *)
handle_wlan_client_init_ex(a, m) ==
  /\ Only(a)
  /\ \A c \in All : c.mac # m
  /\ total_num_wifi_clients < IPA_MAX_NUM_WIFI_CLIENTS
  /\ \/ /\ wlan_client' = [wlan_client EXCEPT ![a] = Append(@, NewClient(m))]
        /\ total_num_wifi_clients' = total_num_wifi_clients + 1
        /\ hw' = hw (+) SetToBag(Headers(m))
        /\ UNCHANGED <<leaked, faults>>
     \/ /\ faults < MaxFaults /\ faults' = faults + 1
        /\ LET hdr == SetToBag({Thing("hdr4", m, NoIp)})
           IN \/ hw' = hw (+) hdr /\ leaked' = leaked (+) hdr
              \/ UNCHANGED <<hw, leaked>>
        /\ UNCHANGED <<wlan_client, total_num_wifi_clients>>
  /\ UNCHANGED natVars

(* handle_wlan_client_ipaddr and the rules.                                *)
NewAddressV4(a, i, ip) ==
  LET c == wlan_client[a][i]
  IN /\ Only(a) /\ ip \notin V4(All)
     /\ handle_wlan_client_route_rule(a, i, [NoRuleV4(c) EXCEPT !.v4_addr = ip], {4})
     /\ HandleNeighIpAddrAddEvt(ip, c.v4_addr)
     /\ UNCHANGED total_num_wifi_clients

NewAddressV6(a, i, ip) ==
  LET c == wlan_client[a][i]
  IN /\ Only(a)
     /\ Len(c.v6_addr) < IPV6_NUM_ADDR /\ ip \notin Range(c.v6_addr)
     /\ handle_wlan_client_route_rule(a, i, [c EXCEPT !.v6_addr = Append(@, ip)], {6})
     /\ UNCHANGED <<total_num_wifi_clients, natVars>>

(* A client that sleeps already is left alone.                             *)
handle_wlan_client_pwrsave(a, i) ==
  LET c == wlan_client[a][i]
      sleeping == [NoRuleV4(NoRulesV6(c)) EXCEPT !.power_save_set = TRUE]
      new == IF c.power_save_set THEN c ELSE sleeping
  IN /\ Only(a)
     /\ PwrSaveIfs' = IF c.power_save_set THEN PwrSaveIfs ELSE PwrSaveIfs \cup V4({c})
     /\ handle_wlan_client_route_rule(a, i, [new EXCEPT !.asleep = TRUE], {})
     /\ UNCHANGED <<total_num_wifi_clients, nat_iface_ipv4_addr, abandoned>>

(* A client that is thought awake is left alone.                           *)
IPA_WLAN_CLIENT_RECOVER_EVENT(a, i) ==
  LET c == wlan_client[a][i]
      awake == [c EXCEPT !.asleep = FALSE, !.power_save_set = FALSE]
  IN /\ Only(a)
     /\ IF c.power_save_set
        THEN handle_wlan_client_route_rule(a, i, awake, {4, 6})
             /\ PwrSaveIfs' = PwrSaveIfs \ V4({c})
        ELSE handle_wlan_client_route_rule(a, i, awake, {}) /\ UNCHANGED PwrSaveIfs
     /\ UNCHANGED <<total_num_wifi_clients, nat_iface_ipv4_addr, abandoned>>

(* Mutant: the rules stay with the slot.                                   *)
MovedWithoutRules(c, slot) ==
  [c EXCEPT !.rule_v4 = slot.rule_v4, !.power_save_set = slot.power_save_set,
            !.mixed = @ \/ slot.power_save_set # c.power_save_set]

(* Client c moves to a slot of the array: all but power_save_set is copied. *)
Moved(c, slot) ==
  [c EXCEPT !.power_save_set = slot.power_save_set,
            !.mixed = @ \/ slot.power_save_set # c.power_save_set]

handle_wlan_client_down_evt(a, i) ==
  LET cs == wlan_client[a]
  IN /\ Only(a)
     /\ HandleNeighIpAddrDelEvt(V4({cs[i]}))
     /\ hw' = hw (-) SetToBag(Remembers(cs[i]))
     /\ wlan_client' = [wlan_client EXCEPT ![a] =
          [j \in 1 .. Len(cs) - 1 |-> IF j < i THEN cs[j] ELSE Moved(cs[j + 1], cs[j])]]
     /\ total_num_wifi_clients' = total_num_wifi_clients - 1
     /\ UNCHANGED <<leaked, faults>>

ClientEvent(a, i) ==
  \/ \E ip \in Ip4 : NewAddressV4(a, i, ip)
  \/ \E ip \in Ip6 : NewAddressV6(a, i, ip)
  \/ handle_wlan_client_pwrsave(a, i)
  \/ IPA_WLAN_CLIENT_RECOVER_EVENT(a, i)
  \/ handle_wlan_client_down_evt(a, i)

Next ==
  \E a \in Aps :
    \/ LinkUp(a) \/ IPA_ADDR_ADD_EVENT(a) \/ IPA_WLAN_LINK_DOWN_EVENT(a)
    \/ IPA_HANDLE_WAN_DOWN_V6_TETHER(a)
    \/ \E m \in Macs : handle_wlan_client_init_ex(a, m)
    \/ \E i \in DOMAIN wlan_client[a] : ClientEvent(a, i)

Spec == Init /\ [][Next]_vars

-----------------------------------------------------------------------------
(* Types of the state.                                                     *)
TypeOK ==
  /\ active \in [Aps -> BOOLEAN] /\ ip_type \in [Aps -> {"null", "v4", "v6"}]
  /\ \A c \in All :
       /\ c.mac \in Macs /\ c.v4_addr \in Ip4 \cup {NoIp}
       /\ c.v6_addr \in Seq(Ip6) /\ c.route_rule_set_v6 <= Len(c.v6_addr)
       /\ Len(c.v6_addr) <= IPV6_NUM_ADDR
  /\ nat_iface_ipv4_addr \subseteq Ip4 /\ PwrSaveIfs \subseteq Ip4 /\ abandoned \subseteq Ip4
  /\ faults \in 0 .. MaxFaults

(* What is in the hardware is what the clients have the handles of, once   *)
(* each, and what a refused addition or an AP without address left behind. *)
HardwareAccounted == hw = leaked (+) SetToBag(UNION {Remembers(c) : c \in All})

(* The rules of a client, whatever slots it was in, forward the addresses  *)
(* it has now, to its own header.                                          *)
RulesAreCurrent ==
  \A c \in All :
    /\ c.rule_v4 \subseteq {Thing("rt4", c.mac, c.v4_addr)}
    /\ c.rules_v6 = UNION {Range(V6Rules(c.mac, c.v6_addr[k])) : k \in 1 .. c.route_rule_set_v6}

(* A client has no rules while it sleeps and a rule for each address while *)
(* it is awake, unless an addition was refused or the client took over the *)
(* flag of another.  One at which a reset was cut short has no IPv6 rules, *)
(* but for no longer than until its rules are added the next time; those   *)
(* the reset did not come to keep all of theirs (IPACM_Wlan.cpp:2859-2893).*)
RulesFollowSleep ==
  \A c \in All : ~c.mixed =>
    /\ c.asleep => c.rule_v4 = {} /\ c.rules_v6 = {}
    /\ ~c.asleep /\ ~c.denied =>
         /\ c.v4_addr # NoIp => c.rule_v4 # {}
         /\ c.route_rule_set_v6 = IF c.cut THEN 0 ELSE Len(c.v6_addr)

(* NAT lists the addresses of the clients, all of them and nobody else's.  *)
NatListIsExact == nat_iface_ipv4_addr = V4(All) \cup abandoned

(* NAT keeps the connections of an address out of the hardware only while  *)
(* its client sleeps: nobody else would ever let them in again.            *)
NoSleepWithoutSleeper ==
  \A ip \in PwrSaveIfs \ abandoned :
    \E c \in All : c.v4_addr = ip /\ (c.asleep \/ c.mixed)

(* The limit of the hardware is kept by counting the clients of every AP.  *)
ClientsCounted ==
  /\ \A m \in Macs : Cardinality({a \in Aps : m \in {c.mac : c \in Clients(a)}}) <= 1
  /\ total_num_wifi_clients = Cardinality(All)
  /\ total_num_wifi_clients <= IPA_MAX_NUM_WIFI_CLIENTS

(* The rules fit the clients: as many clients as counted, rules for the    *)
(* addresses they have now, and none while they sleep.                     *)
RulesFit == TypeOK /\ ClientsCounted /\ RulesAreCurrent /\ RulesFollowSleep

(* What NAT knows by address is what IPACM_Wlan knows by client: who is    *)
(* behind NAT, and who sleeps.                                             *)
NatKnowsClients == NatListIsExact /\ NoSleepWithoutSleeper
=============================================================================
