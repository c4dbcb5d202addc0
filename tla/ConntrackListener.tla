-------------------------- MODULE ConntrackListener --------------------------
(***************************************************************************)
(* The conntrack listener of the IPA connection manager                    *)
(* (IPACM_ConntrackListener.cpp) driving the NAT cache of module NatApp.   *)
(*                                                                         *)
(* Kernel messages about connections are queued and handled, in order, on  *)
(* the command queue's thread, with the WAN, neighbour and power save      *)
(* events of the other interfaces; a handler is finished, walks included,  *)
(* before the next one starts.  The kernel's table of connections (live)   *)
(* is external.                                                            *)
(***************************************************************************)
EXTENDS NatApp

CONSTANTS Device,        \* as Private[c]: a connection of the device itself
          NatIfaceIps,   \* clients behind a NAT interface
          ClientIps,     \* clients the neighbour events are about
          PrivateSubnet, \* addresses of the configured private subnets
          StaIps,        \* addresses of clients of the station's network
          DownIps,       \* addresses a WAN_DOWN may carry
          MaxNatIfaces,  \* MAX_NAT_IFACES
          MaxStaClnts,   \* MAX_STA_CLNT_IFACES
          StaModes,      \* is_sta of the WAN interfaces
          ReAnnounce,    \* a listed address may come again, from another client
          MaxQueue       \* bound: messages waiting in the command queue

ASSUME ListenerAssumption ==
  /\ NatIfaceIps \cup ClientIps \cup PrivateSubnet \cup StaIps \subseteq Ips
  /\ DownIps \subseteq PubIps
  /\ {MaxNatIfaces, MaxStaClnts, MaxQueue} \subseteq Nat \ {0}
  /\ StaModes \cup {ReAnnounce} \subseteq BOOLEAN
  /\ Device \in Ips \ PrivateSubnet

VARIABLES wanUp,     \* WanUp
          wanIp,     \* wan_ipaddr
          staMode,   \* isStaMode
          natIf,     \* nat_iface_ipv4_addr[]
          sta,       \* sta_clnt_ipv4_addr[]
          staCnt,    \* StaClntCnt
          live,      \* the kernel's connections
          ctq,       \* messages about them, not yet handled
          outside    \* CacheEntry has written outside cache[]: the memory of
                     \* the process is spoilt, and nothing more is said of it

listenerVars == <<wanUp, wanIp, staMode, natIf, sta, staCnt>>
outerVars    == <<live, ctq, outside>>
vars         == <<natVars, listenerVars, outerVars>>

IfSlots  == 1 .. MaxNatIfaces
StaSlots == 1 .. MaxStaClnts
Message  == [type : {"new", "destroy"}, conn : Conns]

TypeOK ==
  /\ NatTypeOK
  /\ wanUp \in BOOLEAN
  /\ wanIp \in PubIps \cup {NoIp}
  /\ staMode \in BOOLEAN
  /\ natIf \in [IfSlots -> Ips \cup {NoIp}]
  /\ sta \in [StaSlots -> Ips \cup {NoIp}]
  /\ staCnt \in 0 .. MaxStaClnts
  /\ live \subseteq Conns
  /\ ctq \in Seq(Message)
  /\ outside \in BOOLEAN

(* The constructor leaves isStaMode unset.                                 *)
Init ==
  /\ NatInit
  /\ wanUp = FALSE
  /\ wanIp = NoIp
  /\ staMode \in StaModes
  /\ natIf = [i \in IfSlots |-> NoIp]
  /\ sta = [i \in StaSlots |-> NoIp]
  /\ staCnt = 0
  /\ live = {}
  /\ ctq = <<>>
  /\ outside = FALSE

-----------------------------------------------------------------------------
(* The kernel.                                                             *)

KernelOpen(c) ==
  /\ c \notin live
  /\ Len(ctq) < MaxQueue
  /\ live' = live \cup {c}
  /\ ctq' = Append(ctq, [type |-> "new", conn |-> c])
  /\ UNCHANGED <<natVars, listenerVars, outside>>

KernelClose(c) ==
  /\ c \in live
  /\ Len(ctq) < MaxQueue
  /\ live' = live \ {c}
  /\ ctq' = Append(ctq, [type |-> "destroy", conn |-> c])
  /\ UNCHANGED <<natVars, listenerVars, outside>>

(* An open connection may be reported again: every message of a TCP        *)
(* connection in state ESTABLISHED is handled like the first.              *)
KernelUpdate(c) ==
  /\ c \in live
  /\ Len(ctq) < MaxQueue
  /\ ctq' = Append(ctq, [type |-> "new", conn |-> c])
  /\ UNCHANGED <<live, natVars, listenerVars, outside>>

-----------------------------------------------------------------------------
(* ProcessTCPorUDPMsg: what to do with a message about connection c.       *)

NatClients == {natIf[i] : i \in IfSlots} \ {NoIp}

OfDevice(c)    == Private[c] = Device
KnownClient(c) == Private[c] \in NatClients \/ Target[c] \in NatClients
InSubnet(c)    == Private[c] \in PrivateSubnet \/ Target[c] \in PrivateSubnet

Ignored(c) == IF OfDevice(c) THEN staMode ELSE ~KnownClient(c) /\ ~InSubnet(c)

(* In station mode a target of the station's network must be a client in   *)
(* the list.  The network is that of the first slot of the list, and only  *)
(* the first StaClntCnt slots are searched.                                *)
StaTargetUnknown(c) ==
  /\ staMode
  /\ staCnt # 0
  /\ sta[1] # NoIp
  /\ Target[c] \in StaIps
  /\ \A i \in 1 .. staCnt : sta[i] # Target[c]

IsTempEntry(c) == (~OfDevice(c) /\ ~KnownClient(c)) \/ StaTargetUnknown(c)

NewConnection(c) ==
  IF ~wanUp
  THEN CacheEntry(c, outside') /\ UNCHANGED <<temp, hw>>
  ELSE /\ IF IsTempEntry(c)
          THEN AddTempEntry(c, wanIp) /\ UNCHANGED <<cache, hw>>
          ELSE (\E added \in BOOLEAN : AddEntry(c, added)) /\ UNCHANGED temp
       /\ UNCHANGED outside

(* Mutant: a closed connection may be flushed into the cache later.        *)
EndOfEntry(c) == DeleteEntry(c) /\ UNCHANGED temp

EndOfConnection(c) == DeleteEntry(c) /\ DeleteTempEntry(c)

Idle == loop = <<>>

ProcessCTMessage ==
  /\ Idle
  /\ ctq # <<>>
  /\ LET m == Head(ctq)
     IN  /\ outside' \in BOOLEAN
         /\ CASE Ignored(m.conn)     -> UNCHANGED <<cache, temp, hw, outside>>
              [] ~Ignored(m.conn) /\ m.type = "new"     -> NewConnection(m.conn)
              [] ~Ignored(m.conn) /\ m.type = "destroy" ->
                   EndOfConnection(m.conn) /\ UNCHANGED outside
  /\ ctq' = Tail(ctq)
  /\ UNCHANGED <<live, pwrSave, tableVars, loop, udp, listenerVars>>

-----------------------------------------------------------------------------
(* WAN events; one that changes nothing is no step.                        *)

TriggerWANUp(ip, isSta) ==
  /\ Idle
  /\ ~wanUp
  /\ wanUp' = TRUE
  /\ staMode' = isSta
  /\ wanIp' = ip
  /\ AddTable(ip)
  /\ UNCHANGED <<natIf, sta, staCnt, outerVars>>

TriggerWANDown(ip) ==
  /\ Idle
  /\ wanUp
  /\ ip = wanIp \/ ip \in DownIps
  /\ wanUp' = FALSE
  /\ DeleteTable(ip)
  /\ UNCHANGED <<wanIp, staMode, natIf, sta, staCnt, outerVars>>

-----------------------------------------------------------------------------
(* Clients of the NAT interfaces.                                          *)

(* Mutant: isAdd taken the wrong way round.                                *)
FlushWalkSwapped(ip, isAdd) == WalkOf(IF isAdd THEN "flushDrop" ELSE "flushAdd", ip)

FlushWalk(ip, isAdd) == WalkOf(IF isAdd THEN "flushAdd" ELSE "flushDrop", ip)

(* HandleNeighIpAddrAddEvt.  The search for a free slot stops at a hole    *)
(* before it has seen whether the address is listed further on.            *)
FreeOrSame(ip) == {i \in IfSlots : natIf[i] \in {ip, NoIp}}

NeighAddListed(ip) ==
  /\ \E i \in IfSlots : IsFirst(i, FreeOrSame(ip)) /\ natIf[i] = ip
  /\ UNCHANGED <<natIf, natVars>>

NeighAddNew(ip) ==
  /\ \E i \in IfSlots :
       /\ IsFirst(i, FreeOrSame(ip))
       /\ natIf[i] = NoIp
       /\ natIf' = [natIf EXCEPT ![i] = ip]
  /\ ResetPwrSaveIf(ip, <<FlushWalk(ip, TRUE)>>)

(* Not behind a NAT interface, or no slot left: the address goes to the    *)
(* list of other addresses, which nothing reads.                           *)
NeighAddOther(ip) ==
  /\ ip \notin NatIfaceIps \/ FreeOrSame(ip) = {}
  /\ loop' = <<FlushWalk(ip, FALSE)>>
  /\ UNCHANGED <<natIf, cache, temp, pwrSave, tableVars, hw, udp>>

HandleNeighIpAddrAddEvt(ip) ==
  /\ Idle
  /\ ReAnnounce \/ ip \notin NatClients
  /\ \/ ip \in NatIfaceIps /\ (NeighAddListed(ip) \/ NeighAddNew(ip))
     \/ NeighAddOther(ip)
  /\ UNCHANGED <<wanUp, wanIp, staMode, sta, staCnt, outerVars>>

HandleNeighIpAddrDelEvt(ip) ==
  /\ Idle
  /\ ip \in NatClients
  /\ natIf' = [i \in IfSlots |-> IF natIf[i] = ip THEN NoIp ELSE natIf[i]]
  /\ OutOfPwrSave(ip)
  /\ loop' = <<FlushWalk(ip, FALSE), WalkOf("disconnect", ip)>>
  /\ UNCHANGED <<cache, temp, tableVars, hw, udp>>
  /\ UNCHANGED <<wanUp, wanIp, staMode, sta, staCnt, outerVars>>

(* IPACM_Wlan: a client with an address goes into power save, or leaves it.*)
ClientPowerSave(ip) ==
  /\ Idle
  /\ ip \in NatClients
  /\ UpdatePwrSaveIf(ip)
  /\ UNCHANGED <<listenerVars, outerVars>>

ClientRecovers(ip) ==
  /\ Idle
  /\ ip \in NatClients
  /\ ResetPwrSaveIf(ip, <<>>)
  /\ UNCHANGED <<listenerVars, outerVars>>

-----------------------------------------------------------------------------
(* Clients of the network the device is a station of.                      *)

StaFreeOrSame(ip) == {i \in StaSlots : sta[i] \in {ip, NoIp}}

(* Mutant: a client that is listed already is counted again.               *)
HandleSTAClientAddEvtTwice(ip) ==
  /\ Idle
  /\ staCnt < MaxStaClnts
  /\ \E i \in StaSlots :
       /\ IsFirst(i, StaFreeOrSame(ip))
       /\ sta' = [sta EXCEPT ![i] = ip]
       /\ staCnt' = staCnt + 1
  /\ loop' = <<FlushWalk(ip, TRUE)>>
  /\ UNCHANGED <<cache, temp, pwrSave, tableVars, hw, udp>>
  /\ UNCHANGED <<wanUp, wanIp, staMode, natIf, outerVars>>

HandleSTAClientAddEvt(ip) ==
  /\ Idle
  /\ staCnt < MaxStaClnts
  /\ \E i \in StaSlots :
       /\ IsFirst(i, StaFreeOrSame(ip))
       /\ sta' = [sta EXCEPT ![i] = ip]
       /\ staCnt' = IF sta[i] = NoIp THEN staCnt + 1 ELSE staCnt
  /\ loop' = <<FlushWalk(ip, TRUE)>>
  /\ UNCHANGED <<cache, temp, pwrSave, tableVars, hw, udp>>
  /\ UNCHANGED <<wanUp, wanIp, staMode, natIf, outerVars>>

StaHolding(ip) == {i \in StaSlots : sta[i] = ip}

HandleSTAClientDelEvt(ip) ==
  /\ Idle
  /\ IF StaHolding(ip) = {}
     THEN UNCHANGED <<sta, staCnt>> /\ loop' = <<FlushWalk(ip, FALSE)>>
     ELSE /\ sta' = [i \in StaSlots |-> IF IsFirst(i, StaHolding(ip)) THEN NoIp ELSE sta[i]]
          /\ staCnt' = staCnt - 1
          /\ loop' = <<WalkOf("staGone", ip), FlushWalk(ip, FALSE)>>
  /\ UNCHANGED <<cache, temp, pwrSave, tableVars, hw, udp>>
  /\ UNCHANGED <<wanUp, wanIp, staMode, natIf, outerVars>>

-----------------------------------------------------------------------------
Kernel == \E c \in Conns : KernelOpen(c) \/ KernelUpdate(c) \/ KernelClose(c)

WalkOn == WalkStep /\ UNCHANGED <<listenerVars, outerVars>>

Events ==
  \/ \E ip \in PubIps, isSta \in StaModes : TriggerWANUp(ip, isSta)
  \/ \E ip \in PubIps : TriggerWANDown(ip)
  \/ \E ip \in ClientIps :
       \/ HandleNeighIpAddrAddEvt(ip)
       \/ HandleNeighIpAddrDelEvt(ip)
       \/ ClientPowerSave(ip)
       \/ ClientRecovers(ip)
  \/ \E ip \in StaIps : HandleSTAClientAddEvt(ip) \/ HandleSTAClientDelEvt(ip)

TimeStamps ==
  /\ (\E s \in Slots : UdpQuery(s)) \/ UdpUpdateCT(live) \/ UdpDeleteEntry
  /\ UNCHANGED <<listenerVars, outerVars>>

Running == ~outside

Next == Running /\ (Kernel \/ ProcessCTMessage \/ WalkOn \/ Events \/ TimeStamps)

Spec == Init /\ [][Next]_vars

(* A WAN that comes up before the first connection and stays up.           *)
WanStays     == (wanUp => wanUp') /\ (live' # {} => wanUp)
WanStaysSpec == Init /\ [][Next /\ WanStays]_vars

(* The command queue is served in order: a message is handled in the end,  *)
(* however many other events are handled before it, and walks go on.       *)
FairSpec == Spec /\ SF_vars(Running /\ ProcessCTMessage) /\ WF_vars(WalkOn)

-----------------------------------------------------------------------------
Pending(c)  == \E i \in 1 .. Len(ctq) : ctq[i].conn = c
Cached(c)   == Holding(c) # {}
Offloaded(c) == \E h \in Handles : hw[h] = c

(* StaClntCnt counts the slots of the station's list in use, so that a free*)
(* one is found whenever the count allows a new client.                    *)
StaCntIsExact == staCnt = Cardinality({i \in StaSlots : sta[i] # NoIp})

(* Once its message is handled, an open connection of a known client that  *)
(* is awake is in the hardware.  Through power save, roaming and temporary *)
(* entries; needs room in every array and a WAN that stays up.             *)
KnownConnectionOffloaded ==
  Idle /\ tblHdl # 0 =>
    \A c \in live :
      /\ ~Pending(c)
      /\ c \notin AlgConns
      /\ Private[c] \in NatClients \ pwrSave
      => Offloaded(c)

(* What the kernel no longer knows leaves the cache and the temporary      *)
(* entries, whatever the time stamp thread does meanwhile.                 *)
ClosedIsForgotten ==
  \A c \in Conns :
    c \notin live ~> c \in live \/ outside \/ ~(Cached(c) \/ TempHolding(c) # {})

(* The cache and the hardware say the same: each enabled entry has its rule *)
(* and each rule its entry, whatever AddTable, the power save calls and the *)
(* deletions of NatApp have done to either.                                *)
CacheMatchesHardware == TypeOK /\ EnabledEntryHasRule /\ RuleHasEnabledEntry

(* Only the first StaClntCnt slots of a list with holes are searched: a    *)
(* listed client of the station is missed only if there is a hole before it*)
(* (the network itself, if the hole is the first slot, is then unknown and *)
(* the search is not made).                                                *)
MissedOnlyBehindHole ==
  \A c \in Conns : StaTargetUnknown(c) =>
    \A i \in StaSlots : sta[i] = Target[c] => \E h \in 1 .. i - 1 : sta[h] = NoIp

(* The arrays that are searched and counted by hand stay in order: cache[] *)
(* has no duplicates, StaClntCnt counts the station's clients, holes or    *)
(* not, and so decides which connections to them are temporary.            *)
ArraysInOrder == NoDuplicates /\ StaCntIsExact /\ MissedOnlyBehindHole
=============================================================================
