------------------------------- MODULE NatApp -------------------------------
(***************************************************************************)
(* The NAT connection cache of the IPA connection manager: class NatApp of *)
(* IPACM_Conntrack_NATApp.cpp, over the NAT table of the IPA hardware.     *)
(*                                                                         *)
(* A connection (the 5-tuple of a rule) is a model value.  NatApp keeps    *)
(* it in a slot of cache[], with the handle of its hardware rule while it  *)
(* is `enabled', or in temp[] while one of its ends is not known yet.      *)
(*                                                                         *)
(* Two threads call NatApp, without a lock: the command queue's thread     *)
(* (every operation of ConntrackListener) and the time stamp thread        *)
(* (UpdateUDPTimeStamp).  Each method that walks an array with a hardware  *)
(* call per element is a sequence of steps, one per element: `loop' is     *)
(* what the command queue's thread has left to walk.                       *)
(***************************************************************************)
EXTENDS Integers, Sequences, FiniteSets

CONSTANTS Conns,         \* connections: 5-tuples with no field zero
          Private,       \* Private[c]: private address of c
          Target,        \* Target[c]: address of the other end of c
          AlgConns,      \* connections with a port of an ALG
          Ips,           \* addresses of clients and targets
          PubIps,        \* addresses of the WAN interface
          NoConn, NoIp,  \* a zeroed entry, a zero address
          MaxEntries,    \* max_entries
          MaxTemp,       \* MAX_TEMP_ENTRIES
          MaxPwrSave,    \* IPA_MAX_NUM_WIFI_CLIENTS
          HwSize,        \* rules the hardware table has room for
          AddMayFail,    \* the hardware may refuse a table or a rule
          DelMayFail,    \* the hardware may refuse to delete either
          UdpThread      \* the time stamp thread runs

ASSUME ConnsAssumption ==
  /\ NoConn \notin Conns
  /\ Private \in [Conns -> Ips]
  /\ Target \in [Conns -> Ips]
  /\ AlgConns \subseteq Conns
  /\ NoIp \notin Ips \cup PubIps

ASSUME SizesAssumption ==
  /\ MaxEntries \in Nat \ {0}
  /\ MaxTemp \in Nat \ {0}
  /\ MaxPwrSave \in Nat
  /\ HwSize \in Nat \ {0}
  /\ {AddMayFail, DelMayFail, UdpThread} \subseteq BOOLEAN

VARIABLES cache,      \* cache[]: connection, enabled, rule_hdl
          temp,       \* temp[]: connection and the public address it was seen with
          pwrSave,    \* PwrSaveIfs[], a set of at most MaxPwrSave addresses
          tblHdl,     \* nat_table_hdl
          pubIp,      \* pub_ip_addr
          pubIpPre,   \* pub_ip_addr_pre
          hw,         \* the rules in the hardware table, by handle
          hwTable,    \* the address the hardware table was made for
          loop,       \* array walks the command queue's thread has begun
          udp         \* the time stamp thread: where it is, and at which slot

tableVars == <<tblHdl, pubIp, pubIpPre, hwTable>>
natVars   == <<cache, temp, pwrSave, tblHdl, pubIp, pubIpPre, hw,
               hwTable, loop, udp>>

Slots     == 1 .. MaxEntries
TempSlots == 1 .. MaxTemp
Handles   == 1 .. HwSize

Entry     == [conn : Conns \cup {NoConn}, enabled : BOOLEAN, hdl : 0 .. HwSize]
NoEntry   == [conn |-> NoConn, enabled |-> FALSE, hdl |-> 0]
TempEntry == [conn : Conns \cup {NoConn}, pub : PubIps \cup {NoIp}]
NoTemp    == [conn |-> NoConn, pub |-> NoIp]
NoRules   == [h \in Handles |-> NoConn]

CacheWalks == {"restore", "reenable", "disable", "disconnect", "staGone"}
TempWalks  == {"flushAdd", "flushDrop"}
Walk       == [op : CacheWalks \cup TempWalks, ip : Ips \cup PubIps, at : Nat]

(***************************************************************************)
(* Types.  curCnt is left out: it is only ever logged.                     *)
(***************************************************************************)
NatTypeOK ==
  /\ cache \in [Slots -> Entry]
  /\ temp \in [TempSlots -> TempEntry]
  /\ pwrSave \subseteq Ips
  /\ tblHdl \in {0, 1}
  /\ pubIp \in PubIps \cup {NoIp}
  /\ pubIpPre \in PubIps \cup {NoIp}
  /\ hw \in [Handles -> Conns \cup {NoConn}]
  /\ hwTable \in PubIps \cup {NoIp}
  /\ loop \in Seq(Walk)
  /\ udp \in [at : {"idle", "changed", "failed"}, slot : Slots]

-----------------------------------------------------------------------------
(* The constructor leaves pub_ip_addr_pre unset: any address it may hold.  *)
NatInit ==
  /\ cache = [s \in Slots |-> NoEntry]
  /\ temp = [t \in TempSlots |-> NoTemp]
  /\ pwrSave = {}
  /\ tblHdl = 0
  /\ pubIp = NoIp
  /\ pubIpPre \in PubIps \cup {NoIp}
  /\ hw = NoRules
  /\ hwTable = NoIp
  /\ loop = <<>>
  /\ udp = [at |-> "idle", slot |-> 1]

-----------------------------------------------------------------------------
(* The hardware NAT table, as its driver presents it.                      *)

FreeHandles == {h \in Handles : hw[h] = NoConn}

(* What a call can return: a call that may succeed can be refused, when    *)
(* the hardware may refuse.                                                *)
Outcomes(possible, mayFail) ==
  (IF possible THEN {TRUE} ELSE {FALSE}) \cup (IF mayFail THEN {FALSE} ELSE {})

AddRuleOutcomes    == Outcomes(tblHdl # 0 /\ FreeHandles # {}, AddMayFail)
DeleteRuleOutcomes(h) ==
  Outcomes(tblHdl # 0 /\ h # 0 /\ (h # 0 => hw[h] # NoConn), DelMayFail)

WithoutRule(h, ok) == IF ok THEN [hw EXCEPT ![h] = NoConn] ELSE hw

-----------------------------------------------------------------------------
(* Lookups in the cache.                                                   *)

IsFirst(s, S) == s \in S /\ \A r \in S : s <= r

Holding(c)  == {s \in Slots : cache[s].conn = c}
EmptySlots  == Holding(NoConn)
ChkForDup(c) == Holding(c) # {}
isPwrSaveIf(ip) == ip \in pwrSave
isAlgPort(c) == c \in AlgConns

(* AddEntry: a new connection.  `added' is whether it returned 0.          *)
AddEntryRefused(c, added) ==
  /\ \/ tblHdl = 0
     \/ isAlgPort(c)
     \/ ChkForDup(c)
     \/ EmptySlots = {}
  /\ ~added
  /\ UNCHANGED <<cache, hw>>

(* Mutant: no check for a duplicate.                                       *)
AddEntryUnchecked(c) == tblHdl # 0 /\ ~isAlgPort(c)

AddEntryAccepted(c) ==
  /\ tblHdl # 0
  /\ ~isAlgPort(c)
  /\ ~ChkForDup(c)

AddEntryCached(c, added) ==
  /\ AddEntryAccepted(c)
  /\ isPwrSaveIf(Private[c]) \/ isPwrSaveIf(Target[c])
  /\ \E s \in Slots :
       /\ IsFirst(s, EmptySlots)
       /\ cache' = [cache EXCEPT ![s] = [NoEntry EXCEPT !.conn = c]]
  /\ added
  /\ UNCHANGED hw

AddEntryOffloaded(c, added) ==
  /\ AddEntryAccepted(c)
  /\ ~isPwrSaveIf(Private[c]) /\ ~isPwrSaveIf(Target[c])
  /\ TRUE \in AddRuleOutcomes
  /\ \E s \in Slots, h \in FreeHandles :
       /\ IsFirst(s, EmptySlots)
       /\ cache' = [cache EXCEPT ![s] = [conn |-> c, enabled |-> TRUE, hdl |-> h]]
       /\ hw' = [hw EXCEPT ![h] = c]
  /\ added

AddEntryFailed(c, added) ==
  /\ AddEntryAccepted(c)
  /\ EmptySlots # {}
  /\ ~isPwrSaveIf(Private[c]) /\ ~isPwrSaveIf(Target[c])
  /\ FALSE \in AddRuleOutcomes
  /\ ~added
  /\ UNCHANGED <<cache, hw>>

AddEntry(c, added) ==
  \/ AddEntryRefused(c, added)
  \/ AddEntryCached(c, added)
  \/ AddEntryOffloaded(c, added)
  \/ AddEntryFailed(c, added)

(* DeleteEntry: the entry goes even if its rule could not be deleted.      *)
(* Called with a zeroed rule it "finds" the first empty slot.              *)
DeleteEntry(c) ==
  \/ /\ Holding(c) = {}
     /\ UNCHANGED <<cache, hw>>
  \/ \E s \in Slots :
       /\ IsFirst(s, Holding(c))
       /\ cache' = [cache EXCEPT ![s] = NoEntry]
       /\ IF cache[s].enabled
          THEN \E ok \in DeleteRuleOutcomes(cache[s].hdl) :
                 hw' = WithoutRule(cache[s].hdl, ok)
          ELSE UNCHANGED hw

(* CacheEntry: a new connection while there is no WAN.  The search for a   *)
(* free slot starts at an uninitialised index.  From one below the array   *)
(* it may come to a free slot of the array, as from the first slot, or     *)
(* stop before it; from one above max_entries it is over at once, without  *)
(* the cache being taken for full.  Then the entry is a `stray', written   *)
(* outside cache[].                                                        *)
CacheEntryFrom(c, from) ==
  LET free == {s \in EmptySlots : s >= from}
  IN  IF ChkForDup(c) \/ free = {}
      THEN UNCHANGED cache
      ELSE \E s \in free :
             /\ IsFirst(s, free)
             /\ cache' = [cache EXCEPT ![s] = [NoEntry EXCEPT !.conn = c]]

CacheEntry(c, stray) ==
  \/ ~stray /\ \E from \in 1 .. MaxEntries + 1 : CacheEntryFrom(c, from)
  \/ stray /\ ~ChkForDup(c) /\ UNCHANGED cache

(* AddTempEntry, DeleteTempEntry.                                          *)
TempHolding(c) == {t \in TempSlots : temp[t].conn = c}

AddTempEntry(c, pub) ==
  IF isAlgPort(c) \/ ChkForDup(c) \/ TempHolding(c) # {} \/ TempHolding(NoConn) = {}
  THEN UNCHANGED temp
  ELSE \E t \in TempSlots :
         /\ IsFirst(t, TempHolding(NoConn))
         /\ temp' = [temp EXCEPT ![t] = [conn |-> c, pub |-> pub]]

DeleteTempEntry(c) ==
  temp' = [t \in TempSlots |-> IF IsFirst(t, TempHolding(c)) THEN NoTemp ELSE temp[t]]

-----------------------------------------------------------------------------
(* Tables.                                                                 *)

WalkOf(op, ip) == [op |-> op, ip |-> ip, at |-> 1]

(* AddTable: the driver has one table, and clears the handle it is given   *)
(* before it tries.  The cache is walked back into a table for the address *)
(* of the last one; otherwise the cached entries stay as they are.         *)
AddTableFailed ==
  /\ FALSE \in Outcomes(hwTable = NoIp, AddMayFail)
  /\ tblHdl' = 0
  /\ UNCHANGED <<pubIp, pubIpPre, hw, hwTable, loop>>

AddTableDone(ip) ==
  /\ TRUE \in Outcomes(hwTable = NoIp, AddMayFail)
  /\ tblHdl' = 1
  /\ hwTable' = ip
  /\ hw' = NoRules
  /\ IF ip = pubIpPre
     THEN loop' = <<WalkOf("restore", ip)>> /\ UNCHANGED pubIp
     ELSE pubIp' = ip /\ UNCHANGED loop
  /\ UNCHANGED pubIpPre

AddTable(ip) ==
  /\ AddTableFailed \/ AddTableDone(ip)
  /\ UNCHANGED <<cache, temp, pwrSave, udp>>

(* Reset compares the enabled bits instead of clearing them: the cache     *)
(* keeps them.                                                             *)
Reset == tblHdl' = 0 /\ pubIp' = NoIp /\ UNCHANGED cache

(* DeleteTable.                                                            *)
DeleteTableRefused(ip) ==
  /\ \/ tblHdl = 0
     \/ pubIp # ip
     \/ FALSE \in Outcomes(TRUE, DelMayFail)
  /\ UNCHANGED <<tableVars, hw, cache>>

DeleteTableDone(ip) ==
  /\ tblHdl # 0
  /\ pubIp = ip
  /\ hw' = NoRules
  /\ hwTable' = NoIp
  /\ pubIpPre' = pubIp
  /\ Reset

DeleteTable(ip) ==
  /\ DeleteTableRefused(ip) \/ DeleteTableDone(ip)
  /\ UNCHANGED <<temp, pwrSave, loop, udp>>

-----------------------------------------------------------------------------
(* Walks over cache[] and temp[]: one step per element.                    *)

Ip   == Head(loop).ip
At   == Head(loop).at
Doing(op) == loop # <<>> /\ Head(loop).op = op

LastOf(op) == IF op \in TempWalks THEN MaxTemp ELSE MaxEntries

Advance ==
  loop' = IF At = LastOf(Head(loop).op)
          THEN Tail(loop)
          ELSE <<[Head(loop) EXCEPT !.at = @ + 1]>> \o Tail(loop)

(* Adds the rule of the cached entry s, or drops the entry.                *)
ReAdd(s) ==
  \/ /\ TRUE \in AddRuleOutcomes
     /\ \E h \in FreeHandles :
          /\ hw' = [hw EXCEPT ![h] = cache[s].conn]
          /\ cache' = [cache EXCEPT ![s].hdl = h, ![s].enabled = TRUE]
  \/ /\ FALSE \in AddRuleOutcomes
     /\ cache' = [cache EXCEPT ![s] = NoEntry]
     /\ UNCHANGED hw

(* AddTable's walk: every entry, disabled or not.                          *)
RestoreEntry ==
  /\ Doing("restore")
  /\ IF cache[At].conn # NoConn THEN ReAdd(At) ELSE UNCHANGED <<cache, hw>>
  /\ pubIp' = IF At = MaxEntries THEN Ip ELSE pubIp
  /\ Advance
  /\ UNCHANGED <<temp, pwrSave, tblHdl, pubIpPre, hwTable, udp>>

OfPrivate(s, ip) == cache[s].conn # NoConn /\ Private[cache[s].conn] = ip
OfTarget(s, ip)  == cache[s].conn # NoConn /\ Target[cache[s].conn] = ip

(* ResetPwrSaveIf's walk.                                                  *)
ReenableEntry ==
  /\ Doing("reenable")
  /\ IF OfPrivate(At, Ip) /\ ~cache[At].enabled
     THEN ReAdd(At)
     ELSE UNCHANGED <<cache, hw>>
  /\ Advance
  /\ UNCHANGED <<temp, pwrSave, tableVars, udp>>

(* Mutant: the entry of a deleted rule stays enabled.                      *)
DisableHardwareOnly(s, hdl) ==
  \E ok \in DeleteRuleOutcomes(cache[s].hdl) :
    /\ hw' = WithoutRule(cache[s].hdl, ok)
    /\ UNCHANGED cache

(* Takes the rule of entry s out of the hardware and keeps the entry, with *)
(* its handle zeroed or not; an entry whose rule stays stays enabled.      *)
Disable(s, hdl) ==
  \E ok \in DeleteRuleOutcomes(cache[s].hdl) :
    /\ hw' = WithoutRule(cache[s].hdl, ok)
    /\ cache' = IF ok
                THEN [cache EXCEPT ![s].enabled = FALSE, ![s].hdl = hdl]
                ELSE cache

(* UpdatePwrSaveIf's walk.                                                 *)
DisableEntry ==
  /\ Doing("disable")
  /\ IF OfPrivate(At, Ip) /\ cache[At].enabled
     THEN Disable(At, 0)
     ELSE UNCHANGED <<cache, hw>>
  /\ Advance
  /\ UNCHANGED <<temp, pwrSave, tableVars, udp>>

(* DelEntriesOnClntDiscon's walk.                                          *)
DisconnectEntry ==
  /\ Doing("disconnect")
  /\ IF OfPrivate(At, Ip) /\ cache[At].enabled
     THEN Disable(At, cache[At].hdl)
     ELSE UNCHANGED <<cache, hw>>
  /\ Advance
  /\ UNCHANGED <<temp, pwrSave, tableVars, udp>>

(* DelEntriesOnSTAClntDiscon's walk.                                       *)
StaGoneEntry ==
  /\ Doing("staGone")
  /\ IF ~OfTarget(At, Ip)
     THEN UNCHANGED <<cache, hw>>
     ELSE \E ok \in IF cache[At].enabled
                    THEN DeleteRuleOutcomes(cache[At].hdl) ELSE {TRUE} :
            /\ hw' = IF cache[At].enabled THEN WithoutRule(cache[At].hdl, ok) ELSE hw
            /\ cache' = IF ok THEN [cache EXCEPT ![At] = NoEntry] ELSE cache
  /\ Advance
  /\ UNCHANGED <<temp, pwrSave, tableVars, udp>>

(* FlushTempEntries' walk: entries of ip go, unless they were to be added  *)
(* and AddEntry refused.  One seen with another public address just goes.  *)
TempOf(t, ip) ==
  temp[t].conn # NoConn /\ (Private[temp[t].conn] = ip \/ Target[temp[t].conn] = ip)

FlushedTemp == temp' = [temp EXCEPT ![At] = NoTemp]

FlushTempEntry ==
  /\ Doing("flushAdd") \/ Doing("flushDrop")
  /\ \/ ~TempOf(At, Ip) /\ UNCHANGED <<cache, hw, temp>>
     \/ /\ TempOf(At, Ip)
        /\ Doing("flushDrop") \/ temp[At].pub # pubIp
        /\ FlushedTemp
        /\ UNCHANGED <<cache, hw>>
     \/ /\ TempOf(At, Ip)
        /\ Doing("flushAdd") /\ temp[At].pub = pubIp
        /\ \E added \in BOOLEAN :
             /\ AddEntry(temp[At].conn, added)
             /\ IF added THEN FlushedTemp ELSE UNCHANGED temp
  /\ Advance
  /\ UNCHANGED <<pwrSave, tableVars, udp>>

WalkStep ==
  \/ RestoreEntry \/ ReenableEntry \/ DisableEntry
  \/ DisconnectEntry \/ StaGoneEntry \/ FlushTempEntry

-----------------------------------------------------------------------------
(* What the methods that walk do first.                                    *)

(* UpdatePwrSaveIf: a client already listed is left alone; with the list   *)
(* full the walk is still made.                                            *)
UpdatePwrSaveIf(ip) ==
  /\ IF isPwrSaveIf(ip)
     THEN UNCHANGED <<pwrSave, loop>>
     ELSE /\ pwrSave' = IF Cardinality(pwrSave) < MaxPwrSave
                        THEN pwrSave \cup {ip} ELSE pwrSave
          /\ loop' = <<WalkOf("disable", ip)>>
  /\ UNCHANGED <<cache, temp, tableVars, hw, udp>>

(* The start of ResetPwrSaveIf and of DelEntriesOnClntDiscon.  `next' is   *)
(* what the caller walks afterwards.                                       *)
OutOfPwrSave(ip) == pwrSave' = pwrSave \ {ip}

ResetPwrSaveIf(ip, next) ==
  /\ OutOfPwrSave(ip)
  /\ loop' = <<WalkOf("reenable", ip)>> \o next
  /\ UNCHANGED <<cache, temp, tableVars, hw, udp>>

-----------------------------------------------------------------------------
(* UpdateUDPTimeStamp and UpdateCTUdpTs, on a thread of their own.  `live' *)
(* is the kernel's set of connections: the update of one it does not know  *)
(* fails.  The thread keeps a pointer to the slot, and reads it each time. *)

UdpQuery(s) ==
  /\ UdpThread
  /\ udp.at = "idle"
  /\ cache[s].enabled
  /\ tblHdl # 0
  /\ udp' = [at |-> "changed", slot |-> s]
  /\ UNCHANGED <<cache, temp, pwrSave, tableVars, hw, loop>>

UdpUpdateCT(live) ==
  /\ udp.at = "changed"
  /\ udp' = [udp EXCEPT !.at = IF cache[udp.slot].conn \in live THEN "idle" ELSE "failed"]
  /\ UNCHANGED <<cache, temp, pwrSave, tableVars, hw, loop>>

UdpDeleteEntry ==
  /\ udp.at = "failed"
  /\ DeleteEntry(cache[udp.slot].conn)
  /\ udp' = [udp EXCEPT !.at = "idle"]
  /\ UNCHANGED <<temp, pwrSave, tableVars, loop>>

-----------------------------------------------------------------------------
(* A connection has at most one entry: ChkForDup before every insertion is *)
(* what keeps AddTable and ResetPwrSaveIf from adding its rule twice.      *)
NoDuplicates ==
  \A r, s \in Slots : cache[r].conn = cache[s].conn /\ r # s => cache[r].conn = NoConn

(* While a table is in use, the handle of an enabled entry names the rule  *)
(* of that entry: no other connection loses its rule when it is deleted.   *)
EnabledEntryHasRule ==
  tblHdl # 0 /\ loop = <<>> =>
    \A s \in Slots : cache[s].enabled =>
      cache[s].hdl \in Handles /\ hw[cache[s].hdl] = cache[s].conn

(* While a table is in use, every rule in the hardware is the rule of an   *)
(* enabled entry, so that the end of the connection will remove it.        *)
RuleHasEnabledEntry ==
  tblHdl # 0 /\ loop = <<>> =>
    \A h \in Handles : hw[h] # NoConn =>
      \E s \in Slots : cache[s] = [conn |-> hw[h], enabled |-> TRUE, hdl |-> h]

(* NatApp is a user the driver's promise holds for: it adds a connection    *)
(* that has no rule, deletes a rule that is there, and makes a table when  *)
(* there is none.  NatTable is what IpaNat implements.                     *)
NatTableOf == INSTANCE NatTable WITH table <- hw

UsesNatTable == NatTableOf!Spec
=============================================================================
