------------------------------ MODULE NatProofs ------------------------------
(***************************************************************************)
(* The NAT connection cache behind its listener, for every set of          *)
(* connections and any sizes of the arrays: types, the arrays that are     *)
(* searched and counted by hand, and the agreement of the cache with the   *)
(* hardware table.  That a rule has its entry needs a hardware that does   *)
(* not refuse to delete; that an enabled entry has its rule needs one WAN  *)
(* address and one thread; that every open connection of a known client    *)
(* has its rule needs room in every array as well, and a WAN that stays.   *)
(***************************************************************************)
EXTENDS ConntrackListener, FiniteSetTheorems, WellFoundedInduction, TLAPS

\* A walk is somewhere in its array, about an address of the right kind; the
\* cache is walked back into a new table before anything else.
WalksInRange ==
    \A i \in 1 .. Len(loop) :
        /\ loop[i].at \in 1 .. LastOf(loop[i].op)
        /\ loop[i].op = "restore" => i = 1 /\ loop[i].ip \in PubIps

\* An empty slot is zeroed.
EmptyIsZeroed == \A s \in Slots : cache[s].conn = NoConn => cache[s] = NoEntry

ArraysInv == TypeOK /\ WalksInRange /\ EmptyIsZeroed /\ NoDuplicates /\ StaCntIsExact

\* The slots whose entries are up to date with the table in use: while AddTable
\* walks the cache, those it has passed; without a table, none.
Settled == {s \in Slots : tblHdl # 0 /\ (Doing("restore") => s < At)}

\* Each rule in the hardware is that of an enabled entry in a slot of S.
RulesHaveEntries(S) ==
    \A h \in Handles : hw[h] # NoConn =>
        \E s \in S : cache[s] = [conn |-> hw[h], enabled |-> TRUE, hdl |-> h]

RulesInv == tblHdl # 0 => RulesHaveEntries(Settled)

\* Each enabled entry in a slot of S has its rule in the hardware.
EntriesHaveRules(S) ==
    \A s \in S : cache[s].enabled =>
        cache[s].hdl \in Handles /\ hw[cache[s].hdl] = cache[s].conn

\* The table in use has an address, once the cache has been walked back into it.
TableFits ==
    /\ Doing("restore") => tblHdl # 0
    /\ tblHdl # 0 /\ ~Doing("restore") => pubIp \in PubIps

\* Entries that a deleted table has left enabled will be walked back into the next.
LeftIsRestored ==
    hwTable = NoIp =>
        tblHdl = 0 /\ (pubIpPre \in PubIps \/ \A s \in Slots : ~cache[s].enabled)

EntriesInv == EntriesHaveRules(Settled) /\ TableFits /\ LeftIsRestored /\ udp.at = "idle"

-----------------------------------------------------------------------------
(* Walks and arrays.                                                       *)

\* The search of an array finds the first slot there is.
LEMMA FirstFound ==
    ASSUME NEW N \in Nat, NEW S, S \subseteq 1 .. N, S # {}
    PROVE  \E s \in S : IsFirst(s, S)
  <1>1. S \subseteq Nat
    OBVIOUS
  <1>2. PICK s \in S : \A r \in S : ~(<<r, s>> \in OpToRel(<, Nat))
    BY <1>1, NatLessThanWellFounded, WFMin, Zenon
  <1>3. \A r \in S : ~(r < s)
    BY <1>1, <1>2 DEF OpToRel
  <1>4. \A r \in S : s <= r
    BY <1>1, <1>3
  <1> QED
    BY <1>4 DEF IsFirst

\* Where a walk that has begun can be.
LEMMA WalkTypes ==
    ASSUME TypeOK, WalksInRange, loop # <<>>
    PROVE  /\ Head(loop) \in Walk /\ loop \in Seq(Walk)
           /\ At \in 1 .. LastOf(Head(loop).op) /\ Ip \in Ips \cup PubIps
           /\ Head(loop).op \notin TempWalks => At \in Slots
           /\ Head(loop).op \in TempWalks => At \in TempSlots
           /\ Head(loop).op = "restore" => Ip \in PubIps
  <1>1. loop \in Seq(Walk)
    BY DEF TypeOK, NatTypeOK
  <1>2. Head(loop) \in Walk /\ Head(loop) = loop[1] /\ 1 \in 1 .. Len(loop)
    BY <1>1
  <1>3. /\ At \in 1 .. LastOf(Head(loop).op) /\ Ip \in Ips \cup PubIps
        /\ Head(loop).op = "restore" => Ip \in PubIps
    BY <1>2 DEF WalksInRange, At, Ip, Walk
  <1> QED
    BY <1>1, <1>2, <1>3 DEF LastOf, Slots, TempSlots

\* A walk is at its first element when it begins.
LEMMA WalkBegins ==
    ASSUME NEW op \in CacheWalks \cup TempWalks, NEW ip \in Ips \cup PubIps
    PROVE  /\ WalkOf(op, ip) \in Walk /\ WalkOf(op, ip).op = op /\ WalkOf(op, ip).ip = ip
           /\ WalkOf(op, ip).at = 1 /\ WalkOf(op, ip).at \in 1 .. LastOf(op)
  <1>1. LastOf(op) \in Nat \ {0}
    BY SizesAssumption DEF LastOf
  <1>2. 1 \in 1 .. LastOf(op)
    BY <1>1
  <1> QED
    BY <1>2 DEF WalkOf, Walk

\* One walk is begun, or two.
LEMMA OneWalk ==
    ASSUME NEW w \in Walk, loop' = <<w>>, w.at \in 1 .. LastOf(w.op),
           w.op = "restore" => w.ip \in PubIps
    PROVE  loop' \in Seq(Walk) /\ WalksInRange'
  <1>1. loop' \in Seq(Walk) /\ Len(loop') = 1 /\ loop'[1] = w
    OBVIOUS
  <1> QED
    BY <1>1 DEF WalksInRange, LastOf

LEMMA TwoWalks ==
    ASSUME NEW v \in Walk, NEW w \in Walk, loop' = <<v, w>>,
           v.at \in 1 .. LastOf(v.op), w.at \in 1 .. LastOf(w.op),
           v.op # "restore" /\ w.op # "restore"
    PROVE  loop' \in Seq(Walk) /\ WalksInRange'
  <1>1. loop' \in Seq(Walk) /\ Len(loop') = 2 /\ loop'[1] = v /\ loop'[2] = w
    OBVIOUS
  <1> QED
    BY <1>1 DEF WalksInRange, LastOf

\* A walk goes on to the next element, or the next walk begins.
LEMMA WalkGoesOn ==
    ASSUME TypeOK, WalksInRange, loop # <<>>, Advance
    PROVE  loop' \in Seq(Walk) /\ WalksInRange'
  <1> DEFINE w == Head(loop)
  <1>1. /\ w \in Walk /\ loop \in Seq(Walk) /\ At = w.at
        /\ w.at \in 1 .. LastOf(w.op) /\ (w.op = "restore" => w.ip \in PubIps)
    BY WalkTypes DEF At, Ip
  <1>2. CASE At = LastOf(w.op)
    <2>1. loop' = Tail(loop)
      BY <1>2 DEF Advance
    <2>2. /\ loop' \in Seq(Walk) /\ Len(loop') = Len(loop) - 1
          /\ \A i \in 1 .. Len(loop') : loop'[i] = loop[i + 1] /\ i + 1 \in 1 .. Len(loop) /\ i + 1 # 1
      BY <1>1, <2>1
    <2> QED
      BY <2>2 DEF WalksInRange, LastOf
  <1>3. CASE At # LastOf(w.op)
    <2> DEFINE v == [w EXCEPT !.at = @ + 1]
    <2>1. LastOf(w.op) \in Nat
      BY SizesAssumption DEF LastOf
    <2>2. /\ v \in Walk /\ v.op = w.op /\ v.ip = w.ip /\ v.at = w.at + 1
          /\ v.at \in 1 .. LastOf(v.op)
      BY <1>1, <1>3, <2>1 DEF Walk
    <2>3. loop' = <<v>> \o Tail(loop)
      BY <1>3 DEF Advance
    <2> HIDE DEF w, v
    <2>4. /\ loop' \in Seq(Walk) /\ Len(loop') = Len(loop) /\ loop'[1] = v
          /\ \A i \in 1 .. Len(loop') : i # 1 => loop'[i] = loop[i]
      BY <1>1, <2>2, <2>3
    <2>5. \A i \in 1 .. Len(loop') : i # 1 =>
              loop'[i].at \in 1 .. LastOf(loop'[i].op) /\ loop'[i].op # "restore"
      BY <2>4 DEF WalksInRange
    <2> QED
      BY <1>1, <2>2, <2>4, <2>5 DEF WalksInRange, LastOf
  <1> QED
    BY <1>2, <1>3

-----------------------------------------------------------------------------
(* What the operations do to the cache and the hardware.                   *)

\* Slot s gets entry e: nobody's, that of the same connection, or a new one's.
Rewritten(s, e) ==
    /\ cache' = [cache EXCEPT ![s] = e]
    /\ e.conn = NoConn => e = NoEntry
    /\ e.conn = NoConn \/ e.conn = cache[s].conn \/ ~ChkForDup(e.conn)

\* The walk of AddTable is at slot s.
BeingRestored(s) == Doing("restore") /\ s = At

\* The entry of slot s is not enabled any more, or was not; its rule is deleted,
\* unless it has none, the deletion failed, or it was left by another table.
SwitchedOff(s) ==
    /\ \E e \in Entry : Rewritten(s, e) /\ ~e.enabled
    /\ \/ hw' = hw /\ (cache[s].enabled =>
              BeingRestored(s) \/ FALSE \in DeleteRuleOutcomes(cache[s].hdl))
       \/ /\ cache[s].enabled /\ TRUE \in DeleteRuleOutcomes(cache[s].hdl)
          /\ hw' = [hw EXCEPT ![cache[s].hdl] = NoConn]

\* The entry of slot s gets its rule.
SwitchedOn(s) ==
    \E c \in Conns, h \in FreeHandles :
        /\ Rewritten(s, [conn |-> c, enabled |-> TRUE, hdl |-> h])
        /\ tblHdl # 0 /\ hw' = [hw EXCEPT ![h] = c]
        /\ cache[s].enabled => BeingRestored(s)

CacheEffect ==
    \/ UNCHANGED <<cache, hw>>
    \/ \E s \in Slots : SwitchedOff(s) \/ SwitchedOn(s)

\* What a call of the driver can return says what it found.
LEMMA CallOutcomes ==
    /\ TRUE \in AddRuleOutcomes => tblHdl # 0
    /\ \A h : TRUE \in DeleteRuleOutcomes(h) => tblHdl # 0 /\ h # 0 /\ hw[h] # NoConn
    /\ \A h : DelMayFail = FALSE /\ tblHdl # 0 /\ h # 0 /\ hw[h] # NoConn
           => FALSE \notin DeleteRuleOutcomes(h)
  BY DEF AddRuleOutcomes, DeleteRuleOutcomes, Outcomes

\* What the slots hold.
LEMMA SlotTypes ==
    ASSUME TypeOK, NEW s \in Slots
    PROVE  /\ cache[s] \in Entry /\ cache[s].conn \in Conns \cup {NoConn}
           /\ cache[s].enabled \in BOOLEAN /\ cache[s].hdl \in 0 .. HwSize
  BY DEF TypeOK, NatTypeOK, Entry

\* The entries that operations write.
LEMMA EntryTypes ==
    /\ NoEntry \in Entry /\ NoEntry.conn = NoConn /\ NoEntry.enabled = FALSE
    /\ \A c \in Conns :
           /\ [NoEntry EXCEPT !.conn = c] \in Entry
           /\ [NoEntry EXCEPT !.conn = c].conn = c
           /\ [NoEntry EXCEPT !.conn = c].enabled = FALSE
    /\ \A c \in Conns, h \in Handles : [conn |-> c, enabled |-> TRUE, hdl |-> h] \in Entry
  <1>1. 0 \in 0 .. HwSize /\ \A h \in Handles : h \in 0 .. HwSize
    BY SizesAssumption DEF Handles
  <1> QED
    BY <1>1 DEF NoEntry, Entry

\* An entry of which two fields are written.
LEMMA EntryWritten ==
    ASSUME TypeOK, NEW s \in Slots, NEW b \in BOOLEAN, NEW h \in 0 .. HwSize
    PROVE  LET e == [conn |-> cache[s].conn, enabled |-> b, hdl |-> h] IN
           /\ [cache EXCEPT ![s].hdl = h, ![s].enabled = b] = [cache EXCEPT ![s] = e]
           /\ [cache EXCEPT ![s].enabled = b, ![s].hdl = h] = [cache EXCEPT ![s] = e]
           /\ e \in Entry
  <1> DEFINE e == [conn |-> cache[s].conn, enabled |-> b, hdl |-> h]
  <1>1. cache \in [Slots -> Entry] /\ cache[s] \in Entry
    BY DEF TypeOK, NatTypeOK
  <1>2. /\ [[cache[s] EXCEPT !.hdl = h] EXCEPT !.enabled = b] = e
        /\ [[cache[s] EXCEPT !.enabled = b] EXCEPT !.hdl = h] = e
        /\ e \in Entry
    <2>1. PICK c \in Conns \cup {NoConn}, d \in BOOLEAN, k \in 0 .. HwSize :
              cache[s] = [conn |-> c, enabled |-> d, hdl |-> k]
      BY <1>1 DEF Entry
    <2>2. cache[s].conn = c /\ e = [conn |-> c, enabled |-> b, hdl |-> h] /\ e \in Entry
      BY <2>1 DEF Entry
    <2>3. /\ [[cache[s] EXCEPT !.hdl = h] EXCEPT !.enabled = b] = [conn |-> c, enabled |-> b, hdl |-> h]
          /\ [[cache[s] EXCEPT !.enabled = b] EXCEPT !.hdl = h] = [conn |-> c, enabled |-> b, hdl |-> h]
      <3> DEFINE r == [conn |-> c, enabled |-> d, hdl |-> k]
      <3>1. /\ [r EXCEPT !.hdl = h] = [conn |-> c, enabled |-> d, hdl |-> h]
            /\ [r EXCEPT !.enabled = b] = [conn |-> c, enabled |-> b, hdl |-> k]
        OBVIOUS
      <3>2. [[conn |-> c, enabled |-> d, hdl |-> h] EXCEPT !.enabled = b]
              = [conn |-> c, enabled |-> b, hdl |-> h]
        OBVIOUS
      <3>3. [[conn |-> c, enabled |-> b, hdl |-> k] EXCEPT !.hdl = h]
              = [conn |-> c, enabled |-> b, hdl |-> h]
        OBVIOUS
      <3> QED
        BY <2>1, <3>1, <3>2, <3>3
    <2> QED
      BY <2>2, <2>3
  <1> HIDE DEF e, Entry
  <1>3. /\ [cache EXCEPT ![s].hdl = h, ![s].enabled = b]
              = [cache EXCEPT ![s] = [[cache[s] EXCEPT !.hdl = h] EXCEPT !.enabled = b]]
        /\ [cache EXCEPT ![s].enabled = b, ![s].hdl = h]
              = [cache EXCEPT ![s] = [[cache[s] EXCEPT !.enabled = b] EXCEPT !.hdl = h]]
    BY <1>1
  <1> QED
    BY <1>2, <1>3 DEF e

\* AddEntry: a new connection joins the cache, with or without a rule.
LEMMA AddEntryEffect ==
    ASSUME TypeOK, EmptyIsZeroed, NEW c \in Conns, NEW added, AddEntry(c, added)
    PROVE  CacheEffect
  <1>1. CASE AddEntryRefused(c, added) \/ AddEntryFailed(c, added)
    BY <1>1 DEF AddEntryRefused, AddEntryFailed, CacheEffect
  <1>2. ASSUME NEW s \in EmptySlots
        PROVE  s \in Slots /\ cache[s].conn = NoConn /\ ~cache[s].enabled
    BY <1>2, EntryTypes DEF EmptySlots, Holding, EmptyIsZeroed
  <1>3. CASE AddEntryCached(c, added)
    <2>1. PICK s \in EmptySlots : cache' = [cache EXCEPT ![s] = [NoEntry EXCEPT !.conn = c]]
      BY <1>3 DEF AddEntryCached, IsFirst
    <2>2. ~ChkForDup(c) /\ hw' = hw /\ c # NoConn
      BY <1>3, ConnsAssumption DEF AddEntryCached, AddEntryAccepted
    <2>3. Rewritten(s, [NoEntry EXCEPT !.conn = c])
      BY <2>1, <2>2, EntryTypes DEF Rewritten
    <2>4. SwitchedOff(s)
      BY <1>2, <2>2, <2>3, EntryTypes DEF SwitchedOff
    <2> QED
      BY <1>2, <2>4 DEF CacheEffect
  <1>4. CASE AddEntryOffloaded(c, added)
    <2>1. PICK s \in EmptySlots, h \in FreeHandles :
              /\ cache' = [cache EXCEPT ![s] = [conn |-> c, enabled |-> TRUE, hdl |-> h]]
              /\ hw' = [hw EXCEPT ![h] = c]
      BY <1>4 DEF AddEntryOffloaded, IsFirst
    <2>2. ~ChkForDup(c) /\ tblHdl # 0 /\ c # NoConn
      BY <1>4, ConnsAssumption DEF AddEntryOffloaded, AddEntryAccepted
    <2>3. Rewritten(s, [conn |-> c, enabled |-> TRUE, hdl |-> h])
      BY <2>1, <2>2 DEF Rewritten
    <2>4. SwitchedOn(s)
      BY <1>2, <2>1, <2>2, <2>3 DEF SwitchedOn
    <2> QED
      BY <1>2, <2>4 DEF CacheEffect
  <1> QED
    BY <1>1, <1>3, <1>4 DEF AddEntry

\* CacheEntry: a new connection joins the cache without a rule.
LEMMA CacheEntryEffect ==
    ASSUME TypeOK, EmptyIsZeroed, NEW c \in Conns, NEW stray, CacheEntry(c, stray), hw' = hw
    PROVE  CacheEffect
  <1> SUFFICES ASSUME cache' # cache PROVE CacheEffect
    BY DEF CacheEffect
  <1>1. PICK s \in EmptySlots : cache' = [cache EXCEPT ![s] = [NoEntry EXCEPT !.conn = c]]
    BY DEF CacheEntry, CacheEntryFrom
  <1>2. ~ChkForDup(c) /\ c # NoConn
    BY ConnsAssumption DEF CacheEntry, CacheEntryFrom
  <1>3. s \in Slots /\ ~cache[s].enabled
    BY EntryTypes DEF EmptySlots, Holding, EmptyIsZeroed
  <1>4. Rewritten(s, [NoEntry EXCEPT !.conn = c])
    BY <1>1, <1>2, EntryTypes DEF Rewritten
  <1>5. SwitchedOff(s)
    BY <1>3, <1>4, EntryTypes DEF SwitchedOff
  <1> QED
    BY <1>3, <1>5 DEF CacheEffect

\* DeleteEntry: the entry goes, and its rule if that can be deleted.
LEMMA DeleteEntryEffect ==
    ASSUME TypeOK, NEW c, DeleteEntry(c)
    PROVE  UNCHANGED <<cache, hw>> \/ \E s \in Slots : SwitchedOff(s)
  <1>1. CASE UNCHANGED <<cache, hw>>
    BY <1>1
  <1>2. CASE ~UNCHANGED <<cache, hw>>
    <2>1. PICK s \in Slots :
              /\ cache' = [cache EXCEPT ![s] = NoEntry]
              /\ IF cache[s].enabled
                 THEN \E ok \in DeleteRuleOutcomes(cache[s].hdl) :
                          hw' = WithoutRule(cache[s].hdl, ok)
                 ELSE hw' = hw
      BY <1>2 DEF DeleteEntry
    <2>2. Rewritten(s, NoEntry)
      BY <2>1, EntryTypes DEF Rewritten
    <2>3. DeleteRuleOutcomes(cache[s].hdl) \subseteq BOOLEAN
      BY DEF DeleteRuleOutcomes, Outcomes
    <2>4. \/ hw' = hw /\ (cache[s].enabled => FALSE \in DeleteRuleOutcomes(cache[s].hdl))
          \/ /\ cache[s].enabled /\ TRUE \in DeleteRuleOutcomes(cache[s].hdl)
             /\ hw' = [hw EXCEPT ![cache[s].hdl] = NoConn]
      BY <2>1, <2>3 DEF WithoutRule
    <2>5. SwitchedOff(s)
      BY <2>2, <2>4, EntryTypes DEF SwitchedOff
    <2> QED
      BY <2>5
  <1> QED
    BY <1>1, <1>2

\* ReAdd: the entry gets its rule, or is dropped.
LEMMA ReAddEffect ==
    ASSUME TypeOK, NEW s \in Slots, cache[s].conn # NoConn, ReAdd(s),
           cache[s].enabled => BeingRestored(s)
    PROVE  (SwitchedOff(s) /\ hw' = hw) \/ SwitchedOn(s)
  <1> DEFINE c == cache[s].conn
  <1>1. c \in Conns /\ cache[s] \in Entry
    BY SlotTypes
  <1>2. CASE /\ TRUE \in AddRuleOutcomes
             /\ \E h \in FreeHandles :
                  /\ hw' = [hw EXCEPT ![h] = cache[s].conn]
                  /\ cache' = [cache EXCEPT ![s].hdl = h, ![s].enabled = TRUE]
    <2>1. PICK h \in FreeHandles :
              /\ hw' = [hw EXCEPT ![h] = c]
              /\ cache' = [cache EXCEPT ![s].hdl = h, ![s].enabled = TRUE]
      BY <1>2
    <2>2. cache' = [cache EXCEPT ![s] = [conn |-> c, enabled |-> TRUE, hdl |-> h]]
      <3>1. h \in 0 .. HwSize
        BY SizesAssumption DEF FreeHandles, Handles
      <3> QED
        BY <2>1, <3>1, EntryWritten
    <2>3. Rewritten(s, [conn |-> c, enabled |-> TRUE, hdl |-> h])
      BY <2>2 DEF Rewritten
    <2>4. SwitchedOn(s)
      BY <1>1, <1>2, <2>1, <2>3, CallOutcomes DEF SwitchedOn
    <2> QED
      BY <2>4
  <1>3. CASE cache' = [cache EXCEPT ![s] = NoEntry] /\ hw' = hw
    <2>1. Rewritten(s, NoEntry)
      BY <1>3, EntryTypes DEF Rewritten
    <2>2. SwitchedOff(s)
      BY <1>3, <2>1, EntryTypes DEF SwitchedOff
    <2> QED
      BY <1>3, <2>2
  <1> QED
    BY <1>2, <1>3 DEF ReAdd

\* Disable: the rule is deleted and the entry kept, or both stay.
LEMMA DisableEffect ==
    ASSUME TypeOK, NEW s \in Slots, cache[s].enabled, cache[s].conn # NoConn,
           NEW hdl \in 0 .. HwSize, Disable(s, hdl)
    PROVE  CacheEffect
  <1> PICK ok \in DeleteRuleOutcomes(cache[s].hdl) :
          /\ hw' = WithoutRule(cache[s].hdl, ok)
          /\ cache' = IF ok THEN [cache EXCEPT ![s].enabled = FALSE, ![s].hdl = hdl] ELSE cache
    BY DEF Disable
  <1>1. ok \in BOOLEAN
    BY DEF DeleteRuleOutcomes, Outcomes
  <1>2. CASE ok = FALSE
    BY <1>2 DEF WithoutRule, CacheEffect
  <1>3. CASE ok = TRUE
    <2> DEFINE e == [conn |-> cache[s].conn, enabled |-> FALSE, hdl |-> hdl]
    <2>1. cache' = [cache EXCEPT ![s] = e] /\ e \in Entry
      BY <1>3, EntryWritten
    <2>2. Rewritten(s, e) /\ ~e.enabled
      BY <2>1 DEF Rewritten
    <2>3. SwitchedOff(s)
      BY <1>3, <2>1, <2>2 DEF SwitchedOff, WithoutRule
    <2> QED
      BY <2>3 DEF CacheEffect
  <1> QED
    BY <1>1, <1>2, <1>3
\* The walks of the cache go from slot to slot.
LEMMA WalkEffect ==
    ASSUME TypeOK, WalksInRange, EmptyIsZeroed, WalkStep
    PROVE  CacheEffect
  <1>1. loop # <<>> /\ Head(loop).op \in CacheWalks \cup TempWalks
    BY DEF WalkStep, RestoreEntry, ReenableEntry, DisableEntry, DisconnectEntry,
           StaGoneEntry, FlushTempEntry, Doing, CacheWalks, TempWalks
  <1>2. CASE FlushTempEntry
    <2>1. At \in TempSlots
      BY <1>1, <1>2, WalkTypes DEF FlushTempEntry, Doing, TempWalks
    <2>2. UNCHANGED <<cache, hw>> \/
          \E added \in BOOLEAN : temp[At].conn # NoConn /\ AddEntry(temp[At].conn, added)
      BY <1>2 DEF FlushTempEntry, TempOf
    <2>3. temp[At].conn # NoConn => temp[At].conn \in Conns
      BY <2>1 DEF TypeOK, NatTypeOK, TempEntry
    <2> QED
      BY <2>2, <2>3, AddEntryEffect DEF CacheEffect
  <1>3. ASSUME ~FlushTempEntry
        PROVE  At \in Slots
    BY <1>1, <1>3, WalkTypes DEF WalkStep, RestoreEntry, ReenableEntry, DisableEntry,
       DisconnectEntry, StaGoneEntry, Doing, TempWalks
  <1> SUFFICES ASSUME ~FlushTempEntry, ~UNCHANGED <<cache, hw>>
               PROVE  CacheEffect
    BY <1>2 DEF CacheEffect
  <1> PICK s \in Slots : s = At
    BY <1>3
  <1>4. cache[s].enabled => cache[s].conn # NoConn
    BY EntryTypes DEF EmptyIsZeroed
  <1>5. cache[s].hdl \in 0 .. HwSize /\ 0 \in 0 .. HwSize
    BY SlotTypes, SizesAssumption
  <1>6. CASE RestoreEntry
    BY <1>6, ReAddEffect DEF RestoreEntry, BeingRestored, CacheEffect
  <1>7. CASE ReenableEntry
    BY <1>7, ReAddEffect DEF ReenableEntry, OfPrivate, CacheEffect
  <1>8. CASE DisableEntry
    BY <1>4, <1>5, <1>8, DisableEffect DEF DisableEntry
  <1>9. CASE DisconnectEntry
    BY <1>4, <1>5, <1>9, DisableEffect DEF DisconnectEntry
  <1>10. CASE StaGoneEntry
    <2>1. PICK ok \in IF cache[s].enabled THEN DeleteRuleOutcomes(cache[s].hdl) ELSE {TRUE} :
              /\ hw' = IF cache[s].enabled THEN WithoutRule(cache[s].hdl, ok) ELSE hw
              /\ cache' = IF ok THEN [cache EXCEPT ![s] = NoEntry] ELSE cache
      BY <1>10 DEF StaGoneEntry
    <2>2. ok \in BOOLEAN
      BY <2>1 DEF DeleteRuleOutcomes, Outcomes
    <2>3. ok = TRUE
      BY <2>1, <2>2 DEF WithoutRule
    <2>4. Rewritten(s, NoEntry)
      BY <2>1, <2>3, EntryTypes DEF Rewritten
    <2>5. SwitchedOff(s)
      BY <2>1, <2>3, <2>4, EntryTypes DEF SwitchedOff, WithoutRule
    <2> QED
      BY <2>5 DEF CacheEffect
  <1> QED
    BY <1>6, <1>7, <1>8, <1>9, <1>10 DEF WalkStep

-----------------------------------------------------------------------------
(* The arrays stay in order.                                               *)

\* One slot is written.
LEMMA RewrittenInOrder ==
    ASSUME TypeOK, EmptyIsZeroed, NoDuplicates, NEW s \in Slots, NEW e \in Entry,
           Rewritten(s, e)
    PROVE  cache' \in [Slots -> Entry] /\ EmptyIsZeroed' /\ NoDuplicates'
  <1>1. cache \in [Slots -> Entry]
    BY DEF TypeOK, NatTypeOK
  <1>2. \A r \in Slots : cache'[r] = IF r = s THEN e ELSE cache[r]
    BY <1>1 DEF Rewritten
  <1>3. cache' \in [Slots -> Entry]
    BY <1>1 DEF Rewritten
  <1>4. EmptyIsZeroed'
    BY <1>2 DEF EmptyIsZeroed, Rewritten
  <1>5. \A r \in Slots \ {s} : cache[r].conn = e.conn => e.conn = NoConn
    BY DEF Rewritten, ChkForDup, Holding, NoDuplicates
  <1>6. NoDuplicates'
    BY <1>2, <1>5 DEF NoDuplicates
  <1> QED
    BY <1>3, <1>4, <1>6

\* The operations keep the cache in order.
LEMMA CacheInOrder ==
    ASSUME TypeOK, EmptyIsZeroed, NoDuplicates, CacheEffect
    PROVE  /\ cache' \in [Slots -> Entry] /\ EmptyIsZeroed' /\ NoDuplicates'
           /\ hw' \in [Handles -> Conns \cup {NoConn}]
  <1>1. cache \in [Slots -> Entry] /\ hw \in [Handles -> Conns \cup {NoConn}]
    BY DEF TypeOK, NatTypeOK
  <1>2. CASE UNCHANGED <<cache, hw>>
    BY <1>1, <1>2 DEF EmptyIsZeroed, NoDuplicates
  <1>3. ASSUME NEW s \in Slots, SwitchedOff(s)
        PROVE  /\ cache' \in [Slots -> Entry] /\ EmptyIsZeroed' /\ NoDuplicates'
               /\ hw' \in [Handles -> Conns \cup {NoConn}]
    <2>1. hw' \in [Handles -> Conns \cup {NoConn}]
      BY <1>1, <1>3 DEF SwitchedOff
    <2> QED
      BY <1>3, <2>1, RewrittenInOrder DEF SwitchedOff
  <1>4. ASSUME NEW s \in Slots, SwitchedOn(s)
        PROVE  /\ cache' \in [Slots -> Entry] /\ EmptyIsZeroed' /\ NoDuplicates'
               /\ hw' \in [Handles -> Conns \cup {NoConn}]
    <2>1. PICK c \in Conns, h \in FreeHandles :
              /\ Rewritten(s, [conn |-> c, enabled |-> TRUE, hdl |-> h])
              /\ hw' = [hw EXCEPT ![h] = c]
      BY <1>4 DEF SwitchedOn
    <2>2. [conn |-> c, enabled |-> TRUE, hdl |-> h] \in Entry
      BY EntryTypes DEF FreeHandles
    <2> QED
      BY <1>1, <2>1, <2>2, RewrittenInOrder
  <1> QED
    BY <1>2, <1>3, <1>4 DEF CacheEffect
\* The invariant in parts, each of the variables that change together.
CacheOK ==
    /\ cache \in [Slots -> Entry] /\ hw \in [Handles -> Conns \cup {NoConn}]
    /\ EmptyIsZeroed /\ NoDuplicates
TempOK  == temp \in [TempSlots -> TempEntry]
TableOK ==
    /\ tblHdl \in {0, 1} /\ pubIp \in PubIps \cup {NoIp}
    /\ pubIpPre \in PubIps \cup {NoIp} /\ hwTable \in PubIps \cup {NoIp}
WalksOK == loop \in Seq(Walk) /\ WalksInRange
UdpOK   == udp \in [at : {"idle", "changed", "failed"}, slot : Slots]
WanOK   == wanUp \in BOOLEAN /\ wanIp \in PubIps \cup {NoIp} /\ staMode \in BOOLEAN
ListsOK ==
    /\ natIf \in [IfSlots -> Ips \cup {NoIp}] /\ sta \in [StaSlots -> Ips \cup {NoIp}]
    /\ staCnt \in 0 .. MaxStaClnts /\ StaCntIsExact
KernelOK == live \subseteq Conns /\ ctq \in Seq(Message) /\ outside \in BOOLEAN

Parts ==
    /\ CacheOK /\ TempOK /\ TableOK /\ WalksOK /\ UdpOK /\ pwrSave \subseteq Ips
    /\ WanOK /\ ListsOK /\ KernelOK

LEMMA ArraysInParts == (ArraysInv <=> Parts) /\ (ArraysInv' <=> Parts')
  BY DEF ArraysInv, TypeOK, NatTypeOK, CacheOK, TempOK, TableOK, WalksOK, UdpOK,
         WanOK, ListsOK, KernelOK, Parts

\* Variables that do not change keep their part of the invariant.
LEMMA PartsStay ==
    /\ CacheOK /\ UNCHANGED <<cache, hw>> => CacheOK'
    /\ TempOK /\ UNCHANGED temp => TempOK'
    /\ TableOK /\ UNCHANGED tableVars => TableOK'
    /\ WalksOK /\ UNCHANGED loop => WalksOK'
    /\ UdpOK /\ UNCHANGED udp => UdpOK'
    /\ WanOK /\ UNCHANGED <<wanUp, wanIp, staMode>> => WanOK'
    /\ ListsOK /\ UNCHANGED <<natIf, sta, staCnt>> => ListsOK'
    /\ KernelOK /\ UNCHANGED outerVars => KernelOK'
  BY DEF CacheOK, EmptyIsZeroed, NoDuplicates, TempOK, TableOK, tableVars, WalksOK,
         WalksInRange, UdpOK, WanOK, ListsOK, StaCntIsExact, KernelOK, outerVars

\* The kernel's messages.
LEMMA KernelArrays == ASSUME ArraysInv, Kernel PROVE ArraysInv'
  <1> PICK c \in Conns : KernelOpen(c) \/ KernelUpdate(c) \/ KernelClose(c)
    BY DEF Kernel
  <1>1. [type |-> "new", conn |-> c] \in Message /\ [type |-> "destroy", conn |-> c] \in Message
    BY DEF Message
  <1>2. KernelOK
    BY ArraysInParts DEF Parts
  <1>3. live' \subseteq Conns /\ \E m \in Message : ctq' = Append(ctq, m)
    BY <1>1, <1>2 DEF KernelOpen, KernelUpdate, KernelClose, KernelOK
  <1>6. outside' = outside
    BY DEF KernelOpen, KernelUpdate, KernelClose
  <1>4. KernelOK'
    BY <1>2, <1>3, <1>6 DEF KernelOK
  <1>5. UNCHANGED <<natVars, listenerVars>>
    BY DEF KernelOpen, KernelUpdate, KernelClose
  <1> QED
    BY <1>4, <1>5, ArraysInParts, PartsStay DEF Parts, natVars, listenerVars, tableVars

\* The message taken is one of the queue's.
LEMMA HandledMessage ==
    ASSUME KernelOK, ctq # <<>>
    PROVE  /\ Tail(ctq) \in Seq(Message) /\ Head(ctq).conn \in Conns
           /\ Head(ctq).type \in {"new", "destroy"}
  <1>1. Head(ctq) \in Message /\ Tail(ctq) \in Seq(Message)
    BY DEF KernelOK
  <1> QED
    BY <1>1 DEF Message

\* Slots of the temporary entries.
LEMMA TempTypes ==
    ASSUME TempOK, NEW c \in Conns, NEW pub \in PubIps \cup {NoIp},
           temp' = temp \/ AddTempEntry(c, pub) \/ DeleteTempEntry(c)
    PROVE  TempOK'
  <1>1. NoTemp \in TempEntry /\ [conn |-> c, pub |-> pub] \in TempEntry
    BY DEF NoTemp, TempEntry
  <1>2. CASE DeleteTempEntry(c)
    BY <1>1, <1>2 DEF TempOK, DeleteTempEntry
  <1>3. CASE AddTempEntry(c, pub) \/ temp' = temp
    BY <1>1, <1>3 DEF TempOK, AddTempEntry
  <1> QED
    BY <1>2, <1>3

\* What a message of the kernel does to the entries.
LEMMA MessageEffect ==
    ASSUME ArraysInv, ProcessCTMessage
    PROVE  CacheEffect /\ TempOK'
  <1> PICK c \in Conns : c = Head(ctq).conn
    BY HandledMessage, ArraysInParts DEF Parts, ProcessCTMessage
  <1>1. Head(ctq).type \in {"new", "destroy"} /\ TempOK /\ wanIp \in PubIps \cup {NoIp}
    BY HandledMessage, ArraysInParts DEF Parts, ProcessCTMessage, WanOK
  <1>2. UNCHANGED <<cache, temp, hw>> \/ NewConnection(c) \/ EndOfConnection(c)
    BY <1>1 DEF ProcessCTMessage
  <1>3. CASE UNCHANGED <<cache, temp, hw>>
    BY <1>1, <1>3, TempTypes DEF CacheEffect
  <1>4. CASE NewConnection(c)
    <2>1. temp' = temp \/ AddTempEntry(c, wanIp)
      BY <1>4 DEF NewConnection
    <2>2. \/ UNCHANGED <<cache, hw>>
          \/ CacheEntry(c, outside') /\ hw' = hw
          \/ \E added \in BOOLEAN : AddEntry(c, added)
      BY <1>4 DEF NewConnection
    <2> QED
      BY <1>1, <2>1, <2>2, TempTypes, AddEntryEffect, CacheEntryEffect DEF CacheEffect, ArraysInv
  <1>5. CASE EndOfConnection(c)
    <2>1. CacheEffect
      BY <1>5, DeleteEntryEffect DEF EndOfConnection, ArraysInv, CacheEffect
    <2>2. TempOK'
      BY <1>1, <1>5, TempTypes DEF EndOfConnection
    <2> QED
      BY <2>1, <2>2
  <1> QED
    BY <1>2, <1>3, <1>4, <1>5

LEMMA MessageArrays == ASSUME ArraysInv, ProcessCTMessage PROVE ArraysInv'
  <1>1. CacheOK' /\ TempOK'
    BY MessageEffect, CacheInOrder DEF ArraysInv, CacheOK
  <1>2. KernelOK'
    BY HandledMessage, ArraysInParts DEF Parts, ProcessCTMessage, KernelOK
  <1> QED
    BY <1>1, <1>2, ArraysInParts, PartsStay DEF Parts, ProcessCTMessage, listenerVars

LEMMA WalkArrays == ASSUME ArraysInv, WalkOn PROVE ArraysInv'
  <1>1. CacheOK'
    BY WalkEffect, CacheInOrder DEF WalkOn, ArraysInv, CacheOK
  <1>2. loop # <<>> /\ Advance
    BY DEF WalkOn, WalkStep, RestoreEntry, ReenableEntry, DisableEntry, DisconnectEntry,
           StaGoneEntry, FlushTempEntry, Doing
  <1>3. WalksOK'
    BY <1>2, WalkGoesOn DEF ArraysInv, WalksOK
  <1>4. TempOK'
    <2>1. temp' = temp \/ temp' = [temp EXCEPT ![At] = NoTemp]
      BY DEF WalkOn, WalkStep, RestoreEntry, ReenableEntry, DisableEntry, DisconnectEntry,
             StaGoneEntry, FlushTempEntry, FlushedTemp
    <2>2. NoTemp \in TempEntry
      BY DEF NoTemp, TempEntry
    <2> QED
      BY <2>1, <2>2, ArraysInParts DEF Parts, TempOK
  <1>5. TableOK'
    <2>1. UNCHANGED <<tblHdl, pubIpPre, hwTable>>
      BY DEF WalkOn, WalkStep, RestoreEntry, ReenableEntry, DisableEntry, DisconnectEntry,
             StaGoneEntry, FlushTempEntry, tableVars
    <2>2. RestoreEntry => Doing("restore") /\ pubIp' \in {Ip, pubIp}
      BY DEF RestoreEntry
    <2>3. RestoreEntry \/ pubIp' = pubIp
      BY DEF WalkOn, WalkStep, ReenableEntry, DisableEntry, DisconnectEntry, StaGoneEntry,
             FlushTempEntry, tableVars
    <2>4. Doing("restore") => Ip \in PubIps
      BY WalkTypes DEF Doing, ArraysInv
    <2> QED
      BY <2>1, <2>2, <2>3, <2>4, ArraysInParts DEF Parts, TableOK
  <1>6. UNCHANGED <<pwrSave, udp, listenerVars, outerVars>>
    BY DEF WalkOn, WalkStep, RestoreEntry, ReenableEntry, DisableEntry, DisconnectEntry,
           StaGoneEntry, FlushTempEntry
  <1> QED
    BY <1>1, <1>3, <1>4, <1>5, <1>6, ArraysInParts, PartsStay DEF Parts, listenerVars
\* A walk begins, or two do; the addresses are those of clients and of the WAN.
LEMMA WalksBegin ==
    ASSUME NEW ip \in Ips,
           \/ \E op \in {"reenable", "disable", "flushAdd", "flushDrop"} : loop' = <<WalkOf(op, ip)>>
           \/ \E op, next \in {"reenable", "disconnect", "staGone", "flushAdd", "flushDrop"} :
                  loop' = <<WalkOf(op, ip), WalkOf(next, ip)>>
    PROVE  WalksOK'
  <1>1. CASE \E op \in {"reenable", "disable", "flushAdd", "flushDrop"} : loop' = <<WalkOf(op, ip)>>
    <2> PICK op \in {"reenable", "disable", "flushAdd", "flushDrop"} : loop' = <<WalkOf(op, ip)>>
      BY <1>1
    <2>1. op \in CacheWalks \cup TempWalks
      BY DEF CacheWalks, TempWalks
    <2> QED
      BY <2>1, WalkBegins, OneWalk DEF WalksOK
  <1>2. CASE \E op, next \in {"reenable", "disconnect", "staGone", "flushAdd", "flushDrop"} :
                 loop' = <<WalkOf(op, ip), WalkOf(next, ip)>>
    <2> PICK op, next \in {"reenable", "disconnect", "staGone", "flushAdd", "flushDrop"} :
                 loop' = <<WalkOf(op, ip), WalkOf(next, ip)>>
      BY <1>2
    <2>1. {op, next} \subseteq CacheWalks \cup TempWalks
      BY DEF CacheWalks, TempWalks
    <2> QED
      BY <2>1, WalkBegins, TwoWalks DEF WalksOK
  <1> QED
    BY <1>1, <1>2

\* AddTable and DeleteTable.
LEMMA WanArrays ==
    ASSUME ArraysInv, NEW ip \in PubIps,
           TriggerWANDown(ip) \/ \E isSta \in StaModes : TriggerWANUp(ip, isSta)
    PROVE  ArraysInv'
  <1>1. NoRules \in [Handles -> Conns \cup {NoConn}]
    BY DEF NoRules
  <1>2. CASE TriggerWANDown(ip)
    <2>1. cache' = cache /\ hw' \in {hw, NoRules}
      BY <1>2 DEF TriggerWANDown, DeleteTable, DeleteTableRefused, DeleteTableDone, Reset
    <2>2. CacheOK'
      BY <1>1, <2>1, ArraysInParts DEF Parts, CacheOK, EmptyIsZeroed, NoDuplicates
    <2>3. TableOK'
      BY <1>2, ArraysInParts
      DEF Parts, TableOK, TriggerWANDown, DeleteTable, DeleteTableRefused, DeleteTableDone,
          Reset, tableVars
    <2>4. WanOK'
      BY <1>2, ArraysInParts DEF Parts, WanOK, TriggerWANDown
    <2>5. UNCHANGED <<temp, pwrSave, loop, udp, natIf, sta, staCnt, outerVars>>
      BY <1>2 DEF TriggerWANDown, DeleteTable
    <2> QED
      BY <2>2, <2>3, <2>4, <2>5, ArraysInParts, PartsStay DEF Parts
  <1>3. ASSUME NEW isSta \in StaModes, TriggerWANUp(ip, isSta)
        PROVE  ArraysInv'
    <2>1. cache' = cache /\ hw' \in {hw, NoRules}
      BY <1>3 DEF TriggerWANUp, AddTable, AddTableFailed, AddTableDone
    <2>2. CacheOK'
      BY <1>1, <2>1, ArraysInParts DEF Parts, CacheOK, EmptyIsZeroed, NoDuplicates
    <2>3. TableOK'
      BY <1>3, ArraysInParts
      DEF Parts, TableOK, TriggerWANUp, AddTable, AddTableFailed, AddTableDone
    <2>4. WanOK'
      BY <1>3, ArraysInParts, ListenerAssumption DEF Parts, WanOK, TriggerWANUp
    <2>5. loop' = loop \/ loop' = <<WalkOf("restore", ip)>>
      BY <1>3 DEF TriggerWANUp, AddTable, AddTableFailed, AddTableDone
    <2>6. WalksOK'
      <3>1. "restore" \in CacheWalks \cup TempWalks
        BY DEF CacheWalks
      <3>2. loop' = <<WalkOf("restore", ip)>> => WalksOK'
        BY <3>1, WalkBegins, OneWalk DEF WalksOK
      <3> QED
        BY <2>5, <3>2, ArraysInParts, PartsStay DEF Parts
    <2>7. UNCHANGED <<temp, pwrSave, udp, natIf, sta, staCnt, outerVars>>
      BY <1>3 DEF TriggerWANUp, AddTable
    <2> QED
      BY <2>2, <2>3, <2>4, <2>6, <2>7, ArraysInParts, PartsStay DEF Parts
  <1> QED
    BY <1>2, <1>3

\* Clients that come, go, or sleep.
LEMMA ClientArrays ==
    ASSUME ArraysInv, NEW ip \in ClientIps,
           \/ HandleNeighIpAddrAddEvt(ip) \/ HandleNeighIpAddrDelEvt(ip)
           \/ ClientPowerSave(ip) \/ ClientRecovers(ip)
    PROVE  ArraysInv'
  <1>1. ip \in Ips
    BY ListenerAssumption
  <1>2. /\ UNCHANGED <<cache, hw, temp, tableVars, udp, wanUp, wanIp, staMode, sta, staCnt,
                       outerVars>>
        /\ pwrSave' \subseteq pwrSave \cup {ip}
    BY DEF HandleNeighIpAddrAddEvt, NeighAddListed, NeighAddNew, NeighAddOther,
           HandleNeighIpAddrDelEvt, ClientPowerSave, ClientRecovers, UpdatePwrSaveIf,
           ResetPwrSaveIf, OutOfPwrSave, natVars, listenerVars, tableVars
  <1>3. natIf' \in [IfSlots -> Ips \cup {NoIp}]
    <2>1. natIf \in [IfSlots -> Ips \cup {NoIp}]
      BY ArraysInParts DEF Parts, ListsOK
    <2>2. CASE HandleNeighIpAddrDelEvt(ip)
      BY <2>1, <2>2 DEF HandleNeighIpAddrDelEvt
    <2>3. CASE ~HandleNeighIpAddrDelEvt(ip)
      BY <1>1, <2>1, <2>3
      DEF HandleNeighIpAddrAddEvt, NeighAddListed, NeighAddNew, NeighAddOther,
          ClientPowerSave, ClientRecovers, listenerVars
    <2> QED
      BY <2>2, <2>3
  <1>4. ListsOK'
    BY <1>2, <1>3, ArraysInParts DEF Parts, ListsOK, StaCntIsExact
  <1>5. WalksOK'
    <2>1. CASE loop' = loop
      BY <2>1, ArraysInParts, PartsStay DEF Parts
    <2>2. CASE HandleNeighIpAddrAddEvt(ip)
      BY <1>1, <2>1, <2>2, WalksBegin
      DEF HandleNeighIpAddrAddEvt, NeighAddListed, NeighAddNew, NeighAddOther, ResetPwrSaveIf,
          FlushWalk, natVars
    <2>3. CASE HandleNeighIpAddrDelEvt(ip)
      BY <1>1, <2>3, WalksBegin DEF HandleNeighIpAddrDelEvt, FlushWalk
    <2>4. CASE ClientPowerSave(ip)
      BY <1>1, <2>1, <2>4, WalksBegin DEF ClientPowerSave, UpdatePwrSaveIf
    <2>5. CASE ClientRecovers(ip)
      BY <1>1, <2>5, WalksBegin DEF ClientRecovers, ResetPwrSaveIf
    <2> QED
      BY <2>2, <2>3, <2>4, <2>5
  <1> QED
    BY <1>1, <1>2, <1>4, <1>5, ArraysInParts, PartsStay DEF Parts
\* The slots of the station's list that are in use.
UsedSlots == {i \in StaSlots : sta[i] # NoIp}

LEMMA UsedSlotsCount ==
    /\ IsFiniteSet(UsedSlots) /\ Cardinality(UsedSlots) \in 0 .. MaxStaClnts
    /\ UsedSlots \subseteq StaSlots
  <1>1. MaxStaClnts \in Nat
    BY ListenerAssumption
  <1>2. IsFiniteSet(StaSlots) /\ Cardinality(StaSlots) = MaxStaClnts
    BY <1>1, FS_Interval DEF StaSlots
  <1>3. UsedSlots \in SUBSET StaSlots
    BY DEF UsedSlots
  <1>4. /\ IsFiniteSet(UsedSlots) /\ Cardinality(UsedSlots) \in Nat
        /\ Cardinality(UsedSlots) <= MaxStaClnts
    BY <1>2, <1>3, FS_Subset, FS_CardinalityType
  <1> QED
    BY <1>1, <1>3, <1>4

\* A client of the station's network is counted when it gets a slot of its own.
LEMMA StaAddArrays ==
    ASSUME ArraysInv, NEW ip \in StaIps, HandleSTAClientAddEvt(ip)
    PROVE  ArraysInv'
  <1>1. ip \in Ips /\ ip # NoIp
    BY ListenerAssumption, ConnsAssumption
  <1>2. sta \in [StaSlots -> Ips \cup {NoIp}] /\ staCnt = Cardinality(UsedSlots) /\ staCnt \in Nat
    BY ArraysInParts DEF Parts, ListsOK, StaCntIsExact, UsedSlots
  <1>3. PICK i \in StaSlots :
            /\ staCnt < MaxStaClnts
            /\ sta' = [sta EXCEPT ![i] = ip]
            /\ staCnt' = IF sta[i] = NoIp THEN staCnt + 1 ELSE staCnt
    BY DEF HandleSTAClientAddEvt
  <1>4. sta' \in [StaSlots -> Ips \cup {NoIp}]
    BY <1>1, <1>2, <1>3
  <1>5. UsedSlots' = UsedSlots \cup {i}
    BY <1>1, <1>2, <1>3 DEF UsedSlots
  <1>6. i \in UsedSlots <=> sta[i] # NoIp
    BY DEF UsedSlots
  <1>7. staCnt' = Cardinality(UsedSlots')
    BY <1>2, <1>3, <1>5, <1>6, UsedSlotsCount, FS_AddElement
  <1>8. staCnt' \in 0 .. MaxStaClnts
    BY <1>2, <1>3, ListenerAssumption
  <1>9. ListsOK'
    BY <1>4, <1>7, <1>8, ArraysInParts
    DEF Parts, ListsOK, StaCntIsExact, UsedSlots, HandleSTAClientAddEvt
  <1>10. WalksOK'
    BY <1>1, WalksBegin DEF HandleSTAClientAddEvt, FlushWalk
  <1> QED
    BY <1>9, <1>10, ArraysInParts, PartsStay DEF Parts, HandleSTAClientAddEvt

\* A client that goes frees the one slot it was counted for.
LEMMA StaDelArrays ==
    ASSUME ArraysInv, NEW ip \in StaIps, HandleSTAClientDelEvt(ip)
    PROVE  ArraysInv'
  <1>1. ip \in Ips /\ ip # NoIp
    BY ListenerAssumption, ConnsAssumption
  <1>2. sta \in [StaSlots -> Ips \cup {NoIp}] /\ staCnt = Cardinality(UsedSlots) /\ ListsOK
    BY ArraysInParts DEF Parts, ListsOK, StaCntIsExact, UsedSlots
  <1>3. WalksOK'
    BY <1>1, WalksBegin DEF HandleSTAClientDelEvt, FlushWalk
  <1>4. ListsOK'
    <2>1. CASE StaHolding(ip) = {}
      BY <1>2, <2>1, PartsStay DEF HandleSTAClientDelEvt
    <2>2. CASE StaHolding(ip) # {}
      <3>1. PICK i \in StaHolding(ip) : IsFirst(i, StaHolding(ip))
        BY <2>2, FirstFound, ListenerAssumption DEF StaHolding, StaSlots
      <3>2. i \in StaSlots /\ sta[i] # NoIp /\ \A j \in StaSlots : IsFirst(j, StaHolding(ip)) => j = i
        BY <1>1, <3>1 DEF IsFirst, StaHolding, StaSlots
      <3>3. /\ sta' = [j \in StaSlots |-> IF IsFirst(j, StaHolding(ip)) THEN NoIp ELSE sta[j]]
            /\ staCnt' = staCnt - 1 /\ natIf' = natIf
        BY <2>2 DEF HandleSTAClientDelEvt
      <3>4. \A j \in StaSlots : sta'[j] = IF j = i THEN NoIp ELSE sta[j]
        BY <3>1, <3>2, <3>3
      <3>5. sta' \in [StaSlots -> Ips \cup {NoIp}]
        BY <1>2, <3>3
      <3>6. UsedSlots' = UsedSlots \ {i} /\ i \in UsedSlots
        BY <3>2, <3>4 DEF UsedSlots
      <3>7. /\ Cardinality(UsedSlots') = Cardinality(UsedSlots) - 1
            /\ Cardinality(UsedSlots) \in 0 .. MaxStaClnts /\ Cardinality(UsedSlots') \in Nat
        <4>1. IsFiniteSet(UsedSlots)
          BY UsedSlotsCount
        <4>2. IsFiniteSet(UsedSlots') /\ Cardinality(UsedSlots') = Cardinality(UsedSlots) - 1
          BY <3>6, <4>1, FS_RemoveElement
        <4> QED
          BY <4>2, UsedSlotsCount, FS_CardinalityType
      <3>8. staCnt' = Cardinality(UsedSlots') /\ staCnt' \in 0 .. MaxStaClnts
        BY <1>2, <3>3, <3>7, ListenerAssumption
      <3> QED
        BY <1>2, <3>3, <3>5, <3>8 DEF ListsOK, StaCntIsExact, UsedSlots
    <2> QED
      BY <2>1, <2>2
  <1> QED
    BY <1>3, <1>4, ArraysInParts, PartsStay DEF Parts, HandleSTAClientDelEvt

\* The time stamp thread forgets a connection the kernel does not know.
LEMMA UdpArrays == ASSUME ArraysInv, TimeStamps PROVE ArraysInv'
  <1>1. UdpOK
    BY ArraysInParts DEF Parts
  <1>2. CASE (\E s \in Slots : UdpQuery(s)) \/ UdpUpdateCT(live)
    <2>1. UdpOK'
      BY <1>1, <1>2 DEF UdpOK, UdpQuery, UdpUpdateCT
    <2> QED
      BY <1>2, <2>1, ArraysInParts, PartsStay
      DEF Parts, TimeStamps, UdpQuery, UdpUpdateCT, listenerVars
  <1>3. CASE UdpDeleteEntry
    <2>1. UdpOK'
      BY <1>1, <1>3 DEF UdpOK, UdpDeleteEntry
    <2>2. CacheOK'
      BY <1>3, DeleteEntryEffect, CacheInOrder
      DEF UdpDeleteEntry, ArraysInv, CacheOK, CacheEffect
    <2> QED
      BY <1>3, <2>1, <2>2, ArraysInParts, PartsStay
      DEF Parts, TimeStamps, UdpDeleteEntry, listenerVars
  <1> QED
    BY <1>2, <1>3 DEF TimeStamps

\* Types, and the arrays that are searched and counted by hand, are in order in
\* every state: no operation duplicates an entry, or loses count of the clients.
THEOREM ArraysCorrect == Spec => []ArraysInv
  <1>1. Init => ArraysInv
    <2> SUFFICES ASSUME Init PROVE ArraysInv
      OBVIOUS
    <2>1. CacheOK /\ UdpOK
      BY EntryTypes, SizesAssumption
      DEF Init, NatInit, CacheOK, EmptyIsZeroed, NoDuplicates, NoRules, UdpOK, Slots
    <2>2. TempOK
      BY DEF Init, NatInit, TempOK, NoTemp, TempEntry
    <2>3. TableOK /\ pwrSave \subseteq Ips
      BY DEF Init, NatInit, TableOK
    <2>4. WanOK
      BY ListenerAssumption DEF Init, WanOK
    <2>5. WalksOK
      BY DEF Init, NatInit, WalksOK, WalksInRange
    <2>7. KernelOK
      <3>1. live = {} /\ ctq = <<>> /\ outside = FALSE
        BY DEF Init
      <3>2. <<>> \in Seq(Message)
        OBVIOUS
      <3> QED
        BY <3>1, <3>2 DEF KernelOK
    <2>6. ListsOK
      <3>1. UsedSlots = {}
        BY DEF Init, UsedSlots
      <3>2. Cardinality(UsedSlots) = 0
        BY <3>1, FS_EmptySet
      <3> QED
        BY <3>2, ListenerAssumption DEF Init, ListsOK, StaCntIsExact, UsedSlots
    <2> QED
      BY <2>1, <2>2, <2>3, <2>4, <2>5, <2>6, <2>7, ArraysInParts DEF Parts
  <1>2. ArraysInv /\ [Next]_vars => ArraysInv'
    <2> SUFFICES ASSUME ArraysInv, [Next]_vars PROVE ArraysInv'
      OBVIOUS
    <2>1. CASE Events
      <3>1. DownIps \subseteq PubIps
        BY ListenerAssumption
      <3> QED
        BY <2>1, <3>1, WanArrays, ClientArrays, StaAddArrays, StaDelArrays DEF Events
    <2>2. CASE UNCHANGED vars
      BY <2>2, ArraysInParts, PartsStay DEF Parts, vars, natVars, listenerVars, tableVars
    <2> QED
      BY <2>1, <2>2, KernelArrays, MessageArrays, WalkArrays, UdpArrays DEF Next
  <1> QED
    BY <1>1, <1>2, PTL DEF Spec

\* The types of the cache, the lists and the queue.
THEOREM TypeCorrect == Spec => []TypeOK
  <1>1. ArraysInv => TypeOK
    BY DEF ArraysInv
  <1> QED
    BY <1>1, ArraysCorrect, PTL

\* A listed client of the station is within the first StaClntCnt slots, unless
\* there is a hole before its own.
LEMMA MissedBehindHole == ASSUME ArraysInv PROVE MissedOnlyBehindHole
  <1> SUFFICES ASSUME NEW c \in Conns, NEW i \in StaSlots, sta[i] = Target[c],
                      StaTargetUnknown(c), \A h \in 1 .. i - 1 : sta[h] # NoIp
               PROVE  FALSE
    BY DEF MissedOnlyBehindHole
  <1>1. i \in Nat /\ i >= 1 /\ i \in 1 .. MaxStaClnts /\ MaxStaClnts \in Nat
    BY ListenerAssumption DEF StaSlots
  <1>2. Target[c] # NoIp
    BY ConnsAssumption
  <1>3. 1 .. i \subseteq UsedSlots
    BY <1>1, <1>2 DEF UsedSlots, StaSlots
  <1>4. Cardinality(1 .. i) = i
    BY <1>1, FS_Interval
  <1>5. Cardinality(1 .. i) <= Cardinality(UsedSlots)
    BY <1>3, UsedSlotsCount, FS_Subset
  <1>6. staCnt = Cardinality(UsedSlots)
    BY DEF ArraysInv, StaCntIsExact, UsedSlots
  <1>7. i \in 1 .. staCnt
    BY <1>1, <1>4, <1>5, <1>6, UsedSlotsCount
  <1> QED
    BY <1>7 DEF StaTargetUnknown

\* A connection has at most one entry, StaClntCnt counts the station's clients, and
\* a client that is listed is missed behind a hole of the list only.
THEOREM ArraysStayInOrder == Spec => []ArraysInOrder
  <1>1. ArraysInv => ArraysInOrder
    BY MissedBehindHole DEF ArraysInv, ArraysInOrder
  <1> QED
    BY <1>1, ArraysCorrect, PTL

-----------------------------------------------------------------------------
(* Each rule has its entry, whatever the addresses of the WAN and with both *)
(* threads at work, if a rule that is there can be deleted.                 *)

\* An entry that goes takes its rule along, or had none.
LEMMA OffKeepsRules ==
    ASSUME ArraysInv, DelMayFail = FALSE, tblHdl # 0, NEW S, S \subseteq Slots,
           RulesHaveEntries(S), NEW s \in Slots, SwitchedOff(s), s \in S => ~BeingRestored(s)
    PROVE  RulesHaveEntries(S)'
  <1> PICK e \in Entry : Rewritten(s, e)
    BY DEF SwitchedOff
  <1>1. cache \in [Slots -> Entry] /\ hw \in [Handles -> Conns \cup {NoConn}]
    BY ArraysInParts DEF Parts, CacheOK
  <1>2. \A r \in Slots : r # s => cache'[r] = cache[r]
    BY <1>1 DEF Rewritten
  <1>3. \A h \in Handles : hw'[h] # NoConn => hw'[h] = hw[h]
    BY <1>1 DEF SwitchedOff
  <1>4. ASSUME NEW h \in Handles, hw'[h] # NoConn, s \in S,
               cache[s] = [conn |-> hw[h], enabled |-> TRUE, hdl |-> h]
        PROVE  FALSE
    <2>1. cache[s].enabled /\ cache[s].hdl = h /\ h # 0 /\ hw[h] # NoConn
      BY <1>3, <1>4, SizesAssumption DEF Handles
    <2>2. FALSE \notin DeleteRuleOutcomes(h)
      BY <2>1, CallOutcomes
    <2>3. hw' = [hw EXCEPT ![h] = NoConn]
      BY <1>4, <2>1, <2>2 DEF SwitchedOff
    <2> QED
      BY <1>1, <1>4, <2>3
  <1> SUFFICES ASSUME NEW h \in Handles, hw'[h] # NoConn
               PROVE  \E r \in S : cache'[r] = [conn |-> hw'[h], enabled |-> TRUE, hdl |-> h]
    BY DEF RulesHaveEntries
  <1>5. hw'[h] = hw[h]
    BY <1>3
  <1>6. PICK r \in S : cache[r] = [conn |-> hw[h], enabled |-> TRUE, hdl |-> h]
    BY <1>5 DEF RulesHaveEntries
  <1>7. r # s
    BY <1>4, <1>6
  <1> QED
    BY <1>2, <1>5, <1>6, <1>7

\* A rule that is added has its entry, and no other entry loses one.
LEMMA OnKeepsRules ==
    ASSUME ArraysInv, NEW S, S \subseteq Slots, RulesHaveEntries(S),
           NEW s \in Slots, SwitchedOn(s), s \in S => ~BeingRestored(s)
    PROVE  RulesHaveEntries(S \cup {s})'
  <1> PICK c \in Conns, h \in FreeHandles :
          /\ Rewritten(s, [conn |-> c, enabled |-> TRUE, hdl |-> h])
          /\ hw' = [hw EXCEPT ![h] = c]
    BY DEF SwitchedOn
  <1> DEFINE e == [conn |-> c, enabled |-> TRUE, hdl |-> h]
  <1>1. cache \in [Slots -> Entry] /\ hw \in [Handles -> Conns \cup {NoConn}]
    BY ArraysInParts DEF Parts, CacheOK
  <1>2. \A r \in Slots : cache'[r] = IF r = s THEN e ELSE cache[r]
    BY <1>1 DEF Rewritten
  <1>3. \A g \in Handles : hw'[g] = IF g = h THEN c ELSE hw[g]
    BY <1>1
  <1>4. s \in S => ~cache[s].enabled
    BY DEF SwitchedOn
  <1> SUFFICES ASSUME NEW g \in Handles, hw'[g] # NoConn
               PROVE  \E r \in S \cup {s} : cache'[r] = [conn |-> hw'[g], enabled |-> TRUE, hdl |-> g]
    BY DEF RulesHaveEntries
  <1>5. CASE g = h
    BY <1>2, <1>3, <1>5
  <1>6. CASE g # h
    <2>1. hw'[g] = hw[g]
      BY <1>3, <1>6
    <2>2. PICK r \in S : cache[r] = [conn |-> hw[g], enabled |-> TRUE, hdl |-> g]
      BY <2>1 DEF RulesHaveEntries
    <2>3. r # s
      BY <1>4, <2>2
    <2> QED
      BY <1>2, <2>1, <2>2, <2>3
  <1> QED
    BY <1>5, <1>6

\* An operation, while no table is being filled again.
LEMMA EffectKeepsRules ==
    ASSUME ArraysInv, DelMayFail = FALSE, RulesInv, CacheEffect,
           ~Doing("restore"), ~Doing("restore")', UNCHANGED tblHdl
    PROVE  RulesInv'
  <1> SUFFICES ASSUME tblHdl # 0 PROVE RulesHaveEntries(Slots)'
    BY DEF RulesInv, Settled, RulesHaveEntries
  <1>1. RulesHaveEntries(Slots)
    BY DEF RulesInv, Settled, RulesHaveEntries
  <1>2. CASE UNCHANGED <<cache, hw>>
    BY <1>1, <1>2 DEF RulesHaveEntries
  <1>3. ASSUME NEW s \in Slots, SwitchedOff(s)
        PROVE  RulesHaveEntries(Slots)'
    BY <1>1, <1>3, OffKeepsRules DEF BeingRestored
  <1>4. ASSUME NEW s \in Slots, SwitchedOn(s)
        PROVE  RulesHaveEntries(Slots)'
    <2>1. RulesHaveEntries(Slots \cup {s})'
      BY <1>1, <1>4, OnKeepsRules DEF BeingRestored
    <2> QED
      BY <2>1 DEF RulesHaveEntries
  <1> QED
    BY <1>2, <1>3, <1>4 DEF CacheEffect

\* A walk that goes on stays what it is, and ends after the last element.
LEMMA RestoreGoesOn ==
    ASSUME TypeOK, WalksInRange, loop # <<>>, Advance
    PROVE  /\ ~Doing("restore") => ~Doing("restore")'
           /\ Doing("restore") /\ At # MaxEntries => Doing("restore")' /\ At' = At + 1
           /\ Doing("restore") /\ At = MaxEntries => ~Doing("restore")'
  <1> DEFINE w == Head(loop)
             v == [w EXCEPT !.at = @ + 1]
  <1>1. w \in Walk /\ loop \in Seq(Walk) /\ At = w.at
    BY WalkTypes DEF At
  <1>2. Doing("restore") => LastOf(w.op) = MaxEntries
    BY DEF Doing, LastOf, TempWalks
  <1>3. CASE At = LastOf(w.op)
    <2>1. loop' = Tail(loop)
      BY <1>3 DEF Advance
    <2>2. loop' # <<>> => Head(loop') = loop[2] /\ 2 \in 1 .. Len(loop)
      BY <1>1, <2>1
    <2>3. ~Doing("restore")'
      BY <2>2 DEF WalksInRange, Doing
    <2> QED
      BY <1>2, <1>3, <2>3
  <1>4. CASE At # LastOf(w.op)
    <2>1. loop' = <<v>> \o Tail(loop)
      BY <1>4 DEF Advance
    <2>2. v.op = w.op /\ v.at = w.at + 1 /\ v \in [op : CacheWalks \cup TempWalks, ip : Ips \cup PubIps, at : Int]
      BY <1>1 DEF Walk
    <2> HIDE DEF v, w
    <2>3. Tail(loop) \in Seq(Walk)
      BY <1>1
    <2>4. loop' # <<>> /\ Head(loop') = v
      BY <1>1, <2>1, <2>2, <2>3
    <2> QED
      BY <1>1, <1>2, <1>4, <2>2, <2>4 DEF Doing, At, w
  <1> QED
    BY <1>3, <1>4

\* While a table is filled again its slots are settled one by one.
LEMMA SettledOneMore ==
    ASSUME ArraysInv, RestoreEntry, tblHdl # 0, NEW S, NEW s, S = Settled, s = At
    PROVE  /\ s \in Slots /\ S \subseteq Slots /\ s \notin S /\ BeingRestored(s)
           /\ Settled' = S \cup {s}
           /\ s = MaxEntries => ~Doing("restore")'
           /\ s # MaxEntries => Doing("restore")'
  <1>1. Doing("restore") /\ loop # <<>> /\ Advance /\ UNCHANGED tblHdl
    BY DEF RestoreEntry, Doing
  <1>2. s \in Slots /\ S \subseteq Slots
    BY <1>1, WalkTypes DEF Doing, ArraysInv, TempWalks, Settled
  <1>3. s \notin S /\ BeingRestored(s)
    BY <1>1, <1>2 DEF Settled, BeingRestored, Slots
  <1>4. /\ s # MaxEntries => Doing("restore")' /\ At' = s + 1
        /\ s = MaxEntries => ~Doing("restore")'
    BY <1>1, RestoreGoesOn DEF ArraysInv
  <1>5. S = {r \in Slots : r < s}
    BY <1>1 DEF Settled
  <1>6. Settled' = S \cup {s}
    <2>1. CASE s = MaxEntries
      BY <1>1, <1>2, <1>4, <1>5, <2>1 DEF Settled, Slots
    <2>2. CASE s # MaxEntries
      BY <1>1, <1>2, <1>4, <1>5, <2>2 DEF Settled, Slots
    <2> QED
      BY <2>1, <2>2
  <1> QED
    BY <1>2, <1>3, <1>4, <1>6

\* What is done to the entry that AddTable's walk is at: it gets a rule, or goes.
LEMMA RestoreEffect ==
    ASSUME ArraysInv, RestoreEntry, NEW s \in Slots, s = At
    PROVE  \/ UNCHANGED <<cache, hw>> /\ ~cache[s].enabled
           \/ SwitchedOff(s) /\ hw' = hw
           \/ SwitchedOn(s)
  <1>1. CASE cache[s].conn = NoConn
    BY <1>1, EntryTypes DEF RestoreEntry, ArraysInv, EmptyIsZeroed
  <1>2. CASE cache[s].conn # NoConn
    BY <1>2, ReAddEffect DEF RestoreEntry, ArraysInv, BeingRestored
  <1> QED
    BY <1>1, <1>2

LEMMA RestoreKeepsRules ==
    ASSUME ArraysInv, DelMayFail = FALSE, RulesInv, RestoreEntry
    PROVE  RulesInv'
  <1> SUFFICES ASSUME tblHdl # 0 PROVE RulesHaveEntries(Settled)'
    BY DEF RulesInv, RestoreEntry
  <1> PICK S, s : S = Settled /\ s = At
    OBVIOUS
  <1>1. s \in Slots /\ S \subseteq Slots /\ s \notin S /\ Settled' = S \cup {s}
    BY SettledOneMore
  <1>2. RulesHaveEntries(S)
    BY DEF RulesInv, RulesHaveEntries
  <1>3. RulesHaveEntries(S \cup {s})'
    <2>1. CASE UNCHANGED <<cache, hw>>
      BY <1>2, <2>1 DEF RulesHaveEntries
    <2>2. CASE SwitchedOff(s)
      <3>1. RulesHaveEntries(S)'
        BY <1>1, <1>2, <2>2, OffKeepsRules
      <3> QED
        BY <3>1 DEF RulesHaveEntries
    <2>3. CASE SwitchedOn(s)
      BY <1>1, <1>2, <2>3, OnKeepsRules
    <2> QED
      BY <1>1, <2>1, <2>2, <2>3, RestoreEffect
  <1> QED
    BY <1>1, <1>3 DEF RulesHaveEntries

\* The time stamp thread deletes an entry, in the middle of a walk or not.
LEMMA TimeStampsKeepRules ==
    ASSUME ArraysInv, DelMayFail = FALSE, RulesInv, TimeStamps
    PROVE  RulesInv'
  <1>1. UNCHANGED <<loop, tblHdl>> /\ (UNCHANGED <<cache, hw>> \/ \E c : DeleteEntry(c))
    BY DEF TimeStamps, UdpQuery, UdpUpdateCT, UdpDeleteEntry, tableVars
  <1> SUFFICES ASSUME tblHdl # 0 PROVE RulesHaveEntries(Settled)'
    BY <1>1 DEF RulesInv
  <1> PICK S \in SUBSET Slots : S = Settled
    BY DEF Settled
  <1>2. Settled' = S
    BY <1>1 DEF Settled, Doing, At
  <1>3. RulesHaveEntries(S) /\ \A s \in S : ~BeingRestored(s)
    BY DEF RulesInv, RulesHaveEntries, Settled, BeingRestored, Slots
  <1>4. RulesHaveEntries(S)'
    <2>1. CASE UNCHANGED <<cache, hw>>
      BY <1>3, <2>1 DEF RulesHaveEntries
    <2>2. CASE \E s \in Slots : SwitchedOff(s)
      BY <1>3, <2>2, OffKeepsRules
    <2> QED
      BY <1>1, <2>1, <2>2, DeleteEntryEffect DEF ArraysInv
  <1> QED
    BY <1>2, <1>4 DEF RulesHaveEntries

\* A step that makes or restores no table.
Ordinary ==
    /\ CacheEffect
    /\ ~Doing("restore") /\ ~Doing("restore")'
    /\ UNCHANGED <<tableVars, wanUp, udp>>

LEMMA MessageOrdinary == ASSUME ArraysInv, ProcessCTMessage PROVE Ordinary
  <1>1. CacheEffect /\ ~Doing("restore") /\ UNCHANGED <<loop, tableVars, wanUp, udp>>
    BY MessageEffect DEF ProcessCTMessage, Idle, Doing, listenerVars
  <1>2. ~Doing("restore")'
    BY <1>1 DEF Doing
  <1> QED
    BY <1>1, <1>2 DEF Ordinary

\* A walk over the cache or the temporary entries, which is not AddTable's.
LEMMA WalkOrdinary == ASSUME ArraysInv, WalkOn, ~RestoreEntry PROVE Ordinary
  <1>1. /\ loop # <<>> /\ Advance /\ ~Doing("restore")
        /\ UNCHANGED <<tableVars, wanUp, udp>>
    BY DEF WalkOn, WalkStep, ReenableEntry, DisableEntry, DisconnectEntry,
           StaGoneEntry, FlushTempEntry, Doing, listenerVars
  <1>2. CacheEffect
    BY WalkEffect DEF ArraysInv, WalkOn
  <1>3. ~Doing("restore")'
    BY <1>1, RestoreGoesOn DEF ArraysInv
  <1> QED
    BY <1>1, <1>2, <1>3 DEF Ordinary

\* The events of clients begin walks, none of them AddTable's.
LEMMA ClientOrdinary ==
    ASSUME NEW ip,
           \/ HandleNeighIpAddrAddEvt(ip) \/ HandleNeighIpAddrDelEvt(ip)
           \/ ClientPowerSave(ip) \/ ClientRecovers(ip)
           \/ HandleSTAClientAddEvt(ip) \/ HandleSTAClientDelEvt(ip)
    PROVE  Ordinary
  <1>1. Idle /\ UNCHANGED <<cache, hw, tableVars, udp, wanUp>>
    BY DEF HandleNeighIpAddrAddEvt, HandleNeighIpAddrDelEvt, ClientPowerSave, ClientRecovers,
           HandleSTAClientAddEvt, HandleSTAClientDelEvt, NeighAddListed, NeighAddNew,
           NeighAddOther, natVars, listenerVars, tableVars, ResetPwrSaveIf, UpdatePwrSaveIf
  <1>2. \/ loop' = loop
        \/ \E op \in {"reenable", "disable", "flushAdd", "flushDrop"} : loop' = <<WalkOf(op, ip)>>
        \/ \E op, next \in {"reenable", "disconnect", "staGone", "flushAdd", "flushDrop"} :
               loop' = <<WalkOf(op, ip), WalkOf(next, ip)>>
    <2>1. CASE HandleNeighIpAddrAddEvt(ip)
      BY <2>1
      DEF HandleNeighIpAddrAddEvt, NeighAddListed, NeighAddNew, NeighAddOther, natVars,
          ResetPwrSaveIf, FlushWalk
    <2>2. CASE HandleNeighIpAddrDelEvt(ip)
      BY <2>2 DEF HandleNeighIpAddrDelEvt, FlushWalk
    <2>3. CASE ClientPowerSave(ip)
      BY <2>3 DEF ClientPowerSave, UpdatePwrSaveIf
    <2>4. CASE ClientRecovers(ip)
      BY <2>4 DEF ClientRecovers, ResetPwrSaveIf
    <2>5. CASE HandleSTAClientAddEvt(ip) \/ HandleSTAClientDelEvt(ip)
      BY <2>5 DEF HandleSTAClientAddEvt, HandleSTAClientDelEvt, FlushWalk
    <2> QED
      BY <2>1, <2>2, <2>3, <2>4, <2>5
  <1>3. ~Doing("restore") /\ ~Doing("restore")'
    BY <1>1, <1>2 DEF Idle, Doing, WalkOf
  <1> QED
    BY <1>1, <1>3 DEF Ordinary, CacheEffect

\* What a step can be, for the cache and the table.
LEMMA StepKinds ==
    ASSUME ArraysInv, [Next]_vars
    PROVE  \/ Ordinary
           \/ UNCHANGED <<cache, hw, tableVars, wanUp, udp, loop>>
           \/ WalkOn /\ RestoreEntry
           \/ \E ip \in PubIps, isSta \in StaModes : TriggerWANUp(ip, isSta)
           \/ \E ip \in PubIps : TriggerWANDown(ip)
           \/ TimeStamps
  <1>1. CASE Kernel \/ UNCHANGED vars
    <2>1. UNCHANGED <<natVars, listenerVars>>
      BY <1>1 DEF Kernel, KernelOpen, KernelUpdate, KernelClose, vars
    <2> QED
      BY <2>1 DEF natVars, listenerVars, tableVars
  <1>2. CASE Events
    BY <1>2, ClientOrdinary DEF Events
  <1> QED
    BY <1>1, <1>2, MessageOrdinary, WalkOrdinary DEF Next

\* AddTable and DeleteTable leave the rules alone, or no rule.
LEMMA TableEffect ==
    ASSUME NEW ip, NEW isSta, TriggerWANUp(ip, isSta) \/ TriggerWANDown(ip)
    PROVE  /\ loop = <<>> /\ UNCHANGED cache
           /\ hw' = NoRules \/ (hw' = hw /\ (tblHdl' = 0 \/ UNCHANGED <<tblHdl, loop>>))
  BY DEF TriggerWANUp, AddTable, AddTableFailed, AddTableDone, TriggerWANDown, Idle, DeleteTable,
         DeleteTableRefused, DeleteTableDone, Reset, tableVars

LEMMA TableKeepsRules ==
    ASSUME RulesInv, NEW ip, NEW isSta, TriggerWANUp(ip, isSta) \/ TriggerWANDown(ip)
    PROVE  RulesInv'
  <1>1. CASE hw' = NoRules
    BY <1>1 DEF RulesInv, RulesHaveEntries, NoRules
  <1>2. CASE hw' = hw /\ tblHdl' = 0
    BY <1>2 DEF RulesInv
  <1>3. CASE hw' = hw /\ UNCHANGED <<tblHdl, loop>>
    BY <1>3, TableEffect DEF RulesInv, RulesHaveEntries, Settled, Doing, At
  <1> QED
    BY <1>1, <1>2, <1>3, TableEffect

\* Each rule of a table in use has its entry; while the table is filled again, among
\* the slots that are settled.
THEOREM RulesCorrect ==
    ASSUME DelMayFail = FALSE
    PROVE  Spec => []RulesInv
  <1>1. Init => RulesInv
    BY DEF Init, NatInit, RulesInv
  <1>2. ArraysInv /\ RulesInv /\ [Next]_vars => RulesInv'
    <2> SUFFICES ASSUME ArraysInv, RulesInv, [Next]_vars PROVE RulesInv'
      OBVIOUS
    <2>1. CASE Ordinary
      BY <2>1, EffectKeepsRules DEF Ordinary, tableVars
    <2>2. CASE UNCHANGED <<cache, hw, tableVars, wanUp, udp, loop>>
      BY <2>2 DEF RulesInv, RulesHaveEntries, Settled, Doing, At, tableVars
    <2> QED
      BY <2>1, <2>2, StepKinds, RestoreKeepsRules, TableKeepsRules, TimeStampsKeepRules
  <1> QED
    BY <1>1, <1>2, ArraysCorrect, PTL DEF Spec

\* While a table is in use every rule in the hardware is that of an enabled entry, so
\* that the end of its connection removes it: any addresses, both threads at work.
THEOREM EveryRuleHasEntry ==
    ASSUME DelMayFail = FALSE
    PROVE  Spec => []RuleHasEnabledEntry
  <1>1. RulesInv => RuleHasEnabledEntry
    BY DEF RulesInv, RulesHaveEntries, RuleHasEnabledEntry, Settled
  <1> QED
    BY <1>1, RulesCorrect, PTL

\* A rule is added for a connection that has none, one that is there is deleted.
LEMMA EffectRefines ==
    ASSUME ArraysInv, RulesInv, CacheEffect
    PROVE  NatTableOf!Next \/ UNCHANGED hw
  <1>1. CASE UNCHANGED <<cache, hw>>
    BY <1>1
  <1>2. ASSUME NEW s \in Slots, SwitchedOff(s), hw' # hw
        PROVE  NatTableOf!Next
    <2> PICK h : h = cache[s].hdl
      OBVIOUS
    <2>1. h # 0 /\ hw[h] # NoConn /\ hw' = [hw EXCEPT ![h] = NoConn]
      BY <1>2, CallOutcomes DEF SwitchedOff
    <2>2. h \in Handles
      BY <2>1, SlotTypes, SizesAssumption DEF ArraysInv, Handles
    <2> QED
      BY <2>1, <2>2 DEF NatTableOf!Next, NatTableOf!Del
  <1>3. ASSUME NEW s \in Slots, SwitchedOn(s)
        PROVE  NatTableOf!Next
    <2>1. PICK c \in Conns, h \in FreeHandles :
              /\ Rewritten(s, [conn |-> c, enabled |-> TRUE, hdl |-> h])
              /\ hw' = [hw EXCEPT ![h] = c]
              /\ tblHdl # 0 /\ (cache[s].enabled => BeingRestored(s))
      BY <1>3 DEF SwitchedOn
    <2>2. h \in Handles /\ hw[h] = NoConn /\ c # NoConn
      BY ConnsAssumption DEF FreeHandles
    <2>3. ASSUME NEW g \in Handles, hw[g] = c
          PROVE  FALSE
      <3>1. PICK r \in Settled : cache[r] = [conn |-> c, enabled |-> TRUE, hdl |-> g]
        BY <2>1, <2>2, <2>3 DEF RulesInv, RulesHaveEntries
      <3>2. r \in Slots /\ cache[r].conn = c /\ cache[r].enabled
        BY <3>1 DEF Settled
      <3>3. cache[s].conn = c
        BY <2>1, <2>2, <3>2 DEF Rewritten, ChkForDup, Holding
      <3>4. r = s
        BY <2>2, <3>2, <3>3 DEF ArraysInv, NoDuplicates
      <3>5. BeingRestored(s) /\ s \in Settled /\ s \in Nat
        BY <2>1, <3>1, <3>2, <3>4 DEF Slots
      <3> QED
        BY <3>5 DEF BeingRestored, Settled
    <2>4. NatTableOf!Add(h, c)
      BY <2>1, <2>2, <2>3 DEF NatTableOf!Add
    <2> QED
      BY <2>2, <2>4 DEF NatTableOf!Next
  <1> QED
    BY <1>1, <1>2, <1>3 DEF CacheEffect, SwitchedOff

\* NatApp never adds a connection that has a rule, nor deletes a rule that is gone: the
\* driver's promise is made for such a user.
THEOREM NatTableUsed ==
    ASSUME DelMayFail = FALSE
    PROVE  Spec => UsesNatTable
  <1>1. Init => NatTableOf!Init
    BY DEF Init, NatInit, NatTableOf!Init, NatTableOf!Empty, NoRules
  <1>2. ArraysInv /\ RulesInv /\ [Next]_vars => [NatTableOf!Next]_hw
    <2> SUFFICES ASSUME ArraysInv, RulesInv, [Next]_vars, hw' # hw
                 PROVE  NatTableOf!Next
      OBVIOUS
    <2>1. CASE Ordinary
      BY <2>1, EffectRefines DEF Ordinary
    <2>2. CASE WalkOn
      BY <2>2, WalkEffect, EffectRefines DEF WalkOn, ArraysInv
    <2>3. CASE hw' = NoRules
      BY <2>3 DEF NatTableOf!Next, NatTableOf!Clear, NatTableOf!Empty, NoRules
    <2>4. CASE TimeStamps
      <3>1. CacheEffect
        BY <2>4, DeleteEntryEffect
        DEF TimeStamps, UdpQuery, UdpUpdateCT, UdpDeleteEntry, CacheEffect, ArraysInv
      <3> QED
        BY <3>1, EffectRefines
    <2> QED
      BY <2>1, <2>2, <2>3, <2>4, StepKinds, TableEffect
  <1> QED
    BY <1>1, <1>2, ArraysCorrect, RulesCorrect, PTL DEF Spec, UsesNatTable, NatTableOf!Spec

-----------------------------------------------------------------------------
(* Each enabled entry has its rule, with one WAN address.                  *)

\* What this needs: a table that comes back is for the address of the last one, and
\* one thread works on the cache.
OneAddress == (\A v, w \in PubIps : v = w) /\ UdpThread = FALSE

\* No other entry loses its rule when one goes.
LEMMA OffKeepsEntries ==
    ASSUME ArraysInv, NEW S, S \subseteq Slots, EntriesHaveRules(S), NEW s \in Slots,
           SwitchedOff(s), hw' = hw \/ s \in S
    PROVE  EntriesHaveRules(S \cup {s})'
  <1> PICK e \in Entry : Rewritten(s, e) /\ ~e.enabled
    BY DEF SwitchedOff
  <1>1. cache \in [Slots -> Entry] /\ hw \in [Handles -> Conns \cup {NoConn}] /\ NoDuplicates
    BY ArraysInParts DEF Parts, CacheOK
  <1>2. \A r \in Slots : cache'[r] = IF r = s THEN e ELSE cache[r]
    BY <1>1 DEF Rewritten
  <1> SUFFICES ASSUME NEW r \in S, r # s, cache'[r].enabled
               PROVE  cache'[r].hdl \in Handles /\ hw'[cache'[r].hdl] = cache'[r].conn
    BY <1>2 DEF EntriesHaveRules
  <1>3. /\ cache'[r] = cache[r] /\ cache[r].enabled
        /\ cache[r].hdl \in Handles /\ hw[cache[r].hdl] = cache[r].conn
    BY <1>2 DEF EntriesHaveRules
  <1>4. CASE hw' = hw
    BY <1>3, <1>4
  <1>5. CASE hw' # hw
    <2>1. cache[s].enabled /\ hw' = [hw EXCEPT ![cache[s].hdl] = NoConn] /\ s \in S
      BY <1>5 DEF SwitchedOff
    <2>2. cache[s].hdl \in Handles /\ hw[cache[s].hdl] = cache[s].conn
      BY <2>1 DEF EntriesHaveRules
    <2>3. cache[r].conn # NoConn
      BY <1>3, EntryTypes DEF ArraysInv, EmptyIsZeroed
    <2>4. cache[r].conn # cache[s].conn
      BY <1>1, <2>3 DEF NoDuplicates
    <2>5. cache[r].hdl # cache[s].hdl
      BY <1>3, <2>2, <2>4
    <2> QED
      BY <1>1, <1>3, <2>1, <2>2, <2>5
  <1> QED
    BY <1>4, <1>5

\* An entry that is enabled gets a handle that was free.
LEMMA OnKeepsEntries ==
    ASSUME ArraysInv, NEW S, S \subseteq Slots, EntriesHaveRules(S),
           NEW s \in Slots, SwitchedOn(s)
    PROVE  EntriesHaveRules(S \cup {s})'
  <1> PICK c \in Conns, h \in FreeHandles :
          /\ Rewritten(s, [conn |-> c, enabled |-> TRUE, hdl |-> h])
          /\ hw' = [hw EXCEPT ![h] = c]
    BY DEF SwitchedOn
  <1> DEFINE e == [conn |-> c, enabled |-> TRUE, hdl |-> h]
  <1>1. cache \in [Slots -> Entry] /\ hw \in [Handles -> Conns \cup {NoConn}]
    BY ArraysInParts DEF Parts, CacheOK
  <1>2. h \in Handles /\ hw[h] = NoConn
    BY DEF FreeHandles
  <1>3. \A r \in Slots : cache'[r] = IF r = s THEN e ELSE cache[r]
    BY <1>1 DEF Rewritten
  <1>4. \A g \in Handles : hw'[g] = IF g = h THEN c ELSE hw[g]
    BY <1>1, <1>2
  <1> SUFFICES ASSUME NEW r \in S \cup {s}, cache'[r].enabled
               PROVE  cache'[r].hdl \in Handles /\ hw'[cache'[r].hdl] = cache'[r].conn
    BY DEF EntriesHaveRules
  <1>5. CASE r = s
    BY <1>2, <1>3, <1>4, <1>5
  <1>6. CASE r # s
    <2>1. r \in S /\ r \in Slots /\ cache'[r] = cache[r]
      BY <1>3, <1>6
    <2>2. cache[r].hdl \in Handles /\ hw[cache[r].hdl] = cache[r].conn
      BY <2>1 DEF EntriesHaveRules
    <2>3. cache[r].conn # NoConn
      BY <2>1, EntryTypes DEF ArraysInv, EmptyIsZeroed
    <2> QED
      BY <1>2, <1>4, <2>1, <2>2, <2>3
  <1> QED
    BY <1>5, <1>6

\* Without a table an operation enables nothing.
LEMMA NothingEnabled ==
    ASSUME ArraysInv, tblHdl = 0, CacheEffect
    PROVE  \A s \in Slots : cache'[s].enabled => cache[s].enabled
  <1>1. cache \in [Slots -> Entry]
    BY ArraysInParts DEF Parts, CacheOK
  <1>2. CASE cache' = cache
    BY <1>2
  <1>3. ASSUME NEW s \in Slots, NEW e \in Entry, Rewritten(s, e), ~e.enabled
        PROVE  \A r \in Slots : cache'[r].enabled => cache[r].enabled
    <2>1. \A r \in Slots : cache'[r] = IF r = s THEN e ELSE cache[r]
      BY <1>1, <1>3 DEF Rewritten
    <2> QED
      BY <1>3, <2>1
  <1> QED
    BY <1>2, <1>3 DEF CacheEffect, SwitchedOff, SwitchedOn

\* An operation, while no table is being filled again.
LEMMA OrdinaryKeepsEntries ==
    ASSUME ArraysInv, EntriesInv, Ordinary
    PROVE  EntriesInv'
  <1>1. UNCHANGED <<tblHdl, pubIp, pubIpPre, hwTable, udp>>
    BY DEF Ordinary, tableVars
  <1>2. EntriesHaveRules(Settled)'
    <2>1. CASE tblHdl = 0
      BY <1>1, <2>1 DEF Settled, EntriesHaveRules
    <2>2. CASE tblHdl # 0
      <3>1. Settled = Slots /\ Settled' = Slots
        BY <1>1, <2>2 DEF Ordinary, Settled
      <3>2. EntriesHaveRules(Slots)
        BY <3>1 DEF EntriesInv, EntriesHaveRules
      <3>3. UNCHANGED <<cache, hw>> => EntriesHaveRules(Slots)'
        BY <3>2 DEF EntriesHaveRules
      <3>4. ASSUME NEW s \in Slots, SwitchedOff(s) \/ SwitchedOn(s)
            PROVE  EntriesHaveRules(Slots)'
        <4>1. EntriesHaveRules(Slots \cup {s})'
          BY <3>2, <3>4, OffKeepsEntries, OnKeepsEntries
        <4> QED
          BY <4>1 DEF EntriesHaveRules
      <3>5. EntriesHaveRules(Slots)'
        BY <3>3, <3>4 DEF Ordinary, CacheEffect
      <3> QED
        BY <3>1, <3>5 DEF EntriesHaveRules
    <2> QED
      BY <2>1, <2>2
  <1>3. TableFits'
    BY <1>1 DEF EntriesInv, TableFits, Ordinary
  <1>4. LeftIsRestored'
    BY <1>1, NothingEnabled DEF EntriesInv, LeftIsRestored, Ordinary
  <1> QED
    BY <1>1, <1>2, <1>3, <1>4 DEF EntriesInv

\* AddTable's walk goes on with one slot more, or all of them, up to date.
LEMMA RestoreKeepsEntries ==
    ASSUME ArraysInv, EntriesInv, RestoreEntry
    PROVE  EntriesInv'
  <1> PICK S, s : S = Settled /\ s = At
    OBVIOUS
  <1>1. /\ Doing("restore") /\ tblHdl # 0 /\ hwTable # NoIp
        /\ UNCHANGED <<tblHdl, hwTable, pubIpPre, udp>>
        /\ pubIp' = IF At = MaxEntries THEN Ip ELSE pubIp
    BY DEF RestoreEntry, EntriesInv, TableFits, LeftIsRestored
  <1>2. /\ s \in Slots /\ S \subseteq Slots /\ Settled' = S \cup {s}
        /\ s = MaxEntries => ~Doing("restore")'
        /\ s # MaxEntries => Doing("restore")'
    BY <1>1, SettledOneMore
  <1>3. EntriesHaveRules(S)
    BY DEF EntriesInv, EntriesHaveRules
  <1>4. EntriesHaveRules(S \cup {s})'
    <2>1. CASE UNCHANGED <<cache, hw>> /\ ~cache[s].enabled
      BY <1>3, <2>1 DEF EntriesHaveRules
    <2>2. CASE SwitchedOff(s) /\ hw' = hw
      BY <1>2, <1>3, <2>2, OffKeepsEntries
    <2>3. CASE SwitchedOn(s)
      BY <1>2, <1>3, <2>3, OnKeepsEntries
    <2> QED
      BY <1>2, <2>1, <2>2, <2>3, RestoreEffect
  <1>5. EntriesHaveRules(Settled)'
    BY <1>2, <1>4 DEF EntriesHaveRules
  <1>6. Ip \in PubIps
    BY <1>1, WalkTypes DEF Doing, ArraysInv
  <1>7. TableFits' /\ LeftIsRestored'
    BY <1>1, <1>2, <1>6 DEF TableFits, LeftIsRestored
  <1> QED
    BY <1>1, <1>5, <1>7 DEF EntriesInv

\* AddTable: for the address of the last table, or after none.
LEMMA WanUpKeepsEntries ==
    ASSUME OneAddress, EntriesInv, NEW ip \in PubIps, NEW isSta, TriggerWANUp(ip, isSta)
    PROVE  EntriesInv'
  <1>1. loop = <<>> /\ UNCHANGED <<cache, udp, pubIpPre>>
    BY DEF TriggerWANUp, Idle, AddTable, AddTableFailed, AddTableDone
  <1>2. CASE AddTableFailed
    <2>1. UNCHANGED <<hwTable, loop>> /\ tblHdl' = 0
      BY <1>2 DEF AddTableFailed
    <2>2. ~Doing("restore")' /\ Settled' = {}
      BY <1>1, <2>1 DEF Settled, Doing
    <2> QED
      BY <1>1, <2>1, <2>2 DEF EntriesInv, EntriesHaveRules, TableFits, LeftIsRestored
  <1>3. CASE AddTableDone(ip) /\ ip = pubIpPre
    <2>1. loop' = <<WalkOf("restore", ip)>> /\ tblHdl' = 1 /\ hwTable' = ip
      BY <1>3 DEF AddTableDone
    <2>2. Doing("restore")' /\ At' = 1
      BY <2>1 DEF Doing, At, WalkOf
    <2>3. Settled' = {} /\ hwTable' # NoIp
      BY <2>1, <2>2, ConnsAssumption DEF Settled, Slots
    <2> QED
      BY <1>1, <2>1, <2>2, <2>3 DEF EntriesInv, EntriesHaveRules, TableFits, LeftIsRestored
  <1>4. CASE AddTableDone(ip) /\ ip # pubIpPre
    <2>1. /\ UNCHANGED loop /\ tblHdl' = 1 /\ pubIp' = ip /\ hwTable' = ip /\ hwTable = NoIp
          /\ ~Doing("restore")'
      BY <1>1, <1>4 DEF AddTableDone, Doing, Outcomes
    <2>2. \A s \in Slots : ~cache[s].enabled
      BY <1>4, <2>1 DEF EntriesInv, LeftIsRestored, OneAddress
    <2>3. EntriesHaveRules(Settled)'
      BY <1>1, <2>2 DEF EntriesHaveRules, Settled
    <2>4. hwTable' # NoIp
      BY <2>1, ConnsAssumption
    <2> QED
      BY <1>1, <2>1, <2>3, <2>4 DEF EntriesInv, TableFits, LeftIsRestored
  <1> QED
    BY <1>2, <1>3, <1>4 DEF TriggerWANUp, AddTable

\* DeleteTable: the table in use is the one for the address that goes down.
LEMMA WanDownKeepsEntries ==
    ASSUME OneAddress, EntriesInv, NEW ip \in PubIps, TriggerWANDown(ip)
    PROVE  EntriesInv'
  <1>1. loop = <<>> /\ UNCHANGED <<cache, loop, udp>> /\ ~Doing("restore")
    BY DEF TriggerWANDown, Idle, Doing, DeleteTable, DeleteTableRefused, DeleteTableDone, Reset
  <1>2. ~Doing("restore")'
    BY <1>1 DEF Doing
  <1>3. CASE DeleteTableRefused(ip)
    <2>1. UNCHANGED <<tblHdl, pubIp, pubIpPre, hwTable, hw>>
      BY <1>3 DEF DeleteTableRefused, tableVars
    <2>2. Settled' = Settled
      BY <1>1, <1>2, <2>1 DEF Settled
    <2> QED
      BY <1>1, <1>2, <2>1, <2>2 DEF EntriesInv, EntriesHaveRules, TableFits, LeftIsRestored
  <1>4. CASE DeleteTableDone(ip)
    <2>1. tblHdl' = 0 /\ pubIpPre' \in PubIps
      BY <1>4 DEF DeleteTableDone, Reset
    <2>2. Settled' = {}
      BY <2>1 DEF Settled
    <2> QED
      BY <1>1, <1>2, <2>1, <2>2 DEF EntriesInv, EntriesHaveRules, TableFits, LeftIsRestored
  <1> QED
    BY <1>3, <1>4 DEF TriggerWANDown, DeleteTable

\* With one WAN address the entries agree with the table in use, in the middle of
\* AddTable's walk those in the slots it has passed.
THEOREM EntriesCorrect ==
    ASSUME OneAddress
    PROVE  Spec => []EntriesInv
  <1>1. Init => EntriesInv
    BY EntryTypes
    DEF Init, NatInit, EntriesInv, EntriesHaveRules, Settled, TableFits, LeftIsRestored, Doing
  <1>2. ArraysInv /\ EntriesInv /\ [Next]_vars => EntriesInv'
    <2> SUFFICES ASSUME ArraysInv, EntriesInv, [Next]_vars PROVE EntriesInv'
      OBVIOUS
    <2>1. CASE UNCHANGED <<cache, hw, tableVars, wanUp, udp, loop>>
      BY <2>1
      DEF EntriesInv, EntriesHaveRules, Settled, TableFits, LeftIsRestored, Doing, At, tableVars
    <2>2. ~TimeStamps
      BY DEF OneAddress, EntriesInv, TimeStamps, UdpQuery, UdpUpdateCT, UdpDeleteEntry
    <2> QED
      BY <2>1, <2>2, StepKinds, OrdinaryKeepsEntries, RestoreKeepsEntries, WanUpKeepsEntries,
         WanDownKeepsEntries
  <1> QED
    BY <1>1, <1>2, ArraysCorrect, PTL DEF Spec

\* While a table is in use the handle of an enabled entry names the entry's own rule,
\* whether or not the hardware refuses to delete.
THEOREM EveryEntryHasRule ==
    ASSUME OneAddress
    PROVE  Spec => []EnabledEntryHasRule
  <1>1. EntriesInv => EnabledEntryHasRule
    BY DEF EntriesInv, EntriesHaveRules, EnabledEntryHasRule, Settled, Doing
  <1> QED
    BY <1>1, EntriesCorrect, PTL

\* Both ways: the cache and the hardware agree whatever AddTable, the power save calls
\* and the deletions have done to either.
THEOREM CacheAndHardwareAgree ==
    ASSUME OneAddress, DelMayFail = FALSE
    PROVE  Spec => []CacheMatchesHardware
  <1>1. TypeOK /\ EnabledEntryHasRule /\ RuleHasEnabledEntry => CacheMatchesHardware
    BY DEF CacheMatchesHardware
  <1> QED
    BY <1>1, TypeCorrect, EveryRuleHasEntry, EveryEntryHasRule, PTL

-----------------------------------------------------------------------------
(* An open connection of a known client that is awake is in the hardware.  *)

\* What this needs: hardware that refuses nothing, no station network, addresses that are
\* announced once, hosts that are not clients, and room for everyone in every array.
RoomForAll ==
    /\ AddMayFail = FALSE /\ DelMayFail = FALSE /\ ReAnnounce = FALSE
    /\ StaIps = {} /\ StaModes \subseteq {FALSE}
    /\ NatIfaceIps \subseteq PrivateSubnet
    /\ \A c \in Conns : Target[c] \notin ClientIps
    /\ IsFiniteSet(Conns) /\ IsFiniteSet(NatIfaceIps)
    /\ Cardinality(Conns) <= MaxEntries
    /\ Cardinality(Conns) <= MaxTemp
    /\ Cardinality(Conns) <= HwSize
    /\ Cardinality(NatIfaceIps) <= MaxNatIfaces
    /\ Cardinality(NatIfaceIps) <= MaxPwrSave

\* A walk that has begun, or waits, will still come to element k about address p.
Due(op, p, k) ==
    \E i \in 1 .. Len(loop) : loop[i].op = op /\ loop[i].ip = p /\ loop[i].at <= k

NothingYet ==
    /\ \A s \in Slots : cache[s].conn = NoConn
    /\ \A t \in TempSlots : temp[t].conn = NoConn

\* Before the WAN is up, and while AddTable walks the cache, there is nothing.
WanFirst ==
    /\ ~wanUp => live = {} /\ ctq = <<>> /\ hwTable = NoIp
    /\ wanUp => tblHdl # 0 /\ wanIp \in PubIps
    /\ ~staMode
    /\ ~wanUp \/ Doing("restore") => NothingYet

\* Each client is listed once, and only those listed are in power save.
ClientsListed ==
    /\ NatClients \subseteq NatIfaceIps \cap ClientIps
    /\ \A i, j \in IfSlots : natIf[i] = natIf[j] /\ i # j => natIf[i] = NoIp
    /\ pwrSave \subseteq NatClients

\* The last message about a connection says whether it is open.
LastAbout(i) == \A j \in 1 .. Len(ctq) : ctq[j].conn = ctq[i].conn => j <= i

LastSays ==
    \A i \in 1 .. Len(ctq) : LastAbout(i) => (ctq[i].type = "new" <=> ctq[i].conn \in live)

TempsDistinct ==
    /\ \A t, u \in TempSlots :
           temp[t].conn = temp[u].conn /\ t # u => temp[t].conn = NoConn
    /\ \A t \in TempSlots : temp[t].conn # NoConn =>
           temp[t].pub \in PubIps /\ temp[t].conn \notin AlgConns

\* A walk that takes something away is about a client that sleeps or is gone; what goes from
\* temp[] is in cache[].
WalkSound(w) ==
    /\ w.op # "staGone"
    /\ w.op = "disable" => w.ip \in pwrSave
    /\ w.op \in {"disconnect", "flushDrop"} => w.ip \notin NatClients
    /\ w.op \in TempWalks => w.ip \in ClientIps
    /\ w.op = "flushDrop" /\ w.ip \in NatIfaceIps =>
           \A t \in TempSlots : temp[t].conn # NoConn /\ Private[temp[t].conn] = w.ip
                                => ChkForDup(temp[t].conn)

WalksSound == \A i \in 1 .. Len(loop) : WalkSound(loop[i])

\* An entry that is not enabled waits for its client, or for a walk.
EntriesWait ==
    \A s \in Slots : cache[s].conn # NoConn =>
        \/ cache[s].enabled
        \/ Private[cache[s].conn] \in pwrSave
        \/ Private[cache[s].conn] \notin NatClients
        \/ Due("reenable", Private[cache[s].conn], s)

\* So does a temporary entry that is not in the cache as well.
TempsWait ==
    \A t \in TempSlots : temp[t].conn # NoConn =>
        \/ ChkForDup(temp[t].conn)
        \/ Private[temp[t].conn] \notin NatClients
        \/ Due("flushAdd", Private[temp[t].conn], t)

\* An open connection behind a NAT interface is somewhere, once its message is handled.
Located ==
    \A c \in live : ~Pending(c) /\ c \notin AlgConns /\ Private[c] \in NatIfaceIps
                    => ChkForDup(c) \/ TempHolding(c) # {}

OffloadInv ==
    /\ WanFirst /\ ClientsListed /\ LastSays /\ TempsDistinct
    /\ WalksSound /\ EntriesWait /\ TempsWait /\ Located

\* With what the cache and the hardware satisfy anyway.
AllInv == ArraysInv /\ RulesInv /\ EntriesInv /\ OffloadInv

\* Where everyone has room and x has no slot yet, a slot is free.
LEMMA SlotLeft ==
    ASSUME NEW N \in Nat, NEW S, IsFiniteSet(S), Cardinality(S) <= N,
           NEW f, NEW null, NEW x \in S,
           \A i \in 1 .. N : f[i] \in S \cup {null} /\ f[i] # x,
           \A i, j \in 1 .. N : f[i] = f[j] /\ i # j => f[i] = null
    PROVE  \E i \in 1 .. N : f[i] = null
  <1> SUFFICES ASSUME \A i \in 1 .. N : f[i] # null PROVE FALSE
    OBVIOUS
  <1> DEFINE g == [i \in 1 .. N |-> f[i]]
  <1>1. g \in [1 .. N -> S \ {x}] /\ \A i, j \in 1 .. N : g[i] = g[j] => i = j
    OBVIOUS
  <1> HIDE DEF g
  <1>2. IsFiniteSet(1 .. N) /\ Cardinality(1 .. N) = N
    BY FS_Interval
  <1>3. /\ IsFiniteSet(S \ {x}) /\ Cardinality(S \ {x}) = Cardinality(S) - 1
        /\ Cardinality(S) \in Nat
    BY FS_RemoveElement, FS_CardinalityType
  <1>4. Cardinality(S \ {x}) < Cardinality(1 .. N)
    BY <1>2, <1>3
  <1>5. \E i, j \in 1 .. N : i # j /\ g[i] = g[j]
    <2> DEFINE I == 1 .. N
               T == S \ {x}
    <2>1. /\ IsFiniteSet(I) /\ IsFiniteSet(T) /\ Cardinality(T) < Cardinality(I)
          /\ g \in [I -> T]
      BY <1>1, <1>2, <1>3, <1>4
    <2> HIDE DEF I, T
    <2>2. \E i, j \in I : i # j /\ g[i] = g[j]
      BY <2>1, FS_PigeonHole
    <2> QED
      BY <2>2 DEF I
  <1> QED
    BY <1>1, <1>5

\* A connection that is not in the cache finds a free slot.
LEMMA RoomInCache ==
    ASSUME RoomForAll, ArraysInv, NEW c \in Conns, ~ChkForDup(c)
    PROVE  EmptySlots # {}
  <1> DEFINE f == [s \in Slots |-> cache[s].conn]
  <1>1. \A s \in Slots : f[s] \in Conns \cup {NoConn} /\ f[s] # c
    BY SlotTypes DEF ArraysInv, ChkForDup, Holding
  <1>2. \A r, s \in Slots : f[r] = f[s] /\ r # s => f[r] = NoConn
    BY DEF ArraysInv, NoDuplicates
  <1> HIDE DEF f
  <1>3. MaxEntries \in Nat /\ IsFiniteSet(Conns) /\ Cardinality(Conns) <= MaxEntries
    BY SizesAssumption DEF RoomForAll
  <1>4. \E s \in 1 .. MaxEntries : f[s] = NoConn
    BY <1>1, <1>2, <1>3, SlotLeft DEF Slots
  <1> QED
    BY <1>4 DEF f, EmptySlots, Holding, Slots

\* A connection that has no temporary entry finds a free one.
LEMMA RoomInTemp ==
    ASSUME RoomForAll, ArraysInv, TempsDistinct, NEW c \in Conns, TempHolding(c) = {}
    PROVE  TempHolding(NoConn) # {}
  <1> DEFINE f == [t \in TempSlots |-> temp[t].conn]
  <1>1. \A t \in TempSlots : f[t] \in Conns \cup {NoConn} /\ f[t] # c
    BY ArraysInParts DEF Parts, TempOK, TempEntry, TempHolding
  <1>2. \A t, u \in TempSlots : f[t] = f[u] /\ t # u => f[t] = NoConn
    BY DEF TempsDistinct
  <1> HIDE DEF f
  <1>3. MaxTemp \in Nat /\ IsFiniteSet(Conns) /\ Cardinality(Conns) <= MaxTemp
    BY SizesAssumption DEF RoomForAll
  <1>4. \E t \in 1 .. MaxTemp : f[t] = NoConn
    BY <1>1, <1>2, <1>3, SlotLeft DEF TempSlots
  <1> QED
    BY <1>4 DEF f, TempHolding, TempSlots

\* A connection without a rule finds a free handle: no other has two.
LEMMA RoomInHardware ==
    ASSUME RoomForAll, ArraysInv, RulesInv, tblHdl # 0, NEW c \in Conns,
           \A s \in Slots : cache[s].conn = c => ~cache[s].enabled
    PROVE  AddRuleOutcomes = {TRUE}
  <1>1. \A h \in Handles : hw[h] # NoConn =>
            \E s \in Slots : cache[s] = [conn |-> hw[h], enabled |-> TRUE, hdl |-> h]
    BY DEF RulesInv, RulesHaveEntries, Settled
  <1>2. \A h \in 1 .. HwSize : hw[h] \in Conns \cup {NoConn} /\ hw[h] # c
    <2>1. \A h \in Handles : hw[h] \in Conns \cup {NoConn}
      BY ArraysInParts DEF Parts, CacheOK
    <2>2. \A h \in Handles : hw[h] # c
      <3> SUFFICES ASSUME NEW h \in Handles, hw[h] = c PROVE FALSE
        OBVIOUS
      <3>1. PICK s \in Slots : cache[s] = [conn |-> hw[h], enabled |-> TRUE, hdl |-> h]
        BY <1>1, ConnsAssumption
      <3> QED
        BY <3>1
    <2> QED
      BY <2>1, <2>2 DEF Handles
  <1>3. ASSUME NEW g \in Handles, NEW h \in Handles, hw[g] = hw[h], hw[g] # NoConn
        PROVE  g = h
    <2>1. PICK r \in Slots : cache[r] = [conn |-> hw[g], enabled |-> TRUE, hdl |-> g]
      BY <1>1, <1>3
    <2>2. PICK s \in Slots : cache[s] = [conn |-> hw[h], enabled |-> TRUE, hdl |-> h]
      BY <1>1, <1>3
    <2>3. r = s
      BY <1>3, <2>1, <2>2 DEF ArraysInv, NoDuplicates
    <2> QED
      BY <2>1, <2>2, <2>3
  <1>4. \A g, h \in 1 .. HwSize : hw[g] = hw[h] /\ g # h => hw[g] = NoConn
    BY <1>3 DEF Handles
  <1>5. HwSize \in Nat /\ IsFiniteSet(Conns) /\ Cardinality(Conns) <= HwSize
    BY SizesAssumption DEF RoomForAll
  <1>6. \E h \in 1 .. HwSize : hw[h] = NoConn
    BY <1>2, <1>4, <1>5, SlotLeft
  <1>7. FreeHandles # {}
    BY <1>6 DEF FreeHandles, Handles
  <1> QED
    BY <1>7 DEF AddRuleOutcomes, Outcomes, RoomForAll

\* A client that is not listed finds a free place in the list.
LEMMA RoomForClient ==
    ASSUME RoomForAll, ArraysInv, ClientsListed, NEW ip \in NatIfaceIps, ip \notin NatClients
    PROVE  \E i \in IfSlots : natIf[i] = NoIp
  <1>1. ip # NoIp
    BY ConnsAssumption, ListenerAssumption
  <1>2. \A i \in 1 .. MaxNatIfaces : natIf[i] \in NatIfaceIps \cup {NoIp} /\ natIf[i] # ip
    BY <1>1 DEF ClientsListed, NatClients, IfSlots
  <1>3. \A i, j \in 1 .. MaxNatIfaces : natIf[i] = natIf[j] /\ i # j => natIf[i] = NoIp
    BY DEF ClientsListed, IfSlots
  <1>4. /\ MaxNatIfaces \in Nat
        /\ IsFiniteSet(NatIfaceIps) /\ Cardinality(NatIfaceIps) <= MaxNatIfaces
    BY ListenerAssumption DEF RoomForAll
  <1>5. \E i \in 1 .. MaxNatIfaces : natIf[i] = NoIp
    <2> PICK f : f = natIf
      OBVIOUS
    <2>1. /\ \A i \in 1 .. MaxNatIfaces : f[i] \in NatIfaceIps \cup {NoIp} /\ f[i] # ip
          /\ \A i, j \in 1 .. MaxNatIfaces : f[i] = f[j] /\ i # j => f[i] = NoIp
      BY <1>2, <1>3
    <2>2. \E i \in 1 .. MaxNatIfaces : f[i] = NoIp
      BY <1>4, <2>1, SlotLeft
    <2> QED
      BY <2>2
  <1> QED
    BY <1>5 DEF IfSlots

\* One step of a walk: the first walk is over, or at its next element.
LEMMA WalkMoves ==
    ASSUME ArraysInv, loop # <<>>, Advance
    PROVE  LET w == Head(loop) IN
           \/ /\ At = LastOf(w.op) /\ Len(loop') = Len(loop) - 1
              /\ \A i \in 1 .. Len(loop') : loop'[i] = loop[i + 1]
           \/ /\ Len(loop') = Len(loop)
              /\ loop'[1].op = w.op /\ loop'[1].ip = w.ip /\ loop'[1].at = w.at + 1
              /\ \A i \in 1 .. Len(loop') : i # 1 => loop'[i] = loop[i]
  <1> DEFINE w == Head(loop)
  <1>1. w \in Walk /\ loop \in Seq(Walk)
    BY WalkTypes DEF ArraysInv
  <1>2. CASE At = LastOf(w.op)
    <2>1. loop' = Tail(loop)
      BY <1>2 DEF Advance
    <2> QED
      BY <1>1, <1>2, <2>1
  <1>3. CASE At # LastOf(w.op)
    <2> DEFINE v == [w EXCEPT !.at = @ + 1]
    <2>1. v.op = w.op /\ v.ip = w.ip /\ v.at = w.at + 1
      BY <1>1 DEF Walk
    <2>2. loop' = <<v>> \o Tail(loop)
      BY <1>3 DEF Advance
    <2> HIDE DEF v, w
    <2>3. Len(loop') = Len(loop) /\ loop'[1] = v /\ \A i \in 1 .. Len(loop') : i # 1 => loop'[i] = loop[i]
      BY <1>1, <2>2
    <2> QED
      BY <2>1, <2>3 DEF w
  <1> QED
    BY <1>2, <1>3

\* What is due stays due until the walk comes to it.
LEMMA DueStays ==
    ASSUME ArraysInv, loop # <<>>, Advance, NEW op, NEW p, NEW k \in Nat, k <= LastOf(op),
           Due(op, p, k)
    PROVE  Due(op, p, k)' \/ (Doing(op) /\ Ip = p /\ At = k)
  <1> PICK i \in 1 .. Len(loop) : loop[i].op = op /\ loop[i].ip = p /\ loop[i].at <= k
    BY DEF Due
  <1> DEFINE w == Head(loop)
  <1>1. w = loop[1] /\ loop \in Seq(Walk) /\ At = w.at /\ Ip = w.ip /\ w.at \in Nat
        /\ LastOf(op) \in Nat
    <2>1. w = loop[1] /\ loop \in Seq(Walk) /\ w \in Walk
      BY WalkTypes DEF ArraysInv
    <2> QED
      BY <2>1, SizesAssumption DEF At, Ip, LastOf, Walk
  <1>2. CASE /\ At = LastOf(w.op) /\ Len(loop') = Len(loop) - 1
             /\ \A j \in 1 .. Len(loop') : loop'[j] = loop[j + 1]
    <2>1. CASE i = 1
      BY <1>1, <1>2, <2>1 DEF Doing
    <2>2. CASE i # 1
      <3>1. i - 1 \in 1 .. Len(loop') /\ loop'[i - 1] = loop[i]
        BY <1>1, <1>2, <2>2
      <3> QED
        BY <3>1 DEF Due
    <2> QED
      BY <2>1, <2>2
  <1>3. CASE /\ Len(loop') = Len(loop)
             /\ loop'[1].op = w.op /\ loop'[1].ip = w.ip /\ loop'[1].at = w.at + 1
             /\ \A j \in 1 .. Len(loop') : j # 1 => loop'[j] = loop[j]
    <2>1. i \in 1 .. Len(loop')
      BY <1>3
    <2>2. CASE i = 1
      <3>1. CASE w.at = k
        BY <1>1, <2>2, <3>1 DEF Doing
      <3>2. CASE w.at # k
        <4>1. w.at + 1 <= k
          BY <1>1, <2>2, <3>2
        <4> QED
          BY <1>1, <1>3, <2>1, <2>2, <4>1 DEF Due
      <3> QED
        BY <3>1, <3>2
    <2>3. CASE i # 1
      BY <1>3, <2>1, <2>3 DEF Due
    <2> QED
      BY <2>2, <2>3
  <1> QED
    BY <1>2, <1>3, WalkMoves

\* An entry with its rule, or of a client that sleeps or is gone.
Rests(e) == e.enabled \/ Private[e.conn] \in pwrSave \/ Private[e.conn] \notin NatClients

\* No entry goes, and those that change are at rest.
CacheFollows ==
    \A s \in Slots :
        \/ cache'[s] = cache[s]
        \/ cache[s].conn \in {NoConn, cache'[s].conn} /\ Rests(cache'[s])

NowCached(c) == \E s \in Slots : cache'[s].conn = c

\* A temporary entry goes when it is in the cache, or cannot be for a NAT interface.
TempsFollow ==
    \A t \in TempSlots :
        \/ temp'[t] = temp[t]
        \/ /\ temp'[t] = NoTemp /\ temp[t].conn # NoConn
           /\ NowCached(temp[t].conn) \/ Private[temp[t].conn] \notin NatIfaceIps

\* What is in the cache stays there.
LEMMA CacheKept ==
    ASSUME CacheFollows, NEW c \in Conns, ChkForDup(c)
    PROVE  NowCached(c)
  <1> PICK s \in Slots : cache[s].conn = c
    BY DEF ChkForDup, Holding
  <1>1. cache'[s].conn = c
    BY ConnsAssumption DEF CacheFollows
  <1> QED
    BY <1>1 DEF NowCached

\* One slot is written.
LEMMA SlotFollows ==
    ASSUME TypeOK, NEW s \in Slots, NEW e, cache' = [cache EXCEPT ![s] = e],
           cache[s].conn \in {NoConn, e.conn}, Rests(e)
    PROVE  CacheFollows /\ cache'[s] = e
  <1>1. cache \in [Slots -> Entry]
    BY DEF TypeOK, NatTypeOK
  <1> QED
    BY <1>1 DEF CacheFollows

\* AddEntry: a connection that is let in is in the cache, and at rest.
LEMMA AddEntryFollows ==
    ASSUME RoomForAll, AllInv, tblHdl # 0, NEW c \in Conns, NEW added, AddEntry(c, added)
    PROVE  CacheFollows /\ (c \notin AlgConns => NowCached(c))
  <1>1. ASSUME NEW s \in EmptySlots, NEW e, cache' = [cache EXCEPT ![s] = e], e.conn = c,
               Rests(e)
        PROVE  CacheFollows /\ NowCached(c)
    <2>1. s \in Slots /\ cache[s].conn = NoConn
      BY DEF EmptySlots, Holding
    <2>2. CacheFollows /\ cache'[s] = e
      BY <1>1, <2>1, SlotFollows DEF AllInv, ArraysInv
    <2> QED
      BY <1>1, <2>1, <2>2 DEF NowCached
  <1>2. CASE AddEntryRefused(c, added)
    <2>1. cache' = cache
      BY <1>2 DEF AddEntryRefused
    <2>2. ChkForDup(c) => NowCached(c)
      BY <2>1 DEF ChkForDup, Holding, NowCached
    <2>3. c \in AlgConns \/ ChkForDup(c)
      BY <1>2, RoomInCache DEF AddEntryRefused, isAlgPort, AllInv
    <2> QED
      BY <2>1, <2>2, <2>3 DEF CacheFollows
  <1>3. CASE AddEntryCached(c, added)
    <2> DEFINE e == [NoEntry EXCEPT !.conn = c]
    <2>1. PICK s \in EmptySlots : cache' = [cache EXCEPT ![s] = e]
      BY <1>3 DEF AddEntryCached, IsFirst
    <2>2. e.conn = c
      BY DEF NoEntry
    <2>3. Target[c] \notin pwrSave
      BY DEF RoomForAll, AllInv, OffloadInv, ClientsListed
    <2>4. Rests(e)
      BY <1>3, <2>2, <2>3 DEF AddEntryCached, isPwrSaveIf, Rests
    <2> HIDE DEF e
    <2> QED
      BY <1>1, <2>1, <2>2, <2>4
  <1>4. CASE AddEntryOffloaded(c, added)
    <2>1. PICK s \in EmptySlots, h \in FreeHandles :
              cache' = [cache EXCEPT ![s] = [conn |-> c, enabled |-> TRUE, hdl |-> h]]
      BY <1>4 DEF AddEntryOffloaded, IsFirst
    <2> DEFINE e == [conn |-> c, enabled |-> TRUE, hdl |-> h]
    <2>2. e.conn = c /\ Rests(e)
      BY DEF Rests
    <2> HIDE DEF e
    <2> QED
      BY <1>1, <2>1, <2>2 DEF e
  <1>5. ~AddEntryFailed(c, added)
    <2> SUFFICES ASSUME ~ChkForDup(c) PROVE FALSE \notin AddRuleOutcomes
      BY DEF AddEntryFailed, AddEntryAccepted
    <2>1. \A s \in Slots : cache[s].conn # c
      BY DEF ChkForDup, Holding
    <2> QED
      BY <2>1, RoomInHardware DEF AllInv
  <1> QED
    BY <1>2, <1>3, <1>4, <1>5 DEF AddEntry

\* When there is something to walk over, the WAN is up and its table in use.
LEMMA TableInUse ==
    ASSUME OneAddress, AllInv, ~NothingYet
    PROVE  wanUp /\ tblHdl # 0 /\ pubIp \in PubIps /\ ~Doing("restore")
  <1>1. wanUp /\ tblHdl # 0 /\ ~Doing("restore")
    BY DEF AllInv, OffloadInv, WanFirst
  <1> QED
    BY <1>1 DEF AllInv, EntriesInv, TableFits

\* Disable: an entry keeps its connection.
LEMMA DisableFollows ==
    ASSUME TypeOK, NEW s \in Slots, NEW hdl \in 0 .. HwSize, Disable(s, hdl),
           \/ Private[cache[s].conn] \in pwrSave
           \/ Private[cache[s].conn] \notin NatClients
    PROVE  CacheFollows
  <1> DEFINE e == [conn |-> cache[s].conn, enabled |-> FALSE, hdl |-> hdl]
  <1>1. cache' = cache \/ cache' = [cache EXCEPT ![s] = e]
    BY EntryWritten DEF Disable
  <1>2. e.conn = cache[s].conn /\ Rests(e)
    BY DEF Rests
  <1> HIDE DEF e
  <1> QED
    BY <1>1, <1>2, SlotFollows DEF CacheFollows

\* ReAdd: with room in the hardware the entry gets its rule.
LEMMA ReAddFollows ==
    ASSUME RoomForAll, OneAddress, AllInv, NEW s \in Slots, cache[s].conn # NoConn,
           ~cache[s].enabled, ReAdd(s)
    PROVE  CacheFollows /\ cache'[s].enabled
  <1>1. cache[s].conn \in Conns /\ TypeOK
    BY SlotTypes DEF AllInv, ArraysInv
  <1>2. \A r \in Slots : cache[r].conn = cache[s].conn => ~cache[r].enabled
    BY DEF AllInv, ArraysInv, NoDuplicates
  <1>3. AddRuleOutcomes = {TRUE}
    <2>1. tblHdl # 0
      BY TableInUse DEF NothingYet
    <2> QED
      BY <1>1, <1>2, <2>1, RoomInHardware DEF AllInv
  <1>4. PICK h \in FreeHandles : cache' = [cache EXCEPT ![s].hdl = h, ![s].enabled = TRUE]
    BY <1>3 DEF ReAdd
  <1> DEFINE e == [conn |-> cache[s].conn, enabled |-> TRUE, hdl |-> h]
  <1>5. h \in 0 .. HwSize
    BY SizesAssumption DEF FreeHandles, Handles
  <1>6. cache' = [cache EXCEPT ![s] = e]
    BY <1>1, <1>4, <1>5, EntryWritten
  <1>7. e.conn = cache[s].conn /\ e.enabled /\ Rests(e)
    BY DEF Rests
  <1> HIDE DEF e
  <1> QED
    BY <1>1, <1>6, <1>7, SlotFollows

\* What a walk does at an element, its own client's above all.
WalkDoes ==
    /\ CacheFollows /\ TempsFollow
    /\ Doing("reenable") /\ OfPrivate(At, Ip) => cache'[At].enabled
    /\ Doing("flushAdd") /\ temp[At].conn # NoConn /\ Private[temp[At].conn] = Ip
           => NowCached(temp[At].conn)

\* The walks of the cache.
LEMMA CacheWalkFollows ==
    ASSUME RoomForAll, OneAddress, AllInv,
           ReenableEntry \/ DisableEntry \/ DisconnectEntry \/ StaGoneEntry
    PROVE  WalkDoes
  <1>1. /\ loop # <<>> /\ temp' = temp
        /\ ~Doing("flushAdd")
        /\ Head(loop).op \notin TempWalks
    BY DEF ReenableEntry, DisableEntry, DisconnectEntry, StaGoneEntry, Doing, TempWalks
  <1>2. TypeOK /\ WalksInRange /\ EmptyIsZeroed
    BY DEF AllInv, ArraysInv
  <1>3. At \in Slots /\ loop \in Seq(Walk) /\ Head(loop) = loop[1] /\ 1 \in 1 .. Len(loop)
    BY <1>1, <1>2, WalkTypes
  <1>4. WalkSound(Head(loop))
    BY <1>3 DEF AllInv, OffloadInv, WalksSound
  <1>5. cache' = cache => CacheFollows
    BY DEF CacheFollows
  <1>6. cache[At].hdl \in 0 .. HwSize /\ 0 \in 0 .. HwSize
    BY <1>2, <1>3, SlotTypes, SizesAssumption
  <1>7. TempsFollow
    BY <1>1 DEF TempsFollow
  <1>8. CASE ReenableEntry
    <2>1. CASE OfPrivate(At, Ip) /\ ~cache[At].enabled
      BY <1>1, <1>3, <1>7, <1>8, <2>1, ReAddFollows DEF ReenableEntry, OfPrivate, WalkDoes
    <2>2. CASE ~(OfPrivate(At, Ip) /\ ~cache[At].enabled)
      BY <1>1, <1>5, <1>7, <1>8, <2>2 DEF ReenableEntry, WalkDoes
    <2> QED
      BY <2>1, <2>2
  <1>9. CASE DisableEntry
    <2>1. Ip \in pwrSave /\ ~Doing("reenable")
      BY <1>4, <1>9 DEF WalkSound, DisableEntry, Doing, Ip
    <2>2. CacheFollows
      BY <1>2, <1>3, <1>5, <1>6, <1>9, <2>1, DisableFollows DEF DisableEntry, OfPrivate
    <2> QED
      BY <1>1, <1>7, <2>1, <2>2 DEF WalkDoes
  <1>10. CASE DisconnectEntry
    <2>1. Ip \notin NatClients /\ ~Doing("reenable")
      BY <1>4, <1>10 DEF WalkSound, DisconnectEntry, Doing, Ip
    <2>2. CacheFollows
      BY <1>2, <1>3, <1>5, <1>6, <1>10, <2>1, DisableFollows DEF DisconnectEntry, OfPrivate
    <2> QED
      BY <1>1, <1>7, <2>1, <2>2 DEF WalkDoes
  <1>11. ~StaGoneEntry
    BY <1>4 DEF WalkSound, StaGoneEntry, Doing
  <1> QED
    BY <1>8, <1>9, <1>10, <1>11

\* The walk of the temporary entries.
LEMMA TempWalkFollows ==
    ASSUME RoomForAll, OneAddress, AllInv, FlushTempEntry
    PROVE  WalkDoes
  <1>1. loop # <<>> /\ Head(loop).op \in TempWalks /\ ~Doing("reenable")
    BY DEF FlushTempEntry, Doing, TempWalks
  <1>2. TypeOK /\ WalksInRange /\ temp \in [TempSlots -> TempEntry]
    BY DEF AllInv, ArraysInv, TypeOK, NatTypeOK
  <1>3. At \in TempSlots /\ loop \in Seq(Walk) /\ Head(loop) = loop[1] /\ 1 \in 1 .. Len(loop)
    BY <1>1, <1>2, WalkTypes
  <1>4. WalkSound(Head(loop))
    BY <1>3 DEF AllInv, OffloadInv, WalksSound
  <1> PICK t \in TempSlots : t = At
    BY <1>3
  <1> DEFINE c == temp[t].conn
  <1>5. c \in Conns \cup {NoConn}
    BY <1>2 DEF TempEntry
  <1>6. cache' = cache => CacheFollows
    BY DEF CacheFollows
  <1>7. TempOf(t, Ip) <=> c # NoConn /\ Private[c] = Ip
    <2>1. Ip \in ClientIps
      BY <1>1, <1>4 DEF WalkSound, Ip
    <2> QED
      BY <1>5, <2>1 DEF TempOf, RoomForAll
  <1>8. CASE ~TempOf(t, Ip)
    <2>1. UNCHANGED <<cache, temp>>
      BY <1>8 DEF FlushTempEntry
    <2> QED
      BY <1>1, <1>6, <1>7, <1>8, <2>1 DEF WalkDoes, TempsFollow
  <1>9. ASSUME TempOf(t, Ip), temp' = temp \/ temp' = [temp EXCEPT ![t] = NoTemp],
               NowCached(c) \/ Private[c] \notin NatIfaceIps
        PROVE  TempsFollow
    BY <1>2, <1>7, <1>9 DEF TempsFollow
  <1>10. CASE TempOf(t, Ip) /\ Doing("flushAdd")
    <2>1. wanUp /\ tblHdl # 0 /\ pubIp \in PubIps
      BY <1>7, <1>10, TableInUse DEF NothingYet
    <2>2. c \in Conns /\ c \notin AlgConns /\ temp[t].pub \in PubIps
      BY <1>5, <1>7, <1>10 DEF AllInv, OffloadInv, TempsDistinct
    <2>3. temp[t].pub = pubIp
      BY <2>1, <2>2 DEF OneAddress
    <2>4. PICK added \in BOOLEAN :
              AddEntry(c, added) /\ (temp' = temp \/ temp' = [temp EXCEPT ![t] = NoTemp])
      BY <1>10, <2>3 DEF FlushTempEntry, FlushedTemp, Doing
    <2>5. CacheFollows /\ NowCached(c)
      BY <2>1, <2>2, <2>4, AddEntryFollows
    <2> QED
      BY <1>1, <1>9, <1>10, <2>4, <2>5 DEF WalkDoes
  <1>11. CASE TempOf(t, Ip) /\ Doing("flushDrop")
    <2>1. cache' = cache /\ temp' = [temp EXCEPT ![t] = NoTemp] /\ ~Doing("flushAdd")
      BY <1>11 DEF FlushTempEntry, FlushedTemp, Doing
    <2>2. Private[c] \in NatIfaceIps => ChkForDup(c)
      BY <1>4, <1>7, <1>11 DEF WalkSound, Doing, Ip
    <2>3. ChkForDup(c) => NowCached(c)
      BY <2>1 DEF ChkForDup, Holding, NowCached
    <2> QED
      BY <1>1, <1>6, <1>9, <1>11, <2>1, <2>2, <2>3 DEF WalkDoes
  <1> QED
    BY <1>8, <1>10, <1>11 DEF FlushTempEntry

\* Where there is nothing the walks find nothing.
LEMMA NothingToWalk ==
    ASSUME NothingYet, ArraysInv, WalkStep
    PROVE  UNCHANGED <<cache, temp>>
  <1>1. loop # <<>>
    BY DEF WalkStep, RestoreEntry, ReenableEntry, DisableEntry, DisconnectEntry,
           StaGoneEntry, FlushTempEntry, Doing
  <1>2. /\ Head(loop).op \notin TempWalks => At \in Slots
        /\ Head(loop).op \in TempWalks => At \in TempSlots
    BY <1>1, WalkTypes DEF ArraysInv
  <1>3. CASE FlushTempEntry
    <2>1. ~TempOf(At, Ip)
      BY <1>2, <1>3 DEF FlushTempEntry, Doing, TempWalks, TempOf, NothingYet
    <2> QED
      BY <1>3, <2>1 DEF FlushTempEntry
  <1>4. CASE ~FlushTempEntry
    <2>1. Head(loop).op \notin TempWalks
      BY <1>4 DEF WalkStep, RestoreEntry, ReenableEntry, DisableEntry, DisconnectEntry,
                  StaGoneEntry, Doing, TempWalks
    <2>2. cache[At].conn = NoConn
      BY <1>2, <2>1 DEF NothingYet
    <2> QED
      BY <1>4, <2>2 DEF WalkStep, RestoreEntry, ReenableEntry, DisableEntry, DisconnectEntry,
                        StaGoneEntry, OfPrivate, OfTarget
  <1> QED
    BY <1>3, <1>4

\* Every walk, that of AddTable too.
LEMMA WalkFollows ==
    ASSUME RoomForAll, OneAddress, AllInv, WalkStep
    PROVE  WalkDoes
  <1>1. CASE RestoreEntry
    <2>1. Doing("restore") /\ ~Doing("reenable") /\ ~Doing("flushAdd")
      BY <1>1 DEF RestoreEntry, Doing
    <2>2. UNCHANGED <<cache, temp>>
      BY <2>1, NothingToWalk DEF AllInv, OffloadInv, WanFirst
    <2> QED
      BY <2>1, <2>2 DEF WalkDoes, CacheFollows, TempsFollow
  <1> QED
    BY <1>1, CacheWalkFollows, TempWalkFollows DEF WalkStep

\* What a walk leaves of each part of the invariant.
LEMMA WalkKeepsOffload ==
    ASSUME RoomForAll, OneAddress, AllInv, WalkOn
    PROVE  OffloadInv'
  <1>1. /\ loop # <<>> /\ Advance
        /\ UNCHANGED <<tblHdl, hwTable, pwrSave, wanUp, wanIp, staMode, natIf, live, ctq>>
    BY DEF WalkOn, WalkStep, RestoreEntry, ReenableEntry, DisableEntry, DisconnectEntry,
           StaGoneEntry, FlushTempEntry, Doing, tableVars, listenerVars, outerVars
  <1>2. WalkDoes /\ ArraysInv
    BY WalkFollows DEF WalkOn, AllInv
  <1>3. temp \in [TempSlots -> TempEntry] /\ cache \in [Slots -> Entry]
    BY <1>2 DEF ArraysInv, TypeOK, NatTypeOK
  <1>4. \A t \in TempSlots : temp[t].conn \in Conns \cup {NoConn}
    BY <1>3 DEF TempEntry
  <1>5. NatClients' = NatClients
    BY <1>1 DEF NatClients
  <1>6. ClientsListed' /\ LastSays'
    BY <1>1, <1>5 DEF AllInv, OffloadInv, ClientsListed, LastSays, LastAbout
  <1>7. WanFirst'
    <2>1. Doing("restore")' => Doing("restore")
      BY <1>1, <1>2, RestoreGoesOn DEF ArraysInv
    <2>2. NothingYet => NothingYet'
      BY <1>2, NothingToWalk DEF NothingYet, WalkOn
    <2> QED
      BY <1>1, <2>1, <2>2 DEF AllInv, OffloadInv, WanFirst
  <1>8. \A t \in TempSlots : temp'[t].conn # NoConn => temp'[t] = temp[t]
    BY <1>2 DEF WalkDoes, TempsFollow, NoTemp
  <1>9. TempsDistinct'
    BY <1>8 DEF AllInv, OffloadInv, TempsDistinct
  <1>10. \A c \in Conns : ChkForDup(c) => NowCached(c)
    BY <1>2, CacheKept DEF WalkDoes
  <1>11. WalksSound'
    <2>1. ASSUME NEW w, WalkSound(w), NEW v, v.op = w.op, v.ip = w.ip
          PROVE  /\ v.op # "staGone"
                 /\ v.op = "disable" => v.ip \in pwrSave'
                 /\ v.op \in {"disconnect", "flushDrop"} => v.ip \notin NatClients'
                 /\ v.op \in TempWalks => v.ip \in ClientIps
                 /\ v.op = "flushDrop" /\ v.ip \in NatIfaceIps =>
                        \A t \in TempSlots :
                            temp'[t].conn # NoConn /\ Private[temp'[t].conn] = v.ip
                            => NowCached(temp'[t].conn)
      BY <1>1, <1>4, <1>5, <1>8, <1>10, <2>1 DEF WalkSound
    <2>2. \A i \in 1 .. Len(loop') : \E j \in 1 .. Len(loop) :
              loop'[i].op = loop[j].op /\ loop'[i].ip = loop[j].ip
      <3>1. loop \in Seq(Walk) /\ Head(loop) = loop[1] /\ 1 \in 1 .. Len(loop)
        BY <1>1, <1>2 DEF ArraysInv, TypeOK, NatTypeOK
      <3>2. ASSUME NEW i \in 1 .. Len(loop'), Len(loop') = Len(loop) - 1
            PROVE  i + 1 \in 1 .. Len(loop)
        BY <3>1, <3>2
      <3> QED
        BY <1>1, <1>2, <3>1, <3>2, WalkMoves
    <2>3. \A j \in 1 .. Len(loop) : WalkSound(loop[j])
      BY DEF AllInv, OffloadInv, WalksSound
    <2> QED
      BY <2>1, <2>2, <2>3 DEF WalksSound, WalkSound, ChkForDup, Holding, NowCached
  <1>12. EntriesWait'
    <2> SUFFICES ASSUME NEW s \in Slots, cache'[s].conn # NoConn, ~Rests(cache'[s])
                 PROVE  Due("reenable", Private[cache[s].conn], s)' /\ cache'[s] = cache[s]
      BY <1>1, <1>5 DEF EntriesWait, Rests, Due
    <2>1. cache'[s] = cache[s]
      BY <1>2 DEF WalkDoes, CacheFollows
    <2>2. Due("reenable", Private[cache[s].conn], s)
      BY <2>1 DEF AllInv, OffloadInv, EntriesWait, Rests
    <2>3. s \in Nat /\ s <= LastOf("reenable")
      BY SizesAssumption DEF Slots, LastOf, TempWalks
    <2>4. ~(Doing("reenable") /\ Ip = Private[cache[s].conn] /\ At = s)
      BY <1>2, <2>1 DEF WalkDoes, OfPrivate, Rests
    <2> PICK p : p = Private[cache[s].conn]
      OBVIOUS
    <2> QED
      BY <1>1, <1>2, <2>1, <2>2, <2>3, <2>4, DueStays
  <1>13. TempsWait'
    <2> SUFFICES ASSUME NEW t \in TempSlots, temp'[t].conn # NoConn,
                        ~NowCached(temp'[t].conn), Private[temp'[t].conn] \in NatClients
                 PROVE  \E i \in 1 .. Len(loop') :
                            /\ loop'[i].op = "flushAdd" /\ loop'[i].ip = Private[temp'[t].conn]
                            /\ loop'[i].at <= t
      BY <1>5 DEF TempsWait, ChkForDup, Holding, NowCached, Due
    <2> PICK c \in Conns : c = temp[t].conn
      BY <1>4, <1>8
    <2> PICK p : p = Private[c]
      OBVIOUS
    <2>1. temp'[t] = temp[t]
      BY <1>8
    <2>2. Due("flushAdd", p, t)
      BY <1>10, <2>1 DEF AllInv, OffloadInv, TempsWait
    <2>3. t \in Nat /\ t <= LastOf("flushAdd")
      BY SizesAssumption DEF TempSlots, LastOf, TempWalks
    <2>4. ~(Doing("flushAdd") /\ Ip = p /\ At = t)
      BY <1>2, <2>1 DEF WalkDoes
    <2>5. Due("flushAdd", p, t)'
      BY <1>1, <1>2, <2>2, <2>3, <2>4, DueStays
    <2> QED
      BY <2>1, <2>5 DEF Due
  <1>14. Located'
    <2> SUFFICES ASSUME NEW c \in live, ~Pending(c), c \notin AlgConns,
                        Private[c] \in NatIfaceIps, ~NowCached(c)
                 PROVE  TempHolding(c)' # {}
      BY <1>1 DEF Located, Pending, ChkForDup, Holding, NowCached
    <2>1. c \in Conns
      BY <1>2 DEF ArraysInv, TypeOK
    <2>2. PICK t \in TempSlots : temp[t].conn = c
      BY <1>10, <2>1 DEF AllInv, OffloadInv, Located, TempHolding
    <2>3. temp'[t] = temp[t]
      BY <1>2, <2>2 DEF WalkDoes, TempsFollow
    <2> QED
      BY <2>2, <2>3 DEF TempHolding
  <1> QED
    BY <1>6, <1>7, <1>9, <1>11, <1>12, <1>13, <1>14 DEF OffloadInv

\* What a message about connection c leaves: the entries of the others, and one of c when c
\* is new.
Somewhere(d)    == ChkForDup(d) \/ TempHolding(d) # {}
NowSomewhere(d) == NowCached(d) \/ \E t \in TempSlots : temp'[t].conn = d

MessageDoes(c) ==
    /\ TempsDistinct' /\ EntriesWait' /\ TempsWait'
    /\ \A d \in Conns \ {c} : Somewhere(d) => NowSomewhere(d)

\* Nothing walks and no list changes.
Still == UNCHANGED <<loop, natIf, pwrSave>>

\* Entries that are added, the temporary ones as they are.
LEMMA EntryAdded ==
    ASSUME AllInv, CacheFollows, temp' = temp, Still, NEW c
    PROVE  MessageDoes(c)
  <1>1. TypeOK
    BY DEF AllInv, ArraysInv
  <1>2. \A t \in TempSlots : temp[t].conn \in Conns \cup {NoConn}
    BY <1>1 DEF TypeOK, NatTypeOK, TempEntry
  <1>3. \A d \in Conns : ChkForDup(d) => NowCached(d)
    BY CacheKept
  <1>4. TempsDistinct'
    BY DEF AllInv, OffloadInv, TempsDistinct
  <1>5. EntriesWait'
    BY DEF AllInv, OffloadInv, EntriesWait, CacheFollows, Rests, Still, Due, NatClients
  <1>6. TempsWait'
    <2> SUFFICES ASSUME NEW t \in TempSlots, temp[t].conn # NoConn,
                        ~NowCached(temp[t].conn), Private[temp[t].conn] \in NatClients
                 PROVE  Due("flushAdd", Private[temp[t].conn], t)
      BY DEF TempsWait, ChkForDup, Holding, NowCached, Due, Still, NatClients
    <2> QED
      BY <1>2, <1>3 DEF AllInv, OffloadInv, TempsWait
  <1>7. \A d \in Conns : Somewhere(d) => NowSomewhere(d)
    BY <1>3 DEF Somewhere, NowSomewhere, TempHolding
  <1> QED
    BY <1>4, <1>5, <1>6, <1>7 DEF MessageDoes

\* A temporary entry of a client that is not known, or none.
LEMMA TempAdded ==
    ASSUME RoomForAll, AllInv, NEW c \in Conns, AddTempEntry(c, wanIp), wanIp \in PubIps,
           Private[c] \notin NatClients, cache' = cache, Still
    PROVE  MessageDoes(c) /\ (c \notin AlgConns => NowSomewhere(c))
  <1>1. /\ temp \in [TempSlots -> TempEntry] /\ c # NoConn
        /\ CacheFollows
    BY ConnsAssumption DEF AllInv, ArraysInv, TypeOK, NatTypeOK, CacheFollows
  <1>2. CASE temp' = temp /\ (c \in AlgConns \/ Somewhere(c))
    <2>1. Somewhere(c) => NowSomewhere(c)
      BY <1>2 DEF Somewhere, NowSomewhere, NowCached, TempHolding, ChkForDup, Holding
    <2> QED
      BY <1>1, <1>2, <2>1, EntryAdded
  <1>3. ASSUME NEW t \in TempSlots, temp[t].conn = NoConn, TempHolding(c) = {},
               c \notin AlgConns, temp' = [temp EXCEPT ![t] = [conn |-> c, pub |-> wanIp]]
        PROVE  MessageDoes(c) /\ NowSomewhere(c)
    <2>1. temp'[t].conn = c /\ temp'[t].pub = wanIp
      BY <1>1, <1>3
    <2>2. \A u \in TempSlots : u # t => temp'[u] = temp[u]
      BY <1>1, <1>3
    <2>3. TempsDistinct'
      <3>1. \A u \in TempSlots : temp[u].conn # c
        BY <1>3 DEF TempHolding
      <3>2. TempsDistinct
        BY DEF AllInv, OffloadInv
      <3>3. \A u, v \in TempSlots :
                temp'[u].conn = temp'[v].conn /\ u # v => temp'[u].conn = NoConn
        BY <2>1, <2>2, <3>1, <3>2 DEF TempsDistinct
      <3>4. \A u \in TempSlots : temp'[u].conn # NoConn =>
                temp'[u].pub \in PubIps /\ temp'[u].conn \notin AlgConns
        BY <1>3, <2>1, <2>2, <3>2 DEF TempsDistinct
      <3> QED
        BY <3>3, <3>4 DEF TempsDistinct
    <2>4. EntriesWait'
      BY DEF AllInv, OffloadInv, EntriesWait, Still, Due, NatClients
    <2>5. TempsWait'
      <3> SUFFICES ASSUME NEW u \in TempSlots, temp'[u].conn # NoConn,
                          ~NowCached(temp'[u].conn), Private[temp'[u].conn] \in NatClients
                   PROVE  Due("flushAdd", Private[temp[u].conn], u) /\ temp'[u] = temp[u]
        BY DEF TempsWait, ChkForDup, Holding, NowCached, Due, Still, NatClients
      <3>1. u # t /\ temp'[u] = temp[u]
        BY <2>1, <2>2
      <3> QED
        BY <3>1 DEF AllInv, OffloadInv, TempsWait, NowCached, ChkForDup, Holding
    <2>6. \A d \in Conns \ {c} : Somewhere(d) => NowSomewhere(d)
      <3> SUFFICES ASSUME NEW d \in Conns, Somewhere(d) PROVE NowSomewhere(d)
        OBVIOUS
      <3>1. CASE ChkForDup(d)
        BY <3>1 DEF ChkForDup, Holding, NowCached, NowSomewhere
      <3>2. CASE TempHolding(d) # {}
        <4>1. PICK u \in TempSlots : temp[u].conn = d
          BY <3>2 DEF TempHolding
        <4>2. u # t
          BY <1>3, <4>1, ConnsAssumption
        <4> QED
          BY <2>2, <4>1, <4>2 DEF NowSomewhere
      <3> QED
        BY <3>1, <3>2 DEF Somewhere
    <2> QED
      BY <2>1, <2>3, <2>4, <2>5, <2>6 DEF MessageDoes, NowSomewhere
  <1>4. CASE temp' = temp /\ TempHolding(NoConn) = {} /\ TempHolding(c) = {}
    BY <1>4, RoomInTemp DEF AllInv, OffloadInv
  <1> QED
    BY <1>2, <1>3, <1>4 DEF AddTempEntry, isAlgPort, IsFirst, TempHolding, Somewhere

\* A new connection, with the WAN up.
LEMMA NewFollows ==
    ASSUME RoomForAll, AllInv, wanUp, NEW c \in Conns, NewConnection(c), Still
    PROVE  MessageDoes(c) /\ (c \notin AlgConns => NowSomewhere(c))
  <1>1. tblHdl # 0 /\ wanIp \in PubIps /\ ~staMode
    BY DEF AllInv, OffloadInv, WanFirst
  <1>2. CASE IsTempEntry(c)
    <2>1. Private[c] \notin NatClients
      BY <1>1, <1>2 DEF IsTempEntry, KnownClient, StaTargetUnknown
    <2>2. AddTempEntry(c, wanIp) /\ cache' = cache
      BY <1>2 DEF NewConnection
    <2> QED
      BY <1>1, <2>1, <2>2, TempAdded
  <1>3. CASE ~IsTempEntry(c)
    <2>1. PICK added \in BOOLEAN : AddEntry(c, added) /\ temp' = temp
      BY <1>3 DEF NewConnection
    <2>2. CacheFollows /\ (c \notin AlgConns => NowCached(c))
      BY <1>1, <2>1, AddEntryFollows
    <2> QED
      BY <2>1, <2>2, EntryAdded DEF NowSomewhere
  <1> QED
    BY <1>2, <1>3

\* The end of a connection.
LEMMA EndFollows ==
    ASSUME AllInv, NEW c \in Conns, EndOfConnection(c), Still
    PROVE  MessageDoes(c)
  <1>1. /\ cache \in [Slots -> Entry] /\ NoDuplicates /\ TempsDistinct
        /\ temp \in [TempSlots -> TempEntry] /\ c # NoConn
        /\ NoEntry.conn = NoConn /\ NoTemp.conn = NoConn
    BY ConnsAssumption, EntryTypes
    DEF AllInv, OffloadInv, ArraysInv, TypeOK, NatTypeOK, NoTemp
  <1>2. \A s \in Slots :
            cache'[s] = cache[s] \/ (cache[s].conn = c /\ cache'[s] = NoEntry)
    <2>1. CASE cache' = cache
      BY <2>1
    <2>2. ASSUME NEW r \in Slots, cache[r].conn = c, cache' = [cache EXCEPT ![r] = NoEntry]
          PROVE  \A s \in Slots :
                     cache'[s] = cache[s] \/ (cache[s].conn = c /\ cache'[s] = NoEntry)
      BY <1>1, <2>2
    <2> QED
      BY <2>1, <2>2 DEF EndOfConnection, DeleteEntry, IsFirst, Holding
  <1>3. \A t \in TempSlots :
            temp'[t] = (IF IsFirst(t, TempHolding(c)) THEN NoTemp ELSE temp[t])
    BY DEF EndOfConnection, DeleteTempEntry
  <1>4. ASSUME NEW t \in TempSlots
        PROVE  IF temp[t].conn = c THEN temp'[t] = NoTemp ELSE temp'[t] = temp[t]
    <2>1. CASE temp[t].conn = c
      <3>1. TempHolding(c) = {t}
        BY <1>1, <2>1 DEF TempHolding, TempsDistinct
      <3>2. IsFirst(t, TempHolding(c))
        BY <3>1 DEF IsFirst, TempSlots
      <3> QED
        BY <1>3, <2>1, <3>2
    <2>2. CASE temp[t].conn # c
      BY <1>3, <2>2 DEF IsFirst, TempHolding
    <2> QED
      BY <2>1, <2>2
  <1>5. \A d \in Conns \ {c} : ChkForDup(d) => NowCached(d)
    BY <1>2 DEF ChkForDup, Holding, NowCached
  <1>6. TempsDistinct'
    BY <1>1, <1>4 DEF TempsDistinct
  <1>7. EntriesWait'
    <2> SUFFICES ASSUME NEW s \in Slots, cache'[s].conn # NoConn
                 PROVE  cache'[s] = cache[s]
      BY DEF AllInv, OffloadInv, EntriesWait, Still, Due, NatClients
    <2> QED
      BY <1>1, <1>2
  <1>8. TempsWait'
    <2> SUFFICES ASSUME NEW t \in TempSlots, temp'[t].conn # NoConn,
                        ~NowCached(temp'[t].conn), Private[temp'[t].conn] \in NatClients
                 PROVE  Due("flushAdd", Private[temp[t].conn], t) /\ temp'[t] = temp[t]
      BY DEF TempsWait, ChkForDup, Holding, NowCached, Due, Still, NatClients
    <2>1. temp'[t] = temp[t] /\ temp[t].conn # c
      BY <1>1, <1>4
    <2>2. temp[t].conn \in Conns \ {c}
      BY <1>1, <2>1 DEF TempEntry
    <2> QED
      BY <1>5, <2>1, <2>2 DEF AllInv, OffloadInv, TempsWait
  <1>9. \A d \in Conns \ {c} : Somewhere(d) => NowSomewhere(d)
    BY <1>4, <1>5 DEF Somewhere, NowSomewhere, TempHolding
  <1> QED
    BY <1>6, <1>7, <1>8, <1>9 DEF MessageDoes

\* The kernel's messages, in order: the last about a connection decides.
LEMMA MessageKeepsOffload ==
    ASSUME RoomForAll, AllInv, ProcessCTMessage
    PROVE  OffloadInv'
  <1> PICK c \in Conns : c = Head(ctq).conn
    BY HandledMessage, ArraysInParts DEF AllInv, Parts, ProcessCTMessage
  <1>1. /\ Head(ctq).type \in {"new", "destroy"} /\ ctq \in Seq(Message)
        /\ live \subseteq Conns
    BY HandledMessage, ArraysInParts DEF AllInv, Parts, KernelOK, ProcessCTMessage
  <1>2. /\ loop = <<>> /\ Still /\ wanUp /\ ~staMode /\ ctq # <<>> /\ ctq' = Tail(ctq)
        /\ UNCHANGED <<live, tblHdl, hwTable, wanUp, wanIp, staMode>>
    BY DEF AllInv, OffloadInv, WanFirst, ProcessCTMessage, Idle, Still, tableVars, listenerVars
  <1>3. /\ Len(ctq') = Len(ctq) - 1 /\ ctq[1].conn = c /\ ctq[1] = Head(ctq)
        /\ \A i \in 1 .. Len(ctq') : ctq'[i] = ctq[i + 1] /\ i + 1 \in 1 .. Len(ctq)
    BY <1>1, <1>2
  <1>4. \A d : Pending(d) => Pending(d)' \/ d = c
    <2> SUFFICES ASSUME NEW d, d # c, NEW i \in 1 .. Len(ctq), ctq[i].conn = d
                 PROVE  \E j \in 1 .. Len(ctq') : ctq'[j].conn = d
      BY DEF Pending
    <2>1. i # 1 /\ i - 1 \in 1 .. Len(ctq') /\ ctq'[i - 1] = ctq[i]
      BY <1>1, <1>3
    <2> QED
      BY <2>1
  <1>5. LastSays'
    <2> SUFFICES ASSUME NEW i \in 1 .. Len(ctq'), LastAbout(i)'
                 PROVE  ctq'[i].type = "new" <=> ctq'[i].conn \in live
      BY <1>2 DEF LastSays
    <2>1. i + 1 \in 1 .. Len(ctq) /\ ctq'[i] = ctq[i + 1]
      BY <1>3
    <2>2. ASSUME NEW j \in 1 .. Len(ctq), ctq[j].conn = ctq[i + 1].conn
          PROVE  j <= i + 1
      <3>1. CASE j = 1
        BY <3>1
      <3>2. CASE j # 1
        <4>1. j - 1 \in 1 .. Len(ctq') /\ ctq'[j - 1] = ctq[j]
          BY <1>1, <1>3, <3>2
        <4>2. j - 1 <= i
          BY <2>1, <2>2, <4>1 DEF LastAbout
        <4> QED
          BY <4>2
      <3> QED
        BY <3>1, <3>2
    <2>3. LastAbout(i + 1)
      BY <2>2 DEF LastAbout
    <2> QED
      BY <2>1, <2>3 DEF AllInv, OffloadInv, LastSays
  <1>6. WanFirst' /\ ClientsListed' /\ WalksSound'
    <2>1. loop' = <<>> /\ Len(loop') = 0
      BY <1>2 DEF Still
    <2> QED
      BY <1>2, <2>1
      DEF AllInv, OffloadInv, WanFirst, ClientsListed, NatClients, Doing, WalksSound, Still
  <1>7. /\ MessageDoes(c)
        /\ c \in live /\ ~Pending(c)' /\ c \notin AlgConns /\ Private[c] \in NatIfaceIps
           => NowSomewhere(c)
    <2>1. CASE Ignored(c)
      <3>1. UNCHANGED <<cache, temp>>
        BY <1>1, <2>1 DEF ProcessCTMessage
      <3>2. CacheFollows
        BY <3>1 DEF CacheFollows
      <3>3. MessageDoes(c)
        BY <1>2, <3>1, <3>2, EntryAdded
      <3>4. Private[c] \notin NatIfaceIps
        BY <1>2, <2>1, ListenerAssumption DEF Ignored, OfDevice, InSubnet, RoomForAll
      <3> QED
        BY <3>3, <3>4
    <2>2. CASE ~Ignored(c) /\ Head(ctq).type = "new"
      <3>1. NewConnection(c)
        BY <1>1, <2>2 DEF ProcessCTMessage
      <3> QED
        BY <1>2, <3>1, NewFollows
    <2>3. CASE ~Ignored(c) /\ Head(ctq).type = "destroy"
      <3>1. EndOfConnection(c)
        BY <1>1, <2>3 DEF ProcessCTMessage
      <3>2. MessageDoes(c)
        BY <1>2, <3>1, EndFollows
      <3>3. ASSUME ~Pending(c)' PROVE c \notin live
        <4>1. ASSUME NEW j \in 1 .. Len(ctq), ctq[j].conn = c PROVE j <= 1
          <5> SUFFICES ASSUME j # 1 PROVE FALSE
            OBVIOUS
          <5>1. j - 1 \in 1 .. Len(ctq') /\ ctq'[j - 1] = ctq[j]
            BY <1>1, <1>3
          <5> QED
            BY <3>3, <4>1, <5>1 DEF Pending
        <4>2. 1 \in 1 .. Len(ctq) /\ LastAbout(1)
          BY <1>1, <1>2, <1>3, <4>1 DEF LastAbout
        <4> QED
          BY <1>3, <2>3, <4>2 DEF AllInv, OffloadInv, LastSays
      <3> QED
        BY <3>2, <3>3
    <2> QED
      BY <1>1, <2>1, <2>2, <2>3
  <1>8. Located'
    <2> SUFFICES ASSUME NEW d \in live, ~Pending(d)', d \notin AlgConns,
                        Private[d] \in NatIfaceIps
                 PROVE  NowSomewhere(d)
      BY <1>2 DEF Located, NowSomewhere, NowCached, ChkForDup, Holding, TempHolding
    <2>1. CASE d = c
      BY <1>7, <2>1
    <2>2. CASE d # c
      <3>1. ~Pending(d)
        BY <1>4, <2>2
      <3>2. Somewhere(d)
        BY <3>1 DEF AllInv, OffloadInv, Located, Somewhere
      <3> QED
        BY <1>1, <1>7, <2>2, <3>2 DEF MessageDoes
    <2> QED
      BY <2>1, <2>2
  <1> QED
    BY <1>5, <1>6, <1>7, <1>8 DEF OffloadInv, MessageDoes

\* The kernel's own steps: a message says what its table is from now on.
LEMMA KernelKeepsOffload ==
    ASSUME AllInv, Kernel, WanStays
    PROVE  OffloadInv'
  <1> PICK c \in Conns : KernelOpen(c) \/ KernelUpdate(c) \/ KernelClose(c)
    BY DEF Kernel
  <1>1. PICK m : /\ ctq' = Append(ctq, m) /\ m.conn = c
                 /\ m.type = "new" <=> c \in live'
                 /\ live' \ {c} = live \ {c} /\ (live' # {} \/ live # {})
                 /\ m \in Message
    <2>1. CASE KernelOpen(c) \/ KernelUpdate(c)
      <3> DEFINE n == [type |-> "new", conn |-> c]
      <3>1. /\ ctq' = Append(ctq, n) /\ n.conn = c /\ n.type = "new" /\ n \in Message
            /\ c \in live' /\ live' \ {c} = live \ {c}
        BY <2>1 DEF KernelOpen, KernelUpdate, Message
      <3> HIDE DEF n
      <3> QED
        BY <3>1
    <2>2. CASE KernelClose(c)
      <3> DEFINE n == [type |-> "destroy", conn |-> c]
      <3>1. /\ ctq' = Append(ctq, n) /\ n.conn = c /\ n.type # "new" /\ n \in Message
            /\ c \notin live' /\ live' \ {c} = live \ {c} /\ live # {}
        BY <2>2 DEF KernelClose, Message
      <3> HIDE DEF n
      <3> QED
        BY <3>1
    <2> QED
      BY <2>1, <2>2
  <1>2. UNCHANGED <<cache, temp, pwrSave, tblHdl, hwTable, loop, wanUp, wanIp, staMode, natIf>>
    BY DEF KernelOpen, KernelUpdate, KernelClose, natVars, listenerVars
  <1>3. wanUp
    BY <1>1 DEF WanStays, AllInv, OffloadInv, WanFirst
  <1>4. ctq \in Seq(Message)
    BY ArraysInParts DEF AllInv, Parts, KernelOK
  <1>5. /\ Len(ctq') = Len(ctq) + 1 /\ ctq'[Len(ctq) + 1] = m
        /\ Len(ctq) + 1 \in 1 .. Len(ctq')
        /\ \A i \in 1 .. Len(ctq) : i \in 1 .. Len(ctq') /\ ctq'[i] = ctq[i]
    BY <1>1, <1>4
  <1>6. WanFirst' /\ ClientsListed' /\ TempsDistinct' /\ WalksSound' /\ EntriesWait' /\ TempsWait'
    BY <1>2, <1>3
    DEF AllInv, OffloadInv, WanFirst, ClientsListed, NatClients, TempsDistinct, WalksSound,
        WalkSound, EntriesWait, TempsWait, Due, Doing, NothingYet, ChkForDup, Holding
  <1>7. LastSays'
    <2> SUFFICES ASSUME NEW i \in 1 .. Len(ctq'), LastAbout(i)'
                 PROVE  ctq'[i].type = "new" <=> ctq'[i].conn \in live'
      BY DEF LastSays
    <2>1. CASE i = Len(ctq) + 1
      BY <1>1, <1>5, <2>1
    <2>2. CASE i # Len(ctq) + 1
      <3>1. i \in 1 .. Len(ctq) /\ ctq'[i] = ctq[i]
        BY <1>4, <1>5, <2>2
      <3>2. ctq[i].conn # c
        BY <1>1, <1>4, <1>5, <3>1 DEF LastAbout
      <3>3. LastAbout(i)
        BY <1>5, <3>1 DEF LastAbout
      <3>4. ctq[i].conn \in live <=> ctq[i].conn \in live'
        BY <1>1, <3>2
      <3> QED
        BY <3>1, <3>3, <3>4 DEF AllInv, OffloadInv, LastSays
    <2> QED
      BY <2>1, <2>2
  <1>8. Located'
    <2> SUFFICES ASSUME NEW d \in live', ~Pending(d)', d \notin AlgConns,
                        Private[d] \in NatIfaceIps
                 PROVE  Somewhere(d)
      BY <1>2 DEF Located, Somewhere, ChkForDup, Holding, TempHolding
    <2>1. d # c
      BY <1>1, <1>5 DEF Pending
    <2>2. d \in live /\ ~Pending(d)
      BY <1>1, <1>5, <2>1 DEF Pending
    <2> QED
      BY <2>2 DEF AllInv, OffloadInv, Located, Somewhere
  <1> QED
    BY <1>6, <1>7, <1>8 DEF OffloadInv

\* The WAN comes up, with nothing there yet.
LEMMA WanUpKeepsOffload ==
    ASSUME RoomForAll, AllInv, NEW ip \in PubIps, NEW isSta \in StaModes, TriggerWANUp(ip, isSta)
    PROVE  OffloadInv'
  <1>1. /\ NothingYet /\ live = {} /\ ctq = <<>> /\ hwTable = NoIp /\ loop = <<>>
    BY DEF TriggerWANUp, Idle, AllInv, OffloadInv, WanFirst
  <1>2. AddTableDone(ip)
    BY <1>1 DEF TriggerWANUp, AddTable, AddTableFailed, Outcomes, RoomForAll
  <1>3. /\ UNCHANGED <<cache, temp, pwrSave, natIf, live, ctq>>
        /\ wanUp' = TRUE /\ wanIp' = ip /\ staMode' = FALSE /\ tblHdl' = 1
    BY <1>2 DEF TriggerWANUp, AddTable, AddTableDone, outerVars, RoomForAll
  <1>4. WanFirst' /\ ClientsListed' /\ LastSays' /\ Located'
    BY <1>1, <1>3
    DEF AllInv, OffloadInv, WanFirst, ClientsListed, NatClients, LastSays, LastAbout, Located,
        NothingYet
  <1>5. TempsDistinct' /\ EntriesWait' /\ TempsWait'
    BY <1>1, <1>3 DEF TempsDistinct, EntriesWait, TempsWait, NothingYet
  <1>6. WalksSound'
    <2>1. loop' = <<>> \/ loop' = <<WalkOf("restore", ip)>>
      BY <1>1, <1>2 DEF AddTableDone
    <2>2. WalkOf("restore", ip).op = "restore"
      BY DEF WalkOf
    <2>3. \A i \in 1 .. Len(loop') : loop'[i].op = "restore"
      BY <2>1, <2>2
    <2> QED
      BY <2>3 DEF WalksSound, WalkSound, TempWalks
  <1> QED
    BY <1>4, <1>5, <1>6 DEF OffloadInv

\* Between two events nothing waits for a walk.
AtRest ==
    /\ \A s \in Slots : cache[s].conn # NoConn => Rests(cache[s])
    /\ \A t \in TempSlots : temp[t].conn # NoConn =>
           ChkForDup(temp[t].conn) \/ Private[temp[t].conn] \notin NatClients

LEMMA IdleRests == ASSUME OffloadInv, Idle PROVE AtRest
  <1>1. \A op, p, k : ~Due(op, p, k)
    BY DEF Idle, Due
  <1> QED
    BY <1>1 DEF OffloadInv, EntriesWait, TempsWait, AtRest, Rests

\* The parts that are not about walks and lists of clients.
LEMMA ClientKeepsRest ==
    ASSUME OffloadInv, Idle,
           UNCHANGED <<cache, temp, tblHdl, hwTable, wanUp, wanIp, staMode, live, ctq>>,
           ~Doing("restore")',
           ClientsListed', WalksSound', EntriesWait', TempsWait'
    PROVE  OffloadInv'
  BY DEF OffloadInv, WanFirst, NothingYet, LastSays, LastAbout, TempsDistinct, Located, Pending,
         ChkForDup, Holding, TempHolding

\* One walk, or two.
LEMMA WalksNow ==
    ASSUME NEW op, NEW ip, NEW next
    PROVE  /\ loop' = <<WalkOf(op, ip)>> =>
                /\ Len(loop') = 1 /\ loop'[1].op = op /\ loop'[1].ip = ip /\ loop'[1].at = 1
                /\ Doing("restore")' => op = "restore"
           /\ loop' = <<WalkOf(op, ip), WalkOf(next, ip)>> =>
                /\ Len(loop') = 2 /\ loop'[1].op = op /\ loop'[1].ip = ip /\ loop'[1].at = 1
                /\ loop'[2].op = next /\ loop'[2].ip = ip /\ loop'[2].at = 1
                /\ Doing("restore")' => op = "restore"
  BY DEF WalkOf, Doing

\* A client goes into power save, or leaves it.
LEMMA PowerSaveKeepsOffload ==
    ASSUME RoomForAll, AllInv, NEW ip \in ClientIps, ClientPowerSave(ip)
    PROVE  OffloadInv'
  <1>1. /\ Idle /\ ip \in NatClients /\ OffloadInv /\ loop = <<>>
        /\ UNCHANGED <<cache, temp, tblHdl, hwTable, wanUp, wanIp, staMode, live, ctq, natIf>>
    BY DEF ClientPowerSave, UpdatePwrSaveIf, tableVars, listenerVars, outerVars, AllInv, Idle
  <1>2. NatClients' = NatClients
    BY <1>1 DEF NatClients
  <1>3. CASE ip \in pwrSave
    <2>1. UNCHANGED <<pwrSave, loop>>
      BY <1>3 DEF ClientPowerSave, UpdatePwrSaveIf, isPwrSaveIf
    <2>2. ~Doing("restore")'
      BY <1>1, <2>1 DEF Doing
    <2>3. ClientsListed' /\ WalksSound' /\ EntriesWait' /\ TempsWait'
      BY <1>1, <1>2, <2>1
      DEF OffloadInv, ClientsListed, WalksSound, WalkSound, EntriesWait, TempsWait, Due,
          ChkForDup, Holding
    <2> QED
      BY <1>1, <2>2, <2>3, ClientKeepsRest
  <1>4. CASE ip \notin pwrSave
    <2>1. pwrSave \subseteq NatIfaceIps /\ ip \in NatIfaceIps
      BY <1>1 DEF OffloadInv, ClientsListed
    <2>2. Cardinality(pwrSave) < MaxPwrSave
      <3>1. /\ IsFiniteSet(NatIfaceIps) /\ Cardinality(NatIfaceIps) <= MaxPwrSave
            /\ MaxPwrSave \in Nat
        BY SizesAssumption DEF RoomForAll
      <3>2. /\ IsFiniteSet(pwrSave) /\ Cardinality(pwrSave) <= Cardinality(NatIfaceIps)
            /\ Cardinality(NatIfaceIps) = Cardinality(pwrSave) => NatIfaceIps = pwrSave
        BY <2>1, <3>1, FS_Subset
      <3>3. Cardinality(pwrSave) \in Nat /\ Cardinality(NatIfaceIps) \in Nat
        BY <3>1, <3>2, FS_CardinalityType
      <3>4. NatIfaceIps # pwrSave
        BY <1>4, <2>1
      <3> QED
        BY <3>1, <3>2, <3>3, <3>4
    <2>3. pwrSave' = pwrSave \cup {ip} /\ loop' = <<WalkOf("disable", ip)>>
      BY <1>4, <2>2 DEF ClientPowerSave, UpdatePwrSaveIf, isPwrSaveIf
    <2>4. Len(loop') = 1 /\ loop'[1].op = "disable" /\ loop'[1].ip = ip /\ ~Doing("restore")'
      BY <2>3, WalksNow
    <2>5. ClientsListed'
      BY <1>1, <1>2, <2>3 DEF OffloadInv, ClientsListed
    <2>6. WalksSound'
      BY <2>3, <2>4 DEF WalksSound, WalkSound, TempWalks
    <2>7. EntriesWait' /\ TempsWait'
      BY <1>1, <1>2, <2>3, IdleRests
      DEF AtRest, Rests, EntriesWait, TempsWait, ChkForDup, Holding
    <2> QED
      BY <1>1, <2>4, <2>5, <2>6, <2>7, ClientKeepsRest
  <1> QED
    BY <1>3, <1>4

LEMMA RecoveryKeepsOffload ==
    ASSUME AllInv, NEW ip \in ClientIps, ClientRecovers(ip)
    PROVE  OffloadInv'
  <1>1. /\ Idle /\ ip \in NatClients /\ OffloadInv
        /\ UNCHANGED <<cache, temp, tblHdl, hwTable, wanUp, wanIp, staMode, live, ctq, natIf>>
        /\ pwrSave' = pwrSave \ {ip} /\ loop' = <<WalkOf("reenable", ip)>>
    BY DEF ClientRecovers, ResetPwrSaveIf, OutOfPwrSave, tableVars, listenerVars, outerVars,
           AllInv
  <1>2. NatClients' = NatClients
    BY <1>1 DEF NatClients
  <1>3. /\ Len(loop') = 1 /\ loop'[1].op = "reenable" /\ loop'[1].ip = ip /\ loop'[1].at = 1
        /\ ~Doing("restore")'
    BY <1>1, WalksNow
  <1>4. ClientsListed'
    BY <1>1, <1>2 DEF OffloadInv, ClientsListed
  <1>5. WalksSound'
    BY <1>3 DEF WalksSound, WalkSound, TempWalks
  <1>6. EntriesWait' /\ TempsWait'
    <2>1. \A s \in Slots : 1 <= s
      BY DEF Slots
    <2>2. \A s \in Slots : Private[cache[s].conn] = ip =>
              \E i \in 1 .. Len(loop') :
                  /\ loop'[i].op = "reenable" /\ loop'[i].ip = Private[cache[s].conn]
                  /\ loop'[i].at <= s
      BY <1>3, <2>1
    <2> QED
      BY <1>1, <1>2, <2>2, IdleRests
      DEF AtRest, Rests, EntriesWait, TempsWait, ChkForDup, Holding, Due
  <1> QED
    BY <1>1, <1>3, <1>4, <1>5, <1>6, ClientKeepsRest

\* A client behind a NAT interface comes: its entries are due.
LEMMA NewClientKeepsOffload ==
    ASSUME AllInv, Idle, NEW ip \in ClientIps \cap NatIfaceIps, ip \notin NatClients,
           NeighAddNew(ip), UNCHANGED <<wanUp, wanIp, staMode, live, ctq>>
    PROVE  OffloadInv'
  <1>1. /\ pwrSave' = pwrSave \ {ip}
        /\ loop' = <<WalkOf("reenable", ip)>> \o <<WalkOf("flushAdd", ip)>>
        /\ UNCHANGED <<cache, temp, tblHdl, hwTable>> /\ OffloadInv
    BY DEF NeighAddNew, ResetPwrSaveIf, OutOfPwrSave, FlushWalk, tableVars, AllInv
  <1>2. /\ Len(loop') = 2
        /\ loop'[1].op = "reenable" /\ loop'[1].ip = ip /\ loop'[1].at = 1
        /\ loop'[2].op = "flushAdd" /\ loop'[2].ip = ip /\ loop'[2].at = 1
        /\ ~Doing("restore")'
    <2> DEFINE v == WalkOf("reenable", ip)
               w == WalkOf("flushAdd", ip)
    <2>1. /\ v \in Walk /\ v.op = "reenable" /\ v.ip = ip /\ v.at = 1
          /\ w \in Walk /\ w.op = "flushAdd" /\ w.ip = ip /\ w.at = 1
      BY WalkBegins, ListenerAssumption DEF CacheWalks, TempWalks
    <2> HIDE DEF v, w
    <2>2. Len(loop') = 2 /\ loop'[1] = v /\ loop'[2] = w /\ Head(loop') = v
      BY <1>1, <2>1 DEF v, w
    <2> QED
      BY <2>1, <2>2 DEF Doing
  <1>3. PICK i \in IfSlots : natIf[i] = NoIp /\ natIf' = [natIf EXCEPT ![i] = ip]
    BY DEF NeighAddNew
  <1>4. natIf \in [IfSlots -> Ips \cup {NoIp}] /\ ip # NoIp
    BY ListenerAssumption, ConnsAssumption DEF AllInv, ArraysInv, TypeOK
  <1>5. natIf'[i] = ip /\ \A j \in IfSlots \ {i} : natIf'[j] = natIf[j]
    BY <1>3, <1>4
  <1>6. NatClients' = NatClients \cup {ip}
    BY <1>3, <1>4, <1>5 DEF NatClients
  <1>7. ClientsListed'
    <2>1. \A j \in IfSlots : natIf[j] # ip
      BY <1>4 DEF NatClients
    <2>2. \A j, k \in IfSlots : natIf'[j] = natIf'[k] /\ j # k => natIf'[j] = NoIp
      BY <1>1, <1>5, <2>1 DEF OffloadInv, ClientsListed
    <2> QED
      BY <1>1, <1>6, <2>2 DEF OffloadInv, ClientsListed
  <1>8. WalksSound'
    BY <1>2 DEF WalksSound, WalkSound, TempWalks
  <1>9. EntriesWait' /\ TempsWait'
    <2>1. /\ \A s \in Slots : Private[cache[s].conn] = ip =>
                \E j \in 1 .. Len(loop') :
                    /\ loop'[j].op = "reenable" /\ loop'[j].ip = Private[cache[s].conn]
                    /\ loop'[j].at <= s
          /\ \A t \in TempSlots : Private[temp[t].conn] = ip =>
                \E j \in 1 .. Len(loop') :
                    /\ loop'[j].op = "flushAdd" /\ loop'[j].ip = Private[temp[t].conn]
                    /\ loop'[j].at <= t
      BY <1>2 DEF Slots, TempSlots
    <2> QED
      BY <1>1, <1>6, <2>1, IdleRests
      DEF AtRest, Rests, EntriesWait, TempsWait, ChkForDup, Holding, Due
  <1> QED
    BY <1>1, <1>2, <1>7, <1>8, <1>9, ClientKeepsRest

LEMMA AddKeepsOffload ==
    ASSUME RoomForAll, AllInv, NEW ip \in ClientIps, HandleNeighIpAddrAddEvt(ip)
    PROVE  OffloadInv'
  <1>1. /\ Idle /\ ip \notin NatClients /\ OffloadInv /\ ip # NoIp
        /\ UNCHANGED <<wanUp, wanIp, staMode, live, ctq>>
    BY ListenerAssumption, ConnsAssumption
    DEF HandleNeighIpAddrAddEvt, RoomForAll, outerVars, AllInv
  <1>2. ~NeighAddListed(ip)
    BY <1>1 DEF NeighAddListed, NatClients
  <1>3. CASE ip \in NatIfaceIps /\ NeighAddNew(ip)
    BY <1>1, <1>3, NewClientKeepsOffload
  <1>4. CASE NeighAddOther(ip)
    <2>1. /\ loop' = <<WalkOf("flushDrop", ip)>>
          /\ UNCHANGED <<natIf, cache, temp, pwrSave, tblHdl, hwTable>>
      BY <1>4 DEF NeighAddOther, FlushWalk, tableVars
    <2>2. ip \notin NatIfaceIps
      <3> SUFFICES ASSUME ip \in NatIfaceIps PROVE FreeOrSame(ip) # {}
        BY <1>4 DEF NeighAddOther
      <3>1. \E i \in IfSlots : natIf[i] = NoIp
        BY <1>1, RoomForClient DEF AllInv, OffloadInv
      <3> QED
        BY <3>1 DEF FreeOrSame
    <2>3. /\ Len(loop') = 1 /\ loop'[1].op = "flushDrop" /\ loop'[1].ip = ip
          /\ ~Doing("restore")' /\ NatClients' = NatClients
      BY <2>1, WalksNow DEF NatClients
    <2>4. WalksSound'
      BY <1>1, <2>2, <2>3 DEF WalksSound, WalkSound
    <2>5. ClientsListed'
      BY <1>1, <2>1, <2>3 DEF OffloadInv, ClientsListed
    <2>6. EntriesWait' /\ TempsWait'
      BY <1>1, <2>1, <2>3, IdleRests
      DEF AtRest, Rests, EntriesWait, TempsWait, ChkForDup, Holding
    <2> QED
      BY <1>1, <2>1, <2>3, <2>4, <2>5, <2>6, ClientKeepsRest
  <1> QED
    BY <1>2, <1>3, <1>4 DEF HandleNeighIpAddrAddEvt

\* A client goes: what it has stays in the cache.
LEMMA DelKeepsOffload ==
    ASSUME AllInv, NEW ip \in ClientIps, HandleNeighIpAddrDelEvt(ip)
    PROVE  OffloadInv'
  <1>1. /\ Idle /\ ip \in NatClients /\ OffloadInv /\ ip # NoIp
        /\ pwrSave' = pwrSave \ {ip}
        /\ loop' = <<WalkOf("flushDrop", ip), WalkOf("disconnect", ip)>>
        /\ UNCHANGED <<cache, temp, tblHdl, hwTable, wanUp, wanIp, staMode, live, ctq>>
    BY ListenerAssumption, ConnsAssumption
    DEF HandleNeighIpAddrDelEvt, OutOfPwrSave, FlushWalk, tableVars, outerVars, AllInv
  <1>2. /\ Len(loop') = 2 /\ loop'[1].op = "flushDrop" /\ loop'[1].ip = ip
        /\ loop'[2].op = "disconnect" /\ loop'[2].ip = ip /\ ~Doing("restore")'
    BY <1>1, WalksNow
  <1>3. \A i \in IfSlots : natIf'[i] = IF natIf[i] = ip THEN NoIp ELSE natIf[i]
    BY DEF HandleNeighIpAddrDelEvt
  <1>4. NatClients' = NatClients \ {ip}
    BY <1>1, <1>3 DEF NatClients
  <1>5. ClientsListed'
    <2>1. \A i, j \in IfSlots : natIf'[i] = natIf'[j] /\ i # j => natIf'[i] = NoIp
      BY <1>1, <1>3 DEF OffloadInv, ClientsListed
    <2> QED
      BY <1>1, <1>4, <2>1 DEF OffloadInv, ClientsListed
  <1>6. WalksSound'
    <2>1. \A t \in TempSlots : temp[t].conn # NoConn /\ Private[temp[t].conn] = ip
                               => ChkForDup(temp[t].conn)
      BY <1>1, IdleRests DEF AtRest
    <2>2. \A i \in 1 .. Len(loop') :
              loop'[i].ip = ip /\ loop'[i].op \in {"flushDrop", "disconnect"}
      BY <1>2
    <2> QED
      BY <1>1, <1>4, <2>1, <2>2 DEF WalksSound, WalkSound, ChkForDup, Holding
  <1>7. EntriesWait' /\ TempsWait'
    BY <1>1, <1>4, IdleRests DEF AtRest, Rests, EntriesWait, TempsWait, ChkForDup, Holding
  <1> QED
    BY <1>1, <1>2, <1>5, <1>6, <1>7, ClientKeepsRest

\* Through power save, roaming, temporary entries and messages that arrive late: the
\* connection whose message is handled is offloaded, however often the arrays were searched.
THEOREM KnownClientsOffloaded ==
    ASSUME RoomForAll, OneAddress
    PROVE  WanStaysSpec => []KnownConnectionOffloaded
  <1>1. Init => OffloadInv
    <2> SUFFICES ASSUME Init PROVE OffloadInv
      OBVIOUS
    <2>1. /\ NothingYet /\ live = {} /\ ctq = <<>> /\ hwTable = NoIp /\ wanUp = FALSE
          /\ loop = <<>> /\ pwrSave = {} /\ NatClients = {} /\ staMode = FALSE
          /\ \A i \in IfSlots : natIf[i] = NoIp
      BY EntryTypes DEF Init, NatInit, NothingYet, NatClients, NoTemp, RoomForAll
    <2> QED
      BY <2>1
      DEF OffloadInv, WanFirst, ClientsListed, LastSays, TempsDistinct, WalksSound,
          EntriesWait, TempsWait, Located, NothingYet
  <1>2. AllInv /\ [Next /\ WanStays]_vars => OffloadInv'
    <2> SUFFICES ASSUME AllInv, [Next /\ WanStays]_vars PROVE OffloadInv'
      OBVIOUS
    <2>1. CASE UNCHANGED vars
      BY <2>1
      DEF vars, natVars, listenerVars, outerVars, AllInv, OffloadInv, WanFirst, NothingYet,
          ClientsListed, NatClients, LastSays, LastAbout, TempsDistinct, WalksSound, WalkSound,
          EntriesWait, TempsWait, Located, Pending, Due, Doing, ChkForDup, Holding, TempHolding
    <2>2. CASE Kernel
      BY <2>1, <2>2, KernelKeepsOffload
    <2>3. CASE ProcessCTMessage
      BY <2>3, MessageKeepsOffload
    <2>4. CASE WalkOn
      BY <2>4, WalkKeepsOffload
    <2>5. CASE Events
      <3>1. WanStays \/ UNCHANGED vars
        OBVIOUS
      <3>2. \A ip \in PubIps : WanStays => ~TriggerWANDown(ip)
        BY DEF WanStays, TriggerWANDown
      <3> QED
        BY <2>1, <2>5, <3>1, <3>2, WanUpKeepsOffload, AddKeepsOffload, DelKeepsOffload,
           PowerSaveKeepsOffload, RecoveryKeepsOffload DEF Events, RoomForAll
    <2>6. ~TimeStamps
      BY DEF OneAddress, AllInv, EntriesInv, TimeStamps, UdpQuery, UdpUpdateCT, UdpDeleteEntry
    <2> QED
      BY <2>1, <2>2, <2>3, <2>4, <2>5, <2>6 DEF Next
  <1>3. AllInv => KnownConnectionOffloaded
    <2> SUFFICES ASSUME AllInv, Idle, tblHdl # 0, NEW c \in live, ~Pending(c),
                        c \notin AlgConns, Private[c] \in NatClients \ pwrSave
                 PROVE  Offloaded(c)
      BY DEF KnownConnectionOffloaded
    <2>1. OffloadInv /\ AtRest /\ c \in Conns
      BY IdleRests DEF AllInv, ArraysInv, TypeOK
    <2>2. Somewhere(c)
      BY <2>1 DEF OffloadInv, ClientsListed, Located, Somewhere
    <2>3. ChkForDup(c)
      <3>1. \A t \in TempSlots : temp[t].conn = c => ChkForDup(c)
        BY <2>1, ConnsAssumption DEF AtRest
      <3> QED
        BY <2>2, <3>1 DEF Somewhere, TempHolding
    <2>4. PICK s \in Slots : cache[s].conn = c
      BY <2>3 DEF ChkForDup, Holding
    <2>5. cache[s].enabled
      BY <2>1, <2>4, ConnsAssumption DEF AtRest, Rests
    <2>6. s \in Settled
      BY DEF Settled, Idle, Doing
    <2> QED
      BY <2>4, <2>5, <2>6 DEF AllInv, EntriesInv, EntriesHaveRules, Offloaded
  <1>4. WanStaysSpec => Spec
    <2>1. [Next /\ WanStays]_vars => [Next]_vars
      OBVIOUS
    <2> QED
      BY <2>1, PTL DEF WanStaysSpec, Spec
  <1>5. DelMayFail = FALSE
    BY DEF RoomForAll
  <1>6. ArraysInv /\ RulesInv /\ EntriesInv /\ OffloadInv => AllInv
    BY DEF AllInv
  <1> QED
    BY <1>1, <1>2, <1>3, <1>4, <1>5, <1>6, ArraysCorrect, RulesCorrect, EntriesCorrect, PTL
    DEF WanStaysSpec
=============================================================================
