------------------------- MODULE IpacmIfacesProofs -------------------------
(***************************************************************************)
(* The interfaces of IPACM, for every set of interfaces, any number of     *)
(* events and any order of them: types, the two lists of objects and the   *)
(* walk of the dispatcher over one of them, one instance for each          *)
(* interface, one request to delete it, the indices of the APs, and where  *)
(* the links and the file lead when all events have been processed.        *)
(***************************************************************************)
EXTENDS IpacmIfaces, FiniteSetTheorems, SequenceTheorems, WellFoundedInduction, TLAPS

Obj == [kind : Kinds, iface : Ifaces, is_active : BOOLEAN, is_mode_switch : BOOLEAN,
        wlan_ap_index : {0, 1}]

Request(i) == SelfEvt("LAN_DELETE_SELF", i)

\* What is posted names an interface, but for a change of the file.
Posted == {e \in Events : /\ e.event # "CFG_CHANGE" => e.iface \in Ifaces
                          /\ e.event = "LAN_DELETE_SELF" => e.self}

\* What the threads other than that of the queue post.
FromOutside == {e \in Posted : e.event # "LAN_DELETE_SELF"}

QueueOK ==
    /\ mQ \in Seq(Posted) /\ driver \in Seq(FromOutside) /\ cur \in Posted \cup {NoEvt}
    /\ thread \in {"loop", "wait", "walk"} /\ woken \in BOOLEAN

\* A category that the file does not know is WLAN while an AP is up.
CatsOK ==
    /\ if_cat \in [Ifaces -> {"UNKNOWN", "WLAN", "LAN", "WAN"}]
    /\ file \in [Usbs -> {"LAN", "WAN"}]
    /\ \A i \in Ifaces : i \in Wlans <=> if_cat[i] \in {"UNKNOWN", "WLAN"}

\* Only WLAN interfaces have WLAN objects, and only an IPACM_Lan waits inactive for
\* its deletion.
ObjectsOK ==
    /\ object \in [Objs -> {Free} \cup Obj]
    /\ \A o \in Objs : Alive(o) =>
          /\ object[o].kind = "WLAN" <=> object[o].iface \in Wlans
          /\ ~object[o].is_active => object[o].kind \in {"LAN", "WLAN"}
    /\ \A o, p \in Objs : Alive(o) /\ Alive(p) /\ object[o].iface = object[p].iface => o = p

\* Both lists hold the objects there are.
ListsOK ==
    /\ listeners \in Seq(Objs)
    /\ \A k, n \in 1 .. Len(listeners) : listeners[k] = listeners[n] => k = n
    /\ \A o \in Objs : Alive(o) <=> \E k \in 1 .. Len(listeners) : listeners[k] = o
    /\ \A m : m \in managed <=>
          \E o \in Objs : Alive(o) /\ m = [iface |-> object[o].iface, obj |-> o]

Hears(e, o) == e.event \in RegisteredFor(object[o].kind) /\ e.iface \in {object[o].iface, NoIface}

\* The listener that is called next exists and listens to the event.
WalkOK ==
    /\ thread # "walk" => tmp = Null /\ cur = NoEvt
    /\ thread = "walk" => tmp \in Objs /\ Alive(tmp) /\ Hears(cur, tmp)

Asked(q, i) == \E n \in 1 .. Len(q) : q[n] = Request(i)
Once(q, i)  == \A m, n \in 1 .. Len(q) : q[m] = Request(i) /\ q[n] = Request(i) => m = n
Waits(i)    == \E o \in Objs : Alive(o) /\ object[o].iface = i /\ ~object[o].is_active

\* An inactive instance has one request under way, in the queue or being processed,
\* and no request is about another instance.
RequestsOK ==
    \A i \in Ifaces : /\ Once(mQ, i)
                      /\ ~(Asked(mQ, i) /\ cur = Request(i))
                      /\ Waits(i) <=> Asked(mQ, i) \/ cur = Request(i)

WlanAps == {o \in Objs : Alive(o) /\ object[o].kind = "WLAN"}

\* As ApIndices, with the type of the count.
ApsOK ==
    /\ num_wlan_ap_iface = Cardinality(WlanAps) /\ num_wlan_ap_iface \in 0 .. 2
    /\ zeroLeft \in BOOLEAN
    /\ ~zeroLeft => {object[o].wlan_ap_index : o \in WlanAps} = 0 .. num_wlan_ap_iface - 1

\* The callbacks a freed node is read behind.
NodesOK == lost \in {NotLost} \cup FreesNextNode

IfacesInv == QueueOK /\ CatsOK /\ ObjectsOK /\ ListsOK /\ WalkOK /\ RequestsOK /\ ApsOK

-----------------------------------------------------------------------------
(* The smallest of a set of numbers.                                       *)

\* A set of numbers that is not empty has a smallest one.
LEMMA MinOf ==
    ASSUME NEW S \in SUBSET Nat, S # {}
    PROVE  Min(S) \in S /\ \A x \in S : Min(S) <= x
  <1>1. PICK m \in S : \A k \in S : ~(<<k, m>> \in OpToRel(<, Nat))
    BY NatLessThanWellFounded, WFMin, Zenon
  <1>2. \A k \in S : m <= k
    <2> SUFFICES ASSUME NEW k \in S, k < m PROVE FALSE
      OBVIOUS
    <2>1. <<k, m>> \in OpToRel(<, Nat)
      BY DEF OpToRel
    <2> QED
      BY <1>1, <2>1
  <1> QED
    BY <1>1, <1>2 DEF Min

-----------------------------------------------------------------------------
(* The list of the dispatcher.                                             *)

On(l, x) == \E k \in 1 .. Len(l) : l[k] = x

Distinct(l) == \A k, n \in 1 .. Len(l) : l[k] = l[n] => k = n

\* The others stay in the order they had.
LEMMA RemovedAt ==
    ASSUME NEW S, NEW l \in Seq(S), NEW p \in 1 .. Len(l)
    PROVE  /\ RemoveAt(l, p) \in Seq(S) /\ Len(RemoveAt(l, p)) = Len(l) - 1
           /\ \A k \in 1 .. Len(l) - 1 : RemoveAt(l, p)[k] = IF k < p THEN l[k] ELSE l[k + 1]
  <1>1. Len(l) \in Nat /\ \A k \in 1 .. Len(l) : l[k] \in S
    OBVIOUS
  <1>2. PICK u : u = SubSeq(l, 1, p - 1)
    OBVIOUS
  <1>3. PICK v : v = SubSeq(l, p + 1, Len(l))
    OBVIOUS
  <1>4. /\ u \in Seq(S) /\ Len(u) = p - 1
        /\ \A k \in 1 .. p - 1 : u[k] = l[k]
    BY <1>1, <1>2
  <1>5. /\ v \in Seq(S) /\ Len(v) = Len(l) - p
        /\ \A k \in 1 .. Len(l) - p : v[k] = l[p + k]
    BY <1>1, <1>3
  <1>6. PICK w : w = u \o v
    OBVIOUS
  <1>7. w = RemoveAt(l, p)
    BY <1>2, <1>3, <1>6 DEF RemoveAt
  <1>8. /\ w \in Seq(S) /\ Len(w) = Len(l) - 1
        /\ \A k \in 1 .. Len(w) : w[k] = IF k < p THEN l[k] ELSE l[k + 1]
    <2>1. w \in Seq(S) /\ Len(w) = Len(u) + Len(v)
      <3>1. u \in Seq(S) /\ v \in Seq(S)
        BY <1>4, <1>5
      <3> QED
        BY <1>6, <3>1, ConcatProperties
    <2>2. ASSUME NEW k \in 1 .. Len(w) PROVE w[k] = IF k < p THEN l[k] ELSE l[k + 1]
      <3>1. w[k] = IF k <= Len(u) THEN u[k] ELSE v[k - Len(u)]
        BY <1>4, <1>5, <1>6, <2>1
      <3>2. CASE k < p
        BY <1>4, <3>1, <3>2
      <3>3. CASE k >= p
        <4>1. PICK m \in 1 .. Len(l) - p : m = k - Len(u) /\ p + m = k + 1
          BY <1>1, <1>4, <1>5, <2>1, <3>3
        <4>2. v[m] = l[k + 1]
          BY <1>5, <4>1
        <4>3. ~(k <= Len(u)) /\ ~(k < p)
          BY <1>4, <3>3
        <4> QED
          BY <3>1, <4>1, <4>2, <4>3
      <3> QED
        BY <3>2, <3>3
    <2>3. Len(w) = Len(l) - 1
      BY <1>1, <1>4, <1>5, <2>1
    <2> QED
      BY <2>1, <2>2, <2>3
  <1> QED
    BY <1>1, <1>7, <1>8

\* deregistr takes one object out of the list.
LEMMA RemoveOne ==
    ASSUME NEW S, NEW l \in Seq(S), Distinct(l), NEW p \in 1 .. Len(l)
    PROVE  /\ RemoveAt(l, p) \in Seq(S) /\ Distinct(RemoveAt(l, p))
           /\ \A x : On(RemoveAt(l, p), x) <=> On(l, x) /\ x # l[p]
  <1>1. Len(l) \in Nat /\ \A k \in 1 .. Len(l) : l[k] \in S
    OBVIOUS
  <1>2. PICK w : w = RemoveAt(l, p)
    OBVIOUS
  <1>3. /\ w \in Seq(S) /\ Len(w) = Len(l) - 1
        /\ \A k \in 1 .. Len(w) : w[k] = IF k < p THEN l[k] ELSE l[k + 1]
    BY <1>2, RemovedAt
  <1>4. Distinct(w)
    <2> SUFFICES ASSUME NEW k \in 1 .. Len(w), NEW n \in 1 .. Len(w), w[k] = w[n]
                 PROVE  k = n
      BY DEF Distinct
    <2>1. PICK i \in 1 .. Len(l) : i = (IF k < p THEN k ELSE k + 1) /\ w[k] = l[i]
      BY <1>1, <1>3
    <2>2. PICK j \in 1 .. Len(l) : j = (IF n < p THEN n ELSE n + 1) /\ w[n] = l[j]
      BY <1>1, <1>3
    <2>3. i = j
      BY <2>1, <2>2 DEF Distinct
    <2> QED
      BY <2>1, <2>2, <2>3
  <1>5. ASSUME NEW x PROVE On(w, x) <=> On(l, x) /\ x # l[p]
    <2>1. ASSUME NEW k \in 1 .. Len(w), w[k] = x PROVE On(l, x) /\ x # l[p]
      <3>1. PICK i \in 1 .. Len(l) : i = (IF k < p THEN k ELSE k + 1) /\ l[i] = x
        BY <1>1, <1>3, <2>1
      <3>2. i # p
        BY <3>1
      <3> QED
        BY <3>1, <3>2 DEF On, Distinct
    <2>2. ASSUME NEW k \in 1 .. Len(l), l[k] = x, x # l[p] PROVE On(w, x)
      <3>1. k # p
        BY <2>2
      <3>2. PICK j \in 1 .. Len(w) : j = IF k < p THEN k ELSE k - 1
        BY <1>1, <1>3, <3>1
      <3>3. w[j] = l[k]
        BY <1>3, <3>1, <3>2
      <3> QED
        BY <2>2, <3>3 DEF On
    <2> QED
      BY <2>1, <2>2 DEF On
  <1> QED
    BY <1>2, <1>3, <1>4, <1>5

\* registr puts a new object at the end.
LEMMA AppendOne ==
    ASSUME NEW S, NEW l \in Seq(S), Distinct(l), NEW o \in S, ~On(l, o)
    PROVE  /\ Append(l, o) \in Seq(S) /\ Distinct(Append(l, o))
           /\ \A x : On(Append(l, o), x) <=> On(l, x) \/ x = o
  <1>1. PICK w : w = Append(l, o)
    OBVIOUS
  <1>2. /\ w \in Seq(S) /\ Len(w) = Len(l) + 1 /\ Len(l) \in Nat
        /\ \A k \in 1 .. Len(l) : w[k] = l[k]
        /\ w[Len(l) + 1] = o
    BY <1>1
  <1>3. \A k \in 1 .. Len(w) : k \in 1 .. Len(l) \/ k = Len(l) + 1
    BY <1>2
  <1>4. Distinct(w)
    BY <1>2, <1>3 DEF Distinct, On
  <1>5. ASSUME NEW x PROVE On(w, x) <=> On(l, x) \/ x = o
    BY <1>2, <1>3 DEF On
  <1> QED
    BY <1>1, <1>2, <1>4, <1>5

\* The walk goes on to a listener of the event behind the place it starts from, or
\* there is none.
LEMMA WalkOnFinds ==
    ASSUME listeners \in Seq(Objs), NEW e, NEW from \in Nat, from > 0, WalkOn(e, from)
    PROVE  \/ /\ tmp' = Null /\ cur' = NoEvt /\ thread' = "loop"
              /\ \A k \in from .. Len(listeners) : ~Hears(e, listeners[k])
           \/ /\ cur' = e /\ thread' = "walk"
              /\ \E k \in from .. Len(listeners) : tmp' = listeners[k] /\ Hears(e, listeners[k])
  <1>1. PICK K : K = Listening(e, from)
    OBVIOUS
  <1>2. \A k : k \in K <=> k \in from .. Len(listeners) /\ Hears(e, listeners[k])
    BY <1>1 DEF Listening, Hears
  <1>3. CASE K = {}
    BY <1>1, <1>2, <1>3 DEF WalkOn
  <1>4. CASE K # {}
    <2>1. K \in SUBSET Nat
      BY <1>2
    <2>2. Min(K) \in K
      BY <1>4, <2>1, MinOf
    <2>3. tmp' = listeners[Min(K)] /\ cur' = e /\ thread' = "walk"
      BY <1>1, <1>4 DEF WalkOn
    <2> QED
      BY <1>2, <2>2, <2>3
  <1> QED
    BY <1>3, <1>4

\* The object that listens now is not called again.
LEMMA AdvanceFinds ==
    ASSUME ListsOK, tmp \in Objs, Alive(tmp), Advance
    PROVE  \/ tmp' = Null /\ cur' = NoEvt /\ thread' = "loop"
           \/ /\ cur' = cur /\ thread' = "walk"
              /\ tmp' \in Objs /\ tmp' # tmp /\ Alive(tmp') /\ Hears(cur, tmp')
  <1>1. PICK k \in DOMAIN listeners : k = Position(tmp) /\ listeners[k] = tmp
    <2>1. listeners \in Seq(Objs) /\ \E k \in DOMAIN listeners : listeners[k] = tmp
      BY DEF ListsOK
    <2> QED
      BY <2>1 DEF Position
  <1>2. listeners \in Seq(Objs) /\ k \in 1 .. Len(listeners) /\ Len(listeners) \in Nat
    BY <1>1 DEF ListsOK
  <1>3. WalkOn(cur, k + 1) /\ k + 1 \in Nat /\ k + 1 > 0
    BY <1>1, <1>2 DEF Advance
  <1>4. CASE tmp' = Null /\ cur' = NoEvt /\ thread' = "loop"
    BY <1>4
  <1>5. ASSUME cur' = cur, thread' = "walk", NEW n \in k + 1 .. Len(listeners),
               tmp' = listeners[n], Hears(cur, listeners[n])
        PROVE  tmp' \in Objs /\ tmp' # tmp /\ Alive(tmp') /\ Hears(cur, tmp')
    <2>1. n \in 1 .. Len(listeners) /\ n # k
      BY <1>2
    <2> QED
      BY <1>1, <1>2, <1>5, <2>1 DEF ListsOK
  <1> QED
    BY <1>2, <1>3, <1>4, <1>5, WalkOnFinds

-----------------------------------------------------------------------------
(* Objects that come, go down and are deleted.                             *)

\* The parts of the invariant that speak of the objects.
ObjectInv == ObjectsOK /\ ListsOK /\ ApsOK

\* The table of interfaces is finite, and there is an object more than interfaces.
LEMMA IfacesCounted ==
    /\ IsFiniteSet(Ifaces) /\ Cardinality(Ifaces) \in Nat
    /\ IsFiniteSet(Objs) /\ Cardinality(Objs) = Cardinality(Ifaces) + 1
    /\ IsFiniteSet(Wlans) /\ Cardinality(Wlans) \in Nat /\ Cardinality(Wlans) <= 2
    /\ Objs \subseteq Nat /\ Null \notin Objs
  <1>1. IsFiniteSet(Ifaces) /\ Cardinality(Ifaces) \in Nat
    BY IfacesAssumption, FS_CardinalityType
  <1>2. IsFiniteSet(Wlans)
    BY <1>1, FS_Subset DEF Ifaces
  <1>3. IsFiniteSet(Objs) /\ Cardinality(Objs) = Cardinality(Ifaces) + 1
    BY <1>1, FS_Interval DEF Objs
  <1> QED
    BY <1>1, <1>2, <1>3, IfacesAssumption, FS_CardinalityType DEF Objs, Null

\* Each interface has one object at most, so that there is always a free one.
LEMMA RoomForOne ==
    ASSUME ObjectsOK
    PROVE  \E o \in Objs : ~Alive(o)
  <1> SUFFICES ASSUME \A o \in Objs : Alive(o) PROVE FALSE
    OBVIOUS
  <1> DEFINE f == [o \in Objs |-> object[o].iface]
  <1>1. f \in [Objs -> Ifaces]
    BY DEF ObjectsOK, Alive, Obj
  <1>2. PICK o, p \in Objs : o # p /\ f[o] = f[p]
    <2>1. /\ IsFiniteSet(Objs) /\ IsFiniteSet(Ifaces)
          /\ Cardinality(Ifaces) < Cardinality(Objs)
      BY IfacesCounted
    <2> HIDE DEF f
    <2> QED
      BY <1>1, <2>1, FS_PigeonHole
  <1> QED
    BY <1>2 DEF ObjectsOK

\* The first free one is taken.
LEMMA FreeObject ==
    ASSUME ObjectsOK
    PROVE  \E o \in Objs : /\ ~Alive(o)
                           /\ o = CHOOSE x \in Objs : ~Alive(x) /\ \A y \in Objs : ~Alive(y) => x <= y
  <1> DEFINE D == {x \in Objs : ~Alive(x)}
  <1>1. D \in SUBSET Nat /\ D # {}
    BY RoomForOne, IfacesCounted
  <1>2. Min(D) \in D /\ \A y \in D : Min(D) <= y
    <2> HIDE DEF D
    <2> QED
      BY <1>1, MinOf
  <1>3. \E x \in Objs : ~Alive(x) /\ \A y \in Objs : ~Alive(y) => x <= y
    BY <1>2
  <1> QED
    BY <1>3

\* At most as many WLAN objects as WLAN interfaces: any set of objects with
\* interfaces of their own.
LEMMA FewAps ==
    ASSUME NEW A \in SUBSET Objs, NEW f \in [A -> Wlans],
           \A o, p \in A : f[o] = f[p] => o = p
    PROVE  IsFiniteSet(A) /\ Cardinality(A) \in 0 .. 2
  <1>1. IsFiniteSet(A)
    BY IfacesCounted, FS_Subset
  <1>2. Cardinality(A) \in Nat
    BY <1>1, FS_CardinalityType
  <1>3. ~(Cardinality(Wlans) < Cardinality(A))
    <2> SUFFICES ASSUME Cardinality(Wlans) < Cardinality(A) PROVE FALSE
      OBVIOUS
    <2>1. IsFiniteSet(Wlans)
      BY IfacesCounted
    <2>2. \E o, p \in A : o # p /\ f[o] = f[p]
      BY <1>1, <2>1, FS_PigeonHole
    <2> QED
      BY <2>2
  <1> QED
    BY <1>1, <1>2, <1>3, IfacesCounted

\* The WLAN objects are some of the objects.
LEMMA ApsFinite ==
    ASSUME ObjectsOK
    PROVE  IsFiniteSet(WlanAps)
  BY IfacesCounted, FS_Subset DEF WlanAps

\* Nothing changes for those that exist, and a new object is active.
Grown ==
    \A p \in Objs : /\ Alive(p) => object'[p] = object[p]
                    /\ ~Alive(p) /\ object'[p] # Free => object'[p].is_active

\* A new object for an interface that has none.
LEMMA NewObject ==
    ASSUME ObjectInv, NEW i \in Ifaces, ~SearchInstance(i), NEW kind \in Kinds,
           kind = "WLAN" <=> i \in Wlans, NewInstance(i, kind), UNCHANGED zeroLeft
    PROVE  ObjectInv' /\ Grown
  <1>1. PICK o \in Objs : /\ ~Alive(o)
                          /\ o = CHOOSE x \in Objs : ~Alive(x) /\ \A y \in Objs : ~Alive(y) => x <= y
    BY FreeObject DEF ObjectInv
  <1> DEFINE index == IF kind = "WLAN" THEN num_wlan_ap_iface ELSE 0
  <1>2. PICK new : new = [kind |-> kind, iface |-> i, is_active |-> TRUE, is_mode_switch |-> FALSE,
                          wlan_ap_index |-> index]
    OBVIOUS
  <1>3. /\ object' = [object EXCEPT ![o] = new]
        /\ num_wlan_ap_iface' = num_wlan_ap_iface + (IF kind = "WLAN" THEN 1 ELSE 0)
        /\ listeners' = Append(listeners, o)
        /\ managed' = managed \cup {[iface |-> i, obj |-> o]}
    BY <1>1, <1>2 DEF NewInstance, EvtRegistr, IfaceRegistr
  <1>4. object \in [Objs -> {Free} \cup Obj]
    BY DEF ObjectInv, ObjectsOK
  <1>5. \A p \in Objs : Alive(p) => object[p].iface # i /\ p # o
    <2> SUFFICES ASSUME NEW p \in Objs, Alive(p) PROVE object[p].iface # i /\ p # o
      OBVIOUS
    <2>1. [iface |-> object[p].iface, obj |-> p] \in managed
      BY DEF ObjectInv, ListsOK
    <2> QED
      BY <1>1, <2>1 DEF SearchInstance
  <1>6. /\ IsFiniteSet(WlanAps) /\ num_wlan_ap_iface = Cardinality(WlanAps)
        /\ num_wlan_ap_iface \in 0 .. 2 /\ o \notin WlanAps
    BY <1>5, ApsFinite DEF ObjectInv, ApsOK, WlanAps
  <1>7. kind = "WLAN" => num_wlan_ap_iface \in {0, 1} /\ Cardinality(WlanAps \cup {o}) = num_wlan_ap_iface + 1
    <2> SUFFICES ASSUME kind = "WLAN"
                 PROVE  num_wlan_ap_iface \in {0, 1} /\ Cardinality(WlanAps \cup {o}) = num_wlan_ap_iface + 1
      OBVIOUS
    <2>1. Cardinality(WlanAps \cup {o}) = num_wlan_ap_iface + 1
      BY <1>6, FS_AddElement
    <2>2. PICK A : A = WlanAps \cup {o}
      OBVIOUS
    <2>3. PICK f : f = [x \in A |-> IF x = o THEN i ELSE object[x].iface]
      OBVIOUS
    <2>4. \A x \in A : x # o => x \in Objs /\ Alive(x) /\ object[x].iface \in Wlans
      BY <2>2 DEF WlanAps, ObjectInv, ObjectsOK
    <2>5. f \in [A -> Wlans] /\ A \in SUBSET Objs
      BY <2>2, <2>3, <2>4
    <2>6. ASSUME NEW x \in A, NEW y \in A, f[x] = f[y] PROVE x = y
      BY <1>5, <2>3, <2>4, <2>6 DEF ObjectInv, ObjectsOK
    <2>7. Cardinality(A) \in 0 .. 2
      BY <2>5, <2>6, FewAps
    <2> QED
      BY <1>6, <2>1, <2>2, <2>7
  <1>8. new \in Obj /\ new # Free /\ new.kind = kind /\ new.iface = i /\ new.is_active
        /\ new.wlan_ap_index = index
    <2>1. index \in {0, 1}
      BY <1>7
    <2> HIDE DEF index
    <2> QED
      BY <1>2, <2>1 DEF Obj, Free, Kinds
  <1> HIDE DEF index
  <1>9. /\ \A p \in Objs : p # o => object'[p] = object[p]
        /\ object'[o] = new
    BY <1>3, <1>4
  <1>10. \A p \in Objs : Alive(p)' <=> Alive(p) \/ p = o
    BY <1>1, <1>8, <1>9 DEF Alive
  <1>11. ObjectsOK'
    <2>1. object' \in [Objs -> {Free} \cup Obj]
      BY <1>3, <1>4, <1>8
    <2>2. \A p \in Objs : Alive(p)' =>
             /\ object'[p].kind = "WLAN" <=> object'[p].iface \in Wlans
             /\ ~object'[p].is_active => object'[p].kind \in {"LAN", "WLAN"}
      BY <1>8, <1>9, <1>10 DEF ObjectInv, ObjectsOK
    <2>3. ASSUME NEW p \in Objs, NEW q \in Objs, Alive(p)', Alive(q)',
                 object'[p].iface = object'[q].iface
          PROVE  p = q
      BY <1>5, <1>8, <1>9, <1>10, <2>3 DEF ObjectInv, ObjectsOK
    <2> QED
      BY <2>1, <2>2, <2>3 DEF ObjectsOK, Alive
  <1>12. ListsOK'
    <2>1. listeners \in Seq(Objs) /\ Distinct(listeners) /\ ~On(listeners, o)
      BY <1>1 DEF ObjectInv, ListsOK, Distinct, On
    <2>2. PICK w : w = listeners'
      OBVIOUS
    <2>3. w \in Seq(Objs) /\ Distinct(w) /\ \A x : On(w, x) <=> On(listeners, x) \/ x = o
      BY <1>3, <2>1, <2>2, AppendOne
    <2>4. \A p \in Objs : Alive(p)' <=> \E k \in 1 .. Len(w) : w[k] = p
      BY <1>10, <2>3 DEF ObjectInv, ListsOK, On
    <2>5. ASSUME NEW m
          PROVE  m \in managed' <=>
                    \E p \in Objs : Alive(p)' /\ m = [iface |-> object'[p].iface, obj |-> p]
      <3>1. m \in managed' <=> m \in managed \/ m = [iface |-> i, obj |-> o]
        BY <1>3
      <3>2. m \in managed <=> \E p \in Objs : Alive(p) /\ m = [iface |-> object[p].iface, obj |-> p]
        BY DEF ObjectInv, ListsOK
      <3>3. \A p \in Objs : Alive(p) => object'[p] = object[p]
        BY <1>5, <1>9
      <3> QED
        BY <1>8, <1>9, <1>10, <3>1, <3>2, <3>3
    <2> QED
      BY <2>2, <2>3, <2>4, <2>5 DEF ListsOK, Distinct, Alive
  <1>13. ApsOK'
    <2>1. WlanAps' = IF kind = "WLAN" THEN WlanAps \cup {o} ELSE WlanAps
      <3>1. \A p \in Objs : p \in WlanAps' <=> p \in WlanAps \/ (p = o /\ kind = "WLAN")
        BY <1>1, <1>8, <1>9, <1>10 DEF WlanAps, Alive
      <3> QED
        BY <3>1 DEF WlanAps
    <2>2. \A p \in WlanAps : object'[p] = object[p] /\ p \in Objs
      BY <1>6, <1>9 DEF WlanAps
    <2>3. CASE kind = "WLAN"
      <3>1. num_wlan_ap_iface' = num_wlan_ap_iface + 1 /\ WlanAps' = WlanAps \cup {o}
        BY <1>3, <2>1, <2>3
      <3>2. ASSUME ~zeroLeft
            PROVE  {object'[p].wlan_ap_index : p \in WlanAps'} = 0 .. num_wlan_ap_iface
        <4>1. {object[p].wlan_ap_index : p \in WlanAps} = 0 .. num_wlan_ap_iface - 1
          BY <3>2 DEF ObjectInv, ApsOK
        <4>2. object'[o].wlan_ap_index = num_wlan_ap_iface
          BY <1>8, <1>9, <2>3 DEF index
        <4>3. {object'[p].wlan_ap_index : p \in WlanAps'}
                = {object[p].wlan_ap_index : p \in WlanAps} \cup {num_wlan_ap_iface}
          BY <2>2, <3>1, <4>2
        <4> QED
          BY <1>6, <4>1, <4>3
      <3> QED
        BY <1>6, <1>7, <2>3, <3>1, <3>2 DEF ObjectInv, ApsOK
    <2>4. CASE kind # "WLAN"
      <3>1. UNCHANGED <<num_wlan_ap_iface, WlanAps>>
        BY <1>3, <1>6, <2>1, <2>4
      <3>2. {object'[p].wlan_ap_index : p \in WlanAps'} = {object[p].wlan_ap_index : p \in WlanAps}
        BY <2>2, <3>1
      <3> QED
        BY <3>1, <3>2 DEF ObjectInv, ApsOK
    <2> QED
      BY <2>3, <2>4
  <1>14. Grown
    BY <1>1, <1>5, <1>8, <1>9 DEF Grown, Alive
  <1> QED
    BY <1>11, <1>12, <1>13, <1>14 DEF ObjectInv

\* The destructor: the object leaves both lists, and an AP the count.
LEMMA DeletedObject ==
    ASSUME ObjectInv, NEW o \in Objs, Alive(o), delete(o),
           num_wlan_ap_iface' = num_wlan_ap_iface - (IF object[o].kind = "WLAN" THEN 1 ELSE 0),
           zeroLeft' \in BOOLEAN,
           object[o].kind # "WLAN" => (zeroLeft' <=> zeroLeft),
           object[o].kind = "WLAN" =>
               (zeroLeft' <=> num_wlan_ap_iface' > 0 /\ (zeroLeft \/ object[o].wlan_ap_index = 0))
    PROVE  /\ ObjectInv'
           /\ \A p \in Objs : object'[p] = IF p = o THEN Free ELSE object[p]
  <1>1. object \in [Objs -> {Free} \cup Obj]
    BY DEF ObjectInv, ObjectsOK
  <1>2. \A p \in Objs : object'[p] = IF p = o THEN Free ELSE object[p]
    BY <1>1 DEF delete
  <1>3. \A p \in Objs : Alive(p)' <=> Alive(p) /\ p # o
    BY <1>2 DEF Alive
  <1>4. ObjectsOK'
    <2>1. object' \in [Objs -> {Free} \cup Obj]
      BY <1>1 DEF delete
    <2> QED
      BY <1>2, <1>3, <2>1 DEF ObjectInv, ObjectsOK, Alive
  <1>5. ListsOK'
    <2>1. listeners \in Seq(Objs) /\ Distinct(listeners)
      BY DEF ObjectInv, ListsOK, Distinct
    <2>2. PICK k \in 1 .. Len(listeners) : k = Position(o) /\ listeners[k] = o
      <3>1. \E k \in DOMAIN listeners : listeners[k] = o
        BY <2>1 DEF ObjectInv, ListsOK
      <3> QED
        BY <2>1, <3>1 DEF Position
    <2>3. PICK w : w = listeners'
      OBVIOUS
    <2>4. w = RemoveAt(listeners, k)
      BY <2>2, <2>3 DEF delete, EvtDeregistr
    <2>5. w \in Seq(Objs) /\ Distinct(w) /\ \A x : On(w, x) <=> On(listeners, x) /\ x # o
      BY <2>1, <2>2, <2>4, RemoveOne
    <2>6. \A p \in Objs : Alive(p)' <=> \E n \in 1 .. Len(w) : w[n] = p
      BY <1>3, <2>5 DEF ObjectInv, ListsOK, On
    <2>7. ASSUME NEW m
          PROVE  m \in managed' <=>
                    \E p \in Objs : Alive(p)' /\ m = [iface |-> object'[p].iface, obj |-> p]
      <3>1. m \in managed' <=> m \in managed /\ m.obj # o
        BY DEF delete, IfaceDeregistr
      <3>2. m \in managed <=> \E p \in Objs : Alive(p) /\ m = [iface |-> object[p].iface, obj |-> p]
        BY DEF ObjectInv, ListsOK
      <3>3. \A p \in Objs : p # o => object'[p] = object[p]
        BY <1>2
      <3> QED
        BY <1>3, <3>1, <3>2, <3>3
    <2> QED
      BY <2>3, <2>5, <2>6, <2>7 DEF ListsOK, Distinct, Alive
  <1>6. ApsOK'
    <2>1. /\ IsFiniteSet(WlanAps) /\ num_wlan_ap_iface = Cardinality(WlanAps)
          /\ num_wlan_ap_iface \in 0 .. 2
      BY ApsFinite DEF ObjectInv, ApsOK
    <2>0. zeroLeft \in BOOLEAN /\ zeroLeft' \in BOOLEAN
      BY DEF ObjectInv, ApsOK
    <2>2. WlanAps' = WlanAps \ {o}
      <3>1. \A p \in Objs : p \in WlanAps' <=> p \in WlanAps /\ p # o
        BY <1>2, <1>3 DEF WlanAps, Alive
      <3> QED
        BY <3>1 DEF WlanAps
    <2>3. \A p \in WlanAps : p # o => object'[p] = object[p] /\ p \in Objs
      BY <1>2 DEF WlanAps
    <2>4. CASE object[o].kind # "WLAN"
      <3>1. UNCHANGED <<num_wlan_ap_iface, WlanAps>> /\ (zeroLeft' <=> zeroLeft)
        BY <2>1, <2>2, <2>4 DEF WlanAps
      <3>2. {object'[p].wlan_ap_index : p \in WlanAps'} = {object[p].wlan_ap_index : p \in WlanAps}
        BY <2>2, <2>3, <3>1
      <3> QED
        BY <2>0, <3>1, <3>2 DEF ObjectInv, ApsOK
    <2>5. CASE object[o].kind = "WLAN"
      <3>1. o \in WlanAps
        BY <2>5 DEF WlanAps
      <3>2. /\ Cardinality(WlanAps') = num_wlan_ap_iface - 1 /\ num_wlan_ap_iface' = num_wlan_ap_iface - 1
            /\ IsFiniteSet(WlanAps') /\ Cardinality(WlanAps') \in Nat
        BY <2>1, <2>2, <2>5, <3>1, FS_RemoveElement, FS_CardinalityType
      <3>3. num_wlan_ap_iface' \in 0 .. 1
        BY <2>1, <3>2
      <3>4. ASSUME ~zeroLeft'
            PROVE  {object'[p].wlan_ap_index : p \in WlanAps'} = 0 .. num_wlan_ap_iface' - 1
        <4>1. CASE num_wlan_ap_iface' = 0
          <5>1. WlanAps' = {}
            BY <3>2, <4>1, FS_EmptySet
          <5> QED
            BY <4>1, <5>1
        <4>2. CASE num_wlan_ap_iface' = 1
          <5>1. ~zeroLeft /\ object[o].wlan_ap_index # 0 /\ num_wlan_ap_iface = 2
            BY <2>0, <2>1, <2>5, <3>2, <3>4, <4>2
          <5>2. 0 \in {object[p].wlan_ap_index : p \in WlanAps}
            BY <5>1 DEF ObjectInv, ApsOK
          <5>3. PICK q \in WlanAps : object[q].wlan_ap_index = 0
            BY <5>2
          <5>4. q \in WlanAps' /\ object'[q].wlan_ap_index = 0
            BY <2>2, <2>3, <5>1, <5>3
          <5>5. Cardinality(WlanAps' \ {q}) = 0 /\ IsFiniteSet(WlanAps' \ {q})
            BY <3>2, <4>2, <5>4, FS_RemoveElement
          <5>6. WlanAps' = {q}
            BY <5>4, <5>5, FS_EmptySet
          <5>7. {object'[p].wlan_ap_index : p \in WlanAps'} = {0}
            BY <5>4, <5>6
          <5> QED
            BY <4>2, <5>7
        <4> QED
          BY <3>3, <4>1, <4>2
      <3> QED
        BY <2>0, <3>2, <3>3, <3>4 DEF ApsOK
    <2> QED
      BY <2>4, <2>5
  <1> QED
    BY <1>2, <1>4, <1>5, <1>6 DEF ObjectInv

\* An object that goes down stays in both lists.
LEMMA DownObject ==
    ASSUME ObjectInv, NEW o \in Objs, Alive(o), IsLan(o), NEW switch \in BOOLEAN,
           object' = [object EXCEPT ![o].is_active = FALSE, ![o].is_mode_switch = switch],
           UNCHANGED <<listeners, managed, num_wlan_ap_iface, zeroLeft>>
    PROVE  /\ ObjectInv'
           /\ \A p \in Objs : p # o => object'[p] = object[p]
           /\ Alive(o)' /\ ~object'[o].is_active
           /\ object'[o].kind = object[o].kind /\ object'[o].iface = object[o].iface
  <1>1. object \in [Objs -> {Free} \cup Obj] /\ object[o] \in Obj
    BY DEF ObjectInv, ObjectsOK, Alive
  <1>2. PICK x \in Obj : x = object[o]
    BY <1>1
  <1>3. PICK y : y = [x EXCEPT !.is_active = FALSE, !.is_mode_switch = switch]
    OBVIOUS
  <1>4. /\ y \in Obj /\ ~y.is_active /\ y.kind = x.kind /\ y.iface = x.iface
        /\ y.wlan_ap_index = x.wlan_ap_index /\ y # Free
    BY <1>3 DEF Obj, Free, Kinds
  <1>5. object' = [object EXCEPT ![o] = y]
    BY <1>1, <1>2, <1>3
  <1>6. object'[o] = y /\ \A p \in Objs : p # o => object'[p] = object[p]
    BY <1>1, <1>5
  <1>7. /\ \A p \in Objs : Alive(p)' <=> Alive(p)
        /\ \A p \in Objs : Alive(p) => /\ object'[p].kind = object[p].kind
                                       /\ object'[p].iface = object[p].iface
                                       /\ object'[p].wlan_ap_index = object[p].wlan_ap_index
    BY <1>2, <1>4, <1>6 DEF Alive
  <1>8. ObjectsOK'
    <2>1. object' \in [Objs -> {Free} \cup Obj]
      BY <1>1, <1>4, <1>5
    <2>2. \A p \in Objs : Alive(p)' =>
             /\ object'[p].kind = "WLAN" <=> object'[p].iface \in Wlans
             /\ ~object'[p].is_active => object'[p].kind \in {"LAN", "WLAN"}
      BY <1>2, <1>4, <1>6, <1>7 DEF ObjectInv, ObjectsOK, IsLan
    <2>3. \A p, q \in Objs : Alive(p)' /\ Alive(q)' /\ object'[p].iface = object'[q].iface => p = q
      BY <1>7 DEF ObjectInv, ObjectsOK
    <2> QED
      BY <2>1, <2>2, <2>3 DEF ObjectsOK, Alive
  <1>9. ListsOK'
    <2>1. \A p \in Objs : Alive(p)' <=> \E k \in 1 .. Len(listeners) : listeners[k] = p
      BY <1>7 DEF ObjectInv, ListsOK
    <2>2. \A m : m \in managed <=>
             \E p \in Objs : Alive(p)' /\ m = [iface |-> object'[p].iface, obj |-> p]
      <3> SUFFICES ASSUME NEW m
                   PROVE  m \in managed <=>
                            \E p \in Objs : Alive(p)' /\ m = [iface |-> object'[p].iface, obj |-> p]
        OBVIOUS
      <3>1. m \in managed <=> \E p \in Objs : Alive(p) /\ m = [iface |-> object[p].iface, obj |-> p]
        BY DEF ObjectInv, ListsOK
      <3> QED
        BY <1>7, <3>1
    <2> QED
      BY <2>1, <2>2 DEF ObjectInv, ListsOK, Alive
  <1>10. ApsOK'
    <2>1. WlanAps' = WlanAps
      BY <1>7 DEF WlanAps, Alive
    <2>2. {object'[p].wlan_ap_index : p \in WlanAps'} = {object[p].wlan_ap_index : p \in WlanAps}
      <3>1. \A p \in WlanAps : object'[p].wlan_ap_index = object[p].wlan_ap_index
        BY <1>7 DEF WlanAps
      <3> QED
        BY <2>1, <3>1
    <2> QED
      BY <2>1, <2>2 DEF ObjectInv, ApsOK
  <1> QED
    BY <1>2, <1>4, <1>6, <1>7, <1>8, <1>9, <1>10 DEF ObjectInv

-----------------------------------------------------------------------------
(* The queue and the requests in it.                                       *)

\* What the types of the posted events say of a request.
LEMMA PostedTypes ==
    /\ Posted \subseteq Events /\ NoEvt \in Events /\ NoIface \notin Ifaces
    /\ \A e \in Posted : e.event = "LAN_DELETE_SELF" => e = Request(e.iface) /\ e.iface \in Ifaces
    /\ \A i \in Ifaces : /\ Request(i) \in Posted /\ Request(i) # NoEvt
                         /\ Request(i).event = "LAN_DELETE_SELF" /\ Request(i).iface = i
  <1>1. Posted \subseteq Events /\ NoIface \notin Ifaces
    BY IfacesAssumption DEF Posted
  <1>2. NoEvt \in Events
    BY DEF Events, EventNames, NoEvt, Evt
  <1>3. ASSUME NEW e \in Posted, e.event = "LAN_DELETE_SELF"
        PROVE  e = Request(e.iface) /\ e.iface \in Ifaces
    <2>0. e.event # "CFG_CHANGE"
      BY <1>3
    <2>1. e \in Events /\ e.self /\ e.iface \in Ifaces
      BY <1>3, <2>0 DEF Posted
    <2>2. PICK s \in BOOLEAN : e = [event |-> e.event, iface |-> e.iface, self |-> s]
      BY <2>1 DEF Events
    <2>3. s = TRUE
      BY <2>1, <2>2
    <2> QED
      BY <1>3, <2>1, <2>2, <2>3 DEF Request, SelfEvt
  <1>4. ASSUME NEW i \in Ifaces
        PROVE  /\ Request(i) \in Posted /\ Request(i) # NoEvt
               /\ Request(i).event = "LAN_DELETE_SELF" /\ Request(i).iface = i
    <2>1. PICK r : r = Request(i)
      OBVIOUS
    <2>2. r = [event |-> "LAN_DELETE_SELF", iface |-> i, self |-> TRUE]
      BY <2>1 DEF Request, SelfEvt
    <2>3. r \in Events /\ r.event = "LAN_DELETE_SELF" /\ r.iface = i /\ r.self
      BY <2>2 DEF Events, EventNames
    <2>4. NoEvt.event = "none"
      BY DEF NoEvt, Evt
    <2> QED
      BY <2>1, <2>3, <2>4 DEF Posted
  <1> QED
    BY <1>1, <1>2, <1>3, <1>4

\* Events of another name change nothing about the requests.
LEMMA OthersPosted ==
    ASSUME NEW q \in Seq(Posted), NEW es \in Seq(Posted),
           \A n \in 1 .. Len(es) : es[n].event # "LAN_DELETE_SELF"
    PROVE  /\ q \o es \in Seq(Posted)
           /\ \A i \in Ifaces : /\ Asked(q \o es, i) <=> Asked(q, i)
                                /\ Once(q, i) => Once(q \o es, i)
  <1>1. PICK w : w = q \o es
    OBVIOUS
  <1>2. /\ w \in Seq(Posted) /\ Len(w) = Len(q) + Len(es) /\ Len(q) \in Nat /\ Len(es) \in Nat
        /\ \A n \in 1 .. Len(q) : w[n] = q[n]
        /\ \A n \in 1 .. Len(w) : n \notin 1 .. Len(q) =>
              n - Len(q) \in 1 .. Len(es) /\ w[n] = es[n - Len(q)]
    BY <1>1, ConcatProperties
  <1>3. \A i \in Ifaces : \A n \in 1 .. Len(w) : w[n] = Request(i) => n \in 1 .. Len(q)
    <2> SUFFICES ASSUME NEW i \in Ifaces, NEW n \in 1 .. Len(w), n \notin 1 .. Len(q)
                 PROVE  w[n] # Request(i)
      OBVIOUS
    <2>1. w[n].event # "LAN_DELETE_SELF"
      BY <1>2
    <2> QED
      BY <2>1, PostedTypes
  <1>4. \A n \in 1 .. Len(q) : n \in 1 .. Len(w)
    BY <1>2
  <1>5. ASSUME NEW i \in Ifaces
        PROVE  (Asked(w, i) <=> Asked(q, i)) /\ (Once(q, i) => Once(w, i))
    BY <1>2, <1>3, <1>4 DEF Asked, Once
  <1> QED
    BY <1>1, <1>2, <1>5

\* A request for an interface that has none under way.
LEMMA RequestPosted ==
    ASSUME NEW q \in Seq(Posted), NEW i \in Ifaces, ~Asked(q, i)
    PROVE  /\ q \o <<Request(i)>> \in Seq(Posted)
           /\ \A j \in Ifaces : /\ Asked(q \o <<Request(i)>>, j) <=> Asked(q, j) \/ j = i
                                /\ Once(q, j) => Once(q \o <<Request(i)>>, j)
  <1>1. PICK r \in Posted : r = Request(i) /\ \A j \in Ifaces : r = Request(j) <=> j = i
    BY PostedTypes
  <1>2. PICK w : w = q \o <<r>>
    OBVIOUS
  <1>3. /\ w \in Seq(Posted) /\ Len(w) = Len(q) + 1 /\ Len(q) \in Nat
        /\ \A n \in 1 .. Len(q) : w[n] = q[n]
        /\ w[Len(q) + 1] = r
    BY <1>2
  <1>4. \A n : n \in 1 .. Len(w) <=> n \in 1 .. Len(q) \/ n = Len(q) + 1
    BY <1>3
  <1>5. ASSUME NEW j \in Ifaces
        PROVE  (Asked(w, j) <=> Asked(q, j) \/ j = i) /\ (Once(q, j) => Once(w, j))
    <2>1. Asked(w, j) <=> Asked(q, j) \/ j = i
      BY <1>1, <1>3, <1>4 DEF Asked
    <2>2. Once(q, j) => Once(w, j)
      BY <1>1, <1>3, <1>4 DEF Asked, Once
    <2> QED
      BY <2>1, <2>2
  <1> QED
    BY <1>1, <1>2, <1>3, <1>5

\* The head is taken.
LEMMA HeadTaken ==
    ASSUME NEW q \in Seq(Posted), q # <<>>
    PROVE  /\ Tail(q) \in Seq(Posted) /\ Head(q) \in Posted
           /\ \A i \in Ifaces : Once(q, i) =>
                 /\ Once(Tail(q), i)
                 /\ Asked(Tail(q), i) <=> Asked(q, i) /\ Head(q) # Request(i)
                 /\ Head(q) = Request(i) => Asked(q, i)
  <1>1. PICK w : w = Tail(q)
    OBVIOUS
  <1>2. /\ w \in Seq(Posted) /\ Len(w) = Len(q) - 1 /\ Len(q) \in Nat /\ Len(q) > 0
        /\ \A n \in 1 .. Len(w) : w[n] = q[n + 1]
        /\ Head(q) = q[1] /\ q[1] \in Posted
    BY <1>1, HeadTailProperties
  <1>3. ASSUME NEW i \in Ifaces, Once(q, i)
        PROVE  /\ Once(w, i)
               /\ Asked(w, i) <=> Asked(q, i) /\ Head(q) # Request(i)
               /\ Head(q) = Request(i) => Asked(q, i)
    <2>1. Once(w, i)
      <3> SUFFICES ASSUME NEW m \in 1 .. Len(w), NEW n \in 1 .. Len(w),
                          w[m] = Request(i), w[n] = Request(i)
                   PROVE  m = n
        BY DEF Once
      <3>1. m + 1 \in 1 .. Len(q) /\ n + 1 \in 1 .. Len(q) /\ q[m + 1] = Request(i) /\ q[n + 1] = Request(i)
        BY <1>2
      <3>2. m + 1 = n + 1
        BY <1>3, <3>1 DEF Once
      <3> QED
        BY <1>2, <3>2
    <2>2. Head(q) = Request(i) => Asked(q, i)
      BY <1>2 DEF Asked
    <2>3. ASSUME NEW n \in 1 .. Len(w), w[n] = Request(i)
          PROVE  Asked(q, i) /\ q[1] # Request(i)
      <3>1. n + 1 \in 1 .. Len(q) /\ q[n + 1] = Request(i) /\ n + 1 # 1 /\ 1 \in 1 .. Len(q)
        BY <1>2, <2>3
      <3> QED
        BY <1>3, <3>1 DEF Asked, Once
    <2>4. ASSUME NEW n \in 1 .. Len(q), q[n] = Request(i), q[1] # Request(i)
          PROVE  Asked(w, i)
      <3>1. n - 1 \in 1 .. Len(w) /\ (n - 1) + 1 = n
        BY <1>2, <2>4
      <3>2. w[n - 1] = q[n]
        BY <1>2, <3>1
      <3> QED
        BY <2>4, <3>1, <3>2 DEF Asked
    <2>5. Asked(w, i) <=> Asked(q, i) /\ Head(q) # Request(i)
      BY <1>2, <2>3, <2>4 DEF Asked
    <2> QED
      BY <2>1, <2>2, <2>5
  <1> QED
    BY <1>1, <1>2, <1>3

\* PostEvt of events that are no requests.
LEMMA PostsOthers ==
    ASSUME QueueOK, NEW es \in Seq(Posted),
           \A n \in 1 .. Len(es) : es[n].event # "LAN_DELETE_SELF", PostEvt(es)
    PROVE  /\ mQ' \in Seq(Posted) /\ woken' \in BOOLEAN
           /\ \A i \in Ifaces : /\ Asked(mQ', i) <=> Asked(mQ, i)
                                /\ Once(mQ, i) => Once(mQ', i)
  <1>1. mQ' = mQ \o es /\ mQ \in Seq(Posted)
    BY DEF PostEvt, QueueOK
  <1>2. woken' \in BOOLEAN
    BY DEF PostEvt, Signal
  <1>3. /\ mQ \o es \in Seq(Posted)
        /\ \A i \in Ifaces : /\ Asked(mQ \o es, i) <=> Asked(mQ, i)
                             /\ Once(mQ, i) => Once(mQ \o es, i)
    BY <1>1, OthersPosted
  <1> QED
    BY <1>1, <1>2, <1>3

\* PostEvt of a request.
LEMMA PostsRequest ==
    ASSUME QueueOK, NEW i \in Ifaces, ~Asked(mQ, i), PostEvt(<<Request(i)>>)
    PROVE  /\ mQ' \in Seq(Posted) /\ woken' \in BOOLEAN
           /\ \A j \in Ifaces : /\ Asked(mQ', j) <=> Asked(mQ, j) \/ j = i
                                /\ Once(mQ, j) => Once(mQ', j)
  <1>1. mQ' = mQ \o <<Request(i)>> /\ mQ \in Seq(Posted)
    BY DEF PostEvt, QueueOK
  <1>2. woken' \in BOOLEAN
    BY DEF PostEvt, Signal
  <1>3. /\ mQ \o <<Request(i)>> \in Seq(Posted)
        /\ \A j \in Ifaces : /\ Asked(mQ \o <<Request(i)>>, j) <=> Asked(mQ, j) \/ j = i
                             /\ Once(mQ, j) => Once(mQ \o <<Request(i)>>, j)
    BY <1>1, RequestPosted
  <1> QED
    BY <1>1, <1>2, <1>3

\* The requests and those they are about stay as they are.
LEMMA RequestsKept ==
    ASSUME RequestsOK,
           \A i \in Ifaces : (Asked(mQ', i) <=> Asked(mQ, i)) /\ (Once(mQ, i) => Once(mQ', i)),
           \A i \in Ifaces : Waits(i)' <=> Waits(i),
           \A i \in Ifaces : cur' = Request(i) <=> cur = Request(i)
    PROVE  RequestsOK'
  <1> SUFFICES ASSUME NEW i \in Ifaces
               PROVE  /\ Once(mQ', i) /\ ~(Asked(mQ', i) /\ cur' = Request(i))
                      /\ Waits(i)' <=> Asked(mQ', i) \/ cur' = Request(i)
    BY DEF RequestsOK
  <1>1. /\ Once(mQ, i) /\ ~(Asked(mQ, i) /\ cur = Request(i))
        /\ Waits(i) <=> Asked(mQ, i) \/ cur = Request(i)
    BY DEF RequestsOK
  <1> QED
    BY <1>1, Zenon

-----------------------------------------------------------------------------
(* The callbacks.                                                          *)

\* The object that is called, and the event.
LEMMA CalledOne ==
    ASSUME IfacesInv, NEW o \in Objs, Called(o)
    PROVE  /\ tmp = o /\ thread = "walk" /\ Alive(o) /\ object[o] \in Obj /\ Hears(cur, o)
           /\ cur \in Posted /\ cur.iface \in {object[o].iface, NoIface} /\ object[o].iface \in Ifaces
           /\ \A i \in Ifaces : cur = Request(i) => i = object[o].iface
  <1>1. tmp = o /\ thread = "walk" /\ Alive(o) /\ Hears(cur, o)
    BY DEF Called, IfacesInv, WalkOK
  <1>2. object[o] \in Obj
    BY <1>1 DEF Alive, IfacesInv, ObjectsOK
  <1>3. cur # NoEvt
    <2>1. NoEvt.event = "none" /\ "none" \notin RegisteredFor(object[o].kind)
      BY <1>2 DEF NoEvt, Evt, RegisteredFor, Obj, Kinds
    <2> QED
      BY <1>1, <2>1 DEF Hears
  <1>4. cur \in Posted
    BY <1>3 DEF IfacesInv, QueueOK
  <1>5. object[o].iface \in Ifaces /\ cur.iface \in {object[o].iface, NoIface}
    BY <1>1, <1>2 DEF Obj, Hears
  <1>6. ASSUME NEW i \in Ifaces, cur = Request(i) PROVE i = object[o].iface
    BY <1>5, <1>6, PostedTypes
  <1> QED
    BY <1>1, <1>2, <1>4, <1>5, <1>6

\* The walk goes on over objects that stay.
LEMMA WalkAdvances ==
    ASSUME IfacesInv, NEW o \in Objs, Called(o), Advance,
           \A p \in Objs : p # o /\ Alive(p) => /\ object'[p].kind = object[p].kind
                                                /\ object'[p].iface = object[p].iface
                                                /\ object'[p] # Free
    PROVE  /\ WalkOK' /\ cur' \in Posted \cup {NoEvt} /\ thread' \in {"loop", "wait", "walk"}
           /\ \A i \in Ifaces : cur' = Request(i) => cur = Request(i)
           /\ \A i \in Ifaces : cur = Request(i) => cur' = NoEvt
  <1>1. /\ tmp = o /\ thread = "walk" /\ Alive(o) /\ cur \in Posted
        /\ \A i \in Ifaces : cur = Request(i) => i = object[o].iface
    BY CalledOne
  <1>2. \/ tmp' = Null /\ cur' = NoEvt /\ thread' = "loop"
        \/ /\ cur' = cur /\ thread' = "walk"
           /\ tmp' \in Objs /\ tmp' # tmp /\ Alive(tmp') /\ Hears(cur, tmp')
    BY <1>1, AdvanceFinds DEF IfacesInv
  <1>3. CASE tmp' = Null /\ cur' = NoEvt /\ thread' = "loop"
    BY <1>3, PostedTypes DEF WalkOK
  <1>4. ASSUME cur' = cur, thread' = "walk", NEW p \in Objs, tmp' = p, p # o, Alive(p), Hears(cur, p)
        PROVE  /\ WalkOK' /\ \A i \in Ifaces : cur # Request(i)
    <2>1. object'[p].kind = object[p].kind /\ object'[p].iface = object[p].iface /\ object'[p] # Free
      BY <1>4
    <2>2. WalkOK'
      BY <1>4, <2>1 DEF WalkOK, Alive, Hears
    <2>3. ASSUME NEW i \in Ifaces, cur = Request(i) PROVE FALSE
      <3>1. i = object[o].iface /\ cur.iface = i /\ i # NoIface
        BY <1>1, <2>3, PostedTypes
      <3>2. object[p].iface = object[o].iface
        BY <1>4, <3>1 DEF Hears
      <3> QED
        BY <1>1, <1>4, <3>2 DEF IfacesInv, ObjectsOK
    <2> QED
      BY <2>2, <2>3
  <1> QED
    BY <1>1, <1>2, <1>3, <1>4

\* An active object that goes down posts the request, and there was none.
LEMMA GoesDown ==
    ASSUME IfacesInv, NEW o \in Objs, Called(o), IsLan(o), cur.event # "LAN_DELETE_SELF",
           object[o].is_active, NEW switch \in BOOLEAN, handle_down_evt(o, switch), Advance,
           UNCHANGED <<driver, num_wlan_ap_iface, zeroLeft>>
    PROVE  ObjectInv' /\ QueueOK' /\ WalkOK' /\ RequestsOK'
  <1>1. PICK i \in Ifaces : i = object[o].iface
    BY CalledOne
  <1>2. Alive(o) /\ ObjectInv
    BY CalledOne DEF IfacesInv, ObjectInv
  <1>3. /\ ObjectInv'
        /\ \A p \in Objs : p # o => object'[p] = object[p]
        /\ Alive(o)' /\ ~object'[o].is_active
        /\ object'[o].kind = object[o].kind /\ object'[o].iface = object[o].iface
    BY <1>2, DownObject DEF handle_down_evt
  <1>4. /\ WalkOK' /\ cur' \in Posted \cup {NoEvt} /\ thread' \in {"loop", "wait", "walk"}
        /\ \A j \in Ifaces : cur' = Request(j) => cur = Request(j)
    BY <1>3, WalkAdvances DEF Alive
  <1>5. \A j \in Ifaces : cur # Request(j) /\ cur' # Request(j)
    BY <1>4, PostedTypes
  <1>6. ~Waits(i) /\ \A j \in Ifaces : Waits(j)' <=> Waits(j) \/ j = i
    <2>1. \A p \in Objs : Alive(p) /\ object[p].iface = i => p = o
      BY <1>1, <1>2 DEF IfacesInv, ObjectsOK
    <2>2. ~Waits(i)
      BY <2>1 DEF Waits
    <2>3. Waits(i)'
      BY <1>1, <1>3 DEF Waits
    <2>4. ASSUME NEW j \in Ifaces, j # i PROVE Waits(j)' <=> Waits(j)
      <3>1. \A p \in Objs : Alive(p)' <=> Alive(p)
        BY <1>2, <1>3 DEF Alive
      <3> QED
        BY <1>1, <1>3, <2>4, <3>1 DEF Waits
    <2> QED
      BY <2>2, <2>3, <2>4
  <1>7. ~Asked(mQ, i)
    BY <1>6 DEF IfacesInv, RequestsOK
  <1>8. /\ mQ' \in Seq(Posted) /\ woken' \in BOOLEAN
        /\ \A j \in Ifaces : /\ Asked(mQ', j) <=> Asked(mQ, j) \/ j = i
                             /\ Once(mQ, j) => Once(mQ', j)
    BY <1>1, <1>7, PostsRequest DEF IfacesInv, handle_down_evt, Request
  <1>9. RequestsOK'
    BY <1>5, <1>6, <1>8 DEF IfacesInv, RequestsOK
  <1>10. QueueOK'
    BY <1>4, <1>8 DEF IfacesInv, QueueOK
  <1> QED
    BY <1>3, <1>4, <1>9, <1>10

\* An object that is deleted takes its request with it.
LEMMA Goes ==
    ASSUME IfacesInv, NEW o \in Objs, Called(o), delete(o), Advance,
           ~object[o].is_active => cur = Request(object[o].iface),
           UNCHANGED driver, NEW es \in Seq(FromOutside), PostEvt(es),
           num_wlan_ap_iface' = num_wlan_ap_iface - (IF object[o].kind = "WLAN" THEN 1 ELSE 0),
           zeroLeft' \in BOOLEAN,
           object[o].kind # "WLAN" => (zeroLeft' <=> zeroLeft),
           object[o].kind = "WLAN" =>
               (zeroLeft' <=> num_wlan_ap_iface' > 0 /\ (zeroLeft \/ object[o].wlan_ap_index = 0))
    PROVE  ObjectInv' /\ QueueOK' /\ WalkOK' /\ RequestsOK'
  <1>1. PICK i \in Ifaces : i = object[o].iface
    BY CalledOne
  <1>2. Alive(o) /\ ObjectInv /\ \A j \in Ifaces : cur = Request(j) => j = i
    BY <1>1, CalledOne DEF IfacesInv, ObjectInv
  <1>3. /\ ObjectInv'
        /\ \A p \in Objs : object'[p] = IF p = o THEN Free ELSE object[p]
    BY <1>2, DeletedObject
  <1>4. /\ WalkOK' /\ cur' \in Posted \cup {NoEvt} /\ thread' \in {"loop", "wait", "walk"}
        /\ \A j \in Ifaces : cur' = Request(j) => cur = Request(j)
        /\ \A j \in Ifaces : cur = Request(j) => cur' = NoEvt
    BY <1>3, WalkAdvances DEF Alive
  <1>5. \A j \in Ifaces : cur' # Request(j)
    BY <1>4, PostedTypes
  <1>6. \A j \in Ifaces : Waits(j)' <=> Waits(j) /\ j # i
    <2>1. \A p \in Objs : Alive(p)' <=> Alive(p) /\ p # o
      BY <1>3 DEF Alive
    <2>2. \A p \in Objs : Alive(p) /\ object[p].iface = i => p = o
      BY <1>1, <1>2 DEF IfacesInv, ObjectsOK
    <2> QED
      BY <1>1, <1>3, <2>1, <2>2 DEF Waits
  <1>7. /\ mQ' \in Seq(Posted) /\ woken' \in BOOLEAN
        /\ \A j \in Ifaces : /\ Asked(mQ', j) <=> Asked(mQ, j)
                             /\ Once(mQ, j) => Once(mQ', j)
    <2>1. es \in Seq(Posted) /\ \A n \in 1 .. Len(es) : es[n].event # "LAN_DELETE_SELF"
      BY DEF FromOutside
    <2> QED
      BY <2>1, PostsOthers DEF IfacesInv
  <1>8. ASSUME NEW j \in Ifaces PROVE Waits(j)' <=> Asked(mQ', j)
    <2>1. Waits(j) <=> Asked(mQ, j) \/ cur = Request(j)
      BY DEF IfacesInv, RequestsOK
    <2>2. ~(Asked(mQ, j) /\ cur = Request(j))
      BY DEF IfacesInv, RequestsOK
    <2>3. CASE j # i
      BY <1>2, <1>6, <1>7, <2>1, <2>3
    <2>4. CASE j = i
      <3>1. ~Waits(j)'
        BY <1>6, <2>4
      <3>2. ASSUME Asked(mQ, j) PROVE FALSE
        <4>1. Waits(j) /\ cur # Request(i)
          BY <2>1, <2>2, <2>4, <3>2
        <4>2. object[o].is_active
          BY <1>1, <4>1
        <4> QED
          BY <1>1, <1>2, <2>4, <4>1, <4>2 DEF Waits, IfacesInv, ObjectsOK
      <3> QED
        BY <1>7, <3>1, <3>2
    <2> QED
      BY <2>3, <2>4
  <1>9. RequestsOK'
    <2> SUFFICES ASSUME NEW j \in Ifaces
                 PROVE  /\ Once(mQ', j) /\ ~(Asked(mQ', j) /\ cur' = Request(j))
                        /\ Waits(j)' <=> Asked(mQ', j) \/ cur' = Request(j)
      BY DEF RequestsOK
    <2>1. Once(mQ, j)
      BY DEF IfacesInv, RequestsOK
    <2> QED
      BY <1>5, <1>7, <1>8, <2>1
  <1>10. QueueOK'
    BY <1>4, <1>7 DEF IfacesInv, QueueOK
  <1> QED
    BY <1>3, <1>4, <1>9, <1>10

\* IPA_LINK_DOWN_EVENT and IPA_WLAN_LINK_DOWN_EVENT of an IPACM_Lan or IPACM_Wlan.
LEMMA LanDownKeeps ==
    ASSUME IfacesInv, NEW o \in Objs, LanDown(o)
    PROVE  IfacesInv'
  <1>1. ObjectInv' /\ QueueOK' /\ WalkOK' /\ RequestsOK'
    <2>1. Called(o) /\ IsLan(o) /\ cur.event # "LAN_DELETE_SELF" /\ object[o].is_active
          /\ handle_down_evt(o, FALSE) /\ Advance
          /\ UNCHANGED <<driver, num_wlan_ap_iface, zeroLeft>>
      BY DEF LanDown, envVars
    <2> QED
      BY <2>1, GoesDown
  <1>2. CatsOK'
    <2>1. CatsOK /\ UNCHANGED file
      BY DEF IfacesInv, LanDown, envVars
    <2>2. CASE object[o].kind = "WLAN"
      <3>1. object[o].iface \in Wlans /\ cur.iface \in {object[o].iface, NoIface} /\ NoIface \notin Ifaces
        BY <2>2, CalledOne, IfacesAssumption DEF LanDown, IfacesInv, ObjectsOK
      <3>2. if_cat' = [if_cat EXCEPT ![cur.iface] = "UNKNOWN"]
        BY <2>2 DEF LanDown
      <3>3. \A i \in Ifaces : if_cat'[i] = IF i = cur.iface THEN "UNKNOWN" ELSE if_cat[i]
        BY <2>1, <3>2 DEF CatsOK
      <3>4. if_cat' \in [Ifaces -> {"UNKNOWN", "WLAN", "LAN", "WAN"}]
        BY <2>1, <3>2 DEF CatsOK
      <3> QED
        BY <2>1, <3>1, <3>3, <3>4 DEF CatsOK
    <2>3. CASE object[o].kind # "WLAN"
      BY <2>1, <2>3 DEF LanDown, CatsOK
    <2> QED
      BY <2>2, <2>3
  <1> QED
    BY <1>1, <1>2 DEF IfacesInv, ObjectInv

\* IPA_CFG_CHANGE_EVENT of an IPACM_Lan.
LEMMA LanCfgChangeKeeps ==
    ASSUME IfacesInv, NEW o \in Objs, LanCfgChange(o)
    PROVE  IfacesInv'
  <1>1. ObjectInv' /\ QueueOK' /\ WalkOK' /\ RequestsOK'
    <2>1. Called(o) /\ IsLan(o) /\ cur.event # "LAN_DELETE_SELF" /\ object[o].is_active
          /\ handle_down_evt(o, TRUE) /\ Advance
          /\ UNCHANGED <<driver, num_wlan_ap_iface, zeroLeft>>
      BY DEF LanCfgChange, IsLan, envVars
    <2> QED
      BY <2>1, GoesDown
  <1>2. CatsOK'
    BY DEF IfacesInv, LanCfgChange, envVars, CatsOK
  <1> QED
    BY <1>1, <1>2 DEF IfacesInv, ObjectInv

\* The event by which an object makes room for another one.
LEMMA UsbLinkUpPosted ==
    ASSUME NEW i \in Ifaces
    PROVE  /\ <<SelfEvt("USB_LINK_UP", i)>> \in Seq(FromOutside)
           /\ <<>> \in Seq(FromOutside)
  <1>1. SelfEvt("USB_LINK_UP", i) \in FromOutside
    BY DEF FromOutside, Posted, Events, EventNames, SelfEvt
  <1> QED
    BY <1>1

\* IPA_LAN_DELETE_SELF.
LEMMA DeleteSelfKeeps ==
    ASSUME IfacesInv, NEW o \in Objs, DeleteSelf(o)
    PROVE  IfacesInv'
  <1>1. Called(o) /\ delete(o) /\ Advance /\ UNCHANGED <<driver, file, if_cat>>
    BY DEF DeleteSelf, AdvanceFreed, envVars
  <1>2. cur = Request(object[o].iface) /\ cur.iface = object[o].iface /\ object[o].iface \in Ifaces
    <2>1. cur = Request(cur.iface) /\ cur.iface \in Ifaces
      BY <1>1, CalledOne, PostedTypes DEF DeleteSelf
    <2> QED
      BY <1>1, <2>1, CalledOne
  <1>3. PICK es \in Seq(FromOutside) : PostEvt(es)
    <2>1. \/ PostEvt(<<SelfEvt("USB_LINK_UP", cur.iface)>>)
          \/ PostEvt(<<>>)
      BY DEF DeleteSelf
    <2> QED
      BY <1>2, <2>1, UsbLinkUpPosted
  <1>4. num_wlan_ap_iface' = num_wlan_ap_iface - (IF object[o].kind = "WLAN" THEN 1 ELSE 0)
    BY DEF DeleteSelf
  <1>5. zeroLeft \in BOOLEAN
    BY DEF IfacesInv, ApsOK
  <1>6. object[o].kind # "WLAN" => zeroLeft' = zeroLeft
    BY DEF DeleteSelf
  <1>7. object[o].kind = "WLAN" =>
           zeroLeft' = (num_wlan_ap_iface' > 0 /\ (zeroLeft \/ object[o].wlan_ap_index = 0))
    BY Zenon DEF DeleteSelf
  <1>8. zeroLeft' \in BOOLEAN
    BY <1>5, <1>6, <1>7
  <1>9. /\ object[o].kind # "WLAN" => (zeroLeft' <=> zeroLeft)
        /\ object[o].kind = "WLAN" =>
               (zeroLeft' <=> num_wlan_ap_iface' > 0 /\ (zeroLeft \/ object[o].wlan_ap_index = 0))
    <2>1. object[o].kind # "WLAN" => (zeroLeft' <=> zeroLeft)
      BY <1>6
    <2>2. object[o].kind = "WLAN" =>
              (zeroLeft' <=> num_wlan_ap_iface' > 0 /\ (zeroLeft \/ object[o].wlan_ap_index = 0))
      BY <1>7
    <2> QED
      BY <2>1, <2>2
  <1>10. ObjectInv' /\ QueueOK' /\ WalkOK' /\ RequestsOK'
    BY <1>1, <1>2, <1>3, <1>4, <1>8, <1>9, Goes
  <1>11. CatsOK'
    BY <1>1 DEF IfacesInv, CatsOK
  <1> QED
    BY <1>10, <1>11 DEF IfacesInv, ObjectInv

\* IPA_LINK_DOWN_EVENT and IPA_CFG_CHANGE_EVENT of an IPACM_Wan, which is never inactive.
LEMMA WanKeeps ==
    ASSUME IfacesInv, NEW o \in Objs, WanDown(o) \/ WanCfgChange(o)
    PROVE  IfacesInv'
  <1>1. /\ Called(o) /\ ~IsLan(o) /\ delete(o) /\ Advance
        /\ UNCHANGED <<driver, file, if_cat, num_wlan_ap_iface, zeroLeft>>
    BY DEF WanDown, WanCfgChange, AdvanceFreed, envVars, IsLan
  <1>2. object[o].iface \in Ifaces /\ object[o].is_active
    BY <1>1, CalledOne DEF IfacesInv, ObjectsOK, IsLan
  <1>3. mQ \in Seq(Posted) /\ woken \in BOOLEAN
    BY DEF IfacesInv, QueueOK
  <1>4. PICK es \in Seq(FromOutside) : PostEvt(es)
    <2>1. CASE NothingPosted
      <3>1. mQ' = mQ \o <<>> /\ woken' = (woken \/ (thread = "wait" /\ <<>> # <<>>))
        BY <1>3, <2>1 DEF NothingPosted
      <3> QED
        BY <1>2, <3>1, UsbLinkUpPosted DEF PostEvt, Signal
    <2>2. CASE PostEvt(<<SelfEvt("USB_LINK_UP", object[o].iface)>>)
      BY <1>2, <2>2, UsbLinkUpPosted
    <2> QED
      BY <2>1, <2>2 DEF WanDown, WanCfgChange
  <1>5. object[o].kind # "WLAN"
    BY <1>1 DEF IsLan
  <1>6. num_wlan_ap_iface' = num_wlan_ap_iface - (IF object[o].kind = "WLAN" THEN 1 ELSE 0)
    <2>1. num_wlan_ap_iface \in 0 .. 2
      BY DEF IfacesInv, ApsOK
    <2> QED
      BY <1>1, <1>5, <2>1
  <1>7. zeroLeft' \in BOOLEAN /\ (zeroLeft' <=> zeroLeft)
    BY <1>1 DEF IfacesInv, ApsOK
  <1>8. ObjectInv' /\ QueueOK' /\ WalkOK' /\ RequestsOK'
    BY <1>1, <1>2, <1>4, <1>5, <1>6, <1>7, Goes
  <1>9. CatsOK'
    BY <1>1 DEF IfacesInv, CatsOK
  <1> QED
    BY <1>8, <1>9 DEF IfacesInv, ObjectInv

\* A listener that has nothing to do was not asked to delete itself.
LEMMA ListenerSkipsKeeps ==
    ASSUME IfacesInv, NEW o \in Objs, ListenerSkips(o)
    PROVE  IfacesInv'
  <1>1. /\ Called(o) /\ NotForIt(o) /\ Advance
        /\ UNCHANGED <<mQ, woken, driver, file, object, listeners, managed, if_cat,
                       num_wlan_ap_iface, zeroLeft>>
    BY DEF ListenerSkips, NothingPosted, objVars, envVars
  <1>2. ObjectInv' /\ CatsOK'
    BY <1>1 DEF IfacesInv, ObjectInv, ObjectsOK, ListsOK, ApsOK, WlanAps, Alive, CatsOK
  <1>3. /\ WalkOK' /\ cur' \in Posted \cup {NoEvt} /\ thread' \in {"loop", "wait", "walk"}
        /\ \A j \in Ifaces : cur' = Request(j) => cur = Request(j)
    BY <1>1, WalkAdvances DEF Alive
  <1>4. cur.event # "LAN_DELETE_SELF"
    BY <1>1 DEF NotForIt
  <1>5. \A j \in Ifaces : cur # Request(j) /\ cur' # Request(j)
    BY <1>3, <1>4, PostedTypes
  <1>6. \A j \in Ifaces : Waits(j)' <=> Waits(j)
    BY <1>1 DEF Waits, Alive
  <1>7. RequestsOK'
    BY <1>1, <1>5, <1>6, RequestsKept DEF IfacesInv
  <1>8. QueueOK'
    BY <1>1, <1>3 DEF IfacesInv, QueueOK
  <1> QED
    BY <1>2, <1>3, <1>7, <1>8 DEF IfacesInv, ObjectInv

-----------------------------------------------------------------------------
(* The manager, and the step that takes an event.                          *)

\* The event goes to the objects there were; a request finds the one it is about.
LEMMA DequeueKeeps ==
    ASSUME IfacesInv, NEW e, Dequeue(e), Grown
    PROVE  e \in Posted /\ QueueOK' /\ WalkOK' /\ RequestsOK'
  <1>1. /\ mQ \in Seq(Posted) /\ mQ # <<>> /\ e = Head(mQ) /\ mQ' = Tail(mQ)
        /\ cur = NoEvt /\ WalkOn(e, 1) /\ UNCHANGED <<woken, driver>>
    BY DEF Dequeue, IfacesInv, QueueOK, WalkOK, envVars
  <1>2. /\ mQ' \in Seq(Posted) /\ e \in Posted
        /\ \A i \in Ifaces : Once(mQ, i) =>
              /\ Once(mQ', i)
              /\ Asked(mQ', i) <=> Asked(mQ, i) /\ e # Request(i)
              /\ e = Request(i) => Asked(mQ, i)
    BY <1>1, HeadTaken
  <1>3. \/ /\ tmp' = Null /\ cur' = NoEvt /\ thread' = "loop"
           /\ \A k \in 1 .. Len(listeners) : ~Hears(e, listeners[k])
        \/ /\ cur' = e /\ thread' = "walk"
           /\ \E k \in 1 .. Len(listeners) : tmp' = listeners[k] /\ Hears(e, listeners[k])
    BY <1>1, WalkOnFinds DEF IfacesInv, ListsOK
  <1>4. \A p \in Objs : Alive(p) => object'[p] = object[p]
    BY DEF Grown
  <1>5. WalkOK'
    <2>1. CASE tmp' = Null /\ cur' = NoEvt /\ thread' = "loop"
      BY <2>1 DEF WalkOK
    <2>2. ASSUME cur' = e, thread' = "walk", NEW k \in 1 .. Len(listeners),
                 tmp' = listeners[k], Hears(e, listeners[k])
          PROVE  WalkOK'
      <3>1. listeners \in Seq(Objs)
        BY DEF IfacesInv, ListsOK
      <3>2. PICK p \in Objs : p = listeners[k] /\ Alive(p)
        BY <3>1 DEF IfacesInv, ListsOK
      <3>3. object'[p] = object[p] /\ tmp' = p /\ Hears(e, p)
        BY <1>4, <2>2, <3>2
      <3> QED
        BY <2>2, <3>2, <3>3 DEF WalkOK, Hears, Alive
    <2> QED
      BY <1>3, <2>1, <2>2
  <1>6. QueueOK'
    BY <1>1, <1>2, <1>3 DEF IfacesInv, QueueOK
  <1>7. \A i \in Ifaces : Waits(i)' <=> Waits(i)
    <2>1. ASSUME NEW i \in Ifaces, NEW p \in Objs, Alive(p)', object'[p].iface = i, ~object'[p].is_active
          PROVE  Waits(i)
      <3>1. Alive(p)
        BY <2>1 DEF Grown, Alive
      <3> QED
        BY <1>4, <2>1, <3>1 DEF Waits
    <2>2. ASSUME NEW i \in Ifaces, NEW p \in Objs, Alive(p), object[p].iface = i, ~object[p].is_active
          PROVE  Waits(i)'
      <3>1. object'[p] = object[p]
        BY <1>4, <2>2
      <3> QED
        BY <2>2, <3>1 DEF Waits, Alive
    <2> QED
      BY <2>1, <2>2 DEF Waits
  <1>8. ASSUME NEW i \in Ifaces
        PROVE  cur' = Request(i) <=> e = Request(i)
    <2>1. ASSUME e = Request(i) PROVE \E k \in 1 .. Len(listeners) : Hears(e, listeners[k])
      <3>1. Waits(i)
        BY <1>2, <2>1 DEF IfacesInv, RequestsOK
      <3>2. PICK p \in Objs : Alive(p) /\ object[p].iface = i /\ ~object[p].is_active
        BY <3>1 DEF Waits
      <3>3. object[p].kind \in {"LAN", "WLAN"}
        BY <3>2 DEF IfacesInv, ObjectsOK
      <3>4. e.event \in RegisteredFor(object[p].kind) /\ e.iface = i
        BY <2>1, <3>3, PostedTypes DEF RegisteredFor
      <3>5. Hears(e, p)
        BY <3>2, <3>4 DEF Hears
      <3> QED
        BY <3>2, <3>5 DEF IfacesInv, ListsOK
    <2>2. NoEvt # Request(i)
      BY PostedTypes
    <2> QED
      BY <1>3, <2>1, <2>2
  <1>9. RequestsOK'
    <2> SUFFICES ASSUME NEW i \in Ifaces
                 PROVE  /\ Once(mQ', i) /\ ~(Asked(mQ', i) /\ cur' = Request(i))
                        /\ Waits(i)' <=> Asked(mQ', i) \/ cur' = Request(i)
      BY DEF RequestsOK
    <2>1. Once(mQ, i) /\ (Waits(i) <=> Asked(mQ, i) \/ cur = Request(i)) /\ cur # Request(i)
      BY <1>1, PostedTypes DEF IfacesInv, RequestsOK
    <2>2. /\ Once(mQ', i)
          /\ Asked(mQ', i) <=> Asked(mQ, i) /\ e # Request(i)
          /\ e = Request(i) => Asked(mQ, i)
      BY <1>2, <2>1
    <2>3. (Waits(i)' <=> Waits(i)) /\ (cur' = Request(i) <=> e = Request(i))
      BY <1>7, <1>8
    <2> QED
      BY <2>1, <2>2, <2>3, Zenon
  <1> QED
    BY <1>2, <1>5, <1>6, <1>9

\* An event that creates nothing.
LEMMA UnchangedGrown ==
    ASSUME ObjectInv, UNCHANGED <<object, listeners, managed, num_wlan_ap_iface, zeroLeft>>
    PROVE  ObjectInv' /\ Grown
  <1>1. WlanAps' = WlanAps /\ \A o \in Objs : Alive(o)' <=> Alive(o)
    BY DEF WlanAps, Alive
  <1>2. ObjectsOK' /\ ListsOK'
    BY DEF ObjectInv, ObjectsOK, ListsOK, Alive
  <1>3. ApsOK'
    BY <1>1 DEF ObjectInv, ApsOK
  <1>4. Grown
    BY DEF Grown, Alive
  <1> QED
    BY <1>2, <1>3, <1>4 DEF ObjectInv

\* create_iface_instance, which may find an instance.
LEMMA CreateGrows ==
    ASSUME ObjectInv, NEW i \in Ifaces, NEW kind \in Kinds \cup {"none"},
           kind # "none" => (kind = "WLAN" <=> i \in Wlans),
           create_iface_instance(i, kind), UNCHANGED zeroLeft
    PROVE  ObjectInv' /\ Grown
  <1>1. CASE ~SearchInstance(i) /\ kind # "none"
    BY <1>1, NewObject DEF create_iface_instance
  <1>2. CASE ~(~SearchInstance(i) /\ kind # "none")
    BY <1>2, UnchangedGrown DEF create_iface_instance, objVars
  <1> QED
    BY <1>1, <1>2

\* The link-up events.
LEMMA ManagerUpKeeps ==
    ASSUME IfacesInv, NEW e, ManagerUp(e)
    PROVE  IfacesInv'
  <1>1. /\ Dequeue(e) /\ UNCHANGED <<zeroLeft, file>> /\ ObjectInv /\ CatsOK
        /\ e.event \in {"LINK_UP", "USB_LINK_UP", "WLAN_AP_LINK_UP"}
    BY DEF ManagerUp, Dequeue, envVars, IfacesInv, ObjectInv
  <1>2. PICK i \in Ifaces : i = e.iface
    <2>1. mQ \in Seq(Posted) /\ mQ # <<>> /\ e = Head(mQ)
      BY <1>1 DEF Dequeue, IfacesInv, QueueOK
    <2>2. e \in Posted
      BY <2>1
    <2> QED
      BY <1>1, <2>2 DEF Posted
  <1>3. if_cat \in [Ifaces -> {"UNKNOWN", "WLAN", "LAN", "WAN"}]
        /\ (i \in Wlans <=> if_cat[i] \in {"UNKNOWN", "WLAN"})
    BY <1>1 DEF CatsOK
  <1>4. CASE LinkUp(i)
    <2>1. PICK kind \in Kinds \cup {"none"} :
             /\ create_iface_instance(i, kind)
             /\ kind = IF if_cat[i] = "WAN" THEN "Q6_WAN" ELSE "none"
      BY <1>4 DEF LinkUp, Kinds
    <2>2. kind # "none" => (kind = "WLAN" <=> i \in Wlans)
      BY <1>3, <2>1
    <2>3. ObjectInv' /\ Grown
      BY <1>1, <2>1, <2>2, CreateGrows
    <2>4. CatsOK'
      BY <1>1, <1>4 DEF LinkUp, CatsOK
    <2> QED
      BY <1>1, <2>3, <2>4, DequeueKeeps DEF IfacesInv, ObjectInv
  <1>5. CASE UsbLinkUp(i)
    <2>1. PICK kind : kind = CASE if_cat[i] = "WAN" -> "ECM_WAN"
                                [] if_cat[i] = "UNKNOWN" -> "none"
                                [] OTHER -> if_cat[i]
      OBVIOUS
    <2>2. create_iface_instance(i, kind)
      BY <1>5, <2>1 DEF UsbLinkUp
    <2>3. kind \in Kinds \cup {"none"} /\ (kind # "none" => (kind = "WLAN" <=> i \in Wlans))
      BY <1>3, <2>1 DEF Kinds
    <2>4. ObjectInv' /\ Grown
      BY <1>1, <2>2, <2>3, CreateGrows
    <2>5. CatsOK'
      BY <1>1, <1>5 DEF UsbLinkUp, CatsOK
    <2> QED
      BY <1>1, <2>4, <2>5, DequeueKeeps DEF IfacesInv, ObjectInv
  <1>6. CASE WlanApLinkUp(i)
    <2>1. CASE if_cat[i] = "UNKNOWN"
      <3>1. if_cat' = [if_cat EXCEPT ![i] = "WLAN"] /\ create_iface_instance(i, "WLAN")
        BY <1>6, <2>1 DEF WlanApLinkUp
      <3>2. i \in Wlans /\ "WLAN" \in Kinds
        BY <1>3, <2>1 DEF Kinds
      <3>3. ObjectInv' /\ Grown
        BY <1>1, <3>1, <3>2, CreateGrows
      <3>4. CatsOK'
        BY <1>1, <3>1, <3>2 DEF CatsOK
      <3> QED
        BY <1>1, <3>3, <3>4, DequeueKeeps DEF IfacesInv, ObjectInv
    <2>2. CASE if_cat[i] # "UNKNOWN"
      <3>1. UNCHANGED <<objVars, if_cat, num_wlan_ap_iface>>
        BY <1>6, <2>2 DEF WlanApLinkUp
      <3>2. ObjectInv' /\ Grown /\ CatsOK'
        BY <1>1, <3>1, UnchangedGrown DEF objVars, CatsOK
      <3> QED
        BY <1>1, <3>2, DequeueKeeps DEF IfacesInv, ObjectInv
    <2> QED
      BY <2>1, <2>2
  <1> QED
    BY <1>2, <1>4, <1>5, <1>6 DEF ManagerUp

\* A change of the file, and the events the manager is not registered for.
LEMMA ManagerStays ==
    ASSUME IfacesInv, NEW e, ManagerCfgChange(e) \/ ManagerSkips(e)
    PROVE  IfacesInv'
  <1>1. Dequeue(e) /\ UNCHANGED <<objVars, num_wlan_ap_iface, zeroLeft, file>> /\ ObjectInv /\ CatsOK
    BY DEF ManagerCfgChange, ManagerSkips, Dequeue, envVars, IfacesInv, ObjectInv
  <1>2. ObjectInv' /\ Grown
    BY <1>1, UnchangedGrown DEF objVars
  <1>3. CatsOK'
    <2>1. CASE UNCHANGED if_cat
      BY <1>1, <2>1 DEF CatsOK
    <2>2. CASE if_cat' = [i \in Ifaces |-> IF i \in Wlans THEN "UNKNOWN" ELSE file[i]]
      <3>1. \A i \in Ifaces : i \notin Wlans => file[i] \in {"LAN", "WAN"}
        BY <1>1 DEF CatsOK, Ifaces
      <3> QED
        BY <1>1, <2>2, <3>1 DEF CatsOK
    <2> QED
      BY <2>1, <2>2 DEF ManagerCfgChange, ManagerSkips
  <1> QED
    BY <1>1, <1>2, <1>3, DequeueKeeps DEF IfacesInv, ObjectInv

-----------------------------------------------------------------------------
(* The threads that post, and the wait.                                    *)

\* What comes from outside moves no request and no object.
LEMMA OutsideKeeps ==
    ASSUME IfacesInv, Idle, NEW es \in Seq(FromOutside), PostEvt(es),
           driver' \in Seq(FromOutside), file' \in [Usbs -> {"LAN", "WAN"}]
    PROVE  IfacesInv'
  <1>1. UNCHANGED <<thread, cur, tmp, object, listeners, managed, if_cat, num_wlan_ap_iface, zeroLeft>>
    BY DEF Idle, objVars
  <1>2. /\ mQ' \in Seq(Posted) /\ woken' \in BOOLEAN
        /\ \A i \in Ifaces : /\ Asked(mQ', i) <=> Asked(mQ, i)
                             /\ Once(mQ, i) => Once(mQ', i)
    <2>1. es \in Seq(Posted) /\ \A n \in 1 .. Len(es) : es[n].event # "LAN_DELETE_SELF"
      BY DEF FromOutside
    <2> QED
      BY <2>1, PostsOthers DEF IfacesInv
  <1>3. ObjectInv'
    BY <1>1, UnchangedGrown DEF IfacesInv, ObjectInv
  <1>4. QueueOK' /\ CatsOK'
    BY <1>1, <1>2 DEF IfacesInv, QueueOK, CatsOK
  <1>5. WalkOK'
    BY <1>1 DEF IfacesInv, WalkOK, Hears, Alive
  <1>6. \A i \in Ifaces : (Waits(i)' <=> Waits(i)) /\ (cur' = Request(i) <=> cur = Request(i))
    BY <1>1 DEF Waits, Alive
  <1>7. RequestsOK'
    BY <1>2, <1>6, RequestsKept DEF IfacesInv
  <1> QED
    BY <1>3, <1>4, <1>5, <1>7 DEF IfacesInv, ObjectInv

\* The events of the netlink thread, of the driver's and of the watcher of the file.
LEMMA OutsideEvents ==
    /\ \A i \in Ifaces, change \in BOOLEAN : \A state :
          NewLinkEvents(i, change, state) \in Seq(FromOutside)
    /\ \A i \in Ifaces : \A state : DriverEvents(i, state) \in Seq(FromOutside)
    /\ <<Evt("CFG_CHANGE", NoIface)>> \in Seq(FromOutside)
  <1>1. \A i \in Ifaces, n \in {"LINK_UP", "USB_LINK_UP", "WLAN_AP_LINK_UP", "LINK_DOWN", "WLAN_LINK_DOWN"} :
           Evt(n, i) \in FromOutside
    BY DEF FromOutside, Posted, Events, EventNames, Evt
  <1>2. Evt("CFG_CHANGE", NoIface) \in FromOutside
    BY DEF FromOutside, Posted, Events, EventNames, Evt
  <1>3. ASSUME NEW i \in Ifaces, NEW change \in BOOLEAN, NEW state
        PROVE  NewLinkEvents(i, change, state) \in Seq(FromOutside)
    <2>1. PICK a \in FromOutside : a = Evt(IF state = "down" THEN "LINK_DOWN" ELSE "LINK_UP", i)
      BY <1>1
    <2>2. PICK b \in FromOutside : b = Evt(IF state = "running" THEN "USB_LINK_UP" ELSE "LINK_DOWN", i)
      BY <1>1
    <2>3. PICK u \in Seq(FromOutside) : u = IF change THEN <<a>> ELSE <<>>
      <3>1. <<a>> \in Seq(FromOutside) /\ <<>> \in Seq(FromOutside)
        OBVIOUS
      <3> QED
        BY <3>1
    <2>4. u \o <<b>> \in Seq(FromOutside)
      BY ConcatProperties
    <2> QED
      BY <2>1, <2>2, <2>3, <2>4 DEF NewLinkEvents
  <1>4. ASSUME NEW i \in Ifaces, NEW state
        PROVE  DriverEvents(i, state) \in Seq(FromOutside)
    BY <1>1 DEF DriverEvents
  <1> QED
    BY <1>2, <1>3, <1>4

\* A step of a thread that posts.
LEMMA OutsideStep ==
    ASSUME IfacesInv,
           \/ \E i \in Ifaces : \/ \E state \in {"down", "up", "running"} : LinkChanges(i, state)
                                \/ LinkRepeated(i)
           \/ DriverPosts
           \/ \E i \in Usbs : CfgChanges(i)
    PROVE  IfacesInv'
  <1>1. driver \in Seq(FromOutside) /\ file \in [Usbs -> {"LAN", "WAN"}]
    BY DEF IfacesInv, QueueOK, CatsOK
  <1>2. ASSUME NEW i \in Ifaces, NEW state \in {"down", "up", "running"}, LinkChanges(i, state)
        PROVE  IfacesInv'
    <2>1. /\ PostEvt(NewLinkEvents(i, "down" \in {state, link[i]}, state)) /\ Idle /\ UNCHANGED file
          /\ driver' = driver \o DriverEvents(i, state)
      BY <1>2 DEF LinkChanges
    <2>2. ("down" \in {state, link[i]}) \in BOOLEAN
      OBVIOUS
    <2>3. PICK es \in Seq(FromOutside) : es = NewLinkEvents(i, "down" \in {state, link[i]}, state)
      BY <2>2, OutsideEvents, Zenon
    <2>4. PICK ds \in Seq(FromOutside) : ds = DriverEvents(i, state)
      BY OutsideEvents
    <2>5. driver' \in Seq(FromOutside)
      BY <1>1, <2>1, <2>4, ConcatProperties
    <2>6. PostEvt(es)
      BY <2>1, <2>3
    <2> QED
      BY <1>1, <2>1, <2>5, <2>6, OutsideKeeps
  <1>3. ASSUME NEW i \in Ifaces, LinkRepeated(i)
        PROVE  IfacesInv'
    <2>1. PostEvt(NewLinkEvents(i, FALSE, link[i])) /\ Idle /\ UNCHANGED <<file, driver>>
      BY <1>3 DEF LinkRepeated
    <2>2. PICK es \in Seq(FromOutside) : es = NewLinkEvents(i, FALSE, link[i])
      BY OutsideEvents
    <2> QED
      BY <1>1, <2>1, <2>2, OutsideKeeps
  <1>4. ASSUME DriverPosts
        PROVE  IfacesInv'
    <2>1. driver # <<>> /\ PostEvt(<<Head(driver)>>) /\ driver' = Tail(driver) /\ Idle /\ UNCHANGED file
      BY <1>4 DEF DriverPosts
    <2>2. Head(driver) \in FromOutside /\ driver' \in Seq(FromOutside)
      BY <1>1, <2>1, HeadTailProperties
    <2>3. <<Head(driver)>> \in Seq(FromOutside)
      BY <2>2
    <2> QED
      BY <1>1, <2>1, <2>2, <2>3, OutsideKeeps
  <1>5. ASSUME NEW i \in Usbs, CfgChanges(i)
        PROVE  IfacesInv'
    <2>1. /\ PostEvt(<<Evt("CFG_CHANGE", NoIface)>>) /\ Idle /\ UNCHANGED driver
          /\ file' = [file EXCEPT ![i] = IF @ = "LAN" THEN "WAN" ELSE "LAN"]
      BY <1>5 DEF CfgChanges
    <2>2. file' \in [Usbs -> {"LAN", "WAN"}]
      BY <1>1, <2>1
    <2> QED
      BY <1>1, <2>1, <2>2, OutsideEvents, OutsideKeeps
  <1> QED
    BY <1>2, <1>3, <1>4, <1>5

\* The wait, and a step that changes nothing.
LEMMA QuietStep ==
    ASSUME IfacesInv, WaitForMessage \/ WakeUp \/ UNCHANGED vars
    PROVE  IfacesInv'
  <1>1. /\ UNCHANGED <<mQ, cur, tmp, object, listeners, managed, if_cat, num_wlan_ap_iface, zeroLeft,
                       driver, file>>
        /\ thread' \in {"loop", "wait", "walk"} /\ (thread' = "walk" <=> thread = "walk")
        /\ woken' \in BOOLEAN
    BY DEF IfacesInv, QueueOK, WaitForMessage, WakeUp, vars, queueVars, objVars, envVars
  <1>2. ObjectInv'
    BY <1>1, UnchangedGrown DEF IfacesInv, ObjectInv
  <1>3. QueueOK' /\ CatsOK'
    BY <1>1 DEF IfacesInv, QueueOK, CatsOK
  <1>4. WalkOK'
    BY <1>1 DEF IfacesInv, WalkOK, Hears, Alive
  <1>5. \A i \in Ifaces : (Waits(i)' <=> Waits(i)) /\ (cur' = Request(i) <=> cur = Request(i))
    BY <1>1 DEF Waits, Alive
  <1>6. RequestsOK'
    BY <1>1, <1>5, RequestsKept DEF IfacesInv
  <1> QED
    BY <1>2, <1>3, <1>4, <1>6 DEF IfacesInv, ObjectInv

-----------------------------------------------------------------------------
(* The theorems.                                                           *)

\* Nothing exists and nothing is posted.
LEMMA InitIfaces == Init => IfacesInv
  <1> SUFFICES ASSUME Init PROVE IfacesInv
    OBVIOUS
  <1>1. \A o \in Objs : ~Alive(o)
    BY DEF Init, Alive
  <1>2. QueueOK
    <2>1. /\ mQ = <<>> /\ driver = <<>> /\ cur = NoEvt /\ thread = "loop" /\ woken = FALSE
      BY DEF Init
    <2>2. mQ \in Seq(Posted) /\ driver \in Seq(FromOutside)
      BY <2>1
    <2> QED
      BY <2>1, <2>2 DEF QueueOK
  <1>3. CatsOK
    <2>1. /\ file \in [Usbs -> {"LAN", "WAN"}]
          /\ if_cat = [i \in Ifaces |-> IF i \in Wlans THEN "UNKNOWN" ELSE file[i]]
      BY DEF Init
    <2>2. \A i \in Ifaces : i \notin Wlans => file[i] \in {"LAN", "WAN"}
      BY <2>1 DEF Ifaces
    <2> QED
      BY <2>1, <2>2 DEF CatsOK
  <1>4. ObjectsOK
    BY <1>1 DEF Init, ObjectsOK
  <1>5. ListsOK
    BY <1>1 DEF Init, ListsOK
  <1>6. WalkOK
    BY DEF Init, WalkOK
  <1>7. RequestsOK
    <2>1. mQ = <<>> /\ cur = NoEvt
      BY DEF Init
    <2> QED
      BY <1>1, <2>1, PostedTypes DEF RequestsOK, Asked, Once, Waits
  <1>8. ApsOK
    <2>1. WlanAps = {}
      BY <1>1 DEF WlanAps
    <2>2. num_wlan_ap_iface = 0 /\ zeroLeft = FALSE
      BY DEF Init
    <2>3. Cardinality(WlanAps) = 0
      BY <2>1, FS_EmptySet
    <2>4. {object[o].wlan_ap_index : o \in WlanAps} = 0 .. num_wlan_ap_iface - 1
      BY <2>1, <2>2
    <2>5. num_wlan_ap_iface = Cardinality(WlanAps) /\ num_wlan_ap_iface \in 0 .. 2
      BY <2>2, <2>3
    <2>6. zeroLeft \in BOOLEAN
      BY <2>2, Zenon
    <2> QED
      BY <2>4, <2>5, <2>6, Zenon DEF ApsOK
  <1> QED
    BY <1>2, <1>3, <1>4, <1>5, <1>6, <1>7, <1>8 DEF IfacesInv

\* One lemma for each callback and each thread.
LEMMA NextIfaces == IfacesInv /\ [Next]_vars => IfacesInv'
  <1> SUFFICES ASSUME IfacesInv, [Next]_vars PROVE IfacesInv'
    OBVIOUS
  <1>1. CASE WaitForMessage \/ WakeUp \/ UNCHANGED vars
    BY <1>1, QuietStep
  <1>2. ASSUME NEW e, ManagerUp(e) PROVE IfacesInv'
    BY <1>2, ManagerUpKeeps
  <1>3. ASSUME NEW e, ManagerCfgChange(e) \/ ManagerSkips(e) PROVE IfacesInv'
    BY <1>3, ManagerStays
  <1>4. ASSUME NEW o \in Objs, LanDown(o) PROVE IfacesInv'
    BY <1>4, LanDownKeeps
  <1>5. ASSUME NEW o \in Objs, LanCfgChange(o) PROVE IfacesInv'
    BY <1>5, LanCfgChangeKeeps
  <1>6. ASSUME NEW o \in Objs, DeleteSelf(o) PROVE IfacesInv'
    BY <1>6, DeleteSelfKeeps
  <1>7. ASSUME NEW o \in Objs, WanDown(o) \/ WanCfgChange(o) PROVE IfacesInv'
    BY <1>7, WanKeeps
  <1>8. ASSUME NEW o \in Objs, ListenerSkips(o) PROVE IfacesInv'
    BY <1>8, ListenerSkipsKeeps
  <1>9. CASE \/ \E i \in Ifaces : \/ \E state \in {"down", "up", "running"} : LinkChanges(i, state)
                                  \/ LinkRepeated(i)
             \/ DriverPosts
             \/ \E i \in Usbs : CfgChanges(i)
    BY <1>9, OutsideStep
  <1> QED
    BY <1>1, <1>2, <1>3, <1>4, <1>5, <1>6, <1>7, <1>8, <1>9 DEF Next, Process

\* A freed node is read only behind the two callbacks.
LEMMA InitWalk == Init => NodesOK
  BY DEF Init, NodesOK

LEMMA DeleteSelfReads ==
    ASSUME NEW o \in Objs, DeleteSelf(o), NodesOK
    PROVE  NodesOK'
  <1>1. IsLan(o) /\ cur.event = "LAN_DELETE_SELF" /\ AdvanceFreed(o)
    BY DEF DeleteSelf
  <1>2. object[o].kind = "WLAN" \/ cur.event = LastRegistration(object[o].kind)
    BY <1>1 DEF IsLan, LastRegistration
  <1> QED
    BY <1>1, <1>2 DEF AdvanceFreed, NodesOK, FreesNextNode

LEMMA WanReads ==
    ASSUME NEW o \in Objs, WanDown(o) \/ WanCfgChange(o), NodesOK
    PROVE  NodesOK'
  <1>1. CASE WanDown(o)
    <2>1. ~IsLan(o) /\ cur.event = "LINK_DOWN" /\ AdvanceFreed(o)
      BY <1>1 DEF WanDown
    <2>2. cur.event = LastRegistration(object[o].kind)
      BY <2>1 DEF IsLan, LastRegistration
    <2> QED
      BY <2>1, <2>2 DEF AdvanceFreed, NodesOK
  <1>2. CASE WanCfgChange(o)
    <2>1. object[o].kind = "ECM_WAN" /\ cur.event = "CFG_CHANGE" /\ AdvanceFreed(o)
      BY <1>2 DEF WanCfgChange
    <2> QED
      BY <2>1 DEF AdvanceFreed, NodesOK, FreesNextNode
  <1> QED
    BY <1>1, <1>2

LEMMA NextWalk == NodesOK /\ [Next]_vars => NodesOK'
  <1> SUFFICES ASSUME NodesOK, [Next]_vars PROVE NodesOK'
    OBVIOUS
  <1>1. ASSUME NEW o \in Objs, DeleteSelf(o) PROVE NodesOK'
    BY <1>1, DeleteSelfReads
  <1>2. ASSUME NEW o \in Objs, WanDown(o) \/ WanCfgChange(o) PROVE NodesOK'
    BY <1>2, WanReads
  <1>3. ASSUME NEW o \in Objs, LanDown(o) \/ LanCfgChange(o) \/ ListenerSkips(o) PROVE NodesOK'
    BY <1>3 DEF LanDown, LanCfgChange, ListenerSkips, NodesOK
  <1>4. ASSUME NEW e, ManagerUp(e) \/ ManagerCfgChange(e) \/ ManagerSkips(e) PROVE NodesOK'
    BY <1>4 DEF ManagerUp, ManagerCfgChange, ManagerSkips, Dequeue, NodesOK
  <1>5. CASE WaitForMessage \/ WakeUp \/ UNCHANGED vars
    BY <1>5 DEF WaitForMessage, WakeUp, vars, NodesOK
  <1>6. CASE \/ \E i \in Ifaces : \/ \E state \in {"down", "up", "running"} : LinkChanges(i, state)
                                  \/ LinkRepeated(i)
             \/ DriverPosts
             \/ \E i \in Usbs : CfgChanges(i)
    BY <1>6 DEF LinkChanges, LinkRepeated, DriverPosts, CfgChanges, Idle, NodesOK
  <1> QED
    BY <1>1, <1>2, <1>3, <1>4, <1>5, <1>6 DEF Next, Process

\* The invariant behind the others: the walk is at an object that exists and listens
\* to the event, both lists hold what exists, and a request is under way exactly for
\* an object that has gone down.
THEOREM IfacesCorrect == Spec => []IfacesInv
  <1>1. Init => IfacesInv
    BY InitIfaces
  <1>2. IfacesInv /\ [Next]_vars => IfacesInv'
    BY NextIfaces
  <1> QED
    BY <1>1, <1>2, PTL DEF Spec

\* Both lists hold what exists, no deleted object is called as long as no freed node
\* that was read had been used again, and one is read only behind the two callbacks
\* whose object has registrations behind that for the event
\* (IPACM_EvtDispatcher.cpp:120-131).
THEOREM NoDeletedObjectCalled == Spec => []NoDeadListener
  <1>1. IfacesInv /\ NodesOK => NoDeadListener
    <2> SUFFICES ASSUME IfacesInv, NodesOK PROVE NoDeadListener
      OBVIOUS
    <2>1. listeners \in Seq(Objs)
      BY DEF IfacesInv, ListsOK
    <2>2. \A o \in Objs : Alive(o) <=> o \in Range(listeners)
      BY <2>1 DEF IfacesInv, ListsOK, Range
    <2>3. IsInjective(listeners)
      BY <2>1 DEF IfacesInv, ListsOK, IsInjective
    <2>4. {m.obj : m \in managed} = {o \in Objs : Alive(o)}
      <3>1. \A m \in managed : m.obj \in Objs /\ Alive(m.obj)
        BY DEF IfacesInv, ListsOK
      <3>2. ASSUME NEW o \in Objs, Alive(o) PROVE o \in {m.obj : m \in managed}
        <4>1. PICK m : m = [iface |-> object[o].iface, obj |-> o]
          OBVIOUS
        <4>2. m \in managed /\ m.obj = o
          BY <3>2, <4>1 DEF IfacesInv, ListsOK
        <4> QED
          BY <4>2
      <3> QED
        BY <3>1, <3>2
    <2>5. tmp \in Objs => Alive(tmp)
      BY IfacesCounted DEF IfacesInv, WalkOK, QueueOK
    <2> QED
      BY <2>2, <2>3, <2>4, <2>5 DEF NoDeadListener, NodesOK
  <1>2. Spec => []NodesOK
    BY InitWalk, NextWalk, PTL DEF Spec
  <1> QED
    BY <1>1, <1>2, IfacesCorrect, PTL

\* An interface has one instance at most, an instance that has gone down has one
\* request to be deleted under way and others have none, and the APs are counted and
\* numbered (IPACM_IfaceManager.cpp:217, IPACM_Lan.cpp:322, 4525, IPACM_Wlan.cpp:71).
THEOREM OneInstanceDeletedOnce == Spec => []InstancesSound
  <1>1. IfacesInv => InstancesSound
    <2> SUFFICES ASSUME IfacesInv PROVE InstancesSound
      OBVIOUS
    <2>1. TypeOK
      <3>1. mQ \in Seq(Posted) /\ driver \in Seq(FromOutside) /\ cur \in Posted \cup {NoEvt}
        BY DEF IfacesInv, QueueOK
      <3>2. mQ \in Seq(Events) /\ driver \in Seq(Events) /\ cur \in Events
        BY <3>1, PostedTypes DEF FromOutside
      <3>3. thread \in {"loop", "wait", "walk"} /\ woken \in BOOLEAN
        BY DEF IfacesInv, QueueOK
      <3>4. tmp \in Objs \cup {Null} /\ (thread = "walk" <=> tmp # Null)
        BY IfacesCounted DEF IfacesInv, WalkOK
      <3>5. object \in [Objs -> {Free} \cup Obj]
        BY DEF IfacesInv, ObjectsOK
      <3>6. if_cat \in [Ifaces -> {"UNKNOWN", "WLAN", "LAN", "WAN"}] /\ num_wlan_ap_iface \in 0 .. 2
        BY DEF IfacesInv, CatsOK, ApsOK
      <3> QED
        BY <3>2, <3>3, <3>4, <3>5, <3>6 DEF TypeOK, Obj
    <2>2. ASSUME NEW i \in Ifaces, NEW o \in Instances(i)
          PROVE  Instances(i) = {o}
      BY DEF Instances, IfacesInv, ObjectsOK
    <2>3. ASSUME NEW i \in Ifaces
          PROVE  Cardinality(Instances(i)) <= 1
      <3>1. CASE Instances(i) = {}
        BY <3>1, FS_EmptySet
      <3>2. ASSUME NEW o, Instances(i) = {o} PROVE Cardinality(Instances(i)) <= 1
        <4>1. Cardinality({o}) = 1
          BY FS_Singleton
        <4> QED
          BY <3>2, <4>1
      <3> QED
        BY <2>2, <3>1, <3>2
    <2>4. ASSUME NEW i \in Ifaces
          PROVE  LET inactive == {o \in Instances(i) : ~object[o].is_active}
                     request  == SelfEvt("LAN_DELETE_SELF", i)
                 IN Cardinality({n \in 1 .. Len(mQ) : mQ[n] = request})
                      + (IF cur = request /\ inactive # {} THEN 1 ELSE 0) = Cardinality(inactive)
      <3>1. PICK I : I = {o \in Instances(i) : ~object[o].is_active}
        OBVIOUS
      <3>2. PICK N : N = {n \in 1 .. Len(mQ) : mQ[n] = Request(i)}
        OBVIOUS
      <3>3. /\ Waits(i) <=> Asked(mQ, i) \/ cur = Request(i)
            /\ ~(Asked(mQ, i) /\ cur = Request(i))
            /\ \A m, n \in N : m = n
        BY <3>2 DEF IfacesInv, RequestsOK, Once
      <3>4. Waits(i) <=> I # {}
        BY <3>1 DEF Waits, Instances
      <3>5. Asked(mQ, i) <=> N # {}
        BY <3>2 DEF Asked
      <3>6. Cardinality(I) = IF I = {} THEN 0 ELSE 1
        <4>1. CASE I = {}
          BY <4>1, FS_EmptySet
        <4>2. ASSUME NEW o \in I PROVE Cardinality(I) = 1
          <5>1. I = {o}
            BY <2>2, <3>1, <4>2
          <5> QED
            BY <5>1, FS_Singleton
        <4> QED
          BY <4>1, <4>2
      <3>7. Cardinality(N) = IF N = {} THEN 0 ELSE 1
        <4>1. CASE N = {}
          BY <4>1, FS_EmptySet
        <4>2. ASSUME NEW n \in N PROVE Cardinality(N) = 1
          <5>1. N = {n}
            BY <3>3, <4>2
          <5> QED
            BY <5>1, FS_Singleton
        <4> QED
          BY <4>1, <4>2
      <3>8. Cardinality(N) + (IF cur = Request(i) /\ I # {} THEN 1 ELSE 0) = Cardinality(I)
        BY <3>3, <3>4, <3>5, <3>6, <3>7
      <3> QED
        BY <3>1, <3>2, <3>8, Zenon DEF Request
    <2>5. ApIndices
      BY Zenon DEF IfacesInv, ApsOK, ApIndices, WlanAps
    <2>6. OneInstance
      BY <2>3 DEF OneInstance
    <2>7. DeletedOnce
      BY <2>4 DEF DeletedOnce
    <2> QED
      BY <2>1, <2>5, <2>6, <2>7 DEF InstancesSound
  <1> QED
    BY <1>1, IfacesCorrect, PTL
-----------------------------------------------------------------------------
(* At rest the instances are those the links and the file ask for.  What   *)
(* has been said of an interface and not yet been heard is in the queue    *)
(* and behind it with the reader of the driver.                            *)

ApEvents == {"WLAN_AP_LINK_UP", "WLAN_LINK_DOWN"}
Ups      == {"USB_LINK_UP", "WLAN_AP_LINK_UP"}
Downs    == {"LINK_DOWN", "WLAN_LINK_DOWN"}

\* The event is about the link of the interface, and of a kind it goes by.
Tells(e, i) ==
    /\ ~e.self /\ e.iface = i
    /\ e.event \in IF i \in Wlans THEN ApEvents ELSE {"LINK_UP", "USB_LINK_UP", "LINK_DOWN"}

Told(q, i)  == \E n \in 1 .. Len(q) : Tells(q[n], i)
Holds(q, e) == \E n \in 1 .. Len(q) : q[n] = e

\* The last that a queue says of the link is how the link is.
Right(e, state) == e.event \in IF state = "running" THEN Ups ELSE Downs

LastRight(q, i, state) ==
    \A n \in 1 .. Len(q) :
        Tells(q[n], i) /\ (\A m \in 1 .. Len(q) : m > n => ~Tells(q[m], i)) => Right(q[n], state)

\* Only objects speak for themselves, and only of a USB function; what the driver says
\* of APs is about WLAN interfaces; a change of the file is about none.
EventFits(e) ==
    /\ e.self => \/ e.event = "LAN_DELETE_SELF"
                 \/ e.event = "USB_LINK_UP" /\ e.iface \in Usbs
    /\ e.event = "CFG_CHANGE" => e.iface = NoIface
    /\ e.event \in ApEvents => e.iface \in Wlans

AllFit(q) == \A n \in 1 .. Len(q) : EventFits(q[n])

\* Something is added to a queue.
LEMMA ToldLater ==
    ASSUME NEW q \in Seq(Posted), NEW es \in Seq(Posted)
    PROVE  /\ AllFit(q) /\ AllFit(es) => AllFit(q \o es)
           /\ \A e : Holds(q \o es, e) <=> Holds(q, e) \/ Holds(es, e)
           /\ \A i : Told(q \o es, i) <=> Told(q, i) \/ Told(es, i)
           /\ \A i, s : Told(es, i) /\ LastRight(es, i, s) => LastRight(q \o es, i, s)
           /\ \A i, s : ~Told(es, i) /\ LastRight(q, i, s) => LastRight(q \o es, i, s)
  <1>1. PICK w : w = q \o es
    OBVIOUS
  <1>2. /\ w \in Seq(Posted) /\ Len(w) = Len(q) + Len(es) /\ Len(q) \in Nat /\ Len(es) \in Nat
        /\ \A n \in 1 .. Len(q) : n \in 1 .. Len(w) /\ w[n] = q[n]
        /\ \A n \in 1 .. Len(es) : Len(q) + n \in 1 .. Len(w) /\ w[Len(q) + n] = es[n]
        /\ \A n \in 1 .. Len(w) : n \notin 1 .. Len(q) =>
              n > Len(q) /\ n - Len(q) \in 1 .. Len(es) /\ w[n] = es[n - Len(q)]
    BY <1>1, ConcatProperties
  <1>3. AllFit(q) /\ AllFit(es) => AllFit(w)
    BY <1>2 DEF AllFit
  <1>4. \A e : Holds(w, e) <=> Holds(q, e) \/ Holds(es, e)
    BY <1>2 DEF Holds
  <1>5. \A i : Told(w, i) <=> Told(q, i) \/ Told(es, i)
    BY <1>2 DEF Told
  <1>6. ASSUME NEW i, NEW s, Told(es, i), LastRight(es, i, s)
        PROVE  LastRight(w, i, s)
    <2> SUFFICES ASSUME NEW n \in 1 .. Len(w), Tells(w[n], i),
                        \A m \in 1 .. Len(w) : m > n => ~Tells(w[m], i)
                 PROVE  Right(w[n], s)
      BY DEF LastRight
    <2>1. PICK k \in 1 .. Len(es) : Tells(es[k], i)
      BY <1>6 DEF Told
    <2>2. n \notin 1 .. Len(q)
      <3>1. Len(q) + k \in 1 .. Len(w) /\ Tells(w[Len(q) + k], i)
        BY <1>2, <2>1
      <3>2. Len(q) + k <= n
        BY <1>2, <3>1
      <3> QED
        BY <1>2, <3>2
    <2>3. n - Len(q) \in 1 .. Len(es) /\ w[n] = es[n - Len(q)]
      BY <1>2, <2>2
    <2>4. ASSUME NEW m \in 1 .. Len(es), m > n - Len(q) PROVE ~Tells(es[m], i)
      <3>1. Len(q) + m \in 1 .. Len(w) /\ Len(q) + m > n /\ w[Len(q) + m] = es[m]
        BY <1>2, <2>4
      <3> QED
        BY <3>1
    <2> QED
      BY <1>6, <2>3, <2>4 DEF LastRight
  <1>7. ASSUME NEW i, NEW s, ~Told(es, i), LastRight(q, i, s)
        PROVE  LastRight(w, i, s)
    <2> SUFFICES ASSUME NEW n \in 1 .. Len(w), Tells(w[n], i),
                        \A m \in 1 .. Len(w) : m > n => ~Tells(w[m], i)
                 PROVE  Right(w[n], s)
      BY DEF LastRight
    <2>1. n \in 1 .. Len(q)
      BY <1>2, <1>7 DEF Told
    <2>2. w[n] = q[n] /\ \A m \in 1 .. Len(q) : m > n => ~Tells(q[m], i)
      BY <1>2, <2>1
    <2> QED
      BY <1>7, <2>1, <2>2 DEF LastRight
  <1> QED
    BY <1>1, <1>3, <1>4, <1>5, <1>6, <1>7

\* The head of a queue is taken.
LEMMA ToldHead ==
    ASSUME NEW q \in Seq(Posted), q # <<>>
    PROVE  /\ AllFit(q) => EventFits(Head(q)) /\ AllFit(Tail(q))
           /\ \A e : Holds(q, e) <=> e = Head(q) \/ Holds(Tail(q), e)
           /\ \A i : Told(q, i) <=> Tells(Head(q), i) \/ Told(Tail(q), i)
           /\ \A i, s : LastRight(q, i, s) =>
                 /\ LastRight(Tail(q), i, s)
                 /\ Tells(Head(q), i) /\ ~Told(Tail(q), i) => Right(Head(q), s)
  <1>1. PICK w, h : w = Tail(q) /\ h = Head(q)
    OBVIOUS
  <1>2. /\ w \in Seq(Posted) /\ Len(w) = Len(q) - 1 /\ Len(q) \in Nat /\ Len(q) > 0
        /\ \A n \in 1 .. Len(w) : n + 1 \in 1 .. Len(q) /\ w[n] = q[n + 1]
        /\ h = q[1] /\ 1 \in 1 .. Len(q)
    BY <1>1, HeadTailProperties
  <1>3. \A n \in 1 .. Len(q) : n # 1 => n - 1 \in 1 .. Len(w) /\ w[n - 1] = q[n]
    <2> SUFFICES ASSUME NEW n \in 1 .. Len(q), n # 1
                 PROVE  n - 1 \in 1 .. Len(w) /\ w[n - 1] = q[n]
      OBVIOUS
    <2>1. n - 1 \in 1 .. Len(w) /\ (n - 1) + 1 = n
      BY <1>2
    <2> QED
      BY <1>2, <2>1
  <1>4. AllFit(q) => EventFits(h) /\ AllFit(w)
    BY <1>2 DEF AllFit
  <1>5. \A e : Holds(q, e) <=> e = h \/ Holds(w, e)
    BY <1>2, <1>3 DEF Holds
  <1>6. \A i : Told(q, i) <=> Tells(h, i) \/ Told(w, i)
    BY <1>2, <1>3 DEF Told
  <1>7. ASSUME NEW i, NEW s, LastRight(q, i, s)
        PROVE  /\ LastRight(w, i, s)
               /\ Tells(h, i) /\ ~Told(w, i) => Right(h, s)
    <2>1. ASSUME NEW n \in 1 .. Len(w), Tells(w[n], i),
                 \A m \in 1 .. Len(w) : m > n => ~Tells(w[m], i)
          PROVE  Right(w[n], s)
      <3>1. n + 1 \in 1 .. Len(q) /\ q[n + 1] = w[n]
        BY <1>2
      <3>2. ASSUME NEW m \in 1 .. Len(q), m > n + 1 PROVE ~Tells(q[m], i)
        <4>1. m - 1 \in 1 .. Len(w) /\ w[m - 1] = q[m] /\ m - 1 > n
          BY <1>2, <1>3, <3>2
        <4> QED
          BY <2>1, <4>1
      <3> QED
        BY <1>7, <2>1, <3>1, <3>2 DEF LastRight
    <2>2. ASSUME Tells(h, i), ~Told(w, i) PROVE Right(h, s)
      <3>1. \A m \in 1 .. Len(q) : m > 1 => ~Tells(q[m], i)
        BY <1>2, <1>3, <2>2 DEF Told
      <3> QED
        BY <1>2, <1>7, <2>2, <3>1 DEF LastRight
    <2> QED
      BY <2>1, <2>2 DEF LastRight
  <1> QED
    BY <1>1, <1>4, <1>5, <1>6, <1>7

\* One event, or two.
LEMMA ToldOne ==
    ASSUME NEW e
    PROVE  /\ AllFit(<<e>>) <=> EventFits(e)
           /\ \A x : Holds(<<e>>, x) <=> x = e
           /\ \A i : Told(<<e>>, i) <=> Tells(e, i)
           /\ \A i, s : LastRight(<<e>>, i, s) <=> (Tells(e, i) => Right(e, s))
  <1>0. PICK w : w = <<e>>
    OBVIOUS
  <1>1. w = <<e>> /\ Len(w) = 1 /\ w[1] = e
    BY <1>0
  <1>2. \A n : n \in 1 .. Len(w) <=> n = 1
    BY <1>1
  <1>3. (AllFit(w) <=> EventFits(e)) /\ (\A x : Holds(w, x) <=> x = e) /\ \A i : Told(w, i) <=> Tells(e, i)
    BY <1>1, <1>2 DEF AllFit, Holds, Told
  <1>4. \A i, s : LastRight(w, i, s) <=> (Tells(e, i) => Right(e, s))
    BY <1>1, <1>2 DEF LastRight
  <1> QED
    BY <1>1, <1>3, <1>4

LEMMA ToldNothing ==
    /\ AllFit(<<>>) /\ \A x : ~Holds(<<>>, x)
    /\ \A i : ~Told(<<>>, i)
    /\ \A i, s : LastRight(<<>>, i, s)
  BY DEF AllFit, Holds, Told, LastRight

-----------------------------------------------------------------------------
(* What an interface has: an instance that is active, one that will come   *)
(* back in another mode, one that is about to end, or an event an object   *)
(* has posted for its successor.                                           *)

Switches(i) == \E o \in Objs : Alive(o) /\ object[o].iface = i /\ object[o].is_mode_switch
Ends(i)     == \E o \in Objs : /\ Alive(o) /\ object[o].iface = i
                               /\ ~object[o].is_active /\ ~object[o].is_mode_switch
Owed(i)     == Holds(mQ, SelfEvt("USB_LINK_UP", i))

\* It is up, as far as the events that were processed say.
Up(i) == Active(i) \/ Switches(i) \/ Owed(i)

Coming(i) == Told(driver, i) \/ Told(mQ, i)

\* What was said last is how the link is, and when all has been heard the interface is
\* up when its link is; unless its last event was lost to a request.
HeardLast(i) ==
    /\ LastRight(driver, i, link[i])
    /\ ~Told(driver, i) => LastRight(mQ, i, link[i])

DownHeard(i) ==
    Tells(cur, i) =>
        /\ cur.event \in Downs
        /\ Coming(i) \/ link[i] # "running"
        /\ i \notin raced => ~Owed(i) /\ ~Switches(i)

UpFollows(i) ==
    i \notin raced =>
        /\ Coming(i) \/ Tells(cur, i) \/ (Up(i) <=> link[i] = "running")
        /\ ~(Owed(i) /\ Ends(i))
        /\ i \in Wlans /\ if_cat[i] = "WLAN" => Active(i)

Follows(i) == HeardLast(i) /\ DownHeard(i) /\ UpFollows(i)

EventsFit ==
    /\ AllFit(mQ) /\ AllFit(driver) /\ EventFits(cur)
    /\ \A n \in 1 .. Len(driver) : ~driver[n].self

\* Only an IPACM_Lan changes its mode.
LansSwitch == \A p \in Objs : Alive(p) /\ object[p].is_mode_switch => object[p].kind = "LAN"

LinksOK ==
    /\ link \in [Ifaces -> {"down", "up", "running"}] /\ \A i \in Wlans : link[i] # "up"
    /\ raced \in SUBSET Ifaces
    /\ LansSwitch

LinkInv == EventsFit /\ LinksOK /\ \A i \in Ifaces : Follows(i)

\* Whose instances are left alone.
LEMMA SameInstances ==
    ASSUME NEW i,
           \A p \in Objs : \/ Alive(p) /\ object[p].iface = i
                           \/ Alive(p)' /\ object'[p].iface = i
                           => object'[p] = object[p]
    PROVE  /\ Active(i)' <=> Active(i)
           /\ Switches(i)' <=> Switches(i)
           /\ Ends(i)' <=> Ends(i)
  <1>1. \A p \in Objs : Alive(p)' /\ object'[p].iface = i => Alive(p) /\ object'[p] = object[p]
    BY DEF Alive
  <1>2. \A p \in Objs : Alive(p) /\ object[p].iface = i => Alive(p)' /\ object'[p] = object[p]
    BY DEF Alive
  <1>3. Active(i)' <=> Active(i)
    BY <1>1, <1>2 DEF Active, Instances
  <1>4. Switches(i)' <=> Switches(i)
    BY <1>1, <1>2 DEF Switches
  <1>5. Ends(i)' <=> Ends(i)
    BY <1>1, <1>2 DEF Ends
  <1> QED
    BY <1>3, <1>4, <1>5

\* An instance goes down, perhaps to change its mode.
LEMMA InstanceDown ==
    ASSUME ObjectsOK, NEW o \in Objs, Alive(o), NEW i, i = object[o].iface, NEW switch \in BOOLEAN,
           object' = [object EXCEPT ![o].is_active = FALSE, ![o].is_mode_switch = switch]
    PROVE  /\ ~Active(i)' /\ (Switches(i)' <=> switch) /\ (Ends(i)' <=> ~switch)
           /\ \A j : j # i => /\ Active(j)' <=> Active(j)
                              /\ Switches(j)' <=> Switches(j)
                              /\ Ends(j)' <=> Ends(j)
           /\ object'[o].kind = object[o].kind /\ \A p \in Objs : p # o => object'[p] = object[p]
  <1>1. object \in [Objs -> {Free} \cup Obj] /\ object[o] \in Obj
    BY DEF ObjectsOK, Alive
  <1>2. PICK x \in Obj : x = object[o]
    BY <1>1
  <1>3. PICK y : y = [x EXCEPT !.is_active = FALSE, !.is_mode_switch = switch]
    OBVIOUS
  <1>4. /\ ~y.is_active /\ y.is_mode_switch = switch /\ y.kind = x.kind /\ y.iface = i /\ y \in Obj
    BY <1>2, <1>3 DEF Obj
  <1>5. object' = [object EXCEPT ![o] = y]
    BY <1>1, <1>2, <1>3
  <1>6. object'[o] = y /\ \A p \in Objs : p # o => object'[p] = object[p]
    BY <1>1, <1>5
  <1>7. y # Free
    <2>1. \A r \in Obj : "is_active" \in DOMAIN r
      BY DEF Obj
    <2>2. "is_active" \notin DOMAIN Free
      BY DEF Free
    <2> QED
      BY <1>4, <2>1, <2>2
  <1>8. \A p \in Objs : Alive(p)' <=> Alive(p)
    BY <1>6, <1>7 DEF Alive
  <1>9. \A p \in Objs : Alive(p)' /\ object'[p].iface = i <=> p = o
    <2>1. \A p \in Objs : Alive(p) /\ object[p].iface = i => p = o
      BY DEF ObjectsOK
    <2> QED
      BY <1>4, <1>6, <1>7, <1>8, <2>1 DEF Alive
  <1>10. ~Active(i)' /\ (Switches(i)' <=> switch) /\ (Ends(i)' <=> ~switch)
    <2>1. ~Active(i)'
      BY <1>4, <1>6, <1>9 DEF Active, Instances
    <2>2. Switches(i)' <=> switch
      BY <1>4, <1>6, <1>9 DEF Switches
    <2>3. Ends(i)' <=> ~switch
      BY <1>4, <1>6, <1>9 DEF Ends
    <2> QED
      BY <2>1, <2>2, <2>3
  <1>11. ASSUME NEW j, j # i
         PROVE  (Active(j)' <=> Active(j)) /\ (Switches(j)' <=> Switches(j)) /\ (Ends(j)' <=> Ends(j))
    <2>1. \A p \in Objs : (Alive(p) /\ object[p].iface = j) \/ (Alive(p)' /\ object'[p].iface = j)
                          => object'[p] = object[p]
      BY <1>4, <1>6, <1>11
    <2> QED
      BY <2>1, SameInstances
  <1> QED
    BY <1>2, <1>4, <1>6, <1>10, <1>11

\* An instance is deleted.
LEMMA InstanceGone ==
    ASSUME ObjectsOK, NEW o \in Objs, Alive(o), NEW i, i = object[o].iface, delete(o)
    PROVE  /\ ~Active(i)' /\ ~Switches(i)' /\ ~Ends(i)'
           /\ \A j : j # i => /\ Active(j)' <=> Active(j)
                              /\ Switches(j)' <=> Switches(j)
                              /\ Ends(j)' <=> Ends(j)
           /\ \A p \in Objs : object'[p] = IF p = o THEN Free ELSE object[p]
  <1>1. \A p \in Objs : object'[p] = IF p = o THEN Free ELSE object[p]
    BY DEF ObjectsOK, delete
  <1>2. \A p \in Objs : Alive(p)' <=> Alive(p) /\ p # o
    BY <1>1 DEF Alive
  <1>3. \A p \in Objs : ~(Alive(p)' /\ object'[p].iface = i)
    BY <1>1, <1>2 DEF ObjectsOK
  <1>4. ~Active(i)' /\ ~Switches(i)' /\ ~Ends(i)'
    BY <1>3 DEF Active, Instances, Switches, Ends
  <1>5. ASSUME NEW j, j # i
        PROVE  (Active(j)' <=> Active(j)) /\ (Switches(j)' <=> Switches(j)) /\ (Ends(j)' <=> Ends(j))
    <2>1. \A p \in Objs : (Alive(p) /\ object[p].iface = j) \/ (Alive(p)' /\ object'[p].iface = j)
                          => object'[p] = object[p]
      BY <1>1, <1>2, <1>5
    <2> QED
      BY <2>1, SameInstances
  <1> QED
    BY <1>1, <1>4, <1>5

HasInstance(i) == \E o \in Objs : Alive(o) /\ object[o].iface = i

\* create_iface_instance: an active instance, where there was none.
LEMMA InstanceCreated ==
    ASSUME ObjectInv, NEW i, NEW kind \in Kinds \cup {"none"}, create_iface_instance(i, kind)
    PROVE  /\ HasInstance(i) \/ kind = "none" => UNCHANGED <<object, listeners>>
           /\ ~HasInstance(i) /\ kind # "none" =>
                 /\ Active(i)' /\ ~Ends(i)' /\ object' # object
                 /\ \E o \in Objs : /\ ~Alive(o) /\ object'[o].kind = kind /\ object'[o].iface = i
                                    /\ ~object'[o].is_mode_switch
                                    /\ \A p \in Objs : p # o => object'[p] = object[p]
           /\ \A j : j # i => /\ Active(j)' <=> Active(j)
                              /\ Switches(j)' <=> Switches(j)
                              /\ Ends(j)' <=> Ends(j)
  <1>1. SearchInstance(i) <=> HasInstance(i)
    <2>1. ASSUME NEW o \in Objs, Alive(o), object[o].iface = i PROVE SearchInstance(i)
      <3>1. PICK m : m = [iface |-> object[o].iface, obj |-> o]
        OBVIOUS
      <3>2. m \in managed /\ m.iface = i
        BY <2>1, <3>1 DEF ObjectInv, ListsOK
      <3> QED
        BY <3>2 DEF SearchInstance
    <2>2. ASSUME NEW m \in managed, m.iface = i PROVE HasInstance(i)
      <3>1. PICK o \in Objs : Alive(o) /\ m = [iface |-> object[o].iface, obj |-> o]
        BY DEF ObjectInv, ListsOK
      <3> QED
        BY <2>2, <3>1 DEF HasInstance
    <2> QED
      BY <2>1, <2>2 DEF SearchInstance, HasInstance
  <1>2. CASE HasInstance(i) \/ kind = "none"
    <2>1. UNCHANGED <<object, listeners>>
      BY <1>1, <1>2 DEF create_iface_instance, objVars
    <2>2. \A j : (Active(j)' <=> Active(j)) /\ (Switches(j)' <=> Switches(j)) /\ (Ends(j)' <=> Ends(j))
      BY <2>1, SameInstances
    <2> QED
      BY <1>2, <2>1, <2>2
  <1>3. CASE ~HasInstance(i) /\ kind # "none"
    <2>1. NewInstance(i, kind)
      BY <1>1, <1>3 DEF create_iface_instance
    <2>2. PICK o \in Objs : /\ ~Alive(o)
                            /\ o = CHOOSE x \in Objs : ~Alive(x) /\ \A y \in Objs : ~Alive(y) => x <= y
      BY FreeObject DEF ObjectInv
    <2>3. PICK new : new = [kind |-> kind, iface |-> i, is_active |-> TRUE, is_mode_switch |-> FALSE,
                            wlan_ap_index |-> IF kind = "WLAN" THEN num_wlan_ap_iface ELSE 0]
      OBVIOUS
    <2>4. object' = [object EXCEPT ![o] = new]
      BY <2>1, <2>2, <2>3 DEF NewInstance
    <2>5. object'[o] = new /\ \A p \in Objs : p # o => object'[p] = object[p]
      BY <2>4 DEF ObjectInv, ObjectsOK
    <2>6. new.kind = kind /\ new.iface = i /\ new.is_active /\ ~new.is_mode_switch
      BY <2>3
    <2>7. new # Free
      <3>1. "is_active" \in DOMAIN new /\ "is_active" \notin DOMAIN Free
        BY <2>3 DEF Free
      <3> QED
        BY <3>1
    <2>8. Alive(o)' /\ object' # object
      BY <2>2, <2>5, <2>7 DEF Alive
    <2>9. \A p \in Objs : Alive(p)' /\ object'[p].iface = i <=> p = o
      <3>1. \A p \in Objs : p # o => ~(Alive(p)' /\ object'[p].iface = i)
        BY <1>3, <2>5 DEF HasInstance, Alive
      <3> QED
        BY <2>5, <2>6, <2>8, <3>1
    <2>10. Active(i)'
      BY <2>5, <2>6, <2>9 DEF Active, Instances
    <2>11. ~Ends(i)'
      BY <2>5, <2>6, <2>9 DEF Ends
    <2>12. ASSUME NEW j, j # i
           PROVE  (Active(j)' <=> Active(j)) /\ (Switches(j)' <=> Switches(j)) /\ (Ends(j)' <=> Ends(j))
      <3>1. \A p \in Objs : (Alive(p) /\ object[p].iface = j) \/ (Alive(p)' /\ object'[p].iface = j)
                            => object'[p] = object[p]
        BY <2>2, <2>5, <2>6, <2>12 DEF Alive
      <3> QED
        BY <3>1, SameInstances
    <2> QED
      BY <1>3, <2>2, <2>5, <2>6, <2>8, <2>10, <2>11, <2>12
  <1> QED
    BY <1>2, <1>3

-----------------------------------------------------------------------------
(* The callbacks of the objects, for the links.                            *)

\* What the objects post, and no event, says nothing of a link.
LEMMA SelfEvents ==
    /\ \A i \in Ifaces : /\ Request(i) \in Posted /\ EventFits(Request(i))
                         /\ \A j : ~Tells(Request(i), j) /\ Request(i) # SelfEvt("USB_LINK_UP", j)
    /\ \A i \in Ifaces : /\ SelfEvt("USB_LINK_UP", i) \in Posted
                         /\ i \in Usbs => EventFits(SelfEvt("USB_LINK_UP", i))
                         /\ \A j : /\ ~Tells(SelfEvt("USB_LINK_UP", i), j)
                                   /\ SelfEvt("USB_LINK_UP", i) = SelfEvt("USB_LINK_UP", j) <=> i = j
    /\ EventFits(NoEvt) /\ \A j : ~Tells(NoEvt, j) \/ j = NoIface
    /\ \A e, i : ~e.self => e # SelfEvt("USB_LINK_UP", i)
  <1>1. ASSUME NEW i \in Ifaces
        PROVE  /\ Request(i) \in Posted /\ EventFits(Request(i))
               /\ \A j : ~Tells(Request(i), j) /\ Request(i) # SelfEvt("USB_LINK_UP", j)
    <2>1. PICK r : r = Request(i) /\ r \in Posted
      BY PostedTypes
    <2>2. r = [event |-> "LAN_DELETE_SELF", iface |-> i, self |-> TRUE]
      BY <2>1 DEF Request, SelfEvt
    <2>3. r.event = "LAN_DELETE_SELF" /\ r.self
      BY <2>2
    <2>4. \A j : SelfEvt("USB_LINK_UP", j).event = "USB_LINK_UP"
      BY DEF SelfEvt
    <2>5. EventFits(r)
      BY <2>3 DEF EventFits, ApEvents
    <2> QED
      BY <2>1, <2>3, <2>4, <2>5 DEF Tells
  <1>2. ASSUME NEW i \in Ifaces
        PROVE  /\ SelfEvt("USB_LINK_UP", i) \in Posted
               /\ i \in Usbs => EventFits(SelfEvt("USB_LINK_UP", i))
               /\ \A j : /\ ~Tells(SelfEvt("USB_LINK_UP", i), j)
                         /\ SelfEvt("USB_LINK_UP", i) = SelfEvt("USB_LINK_UP", j) <=> i = j
    <2>1. PICK r : r = SelfEvt("USB_LINK_UP", i)
      OBVIOUS
    <2>2. r.event = "USB_LINK_UP" /\ r.self /\ r.iface = i
      BY <2>1 DEF SelfEvt
    <2>3. \A j : SelfEvt("USB_LINK_UP", j).iface = j
      BY DEF SelfEvt
    <2>4. r \in Posted
      BY <2>1 DEF SelfEvt, Posted, Events, EventNames
    <2>5. i \in Usbs => EventFits(r)
      BY <2>2 DEF EventFits, ApEvents
    <2>6. \A j : r = SelfEvt("USB_LINK_UP", j) <=> i = j
      BY <2>1, <2>2, <2>3
    <2> QED
      BY <2>1, <2>2, <2>4, <2>5, <2>6 DEF Tells
  <1>3. PICK e : e = NoEvt /\ e.event = "none" /\ e.iface = NoIface /\ e.self = FALSE
    <2>1. PICK e : e = [event |-> "none", iface |-> NoIface, self |-> FALSE]
      OBVIOUS
    <2> QED
      BY <2>1 DEF NoEvt, Evt
  <1>4. EventFits(NoEvt) /\ \A j : ~Tells(NoEvt, j) \/ j = NoIface
    BY <1>3 DEF EventFits, ApEvents, Tells
  <1>5. \A i : SelfEvt("USB_LINK_UP", i).self
    BY DEF SelfEvt
  <1> QED
    BY <1>1, <1>2, <1>4, <1>5

\* An event for one interface is heard by its object, if that listens to events of this
\* name; the down event of the link is such a one.
LEMMA CalledTells ==
    ASSUME IfacesInv, LinkInv, NEW o \in Objs, Called(o)
    PROVE  /\ \A j \in Ifaces : Tells(cur, j) => j = object[o].iface /\ cur.event \in Downs
           /\ cur.event \in Downs => Tells(cur, object[o].iface)
  <1>1. /\ Alive(o) /\ object[o] \in Obj /\ Hears(cur, o) /\ cur \in Posted
        /\ cur.iface \in {object[o].iface, NoIface} /\ object[o].iface \in Ifaces
    BY CalledOne
  <1>2. \A j \in Ifaces : Tells(cur, j) => cur.event \in Downs
    BY DEF LinkInv, Follows, DownHeard
  <1>3. ASSUME NEW j \in Ifaces, Tells(cur, j) PROVE j = object[o].iface
    BY <1>1, <1>3, IfacesAssumption DEF Tells
  <1>4. ASSUME cur.event \in Downs PROVE Tells(cur, object[o].iface)
    <2>1. ~cur.self
      BY <1>4 DEF LinkInv, EventsFit, EventFits, Downs
    <2>2. cur.iface = object[o].iface
      <3>1. cur.iface \in Ifaces
        BY <1>1, <1>4 DEF Posted, Downs
      <3> QED
        BY <1>1, <3>1, IfacesAssumption
    <2>3. object[o].kind = "WLAN" <=> object[o].iface \in Wlans
      BY <1>1 DEF IfacesInv, ObjectsOK
    <2>4. object[o].kind = "WLAN" <=> cur.event = "WLAN_LINK_DOWN"
      BY <1>1, <1>4 DEF Downs, Hears, RegisteredFor, Obj, Kinds
    <2> QED
      BY <1>4, <2>1, <2>2, <2>3, <2>4 DEF Tells, Downs, ApEvents
  <1> QED
    BY <1>2, <1>3, <1>4

\* What is posted says nothing of a link.
Quiet(es) == AllFit(es) /\ \A j : ~Told(es, j)

\* The other interfaces are left alone.
OthersSame(i, es) ==
    \A j \in Ifaces : j # i =>
        /\ Active(j)' <=> Active(j)
        /\ Switches(j)' <=> Switches(j)
        /\ Ends(j)' <=> Ends(j)
        /\ ~Holds(es, SelfEvt("USB_LINK_UP", j))
        /\ if_cat'[j] = if_cat[j]

\* An interface whose link went down is down, another one is what it was.
CalledFollows(i) ==
    i \notin raced =>
        /\ Tells(cur, i) => ~Up(i)'
        /\ ~Tells(cur, i) => (Up(i)' <=> Up(i))
        /\ ~(Owed(i)' /\ Ends(i)')
        /\ i \in Wlans /\ if_cat'[i] = "WLAN" => Active(i)'

\* A callback: it is enough to look at the interface of the object that is called.
LEMMA CallbackFollows ==
    ASSUME IfacesInv, LinkInv, NEW o \in Objs, Called(o), Advance, UNCHANGED <<link, driver, raced>>,
           NEW i, i = object[o].iface,
           NEW es \in Seq(Posted), Quiet(es), mQ' = mQ \o es, OthersSame(i, es), LansSwitch',
           CalledFollows(i)
    PROVE  LinkInv'
  <1>1. mQ \in Seq(Posted) /\ AllFit(mQ)
    BY DEF IfacesInv, QueueOK, LinkInv, EventsFit
  <1>2. /\ AllFit(mQ')
        /\ \A e : Holds(mQ', e) <=> Holds(mQ, e) \/ Holds(es, e)
        /\ \A j : Told(mQ', j) <=> Told(mQ, j)
        /\ \A j, s : LastRight(mQ, j, s) => LastRight(mQ', j, s)
    BY <1>1, ToldLater DEF Quiet
  <1>3. cur' = cur \/ cur' = NoEvt
    <2>1. tmp \in Objs /\ Alive(tmp) /\ ListsOK
      BY CalledOne DEF IfacesInv
    <2> QED
      BY <2>1, AdvanceFinds
  <1>4. EventsFit'
    BY <1>2, <1>3, SelfEvents DEF LinkInv, EventsFit
  <1>5. LinksOK'
    BY DEF LinkInv, LinksOK, LansSwitch
  <1>6. ASSUME NEW j \in Ifaces PROVE Follows(j)'
    <2>1. HeardLast(j) /\ DownHeard(j) /\ UpFollows(j) /\ j # NoIface
      BY IfacesAssumption DEF LinkInv, Follows
    <2>2. (Coming(j)' <=> Coming(j)) /\ (Tells(cur', j) => Tells(cur, j) /\ cur' = cur)
      BY <1>2, <1>3, <2>1, SelfEvents DEF Coming
    <2>3. HeardLast(j)'
      BY <1>2, <2>1 DEF HeardLast
    <2>4. CASE j # i
      <3>1. ~Tells(cur, j)
        BY <2>4, CalledTells
      <3>2. (Owed(j)' <=> Owed(j)) /\ (Active(j)' <=> Active(j)) /\ (Switches(j)' <=> Switches(j))
            /\ (Ends(j)' <=> Ends(j)) /\ if_cat'[j] = if_cat[j]
        BY <1>2, <2>4 DEF Owed, OthersSame
      <3>3. Up(j)' <=> Up(j)
        BY <3>2 DEF Up
      <3>4. DownHeard(j)'
        BY <2>2, <3>1 DEF DownHeard
      <3>5. UpFollows(j)'
        BY <2>1, <2>2, <3>1, <3>2, <3>3 DEF UpFollows
      <3> QED
        BY <2>3, <3>4, <3>5 DEF Follows
    <2>5. CASE j = i
      <3>1. DownHeard(j)'
        BY <2>1, <2>2, <2>5 DEF DownHeard, Up, CalledFollows
      <3>2. UpFollows(j)'
        BY <2>1, <2>2, <2>5 DEF UpFollows, DownHeard, CalledFollows
      <3> QED
        BY <2>3, <3>1, <3>2 DEF Follows
    <2> QED
      BY <2>4, <2>5
  <1> QED
    BY <1>4, <1>5, <1>6 DEF LinkInv

\* handle_down_evt, on a down event of the link or to change the mode.
LEMMA GoesDownFollows ==
    ASSUME IfacesInv, LinkInv, NEW o \in Objs, Called(o), Advance, UNCHANGED <<link, driver, raced>>,
           object[o].is_active, NEW switch \in BOOLEAN, handle_down_evt(o, switch),
           switch => object[o].kind = "LAN" /\ cur.event \notin Downs,
           ~switch => cur.event \in Downs,
           NEW i, i = object[o].iface,
           \A j \in Ifaces : j # i => if_cat'[j] = if_cat[j],
           i \in Wlans => if_cat'[i] # "WLAN"
    PROVE  LinkInv'
  <1>1. /\ Alive(o) /\ object[o] \in Obj /\ i \in Ifaces /\ ObjectsOK
        /\ \A p \in Objs : Alive(p) /\ object[p].is_mode_switch => object[p].kind = "LAN"
    BY CalledOne DEF IfacesInv, LinkInv, LinksOK, LansSwitch
  <1>2. mQ' = mQ \o <<Request(i)>>
    BY DEF handle_down_evt, PostEvt, Request
  <1>3. object' = [object EXCEPT ![o].is_active = FALSE, ![o].is_mode_switch = switch]
    BY DEF handle_down_evt
  <1>4. /\ ~Active(i)' /\ (Switches(i)' <=> switch) /\ (Ends(i)' <=> ~switch)
        /\ \A j : j # i => /\ Active(j)' <=> Active(j)
                           /\ Switches(j)' <=> Switches(j)
                           /\ Ends(j)' <=> Ends(j)
        /\ object'[o].kind = object[o].kind /\ \A p \in Objs : p # o => object'[p] = object[p]
    BY <1>1, <1>3, InstanceDown
  <1>5. /\ <<Request(i)>> \in Seq(Posted) /\ AllFit(<<Request(i)>>) /\ \A j : ~Told(<<Request(i)>>, j)
        /\ \A j : ~Holds(<<Request(i)>>, SelfEvt("USB_LINK_UP", j))
    <2>1. PICK r \in Posted : r = Request(i) /\ EventFits(r)
                              /\ \A j : ~Tells(r, j) /\ r # SelfEvt("USB_LINK_UP", j)
      BY <1>1, SelfEvents
    <2>2. <<r>> \in Seq(Posted)
      OBVIOUS
    <2> QED
      BY <2>1, <2>2, ToldOne
  <1>6. Owed(i)' <=> Owed(i)
    BY <1>2, <1>5, ToldLater DEF Owed, IfacesInv, QueueOK
  <1>7. Active(i)
    BY <1>1 DEF Active, Instances
  <1>8. i \notin raced => /\ Tells(cur, i) => ~Up(i)'
                          /\ ~Tells(cur, i) => (Up(i)' <=> Up(i))
                          /\ ~(Owed(i)' /\ Ends(i)')
    <2>1. CASE switch
      <3>1. ~Tells(cur, i)
        BY <1>1, <2>1, CalledTells
      <3> QED
        BY <1>4, <1>6, <1>7, <2>1, <3>1 DEF Up
    <2>2. CASE ~switch
      <3>1. Tells(cur, i)
        BY <2>2, CalledTells
      <3>2. i \notin raced => ~Owed(i)
        BY <1>1, <3>1 DEF LinkInv, Follows, DownHeard
      <3> QED
        BY <1>4, <1>6, <2>2, <3>1, <3>2 DEF Up
    <2> QED
      BY <2>1, <2>2
  <1>9. LansSwitch'
    <2>1. ASSUME NEW p \in Objs, Alive(p)', object'[p].is_mode_switch PROVE object'[p].kind = "LAN"
      <3>1. CASE p # o
        BY <1>1, <1>4, <2>1, <3>1 DEF Alive
      <3>2. CASE p = o
        <4>1. object'[o].is_mode_switch <=> switch
          BY <1>1, <1>3 DEF ObjectsOK, Obj
        <4> QED
          BY <1>4, <2>1, <3>2, <4>1
      <3> QED
        BY <3>1, <3>2
    <2> QED
      BY <2>1 DEF LansSwitch
  <1>10. PICK es \in Seq(Posted) : /\ Quiet(es) /\ mQ' = mQ \o es
                                   /\ \A j : ~Holds(es, SelfEvt("USB_LINK_UP", j))
    BY <1>2, <1>5 DEF Quiet
  <1>11. OthersSame(i, es)
    BY <1>4, <1>10 DEF OthersSame
  <1>12. CalledFollows(i)
    BY <1>8 DEF CalledFollows
  <1> QED
    BY <1>9, <1>10, <1>11, <1>12, CallbackFollows

\* An object that is deleted, on a down event of the link or not.
LEMMA GoesFollows ==
    ASSUME IfacesInv, LinkInv, NEW o \in Objs, Called(o), Advance, UNCHANGED <<link, driver, raced>>,
           delete(o), NEW i, i = object[o].iface, UNCHANGED if_cat,
           NEW up \in BOOLEAN, mQ' = mQ \o (IF up THEN <<SelfEvt("USB_LINK_UP", i)>> ELSE <<>>),
           up => i \in Usbs,
           ~Tells(cur, i) => (up <=> Active(i) \/ Switches(i)),
           Tells(cur, i) => ~up /\ i \in Usbs,
           i \in Wlans => ~Active(i)
    PROVE  LinkInv'
  <1>1. /\ Alive(o) /\ object[o] \in Obj /\ i \in Ifaces /\ ObjectsOK
        /\ \A p \in Objs : Alive(p) /\ object[p].is_mode_switch => object[p].kind = "LAN"
    BY CalledOne DEF IfacesInv, LinkInv, LinksOK, LansSwitch
  <1>2. /\ ~Active(i)' /\ ~Switches(i)' /\ ~Ends(i)'
        /\ \A j : j # i => /\ Active(j)' <=> Active(j)
                           /\ Switches(j)' <=> Switches(j)
                           /\ Ends(j)' <=> Ends(j)
        /\ \A p \in Objs : object'[p] = IF p = o THEN Free ELSE object[p]
    BY <1>1, InstanceGone
  <1>3. PICK es : es = IF up THEN <<SelfEvt("USB_LINK_UP", i)>> ELSE <<>>
    OBVIOUS
  <1>4. /\ es \in Seq(Posted) /\ AllFit(es) /\ \A j : ~Told(es, j)
        /\ \A j : Holds(es, SelfEvt("USB_LINK_UP", j)) <=> up /\ j = i
    <2>1. CASE up
      <3>1. PICK r \in Posted : r = SelfEvt("USB_LINK_UP", i) /\ EventFits(r)
                                /\ \A j : ~Tells(r, j) /\ (r = SelfEvt("USB_LINK_UP", j) <=> i = j)
        BY <1>1, <2>1, SelfEvents
      <3>2. <<r>> \in Seq(Posted) /\ es = <<r>>
        BY <1>3, <2>1, <3>1
      <3>3. /\ AllFit(<<r>>) /\ \A j : ~Told(<<r>>, j)
            /\ \A j : Holds(<<r>>, SelfEvt("USB_LINK_UP", j)) <=> j = i
        BY <3>1, ToldOne
      <3> QED
        BY <2>1, <3>2, <3>3
    <2>2. CASE ~up
      <3>1. es = <<>> /\ es \in Seq(Posted)
        BY <1>3, <2>2
      <3> QED
        BY <2>2, <3>1, ToldNothing
    <2> QED
      BY <2>1, <2>2
  <1>5. Owed(i)' <=> Owed(i) \/ up
    BY <1>3, <1>4, ToldLater DEF Owed, IfacesInv, QueueOK
  <1>6. i \notin raced => /\ Tells(cur, i) => ~Up(i)'
                          /\ ~Tells(cur, i) => (Up(i)' <=> Up(i))
                          /\ i \in Wlans /\ if_cat'[i] = "WLAN" => Active(i)'
    <2> SUFFICES ASSUME i \notin raced
                 PROVE  /\ Tells(cur, i) => ~Up(i)'
                        /\ ~Tells(cur, i) => (Up(i)' <=> Up(i))
                        /\ i \in Wlans /\ if_cat'[i] = "WLAN" => Active(i)'
      OBVIOUS
    <2>1. ASSUME Tells(cur, i) PROVE ~Up(i)'
      <3>1. ~Owed(i)
        BY <1>1, <2>1 DEF LinkInv, Follows, DownHeard
      <3> QED
        BY <1>2, <1>5, <2>1, <3>1 DEF Up
    <2>2. ~Tells(cur, i) => (Up(i)' <=> Up(i))
      BY <1>2, <1>5 DEF Up
    <2>3. ASSUME i \in Wlans, if_cat'[i] = "WLAN" PROVE FALSE
      BY <1>1, <2>3 DEF LinkInv, Follows, UpFollows
    <2> QED
      BY <2>1, <2>2, <2>3
  <1>7. LansSwitch'
    BY <1>1, <1>2 DEF Alive, LansSwitch
  <1>8. mQ' = mQ \o es /\ Quiet(es)
    BY <1>3, <1>4 DEF Quiet
  <1>9. OthersSame(i, es)
    BY <1>2, <1>4 DEF OthersSame
  <1>10. CalledFollows(i)
    BY <1>2, <1>6 DEF CalledFollows
  <1> QED
    BY <1>4, <1>7, <1>8, <1>9, <1>10, CallbackFollows

\* The only instance of its interface.
LEMMA OnlyInstance ==
    ASSUME ObjectsOK, NEW o \in Objs, Alive(o), NEW i, i = object[o].iface
    PROVE  /\ Active(i) <=> object[o].is_active
           /\ Switches(i) <=> object[o].is_mode_switch
           /\ Ends(i) <=> ~object[o].is_active /\ ~object[o].is_mode_switch
  <1>1. \A p \in Objs : Alive(p) /\ object[p].iface = i <=> p = o
    BY DEF ObjectsOK
  <1>2. Active(i) <=> object[o].is_active
    BY <1>1 DEF Active, Instances
  <1>3. Switches(i) <=> object[o].is_mode_switch
    BY <1>1 DEF Switches
  <1>4. Ends(i) <=> ~object[o].is_active /\ ~object[o].is_mode_switch
    BY <1>1 DEF Ends
  <1> QED
    BY <1>2, <1>3, <1>4

\* IPA_LINK_DOWN_EVENT and IPA_WLAN_LINK_DOWN_EVENT of an IPACM_Lan or IPACM_Wlan.
LEMMA LanDownFollows ==
    ASSUME IfacesInv, LinkInv, NEW o \in Objs, LanDown(o)
    PROVE  LinkInv'
  <1>1. /\ Called(o) /\ cur.event \in Downs /\ object[o].is_active /\ handle_down_evt(o, FALSE) /\ Advance
        /\ UNCHANGED <<link, driver, raced>>
        /\ if_cat' = IF object[o].kind = "WLAN" THEN [if_cat EXCEPT ![cur.iface] = "UNKNOWN"] ELSE if_cat
    BY DEF LanDown, envVars, Downs
  <1>2. PICK i \in Ifaces : i = object[o].iface
    BY <1>1, CalledOne
  <1>3. cur.iface = i
    BY <1>1, <1>2, CalledTells DEF Tells
  <1>4. if_cat \in [Ifaces -> {"UNKNOWN", "WLAN", "LAN", "WAN"}]
    BY DEF IfacesInv, CatsOK
  <1>5. \A j \in Ifaces : j # i => if_cat'[j] = if_cat[j]
    BY <1>1, <1>3, <1>4
  <1>6. i \in Wlans => if_cat'[i] # "WLAN"
    <2>1. i \in Wlans => object[o].kind = "WLAN"
      BY <1>1, <1>2, CalledOne DEF IfacesInv, ObjectsOK
    <2> QED
      BY <1>1, <1>3, <1>4, <2>1
  <1> QED
    <2>1. /\ Called(o) /\ cur.event \in Downs /\ object[o].is_active /\ handle_down_evt(o, FALSE) /\ Advance
          /\ UNCHANGED <<link, driver, raced>>
      BY <1>1
    <2>2. PICK switch \in BOOLEAN : ~switch /\ handle_down_evt(o, switch)
      BY <2>1
    <2> QED
      BY <1>2, <1>5, <1>6, <2>1, <2>2, GoesDownFollows

\* IPA_CFG_CHANGE_EVENT of an IPACM_Lan.
LEMMA LanCfgChangeFollows ==
    ASSUME IfacesInv, LinkInv, NEW o \in Objs, LanCfgChange(o)
    PROVE  LinkInv'
  <1>1. /\ Called(o) /\ object[o].kind = "LAN" /\ cur.event \notin Downs /\ object[o].is_active
        /\ handle_down_evt(o, TRUE) /\ Advance /\ UNCHANGED <<link, driver, raced, if_cat>>
    BY DEF LanCfgChange, envVars, Downs
  <1>2. PICK i \in Ifaces : i = object[o].iface
    BY <1>1, CalledOne
  <1>3. i \notin Wlans
    BY <1>1, <1>2, CalledOne DEF IfacesInv, ObjectsOK
  <1> QED
    BY <1>1, <1>2, <1>3, GoesDownFollows

\* IPA_LAN_DELETE_SELF.
LEMMA DeleteSelfFollows ==
    ASSUME IfacesInv, LinkInv, NEW o \in Objs, DeleteSelf(o)
    PROVE  LinkInv'
  <1>1. /\ Called(o) /\ IsLan(o) /\ cur.event = "LAN_DELETE_SELF" /\ delete(o) /\ Advance
        /\ UNCHANGED <<link, driver, raced, if_cat>>
        /\ PostEvt(IF object[o].is_mode_switch THEN <<SelfEvt("USB_LINK_UP", cur.iface)>> ELSE <<>>)
    BY DEF DeleteSelf, AdvanceFreed, envVars
  <1>2. Alive(o) /\ object[o] \in Obj /\ ObjectsOK
    BY <1>1, CalledOne DEF IfacesInv
  <1>3. PICK i \in Ifaces : i = object[o].iface /\ cur = Request(i) /\ cur.iface = i
    <2>1. cur = Request(cur.iface) /\ cur.iface \in Ifaces
      BY <1>1, CalledOne, PostedTypes
    <2> QED
      BY <1>1, <2>1, CalledOne
  <1>4. ~object[o].is_active
    <2>1. Waits(i)
      BY <1>3 DEF IfacesInv, RequestsOK
    <2> QED
      BY <1>2, <1>3, <2>1 DEF Waits, ObjectsOK
  <1>5. PICK up \in BOOLEAN : up = object[o].is_mode_switch
    BY <1>2 DEF Obj
  <1>6. ~Active(i) /\ (Switches(i) <=> up)
    BY <1>2, <1>3, <1>4, <1>5, OnlyInstance
  <1>7. up => i \in Usbs
    <2>1. up => object[o].kind = "LAN"
      BY <1>2, <1>5 DEF LinkInv, LinksOK, LansSwitch
    <2>2. object[o].kind = "WLAN" <=> i \in Wlans
      BY <1>2, <1>3 DEF ObjectsOK
    <2> QED
      BY <2>1, <2>2 DEF Ifaces
  <1>8. ~Tells(cur, i)
    BY <1>3, SelfEvents
  <1>9. mQ' = mQ \o (IF up THEN <<SelfEvt("USB_LINK_UP", i)>> ELSE <<>>)
    BY <1>1, <1>3, <1>5 DEF PostEvt
  <1> QED
    BY <1>1, <1>3, <1>6, <1>7, <1>8, <1>9, GoesFollows

\* IPA_LINK_DOWN_EVENT and IPA_CFG_CHANGE_EVENT of an IPACM_Wan.
LEMMA WanFollows ==
    ASSUME IfacesInv, LinkInv, NEW o \in Objs, WanDown(o) \/ WanCfgChange(o)
    PROVE  LinkInv'
  <1>1. Called(o) /\ ~IsLan(o) /\ delete(o) /\ Advance /\ UNCHANGED <<link, driver, raced, if_cat>>
    BY DEF WanDown, WanCfgChange, AdvanceFreed, envVars, IsLan
  <1>2. Alive(o) /\ object[o] \in Obj /\ ObjectsOK
    BY <1>1, CalledOne DEF IfacesInv
  <1>3. PICK i \in Ifaces : i = object[o].iface
    BY <1>1, CalledOne
  <1>4. i \in Usbs /\ i \notin Wlans /\ Active(i)
    <2>1. object[o].kind # "WLAN" /\ object[o].is_active
      BY <1>1, <1>2 DEF IsLan, ObjectsOK
    <2>2. Active(i)
      BY <1>2, <1>3, <2>1, OnlyInstance
    <2> QED
      BY <1>2, <1>3, <2>1, <2>2 DEF ObjectsOK, Ifaces
  <1>5. CASE WanDown(o)
    <2>1. Tells(cur, i)
      BY <1>1, <1>3, <1>5, CalledTells DEF WanDown, Downs
    <2>2. PICK up \in BOOLEAN : ~up
      OBVIOUS
    <2>3. mQ' = mQ \o (IF up THEN <<SelfEvt("USB_LINK_UP", i)>> ELSE <<>>)
      BY <1>5, <2>2 DEF WanDown, NothingPosted, IfacesInv, QueueOK
    <2> QED
      BY <1>1, <1>3, <1>4, <2>1, <2>2, <2>3, GoesFollows
  <1>6. CASE WanCfgChange(o)
    <2>1. ~Tells(cur, i)
      <3>1. cur.event \notin Downs
        BY <1>6 DEF WanCfgChange, Downs
      <3> QED
        BY <1>1, <3>1, CalledTells
    <2>2. PICK up \in BOOLEAN : up
      OBVIOUS
    <2>3. mQ' = mQ \o (IF up THEN <<SelfEvt("USB_LINK_UP", i)>> ELSE <<>>)
      BY <1>3, <1>6, <2>2 DEF WanCfgChange, PostEvt
    <2> QED
      BY <1>1, <1>3, <1>4, <2>1, <2>2, <2>3, GoesFollows
  <1> QED
    BY <1>5, <1>6

\* A listener that has nothing to do: a down event finds it down.
LEMMA ListenerSkipsFollows ==
    ASSUME IfacesInv, LinkInv, NEW o \in Objs, ListenerSkips(o)
    PROVE  LinkInv'
  <1>1. /\ Called(o) /\ NotForIt(o) /\ Advance /\ UNCHANGED <<mQ, link, driver, raced, if_cat, object>>
    BY DEF ListenerSkips, NothingPosted, objVars, envVars
  <1>2. Alive(o) /\ object[o] \in Obj /\ ObjectsOK /\ mQ \in Seq(Posted)
    BY <1>1, CalledOne DEF IfacesInv, QueueOK
  <1>3. PICK i \in Ifaces : i = object[o].iface
    BY <1>1, CalledOne
  <1>4. \A j : (Active(j)' <=> Active(j)) /\ (Switches(j)' <=> Switches(j)) /\ (Ends(j)' <=> Ends(j))
    BY <1>1, SameInstances
  <1>5. \A j : Owed(j)' <=> Owed(j)
    BY <1>1 DEF Owed
  <1>6. PICK es \in Seq(Posted) : es = <<>>
    <2>1. <<>> \in Seq(Posted)
      OBVIOUS
    <2> QED
      BY <2>1
  <1>7. mQ' = mQ \o es /\ Quiet(es) /\ OthersSame(i, es)
    BY <1>1, <1>2, <1>4, <1>6, ToldNothing DEF Quiet, OthersSame
  <1>8. LansSwitch'
    BY <1>1 DEF LinkInv, LinksOK, LansSwitch, Alive
  <1>9. CalledFollows(i)
    <2>1. ASSUME Tells(cur, i), i \notin raced PROVE ~Up(i)'
      <3>1. cur.event \in Downs /\ ~Owed(i) /\ ~Switches(i)
        BY <2>1 DEF LinkInv, Follows, DownHeard
      <3>2. ~object[o].is_active
        BY <1>1, <3>1 DEF NotForIt, Downs
      <3>3. ~Active(i)
        BY <1>2, <1>3, <3>2, OnlyInstance
      <3> QED
        BY <1>4, <1>5, <3>1, <3>3 DEF Up
    <2>2. Up(i)' <=> Up(i)
      BY <1>4, <1>5 DEF Up
    <2>3. i \notin raced => /\ ~(Owed(i)' /\ Ends(i)')
                            /\ i \in Wlans /\ if_cat'[i] = "WLAN" => Active(i)'
      BY <1>1, <1>4, <1>5 DEF LinkInv, Follows, UpFollows
    <2> QED
      BY <2>1, <2>2, <2>3 DEF CalledFollows
  <1> QED
    BY <1>1, <1>3, <1>6, <1>7, <1>8, <1>9, CallbackFollows

-----------------------------------------------------------------------------
(* The manager, for the links.                                             *)

\* What is left to be heard when an event is taken, and whether an object hears it.
LEMMA TakenHeard ==
    ASSUME IfacesInv, LinkInv, NEW e, Dequeue(e)
    PROVE  /\ e \in Posted /\ EventFits(e) /\ AllFit(mQ') /\ UNCHANGED <<link, driver>> /\ thread # "walk"
           /\ cur = NoEvt /\ \A i \in Ifaces : ~Tells(cur, i)
           /\ \A i : Coming(i) <=> Tells(e, i) \/ Coming(i)'
           /\ \A i \in Ifaces : /\ HeardLast(i)'
                                /\ Tells(e, i) /\ ~Coming(i)' => Right(e, link[i])
                                /\ Owed(i) <=> e = SelfEvt("USB_LINK_UP", i) \/ Owed(i)'
           /\ \/ cur' = NoEvt /\ \A o \in Objs : Alive(o) => ~Hears(e, o)
              \/ cur' = e /\ \E o \in Objs : Alive(o) /\ Hears(e, o)
  <1>1. /\ mQ \in Seq(Posted) /\ mQ # <<>> /\ e = Head(mQ) /\ mQ' = Tail(mQ) /\ e \in Posted
        /\ cur = NoEvt /\ WalkOn(e, 1) /\ UNCHANGED <<link, driver>> /\ thread # "walk"
    BY HeadTaken DEF Dequeue, IfacesInv, QueueOK, WalkOK, envVars
  <1>2. /\ EventFits(e) /\ AllFit(mQ')
        /\ \A x : Holds(mQ, x) <=> x = e \/ Holds(mQ', x)
        /\ \A i : Told(mQ, i) <=> Tells(e, i) \/ Told(mQ', i)
        /\ \A i, s : LastRight(mQ, i, s) => /\ LastRight(mQ', i, s)
                                            /\ Tells(e, i) /\ ~Told(mQ', i) => Right(e, s)
    BY <1>1, ToldHead DEF LinkInv, EventsFit
  <1>3. \A i \in Ifaces : ~Tells(cur, i)
    BY <1>1, SelfEvents, IfacesAssumption
  <1>4. \A i : Coming(i) <=> Tells(e, i) \/ Coming(i)'
    BY <1>1, <1>2 DEF Coming
  <1>5. ASSUME NEW i \in Ifaces
        PROVE  /\ HeardLast(i)'
               /\ Tells(e, i) /\ ~Coming(i)' => Right(e, link[i])
               /\ Owed(i) <=> e = SelfEvt("USB_LINK_UP", i) \/ Owed(i)'
    <2>1. HeardLast(i)
      BY DEF LinkInv, Follows
    <2>2. HeardLast(i)'
      BY <1>1, <1>2, <2>1 DEF HeardLast
    <2>3. Tells(e, i) /\ ~Coming(i)' => Right(e, link[i])
      BY <1>1, <1>2, <2>1 DEF HeardLast, Coming
    <2>4. Owed(i) <=> e = SelfEvt("USB_LINK_UP", i) \/ Owed(i)'
      BY <1>2 DEF Owed
    <2> QED
      BY <2>2, <2>3, <2>4
  <1>6. \/ cur' = NoEvt /\ \A k \in 1 .. Len(listeners) : ~Hears(e, listeners[k])
        \/ cur' = e /\ \E k \in 1 .. Len(listeners) : Hears(e, listeners[k])
    BY <1>1, WalkOnFinds DEF IfacesInv, ListsOK
  <1>7. \A o \in Objs : Alive(o) <=> \E k \in 1 .. Len(listeners) : listeners[k] = o
    BY DEF IfacesInv, ListsOK
  <1>8. \A k \in 1 .. Len(listeners) : listeners[k] \in Objs
    BY DEF IfacesInv, ListsOK
  <1>9. \/ cur' = NoEvt /\ \A o \in Objs : Alive(o) => ~Hears(e, o)
        \/ cur' = e /\ \E o \in Objs : Alive(o) /\ Hears(e, o)
    BY <1>6, <1>7, <1>8
  <1> QED
    BY <1>1, <1>2, <1>3, <1>4, <1>5, <1>9

\* An event that does not concern the interface.
LEMMA UntouchedFollows ==
    ASSUME IfacesInv, LinkInv, NEW e, Dequeue(e), NEW i \in Ifaces, ~Tells(e, i), ~Tells(cur', i),
           e # SelfEvt("USB_LINK_UP", i),
           i \in raced' <=> i \in raced,
           (Active(i)' <=> Active(i)) /\ (Switches(i)' <=> Switches(i)) /\ (Ends(i)' <=> Ends(i)),
           i \in Wlans /\ if_cat'[i] = "WLAN" => if_cat[i] = "WLAN"
    PROVE  Follows(i)'
  <1>1. /\ HeardLast(i)' /\ link' = link /\ ~Tells(cur, i)
        /\ Coming(i)' <=> Coming(i)
        /\ Owed(i)' <=> Owed(i)
    BY TakenHeard
  <1>2. Up(i)' <=> Up(i)
    BY <1>1 DEF Up
  <1>3. UpFollows(i)
    BY DEF LinkInv, Follows
  <1>4. UpFollows(i)'
    BY <1>1, <1>2, <1>3 DEF UpFollows
  <1>5. DownHeard(i)'
    BY DEF DownHeard
  <1> QED
    BY <1>1, <1>4, <1>5 DEF Follows

\* An event of the interface that is lost.
LEMMA LostFollows ==
    ASSUME IfacesInv, LinkInv, NEW e, Dequeue(e), NEW i \in Ifaces, ~Tells(cur', i), i \in raced'
    PROVE  Follows(i)'
  <1>1. HeardLast(i)'
    BY TakenHeard
  <1> QED
    BY <1>1 DEF Follows, DownHeard, UpFollows

\* A link-up event of the interface: when it is the last that was said, the link is up.
LEMMA HeardUp ==
    ASSUME IfacesInv, LinkInv, NEW e, Dequeue(e), NEW i \in Ifaces, Tells(e, i), cur' = NoEvt,
           e.event \in {"LINK_UP", "USB_LINK_UP", "WLAN_AP_LINK_UP"},
           i \notin raced' => /\ ~Ends(i)'
                              /\ e.event # "LINK_UP" => Up(i)'
                              /\ i \in Wlans => Active(i)'
    PROVE  Follows(i)'
  <1>1. /\ HeardLast(i)' /\ link' = link
        /\ ~Coming(i)' => Right(e, link[i])
    BY TakenHeard
  <1>2. ~Coming(i)' => e.event # "LINK_UP" /\ link[i] = "running"
    BY <1>1 DEF Right, Ups, Downs
  <1>3. ~Tells(cur', i)
    BY SelfEvents, IfacesAssumption
  <1>4. UpFollows(i)'
    BY <1>1, <1>2 DEF UpFollows
  <1>5. DownHeard(i)'
    BY <1>3 DEF DownHeard
  <1> QED
    BY <1>1, <1>4, <1>5 DEF Follows

\* What a link-up event creates.
LEMMA UpCreates ==
    ASSUME IfacesInv, NEW e, ManagerUp(e), NEW i \in Ifaces, i = e.iface, EventFits(e)
    PROVE  \E kind \in Kinds \cup {"none"} :
              /\ create_iface_instance(i, kind)
              /\ \A j \in Ifaces : j # i => if_cat'[j] = if_cat[j]
              /\ i \in Usbs => /\ e.event \in {"LINK_UP", "USB_LINK_UP"}
                               /\ e.event = "USB_LINK_UP" => kind # "none"
                               /\ kind \in {"LAN", "ECM_WAN"} => CatOf(kind) = if_cat[i]
                               /\ if_cat'[i] = if_cat[i]
              /\ i \in Wlans /\ e.event # "WLAN_AP_LINK_UP" =>
                    /\ if_cat'[i] = if_cat[i]
                    /\ kind # "none" => if_cat[i] = "WLAN"
              /\ i \in Wlans /\ e.event = "WLAN_AP_LINK_UP" =>
                    kind # "none" \/ if_cat[i] = "WLAN"
  <1>1. /\ if_cat \in [Ifaces -> {"UNKNOWN", "WLAN", "LAN", "WAN"}]
        /\ i \in Wlans <=> if_cat[i] \in {"UNKNOWN", "WLAN"}
        /\ i \in Usbs <=> i \notin Wlans
        /\ e.event = "WLAN_AP_LINK_UP" => i \in Wlans
    BY IfacesAssumption DEF IfacesInv, CatsOK, Ifaces, EventFits, ApEvents
  <1>2. CASE e.event = "LINK_UP" /\ LinkUp(i)
    <2>1. PICK kind \in Kinds \cup {"none"} : kind = IF if_cat[i] = "WAN" THEN "Q6_WAN" ELSE "none"
      BY DEF Kinds
    <2>2. create_iface_instance(i, kind) /\ if_cat' = if_cat
      BY <1>2, <2>1 DEF LinkUp
    <2>3. e.event # "WLAN_AP_LINK_UP" /\ e.event # "USB_LINK_UP" /\ kind \notin {"LAN", "ECM_WAN"}
      BY <1>2, <2>1
    <2>4. i \in Wlans => kind = "none"
      BY <1>1, <2>1
    <2> QED
      BY <1>2, <2>2, <2>3, <2>4
  <1>3. CASE e.event = "USB_LINK_UP" /\ UsbLinkUp(i)
    <2>1. PICK kind : kind = CASE if_cat[i] = "WAN" -> "ECM_WAN"
                                [] if_cat[i] = "UNKNOWN" -> "none"
                                [] OTHER -> if_cat[i]
      OBVIOUS
    <2>2. create_iface_instance(i, kind) /\ if_cat' = if_cat
      BY <1>3, <2>1 DEF UsbLinkUp
    <2>3. kind \in Kinds \cup {"none"} /\ (kind \in {"LAN", "ECM_WAN"} => CatOf(kind) = if_cat[i])
      BY <1>1, <2>1 DEF Kinds, CatOf
    <2>4. (i \in Usbs => kind # "none") /\ (i \in Wlans /\ kind # "none" => if_cat[i] = "WLAN")
      BY <1>1, <2>1
    <2> QED
      BY <1>3, <2>2, <2>3, <2>4
  <1>4. CASE e.event = "WLAN_AP_LINK_UP" /\ WlanApLinkUp(i)
    <2>1. i \in Wlans /\ i \notin Usbs
      BY <1>1, <1>4
    <2>2. CASE if_cat[i] = "UNKNOWN"
      <3>1. if_cat' = [if_cat EXCEPT ![i] = "WLAN"] /\ create_iface_instance(i, "WLAN")
        BY <1>4, <2>2 DEF WlanApLinkUp
      <3>2. \A j \in Ifaces : j # i => if_cat'[j] = if_cat[j]
        BY <1>1, <3>1
      <3>3. "WLAN" \in Kinds \cup {"none"} /\ "WLAN" # "none"
        BY DEF Kinds
      <3> QED
        BY <1>4, <2>1, <3>1, <3>2, <3>3
    <2>3. CASE if_cat[i] # "UNKNOWN"
      <3>1. if_cat' = if_cat /\ create_iface_instance(i, "none")
        BY <1>4, <2>3 DEF WlanApLinkUp, create_iface_instance
      <3>2. if_cat[i] = "WLAN"
        BY <1>1, <2>1, <2>3
      <3> QED
        BY <1>4, <2>1, <3>1, <3>2
    <2> QED
      BY <2>2, <2>3
  <1> QED
    BY <1>2, <1>3, <1>4 DEF ManagerUp

\* The interface of a link-up event: lost on an instance that is about to end, or up.
LEMMA UpEventFollows ==
    ASSUME IfacesInv, LinkInv, NEW e, ManagerUp(e), NEW i \in Ifaces, i = e.iface, cur' = NoEvt
    PROVE  Follows(i)'
  <1>1. /\ Dequeue(e) /\ RecordUp(e) /\ e \in Posted /\ EventFits(e)
        /\ e.event \in {"LINK_UP", "USB_LINK_UP", "WLAN_AP_LINK_UP"}
    BY TakenHeard DEF ManagerUp
  <1>2. PICK kind \in Kinds \cup {"none"} :
              /\ create_iface_instance(i, kind)
              /\ i \in Usbs => /\ e.event \in {"LINK_UP", "USB_LINK_UP"}
                               /\ e.event = "USB_LINK_UP" => kind # "none"
              /\ i \in Wlans /\ e.event # "WLAN_AP_LINK_UP" =>
                    /\ if_cat'[i] = if_cat[i]
                    /\ kind # "none" => if_cat[i] = "WLAN"
              /\ i \in Wlans /\ e.event = "WLAN_AP_LINK_UP" =>
                    kind # "none" \/ if_cat[i] = "WLAN"
    BY <1>1, UpCreates
  <1>3. /\ HasInstance(i) \/ kind = "none" => object' = object
        /\ ~HasInstance(i) /\ kind # "none" => Active(i)' /\ ~Ends(i)' /\ object' # object
    BY <1>2, InstanceCreated DEF IfacesInv, ObjectInv
  <1>4. object' = object => /\ Active(i)' <=> Active(i)
                            /\ Switches(i)' <=> Switches(i)
                            /\ Ends(i)' <=> Ends(i)
    BY SameInstances
  <1>5. /\ HasInstance(i) <=> Active(i) \/ Switches(i) \/ Ends(i)
        /\ Ends(i) <=> \E o \in Instances(i) : ~object[o].is_active /\ ~object[o].is_mode_switch
    <2>1. HasInstance(i) <=> Active(i) \/ Switches(i) \/ Ends(i)
      BY DEF HasInstance, Active, Instances, Switches, Ends
    <2>2. Ends(i) <=> \E o \in Instances(i) : ~object[o].is_active /\ ~object[o].is_mode_switch
      BY DEF Ends, Instances
    <2> QED
      BY <2>1, <2>2
  <1>6. i \in Wlans => ~Switches(i)
    BY DEF Switches, LinkInv, LinksOK, LansSwitch, IfacesInv, ObjectsOK
  <1>7. /\ raced \in SUBSET Ifaces /\ ~Tells(cur', i) /\ (i \in Usbs <=> i \notin Wlans)
    BY SelfEvents, IfacesAssumption DEF LinkInv, LinksOK, Ifaces
  <1>8. ~Ends(i) => ~Ends(i)' /\ (HasInstance(i) => object' = object)
                    /\ (HasInstance(i) \/ kind # "none" => Up(i)')
    BY <1>3, <1>4, <1>5 DEF Up
  <1>9. CASE e.self
    <2>1. e.event = "USB_LINK_UP" /\ i \in Usbs
      BY <1>1, <1>9 DEF EventFits
    <2>2. e = SelfEvt("USB_LINK_UP", i)
      <3>1. e \in [event : EventNames, iface : Ifaces \cup {NoIface}, self : BOOLEAN]
        BY <1>1 DEF Posted, Events
      <3>2. e = [event |-> e.event, iface |-> e.iface, self |-> TRUE]
        BY <1>9, <3>1
      <3> QED
        BY <2>1, <3>2 DEF SelfEvt
    <2>3. raced' = raced /\ Owed(i) /\ ~Tells(e, i)
      BY <1>1, <1>9, <2>2, TakenHeard DEF RecordUp, Tells
    <2>4. CASE i \in raced
      BY <1>1, <1>7, <2>3, <2>4, LostFollows
    <2>5. CASE i \notin raced
      <3>1. ~Ends(i) /\ (Coming(i) \/ link[i] = "running")
        <4>1. UpFollows(i) /\ ~Tells(cur, i)
          BY <1>1, TakenHeard DEF LinkInv, Follows
        <4> QED
          BY <2>3, <2>5, <4>1 DEF UpFollows, Up
      <3>2. Up(i)' /\ ~Ends(i)'
        BY <1>2, <1>8, <2>1, <3>1
      <3>3. HeardLast(i)' /\ link' = link /\ (Coming(i)' <=> Coming(i))
        BY <1>1, <2>3, TakenHeard
      <3>4. UpFollows(i)'
        BY <1>7, <2>1, <3>1, <3>2, <3>3 DEF UpFollows
      <3>5. DownHeard(i)'
        BY <1>7 DEF DownHeard
      <3> QED
        BY <3>3, <3>4, <3>5 DEF Follows
    <2> QED
      BY <2>4, <2>5
  <1>10. CASE ~e.self /\ Ends(i)
    <2>1. i \in raced'
      BY <1>1, <1>5, <1>10 DEF RecordUp
    <2> QED
      BY <1>1, <1>7, <2>1, LostFollows
  <1>11. CASE ~e.self /\ ~Ends(i) /\ i \in Usbs
    <2>1. Tells(e, i)
      BY <1>2, <1>7, <1>11 DEF Tells
    <2>2. ~Ends(i)' /\ (e.event # "LINK_UP" => Up(i)') /\ i \notin Wlans
      BY <1>2, <1>7, <1>8, <1>11
    <2> QED
      BY <1>1, <2>1, <2>2, HeardUp
  <1>12. CASE ~e.self /\ ~Ends(i) /\ i \in Wlans /\ e.event # "WLAN_AP_LINK_UP"
    <2>1. raced' = raced
      BY <1>1, <1>5, <1>12 DEF RecordUp
    <2>2. CASE i \in raced
      BY <1>1, <1>7, <2>1, <2>2, LostFollows
    <2>3. CASE i \notin raced
      <3>1. kind # "none" => HasInstance(i)
        <4>1. UpFollows(i)
          BY DEF LinkInv, Follows
        <4> QED
          BY <1>2, <1>5, <1>12, <2>3, <4>1 DEF UpFollows
      <3>2. object' = object
        BY <1>3, <3>1
      <3>3. ~Tells(e, i)
        BY <1>1, <1>12 DEF Tells, ApEvents
      <3>4. e # SelfEvt("USB_LINK_UP", i)
        BY <1>12, SelfEvents
      <3> QED
        BY <1>1, <1>2, <1>4, <1>7, <1>12, <2>1, <3>2, <3>3, <3>4, UntouchedFollows
    <2> QED
      BY <2>2, <2>3
  <1>13. CASE ~e.self /\ ~Ends(i) /\ i \in Wlans /\ e.event = "WLAN_AP_LINK_UP"
    <2>1. Tells(e, i)
      BY <1>13 DEF Tells, ApEvents
    <2>2. ASSUME i \notin raced' PROVE Active(i)' /\ ~Ends(i)'
      <3>1. CASE object' # object
        BY <1>3, <3>1
      <3>2. CASE object' = object
        <4>1. i \notin raced
          BY <1>1, <1>5, <1>13, <2>2, <3>2 DEF RecordUp
        <4>2. HasInstance(i)
          <5>1. UpFollows(i)
            BY DEF LinkInv, Follows
          <5> QED
            BY <1>2, <1>3, <1>5, <1>13, <3>2, <4>1, <5>1 DEF UpFollows
        <4> QED
          BY <1>4, <1>5, <1>6, <1>13, <3>2, <4>2
      <3> QED
        BY <3>1, <3>2
    <2>3. i \notin raced' => ~Ends(i)' /\ Up(i)' /\ Active(i)'
      BY <2>2 DEF Up
    <2> QED
      BY <1>1, <2>1, <2>3, HeardUp
  <1> QED
    BY <1>7, <1>9, <1>10, <1>11, <1>12, <1>13

\* The link-up events.
LEMMA ManagerUpFollows ==
    ASSUME IfacesInv, LinkInv, NEW e, ManagerUp(e)
    PROVE  LinkInv'
  <1>1. /\ Dequeue(e) /\ RecordUp(e) /\ e \in Posted /\ EventFits(e) /\ AllFit(mQ')
        /\ UNCHANGED <<link, driver>> /\ ObjectInv
        /\ e.event \in {"LINK_UP", "USB_LINK_UP", "WLAN_AP_LINK_UP"}
    BY TakenHeard DEF ManagerUp, IfacesInv, ObjectInv
  <1>2. PICK i \in Ifaces : i = e.iface
    BY <1>1 DEF Posted
  <1>3. cur' = NoEvt
    <2>1. ASSUME NEW o \in Objs, Alive(o) PROVE ~Hears(e, o)
      <3>1. object[o] \in Obj
        BY <2>1 DEF IfacesInv, ObjectsOK, Alive
      <3> QED
        BY <1>1, <3>1 DEF Hears, RegisteredFor, Obj, Kinds
    <2> QED
      BY <1>1, <2>1, TakenHeard
  <1>4. PICK kind \in Kinds \cup {"none"} :
              /\ create_iface_instance(i, kind)
              /\ \A j \in Ifaces : j # i => if_cat'[j] = if_cat[j]
    BY <1>1, <1>2, UpCreates
  <1>5. /\ HasInstance(i) \/ kind = "none" => UNCHANGED <<object, listeners>>
        /\ ~HasInstance(i) /\ kind # "none" =>
              \E o \in Objs : /\ ~Alive(o) /\ ~object'[o].is_mode_switch
                              /\ \A p \in Objs : p # o => object'[p] = object[p]
        /\ \A j : j # i => /\ Active(j)' <=> Active(j)
                           /\ Switches(j)' <=> Switches(j)
                           /\ Ends(j)' <=> Ends(j)
    BY <1>1, <1>4, InstanceCreated
  <1>6. \A j \in Ifaces : ~Tells(cur', j)
    BY <1>3, SelfEvents, IfacesAssumption
  <1>7. raced' = raced \/ raced' = raced \cup {i} \/ raced' = raced \ {i}
    BY <1>1, <1>2 DEF RecordUp
  <1>8. ASSUME NEW j \in Ifaces, j # i PROVE Follows(j)'
    <2>1. ~Tells(e, j) /\ e # SelfEvt("USB_LINK_UP", j)
      BY <1>2, <1>8 DEF Tells, SelfEvt
    <2>2. j \in raced' <=> j \in raced
      BY <1>7, <1>8
    <2> QED
      BY <1>1, <1>4, <1>5, <1>6, <1>8, <2>1, <2>2, UntouchedFollows
  <1>9. Follows(i)'
    BY <1>2, <1>3, UpEventFollows
  <1>10. LansSwitch'
    <2>1. LansSwitch
      BY DEF LinkInv, LinksOK
    <2>2. CASE HasInstance(i) \/ kind = "none"
      BY <1>5, <2>1, <2>2 DEF LansSwitch, Alive
    <2>3. CASE ~HasInstance(i) /\ kind # "none"
      BY <1>5, <2>1, <2>3 DEF LansSwitch, Alive
    <2> QED
      BY <2>2, <2>3
  <1>11. LinksOK'
    BY <1>1, <1>7, <1>10 DEF LinkInv, LinksOK
  <1>12. EventsFit'
    BY <1>1, <1>3, SelfEvents DEF LinkInv, EventsFit
  <1> QED
    BY <1>8, <1>9, <1>11, <1>12 DEF LinkInv

\* IPA_CFG_CHANGE_EVENT.
LEMMA ManagerCfgChangeFollows ==
    ASSUME IfacesInv, LinkInv, NEW e, ManagerCfgChange(e)
    PROVE  LinkInv'
  <1>1. /\ Dequeue(e) /\ e.event = "CFG_CHANGE" /\ UNCHANGED <<object, raced>>
        /\ if_cat' = [i \in Ifaces |-> IF i \in Wlans THEN "UNKNOWN" ELSE file[i]]
    BY DEF ManagerCfgChange, objVars
  <1>2. /\ e \in Posted /\ EventFits(e) /\ AllFit(mQ') /\ UNCHANGED <<link, driver>>
        /\ cur' = NoEvt \/ cur' = e
    BY <1>1, TakenHeard
  <1>3. \A j : ~Tells(e, j) /\ e # SelfEvt("USB_LINK_UP", j)
    BY <1>1 DEF Tells, SelfEvt, ApEvents
  <1>4. \A j : (Active(j)' <=> Active(j)) /\ (Switches(j)' <=> Switches(j)) /\ (Ends(j)' <=> Ends(j))
    BY <1>1, SameInstances
  <1>5. ASSUME NEW j \in Ifaces PROVE Follows(j)'
    <2>1. ~Tells(cur', j)
      BY <1>2, <1>3, SelfEvents, IfacesAssumption
    <2>2. j \in Wlans => if_cat'[j] # "WLAN"
      BY <1>1
    <2> QED
      BY <1>1, <1>3, <1>4, <2>1, <2>2, UntouchedFollows
  <1>6. LinksOK'
    BY <1>1, <1>2 DEF LinkInv, LinksOK, LansSwitch, Alive
  <1>7. EventsFit'
    BY <1>2, SelfEvents DEF LinkInv, EventsFit
  <1> QED
    BY <1>5, <1>6, <1>7 DEF LinkInv

\* The link-down events and the requests: a down event is lost to a change of mode.
LEMMA ManagerSkipsFollows ==
    ASSUME IfacesInv, LinkInv, NEW e, ManagerSkips(e)
    PROVE  LinkInv'
  <1>1. /\ Dequeue(e) /\ e.event \in {"LINK_DOWN", "WLAN_LINK_DOWN", "LAN_DELETE_SELF"} /\ RecordDown(e)
        /\ UNCHANGED <<object, if_cat>>
    BY DEF ManagerSkips, objVars
  <1>2. /\ e \in Posted /\ EventFits(e) /\ AllFit(mQ') /\ UNCHANGED <<link, driver>>
        /\ \/ cur' = NoEvt /\ \A o \in Objs : Alive(o) => ~Hears(e, o)
           \/ cur' = e
    BY <1>1, TakenHeard
  <1>3. PICK i \in Ifaces : i = e.iface
    BY <1>1, <1>2 DEF Posted
  <1>4. \A j : (Active(j)' <=> Active(j)) /\ (Switches(j)' <=> Switches(j)) /\ (Ends(j)' <=> Ends(j))
    BY <1>1, SameInstances
  <1>5. raced' = raced \/ raced' = raced \cup {i} \/ raced' = raced \ {i}
    BY <1>1, <1>3 DEF RecordDown
  <1>6. \A j \in Ifaces : Tells(cur', j) => Tells(e, j) /\ cur' = e
    BY <1>2, SelfEvents, IfacesAssumption
  <1>7. \A j : e # SelfEvt("USB_LINK_UP", j)
    BY <1>1 DEF SelfEvt
  <1>8. \A j \in Ifaces : /\ Owed(j)' <=> Owed(j)
                          /\ Owed(j) <=> SelfEvt("USB_LINK_UP", j) \in Range(mQ)
    <2>1. mQ \in Seq(Posted)
      BY DEF IfacesInv, QueueOK
    <2> QED
      BY <1>1, <1>7, <2>1, TakenHeard DEF Owed, Holds, Range
  <1>9. i \in Wlans => ~Switches(i) /\ ~Owed(i)
    <2>1. i \in Wlans => ~Switches(i)
      BY DEF Switches, LinkInv, LinksOK, LansSwitch, IfacesInv, ObjectsOK
    <2>2. ASSUME i \in Wlans, Owed(i) PROVE FALSE
      <3>1. EventFits(SelfEvt("USB_LINK_UP", i))
        BY <2>2 DEF Owed, Holds, LinkInv, EventsFit, AllFit
      <3>2. i \in Usbs
        BY <3>1 DEF EventFits, SelfEvt
      <3> QED
        BY <2>2, <3>2, IfacesAssumption
    <2> QED
      BY <2>1, <2>2
  <1>10. ASSUME NEW j \in Ifaces, ~Tells(e, j), j \in raced' <=> j \in raced PROVE Follows(j)'
    BY <1>1, <1>4, <1>6, <1>7, <1>10, UntouchedFollows
  <1>11. \A j \in Ifaces : j # i => ~Tells(e, j) /\ (j \in raced' <=> j \in raced)
    BY <1>3, <1>5 DEF Tells
  <1>12. Switches(i) <=> \E o \in Instances(i) : object[o].is_mode_switch
    BY DEF Switches, Instances
  <1>13. CASE e.self
    <2>1. raced' = raced /\ \A j : ~Tells(e, j)
      BY <1>1, <1>13 DEF RecordDown, Tells
    <2>2. \A j \in Ifaces : Follows(j)'
      BY <1>10, <2>1
    <2> QED
      BY <1>1, <1>2, <2>1, <2>2, SelfEvents DEF LinkInv, LinksOK, LansSwitch, Alive, EventsFit
  <1>14. CASE ~e.self
    <2>1. i \in raced' \/ (~Switches(i) /\ ~Owed(i))
      <3>1. ASSUME Switches(i) \/ Owed(i) PROVE i \in raced'
        <4>1. \/ \E o \in Instances(e.iface) : object[o].is_mode_switch
              \/ SelfEvt("USB_LINK_UP", e.iface) \in Range(mQ)
          BY <1>3, <1>8, <1>12, <3>1
        <4>2. raced' = raced \cup {e.iface}
          BY <1>1, <1>14, <4>1 DEF RecordDown
        <4> QED
          BY <1>3, <4>2
      <3> QED
        BY <3>1
    <2>2. e.event \in Downs
      <3>1. e.event # "LAN_DELETE_SELF"
        BY <1>2, <1>14 DEF Posted
      <3> QED
        BY <1>1, <3>1 DEF Downs
    <2>3. ASSUME Tells(e, i) PROVE Follows(i)'
      <3>1. /\ HeardLast(i)' /\ link' = link
            /\ ~Coming(i)' => Right(e, link[i])
        BY <1>1, <2>3, TakenHeard
      <3>2. Coming(i)' \/ link'[i] # "running"
        BY <2>2, <3>1 DEF Right, Ups, Downs
      <3>3. DownHeard(i)'
        BY <1>4, <1>6, <1>8, <2>1, <2>2, <3>2 DEF DownHeard
      <3>4. ASSUME cur' = NoEvt, i \notin raced' PROVE ~Up(i)'
        <4>1. ASSUME NEW o \in Objs, Alive(o), object[o].iface = i PROVE cur' = e
          <5>1. object[o] \in Obj /\ (object[o].kind = "WLAN" <=> i \in Wlans)
            BY <4>1 DEF IfacesInv, ObjectsOK, Alive
          <5>2. e.event \in RegisteredFor(object[o].kind)
            BY <2>2, <2>3, <5>1 DEF RegisteredFor, Obj, Kinds, Tells, Downs, ApEvents
          <5> QED
            BY <1>2, <1>3, <4>1, <5>2 DEF Hears
        <4>2. e # NoEvt
          BY <1>1 DEF NoEvt, Evt
        <4>3. ~Active(i)
          BY <3>4, <4>1, <4>2 DEF Active, Instances
        <4> QED
          BY <1>4, <1>8, <2>1, <3>4, <4>3 DEF Up
      <3>5. i \in Wlans /\ i \notin raced' /\ if_cat'[i] = "WLAN" => Active(i)'
        <4>1. i \in Wlans /\ i \notin raced' => i \notin raced
          BY <1>1, <1>3, <1>14 DEF RecordDown
        <4>2. UpFollows(i)
          BY DEF LinkInv, Follows
        <4> QED
          BY <1>1, <1>4, <4>1, <4>2 DEF UpFollows
      <3>6. cur' = NoEvt \/ Tells(cur', i)
        BY <1>2, <2>3
      <3>7. UpFollows(i)'
        BY <1>8, <2>1, <3>2, <3>4, <3>5, <3>6 DEF UpFollows
      <3> QED
        BY <3>1, <3>3, <3>7 DEF Follows
    <2>4. ASSUME ~Tells(e, i) PROVE Follows(i)'
      <3>1. i \in Wlans
        BY <1>2, <1>3, <1>14, <2>2, <2>4 DEF Tells, EventFits, Downs, ApEvents
      <3>2. i \in raced' <=> i \in raced
        BY <1>1, <1>3, <1>8, <1>9, <1>12, <1>14, <3>1 DEF RecordDown
      <3> QED
        BY <1>10, <2>4, <3>2
    <2>5. \A j \in Ifaces : Follows(j)'
      BY <1>10, <1>11, <2>3, <2>4
    <2>6. LinksOK'
      BY <1>1, <1>2, <1>5 DEF LinkInv, LinksOK, LansSwitch, Alive
    <2> QED
      BY <1>2, <2>5, <2>6, SelfEvents DEF LinkInv, EventsFit
  <1> QED
    BY <1>13, <1>14

-----------------------------------------------------------------------------
(* The threads that post, for the links.                                   *)

\* What is said and what is to be said of an interface, when the objects, the table and
\* the event in hand stay: either the link is as it was, or more is to come.
LEMMA HeardFollows ==
    ASSUME LinkInv, Idle, NEW i \in Ifaces,
           HeardLast(i)', Owed(i)' <=> Owed(i), Coming(i) => Coming(i)',
           Coming(i)' \/ (link'[i] = "running" <=> link[i] = "running")
    PROVE  Follows(i)'
  <1>1. UNCHANGED <<cur, object, if_cat, raced>>
    BY DEF Idle, objVars
  <1>2. (Active(i)' <=> Active(i)) /\ (Switches(i)' <=> Switches(i)) /\ (Ends(i)' <=> Ends(i))
    BY <1>1, SameInstances
  <1>3. Up(i)' <=> Up(i)
    BY <1>2 DEF Up
  <1>4. DownHeard(i) /\ UpFollows(i)
    BY DEF LinkInv, Follows
  <1>5. DownHeard(i)'
    BY <1>1, <1>2, <1>4 DEF DownHeard
  <1>6. UpFollows(i)'
    BY <1>1, <1>2, <1>3, <1>4 DEF UpFollows
  <1> QED
    BY <1>5, <1>6 DEF Follows

\* An event of the outside.
LEMMA EvtIs ==
    ASSUME NEW n \in {"LINK_UP", "USB_LINK_UP", "WLAN_AP_LINK_UP", "LINK_DOWN", "WLAN_LINK_DOWN"},
           NEW i \in Ifaces, n \in ApEvents => i \in Wlans
    PROVE  /\ Evt(n, i) \in FromOutside /\ Evt(n, i) \in Posted /\ EventFits(Evt(n, i))
           /\ ~Evt(n, i).self /\ Evt(n, i).event = n
           /\ \A j : Tells(Evt(n, i), j) <=>
                 j = i /\ n \in IF i \in Wlans THEN ApEvents ELSE {"LINK_UP", "USB_LINK_UP", "LINK_DOWN"}
  <1>1. PICK e : e = Evt(n, i)
    OBVIOUS
  <1>2. e.event = n /\ e.iface = i /\ e.self = FALSE
    BY <1>1 DEF Evt
  <1>3. e \in FromOutside /\ e \in Posted
    BY <1>1 DEF FromOutside, Posted, Events, EventNames, Evt
  <1>4. EventFits(e)
    BY <1>2 DEF EventFits, ApEvents
  <1>5. \A j : Tells(e, j) <=>
            j = i /\ n \in IF i \in Wlans THEN ApEvents ELSE {"LINK_UP", "USB_LINK_UP", "LINK_DOWN"}
    BY <1>2 DEF Tells
  <1> QED
    BY <1>1, <1>2, <1>3, <1>4, <1>5

\* No event of a queue is one that an object posted for its successor.
NoneSelf(q) == \A n \in 1 .. Len(q) : ~q[n].self

\* The events of the netlink thread: of a USB function they end with how the link is, of
\* an AP they say nothing.
LEMMA NetlinkEvents ==
    ASSUME NEW i \in Ifaces, NEW change \in BOOLEAN, NEW state
    PROVE  \E es \in Seq(Posted) :
              /\ es = NewLinkEvents(i, change, state)
              /\ AllFit(es) /\ NoneSelf(es) /\ \A j : j # i => ~Told(es, j)
              /\ i \in Wlans => ~Told(es, i)
              /\ i \notin Wlans => Told(es, i) /\ LastRight(es, i, state)
  <1>1. PICK n \in {"LINK_DOWN", "LINK_UP"} : n = IF state = "down" THEN "LINK_DOWN" ELSE "LINK_UP"
    OBVIOUS
  <1>2. PICK m \in {"USB_LINK_UP", "LINK_DOWN"} : m = IF state = "running" THEN "USB_LINK_UP" ELSE "LINK_DOWN"
    OBVIOUS
  <1>3. PICK a \in Posted : /\ a = Evt(n, i) /\ EventFits(a) /\ ~a.self
                            /\ \A j : Tells(a, j) <=> j = i /\ i \notin Wlans
    <2>1. n \notin ApEvents /\ n \in {"LINK_UP", "USB_LINK_UP", "LINK_DOWN"}
      BY DEF ApEvents
    <2> QED
      BY <2>1, EvtIs
  <1>4. PICK b \in Posted : /\ b = Evt(m, i) /\ EventFits(b) /\ ~b.self /\ b.event = m
                            /\ \A j : Tells(b, j) <=> j = i /\ i \notin Wlans
    <2>1. m \notin ApEvents /\ m \in {"LINK_UP", "USB_LINK_UP", "LINK_DOWN"}
      BY DEF ApEvents
    <2> QED
      BY <2>1, EvtIs
  <1>5. PICK u : u = IF change THEN <<a>> ELSE <<>>
    OBVIOUS
  <1>6. /\ u \in Seq(Posted) /\ AllFit(u) /\ NoneSelf(u) /\ \A j : j # i \/ i \in Wlans => ~Told(u, j)
    <2>1. CASE change
      <3>1. u = <<a>> /\ u \in Seq(Posted)
        BY <1>5, <2>1
      <3>2. NoneSelf(<<a>>)
        BY <1>3 DEF NoneSelf
      <3> QED
        BY <1>3, <3>1, <3>2, ToldOne
    <2>2. CASE ~change
      <3>1. u = <<>> /\ u \in Seq(Posted)
        BY <1>5, <2>2
      <3>2. NoneSelf(<<>>)
        BY DEF NoneSelf
      <3> QED
        BY <3>1, <3>2, ToldNothing
    <2> QED
      BY <2>1, <2>2
  <1>7. PICK v \in Seq(Posted) : v = <<b>>
    <2>1. <<b>> \in Seq(Posted)
      OBVIOUS
    <2> QED
      BY <2>1
  <1>8. /\ AllFit(v) /\ \A j : Told(v, j) <=> j = i /\ i \notin Wlans
        /\ LastRight(v, i, state)
    <2>1. Right(b, state)
      BY <1>2, <1>4 DEF Right, Ups, Downs
    <2>2. /\ AllFit(<<b>>) <=> EventFits(b)
          /\ \A j : Told(<<b>>, j) <=> Tells(b, j)
          /\ LastRight(<<b>>, i, state) <=> (Tells(b, i) => Right(b, state))
      BY ToldOne
    <2> QED
      BY <1>4, <1>7, <2>1, <2>2
  <1>9. PICK w : w = u \o v
    OBVIOUS
  <1>10. /\ AllFit(w)
         /\ \A j : Told(w, j) <=> Told(u, j) \/ Told(v, j)
         /\ Told(v, i) /\ LastRight(v, i, state) => LastRight(w, i, state)
    BY <1>6, <1>8, <1>9, ToldLater
  <1>11. w \in Seq(Posted) /\ NoneSelf(w)
    <2>1. /\ Len(u) \in Nat /\ Len(v) = 1 /\ v[1] = b /\ w \in Seq(Posted) /\ Len(w) = Len(u) + 1
          /\ \A k \in 1 .. Len(u) : w[k] = u[k]
          /\ w[Len(u) + 1] = b
      BY <1>6, <1>7, <1>9
    <2> QED
      BY <1>4, <1>6, <2>1 DEF NoneSelf
  <1>12. w = NewLinkEvents(i, change, state)
    BY <1>1, <1>2, <1>3, <1>4, <1>5, <1>7, <1>9 DEF NewLinkEvents
  <1> QED
    BY <1>6, <1>8, <1>10, <1>11, <1>12

\* The event of the driver, when the link comes or goes.
LEMMA DriverEvent ==
    ASSUME NEW i \in Ifaces, NEW state
    PROVE  \E es \in Seq(Posted) :
              /\ es = DriverEvents(i, state)
              /\ AllFit(es) /\ NoneSelf(es) /\ \A j : j # i => ~Told(es, j)
              /\ Told(es, i) <=> ~((state = "running") <=> (link[i] = "running"))
              /\ LastRight(es, i, state)
  <1>1. CASE (state = "running") <=> (link[i] = "running")
    <2>1. PICK es : es = <<>> /\ es \in Seq(Posted)
      <3>1. <<>> \in Seq(Posted)
        OBVIOUS
      <3> QED
        BY <3>1
    <2>2. es = DriverEvents(i, state) /\ NoneSelf(es)
      BY <1>1, <2>1 DEF DriverEvents, NoneSelf
    <2> QED
      BY <1>1, <2>1, <2>2, ToldNothing
  <1>2. CASE ~((state = "running") <=> (link[i] = "running"))
    <2>1. PICK n \in {"USB_LINK_UP", "WLAN_AP_LINK_UP", "LINK_DOWN", "WLAN_LINK_DOWN"} :
             n = IF i \in Wlans THEN IF state = "running" THEN "WLAN_AP_LINK_UP" ELSE "WLAN_LINK_DOWN"
                 ELSE IF state = "running" THEN "USB_LINK_UP" ELSE "LINK_DOWN"
      OBVIOUS
    <2>2. n \in IF i \in Wlans THEN ApEvents ELSE {"LINK_UP", "USB_LINK_UP", "LINK_DOWN"}
      BY <2>1 DEF ApEvents
    <2>3. n \in ApEvents => i \in Wlans
      BY <2>1 DEF ApEvents
    <2>4. PICK a \in Posted : /\ a = Evt(n, i) /\ EventFits(a) /\ ~a.self /\ a.event = n
                              /\ \A j : Tells(a, j) <=> j = i
      BY <2>2, <2>3, EvtIs
    <2>5. Right(a, state)
      BY <2>1, <2>4 DEF Right, Ups, Downs
    <2>6. PICK es \in Seq(Posted) : es = <<a>>
      <3>1. <<a>> \in Seq(Posted)
        OBVIOUS
      <3> QED
        BY <3>1
    <2>7. NoneSelf(<<a>>)
      BY <2>4 DEF NoneSelf
    <2>8. es = DriverEvents(i, state)
      BY <1>2, <2>1, <2>4, <2>6 DEF DriverEvents
    <2>9. /\ AllFit(<<a>>) <=> EventFits(a)
          /\ \A j : Told(<<a>>, j) <=> Tells(a, j)
          /\ LastRight(<<a>>, i, state) <=> (Tells(a, i) => Right(a, state))
      BY ToldOne
    <2> QED
      BY <1>2, <2>4, <2>5, <2>6, <2>7, <2>8, <2>9
  <1> QED
    BY <1>1, <1>2


\* The netlink thread, or the watcher of the file, posts; the driver may be about to.
LEMMA PostsFollow ==
    ASSUME IfacesInv, LinkInv, Idle, NEW es \in Seq(Posted), NEW ds \in Seq(Posted),
           PostEvt(es), driver' = driver \o ds,
           AllFit(es), AllFit(ds), NoneSelf(es), NoneSelf(ds),
           link' \in [Ifaces -> {"down", "up", "running"}], \A j \in Wlans : link'[j] # "up",
           NEW i \in Ifaces,
           \A j \in Ifaces : j # i => ~Told(es, j) /\ ~Told(ds, j) /\ link'[j] = link[j],
           LastRight(ds, i, link'[i]),
           Told(ds, i) \/ (link'[i] = "running" <=> link[i] = "running"),
           Told(es, i) => LastRight(es, i, link'[i])
    PROVE  LinkInv'
  <1>1. mQ \in Seq(Posted) /\ driver \in Seq(Posted) /\ mQ' = mQ \o es
    BY DEF IfacesInv, QueueOK, FromOutside, PostEvt
  <1>2. /\ AllFit(mQ) => AllFit(mQ')
        /\ \A e : Holds(mQ', e) <=> Holds(mQ, e) \/ Holds(es, e)
        /\ \A j : Told(mQ', j) <=> Told(mQ, j) \/ Told(es, j)
        /\ \A j, s : Told(es, j) /\ LastRight(es, j, s) => LastRight(mQ', j, s)
        /\ \A j, s : ~Told(es, j) /\ LastRight(mQ, j, s) => LastRight(mQ', j, s)
    BY <1>1, ToldLater
  <1>3. /\ AllFit(driver) => AllFit(driver')
        /\ \A j : Told(driver', j) <=> Told(driver, j) \/ Told(ds, j)
        /\ \A j, s : Told(ds, j) /\ LastRight(ds, j, s) => LastRight(driver', j, s)
        /\ \A j, s : ~Told(ds, j) /\ LastRight(driver, j, s) => LastRight(driver', j, s)
    BY <1>1, ToldLater
  <1>4. EventsFit'
    <2>1. UNCHANGED cur
      BY DEF Idle
    <2>2. NoneSelf(driver')
      <3>1. /\ Len(driver') = Len(driver) + Len(ds) /\ Len(driver) \in Nat /\ Len(ds) \in Nat
            /\ \A n \in 1 .. Len(driver) : driver'[n] = driver[n]
            /\ \A n \in 1 .. Len(driver') : n \notin 1 .. Len(driver) =>
                  n - Len(driver) \in 1 .. Len(ds) /\ driver'[n] = ds[n - Len(driver)]
        BY <1>1, ConcatProperties
      <3> QED
        BY <3>1 DEF NoneSelf, LinkInv, EventsFit
    <2> QED
      BY <1>2, <1>3, <2>1, <2>2 DEF LinkInv, EventsFit, NoneSelf
  <1>5. LinksOK'
    BY DEF Idle, objVars, LinkInv, LinksOK, LansSwitch, Alive
  <1>6. ASSUME NEW j \in Ifaces PROVE Follows(j)'
    <2>1. HeardLast(j) /\ (Told(ds, j) \/ (link'[j] = "running" <=> link[j] = "running"))
      BY DEF LinkInv, Follows
    <2>2. /\ Told(ds, j) => LastRight(ds, j, link'[j])
          /\ Told(es, j) => LastRight(es, j, link'[j])
      OBVIOUS
    <2>3. ASSUME NEW q, LastRight(q, j, link[j]), ~Told(ds, j) PROVE LastRight(q, j, link'[j])
      BY <2>1, <2>3 DEF LastRight, Right
    <2>4. LastRight(driver, j, link[j]) /\ (~Told(driver, j) => LastRight(mQ, j, link[j]))
      BY <2>1 DEF HeardLast
    <2>5. LastRight(driver', j, link'[j])
      BY <1>3, <2>2, <2>3, <2>4
    <2>6. ~Told(driver', j) => LastRight(mQ', j, link'[j])
      BY <1>2, <1>3, <2>2, <2>3, <2>4
    <2>7. HeardLast(j)'
      BY <2>5, <2>6 DEF HeardLast, Told, LastRight
    <2>8. Owed(j)' <=> Owed(j)
      <3>1. PICK e : e = SelfEvt("USB_LINK_UP", j)
        OBVIOUS
      <3>2. e.self
        BY <3>1 DEF SelfEvt
      <3>3. ~Holds(es, e)
        BY <3>2 DEF NoneSelf, Holds
      <3> QED
        BY <1>2, <3>1, <3>3 DEF Owed, Holds
    <2>9. Coming(j)' <=> Coming(j) \/ Told(ds, j) \/ Told(es, j)
      BY <1>2, <1>3 DEF Coming, Told
    <2> QED
      BY <2>1, <2>7, <2>8, <2>9, HeardFollows
  <1> QED
    BY <1>4, <1>5, <1>6 DEF LinkInv

\* A change of a link: its events, and the driver's when the interface comes or goes.
LEMMA LinkChangesFollows ==
    ASSUME IfacesInv, LinkInv, NEW i \in Ifaces, NEW state \in {"down", "up", "running"},
           LinkChanges(i, state)
    PROVE  LinkInv'
  <1>1. /\ PostEvt(NewLinkEvents(i, "down" \in {state, link[i]}, state)) /\ Idle
        /\ driver' = driver \o DriverEvents(i, state)
        /\ link' = [link EXCEPT ![i] = state]
        /\ i \in Wlans => state # "up"
    BY DEF LinkChanges
  <1>2. PICK change \in BOOLEAN : change <=> "down" \in {state, link[i]}
    OBVIOUS
  <1>3. ("down" \in {state, link[i]}) = change
    BY <1>2
  <1>4. PICK es \in Seq(Posted) :
           /\ es = NewLinkEvents(i, change, state)
           /\ AllFit(es) /\ NoneSelf(es) /\ \A j : j # i => ~Told(es, j)
           /\ i \in Wlans => ~Told(es, i)
           /\ i \notin Wlans => Told(es, i) /\ LastRight(es, i, state)
    BY NetlinkEvents
  <1>5. PICK ds \in Seq(Posted) :
           /\ ds = DriverEvents(i, state)
           /\ AllFit(ds) /\ NoneSelf(ds) /\ \A j : j # i => ~Told(ds, j)
           /\ Told(ds, i) <=> ~((state = "running") <=> (link[i] = "running"))
           /\ LastRight(ds, i, state)
    BY DriverEvent
  <1>6. PostEvt(es) /\ driver' = driver \o ds
    BY <1>1, <1>3, <1>4, <1>5
  <1>7. link \in [Ifaces -> {"down", "up", "running"}] /\ \A j \in Wlans : link[j] # "up"
    BY DEF LinkInv, LinksOK
  <1>8. /\ link' \in [Ifaces -> {"down", "up", "running"}] /\ link'[i] = state
        /\ \A j \in Ifaces : j # i => link'[j] = link[j]
    BY <1>1, <1>7
  <1>9. \A j \in Wlans : link'[j] # "up"
    BY <1>1, <1>7, <1>8 DEF Ifaces
  <1>10. \A j \in Ifaces : j # i => ~Told(es, j) /\ ~Told(ds, j) /\ link'[j] = link[j]
    BY <1>4, <1>5, <1>8
  <1>11. LastRight(ds, i, link'[i]) /\ (Told(ds, i) \/ (link'[i] = "running" <=> link[i] = "running"))
    BY <1>5, <1>8
  <1>12. Told(es, i) => LastRight(es, i, link'[i])
    BY <1>4, <1>8
  <1>13. Idle /\ AllFit(es) /\ AllFit(ds) /\ NoneSelf(es) /\ NoneSelf(ds)
    BY <1>1, <1>4, <1>5
  <1>14. link' \in [Ifaces -> {"down", "up", "running"}]
    BY <1>8
  <1> QED
    BY <1>6, <1>9, <1>10, <1>11, <1>12, <1>13, <1>14, PostsFollow

\* A message of the kernel that repeats how the link is.
LEMMA LinkRepeatedFollows ==
    ASSUME IfacesInv, LinkInv, NEW i \in Ifaces, LinkRepeated(i)
    PROVE  LinkInv'
  <1>1. PostEvt(NewLinkEvents(i, FALSE, link[i])) /\ Idle /\ UNCHANGED <<link, driver>>
    BY DEF LinkRepeated
  <1>2. PICK es \in Seq(Posted) :
           /\ es = NewLinkEvents(i, FALSE, link[i])
           /\ AllFit(es) /\ NoneSelf(es) /\ \A j : j # i => ~Told(es, j)
           /\ i \in Wlans => ~Told(es, i)
           /\ i \notin Wlans => Told(es, i) /\ LastRight(es, i, link[i])
    BY NetlinkEvents
  <1>3. link \in [Ifaces -> {"down", "up", "running"}] /\ \A j \in Wlans : link[j] # "up"
    BY DEF LinkInv, LinksOK
  <1>4. PICK ds \in Seq(Posted) : ds = <<>> /\ NoneSelf(ds) /\ driver' = driver \o ds
    <2>1. driver \in Seq(Posted) /\ <<>> \in Seq(Posted)
      BY DEF IfacesInv, QueueOK, FromOutside
    <2>2. driver \o <<>> = driver /\ NoneSelf(<<>>)
      BY <2>1 DEF NoneSelf
    <2> QED
      BY <1>1, <2>1, <2>2
  <1>5. AllFit(ds) /\ (\A j : ~Told(ds, j)) /\ \A j, s : LastRight(ds, j, s)
    BY <1>4, ToldNothing
  <1> QED
    BY <1>1, <1>2, <1>3, <1>4, <1>5, PostsFollow

\* The file is changed.
LEMMA CfgChangesFollows ==
    ASSUME IfacesInv, LinkInv, NEW i \in Usbs, CfgChanges(i)
    PROVE  LinkInv'
  <1>1. PostEvt(<<Evt("CFG_CHANGE", NoIface)>>) /\ Idle /\ UNCHANGED <<link, driver>>
    BY DEF CfgChanges
  <1>2. PICK e : e = Evt("CFG_CHANGE", NoIface)
    OBVIOUS
  <1>3. e.event = "CFG_CHANGE" /\ e.iface = NoIface /\ ~e.self
    BY <1>2 DEF Evt
  <1>4. e \in Posted
    BY <1>2 DEF Posted, Events, EventNames, Evt
  <1>5. EventFits(e) /\ \A j : ~Tells(e, j)
    BY <1>3 DEF EventFits, Tells, ApEvents
  <1>6. PICK es \in Seq(Posted) : es = <<e>> /\ NoneSelf(es)
    <2>1. <<e>> \in Seq(Posted) /\ NoneSelf(<<e>>)
      BY <1>3, <1>4 DEF NoneSelf
    <2> QED
      BY <2>1
  <1>7. AllFit(es) /\ \A j : ~Told(es, j)
    BY <1>5, <1>6, ToldOne
  <1>8. PICK ds \in Seq(Posted) : ds = <<>> /\ NoneSelf(ds) /\ driver' = driver \o ds
    <2>1. driver \in Seq(Posted) /\ <<>> \in Seq(Posted)
      BY DEF IfacesInv, QueueOK, FromOutside
    <2>2. driver \o <<>> = driver /\ NoneSelf(<<>>)
      BY <2>1 DEF NoneSelf
    <2> QED
      BY <1>1, <2>1, <2>2
  <1>9. AllFit(ds) /\ (\A j : ~Told(ds, j)) /\ \A j, s : LastRight(ds, j, s)
    BY <1>8, ToldNothing
  <1>10. link \in [Ifaces -> {"down", "up", "running"}] /\ \A j \in Wlans : link[j] # "up"
    BY DEF LinkInv, LinksOK
  <1>11. PostEvt(es) /\ i \in Ifaces
    BY <1>1, <1>2, <1>6 DEF Ifaces
  <1> QED
    BY <1>1, <1>6, <1>7, <1>8, <1>9, <1>10, <1>11, PostsFollow

\* The reader of the driver posts: what was coming still is.
LEMMA DriverPostsFollows ==
    ASSUME IfacesInv, LinkInv, DriverPosts
    PROVE  LinkInv'
  <1>1. driver # <<>> /\ PostEvt(<<Head(driver)>>) /\ driver' = Tail(driver) /\ Idle /\ UNCHANGED link
    BY DEF DriverPosts
  <1>2. mQ \in Seq(Posted) /\ driver \in Seq(Posted)
    BY DEF IfacesInv, QueueOK, FromOutside
  <1>3. PICK h : h = Head(driver)
    OBVIOUS
  <1>4. /\ h \in Posted /\ driver' \in Seq(Posted) /\ ~h.self
        /\ \A n \in 1 .. Len(driver') : ~driver'[n].self
    <2>1. /\ driver' \in Seq(Posted) /\ h \in Posted /\ h = driver[1] /\ 1 \in 1 .. Len(driver)
          /\ \A n \in 1 .. Len(driver') : n + 1 \in 1 .. Len(driver) /\ driver'[n] = driver[n + 1]
      BY <1>1, <1>2, <1>3, HeadTailProperties
    <2> QED
      BY <2>1 DEF LinkInv, EventsFit
  <1>5. /\ AllFit(driver) => EventFits(h) /\ AllFit(driver')
        /\ \A j : Told(driver, j) <=> Tells(h, j) \/ Told(driver', j)
        /\ \A j, s : LastRight(driver, j, s) =>
              /\ LastRight(driver', j, s)
              /\ Tells(h, j) /\ ~Told(driver', j) => Right(h, s)
    BY <1>1, <1>2, <1>3, ToldHead
  <1>6. PICK es \in Seq(Posted) : es = <<h>>
    <2>1. <<h>> \in Seq(Posted)
      BY <1>4
    <2> QED
      BY <2>1
  <1>7. /\ AllFit(es) <=> EventFits(h)
        /\ \A x : Holds(es, x) <=> x = h
        /\ \A j : Told(es, j) <=> Tells(h, j)
        /\ \A j, s : LastRight(es, j, s) <=> (Tells(h, j) => Right(h, s))
    BY <1>6, ToldOne
  <1>8. mQ' = mQ \o es
    BY <1>1, <1>3, <1>6 DEF PostEvt
  <1>9. /\ AllFit(mQ) /\ AllFit(es) => AllFit(mQ')
        /\ \A e : Holds(mQ', e) <=> Holds(mQ, e) \/ Holds(es, e)
        /\ \A j : Told(mQ', j) <=> Told(mQ, j) \/ Told(es, j)
        /\ \A j, s : Told(es, j) /\ LastRight(es, j, s) => LastRight(mQ', j, s)
        /\ \A j, s : ~Told(es, j) /\ LastRight(mQ, j, s) => LastRight(mQ', j, s)
    BY <1>2, <1>8, ToldLater
  <1>10. EventsFit'
    <2>1. UNCHANGED cur
      BY <1>1 DEF Idle
    <2> QED
      BY <1>4, <1>5, <1>7, <1>9, <2>1 DEF LinkInv, EventsFit
  <1>11. LinksOK'
    BY <1>1 DEF Idle, objVars, LinkInv, LinksOK, LansSwitch, Alive
  <1>12. ASSUME NEW j \in Ifaces PROVE Follows(j)'
    <2>1. LastRight(driver, j, link[j]) /\ (~Told(driver, j) => LastRight(mQ, j, link[j]))
      BY DEF LinkInv, Follows, HeardLast
    <2>2. LastRight(driver', j, link'[j])
      BY <1>1, <1>5, <2>1
    <2>3. ~Told(driver', j) => LastRight(mQ', j, link'[j])
      BY <1>1, <1>5, <1>7, <1>9, <2>1
    <2>4. HeardLast(j)'
      BY <2>2, <2>3 DEF HeardLast, Told, LastRight
    <2>5. Owed(j)' <=> Owed(j)
      <3>1. PICK e : e = SelfEvt("USB_LINK_UP", j)
        OBVIOUS
      <3>2. e.self
        BY <3>1 DEF SelfEvt
      <3>3. ~Holds(es, e)
        BY <1>4, <1>7, <3>2
      <3> QED
        BY <1>9, <3>1, <3>3 DEF Owed, Holds
    <2>6. Coming(j)' <=> Coming(j)
      BY <1>5, <1>7, <1>9 DEF Coming, Told
    <2> QED
      BY <1>1, <2>4, <2>5, <2>6, HeardFollows
  <1> QED
    BY <1>10, <1>11, <1>12 DEF LinkInv

\* The wait, and a step that changes nothing.
LEMMA QuietFollows ==
    ASSUME LinkInv, WaitForMessage \/ WakeUp \/ UNCHANGED vars
    PROVE  LinkInv'
  <1>1. UNCHANGED <<mQ, cur, object, if_cat, link, driver, raced>>
    BY DEF WaitForMessage, WakeUp, vars, queueVars, objVars, envVars
  <1>2. EventsFit' /\ LinksOK'
    BY <1>1 DEF LinkInv, EventsFit, AllFit, LinksOK, LansSwitch, Alive
  <1>3. ASSUME NEW i \in Ifaces PROVE Follows(i)'
    <2>1. /\ Active(i)' <=> Active(i)
          /\ Switches(i)' <=> Switches(i)
          /\ Ends(i)' <=> Ends(i)
      BY <1>1, SameInstances
    <2>2. (Owed(i)' <=> Owed(i)) /\ (Coming(i)' <=> Coming(i)) /\ (HeardLast(i)' <=> HeardLast(i))
      BY <1>1 DEF Owed, Holds, Coming, Told, HeardLast, LastRight
    <2>3. HeardLast(i) /\ DownHeard(i) /\ UpFollows(i)
      BY DEF LinkInv, Follows
    <2>4. DownHeard(i)' /\ UpFollows(i)'
      BY <1>1, <2>1, <2>2, <2>3 DEF DownHeard, UpFollows, Up
    <2> QED
      BY <2>2, <2>3, <2>4 DEF Follows
  <1> QED
    BY <1>2, <1>3 DEF LinkInv

\* No link is up and nothing has been said.
LEMMA InitLinks == Init => LinkInv
  <1> SUFFICES ASSUME Init PROVE LinkInv
    OBVIOUS
  <1>1. /\ mQ = <<>> /\ driver = <<>> /\ cur = NoEvt /\ raced = {}
        /\ link = [i \in Ifaces |-> "down"]
        /\ if_cat = [i \in Ifaces |-> IF i \in Wlans THEN "UNKNOWN" ELSE file[i]]
        /\ \A o \in Objs : ~Alive(o)
    BY DEF Init, Alive
  <1>2. EventsFit
    <2>1. cur.event = "none" /\ ~cur.self
      BY <1>1 DEF NoEvt, Evt
    <2>2. EventFits(cur)
      BY <2>1 DEF EventFits, ApEvents
    <2>3. AllFit(mQ) /\ AllFit(driver) /\ \A n \in 1 .. Len(driver) : ~driver[n].self
      BY <1>1 DEF AllFit
    <2> QED
      BY <2>2, <2>3 DEF EventsFit
  <1>3. LinksOK
    BY <1>1 DEF LinksOK, LansSwitch, Ifaces
  <1>4. ASSUME NEW i \in Ifaces PROVE Follows(i)
    <2>1. HeardLast(i)
      BY <1>1, ToldNothing DEF HeardLast
    <2>2. ~Tells(cur, i)
      BY <1>1 DEF NoEvt, Evt, Tells, ApEvents
    <2>3. ~Active(i) /\ ~Switches(i) /\ ~Ends(i) /\ ~Owed(i)
      <3>1. ~Owed(i)
        BY <1>1, ToldNothing DEF Owed
      <3> QED
        BY <1>1, <3>1 DEF Active, Instances, Switches, Ends
    <2>4. link[i] # "running" /\ (i \in Wlans => if_cat[i] # "WLAN")
      BY <1>1
    <2> QED
      BY <2>1, <2>2, <2>3, <2>4 DEF Follows, DownHeard, UpFollows, Up
  <1> QED
    BY <1>2, <1>3, <1>4 DEF LinkInv

\* One lemma for each callback and each thread.
LEMMA NextLinks == IfacesInv /\ LinkInv /\ [Next]_vars => LinkInv'
  <1> SUFFICES ASSUME IfacesInv, LinkInv, [Next]_vars PROVE LinkInv'
    OBVIOUS
  <1>1. CASE WaitForMessage \/ WakeUp \/ UNCHANGED vars
    BY <1>1, QuietFollows
  <1>2. ASSUME NEW e, ManagerUp(e) PROVE LinkInv'
    BY <1>2, ManagerUpFollows
  <1>3. ASSUME NEW e, ManagerCfgChange(e) PROVE LinkInv'
    BY <1>3, ManagerCfgChangeFollows
  <1>4. ASSUME NEW e, ManagerSkips(e) PROVE LinkInv'
    BY <1>4, ManagerSkipsFollows
  <1>5. ASSUME NEW o \in Objs, LanDown(o) PROVE LinkInv'
    BY <1>5, LanDownFollows
  <1>6. ASSUME NEW o \in Objs, LanCfgChange(o) PROVE LinkInv'
    BY <1>6, LanCfgChangeFollows
  <1>7. ASSUME NEW o \in Objs, DeleteSelf(o) PROVE LinkInv'
    BY <1>7, DeleteSelfFollows
  <1>8. ASSUME NEW o \in Objs, WanDown(o) \/ WanCfgChange(o) PROVE LinkInv'
    BY <1>8, WanFollows
  <1>9. ASSUME NEW o \in Objs, ListenerSkips(o) PROVE LinkInv'
    BY <1>9, ListenerSkipsFollows
  <1>10. ASSUME NEW i \in Ifaces, NEW state \in {"down", "up", "running"}, LinkChanges(i, state)
         PROVE  LinkInv'
    BY <1>10, LinkChangesFollows
  <1>11. ASSUME NEW i \in Ifaces, LinkRepeated(i) PROVE LinkInv'
    BY <1>11, LinkRepeatedFollows
  <1>12. CASE DriverPosts
    BY <1>12, DriverPostsFollows
  <1>13. ASSUME NEW i \in Usbs, CfgChanges(i) PROVE LinkInv'
    BY <1>13, CfgChangesFollows
  <1> QED
    BY <1>1, <1>2, <1>3, <1>4, <1>5, <1>6, <1>7, <1>8, <1>9, <1>10, <1>11, <1>12, <1>13
    DEF Next, Process

\* When all was heard, an interface that lost no event has an active instance exactly
\* when its link is up.
LEMMA LinksSettle ==
    ASSUME IfacesInv, LinkInv
    PROVE  LinkFollowed
  <1> SUFFICES ASSUME Settled, NEW i \in Ifaces, i \notin raced
               PROVE  Active(i) <=> link[i] = "running"
    BY DEF LinkFollowed
  <1>1. mQ = <<>> /\ driver = <<>> /\ cur = NoEvt
    BY DEF Settled, IfacesInv, WalkOK
  <1>2. ~Coming(i) /\ ~Owed(i) /\ ~Asked(mQ, i)
    <2>1. ~Coming(i) /\ ~Owed(i)
      BY <1>1, ToldNothing DEF Coming, Owed
    <2> QED
      BY <1>1, <2>1 DEF Asked
  <1>3. ~Tells(cur, i) /\ cur # Request(i)
    BY <1>1 DEF NoEvt, Evt, Tells, Request, SelfEvt, ApEvents
  <1>4. ~Waits(i)
    BY <1>2, <1>3 DEF IfacesInv, RequestsOK
  <1>5. \A o \in Objs : Alive(o) => object[o] \in Obj
    BY DEF IfacesInv, ObjectsOK, Alive
  <1>6. Switches(i) => Active(i)
    BY <1>4, <1>5 DEF Switches, Active, Instances, Waits
  <1>7. UpFollows(i)
    BY DEF LinkInv, Follows
  <1> QED
    BY <1>2, <1>3, <1>6, <1>7 DEF UpFollows, Up

-----------------------------------------------------------------------------
(* The categories: a change of the file is asked for in the queue, or the  *)
(* table has it, and the objects that are not of the category of the table *)
(* are those the walk of the change has still to call.                     *)

CfgAsked == \E n \in 1 .. Len(mQ) : mQ[n].event = "CFG_CHANGE"

FileOK == CfgAsked \/ \A i \in Usbs : if_cat[i] = file[i]

OfCategory(o) ==
    object[o].kind \in {"LAN", "ECM_WAN"} /\ object[o].is_active =>
        CatOf(object[o].kind) = if_cat[object[o].iface]

\* In the list, an object is another one or comes before it.
Before(l, o, p) == \E k, n \in 1 .. Len(l) : l[k] = o /\ l[n] = p /\ k <= n

KindOK ==
    \A o \in Objs : Alive(o) =>
        OfCategory(o) \/ (cur.event = "CFG_CHANGE" /\ Before(listeners, tmp, o))

CatInv == FileOK /\ KindOK

\* The walk goes on to the first of those that listen.
LEMMA WalksToFirst ==
    ASSUME listeners \in Seq(Objs), NEW e, NEW from \in Nat, from > 0, WalkOn(e, from),
           NEW n \in from .. Len(listeners), Hears(e, listeners[n])
    PROVE  cur' = e /\ \E k \in from .. n : tmp' = listeners[k]
  <1>1. PICK K : K = Listening(e, from)
    OBVIOUS
  <1>2. n \in K /\ K \in SUBSET (from .. Len(listeners))
    BY <1>1 DEF Listening, Hears
  <1>3. K \in SUBSET Nat /\ K # {}
    BY <1>2
  <1>4. Min(K) \in K /\ Min(K) <= n
    BY <1>2, <1>3, MinOf
  <1>5. tmp' = listeners[Min(K)] /\ cur' = e
    BY <1>1, <1>3 DEF WalkOn
  <1>6. PICK k : k = Min(K)
    OBVIOUS
  <1>7. k \in K /\ k <= n /\ tmp' = listeners[k]
    BY <1>4, <1>5, <1>6
  <1>8. k \in from .. Len(listeners)
    BY <1>2, <1>7
  <1>9. k \in from .. n
    BY <1>7, <1>8
  <1> QED
    BY <1>5, <1>7, <1>9

\* An object that is taken out of the list leaves the others in their order.
LEMMA RemoveKeepsOrder ==
    ASSUME NEW S, NEW l \in Seq(S), NEW p \in 1 .. Len(l),
           NEW k \in 1 .. Len(l), NEW n \in 1 .. Len(l), k <= n, k # p, n # p
    PROVE  Before(RemoveAt(l, p), l[k], l[n])
  <1>1. PICK w : w = RemoveAt(l, p)
    OBVIOUS
  <1>2. /\ Len(l) \in Nat /\ Len(w) = Len(l) - 1
        /\ \A m \in 1 .. Len(w) : w[m] = IF m < p THEN l[m] ELSE l[m + 1]
    <2>1. /\ Len(w) = Len(l) - 1
          /\ \A m \in 1 .. Len(w) : w[m] = IF m < p THEN l[m] ELSE l[m + 1]
      BY <1>1, RemovedAt
    <2> QED
      BY <2>1
  <1>3. ASSUME NEW m \in 1 .. Len(l), m # p
        PROVE  \E j \in 1 .. Len(w) : j = (IF m < p THEN m ELSE m - 1) /\ w[j] = l[m]
    <2>1. CASE m < p
      <3>1. m \in 1 .. Len(w) /\ w[m] = l[m]
        BY <1>2, <2>1
      <3> QED
        BY <2>1, <3>1
    <2>2. CASE m > p
      <3>1. PICK j \in 1 .. Len(w) : j = m - 1
        BY <1>2, <2>2
      <3>2. ~(j < p) /\ j + 1 = m
        BY <2>2, <3>1
      <3>3. w[j] = l[m]
        BY <1>2, <3>2
      <3> QED
        BY <2>2, <3>1, <3>3
    <2> QED
      BY <1>3, <2>1, <2>2
  <1>4. PICK a \in 1 .. Len(w) : a = (IF k < p THEN k ELSE k - 1) /\ w[a] = l[k]
    BY <1>3
  <1>5. PICK b \in 1 .. Len(w) : b = (IF n < p THEN n ELSE n - 1) /\ w[b] = l[n]
    BY <1>3
  <1>6. a <= b
    BY <1>4, <1>5
  <1> QED
    BY <1>1, <1>4, <1>5, <1>6 DEF Before

\* An object that stays as it is, with the category of its interface.
LEMMA StaysOfCategory ==
    ASSUME ObjectsOK, NEW p \in Objs, Alive(p), object'[p] = object[p],
           \A i \in Usbs : if_cat'[i] = if_cat[i]
    PROVE  OfCategory(p)' <=> OfCategory(p)
  <1>1. CASE object[p].kind \in {"LAN", "ECM_WAN"}
    <2>1. object[p] \in Obj /\ object[p].iface \notin Wlans
      BY <1>1 DEF ObjectsOK, Alive
    <2>2. object[p].iface \in Usbs
      BY <2>1 DEF Obj, Ifaces
    <2> QED
      BY <2>2 DEF OfCategory
  <1>2. CASE object[p].kind \notin {"LAN", "ECM_WAN"}
    BY <1>2 DEF OfCategory
  <1> QED
    BY <1>1, <1>2

\* Objects of the kinds that have a category listen to a change of the file.
LEMMA KindsHear ==
    ASSUME NEW e, e.event = "CFG_CHANGE", e.iface = NoIface, NEW o, object[o].kind \in {"LAN", "ECM_WAN"}
    PROVE  Hears(e, o)
  BY DEF Hears, RegisteredFor

\* The file and the table, when events are posted and when one is taken.
LEMMA FileStays ==
    ASSUME FileOK, mQ \in Seq(Posted), NEW es \in Seq(Posted), mQ' = mQ \o es,
           UNCHANGED file, \A i \in Usbs : if_cat'[i] = if_cat[i]
    PROVE  FileOK'
  <1>1. /\ Len(mQ') = Len(mQ) + Len(es) /\ Len(mQ) \in Nat /\ Len(es) \in Nat
        /\ \A n \in 1 .. Len(mQ) : mQ'[n] = mQ[n]
    BY ConcatProperties
  <1>2. CfgAsked => CfgAsked'
    BY <1>1 DEF CfgAsked
  <1> QED
    BY <1>2 DEF FileOK

LEMMA FileTaken ==
    ASSUME FileOK, mQ \in Seq(Posted), NEW e, Dequeue(e), e.event # "CFG_CHANGE",
           \A i \in Usbs : if_cat'[i] = if_cat[i]
    PROVE  FileOK'
  <1>1. mQ # <<>> /\ e = Head(mQ) /\ mQ' = Tail(mQ) /\ UNCHANGED file
    BY DEF Dequeue, envVars
  <1>2. /\ Len(mQ') = Len(mQ) - 1 /\ Len(mQ) \in Nat /\ Len(mQ) > 0 /\ e = mQ[1]
        /\ \A n \in 1 .. Len(mQ') : mQ'[n] = mQ[n + 1]
    BY <1>1, HeadTailProperties
  <1>3. ASSUME NEW n \in 1 .. Len(mQ), mQ[n].event = "CFG_CHANGE" PROVE CfgAsked'
    <2>1. n # 1
      BY <1>2, <1>3
    <2>2. PICK m \in 1 .. Len(mQ') : m + 1 = n
      <3>1. n - 1 \in 1 .. Len(mQ') /\ (n - 1) + 1 = n
        BY <1>2, <2>1
      <3> QED
        BY <3>1
    <2> QED
      BY <1>2, <1>3, <2>2 DEF CfgAsked
  <1>4. CfgAsked => CfgAsked'
    BY <1>3 DEF CfgAsked
  <1> QED
    BY <1>1, <1>4 DEF FileOK

\* The walk goes on: what it has passed is of its category, or is deleted.
LEMMA CallbackKinds ==
    ASSUME IfacesInv, LinkInv, KindOK, NEW o \in Objs, Called(o), Advance,
           \A p \in Objs : p # o => object'[p] = object[p],
           \A i \in Usbs : if_cat'[i] = if_cat[i],
           \/ UNCHANGED listeners /\ OfCategory(o)'
           \/ EvtDeregistr(o) /\ ~Alive(o)'
    PROVE  KindOK'
  <1>1. /\ tmp = o /\ Alive(o) /\ listeners \in Seq(Objs) /\ Len(listeners) \in Nat
        /\ \A k, n \in 1 .. Len(listeners) : listeners[k] = listeners[n] => k = n
        /\ \A p \in Objs : Alive(p) <=> \E k \in 1 .. Len(listeners) : listeners[k] = p
    BY CalledOne DEF IfacesInv, ListsOK
  <1>2. PICK k \in 1 .. Len(listeners) : k = Position(o) /\ listeners[k] = o
    <2>1. \E k \in DOMAIN listeners : listeners[k] = o
      BY <1>1
    <2>2. Position(o) \in DOMAIN listeners /\ listeners[Position(o)] = o
      BY <2>1 DEF Position
    <2> QED
      BY <1>1, <2>2
  <1>3. WalkOn(cur, k + 1) /\ k + 1 \in Nat /\ k + 1 > 0
    BY <1>1, <1>2 DEF Advance
  <1>4. ASSUME NEW p \in Objs, Alive(p)', p # o
        PROVE  OfCategory(p)' \/ (cur'.event = "CFG_CHANGE" /\ Before(listeners', tmp', p))
    <2>1. object'[p] = object[p] /\ Alive(p)
      BY <1>4 DEF Alive
    <2>2. OfCategory(p)' <=> OfCategory(p)
      BY <2>1, StaysOfCategory DEF IfacesInv
    <2>3. CASE OfCategory(p)
      BY <2>2, <2>3
    <2>4. CASE ~OfCategory(p)
      <3>1. cur.event = "CFG_CHANGE" /\ Before(listeners, o, p) /\ object[p].kind \in {"LAN", "ECM_WAN"}
        BY <1>1, <2>1, <2>4 DEF KindOK, OfCategory
      <3>2. PICK a, n \in 1 .. Len(listeners) : listeners[a] = o /\ listeners[n] = p /\ a <= n
        BY <3>1 DEF Before
      <3>3. a = k /\ n # k
        BY <1>1, <1>2, <1>4, <3>2
      <3>4. n \in k + 1 .. Len(listeners)
        BY <1>1, <3>2, <3>3
      <3>5. Hears(cur, listeners[n])
        <4>1. cur.iface = NoIface
          BY <3>1 DEF LinkInv, EventsFit, EventFits
        <4> QED
          BY <3>1, <3>2, <4>1, KindsHear
      <3>6. cur' = cur /\ \E m \in k + 1 .. n : tmp' = listeners[m]
        BY <1>1, <1>3, <3>4, <3>5, WalksToFirst
      <3>7. PICK m \in k + 1 .. n : tmp' = listeners[m]
        BY <3>6
      <3>8. m \in 1 .. Len(listeners) /\ m <= n /\ m # k
        BY <1>1, <3>4, <3>7
      <3>9. CASE UNCHANGED listeners
        BY <3>1, <3>2, <3>6, <3>7, <3>8, <3>9 DEF Before
      <3>10. CASE EvtDeregistr(o)
        <4>1. listeners' = RemoveAt(listeners, k)
          BY <1>2, <3>10 DEF EvtDeregistr
        <4>2. Before(RemoveAt(listeners, k), listeners[m], listeners[n])
          BY <1>1, <3>3, <3>8, RemoveKeepsOrder
        <4> QED
          BY <3>1, <3>2, <3>6, <3>7, <4>1, <4>2
      <3> QED
        BY <3>9, <3>10
    <2> QED
      BY <2>3, <2>4
  <1> QED
    BY <1>4 DEF KindOK, Before, OfCategory

\* The callbacks of the objects.
LEMMA CallbackCats ==
    ASSUME IfacesInv, LinkInv, CatInv, NEW o \in Objs,
           \/ LanDown(o) \/ LanCfgChange(o) \/ DeleteSelf(o)
           \/ WanDown(o) \/ WanCfgChange(o) \/ ListenerSkips(o)
    PROVE  CatInv'
  <1>1. Called(o) /\ Advance /\ UNCHANGED file
    BY DEF LanDown, LanCfgChange, DeleteSelf, WanDown, WanCfgChange, ListenerSkips, AdvanceFreed, envVars
  <1>2. /\ object[o] \in Obj /\ mQ \in Seq(Posted) /\ FileOK /\ KindOK
        /\ object \in [Objs -> {Free} \cup Obj] /\ if_cat \in [Ifaces -> {"UNKNOWN", "WLAN", "LAN", "WAN"}]
    BY <1>1, CalledOne DEF IfacesInv, QueueOK, CatInv, ObjectsOK, CatsOK
  <1>3. \A i \in Usbs : if_cat'[i] = if_cat[i]
    <2>1. CASE LanDown(o)
      <3>1. if_cat' = IF object[o].kind = "WLAN" THEN [if_cat EXCEPT ![cur.iface] = "UNKNOWN"] ELSE if_cat
        BY <2>1 DEF LanDown
      <3>2. object[o].kind = "WLAN" => cur.iface \in Wlans
        <4>1. cur.event \in Downs
          BY <2>1 DEF LanDown, Downs
        <4>2. cur.iface = object[o].iface
          BY <1>1, <4>1, CalledTells DEF Tells
        <4> QED
          BY <1>1, <4>2, CalledOne DEF IfacesInv, ObjectsOK
      <3>3. \A i \in Usbs : i \notin Wlans /\ i \in Ifaces
        BY IfacesAssumption DEF Ifaces
      <3> QED
        BY <1>2, <3>1, <3>2, <3>3
    <2>2. CASE ~LanDown(o)
      BY <2>2 DEF LanCfgChange, DeleteSelf, WanDown, WanCfgChange, ListenerSkips
    <2> QED
      BY <2>1, <2>2
  <1>4. PICK es \in Seq(Posted) : mQ' = mQ \o es
    <2>1. /\ SelfEvt("LAN_DELETE_SELF", object[o].iface) \in Posted
          /\ SelfEvt("USB_LINK_UP", object[o].iface) \in Posted
      <3>1. object[o].iface \in Ifaces
        BY <1>1, CalledOne
      <3> QED
        BY <3>1, SelfEvents DEF Request
    <2>2. mQ \o <<>> = mQ /\ <<>> \in Seq(Posted)
      BY <1>2
    <2>3. /\ <<SelfEvt("LAN_DELETE_SELF", object[o].iface)>> \in Seq(Posted)
          /\ <<SelfEvt("USB_LINK_UP", object[o].iface)>> \in Seq(Posted)
      BY <2>1
    <2>4. CASE LanDown(o) \/ LanCfgChange(o)
      BY <2>3, <2>4 DEF LanDown, LanCfgChange, handle_down_evt, PostEvt
    <2>5. CASE DeleteSelf(o)
      <3>1. cur.iface = object[o].iface
        <4>1. cur.event = "LAN_DELETE_SELF" /\ cur \in Posted /\ cur.iface \in {object[o].iface, NoIface}
          BY <1>1, <2>5, CalledOne DEF DeleteSelf
        <4> QED
          BY <4>1, IfacesAssumption DEF Posted
      <3> QED
        BY <2>2, <2>3, <2>5, <3>1 DEF DeleteSelf, PostEvt
    <2>6. CASE WanDown(o) \/ ListenerSkips(o)
      BY <2>2, <2>6 DEF WanDown, ListenerSkips, NothingPosted
    <2>7. CASE WanCfgChange(o)
      BY <2>3, <2>7 DEF WanCfgChange, PostEvt
    <2> QED
      BY <2>4, <2>5, <2>6, <2>7
  <1>5. FileOK'
    BY <1>1, <1>2, <1>3, <1>4, FileStays
  <1>6. KindOK'
    <2>1. CASE LanDown(o) \/ LanCfgChange(o)
      <3>1. PICK switch \in BOOLEAN :
               /\ object' = [object EXCEPT ![o].is_active = FALSE, ![o].is_mode_switch = switch]
               /\ UNCHANGED listeners
        BY <2>1 DEF LanDown, LanCfgChange, handle_down_evt
      <3>2. ~object'[o].is_active /\ \A p \in Objs : p # o => object'[p] = object[p]
        BY <1>2, <3>1 DEF Obj
      <3>3. OfCategory(o)'
        BY <3>2 DEF OfCategory
      <3> QED
        BY <1>1, <1>2, <1>3, <3>1, <3>2, <3>3, CallbackKinds
    <2>2. CASE DeleteSelf(o) \/ WanDown(o) \/ WanCfgChange(o)
      <3>1. object' = [object EXCEPT ![o] = Free] /\ EvtDeregistr(o)
        BY <2>2 DEF DeleteSelf, WanDown, WanCfgChange, delete
      <3>2. ~Alive(o)' /\ \A p \in Objs : p # o => object'[p] = object[p]
        BY <1>2, <3>1 DEF Alive
      <3> QED
        BY <1>1, <1>2, <1>3, <3>1, <3>2, CallbackKinds
    <2>3. CASE ListenerSkips(o)
      <3>1. UNCHANGED <<object, listeners, if_cat>> /\ NotForIt(o)
        BY <2>3 DEF ListenerSkips, objVars
      <3>2. OfCategory(o)
        BY <1>2, <3>1 DEF OfCategory, NotForIt, IsLan, CatOf, Obj, Kinds, KindOK, Called
      <3>3. OfCategory(o)'
        BY <3>1, <3>2 DEF OfCategory
      <3> QED
        BY <1>1, <1>2, <1>3, <3>1, <3>3, CallbackKinds
    <2> QED
      BY <2>1, <2>2, <2>3
  <1> QED
    BY <1>5, <1>6 DEF CatInv

\* The link-up events: a new object is of the category the table has.
LEMMA ManagerUpCats ==
    ASSUME IfacesInv, LinkInv, CatInv, NEW e, ManagerUp(e)
    PROVE  CatInv'
  <1>1. /\ Dequeue(e) /\ e \in Posted /\ EventFits(e) /\ cur = NoEvt
        /\ e.event \in {"LINK_UP", "USB_LINK_UP", "WLAN_AP_LINK_UP"}
    BY TakenHeard DEF ManagerUp
  <1>2. PICK i \in Ifaces : i = e.iface
    BY <1>1 DEF Posted
  <1>3. PICK kind \in Kinds \cup {"none"} :
              /\ create_iface_instance(i, kind)
              /\ \A j \in Ifaces : j # i => if_cat'[j] = if_cat[j]
              /\ i \in Usbs => /\ kind \in {"LAN", "ECM_WAN"} => CatOf(kind) = if_cat[i]
                               /\ if_cat'[i] = if_cat[i]
    BY <1>1, <1>2, UpCreates
  <1>4. \A j \in Usbs : if_cat'[j] = if_cat[j]
    BY <1>3 DEF Ifaces
  <1>5. FileOK'
    BY <1>1, <1>4, FileTaken DEF CatInv, IfacesInv, QueueOK
  <1>6. /\ HasInstance(i) \/ kind = "none" => UNCHANGED object
        /\ ~HasInstance(i) /\ kind # "none" =>
              \E o \in Objs : /\ object'[o].kind = kind /\ object'[o].iface = i
                              /\ \A p \in Objs : p # o => object'[p] = object[p]
    BY <1>3, InstanceCreated DEF IfacesInv, ObjectInv
  <1>7. ObjectsOK' /\ ObjectsOK
    BY ManagerUpKeeps DEF IfacesInv
  <1>8. ASSUME NEW p \in Objs, Alive(p)', object'[p] = object[p] PROVE OfCategory(p)'
    <2>1. Alive(p)
      BY <1>8 DEF Alive
    <2>2. OfCategory(p)
      BY <1>1, <2>1 DEF CatInv, KindOK, NoEvt, Evt
    <2> QED
      BY <1>4, <1>7, <1>8, <2>1, <2>2, StaysOfCategory
  <1>9. ASSUME NEW o \in Objs, Alive(o)', object'[o].kind = kind, object'[o].iface = i
        PROVE  OfCategory(o)'
    <2>1. kind \in {"LAN", "ECM_WAN"} => i \in Usbs
      BY <1>7, <1>9 DEF ObjectsOK, Ifaces
    <2> QED
      BY <1>3, <1>9, <2>1 DEF OfCategory
  <1>10. \A p \in Objs : Alive(p)' => OfCategory(p)'
    BY <1>6, <1>8, <1>9
  <1>11. KindOK'
    BY <1>10 DEF KindOK, OfCategory, Alive
  <1> QED
    BY <1>5, <1>11 DEF CatInv

\* IPA_CFG_CHANGE_EVENT: the table has what the file has, and the walk starts before all
\* that have a category.
LEMMA ManagerCfgChangeCats ==
    ASSUME IfacesInv, LinkInv, CatInv, NEW e, ManagerCfgChange(e)
    PROVE  CatInv'
  <1>1. /\ Dequeue(e) /\ e.event = "CFG_CHANGE" /\ UNCHANGED <<object, listeners>>
        /\ if_cat' = [i \in Ifaces |-> IF i \in Wlans THEN "UNKNOWN" ELSE file[i]]
        /\ WalkOn(e, 1) /\ UNCHANGED file
    BY DEF ManagerCfgChange, objVars, Dequeue, envVars
  <1>2. e.iface = NoIface
    BY <1>1, TakenHeard DEF EventFits
  <1>3. FileOK'
    BY <1>1, IfacesAssumption DEF FileOK, Ifaces
  <1>4. ASSUME NEW o \in Objs, Alive(o)'
        PROVE  OfCategory(o)' \/ (cur'.event = "CFG_CHANGE" /\ Before(listeners', tmp', o))
    <2>1. CASE object[o].kind \notin {"LAN", "ECM_WAN"}
      BY <1>1, <2>1 DEF OfCategory
    <2>2. CASE object[o].kind \in {"LAN", "ECM_WAN"}
      <3>1. Hears(e, o)
        BY <1>1, <1>2, <2>2, KindsHear
      <3>2. listeners \in Seq(Objs) /\ Len(listeners) \in Nat
        BY DEF IfacesInv, ListsOK
      <3>3. PICK n \in 1 .. Len(listeners) : listeners[n] = o
        BY <1>1, <1>4 DEF IfacesInv, ListsOK, Alive
      <3>4. cur' = e /\ \E k \in 1 .. n : tmp' = listeners[k]
        BY <1>1, <3>1, <3>2, <3>3, WalksToFirst
      <3>5. PICK k \in 1 .. n : tmp' = listeners[k]
        BY <3>4
      <3>6. k \in 1 .. Len(listeners) /\ k <= n
        BY <3>2
      <3> QED
        BY <1>1, <3>3, <3>4, <3>5, <3>6 DEF Before
    <2> QED
      BY <2>1, <2>2
  <1>5. KindOK'
    BY <1>4 DEF KindOK, OfCategory, Alive, Before
  <1> QED
    BY <1>3, <1>5 DEF CatInv

\* Everything else, where the objects and the table stay.
LEMMA StaysCats ==
    ASSUME IfacesInv, CatInv, UNCHANGED <<object, if_cat>>,
           FileOK', cur = NoEvt \/ UNCHANGED <<cur, tmp, listeners>>
    PROVE  CatInv'
  <1>1. ASSUME NEW o \in Objs, Alive(o)'
        PROVE  OfCategory(o)' \/ (cur'.event = "CFG_CHANGE" /\ Before(listeners', tmp', o))
    <2>1. Alive(o) /\ (OfCategory(o)' <=> OfCategory(o))
      BY <1>1 DEF Alive, OfCategory
    <2>2. OfCategory(o) \/ (cur.event = "CFG_CHANGE" /\ Before(listeners, tmp, o))
      BY <2>1 DEF CatInv, KindOK
    <2>3. CASE cur = NoEvt
      BY <2>1, <2>2, <2>3 DEF NoEvt, Evt
    <2>4. CASE UNCHANGED <<cur, tmp, listeners>>
      BY <2>1, <2>2, <2>4
    <2> QED
      BY <2>3, <2>4
  <1>2. KindOK'
    BY <1>1 DEF KindOK, OfCategory, Alive, Before
  <1> QED
    BY <1>2 DEF CatInv

LEMMA ManagerSkipsCats ==
    ASSUME IfacesInv, LinkInv, CatInv, NEW e, ManagerSkips(e)
    PROVE  CatInv'
  <1>1. Dequeue(e) /\ e.event # "CFG_CHANGE" /\ UNCHANGED <<object, if_cat>> /\ cur = NoEvt
    BY TakenHeard DEF ManagerSkips, objVars
  <1>2. FileOK'
    BY <1>1, FileTaken DEF CatInv, IfacesInv, QueueOK
  <1> QED
    BY <1>1, <1>2, StaysCats

\* The threads that post: the watcher of the file asks for what it has seen.
LEMMA OutsideCats ==
    ASSUME IfacesInv, CatInv,
           \/ \E i \in Ifaces : \/ \E state \in {"down", "up", "running"} : LinkChanges(i, state)
                                \/ LinkRepeated(i)
           \/ DriverPosts
           \/ \E i \in Usbs : CfgChanges(i)
    PROVE  CatInv'
  <1>1. UNCHANGED <<object, if_cat, cur, tmp, listeners>> /\ mQ \in Seq(Posted)
    BY DEF LinkChanges, LinkRepeated, DriverPosts, CfgChanges, Idle, objVars, IfacesInv, QueueOK
  <1>2. CASE ~(\E i \in Usbs : CfgChanges(i))
    <2>1. UNCHANGED file
      BY <1>2 DEF LinkChanges, LinkRepeated, DriverPosts
    <2>2. \E es \in Seq(Posted) : mQ' = mQ \o es
      <3>1. ASSUME NEW i \in Ifaces, NEW state \in {"down", "up", "running"}, LinkChanges(i, state)
            PROVE  \E es \in Seq(Posted) : mQ' = mQ \o es
        <4>1. PICK change \in BOOLEAN : change <=> "down" \in {state, link[i]}
          OBVIOUS
        <4>2. ("down" \in {state, link[i]}) = change
          BY <4>1
        <4>3. NewLinkEvents(i, change, state) \in Seq(Posted)
          BY NetlinkEvents
        <4> QED
          BY <3>1, <4>2, <4>3 DEF LinkChanges, PostEvt
      <3>2. ASSUME NEW i \in Ifaces, LinkRepeated(i)
            PROVE  \E es \in Seq(Posted) : mQ' = mQ \o es
        <4>1. NewLinkEvents(i, FALSE, link[i]) \in Seq(Posted)
          BY NetlinkEvents
        <4> QED
          BY <3>2, <4>1 DEF LinkRepeated, PostEvt
      <3>3. ASSUME DriverPosts
            PROVE  \E es \in Seq(Posted) : mQ' = mQ \o es
        <4>1. driver \in Seq(Posted) /\ driver # <<>>
          BY <3>3 DEF IfacesInv, QueueOK, FromOutside, DriverPosts
        <4>2. Head(driver) \in Posted
          BY <4>1, HeadTailProperties
        <4>3. <<Head(driver)>> \in Seq(Posted)
          BY <4>2
        <4> QED
          BY <3>3, <4>3 DEF DriverPosts, PostEvt
      <3> QED
        BY <1>2, <3>1, <3>2, <3>3
    <2>3. FileOK'
      BY <1>1, <2>1, <2>2, FileStays DEF CatInv
    <2> QED
      BY <1>1, <2>3, StaysCats
  <1>3. ASSUME NEW i \in Usbs, CfgChanges(i) PROVE CatInv'
    <2>1. PICK e : e = Evt("CFG_CHANGE", NoIface)
      OBVIOUS
    <2>2. e.event = "CFG_CHANGE" /\ mQ' = mQ \o <<e>>
      BY <1>3, <2>1 DEF CfgChanges, PostEvt, Evt
    <2>3. Len(mQ') = Len(mQ) + 1 /\ Len(mQ) \in Nat /\ mQ'[Len(mQ) + 1] = e
      BY <1>1, <2>2
    <2>4. PICK n \in 1 .. Len(mQ') : n = Len(mQ) + 1
      BY <2>3
    <2>5. CfgAsked'
      BY <2>2, <2>3, <2>4 DEF CfgAsked
    <2>6. FileOK'
      BY <2>5 DEF FileOK, CfgAsked
    <2> QED
      BY <1>1, <2>6, StaysCats
  <1> QED
    BY <1>2, <1>3

\* The wait, and a step that changes nothing.
LEMMA QuietCats ==
    ASSUME IfacesInv, CatInv, WaitForMessage \/ WakeUp \/ UNCHANGED vars
    PROVE  CatInv'
  <1>1. UNCHANGED <<mQ, cur, tmp, listeners, object, if_cat, file>>
    BY DEF WaitForMessage, WakeUp, vars, queueVars, objVars, envVars
  <1>2. FileOK'
    BY <1>1 DEF CatInv, FileOK, CfgAsked
  <1> QED
    BY <1>1, <1>2, StaysCats

\* The table is read from the file at the start, and there are no objects.
LEMMA InitCats == Init => CatInv
  <1> SUFFICES ASSUME Init PROVE CatInv
    OBVIOUS
  <1>1. FileOK
    BY IfacesAssumption DEF Init, FileOK, Ifaces
  <1>2. KindOK
    BY DEF Init, KindOK, Alive
  <1> QED
    BY <1>1, <1>2 DEF CatInv

\* One lemma for each callback and each thread.
LEMMA NextCats == IfacesInv /\ LinkInv /\ CatInv /\ [Next]_vars => CatInv'
  <1> SUFFICES ASSUME IfacesInv, LinkInv, CatInv, [Next]_vars PROVE CatInv'
    OBVIOUS
  <1>1. CASE WaitForMessage \/ WakeUp \/ UNCHANGED vars
    BY <1>1, QuietCats
  <1>2. ASSUME NEW e, ManagerUp(e) PROVE CatInv'
    BY <1>2, ManagerUpCats
  <1>3. ASSUME NEW e, ManagerCfgChange(e) PROVE CatInv'
    BY <1>3, ManagerCfgChangeCats
  <1>4. ASSUME NEW e, ManagerSkips(e) PROVE CatInv'
    BY <1>4, ManagerSkipsCats
  <1>5. ASSUME NEW o \in Objs, \/ LanDown(o) \/ LanCfgChange(o) \/ DeleteSelf(o)
                               \/ WanDown(o) \/ WanCfgChange(o) \/ ListenerSkips(o)
        PROVE  CatInv'
    BY <1>5, CallbackCats
  <1>6. CASE \/ \E i \in Ifaces : \/ \E state \in {"down", "up", "running"} : LinkChanges(i, state)
                                  \/ LinkRepeated(i)
             \/ DriverPosts
             \/ \E i \in Usbs : CfgChanges(i)
    BY <1>6, OutsideCats
  <1> QED
    BY <1>1, <1>2, <1>3, <1>4, <1>5, <1>6 DEF Next, Process

\* When all was heard, the instances are of the categories in the file.
LEMMA CatsSettle ==
    ASSUME IfacesInv, CatInv
    PROVE  CategoryFollowed
  <1> SUFFICES ASSUME Settled, NEW i \in Usbs, NEW o \in Instances(i), object[o].kind # "Q6_WAN"
               PROVE  CatOf(object[o].kind) = file[i]
    BY DEF CategoryFollowed
  <1>1. mQ = <<>> /\ cur = NoEvt /\ i \in Ifaces /\ i \notin Wlans
    BY IfacesAssumption DEF Settled, IfacesInv, WalkOK, Ifaces
  <1>2. o \in Objs /\ Alive(o) /\ object[o].iface = i /\ object[o] \in Obj
    BY DEF Instances, IfacesInv, ObjectsOK, Alive
  <1>3. object[o].kind \in {"LAN", "ECM_WAN"}
    BY <1>1, <1>2 DEF IfacesInv, ObjectsOK, Obj, Kinds
  <1>4. object[o].is_active
    <2>1. ~Asked(mQ, i) /\ cur # Request(i)
      BY <1>1 DEF Asked, NoEvt, Evt, Request, SelfEvt
    <2>2. ~Waits(i)
      BY <1>1, <2>1 DEF IfacesInv, RequestsOK
    <2> QED
      BY <1>2, <2>2 DEF Waits
  <1>5. OfCategory(o)
    BY <1>1, <1>2 DEF CatInv, KindOK, NoEvt, Evt
  <1>6. if_cat[i] = file[i]
    BY <1>1 DEF CatInv, FileOK, CfgAsked
  <1> QED
    BY <1>2, <1>3, <1>4, <1>5, <1>6 DEF OfCategory

-----------------------------------------------------------------------------
(* The theorems about links and categories.                                *)

\* What is said of a link, in the driver, the queue and the event in hand, ends with how
\* the link is, and an interface that lost no event is up as far as it has heard; an
\* object that is not of the category in the table is one the walk has still to call.
THEOREM LinksAndCategories == Spec => [](LinkInv /\ CatInv)
  <1>1. Init => IfacesInv /\ LinkInv /\ CatInv
    BY InitIfaces, InitLinks, InitCats
  <1>2. IfacesInv /\ LinkInv /\ CatInv /\ [Next]_vars => (IfacesInv /\ LinkInv /\ CatInv)'
    BY NextIfaces, NextLinks, NextCats
  <1> QED
    BY <1>1, <1>2, PTL DEF Spec

\* When all events are processed, an interface has an active instance exactly when its
\* link is up, unless its last event was lost to a request or a change of mode, and the
\* instance is of the category in the file (IPACM_IfaceManager.cpp:135, 217,
\* IPACM_Lan.cpp:351, IPACM_Wan.cpp:608).
THEOREM InstancesFollowLinks == Spec => []InstancesFollow
  <1>1. IfacesInv /\ LinkInv /\ CatInv => InstancesFollow
    BY LinksSettle, CatsSettle DEF InstancesFollow
  <1> QED
    BY <1>1, IfacesCorrect, LinksAndCategories, PTL
=============================================================================
