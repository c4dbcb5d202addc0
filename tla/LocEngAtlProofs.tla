--------------------------- MODULE LocEngAtlProofs ---------------------------
(***************************************************************************)
(* The data connections of the engine, for every set of connection handles *)
(* and every bound: types, the emergency data call, the clients with an    *)
(* open connection, and the contract of the framework's two interfaces.    *)
(***************************************************************************)
EXTENDS LocEngAtl, SequenceTheorems, WellFoundedInduction, TLAPS

Subscriber == [id : Handles, inactive : BOOLEAN]

AllActive(l) == \A i \in DOMAIN l : ~l[i].inactive

\* Subscribers of the framework's interfaces never wait for a close to complete.
AgpsListsOK == \A n \in AgpsNifs : mState[n] # "Releasing" /\ AllActive(list[n])

\* The data services library reports that the data call is down.
DsReleased(m) == m.op = "RELEASED" /\ m.nif = "ds"

DsDown == \E i \in 1 .. Len(msgQ) : DsReleased(msgQ[i])

\* One such report at most is queued, and nobody denies a data call.
QueueOK ==
    /\ \A i, j \in 1 .. Len(msgQ) : DsReleased(msgQ[i]) /\ DsReleased(msgQ[j]) => i = j
    /\ \A i \in 1 .. Len(msgQ) : msgQ[i].op = "DENIED" => msgQ[i].nif # "ds"

\* While a data call exists, or the report of its end is queued, the interface is
\* not Released; never both.
DsOK ==
    /\ call # "none" \/ DsDown => mState["ds"] # "Released"
    /\ call # "none" => ~DsDown
    /\ mState["ds"] = "Released" => AllActive(list["ds"])

\* Without the emergency PDN nothing of the third interface is used.
NoPdnNoCall ==
    ~useEmergencyPdn =>
        mState["ds"] = "Released" /\ list["ds"] = <<>> /\ call = "none" /\ timers = 0

\* Until a restart is handled no client asks for anything.
RestartingIsIdle == Restarting => \A h \in Handles : client[h] = "idle"

\* Without that PDN a client with an open connection is on the list of an
\* Acquired interface of the framework.
OpenListed ==
    ~useEmergencyPdn => \A h \in Handles : client[h] = "open" =>
        \E n \in AgpsNifs : mState[n] = "Acquired" /\ h \in Ids(list[n])

AtlInv ==
    /\ TypeOK /\ AgpsListsOK /\ QueueOK /\ DsOK /\ NoPdnNoCall
    /\ RestartingIsIdle /\ OpenListed

-----------------------------------------------------------------------------
(* Subscriber lists: what a list keeps of another.                         *)

\* A set of numbers that has 0, and the next of each, has them all.
LEMMA AllNumbers ==
    ASSUME NEW T, 0 \in T, \A n \in Nat : n \in T => n + 1 \in T
    PROVE  Nat \subseteq T
  <1> SUFFICES ASSUME Nat \ T # {} PROVE FALSE
    OBVIOUS
  <1>1. PICK m \in Nat \ T : \A k \in Nat \ T : ~(<<k, m>> \in OpToRel(<, Nat))
    BY NatLessThanWellFounded, WFMin, Zenon
  <1>2. m # 0 /\ m - 1 \in Nat
    OBVIOUS
  <1>3. m - 1 \in T
    <2>1. <<m - 1, m>> \in OpToRel(<, Nat)
      BY <1>2 DEF OpToRel
    <2> QED
      BY <1>1, <1>2, <2>1
  <1> QED
    BY <1>2, <1>3

\* The function that Kept computes, on the first n positions.
IsKept(f, l, K, n) ==
    f = [i \in 0 .. n |->
            IF i = 0 THEN <<>>
            ELSE IF i \in K THEN Append(f[i - 1], l[i]) ELSE f[i - 1]]

LEMMA KeptExists ==
    ASSUME NEW l, NEW K
    PROVE  \A n \in Nat : \E f : IsKept(f, l, K, n)
  <1> DEFINE T == {n \in Nat : \E f : IsKept(f, l, K, n)}
  <1>1. 0 \in T
    <2> DEFINE f == [i \in 0 .. 0 |-> <<>>]
    <2>1. IsKept(f, l, K, 0)
      BY DEF IsKept
    <2> QED
      BY <2>1
  <1>2. ASSUME NEW n \in Nat, n \in T
        PROVE  n + 1 \in T
    <2>1. PICK f : IsKept(f, l, K, n)
      BY <1>2
    <2> DEFINE last == IF n + 1 \in K THEN Append(f[n], l[n + 1]) ELSE f[n]
               g == [i \in 0 .. n + 1 |-> IF i = n + 1 THEN last ELSE f[i]]
    <2>2. \A i \in 0 .. n : f[i] = IF i = 0 THEN <<>>
              ELSE IF i \in K THEN Append(f[i - 1], l[i]) ELSE f[i - 1]
      BY <2>1 DEF IsKept
    <2>3. /\ \A i \in 0 .. n : g[i] = f[i]
          /\ g[n + 1] = last
      OBVIOUS
    <2> HIDE DEF last
    <2>4. \A i \in 0 .. n + 1 : g[i] = IF i = 0 THEN <<>>
              ELSE IF i \in K THEN Append(g[i - 1], l[i]) ELSE g[i - 1]
      <3> SUFFICES ASSUME NEW i \in 0 .. n + 1
                   PROVE  g[i] = IF i = 0 THEN <<>>
                            ELSE IF i \in K THEN Append(g[i - 1], l[i]) ELSE g[i - 1]
        OBVIOUS
      <3>1. CASE i = n + 1
        BY <2>3, <3>1 DEF last
      <3>2. CASE i # n + 1
        <4>1. i \in 0 .. n /\ (i # 0 => i - 1 \in 0 .. n)
          BY <3>2
        <4> HIDE DEF g
        <4> QED
          BY <2>2, <2>3, <4>1
      <3> QED
        BY <3>1, <3>2
    <2>5. IsKept(g, l, K, n + 1)
      BY <2>4 DEF IsKept
    <2> QED
      BY <2>5
  <1> HIDE DEF T
  <1>3. Nat \subseteq T
    BY <1>1, <1>2, AllNumbers
  <1> QED
    BY <1>3 DEF T

LEMMA KeptIsKept ==
    ASSUME NEW l, NEW K, Len(l) \in Nat
    PROVE  \E f : IsKept(f, l, K, Len(l)) /\ Kept(l, K) = f[Len(l)]
  <1> DEFINE f == CHOOSE f : IsKept(f, l, K, Len(l))
  <1>1. IsKept(f, l, K, Len(l))
    BY KeptExists
  <1>2. Kept(l, K) = f[Len(l)]
    BY DEF Kept, IsKept
  <1> QED
    BY <1>1, <1>2

\* The elements of w are those of l at the positions in K.
Keeps(w, l, K) ==
    /\ \A j \in DOMAIN w : \E i \in DOMAIN l : i \in K /\ l[i] = w[j]
    /\ \A i \in DOMAIN l : i \in K => \E j \in DOMAIN w : w[j] = l[i]

\* What a list keeps is a list of its elements at those positions.
LEMMA KeptElements ==
    ASSUME NEW S, NEW l \in Seq(S), NEW K
    PROVE  Kept(l, K) \in Seq(S) /\ Keeps(Kept(l, K), l, K)
  <1>1. Len(l) \in Nat
    OBVIOUS
  <1> PICK f : IsKept(f, l, K, Len(l)) /\ Kept(l, K) = f[Len(l)]
    BY <1>1, KeptIsKept
  <1>2. \A i \in 0 .. Len(l) : f[i] = IF i = 0 THEN <<>>
            ELSE IF i \in K THEN Append(f[i - 1], l[i]) ELSE f[i - 1]
    BY DEF IsKept
  <1> DEFINE Of(n) == /\ f[n] \in Seq(S)
                      /\ \A x : (\E j \in 1 .. Len(f[n]) : f[n][j] = x)
                                  <=> (\E i \in 1 .. n : i \in K /\ l[i] = x)
             T == {n \in Nat : n <= Len(l) => Of(n)}
  <1>3. 0 \in T
    <2>1. f[0] = <<>> /\ <<>> \in Seq(S) /\ Len(<<>>) = 0
      BY <1>1, <1>2
    <2>2. Of(0)
      BY <2>1
    <2> HIDE DEF Of
    <2> QED
      BY <2>2
  <1>4. ASSUME NEW n \in Nat, n \in T
        PROVE  n + 1 \in T
    <2> SUFFICES ASSUME n + 1 <= Len(l) PROVE Of(n + 1)
      OBVIOUS
    <2>0. Of(n)
      <3> HIDE DEF Of
      <3> QED
        BY <1>1, <1>4
    <2>1. Of(n) /\ n + 1 \in 1 .. Len(l) /\ l[n + 1] \in S
      BY <1>1, <2>0
    <2>2. f[n + 1] = IF n + 1 \in K THEN Append(f[n], l[n + 1]) ELSE f[n]
      BY <1>2, <2>1
    <2>3. \A i \in 1 .. n + 1 : i \in 1 .. n \/ i = n + 1
      OBVIOUS
    <2>4. CASE n + 1 \notin K
      BY <2>1, <2>2, <2>3, <2>4
    <2>5. CASE n + 1 \in K
      <3> PICK q \in Seq(S), e \in S : q = f[n] /\ e = l[n + 1]
        BY <2>1
      <3>1. f[n + 1] = Append(q, e)
        BY <2>2, <2>5
      <3>2. /\ f[n + 1] \in Seq(S) /\ Len(f[n + 1]) = Len(q) + 1
            /\ \A j \in 1 .. Len(q) : f[n + 1][j] = q[j]
            /\ f[n + 1][Len(q) + 1] = e
        BY <3>1
      <3>3. ASSUME NEW x, NEW j \in 1 .. Len(f[n + 1]), f[n + 1][j] = x
            PROVE  \E i \in 1 .. n + 1 : i \in K /\ l[i] = x
        <4>1. CASE j = Len(q) + 1
          BY <2>5, <3>2, <3>3, <4>1
        <4>2. CASE j # Len(q) + 1
          <5>1. j \in 1 .. Len(f[n]) /\ f[n][j] = x
            BY <3>2, <3>3, <4>2
          <5>2. PICK i \in 1 .. n : i \in K /\ l[i] = x
            BY <2>1, <5>1
          <5> QED
            BY <5>2
        <4> QED
          BY <4>1, <4>2
      <3>4. ASSUME NEW x, NEW i \in 1 .. n + 1, i \in K, l[i] = x
            PROVE  \E j \in 1 .. Len(f[n + 1]) : f[n + 1][j] = x
        <4>1. CASE i = n + 1
          BY <3>2, <3>4, <4>1
        <4>2. CASE i # n + 1
          <5>1. PICK j \in 1 .. Len(q) : q[j] = x
            BY <2>1, <2>3, <3>4, <4>2
          <5>2. j \in 1 .. Len(f[n + 1]) /\ f[n + 1][j] = x
            BY <3>2, <5>1
          <5> QED
            BY <5>2
        <4> QED
          BY <4>1, <4>2
      <3> QED
        BY <3>2, <3>3, <3>4
    <2> QED
      BY <2>4, <2>5
  <1>5. Nat \subseteq T
    <2> HIDE DEF T
    <2> QED
      BY <1>3, <1>4, AllNumbers
  <1>6. Of(Len(l))
    <2> HIDE DEF Of
    <2> QED
      BY <1>1, <1>5
  <1>7. DOMAIN l = 1 .. Len(l) /\ DOMAIN f[Len(l)] = 1 .. Len(f[Len(l)])
    BY <1>6
  <1> QED
    BY <1>6, <1>7 DEF Keeps

\* The handles on a list.
LEMMA IdsOf ==
    ASSUME NEW l
    PROVE  \A x : x \in Ids(l) <=> \E i \in DOMAIN l : l[i].id = x
  BY DEF Ids

\* Nobody is on a list who is not on the one it was made from.
LEMMA IdsFewer ==
    ASSUME NEW l, NEW w, \A j \in DOMAIN w : \E i \in DOMAIN l : l[i] = w[j]
    PROVE  Ids(w) \subseteq Ids(l)
  <1> SUFFICES ASSUME NEW x \in Ids(w) PROVE x \in Ids(l)
    OBVIOUS
  <1>1. PICK j \in DOMAIN w : w[j].id = x
    BY IdsOf
  <1>2. PICK i \in DOMAIN l : l[i] = w[j]
    OBVIOUS
  <1> QED
    BY <1>1, <1>2, IdsOf

\* Without: the subscriber is gone, and nobody else.
LEMMA WithoutOne ==
    ASSUME NEW l \in Seq(Subscriber), NEW id
    PROVE  /\ Without(l, id) \in Seq(Subscriber)
           /\ Ids(Without(l, id)) = Ids(l) \ {id}
           /\ AllActive(l) => AllActive(Without(l, id))
  <1> DEFINE w == Without(l, id)
  <1>1. /\ w \in Seq(Subscriber)
        /\ \A j \in DOMAIN w : \E i \in DOMAIN l : l[i].id # id /\ l[i] = w[j]
        /\ \A i \in DOMAIN l : l[i].id # id => \E j \in DOMAIN w : w[j] = l[i]
    <2> PICK K : K = {i \in DOMAIN l : l[i].id # id}
      OBVIOUS
    <2>1. w = Kept(l, K)
      BY DEF Without
    <2> HIDE DEF w
    <2>2. w \in Seq(Subscriber) /\ Keeps(w, l, K)
      BY <2>1, KeptElements
    <2> QED
      BY <2>2 DEF Keeps
  <1> HIDE DEF w
  <1>2. ASSUME NEW x \in Ids(w) PROVE x \in Ids(l) \ {id}
    <2>1. PICK j \in DOMAIN w : w[j].id = x
      BY IdsOf
    <2>2. PICK i \in DOMAIN l : l[i].id # id /\ l[i] = w[j]
      BY <1>1
    <2> QED
      BY <2>1, <2>2, IdsOf
  <1>3. ASSUME NEW x \in Ids(l) \ {id} PROVE x \in Ids(w)
    <2>1. PICK i \in DOMAIN l : l[i].id = x
      BY IdsOf
    <2>2. PICK j \in DOMAIN w : w[j] = l[i]
      BY <1>1, <2>1
    <2> QED
      BY <2>1, <2>2, IdsOf
  <1>4. AllActive(l) => AllActive(w)
    BY <1>1 DEF AllActive
  <1>5. Ids(w) = Ids(l) \ {id}
    BY <1>2, <1>3
  <1> QED
    BY <1>1, <1>4, <1>5 DEF w

\* Active: the subscribers that are not waiting for their close.
LEMMA ActiveOnes ==
    ASSUME NEW l \in Seq(Subscriber)
    PROVE  /\ Active(l) \in Seq(Subscriber) /\ AllActive(Active(l))
           /\ Ids(Active(l)) \subseteq Ids(l)
           /\ AllActive(l) => Ids(Active(l)) = Ids(l)
           /\ (\E i \in DOMAIN l : ~l[i].inactive) <=> Active(l) # <<>>
  <1> DEFINE w == Active(l)
  <1>1. /\ w \in Seq(Subscriber)
        /\ \A j \in DOMAIN w : \E i \in DOMAIN l : ~l[i].inactive /\ l[i] = w[j]
        /\ \A i \in DOMAIN l : ~l[i].inactive => \E j \in DOMAIN w : w[j] = l[i]
    <2> PICK K : K = {i \in DOMAIN l : ~l[i].inactive}
      OBVIOUS
    <2>1. w = Kept(l, K)
      BY DEF Active
    <2> HIDE DEF w
    <2>2. w \in Seq(Subscriber) /\ Keeps(w, l, K)
      BY <2>1, KeptElements
    <2> QED
      BY <2>2 DEF Keeps
  <1> HIDE DEF w
  <1>2. Ids(w) \subseteq Ids(l)
    BY <1>1, IdsFewer
  <1>3. AllActive(l) => Ids(l) \subseteq Ids(w)
    <2> SUFFICES ASSUME AllActive(l) PROVE Ids(l) \subseteq Ids(w)
      OBVIOUS
    <2>1. \A i \in DOMAIN l : \E j \in DOMAIN w : w[j] = l[i]
      BY <1>1 DEF AllActive
    <2> QED
      BY <2>1, IdsFewer
  <1>4. AllActive(w)
    BY <1>1 DEF AllActive
  <1>5. w # <<>> <=> 1 \in DOMAIN w
    BY <1>1
  <1>6. (\E i \in DOMAIN l : ~l[i].inactive) <=> w # <<>>
    <2>1. ASSUME NEW i \in DOMAIN l, ~l[i].inactive PROVE w # <<>>
      BY <1>1, <2>1
    <2> QED
      BY <1>1, <1>5, <2>1
  <1>7. AllActive(l) => Ids(w) = Ids(l)
    BY <1>2, <1>3
  <1> QED
    BY <1>1, <1>2, <1>4, <1>6, <1>7 DEF w

\* A list is empty when it has no subscriber.
LEMMA EmptyList ==
    ASSUME NEW l \in Seq(Subscriber)
    PROVE  l = <<>> <=> Ids(l) = {}
  <1>1. l # <<>> => 1 \in DOMAIN l
    OBVIOUS
  <1>2. l # <<>> => l[1].id \in Ids(l)
    BY <1>1, Zenon DEF Ids
  <1>3. l = <<>> => DOMAIN l = {}
    OBVIOUS
  <1> QED
    BY <1>2, <1>3 DEF Ids

\* A list of active subscribers has an active one unless it is empty.
LEMMA SomebodyActive ==
    ASSUME NEW l \in Seq(Subscriber), AllActive(l), l # <<>>
    PROVE  Active(l) # <<>>
  <1>1. 1 \in DOMAIN l
    OBVIOUS
  <1> QED
    BY <1>1, ActiveOnes DEF AllActive

\* addSubscriber: the handle is listed afterwards, active if it is new.
LEMMA AddOne ==
    ASSUME NEW l \in Seq(Subscriber), NEW id \in Handles
    PROVE  /\ AddSubscriber(l, id) \in Seq(Subscriber)
           /\ Ids(AddSubscriber(l, id)) = Ids(l) \cup {id}
           /\ AddSubscriber(l, id) # <<>>
           /\ AllActive(l) => AllActive(AddSubscriber(l, id))
  <1>1. CASE id \in Ids(l)
    BY <1>1, EmptyList DEF AddSubscriber
  <1>2. CASE id \notin Ids(l)
    <2> DEFINE e == [id |-> id, inactive |-> FALSE]
    <2> PICK w : w = <<e>> \o l
      OBVIOUS
    <2>1. e \in Subscriber /\ e.id = id /\ ~e.inactive
      BY DEF Subscriber
    <2> HIDE DEF e
    <2>2. /\ w \in Seq(Subscriber) /\ Len(w) = Len(l) + 1 /\ w[1] = e
          /\ \A i \in 1 .. Len(l) : w[i + 1] = l[i]
          /\ \A j \in 2 .. Len(w) : j - 1 \in 1 .. Len(l) /\ w[j] = l[j - 1]
      BY <2>1
    <2>3. DOMAIN l = 1 .. Len(l) /\ DOMAIN w = 1 .. Len(w) /\ Len(l) \in Nat
      BY <2>2
    <2>4. /\ 1 \in DOMAIN w
          /\ \A i \in DOMAIN l : i + 1 \in DOMAIN w /\ w[i + 1] = l[i]
          /\ \A j \in DOMAIN w : w[j] = e \/ \E i \in DOMAIN l : w[j] = l[i]
      <3>1. \A j \in DOMAIN w : j = 1 \/ j \in 2 .. Len(w)
        BY <2>3
      <3> QED
        BY <2>2, <2>3, <3>1
    <2>5. Ids(w) = Ids(l) \cup {id} /\ (AllActive(l) => AllActive(w))
      <3>1. id \in Ids(w)
        BY <2>1, <2>2, <2>4, IdsOf
      <3>2. Ids(l) \subseteq Ids(w)
        BY <2>4, IdsFewer
      <3>3. ASSUME NEW x \in Ids(w) PROVE x \in Ids(l) \/ x = id
        <4>1. PICK j \in DOMAIN w : w[j].id = x
          BY IdsOf
        <4> QED
          BY <2>1, <2>4, <4>1, IdsOf
      <3>4. AllActive(l) => AllActive(w)
        BY <2>1, <2>4, Zenon DEF AllActive
      <3> QED
        BY <3>1, <3>2, <3>3, <3>4
    <2>6. w = AddSubscriber(l, id) /\ w # <<>>
      BY <1>2, <2>4 DEF AddSubscriber, e
    <2> QED
      BY <2>2, <2>5, <2>6
  <1> QED
    BY <1>1, <1>2

\* setInactive keeps every subscriber on the list.
LEMMA InactiveOne ==
    ASSUME NEW l \in Seq(Subscriber), NEW id
    PROVE  /\ SetInactive(l, id) \in Seq(Subscriber)
           /\ SetInactive(l, id) = <<>> <=> l = <<>>
  <1> PICK w : w = SetInactive(l, id)
    OBVIOUS
  <1>1. \A x \in Subscriber, b \in BOOLEAN : [x EXCEPT !.inactive = b] \in Subscriber
    BY DEF Subscriber
  <1>2. DOMAIN l = 1 .. Len(l) /\ Len(l) \in Nat
    OBVIOUS
  <1>3. w \in [1 .. Len(l) -> Subscriber]
    <2>1. ASSUME NEW i \in 1 .. Len(l)
          PROVE  [l[i] EXCEPT !.inactive = @ \/ l[i].id = id] \in Subscriber
      <3> PICK x \in Subscriber : x = l[i]
        OBVIOUS
      <3> PICK b \in BOOLEAN : b = (x.inactive \/ x.id = id)
        OBVIOUS
      <3>1. [l[i] EXCEPT !.inactive = @ \/ l[i].id = id] = [x EXCEPT !.inactive = b]
        OBVIOUS
      <3> QED
        BY <1>1, <3>1
    <2> QED
      BY <1>2, <2>1, Zenon DEF SetInactive
  <1>4. w \in Seq(Subscriber) /\ Len(w) = Len(l)
    BY <1>2, <1>3
  <1> QED
    BY <1>4, EmptySeq

-----------------------------------------------------------------------------
(* The engine's queue.                                                     *)

Fallbacks == [op : {"ATL"}, nif : AgpsNifs, id : Handles]

LEMMA MessageShape ==
    ASSUME NEW m \in Message
    PROVE  /\ m.op = "ATL" => m.nif \in AgpsNifs /\ m.id \in Handles
           /\ m.op \in {"ES", "CLOSE"} => m.id \in Handles
           /\ m.op \in {"GRANTED", "RELEASED", "DENIED"} => m.nif \in Nifs
  BY DEF Message

\* A message goes to the end of the queue.
LEMMA PostQueue ==
    ASSUME msgQ \in Seq(Message), NEW m \in Message, msgQ' = Append(msgQ, m)
    PROVE  /\ msgQ' \in Seq(Message)
           /\ DsDown' => DsDown \/ DsReleased(m)
           /\ Restarting' => Restarting \/ m.op = "ENGINE_UP"
           /\ QueueOK /\ (DsReleased(m) => ~DsDown) /\ (m.op = "DENIED" => m.nif # "ds")
                => QueueOK'
  <1>1. /\ msgQ' \in Seq(Message) /\ Len(msgQ') = Len(msgQ) + 1 /\ Len(msgQ) \in Nat
        /\ \A i \in 1 .. Len(msgQ) : msgQ'[i] = msgQ[i]
        /\ msgQ'[Len(msgQ) + 1] = m
    OBVIOUS
  <1>2. \A i \in 1 .. Len(msgQ') : i = Len(msgQ) + 1 \/ i \in 1 .. Len(msgQ)
    BY <1>1
  <1>3. DsDown' => DsDown \/ DsReleased(m)
    BY <1>1, <1>2 DEF DsDown, DsReleased
  <1>4. Restarting' => Restarting \/ m.op = "ENGINE_UP"
    <2>1. DOMAIN msgQ = 1 .. Len(msgQ) /\ DOMAIN msgQ' = 1 .. Len(msgQ')
      BY <1>1
    <2> QED
      BY <1>1, <1>2, <2>1 DEF Restarting
  <1>5. ASSUME QueueOK, DsReleased(m) => ~DsDown, m.op = "DENIED" => m.nif # "ds"
        PROVE  QueueOK'
    <2>1. ASSUME NEW i \in 1 .. Len(msgQ'), NEW j \in 1 .. Len(msgQ'),
                 DsReleased(msgQ'[i]), DsReleased(msgQ'[j])
          PROVE  i = j
      BY <1>1, <1>2, <1>5, <2>1 DEF QueueOK, DsDown
    <2>2. \A i \in 1 .. Len(msgQ') : msgQ'[i].op = "DENIED" => msgQ'[i].nif # "ds"
      BY <1>1, <1>2, <1>5 DEF QueueOK
    <2> QED
      BY <2>1, <2>2 DEF QueueOK, DsReleased
  <1> QED
    BY <1>1, <1>3, <1>4, <1>5

\* The message at the head is taken, and fallback requests go to the end.
LEMMA TakeQueue ==
    ASSUME msgQ \in Seq(Message), msgQ # <<>>, NEW p \in Seq(Fallbacks), Took(p)
    PROVE  /\ msgQ' \in Seq(Message)
           /\ DsDown' => DsDown
           /\ QueueOK /\ DsReleased(Head(msgQ)) => DsDown /\ ~DsDown'
           /\ Restarting' => Restarting
           /\ Restarting /\ Head(msgQ).op # "ENGINE_UP" => Restarting'
           /\ QueueOK => QueueOK'
  <1>1. PICK t \in Seq(Message) : t = Tail(msgQ)
    <2>1. Tail(msgQ) \in Seq(Message)
      BY HeadTailProperties
    <2> QED
      BY <2>1
  <1>2. /\ Len(t) + 1 = Len(msgQ) /\ Len(t) \in Nat /\ Head(msgQ) = msgQ[1]
        /\ \A i \in 1 .. Len(t) : t[i] = msgQ[i + 1]
    BY <1>1
  <1>3. p \in Seq(Message)
    <2>1. Fallbacks \subseteq Message
      BY DEF Fallbacks, Message
    <2>2. \A i \in 1 .. Len(p) : p[i] \in Message
      BY <2>1
    <2> QED
      BY <2>2
  <1>4. /\ msgQ' \in Seq(Message) /\ Len(msgQ') = Len(t) + Len(p) /\ Len(p) \in Nat
        /\ \A i \in 1 .. Len(msgQ') : msgQ'[i] = IF i <= Len(t) THEN t[i] ELSE p[i - Len(t)]
    BY <1>1, <1>2, <1>3 DEF Took
  <1>5. \A i \in 1 .. Len(p) : p[i].op = "ATL"
    <2>1. \A i \in 1 .. Len(p) : p[i] \in Fallbacks
      OBVIOUS
    <2> QED
      BY <2>1 DEF Fallbacks
  <1>6. ASSUME NEW i \in 1 .. Len(msgQ'), msgQ'[i].op # "ATL"
        PROVE  i + 1 \in 2 .. Len(msgQ) /\ msgQ'[i] = msgQ[i + 1]
    <2>1. i <= Len(t)
      BY <1>2, <1>4, <1>5, <1>6
    <2>2. i \in 1 .. Len(t) /\ i + 1 \in 2 .. Len(msgQ)
      BY <1>2, <1>4, <2>1
    <2>3. t[i] = msgQ[i + 1]
      BY <1>2, <2>2
    <2>4. msgQ'[i] = t[i]
      BY <1>4, <2>1
    <2> QED
      BY <2>2, <2>3, <2>4
  <1>7. \A i \in 1 .. Len(msgQ') : DsReleased(msgQ'[i]) =>
            i + 1 \in 2 .. Len(msgQ) /\ DsReleased(msgQ[i + 1])
    BY <1>6 DEF DsReleased
  <1>8. DsDown' => \E i \in 2 .. Len(msgQ) : DsReleased(msgQ[i])
    BY <1>7 DEF DsDown, DsReleased
  <1>9. 1 \in 1 .. Len(msgQ) /\ \A i \in 2 .. Len(msgQ) : i \in 1 .. Len(msgQ) /\ i # 1
    BY <1>2
  <1>10. DsDown' => DsDown
    BY <1>8, <1>9 DEF DsDown
  <1>11. QueueOK /\ DsReleased(Head(msgQ)) => DsDown /\ ~DsDown'
    BY <1>2, <1>8, <1>9 DEF QueueOK, DsDown
  <1>12. Restarting' => Restarting
    <2>1. DOMAIN msgQ = 1 .. Len(msgQ) /\ DOMAIN msgQ' = 1 .. Len(msgQ')
      BY <1>4
    <2> QED
      BY <1>6, <1>9, <2>1 DEF Restarting
  <1>14. Restarting /\ Head(msgQ).op # "ENGINE_UP" => Restarting'
    <2> SUFFICES ASSUME Restarting, Head(msgQ).op # "ENGINE_UP" PROVE Restarting'
      OBVIOUS
    <2>1. PICK i \in 1 .. Len(msgQ) : msgQ[i].op = "ENGINE_UP"
      BY DEF Restarting
    <2>2. i # 1
      BY <1>2, <2>1
    <2>3. PICK j \in 1 .. Len(t) : j + 1 = i
      <3>1. i - 1 \in 1 .. Len(t) /\ (i - 1) + 1 = i
        BY <1>2, <2>2
      <3> QED
        BY <3>1
    <2>4. t[j] = msgQ[i]
      BY <1>2, <2>3
    <2>5. j \in 1 .. Len(msgQ') /\ msgQ'[j] = t[j]
      BY <1>2, <1>4, <2>3
    <2>6. DOMAIN msgQ' = 1 .. Len(msgQ')
      BY <1>4
    <2> QED
      BY <2>1, <2>4, <2>5, <2>6 DEF Restarting
  <1>13. QueueOK => QueueOK'
    <2> SUFFICES ASSUME QueueOK PROVE QueueOK'
      OBVIOUS
    <2>1. ASSUME NEW i \in 1 .. Len(msgQ'), NEW j \in 1 .. Len(msgQ'),
                 DsReleased(msgQ'[i]), DsReleased(msgQ'[j])
          PROVE  i = j
      <3>1. i + 1 = j + 1
        BY <1>7, <1>9, <2>1 DEF QueueOK
      <3> QED
        BY <3>1
    <2>2. \A i \in 1 .. Len(msgQ') : msgQ'[i].op = "DENIED" => msgQ'[i].nif # "ds"
      BY <1>6, <1>9 DEF QueueOK
    <2> QED
      BY <2>1, <2>2 DEF QueueOK, DsReleased
  <1> QED
    BY <1>4, <1>10, <1>11, <1>12, <1>13, <1>14

\* Nothing is posted while a message is taken.
LEMMA NothingPosted == <<>> \in Seq(Fallbacks)
  OBVIOUS

\* An emergency list that falls back asks the normal interface for each subscriber.
LEMMA FallBackTyped ==
    ASSUME NEW l \in Seq(Subscriber)
    PROVE  FallBack(l) \in Seq(Fallbacks)
  <1>1. DOMAIN l = 1 .. Len(l) /\ Len(l) \in Nat
    OBVIOUS
  <1>2. \A i \in 1 .. Len(l) : [op |-> "ATL", nif |-> "agnss", id |-> l[i].id] \in Fallbacks
    <2> SUFFICES ASSUME NEW i \in 1 .. Len(l)
                 PROVE  [op |-> "ATL", nif |-> "agnss", id |-> l[i].id] \in Fallbacks
      OBVIOUS
    <2>1. l[i] \in Subscriber
      BY <1>1
    <2>2. l[i].id \in Handles
      BY <2>1 DEF Subscriber
    <2> QED
      BY <2>2 DEF Fallbacks, AgpsNifs
  <1>3. FallBack(l) \in [1 .. Len(l) -> Fallbacks]
    BY <1>1, <1>2 DEF FallBack
  <1> QED
    BY <1>1, <1>3

-----------------------------------------------------------------------------
(* What a handler leaves of the queue and of the emergency data call.      *)

FwMessage == [nif : AgpsNifs, action : {"REQUEST", "RELEASE"}]

\* The types of the variables that requests and releases of resources touch.
ResourcesOK ==
    /\ fwReq \in Seq(FwMessage) /\ mRetries \in 0 .. MaxRetries /\ timers \in Nat
    /\ call \in {"none", "starting", "up", "stopping"} /\ dsHandle \in BOOLEAN

\* The queue is what a taken message leaves of it.
QueueTaken ==
    /\ msgQ' \in Seq(Message)
    /\ DsDown' => DsDown
    /\ QueueOK /\ DsReleased(Head(msgQ)) => DsDown /\ ~DsDown'
    /\ Restarting' => Restarting
    /\ Restarting /\ Head(msgQ).op # "ENGINE_UP" => Restarting'
    /\ QueueOK => QueueOK'

LEMMA TookNothing ==
    ASSUME msgQ \in Seq(Message), msgQ # <<>>, Took(<<>>)
    PROVE  QueueTaken
  BY TakeQueue, NothingPosted DEF QueueTaken

LEMMA TookFallBack ==
    ASSUME msgQ \in Seq(Message), msgQ # <<>>, NEW l \in Seq(Subscriber), Took(FallBack(l))
    PROVE  QueueTaken
  BY TakeQueue, FallBackTyped DEF QueueTaken

\* sendRsrcRequest for a list with an active subscriber: only a successful request
\* of the third interface starts a data call or touches its timers.
LEMMA RequestSent ==
    ASSUME TypeOK, msgQ # <<>>, NEW n \in Nifs, NEW sent \in BOOLEAN,
           NEW l \in Seq(Subscriber), Active(l) # <<>>, NEW handle \in BOOLEAN,
           SendRequest(n, sent, l, handle)
    PROVE  /\ QueueTaken /\ ResourcesOK'
           /\ n # "ds" => sent /\ UNCHANGED dsVars
           /\ ~sent => call' = call
  <1>1. Owner(l) \in Seq(Subscriber)
    <2>1. Active(l) \in Seq(Subscriber)
      BY ActiveOnes
    <2>2. Head(Active(l)) \in Subscriber
      BY <2>1, HeadTailProperties
    <2> QED
      BY <2>2 DEF Owner
  <1>2. ResourcesOK /\ msgQ \in Seq(Message) /\ MaxRetries \in Nat
    BY AtlAssumption DEF TypeOK, ResourcesOK, FwMessage
  <1>3. CASE n # "ds"
    <2>1. sent /\ Took(<<>>) /\ UNCHANGED dsVars
      BY <1>3 DEF SendRequest
    <2>2. fwReq' = Append(fwReq, [nif |-> n, action |-> "REQUEST"])
      BY <1>3 DEF SendRequest
    <2>3. [nif |-> n, action |-> "REQUEST"] \in FwMessage
      BY <1>3 DEF FwMessage, Nifs
    <2>4. fwReq' \in Seq(FwMessage)
      BY <1>2, <2>2, <2>3 DEF ResourcesOK
    <2>5. QueueTaken
      BY <1>2, <2>1, TookNothing
    <2> QED
      BY <1>2, <1>3, <2>1, <2>4, <2>5 DEF ResourcesOK, dsVars
  <1>4. CASE n = "ds" /\ DataCallStarted /\ sent
    <2>1. UNCHANGED fwReq
      BY <1>4 DEF SendRequest
    <2>2. QueueTaken
      BY <1>2, <1>4, TookNothing DEF DataCallStarted
    <2> QED
      BY <1>2, <1>4, <2>1, <2>2 DEF DataCallStarted, ResourcesOK
  <1>5. CASE n = "ds" /\ DataCallBusy(l) /\ ~sent
    <2>1. UNCHANGED <<fwReq, call>> /\ dsHandle'
      BY <1>5 DEF SendRequest, DataCallBusy
    <2>2. CASE mRetries + 1 > MaxRetries
      <3>1. mRetries' = 0 /\ Took(FallBack(Owner(l))) /\ UNCHANGED timers
        BY <1>5, <2>2 DEF DataCallBusy
      <3>2. QueueTaken
        BY <1>1, <1>2, <3>1, TookFallBack
      <3> QED
        BY <1>2, <1>5, <2>1, <3>1, <3>2 DEF ResourcesOK
    <2>3. CASE ~(mRetries + 1 > MaxRetries)
      <3>1. mRetries' = mRetries + 1 /\ timers' = timers + 1 /\ Took(<<>>)
        BY <1>5, <2>3 DEF DataCallBusy
      <3>2. QueueTaken
        BY <1>2, <3>1, TookNothing
      <3> QED
        BY <1>2, <1>5, <2>1, <2>3, <3>1, <3>2 DEF ResourcesOK
    <2> QED
      BY <2>2, <2>3
  <1>6. CASE n = "ds" /\ DataCallUnsupported(l, handle) /\ ~sent
    <2>1. /\ UNCHANGED <<fwReq, call, timers>> /\ dsHandle' \in BOOLEAN
          /\ mRetries' = 0 /\ Took(FallBack(Owner(l)))
      BY <1>6 DEF SendRequest, DataCallUnsupported
    <2>2. QueueTaken
      BY <1>1, <1>2, <2>1, TookFallBack
    <2> QED
      BY <1>2, <1>6, <2>1, <2>2 DEF ResourcesOK
  <1> QED
    BY <1>3, <1>4, <1>5, <1>6 DEF SendRequest

\* sendRsrcRequest for the last subscriber that left: a data call may be on its way
\* down, but it is gone only when the library says so.
LEMMA ReleaseSent ==
    ASSUME TypeOK, NEW n \in Nifs, SendRelease(n)
    PROVE  /\ ResourcesOK'
           /\ n # "ds" => UNCHANGED dsVars
           /\ call' = "none" <=> call = "none"
  <1>1. ResourcesOK
    BY DEF TypeOK, ResourcesOK, FwMessage
  <1>2. CASE n # "ds"
    <2>1. fwReq' = Append(fwReq, [nif |-> n, action |-> "RELEASE"]) /\ UNCHANGED dsVars
      BY <1>2 DEF SendRelease
    <2>2. [nif |-> n, action |-> "RELEASE"] \in FwMessage
      BY <1>2 DEF FwMessage, Nifs
    <2>3. fwReq' \in Seq(FwMessage)
      BY <1>1, <2>1, <2>2 DEF ResourcesOK
    <2> QED
      BY <1>1, <1>2, <2>1, <2>3 DEF ResourcesOK, dsVars
  <1>3. CASE n = "ds"
    BY <1>1, <1>3 DEF SendRelease, StopDataCall, ResourcesOK
  <1> QED
    BY <1>2, <1>3

-----------------------------------------------------------------------------
(* The handlers of the engine thread.                                      *)

States  == {"Released", "Pending", "Acquired", "Releasing"}
Clients == [Handles -> {"idle", "opening", "open", "closing"}]

\* A handler changes one interface: what it must keep there for the invariant.
LEMMA HandlerStep ==
    ASSUME AtlInv, NEW n \in Nifs, QueueTaken, ResourcesOK',
           UNCHANGED <<useEmergencyPdn, fwConn>>,
           list' = [list EXCEPT ![n] = list'[n]], list'[n] \in Seq(Subscriber),
           mState' = [mState EXCEPT ![n] = mState'[n]], mState'[n] \in States,
           client' \in Clients,
           n # "ds" => UNCHANGED <<timers, call>>
                         /\ mState'[n] # "Releasing" /\ AllActive(list'[n]),
           n = "ds" => useEmergencyPdn /\ (call' # "none" => ~DsDown'),
           n = "ds" /\ mState'[n] = "Released" =>
               AllActive(list'[n]) /\ call' = "none" /\ ~DsDown',
           \A h \in Handles : client[h] = "idle" => client'[h] = "idle",
           ~useEmergencyPdn => \A h \in Handles : client'[h] = "open" =>
               \/ mState'[n] = "Acquired" /\ h \in Ids(list'[n])
               \/ client[h] = "open" /\ ~(mState[n] = "Acquired" /\ h \in Ids(list[n]))
    PROVE  AtlInv'
  <1> USE DEF AtlInv
  <1>1. mState \in [Nifs -> States] /\ list \in [Nifs -> Seq(Subscriber)] /\ client \in Clients
    BY DEF TypeOK, States, Subscriber, Clients
  <1>2. \A m \in Nifs : m # n => list'[m] = list[m] /\ mState'[m] = mState[m]
    BY <1>1
  <1>3. TypeOK'
    <2>1. mState' \in [Nifs -> States] /\ list' \in [Nifs -> Seq(Subscriber)]
      BY <1>1
    <2> QED
      BY <2>1 DEF TypeOK, States, Subscriber, Clients, QueueTaken, ResourcesOK, FwMessage
  <1>4. AgpsListsOK'
    <2>1. \A m \in AgpsNifs : m \in Nifs /\ m # "ds"
      BY DEF AgpsNifs, Nifs
    <2>2. \A m \in AgpsNifs : mState'[m] # "Releasing" /\ AllActive(list'[m])
      BY <1>2, <2>1 DEF AgpsListsOK
    <2> QED
      BY <2>2 DEF AgpsListsOK, AllActive
  <1>5. QueueOK'
    BY DEF QueueTaken
  <1>6. DsOK'
    <2>1. "ds" \in Nifs
      BY DEF Nifs
    <2>2. CASE n = "ds"
      <3>1. mState'["ds"] = "Released" => AllActive(list'["ds"]) /\ call' = "none" /\ ~DsDown'
        BY <2>2
      <3>2. call' # "none" => ~DsDown'
        BY <2>2
      <3> QED
        BY <3>1, <3>2 DEF DsOK, AllActive
    <2>3. CASE n # "ds"
      <3>1. list'["ds"] = list["ds"] /\ mState'["ds"] = mState["ds"] /\ call' = call
        BY <1>2, <2>1, <2>3
      <3>2. DsDown' => DsDown
        BY DEF QueueTaken
      <3> QED
        BY <3>1, <3>2 DEF DsOK, AllActive
    <2> QED
      BY <2>2, <2>3
  <1>7. NoPdnNoCall'
    <2> SUFFICES ASSUME ~useEmergencyPdn
                 PROVE  mState'["ds"] = "Released" /\ list'["ds"] = <<>> /\ call' = "none" /\ timers' = 0
      BY DEF NoPdnNoCall
    <2>1. n # "ds" /\ "ds" \in Nifs
      BY DEF Nifs
    <2> QED
      BY <1>2, <2>1 DEF NoPdnNoCall
  <1>8. RestartingIsIdle'
    BY DEF RestartingIsIdle, QueueTaken
  <1>9. OpenListed'
    <2> SUFFICES ASSUME ~useEmergencyPdn, NEW h \in Handles, client'[h] = "open"
                 PROVE  \E m \in AgpsNifs : mState'[m] = "Acquired" /\ h \in Ids(list'[m])
      BY DEF OpenListed, Ids
    <2>1. n \in AgpsNifs
      BY DEF AgpsNifs, Nifs
    <2>2. CASE mState'[n] = "Acquired" /\ h \in Ids(list'[n])
      BY <2>1, <2>2
    <2>3. CASE client[h] = "open" /\ ~(mState[n] = "Acquired" /\ h \in Ids(list[n]))
      <3>1. PICK m \in AgpsNifs : mState[m] = "Acquired" /\ h \in Ids(list[m])
        BY <2>3 DEF OpenListed
      <3>2. m # n /\ m \in Nifs
        BY <2>3, <3>1 DEF Nifs
      <3>3. mState'[m] = mState[m] /\ list'[m] = list[m]
        BY <1>2, <3>2
      <3> QED
        BY <3>1, <3>3
    <2> QED
      BY <2>2, <2>3
  <1> QED
    BY <1>3, <1>4, <1>5, <1>6, <1>7, <1>8, <1>9

\* The parts of the invariant as the handlers use them.
LEMMA Shapes ==
    ASSUME AtlInv
    PROVE  /\ mState \in [Nifs -> States] /\ list \in [Nifs -> Seq(Subscriber)]
           /\ client \in Clients /\ msgQ \in Seq(Message) /\ ResourcesOK
           /\ \A m \in Nifs : m # "ds" => m \in AgpsNifs
           /\ \A m \in AgpsNifs : m \in Nifs /\ m # "ds"
  BY DEF AtlInv, TypeOK, States, Subscriber, Clients, ResourcesOK, FwMessage, AgpsNifs, Nifs

\* A subscription adds the handle to the list of its interface; a request is made
\* when the interface was Released, and only a data call that was started is waited for.
LEMMA SubscribeKeeps ==
    ASSUME AtlInv, msgQ # <<>>, NEW n \in Nifs, NEW id \in Handles,
           n = "ds" => useEmergencyPdn,
           Subscribe(n, id), UNCHANGED useEmergencyPdn
    PROVE  AtlInv'
  <1>1. /\ mState \in [Nifs -> States] /\ list \in [Nifs -> Seq(Subscriber)]
        /\ client \in Clients /\ msgQ \in Seq(Message) /\ ResourcesOK
        /\ n # "ds" => n \in AgpsNifs
    BY Shapes
  <1>2. /\ list' = [list EXCEPT ![n] = AddSubscriber(list[n], id)] /\ UNCHANGED fwConn
        /\ list'[n] = AddSubscriber(list[n], id)
    BY <1>1 DEF Subscribe, SubscribeReleased, SubscribeWaiting, SubscribeAcquired
  <1>3. /\ list'[n] \in Seq(Subscriber) /\ Ids(list'[n]) = Ids(list[n]) \cup {id}
        /\ list'[n] # <<>>
        /\ AllActive(list[n]) => AllActive(list'[n])
    BY <1>1, <1>2, AddOne
  <1>4. n # "ds" => mState[n] # "Releasing" /\ AllActive(list[n])
    BY <1>1 DEF AtlInv, AgpsListsOK
  <1>5. CASE SubscribeReleased(n, id)
    <2>1. PICK sent \in BOOLEAN :
             /\ SendRequest(n, sent, list'[n], dsHandle)
             /\ mState' = IF sent THEN [mState EXCEPT ![n] = "Pending"] ELSE mState
      BY <1>5 DEF SubscribeReleased
    <2>2. mState[n] = "Released" /\ client' = client
      BY <1>5 DEF SubscribeReleased
    <2>3. /\ mState' = [mState EXCEPT ![n] = mState'[n]] /\ mState'[n] \in {"Pending", "Released"}
          /\ mState'[n] = "Released" => ~sent
      BY <1>1, <2>1, <2>2
    <2>4. AllActive(list[n]) /\ (n = "ds" => call = "none" /\ ~DsDown)
      BY <1>4, <2>2 DEF AtlInv, DsOK
    <2>5. PICK l \in Seq(Subscriber) : l = list'[n]
      BY <1>3
    <2>6. Active(l) # <<>>
      BY <1>3, <2>4, <2>5, SomebodyActive
    <2>7. PICK handle \in BOOLEAN : handle = dsHandle
      BY <1>1 DEF ResourcesOK
    <2>8. /\ QueueTaken /\ ResourcesOK' /\ (~sent => call' = call)
          /\ n # "ds" => sent /\ UNCHANGED dsVars
      <3>1. SendRequest(n, sent, l, handle) /\ TypeOK
        BY <2>1, <2>5, <2>7 DEF AtlInv
      <3> QED
        BY <2>6, <3>1, RequestSent
    <2>9. DsDown' => DsDown
      BY <2>8 DEF QueueTaken
    <2> QED
      BY <1>1, <1>2, <1>3, <2>2, <2>3, <2>4, <2>8, <2>9, HandlerStep DEF States, dsVars
  <1>6. CASE SubscribeWaiting(n, id)
    <2>1. /\ mState[n] \in {"Pending", "Releasing"} /\ Took(<<>>)
          /\ UNCHANGED <<mState, client, fwReq, mRetries, timers, call, dsHandle>>
      BY <1>6 DEF SubscribeWaiting, dsVars
    <2>2. QueueTaken /\ ResourcesOK'
      BY <1>1, <2>1, TookNothing DEF ResourcesOK
    <2>3. mState' = [mState EXCEPT ![n] = mState'[n]] /\ mState'[n] = mState[n]
      BY <1>1, <2>1
    <2>4. call' # "none" => ~DsDown'
      BY <2>1, <2>2 DEF AtlInv, DsOK, QueueTaken
    <2> QED
      BY <1>1, <1>2, <1>3, <1>4, <2>1, <2>2, <2>3, <2>4, HandlerStep DEF States
  <1>7. CASE SubscribeAcquired(n, id)
    <2>1. /\ mState[n] = "Acquired" /\ Took(<<>>) /\ client' = AtlOpened({id})
          /\ UNCHANGED <<mState, fwReq, mRetries, timers, call, dsHandle>>
      BY <1>7 DEF SubscribeAcquired, dsVars
    <2>2. QueueTaken /\ ResourcesOK'
      BY <1>1, <2>1, TookNothing DEF ResourcesOK
    <2>3. mState' = [mState EXCEPT ![n] = mState'[n]] /\ mState'[n] = mState[n]
      BY <1>1, <2>1
    <2>4. call' # "none" => ~DsDown'
      BY <2>1, <2>2 DEF AtlInv, DsOK, QueueTaken
    <2>5. /\ client' \in Clients
          /\ \A h \in Handles : client[h] = "idle" => client'[h] = "idle"
          /\ \A h \in Handles : client'[h] = "open" => client[h] = "open" \/ h = id
      BY <1>1, <2>1 DEF AtlOpened, Clients
    <2>6. \A h \in Handles : client'[h] = "open" =>
             \/ mState'[n] = "Acquired" /\ h \in Ids(list'[n])
             \/ client[h] = "open" /\ ~(mState[n] = "Acquired" /\ h \in Ids(list[n]))
      BY <1>3, <2>1, <2>3, <2>5
    <2> QED
      BY <1>1, <1>2, <1>3, <1>4, <2>1, <2>2, <2>3, <2>4, <2>5, <2>6, HandlerStep DEF States
  <1> QED
    BY <1>5, <1>6, <1>7 DEF Subscribe

\* A handler that keeps the state of its interface and the data call.
LEMMA CallKept ==
    ASSUME AtlInv, QueueTaken, UNCHANGED call
    PROVE  call' # "none" => ~DsDown'
  BY DEF AtlInv, DsOK, QueueTaken

\* A message that no interface heeds, although a client may close its connection.
LEMMA NobodyHeeds ==
    ASSUME AtlInv, QueueTaken,
           UNCHANGED <<useEmergencyPdn, mState, list, fwReq, fwConn, mRetries, timers, call, dsHandle>>,
           client' \in Clients,
           \A h \in Handles : client[h] = "idle" => client'[h] = "idle",
           \A h \in Handles : client'[h] = "open" => client[h] = "open"
    PROVE  AtlInv'
  <1>1. /\ mState \in [Nifs -> States] /\ list \in [Nifs -> Seq(Subscriber)] /\ ResourcesOK
        /\ "agnss" \in Nifs /\ "agnss" \in AgpsNifs
    BY Shapes DEF Nifs, AgpsNifs
  <1>2. ResourcesOK'
    BY <1>1 DEF ResourcesOK
  <1>3. /\ list' = [list EXCEPT !["agnss"] = list'["agnss"]]
        /\ mState' = [mState EXCEPT !["agnss"] = mState'["agnss"]]
        /\ list'["agnss"] = list["agnss"] /\ mState'["agnss"] = mState["agnss"]
    BY <1>1
  <1>4. mState["agnss"] # "Releasing" /\ AllActive(list["agnss"])
    BY <1>1 DEF AtlInv, AgpsListsOK
  <1> QED
    BY <1>1, <1>2, <1>3, <1>4, HandlerStep

\* The client that leaves is told so; a subscriber of the third interface stays on
\* the list until the data call is down, and the interface is not Released.
LEMMA UnsubscribeKeeps ==
    ASSUME AtlInv, msgQ # <<>>, NEW n \in Nifs, NEW id \in Handles, id \in Ids(list[n]),
           Unsubscribe(n, id), UNCHANGED useEmergencyPdn
    PROVE  AtlInv'
  <1>1. /\ mState \in [Nifs -> States] /\ list \in [Nifs -> Seq(Subscriber)]
        /\ client \in Clients /\ msgQ \in Seq(Message) /\ ResourcesOK
        /\ n # "ds" => n \in AgpsNifs
    BY Shapes
  <1>2. QueueTaken /\ UNCHANGED fwConn
    BY <1>1, TookNothing DEF Unsubscribe
  <1>3. n # "ds" => mState[n] # "Releasing" /\ AllActive(list[n])
    BY <1>1 DEF AtlInv, AgpsListsOK
  <1>4. list[n] # <<>> /\ (n = "ds" => useEmergencyPdn)
    <2>1. list[n] # <<>>
      BY <1>1, EmptyList
    <2> QED
      BY <2>1 DEF AtlInv, NoPdnNoCall
  <1>5. client' = AtlClosed({id})
    BY DEF Unsubscribe, UnsubscribeReleased, UnsubscribeHeld
  <1>6. /\ client' \in Clients
        /\ \A h \in Handles : client[h] = "idle" => client'[h] = "idle"
        /\ \A h \in Handles : client'[h] = "open" => client[h] = "open" /\ h # id
    BY <1>1, <1>5 DEF AtlClosed, Clients
  <1>7. CASE UnsubscribeReleased(n, id)
    <2>1. /\ mState[n] = "Released"
          /\ UNCHANGED <<mState, list, fwReq, mRetries, timers, call, dsHandle>>
      BY <1>7 DEF UnsubscribeReleased, dsVars
    <2>2. ResourcesOK'
      BY <1>1, <2>1 DEF ResourcesOK
    <2>3. /\ mState' = [mState EXCEPT ![n] = mState'[n]] /\ mState'[n] = mState[n]
          /\ list' = [list EXCEPT ![n] = list'[n]] /\ list'[n] = list[n]
      BY <1>1, <2>1
    <2>4. call' # "none" => ~DsDown'
      BY <1>2, <2>1, CallKept
    <2>5. n = "ds" => AllActive(list'[n]) /\ call' = "none" /\ ~DsDown'
      BY <1>2, <2>1, <2>3 DEF AtlInv, DsOK, QueueTaken
    <2> QED
      BY <1>1, <1>2, <1>3, <1>4, <1>6, <2>1, <2>2, <2>3, <2>4, <2>5, HandlerStep DEF States
  <1>8. CASE UnsubscribeHeld(n, id) /\ n # "ds"
    <2>1. /\ mState[n] # "Released"
          /\ list' = [list EXCEPT ![n] = Without(list[n], id)]
          /\ mState' = [mState EXCEPT ![n] =
                          IF list'[n] = <<>> THEN "Released"
                          ELSE IF Active(list'[n]) = <<>> THEN "Releasing" ELSE mState[n]]
      BY <1>8 DEF UnsubscribeHeld, WaitsForClose
    <2>2. list'[n] = Without(list[n], id) /\ list' = [list EXCEPT ![n] = list'[n]]
      BY <1>1, <2>1
    <2>3. /\ list'[n] \in Seq(Subscriber) /\ AllActive(list'[n])
          /\ Ids(list'[n]) = Ids(list[n]) \ {id}
      BY <1>1, <1>3, <1>8, <2>2, WithoutOne
    <2>4. list'[n] # <<>> => Active(list'[n]) # <<>>
      <3>1. PICK l \in Seq(Subscriber) : l = list'[n]
        BY <2>3
      <3> QED
        BY <2>3, <3>1, SomebodyActive
    <2>5. /\ mState' = [mState EXCEPT ![n] = mState'[n]]
          /\ mState'[n] = IF list'[n] = <<>> THEN "Released" ELSE mState[n]
      BY <1>1, <2>1, <2>4
    <2>6. ResourcesOK' /\ UNCHANGED <<timers, call>>
      <3>1. CASE UNCHANGED <<fwReq, dsVars>>
        BY <1>1, <3>1 DEF ResourcesOK, dsVars
      <3>2. CASE SendRelease(n)
        BY <1>8, <3>2, ReleaseSent DEF AtlInv, dsVars
      <3> QED
        BY <1>8, <3>1, <3>2 DEF UnsubscribeHeld
    <2>7. \A h \in Handles : client'[h] = "open" =>
             \/ mState'[n] = "Acquired" /\ h \in Ids(list'[n])
             \/ client[h] = "open" /\ ~(mState[n] = "Acquired" /\ h \in Ids(list[n]))
      <3> SUFFICES ASSUME NEW h \in Handles, client'[h] = "open",
                          mState[n] = "Acquired", h \in Ids(list[n])
                   PROVE  mState'[n] = "Acquired" /\ h \in Ids(list'[n])
        BY <1>6
      <3>1. h \in Ids(list'[n])
        BY <1>6, <2>3
      <3>2. list'[n] # <<>>
        BY <2>3, <3>1, EmptyList
      <3> QED
        BY <2>5, <3>1, <3>2
    <2> QED
      BY <1>1, <1>2, <1>3, <1>6, <1>8, <2>2, <2>3, <2>5, <2>6, <2>7, HandlerStep DEF States
  <1>9. CASE UnsubscribeHeld(n, id) /\ n = "ds"
    <2>1. /\ mState[n] # "Released"
          /\ list' = [list EXCEPT ![n] = SetInactive(list[n], id)]
          /\ mState' = [mState EXCEPT ![n] =
                          IF list'[n] = <<>> THEN "Released"
                          ELSE IF Active(list'[n]) = <<>> THEN "Releasing" ELSE mState[n]]
      BY <1>9 DEF UnsubscribeHeld, WaitsForClose
    <2>2. list'[n] = SetInactive(list[n], id) /\ list' = [list EXCEPT ![n] = list'[n]]
      BY <1>1, <2>1
    <2>3. list'[n] \in Seq(Subscriber) /\ list'[n] # <<>>
      BY <1>1, <1>4, <2>2, InactiveOne
    <2>4. /\ mState' = [mState EXCEPT ![n] = mState'[n]]
          /\ mState'[n] \in States /\ mState'[n] # "Released"
      BY <1>1, <2>1, <2>3 DEF States
    <2>5. ResourcesOK' /\ (call' = "none" <=> call = "none")
      <3>1. CASE UNCHANGED <<fwReq, dsVars>>
        BY <1>1, <3>1 DEF ResourcesOK, dsVars
      <3>2. CASE SendRelease(n)
        BY <3>2, ReleaseSent DEF AtlInv
      <3> QED
        BY <1>9, <3>1, <3>2 DEF UnsubscribeHeld
    <2>6. call' # "none" => ~DsDown'
      BY <1>2, <2>5 DEF AtlInv, DsOK, QueueTaken
    <2> QED
      BY <1>1, <1>2, <1>4, <1>6, <1>9, <2>2, <2>3, <2>4, <2>5, <2>6, HandlerStep
  <1> QED
    BY <1>7, <1>8, <1>9 DEF Unsubscribe

\* A grant that is waited for opens the connection of the active subscribers.
LEMMA GrantedKeeps ==
    ASSUME AtlInv, msgQ # <<>>, NEW n \in Nifs, Granted(n), UNCHANGED useEmergencyPdn
    PROVE  AtlInv'
  <1>1. /\ mState \in [Nifs -> States] /\ list \in [Nifs -> Seq(Subscriber)]
        /\ client \in Clients /\ msgQ \in Seq(Message) /\ ResourcesOK
        /\ n # "ds" => n \in AgpsNifs
    BY Shapes
  <1>2. /\ QueueTaken /\ ResourcesOK'
        /\ UNCHANGED <<list, fwConn, timers, call>>
    BY <1>1, TookNothing DEF Granted, fwVars, dsVars, ResourcesOK
  <1>3. n # "ds" => AllActive(list[n]) /\ mState[n] # "Releasing"
    BY <1>1 DEF AtlInv, AgpsListsOK
  <1>4. call' # "none" => ~DsDown'
    BY <1>2, CallKept
  <1>5. list' = [list EXCEPT ![n] = list'[n]] /\ list'[n] = list[n]
    BY <1>1, <1>2
  <1>6. CASE mState[n] = "Pending"
    <2>1. mState' = [mState EXCEPT ![n] = "Acquired"] /\ client' = AtlOpened(Ids(Active(list[n])))
      BY <1>6 DEF Granted
    <2>2. mState' = [mState EXCEPT ![n] = mState'[n]] /\ mState'[n] = "Acquired"
      BY <1>1, <2>1
    <2>3. /\ client' \in Clients
          /\ \A h \in Handles : client[h] = "idle" => client'[h] = "idle"
          /\ \A h \in Handles : client'[h] = "open" =>
                client[h] = "open" \/ h \in Ids(Active(list[n]))
      BY <1>1, <2>1 DEF AtlOpened, Clients
    <2>4. Ids(Active(list[n])) \subseteq Ids(list[n])
      BY <1>1, ActiveOnes
    <2>5. n = "ds" => useEmergencyPdn
      BY <1>6 DEF AtlInv, NoPdnNoCall
    <2>6. \A h \in Handles : client'[h] = "open" =>
             \/ mState'[n] = "Acquired" /\ h \in Ids(list'[n])
             \/ client[h] = "open" /\ ~(mState[n] = "Acquired" /\ h \in Ids(list[n]))
      BY <1>5, <1>6, <2>2, <2>3, <2>4
    <2> QED
      BY <1>1, <1>2, <1>3, <1>4, <1>5, <2>2, <2>3, <2>5, <2>6, HandlerStep DEF States
  <1>7. CASE mState[n] # "Pending"
    <2>1. UNCHANGED <<mState, client>>
      BY <1>7 DEF Granted
    <2>2. UNCHANGED <<fwReq, mRetries, dsHandle>>
      BY DEF Granted, fwVars, dsVars
    <2> QED
      BY <1>1, <1>2, <2>1, <2>2, NobodyHeeds
  <1> QED
    BY <1>6, <1>7

\* The report that the data call is down is handled when there is no call and no
\* other report, and only with the emergency PDN.
LEMMA CallIsDown ==
    ASSUME AtlInv, QueueTaken, DsReleased(Head(msgQ))
    PROVE  call = "none" /\ ~DsDown' /\ useEmergencyPdn /\ mState["ds"] # "Released"
  <1>1. DsDown /\ ~DsDown'
    BY DEF AtlInv, QueueTaken
  <1> QED
    BY <1>1 DEF AtlInv, DsOK, NoPdnNoCall

LEMMA ListCleared == <<>> \in Seq(Subscriber) /\ AllActive(<<>>)
  BY DEF AllActive

\* A request that is denied clears the list, whoever the interface is.
LEMMA DeniedPendingKeeps ==
    ASSUME AtlInv, msgQ # <<>>, NEW n \in Nifs, DeniedPending(n),
           n = "ds" => DsReleased(Head(msgQ)), UNCHANGED <<useEmergencyPdn, fwConn>>
    PROVE  AtlInv'
  <1>1. /\ mState \in [Nifs -> States] /\ list \in [Nifs -> Seq(Subscriber)]
        /\ client \in Clients /\ msgQ \in Seq(Message) /\ ResourcesOK
        /\ n # "ds" => n \in AgpsNifs
    BY Shapes
  <1>2. /\ mState[n] = "Pending" /\ UNCHANGED <<fwReq, timers, call, dsHandle>>
        /\ mState' = [mState EXCEPT ![n] = "Released"] /\ list' = [list EXCEPT ![n] = <<>>]
        /\ mRetries' \in {0, mRetries}
    BY DEF DeniedPending
  <1>3. /\ mState' = [mState EXCEPT ![n] = mState'[n]] /\ mState'[n] = "Released"
        /\ list' = [list EXCEPT ![n] = list'[n]] /\ list'[n] = <<>>
    BY <1>1, <1>2
  <1>4. ResourcesOK'
    <2>1. MaxRetries \in Nat
      BY AtlAssumption
    <2> QED
      BY <1>1, <1>2, <2>1 DEF ResourcesOK
  <1>5. QueueTaken
    <2>1. CASE n = "ds"
      <3>1. PICK l \in Seq(Subscriber) : l = list[n]
        BY <1>1
      <3>2. Took(FallBack(l))
        BY <2>1, <3>1 DEF DeniedPending
      <3> QED
        BY <1>1, <3>2, TookFallBack
    <2>2. CASE n # "ds"
      BY <1>1, <2>2, TookNothing DEF DeniedPending
    <2> QED
      BY <2>1, <2>2
  <1>6. /\ client' \in Clients
        /\ \A h \in Handles : client[h] = "idle" => client'[h] = "idle"
        /\ \A h \in Handles : client'[h] = "open" => client[h] = "open"
    <2>1. client' = client \/ client' = AtlOpenFailed(Ids(list[n]))
      BY DEF DeniedPending
    <2> QED
      BY <1>1, <2>1 DEF AtlOpenFailed, Clients
  <1>7. n = "ds" => call' = "none" /\ ~DsDown' /\ useEmergencyPdn
    BY <1>2, <1>5, CallIsDown
  <1> QED
    BY <1>1, <1>2, <1>3, <1>4, <1>5, <1>6, <1>7, ListCleared, HandlerStep DEF States

\* Nobody denies a data call.
LEMMA DeniedKeeps ==
    ASSUME AtlInv, msgQ # <<>>, NEW n \in AgpsNifs, Denied(n), UNCHANGED useEmergencyPdn
    PROVE  AtlInv'
  <1>1. n \in Nifs /\ n # "ds" /\ client \in Clients /\ msgQ \in Seq(Message)
    BY Shapes
  <1>2. CASE DeniedPending(n)
    BY <1>1, <1>2, DeniedPendingKeeps DEF Denied
  <1>3. CASE Ignored
    <2>1. QueueTaken
      BY <1>1, <1>3, TookNothing DEF Ignored
    <2> QED
      BY <1>1, <1>3, <2>1, NobodyHeeds DEF Ignored, Denied, dsVars
  <1> QED
    BY <1>2, <1>3 DEF Denied

\* A forced release clears the list and tells the clients; those of an emergency
\* data call are not told.
LEMMA ReleasedAcquiredKeeps ==
    ASSUME AtlInv, msgQ # <<>>, NEW n \in Nifs, ReleasedAcquired(n),
           n = "ds" => DsReleased(Head(msgQ)), UNCHANGED <<useEmergencyPdn, fwConn>>
    PROVE  AtlInv'
  <1>1. /\ mState \in [Nifs -> States] /\ list \in [Nifs -> Seq(Subscriber)]
        /\ client \in Clients /\ msgQ \in Seq(Message) /\ ResourcesOK
        /\ n # "ds" => n \in AgpsNifs
    BY Shapes
  <1>2. /\ UNCHANGED <<fwReq, mRetries, timers, call>> /\ Took(<<>>)
        /\ mState' = [mState EXCEPT ![n] = "Released"] /\ list' = [list EXCEPT ![n] = <<>>]
    BY DEF ReleasedAcquired
  <1>3. /\ mState' = [mState EXCEPT ![n] = mState'[n]] /\ mState'[n] = "Released"
        /\ list' = [list EXCEPT ![n] = list'[n]] /\ list'[n] = <<>>
    BY <1>1, <1>2
  <1>4. QueueTaken
    BY <1>1, <1>2, TookNothing
  <1>5. ResourcesOK'
    <2>1. dsHandle' \in BOOLEAN
      BY <1>1 DEF ReleasedAcquired, ResourcesOK
    <2> QED
      BY <1>1, <1>2, <2>1 DEF ResourcesOK
  <1>6. n = "ds" => call' = "none" /\ ~DsDown' /\ useEmergencyPdn
    BY <1>2, <1>4, CallIsDown
  <1>7. /\ client' \in Clients
        /\ \A h \in Handles : client[h] = "idle" => client'[h] = "idle"
        /\ n # "ds" => \A h \in Handles : client'[h] = "open" =>
                          client[h] = "open" /\ h \notin Ids(list[n])
    BY <1>1 DEF ReleasedAcquired, AtlClosed, Clients
  <1> QED
    BY <1>1, <1>2, <1>3, <1>4, <1>5, <1>6, <1>7, ListCleared, HandlerStep DEF States

\* The close of the third interface is complete: it asks again for those who came
\* meanwhile, or is Released.  The other interfaces are never Releasing.
LEMMA ReleasedReleasingKeeps ==
    ASSUME AtlInv, msgQ # <<>>, ReleasedReleasing("ds"), DsReleased(Head(msgQ)),
           UNCHANGED <<useEmergencyPdn, fwConn>>
    PROVE  AtlInv'
  <1>1. /\ mState \in [Nifs -> States] /\ list \in [Nifs -> Seq(Subscriber)]
        /\ client \in Clients /\ msgQ \in Seq(Message) /\ ResourcesOK /\ "ds" \in Nifs
    BY Shapes DEF Nifs
  <1>2. list' = [list EXCEPT !["ds"] = Active(list["ds"])] /\ client' = client
    BY DEF ReleasedReleasing
  <1>3. list' = [list EXCEPT !["ds"] = list'["ds"]] /\ list'["ds"] = Active(list["ds"])
    BY <1>1, <1>2
  <1>4. list'["ds"] \in Seq(Subscriber) /\ AllActive(list'["ds"])
    BY <1>1, <1>3, ActiveOnes
  <1>5. CASE list'["ds"] # <<>>
    <2>1. PICK sent \in BOOLEAN : SendRequest("ds", sent, list'["ds"], FALSE)
      BY <1>5 DEF ReleasedReleasing
    <2>2. mState' = [mState EXCEPT !["ds"] = mState'["ds"]] /\ mState'["ds"] = "Pending"
      BY <1>1, <1>5 DEF ReleasedReleasing
    <2>3. PICK l \in Seq(Subscriber) : l = list'["ds"]
      BY <1>4
    <2>4. Active(l) # <<>>
      BY <1>4, <1>5, <2>3, SomebodyActive
    <2>5. QueueTaken /\ ResourcesOK'
      <3>1. SendRequest("ds", sent, l, FALSE) /\ TypeOK
        BY <2>1, <2>3 DEF AtlInv
      <3> QED
        BY <1>1, <2>4, <3>1, RequestSent
    <2>6. ~DsDown' /\ useEmergencyPdn
      BY <2>5, CallIsDown
    <2> QED
      BY <1>1, <1>2, <1>3, <1>4, <2>2, <2>5, <2>6, HandlerStep DEF States
  <1>6. CASE list'["ds"] = <<>>
    <2>1. /\ mState' = [mState EXCEPT !["ds"] = "Released"]
          /\ dsHandle' = FALSE /\ Took(<<>>) /\ UNCHANGED <<fwReq, mRetries, timers, call>>
      BY <1>6 DEF ReleasedReleasing
    <2>2. mState' = [mState EXCEPT !["ds"] = mState'["ds"]] /\ mState'["ds"] = "Released"
      BY <1>1, <2>1
    <2>3. QueueTaken /\ ResourcesOK'
      BY <1>1, <2>1, TookNothing DEF ResourcesOK
    <2>4. call' = "none" /\ ~DsDown' /\ useEmergencyPdn
      BY <2>1, <2>3, CallIsDown
    <2> QED
      BY <1>1, <1>2, <1>3, <1>4, <2>2, <2>3, <2>4, HandlerStep DEF States
  <1> QED
    BY <1>5, <1>6

LEMMA ReleasedKeeps ==
    ASSUME AtlInv, msgQ # <<>>, NEW n \in Nifs, Released(n),
           n = "ds" => DsReleased(Head(msgQ)), UNCHANGED useEmergencyPdn
    PROVE  AtlInv'
  <1>1. client \in Clients /\ msgQ \in Seq(Message) /\ (n # "ds" => n \in AgpsNifs)
    BY Shapes
  <1>2. UNCHANGED fwConn
    BY DEF Released
  <1>3. CASE ReleasedAcquired(n)
    BY <1>2, <1>3, ReleasedAcquiredKeeps
  <1>4. CASE ReleasedReleasing(n)
    <2>1. n = "ds"
      BY <1>1, <1>4 DEF ReleasedReleasing, AtlInv, AgpsListsOK
    <2> QED
      BY <1>2, <1>4, <2>1, ReleasedReleasingKeeps
  <1>5. CASE n = "ds" /\ DeniedPending(n)
    BY <1>2, <1>5, DeniedPendingKeeps
  <1>6. CASE Ignored
    <2>1. QueueTaken
      BY <1>1, <1>6, TookNothing DEF Ignored
    <2> QED
      BY <1>1, <1>2, <1>6, <2>1, NobodyHeeds DEF Ignored, dsVars
  <1> QED
    BY <1>3, <1>4, <1>5, <1>6 DEF Released

\* EngineUp drops the lists of the framework's interfaces; nobody has an open
\* connection while it is queued.
LEMMA EngineUpKeeps ==
    ASSUME AtlInv, EngineUp, UNCHANGED useEmergencyPdn
    PROVE  AtlInv'
  <1>1. /\ mState \in [Nifs -> States] /\ list \in [Nifs -> Seq(Subscriber)]
        /\ client \in Clients /\ msgQ \in Seq(Message) /\ msgQ # <<>>
        /\ "ds" \in Nifs /\ "ds" \notin AgpsNifs /\ AgpsNifs \subseteq Nifs
    BY Shapes DEF EngineUp, Take, Nifs, AgpsNifs
  <1>2. /\ list' = [n \in Nifs |-> IF n \in AgpsNifs THEN <<>> ELSE list[n]]
        /\ UNCHANGED <<mState, client, fwReq, fwConn, mRetries, timers, call, dsHandle>>
        /\ Took(<<>>)
    BY DEF EngineUp, fwVars, dsVars
  <1>3. QueueTaken
    BY <1>1, <1>2, TookNothing
  <1>4. \A h \in Handles : client[h] = "idle"
    <2>1. 1 \in DOMAIN msgQ /\ msgQ[1].op = "ENGINE_UP"
      BY <1>1 DEF EngineUp, Take
    <2> QED
      BY <2>1 DEF Restarting, AtlInv, RestartingIsIdle
  <1>5. /\ list' \in [Nifs -> Seq(Subscriber)] /\ list'["ds"] = list["ds"]
        /\ \A n \in AgpsNifs : AllActive(list'[n])
    BY <1>1, <1>2, ListCleared
  <1>6. TypeOK'
    BY <1>2, <1>3, <1>5 DEF AtlInv, TypeOK, Subscriber, QueueTaken
  <1>7. AgpsListsOK'
    BY <1>2, <1>5 DEF AtlInv, AgpsListsOK, AllActive
  <1>8. QueueOK' /\ RestartingIsIdle'
    BY <1>2, <1>3, <1>4 DEF AtlInv, QueueTaken, RestartingIsIdle
  <1>9. DsOK'
    BY <1>2, <1>3, <1>5 DEF AtlInv, DsOK, QueueTaken, AllActive
  <1>10. NoPdnNoCall'
    BY <1>2, <1>5 DEF AtlInv, NoPdnNoCall
  <1>11. OpenListed'
    BY <1>2, <1>4 DEF OpenListed
  <1> QED
    BY <1>6, <1>7, <1>8, <1>9, <1>10, <1>11 DEF AtlInv

\* A close for a handle that no interface lists is answered at once.
LEMMA ReleaseATLKeeps ==
    ASSUME AtlInv, ReleaseATL, UNCHANGED useEmergencyPdn
    PROVE  AtlInv'
  <1>1. client \in Clients /\ msgQ \in Seq(Message) /\ msgQ # <<>>
    BY Shapes DEF ReleaseATL, Take
  <1>2. Head(msgQ).id \in Handles /\ "agnss" \in Nifs /\ "internet" \in Nifs /\ "ds" \in Nifs
    BY <1>1, HeadTailProperties, MessageShape DEF ReleaseATL, Take, Nifs, AgpsNifs
  <1>3. PICK id \in Handles : id = Head(msgQ).id
    BY <1>2
  <1>4. CASE \E n \in Nifs : id \in Ids(list[n]) /\ Unsubscribe(n, id)
    BY <1>1, <1>4, UnsubscribeKeeps
  <1>5. CASE client' = AtlClosed({id}) /\ Took(<<>>) /\ UNCHANGED <<mState, list, fwVars, dsVars>>
    <2>1. QueueTaken
      BY <1>1, <1>5, TookNothing
    <2>2. /\ client' \in Clients
          /\ \A h \in Handles : client[h] = "idle" => client'[h] = "idle"
          /\ \A h \in Handles : client'[h] = "open" => client[h] = "open"
      BY <1>1, <1>5 DEF AtlClosed, Clients
    <2>3. UNCHANGED <<mState, list, fwReq, fwConn, mRetries, timers, call, dsHandle>>
      BY <1>5 DEF fwVars, dsVars
    <2> QED
      BY <2>1, <2>2, <2>3, NobodyHeeds
  <1> QED
    BY <1>2, <1>3, <1>4, <1>5 DEF ReleaseATL

\* Every message the engine takes.
LEMMA EngineKeeps ==
    ASSUME AtlInv, Engine, UNCHANGED useEmergencyPdn
    PROVE  AtlInv'
  <1>1. CASE ReleaseATL
    BY <1>1, ReleaseATLKeeps
  <1>2. CASE EngineUp
    BY <1>2, EngineUpKeeps
  <1>3. CASE RequestATL \/ RequestSuplEs \/ RsrcGranted \/ RsrcReleased \/ RsrcDenied
    <2>1. msgQ \in Seq(Message) /\ msgQ # <<>>
      BY <1>3, Shapes DEF RequestATL, RequestSuplEs, RsrcGranted, RsrcReleased, RsrcDenied, Take
    <2>2. PICK m \in Message : m = Head(msgQ)
      BY <2>1, HeadTailProperties
    <2>3. /\ m.op = "ATL" => m.nif \in AgpsNifs /\ m.id \in Handles
          /\ m.op \in {"ES", "CLOSE"} => m.id \in Handles
          /\ m.op \in {"GRANTED", "RELEASED", "DENIED"} => m.nif \in Nifs
      BY MessageShape
    <2>4. /\ "ds" \in Nifs /\ "agnss" \in Nifs /\ "agnss" # "ds"
          /\ \A n \in AgpsNifs : n \in Nifs /\ n # "ds"
          /\ \A n \in Nifs : n # "ds" => n \in AgpsNifs
      BY DEF Nifs, AgpsNifs
    <2>5. CASE RequestATL
      <3>1. m.nif \in AgpsNifs /\ m.id \in Handles /\ Subscribe(m.nif, m.id)
        BY <2>2, <2>3, <2>5 DEF RequestATL, Take
      <3> QED
        BY <2>1, <2>4, <3>1, SubscribeKeeps
    <2>6. CASE RequestSuplEs
      <3>1. PICK n \in Nifs : n = IF useEmergencyPdn THEN "ds" ELSE "agnss"
        BY <2>4
      <3>2. m.id \in Handles /\ Subscribe(n, m.id)
        BY <2>2, <2>3, <2>6, <3>1 DEF RequestSuplEs, Take
      <3> QED
        BY <2>1, <2>4, <3>1, <3>2, SubscribeKeeps
    <2>7. CASE RsrcGranted
      <3>1. m.nif \in Nifs /\ Granted(m.nif)
        BY <2>2, <2>3, <2>7 DEF RsrcGranted, Take
      <3> QED
        BY <2>1, <3>1, GrantedKeeps
    <2>8. CASE RsrcReleased
      <3>1. m.nif \in Nifs /\ Released(m.nif) /\ m.op = "RELEASED"
        BY <2>2, <2>3, <2>8 DEF RsrcReleased, Take
      <3>2. m.nif = "ds" => DsReleased(Head(msgQ))
        BY <2>2, <3>1 DEF DsReleased
      <3> QED
        BY <2>1, <3>1, <3>2, ReleasedKeeps
    <2>9. CASE RsrcDenied
      <3>1. m.nif \in Nifs /\ Denied(m.nif) /\ m.op = "DENIED"
        BY <2>2, <2>3, <2>9 DEF RsrcDenied, Take
      <3>2. m.nif # "ds"
        <4>1. 1 \in 1 .. Len(msgQ) /\ msgQ[1] = m
          BY <2>1, <2>2
        <4> QED
          BY <3>1, <4>1 DEF AtlInv, QueueOK
      <3> QED
        BY <2>1, <2>4, <3>1, <3>2, DeniedKeeps
    <2> QED
      BY <1>3, <2>5, <2>6, <2>7, <2>8, <2>9
  <1> QED
    BY <1>1, <1>2, <1>3 DEF Engine

-----------------------------------------------------------------------------
(* The other threads and processes: they leave the interfaces and their    *)
(* lists alone.                                                            *)

LEMMA OutsideStep ==
    ASSUME AtlInv, UNCHANGED <<useEmergencyPdn, mState, list>>,
           msgQ' \in Seq(Message), QueueOK', ResourcesOK',
           fwConn' \in [AgpsNifs -> {"closed", "opening", "open"}],
           DsDown' => DsDown \/ call # "none",
           call' # "none" => call # "none" /\ ~DsDown',
           timers = 0 => timers' = 0,
           client' \in Clients,
           Restarting' => \A h \in Handles : client'[h] = "idle",
           \A h \in Handles : client'[h] = "open" => client[h] = "open"
    PROVE  AtlInv'
  <1> USE DEF AtlInv
  <1>1. TypeOK'
    BY DEF TypeOK, Clients, ResourcesOK, FwMessage
  <1>2. AgpsListsOK' /\ DsOK' /\ NoPdnNoCall'
    <2>1. AgpsListsOK'
      BY DEF AgpsListsOK, AllActive
    <2>2. DsOK'
      BY DEF DsOK, AllActive
    <2>3. NoPdnNoCall'
      BY DEF NoPdnNoCall
    <2> QED
      BY <2>1, <2>2, <2>3
  <1>3. RestartingIsIdle'
    BY DEF RestartingIsIdle
  <1>4. OpenListed'
    <2> SUFFICES ASSUME ~useEmergencyPdn, NEW h \in Handles, client'[h] = "open"
                 PROVE  \E n \in AgpsNifs : mState'[n] = "Acquired" /\ h \in Ids(list'[n])
      BY DEF OpenListed, Ids
    <2>1. PICK n \in AgpsNifs : mState[n] = "Acquired" /\ h \in Ids(list[n])
      BY DEF OpenListed
    <2> QED
      BY <2>1
  <1> QED
    BY <1>1, <1>2, <1>3, <1>4

\* A message that says nothing of a data call goes to the queue.
LEMMA OtherMessage ==
    ASSUME AtlInv, NEW m \in Message, Post(m), ~DsReleased(m),
           m.op = "DENIED" => m.nif # "ds"
    PROVE  /\ msgQ' \in Seq(Message) /\ QueueOK' /\ (DsDown' => DsDown)
           /\ Restarting' => Restarting \/ m.op = "ENGINE_UP"
  BY PostQueue DEF AtlInv, TypeOK, Post

LEMMA DownWithoutCall ==
    ASSUME AtlInv, DsDown' => DsDown
    PROVE  call # "none" => ~DsDown'
  BY DEF AtlInv, DsOK

\* The modem's requests.  It asks for nothing while a restart is queued.
LEMMA ModemKeeps ==
    ASSUME AtlInv, Modem \/ ModemRestart, UNCHANGED useEmergencyPdn
    PROVE  AtlInv'
  <1>1. client \in Clients /\ msgQ \in Seq(Message) /\ ResourcesOK
    BY Shapes
  <1>2. fwConn \in [AgpsNifs -> {"closed", "opening", "open"}]
    BY DEF AtlInv, TypeOK
  <1>3. ASSUME NEW m \in Message, Post(m), m.op \in {"ATL", "ES", "CLOSE", "ENGINE_UP"},
               UNCHANGED <<mState, list, fwVars, dsVars>>, client' \in Clients,
               Restarting' => \A h \in Handles : client'[h] = "idle",
               \A h \in Handles : client'[h] = "open" => client[h] = "open"
        PROVE  AtlInv'
    <2>1. ~DsReleased(m) /\ m.op # "DENIED"
      BY <1>3 DEF DsReleased
    <2>2. msgQ' \in Seq(Message) /\ QueueOK' /\ (DsDown' => DsDown)
      BY <1>3, <2>1, OtherMessage
    <2>3. call # "none" => ~DsDown'
      BY <2>2, DownWithoutCall
    <2>4. UNCHANGED <<fwReq, fwConn, mRetries, timers, call, dsHandle>>
      BY <1>3 DEF fwVars, dsVars
    <2>5. ResourcesOK'
      BY <1>1, <2>4 DEF ResourcesOK
    <2> QED
      BY <1>2, <1>3, <2>2, <2>3, <2>4, <2>5, OutsideStep
  <1>4. ASSUME NEW h \in Handles, ModemOpen(h) PROVE AtlInv'
    <2>1. PICK k \in Kinds[useEmergencyPdn] : Post(RequestOf(k, h))
      BY <1>4 DEF ModemOpen
    <2>2. k \in {"SUPL", "ANY", "ES"}
      BY AtlAssumption DEF AtlInv, TypeOK
    <2>3. PICK m : m = RequestOf(k, h)
      OBVIOUS
    <2>4. m \in Message /\ m.op \in {"ATL", "ES"}
      BY <2>2, <2>3 DEF RequestOf, Message, AgpsNifs
    <2>5. /\ client' = [client EXCEPT ![h] = "opening"] /\ ~Restarting
          /\ UNCHANGED <<mState, list, fwVars, dsVars>>
      BY <1>4 DEF ModemOpen
    <2>6. /\ client' \in Clients
          /\ \A x \in Handles : client'[x] = "open" => client[x] = "open"
      BY <1>1, <2>5 DEF Clients
    <2>7. ~Restarting'
      BY <1>1, <2>1, <2>3, <2>4, <2>5, PostQueue DEF Post
    <2> QED
      BY <1>3, <2>1, <2>3, <2>4, <2>5, <2>6, <2>7
  <1>5. ASSUME NEW h \in Handles, ModemClose(h) PROVE AtlInv'
    <2>1. PICK m : m = [op |-> "CLOSE", id |-> h]
      OBVIOUS
    <2>2. m \in Message /\ m.op = "CLOSE"
      BY <2>1 DEF Message
    <2>3. /\ client' = [client EXCEPT ![h] = "closing"] /\ Post(m)
          /\ client[h] \in {"opening", "open"}
          /\ UNCHANGED <<mState, list, fwVars, dsVars>>
      BY <1>5, <2>1 DEF ModemClose
    <2>4. /\ client' \in Clients
          /\ \A x \in Handles : client'[x] = "open" => client[x] = "open"
      BY <1>1, <2>3 DEF Clients
    <2>5. ~Restarting
      BY <2>3 DEF AtlInv, RestartingIsIdle
    <2>6. ~Restarting'
      BY <1>1, <2>2, <2>3, <2>5, PostQueue DEF Post
    <2> QED
      BY <1>3, <2>2, <2>3, <2>4, <2>6
  <1>6. CASE ModemRestart
    <2>1. PICK m : m = [op |-> "ENGINE_UP"]
      OBVIOUS
    <2>2. m \in Message /\ m.op = "ENGINE_UP"
      BY <2>1 DEF Message
    <2>3. /\ client' = [h \in Handles |-> "idle"] /\ Post(m)
          /\ UNCHANGED <<mState, list, fwVars, dsVars>>
      BY <1>6, <2>1 DEF ModemRestart
    <2>4. client' \in Clients /\ \A h \in Handles : client'[h] = "idle"
      BY <2>3 DEF Clients
    <2> QED
      BY <1>3, <2>2, <2>3, <2>4
  <1> QED
    BY <1>4, <1>5, <1>6 DEF Modem

\* The retry timer and the data services library.
LEMMA DataServiceKeeps ==
    ASSUME AtlInv, DataService, UNCHANGED useEmergencyPdn
    PROVE  AtlInv'
  <1>1. /\ client \in Clients /\ msgQ \in Seq(Message) /\ ResourcesOK
        /\ list \in [Nifs -> Seq(Subscriber)] /\ "ds" \in Nifs
    BY Shapes DEF Nifs
  <1>2. fwConn \in [AgpsNifs -> {"closed", "opening", "open"}] /\ QueueOK
        /\ (Restarting => \A h \in Handles : client[h] = "idle")
    BY DEF AtlInv, TypeOK, RestartingIsIdle
  <1>3. CASE RetryTimer
    <2>1. /\ timers > 0 /\ timers' = timers - 1
          /\ UNCHANGED <<mState, list, client, fwReq, fwConn, mRetries, call, dsHandle>>
      BY <1>3 DEF RetryTimer, fwVars
    <2>2. ResourcesOK'
      BY <1>1, <2>1 DEF ResourcesOK
    <2>3. msgQ' \in Seq(Message) /\ QueueOK' /\ (DsDown' => DsDown) /\ (Restarting' => Restarting)
      <3>1. CASE Active(list["ds"]) # <<>>
        <4>1. PICK l \in Seq(Subscriber) : l = list["ds"]
          BY <1>1
        <4>2. PICK m : m = [op |-> "ES", id |-> Head(Active(l)).id]
          OBVIOUS
        <4>3. Head(Active(l)) \in Subscriber
          BY <3>1, <4>1, ActiveOnes, HeadTailProperties
        <4>4. m \in Message /\ m.op = "ES" /\ ~DsReleased(m)
          BY <4>2, <4>3 DEF Message, Subscriber, DsReleased
        <4>5. Post(m)
          BY <1>3, <3>1, <4>1, <4>2 DEF RetryTimer
        <4> QED
          BY <4>4, <4>5, OtherMessage
      <3>2. CASE Active(list["ds"]) = <<>>
        <4>1. msgQ' = msgQ
          BY <1>3, <3>2 DEF RetryTimer
        <4> QED
          BY <1>1, <1>2, <4>1 DEF QueueOK, DsDown, Restarting, DsReleased
      <3> QED
        BY <3>1, <3>2
    <2>4. call # "none" => ~DsDown'
      BY <2>3, DownWithoutCall
    <2> QED
      BY <1>1, <1>2, <2>1, <2>2, <2>3, <2>4, OutsideStep
  <1>4. CASE DataCallOpened
    <2>1. PICK m : m = [op |-> "GRANTED", nif |-> "ds"]
      OBVIOUS
    <2>2. m \in Message /\ m.op = "GRANTED" /\ ~DsReleased(m)
      BY <2>1 DEF Message, DsReleased, Nifs
    <2>3. /\ call = "starting" /\ call' = "up" /\ Post(m)
          /\ UNCHANGED <<mState, list, client, fwReq, fwConn, mRetries, timers, dsHandle>>
      BY <1>4, <2>1 DEF DataCallOpened, fwVars
    <2>4. msgQ' \in Seq(Message) /\ QueueOK' /\ (DsDown' => DsDown) /\ (Restarting' => Restarting)
      BY <2>2, <2>3, OtherMessage
    <2>5. ResourcesOK' /\ ~DsDown'
      BY <1>1, <2>3, <2>4, DownWithoutCall DEF ResourcesOK
    <2> QED
      BY <1>1, <1>2, <2>3, <2>4, <2>5, OutsideStep
  <1>5. CASE DataCallClosed
    <2>1. PICK m : m = [op |-> "RELEASED", nif |-> "ds"]
      OBVIOUS
    <2>2. m \in Message /\ m.op = "RELEASED"
      BY <2>1 DEF Message, Nifs
    <2>3. /\ call # "none" /\ call' = "none" /\ Post(m)
          /\ UNCHANGED <<mState, list, client, fwReq, fwConn, mRetries, timers, dsHandle>>
      BY <1>5, <2>1 DEF DataCallClosed, fwVars
    <2>4. ~DsDown
      BY <2>3 DEF AtlInv, DsOK
    <2>5. msgQ' \in Seq(Message) /\ QueueOK' /\ (Restarting' => Restarting)
      BY <1>1, <1>2, <2>2, <2>3, <2>4, PostQueue DEF Post
    <2>6. ResourcesOK'
      BY <1>1, <2>3 DEF ResourcesOK
    <2> QED
      BY <1>1, <1>2, <2>3, <2>5, <2>6, OutsideStep
  <1> QED
    BY <1>3, <1>4, <1>5 DEF DataService

\* The framework answers for its own interfaces only.
LEMMA FrameworkKeeps ==
    ASSUME AtlInv, Framework, UNCHANGED useEmergencyPdn
    PROVE  AtlInv'
  <1> DEFINE Conns == [AgpsNifs -> {"closed", "opening", "open"}]
  <1>1. /\ client \in Clients /\ msgQ \in Seq(Message) /\ ResourcesOK
        /\ \A n \in AgpsNifs : n \in Nifs /\ n # "ds"
    BY Shapes
  <1>2. fwConn \in Conns /\ QueueOK
        /\ (Restarting => \A h \in Handles : client[h] = "idle")
    BY DEF AtlInv, TypeOK, RestartingIsIdle
  <1>3. ASSUME UNCHANGED <<mState, list, client, dsVars>>, fwConn' \in Conns,
               fwReq' \in Seq(FwMessage),
               \/ UNCHANGED msgQ
               \/ \E op \in {"GRANTED", "RELEASED", "DENIED"}, n \in AgpsNifs :
                     Post([op |-> op, nif |-> n])
        PROVE  AtlInv'
    <2>1. msgQ' \in Seq(Message) /\ QueueOK' /\ (DsDown' => DsDown) /\ (Restarting' => Restarting)
      <3>1. CASE UNCHANGED msgQ
        BY <1>1, <1>2, <3>1 DEF QueueOK, DsDown, Restarting, DsReleased
      <3>2. ASSUME NEW op \in {"GRANTED", "RELEASED", "DENIED"}, NEW n \in AgpsNifs,
                   Post([op |-> op, nif |-> n])
            PROVE  msgQ' \in Seq(Message) /\ QueueOK' /\ (DsDown' => DsDown) /\ (Restarting' => Restarting)
        <4>1. PICK m : m = [op |-> op, nif |-> n]
          OBVIOUS
        <4>2. m \in Message /\ m.nif # "ds" /\ m.op # "ENGINE_UP" /\ ~DsReleased(m)
          BY <1>1, <4>1 DEF Message, DsReleased
        <4> QED
          BY <3>2, <4>1, <4>2, OtherMessage
      <3> QED
        BY <1>3, <3>1, <3>2
    <2>2. call # "none" => ~DsDown'
      BY <2>1, DownWithoutCall
    <2>3. UNCHANGED <<mRetries, timers, call, dsHandle>>
      BY <1>3 DEF dsVars
    <2>4. ResourcesOK'
      BY <1>1, <1>3, <2>3 DEF ResourcesOK
    <2> QED
      BY <1>1, <1>2, <1>3, <2>1, <2>2, <2>3, <2>4, OutsideStep
  <1>4. ASSUME fwReq # <<>> PROVE Head(fwReq).nif \in AgpsNifs /\ Tail(fwReq) \in Seq(FwMessage)
    <2>1. fwReq \in Seq(FwMessage)
      BY <1>1 DEF ResourcesOK
    <2>2. Head(fwReq) \in FwMessage /\ Tail(fwReq) \in Seq(FwMessage)
      BY <1>4, <2>1, HeadTailProperties
    <2> QED
      BY <2>2 DEF FwMessage
  <1>5. CASE FwRequest
    BY <1>2, <1>3, <1>4, <1>5 DEF FwRequest
  <1>6. CASE FwRelease
    BY <1>2, <1>3, <1>4, <1>6 DEF FwRelease
  <1>7. ASSUME NEW n \in AgpsNifs, FwAnswer(n) PROVE AtlInv'
    BY <1>1, <1>2, <1>3, <1>7 DEF FwAnswer, ResourcesOK
  <1>8. ASSUME NEW n \in AgpsNifs, FwDrop(n) PROVE AtlInv'
    BY <1>1, <1>2, <1>3, <1>8 DEF FwDrop, ResourcesOK
  <1> QED
    BY <1>5, <1>6, <1>7, <1>8 DEF Framework

-----------------------------------------------------------------------------
LEMMA InitCorrect == Init => AtlInv
  <1> SUFFICES ASSUME Init PROVE AtlInv
    OBVIOUS
  <1>1. /\ msgQ = <<>> /\ Len(<<>>) = 0 /\ DOMAIN <<>> = {} /\ 1 .. 0 = {}
        /\ list = [n \in Nifs |-> <<>>] /\ mState = [n \in Nifs |-> "Released"]
        /\ client = [h \in Handles |-> "idle"] /\ call = "none" /\ timers = 0
    BY DEF Init
  <1>2. "ds" \in Nifs /\ AgpsNifs \subseteq Nifs
    BY DEF Nifs
  <1>3. TypeOK
    <2>1. <<>> \in Seq([id : Handles, inactive : BOOLEAN]) /\ <<>> \in Seq(Message)
          /\ <<>> \in Seq([nif : AgpsNifs, action : {"REQUEST", "RELEASE"}])
      OBVIOUS
    <2>2. 0 \in 0 .. MaxRetries /\ 0 \in Nat
      BY AtlAssumption
    <2> QED
      BY <1>1, <2>1, <2>2 DEF Init, TypeOK
  <1>4. AgpsListsOK
    BY <1>1, <1>2 DEF AgpsListsOK, AllActive
  <1>5. ~DsDown /\ QueueOK /\ ~Restarting
    BY <1>1 DEF DsDown, QueueOK, Restarting
  <1>6. DsOK /\ NoPdnNoCall
    BY <1>1, <1>2, <1>5 DEF DsOK, NoPdnNoCall, AllActive
  <1>7. RestartingIsIdle /\ OpenListed
    BY <1>1, <1>5 DEF RestartingIsIdle, OpenListed
  <1> QED
    BY <1>3, <1>4, <1>5, <1>6, <1>7 DEF AtlInv

LEMMA NextKeeps == AtlInv /\ [Next]_vars => AtlInv'
  <1> SUFFICES ASSUME AtlInv, [Next]_vars PROVE AtlInv'
    OBVIOUS
  <1>1. CASE UNCHANGED vars
    <2>1. UNCHANGED <<useEmergencyPdn, mState, list, msgQ, client, fwReq, fwConn,
                      mRetries, timers, call, dsHandle>>
      BY <1>1 DEF vars
    <2>2. /\ client \in Clients /\ msgQ \in Seq(Message) /\ ResourcesOK
          /\ fwConn \in [AgpsNifs -> {"closed", "opening", "open"}]
          /\ call # "none" => ~DsDown
          /\ Restarting => \A h \in Handles : client[h] = "idle"
      BY Shapes DEF AtlInv, TypeOK, DsOK, RestartingIsIdle
    <2>3. ResourcesOK' /\ DsDown' = DsDown /\ Restarting' = Restarting
      BY <2>1, <2>2 DEF ResourcesOK, DsDown, DsReleased, Restarting
    <2>4. QueueOK'
      BY <2>1 DEF AtlInv, QueueOK, DsReleased
    <2> QED
      BY <2>1, <2>2, <2>3, <2>4, OutsideStep
  <1>2. CASE Next
    BY <1>2, ModemKeeps, EngineKeeps, FrameworkKeeps, DataServiceKeeps DEF Next
  <1> QED
    BY <1>1, <1>2

\* The inductive invariant, for every set of handles and every bound.
THEOREM AtlCorrect == Spec => []AtlInv
  BY InitCorrect, NextKeeps, PTL DEF Spec

-----------------------------------------------------------------------------
(* Who holds the emergency data call.                                      *)

\* The handles of the active subscribers.
LEMMA ActiveIds ==
    ASSUME NEW l \in Seq(Subscriber)
    PROVE  \A h : h \in Ids(Active(l)) <=> \E i \in DOMAIN l : ~l[i].inactive /\ l[i].id = h
  <1> PICK w : w = Active(l)
    OBVIOUS
  <1>1. /\ \A j \in DOMAIN w : \E i \in DOMAIN l : ~l[i].inactive /\ l[i] = w[j]
        /\ \A i \in DOMAIN l : ~l[i].inactive => \E j \in DOMAIN w : w[j] = l[i]
    <2> PICK K : K = {i \in DOMAIN l : ~l[i].inactive}
      OBVIOUS
    <2>1. w = Kept(l, K)
      BY DEF Active
    <2>2. Keeps(w, l, K)
      BY <2>1, KeptElements
    <2> QED
      BY <2>2 DEF Keeps
  <1>2. ASSUME NEW h, h \in Ids(w)
        PROVE  \E i \in DOMAIN l : ~l[i].inactive /\ l[i].id = h
    <2>1. PICK j \in DOMAIN w : w[j].id = h
      BY <1>2, IdsOf
    <2> QED
      BY <1>1, <2>1
  <1>3. ASSUME NEW h, NEW i \in DOMAIN l, ~l[i].inactive, l[i].id = h
        PROVE  h \in Ids(w)
    <2>1. PICK j \in DOMAIN w : w[j] = l[i]
      BY <1>1, <1>3
    <2> QED
      BY <1>3, <2>1, IdsOf
  <1> QED
    BY <1>2, <1>3

\* addSubscriber makes nobody inactive, and at most the handle active.
LEMMA AddActive ==
    ASSUME NEW l \in Seq(Subscriber), NEW id \in Handles
    PROVE  /\ Ids(Active(l)) \subseteq Ids(Active(AddSubscriber(l, id)))
           /\ Ids(Active(AddSubscriber(l, id))) \subseteq Ids(Active(l)) \cup {id}
  <1>1. CASE id \in Ids(l)
    BY <1>1 DEF AddSubscriber
  <1>2. CASE id \notin Ids(l)
    <2> DEFINE e == [id |-> id, inactive |-> FALSE]
    <2> PICK w : w = <<e>> \o l
      OBVIOUS
    <2>1. e \in Subscriber /\ e.id = id
      BY DEF Subscriber
    <2>2. w = AddSubscriber(l, id)
      BY <1>2 DEF AddSubscriber
    <2> HIDE DEF e
    <2>3. /\ w \in Seq(Subscriber) /\ Len(w) = Len(l) + 1 /\ w[1] = e
          /\ \A i \in 1 .. Len(l) : w[i + 1] = l[i]
      BY <2>1
    <2>4. DOMAIN l = 1 .. Len(l) /\ DOMAIN w = 1 .. Len(w) /\ Len(l) \in Nat
      BY <2>3
    <2>5. \A i \in DOMAIN l : i + 1 \in DOMAIN w /\ w[i + 1] = l[i]
      BY <2>3, <2>4
    <2>6. \A j \in DOMAIN w : w[j] = e \/ \E i \in DOMAIN l : w[j] = l[i]
      <3> SUFFICES ASSUME NEW j \in DOMAIN w, j # 1 PROVE \E i \in DOMAIN l : w[j] = l[i]
        BY <2>3
      <3>1. j - 1 \in DOMAIN l /\ w[j - 1 + 1] = l[j - 1]
        BY <2>3, <2>4
      <3> QED
        BY <3>1, <2>4
    <2>7. \A h : h \in Ids(Active(w)) <=> \E i \in DOMAIN w : ~w[i].inactive /\ w[i].id = h
      BY <2>3, ActiveIds
    <2>8. \A h : h \in Ids(Active(l)) <=> \E i \in DOMAIN l : ~l[i].inactive /\ l[i].id = h
      BY ActiveIds
    <2>9. Ids(Active(l)) \subseteq Ids(Active(w))
      <3> SUFFICES ASSUME NEW h \in Ids(Active(l)) PROVE h \in Ids(Active(w))
        OBVIOUS
      <3>1. PICK i \in DOMAIN l : ~l[i].inactive /\ l[i].id = h
        BY <2>8
      <3>2. i + 1 \in DOMAIN w /\ w[i + 1] = l[i]
        BY <2>5
      <3>3. ~w[i + 1].inactive /\ w[i + 1].id = h
        BY <3>1, <3>2
      <3> QED
        BY <2>7, <3>2, <3>3
    <2>10. Ids(Active(w)) \subseteq Ids(Active(l)) \cup {id}
      BY <2>1, <2>6, <2>7, <2>8
    <2> QED
      BY <2>2, <2>9, <2>10
  <1> QED
    BY <1>1, <1>2

\* setInactive makes nobody active.
LEMMA SetInactiveActive ==
    ASSUME NEW l \in Seq(Subscriber), NEW id
    PROVE  Ids(Active(SetInactive(l, id))) \subseteq Ids(Active(l))
  <1> PICK w : w = SetInactive(l, id)
    OBVIOUS
  <1>1. w \in Seq(Subscriber)
    BY InactiveOne
  <1>2. DOMAIN w = DOMAIN l
    BY DEF SetInactive
  <1>3. \A i \in DOMAIN l : w[i].id = l[i].id /\ (~w[i].inactive => ~l[i].inactive)
    <2> SUFFICES ASSUME NEW i \in DOMAIN l
                 PROVE  w[i].id = l[i].id /\ (~w[i].inactive => ~l[i].inactive)
      OBVIOUS
    <2> PICK x \in Subscriber : x = l[i]
      OBVIOUS
    <2>1. w[i] = [x EXCEPT !.inactive = x.inactive \/ x.id = id]
      BY DEF SetInactive
    <2>2. w[i].id = x.id /\ w[i].inactive = (x.inactive \/ x.id = id)
      BY <2>1 DEF Subscriber
    <2> QED
      BY <2>2
  <1>4. \A h : h \in Ids(Active(w)) <=> \E i \in DOMAIN w : ~w[i].inactive /\ w[i].id = h
    BY <1>1, ActiveIds
  <1>5. \A h : h \in Ids(Active(l)) <=> \E i \in DOMAIN l : ~l[i].inactive /\ l[i].id = h
    BY ActiveIds
  <1> QED
    BY <1>2, <1>3, <1>4, <1>5

\* A call has its handle, an interface that waits for one or has one an active
\* subscriber, and one that waits for its end a subscriber.
CallHeld ==
    /\ call # "none" => dsHandle
    /\ mState["ds"] \in {"Pending", "Acquired"} => Active(list["ds"]) # <<>>
    /\ mState["ds"] = "Releasing" => list["ds"] # <<>>

\* A handler keeps that, and makes at most the handles of K active subscribers.
Holds(K) ==
    /\ QueueTaken /\ CallHeld'
    /\ Ids(Active(list'["ds"])) \subseteq Ids(Active(list["ds"])) \cup K

LEMMA DsApart ==
    ASSUME CallHeld, QueueTaken, NEW K, list'["ds"] = list["ds"],
           mState'["ds"] = mState["ds"], UNCHANGED <<call, dsHandle>>
    PROVE  Holds(K)
  BY Zenon DEF Holds, CallHeld

\* Only a request that allocated the handle leaves a call.
LEMMA RequestHasHandle ==
    ASSUME NEW sent \in BOOLEAN, NEW l, NEW handle \in BOOLEAN, call # "none" => handle,
           SendRequest("ds", sent, l, handle)
    PROVE  call' # "none" => dsHandle'
  BY DEF SendRequest, DataCallStarted, DataCallBusy, DataCallUnsupported

LEMMA SubscribeHolds ==
    ASSUME AtlInv, CallHeld, msgQ # <<>>, NEW n \in Nifs, NEW id \in Handles, Subscribe(n, id)
    PROVE  Holds(IF n = "ds" THEN {id} ELSE {})
  <1>1. /\ mState \in [Nifs -> States] /\ list \in [Nifs -> Seq(Subscriber)]
        /\ msgQ \in Seq(Message) /\ ResourcesOK /\ "ds" \in Nifs
    BY Shapes DEF Nifs
  <1>2. list' = [list EXCEPT ![n] = AddSubscriber(list[n], id)]
    BY DEF Subscribe, SubscribeReleased, SubscribeWaiting, SubscribeAcquired
  <1>3. PICK l \in Seq(Subscriber) : l = list[n]
    BY <1>1
  <1>4. PICK w \in Seq(Subscriber) : w = list'[n] /\ w = AddSubscriber(l, id)
    BY <1>1, <1>2, <1>3, AddOne
  <1>5. w # <<>> /\ (AllActive(l) => AllActive(w))
    BY <1>4, AddOne
  <1>6. Ids(Active(l)) \subseteq Ids(Active(w)) /\ Ids(Active(w)) \subseteq Ids(Active(l)) \cup {id}
    BY <1>4, AddActive
  <1>7. Active(l) # <<>> => Active(w) # <<>>
    BY <1>6, ActiveOnes, EmptyList
  <1>8. CASE SubscribeReleased(n, id)
    <2>1. PICK sent \in BOOLEAN :
             /\ SendRequest(n, sent, w, dsHandle)
             /\ mState' = IF sent THEN [mState EXCEPT ![n] = "Pending"] ELSE mState
      BY <1>4, <1>8 DEF SubscribeReleased
    <2>2. mState[n] = "Released"
      BY <1>8 DEF SubscribeReleased
    <2>3. AllActive(l)
      BY <1>1, <1>3, <2>2, Shapes DEF AtlInv, DsOK, AgpsListsOK
    <2>4. Active(w) # <<>>
      BY <1>5, <2>3, SomebodyActive
    <2>5. QueueTaken /\ (n # "ds" => UNCHANGED dsVars)
      <3>1. PICK handle \in BOOLEAN : handle = dsHandle
        BY <1>1 DEF ResourcesOK
      <3>2. SendRequest(n, sent, w, handle) /\ TypeOK
        BY <2>1, <3>1 DEF AtlInv
      <3> QED
        BY <2>4, <3>2, RequestSent
    <2>6. CASE n # "ds"
      <3>1. list'["ds"] = list["ds"] /\ mState'["ds"] = mState["ds"] /\ UNCHANGED <<call, dsHandle>>
        BY <1>1, <1>2, <2>1, <2>5, <2>6 DEF dsVars
      <3> QED
        BY <2>5, <3>1, DsApart
    <2>7. CASE n = "ds"
      <3>1. call' # "none" => dsHandle'
        <4>1. dsHandle \in BOOLEAN /\ (call # "none" => dsHandle)
          BY <1>1 DEF ResourcesOK, CallHeld
        <4> QED
          BY <2>1, <2>7, <4>1, RequestHasHandle
      <3>2. mState'["ds"] \in {"Pending", "Released"}
        BY <1>1, <2>1, <2>2, <2>7
      <3> QED
        BY <1>3, <1>4, <1>6, <2>4, <2>5, <2>7, <3>1, <3>2 DEF Holds, CallHeld
    <2> QED
      BY <2>6, <2>7
  <1>9. CASE SubscribeWaiting(n, id) \/ SubscribeAcquired(n, id)
    <2>1. Took(<<>>) /\ UNCHANGED <<mState, call, dsHandle>>
      BY <1>9 DEF SubscribeWaiting, SubscribeAcquired, dsVars
    <2>2. QueueTaken
      BY <1>1, <2>1, TookNothing
    <2>3. CASE n # "ds"
      <3>1. list'["ds"] = list["ds"]
        BY <1>1, <1>2, <2>3
      <3> QED
        BY <2>1, <2>2, <3>1, DsApart
    <2>4. CASE n = "ds"
      BY <1>3, <1>4, <1>5, <1>6, <1>7, <2>1, <2>2, <2>4 DEF Holds, CallHeld
    <2> QED
      BY <2>3, <2>4
  <1> QED
    BY <1>8, <1>9 DEF Subscribe

LEMMA UnsubscribeHolds ==
    ASSUME AtlInv, CallHeld, msgQ # <<>>, NEW n \in Nifs, NEW id \in Handles,
           id \in Ids(list[n]), Unsubscribe(n, id)
    PROVE  Holds({})
  <1>1. /\ mState \in [Nifs -> States] /\ list \in [Nifs -> Seq(Subscriber)]
        /\ msgQ \in Seq(Message) /\ ResourcesOK /\ "ds" \in Nifs
    BY Shapes DEF Nifs
  <1>2. QueueTaken
    BY <1>1, TookNothing DEF Unsubscribe
  <1>3. CASE UnsubscribeReleased(n, id)
    <2>1. UNCHANGED <<mState, list, call, dsHandle>>
      BY <1>3 DEF UnsubscribeReleased, dsVars
    <2> QED
      BY <1>2, <2>1, DsApart
  <1>4. CASE UnsubscribeHeld(n, id) /\ n # "ds"
    <2>1. UNCHANGED <<call, dsHandle>>
      BY <1>4 DEF UnsubscribeHeld, SendRelease, dsVars
    <2>2. list'["ds"] = list["ds"] /\ mState'["ds"] = mState["ds"]
      BY <1>1, <1>4 DEF UnsubscribeHeld
    <2> QED
      BY <1>2, <2>1, <2>2, DsApart
  <1>5. CASE UnsubscribeHeld(n, id) /\ n = "ds"
    <2>1. PICK l \in Seq(Subscriber) : l = list["ds"]
      BY <1>1
    <2>2. PICK w \in Seq(Subscriber) : w = SetInactive(l, id)
      BY InactiveOne
    <2>3. /\ list'["ds"] = w
          /\ mState'["ds"] = IF w = <<>> THEN "Released"
                             ELSE IF Active(w) = <<>> THEN "Releasing" ELSE mState["ds"]
      BY <1>1, <1>5, <2>1, <2>2 DEF UnsubscribeHeld, WaitsForClose
    <2>4. w # <<>>
      BY <1>5, <2>1, <2>2, EmptyList, InactiveOne
    <2>5. Ids(Active(w)) \subseteq Ids(Active(l))
      BY <2>2, SetInactiveActive
    <2>6. call' # "none" => dsHandle'
      BY <1>5 DEF UnsubscribeHeld, SendRelease, StopDataCall, dsVars, CallHeld
    <2> QED
      BY <1>2, <2>1, <2>3, <2>4, <2>5, <2>6 DEF Holds, CallHeld
  <1> QED
    BY <1>3, <1>4, <1>5 DEF Unsubscribe

\* Nobody is active on the list of an interface that was denied or released.
LEMMA NobodyActive == Active(<<>>) = <<>> /\ Ids(Active(<<>>)) = {}
  <1>1. <<>> \in Seq(Subscriber) /\ Ids(<<>>) = {}
    BY ListCleared, EmptyList
  <1>2. Active(<<>>) \in Seq(Subscriber) /\ Ids(Active(<<>>)) = {}
    BY <1>1, ActiveOnes
  <1> QED
    BY <1>2, EmptyList

LEMMA DeniedPendingHolds ==
    ASSUME AtlInv, CallHeld, msgQ # <<>>, NEW n \in Nifs, DeniedPending(n)
    PROVE  Holds({})
  <1>1. /\ mState \in [Nifs -> States] /\ list \in [Nifs -> Seq(Subscriber)]
        /\ msgQ \in Seq(Message) /\ "ds" \in Nifs
    BY Shapes DEF Nifs
  <1>2. /\ mState' = [mState EXCEPT ![n] = "Released"] /\ list' = [list EXCEPT ![n] = <<>>]
        /\ UNCHANGED <<call, dsHandle>>
    BY DEF DeniedPending
  <1>3. QueueTaken
    <2>1. PICK l \in Seq(Subscriber) : l = list[n]
      BY <1>1
    <2>2. Took(FallBack(l)) \/ Took(<<>>)
      BY <2>1 DEF DeniedPending
    <2> QED
      BY <1>1, <2>2, TookFallBack, TookNothing
  <1>4. CASE n # "ds"
    <2>1. list'["ds"] = list["ds"] /\ mState'["ds"] = mState["ds"]
      BY <1>1, <1>2, <1>4
    <2> QED
      BY <1>2, <1>3, <2>1, DsApart
  <1>5. CASE n = "ds"
    <2>1. list'["ds"] = <<>> /\ mState'["ds"] = "Released"
      BY <1>1, <1>2, <1>5
    <2> QED
      BY <1>2, <1>3, <2>1, NobodyActive DEF Holds, CallHeld
  <1> QED
    BY <1>4, <1>5

LEMMA ReleasedHolds ==
    ASSUME AtlInv, CallHeld, msgQ # <<>>, NEW n \in Nifs, Released(n),
           n = "ds" => DsReleased(Head(msgQ))
    PROVE  Holds({})
  <1>1. /\ mState \in [Nifs -> States] /\ list \in [Nifs -> Seq(Subscriber)]
        /\ msgQ \in Seq(Message) /\ "ds" \in Nifs /\ (n # "ds" => n \in AgpsNifs)
    BY Shapes DEF Nifs
  <1>2. n = "ds" => call = "none"
    <2>1. DsReleased(Head(msgQ)) => DsDown
      <3>1. 1 \in 1 .. Len(msgQ) /\ msgQ[1] = Head(msgQ)
        BY <1>1
      <3> QED
        BY <3>1 DEF DsDown, DsReleased
    <2> QED
      BY <2>1 DEF AtlInv, DsOK
  <1>3. CASE ReleasedAcquired(n)
    <2>1. /\ mState' = [mState EXCEPT ![n] = "Released"] /\ list' = [list EXCEPT ![n] = <<>>]
          /\ call' = call /\ (n # "ds" => dsHandle' = dsHandle) /\ Took(<<>>)
      BY <1>3 DEF ReleasedAcquired
    <2>2. QueueTaken
      BY <1>1, <2>1, TookNothing
    <2>3. CASE n # "ds"
      <3>1. list'["ds"] = list["ds"] /\ mState'["ds"] = mState["ds"]
        BY <1>1, <2>1, <2>3
      <3> QED
        BY <2>1, <2>2, <2>3, <3>1, DsApart
    <2>4. CASE n = "ds"
      <3>1. list'["ds"] = <<>> /\ mState'["ds"] = "Released" /\ call' = "none"
        BY <1>1, <1>2, <2>1, <2>4
      <3> QED
        BY <2>2, <3>1, NobodyActive DEF Holds, CallHeld
    <2> QED
      BY <2>3, <2>4
  <1>4. CASE ReleasedReleasing(n)
    <2>1. n = "ds"
      BY <1>1, <1>4 DEF ReleasedReleasing, AtlInv, AgpsListsOK
    <2>2. PICK l \in Seq(Subscriber) : l = list["ds"]
      BY <1>1
    <2>3. PICK w \in Seq(Subscriber) : w = Active(l) /\ w = list'["ds"]
      BY <1>1, <1>4, <2>1, <2>2, ActiveOnes DEF ReleasedReleasing
    <2>4. AllActive(w) /\ Ids(Active(w)) = Ids(Active(l))
      BY <2>2, <2>3, ActiveOnes
    <2>5. CASE w # <<>>
      <3>1. PICK sent \in BOOLEAN : SendRequest("ds", sent, w, FALSE)
        BY <1>4, <2>1, <2>3, <2>5 DEF ReleasedReleasing
      <3>2. mState'["ds"] = "Pending"
        BY <1>1, <1>4, <2>1, <2>3, <2>5 DEF ReleasedReleasing
      <3>3. Active(w) # <<>>
        BY <2>4, <2>5, SomebodyActive
      <3>4. QueueTaken
        BY <1>1, <3>1, <3>3, RequestSent DEF AtlInv
      <3>5. call' # "none" => dsHandle'
        BY <1>2, <2>1, <3>1, RequestHasHandle
      <3> QED
        BY <2>2, <2>3, <2>4, <3>2, <3>3, <3>4, <3>5 DEF Holds, CallHeld
    <2>6. CASE w = <<>>
      <3>1. mState'["ds"] = "Released" /\ Took(<<>>) /\ call' = "none"
        BY <1>1, <1>2, <1>4, <2>1, <2>3, <2>6 DEF ReleasedReleasing
      <3>2. QueueTaken
        BY <1>1, <3>1, TookNothing
      <3> QED
        BY <2>2, <2>3, <2>4, <3>1, <3>2 DEF Holds, CallHeld
    <2> QED
      BY <2>5, <2>6
  <1>5. CASE DeniedPending(n)
    BY <1>5, DeniedPendingHolds
  <1>6. CASE Ignored
    <2>1. QueueTaken /\ UNCHANGED <<mState, list, call, dsHandle>>
      BY <1>1, <1>6, TookNothing DEF Ignored, dsVars
    <2> QED
      BY <2>1, DsApart
  <1> QED
    BY <1>3, <1>4, <1>5, <1>6 DEF Released

\* Every message the engine takes; an emergency request may make its handle active.
Requested == IF Take("ES") THEN {Head(msgQ).id} ELSE {}

LEMMA EngineHolds ==
    ASSUME AtlInv, CallHeld, Engine
    PROVE  Holds(Requested)
  <1>1. msgQ \in Seq(Message) /\ msgQ # <<>> /\ "ds" \in Nifs /\ "agnss" \in Nifs
    BY Shapes DEF Engine, RequestATL, RequestSuplEs, ReleaseATL, RsrcGranted, RsrcReleased,
                  RsrcDenied, EngineUp, Take, Nifs, AgpsNifs
  <1>2. PICK m \in Message : m = Head(msgQ)
    BY <1>1, HeadTailProperties
  <1>3. /\ m.op = "ATL" => m.nif \in AgpsNifs /\ m.id \in Handles
        /\ m.op \in {"ES", "CLOSE"} => m.id \in Handles
        /\ m.op \in {"GRANTED", "RELEASED", "DENIED"} => m.nif \in Nifs
    BY MessageShape
  <1>4. Holds({}) => Holds(Requested)
    BY DEF Holds
  <1>5. CASE RequestATL
    <2>1. m.nif \in Nifs /\ m.nif # "ds" /\ m.id \in Handles /\ Subscribe(m.nif, m.id)
      BY <1>2, <1>3, <1>5 DEF RequestATL, Take, Nifs, AgpsNifs
    <2> QED
      BY <1>1, <1>4, <2>1, SubscribeHolds
  <1>6. CASE RequestSuplEs
    <2>1. PICK n \in Nifs : n = IF useEmergencyPdn THEN "ds" ELSE "agnss"
      BY <1>1
    <2>2. m.id \in Handles /\ Subscribe(n, m.id) /\ Requested = {m.id}
      BY <1>2, <1>3, <1>6, <2>1 DEF RequestSuplEs, Take, Requested
    <2>3. Holds(IF n = "ds" THEN {m.id} ELSE {})
      BY <1>1, <2>2, SubscribeHolds
    <2> QED
      BY <1>4, <2>2, <2>3
  <1>7. CASE ReleaseATL
    <2>1. m.id \in Handles /\ m.op = "CLOSE" /\ "internet" \in Nifs
      BY <1>2, <1>3, <1>7 DEF ReleaseATL, Take, Nifs, AgpsNifs
    <2>2. CASE \E n \in Nifs : m.id \in Ids(list[n]) /\ Unsubscribe(n, m.id)
      BY <1>1, <1>4, <2>1, <2>2, UnsubscribeHolds
    <2>3. CASE Took(<<>>) /\ UNCHANGED <<mState, list, dsVars>>
      <3>1. QueueTaken /\ UNCHANGED <<mState, list, call, dsHandle>>
        BY <1>1, <2>3, TookNothing DEF dsVars
      <3> QED
        BY <3>1, DsApart
    <2> QED
      BY <1>1, <1>2, <1>7, <2>1, <2>2, <2>3 DEF ReleaseATL
  <1>8. CASE RsrcGranted
    <2>1. m.nif \in Nifs /\ Granted(m.nif)
      BY <1>2, <1>3, <1>8 DEF RsrcGranted, Take
    <2>2. QueueTaken /\ UNCHANGED <<list, call, dsHandle>>
      BY <1>1, <2>1, TookNothing DEF Granted, dsVars
    <2>3. mState' = mState \/ (mState[m.nif] = "Pending" /\ mState' = [mState EXCEPT ![m.nif] = "Acquired"])
      BY <2>1 DEF Granted
    <2>4. mState'["ds"] = mState["ds"] \/ (mState["ds"] = "Pending" /\ mState'["ds"] = "Acquired")
      <3>1. mState \in [Nifs -> States]
        BY Shapes
      <3>2. CASE m.nif = "ds"
        BY <1>1, <2>3, <3>1, <3>2
      <3>3. CASE m.nif # "ds"
        BY <1>1, <2>1, <2>3, <3>1, <3>3
      <3> QED
        BY <3>2, <3>3
    <2> QED
      BY <2>2, <2>4 DEF Holds, CallHeld
  <1>9. CASE RsrcReleased
    <2>1. m.nif \in Nifs /\ Released(m.nif) /\ m.op = "RELEASED"
      BY <1>2, <1>3, <1>9 DEF RsrcReleased, Take
    <2>2. m.nif = "ds" => DsReleased(Head(msgQ))
      BY <1>2, <2>1 DEF DsReleased
    <2> QED
      BY <1>1, <1>4, <2>1, <2>2, ReleasedHolds
  <1>10. CASE RsrcDenied
    <2>1. m.nif \in Nifs /\ Denied(m.nif)
      BY <1>2, <1>3, <1>10 DEF RsrcDenied, Take
    <2>2. CASE DeniedPending(m.nif)
      BY <1>1, <1>4, <2>1, <2>2, DeniedPendingHolds
    <2>3. CASE Ignored
      <3>1. QueueTaken /\ UNCHANGED <<mState, list, call, dsHandle>>
        BY <1>1, <2>3, TookNothing DEF Ignored, dsVars
      <3> QED
        BY <3>1, DsApart
    <2> QED
      BY <2>1, <2>2, <2>3 DEF Denied
  <1>11. CASE EngineUp
    <2>1. QueueTaken /\ UNCHANGED <<mState, call, dsHandle>>
      BY <1>1, <1>11, TookNothing DEF EngineUp, dsVars
    <2>2. list'["ds"] = list["ds"]
      BY <1>1, <1>11 DEF EngineUp, AgpsNifs
    <2> QED
      BY <2>1, <2>2, DsApart
  <1> QED
    BY <1>5, <1>6, <1>7, <1>8, <1>9, <1>10, <1>11 DEF Engine

\* A client that is told of an end is one that LeftBehind counts.
LEMMA ToldIsLeftBehind ==
    ASSUME AtlInv, Engine
    PROVE  \A h \in Handles : client'[h] = "idle" => client[h] = "idle" \/ LeftBehind(h)
  <1>1. client \in Clients /\ list \in [Nifs -> Seq(Subscriber)] /\ AgpsNifs \subseteq Nifs
        /\ \A n \in Nifs : n # "ds" => n \in AgpsNifs
    BY Shapes
  <1> SUFFICES ASSUME NEW h \in Handles, client'[h] = "idle", client[h] # "idle"
               PROVE  LeftBehind(h)
    OBVIOUS
  <1>2. \A S : client' # AtlOpened(S)
    BY <1>1 DEF AtlOpened, Clients
  <1>3. client' # client
    OBVIOUS
  <1>4. /\ \A S : client' = AtlOpenFailed(S) => h \in S
        /\ \A S : client' = AtlClosed(S) => h \in S
    BY <1>1 DEF AtlOpenFailed, AtlClosed
  <1>5. PICK m : m = Head(msgQ)
    OBVIOUS
  <1>6. ~RequestATL /\ ~RequestSuplEs /\ ~RsrcGranted /\ ~EngineUp
    BY <1>2, <1>3 DEF RequestATL, RequestSuplEs, RsrcGranted, EngineUp, Granted,
                      Subscribe, SubscribeReleased, SubscribeWaiting, SubscribeAcquired
  <1>7. CASE ReleaseATL
    <2>1. Take("CLOSE") /\ client' = AtlClosed({m.id})
      BY <1>5, <1>7 DEF ReleaseATL, Unsubscribe, UnsubscribeReleased, UnsubscribeHeld
    <2>2. h = m.id
      BY <1>4, <2>1
    <2> QED
      BY <1>5, <2>1, <2>2 DEF LeftBehind
  <1>8. ASSUME m.nif \in Nifs, Take("RELEASED") \/ Take("DENIED"),
               m.nif # "ds", list' = [list EXCEPT ![m.nif] = <<>>], h \in Ids(list[m.nif])
        PROVE  LeftBehind(h)
    <2>1. m.nif \in AgpsNifs /\ list'[m.nif] = <<>>
      BY <1>1, <1>8
    <2> QED
      BY <1>8, <2>1 DEF LeftBehind
  <1>9. ASSUME RsrcReleased \/ RsrcDenied PROVE m.nif \in Nifs
    <2>1. msgQ \in Seq(Message) /\ msgQ # <<>>
      BY <1>9, Shapes DEF RsrcReleased, RsrcDenied, Take
    <2>2. m \in Message
      BY <1>5, <2>1, HeadTailProperties
    <2> QED
      BY <1>5, <1>9, <2>2, MessageShape DEF RsrcReleased, RsrcDenied, Take
  <1>10. ASSUME DeniedPending(m.nif)
         PROVE  m.nif # "ds" /\ list' = [list EXCEPT ![m.nif] = <<>>] /\ h \in Ids(list[m.nif])
    BY <1>3, <1>4, <1>10 DEF DeniedPending
  <1>11. CASE RsrcReleased
    <2>1. Take("RELEASED") /\ Released(m.nif)
      BY <1>5, <1>11 DEF RsrcReleased
    <2>2. CASE ReleasedAcquired(m.nif)
      <3>1. m.nif # "ds" /\ list' = [list EXCEPT ![m.nif] = <<>>] /\ h \in Ids(list[m.nif])
        BY <1>3, <1>4, <2>2 DEF ReleasedAcquired
      <3> QED
        BY <1>8, <1>9, <1>11, <2>1, <3>1
    <2>3. CASE ReleasedReleasing(m.nif) \/ Ignored
      BY <1>3, <2>3 DEF ReleasedReleasing, Ignored
    <2>4. CASE DeniedPending(m.nif)
      BY <1>8, <1>9, <1>10, <1>11, <2>1, <2>4
    <2> QED
      BY <2>1, <2>2, <2>3, <2>4 DEF Released
  <1>12. CASE RsrcDenied
    <2>1. Take("DENIED") /\ Denied(m.nif)
      BY <1>5, <1>12 DEF RsrcDenied
    <2>2. DeniedPending(m.nif)
      BY <1>3, <2>1 DEF Denied, Ignored
    <2> QED
      BY <1>8, <1>9, <1>10, <1>12, <2>1, <2>2
  <1> QED
    BY <1>6, <1>7, <1>11, <1>12 DEF Engine

LEMMA ListedAreHandles ==
    ASSUME NEW l \in Seq(Subscriber)
    PROVE  Ids(l) \subseteq Handles
  <1> SUFFICES ASSUME NEW i \in DOMAIN l PROVE l[i].id \in Handles
    BY DEF Ids
  <1>1. l[i] \in Subscriber
    OBVIOUS
  <1> QED
    BY <1>1 DEF Subscriber

\* After a message, a holder that is not left behind has its client.
LEMMA EngineHasClient ==
    ASSUME AtlInv, CallHeld, HolderHasClient, Engine, Abandon, UNCHANGED useEmergencyPdn
    PROVE  CallHeld' /\ HolderHasClient'
  <1>1. Holds(Requested)
    BY EngineHolds
  <1>2. \A h \in Handles : client'[h] = "idle" => client[h] = "idle" \/ LeftBehind(h)
    BY ToldIsLeftBehind
  <1>3. Ids(Active(list'["ds"])) \subseteq Handles
    <2>1. list'["ds"] \in Seq(Subscriber)
      BY EngineKeeps, Shapes DEF Nifs, AtlInv, TypeOK, Subscriber
    <2>2. PICK w \in Seq(Subscriber) : w = list'["ds"]
      BY <2>1
    <2>3. Active(w) \in Seq(Subscriber)
      BY ActiveOnes
    <2> QED
      BY <2>2, <2>3, ListedAreHandles
  <1>4. abandoned' = {h \in Ids(Active(list'["ds"])) : h \in abandoned \/ LeftBehind(h)}
    BY DEF Abandon
  <1>5. ASSUME NEW h \in Ids(Active(list'["ds"])), client'[h] = "idle", ~Restarting', ~LeftBehind(h)
        PROVE  h \in abandoned
    <2>1. h \in Handles /\ client[h] = "idle"
      BY <1>2, <1>3, <1>5
    <2>2. ~Restarting
      <3>1. Restarting => Take("ENGINE_UP")
        BY <1>1, <1>5 DEF Holds, QueueTaken, Take, Restarting
      <3> QED
        BY <1>5, <3>1 DEF LeftBehind
    <2>3. h \notin Requested
      BY <1>5, <2>1 DEF Requested, LeftBehind
    <2>4. h \in Ids(Active(list["ds"]))
      BY <1>1, <1>5, <2>3 DEF Holds
    <2> QED
      BY <2>1, <2>2, <2>4 DEF HolderHasClient
  <1>6. abandoned' \subseteq Ids(Active(list'["ds"]))
    BY <1>4
  <1>7. \A h \in Ids(Active(list'["ds"])) : h \in abandoned' \/ client'[h] # "idle" \/ Restarting'
    BY <1>4, <1>5
  <1> QED
    BY <1>1, <1>6, <1>7 DEF Holds, HolderHasClient

\* A posted message takes no other from the queue.
LEMMA StillRestarting ==
    ASSUME msgQ \in Seq(Message), msgQ' = msgQ \/ \E m \in Message : Post(m)
    PROVE  Restarting => Restarting'
  <1>1. ASSUME NEW m \in Message, Post(m), NEW i \in DOMAIN msgQ
        PROVE  i \in DOMAIN msgQ' /\ msgQ'[i] = msgQ[i]
    BY <1>1 DEF Post
  <1> QED
    BY <1>1 DEF Restarting

\* The other threads and processes leave the interfaces to the engine.
LEMMA OutsideHasClient ==
    ASSUME AtlInv, CallHeld, HolderHasClient, UNCHANGED <<mState, list, dsHandle, abandoned>>,
           call' # "none" => call # "none", Restarting => Restarting',
           \A h \in Handles : client'[h] = "idle" => client[h] = "idle" \/ Restarting'
    PROVE  CallHeld' /\ HolderHasClient'
  <1>1. Ids(Active(list["ds"])) \subseteq Handles
    <2>1. PICK l \in Seq(Subscriber) : l = list["ds"]
      BY Shapes DEF Nifs
    <2>2. Active(l) \in Seq(Subscriber)
      BY ActiveOnes
    <2> QED
      BY <2>1, <2>2, ListedAreHandles
  <1>2. CallHeld'
    BY DEF CallHeld
  <1>3. HolderHasClient'
    BY <1>1 DEF HolderHasClient
  <1> QED
    BY <1>2, <1>3

LEMMA ModemHasClient ==
    ASSUME AtlInv, CallHeld, HolderHasClient, Modem \/ ModemRestart, UNCHANGED abandoned
    PROVE  CallHeld' /\ HolderHasClient'
  <1>1. msgQ \in Seq(Message) /\ client \in Clients
    BY Shapes
  <1>2. CASE ModemRestart
    <2>1. PICK m : m = [op |-> "ENGINE_UP"]
      OBVIOUS
    <2>2. m \in Message /\ m.op = "ENGINE_UP" /\ Post(m) /\ UNCHANGED <<mState, list, dsVars>>
      BY <1>2, <2>1 DEF ModemRestart, Message
    <2>3. Len(msgQ) + 1 \in DOMAIN msgQ' /\ msgQ'[Len(msgQ) + 1] = m
      BY <1>1, <2>2 DEF Post
    <2>4. Restarting'
      BY <2>2, <2>3 DEF Restarting
    <2> QED
      BY <2>2, <2>4, OutsideHasClient DEF dsVars
  <1>3. ASSUME NEW h \in Handles, ModemOpen(h) PROVE CallHeld' /\ HolderHasClient'
    <2>1. PICK k \in Kinds[useEmergencyPdn] : Post(RequestOf(k, h))
      BY <1>3 DEF ModemOpen
    <2>2. k \in {"SUPL", "ANY", "ES"}
      BY AtlAssumption DEF AtlInv, TypeOK
    <2>3. RequestOf(k, h) \in Message
      BY <2>2 DEF RequestOf, Message, AgpsNifs
    <2>4. /\ client' = [client EXCEPT ![h] = "opening"]
          /\ UNCHANGED <<mState, list, dsVars>>
      BY <1>3 DEF ModemOpen
    <2>5. \A x \in Handles : client'[x] = "idle" => client[x] = "idle"
      BY <1>1, <2>4 DEF Clients
    <2>6. Restarting => Restarting'
      BY <1>1, <2>1, <2>3, StillRestarting
    <2> QED
      BY <2>4, <2>5, <2>6, OutsideHasClient DEF dsVars
  <1>4. ASSUME NEW h \in Handles, ModemClose(h) PROVE CallHeld' /\ HolderHasClient'
    <2>1. [op |-> "CLOSE", id |-> h] \in Message
      BY DEF Message
    <2>2. /\ client' = [client EXCEPT ![h] = "closing"] /\ Post([op |-> "CLOSE", id |-> h])
          /\ UNCHANGED <<mState, list, dsVars>>
      BY <1>4 DEF ModemClose
    <2>3. \A x \in Handles : client'[x] = "idle" => client[x] = "idle"
      BY <1>1, <2>2 DEF Clients
    <2>4. Restarting => Restarting'
      BY <1>1, <2>1, <2>2, StillRestarting
    <2> QED
      BY <2>2, <2>3, <2>4, OutsideHasClient DEF dsVars
  <1> QED
    BY <1>2, <1>3, <1>4 DEF Modem

LEMMA OthersHaveClient ==
    ASSUME AtlInv, CallHeld, HolderHasClient, Framework \/ DataService, UNCHANGED abandoned
    PROVE  CallHeld' /\ HolderHasClient'
  <1>1. /\ msgQ \in Seq(Message) /\ list \in [Nifs -> Seq(Subscriber)] /\ "ds" \in Nifs
        /\ fwReq \in Seq(FwMessage) /\ AgpsNifs \subseteq Nifs
    BY Shapes DEF Nifs, ResourcesOK
  <1>2. /\ UNCHANGED <<mState, list, client, dsHandle>>
        /\ call' # "none" => call # "none"
    BY DEF Framework, FwRequest, FwRelease, FwAnswer, FwDrop,
           DataService, RetryTimer, DataCallOpened, DataCallClosed, dsVars
  <1>3. ASSUME NEW op \in {"GRANTED", "RELEASED", "DENIED"}, NEW n \in Nifs
        PROVE  [op |-> op, nif |-> n] \in Message
    BY DEF Message
  <1>4. CASE Framework
    <2>1. fwReq # <<>> => Head(fwReq).nif \in Nifs
      <3> SUFFICES ASSUME fwReq # <<>> PROVE Head(fwReq).nif \in Nifs
        OBVIOUS
      <3>1. Head(fwReq) \in FwMessage
        BY <1>1, HeadTailProperties
      <3> QED
        BY <1>1, <3>1 DEF FwMessage
    <2>2. FwRequest \/ FwRelease => msgQ' = msgQ \/ \E m \in Message : Post(m)
      BY <1>3, <2>1 DEF FwRequest, FwRelease
    <2>3. \A n \in AgpsNifs : FwAnswer(n) \/ FwDrop(n) => \E m \in Message : Post(m)
      BY <1>1, <1>3 DEF FwAnswer, FwDrop
    <2>4. Restarting => Restarting'
      BY <1>1, <1>4, <2>2, <2>3, StillRestarting DEF Framework
    <2> QED
      BY <1>2, <2>4, OutsideHasClient
  <1>5. CASE DataService
    <2>1. RetryTimer => msgQ' = msgQ \/ \E m \in Message : Post(m)
      <3>1. PICK l \in Seq(Subscriber) : l = list["ds"]
        BY <1>1
      <3>2. Active(l) # <<>> => Head(Active(l)).id \in Handles
        <4> SUFFICES ASSUME Active(l) # <<>> PROVE Head(Active(l)).id \in Handles
          OBVIOUS
        <4>1. Head(Active(l)) \in Subscriber
          BY ActiveOnes, HeadTailProperties
        <4> QED
          BY <4>1 DEF Subscriber
      <3>3. Active(l) # <<>> => [op |-> "ES", id |-> Head(Active(l)).id] \in Message
        BY <3>2 DEF Message
      <3> QED
        BY <3>1, <3>3 DEF RetryTimer
    <2>2. DataCallOpened \/ DataCallClosed => \E m \in Message : Post(m)
      BY <1>1, <1>3 DEF DataCallOpened, DataCallClosed
    <2>3. Restarting => Restarting'
      BY <1>1, <1>5, <2>1, <2>2, StillRestarting DEF DataService
    <2> QED
      BY <1>2, <2>3, OutsideHasClient
  <1> QED
    BY <1>4, <1>5

\* A holder of the emergency data call has its client, in every reachable state.
HeldByClients == AtlInv /\ CallHeld /\ HolderHasClient

LEMMA HoldersHaveClients == Spec => []HeldByClients
  <1>1. Init => HeldByClients
    <2> SUFFICES ASSUME Init PROVE HeldByClients
      OBVIOUS
    <2>1. call = "none" /\ mState["ds"] = "Released" /\ list["ds"] = <<>> /\ abandoned = {}
      BY DEF Init, Nifs
    <2>2. CallHeld /\ HolderHasClient
      BY <2>1, NobodyActive DEF CallHeld, HolderHasClient
    <2> QED
      BY <2>2, InitCorrect DEF HeldByClients
  <1>2. HeldByClients /\ [Next]_vars => HeldByClients'
    <2> SUFFICES ASSUME AtlInv, CallHeld, HolderHasClient, [Next]_vars
                 PROVE  CallHeld' /\ HolderHasClient'
      BY NextKeeps DEF HeldByClients
    <2>1. CASE UNCHANGED vars
      <3>1. UNCHANGED <<mState, list, msgQ, client, call, dsHandle, abandoned>>
        BY <2>1 DEF vars
      <3>2. Restarting => Restarting'
        BY <3>1 DEF Restarting
      <3> QED
        BY <3>1, <3>2, OutsideHasClient
    <2>2. CASE Next
      <3>1. CASE Engine /\ Abandon
        BY <2>2, <3>1, EngineHasClient DEF Next
      <3>2. CASE (Modem \/ ModemRestart) /\ UNCHANGED abandoned
        BY <3>2, ModemHasClient
      <3>3. CASE (Framework \/ DataService) /\ UNCHANGED abandoned
        BY <3>3, OthersHaveClient
      <3> QED
        BY <2>2, <3>1, <3>2, <3>3 DEF Next
    <2> QED
      BY <2>1, <2>2
  <1> QED
    BY <1>1, <1>2, PTL DEF Spec

\* An emergency data call is held by the interface's active subscribers or waited
\* for, each of those subscribers has a client that will close it unless it was left
\* behind in a way of LeftBehind, and no client with an open connection is left
\* without an interface that reports its loss: whatever the order in which the
\* modem, the framework, the data services library and the retry timer post to the
\* engine (DSStateMachine, AgpsStateMachine::onRsrcEvent).
THEOREM EveryConnectionAccounted == Spec => []ConnectionsAccounted
  <1>1. HeldByClients => ConnectionsAccounted
    <2> SUFFICES ASSUME AtlInv, CallHeld, HolderHasClient PROVE ConnectionsAccounted
      BY DEF HeldByClients
    <2>1. TypeOK /\ DataCallIsHeld
      <3>1. mState["ds"] \in States /\ TypeOK
        BY Shapes DEF Nifs, AtlInv
      <3>2. call # "none" => mState["ds"] # "Released"
        BY DEF AtlInv, DsOK
      <3> QED
        BY <3>1, <3>2 DEF DataCallIsHeld, CallHeld, States
    <2>2. OpenClientIsSubscribed
      <3> SUFFICES ASSUME ~useEmergencyPdn, NEW h \in Handles, client[h] = "open"
                   PROVE  \E n \in Nifs : mState[n] = "Acquired" /\ h \in Ids(Active(list[n]))
        BY DEF OpenClientIsSubscribed
      <3>1. PICK n \in AgpsNifs : mState[n] = "Acquired" /\ h \in Ids(list[n])
        BY DEF AtlInv, OpenListed
      <3>2. n \in Nifs /\ list[n] \in Seq(Subscriber) /\ AllActive(list[n])
        BY Shapes DEF AtlInv, AgpsListsOK
      <3>3. Ids(Active(list[n])) = Ids(list[n])
        BY <3>2, ActiveOnes
      <3> QED
        BY <3>1, <3>2, <3>3
    <2> QED
      BY <2>1, <2>2 DEF ConnectionsAccounted
  <1> QED
    BY <1>1, HoldersHaveClients, PTL

-----------------------------------------------------------------------------
(* The contract of the framework's interfaces, step by step.               *)

Untouched(n) == mState'[n] = mState[n] /\ Ids(list'[n]) = Ids(list[n])

\* The steps of NifContract, for one of the two interfaces.
ContractStep(n) ==
    \/ \E c \in Handles :
          /\ Ids(list'[n]) = Ids(list[n]) \cup {c}
          /\ mState'[n] = IF mState[n] = "Released" THEN "Pending" ELSE mState[n]
    \/ \E c \in Handles :
          /\ mState[n] # "Released" /\ c \in Ids(list[n])
          /\ Ids(list'[n]) = Ids(list[n]) \ {c}
          /\ mState'[n] = IF Ids(list'[n]) = {} THEN "Released" ELSE mState[n]
    \/ mState[n] = "Pending" /\ mState'[n] = "Acquired" /\ Ids(list'[n]) = Ids(list[n])
    \/ mState[n] # "Released" /\ mState'[n] = "Released" /\ Ids(list'[n]) = {}
    \/ Ids(list'[n]) = {} /\ mState'[n] = mState[n]
    \/ Untouched(n)

\* Handlers of one interface leave the others alone.
LEMMA HandlersApart ==
    ASSUME AtlInv, NEW m \in Nifs, NEW n \in Nifs, m # n,
           \/ \E id \in Handles : Subscribe(m, id) \/ Unsubscribe(m, id)
           \/ Granted(m) \/ Released(m) \/ Denied(m)
    PROVE  Untouched(n)
  <1>1. mState \in [Nifs -> States] /\ list \in [Nifs -> Seq(Subscriber)]
    BY Shapes
  <1>2. ASSUME NEW id \in Handles, Subscribe(m, id)
        PROVE  mState'[n] = mState[n] /\ list'[n] = list[n]
    BY <1>1, <1>2 DEF Subscribe, SubscribeReleased, SubscribeWaiting, SubscribeAcquired
  <1>3. ASSUME NEW id \in Handles, Unsubscribe(m, id)
        PROVE  mState'[n] = mState[n] /\ list'[n] = list[n]
    BY <1>1, <1>3 DEF Unsubscribe, UnsubscribeReleased, UnsubscribeHeld
  <1>4. Granted(m) => mState'[n] = mState[n] /\ list'[n] = list[n]
    BY <1>1 DEF Granted
  <1>5. Released(m) => mState'[n] = mState[n] /\ list'[n] = list[n]
    BY <1>1 DEF Released, ReleasedAcquired, ReleasedReleasing, DeniedPending, Ignored
  <1>6. Denied(m) => mState'[n] = mState[n] /\ list'[n] = list[n]
    BY <1>1 DEF Denied, DeniedPending, Ignored
  <1> QED
    BY <1>2, <1>3, <1>4, <1>5, <1>6 DEF Untouched

\* A subscription is a Join, whatever the state: the request never fails here.
LEMMA SubscribeJoins ==
    ASSUME AtlInv, NEW n \in AgpsNifs, NEW id \in Handles, Subscribe(n, id)
    PROVE  ContractStep(n)
  <1>1. /\ mState \in [Nifs -> States] /\ list \in [Nifs -> Seq(Subscriber)]
        /\ n \in Nifs /\ n # "ds" /\ mState[n] # "Releasing"
    BY Shapes DEF AtlInv, AgpsListsOK
  <1>2. list'[n] = AddSubscriber(list[n], id)
    BY <1>1 DEF Subscribe, SubscribeReleased, SubscribeWaiting, SubscribeAcquired
  <1>3. Ids(list'[n]) = Ids(list[n]) \cup {id}
    BY <1>1, <1>2, AddOne
  <1>4. mState'[n] = IF mState[n] = "Released" THEN "Pending" ELSE mState[n]
    BY <1>1 DEF Subscribe, SubscribeReleased, SubscribeWaiting, SubscribeAcquired, SendRequest
  <1> QED
    BY <1>3, <1>4 DEF ContractStep

\* A listed client that closes leaves, or finds the interface Released.
LEMMA UnsubscribeLeaves ==
    ASSUME AtlInv, NEW n \in AgpsNifs, NEW id \in Handles, id \in Ids(list[n]),
           Unsubscribe(n, id)
    PROVE  ContractStep(n)
  <1>1. /\ mState \in [Nifs -> States] /\ list \in [Nifs -> Seq(Subscriber)]
        /\ n \in Nifs /\ n # "ds" /\ AllActive(list[n])
    BY Shapes DEF AtlInv, AgpsListsOK
  <1>2. CASE UnsubscribeReleased(n, id)
    BY <1>2 DEF UnsubscribeReleased, ContractStep, Untouched
  <1>3. CASE UnsubscribeHeld(n, id)
    <2>1. /\ mState[n] # "Released" /\ list'[n] = Without(list[n], id)
          /\ mState'[n] = IF list'[n] = <<>> THEN "Released"
                          ELSE IF Active(list'[n]) = <<>> THEN "Releasing" ELSE mState[n]
      BY <1>1, <1>3 DEF UnsubscribeHeld, WaitsForClose
    <2>2. /\ list'[n] \in Seq(Subscriber) /\ AllActive(list'[n])
          /\ Ids(list'[n]) = Ids(list[n]) \ {id}
      BY <1>1, <2>1, WithoutOne
    <2>3. PICK l \in Seq(Subscriber) : l = list'[n]
      BY <2>2
    <2>4. (l = <<>> <=> Ids(l) = {}) /\ (l # <<>> => Active(l) # <<>>)
      BY <2>2, <2>3, EmptyList, SomebodyActive
    <2>5. mState'[n] = IF Ids(list'[n]) = {} THEN "Released" ELSE mState[n]
      BY <2>1, <2>3, <2>4
    <2> QED
      BY <2>1, <2>2, <2>5 DEF ContractStep
  <1> QED
    BY <1>2, <1>3 DEF Unsubscribe

\* An event of the framework: granted, lost or ignored.
LEMMA EventKeepsContract ==
    ASSUME AtlInv, NEW n \in AgpsNifs, Granted(n) \/ Released(n) \/ Denied(n)
    PROVE  ContractStep(n)
  <1>1. /\ mState \in [Nifs -> States] /\ list \in [Nifs -> Seq(Subscriber)]
        /\ n \in Nifs /\ n # "ds" /\ mState[n] # "Releasing" /\ Ids(<<>>) = {}
    BY Shapes, EmptyList, ListCleared DEF AtlInv, AgpsListsOK
  <1>2. CASE Granted(n)
    BY <1>1, <1>2 DEF Granted, ContractStep, Untouched
  <1>3. CASE DeniedPending(n)
    BY <1>1, <1>3 DEF DeniedPending, ContractStep
  <1>4. CASE ReleasedAcquired(n)
    BY <1>1, <1>4 DEF ReleasedAcquired, ContractStep
  <1>5. CASE Ignored
    BY <1>5 DEF Ignored, ContractStep, Untouched
  <1> QED
    BY <1>1, <1>2, <1>3, <1>4, <1>5 DEF Released, Denied, ReleasedReleasing

\* Every step of the engine and of its neighbours is one of the contract, for each
\* of the two interfaces.
LEMMA StepKeepsContract ==
    ASSUME AtlInv, Next, NEW n \in AgpsNifs
    PROVE  ContractStep(n)
  <1>1. /\ n \in Nifs /\ "ds" \in Nifs /\ "agnss" \in AgpsNifs /\ "internet" \in AgpsNifs
        /\ AgpsNifs \subseteq Nifs /\ n # "ds" /\ msgQ \in Seq(Message)
    BY Shapes DEF Nifs, AgpsNifs
  <1>2. ASSUME NEW m \in Nifs,
               \/ \E id \in Handles : \/ Subscribe(m, id)
                                      \/ id \in Ids(list[m]) /\ Unsubscribe(m, id)
               \/ Granted(m) \/ Released(m) \/ Denied(m)
        PROVE  ContractStep(n)
    <2>1. CASE m = n
      BY <1>2, <2>1, SubscribeJoins, UnsubscribeLeaves, EventKeepsContract
    <2>2. CASE m # n
      BY <1>1, <1>2, <2>2, HandlersApart DEF ContractStep
    <2> QED
      BY <2>1, <2>2
  <1>3. CASE UNCHANGED <<mState, list>>
    BY <1>3 DEF ContractStep, Untouched
  <1>4. CASE Modem \/ ModemRestart \/ Framework \/ DataService
    <2>1. UNCHANGED <<mState, list>>
      BY <1>4 DEF Modem, ModemOpen, ModemClose, ModemRestart, Framework, FwRequest, FwRelease,
                  FwAnswer, FwDrop, DataService, RetryTimer, DataCallOpened, DataCallClosed
    <2> QED
      BY <1>3, <2>1
  <1>5. CASE Engine
    <2>1. msgQ # <<>>
      BY <1>5 DEF Engine, RequestATL, RequestSuplEs, ReleaseATL, RsrcGranted, RsrcReleased,
                  RsrcDenied, EngineUp, Take
    <2>2. PICK m \in Message : m = Head(msgQ)
      BY <1>1, <2>1, HeadTailProperties
    <2>3. /\ m.op = "ATL" => m.nif \in Nifs /\ m.id \in Handles
          /\ m.op \in {"ES", "CLOSE"} => m.id \in Handles
          /\ m.op \in {"GRANTED", "RELEASED", "DENIED"} => m.nif \in Nifs
      BY <1>1, MessageShape
    <2>4. CASE RequestATL
      BY <1>2, <2>2, <2>3, <2>4 DEF RequestATL, Take
    <2>5. CASE RequestSuplEs
      BY <1>1, <1>2, <2>2, <2>3, <2>5 DEF RequestSuplEs, Take
    <2>6. CASE ReleaseATL
      <3>1. PICK id \in Handles : id = m.id /\ id = Head(msgQ).id
        BY <2>2, <2>3, <2>6 DEF ReleaseATL, Take
      <3>2. \/ \E k \in Nifs : id \in Ids(list[k]) /\ Unsubscribe(k, id)
            \/ UNCHANGED <<mState, list>>
        BY <1>1, <2>6, <3>1 DEF ReleaseATL
      <3> QED
        BY <1>2, <1>3, <3>2
    <2>7. CASE RsrcGranted \/ RsrcReleased \/ RsrcDenied
      BY <1>2, <2>2, <2>3, <2>7 DEF RsrcGranted, RsrcReleased, RsrcDenied, Take
    <2>8. CASE EngineUp
      <3>1. mState'[n] = mState[n] /\ list'[n] = <<>>
        BY <1>1, <2>8 DEF EngineUp
      <3>2. Ids(<<>>) = {}
        BY EmptyList, ListCleared
      <3> QED
        BY <3>1, <3>2 DEF ContractStep
    <2> QED
      BY <1>5, <2>4, <2>5, <2>6, <2>7, <2>8 DEF Engine
  <1> QED
    BY <1>4, <1>5 DEF Next

\* Both interfaces of the framework implement NifContract, although the emergency
\* interface posts requests to one of them when it falls back, and although a restart
\* of the modem drops their lists.
THEOREM InterfacesKeepContract == Spec => KeepContracts
  <1>1. Init => Agnss!Init /\ Internet!Init
    <2>1. Ids(<<>>) = {}
      BY EmptyList, ListCleared
    <2> QED
      BY <2>1 DEF Init, Agnss!Init, Internet!Init, Nifs, AgpsNifs
  <1>2. AtlInv /\ [Next]_vars => [Agnss!Next]_Agnss!contractVars
    <2>1. AtlInv /\ Next => ContractStep("agnss")
      BY StepKeepsContract DEF AgpsNifs
    <2>2. UNCHANGED vars => Untouched("agnss")
      BY DEF vars, Untouched
    <2> QED
      BY <2>1, <2>2 DEF ContractStep, Untouched, Agnss!Next, Agnss!Join, Agnss!Leave,
                        Agnss!Grant, Agnss!Lose, Agnss!Drop, Agnss!contractVars
  <1>3. AtlInv /\ [Next]_vars => [Internet!Next]_Internet!contractVars
    <2>1. AtlInv /\ Next => ContractStep("internet")
      BY StepKeepsContract DEF AgpsNifs
    <2>2. UNCHANGED vars => Untouched("internet")
      BY DEF vars, Untouched
    <2> QED
      BY <2>1, <2>2 DEF ContractStep, Untouched, Internet!Next, Internet!Join, Internet!Leave,
                        Internet!Grant, Internet!Lose, Internet!Drop, Internet!contractVars
  <1> QED
    BY <1>1, <1>2, <1>3, AtlCorrect, PTL
    DEF Spec, KeepContracts, AgnssKeepsContract, InternetKeepsContract, Agnss!Spec, Internet!Spec
=============================================================================
