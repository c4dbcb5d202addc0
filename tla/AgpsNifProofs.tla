--------------------------- MODULE AgpsNifProofs ---------------------------
(***************************************************************************)
(* The safety of one AGPS network interface, for every set of clients and  *)
(* every bound on the queues.                                              *)
(***************************************************************************)
EXTENDS AgpsNif, SequenceTheorems, TLAPS

\* The inductive invariant: the safety properties support one another.
NifInv ==
    /\ TypeOK
    /\ ReleasedHasNoSubscribers
    /\ PendingIsAnswered
    /\ OpenClientIsSubscribed
    /\ RestartingClientsAreIdle

\* A message stays in the queue when another one is taken from its head.
LEMMA TailKeeps ==
    ASSUME NEW S, NEW q \in Seq(S), q # <<>>,
           NEW i \in 2 .. Len(q)
    PROVE  i - 1 \in 1 .. Len(Tail(q)) /\ Tail(q)[i - 1] = q[i]
  OBVIOUS

\* A queue is empty when its length is 0.
LEMMA EmptyLength ==
    ASSUME NEW S, NEW q \in Seq(S)
    PROVE  Len(q) \in Nat /\ (Len(q) = 0 <=> q = <<>>)
  BY EmptySeq, LenProperties

\* The last message stays the last one until it is taken itself.
LEMMA TailEnds ==
    ASSUME NEW S, NEW q \in Seq(S), q # <<>>
    PROVE  q[Len(q)] = IF Tail(q) = <<>> THEN Head(q) ELSE Tail(q)[Len(Tail(q))]
  <1>1. Tail(q) \in Seq(S) /\ Len(Tail(q)) = Len(q) - 1 /\ Head(q) = q[1]
    BY HeadTailProperties
  <1>2. Len(q) \in Nat \ {0}
    BY EmptySeq
  <1>3. Tail(q) = <<>> <=> Len(q) = 1
    <2>1. Len(Tail(q)) = 0 <=> Tail(q) = <<>>
      BY <1>1, EmptyLength, Zenon
    <2> QED
      BY <1>1, <1>2, <2>1
  <1>4. Len(q) # 1 => Tail(q)[Len(q) - 1] = q[Len(q)]
    <2>1. \A n \in Nat \ {0} : n # 1 => n \in 2 .. n
      OBVIOUS
    <2> QED
      BY <1>2, <2>1, TailKeeps, Zenon
  <1> QED
    BY <1>1, <1>2, <1>3, <1>4

\* Taking a message that is not an answer leaves the answers that are queued.
LEMMA AnswerStaysQueued ==
    ASSUME TypeOK, msgQ # <<>>, msgQ' = Tail(msgQ),
           Head(msgQ).op \notin {"GRANTED", "DENIED"},
           \E i \in 1 .. Len(msgQ) : msgQ[i].op \in {"GRANTED", "DENIED"}
    PROVE  \E i \in 1 .. Len(msgQ') : msgQ'[i].op \in {"GRANTED", "DENIED"}
  <1>1. PICK i \in 1 .. Len(msgQ) : msgQ[i].op \in {"GRANTED", "DENIED"}
    OBVIOUS
  <1>2. i \in 2 .. Len(msgQ)
    BY <1>1 DEF TypeOK
  <1>3. i - 1 \in 1 .. Len(Tail(msgQ)) /\ Tail(msgQ)[i - 1] = msgQ[i]
    BY <1>2, TailKeeps DEF TypeOK
  <1> QED
    BY <1>1, <1>3

\* A posted message joins the queue and changes no other entry.
LEMMA AppendKeeps ==
    ASSUME NEW S, NEW q \in Seq(S), NEW m \in S
    PROVE  /\ Append(q, m) \in Seq(S)
           /\ Len(Append(q, m)) = Len(q) + 1
           /\ \A i \in 1 .. Len(q) : Append(q, m)[i] = q[i]
           /\ Append(q, m)[Len(q) + 1] = m
  OBVIOUS

\* The inductive invariant holds initially.
LEMMA InitNif == Init => NifInv
  BY DEF Init, NifInv, TypeOK, ReleasedHasNoSubscribers, PendingIsAnswered,
         OpenClientIsSubscribed, RestartingClientsAreIdle, Restarting, State, Believes

-----------------------------------------------------------------------------
\* Taking a message of another kind neither starts nor ends a restart unseen:
\* an ENGINE_UP in the shorter queue was in the longer one.
LEMMA RestartStaysQueued ==
    ASSUME TypeOK, msgQ # <<>>, msgQ' = Tail(msgQ), Restarting'
    PROVE  Restarting
  <1>1. PICK i \in 1 .. Len(msgQ') : msgQ'[i].op = "ENGINE_UP"
    BY DEF Restarting
  <1>2. i + 1 \in 1 .. Len(msgQ) /\ msgQ[i + 1] = Tail(msgQ)[i]
    BY <1>1 DEF TypeOK
  <1> QED
    BY <1>1, <1>2 DEF Restarting

\* What the modem does.
LEMMA ModemStep ==
    ASSUME NifInv, Modem \/ ModemRestart
    PROVE  NifInv'
  <1> USE DEF NifInv
  <1>1. \A m \in Posted : Append(msgQ, m) \in Seq(Posted)
    BY AppendKeeps DEF TypeOK
  <1>2. ASSUME NEW m, msgQ' = Append(msgQ, m), UNCHANGED <<mState, fwReq, fwConn>>
        PROVE  PendingIsAnswered'
    BY <1>2 DEF PendingIsAnswered, AnswerDue, TypeOK
  <1>3. ASSUME NEW c \in Clients, ModemOpen(c)
        PROVE  NifInv'
    <2>1. TypeOK'
      BY <1>1, <1>3 DEF ModemOpen, Post, Posted, TypeOK, Believes
    <2>2. PendingIsAnswered'
      BY <1>2, <1>3 DEF ModemOpen, Post
    <2>3. RestartingClientsAreIdle'
      BY <1>3 DEF ModemOpen, Post, RestartingClientsAreIdle, Restarting, TypeOK
    <2> QED
      BY <1>3, <2>1, <2>2, <2>3
      DEF ModemOpen, TypeOK, ReleasedHasNoSubscribers, OpenClientIsSubscribed
  <1>4. ASSUME NEW c \in Clients, ModemClose(c)
        PROVE  NifInv'
    <2>1. TypeOK'
      BY <1>1, <1>4 DEF ModemClose, Post, Posted, TypeOK, Believes
    <2>2. PendingIsAnswered'
      BY <1>2, <1>4 DEF ModemClose, Post
    <2>3. RestartingClientsAreIdle'
      BY <1>4 DEF ModemClose, Post, RestartingClientsAreIdle, Restarting, TypeOK
    <2> QED
      BY <1>4, <2>1, <2>2, <2>3
      DEF ModemClose, TypeOK, ReleasedHasNoSubscribers, OpenClientIsSubscribed
  <1>5. ASSUME ModemRestart
        PROVE  NifInv'
    <2>1. TypeOK'
      BY <1>1, <1>5 DEF ModemRestart, Post, Posted, TypeOK, Believes
    <2>2. PendingIsAnswered'
      BY <1>2, <1>5 DEF ModemRestart, Post
    <2> QED
      BY <1>5, <2>1, <2>2
      DEF ModemRestart, ReleasedHasNoSubscribers, OpenClientIsSubscribed,
          RestartingClientsAreIdle
  <1> QED
    BY <1>3, <1>4, <1>5 DEF Modem

\* What the framework does.
LEMMA FrameworkStep ==
    ASSUME NifInv, Framework \/ FwDrop
    PROVE  NifInv'
  <1> USE DEF NifInv
  <1>1. \A m \in Posted : Append(msgQ, m) \in Seq(Posted)
    BY AppendKeeps DEF TypeOK
  <1>2. ASSUME NEW m \in Posted, m.op # "ENGINE_UP",
               msgQ' = Append(msgQ, m) \/ UNCHANGED msgQ,
               UNCHANGED <<mState, mSubscribers, client>>
        PROVE  /\ ReleasedHasNoSubscribers' /\ OpenClientIsSubscribed'
               /\ RestartingClientsAreIdle'
    <2>1. Restarting' => Restarting
      BY <1>2 DEF Restarting, TypeOK
    <2> QED
      BY <1>2, <2>1
      DEF ReleasedHasNoSubscribers, OpenClientIsSubscribed, RestartingClientsAreIdle
  <1>3. CASE FwRequest
    <2>1. TypeOK'
      BY <1>3 DEF FwRequest, TypeOK
    <2>2. PendingIsAnswered'
      BY <1>3 DEF FwRequest, PendingIsAnswered, AnswerDue, TypeOK
    <2> QED
      BY <1>3, <2>1, <2>2
      DEF FwRequest, ReleasedHasNoSubscribers, OpenClientIsSubscribed,
          RestartingClientsAreIdle, Restarting
  <1>4. CASE FwRelease
    <2>1. [op |-> "RELEASED"] \in Posted
      BY DEF Posted
    <2>2. msgQ' \in Seq(Posted)
      BY <1>1, <1>4, <2>1 DEF FwRelease, Post, TypeOK
    <2>3. TypeOK'
      BY <1>4, <2>2 DEF FwRelease, TypeOK
    <2>4. PendingIsAnswered'
      <3>1. fwReq # <<>> /\ Head(fwReq) = "RELEASE" /\ fwReq' = Tail(fwReq) /\ UNCHANGED mState
        BY <1>4 DEF FwRelease
      <3>2. fwReq' = <<>> => fwReq[Len(fwReq)] = "RELEASE"
        BY <3>1, TailEnds DEF TypeOK
      <3>3. fwReq' # <<>> => fwReq'[Len(fwReq')] = fwReq[Len(fwReq)]
        BY <3>1, TailEnds DEF TypeOK
      <3> QED
        BY <3>1, <3>2, <3>3 DEF PendingIsAnswered, AnswerDue
    <2> QED
      BY <1>2, <1>4, <2>1, <2>3, <2>4 DEF FwRelease, Post
  <1>5. CASE FwAnswer
    <2>1. PICK a \in {"GRANTED", "DENIED"} : msgQ' = Append(msgQ, [op |-> a])
      BY <1>5 DEF FwAnswer, Post
    <2>2. [op |-> a] \in Posted
      BY DEF Posted
    <2>3. TypeOK'
      BY <1>1, <1>5, <2>1, <2>2 DEF FwAnswer, TypeOK
    <2>4. Len(msgQ') = Len(msgQ) + 1 /\ msgQ'[Len(msgQ')].op = a /\ Len(msgQ) \in Nat
      BY <2>1, <2>2, AppendKeeps DEF TypeOK
    <2>5. PendingIsAnswered'
      BY <1>5, <2>4 DEF FwAnswer, PendingIsAnswered, AnswerDue
    <2> QED
      BY <1>2, <1>5, <2>1, <2>2, <2>3, <2>5 DEF FwAnswer
  <1>6. CASE FwDrop
    <2>1. [op |-> "RELEASED"] \in Posted
      BY DEF Posted
    <2>2. TypeOK'
      BY <1>1, <1>6, <2>1 DEF FwDrop, Post, TypeOK
    <2>3. PendingIsAnswered'
      BY <1>6, <2>1 DEF FwDrop, Post, PendingIsAnswered, AnswerDue, TypeOK
    <2> QED
      BY <1>2, <1>6, <2>1, <2>2, <2>3 DEF FwDrop, Post
  <1> QED
    BY <1>3, <1>4, <1>5, <1>6 DEF Framework

-----------------------------------------------------------------------------
\* What the engine thread does with the message at the head of its queue.
LEMMA TakeMessage ==
    ASSUME TypeOK, NEW op, Take(op)
    PROVE  /\ msgQ # <<>> /\ Head(msgQ) \in Posted /\ Head(msgQ).op = op
           /\ msgQ' = Tail(msgQ) /\ msgQ' \in Seq(Posted)
  BY DEF Take, TypeOK

\* The head of the queue names a client when it is a modem request.
LEMMA ModemMessage ==
    ASSUME NEW m \in Posted, m.op \in {"OPEN", "CLOSE"}
    PROVE  m.id \in Clients
  BY DEF Posted

\* LocEngRequestATL: a client is added, and told at once if the NIF is up.
LEMMA RequestStep ==
    ASSUME NifInv, RequestATL
    PROVE  NifInv'
  <1> USE DEF NifInv
  <1> DEFINE c == Head(msgQ).id
  <1>1. /\ msgQ # <<>> /\ Head(msgQ).op = "OPEN" /\ c \in Clients
        /\ msgQ' = Tail(msgQ) /\ msgQ' \in Seq(Posted)
    BY TakeMessage, ModemMessage DEF RequestATL
  <1>2. Restarting' => Restarting
    BY <1>1, RestartStaysQueued
  <1> HIDE DEF c
  <1>3. CASE SubscribeReleased(c)
    <2>1. TypeOK'
      BY <1>1, <1>3 DEF RequestATL, SubscribeReleased, SendRsrcRequest, TypeOK, State
    <2>2. PendingIsAnswered'
      BY <1>3 DEF SubscribeReleased, SendRsrcRequest, PendingIsAnswered, AnswerDue, TypeOK
    <2> QED
      BY <1>2, <1>3, <2>1, <2>2
      DEF SubscribeReleased, ReleasedHasNoSubscribers, OpenClientIsSubscribed,
          RestartingClientsAreIdle
  <1>4. CASE SubscribePending(c)
    <2>1. TypeOK'
      BY <1>1, <1>4 DEF RequestATL, SubscribePending, TypeOK
    <2>2. PendingIsAnswered'
      BY <1>1, <1>4, AnswerStaysQueued
      DEF RequestATL, SubscribePending, PendingIsAnswered, AnswerDue
    <2> QED
      BY <1>2, <1>4, <2>1, <2>2
      DEF SubscribePending, ReleasedHasNoSubscribers, OpenClientIsSubscribed,
          RestartingClientsAreIdle
  <1>5. CASE SubscribeAcquired(c)
    <2>1. TypeOK'
      BY <1>1, <1>5 DEF RequestATL, SubscribeAcquired, AtlOpened, TypeOK, Believes
    <2> QED
      BY <1>1, <1>2, <1>5, <2>1
      DEF SubscribeAcquired, AtlOpened, TypeOK, ReleasedHasNoSubscribers,
          PendingIsAnswered, OpenClientIsSubscribed, RestartingClientsAreIdle
  <1> QED
    BY <1>3, <1>4, <1>5 DEF RequestATL, c

\* LocEngReleaseATL: a client is deleted; the last one gives the NIF back.
LEMMA ReleaseStep ==
    ASSUME NifInv, ReleaseATL
    PROVE  NifInv'
  <1> USE DEF NifInv
  <1> DEFINE c == Head(msgQ).id
  <1>1. /\ msgQ # <<>> /\ Head(msgQ).op = "CLOSE" /\ c \in Clients
        /\ msgQ' = Tail(msgQ) /\ msgQ' \in Seq(Posted)
    BY TakeMessage, ModemMessage DEF ReleaseATL
  <1>2. Restarting' => Restarting
    BY <1>1, RestartStaysQueued
  <1> HIDE DEF c
  <1>3. ASSUME UNCHANGED <<mState, fwReq>>, client' = AtlClosed({c}),
               mSubscribers' \in {mSubscribers, mSubscribers \ {c}},
               fwConn' = fwConn
        PROVE  NifInv'
    <2>1. TypeOK'
      BY <1>1, <1>3 DEF AtlClosed, TypeOK, Believes
    <2>2. PendingIsAnswered'
      BY <1>1, <1>3, AnswerStaysQueued DEF PendingIsAnswered, AnswerDue
    <2> QED
      BY <1>1, <1>2, <1>3, <2>1, <2>2
      DEF AtlClosed, TypeOK, ReleasedHasNoSubscribers, OpenClientIsSubscribed,
          RestartingClientsAreIdle
  <1>4. CASE UnsubscribeUnknown(c) \/ UnsubscribeReleased(c)
    BY <1>3, <1>4 DEF ReleaseATL, UnsubscribeUnknown, UnsubscribeReleased
  <1>5. CASE Unsubscribe(c) /\ mSubscribers' # {}
    BY <1>3, <1>5 DEF ReleaseATL, Unsubscribe
  <1>6. CASE Unsubscribe(c) /\ mSubscribers' = {}
    <2>1. fwReq' \in Seq({"REQUEST", "RELEASE"}) /\ mState' = "Released"
      <3>1. fwReq' = Append(fwReq, "RELEASE") /\ mState' = "Released"
        BY <1>6 DEF Unsubscribe, SendRsrcRequest
      <3> QED
        BY <3>1 DEF TypeOK
    <2>2. client' \in [Clients -> Believes]
      BY <1>6 DEF Unsubscribe, AtlClosed, TypeOK, Believes
    <2>3. TypeOK'
      BY <1>1, <1>6, <2>1, <2>2 DEF ReleaseATL, TypeOK, State
    <2> QED
      BY <1>1, <1>2, <1>6, <2>3
      DEF Unsubscribe, AtlClosed, TypeOK, ReleasedHasNoSubscribers, PendingIsAnswered,
          OpenClientIsSubscribed, RestartingClientsAreIdle
  <1> QED
    BY <1>4, <1>5, <1>6 DEF ReleaseATL, c

\* The framework's answers and forced releases.
LEMMA AnswerStep ==
    ASSUME NifInv, AtlOpenSuccess \/ AtlClosedByFramework \/ AtlOpenFailure
    PROVE  NifInv'
  <1> USE DEF NifInv
  <1>1. /\ msgQ # <<>> /\ msgQ' = Tail(msgQ) /\ msgQ' \in Seq(Posted)
    BY TakeMessage DEF AtlOpenSuccess, AtlClosedByFramework, AtlOpenFailure
  <1>2. Restarting' => Restarting
    BY <1>1, RestartStaysQueued
  <1>3. TypeOK'
    BY <1>1 DEF AtlOpenSuccess, AtlClosedByFramework, AtlOpenFailure, AtlOpened,
                AtlClosed, AtlOpenFailed, TypeOK, State, Believes
  <1>4. PendingIsAnswered'
    <2>1. mState' = "Pending" => mState = "Pending" /\ AtlClosedByFramework
      BY DEF AtlOpenSuccess, AtlClosedByFramework, AtlOpenFailure
    <2>2. SUFFICES ASSUME mState = "Pending", AtlClosedByFramework PROVE AnswerDue'
      BY <2>1 DEF PendingIsAnswered
    <2>3. Head(msgQ).op = "RELEASED" /\ UNCHANGED <<fwReq, fwConn>>
      BY <2>2, TakeMessage DEF AtlClosedByFramework
    <2> QED
      BY <1>1, <2>2, <2>3, AnswerStaysQueued DEF PendingIsAnswered, AnswerDue
  <1>5. ReleasedHasNoSubscribers' /\ OpenClientIsSubscribed' /\ RestartingClientsAreIdle'
    BY <1>2 DEF AtlOpenSuccess, AtlClosedByFramework, AtlOpenFailure, AtlOpened, AtlClosed,
                AtlOpenFailed, TypeOK, ReleasedHasNoSubscribers, OpenClientIsSubscribed,
                RestartingClientsAreIdle
  <1> QED
    BY <1>3, <1>4, <1>5

\* The end of a restart empties the list, when no client is engaged.
LEMMA EngineUpStep ==
    ASSUME NifInv, EngineUp
    PROVE  NifInv'
  <1> USE DEF NifInv
  <1>1. /\ msgQ # <<>> /\ msgQ' = Tail(msgQ) /\ msgQ' \in Seq(Posted)
        /\ Head(msgQ).op = "ENGINE_UP"
    BY TakeMessage DEF EngineUp
  <1>2. Restarting' => Restarting
    BY <1>1, RestartStaysQueued
  <1>3. \A d \in Clients : client[d] = "idle"
    BY <1>1 DEF Restarting, RestartingClientsAreIdle, TypeOK
  <1>4. PendingIsAnswered'
    BY <1>1, AnswerStaysQueued DEF EngineUp, PendingIsAnswered, AnswerDue
  <1> QED
    BY <1>1, <1>3, <1>4 DEF EngineUp, TypeOK, ReleasedHasNoSubscribers,
                            OpenClientIsSubscribed, RestartingClientsAreIdle

-----------------------------------------------------------------------------
\* The inductive invariant holds in every reachable state.
THEOREM NifInvariant == Spec => []NifInv
  <1>1. NifInv /\ [Next]_vars => NifInv'
    <2>1. CASE UNCHANGED vars
      BY <2>1 DEF vars, NifInv, TypeOK, ReleasedHasNoSubscribers, PendingIsAnswered,
                  AnswerDue, OpenClientIsSubscribed, RestartingClientsAreIdle, Restarting
    <2>2. CASE Next
      BY <2>2, ModemStep, FrameworkStep, RequestStep, ReleaseStep, AnswerStep, EngineUpStep
      DEF Next, Engine
    <2> QED
      BY <2>1, <2>2
  <1> QED
    BY InitNif, <1>1, PTL DEF Spec

\* AgpsNif's variables keep their types, for any clients and queue bounds.
THEOREM NifTypeOK == Spec => []TypeOK
  BY NifInvariant, PTL DEF NifInv

\* A Released NIF has no subscribers: the error branch of
\* AgpsReleasedState::onRsrcEvent is never taken by an ATL or BIT interface.
THEOREM ReleasedIsEmpty == Spec => []ReleasedHasNoSubscribers
  BY NifInvariant, PTL DEF NifInv

\* A Pending NIF is always owed an answer by the framework.
THEOREM PendingIsNeverStuck == Spec => []PendingIsAnswered
  BY NifInvariant, PTL DEF NifInv

\* A client told its connection is open is subscribed to an Acquired NIF.
THEOREM OpenImpliesSubscribed == Spec => []OpenClientIsSubscribed
  BY NifInvariant, PTL DEF NifInv

-----------------------------------------------------------------------------
\* A queued OPEN is the first message about its client, who is not subscribed
\* and has not gone, unless an ENGINE_UP follows that will drop it.
OpensAreNew ==
    \A j \in 1 .. Len(msgQ) : msgQ[j].op = "OPEN" =>
        /\ msgQ[j].id \notin mSubscribers
        /\ \/ client[msgQ[j].id] # "idle"
           \/ \E k \in j + 1 .. Len(msgQ) : msgQ[k].op = "ENGINE_UP"
        /\ \A i \in 1 .. j - 1 :
               msgQ[i].op \in {"OPEN", "CLOSE"} => msgQ[i].id # msgQ[j].id

\* The inductive invariant of the list of subscribers.
ListInv == NoGhostSubscribers /\ OpensAreNew

\* Posting anything but an OPEN keeps the list right.
LEMMA PostKeepsList ==
    ASSUME TypeOK, ListInv, NEW m \in Posted, m.op # "OPEN",
           msgQ' = Append(msgQ, m), UNCHANGED mSubscribers,
           \/ m.op = "ENGINE_UP"
           \/ \A c \in Clients : client[c] # "idle" => client'[c] # "idle"
    PROVE  ListInv'
  <1>1. /\ msgQ' \in Seq(Posted) /\ Len(msgQ') = Len(msgQ) + 1 /\ Len(msgQ) \in Nat
        /\ \A i \in 1 .. Len(msgQ) : msgQ'[i] = msgQ[i] /\ msgQ[i] \in Posted
        /\ msgQ'[Len(msgQ')] = m
    BY AppendKeeps DEF TypeOK
  <1>2. Restarting => Restarting'
    BY <1>1 DEF Restarting
  <1>3. m.op = "ENGINE_UP" => Restarting'
    BY <1>1 DEF Restarting
  <1>4. NoGhostSubscribers'
    BY <1>2, <1>3 DEF ListInv, NoGhostSubscribers, TypeOK
  <1>5. OpensAreNew'
    <2> SUFFICES ASSUME NEW j \in 1 .. Len(msgQ'), msgQ'[j].op = "OPEN"
                 PROVE  /\ msgQ'[j].id \notin mSubscribers
                        /\ \/ client'[msgQ'[j].id] # "idle"
                           \/ \E k \in j + 1 .. Len(msgQ') : msgQ'[k].op = "ENGINE_UP"
                        /\ \A i \in 1 .. j - 1 : msgQ'[i].op \in {"OPEN", "CLOSE"}
                                                   => msgQ'[i].id # msgQ'[j].id
      BY DEF OpensAreNew
    <2>1. j \in 1 .. Len(msgQ) /\ msgQ'[j] = msgQ[j] /\ msgQ[j] \in Posted
      BY <1>1
    <2>2. msgQ[j].id \in Clients
      BY <2>1, ModemMessage
    <2>3. \/ client'[msgQ'[j].id] # "idle"
          \/ \E k \in j + 1 .. Len(msgQ') : msgQ'[k].op = "ENGINE_UP"
      <3>1. CASE m.op = "ENGINE_UP"
        BY <1>1, <2>1, <3>1
      <3>2. CASE client[msgQ[j].id] # "idle" /\ m.op # "ENGINE_UP"
        BY <2>1, <2>2, <3>2
      <3>3. ASSUME NEW k \in j + 1 .. Len(msgQ), msgQ[k].op = "ENGINE_UP"
            PROVE  \E l \in j + 1 .. Len(msgQ') : msgQ'[l].op = "ENGINE_UP"
        BY <1>1, <3>3
      <3> QED
        BY <2>1, <3>1, <3>2, <3>3 DEF ListInv, OpensAreNew
    <2> QED
      BY <1>1, <2>1, <2>3 DEF ListInv, OpensAreNew
  <1> QED
    BY <1>4, <1>5 DEF ListInv

\* Taking a message keeps the queued OPENs new, when no client with one is
\* subscribed or told of a close.
LEMMA TakeKeepsNew ==
    ASSUME TypeOK, OpensAreNew, msgQ # <<>>, msgQ' = Tail(msgQ),
           \A j \in 2 .. Len(msgQ) : msgQ[j].op = "OPEN" =>
               /\ msgQ[j].id \notin mSubscribers'
               /\ client[msgQ[j].id] # "idle" => client'[msgQ[j].id] # "idle"
    PROVE  OpensAreNew'
  <1>1. /\ Len(msgQ') = Len(msgQ) - 1 /\ Len(msgQ) \in Nat \ {0}
        /\ \A i \in 1 .. Len(msgQ') : i + 1 \in 2 .. Len(msgQ) /\ msgQ'[i] = msgQ[i + 1]
    BY DEF TypeOK
  <1> SUFFICES ASSUME NEW j \in 1 .. Len(msgQ'), msgQ'[j].op = "OPEN"
               PROVE  /\ msgQ'[j].id \notin mSubscribers'
                      /\ \/ client'[msgQ'[j].id] # "idle"
                         \/ \E k \in j + 1 .. Len(msgQ') : msgQ'[k].op = "ENGINE_UP"
                      /\ \A i \in 1 .. j - 1 : msgQ'[i].op \in {"OPEN", "CLOSE"}
                                                 => msgQ'[i].id # msgQ'[j].id
    BY DEF OpensAreNew
  <1>2. j + 1 \in 2 .. Len(msgQ) /\ msgQ'[j] = msgQ[j + 1]
    BY <1>1
  <1>3. ASSUME NEW k \in j + 2 .. Len(msgQ), msgQ[k].op = "ENGINE_UP"
        PROVE  \E l \in j + 1 .. Len(msgQ') : msgQ'[l].op = "ENGINE_UP"
    <2>1. k - 1 \in j + 1 .. Len(msgQ') /\ msgQ'[k - 1] = msgQ[k]
      BY <1>1, <1>3
    <2> QED
      BY <1>3, <2>1
  <1>4. ASSUME NEW i \in 1 .. j - 1, msgQ'[i].op \in {"OPEN", "CLOSE"}
        PROVE  msgQ'[i].id # msgQ'[j].id
    <2>1. i + 1 \in 1 .. (j + 1) - 1 /\ msgQ'[i] = msgQ[i + 1]
      BY <1>1, <1>4
    <2> QED
      BY <1>2, <1>4, <2>1 DEF OpensAreNew
  <1>5. j + 1 \in 1 .. Len(msgQ) /\ (j + 1) + 1 = j + 2
    BY <1>2
  <1> QED
    BY <1>2, <1>3, <1>4, <1>5 DEF OpensAreNew

\* A restart that is queued stays queued until its ENGINE_UP is taken.
LEMMA RestartStays ==
    ASSUME TypeOK, msgQ # <<>>, msgQ' = Tail(msgQ), Head(msgQ).op # "ENGINE_UP"
    PROVE  Restarting => Restarting'
  <1> SUFFICES ASSUME Restarting PROVE Restarting'
    OBVIOUS
  <1>1. PICK k \in 1 .. Len(msgQ) : msgQ[k].op = "ENGINE_UP"
    BY DEF Restarting
  <1>2. k \in 2 .. Len(msgQ)
    BY <1>1 DEF TypeOK
  <1>3. k - 1 \in 1 .. Len(msgQ') /\ msgQ'[k - 1] = msgQ[k]
    BY <1>2, TailKeeps DEF TypeOK
  <1> QED
    BY <1>1, <1>3 DEF Restarting

\* The modem opens only connections that no queued message is about.
LEMMA OpenKeepsList ==
    ASSUME TypeOK, ListInv, NEW c \in Clients, ModemOpen(c)
    PROVE  ListInv'
  <1> DEFINE m == [op |-> "OPEN", id |-> c]
  <1>1. m \in Posted /\ msgQ' = Append(msgQ, m)
    BY DEF Posted, ModemOpen, Post
  <1>2. /\ Len(msgQ') = Len(msgQ) + 1 /\ Len(msgQ) \in Nat
        /\ \A i \in 1 .. Len(msgQ) : msgQ'[i] = msgQ[i] /\ msgQ[i] \in Posted
        /\ msgQ'[Len(msgQ')] = m
    BY <1>1, AppendKeeps DEF TypeOK
  <1>3. ~Restarting /\ UNCHANGED mSubscribers /\ client' = [client EXCEPT ![c] = "opening"]
    BY DEF ModemOpen
  <1>4. c \notin mSubscribers
    BY <1>3 DEF ListInv, NoGhostSubscribers, ModemOpen
  <1>5. \A d \in Clients : client[d] # "idle" => client'[d] # "idle"
    BY <1>3 DEF TypeOK
  <1>6. \A i \in 1 .. Len(msgQ) :
            msgQ[i].op \in {"OPEN", "CLOSE"} => msgQ[i].id # c
    <2> SUFFICES ASSUME NEW i \in 1 .. Len(msgQ), msgQ[i].op \in {"OPEN", "CLOSE"},
                        msgQ[i].id = c
                 PROVE  FALSE
      OBVIOUS
    <2>1. msgQ[i] \in [op : {"OPEN", "CLOSE"}, id : {c}]
      BY <1>2 DEF Posted
    <2> QED
      BY <2>1 DEF ModemOpen, Queued
  <1>7. OpensAreNew'
    <2> SUFFICES ASSUME NEW j \in 1 .. Len(msgQ'), msgQ'[j].op = "OPEN"
                 PROVE  /\ msgQ'[j].id \notin mSubscribers
                        /\ \/ client'[msgQ'[j].id] # "idle"
                           \/ \E k \in j + 1 .. Len(msgQ') : msgQ'[k].op = "ENGINE_UP"
                        /\ \A i \in 1 .. j - 1 : msgQ'[i].op \in {"OPEN", "CLOSE"}
                                                   => msgQ'[i].id # msgQ'[j].id
      BY <1>3 DEF OpensAreNew
    <2>1. CASE j = Len(msgQ')
      <3>1. msgQ'[j].id = c /\ client'[c] = "opening"
        BY <1>2, <1>3, <2>1 DEF TypeOK
      <3> QED
        BY <1>2, <1>4, <1>6, <2>1, <3>1
    <2>2. CASE j # Len(msgQ')
      <3>1. j \in 1 .. Len(msgQ) /\ msgQ'[j] = msgQ[j] /\ msgQ[j].id \in Clients
        BY <1>2, <2>2, ModemMessage
      <3>2. client[msgQ[j].id] # "idle"
        BY <1>2, <1>3, <3>1 DEF ListInv, OpensAreNew, Restarting
      <3> QED
        BY <1>2, <1>5, <3>1, <3>2 DEF ListInv, OpensAreNew
    <2> QED
      BY <2>1, <2>2
  <1>8. NoGhostSubscribers'
    <2>1. ~Restarting'
      BY <1>2, <1>3 DEF Restarting
    <2> QED
      BY <1>3, <1>5 DEF ListInv, NoGhostSubscribers, TypeOK
  <1> QED
    BY <1>7, <1>8 DEF ListInv

\* The engine's handlers keep the list right.
LEMMA EngineKeepsList ==
    ASSUME NifInv, ListInv, Engine
    PROVE  ListInv'
  <1> USE DEF NifInv
  <1>1. /\ msgQ # <<>> /\ msgQ' = Tail(msgQ) /\ Head(msgQ) = msgQ[1] /\ Head(msgQ) \in Posted
        /\ Len(msgQ) \in Nat \ {0} /\ \A i \in 1 .. Len(msgQ) : msgQ[i] \in Posted
    BY DEF Engine, RequestATL, ReleaseATL, AtlOpenSuccess, AtlClosedByFramework,
           AtlOpenFailure, EngineUp, Take, TypeOK
  <1>2. \A j \in 2 .. Len(msgQ) : msgQ[j].op = "OPEN" =>
            /\ msgQ[j].id \in Clients /\ msgQ[j].id \notin mSubscribers
            /\ Head(msgQ).op \in {"OPEN", "CLOSE"} => Head(msgQ).id # msgQ[j].id
    BY <1>1, ModemMessage DEF ListInv, OpensAreNew
  <1>3. CASE RequestATL
    <2> DEFINE c == Head(msgQ).id
    <2>1. Head(msgQ).op = "OPEN" /\ c \in Clients
      BY <1>1, <1>3, ModemMessage DEF RequestATL, Take
    <2>2. /\ mSubscribers' = mSubscribers \union {c}
          /\ client' = client \/ client' = AtlOpened({c})
      BY <1>3 DEF RequestATL, SubscribeReleased, SubscribePending, SubscribeAcquired
    <2>3. \A d \in Clients : client[d] # "idle" => client'[d] # "idle"
      BY <2>2 DEF AtlOpened
    <2>4. OpensAreNew'
      BY <1>1, <1>2, <2>1, <2>2, <2>3, TakeKeepsNew DEF ListInv
    <2>5. Restarting => Restarting'
      BY <1>1, <2>1, RestartStays
    <2>6. client[c] # "idle" \/ Restarting
      <3>1. 1 \in 1 .. Len(msgQ) /\ msgQ[1].op = "OPEN" /\ msgQ[1].id = c
        BY <1>1, <2>1
      <3>2. client[c] # "idle" \/ \E k \in 1 + 1 .. Len(msgQ) : msgQ[k].op = "ENGINE_UP"
        BY <3>1 DEF ListInv, OpensAreNew
      <3> QED
        BY <1>1, <3>2 DEF Restarting
    <2> QED
      BY <2>1, <2>2, <2>3, <2>4, <2>5, <2>6 DEF ListInv, NoGhostSubscribers, TypeOK
  <1>4. CASE ReleaseATL
    <2> DEFINE c == Head(msgQ).id
    <2>1. Head(msgQ).op = "CLOSE" /\ c \in Clients
      BY <1>1, <1>4, ModemMessage DEF ReleaseATL, Take
    <2>2. client' = AtlClosed({c}) /\ mSubscribers' = mSubscribers \ {c}
      BY <1>4 DEF ReleaseATL, UnsubscribeUnknown, UnsubscribeReleased, Unsubscribe,
                  ReleasedHasNoSubscribers
    <2>3. OpensAreNew'
      BY <1>1, <1>2, <2>1, <2>2, TakeKeepsNew DEF ListInv, AtlClosed
    <2>4. Restarting => Restarting'
      BY <1>1, <2>1, RestartStays
    <2> QED
      BY <2>2, <2>3, <2>4 DEF ListInv, NoGhostSubscribers, AtlClosed, TypeOK
  <1>5. CASE AtlOpenSuccess \/ AtlClosedByFramework \/ AtlOpenFailure
    <2>1. /\ Head(msgQ).op # "ENGINE_UP"
          /\ \/ mSubscribers' = mSubscribers /\ client' \in {client, AtlOpened(mSubscribers)}
             \/ /\ mSubscribers' = {}
                /\ client' \in {AtlClosed(mSubscribers), AtlOpenFailed(mSubscribers)}
      BY <1>5 DEF AtlOpenSuccess, AtlClosedByFramework, AtlOpenFailure, Take
    <2>2. \A d \in Clients \ mSubscribers : client[d] # "idle" => client'[d] # "idle"
      BY <2>1 DEF AtlOpened, AtlClosed, AtlOpenFailed
    <2>3. OpensAreNew'
      BY <1>1, <1>2, <2>1, <2>2, TakeKeepsNew DEF ListInv
    <2>4. Restarting => Restarting'
      BY <1>1, <2>1, RestartStays
    <2>5. NoGhostSubscribers'
      BY <2>1, <2>4 DEF ListInv, NoGhostSubscribers, AtlOpened, TypeOK
    <2> QED
      BY <2>3, <2>5 DEF ListInv
  <1>6. CASE EngineUp
    <2>1. mSubscribers' = {} /\ UNCHANGED client
      BY <1>6 DEF EngineUp
    <2>2. OpensAreNew'
      BY <1>1, <2>1, TakeKeepsNew DEF ListInv
    <2> QED
      BY <2>1, <2>2 DEF ListInv, NoGhostSubscribers
  <1> QED
    BY <1>3, <1>4, <1>5, <1>6 DEF Engine

\* The list of subscribers is right in every reachable state: types, empty when
\* the NIF is Released, and without clients that have gone.
THEOREM SubscribersRight == Spec => []SubscribersAreRight
  <1>1. Init => ListInv
    BY DEF Init, ListInv, NoGhostSubscribers, OpensAreNew
  <1>2. ASSUME NifInv, ListInv, [Next]_vars
        PROVE  ListInv'
    <2> USE DEF NifInv
    <2>1. CASE Engine
      BY <1>2, <2>1, EngineKeepsList
    <2>2. ASSUME NEW c \in Clients, ModemOpen(c)
          PROVE  ListInv'
      BY <1>2, <2>2, OpenKeepsList
    <2>3. ASSUME NEW c \in Clients, ModemClose(c)
          PROVE  ListInv'
      <3>1. [op |-> "CLOSE", id |-> c] \in Posted
        BY DEF Posted
      <3> QED
        BY <1>2, <2>3, <3>1, PostKeepsList DEF ModemClose, Post, TypeOK
    <2>4. CASE ModemRestart
      <3>1. [op |-> "ENGINE_UP"] \in Posted
        BY DEF Posted
      <3> QED
        BY <1>2, <2>4, <3>1, PostKeepsList DEF ModemRestart, Post
    <2>5. CASE Framework \/ FwDrop
      <3>1. UNCHANGED <<mSubscribers, client>>
        BY <2>5 DEF Framework, FwRequest, FwRelease, FwAnswer, FwDrop
      <3>2. \/ UNCHANGED msgQ
            \/ \E a \in {"GRANTED", "DENIED", "RELEASED"} : msgQ' = Append(msgQ, [op |-> a])
        BY <2>5 DEF Framework, FwRequest, FwRelease, FwAnswer, FwDrop, Post
      <3>3. \A a \in {"GRANTED", "DENIED", "RELEASED"} : [op |-> a] \in Posted
        BY DEF Posted
      <3>4. CASE UNCHANGED msgQ
        BY <1>2, <3>1, <3>4 DEF ListInv, NoGhostSubscribers, OpensAreNew, Restarting
      <3>5. ASSUME NEW a \in {"GRANTED", "DENIED", "RELEASED"},
                   msgQ' = Append(msgQ, [op |-> a])
            PROVE  ListInv'
        BY <1>2, <3>1, <3>3, <3>5, PostKeepsList
      <3> QED
        BY <3>2, <3>4, <3>5
    <2>6. CASE UNCHANGED vars
      BY <1>2, <2>6 DEF vars, ListInv, NoGhostSubscribers, OpensAreNew, Restarting
    <2> QED
      BY <1>2, <2>1, <2>2, <2>3, <2>4, <2>5, <2>6 DEF Next, Modem
  <1> QED
    BY <1>1, <1>2, NifInvariant, PTL DEF Spec, NifInv, SubscribersAreRight, ListInv

-----------------------------------------------------------------------------
\* Each handler of the engine is a step of the contract or does not show.
LEMMA RequestKeepsContract ==
    ASSUME TypeOK, RequestATL
    PROVE  \E c \in Clients : Contract!Join(c)
  <1> DEFINE c == Head(msgQ).id
  <1>1. c \in Clients
    BY TakeMessage, ModemMessage DEF RequestATL
  <1>2. Contract!Join(c)
    BY DEF RequestATL, SubscribeReleased, SubscribePending, SubscribeAcquired,
           Contract!Join, TypeOK, State
  <1> QED
    BY <1>1, <1>2

\* A close is a Leave of the contract, or changes nothing of the NIF.
LEMMA ReleaseKeepsContract ==
    ASSUME TypeOK, ReleasedHasNoSubscribers, ReleaseATL
    PROVE  (\E c \in Clients : Contract!Leave(c)) \/ UNCHANGED <<mState, mSubscribers>>
  <1> DEFINE c == Head(msgQ).id
  <1>1. c \in Clients
    BY TakeMessage, ModemMessage DEF ReleaseATL
  <1>2. CASE Unsubscribe(c)
    BY <1>1, <1>2 DEF Unsubscribe, Contract!Leave
  <1>3. CASE UnsubscribeUnknown(c) \/ UnsubscribeReleased(c)
    BY <1>3 DEF UnsubscribeUnknown, UnsubscribeReleased
  <1> QED
    BY <1>2, <1>3 DEF ReleaseATL

\* A grant is a Grant, a denial or forced release a Lose, or nothing shows.
LEMMA AnswerKeepsContract ==
    ASSUME AtlOpenSuccess \/ AtlClosedByFramework \/ AtlOpenFailure \/ EngineUp
    PROVE  Contract!Next \/ UNCHANGED <<mState, mSubscribers>>
  BY DEF AtlOpenSuccess, AtlClosedByFramework, AtlOpenFailure, EngineUp,
         Contract!Next, Contract!Grant, Contract!Lose, Contract!Drop

\* The state machine behind its queues implements the contract of a network
\* interface: every handler is a step of NifContract or a stutter.
THEOREM NifImplementsContract == Spec => KeepsContract
  <1>1. Init => Contract!Init
    BY DEF Init, Contract!Init
  <1>2. ASSUME NifInv, [Next]_vars
        PROVE  [Contract!Next]_(Contract!contractVars)
    <2>1. CASE Engine
      BY <1>2, <2>1, RequestKeepsContract, ReleaseKeepsContract, AnswerKeepsContract
      DEF Engine, NifInv, Contract!Next, Contract!contractVars
    <2>2. CASE Modem \/ ModemRestart \/ Framework \/ FwDrop \/ UNCHANGED vars
      BY <2>2 DEF Modem, ModemOpen, ModemClose, ModemRestart, Framework, FwRequest,
                  FwRelease, FwAnswer, FwDrop, vars, Contract!contractVars
    <2> QED
      BY <1>2, <2>1, <2>2 DEF Next
  <1> QED
    BY <1>1, <1>2, NifInvariant, PTL DEF Spec, KeepsContract, Contract!Spec
=============================================================================
