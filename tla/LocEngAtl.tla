----------------------------- MODULE LocEngAtl -----------------------------
(***************************************************************************)
(* Data connections for assisted GPS, as loc_eng.cpp composes them: the    *)
(* three network interfaces (agnss, internet and the emergency interface   *)
(* ds), each an AgpsStateMachine with its list of subscribers, all served  *)
(* by the one message thread of the engine.  The emergency interface is a  *)
(* DSStateMachine: it brings up a data call itself, retries a busy data    *)
(* service from a timer, and falls back to a normal connection by posting  *)
(* LocEngRequestATL to the engine's own queue.                             *)
(***************************************************************************)
EXTENDS Naturals, Sequences, FiniteSets

CONSTANTS
    Handles,          \* connection handles the modem may use
    Kinds,            \* the connections it asks for: those of {"SUPL", "ANY", "ES"}
                      \* with the emergency PDN in use, and those without
    MaxRetries,       \* DSStateMachine::MAX_START_DATA_CALL_RETRIES
    QueueBound,       \* bound, with and without it: the modem posts only to a
                      \* shorter engine queue
    ReqBound,         \* bound: and only while fewer callbacks wait at the framework
    TimerBound        \* bound: and only while fewer retry timers are armed

ASSUME AtlAssumption ==
    /\ Kinds \in [BOOLEAN -> SUBSET {"SUPL", "ANY", "ES"}]
    /\ QueueBound \in [BOOLEAN -> Nat]
    /\ {MaxRetries, ReqBound, TimerBound} \subseteq Nat

VARIABLES
    useEmergencyPdn,  \* gps_conf.USE_EMERGENCY_PDN_FOR_EMERGENCY_SUPL
    mState,    \* per interface, the current AgpsState object
    list,      \* per interface, the linked list of subscribers, head first
    msgQ,      \* messages posted to the engine thread
    client,    \* what each modem client believes about its connection
    fwReq,     \* agps_status_cb callbacks on their way to the framework
    fwConn,    \* the framework's connection behind agnss and internet
    mRetries,  \* DSStateMachine::mRetries
    timers,    \* retry timers that are armed
    call,      \* the emergency data call of the data services library
    dsHandle,  \* LocApiV02::dsClientHandle is allocated
    abandoned  \* history: active emergency subscribers that outlived their client

dsVars == <<mRetries, timers, call, dsHandle>>
fwVars == <<fwReq, fwConn>>
vars   == <<useEmergencyPdn, mState, list, msgQ, client, fwReq, fwConn, mRetries, timers, call, dsHandle,
            abandoned>>

AgpsNifs == {"agnss", "internet"}
Nifs     == AgpsNifs \union {"ds"}
Message  == [op : {"ATL"}, nif : AgpsNifs, id : Handles]
              \union [op : {"ES", "CLOSE"}, id : Handles]
              \union [op : {"GRANTED", "RELEASED", "DENIED"}, nif : Nifs]
              \union [op : {"ENGINE_UP"}]

TypeOK ==
    /\ useEmergencyPdn \in BOOLEAN
    /\ mState \in [Nifs -> {"Released", "Pending", "Acquired", "Releasing"}]
    /\ list \in [Nifs -> Seq([id : Handles, inactive : BOOLEAN])]
    /\ msgQ \in Seq(Message)
    /\ client \in [Handles -> {"idle", "opening", "open", "closing"}]
    /\ fwReq \in Seq([nif : AgpsNifs, action : {"REQUEST", "RELEASE"}])
    /\ fwConn \in [AgpsNifs -> {"closed", "opening", "open"}]
    /\ mRetries \in 0 .. MaxRetries
    /\ timers \in Nat
    /\ call \in {"none", "starting", "up", "stopping"}
    /\ dsHandle \in BOOLEAN

Init ==
    /\ useEmergencyPdn \in BOOLEAN
    /\ mState = [n \in Nifs |-> "Released"]
    /\ list = [n \in Nifs |-> <<>>]
    /\ msgQ = <<>>
    /\ client = [h \in Handles |-> "idle"]
    /\ fwReq = <<>>
    /\ fwConn = [n \in AgpsNifs |-> "closed"]
    /\ mRetries = 0 /\ timers = 0 /\ call = "none" /\ dsHandle = FALSE
    /\ abandoned = {}

-----------------------------------------------------------------------------
(* Subscriber lists.                                                       *)

Ids(l) == {l[i].id : i \in DOMAIN l}

\* The elements of l at the positions in K, in their order.
Kept(l, K) ==
    LET kept[i \in 0 .. Len(l)] ==
            IF i = 0 THEN <<>>
            ELSE IF i \in K THEN Append(kept[i - 1], l[i]) ELSE kept[i - 1]
    IN  kept[Len(l)]

Active(l) == Kept(l, {i \in DOMAIN l : ~l[i].inactive})

\* addSubscriber: at the head, and only if the handle is not listed already.
AddSubscriber(l, id) ==
    IF id \in Ids(l) THEN l ELSE <<[id |-> id, inactive |-> FALSE]>> \o l

Without(l, id) == Kept(l, {i \in DOMAIN l : l[i].id # id})

SetInactive(l, id) ==
    [i \in DOMAIN l |-> [l[i] EXCEPT !.inactive = @ \/ l[i].id = id]]

\* Mutant: no subscriber waits for its close to complete.
WaitsForNothing(n) == FALSE

\* DSSubscriber::waitForCloseComplete; ATL subscribers never wait.
WaitsForClose(n) == n = "ds"

-----------------------------------------------------------------------------
(* The modem: its requests, and what it learns from atlOpenStatus and      *)
(* atlCloseStatus.                                                         *)

AtlOpened(S) ==
    [h \in Handles |-> IF h \in S /\ client[h] = "opening" THEN "open" ELSE client[h]]

AtlOpenFailed(S) ==
    [h \in Handles |-> IF h \in S /\ client[h] = "opening" THEN "idle" ELSE client[h]]

AtlClosed(S) == [h \in Handles |-> IF h \in S THEN "idle" ELSE client[h]]

Post(m) == msgQ' = Append(msgQ, m)

ModemMayPost ==
    Len(msgQ) < QueueBound[useEmergencyPdn] /\ Len(fwReq) < ReqBound /\ timers < TimerBound

Queued(h) ==
    \E i \in DOMAIN msgQ : msgQ[i].op \in {"ATL", "ES", "CLOSE"} /\ msgQ[i].id = h

Restarting == \E i \in DOMAIN msgQ : msgQ[i].op = "ENGINE_UP"

\* LocApiV02::reportAtlRequest: which message a connection request becomes.
RequestOf(kind, h) ==
    CASE kind = "ANY"  -> [op |-> "ATL", nif |-> "internet", id |-> h]
      [] kind = "SUPL" -> [op |-> "ATL", nif |-> "agnss", id |-> h]
      [] kind = "ES"   -> [op |-> "ES", id |-> h]

ModemOpen(h) ==
    /\ client[h] = "idle" /\ ~Queued(h) /\ ~Restarting /\ ModemMayPost
    /\ \E k \in Kinds[useEmergencyPdn] : Post(RequestOf(k, h))
    /\ client' = [client EXCEPT ![h] = "opening"]
    /\ UNCHANGED <<mState, list, fwVars, dsVars>>

ModemClose(h) ==
    /\ client[h] \in {"opening", "open"} /\ ModemMayPost
    /\ Post([op |-> "CLOSE", id |-> h])
    /\ client' = [client EXCEPT ![h] = "closing"]
    /\ UNCHANGED <<mState, list, fwVars, dsVars>>

ModemRestart ==
    /\ ModemMayPost /\ Post([op |-> "ENGINE_UP"])
    /\ client' = [h \in Handles |-> "idle"]
    /\ UNCHANGED <<mState, list, fwVars, dsVars>>

-----------------------------------------------------------------------------
(* sendRsrcRequest.  The engine has taken one message off its queue; what  *)
(* the handler posts to the engine itself goes to the end of the queue.    *)

Took(posted) == msgQ' = Tail(msgQ) \o posted

\* informStatus(RSRC_DENIED): fall back to a normal SUPL connection.
FallBack(l) == [i \in DOMAIN l |-> [op |-> "ATL", nif |-> "agnss", id |-> l[i].id]]

Owner(l) == <<Head(Active(l))>>

\* openAndStartDataCall succeeds.
DataCallStarted ==
    call' = "starting" /\ dsHandle' = TRUE /\ Took(<<>>) /\ UNCHANGED <<mRetries, timers>>

\* The data service is busy: arm a timer, or give up after too many attempts.
\* The client handle was allocated before the service refused.
DataCallBusy(l) ==
    /\ dsHandle' = TRUE /\ UNCHANGED call
    /\ IF mRetries + 1 > MaxRetries
         THEN mRetries' = 0 /\ Took(FallBack(Owner(l))) /\ UNCHANGED timers
         ELSE mRetries' = mRetries + 1 /\ timers' = timers + 1 /\ Took(<<>>)

\* No emergency profile, or the call could not be started on an open handle.
DataCallUnsupported(l, handle) ==
    /\ dsHandle' \in {handle, TRUE}
    /\ mRetries' = 0 /\ Took(FallBack(Owner(l)))
    /\ UNCHANGED <<call, timers>>

\* sent tells the caller whether sendRsrcRequest returned 0.
SendRequest(n, sent, l, handle) ==
    IF n = "ds"
      THEN /\ \/ sent /\ DataCallStarted
              \/ ~sent /\ (DataCallBusy(l) \/ DataCallUnsupported(l, handle))
           /\ UNCHANGED fwReq
      ELSE /\ sent /\ Took(<<>>)
           /\ fwReq' = Append(fwReq, [nif |-> n, action |-> "REQUEST"])
           /\ UNCHANGED dsVars

\* stopDataCall may fail; nobody looks at the outcome.
StopDataCall ==
    /\ call' \in IF dsHandle /\ call \in {"starting", "up"} THEN {call, "stopping"} ELSE {call}
    /\ UNCHANGED <<mRetries, timers, dsHandle>>

SendRelease(n) ==
    IF n = "ds"
      THEN StopDataCall /\ UNCHANGED fwReq
      ELSE fwReq' = Append(fwReq, [nif |-> n, action |-> "RELEASE"]) /\ UNCHANGED dsVars

-----------------------------------------------------------------------------
(* AgpsState::onRsrcEvent, for each event and each state.                  *)

SubscribeReleased(n, id) ==
    /\ mState[n] = "Released"
    /\ list' = [list EXCEPT ![n] = AddSubscriber(@, id)]
    /\ \E sent \in BOOLEAN :
         /\ SendRequest(n, sent, list'[n], dsHandle)
         /\ mState' = IF sent THEN [mState EXCEPT ![n] = "Pending"] ELSE mState
    /\ UNCHANGED client

SubscribeWaiting(n, id) ==
    /\ mState[n] \in {"Pending", "Releasing"}
    /\ list' = [list EXCEPT ![n] = AddSubscriber(@, id)]
    /\ Took(<<>>)
    /\ UNCHANGED <<mState, client, fwReq, dsVars>>

SubscribeAcquired(n, id) ==
    /\ mState[n] = "Acquired"
    /\ client' = AtlOpened({id})
    /\ list' = [list EXCEPT ![n] = AddSubscriber(@, id)]
    /\ Took(<<>>)
    /\ UNCHANGED <<mState, fwReq, dsVars>>

Subscribe(n, id) ==
    /\ SubscribeReleased(n, id) \/ SubscribeWaiting(n, id) \/ SubscribeAcquired(n, id)
    /\ UNCHANGED fwConn

\* The client is told, and nothing leaves the list.
UnsubscribeReleased(n, id) ==
    /\ mState[n] = "Released"
    /\ client' = AtlClosed({id})
    /\ UNCHANGED <<mState, list, fwReq, dsVars>>

UnsubscribeHeld(n, id) ==
    /\ mState[n] # "Released"
    /\ list' = [list EXCEPT ![n] = IF WaitsForClose(n) THEN SetInactive(@, id)
                                                       ELSE Without(@, id)]
    /\ client' = AtlClosed({id})
    /\ mState' = [mState EXCEPT ![n] =
                    IF list'[n] = <<>> THEN "Released"
                    ELSE IF Active(list'[n]) = <<>> THEN "Releasing" ELSE @]
    /\ IF mState[n] # "Releasing" /\ Active(list'[n]) = <<>>
         THEN SendRelease(n) ELSE UNCHANGED <<fwReq, dsVars>>

Unsubscribe(n, id) ==
    /\ UnsubscribeReleased(n, id) \/ UnsubscribeHeld(n, id)
    /\ Took(<<>>)
    /\ UNCHANGED fwConn

\* Mutant: a late grant is taken in any state.
GrantedLate(n) ==
    /\ mState' = [mState EXCEPT ![n] = "Acquired"]
    /\ client' = AtlOpened(Ids(Active(list[n])))
    /\ Took(<<>>)
    /\ UNCHANGED <<list, fwVars, dsVars>>

Granted(n) ==
    /\ IF mState[n] = "Pending"
         THEN /\ mState' = [mState EXCEPT ![n] = "Acquired"]
              /\ client' = AtlOpened(Ids(Active(list[n])))
         ELSE UNCHANGED <<mState, client>>
    /\ Took(<<>>)
    /\ UNCHANGED <<list, fwVars, dsVars>>

\* An AGPS subscriber is told of the failure; an emergency subscriber, active
\* or not, is moved to a normal connection.
DeniedPending(n) ==
    /\ mState[n] = "Pending"
    /\ mState' = [mState EXCEPT ![n] = "Released"]
    /\ list' = [list EXCEPT ![n] = <<>>]
    /\ IF n = "ds"
         THEN Took(FallBack(list[n])) /\ mRetries' = 0 /\ UNCHANGED client
         ELSE Took(<<>>) /\ client' = AtlOpenFailed(Ids(list[n])) /\ UNCHANGED mRetries
    /\ UNCHANGED <<fwReq, timers, call, dsHandle>>

Ignored == Took(<<>>) /\ UNCHANGED <<mState, list, client, fwReq, dsVars>>

Denied(n) ==
    /\ IF mState[n] = "Pending" THEN DeniedPending(n) ELSE Ignored
    /\ UNCHANGED fwConn

\* A forced release.  Emergency subscribers only close the data call handle.
ReleasedAcquired(n) ==
    /\ mState[n] = "Acquired"
    /\ mState' = [mState EXCEPT ![n] = "Released"]
    /\ list' = [list EXCEPT ![n] = <<>>]
    /\ IF n = "ds"
         THEN dsHandle' = (dsHandle /\ list[n] = <<>>) /\ UNCHANGED client
         ELSE client' = AtlClosed(Ids(list[n])) /\ UNCHANGED dsHandle
    /\ Took(<<>>)
    /\ UNCHANGED <<fwReq, mRetries, timers, call>>

\* The close is complete: inactive subscribers go, active ones ask again.  The
\* state becomes Pending whatever the request returns.
ReleasedReleasing(n) ==
    /\ mState[n] = "Releasing"
    /\ list' = [list EXCEPT ![n] = Active(@)]
    /\ IF list'[n] # <<>>
         THEN /\ mState' = [mState EXCEPT ![n] = "Pending"]
              /\ \E sent \in BOOLEAN : SendRequest(n, sent, list'[n], FALSE)
         ELSE /\ mState' = [mState EXCEPT ![n] = "Released"]
              /\ dsHandle' = FALSE /\ Took(<<>>)
              /\ UNCHANGED <<fwReq, mRetries, timers, call>>
    /\ UNCHANGED client

\* The data services library has no DENIED: DSStateMachine::onRsrcEvent takes a
\* RELEASED that changes no state for one.
Released(n) ==
    /\ \/ ReleasedAcquired(n)
       \/ ReleasedReleasing(n)
       \/ n = "ds" /\ DeniedPending(n)
       \/ mState[n] = "Released" /\ Ignored
       \/ n # "ds" /\ mState[n] = "Pending" /\ Ignored
    /\ UNCHANGED fwConn

-----------------------------------------------------------------------------
(* The engine thread: the handler of the message at the head of the queue. *)

Take(op) == msgQ # <<>> /\ Head(msgQ).op = op

RequestATL == Take("ATL") /\ Subscribe(Head(msgQ).nif, Head(msgQ).id)

\* getAgpsStateMachine and LocEngRequestSuplEs: without the emergency PDN an
\* emergency request is served by the normal interface.
RequestSuplEs ==
    Take("ES") /\ Subscribe(IF useEmergencyPdn THEN "ds" ELSE "agnss", Head(msgQ).id)

\* The interfaces are tried in order; the first that lists the handle answers.
ReleaseATL ==
    /\ Take("CLOSE")
    /\ LET id == Head(msgQ).id
           on(n) == id \in Ids(list[n])
       IN \/ on("agnss") /\ Unsubscribe("agnss", id)
          \/ ~on("agnss") /\ on("internet") /\ Unsubscribe("internet", id)
          \/ ~on("agnss") /\ ~on("internet") /\ on("ds") /\ Unsubscribe("ds", id)
          \/ /\ \A n \in Nifs : ~on(n)
             /\ client' = AtlClosed({id}) /\ Took(<<>>)
             /\ UNCHANGED <<mState, list, fwVars, dsVars>>

RsrcGranted  == Take("GRANTED")  /\ Granted(Head(msgQ).nif)
RsrcReleased == Take("RELEASED") /\ Released(Head(msgQ).nif)
RsrcDenied   == Take("DENIED")   /\ Denied(Head(msgQ).nif)

\* The lists of the framework's interfaces are dropped; ds is left alone.
EngineUp ==
    /\ Take("ENGINE_UP") /\ Took(<<>>)
    /\ list' = [n \in Nifs |-> IF n \in AgpsNifs THEN <<>> ELSE list[n]]
    /\ UNCHANGED <<mState, client, fwVars, dsVars>>

Engine ==
    \/ RequestATL \/ RequestSuplEs \/ ReleaseATL
    \/ RsrcGranted \/ RsrcReleased \/ RsrcDenied \/ EngineUp

\* After this message nobody closes h on the emergency interface, should it be an
\* active subscriber there: the modem restarted, its CLOSE was served without it
\* leaving the list, another interface that lists it dropped its list and told
\* the client, or the retry timer had asked for a client that closed meanwhile.
LeftBehind(h) ==
    \/ Take("ENGINE_UP")
    \/ Take("CLOSE") /\ Head(msgQ).id = h
    \/ /\ Take("RELEASED") \/ Take("DENIED")
       /\ \E n \in AgpsNifs : h \in Ids(list[n]) /\ list'[n] = <<>>
    \/ Take("ES") /\ Head(msgQ).id = h /\ client[h] = "idle"

Abandon ==
    abandoned' = {h \in Ids(Active(list'["ds"])) : h \in abandoned \/ LeftBehind(h)}

-----------------------------------------------------------------------------
(* The retry timer, on its own thread, asks again for the active subscriber *)
(* at the head of the emergency list, if there is one.                      *)

RetryTimer ==
    /\ timers > 0 /\ timers' = timers - 1
    /\ IF Active(list["ds"]) # <<>>
         THEN Post([op |-> "ES", id |-> Head(Active(list["ds"])).id])
         ELSE UNCHANGED msgQ
    /\ UNCHANGED <<mState, list, client, fwVars, mRetries, call, dsHandle>>

\* The data services library reports the call up, or down for any reason.
DataCallOpened ==
    /\ call = "starting" /\ call' = "up"
    /\ Post([op |-> "GRANTED", nif |-> "ds"])
    /\ UNCHANGED <<mState, list, client, fwVars, mRetries, timers, dsHandle>>

DataCallClosed ==
    /\ call # "none" /\ call' = "none"
    /\ Post([op |-> "RELEASED", nif |-> "ds"])
    /\ UNCHANGED <<mState, list, client, fwVars, mRetries, timers, dsHandle>>

\* The framework, as in AgpsNif, with one connection per interface.
FwRequest ==
    /\ fwReq # <<>> /\ Head(fwReq).action = "REQUEST"
    /\ fwReq' = Tail(fwReq)
    /\ fwConn' = [fwConn EXCEPT ![Head(fwReq).nif] = "opening"]
    /\ UNCHANGED <<mState, list, msgQ, client, dsVars>>

FwRelease ==
    /\ fwReq # <<>> /\ Head(fwReq).action = "RELEASE"
    /\ fwReq' = Tail(fwReq)
    /\ LET n == Head(fwReq).nif IN
         /\ IF fwConn[n] = "open" THEN Post([op |-> "RELEASED", nif |-> n])
                                  ELSE UNCHANGED msgQ
         /\ fwConn' = [fwConn EXCEPT ![n] = "closed"]
    /\ UNCHANGED <<mState, list, client, dsVars>>

FwAnswer(n) ==
    /\ fwConn[n] = "opening"
    /\ \/ Post([op |-> "GRANTED", nif |-> n]) /\ fwConn' = [fwConn EXCEPT ![n] = "open"]
       \/ Post([op |-> "DENIED", nif |-> n]) /\ fwConn' = [fwConn EXCEPT ![n] = "closed"]
    /\ UNCHANGED <<mState, list, client, fwReq, dsVars>>

FwDrop(n) ==
    /\ fwConn[n] = "open" /\ fwConn' = [fwConn EXCEPT ![n] = "closed"]
    /\ Post([op |-> "RELEASED", nif |-> n])
    /\ UNCHANGED <<mState, list, client, fwReq, dsVars>>

Modem     == \E h \in Handles : ModemOpen(h) \/ ModemClose(h)
Framework == FwRequest \/ FwRelease \/ \E n \in AgpsNifs : FwAnswer(n) \/ FwDrop(n)
DataService == RetryTimer \/ DataCallOpened \/ DataCallClosed

\* The configuration is read once.
Next ==
    /\ \/ Engine /\ Abandon
       \/ (Modem \/ ModemRestart \/ Framework \/ DataService) /\ UNCHANGED abandoned
    /\ UNCHANGED useEmergencyPdn

Spec == Init /\ [][Next]_vars

-----------------------------------------------------------------------------
\* The framework's interfaces keep to the contract of a NIF.
Agnss == INSTANCE NifContract WITH
    Clients <- Handles, nif <- mState["agnss"], subscribers <- Ids(list["agnss"])
Internet == INSTANCE NifContract WITH
    Clients <- Handles, nif <- mState["internet"], subscribers <- Ids(list["internet"])

AgnssKeepsContract    == Agnss!Spec
InternetKeepsContract == Internet!Spec

\* An emergency data call can be taken down: its handle is kept and the interface
\* either has an active subscriber, whose close stops the call, or is Releasing: it
\* has asked for the call's end, though nobody looks at whether that succeeded.
DataCallIsHeld ==
    call \in {"starting", "up"} =>
        /\ dsHandle
        /\ \/ mState["ds"] \in {"Pending", "Acquired"} /\ Active(list["ds"]) # <<>>
           \/ mState["ds"] = "Releasing" /\ list["ds"] # <<>>

\* And a subscriber that holds it has a client that will close it, unless it is
\* left behind in one of the ways of LeftBehind: such a ghost keeps the call up
\* until the modem uses its handle again or the network drops the call.
HolderHasClient ==
    /\ abandoned \subseteq Ids(Active(list["ds"]))
    /\ \A h \in Ids(Active(list["ds"])) :
          h \in abandoned \/ client[h] # "idle" \/ Restarting

\* A client told that its connection is open is an active subscriber of an
\* Acquired interface, so that losing the interface can be reported to it.
\* An emergency data call that is lost is not reported: without that PDN only.
OpenClientIsSubscribed ==
    ~useEmergencyPdn => \A h \in Handles : client[h] = "open" =>
        \E n \in Nifs : mState[n] = "Acquired" /\ h \in Ids(Active(list[n]))

\* A data call is held by the interface that started it and, but for the ghosts of
\* LeftBehind, by clients that will close it; a client with an open connection has
\* an interface that reports its loss.
ConnectionsAccounted == TypeOK /\ DataCallIsHeld /\ HolderHasClient /\ OpenClientIsSubscribed

\* Both interfaces of the framework keep to the contract, although the third one
\* posts requests to agnss when it falls back.
KeepContracts == AgnssKeepsContract /\ InternetKeepsContract
=============================================================================
