------------------------------ MODULE AgpsNif ------------------------------
(***************************************************************************)
(* One AGPS network interface (NIF) of the location engine: the state      *)
(* machine AgpsStateMachine of loc_eng_agps.cpp as it serves ATL and BIT   *)
(* subscribers, the engine's message queue in front of it, the modem       *)
(* clients that ask for the NIF, and the Android framework that owns the   *)
(* data connection.  Everything that runs in the engine runs on the one    *)
(* message thread (LocMsg::proc); the modem and the framework only post    *)
(* messages, so the interesting interleavings are the messages that cross  *)
(* in the queue.                                                           *)
(*                                                                         *)
(* ATL and BIT subscribers never wait for a close to complete, so the      *)
(* fourth state of the class, Releasing, cannot be reached here; module    *)
(* LocEngAtl has the full machine for all three interfaces.                *)
(***************************************************************************)
EXTENDS Naturals, Sequences, FiniteSets

CONSTANTS
    Clients,      \* connection handles the modem may use
    QueueBound,   \* bound: the modem posts only to a shorter engine queue
    ReqBound      \* bound: and only while fewer callbacks wait at the framework

ASSUME NifAssumption == QueueBound \in Nat /\ ReqBound \in Nat

VARIABLES
    mState,       \* mStatePtr: the current AgpsState object
    mSubscribers, \* the linked list of subscribers, as the set of their IDs
    msgQ,         \* LocMsg objects posted to the engine thread
    client,       \* what each modem client believes about its connection
    fwReq,        \* agps_status_cb callbacks on their way to the framework
    fwConn        \* the framework's data connection

vars == <<mState, mSubscribers, msgQ, client, fwReq, fwConn>>

State    == {"Released", "Pending", "Acquired"}
Believes == {"idle", "opening", "open", "closing"}
Posted   == [op : {"OPEN", "CLOSE"}, id : Clients]
              \union [op : {"GRANTED", "RELEASED", "DENIED", "ENGINE_UP"}]

TypeOK ==
    /\ mState \in State
    /\ mSubscribers \subseteq Clients
    /\ msgQ \in Seq(Posted)
    /\ client \in [Clients -> Believes]
    /\ fwReq \in Seq({"REQUEST", "RELEASE"})
    /\ fwConn \in {"closed", "opening", "open"}

Init ==
    /\ mState = "Released"
    /\ mSubscribers = {}
    /\ msgQ = <<>>
    /\ client = [c \in Clients |-> "idle"]
    /\ fwReq = <<>>
    /\ fwConn = "closed"

Post(m) == msgQ' = Append(msgQ, m)

ModemMayPost == Len(msgQ) < QueueBound /\ Len(fwReq) < ReqBound

Queued(c) == \E i \in 1 .. Len(msgQ) : msgQ[i] \in [op : {"OPEN", "CLOSE"}, id : {c}]

Restarting == \E i \in 1 .. Len(msgQ) : msgQ[i].op = "ENGINE_UP"

-----------------------------------------------------------------------------
(* The modem: it opens and closes connections by handle and is told the    *)
(* outcome by atlOpenStatus and atlCloseStatus.                            *)

AtlOpened(S) ==
    [c \in Clients |-> IF c \in S /\ client[c] = "opening" THEN "open" ELSE client[c]]

AtlOpenFailed(S) ==
    [c \in Clients |-> IF c \in S /\ client[c] = "opening" THEN "idle" ELSE client[c]]

AtlClosed(S) ==
    [c \in Clients |-> IF c \in S THEN "idle" ELSE client[c]]

\* A handle is used again only when no message about it is left in the queue,
\* and after a restart only when LocSsrMsg, which goes with ENGINE_UP, has
\* registered the engine for the modem's events again.
ModemOpen(c) ==
    /\ client[c] = "idle" /\ ~Queued(c) /\ ~Restarting
    /\ ModemMayPost /\ Post([op |-> "OPEN", id |-> c])
    /\ client' = [client EXCEPT ![c] = "opening"]
    /\ UNCHANGED <<mState, mSubscribers, fwReq, fwConn>>

ModemClose(c) ==
    /\ client[c] \in {"opening", "open"}
    /\ ModemMayPost /\ Post([op |-> "CLOSE", id |-> c])
    /\ client' = [client EXCEPT ![c] = "closing"]
    /\ UNCHANGED <<mState, mSubscribers, fwReq, fwConn>>

\* The modem restarts: its clients are gone, the engine is told it is up again.
ModemRestart ==
    /\ ModemMayPost /\ Post([op |-> "ENGINE_UP"])
    /\ client' = [c \in Clients |-> "idle"]
    /\ UNCHANGED <<mState, mSubscribers, fwReq, fwConn>>

-----------------------------------------------------------------------------
(* The engine thread: each action takes one message off the queue and runs *)
(* its handler to the end.                                                 *)

Take(op) == msgQ # <<>> /\ Head(msgQ).op = op /\ msgQ' = Tail(msgQ)

\* sendRsrcRequest: the callback goes out; it cannot fail for this servicer.
SendRsrcRequest(action) == fwReq' = Append(fwReq, action)

\* LocEngRequestATL -> subscribeRsrc, in each of the three states.
SubscribeReleased(c) ==
    /\ mState = "Released"
    /\ mSubscribers' = mSubscribers \union {c}
    /\ SendRsrcRequest("REQUEST")
    /\ mState' = "Pending"
    /\ UNCHANGED client

SubscribePending(c) ==
    /\ mState = "Pending"
    /\ mSubscribers' = mSubscribers \union {c}
    /\ UNCHANGED <<mState, client, fwReq>>

SubscribeAcquired(c) ==
    /\ mState = "Acquired"
    /\ client' = AtlOpened({c})
    /\ mSubscribers' = mSubscribers \union {c}
    /\ UNCHANGED <<mState, fwReq>>

RequestATL ==
    /\ Take("OPEN")
    /\ LET c == Head(msgQ).id IN
         SubscribeReleased(c) \/ SubscribePending(c) \/ SubscribeAcquired(c)
    /\ UNCHANGED fwConn

\* LocEngReleaseATL -> unsubscribeRsrc; a handle nobody subscribed is only told so.
UnsubscribeUnknown(c) ==
    /\ c \notin mSubscribers
    /\ client' = AtlClosed({c})
    /\ UNCHANGED <<mState, mSubscribers, fwReq>>

UnsubscribeReleased(c) ==
    /\ c \in mSubscribers /\ mState = "Released"
    /\ client' = AtlClosed({c})
    /\ UNCHANGED <<mState, mSubscribers, fwReq>>

\* Mutant: the last subscriber leaves, the NIF is given back, the state stays.
UnsubscribeKeepsState(c) ==
    /\ c \in mSubscribers /\ mState \in {"Pending", "Acquired"}
    /\ mSubscribers' = mSubscribers \ {c}
    /\ client' = AtlClosed({c})
    /\ UNCHANGED mState
    /\ IF mSubscribers' = {} THEN SendRsrcRequest("RELEASE") ELSE UNCHANGED fwReq

\* Mutant: the subscriber is told but not deleted (postNotifyDelete is false).
UnsubscribeKeepsSubscriber(c) ==
    /\ c \in mSubscribers /\ mState \in {"Pending", "Acquired"}
    /\ client' = AtlClosed({c})
    /\ UNCHANGED <<mState, mSubscribers, fwReq>>

Unsubscribe(c) ==
    /\ c \in mSubscribers /\ mState \in {"Pending", "Acquired"}
    /\ mSubscribers' = mSubscribers \ {c}
    /\ client' = AtlClosed({c})
    /\ IF mSubscribers' = {}
         THEN mState' = "Released" /\ SendRsrcRequest("RELEASE")
         ELSE UNCHANGED <<mState, fwReq>>

ReleaseATL ==
    /\ Take("CLOSE")
    /\ LET c == Head(msgQ).id IN
         UnsubscribeUnknown(c) \/ UnsubscribeReleased(c) \/ Unsubscribe(c)
    /\ UNCHANGED fwConn

\* Mutant: a grant is taken in any state, also the late answer to a request
\* that has been given up.
AtlOpenSuccessLate ==
    /\ Take("GRANTED")
    /\ mState' = "Acquired" /\ client' = AtlOpened(mSubscribers)
    /\ UNCHANGED <<mSubscribers, fwReq, fwConn>>

\* LocEngAtlOpenSuccess: only a pending NIF takes the grant.
AtlOpenSuccess ==
    /\ Take("GRANTED")
    /\ IF mState = "Pending"
         THEN mState' = "Acquired" /\ client' = AtlOpened(mSubscribers)
         ELSE UNCHANGED <<mState, client>>
    /\ UNCHANGED <<mSubscribers, fwReq, fwConn>>

\* Mutant: a forced release empties the list without telling the subscribers.
AtlClosedSilently ==
    /\ Take("RELEASED")
    /\ IF mState = "Acquired"
         THEN mState' = "Released" /\ mSubscribers' = {}
         ELSE UNCHANGED <<mState, mSubscribers>>
    /\ UNCHANGED <<client, fwReq, fwConn>>

\* LocEngAtlClosed: a forced release when acquired, ignored otherwise.
AtlClosedByFramework ==
    /\ Take("RELEASED")
    /\ IF mState = "Acquired"
         THEN /\ mState' = "Released"
              /\ client' = AtlClosed(mSubscribers)
              /\ mSubscribers' = {}
         ELSE UNCHANGED <<mState, mSubscribers, client>>
    /\ UNCHANGED <<fwReq, fwConn>>

\* Mutant: a denied request is forgotten and its subscribers hear nothing.
AtlOpenFailureSilently ==
    /\ Take("DENIED")
    /\ IF mState = "Pending"
         THEN mState' = "Released" /\ mSubscribers' = {}
         ELSE UNCHANGED <<mState, mSubscribers>>
    /\ UNCHANGED <<client, fwReq, fwConn>>

\* LocEngAtlOpenFailed: the pending NIF is given up, every subscriber is told.
AtlOpenFailure ==
    /\ Take("DENIED")
    /\ IF mState = "Pending"
         THEN /\ mState' = "Released"
              /\ client' = AtlOpenFailed(mSubscribers)
              /\ mSubscribers' = {}
         ELSE UNCHANGED <<mState, mSubscribers, client>>
    /\ UNCHANGED <<fwReq, fwConn>>

\* loc_eng_handle_engine_up drops the subscribers and leaves the state alone.
EngineUp ==
    /\ Take("ENGINE_UP")
    /\ mSubscribers' = {}
    /\ UNCHANGED <<mState, client, fwReq, fwConn>>

Engine ==
    \/ RequestATL \/ ReleaseATL \/ AtlOpenSuccess \/ AtlClosedByFramework
    \/ AtlOpenFailure \/ EngineUp

-----------------------------------------------------------------------------
(* The Android framework (outside this repository): it takes the callbacks *)
(* in order, answers every request it does not see cancelled, and may drop *)
(* an open connection at any time.                                         *)

FwRequest ==
    /\ fwReq # <<>> /\ Head(fwReq) = "REQUEST"
    /\ fwReq' = Tail(fwReq)
    /\ fwConn' = "opening"
    /\ UNCHANGED <<mState, mSubscribers, msgQ, client>>

FwRelease ==
    /\ fwReq # <<>> /\ Head(fwReq) = "RELEASE"
    /\ fwReq' = Tail(fwReq)
    /\ IF fwConn = "open" THEN Post([op |-> "RELEASED"]) ELSE UNCHANGED msgQ
    /\ fwConn' = "closed"
    /\ UNCHANGED <<mState, mSubscribers, client>>

FwAnswer ==
    /\ fwConn = "opening"
    /\ \/ Post([op |-> "GRANTED"]) /\ fwConn' = "open"
       \/ Post([op |-> "DENIED"]) /\ fwConn' = "closed"
    /\ UNCHANGED <<mState, mSubscribers, client, fwReq>>

FwDrop ==
    /\ fwConn = "open"
    /\ Post([op |-> "RELEASED"])
    /\ fwConn' = "closed"
    /\ UNCHANGED <<mState, mSubscribers, client, fwReq>>

Modem == \E c \in Clients : ModemOpen(c) \/ ModemClose(c)

Framework == FwRequest \/ FwRelease \/ FwAnswer

Next == Modem \/ ModemRestart \/ Engine \/ Framework \/ FwDrop

Spec == Init /\ [][Next]_vars

\* The message thread keeps serving its queue and the framework its callbacks.
FairSpec == Spec /\ WF_vars(Engine) /\ WF_vars(Framework)

-----------------------------------------------------------------------------
\* A NIF in state Released has no subscribers: AgpsReleasedState::onRsrcEvent
\* logs the contrary as an error it cannot recover from.
ReleasedHasNoSubscribers == mState = "Released" => mSubscribers = {}

\* An answer to the engine's latest request is still to come: the request is
\* the last callback out, or the framework is opening, or the answer is queued.
AnswerDue ==
    IF fwReq # <<>> THEN fwReq[Len(fwReq)] = "REQUEST"
    ELSE \/ fwConn = "opening"
         \/ \E i \in 1 .. Len(msgQ) : msgQ[i].op \in {"GRANTED", "DENIED"}

\* A NIF that is Pending is never waiting for nothing: whatever crossed in the
\* queues, the framework still owes it a GRANTED or a DENIED.
PendingIsAnswered == mState = "Pending" => AnswerDue

\* A client that was told its connection is open is a subscriber of an Acquired
\* NIF, so a release of the NIF will be reported to it.
OpenClientIsSubscribed ==
    \A c \in Clients : client[c] = "open" => mState = "Acquired" /\ c \in mSubscribers

\* The NIF is never held for a client that has gone: a subscriber is a client
\* that has not been told of a close, unless the modem is just restarting.
NoGhostSubscribers ==
    \A c \in mSubscribers : client[c] # "idle" \/ Restarting

\* From the modem's restart until its ENGINE_UP is handled no client is engaged:
\* the engine is registered for the new modem's events only afterwards.
RestartingClientsAreIdle == Restarting => \A c \in Clients : client[c] = "idle"

\* The NIF does what NifContract promises.
Contract == INSTANCE NifContract WITH nif <- mState, subscribers <- mSubscribers
KeepsContract == Contract!Spec

\* Every client that asks for the NIF is answered, or closes, or restarts.
OpeningIsAnswered == \A c \in Clients : client[c] = "opening" ~> client[c] # "opening"

\* The list of subscribers at every moment: of the right type, empty when the NIF
\* is Released, and without clients that have gone.
SubscribersAreRight == TypeOK /\ ReleasedHasNoSubscribers /\ NoGhostSubscribers
=============================================================================
