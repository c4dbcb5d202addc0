------------------------------ MODULE LocEngNi ------------------------------
(***************************************************************************)
(* Network initiated (NI) requests: loc_eng_ni.cpp.  The network asks for  *)
(* the user's consent to a location request.  An accepted request occupies *)
(* one of two sessions, the normal one or that of emergency SUPL, and gets *)
(* a thread of its own (ni_thread_proc) that waits for the user's answer   *)
(* or a timeout and then posts a message with the answer to the modem.     *)
(*                                                                         *)
(* The message thread accepts requests, delivers answers and resets the    *)
(* sessions when the modem goes down; the framework's threads bring the    *)
(* user's answers.  Each session has a mutex, tLock, but rawRequest and    *)
(* reqID are read and written without it: a step below is what a thread    *)
(* does between two accesses of a field that another thread may access.    *)
(*                                                                         *)
(* A request stands for the payload it was received with (rawRequest       *)
(* points to it) and for the identifier the engine gives it.               *)
(***************************************************************************)
EXTENDS Naturals, Sequences, FiniteSets

CONSTANTS
    Requests,    \* requests of the network
    SessionOf,   \* SessionOf[r]: by ni_type, "session" or "sessionEs"
    NoReq,       \* NULL, and the identifier 0
    UserAnswers, \* the answers the framework gives
    AskBound,    \* bound: how many of the requests the modem makes
    DownBound,   \* bound: how often the modem goes down
    QueueBound   \* bound: the modem posts only to a shorter queue

Sessions == {"session", "sessionEs"}

ASSUME NiAssumption ==
    /\ SessionOf \in [Requests -> Sessions]
    /\ NoReq \notin Requests
    /\ UserAnswers \subseteq {"ACCEPT", "DENY", "NORESP"}
    /\ AskBound \in Nat /\ DownBound \in Nat /\ QueueBound \in Nat

VARIABLES
    rawRequest, \* per session, the payload of the request in session
    reqID,      \* per session, the identifier an answer must have
    respRecvd,  \* per session, an answer has been given
    resp,       \* per session, the answer
    thread,     \* per request, where its thread is
    message,    \* per request, the message its thread has made
    user,       \* per request, where the framework's answer is
    userResp,   \* per request, the user's answer
    msgQ,       \* the queue of the message thread
    handler,    \* where the message thread is in the handler of a message
    downs,      \* how often the modem has gone down
    payload,    \* per request, the life of its payload
    told,       \* history: per request, the answers the modem was sent
    raced,      \* history: a reset has met a thread that holds the request
    stray       \* history: a session was given an answer that is not its own,
                \* or was woken by a reset

sessionVars == <<rawRequest, reqID, respRecvd, resp>>
threadVars  == <<thread, message>>
userVars    == <<user, userResp>>
vars == <<rawRequest, reqID, respRecvd, resp, thread, message, user, userResp,
          msgQ, handler, downs, payload, told, raced, stray>>

Answers   == {"ACCEPT", "DENY", "NORESP"}
Responses == Answers \union {"IGNORE", "NONE"}
Response  == [op : {"RESPONSE"}, req : Requests \union {NoReq}, resp : Responses]
NoMsg     == [op |-> "NONE", req |-> NoReq]
Message   == Response \union [op : {"NOTIFY"}, req : Requests]
                \union [op : {"DOWN"}, req : {NoReq}]
At(step, s) == [step |-> step, in |-> s, req |-> NoReq]
Idle        == At("idle", "session")

\* The fields hold what the code puts there; no NULL message is ever posted (261).
TypeOK ==
    /\ rawRequest \in [Sessions -> Requests \union {NoReq}]
    /\ reqID \in [Sessions -> Requests \union {NoReq}]
    /\ respRecvd \in [Sessions -> BOOLEAN]
    /\ resp \in [Sessions -> Responses]
    /\ thread \in [Requests -> {"none", "created", "waiting", "checked", "taken",
                                "cleared", "sending", "done"}]
    /\ message \in [Requests -> Response \union {NoMsg}]
    /\ user \in [Requests -> {"unasked", "asked", "ignoring", "setting", "done"}]
    /\ userResp \in [Requests -> Answers \union {"NONE"}]
    /\ msgQ \in Seq(Message)
    /\ handler \in [step : {"idle", "save", "check", "null", "signal"}, in : Sessions,
                   req : Requests \union {NoReq}]
    /\ downs \in 0..DownBound
    /\ payload \in [Requests -> {"unborn", "live", "freed", "freed twice"}]
    /\ told \in [Requests -> Seq(Answers)]
    /\ raced \in BOOLEAN /\ stray \in BOOLEAN

\* loc_eng_ni_init.
Init ==
    /\ rawRequest = [s \in Sessions |-> NoReq]
    /\ reqID = [s \in Sessions |-> NoReq]
    /\ respRecvd = [s \in Sessions |-> FALSE]
    /\ resp = [s \in Sessions |-> "NONE"]
    /\ thread = [r \in Requests |-> "none"]
    /\ message = [r \in Requests |-> NoMsg]
    /\ user = [r \in Requests |-> "unasked"]
    /\ userResp = [r \in Requests |-> "NONE"]
    /\ msgQ = <<>>
    /\ handler = Idle
    /\ downs = 0
    /\ payload = [r \in Requests |-> "unborn"]
    /\ told = [r \in Requests |-> <<>>]
    /\ raced = FALSE /\ stray = FALSE

Freed(r) ==
    IF r = NoReq THEN payload
    ELSE [payload EXCEPT ![r] = IF @ = "live" THEN "freed" ELSE "freed twice"]

InSession(s) == {r \in Requests : SessionOf[r] = s}

\* A thread holds tLock while it takes the request out of its session.
Unlocked(s) == \A r \in InSession(s) : thread[r] \notin {"checked", "taken"}

-----------------------------------------------------------------------------
(* The modem: it asks, and it goes down.                                   *)

ModemMayPost == Len(msgQ) < QueueBound

NiNotify(r) ==
    /\ ModemMayPost /\ payload[r] = "unborn"
    /\ Cardinality({q \in Requests : payload[q] # "unborn"}) < AskBound
    /\ payload' = [payload EXCEPT ![r] = "live"]
    /\ msgQ' = Append(msgQ, [op |-> "NOTIFY", req |-> r])
    /\ UNCHANGED <<sessionVars, threadVars, userVars, handler, downs,
                   told, raced, stray>>

ModemDown ==
    /\ ModemMayPost /\ downs < DownBound /\ downs' = downs + 1
    /\ msgQ' = Append(msgQ, [op |-> "DOWN", req |-> NoReq])
    /\ UNCHANGED <<sessionVars, threadVars, userVars, handler,
                   payload, told, raced, stray>>

-----------------------------------------------------------------------------
(* The message thread.                                                     *)

Take(op) == handler.step = "idle" /\ msgQ # <<>> /\ Head(msgQ).op = op /\ msgQ' = Tail(msgQ)

\* A new request is refused while its own session, or an emergency, is on.
Busy(r) == rawRequest[SessionOf[r]] # NoReq \/ rawRequest["sessionEs"] # NoReq

\* Mutant: its payload is kept.
RefusedPayloadKept ==
    /\ Take("NOTIFY") /\ Busy(Head(msgQ).req)
    /\ UNCHANGED <<sessionVars, threadVars, userVars, handler, downs,
                   payload, told, raced, stray>>

RequestRefused ==
    /\ Take("NOTIFY") /\ Busy(Head(msgQ).req)
    /\ payload' = Freed(Head(msgQ).req)
    /\ UNCHANGED <<sessionVars, threadVars, userVars, handler, downs,
                   told, raced, stray>>

\* The request takes the session.
RequestSaved ==
    /\ Take("NOTIFY") /\ ~Busy(Head(msgQ).req)
    /\ LET r == Head(msgQ).req IN
         /\ rawRequest' = [rawRequest EXCEPT ![SessionOf[r]] = r]
         /\ handler' = [step |-> "save", in |-> SessionOf[r], req |-> r]
    /\ UNCHANGED <<reqID, respRecvd, resp, threadVars, userVars,
                   downs, payload, told, raced, stray>>

\* It gets its identifier and its thread, and the user is asked.
RequestAccepted ==
    /\ handler.step = "save" /\ handler' = Idle
    /\ reqID' = [reqID EXCEPT ![handler.in] = handler.req]
    /\ thread' = [thread EXCEPT ![handler.req] = "created"]
    /\ user' = [user EXCEPT ![handler.req] = "asked"]
    /\ UNCHANGED <<rawRequest, respRecvd, resp, message, userResp,
                   msgQ, downs, payload, told, raced, stray>>

loc_eng_ni_request_handler == RequestRefused \/ RequestSaved \/ RequestAccepted

\* LocEngInformNiResponse: the answer is sent and the message's payload freed.
InformNiResponse ==
    /\ Take("RESPONSE")
    /\ LET m == Head(msgQ) IN
         /\ told' = IF m.req # NoReq /\ m.resp \in Answers
                      THEN [told EXCEPT ![m.req] = Append(@, m.resp)] ELSE told
         /\ payload' = Freed(m.req)
    /\ UNCHANGED <<sessionVars, threadVars, userVars, handler, downs, raced, stray>>

ModemIsDown ==
    /\ Take("DOWN") /\ handler' = At("check", "sessionEs")
    /\ UNCHANGED <<sessionVars, threadVars, userVars, payload, downs,
                   told, raced, stray>>

\* The emergency session is reset first, then the normal one.
AfterReset(s) == IF s = "sessionEs" THEN At("check", "session") ELSE Idle

ResetSkips(s) ==
    /\ handler = At("check", s) /\ rawRequest[s] = NoReq
    /\ handler' = AfterReset(s)
    /\ UNCHANGED <<sessionVars, threadVars, userVars, msgQ, payload,
                   downs, told, raced, stray>>

ResetFrees(s) ==
    /\ handler = At("check", s) /\ rawRequest[s] # NoReq
    /\ handler' = At("null", s)
    /\ payload' = Freed(rawRequest[s])
    /\ raced' = (raced \/ ~Unlocked(s))
    /\ UNCHANGED <<sessionVars, threadVars, userVars, msgQ, downs, told, stray>>

ResetClears(s) ==
    /\ handler = At("null", s)
    /\ handler' = At("signal", s)
    /\ rawRequest' = [rawRequest EXCEPT ![s] = NoReq]
    /\ UNCHANGED <<reqID, respRecvd, resp, threadVars, userVars,
                   msgQ, payload, downs, told, raced, stray>>

ResetSignals(s) ==
    /\ handler = At("signal", s) /\ Unlocked(s)
    /\ handler' = AfterReset(s)
    /\ respRecvd' = [respRecvd EXCEPT ![s] = TRUE]
    /\ stray' = TRUE
    /\ UNCHANGED <<rawRequest, reqID, resp, threadVars, userVars,
                   msgQ, payload, downs, told, raced>>

loc_eng_ni_reset_on_engine_restart ==
    \E s \in Sessions : ResetSkips(s) \/ ResetFrees(s) \/ ResetClears(s) \/ ResetSignals(s)

MessageThread ==
    \/ loc_eng_ni_request_handler \/ InformNiResponse \/ ModemIsDown
    \/ loc_eng_ni_reset_on_engine_restart

-----------------------------------------------------------------------------
(* ni_thread_proc, the thread of request r.                                *)

Goto(r, place) == thread' = [thread EXCEPT ![r] = place]

\* Mutant: the answer is kept for the next request.
EnterKeepingAnswer(r) ==
    LET s == SessionOf[r] IN
    /\ Goto(r, IF rawRequest[s] # NoReq THEN "checked" ELSE "cleared")
    /\ raced' = (raced \/ handler = At("null", s))
    /\ UNCHANGED <<rawRequest, reqID, respRecvd, message, userVars,
                   msgQ, handler, payload, downs, told, stray>>

\* The wait is over, with tLock held: is there still a request in session?
Enter(r) ==
    LET s == SessionOf[r] IN
    /\ Goto(r, IF rawRequest[s] # NoReq THEN "checked" ELSE "cleared")
    /\ respRecvd' = [respRecvd EXCEPT ![s] = FALSE]
    /\ raced' = (raced \/ handler = At("null", s))
    /\ UNCHANGED <<rawRequest, reqID, message, userVars, msgQ,
                   handler, payload, downs, told, stray>>

BeginWait(r) ==
    /\ thread[r] = "created" /\ Unlocked(SessionOf[r]) /\ ~respRecvd[SessionOf[r]]
    /\ Goto(r, "waiting")
    /\ UNCHANGED <<sessionVars, message, userVars, msgQ, handler,
                   payload, downs, told, raced, stray>>

Answered(r) ==
    /\ thread[r] \in {"created", "waiting"}
    /\ Unlocked(SessionOf[r]) /\ respRecvd[SessionOf[r]]
    /\ Enter(r) /\ UNCHANGED resp

\* Mutant: a timeout waits on.
TimedOutWaitsOn(r) ==
    /\ thread[r] = "waiting" /\ Unlocked(SessionOf[r])
    /\ resp' = [resp EXCEPT ![SessionOf[r]] = "NORESP"]
    /\ UNCHANGED <<rawRequest, reqID, respRecvd, threadVars,
                   userVars, msgQ, handler, downs, payload, told,
                   raced, stray>>

TimedOut(r) ==
    /\ thread[r] = "waiting" /\ Unlocked(SessionOf[r])
    /\ resp' = [resp EXCEPT ![SessionOf[r]] = "NORESP"]
    /\ Enter(r)

\* The message gets the payload, or an ignored request is freed.
TakeRequest(r) ==
    LET s == SessionOf[r] IN
    /\ thread[r] = "checked" /\ Goto(r, "taken")
    /\ IF resp[s] # "IGNORE"
         THEN /\ message' = [message EXCEPT ![r] =
                    [op |-> "RESPONSE", req |-> rawRequest[s], resp |-> resp[s]]]
              /\ UNCHANGED payload
         ELSE payload' = Freed(rawRequest[s]) /\ UNCHANGED message
    /\ UNCHANGED <<sessionVars, userVars, msgQ, handler, downs, told, raced, stray>>

\* Mutant: an ignored request stays in its session.
ClearRequestUnlessIgnored(r) ==
    /\ thread[r] = "taken" /\ Goto(r, "cleared")
    /\ rawRequest' =
         [rawRequest EXCEPT ![SessionOf[r]] = IF message[r] = NoMsg THEN @ ELSE NoReq]
    /\ UNCHANGED <<reqID, respRecvd, resp, message, userVars, msgQ,
                   handler, downs, payload, told, raced, stray>>

\* Mutant: the request stays in its session.
RequestNotCleared(r) ==
    /\ thread[r] = "taken" /\ Goto(r, "cleared")
    /\ UNCHANGED <<sessionVars, message, userVars, msgQ, handler,
                   downs, payload, told, raced, stray>>

ClearRequest(r) ==
    /\ thread[r] = "taken" /\ Goto(r, "cleared")
    /\ rawRequest' = [rawRequest EXCEPT ![SessionOf[r]] = NoReq]
    /\ UNCHANGED <<reqID, respRecvd, resp, message, userVars, msgQ,
                   handler, payload, downs, told, raced, stray>>

\* After the unlock.
ForgetID(r) ==
    /\ thread[r] = "cleared" /\ Goto(r, "sending")
    /\ reqID' = [reqID EXCEPT ![SessionOf[r]] = NoReq]
    /\ UNCHANGED <<rawRequest, respRecvd, resp, message, userVars,
                   msgQ, handler, payload, downs, told, raced, stray>>

SendMsg(r) ==
    /\ thread[r] = "sending" /\ Goto(r, "done")
    /\ message' = [message EXCEPT ![r] = NoMsg]
    /\ msgQ' = IF message[r] # NoMsg THEN Append(msgQ, message[r]) ELSE msgQ
    /\ UNCHANGED <<sessionVars, userVars, handler, payload, downs, told, raced, stray>>

ni_thread_proc(r) ==
    \/ BeginWait(r) \/ Answered(r) \/ TimedOut(r)
    \/ TakeRequest(r) \/ ClearRequest(r) \/ ForgetID(r) \/ SendMsg(r)

-----------------------------------------------------------------------------
(* loc_eng_ni_respond, on a thread of the framework: the user's answer to  *)
(* request r.  The session is found without tLock and changed with it.     *)

IsCurrent(r) == reqID[SessionOf[r]] = r /\ rawRequest[SessionOf[r]] # NoReq

Respond(r, answer) ==
    /\ user[r] = "asked"
    /\ userResp' = [userResp EXCEPT ![r] = answer]
    /\ user' = [user EXCEPT ![r] =
         IF ~IsCurrent(r) THEN "done"
         ELSE IF SessionOf[r] = "sessionEs" /\ answer = "ACCEPT"
                   /\ rawRequest["session"] # NoReq THEN "ignoring"
         ELSE "setting"]
    /\ UNCHANGED <<sessionVars, threadVars, msgQ, handler, payload,
                   downs, told, raced, stray>>

Give(s, answer) ==
    /\ Unlocked(s)
    /\ resp' = [resp EXCEPT ![s] = answer]
    /\ respRecvd' = [respRecvd EXCEPT ![s] = TRUE]
    /\ UNCHANGED <<rawRequest, reqID, threadVars, userResp, msgQ,
                   handler, payload, downs, told, raced>>

\* An accepted emergency request: the request in the normal session is ignored.
IgnoreNormal(r) ==
    /\ user[r] = "ignoring" /\ user' = [user EXCEPT ![r] = "setting"]
    /\ Give("session", "IGNORE")
    /\ stray' = (stray \/ rawRequest["session"] = NoReq)

SetResponse(r) ==
    /\ user[r] = "setting" /\ user' = [user EXCEPT ![r] = "done"]
    /\ Give(SessionOf[r], userResp[r])
    /\ stray' = (stray \/ rawRequest[SessionOf[r]] # r)

loc_eng_ni_respond(r) ==
    \/ \E answer \in UserAnswers : Respond(r, answer)
    \/ IgnoreNormal(r) \/ SetResponse(r)

-----------------------------------------------------------------------------
Modem == ModemDown \/ \E r \in Requests : NiNotify(r)

Next ==
    \/ Modem \/ MessageThread
    \/ \E r \in Requests : ni_thread_proc(r) \/ loc_eng_ni_respond(r)

Spec == Init /\ [][Next]_vars

\* Threads run, and timed waits end.
FairSpec == Spec /\ WF_vars(MessageThread) /\ \A r \in Requests : WF_vars(ni_thread_proc(r))

-----------------------------------------------------------------------------
\* A session is busy only as long as the thread of the very request in it has
\* still to take it out: no later request is refused for one that has gone.
BusyHasThread ==
    \A s \in Sessions :
        \/ rawRequest[s] = NoReq
        \/ thread[rawRequest[s]] \in {"created", "waiting", "checked", "taken"}
        \/ handler = [step |-> "save", in |-> s, req |-> rawRequest[s]]

\* The modem is never sent two answers to one request, although a reset can
\* leave two threads to serve one session.
AnsweredOnce == \A r \in Requests : Len(told[r]) <= 1

\* What refers to the payload of r and will free it: a message, in the queue or
\* in the hands of its thread, or the session.
Holders(r) ==
    {<<"queue", i>> : i \in {j \in DOMAIN msgQ : msgQ[j].req = r}}
      \union {<<"thread", t>> : t \in {u \in Requests : message[u].req = r}}
      \union {<<"session", s>> : s \in {x \in Sessions :
                 /\ rawRequest[x] = r /\ handler # At("null", x)
                 /\ \A t \in InSession(x) : thread[t] # "taken"}}

\* The payload of a request has one holder until it is freed, and is freed once,
\* unless a reset met a thread that was just taking the request.
OneHolder ==
    ~raced => \A r \in Requests :
        /\ payload[r] # "freed twice"
        /\ IF payload[r] = "live" THEN \E h \in Holders(r) : Holders(r) = {h}
                                  ELSE Holders(r) = {}

\* An ACCEPT or DENY sent for a request is what the user answered to it, as long
\* as no answer came after its own request had left and no reset has woken a
\* session: respRecvd is cleared only by the thread that finds it set.
AnswerIsOwn ==
    ~stray => \A r \in Requests : \A i \in DOMAIN told[r] :
        told[r][i] # "NORESP" => told[r][i] = userResp[r]

\* Every request in session leaves it.
SessionEnds ==
    \A r \in Requests : rawRequest[SessionOf[r]] = r ~> rawRequest[SessionOf[r]] # r
=============================================================================
