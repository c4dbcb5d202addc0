--------------------------- MODULE LocEngNiProofs ---------------------------
(***************************************************************************)
(* The sessions of network initiated requests, for every set of requests,  *)
(* every queue and any number of modem restarts: types, a busy session has *)
(* the thread that will free it, no request is answered twice, the answers *)
(* sent are the user's, and a payload has one holder.                      *)
(***************************************************************************)
EXTENDS LocEngNi, TLAPS

\* The sessions, and the message thread's handler, hold what NiAssumption says.
LEMMA SessionTypes ==
    ASSUME NEW r \in Requests PROVE SessionOf[r] \in Sessions
  BY NiAssumption

\* A posted message joins the queue and changes no other entry.
LEMMA AppendKeeps ==
    ASSUME NEW S, NEW q \in Seq(S), NEW m \in S
    PROVE  /\ Append(q, m) \in Seq(S)
           /\ Len(Append(q, m)) = Len(q) + 1
           /\ \A i \in 1 .. Len(q) : Append(q, m)[i] = q[i]
           /\ Append(q, m)[Len(q) + 1] = m
  OBVIOUS

\* A taken message is one of the queue's, which keeps the others in their order.
LEMMA TakeMessage ==
    ASSUME TypeOK, NEW op, Take(op)
    PROVE  /\ msgQ # <<>> /\ Head(msgQ) = msgQ[1] /\ Head(msgQ) \in Message
           /\ Head(msgQ).op = op /\ handler.step = "idle"
           /\ msgQ' = Tail(msgQ) /\ msgQ' \in Seq(Message)
  <1>1. msgQ \in Seq(Message)
    BY DEF TypeOK
  <1> QED
    BY <1>1 DEF Take

\* What the messages of each kind carry.
LEMMA MessageTypes ==
    ASSUME NEW m \in Message
    PROVE  /\ m.req \in Requests \union {NoReq}
           /\ m.op = "NOTIFY" => m.req \in Requests
           /\ m.op = "RESPONSE" => m \in Response
  BY DEF Message, Response

\* Freeing a payload leaves a type and makes nothing unborn.
LEMMA FreedTypes ==
    ASSUME TypeOK, NEW q \in Requests \union {NoReq}
    PROVE  /\ Freed(q) \in [Requests -> {"unborn", "live", "freed", "freed twice"}]
           /\ \A r \in Requests : Freed(q)[r] = "unborn" => payload[r] = "unborn"
  BY DEF TypeOK, Freed

-----------------------------------------------------------------------------
(* The type invariant.                                                     *)

\* What the modem posts, and how often it goes down.
LEMMA ModemTypes == ASSUME TypeOK, Modem PROVE TypeOK'
  <1>1. ASSUME NEW r \in Requests, NiNotify(r) PROVE TypeOK'
    <2>1. [op |-> "NOTIFY", req |-> r] \in Message
      BY DEF Message
    <2> QED
      BY <1>1, <2>1, AppendKeeps DEF NiNotify, TypeOK, sessionVars, threadVars, userVars
  <1>2. CASE ModemDown
    <2>1. [op |-> "DOWN", req |-> NoReq] \in Message
      BY DEF Message
    <2>2. downs' \in 0 .. DownBound
      <3>1. DownBound \in Nat /\ downs \in 0 .. DownBound
        <4>1. downs \in 0 .. DownBound
          BY DEF TypeOK
        <4> QED
          BY <4>1, NiAssumption
      <3> QED
        BY <1>2, <3>1 DEF ModemDown
    <2> QED
      BY <1>2, <2>1, <2>2, AppendKeeps DEF ModemDown, TypeOK, sessionVars, threadVars, userVars
  <1> QED
    BY <1>1, <1>2 DEF Modem

\* What the message thread does.
LEMMA HandlerTypes == ASSUME TypeOK, MessageThread PROVE TypeOK'
  <1> USE DEF sessionVars, threadVars, userVars
  <1>1. CASE RequestRefused
    <2>1. Freed(Head(msgQ).req) \in [Requests -> {"unborn", "live", "freed", "freed twice"}]
      BY <1>1, TakeMessage, MessageTypes, FreedTypes DEF RequestRefused
    <2>2. msgQ' \in Seq(Message)
      BY <1>1, TakeMessage DEF RequestRefused
    <2> QED
      BY <1>1, <2>1, <2>2 DEF RequestRefused, TypeOK
  <1>2. CASE RequestSaved
    <2>1. Head(msgQ).req \in Requests /\ msgQ' \in Seq(Message)
      BY <1>2, TakeMessage, MessageTypes DEF RequestSaved
    <2> QED
      BY <1>2, <2>1, SessionTypes DEF RequestSaved, TypeOK
  <1>3. CASE RequestAccepted
    BY <1>3 DEF RequestAccepted, TypeOK, Idle, At, Sessions
  <1>4. CASE InformNiResponse
    <2> DEFINE m == Head(msgQ)
    <2>1. m \in Response /\ m.req \in Requests \union {NoReq} /\ msgQ' \in Seq(Message)
      BY <1>4, TakeMessage, MessageTypes DEF InformNiResponse
    <2>2. payload' \in [Requests -> {"unborn", "live", "freed", "freed twice"}]
      BY <1>4, <2>1, FreedTypes DEF InformNiResponse
    <2>3. told' \in [Requests -> Seq(Answers)]
      <3>1. told \in [Requests -> Seq(Answers)]
        BY DEF TypeOK
      <3>2. \/ told' = told
            \/ /\ m.req \in Requests /\ m.resp \in Answers
               /\ told' = [told EXCEPT ![m.req] = Append(@, m.resp)]
        BY <1>4, <2>1 DEF InformNiResponse
      <3> HIDE DEF m
      <3>3. m.req \in Requests /\ m.resp \in Answers
              => Append(told[m.req], m.resp) \in Seq(Answers)
        BY <3>1
      <3> QED
        BY <3>1, <3>2, <3>3
    <2>4. UNCHANGED <<sessionVars, threadVars, userVars, handler, downs, raced, stray>>
      BY <1>4 DEF InformNiResponse
    <2> QED
      BY <2>1, <2>2, <2>3, <2>4 DEF TypeOK
  <1>5. CASE ModemIsDown
    <2>1. msgQ' \in Seq(Message)
      BY <1>5, TakeMessage DEF ModemIsDown
    <2> QED
      BY <1>5, <2>1 DEF ModemIsDown, TypeOK, At, Sessions
  <1>6. ASSUME NEW s \in Sessions, ResetSkips(s) \/ ResetClears(s) \/ ResetSignals(s)
        PROVE  TypeOK'
    <2>1. AfterReset(s) \in [step : {"idle", "save", "check", "null", "signal"},
                            in : Sessions, req : Requests \union {NoReq}]
      BY DEF AfterReset, At, Idle, Sessions
    <2>2. CASE ResetSkips(s)
      BY <2>1, <2>2 DEF ResetSkips, TypeOK
    <2>3. CASE ResetClears(s)
      BY <2>3 DEF ResetClears, TypeOK, At
    <2>4. CASE ResetSignals(s)
      BY <2>1, <2>4 DEF ResetSignals, TypeOK
    <2> QED
      BY <1>6, <2>2, <2>3, <2>4
  <1>7. ASSUME NEW s \in Sessions, ResetFrees(s)
        PROVE  TypeOK'
    <2>1. payload' \in [Requests -> {"unborn", "live", "freed", "freed twice"}]
      <3>1. rawRequest[s] \in Requests \union {NoReq}
        BY DEF TypeOK
      <3> QED
        BY <1>7, <3>1, FreedTypes DEF ResetFrees
    <2> QED
      BY <1>7, <2>1 DEF ResetFrees, TypeOK, At, Sessions
  <1> QED
    BY <1>1, <1>2, <1>3, <1>4, <1>5, <1>6, <1>7
    DEF MessageThread, loc_eng_ni_request_handler, loc_eng_ni_reset_on_engine_restart

\* What the thread of a request does.
LEMMA ThreadTypes ==
    ASSUME TypeOK, NEW r \in Requests, ni_thread_proc(r) PROVE TypeOK'
  <1> USE SessionTypes DEF sessionVars, threadVars, userVars, Goto
  <1>1. CASE BeginWait(r) \/ ClearRequest(r) \/ ForgetID(r)
    BY <1>1 DEF BeginWait, ClearRequest, ForgetID, TypeOK
  <1>2. CASE Answered(r) \/ TimedOut(r)
    <2>1. thread' \in [Requests -> {"none", "created", "waiting", "checked", "taken",
                                   "cleared", "sending", "done"}]
      <3>1. PICK place \in {"checked", "cleared"} : thread' = [thread EXCEPT ![r] = place]
        BY <1>2 DEF Answered, TimedOut, Enter
      <3> QED
        BY <3>1 DEF TypeOK
    <2>2. resp' \in [Sessions -> Responses] /\ respRecvd' \in [Sessions -> BOOLEAN]
      BY <1>2 DEF Answered, TimedOut, Enter, TypeOK, Responses, Answers
    <2>3. /\ raced' \in BOOLEAN
          /\ UNCHANGED <<rawRequest, reqID, message, userVars, msgQ, handler, payload,
                         downs, told, stray>>
      BY <1>2 DEF Answered, TimedOut, Enter, TypeOK
    <2> QED
      BY <2>1, <2>2, <2>3 DEF TypeOK
  <1>3. CASE TakeRequest(r)
    <2> DEFINE s == SessionOf[r]
               m == [op |-> "RESPONSE", req |-> rawRequest[s], resp |-> resp[s]]
    <2>1. rawRequest[s] \in Requests \union {NoReq} /\ resp[s] \in Responses
      BY DEF TypeOK
    <2>2. m \in Response
      BY <2>1 DEF Response
    <2>3. Freed(rawRequest[s]) \in [Requests -> {"unborn", "live", "freed", "freed twice"}]
      BY <2>1, FreedTypes
    <2>4. /\ message' \in {message, [message EXCEPT ![r] = m]}
          /\ payload' \in {payload, Freed(rawRequest[s])}
      BY <1>3 DEF TakeRequest
    <2>5. message' \in [Requests -> Response \union {NoMsg}]
      BY <2>2, <2>4 DEF TypeOK
    <2>6. payload' \in [Requests -> {"unborn", "live", "freed", "freed twice"}]
      BY <2>3, <2>4 DEF TypeOK
    <2>7. /\ UNCHANGED <<sessionVars, userVars, msgQ, handler, downs, told, raced, stray>>
          /\ thread' = [thread EXCEPT ![r] = "taken"]
      BY <1>3 DEF TakeRequest
    <2> QED
      BY <2>5, <2>6, <2>7 DEF TypeOK
  <1>4. CASE SendMsg(r)
    <2>1. message[r] # NoMsg => message[r] \in Message
      BY DEF TypeOK, Message
    <2>2. msgQ' \in Seq(Message)
      BY <1>4, <2>1, AppendKeeps DEF SendMsg, TypeOK
    <2> QED
      BY <1>4, <2>2 DEF SendMsg, TypeOK
  <1> QED
    BY <1>1, <1>2, <1>3, <1>4 DEF ni_thread_proc

\* A thread moves alone, and has a place from then on.
LEMMA OthersStay ==
    ASSUME TypeOK, NEW r \in Requests, ni_thread_proc(r)
    PROVE  thread'[r] # "none" /\ \A t \in Requests : t # r => thread'[t] = thread[t]
  <1>1. PICK place \in {"waiting", "checked", "taken", "cleared", "sending", "done"} :
            thread' = [thread EXCEPT ![r] = place]
    BY DEF ni_thread_proc, BeginWait, Answered, TimedOut, Enter, TakeRequest,
           ClearRequest, ForgetID, SendMsg, Goto
  <1> QED
    BY <1>1 DEF TypeOK

\* What the user's answers change.
LEMMA UserTypes ==
    ASSUME TypeOK, NEW r \in Requests, loc_eng_ni_respond(r) PROVE TypeOK'
  <1> USE SessionTypes DEF sessionVars, threadVars, userVars
  <1>1. ASSUME NEW answer \in UserAnswers, Respond(r, answer) PROVE TypeOK'
    BY <1>1, NiAssumption DEF Respond, TypeOK, Answers
  <1>2. CASE IgnoreNormal(r)
    BY <1>2 DEF IgnoreNormal, Give, TypeOK, Responses
  <1>3. CASE SetResponse(r)
    <2>1. userResp[r] \in Responses
      BY DEF TypeOK, Responses, Answers
    <2> QED
      BY <1>3, <2>1 DEF SetResponse, Give, TypeOK
  <1> QED
    BY <1>1, <1>2, <1>3 DEF loc_eng_ni_respond

\* The fields of the sessions, threads and messages keep their types.
THEOREM TypeCorrect == Spec => []TypeOK
  <1>1. Init => TypeOK
    <2> SUFFICES ASSUME Init PROVE TypeOK
      OBVIOUS
    <2>1. downs \in 0 .. DownBound
      BY NiAssumption DEF Init
    <2>2. handler \in [step : {"idle", "save", "check", "null", "signal"},
                      in : Sessions, req : Requests \union {NoReq}]
      BY DEF Init, Idle, At, Sessions
    <2>3. resp \in [Sessions -> Responses]
      BY DEF Init, Responses
    <2> QED
      <3>1. msgQ \in Seq(Message) /\ told \in [Requests -> Seq(Answers)]
        BY DEF Init
      <3> QED
        BY <2>1, <2>2, <2>3, <3>1 DEF Init, TypeOK
  <1>2. TypeOK /\ [Next]_vars => TypeOK'
    <2>1. CASE UNCHANGED vars
      BY <2>1 DEF vars, TypeOK
    <2>2. CASE Next
      BY <2>2, ModemTypes, HandlerTypes, ThreadTypes, UserTypes DEF Next
    <2> QED
      BY <2>1, <2>2
  <1> QED
    BY <1>1, <1>2, PTL DEF Spec
-----------------------------------------------------------------------------
(* A busy session has a thread, and no request is answered twice.          *)

\* The thread of request t is between Enter and ClearRequest.
HasLock(t) == thread[t] \in {"checked", "taken"}

\* The requests that messages of the queue are about, and those still to be handled.
Queued   == {msgQ[i].req : i \in 1 .. Len(msgQ)}
Notified == {msgQ[i].req : i \in {j \in 1 .. Len(msgQ) : msgQ[j].op = "NOTIFY"}}

\* A session holds a request of its own kind, and one thread at a time has its lock.
SessionsFit ==
    /\ \A s \in Sessions : rawRequest[s] # NoReq => SessionOf[rawRequest[s]] = s
    /\ \A t, u \in Requests :
           SessionOf[t] = SessionOf[u] /\ HasLock(t) /\ HasLock(u) => t = u

\* The thread of a request starts when it has been saved.
NewHasNoThread ==
    /\ \A r \in Notified : thread[r] = "none"
    /\ \A r \in Requests : payload[r] = "unborn" => thread[r] = "none"
    /\ handler.step = "save" =>
           /\ handler.req \in Requests \ Notified
           /\ thread[handler.req] = "none" /\ payload[handler.req] # "unborn"

\* No two messages of the queue are about one request.
QueueOnce ==
    \A i, j \in 1 .. Len(msgQ) : msgQ[i].req = msgQ[j].req => i = j \/ msgQ[i].req = NoReq

\* Nor are two threads' messages, or a thread's and one of the queue.
ThreadsOnce ==
    \A t \in Requests : message[t].req # NoReq =>
        /\ message[t].req \notin Queued
        /\ \A u \in Requests : message[u].req = message[t].req => u = t

\* What is queued, or made by a thread, has not been answered.
CarriedIsUntold ==
    \A r \in Requests :
        r \in Queued \/ (\E t \in Requests : message[t].req = r) => told[r] = <<>>

\* A request in session is in no message but that of the thread taking it.
SessionIsUntold ==
    \A s \in Sessions : rawRequest[s] # NoReq =>
        /\ rawRequest[s] \notin Queued /\ told[rawRequest[s]] = <<>>
        /\ \A t \in Requests : message[t].req = rawRequest[s] =>
               thread[t] = "taken" /\ SessionOf[t] = s

\* A request that was not made is nowhere.
UnbornIsNowhere ==
    \A r \in Requests : payload[r] = "unborn" =>
        /\ r \notin Queued /\ told[r] = <<>>
        /\ \A t \in Requests : message[t].req # r
        /\ \A s \in Sessions : rawRequest[s] # r

OnceInv ==
    /\ SessionsFit /\ NewHasNoThread /\ QueueOnce /\ ThreadsOnce /\ CarriedIsUntold
    /\ SessionIsUntold /\ UnbornIsNowhere /\ AnsweredOnce

\* Only requests are notified.
LEMMA NotifiedTypes == TypeOK => Notified \subseteq Requests
  <1> SUFFICES ASSUME TypeOK, NEW i \in 1 .. Len(msgQ), msgQ[i].op = "NOTIFY"
               PROVE  msgQ[i].req \in Requests
    BY DEF Notified
  <1>1. msgQ \in Seq(Message)
    BY DEF TypeOK
  <1>2. msgQ[i] \in Message
    BY <1>1
  <1> QED
    BY <1>2, MessageTypes

\* Taking a message takes its request out of the queue, and no other.
LEMMA TakeQueue ==
    ASSUME TypeOK, QueueOnce, msgQ # <<>>, msgQ' = Tail(msgQ)
    PROVE  /\ QueueOnce' /\ Queued' \subseteq Queued /\ Notified' \subseteq Notified
           /\ Head(msgQ).req \in Queued
           /\ Head(msgQ).op = "NOTIFY" => Head(msgQ).req \in Notified
           /\ Head(msgQ).req # NoReq => Head(msgQ).req \notin Queued'
  <1>1. msgQ \in Seq(Message)
    BY DEF TypeOK
  <1>2. /\ Len(msgQ) \in Nat \ {0} /\ Len(msgQ') = Len(msgQ) - 1 /\ Head(msgQ) = msgQ[1]
        /\ \A i \in 1 .. Len(msgQ') : i + 1 \in 2 .. Len(msgQ) /\ msgQ'[i] = msgQ[i + 1]
    BY <1>1
  <1>3. QueueOnce'
    <2> SUFFICES ASSUME NEW i \in 1 .. Len(msgQ'), NEW j \in 1 .. Len(msgQ'),
                        msgQ'[i].req = msgQ'[j].req, msgQ'[i].req # NoReq
                 PROVE  i = j
      BY DEF QueueOnce
    <2>1. i + 1 \in 1 .. Len(msgQ) /\ j + 1 \in 1 .. Len(msgQ)
      BY <1>2
    <2>2. i + 1 = j + 1
      BY <1>2, <2>1 DEF QueueOnce
    <2> QED
      BY <1>2, <2>2
  <1>4. Queued' \subseteq Queued /\ Notified' \subseteq Notified
    BY <1>2 DEF Queued, Notified
  <1>5. 1 \in 1 .. Len(msgQ)
    BY <1>2
  <1>6. ASSUME Head(msgQ).req # NoReq, Head(msgQ).req \in Queued'
        PROVE  FALSE
    <2>1. PICK i \in 1 .. Len(msgQ') : msgQ'[i].req = msgQ[1].req
      BY <1>2, <1>6 DEF Queued
    <2>2. i + 1 \in 1 .. Len(msgQ) /\ i + 1 # 1 /\ msgQ[i + 1].req = msgQ[1].req
      BY <1>2, <2>1
    <2> QED
      BY <1>2, <1>5, <1>6, <2>2 DEF QueueOnce
  <1> QED
    BY <1>2, <1>3, <1>4, <1>5, <1>6 DEF Queued, Notified

\* Posting a message about a request that no other is about.
LEMMA PostQueue ==
    ASSUME TypeOK, QueueOnce, NEW m \in Message, msgQ' = Append(msgQ, m),
           m.req = NoReq \/ m.req \notin Queued
    PROVE  /\ QueueOnce' /\ Queued' = Queued \union {m.req}
           /\ Notified' \subseteq Notified \union {m.req}
           /\ m.op # "NOTIFY" => Notified' = Notified
  <1>1. msgQ \in Seq(Message)
    BY DEF TypeOK
  <1>2. /\ Len(msgQ) \in Nat /\ Len(msgQ') = Len(msgQ) + 1
        /\ \A i \in 1 .. Len(msgQ) : msgQ'[i] = msgQ[i]
        /\ msgQ'[Len(msgQ) + 1] = m
    BY <1>1, AppendKeeps
  <1>3. QueueOnce'
    BY <1>2 DEF QueueOnce, Queued
  <1>4. 1 .. Len(msgQ') = 1 .. Len(msgQ) \union {Len(msgQ) + 1}
    BY <1>2
  <1>5. Queued' = Queued \union {m.req}
    BY <1>2, <1>4 DEF Queued
  <1>6. Notified' \subseteq Notified \union {m.req}
    BY <1>2, <1>4 DEF Notified
  <1>7. m.op # "NOTIFY" => Notified' = Notified
    BY <1>2, <1>4 DEF Notified
  <1> QED
    BY <1>3, <1>5, <1>6, <1>7
\* The modem posts requests it has not made before, and restarts.
LEMMA ModemOnce ==
    ASSUME TypeOK, OnceInv, Modem
    PROVE  OnceInv'
  <1> USE DEF OnceInv, sessionVars, threadVars, userVars
  <1>1. ASSUME NEW r \in Requests, NiNotify(r)
        PROVE  OnceInv'
    <2> DEFINE m == [op |-> "NOTIFY", req |-> r]
    <2>1. m \in Message /\ m.req = r /\ msgQ' = Append(msgQ, m)
      BY <1>1 DEF Message, NiNotify
    <2>2. payload[r] = "unborn" /\ payload' = [payload EXCEPT ![r] = "live"]
      BY <1>1 DEF NiNotify
    <2>3. /\ r \notin Queued /\ told[r] = <<>> /\ thread[r] = "none"
          /\ \A t \in Requests : message[t].req # r
          /\ \A s \in Sessions : rawRequest[s] # r
          /\ handler.step = "save" => handler.req # r
      BY <2>2 DEF UnbornIsNowhere, NewHasNoThread
    <2>4. QueueOnce' /\ Queued' = Queued \union {r} /\ Notified' \subseteq Notified \union {r}
      BY <2>1, <2>3, PostQueue
    <2>5. UNCHANGED <<rawRequest, thread, message, handler, told>>
      BY <1>1 DEF NiNotify
    <2>6. NewHasNoThread'
      <3>1. \A q \in Requests : payload'[q] = IF q = r THEN "live" ELSE payload[q]
        BY <2>2 DEF TypeOK
      <3>2. \A q \in Requests : payload'[q] = "unborn" => thread'[q] = "none"
        BY <2>5, <3>1 DEF NewHasNoThread
      <3>3. \A q \in Notified' : thread'[q] = "none"
        BY <2>3, <2>4, <2>5 DEF NewHasNoThread
      <3>4. handler'.step = "save" =>
                /\ handler'.req \in Requests \ Notified' /\ thread'[handler'.req] = "none"
                /\ payload'[handler'.req] # "unborn"
        BY <2>3, <2>4, <2>5, <3>1 DEF NewHasNoThread
      <3> QED
        BY <3>2, <3>3, <3>4 DEF NewHasNoThread
    <2>7. UnbornIsNowhere'
      <3>1. \A q \in Requests : payload'[q] = "unborn" => payload[q] = "unborn" /\ q # r
        BY <2>2 DEF TypeOK
      <3> QED
        BY <2>4, <2>5, <3>1 DEF UnbornIsNowhere
    <2>8. ThreadsOnce' /\ CarriedIsUntold' /\ SessionIsUntold'
      BY <2>3, <2>4, <2>5 DEF ThreadsOnce, CarriedIsUntold, SessionIsUntold
    <2> QED
      BY <2>4, <2>5, <2>6, <2>7, <2>8 DEF SessionsFit, HasLock, AnsweredOnce
  <1>2. CASE ModemDown
    <2> DEFINE m == [op |-> "DOWN", req |-> NoReq]
    <2>1. m \in Message /\ m.req = NoReq /\ m.op # "NOTIFY" /\ msgQ' = Append(msgQ, m)
      BY <1>2 DEF Message, ModemDown
    <2>2. QueueOnce' /\ Queued' = Queued \union {NoReq} /\ Notified' = Notified
      BY <2>1, PostQueue
    <2>3. UNCHANGED <<rawRequest, thread, message, handler, told, payload>>
      BY <1>2 DEF ModemDown
    <2> QED
      BY <2>2, <2>3, NiAssumption
      DEF SessionsFit, HasLock, NewHasNoThread, ThreadsOnce, CarriedIsUntold,
          SessionIsUntold, UnbornIsNowhere, AnsweredOnce
  <1> QED
    BY <1>1, <1>2 DEF Modem

\* A message is taken that starts nothing and is not an answer.
LEMMA TakeOnce ==
    ASSUME TypeOK, OnceInv, msgQ # <<>>, msgQ' = Tail(msgQ),
           UNCHANGED <<rawRequest, thread, message, told>>,
           handler' = handler \/ handler'.step # "save",
           \A r \in Requests : payload'[r] = "unborn" => payload[r] = "unborn"
    PROVE  OnceInv'
  <1> USE DEF OnceInv
  <1>1. QueueOnce' /\ Queued' \subseteq Queued /\ Notified' \subseteq Notified
    BY TakeQueue
  <1>2. NewHasNoThread'
    BY <1>1 DEF NewHasNoThread
  <1>3. ThreadsOnce' /\ CarriedIsUntold' /\ SessionIsUntold' /\ UnbornIsNowhere'
    BY <1>1 DEF ThreadsOnce, CarriedIsUntold, SessionIsUntold, UnbornIsNowhere
  <1> QED
    BY <1>1, <1>2, <1>3 DEF SessionsFit, HasLock, AnsweredOnce

\* The queue stays, and at most a session is emptied or a thread moves on.
LEMMA QuietOnce ==
    ASSUME TypeOK, OnceInv, UNCHANGED <<msgQ, message, told>>,
           \A s \in Sessions : rawRequest'[s] \in {rawRequest[s], NoReq},
           \A t \in Requests :
               \/ thread'[t] = thread[t]
               \/ /\ thread[t] # "none" /\ thread'[t] # "none"
                  /\ thread[t] = "taken" => rawRequest'[SessionOf[t]] = NoReq,
           \A t, u \in Requests :
               SessionOf[t] = SessionOf[u] /\ HasLock(t)' /\ HasLock(u)' => t = u,
           handler' = handler \/ handler'.step # "save",
           \A r \in Requests : payload'[r] = "unborn" => payload[r] = "unborn"
    PROVE  OnceInv'
  <1> USE DEF OnceInv
  <1>1. UNCHANGED <<Queued, Notified>> /\ QueueOnce'
    BY DEF Queued, Notified, QueueOnce
  <1>2. SessionsFit'
    BY DEF SessionsFit
  <1>3. NewHasNoThread'
    BY <1>1, NotifiedTypes DEF NewHasNoThread
  <1>4. ThreadsOnce' /\ CarriedIsUntold' /\ UnbornIsNowhere'
    BY <1>1, NiAssumption DEF ThreadsOnce, CarriedIsUntold, UnbornIsNowhere
  <1>5. SessionIsUntold'
    BY <1>1 DEF SessionIsUntold
  <1> QED
    BY <1>1, <1>2, <1>3, <1>4, <1>5 DEF AnsweredOnce
\* The message thread's handlers.
LEMMA HandlerOnce ==
    ASSUME TypeOK, OnceInv, MessageThread
    PROVE  OnceInv'
  <1> USE DEF sessionVars, threadVars, userVars
  <1>1. CASE RequestRefused
    <2>1. Head(msgQ).req \in Requests \union {NoReq} /\ msgQ # <<>> /\ msgQ' = Tail(msgQ)
      BY <1>1, TakeMessage, MessageTypes DEF RequestRefused
    <2>2. \A r \in Requests : payload'[r] = "unborn" => payload[r] = "unborn"
      BY <1>1, <2>1, FreedTypes DEF RequestRefused
    <2> QED
      BY <1>1, <2>1, <2>2, TakeOnce DEF RequestRefused
  <1>2. CASE RequestSaved
    <2> DEFINE r == Head(msgQ).req
    <2>1. /\ r \in Requests /\ msgQ # <<>> /\ msgQ' = Tail(msgQ) /\ Head(msgQ).op = "NOTIFY"
      BY <1>2, TakeMessage, MessageTypes DEF RequestSaved
    <2>2. /\ QueueOnce' /\ Queued' \subseteq Queued /\ Notified' \subseteq Notified
          /\ r \in Queued /\ r \in Notified /\ r \notin Queued'
      BY <2>1, TakeQueue, NiAssumption DEF OnceInv
    <2>3. /\ rawRequest' = [rawRequest EXCEPT ![SessionOf[r]] = r]
          /\ handler' = [step |-> "save", in |-> SessionOf[r], req |-> r]
          /\ UNCHANGED <<thread, message, told, payload>>
      BY <1>2 DEF RequestSaved
    <2>4. /\ thread[r] = "none" /\ payload[r] # "unborn" /\ told[r] = <<>>
          /\ \A t \in Requests : message[t].req # r
      BY <2>1, <2>2, NiAssumption
      DEF OnceInv, NewHasNoThread, UnbornIsNowhere, CarriedIsUntold, ThreadsOnce
    <2>5. \A s \in Sessions : rawRequest'[s] = IF s = SessionOf[r] THEN r ELSE rawRequest[s]
      BY <2>3 DEF TypeOK
    <2> HIDE DEF r
    <2>6. r \notin Notified'
      BY <2>2 DEF Queued, Notified
    <2>7. SessionsFit'
      BY <2>1, <2>3, <2>5 DEF OnceInv, SessionsFit, HasLock
    <2>8. NewHasNoThread'
      BY <2>1, <2>2, <2>3, <2>4, <2>6 DEF OnceInv, NewHasNoThread
    <2>9. ThreadsOnce' /\ CarriedIsUntold'
      BY <2>2, <2>3 DEF OnceInv, ThreadsOnce, CarriedIsUntold
    <2>10. SessionIsUntold'
      BY <2>2, <2>3, <2>4, <2>5 DEF OnceInv, SessionIsUntold
    <2>11. UnbornIsNowhere'
      BY <2>2, <2>3, <2>4, <2>5 DEF OnceInv, UnbornIsNowhere
    <2> QED
      BY <2>2, <2>3, <2>7, <2>8, <2>9, <2>10, <2>11 DEF OnceInv, AnsweredOnce
  <1>3. CASE RequestAccepted
    <2>1. /\ handler.req \in Requests \ Notified
          /\ thread[handler.req] = "none" /\ payload[handler.req] # "unborn"
          /\ handler'.step # "save"
          /\ thread' = [thread EXCEPT ![handler.req] = "created"]
          /\ UNCHANGED <<msgQ, message, told, rawRequest, payload>>
      BY <1>3 DEF RequestAccepted, OnceInv, NewHasNoThread, Idle, At
    <2>2. \A t \in Requests :
              thread'[t] = IF t = handler.req THEN "created" ELSE thread[t]
      BY <2>1 DEF TypeOK
    <2>3. UNCHANGED <<Queued, Notified>> /\ QueueOnce'
      BY <2>1 DEF Queued, Notified, QueueOnce, OnceInv
    <2>4. SessionsFit'
      BY <2>1, <2>2 DEF OnceInv, SessionsFit, HasLock
    <2>5. NewHasNoThread'
      BY <2>1, <2>2, <2>3, NotifiedTypes DEF OnceInv, NewHasNoThread
    <2>6. ThreadsOnce' /\ CarriedIsUntold' /\ UnbornIsNowhere'
      BY <2>1, <2>3 DEF OnceInv, ThreadsOnce, CarriedIsUntold, UnbornIsNowhere
    <2>7. SessionIsUntold'
      BY <2>1, <2>2, <2>3 DEF OnceInv, SessionIsUntold
    <2> QED
      BY <2>1, <2>3, <2>4, <2>5, <2>6, <2>7 DEF OnceInv, AnsweredOnce
  <1>4. CASE InformNiResponse
    <2> DEFINE m == Head(msgQ)
    <2>1. /\ m \in Response /\ m.req \in Requests \union {NoReq}
          /\ msgQ # <<>> /\ msgQ' = Tail(msgQ) /\ handler.step = "idle"
      BY <1>4, TakeMessage, MessageTypes DEF InformNiResponse
    <2>2. /\ QueueOnce' /\ Queued' \subseteq Queued /\ Notified' \subseteq Notified
          /\ m.req \in Queued
          /\ m.req # NoReq => m.req \notin Queued'
      BY <2>1, TakeQueue DEF OnceInv
    <2>3. /\ UNCHANGED <<rawRequest, thread, message, handler>>
          /\ payload' = Freed(m.req)
          /\ \/ told' = told
             \/ m.req # NoReq /\ told' = [told EXCEPT ![m.req] = Append(@, m.resp)]
      BY <1>4 DEF InformNiResponse
    <2>4. \A r \in Requests : payload'[r] = "unborn" => payload[r] = "unborn"
      BY <2>1, <2>3, FreedTypes
    <2> HIDE DEF m
    <2>5. \A r \in Requests : r # m.req => told'[r] = told[r]
      BY <2>1, <2>3 DEF TypeOK
    <2>6. m.req # NoReq => told[m.req] = <<>> /\ payload[m.req] # "unborn"
      BY <2>1, <2>2 DEF OnceInv, CarriedIsUntold, UnbornIsNowhere
    <2>7. SessionsFit'
      BY <2>3 DEF OnceInv, SessionsFit, HasLock
    <2>8. NewHasNoThread'
      BY <2>1, <2>2, <2>3, <2>4 DEF OnceInv, NewHasNoThread
    <2>9. ThreadsOnce'
      BY <2>2, <2>3 DEF OnceInv, ThreadsOnce
    <2>10. CarriedIsUntold'
      BY <2>1, <2>2, <2>3, <2>5, NiAssumption DEF OnceInv, CarriedIsUntold, ThreadsOnce
    <2>11. SessionIsUntold'
      <3>1. \A s \in Sessions : rawRequest[s] # NoReq => rawRequest[s] \in Requests
        BY DEF TypeOK
      <3> QED
        BY <2>2, <2>3, <2>5, <3>1 DEF OnceInv, SessionIsUntold
    <2>12. UnbornIsNowhere'
      BY <2>1, <2>2, <2>3, <2>4, <2>5, <2>6, NiAssumption DEF OnceInv, UnbornIsNowhere
    <2>13. AnsweredOnce'
      <3> SUFFICES ASSUME NEW r \in Requests PROVE Len(told'[r]) <= 1
        BY DEF AnsweredOnce
      <3>1. CASE told'[r] = told[r]
        BY <3>1 DEF OnceInv, AnsweredOnce
      <3>2. CASE r = m.req /\ told' # told
        <4>1. m.req # NoReq /\ told'[r] = Append(<<>>, m.resp)
          <5>1. told \in [Requests -> Seq(Answers)]
            BY DEF TypeOK
          <5> QED
            BY <2>3, <2>6, <3>2, <5>1
        <4> QED
          BY <4>1
      <3> QED
        BY <2>5, <3>1, <3>2
    <2> QED
      BY <2>2, <2>7, <2>8, <2>9, <2>10, <2>11, <2>12, <2>13 DEF OnceInv
  <1>5. CASE ModemIsDown
    <2>1. msgQ # <<>> /\ msgQ' = Tail(msgQ)
      BY <1>5, TakeMessage DEF ModemIsDown
    <2> QED
      BY <1>5, <2>1, TakeOnce DEF ModemIsDown, At
  <1>6. ASSUME NEW s \in Sessions, ResetSkips(s) \/ ResetFrees(s) \/ ResetSignals(s)
        PROVE  OnceInv'
    <2>1. UNCHANGED <<msgQ, message, told, rawRequest, thread>>
      BY <1>6 DEF ResetSkips, ResetFrees, ResetSignals
    <2>2. handler'.step # "save"
      BY <1>6 DEF ResetSkips, ResetFrees, ResetSignals, AfterReset, At, Idle
    <2>3. \A r \in Requests : payload'[r] = "unborn" => payload[r] = "unborn"
      <3>1. rawRequest[s] \in Requests \union {NoReq}
        BY DEF TypeOK
      <3> QED
        BY <1>6, <3>1, FreedTypes DEF ResetSkips, ResetFrees, ResetSignals
    <2>4. \A t, u \in Requests :
              SessionOf[t] = SessionOf[u] /\ HasLock(t)' /\ HasLock(u)' => t = u
      BY <2>1 DEF OnceInv, SessionsFit, HasLock
    <2> QED
      BY <2>1, <2>2, <2>3, <2>4, QuietOnce
  <1>7. ASSUME NEW s \in Sessions, ResetClears(s)
        PROVE  OnceInv'
    <2>1. /\ UNCHANGED <<msgQ, message, told, thread, payload>> /\ handler'.step # "save"
          /\ rawRequest' = [rawRequest EXCEPT ![s] = NoReq]
      BY <1>7 DEF ResetClears, At
    <2>2. \A x \in Sessions : rawRequest'[x] \in {rawRequest[x], NoReq}
      BY <2>1 DEF TypeOK
    <2>3. \A t, u \in Requests :
              SessionOf[t] = SessionOf[u] /\ HasLock(t)' /\ HasLock(u)' => t = u
      BY <2>1 DEF OnceInv, SessionsFit, HasLock
    <2> QED
      BY <2>1, <2>2, <2>3, QuietOnce
  <1> QED
    BY <1>1, <1>2, <1>3, <1>4, <1>5, <1>6, <1>7
    DEF MessageThread, loc_eng_ni_request_handler, loc_eng_ni_reset_on_engine_restart

\* The thread of a request.
LEMMA ThreadOnce ==
    ASSUME TypeOK, OnceInv, NEW r \in Requests, ni_thread_proc(r)
    PROVE  OnceInv'
  <1> USE DEF sessionVars, threadVars, userVars, Goto
  <1> DEFINE s == SessionOf[r]
  <1>1. /\ s \in Sessions /\ rawRequest[s] \in Requests \union {NoReq}
      BY SessionTypes DEF TypeOK
  <1>2. CASE BeginWait(r) \/ Answered(r) \/ TimedOut(r) \/ ClearRequest(r) \/ ForgetID(r)
    <2>1. /\ UNCHANGED <<msgQ, message, told, handler, payload>>
          /\ thread[r] # "none" /\ thread'[r] # "none"
          /\ \A t \in Requests \ {r} : thread'[t] = thread[t]
      <3>1. UNCHANGED <<msgQ, message, told, handler, payload>> /\ thread[r] # "none"
        BY <1>2 DEF BeginWait, Answered, TimedOut, Enter, ClearRequest, ForgetID
      <3> QED
        BY <3>1, OthersStay
    <2>2. \A x \in Sessions : rawRequest'[x] \in {rawRequest[x], NoReq}
      BY <1>2 DEF BeginWait, Answered, TimedOut, Enter, ClearRequest, ForgetID, TypeOK
    <2>3. thread[r] = "taken" => rawRequest'[s] = NoReq
      BY <1>1, <1>2 DEF BeginWait, Answered, TimedOut, ClearRequest, ForgetID, TypeOK
    <2>4. \A t \in Requests : SessionOf[t] = s /\ t # r /\ HasLock(t)' => ~HasLock(r)'
      <3>1. CASE Answered(r) \/ TimedOut(r)
        BY <2>1, <3>1 DEF Answered, TimedOut, Unlocked, InSession, HasLock
      <3>2. CASE BeginWait(r) \/ ClearRequest(r) \/ ForgetID(r)
        BY <3>2 DEF BeginWait, ClearRequest, ForgetID, HasLock, TypeOK
      <3> QED
        BY <1>2, <3>1, <3>2
    <2>5. \A t, u \in Requests :
              SessionOf[t] = SessionOf[u] /\ HasLock(t)' /\ HasLock(u)' => t = u
      BY <2>1, <2>4 DEF OnceInv, SessionsFit, HasLock
    <2> QED
      BY <2>1, <2>2, <2>3, <2>5, QuietOnce
  <1>3. CASE TakeRequest(r)
    <2> DEFINE q == rawRequest[s]
    <2>1. /\ thread[r] = "checked" /\ thread' = [thread EXCEPT ![r] = "taken"]
          /\ UNCHANGED <<rawRequest, msgQ, handler, told>>
          /\ \/ UNCHANGED message
             \/ message' = [message EXCEPT ![r] =
                    [op |-> "RESPONSE", req |-> q, resp |-> resp[s]]]
          /\ payload' = payload \/ payload' = Freed(q)
      BY <1>3 DEF TakeRequest
    <2>2. \A p \in Requests : payload'[p] = "unborn" => payload[p] = "unborn"
      BY <1>1, <2>1, FreedTypes
    <2>3. \A t \in Requests : thread'[t] = IF t = r THEN "taken" ELSE thread[t]
      BY <2>1 DEF TypeOK
    <2>4. \A t \in Requests : /\ t # r => message'[t] = message[t]
                              /\ message'[r] = message[r] \/ message'[r].req = q
      <3>1. message \in [Requests -> Response \union {NoMsg}]
        BY DEF TypeOK
      <3> QED
        BY <2>1, <3>1
    <2>5. q # NoReq => /\ q \in Requests /\ q \notin Queued /\ told[q] = <<>>
                       /\ SessionOf[q] = s /\ payload[q] # "unborn"
                       /\ \A t \in Requests : message[t].req # q
      BY <1>1, <2>1 DEF OnceInv, SessionIsUntold, SessionsFit, HasLock, UnbornIsNowhere
    <2> HIDE DEF q
    <2>6. UNCHANGED <<Queued, Notified>> /\ QueueOnce'
      BY <2>1 DEF OnceInv, Queued, Notified, QueueOnce
    <2>7. SessionsFit'
      BY <2>1, <2>3 DEF OnceInv, SessionsFit, HasLock
    <2>8. NewHasNoThread'
      BY <2>1, <2>2, <2>3, <2>6, NotifiedTypes DEF OnceInv, NewHasNoThread
    <2>9. ThreadsOnce'
      BY <2>4, <2>5, <2>6 DEF OnceInv, ThreadsOnce
    <2>10. CarriedIsUntold'
      BY <2>1, <2>4, <2>5, <2>6, NiAssumption DEF OnceInv, CarriedIsUntold
    <2>11. SessionIsUntold'
      <3> SUFFICES ASSUME NEW x \in Sessions, rawRequest[x] # NoReq, NEW t \in Requests,
                          message'[t].req = rawRequest[x]
                   PROVE  thread'[t] = "taken" /\ SessionOf[t] = x
        BY <2>1, <2>6 DEF OnceInv, SessionIsUntold
      <3>1. CASE message'[t] = message[t]
        BY <2>3, <3>1 DEF OnceInv, SessionIsUntold
      <3>2. CASE t = r /\ message'[r].req = q
        BY <2>3, <2>5, <3>2 DEF OnceInv, SessionsFit
      <3> QED
        BY <2>4, <3>1, <3>2
    <2>12. UnbornIsNowhere'
      BY <2>1, <2>2, <2>4, <2>5, <2>6, NiAssumption DEF OnceInv, UnbornIsNowhere
    <2> QED
      BY <2>1, <2>6, <2>7, <2>8, <2>9, <2>10, <2>11, <2>12 DEF OnceInv, AnsweredOnce
  <1>4. CASE SendMsg(r)
    <2> DEFINE q == message[r].req
    <2>1. /\ thread[r] = "sending" /\ thread' = [thread EXCEPT ![r] = "done"]
          /\ message' = [message EXCEPT ![r] = NoMsg]
          /\ UNCHANGED <<rawRequest, handler, told, payload>>
          /\ msgQ' = IF message[r] # NoMsg THEN Append(msgQ, message[r]) ELSE msgQ
      BY <1>4 DEF SendMsg
    <2>2. message[r] = NoMsg \/ message[r] \in Response
      BY DEF TypeOK
    <2>3. q \in Requests \union {NoReq}
      BY <2>2 DEF NoMsg, Response
    <2>4. q # NoReq => /\ q \notin Queued /\ told[q] = <<>> /\ payload[q] # "unborn"
                       /\ \A t \in Requests \ {r} : message[t].req # q
                       /\ \A x \in Sessions : rawRequest[x] # q
      BY <2>1, <2>3
      DEF OnceInv, ThreadsOnce, CarriedIsUntold, UnbornIsNowhere, SessionIsUntold
    <2>5. QueueOnce' /\ Queued' \subseteq Queued \union {q} /\ Notified' = Notified
      <3>1. CASE message[r] = NoMsg
        BY <2>1, <3>1 DEF OnceInv, QueueOnce, Queued, Notified
      <3>2. CASE message[r] # NoMsg
        <4>1. message[r] \in Message /\ message[r].op # "NOTIFY" /\ msgQ' = Append(msgQ, message[r])
          BY <2>1, <2>2, <3>2 DEF Message, Response
        <4> QED
          BY <2>4, <4>1, PostQueue DEF OnceInv
      <3> QED
        BY <3>1, <3>2
    <2>6. \A t \in Requests : /\ thread'[t] = IF t = r THEN "done" ELSE thread[t]
                              /\ t # r => message'[t] = message[t]
                              /\ message'[r].req = NoReq
      BY <2>1 DEF TypeOK, NoMsg
    <2> HIDE DEF q
    <2>7. SessionsFit'
      BY <2>1, <2>6 DEF OnceInv, SessionsFit, HasLock
    <2>8. NewHasNoThread'
      BY <2>1, <2>5, <2>6, NotifiedTypes DEF OnceInv, NewHasNoThread
    <2>9. ThreadsOnce'
      BY <2>4, <2>5, <2>6 DEF OnceInv, ThreadsOnce
    <2>10. CarriedIsUntold'
      BY <2>1, <2>4, <2>5, <2>6, NiAssumption DEF OnceInv, CarriedIsUntold
    <2>11. SessionIsUntold'
      BY <2>1, <2>4, <2>5, <2>6 DEF OnceInv, SessionIsUntold
    <2>12. UnbornIsNowhere'
      BY <2>1, <2>4, <2>5, <2>6, NiAssumption DEF OnceInv, UnbornIsNowhere
    <2> QED
      BY <2>1, <2>5, <2>7, <2>8, <2>9, <2>10, <2>11, <2>12 DEF OnceInv, AnsweredOnce
  <1> QED
    BY <1>2, <1>3, <1>4 DEF ni_thread_proc

\* The framework's answers change neither messages nor threads.
LEMMA UserOnce ==
    ASSUME OnceInv, UNCHANGED <<rawRequest, thread, message, msgQ, handler, payload, told>>
    PROVE  OnceInv'
  BY DEF OnceInv, SessionsFit, HasLock, NewHasNoThread, QueueOnce, ThreadsOnce, Queued, Notified,
         CarriedIsUntold, SessionIsUntold, UnbornIsNowhere, AnsweredOnce

\* The inductive invariant of the messages and sessions.
THEOREM OnceCorrect == Spec => []OnceInv
  <1>1. Init => OnceInv
    <2> SUFFICES ASSUME Init PROVE OnceInv
      OBVIOUS
    <2>1. Queued = {} /\ Notified = {}
      BY DEF Init, Queued, Notified
    <2> QED
      BY <2>1, NiAssumption
      DEF Init, OnceInv, SessionsFit, HasLock, NewHasNoThread, QueueOnce, ThreadsOnce,
          CarriedIsUntold, SessionIsUntold, UnbornIsNowhere, AnsweredOnce, NoMsg, Idle, At
  <1>2. TypeOK /\ OnceInv /\ [Next]_vars => OnceInv'
    <2> SUFFICES ASSUME TypeOK, OnceInv, [Next]_vars PROVE OnceInv'
      OBVIOUS
    <2>1. ASSUME NEW r \in Requests, loc_eng_ni_respond(r)
          PROVE  OnceInv'
      BY <2>1, UserOnce
      DEF loc_eng_ni_respond, Respond, IgnoreNormal, SetResponse, Give, sessionVars, threadVars
    <2>2. CASE UNCHANGED vars
      BY <2>2, UserOnce DEF vars
    <2> QED
      BY <2>1, <2>2, ModemOnce, HandlerOnce, ThreadOnce DEF Next
  <1> QED
    BY <1>1, <1>2, TypeCorrect, PTL DEF Spec

\* The modem is sent at most one answer to a request, for any requests, answers
\* and restarts: only the thread that finds a request in its session makes the
\* message that answers it.
THEOREM NeverAnsweredTwice == Spec => []AnsweredOnce
  BY OnceCorrect, PTL DEF OnceInv
-----------------------------------------------------------------------------
\* A step that keeps the requests in session, or empties sessions, keeps them
\* served when no thread of such a request leaves.
LEMMA StaysServed ==
    ASSUME TypeOK, BusyHasThread, UNCHANGED handler \/ handler.step # "save",
           \A s \in Sessions : rawRequest'[s] \in {rawRequest[s], NoReq},
           \A s \in Sessions : rawRequest'[s] # NoReq =>
               \/ thread'[rawRequest[s]] = thread[rawRequest[s]]
               \/ thread'[rawRequest[s]] \in {"created", "waiting", "checked", "taken"}
    PROVE  BusyHasThread'
  BY DEF BusyHasThread

\* A busy session has a thread that will take its request out, for any requests
\* and whatever resets and timeouts cross: the thread of the request itself.
THEOREM BusyIsServed == Spec => []BusyHasThread
  <1> USE DEF sessionVars, threadVars, userVars, Goto
  <1>1. Init => BusyHasThread
    BY DEF Init, BusyHasThread
  <1>2. /\ TypeOK /\ SessionsFit /\ NewHasNoThread /\ BusyHasThread /\ [Next]_vars
        => BusyHasThread'
    <2> SUFFICES ASSUME TypeOK, SessionsFit, NewHasNoThread, BusyHasThread, [Next]_vars
                 PROVE  BusyHasThread'
      OBVIOUS
    <2>1. CASE RequestSaved
      <3> DEFINE r == Head(msgQ).req
      <3>1. r \in Requests /\ handler.step # "save"
        BY <2>1, TakeMessage, MessageTypes DEF RequestSaved
      <3>2. /\ \A s \in Sessions :
                   rawRequest'[s] = IF s = SessionOf[r] THEN r ELSE rawRequest[s]
            /\ handler' = [step |-> "save", in |-> SessionOf[r], req |-> r]
            /\ UNCHANGED thread
        BY <2>1 DEF RequestSaved, TypeOK
      <3> HIDE DEF r
      <3> QED
        BY <3>1, <3>2 DEF BusyHasThread
    <2>2. CASE RequestAccepted
      <3>1. UNCHANGED rawRequest /\ thread' = [thread EXCEPT ![handler.req] = "created"]
        BY <2>2 DEF RequestAccepted
      <3>2. \A q \in Requests :
                thread'[q] = IF q = handler.req THEN "created" ELSE thread[q]
        BY <3>1 DEF TypeOK
      <3>3. \A s \in Sessions : rawRequest[s] \in Requests \union {NoReq}
        BY DEF TypeOK
      <3> QED
        BY <3>1, <3>2, <3>3 DEF BusyHasThread
    <2>3. CASE UNCHANGED <<rawRequest, thread, handler>>
      BY <2>3 DEF BusyHasThread
    <2>4. CASE UNCHANGED <<rawRequest, thread>> /\ handler.step # "save"
      BY <2>4, StaysServed
    <2>5. ASSUME NEW s \in Sessions, ResetClears(s)
          PROVE  BusyHasThread'
      <3>1. handler.step # "save" /\ rawRequest' = [rawRequest EXCEPT ![s] = NoReq]
            /\ UNCHANGED thread
        BY <2>5 DEF ResetClears, At
      <3>2. \A x \in Sessions : rawRequest'[x] \in {rawRequest[x], NoReq}
        BY <3>1 DEF TypeOK
      <3> QED
        BY <3>1, <3>2, StaysServed
    <2>6. ASSUME NEW r \in Requests, ni_thread_proc(r)
          PROVE  BusyHasThread'
      <3> DEFINE s == SessionOf[r]
      <3>1. s \in Sessions /\ UNCHANGED handler
        BY <2>6, SessionTypes
        DEF ni_thread_proc, BeginWait, Answered, TimedOut, Enter, TakeRequest, ClearRequest,
            ForgetID, SendMsg
      <3>2. \A q \in Requests : q # r => thread'[q] = thread[q]
        BY <2>6, OthersStay
      <3>3. \A x \in Sessions : rawRequest'[x] \in {rawRequest[x], NoReq}
        BY <2>6 DEF ni_thread_proc, BeginWait, Answered, TimedOut, Enter, TakeRequest,
                    ClearRequest, ForgetID, SendMsg, TypeOK
      <3>4. ASSUME NEW x \in Sessions, rawRequest[x] = r, rawRequest'[x] # NoReq
            PROVE  \/ thread'[r] = thread[r]
                   \/ thread'[r] \in {"created", "waiting", "checked", "taken"}
        <4>1. x = s /\ rawRequest[s] = r /\ rawRequest'[s] # NoReq
          BY <3>4, NiAssumption DEF SessionsFit
        <4>2. thread[r] \in {"none", "created", "waiting", "checked", "taken"}
          BY <3>1, <4>1, NiAssumption DEF BusyHasThread, NewHasNoThread
        <4>3. CASE BeginWait(r) \/ Answered(r) \/ TimedOut(r) \/ TakeRequest(r)
          BY <4>1, <4>3, NiAssumption DEF BeginWait, Answered, TimedOut, Enter, TakeRequest, TypeOK
        <4>4. ~ClearRequest(r)
          BY <3>1, <4>1 DEF ClearRequest, TypeOK
        <4>5. ~ForgetID(r) /\ ~SendMsg(r)
          BY <4>2 DEF ForgetID, SendMsg
        <4> QED
          BY <2>6, <4>3, <4>4, <4>5 DEF ni_thread_proc
      <3>5. \A x \in Sessions : rawRequest[x] \in Requests \union {NoReq}
        BY DEF TypeOK
      <3> QED
        BY <3>1, <3>2, <3>3, <3>4, <3>5, StaysServed
    <2>7. ASSUME NEW r \in Requests, loc_eng_ni_respond(r)
          PROVE  UNCHANGED <<rawRequest, thread, handler>>
      BY <2>7 DEF loc_eng_ni_respond, Respond, IgnoreNormal, SetResponse, Give
    <2>8. CASE Modem \/ RequestRefused
      BY <2>3, <2>8 DEF Modem, NiNotify, ModemDown, RequestRefused
    <2>9. CASE InformNiResponse
      BY <2>3, <2>9 DEF InformNiResponse
    <2>10. CASE ModemIsDown
      BY <2>4, <2>10 DEF ModemIsDown, Take
    <2>11. ASSUME NEW s \in Sessions, ResetSkips(s) \/ ResetFrees(s) \/ ResetSignals(s)
           PROVE  BusyHasThread'
      BY <2>4, <2>11 DEF ResetSkips, ResetFrees, ResetSignals, At
    <2>12. CASE UNCHANGED vars
      BY <2>3, <2>12 DEF vars
    <2> QED
      BY <2>1, <2>2, <2>3, <2>5, <2>6, <2>7, <2>8, <2>9, <2>10, <2>11, <2>12
      DEF Next, MessageThread, loc_eng_ni_request_handler, loc_eng_ni_reset_on_engine_restart
  <1> QED
    BY <1>1, <1>2, TypeCorrect, OnceCorrect, PTL DEF Spec, OnceInv
-----------------------------------------------------------------------------
(* An answer that the modem is sent is the user's.                         *)

\* An ACCEPT or DENY for request q is what its user has answered, for good.
Own(q, answer) ==
    answer \in {"ACCEPT", "DENY"} => user[q] = "done" /\ userResp[q] = answer

\* The answer of a message is its request's.
Fits(m) == m.op = "RESPONSE" /\ m.req # NoReq => Own(m.req, m.resp)

\* The user is asked when the thread is started.
AskedWithThread == \A r \in Requests : thread[r] = "none" => user[r] = "unasked"

\* While a thread has the lock, no answer is set and no request enters the session.
LockKeepsSession ==
    /\ \A t \in Requests : HasLock(t) =>
           /\ ~respRecvd[SessionOf[t]]
           /\ rawRequest[SessionOf[t]] # NoReq \/ handler = At("signal", SessionOf[t])
    /\ \A s \in Sessions : handler = At("signal", s) => rawRequest[s] = NoReq

\* An answer that is set, or read by the thread that has the lock, is that of the
\* request in session.
AnswerFits ==
    /\ \A s \in Sessions : respRecvd[s] =>
           \/ handler = At("signal", s)
           \/ rawRequest[s] # NoReq /\ Own(rawRequest[s], resp[s])
    /\ \A t \in Requests : thread[t] = "checked" /\ rawRequest[SessionOf[t]] # NoReq =>
           Own(rawRequest[SessionOf[t]], resp[SessionOf[t]])

\* So is the answer of a message, and what the modem was told.
MessagesFit ==
    /\ \A i \in 1 .. Len(msgQ) : Fits(msgQ[i])
    /\ \A t \in Requests : Fits(message[t])
    /\ \A r \in Requests : \A i \in 1 .. Len(told[r]) : Own(r, told[r][i])

OwnInv ==
    AskedWithThread /\ LockKeepsSession /\ (~stray => AnswerFits /\ MessagesFit)

\* What has been answered stays answered.
UserStays ==
    \A q \in Requests :
        user[q] = "done" => user'[q] = "done" /\ userResp'[q] = userResp[q]

\* The request of an answer is a request.
LEMMA AnswerTypes ==
    ASSUME TypeOK
    PROVE  /\ \A i \in 1 .. Len(msgQ) : msgQ[i].req \in Requests \union {NoReq}
           /\ \A t \in Requests : message[t].req \in Requests \union {NoReq}
           /\ \A s \in Sessions : rawRequest[s] \in Requests \union {NoReq}
  <1>1. msgQ \in Seq(Message) /\ message \in [Requests -> Response \union {NoMsg}]
    BY DEF TypeOK
  <1>2. \A i \in 1 .. Len(msgQ) : msgQ[i].req \in Requests \union {NoReq}
    <2> SUFFICES ASSUME NEW i \in 1 .. Len(msgQ)
                 PROVE  msgQ[i].req \in Requests \union {NoReq}
      OBVIOUS
    <2>1. msgQ[i] \in Message
      BY <1>1
    <2> QED
      BY <2>1, MessageTypes
  <1>3. \A t \in Requests : message[t].req \in Requests \union {NoReq}
    BY <1>1 DEF Response, NoMsg
  <1> QED
    BY <1>2, <1>3 DEF TypeOK

\* Messages keep fitting when the queue gets none but threads' messages, and a
\* thread makes one of the answer that fits its session.
LEMMA MessagesStay ==
    ASSUME TypeOK, MessagesFit, UserStays, UNCHANGED told,
           \A i \in 1 .. Len(msgQ') :
               \/ \E j \in 1 .. Len(msgQ) : msgQ'[i] = msgQ[j]
               \/ msgQ'[i].op # "RESPONSE"
               \/ \E t \in Requests : msgQ'[i] = message[t],
           \A t \in Requests :
               \/ message'[t] = message[t]
               \/ message'[t] = NoMsg
               \/ \E s \in Sessions :
                     /\ message'[t].req = rawRequest[s] /\ message'[t].resp = resp[s]
                     /\ rawRequest[s] # NoReq => Own(rawRequest[s], resp[s])
    PROVE  MessagesFit'
  <1>1. \A q \in Requests : \A answer : Own(q, answer) => Own(q, answer)'
    BY DEF Own, UserStays
  <1>2. \A i \in 1 .. Len(msgQ') : Fits(msgQ[i])'
    <2> SUFFICES ASSUME NEW i \in 1 .. Len(msgQ') PROVE Fits(msgQ[i])'
      OBVIOUS
    <2>1. CASE msgQ'[i].op # "RESPONSE"
      BY <2>1 DEF Fits
    <2>2. ASSUME NEW j \in 1 .. Len(msgQ), msgQ'[i] = msgQ[j] PROVE Fits(msgQ[i])'
      BY <1>1, <2>2, AnswerTypes DEF Fits, MessagesFit
    <2>3. ASSUME NEW t \in Requests, msgQ'[i] = message[t] PROVE Fits(msgQ[i])'
      BY <1>1, <2>3, AnswerTypes DEF Fits, MessagesFit
    <2> QED
      BY <2>1, <2>2, <2>3
  <1>3. \A t \in Requests : Fits(message[t])'
    <2> SUFFICES ASSUME NEW t \in Requests PROVE Fits(message[t])'
      OBVIOUS
    <2>1. CASE message'[t] = NoMsg
      BY <2>1 DEF Fits, NoMsg
    <2>2. CASE message'[t] = message[t]
      BY <1>1, <2>2, AnswerTypes DEF Fits, MessagesFit
    <2>3. ASSUME NEW s \in Sessions, message'[t].req = rawRequest[s],
                 message'[t].resp = resp[s],
                 rawRequest[s] # NoReq => Own(rawRequest[s], resp[s])
          PROVE  Fits(message[t])'
      BY <1>1, <2>3, AnswerTypes DEF Fits
    <2> QED
      BY <2>1, <2>2, <2>3
  <1>4. \A r \in Requests : \A i \in 1 .. Len(told'[r]) : Own(r, told[r][i])'
    BY DEF MessagesFit, Own, UserStays
  <1> QED
    BY <1>2, <1>3, <1>4 DEF MessagesFit
\* A step of the message thread or the modem that answers nobody, keeps the
\* threads and asks no user: the queue may lose its head or gain another message.
LEMMA QuietOwn ==
    ASSUME TypeOK, OwnInv,
           UNCHANGED <<rawRequest, respRecvd, resp, thread, message, user, userResp, told, stray>>,
           \A s \in Sessions : handler' = At("signal", s) <=> handler = At("signal", s),
           \A i \in 1 .. Len(msgQ') :
               \/ \E j \in 1 .. Len(msgQ) : msgQ'[i] = msgQ[j]
               \/ msgQ'[i].op # "RESPONSE"
    PROVE  OwnInv'
  <1>1. UserStays
    BY DEF UserStays
  <1>2. AskedWithThread'
    BY DEF OwnInv, AskedWithThread
  <1>3. LockKeepsSession'
    BY SessionTypes DEF OwnInv, LockKeepsSession, HasLock
  <1>4. ASSUME ~stray PROVE AnswerFits' /\ MessagesFit'
    <2>1. AnswerFits'
      BY <1>4 DEF OwnInv, AnswerFits, Own
    <2>2. MessagesFit'
      BY <1>1, <1>4, MessagesStay DEF OwnInv
    <2> QED
      BY <2>1, <2>2
  <1> QED
    BY <1>2, <1>3, <1>4 DEF OwnInv

\* Taking a message leaves messages of the queue.
LEMMA TailFits ==
    ASSUME TypeOK, msgQ # <<>>, msgQ' = Tail(msgQ)
    PROVE  \A i \in 1 .. Len(msgQ') : \E j \in 1 .. Len(msgQ) : msgQ'[i] = msgQ[j]
  <1>1. msgQ \in Seq(Message)
    BY DEF TypeOK
  <1>2. \A i \in 1 .. Len(msgQ') : i + 1 \in 1 .. Len(msgQ) /\ msgQ'[i] = msgQ[i + 1]
    BY <1>1
  <1> QED
    BY <1>2

\* The modem posts no answers.
LEMMA ModemOwn ==
    ASSUME TypeOK, OwnInv, Modem
    PROVE  OwnInv'
  <1> USE DEF sessionVars, threadVars, userVars
  <1>1. ASSUME NEW m \in Message, m.op # "RESPONSE", msgQ' = Append(msgQ, m)
        PROVE  \A i \in 1 .. Len(msgQ') :
                   \/ \E j \in 1 .. Len(msgQ) : msgQ'[i] = msgQ[j]
                   \/ msgQ'[i].op # "RESPONSE"
    <2>1. msgQ \in Seq(Message)
      BY DEF TypeOK
    <2>2. \A i \in 1 .. Len(msgQ') :
              \/ i \in 1 .. Len(msgQ) /\ msgQ'[i] = msgQ[i]
              \/ msgQ'[i] = m
      BY <1>1, <2>1
    <2> QED
      BY <1>1, <2>2
  <1>2. ASSUME NEW r \in Requests, NiNotify(r) PROVE OwnInv'
    <2>1. [op |-> "NOTIFY", req |-> r] \in Message
      BY DEF Message
    <2> QED
      BY <1>1, <1>2, <2>1, QuietOwn DEF NiNotify
  <1>3. CASE ModemDown
    <2>1. [op |-> "DOWN", req |-> NoReq] \in Message
      BY DEF Message
    <2> QED
      BY <1>1, <1>3, <2>1, QuietOwn DEF ModemDown
  <1> QED
    BY <1>2, <1>3 DEF Modem

\* The message thread: a request enters a session that is free of answers.
LEMMA HandlerOwn ==
    ASSUME TypeOK, OnceInv, OwnInv, MessageThread
    PROVE  OwnInv'
  <1> USE DEF sessionVars, threadVars, userVars
  <1>1. CASE RequestRefused
    BY <1>1, TakeMessage, TailFits, QuietOwn DEF RequestRefused
  <1>2. CASE RequestSaved
    <2> DEFINE r == Head(msgQ).req
    <2>1. /\ r \in Requests /\ handler.step = "idle" /\ msgQ # <<>> /\ msgQ' = Tail(msgQ)
      BY <1>2, TakeMessage, MessageTypes DEF RequestSaved
    <2>2. /\ \A s \in Sessions : rawRequest'[s] = IF s = SessionOf[r] THEN r ELSE rawRequest[s]
          /\ handler' = [step |-> "save", in |-> SessionOf[r], req |-> r]
          /\ rawRequest[SessionOf[r]] = NoReq
          /\ UNCHANGED <<respRecvd, resp, thread, message, user, userResp, told, stray>>
      BY <1>2 DEF RequestSaved, Busy, TypeOK
    <2> HIDE DEF r
    <2>3. \A s \in Sessions : handler # At("signal", s) /\ handler' # At("signal", s)
      BY <2>1, <2>2 DEF At
    <2>4. SessionOf[r] \in Sessions
      BY <2>1, SessionTypes
    <2>5. \A t \in Requests : HasLock(t) => SessionOf[t] # SessionOf[r]
      BY <2>2, <2>3, <2>4 DEF OwnInv, LockKeepsSession
    <2>6. AskedWithThread'
      BY <2>2 DEF OwnInv, AskedWithThread
    <2>7. LockKeepsSession'
      BY <2>2, <2>3, <2>5, SessionTypes DEF OwnInv, LockKeepsSession, HasLock
    <2>8. ASSUME ~stray PROVE AnswerFits'
      BY <2>2, <2>3, <2>4, <2>5, <2>8, SessionTypes DEF OwnInv, AnswerFits, HasLock, Own
    <2>9. ASSUME ~stray PROVE MessagesFit'
      BY <2>1, <2>2, <2>9, TailFits, MessagesStay DEF OwnInv, UserStays
    <2> QED
      BY <2>2, <2>6, <2>7, <2>8, <2>9 DEF OwnInv
  <1>3. CASE RequestAccepted
    <2> DEFINE r == handler.req
    <2>1. /\ r \in Requests /\ thread[r] = "none" /\ user[r] = "unasked"
          /\ handler.step = "save" /\ handler'.step = "idle"
      BY <1>3 DEF RequestAccepted, OnceInv, NewHasNoThread, OwnInv, AskedWithThread, Idle, At
    <2>2. /\ \A t \in Requests : /\ t # r => thread'[t] = thread[t] /\ user'[t] = user[t]
                                 /\ thread'[r] = "created" /\ user'[r] = "asked"
          /\ UNCHANGED <<rawRequest, respRecvd, resp, message, userResp, msgQ, told, stray>>
      BY <1>3, <2>1 DEF RequestAccepted, TypeOK
    <2> HIDE DEF r
    <2>3. \A s \in Sessions : handler # At("signal", s) /\ handler' # At("signal", s)
      BY <2>1 DEF At
    <2>4. UserStays
      BY <2>1, <2>2 DEF UserStays
    <2>5. AskedWithThread'
      BY <2>1, <2>2 DEF OwnInv, AskedWithThread
    <2>6. \A t \in Requests : HasLock(t)' => HasLock(t) /\ thread'[t] = thread[t]
      BY <2>1, <2>2 DEF HasLock
    <2>7. LockKeepsSession'
      BY <2>2, <2>3, <2>6, SessionTypes DEF OwnInv, LockKeepsSession
    <2>8. ASSUME ~stray PROVE AnswerFits'
      BY <2>2, <2>3, <2>4, <2>6, <2>8, AnswerTypes, SessionTypes
      DEF OwnInv, AnswerFits, HasLock, Own, UserStays
    <2>9. ASSUME ~stray PROVE MessagesFit'
      BY <2>2, <2>4, <2>9, MessagesStay DEF OwnInv
    <2> QED
      BY <2>2, <2>5, <2>7, <2>8, <2>9 DEF OwnInv
  <1>4. CASE InformNiResponse
    <2> DEFINE m == Head(msgQ)
    <2>1. /\ m \in Response /\ msgQ # <<>> /\ msgQ' = Tail(msgQ) /\ m = msgQ[1]
          /\ m.op = "RESPONSE" /\ 1 \in 1 .. Len(msgQ)
      <3>1. msgQ \in Seq(Message)
        BY DEF TypeOK
      <3> QED
        BY <1>4, <3>1, TakeMessage, MessageTypes DEF InformNiResponse
    <2>2. /\ UNCHANGED <<rawRequest, respRecvd, resp, thread, message, user, userResp,
                         handler, stray>>
          /\ \/ told' = told
             \/ m.req # NoReq /\ told' = [told EXCEPT ![m.req] = Append(@, m.resp)]
      BY <1>4 DEF InformNiResponse
    <2>3. ~stray => Fits(m)
      BY <2>1 DEF OwnInv, MessagesFit
    <2> HIDE DEF m
    <2>4. AskedWithThread' /\ LockKeepsSession' /\ (~stray => AnswerFits')
      BY <2>2 DEF OwnInv, AskedWithThread, LockKeepsSession, HasLock, AnswerFits, Own
    <2>5. ASSUME ~stray PROVE MessagesFit'
      <3>1. \A i \in 1 .. Len(msgQ') : Fits(msgQ[i])'
        BY <2>1, <2>2, <2>5, TailFits DEF OwnInv, MessagesFit, Fits, Own
      <3>2. \A t \in Requests : Fits(message[t])'
        BY <2>2, <2>5 DEF OwnInv, MessagesFit, Fits, Own
      <3>3. ASSUME NEW r \in Requests, NEW i \in 1 .. Len(told'[r])
            PROVE  Own(r, told'[r][i])
        <4>1. told \in [Requests -> Seq(Answers)] /\ told[r] \in Seq(Answers)
          BY DEF TypeOK
        <4>2. CASE told'[r] = told[r]
          BY <2>5, <4>2 DEF OwnInv, MessagesFit
        <4>3. CASE r = m.req /\ m.req # NoReq /\ told'[r] = Append(told[r], m.resp)
          <5>1. \/ i \in 1 .. Len(told[r]) /\ told'[r][i] = told[r][i]
                \/ told'[r][i] = m.resp
            BY <4>1, <4>3
          <5> QED
            BY <2>1, <2>3, <2>5, <4>3, <5>1 DEF OwnInv, MessagesFit, Fits
        <4> QED
          BY <2>2, <4>1, <4>2, <4>3
      <3> QED
        BY <2>2, <3>1, <3>2, <3>3 DEF MessagesFit, Own
    <2> QED
      BY <2>2, <2>4, <2>5 DEF OwnInv
  <1>5. CASE ModemIsDown
    <2>1. \A s \in Sessions : handler # At("signal", s) /\ handler' # At("signal", s)
      BY <1>5, TakeMessage DEF ModemIsDown, At
    <2> QED
      BY <1>5, <2>1, TakeMessage, TailFits, QuietOwn DEF ModemIsDown
  <1>6. ASSUME NEW s \in Sessions, ResetSkips(s) \/ ResetFrees(s)
        PROVE  OwnInv'
    <2>1. \A x \in Sessions : handler # At("signal", x) /\ handler' # At("signal", x)
      BY <1>6 DEF ResetSkips, ResetFrees, AfterReset, At, Idle
    <2>2. UNCHANGED <<rawRequest, respRecvd, resp, thread, message, user, userResp,
                      told, stray, msgQ>>
      BY <1>6 DEF ResetSkips, ResetFrees
    <2> QED
      BY <2>1, <2>2, QuietOwn
  <1>7. ASSUME NEW s \in Sessions, ResetClears(s)
        PROVE  OwnInv'
    <2>1. /\ handler = At("null", s) /\ handler' = At("signal", s)
          /\ \A x \in Sessions : rawRequest'[x] = IF x = s THEN NoReq ELSE rawRequest[x]
          /\ UNCHANGED <<respRecvd, resp, thread, message, user, userResp, msgQ, told, stray>>
      BY <1>7 DEF ResetClears, TypeOK
    <2>2. \A x \in Sessions : /\ handler # At("signal", x)
                              /\ handler' = At("signal", x) => x = s
      BY <2>1 DEF At
    <2>3. AskedWithThread'
      BY <2>1 DEF OwnInv, AskedWithThread
    <2>4. LockKeepsSession'
      BY <2>1, <2>2, SessionTypes DEF OwnInv, LockKeepsSession, HasLock
    <2>5. ASSUME ~stray PROVE AnswerFits'
      BY <2>1, <2>2, <2>5, SessionTypes DEF OwnInv, AnswerFits, Own
    <2>6. ASSUME ~stray PROVE MessagesFit'
      BY <2>1, <2>6, MessagesStay DEF OwnInv, UserStays
    <2> QED
      BY <2>1, <2>3, <2>4, <2>5, <2>6 DEF OwnInv
  <1>8. ASSUME NEW s \in Sessions, ResetSignals(s)
        PROVE  OwnInv'
    <2>1. /\ stray' /\ Unlocked(s)
          /\ \A x \in Sessions : respRecvd'[x] = IF x = s THEN TRUE ELSE respRecvd[x]
          /\ UNCHANGED <<rawRequest, thread, user>> /\ handler = At("signal", s)
      BY <1>8 DEF ResetSignals, TypeOK
    <2>2. \A x \in Sessions : /\ handler' # At("signal", x)
                              /\ handler = At("signal", x) => x = s
      BY <1>8 DEF ResetSignals, AfterReset, At, Idle
    <2>3. AskedWithThread'
      BY <2>1 DEF OwnInv, AskedWithThread
    <2>4. LockKeepsSession'
      BY <2>1, <2>2, SessionTypes
      DEF OwnInv, LockKeepsSession, HasLock, Unlocked, InSession
    <2> QED
      BY <2>1, <2>3, <2>4 DEF OwnInv
  <1> QED
    BY <1>1, <1>2, <1>3, <1>4, <1>5, <1>6, <1>7, <1>8
    DEF MessageThread, loc_eng_ni_request_handler, loc_eng_ni_reset_on_engine_restart
\* The thread of a request: it reads an answer that fits, under the lock.
LEMMA ThreadOwn ==
    ASSUME TypeOK, OnceInv, OwnInv, NEW r \in Requests, ni_thread_proc(r)
    PROVE  OwnInv'
  <1> USE DEF sessionVars, threadVars, userVars, Goto
  <1> DEFINE s == SessionOf[r]
  <1>1. s \in Sessions
    BY SessionTypes
  <1>2. /\ UNCHANGED <<user, userResp, handler, told, stray>> /\ thread[r] # "none"
        /\ \A t \in Requests : t # r => thread'[t] = thread[t]
        /\ thread'[r] # "none"
    <2>1. UNCHANGED <<user, userResp, handler, told, stray>> /\ thread[r] # "none"
      BY DEF ni_thread_proc, BeginWait, Answered, TimedOut, Enter, TakeRequest,
             ClearRequest, ForgetID, SendMsg
    <2> QED
      BY <2>1, OthersStay
  <1>3. UserStays /\ AskedWithThread'
    BY <1>2 DEF UserStays, OwnInv, AskedWithThread
  <1>4. CASE BeginWait(r) \/ ForgetID(r)
    <2>1. /\ UNCHANGED <<rawRequest, respRecvd, resp, message, msgQ>>
          /\ thread'[r] \notin {"checked", "taken"}
      BY <1>4 DEF BeginWait, ForgetID, TypeOK
    <2>2. LockKeepsSession'
      BY <1>2, <2>1 DEF OwnInv, LockKeepsSession, HasLock
    <2>3. ASSUME ~stray PROVE AnswerFits' /\ MessagesFit'
      <3>1. AnswerFits'
        BY <1>2, <2>1, <2>3 DEF OwnInv, AnswerFits, Own
      <3>2. MessagesFit'
        BY <1>2, <1>3, <2>1, <2>3, MessagesStay DEF OwnInv
      <3> QED
        BY <3>1, <3>2
    <2> QED
      BY <1>2, <1>3, <2>2, <2>3 DEF OwnInv
  <1>5. CASE Answered(r) \/ TimedOut(r)
    <2>1. /\ UNCHANGED <<rawRequest, message, msgQ>> /\ Unlocked(s) /\ ~HasLock(r)
          /\ thread'[r] = IF rawRequest[s] # NoReq THEN "checked" ELSE "cleared"
          /\ \A x \in Sessions : /\ respRecvd'[x] = IF x = s THEN FALSE ELSE respRecvd[x]
                                 /\ x # s => resp'[x] = resp[x]
          /\ \/ respRecvd[s] /\ resp'[s] = resp[s]
             \/ resp'[s] = "NORESP"
      BY <1>1, <1>5 DEF Answered, TimedOut, Enter, HasLock, TypeOK
    <2>2. \A t \in Requests : t # r /\ HasLock(t) => SessionOf[t] # s
      BY <2>1 DEF Unlocked, InSession, HasLock
    <2>3. LockKeepsSession'
      BY <1>1, <1>2, <2>1, SessionTypes DEF OwnInv, LockKeepsSession, HasLock
    <2>4. ASSUME ~stray PROVE AnswerFits'
      <3>1. rawRequest[s] # NoReq => Own(rawRequest[s], resp'[s])
        BY <1>1, <2>1, <2>4 DEF OwnInv, AnswerFits, LockKeepsSession, Own
      <3>2. \A x \in Sessions : respRecvd'[x] =>
                \/ handler' = At("signal", x)
                \/ rawRequest'[x] # NoReq /\ Own(rawRequest[x], resp[x])'
        <4> SUFFICES ASSUME NEW x \in Sessions, respRecvd'[x], handler' # At("signal", x)
                     PROVE  rawRequest'[x] # NoReq /\ Own(rawRequest[x], resp[x])'
          OBVIOUS
        <4>1. respRecvd[x] /\ resp'[x] = resp[x]
          BY <2>1
        <4>2. rawRequest[x] # NoReq /\ Own(rawRequest[x], resp[x])
          BY <1>2, <2>4, <4>1 DEF OwnInv, AnswerFits
        <4> QED
          BY <1>2, <2>1, <4>1, <4>2 DEF Own
      <3>3. \A t \in Requests : thread'[t] = "checked" /\ rawRequest'[SessionOf[t]] # NoReq =>
                Own(rawRequest[SessionOf[t]], resp[SessionOf[t]])'
        <4> SUFFICES ASSUME NEW t \in Requests, thread'[t] = "checked",
                            rawRequest'[SessionOf[t]] # NoReq
                     PROVE  Own(rawRequest[SessionOf[t]], resp[SessionOf[t]])'
          OBVIOUS
        <4>1. CASE t = r
          BY <1>2, <2>1, <3>1, <4>1 DEF Own
        <4>2. CASE t # r
          <5>1. thread[t] = "checked" /\ SessionOf[t] \in Sessions /\ SessionOf[t] # s
            BY <1>2, <2>2, <4>2, SessionTypes DEF HasLock
          <5>2. Own(rawRequest[SessionOf[t]], resp[SessionOf[t]])
            BY <2>1, <2>4, <5>1 DEF OwnInv, AnswerFits
          <5> QED
            BY <1>2, <2>1, <5>1, <5>2 DEF Own
        <4> QED
          BY <4>1, <4>2
      <3> QED
        BY <3>2, <3>3 DEF AnswerFits
    <2>5. ASSUME ~stray PROVE MessagesFit'
      BY <1>2, <1>3, <2>1, <2>5, MessagesStay DEF OwnInv
    <2> QED
      BY <1>2, <1>3, <2>3, <2>4, <2>5 DEF OwnInv
  <1>6. CASE TakeRequest(r)
    <2>1. /\ UNCHANGED <<rawRequest, respRecvd, resp, msgQ>>
          /\ thread[r] = "checked" /\ thread'[r] = "taken"
          /\ \/ UNCHANGED message
             \/ message' = [message EXCEPT ![r] =
                    [op |-> "RESPONSE", req |-> rawRequest[s], resp |-> resp[s]]]
      BY <1>6 DEF TakeRequest, TypeOK
    <2>2. LockKeepsSession'
      BY <1>2, <2>1 DEF OwnInv, LockKeepsSession, HasLock
    <2>3. ASSUME ~stray PROVE AnswerFits'
      BY <1>2, <2>1, <2>3 DEF OwnInv, AnswerFits, Own
    <2>4. ASSUME ~stray PROVE MessagesFit'
      <3>1. rawRequest[s] # NoReq => Own(rawRequest[s], resp[s])
        BY <2>1, <2>4 DEF OwnInv, AnswerFits
      <3>2. message \in [Requests -> Response \union {NoMsg}]
        BY DEF TypeOK
      <3>3. \A t \in Requests :
                \/ message'[t] = message[t]
                \/ /\ message'[t].req = rawRequest[s] /\ message'[t].resp = resp[s]
        BY <2>1, <3>2
      <3> QED
        BY <1>1, <1>2, <1>3, <2>1, <2>4, <3>1, <3>3, MessagesStay DEF OwnInv
    <2> QED
      BY <1>2, <1>3, <2>2, <2>3, <2>4 DEF OwnInv
  <1>7. CASE ClearRequest(r)
    <2>1. /\ UNCHANGED <<respRecvd, resp, message, msgQ>>
          /\ HasLock(r) /\ thread'[r] = "cleared"
          /\ \A x \in Sessions : rawRequest'[x] = IF x = s THEN NoReq ELSE rawRequest[x]
      BY <1>1, <1>7 DEF ClearRequest, HasLock, TypeOK
    <2>2. \A t \in Requests : t # r /\ HasLock(t) => SessionOf[t] # s
      BY <2>1 DEF OnceInv, SessionsFit
    <2>3. LockKeepsSession'
      BY <1>1, <1>2, <2>1, <2>2, SessionTypes DEF OwnInv, LockKeepsSession, HasLock
    <2>4. ASSUME ~stray PROVE AnswerFits'
      BY <1>1, <1>2, <2>1, <2>2, <2>4, SessionTypes
      DEF OwnInv, AnswerFits, LockKeepsSession, HasLock, Own
    <2>5. ASSUME ~stray PROVE MessagesFit'
      BY <1>2, <1>3, <2>1, <2>5, MessagesStay DEF OwnInv
    <2> QED
      BY <1>2, <1>3, <2>3, <2>4, <2>5 DEF OwnInv
  <1>8. CASE SendMsg(r)
    <2>1. /\ UNCHANGED <<rawRequest, respRecvd, resp>> /\ thread'[r] = "done"
          /\ message' = [message EXCEPT ![r] = NoMsg]
          /\ \/ msgQ' = msgQ
             \/ msgQ' = Append(msgQ, message[r]) /\ message[r] # NoMsg
      <3>1. thread'[r] = "done"
        BY <1>8 DEF SendMsg, TypeOK
      <3> QED
        BY <1>8, <3>1 DEF SendMsg
    <2>2. LockKeepsSession'
      BY <1>2, <2>1 DEF OwnInv, LockKeepsSession, HasLock
    <2>3. ASSUME ~stray PROVE AnswerFits'
      BY <1>2, <2>1, <2>3 DEF OwnInv, AnswerFits, Own
    <2>4. ASSUME ~stray PROVE MessagesFit'
      <3>1. message \in [Requests -> Response \union {NoMsg}] /\ msgQ \in Seq(Message)
        BY DEF TypeOK
      <3>2. \A t \in Requests : message'[t] = message[t] \/ message'[t] = NoMsg
        BY <2>1, <3>1
      <3>3. message[r] # NoMsg => message[r] \in Message
        BY <3>1 DEF Message
      <3>4. \A i \in 1 .. Len(msgQ') :
                (\E j \in 1 .. Len(msgQ) : msgQ'[i] = msgQ[j]) \/ msgQ'[i] = message[r]
        BY <2>1, <3>1, <3>3, AppendKeeps
      <3> QED
        BY <1>2, <1>3, <2>4, <3>2, <3>4, MessagesStay DEF OwnInv
    <2> QED
      BY <1>2, <1>3, <2>2, <2>3, <2>4 DEF OwnInv
  <1> QED
    BY <1>4, <1>5, <1>6, <1>7, <1>8 DEF ni_thread_proc

\* The user's answer is set in the session of its own request, unless it is stray.
LEMMA UserOwn ==
    ASSUME TypeOK, OwnInv, NEW r \in Requests, loc_eng_ni_respond(r)
    PROVE  OwnInv'
  <1> USE DEF sessionVars, threadVars, userVars
  <1>1. /\ UNCHANGED <<rawRequest, thread, message, handler, msgQ, told>>
        /\ user[r] \in {"asked", "ignoring", "setting"}
        /\ \A q \in Requests : q # r => user'[q] = user[q] /\ userResp'[q] = userResp[q]
        /\ stray => stray'
    <2>1. ASSUME NEW answer \in UserAnswers, Respond(r, answer)
          PROVE  /\ UNCHANGED <<rawRequest, thread, message, handler, msgQ, told, stray>>
                 /\ user[r] = "asked"
                 /\ \A q \in Requests : q # r => user'[q] = user[q] /\ userResp'[q] = userResp[q]
      BY <2>1 DEF Respond, TypeOK
    <2>2. CASE IgnoreNormal(r)
      BY <2>2 DEF IgnoreNormal, Give, TypeOK
    <2>3. CASE SetResponse(r)
      BY <2>3 DEF SetResponse, Give, TypeOK
    <2> QED
      BY <2>1, <2>2, <2>3 DEF loc_eng_ni_respond
  <1>2. UserStays /\ AskedWithThread'
    BY <1>1 DEF UserStays, OwnInv, AskedWithThread
  <1>3. ~stray' => MessagesFit'
    BY <1>1, <1>2, MessagesStay DEF OwnInv
  <1>4. ASSUME NEW answer \in UserAnswers, Respond(r, answer) PROVE OwnInv'
    <2>1. UNCHANGED <<respRecvd, resp, stray>>
      BY <1>4 DEF Respond
    <2>2. LockKeepsSession'
      BY <1>1, <2>1 DEF OwnInv, LockKeepsSession, HasLock
    <2>3. ASSUME ~stray PROVE AnswerFits'
      BY <1>1, <1>2, <2>1, <2>3, AnswerTypes, SessionTypes
      DEF OwnInv, AnswerFits, Own, UserStays
    <2> QED
      BY <1>2, <1>3, <2>1, <2>2, <2>3 DEF OwnInv
  <1>5. ASSUME NEW s \in Sessions, NEW answer \in Responses, Give(s, answer),
               ~stray' => rawRequest[s] # NoReq,
               ~stray' /\ answer \in {"ACCEPT", "DENY"} =>
                   user'[rawRequest[s]] = "done" /\ userResp'[rawRequest[s]] = answer
        PROVE  OwnInv'
    <2>1. /\ \A x \in Sessions : /\ respRecvd'[x] = IF x = s THEN TRUE ELSE respRecvd[x]
                                 /\ resp'[x] = IF x = s THEN answer ELSE resp[x]
          /\ \A t \in Requests : HasLock(t) => SessionOf[t] # s
      BY <1>5 DEF Give, Unlocked, InSession, HasLock, TypeOK
    <2>2. LockKeepsSession'
      BY <1>1, <2>1, SessionTypes DEF OwnInv, LockKeepsSession, HasLock
    <2>3. ASSUME ~stray' PROVE AnswerFits'
      <3>1. ~stray
        BY <1>1, <2>3
      <3>2. \A x \in Sessions : respRecvd'[x] =>
                \/ handler' = At("signal", x)
                \/ rawRequest'[x] # NoReq /\ Own(rawRequest[x], resp[x])'
        <4> SUFFICES ASSUME NEW x \in Sessions, respRecvd'[x], handler' # At("signal", x)
                     PROVE  rawRequest'[x] # NoReq /\ Own(rawRequest[x], resp[x])'
          OBVIOUS
        <4>1. CASE x = s
          BY <1>1, <1>5, <2>1, <2>3, <4>1 DEF Own
        <4>2. CASE x # s
          <5>1. rawRequest[x] # NoReq /\ Own(rawRequest[x], resp[x])
            BY <1>1, <2>1, <4>2, <3>1 DEF OwnInv, AnswerFits
          <5> QED
            BY <1>1, <1>2, <2>1, <4>2, <5>1, AnswerTypes DEF Own, UserStays
        <4> QED
          BY <4>1, <4>2
      <3>3. \A t \in Requests : thread'[t] = "checked" /\ rawRequest'[SessionOf[t]] # NoReq =>
                Own(rawRequest[SessionOf[t]], resp[SessionOf[t]])'
        <4> SUFFICES ASSUME NEW t \in Requests, thread'[t] = "checked",
                            rawRequest'[SessionOf[t]] # NoReq
                     PROVE  Own(rawRequest[SessionOf[t]], resp[SessionOf[t]])'
          OBVIOUS
        <4>1. thread[t] = "checked" /\ SessionOf[t] \in Sessions /\ SessionOf[t] # s
          BY <1>1, <2>1, SessionTypes DEF HasLock
        <4>2. Own(rawRequest[SessionOf[t]], resp[SessionOf[t]])
          BY <1>1, <3>1, <4>1 DEF OwnInv, AnswerFits
        <4> QED
          BY <1>1, <1>2, <2>1, <4>1, <4>2, AnswerTypes DEF Own, UserStays
      <3> QED
        BY <3>2, <3>3 DEF AnswerFits
    <2> QED
      BY <1>2, <1>3, <2>2, <2>3 DEF OwnInv
  <1>6. CASE IgnoreNormal(r)
    <2>1. /\ "session" \in Sessions /\ "IGNORE" \in Responses /\ Give("session", "IGNORE")
          /\ ~stray' => rawRequest["session"] # NoReq
      BY <1>6 DEF IgnoreNormal, Sessions, Responses
    <2> QED
      BY <1>5, <2>1 DEF Own
  <1>7. CASE SetResponse(r)
    <2>1. /\ SessionOf[r] \in Sessions /\ userResp[r] \in Responses
          /\ Give(SessionOf[r], userResp[r])
          /\ ~stray' => rawRequest[SessionOf[r]] = r
          /\ user'[r] = "done" /\ userResp'[r] = userResp[r]
      BY <1>7, SessionTypes DEF SetResponse, Give, Responses, Answers, TypeOK
    <2> QED
      BY <1>5, <2>1, NiAssumption DEF Own
  <1> QED
    BY <1>4, <1>6, <1>7 DEF loc_eng_ni_respond

\* The inductive invariant of the answers.
THEOREM OwnCorrect == Spec => []OwnInv
  <1>1. Init => OwnInv
    BY DEF Init, OwnInv, AskedWithThread, LockKeepsSession, AnswerFits, MessagesFit, HasLock,
           Fits, NoMsg, At, Idle
  <1>2. TypeOK /\ OnceInv /\ OwnInv /\ [Next]_vars => OwnInv'
    <2> SUFFICES ASSUME TypeOK, OnceInv, OwnInv, [Next]_vars PROVE OwnInv'
      OBVIOUS
    <2>1. CASE UNCHANGED vars
      BY <2>1, QuietOwn DEF vars
    <2> QED
      BY <2>1, ModemOwn, HandlerOwn, ThreadOwn, UserOwn DEF Next
  <1> QED
    BY <1>1, <1>2, TypeCorrect, OnceCorrect, PTL DEF Spec

\* An ACCEPT or DENY that the modem is sent is what the user answered to that
\* request, for any requests and answers, as long as no answer was stray: the
\* thread reads under the lock what was set for the request in session.
THEOREM AnswersAreOwn == Spec => []AnswerIsOwn
  <1>1. TypeOK /\ OwnInv => AnswerIsOwn
    <2> SUFFICES ASSUME TypeOK, OwnInv, ~stray, NEW r \in Requests,
                        NEW i \in DOMAIN told[r], told[r][i] # "NORESP"
                 PROVE  told[r][i] = userResp[r]
      BY DEF AnswerIsOwn
    <2>1. told[r] \in Seq(Answers)
      BY DEF TypeOK
    <2>2. i \in 1 .. Len(told[r]) /\ told[r][i] \in {"ACCEPT", "DENY"}
      BY <2>1 DEF Answers
    <2> QED
      BY <2>2 DEF OwnInv, MessagesFit, Own
  <1> QED
    BY <1>1, TypeCorrect, OwnCorrect, PTL
-----------------------------------------------------------------------------
(* A payload has one holder.                                               *)

\* Session s has a request that no thread and no reset is just taking out.
Keeps(s) ==
    /\ rawRequest[s] # NoReq /\ handler # At("null", s)
    /\ \A t \in InSession(s) : thread[t] # "taken"

\* Request r has a holder: a message, in the queue or a thread's, or the session.
Carried(r) == r \in Queued \/ \E t \in Requests : message[t].req = r
Held(r)    == Carried(r) \/ \E s \in Sessions : rawRequest[s] = r /\ Keeps(s)

\* A thread has no message before it takes its request, nor after it sent it.
MessagesAreMade ==
    \A t \in Requests : thread[t] \notin {"taken", "cleared", "sending"} => message[t] = NoMsg

\* No reset meets a thread in the section that takes the request.
NeverMeet ==
    /\ \A s \in Sessions : handler = At("null", s) => Unlocked(s)
    /\ \A t \in Requests : HasLock(t) => rawRequest[SessionOf[t]] # NoReq

\* A payload is live as long as it has a holder, and is not freed without one.
LiveAreHeld ==
    \A r \in Requests : payload[r] # "freed twice" /\ (payload[r] = "live" <=> Held(r))

HolderInv == MessagesAreMade /\ (~raced => NeverMeet /\ LiveAreHeld)

\* The messages that a taken one leaves in the queue.
LEMMA TakeLeavesOthers ==
    ASSUME TypeOK, msgQ # <<>>, msgQ' = Tail(msgQ)
    PROVE  Queued \subseteq Queued' \union {Head(msgQ).req}
  <1>1. msgQ \in Seq(Message)
    BY DEF TypeOK
  <1>2. /\ Len(msgQ) \in Nat \ {0} /\ Len(msgQ') = Len(msgQ) - 1 /\ Head(msgQ) = msgQ[1]
        /\ \A i \in 1 .. Len(msgQ') : msgQ'[i] = msgQ[i + 1]
    BY <1>1
  <1> SUFFICES ASSUME NEW i \in 1 .. Len(msgQ), i # 1
               PROVE  msgQ[i].req \in Queued'
    BY <1>2 DEF Queued
  <1>3. i - 1 \in 1 .. Len(msgQ') /\ (i - 1) + 1 = i
    BY <1>2
  <1>4. msgQ'[i - 1] = msgQ[i]
    BY <1>2, <1>3
  <1> QED
    BY <1>3, <1>4 DEF Queued

\* Nobody gets or loses a payload.
LEMMA HoldersStay ==
    ASSUME LiveAreHeld, payload' = payload, \A r \in Requests : Held(r)' <=> Held(r)
    PROVE  LiveAreHeld'
  BY DEF LiveAreHeld

\* The one holder of q frees it.
LEMMA HolderFrees ==
    ASSUME TypeOK, LiveAreHeld, NEW q \in Requests, payload' = Freed(q),
           Held(q), ~Held(q)', \A r \in Requests \ {q} : Held(r)' <=> Held(r)
    PROVE  LiveAreHeld'
  <1>1. payload[q] = "live" /\ q # NoReq
    BY NiAssumption DEF LiveAreHeld
  <1>2. \A r \in Requests : payload'[r] = IF r = q THEN "freed" ELSE payload[r]
    BY <1>1 DEF Freed, TypeOK
  <1> QED
    BY <1>2 DEF LiveAreHeld

\* A request in session, or in the queue, has no other holder.
LEMMA SessionHoldsAlone ==
    ASSUME TypeOK, OnceInv, NEW s \in Sessions, rawRequest[s] # NoReq,
           \A t \in InSession(s) : thread[t] # "taken"
    PROVE  /\ rawRequest[s] \in Requests /\ ~Carried(rawRequest[s])
           /\ \A x \in Sessions : rawRequest[x] = rawRequest[s] => x = s
  <1>1. rawRequest[s] \in Requests
    BY DEF TypeOK
  <1>2. \A t \in Requests : message[t].req # rawRequest[s]
    BY DEF OnceInv, SessionIsUntold, InSession
  <1>3. rawRequest[s] \notin Queued
    BY DEF OnceInv, SessionIsUntold
  <1>4. \A x \in Sessions : rawRequest[x] = rawRequest[s] => x = s
    BY DEF OnceInv, SessionsFit
  <1> QED
    BY <1>1, <1>2, <1>3, <1>4 DEF Carried

LEMMA QueueHoldsAlone ==
    ASSUME TypeOK, OnceInv, NEW q \in Queued, q # NoReq
    PROVE  /\ \A t \in Requests : message[t].req # q
           /\ \A s \in Sessions : rawRequest[s] # q
  BY DEF OnceInv, SessionIsUntold, ThreadsOnce

\* What the modem posts.
LEMMA ModemHolds ==
    ASSUME TypeOK, OnceInv, HolderInv, Modem
    PROVE  HolderInv'
  <1> USE DEF sessionVars, threadVars, userVars
  <1>1. UNCHANGED <<rawRequest, thread, message, handler, raced>>
    BY DEF Modem, NiNotify, ModemDown
  <1>2. MessagesAreMade' /\ UNCHANGED NeverMeet /\ \A s \in Sessions : UNCHANGED Keeps(s)
    BY <1>1 DEF MessagesAreMade, NeverMeet, Keeps, HolderInv, Unlocked, HasLock, InSession
  <1>3. ASSUME NEW r \in Requests, NiNotify(r), LiveAreHeld
        PROVE  LiveAreHeld'
    <2> DEFINE m == [op |-> "NOTIFY", req |-> r]
    <2>1. /\ m \in Message /\ m.req = r /\ msgQ' = Append(msgQ, m)
          /\ payload[r] = "unborn" /\ payload' = [payload EXCEPT ![r] = "live"]
      BY <1>3 DEF Message, NiNotify
    <2>2. r \notin Queued
      BY <2>1 DEF OnceInv, UnbornIsNowhere
    <2>3. Queued' = Queued \union {r}
      BY <2>1, <2>2, PostQueue DEF OnceInv
    <2>4. \A q \in Requests : payload'[q] = IF q = r THEN "live" ELSE payload[q]
      BY <2>1 DEF TypeOK
    <2>5. Held(r)' /\ \A q \in Requests \ {r} : Held(q)' <=> Held(q)
      BY <1>1, <1>2, <2>3 DEF Held, Carried
    <2> QED
      BY <1>3, <2>4, <2>5 DEF LiveAreHeld
  <1>4. ASSUME ModemDown, LiveAreHeld
        PROVE  LiveAreHeld'
    <2> DEFINE m == [op |-> "DOWN", req |-> NoReq]
    <2>1. m \in Message /\ m.req = NoReq /\ msgQ' = Append(msgQ, m) /\ payload' = payload
      BY <1>4 DEF Message, ModemDown
    <2>2. Queued' = Queued \union {NoReq}
      BY <2>1, PostQueue DEF OnceInv
    <2>3. \A q \in Requests : Held(q)' <=> Held(q)
      BY <1>1, <1>2, <2>2, NiAssumption DEF Held, Carried
    <2> QED
      BY <1>4, <2>1, <2>3, HoldersStay
  <1> QED
    BY <1>1, <1>2, <1>3, <1>4 DEF Modem, HolderInv

\* A message of the queue is taken, and the payload it holds is freed.
LEMMA TakenIsFreed ==
    ASSUME TypeOK, OnceInv, LiveAreHeld, msgQ # <<>>, msgQ' = Tail(msgQ),
           Head(msgQ).req \in Requests \union {NoReq}, payload' = Freed(Head(msgQ).req),
           UNCHANGED <<rawRequest, thread, message>>,
           \A s \in Sessions : UNCHANGED Keeps(s)
    PROVE  LiveAreHeld'
  <1> PICK q \in Requests \union {NoReq} : q = Head(msgQ).req
    OBVIOUS
  <1>1. /\ q \in Queued /\ Queued' \subseteq Queued /\ Queued \subseteq Queued' \union {q}
        /\ q # NoReq => q \notin Queued'
    BY TakeQueue, TakeLeavesOthers DEF OnceInv
  <1>2. \A r \in Requests \ {q} : Held(r)' <=> Held(r)
    BY <1>1 DEF Held, Carried
  <1>3. CASE q = NoReq
    BY <1>2, <1>3, HoldersStay, NiAssumption DEF Freed
  <1>4. CASE q # NoReq
    <2>1. Held(q) /\ ~Held(q)'
      BY <1>1, <1>4, QueueHoldsAlone DEF Held, Carried
    <2> QED
      BY <1>2, <1>4, <2>1, HolderFrees
  <1> QED
    BY <1>3, <1>4
\* A handler that takes a message leaves the sessions and threads as they are.
LEMMA HandlerTakes ==
    ASSUME TypeOK, OnceInv, HolderInv,
           RequestRefused \/ InformNiResponse \/ ModemIsDown
    PROVE  HolderInv'
  <1> USE DEF sessionVars, threadVars, userVars
  <1>1. /\ handler.step = "idle" /\ handler'.step \in {"idle", "check"}
        /\ UNCHANGED <<rawRequest, thread, message, raced>>
    BY DEF RequestRefused, InformNiResponse, ModemIsDown, Take, At
  <1>2. \A s \in Sessions : handler # At("null", s) /\ handler' # At("null", s)
    BY <1>1 DEF At
  <1>3. /\ MessagesAreMade' /\ (NeverMeet => NeverMeet')
        /\ \A s \in Sessions : UNCHANGED Keeps(s)
    BY <1>1, <1>2 DEF MessagesAreMade, NeverMeet, Keeps, HolderInv, Unlocked, HasLock, InSession
  <1>4. /\ msgQ # <<>> /\ msgQ' = Tail(msgQ) /\ Head(msgQ).req \in Requests \union {NoReq}
        /\ ModemIsDown => Head(msgQ).op = "DOWN" /\ Head(msgQ) \in Message
    BY TakeMessage, MessageTypes DEF RequestRefused, InformNiResponse, ModemIsDown
  <1>5. payload' = Freed(Head(msgQ).req)
    <2>1. CASE RequestRefused \/ InformNiResponse
      BY <2>1 DEF RequestRefused, InformNiResponse
    <2>2. CASE ModemIsDown
      <3>1. Head(msgQ).req = NoReq
        BY <1>4, <2>2 DEF Message, Response
      <3> QED
        BY <2>2, <3>1 DEF ModemIsDown, Freed
    <2> QED
      BY <2>1, <2>2
  <1>6. LiveAreHeld => LiveAreHeld'
    BY <1>1, <1>3, <1>4, <1>5, TakenIsFreed
  <1> QED
    BY <1>1, <1>3, <1>6 DEF HolderInv

\* The session holds the request in place of the queue.
LEMMA SavedIsHeld ==
    ASSUME TypeOK, OnceInv, HolderInv, RequestSaved
    PROVE  HolderInv'
  <1> PICK q \in Requests : q = Head(msgQ).req
    BY TakeMessage, MessageTypes DEF RequestSaved
  <1> DEFINE x == SessionOf[q]
  <1>1. /\ msgQ # <<>> /\ msgQ' = Tail(msgQ) /\ handler.step = "idle"
        /\ UNCHANGED <<thread, message, payload, raced>>
    BY TakeMessage DEF RequestSaved, threadVars
  <1>2. /\ x \in Sessions /\ rawRequest[x] = NoReq /\ q # NoReq
        /\ rawRequest' = [rawRequest EXCEPT ![x] = q] /\ handler'.step = "save"
    BY SessionTypes, NiAssumption DEF RequestSaved, Busy
  <1>3. /\ q \in Queued /\ q \notin Queued' /\ Queued' \subseteq Queued
        /\ Queued \subseteq Queued' \union {q}
    BY <1>1, <1>2, TakeQueue, TakeLeavesOthers DEF OnceInv
  <1> HIDE DEF x
  <1>4. \A s \in Sessions : rawRequest'[s] = IF s = x THEN q ELSE rawRequest[s]
    BY <1>2 DEF TypeOK
  <1>5. \A s \in Sessions : handler # At("null", s) /\ handler' # At("null", s)
    BY <1>1, <1>2 DEF At
  <1>6. ASSUME NeverMeet
        PROVE  NeverMeet'
    BY <1>1, <1>2, <1>4, <1>5, <1>6, SessionTypes DEF NeverMeet, HasLock
  <1>7. ASSUME NeverMeet, LiveAreHeld
        PROVE  LiveAreHeld'
    <2>1. \A t \in InSession(x) : thread[t] # "taken"
      BY <1>2, <1>7 DEF NeverMeet, HasLock, InSession
    <2>2. rawRequest'[x] = q /\ Keeps(x)'
      BY <1>1, <1>2, <1>4, <1>5, <2>1 DEF Keeps, InSession
    <2>3. \A s \in Sessions \ {x} : rawRequest'[s] = rawRequest[s] /\ (Keeps(s)' <=> Keeps(s))
      BY <1>1, <1>4, <1>5 DEF Keeps, InSession
    <2>4. Held(q) /\ Held(q)'
      BY <1>2, <1>3, <2>2 DEF Held, Carried
    <2>5. \A r \in Requests \ {q} : Carried(r)' <=> Carried(r)
      BY <1>1, <1>3 DEF Carried
    <2>6. \A r \in Requests \ {q} : Held(r)' <=> Held(r)
      BY <1>2, <2>2, <2>3, <2>5, NiAssumption DEF Held
    <2> QED
      BY <1>1, <1>7, <2>4, <2>6, HoldersStay
  <1> QED
    BY <1>1, <1>6, <1>7 DEF HolderInv, MessagesAreMade

\* The request that was saved gets its thread.
LEMMA AcceptedIsHeld ==
    ASSUME TypeOK, OnceInv, HolderInv, RequestAccepted
    PROVE  HolderInv'
  <1> DEFINE q == handler.req
  <1>1. /\ handler.step = "save" /\ handler'.step = "idle"
        /\ q \in Requests /\ thread[q] = "none" /\ thread' = [thread EXCEPT ![q] = "created"]
        /\ UNCHANGED <<rawRequest, msgQ, message, payload, raced>>
    BY DEF RequestAccepted, Idle, At, OnceInv, NewHasNoThread
  <1> HIDE DEF q
  <1>2. \A t \in Requests : \/ thread'[t] = thread[t]
                            \/ thread[t] = "none" /\ thread'[t] = "created"
    BY <1>1 DEF TypeOK
  <1>3. \A s \in Sessions : handler # At("null", s) /\ handler' # At("null", s)
    BY <1>1 DEF At
  <1>4. MessagesAreMade' /\ (NeverMeet => NeverMeet')
    BY <1>1, <1>2, <1>3 DEF MessagesAreMade, NeverMeet, HolderInv, HasLock
  <1>5. \A s \in Sessions : Keeps(s)' <=> Keeps(s)
    BY <1>1, <1>2, <1>3 DEF Keeps, InSession
  <1>6. \A r \in Requests : Held(r)' <=> Held(r)
    BY <1>1, <1>5 DEF Held, Carried, Queued
  <1> QED
    BY <1>1, <1>4, <1>6, HoldersStay DEF HolderInv
\* A reset frees the request that its session holds.
LEMMA ResetHolds ==
    ASSUME TypeOK, OnceInv, HolderInv, loc_eng_ni_reset_on_engine_restart
    PROVE  HolderInv'
  <1> USE DEF sessionVars, threadVars, userVars
  <1>1. UNCHANGED <<msgQ, thread, message>>
    BY DEF loc_eng_ni_reset_on_engine_restart, ResetSkips, ResetFrees, ResetClears, ResetSignals
  <1>2. MessagesAreMade' /\ \A r \in Requests : UNCHANGED Carried(r)
    BY <1>1 DEF HolderInv, MessagesAreMade, Carried, Queued
  <1>3. ASSUME NEW s \in Sessions, ResetSkips(s) \/ ResetSignals(s)
        PROVE  HolderInv'
    <2>1. /\ \A x \in Sessions : handler # At("null", x) /\ handler' # At("null", x)
          /\ UNCHANGED <<rawRequest, payload, raced>>
      BY <1>3 DEF ResetSkips, ResetSignals, AfterReset, At, Idle
    <2>2. /\ NeverMeet => NeverMeet'
          /\ \A x \in Sessions : UNCHANGED Keeps(x)
      BY <1>1, <2>1 DEF NeverMeet, HasLock, Keeps, InSession
    <2>3. \A r \in Requests : Held(r)' <=> Held(r)
      BY <1>2, <2>1, <2>2 DEF Held
    <2> QED
      BY <1>2, <2>1, <2>2, <2>3, HoldersStay DEF HolderInv
  <1>4. ASSUME NEW s \in Sessions, ResetFrees(s), ~raced'
        PROVE  NeverMeet' /\ LiveAreHeld'
    <2> PICK q \in Requests : q = rawRequest[s]
      BY <1>4 DEF ResetFrees, TypeOK
    <2>1. /\ handler = At("check", s) /\ handler' = At("null", s) /\ ~raced /\ Unlocked(s)
          /\ payload' = Freed(q) /\ rawRequest' = rawRequest
      BY <1>4 DEF ResetFrees
    <2>2. NeverMeet /\ LiveAreHeld /\ NeverMeet'
      <3>1. NeverMeet /\ LiveAreHeld
        BY <2>1 DEF HolderInv
      <3>2. \A x \in Sessions : handler' = At("null", x) => x = s
        BY <2>1 DEF At
      <3> QED
        BY <1>1, <2>1, <3>1, <3>2 DEF NeverMeet, HasLock, Unlocked, InSession
    <2>3. q # NoReq /\ \A t \in InSession(s) : thread[t] # "taken"
      BY <2>1, NiAssumption DEF Unlocked, InSession
    <2>4. ~Carried(q) /\ \A x \in Sessions : rawRequest[x] = q => x = s
      BY <2>3, SessionHoldsAlone
    <2>5. Keeps(s) /\ ~Keeps(s)'
      BY <2>1, <2>3 DEF Keeps, At
    <2>6. \A x \in Sessions \ {s} : Keeps(x)' <=> Keeps(x)
      BY <1>1, <2>1 DEF Keeps, At, InSession
    <2>7. Held(q) /\ ~Held(q)'
      BY <1>2, <2>1, <2>4, <2>5 DEF Held
    <2>8. \A r \in Requests \ {q} : Held(r)' <=> Held(r)
      BY <1>2, <2>1, <2>6 DEF Held
    <2> QED
      BY <2>1, <2>2, <2>7, <2>8, HolderFrees
  <1>5. ASSUME NEW s \in Sessions, ResetClears(s), ~raced'
        PROVE  NeverMeet' /\ LiveAreHeld'
    <2>1. /\ handler = At("null", s) /\ handler'.step = "signal" /\ ~raced
          /\ payload' = payload /\ rawRequest' = [rawRequest EXCEPT ![s] = NoReq]
      BY <1>5 DEF ResetClears, At
    <2>2. NeverMeet /\ LiveAreHeld
      BY <2>1 DEF HolderInv
    <2>3. \A x \in Sessions : rawRequest'[x] = IF x = s THEN NoReq ELSE rawRequest[x]
      BY <2>1 DEF TypeOK
    <2>4. \A x \in Sessions : handler' # At("null", x)
      BY <2>1 DEF At
    <2>5. \A t \in InSession(s) : ~HasLock(t)
      BY <2>1, <2>2 DEF NeverMeet, Unlocked, HasLock, InSession
    <2>6. NeverMeet'
      BY <1>1, <2>2, <2>3, <2>4, <2>5, SessionTypes DEF NeverMeet, HasLock, InSession
    <2>7. ~Keeps(s) /\ ~Keeps(s)'
      BY <2>1, <2>3 DEF Keeps
    <2>8. \A x \in Sessions \ {s} : Keeps(x)' <=> Keeps(x)
      BY <1>1, <2>1, <2>3, <2>4 DEF Keeps, At, InSession
    <2>9. \A r \in Requests : Held(r)' <=> Held(r)
      BY <1>2, <2>3, <2>7, <2>8 DEF Held
    <2> QED
      BY <2>1, <2>2, <2>6, <2>9, HoldersStay
  <1> QED
    BY <1>2, <1>3, <1>4, <1>5 DEF HolderInv, loc_eng_ni_reset_on_engine_restart

\* The wait of a thread, before and after.
LEMMA WaitHolds ==
    ASSUME TypeOK, OnceInv, HolderInv, NEW r \in Requests,
           BeginWait(r) \/ Answered(r) \/ TimedOut(r) \/ ForgetID(r)
    PROVE  HolderInv'
  <1> USE DEF sessionVars, threadVars, userVars
  <1> DEFINE s == SessionOf[r]
  <1>1. UNCHANGED <<rawRequest, msgQ, message, handler, payload>>
    BY DEF BeginWait, Answered, TimedOut, ForgetID, Enter
  <1>2. PICK place \in {"waiting", "checked", "cleared", "sending"} :
            /\ thread' = [thread EXCEPT ![r] = place]
            /\ place = "sending" => thread[r] = "cleared"
            /\ place # "sending" => thread[r] \in {"created", "waiting"}
            /\ place = "checked" => rawRequest[s] # NoReq
    BY DEF BeginWait, Answered, TimedOut, ForgetID, Enter, Goto
  <1>3. raced => raced'
    BY DEF BeginWait, Answered, TimedOut, ForgetID, Enter
  <1>4. place = "checked" /\ ~raced' => handler # At("null", s)
    BY <1>2 DEF BeginWait, Answered, TimedOut, ForgetID, Enter, Goto, TypeOK
  <1> HIDE DEF s
  <1>5. \A t \in Requests : thread'[t] = IF t = r THEN place ELSE thread[t]
    BY <1>2 DEF TypeOK
  <1>6. MessagesAreMade'
    BY <1>1, <1>2, <1>5 DEF HolderInv, MessagesAreMade
  <1>7. ASSUME NeverMeet, ~raced'
        PROVE  NeverMeet'
    <2>1. ASSUME NEW t \in Requests, HasLock(t)', ~HasLock(t)
          PROVE  t = r /\ place = "checked"
      <3>1. CASE t = r
        BY <1>2, <1>5, <2>1, <3>1 DEF HasLock
      <3>2. CASE t # r
        BY <1>5, <2>1, <3>2, Zenon DEF HasLock
      <3> QED
        BY <3>1, <3>2
    <2>2. \A t \in Requests : HasLock(t)' => rawRequest'[SessionOf[t]] # NoReq
      BY <1>1, <1>2, <1>7, <2>1 DEF NeverMeet, s
    <2>3. \A x \in Sessions : handler' = At("null", x) => Unlocked(x)'
      BY <1>1, <1>4, <1>5, <1>7 DEF NeverMeet, s, Unlocked, InSession, HasLock
    <2> QED
      BY <2>2, <2>3 DEF NeverMeet
  <1>8. \A x \in Sessions : Keeps(x)' <=> Keeps(x)
    BY <1>1, <1>2, <1>5 DEF Keeps, InSession
  <1>9. \A q \in Requests : Held(q)' <=> Held(q)
    BY <1>1, <1>8 DEF Held, Carried, Queued
  <1> QED
    BY <1>1, <1>3, <1>6, <1>7, <1>9, HoldersStay DEF HolderInv
\* The thread's message holds the request in place of the session, or it is freed.
LEMMA TakerHolds ==
    ASSUME TypeOK, OnceInv, HolderInv, NEW r \in Requests, TakeRequest(r)
    PROVE  HolderInv'
  <1> USE DEF sessionVars, threadVars, userVars
  <1> PICK s \in Sessions : s = SessionOf[r]
    BY SessionTypes
  <1> PICK q \in Requests \union {NoReq} : q = rawRequest[s]
    BY DEF TypeOK
  <1> DEFINE m == [op |-> "RESPONSE", req |-> q, resp |-> resp[s]]
  <1>1. /\ thread[r] = "checked" /\ thread' = [thread EXCEPT ![r] = "taken"]
        /\ UNCHANGED <<rawRequest, msgQ, handler, raced>>
        /\ \/ message' = [message EXCEPT ![r] = m] /\ payload' = payload
           \/ message' = message /\ payload' = Freed(q)
    BY DEF TakeRequest, Goto
  <1>2. \A t \in Requests : thread'[t] = IF t = r THEN "taken" ELSE thread[t]
    BY <1>1 DEF TypeOK
  <1>3. \A t \in Requests \ {r} : message'[t] = message[t]
    BY <1>1 DEF TypeOK
  <1>4. message[r] = NoMsg /\ message[r].req = NoReq
    BY <1>1 DEF HolderInv, MessagesAreMade, NoMsg
  <1>5. MessagesAreMade'
    BY <1>2, <1>3 DEF HolderInv, MessagesAreMade
  <1>6. ASSUME NeverMeet
        PROVE  NeverMeet'
    <2>1. \A t \in Requests : HasLock(t)' <=> HasLock(t)
      BY <1>1, <1>2 DEF HasLock
    <2> QED
      BY <1>1, <1>6, <2>1 DEF NeverMeet, HasLock, Unlocked, InSession
  <1>7. ASSUME NeverMeet, LiveAreHeld
        PROVE  LiveAreHeld'
    <2>1. q \in Requests /\ q # NoReq /\ r \in InSession(s)
      BY <1>1, <1>7 DEF NeverMeet, HasLock, InSession
    <2>2. handler # At("null", s)
      BY <1>1, <2>1, <1>7 DEF NeverMeet, Unlocked
    <2>3. \A t \in InSession(s) : thread[t] # "taken"
      BY <1>1, <2>1 DEF OnceInv, SessionsFit, HasLock, InSession
    <2>4. Keeps(s) /\ ~Keeps(s)'
      BY <1>2, <2>1, <2>2, <2>3 DEF Keeps, InSession
    <2>5. \A x \in Sessions \ {s} : Keeps(x)' <=> Keeps(x)
      BY <1>1, <1>2 DEF Keeps, InSession
    <2>6. ~Carried(q) /\ \A x \in Sessions : rawRequest[x] = q => x = s
      BY <2>1, <2>3, SessionHoldsAlone
    <2>7. Held(q)
      BY <2>4 DEF Held
    <2>8. message'[r].req \in {q, NoReq}
      <3>1. message' = [message EXCEPT ![r] = m] => message'[r] = m
        BY DEF TypeOK
      <3> QED
        BY <1>1, <1>4, <3>1
    <2>9. \A p \in Requests \ {q} : Carried(p)' <=> Carried(p)
      BY <1>1, <1>3, <1>4, <2>8, NiAssumption DEF Carried, Queued
    <2>10. \A p \in Requests \ {q} : Held(p)' <=> Held(p)
      BY <1>1, <2>5, <2>9 DEF Held
    <2>11. CASE message' = [message EXCEPT ![r] = m] /\ payload' = payload
      <3>1. message'[r].req = q
        BY <2>11 DEF TypeOK
      <3>2. Held(q)'
        BY <3>1 DEF Held, Carried
      <3> QED
        BY <1>7, <2>7, <2>10, <2>11, <3>2, HoldersStay
    <2>12. CASE message' = message /\ payload' = Freed(q)
      <3>1. ~Held(q)'
        BY <1>1, <2>4, <2>6, <2>12 DEF Held, Carried, Queued
      <3> QED
        BY <1>7, <2>1, <2>7, <2>10, <2>12, <3>1, HolderFrees
    <2> QED
      BY <1>1, <2>11, <2>12
  <1> QED
    BY <1>1, <1>5, <1>6, <1>7 DEF HolderInv

\* The session is cleared of what it does not hold any more.
LEMMA ClearHolds ==
    ASSUME TypeOK, OnceInv, HolderInv, NEW r \in Requests, ClearRequest(r)
    PROVE  HolderInv'
  <1> PICK s \in Sessions : s = SessionOf[r]
    BY SessionTypes
  <1>1. /\ thread[r] = "taken" /\ thread' = [thread EXCEPT ![r] = "cleared"]
        /\ rawRequest' = [rawRequest EXCEPT ![s] = NoReq]
        /\ UNCHANGED <<msgQ, message, handler, payload, raced>>
    BY DEF ClearRequest, Goto
  <1>2. \A t \in Requests : thread'[t] = IF t = r THEN "cleared" ELSE thread[t]
    BY <1>1 DEF TypeOK
  <1>3. \A x \in Sessions : rawRequest'[x] = IF x = s THEN NoReq ELSE rawRequest[x]
    BY <1>1 DEF TypeOK
  <1>4. MessagesAreMade'
    BY <1>1, <1>2 DEF HolderInv, MessagesAreMade
  <1>5. ASSUME NeverMeet
        PROVE  NeverMeet'
    <2>1. \A t \in Requests : HasLock(t)' => HasLock(t) /\ SessionOf[t] # s
      BY <1>1, <1>2 DEF OnceInv, SessionsFit, HasLock
    <2> QED
      BY <1>1, <1>3, <1>5, <2>1, SessionTypes DEF NeverMeet, HasLock, Unlocked, InSession
  <1>6. ~Keeps(s) /\ ~Keeps(s)'
    BY <1>1, <1>3 DEF Keeps, InSession
  <1>7. \A x \in Sessions \ {s} : Keeps(x)' <=> Keeps(x)
    BY <1>1, <1>2, <1>3 DEF Keeps, InSession
  <1>8. \A q \in Requests : Held(q)' <=> Held(q)
    BY <1>1, <1>3, <1>6, <1>7 DEF Held, Carried, Queued
  <1> QED
    BY <1>1, <1>4, <1>5, <1>8, HoldersStay DEF HolderInv

\* The queue holds the payload in place of the thread.
LEMMA SenderHolds ==
    ASSUME TypeOK, OnceInv, HolderInv, NEW r \in Requests, SendMsg(r)
    PROVE  HolderInv'
  <1> USE DEF sessionVars, userVars
  <1>1. /\ thread[r] = "sending" /\ thread' = [thread EXCEPT ![r] = "done"]
        /\ message' = [message EXCEPT ![r] = NoMsg]
        /\ UNCHANGED <<rawRequest, handler, payload, raced>>
    BY DEF SendMsg, Goto
  <1>2. \A t \in Requests : thread'[t] = IF t = r THEN "done" ELSE thread[t]
    BY <1>1 DEF TypeOK
  <1>3. \A t \in Requests : message'[t] = IF t = r THEN NoMsg ELSE message[t]
    BY <1>1 DEF TypeOK
  <1>4. MessagesAreMade'
    BY <1>2, <1>3 DEF HolderInv, MessagesAreMade
  <1>5. NeverMeet => NeverMeet'
    BY <1>1, <1>2 DEF NeverMeet, HasLock, Unlocked, InSession
  <1>6. \A x \in Sessions : Keeps(x)' <=> Keeps(x)
    BY <1>1, <1>2 DEF Keeps, InSession
  <1>7. \/ message[r] = NoMsg /\ Queued' = Queued
        \/ Queued' = Queued \union {message[r].req}
    <2>1. CASE message[r] = NoMsg
      BY <2>1 DEF SendMsg, Queued
    <2>2. CASE message[r] # NoMsg
      <3>1. message[r] \in Message
        BY <2>2 DEF TypeOK, Message
      <3>2. message[r].req = NoReq \/ message[r].req \notin Queued
        BY DEF OnceInv, ThreadsOnce
      <3>3. msgQ' = Append(msgQ, message[r])
        BY <2>2 DEF SendMsg
      <3> QED
        BY <3>1, <3>2, <3>3, PostQueue DEF OnceInv
    <2> QED
      BY <2>1, <2>2
  <1>8. \A q \in Requests : Carried(q)' <=> Carried(q)
    BY <1>3, <1>7, NiAssumption DEF Carried, NoMsg
  <1>9. \A q \in Requests : Held(q)' <=> Held(q)
    BY <1>1, <1>6, <1>8 DEF Held
  <1> QED
    BY <1>1, <1>4, <1>5, <1>9, HoldersStay DEF HolderInv

\* The user's answers change no payload and no holder.
LEMMA UserHolds ==
    ASSUME TypeOK, HolderInv,
           UNCHANGED <<rawRequest, thread, message, msgQ, handler, payload, raced>>
    PROVE  HolderInv'
  <1>1. \A q \in Requests : Held(q)' <=> Held(q)
    BY DEF Held, Carried, Queued, Keeps, InSession
  <1>2. LiveAreHeld => LiveAreHeld'
    BY <1>1, HoldersStay
  <1>3. MessagesAreMade' /\ (NeverMeet => NeverMeet')
    BY DEF HolderInv, MessagesAreMade, NeverMeet, HasLock, Unlocked, InSession
  <1> QED
    BY <1>2, <1>3 DEF HolderInv

\* A payload is live as long as it has a holder: the handlers pass it on or free it.
THEOREM HolderCorrect == Spec => []HolderInv
  <1>1. Init => HolderInv
    <2> SUFFICES ASSUME Init PROVE HolderInv
      OBVIOUS
    <2>1. \A r \in Requests : r # NoReq /\ ~Held(r)
      BY NiAssumption DEF Init, Held, Carried, Queued, NoMsg
    <2> QED
      BY <2>1 DEF Init, HolderInv, MessagesAreMade, NeverMeet, LiveAreHeld, HasLock, Idle, At
  <1>2. TypeOK /\ OnceInv /\ HolderInv /\ [Next]_vars => HolderInv'
    <2> SUFFICES ASSUME TypeOK, OnceInv, HolderInv, [Next]_vars PROVE HolderInv'
      OBVIOUS
    <2>1. CASE Modem
      BY <2>1, ModemHolds
    <2>2. CASE MessageThread
      BY <2>2, HandlerTakes, SavedIsHeld, AcceptedIsHeld, ResetHolds
      DEF MessageThread, loc_eng_ni_request_handler
    <2>3. ASSUME NEW r \in Requests, ni_thread_proc(r) PROVE HolderInv'
      BY <2>3, WaitHolds, TakerHolds, ClearHolds, SenderHolds DEF ni_thread_proc
    <2>4. ASSUME NEW r \in Requests, loc_eng_ni_respond(r) PROVE HolderInv'
      BY <2>4, UserHolds
      DEF loc_eng_ni_respond, Respond, IgnoreNormal, SetResponse, Give, sessionVars, threadVars
    <2>5. CASE UNCHANGED vars
      BY <2>5, UserHolds DEF vars
    <2> QED
      BY <2>1, <2>2, <2>3, <2>4, <2>5 DEF Next
  <1> QED
    BY <1>1, <1>2, TypeCorrect, OnceCorrect, PTL DEF Spec

\* The payload of a request has one holder until it is freed, and is freed once,
\* unless a reset met a thread that was just taking the request.
THEOREM OneHolderEach == Spec => []OneHolder
  <1>1. TypeOK /\ OnceInv /\ HolderInv => OneHolder
    <2> SUFFICES ASSUME TypeOK, OnceInv, LiveAreHeld, NEW r \in Requests
                 PROVE  /\ payload[r] # "freed twice"
                        /\ IF payload[r] = "live" THEN \E h \in Holders(r) : Holders(r) = {h}
                                                  ELSE Holders(r) = {}
      BY DEF HolderInv, OneHolder
    <2> DEFINE inQueue   == {i \in DOMAIN msgQ : msgQ[i].req = r}
               inThread  == {t \in Requests : message[t].req = r}
               inSession == {s \in Sessions : rawRequest[s] = r /\ Keeps(s)}
    <2>1. DOMAIN msgQ = 1 .. Len(msgQ)
      <3>1. msgQ \in Seq(Message)
        BY DEF TypeOK
      <3> QED
        BY <3>1
    <2>2. r # NoReq
      BY NiAssumption
    <2>3. Holders(r) = {<<"queue", i>> : i \in inQueue} \union {<<"thread", t>> : t \in inThread}
                         \union {<<"session", s>> : s \in inSession}
      BY <2>2 DEF Holders, Keeps
    <2>4. \A i, j \in inQueue : i = j
      BY <2>1, <2>2 DEF OnceInv, QueueOnce
    <2>5. \A t, u \in inThread : t = u
      BY <2>2 DEF OnceInv, ThreadsOnce
    <2>6. \A x, y \in inSession : x = y
      BY <2>2 DEF OnceInv, SessionsFit
    <2>7. inQueue # {} <=> r \in Queued
      BY <2>1 DEF Queued
    <2>8. inThread # {} => inQueue = {}
      BY <2>2, <2>7 DEF OnceInv, ThreadsOnce
    <2>9. inSession # {} => inQueue = {} /\ inThread = {}
      <3>1. \A s \in inSession : ~Carried(r)
        BY <2>2, SessionHoldsAlone DEF Keeps
      <3> QED
        BY <2>7, <3>1 DEF Carried
    <2>10. Held(r) <=> inQueue # {} \/ inThread # {} \/ inSession # {}
      BY <2>7 DEF Held, Carried
    <2> HIDE DEF inQueue, inThread, inSession
    <2>11. ASSUME Held(r)
           PROVE  \E h \in Holders(r) : Holders(r) = {h}
      <3>1. ASSUME NEW i \in inQueue
            PROVE  Holders(r) = {<<"queue", i>>}
        BY <2>3, <2>4, <2>8, <2>9, Zenon
      <3>2. ASSUME NEW t \in inThread
            PROVE  Holders(r) = {<<"thread", t>>}
        BY <2>3, <2>5, <2>8, <2>9, Zenon
      <3>3. ASSUME NEW x \in inSession
            PROVE  Holders(r) = {<<"session", x>>}
        BY <2>3, <2>6, <2>9, Zenon
      <3> QED
        BY <2>10, <2>11, <3>1, <3>2, <3>3
    <2>12. ~Held(r) => Holders(r) = {}
      BY <2>3, <2>10
    <2> QED
      BY <2>11, <2>12 DEF LiveAreHeld
  <1> QED
    BY <1>1, TypeCorrect, OnceCorrect, HolderCorrect, PTL
=============================================================================
