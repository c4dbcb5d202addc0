-------------------------- MODULE GpsThreadsProofs --------------------------
(***************************************************************************)
(* The threads of the GPS library: those that wait for the indications of  *)
(* the modem in loc_sync_send_req, and the message thread of a MsgTask.    *)
(*                                                                         *)
(* LocApiSyncReq, for any number of threads and slots: InUseIsExact and    *)
(* BufferIsLive hold whatever times out; SlotsAreOwned, with what it rests *)
(* on (OwnInv), as long as every wait has heard.                           *)
(*                                                                         *)
(* MsgThread, for any set of messages: LifeInv is the inductive invariant  *)
(* of the delegate, the task and the join: how many references are left    *)
(* follows from where the thread and the owner are.  FlowInv is that of    *)
(* the messages, and needs only the types.                                 *)
(***************************************************************************)
EXTENDS LocApiSyncReq, MsgThread, SequenceTheorems, TLAPS

-----------------------------------------------------------------------------
(* Synchronous requests.                                                   *)

USE SyncAssumption DEF SyncAssumption

(* What the program writes to a slot is a slot.                            *)
LEMMA SlotTypes ==
  /\ FreeSlot \in Slot
  /\ \A t \in Threads :
       [FreeSlot EXCEPT !.recv_ind_id = IndOf[t], !.recv_ind_payload_ptr = t] \in Slot
  /\ \A sl \in Slot, b \in BOOLEAN : [sl EXCEPT !.ind_is_waiting = b] \in Slot
  /\ \A sl \in Slot : [sl EXCEPT !.ind_has_arrived = TRUE] \in Slot
<1>1. FreeSlot \in Slot
  BY DEF FreeSlot, Slot
<1>2. ASSUME NEW t \in Threads
      PROVE  [FreeSlot EXCEPT !.recv_ind_id = IndOf[t], !.recv_ind_payload_ptr = t] \in Slot
  BY DEF Slot, FreeSlot, Inds
<1>3. ASSUME NEW sl \in Slot, NEW b \in BOOLEAN
      PROVE  [sl EXCEPT !.ind_is_waiting = b] \in Slot
  BY DEF Slot
<1>4. ASSUME NEW sl \in Slot PROVE [sl EXCEPT !.ind_has_arrived = TRUE] \in Slot
  BY DEF Slot
<1> QED
  BY <1>1, <1>2, <1>3, <1>4

\* What follows a refused send keeps the types.
LEMMA RetryTypes ==
  ASSUME TypeOK, NEW t \in Threads, NEW st \in Statuses, Retry(t, st)
  PROVE  /\ status' \in [Threads -> Statuses]
         /\ sendReqRetryRem' \in [Threads -> 0 .. SendReqRetries]
         /\ pc' \in [Threads -> Places]
BY DEF TypeOK, Retry, Goto, Places

(* The types are preserved by every step of loc_sync_send_req and          *)
(* loc_sync_process_ind.                                                   *)
THEOREM TypeCorrect == Spec => []TypeOK
<1>1. Init => TypeOK
  <2> SUFFICES ASSUME Init PROVE TypeOK
    OBVIOUS
  <2>1. slots \in [Slots -> Slot]
    BY SlotTypes DEF Init
  <2>2. select_id \in [Threads -> Slots]
    BY DEF Init, Slots
  <2>3. pc \in [Threads -> Places] /\ status \in [Threads -> Statuses]
    BY DEF Init, Places, Statuses
  <2>4. /\ answers \in [Threads -> 0 .. MaxAnswers]
        /\ sendReqRetryRem \in [Threads -> 0 .. SendReqRetries]
    BY DEF Init
  <2>5. /\ payload \in [Threads -> Threads \cup {NoThread}]
        /\ slot_in_use \in [Slots -> BOOLEAN]
        /\ in_use \in BOOLEAN /\ unheard \in BOOLEAN
    BY DEF Init
  <2> QED
    BY <2>1, <2>2, <2>3, <2>4, <2>5 DEF TypeOK
<1>2. TypeOK /\ [Next]_vars => TypeOK'
  <2> SUFFICES ASSUME TypeOK, [Next]_vars PROVE TypeOK'
    OBVIOUS
  <2> USE DEF TypeOK, Places, InWait, Statuses, Goto, arrayVars, callVars
  <2>1. ASSUME NEW t \in Threads, Call(t) PROVE TypeOK'
    <3>1. CASE loc_alloc_slot(t)
      BY <3>1 DEF loc_alloc_slot, First
    <3>2. CASE BufferFull(t)
      BY <3>2 DEF BufferFull
    <3> QED
      BY <2>1, <3>1, <3>2 DEF Call
  <2>2. ASSUME NEW t \in Threads, Proceed(t) PROVE TypeOK'
    <3>1. CASE loc_sync_select_ind(t)
      BY <3>1, SlotTypes DEF loc_sync_select_ind
    <3>2. CASE SendAccepted(t)
      <4>1. answers' \in [Threads -> 0 .. MaxAnswers]
        BY <3>2 DEF SendAccepted
      <4>2. status' \in [Threads -> Statuses] /\ pc' \in [Threads -> Places]
        BY <3>2 DEF SendAccepted
      <4>3. UNCHANGED <<arrayVars, select_id, sendReqRetryRem, payload, unheard>>
        BY <3>2 DEF SendAccepted
      <4> QED
        BY <4>1, <4>2, <4>3
    <3>3. CASE SendRefused(t)
      BY <3>3, RetryTypes DEF SendRefused
    <3>4. CASE CheckSelectId(t)
      BY <3>4, RetryTypes DEF CheckSelectId
    <3>5. CASE loc_sync_wait_for_ind(t)
      <4>1. [slots[select_id[t]] EXCEPT !.ind_is_waiting = TRUE] \in Slot
        BY SlotTypes
      <4>2. slots' \in [Slots -> Slot]
        BY <3>5, <4>1 DEF loc_sync_wait_for_ind
      <4>3. status' \in [Threads -> Statuses] /\ pc' \in [Threads -> Places]
        BY <3>5 DEF loc_sync_wait_for_ind
      <4>4. UNCHANGED <<in_use, slot_in_use, select_id, sendReqRetryRem, payload, answers, unheard>>
        BY <3>5 DEF loc_sync_wait_for_ind
      <4> QED
        BY <4>2, <4>3, <4>4
    <3>6. CASE WakeUnheard(t)
      BY <3>6 DEF WakeUnheard
    <3>7. CASE EndWait(t)
      <4>1. [slots[select_id[t]] EXCEPT !.ind_is_waiting = FALSE] \in Slot
        BY SlotTypes
      <4> QED
        BY <3>7, <4>1 DEF EndWait
    <3>8. CASE FreeAfterWait(t)
      <4>1. slots' \in [Slots -> Slot] /\ slot_in_use' \in [Slots -> BOOLEAN]
        BY <3>8, SlotTypes DEF FreeAfterWait, loc_free_slot
      <4>2. /\ status' \in [Threads -> Statuses]
            /\ sendReqRetryRem' \in [Threads -> 0 .. SendReqRetries]
            /\ pc' \in [Threads -> Places]
        BY <3>8, RetryTypes DEF FreeAfterWait
      <4> QED
        BY <3>8, <4>1, <4>2 DEF FreeAfterWait, loc_free_slot
    <3>9. CASE FreeAfterFailure(t)
      BY <3>9, SlotTypes DEF FreeAfterFailure, loc_free_slot
    <3>10. CASE Return(t)
      <4>1. 1 \in Slots /\ SendReqRetries \in 0 .. SendReqRetries
        BY DEF Slots
      <4> QED
        BY <3>10, <4>1 DEF Return
    <3> QED
      BY <2>2, <3>1, <3>2, <3>3, <3>4, <3>5, <3>6, <3>7, <3>8, <3>9, <3>10 DEF Proceed
  <2>3. ASSUME NEW t \in Threads, loc_sync_process_ind(t) PROVE TypeOK'
    <3>1. answers' \in [Threads -> 0 .. MaxAnswers]
      BY <2>3 DEF loc_sync_process_ind
    <3>2. CASE UNCHANGED <<slots, pc, payload>>
      BY <2>3, <3>1, <3>2 DEF loc_sync_process_ind
    <3>3. ASSUME NEW s \in Slots, Deliver(s, t), Wants(s, IndOf[t])
          PROVE  /\ slots' \in [Slots -> Slot]
                 /\ pc' \in [Threads -> Places]
      <4>1. [slots[s] EXCEPT !.ind_has_arrived = TRUE] \in Slot
        BY SlotTypes
      <4>2. slots' \in [Slots -> Slot]
        BY <3>3, <4>1 DEF Deliver
      <4>3. pc' \in [Threads -> Places]
        BY <3>3 DEF Deliver, Signal
      <4> QED
        BY <4>2, <4>3
    <3>4. ASSUME NEW s \in Slots, Deliver(s, t)
          PROVE  payload' \in [Threads -> Threads \cup {NoThread}]
      BY <3>4 DEF Deliver
    <3>5. CASE \E s \in Slots : Deliver(s, t) /\ Wants(s, IndOf[t])
      BY <2>3, <3>1, <3>3, <3>4, <3>5 DEF loc_sync_process_ind
    <3> QED
      BY <2>3, <3>2, <3>5 DEF loc_sync_process_ind, First
  <2>4. CASE UNCHANGED vars
    BY <2>4 DEF vars
  <2> QED
    BY <2>1, <2>2, <2>3, <2>4 DEF Next
<1> QED
  BY <1>1, <1>2, PTL DEF Spec
-----------------------------------------------------------------------------
(* A step either leaves the flags alone, or sets one, or clears one.       *)
LEMMA FlagSteps ==
  ASSUME [Next]_vars
  PROVE  \/ UNCHANGED <<in_use, slot_in_use>>
         \/ /\ in_use' = TRUE
            /\ \E s \in Slots : slot_in_use' = [slot_in_use EXCEPT ![s] = TRUE]
         \/ \E s \in Threads : loc_free_slot(select_id[s])
         \/ /\ in_use' = (in_use /\ \E s \in Slots : slot_in_use[s])
            /\ UNCHANGED slot_in_use
<1> USE DEF arrayVars
<1>1. ASSUME NEW t \in Threads, Call(t)
      PROVE  \/ UNCHANGED <<in_use, slot_in_use>>
             \/ /\ in_use' = TRUE
                /\ \E s \in Slots : slot_in_use' = [slot_in_use EXCEPT ![s] = TRUE]
  BY <1>1 DEF Call, loc_alloc_slot, BufferFull
<1>2. ASSUME NEW t \in Threads, Proceed(t)
      PROVE  UNCHANGED <<in_use, slot_in_use>> \/ loc_free_slot(select_id[t])
  BY <1>2 DEF Proceed, loc_sync_select_ind, SendAccepted, SendRefused, CheckSelectId,
              loc_sync_wait_for_ind, WakeUnheard, EndWait, FreeAfterWait,
              FreeAfterFailure, Return
<1>3. ASSUME NEW t \in Threads, loc_sync_process_ind(t)
      PROVE  /\ \/ UNCHANGED in_use
                \/ in_use' = (in_use /\ \E s \in Slots : slot_in_use[s])
             /\ UNCHANGED slot_in_use
  BY <1>3 DEF loc_sync_process_ind
<1> QED
  BY <1>1, <1>2, <1>3 DEF Next, vars

(* in_use is TRUE exactly while a slot is in use, in spite of the early    *)
(* return and of the loop in loc_sync_process_ind that stops early.        *)
THEOREM InUseCorrect == Spec => []InUseIsExact
<1>1. Init => InUseIsExact
  BY DEF Init, InUseIsExact
<1>2. TypeOK /\ InUseIsExact /\ [Next]_vars => InUseIsExact'
  <2> SUFFICES ASSUME TypeOK, InUseIsExact, [Next]_vars PROVE InUseIsExact'
    OBVIOUS
  <2> USE DEF TypeOK, InUseIsExact
  <2>1. CASE UNCHANGED <<in_use, slot_in_use>>
    BY <2>1
  <2>2. ASSUME NEW s \in Slots, in_use' = TRUE, slot_in_use' = [slot_in_use EXCEPT ![s] = TRUE]
        PROVE  InUseIsExact'
    BY <2>2
  <2>3. ASSUME NEW t \in Threads, loc_free_slot(select_id[t]) PROVE InUseIsExact'
    <3>1. \A r \in Slots : slot_in_use'[r] => slot_in_use[r]
      BY <2>3 DEF loc_free_slot
    <3> QED
      BY <2>3, <3>1 DEF loc_free_slot
  <2>4. CASE /\ in_use' = (in_use /\ \E s \in Slots : slot_in_use[s])
             /\ UNCHANGED slot_in_use
    BY <2>4
  <2> QED
    BY <2>1, <2>2, <2>3, <2>4, FlagSteps
<1> QED
  BY <1>1, <1>2, TypeCorrect, PTL DEF Spec

-----------------------------------------------------------------------------
(* The copy of an indication goes to the buffer of a call that has not     *)
(* returned.  The invariant is inductive as it stands: whoever frees a     *)
(* slot clears its pointer, and every call frees its slot before it        *)
(* returns.                                                                *)
Ptr(s) == slots[s].recv_ind_payload_ptr

\* A freed slot points to no buffer, and no other slot changes.
LEMMA FreeClears ==
  ASSUME TypeOK, NEW s \in Slots, loc_free_slot(s)
  PROVE  \A r \in Slots : slots'[r] = IF r = s THEN FreeSlot ELSE slots[r]
BY DEF TypeOK, loc_free_slot

\* loc_sync_process_ind copies an indication only to a call that still runs.
THEOREM BufferCorrect == Spec => []BufferIsLive
<1>1. Init => BufferIsLive
  BY DEF Init, BufferIsLive, FreeSlot
<1>2. TypeOK /\ BufferIsLive /\ [Next]_vars => BufferIsLive'
  <2> SUFFICES ASSUME TypeOK, BufferIsLive, [Next]_vars,
                      NEW s \in Slots, Ptr(s)' # NoThread
               PROVE  /\ pc'[Ptr(s)'] \notin {"idle", "selecting", "returning"}
                      /\ select_id'[Ptr(s)'] = s
    BY DEF BufferIsLive, Ptr
  <2> DEFINE Goal == /\ pc'[Ptr(s)'] \notin {"idle", "selecting", "returning"}
                     /\ select_id'[Ptr(s)'] = s
  <2>0. Ptr(s) # NoThread => /\ Ptr(s) \in Threads
                             /\ pc[Ptr(s)] \notin {"idle", "selecting", "returning"}
                             /\ select_id[Ptr(s)] = s
    BY DEF BufferIsLive, Ptr, TypeOK, Slot
  <2> USE DEF Goto, arrayVars, callVars, Ptr, TypeOK
  <2>1. ASSUME NEW t \in Threads, Call(t) PROVE Goal
    BY <2>0, <2>1 DEF Call, loc_alloc_slot, BufferFull
  <2>2. ASSUME NEW t \in Threads, Proceed(t) PROVE Goal
    <3>1. CASE loc_sync_select_ind(t)
      <4>1. CASE s = select_id[t]
        BY <3>1, <4>1 DEF loc_sync_select_ind, FreeSlot
      <4>2. CASE s # select_id[t]
        BY <2>0, <3>1, <4>2 DEF loc_sync_select_ind
      <4> QED
        BY <4>1, <4>2
    <3>2. CASE SendAccepted(t)
      BY <2>0, <3>2 DEF SendAccepted
    <3>3. CASE SendRefused(t)
      BY <2>0, <3>3 DEF SendRefused, Retry
    <3>4. CASE CheckSelectId(t)
      BY <2>0, <3>4 DEF CheckSelectId, Retry
    <3>5. CASE loc_sync_wait_for_ind(t)
      <4>1. Ptr(s)' = Ptr(s)
        BY <3>5 DEF loc_sync_wait_for_ind, Slot
      <4> QED
        BY <2>0, <3>5, <4>1 DEF loc_sync_wait_for_ind
    <3>6. CASE WakeUnheard(t)
      BY <2>0, <3>6 DEF WakeUnheard
    <3>7. CASE EndWait(t)
      <4>1. Ptr(s)' = Ptr(s)
        BY <3>7 DEF EndWait, Slot
      <4> QED
        BY <2>0, <3>7, <4>1 DEF EndWait
    <3>8. CASE FreeAfterWait(t)
      <4>1. s # select_id[t] /\ Ptr(s)' = Ptr(s)
        BY <3>8, FreeClears DEF FreeAfterWait, FreeSlot
      <4> QED
        BY <2>0, <3>8, <4>1 DEF FreeAfterWait, Retry
    <3>9. CASE FreeAfterFailure(t)
      <4>1. s # select_id[t] /\ Ptr(s)' = Ptr(s)
        BY <3>9, FreeClears DEF FreeAfterFailure, FreeSlot
      <4> QED
        BY <2>0, <3>9, <4>1 DEF FreeAfterFailure
    <3>10. CASE Return(t)
      BY <2>0, <3>10 DEF Return
    <3> QED
      BY <2>2, <3>1, <3>2, <3>3, <3>4, <3>5, <3>6, <3>7, <3>8, <3>9, <3>10 DEF Proceed
  <2>3. ASSUME NEW t \in Threads, loc_sync_process_ind(t) PROVE Goal
    <3>1. Ptr(s)' = Ptr(s)
      <4>1. ASSUME NEW r \in Slots, Deliver(r, t) PROVE Ptr(s)' = Ptr(s)
        BY <4>1 DEF Deliver, Slot
      <4> QED
        BY <2>3, <4>1 DEF loc_sync_process_ind
    <3>2. \A u \in Threads : pc'[u] = pc[u] \/ pc'[u] = "woken"
      BY <2>3 DEF loc_sync_process_ind, Deliver, Signal
    <3> QED
      BY <2>0, <2>3, <3>1, <3>2 DEF loc_sync_process_ind
  <2>4. CASE UNCHANGED vars
    BY <2>0, <2>4 DEF vars
  <2> QED
    BY <2>1, <2>2, <2>3, <2>4 DEF Next
<1> QED
  BY <1>1, <1>2, TypeCorrect, PTL DEF Spec
-----------------------------------------------------------------------------
(* While every wait has heard: a thread in a call owns its slot, no wait   *)
(* has timed out or met another thread in its slot, and a slot is marked   *)
(* as waiting for a thread that waits in it.                               *)
OwnInv ==
  ~unheard =>
    /\ \A t \in Threads : Owns(t) => slot_in_use[select_id[t]]
    /\ \A t, u \in Threads : Owns(t) /\ Owns(u) /\ select_id[t] = select_id[u] => t = u
    /\ \A t \in Threads : pc[t] # "expired" /\ (pc[t] = "freeing" => status[t] = "SUCCESS")
    /\ \A s \in Slots : slots[s].ind_is_waiting =>
         \E u \in Threads : pc[u] \in {"waiting", "woken"} /\ select_id[u] = s

(* At every place of its call a thread owns the slot it has selected, and  *)
(* the slot's flags say whether it is waiting in it.                       *)
THEOREM OwnershipInvariant == Spec => []OwnInv
<1>1. Init => OwnInv
  BY DEF Init, OwnInv, Owns, FreeSlot
<1>2. TypeOK /\ OwnInv /\ [Next]_vars => OwnInv'
  <2> SUFFICES ASSUME TypeOK, OwnInv, [Next]_vars, ~unheard' PROVE OwnInv'
    BY DEF OwnInv
  <2>0. ~unheard
    BY DEF Next, Call, Proceed, loc_alloc_slot, BufferFull, loc_sync_select_ind, SendAccepted,
           SendRefused, CheckSelectId, loc_sync_wait_for_ind, WakeUnheard, EndWait,
           FreeAfterWait, FreeAfterFailure, Return, loc_sync_process_ind, vars
  <2> USE <2>0 DEF Goto, arrayVars, callVars, TypeOK, OwnInv, Owns
  <2>1. ASSUME NEW t \in Threads, Call(t) PROVE OwnInv'
    <3>1. CASE loc_alloc_slot(t)
      BY <3>1 DEF loc_alloc_slot, First, Unused
    <3>2. CASE BufferFull(t)
      BY <3>2 DEF BufferFull
    <3> QED
      BY <2>1, <3>1, <3>2 DEF Call
  <2>2. ASSUME NEW t \in Threads, Proceed(t) PROVE OwnInv'
    <3>1. CASE loc_sync_select_ind(t)
      <4>1. \A s \in Slots : slots'[s].ind_is_waiting =>
              slots[s].ind_is_waiting /\ s # select_id[t]
        BY <3>1 DEF loc_sync_select_ind, FreeSlot
      <4> QED
        BY <3>1, <4>1 DEF loc_sync_select_ind
    <3>2. CASE SendAccepted(t)
      BY <3>2 DEF SendAccepted
    <3>3. CASE SendRefused(t)
      BY <3>3 DEF SendRefused, Retry
    <3>4. CASE CheckSelectId(t)
      BY <3>4 DEF CheckSelectId
    <3>5. CASE loc_sync_wait_for_ind(t)
      <4>1. ~slots[select_id[t]].ind_is_waiting
        BY <3>5 DEF loc_sync_wait_for_ind
      <4>2. \A s \in Slots : slots'[s].ind_is_waiting =>
              slots[s].ind_is_waiting \/ (s = select_id[t] /\ pc'[t] = "waiting")
        BY <3>5 DEF loc_sync_wait_for_ind, Slot
      <4> QED
        BY <3>5, <4>1, <4>2 DEF loc_sync_wait_for_ind
    <3>6. CASE WakeUnheard(t)
      BY <3>6 DEF WakeUnheard
    <3>7. CASE EndWait(t)
      <4>1. \A s \in Slots : slots'[s].ind_is_waiting =>
              slots[s].ind_is_waiting /\ s # select_id[t]
        BY <3>7 DEF EndWait, Slot
      <4> QED
        BY <3>7, <4>1 DEF EndWait
    <3>8. CASE FreeAfterWait(t)
      <4>1. \A s \in Slots : slots'[s].ind_is_waiting =>
              slots[s].ind_is_waiting /\ s # select_id[t]
        BY <3>8, FreeClears DEF FreeAfterWait, FreeSlot
      <4>2. /\ slot_in_use' = [slot_in_use EXCEPT ![select_id[t]] = FALSE]
            /\ pc' = [pc EXCEPT ![t] = "returning"]
            /\ UNCHANGED <<status, select_id, unheard>>
        BY <3>8 DEF FreeAfterWait, loc_free_slot
      <4>3. pc[t] = "freeing"
        BY <3>8 DEF FreeAfterWait
      <4> QED
        BY <4>1, <4>2, <4>3
    <3>9. CASE FreeAfterFailure(t)
      <4>1. \A s \in Slots : slots'[s].ind_is_waiting =>
              slots[s].ind_is_waiting /\ s # select_id[t]
        BY <3>9, FreeClears DEF FreeAfterFailure, FreeSlot
      <4>2. /\ slot_in_use' = [slot_in_use EXCEPT ![select_id[t]] = FALSE]
            /\ pc' = [pc EXCEPT ![t] = "returning"]
            /\ pc[t] = "releasing"
            /\ UNCHANGED <<status, select_id, unheard>>
        BY <3>9 DEF FreeAfterFailure, loc_free_slot
      <4> QED
        BY <4>1, <4>2
    <3>10. CASE Return(t)
      BY <3>10 DEF Return
    <3> QED
      BY <2>2, <3>1, <3>2, <3>3, <3>4, <3>5, <3>6, <3>7, <3>8, <3>9, <3>10 DEF Proceed
  <2>3. ASSUME NEW t \in Threads, loc_sync_process_ind(t) PROVE OwnInv'
    <3>1. \A s \in Slots : slots'[s].ind_is_waiting = slots[s].ind_is_waiting
      <4>1. ASSUME NEW r \in Slots, Deliver(r, t), NEW s \in Slots
            PROVE  slots'[s].ind_is_waiting = slots[s].ind_is_waiting
        <5>1. slots' = slots \/ slots' = [slots EXCEPT ![r].ind_has_arrived = TRUE]
          BY <4>1 DEF Deliver
        <5>2. slots \in [Slots -> Slot]
          BY DEF TypeOK
        <5> QED
          BY <4>1, <5>1, <5>2 DEF Slot
      <4> QED
        BY <2>3, <4>1 DEF loc_sync_process_ind
    <3>2. \A u \in Threads : pc'[u] = pc[u] \/ (pc[u] = "waiting" /\ pc'[u] = "woken")
      <4>1. ASSUME NEW r \in Slots, Deliver(r, t), NEW u \in Threads
            PROVE  pc'[u] = pc[u] \/ (pc[u] = "waiting" /\ pc'[u] = "woken")
        BY <4>1 DEF Deliver, Signal
      <4> QED
        BY <2>3, <4>1 DEF loc_sync_process_ind
    <3>3. UNCHANGED <<slot_in_use, select_id, status, unheard>>
      BY <2>3 DEF loc_sync_process_ind
    <3> QED
      BY <3>1, <3>2, <3>3
  <2>4. CASE UNCHANGED vars
    BY <2>4 DEF vars
  <2> QED
    BY <2>1, <2>2, <2>3, <2>4 DEF Next
<1> QED
  BY <1>1, <1>2, TypeCorrect, PTL DEF Spec

(* As long as no wait has ended without its indication, no thread frees    *)
(* the slot of another, and none waits in a slot it does not own.          *)
THEOREM SlotsOwned == Spec => []SlotsAreOwned
<1>1. OwnInv => SlotsAreOwned
  BY DEF OwnInv, SlotsAreOwned
<1> QED
  BY <1>1, OwnershipInvariant, PTL
-----------------------------------------------------------------------------
(* Where the answer to the request of thread t is: still to come, waiting  *)
(* in the slot, or in the buffer.  The slot is for t's indication.         *)
ForCaller(t) ==
  /\ slots[select_id[t]].recv_ind_id = IndOf[t]
  /\ slots[select_id[t]].recv_ind_payload_ptr = t

Arrived(t) == slots[select_id[t]].ind_has_arrived

HearsOf(t) ==
  /\ pc[t] \in {"idle", "selecting", "returning"} => answers[t] = 0
  /\ pc[t] \in {"sending", "releasing"} => answers[t] = 0 /\ ForCaller(t) /\ ~Arrived(t)
  /\ pc[t] \in {"checking", "locking"} =>
       /\ ForCaller(t)
       /\ \/ answers[t] = 1 /\ ~Arrived(t)
          \/ answers[t] = 0 /\ Arrived(t) /\ payload[t] = t
  /\ pc[t] = "waiting" =>
       answers[t] = 1 /\ ForCaller(t) /\ ~Arrived(t) /\ slots[select_id[t]].ind_is_waiting
  /\ pc[t] \in {"woken", "freeing"} => answers[t] = 0 /\ ForCaller(t) /\ payload[t] = t

HearInv == DistinctInds /\ ~unheard => \A t \in Threads : HearsOf(t)

(* A slot is for an indication only together with the buffer of a thread   *)
(* that waits for it.                                                      *)
FilledInv ==
  \A s \in Slots : slots[s].recv_ind_id # NoInd =>
    Ptr(s) \in Threads /\ slots[s].recv_ind_id = IndOf[Ptr(s)]

(* What a step may do to a slot: free it, fill it, or change its flags.    *)
LEMMA SlotSteps ==
  ASSUME TypeOK, [Next]_vars, NEW s \in Slots
  PROVE  \/ slots'[s] = FreeSlot
         \/ \E t \in Threads : slots'[s] =
              [FreeSlot EXCEPT !.recv_ind_id = IndOf[t], !.recv_ind_payload_ptr = t]
         \/ /\ slots'[s].recv_ind_id = slots[s].recv_ind_id
            /\ slots'[s].recv_ind_payload_ptr = slots[s].recv_ind_payload_ptr
<1> DEFINE Same == /\ slots'[s].recv_ind_id = slots[s].recv_ind_id
                   /\ slots'[s].recv_ind_payload_ptr = slots[s].recv_ind_payload_ptr
<1> USE DEF TypeOK, arrayVars
<1>1. ASSUME NEW t \in Threads, loc_sync_select_ind(t)
      PROVE  Same \/ slots'[s] =
               [FreeSlot EXCEPT !.recv_ind_id = IndOf[t], !.recv_ind_payload_ptr = t]
  BY <1>1 DEF loc_sync_select_ind
<1>2. ASSUME NEW t \in Threads, loc_sync_wait_for_ind(t) PROVE Same
  BY <1>2 DEF loc_sync_wait_for_ind, Slot
<1>3. ASSUME NEW t \in Threads, EndWait(t) PROVE Same
  BY <1>3 DEF EndWait, Slot
<1>4. ASSUME NEW t \in Threads, FreeAfterWait(t) \/ FreeAfterFailure(t)
      PROVE  Same \/ slots'[s] = FreeSlot
  BY <1>4, FreeClears DEF FreeAfterWait, FreeAfterFailure
<1>5. ASSUME NEW t \in Threads, loc_sync_process_ind(t) PROVE Same
  <2>1. ASSUME NEW r \in Slots, Deliver(r, t) PROVE Same
    BY <2>1 DEF Deliver, Slot
  <2> QED
    BY <1>5, <2>1 DEF loc_sync_process_ind
<1>6. ASSUME NEW t \in Threads,
             \/ Call(t) \/ SendAccepted(t) \/ SendRefused(t) \/ CheckSelectId(t)
             \/ WakeUnheard(t) \/ Return(t)
      PROVE  Same
  BY <1>6 DEF Call, loc_alloc_slot, BufferFull, SendAccepted, SendRefused, CheckSelectId,
              WakeUnheard, Return
<1>7. CASE UNCHANGED vars
  BY <1>7 DEF vars
<1> QED
  BY <1>1, <1>2, <1>3, <1>4, <1>5, <1>6, <1>7 DEF Next, Proceed

\* A slot that expects an indication expects that of the thread that filled it.
LEMMA Filled == Spec => []FilledInv
<1>1. Init => FilledInv
  BY DEF Init, FilledInv, FreeSlot
<1>2. TypeOK /\ FilledInv /\ [Next]_vars => FilledInv'
  <2> SUFFICES ASSUME TypeOK, FilledInv, [Next]_vars, NEW s \in Slots,
                      slots'[s].recv_ind_id # NoInd
               PROVE  Ptr(s)' \in Threads /\ slots'[s].recv_ind_id = IndOf[Ptr(s)']
    BY DEF FilledInv, Ptr
  <2>1. slots'[s] # FreeSlot
    BY DEF FreeSlot
  <2>2. ASSUME NEW t \in Threads, slots'[s] =
                 [FreeSlot EXCEPT !.recv_ind_id = IndOf[t], !.recv_ind_payload_ptr = t]
        PROVE  Ptr(s)' \in Threads /\ slots'[s].recv_ind_id = IndOf[Ptr(s)']
    BY <2>2 DEF FreeSlot, Ptr
  <2>3. CASE /\ slots'[s].recv_ind_id = slots[s].recv_ind_id
             /\ slots'[s].recv_ind_payload_ptr = slots[s].recv_ind_payload_ptr
    BY <2>3 DEF FilledInv, Ptr
  <2> QED
    BY <2>1, <2>2, <2>3, SlotSteps
<1> QED
  BY <1>1, <1>2, TypeCorrect, PTL DEF Spec

(* What another thread hears does not depend on t's slot.                  *)
LEMMA OthersHear ==
  ASSUME TypeOK, OwnInv, ~unheard,
         NEW t \in Threads, Owns(t),
         NEW u \in Threads, u # t, HearsOf(u),
         \A s \in Slots : s # select_id[t] => slots'[s] = slots[s],
         pc'[u] = pc[u], select_id'[u] = select_id[u],
         payload'[u] = payload[u], answers'[u] = answers[u]
  PROVE  HearsOf(u)'
<1>1. CASE ~Owns(u)
  BY <1>1 DEF Owns, HearsOf
<1>2. CASE Owns(u)
  <2>1. select_id[u] \in Slots /\ select_id[u] # select_id[t]
    BY <1>2 DEF OwnInv, TypeOK
  <2>2. slots'[select_id'[u]] = slots[select_id[u]]
    BY <2>1
  <2> QED
    BY <2>2 DEF HearsOf, ForCaller, Arrived
<1> QED
  BY <1>1, <1>2

(* The steps of thread t itself.                                           *)
LEMMA ProceedHears ==
  ASSUME TypeOK, OwnInv, HearInv, DistinctInds, ~unheard', NEW t \in Threads, Proceed(t)
  PROVE  \A u \in Threads : HearsOf(u)'
<1>0. ~unheard /\ (\A u \in Threads : HearsOf(u)) /\ select_id[t] \in Slots
  BY DEF HearInv, TypeOK, Proceed, loc_sync_select_ind, SendAccepted, SendRefused,
         CheckSelectId, loc_sync_wait_for_ind, WakeUnheard, EndWait, FreeAfterWait,
         FreeAfterFailure, Return
<1>1. ASSUME NEW u \in Threads, u # t, ~Return(t) PROVE HearsOf(u)'
  <2>1. Owns(t)
    BY <1>1 DEF Owns, Proceed, loc_sync_select_ind, SendAccepted, SendRefused,
         CheckSelectId, loc_sync_wait_for_ind, WakeUnheard, EndWait, FreeAfterWait,
         FreeAfterFailure
  <2>2. /\ pc'[u] = pc[u] /\ select_id'[u] = select_id[u]
        /\ payload'[u] = payload[u] /\ answers'[u] = answers[u]
    BY <1>1 DEF Proceed, loc_sync_select_ind, SendAccepted, SendRefused, TypeOK, callVars,
         CheckSelectId, loc_sync_wait_for_ind, WakeUnheard, EndWait, FreeAfterWait,
         FreeAfterFailure, Goto, Retry
  <2>3. ASSUME NEW s \in Slots, s # select_id[t] PROVE slots'[s] = slots[s]
    <3> USE <2>3 DEF TypeOK, arrayVars
    <3>1. CASE loc_sync_select_ind(t) \/ loc_sync_wait_for_ind(t) \/ EndWait(t)
      BY <3>1 DEF loc_sync_select_ind, loc_sync_wait_for_ind, EndWait
    <3>2. CASE FreeAfterWait(t) \/ FreeAfterFailure(t)
      BY <3>2, FreeClears DEF FreeAfterWait, FreeAfterFailure
    <3> QED
      BY <1>1, <3>1, <3>2 DEF Proceed, SendAccepted, SendRefused, CheckSelectId, WakeUnheard
  <2> QED
    BY <1>0, <1>1, <2>1, <2>2, <2>3, OthersHear
<1>2. CASE Return(t)
  <2>1. ASSUME NEW u \in Threads PROVE HearsOf(u)'
    <3>1. CASE u = t
      BY <1>0, <1>2, <3>1 DEF Return, HearsOf, Goto, TypeOK
    <3>2. CASE u # t
      BY <1>0, <1>2, <3>2 DEF Return, HearsOf, Goto, TypeOK, arrayVars, ForCaller, Arrived
    <3> QED
      BY <3>1, <3>2
  <2> QED
    BY <2>1
<1>3. ASSUME ~Return(t) PROVE HearsOf(t)'
  <2> USE <1>0 DEF HearsOf, Goto, TypeOK, arrayVars, callVars
  <2>1. CASE loc_sync_select_ind(t)
    <3>1. slots'[select_id[t]] =
            [FreeSlot EXCEPT !.recv_ind_id = IndOf[t], !.recv_ind_payload_ptr = t]
      BY <2>1 DEF loc_sync_select_ind
    <3>2. ForCaller(t)' /\ ~Arrived(t)'
      BY <2>1, <3>1 DEF loc_sync_select_ind, FreeSlot, ForCaller, Arrived
    <3> QED
      BY <2>1, <3>2 DEF loc_sync_select_ind
  <2>2. CASE SendAccepted(t)
    <3>1. answers'[t] = 1 /\ pc'[t] = "checking" /\ ForCaller(t) /\ ~Arrived(t)
      BY <2>2 DEF SendAccepted
    <3> QED
      BY <2>2, <3>1 DEF SendAccepted, ForCaller, Arrived
  <2>3. CASE SendRefused(t)
    BY <2>3 DEF SendRefused, Retry, ForCaller, Arrived
  <2>4. CASE CheckSelectId(t)
    BY <2>4 DEF CheckSelectId, OwnInv, Owns, ForCaller, Arrived
  <2>5. CASE loc_sync_wait_for_ind(t)
    <3>1. pc[t] = "locking" /\ ForCaller(t)
      BY <2>5 DEF loc_sync_wait_for_ind
    <3>2. CASE Arrived(t)
      <4>1. answers[t] = 0 /\ payload[t] = t
        BY <3>1, <3>2
      <4> QED
        BY <2>5, <3>1, <3>2, <4>1 DEF loc_sync_wait_for_ind, ForCaller, Arrived
    <3>3. CASE ~Arrived(t)
      <4>1. ~slots[select_id[t]].ind_is_waiting
        BY <3>1 DEF OwnInv, Owns
      <4>2. /\ slots' = [slots EXCEPT ![select_id[t]].ind_is_waiting = TRUE]
            /\ pc' = [pc EXCEPT ![t] = "waiting"]
            /\ UNCHANGED <<select_id, answers>>
        BY <2>5, <3>3, <4>1 DEF loc_sync_wait_for_ind, Arrived
      <4>3. ForCaller(t)' /\ ~Arrived(t)' /\ slots'[select_id'[t]].ind_is_waiting
        BY <3>1, <3>3, <4>2 DEF ForCaller, Arrived, Slot
      <4> QED
        BY <3>1, <3>3, <4>2, <4>3
    <3> QED
      BY <3>2, <3>3
  <2>6. CASE WakeUnheard(t)
    BY <2>6 DEF WakeUnheard
  <2>7. CASE EndWait(t)
    <3>1. pc[t] = "woken" /\ ForCaller(t) /\ answers[t] = 0 /\ payload[t] = t
      BY <2>7 DEF EndWait, OwnInv
    <3>2. ForCaller(t)'
      BY <2>7, <3>1 DEF EndWait, ForCaller, Slot
    <3> QED
      BY <2>7, <3>1, <3>2 DEF EndWait
  <2>8. CASE FreeAfterWait(t)
    BY <2>8 DEF FreeAfterWait, OwnInv
  <2>9. CASE FreeAfterFailure(t)
    BY <2>9 DEF FreeAfterFailure
  <2> QED
    BY <1>3, <2>1, <2>2, <2>3, <2>4, <2>5, <2>6, <2>7, <2>8, <2>9 DEF Proceed
<1> QED
  BY <1>1, <1>2, <1>3

(* With distinct indications, the indication for t finds t's slot and no   *)
(* other.                                                                  *)
LEMMA FindsOwnSlot ==
  ASSUME TypeOK, OwnInv, BufferIsLive, FilledInv, HearInv, DistinctInds, ~unheard,
         NEW t \in Threads, answers[t] > 0
  PROVE  {s \in Slots : Wants(s, IndOf[t])} = {select_id[t]}
<1>0. HearsOf(t) /\ select_id[t] \in Slots /\ pc[t] \in Places
  BY DEF HearInv, TypeOK
<1>1. pc[t] \in {"checking", "locking", "waiting"} /\ ForCaller(t) /\ ~Arrived(t)
  BY <1>0 DEF HearsOf, Places, InWait, OwnInv
<1>2. Wants(select_id[t], IndOf[t])
  BY <1>0, <1>1 DEF Wants, OwnInv, Owns, ForCaller, Arrived
<1>3. ASSUME NEW s \in Slots, Wants(s, IndOf[t]) PROVE s = select_id[t]
  <2>1. Ptr(s) \in Threads /\ IndOf[Ptr(s)] = IndOf[t]
    BY <1>3 DEF Wants, FilledInv
  <2>2. Ptr(s) = t
    BY <2>1 DEF DistinctInds
  <2> QED
    BY <2>1, <2>2 DEF BufferIsLive, Ptr
<1> QED
  BY <1>0, <1>2, <1>3

\* Delivering an indication loses no waiting thread's indication.
LEMMA IndicationHears ==
  ASSUME TypeOK, InUseIsExact, OwnInv, BufferIsLive, FilledInv, HearInv, DistinctInds,
         ~unheard, NEW t \in Threads, loc_sync_process_ind(t)
  PROVE  \A u \in Threads : HearsOf(u)'
<1> DEFINE s == select_id[t]
<1>0. HearsOf(t) /\ s \in Slots /\ pc[t] \in Places /\ answers[t] > 0
  BY DEF HearInv, TypeOK, loc_sync_process_ind
<1>1. answers[t] = 1 /\ pc[t] \in {"checking", "locking", "waiting"} /\ ForCaller(t) /\ ~Arrived(t)
  BY <1>0 DEF HearsOf, Places, InWait, OwnInv
<1>2. {r \in Slots : Wants(r, IndOf[t])} = {s}
  BY <1>0, FindsOwnSlot
<1>3. in_use /\ Owns(t) /\ Wants(s, IndOf[t])
  BY <1>0, <1>1, <1>2 DEF InUseIsExact, Wants, Owns
<1>4. Deliver(s, t)
  BY <1>2, <1>3 DEF loc_sync_process_ind, First
<1>5. /\ answers' = [answers EXCEPT ![t] = 0]
      /\ select_id' = select_id
  BY <1>1 DEF loc_sync_process_ind, callVars
<1>6. payload' = [payload EXCEPT ![t] = t]
  BY <1>1, <1>4 DEF Deliver, ForCaller
<1>7. \A r \in Slots : r # s => slots'[r] = slots[r]
  BY <1>0, <1>4 DEF Deliver, TypeOK
<1>8. \A u \in Threads : pc[u] = "waiting" /\ select_id[u] = s => u = t
  BY <1>3 DEF OwnInv, Owns
<1>9. CASE slots[s].ind_is_waiting
  <2>1. PICK w \in Threads : pc[w] \in {"waiting", "woken"} /\ select_id[w] = s
    BY <1>0, <1>9 DEF OwnInv
  <2>2. w = t
    BY <1>3, <2>1 DEF OwnInv, Owns
  <2>3. pc[t] = "waiting"
    BY <1>1, <2>1, <2>2
  <2>4. pc' = [pc EXCEPT ![t] = "woken"] /\ slots' = slots
    BY <1>4, <1>8, <1>9, <2>3 DEF Deliver, Signal, Goto
  <2>5. HearsOf(t)'
    BY <1>1, <1>5, <1>6, <2>4 DEF HearsOf, ForCaller, TypeOK
  <2>6. ASSUME NEW u \in Threads, u # t PROVE HearsOf(u)'
    BY <1>3, <1>5, <1>6, <1>7, <2>4, <2>6, OthersHear DEF HearInv, TypeOK
  <2> QED
    BY <2>5, <2>6
<1>10. CASE ~slots[s].ind_is_waiting
  <2>1. pc[t] \in {"checking", "locking"}
    BY <1>0, <1>1, <1>10 DEF HearsOf
  <2>2. pc' = pc /\ slots' = [slots EXCEPT ![s].ind_has_arrived = TRUE]
    BY <1>4, <1>10 DEF Deliver
  <2>3. ForCaller(t)' /\ Arrived(t)'
    BY <1>0, <1>1, <1>5, <2>2 DEF ForCaller, Arrived, TypeOK, Slot
  <2>4. HearsOf(t)'
    BY <1>5, <1>6, <2>1, <2>2, <2>3 DEF HearsOf, TypeOK
  <2>5. ASSUME NEW u \in Threads, u # t PROVE HearsOf(u)'
    BY <1>3, <1>5, <1>6, <1>7, <2>2, <2>5, OthersHear DEF HearInv, TypeOK
  <2> QED
    BY <2>4, <2>5
<1> QED
  BY <1>9, <1>10

(* Every answer is where its thread will look for it.                      *)
THEOREM HearingInvariant == Spec => []HearInv
<1>1. Init => HearInv
  BY DEF Init, HearInv, HearsOf
<1>2. /\ TypeOK /\ InUseIsExact /\ BufferIsLive /\ FilledInv /\ OwnInv /\ HearInv
      /\ [Next]_vars
      => HearInv'
  <2> SUFFICES ASSUME TypeOK, InUseIsExact, BufferIsLive, FilledInv, OwnInv, HearInv,
                      [Next]_vars, DistinctInds, ~unheard'
               PROVE  \A u \in Threads : HearsOf(u)'
    BY DEF HearInv, DistinctInds
  <2>1. ASSUME NEW t \in Threads, Call(t) PROVE \A u \in Threads : HearsOf(u)'
    <3>1. ~unheard /\ \A u \in Threads : HearsOf(u)
      BY <2>1 DEF HearInv, Call, loc_alloc_slot, BufferFull
    <3>2. ASSUME NEW u \in Threads, u # t PROVE HearsOf(u)'
      BY <2>1, <3>1, <3>2 DEF Call, loc_alloc_slot, BufferFull, Goto, TypeOK, HearsOf,
                              ForCaller, Arrived, arrayVars, callVars
    <3>3. HearsOf(t)'
      BY <2>1, <3>1 DEF Call, loc_alloc_slot, BufferFull, Goto, TypeOK, HearsOf
    <3> QED
      BY <3>2, <3>3
  <2>2. ASSUME NEW t \in Threads, Proceed(t) PROVE \A u \in Threads : HearsOf(u)'
    BY <2>2, ProceedHears
  <2>3. ASSUME NEW t \in Threads, loc_sync_process_ind(t)
        PROVE  \A u \in Threads : HearsOf(u)'
    <3>1. ~unheard
      BY <2>3 DEF loc_sync_process_ind
    <3> QED
      BY <2>3, <3>1, IndicationHears
  <2>4. CASE UNCHANGED vars
    BY <2>4 DEF vars, HearInv, HearsOf, ForCaller, Arrived, arrayVars, callVars
  <2> QED
    BY <2>1, <2>2, <2>3, <2>4 DEF Next
<1> QED
  BY <1>1, <1>2, TypeCorrect, InUseCorrect, BufferCorrect, Filled, OwnershipInvariant, PTL DEF Spec

(* No answer is lost before its thread waits, and none is given away.      *)
THEOREM WaitersHear == Spec => []WaiterWillHear
<1>1. HearInv => WaiterWillHear
  BY DEF HearInv, HearsOf, WaiterWillHear
<1> QED
  BY <1>1, HearingInvariant, PTL

(* A wait that has heard its indication ends in success, with the answer   *)
(* to the thread's own request in its buffer.                              *)
THEOREM SuccessAnswered == Spec => []SuccessIsAnswered
<1>1. HearInv /\ OwnInv => SuccessIsAnswered
  BY DEF HearInv, HearsOf, OwnInv, SuccessIsAnswered
<1> QED
  BY <1>1, HearingInvariant, OwnershipInvariant, PTL

-----------------------------------------------------------------------------
(* The message thread.                                                     *)

USE MsgAssumption DEF MsgAssumption

(* The places where a holder has dropped its reference.                    *)
Dropped == {"deleteDelegate", "gone"}

(* The references that are left.                                           *)
Holders == (IF thread \in Dropped THEN 0 ELSE 1) + (IF owner \in Dropped THEN 0 ELSE 1)

(* The thread has left threadMain's loop and the deletion of the task.     *)
Leaving == {"check", "drop", "deleteDelegate", "gone"}

(* The thread has not yet cleared mRunnable by itself.                     *)
Running == {"start", "loop", "receive", "wait", "proc"}

-----------------------------------------------------------------------------
(* Types.                                                                  *)

(* What leaves the queue leaves a queue.                                   *)
LEMMA RemoveTypes ==
  ASSUME MsgTypeOK, linked_list_remove
  PROVE  /\ mQ' \in Seq(Msgs)
         /\ msg' \in Msgs \cup {NoMsg}
         /\ thread' \in {"proc", "clear"}
        /\ IF thread' = "proc" THEN msg' \in Msgs ELSE msg' = msg
<1>1. CASE mQ # <<>> /\ thread' = "proc" /\ msg' = Head(mQ) /\ mQ' = Tail(mQ)
  BY <1>1, HeadTailProperties DEF MsgTypeOK
<1>2. CASE mQ = <<>> /\ thread' = "clear" /\ UNCHANGED <<msg, mQ>>
  BY <1>2 DEF MsgTypeOK
<1> QED
  BY <1>1, <1>2 DEF linked_list_remove

(* A reference that is dropped is one that is there.                       *)
LEMMA DestroyTypes ==
  ASSUME MsgTypeOK, NEW at, NEW at2, Destroy(at, at2), at = "drop" => mRefCount > 0
  PROVE  /\ mRefCount' \in 0 .. 2 /\ delegate' \in BOOLEAN
         /\ at2 \in {"drop", "deleteDelegate", "gone"}
<1>1. CASE at = "check"
  BY <1>1 DEF MsgTypeOK, Destroy
<1>2. CASE at = "drop"
  BY <1>2 DEF MsgTypeOK, Destroy
<1>3. CASE at = "deleteDelegate"
  BY <1>3 DEF MsgTypeOK, Destroy
<1> QED
  BY <1>1, <1>2, <1>3 DEF Destroy

(* How the references and the places of the two threads go together; what  *)
(* the places say of mRunnable, mJoinable and the task.                    *)
LifeInv ==
  /\ started => /\ mRefCount = Holders
                /\ delegate <=> ~(thread = "gone" /\ owner = "gone")
                /\ thread = "deleteDelegate" => owner = "gone"
                /\ owner = "deleteDelegate" => thread = "gone"
  /\ ~started => /\ thread = "gone" /\ owner \in {"using", "unblocked", "gone"}
                 /\ ~joins
                 /\ task <=> owner # "gone"
  /\ mJoinable <=> joins /\ owner \in {"using", "unblocked", "bye", "stop"}
  /\ owner \in {"stop", "join"} => joins
  /\ joins /\ owner \in Leaving => thread = "gone"
  /\ started /\ thread \in Running /\ ~mRunnable => joins
  /\ thread = "start" => processed = <<>>
  /\ thread = "proc" <=> msg # NoMsg
  /\ ~task => thread \in Leaving
  /\ started /\ task /\ thread \in Leaving => joins /\ processed = <<>>

-----------------------------------------------------------------------------
(* Types and life are established and preserved together: the type of the  *)
(* count rests on where the holders are.                                   *)

(* The constructor, with a thread and without.                             *)
LEMMA LifeInit == MsgInit => MsgTypeOK /\ LifeInv
<1> SUFFICES ASSUME MsgInit PROVE MsgTypeOK /\ LifeInv
  OBVIOUS
<1>1. MsgTypeOK
  <2>1. <<>> \in Seq(Msgs)
    OBVIOUS
  <2>2. {started, task, delegate, mRunnable, mJoinable, unblocked, woken, joins} \subseteq BOOLEAN
    <3>1. mJoinable \in BOOLEAN
      BY DEF MsgInit
    <3> QED
      BY <3>1 DEF MsgInit
  <2>3. mRefCount \in 0 .. 2 /\ thread \in ThreadAt /\ owner \in OwnerAt
    BY DEF MsgInit, ThreadAt, OwnerAt
  <2> QED
    BY <2>1, <2>2, <2>3 DEF MsgInit, MsgTypeOK
<1>2. CASE started
  <2>1. LifeInv
    BY <1>2 DEF MsgInit, LifeInv, Holders, Dropped, Leaving, Running
  <2> QED
    BY <1>1, <2>1
<1>3. CASE ~started
  <2>1. LifeInv
    BY <1>3 DEF MsgInit, LifeInv, Holders, Dropped, Leaving, Running
  <2> QED
    BY <1>1, <2>1
<1> QED
  BY <1>2, <1>3

(* The thread's steps.                                                     *)
LEMMA ThreadLife ==
  ASSUME MsgTypeOK, LifeInv, Thread
  PROVE  MsgTypeOK' /\ LifeInv'
<1>0. UNCHANGED <<started, mJoinable, unblocked, owner, accepted, refused, joins>>
  BY DEF Thread, ThreadOnly, Start, Loop, Receive, WakeUp, Proc, Clear, Delete, ThreadDestroys
<1>r. thread \in {"loop", "receive", "wait", "proc", "clear", "delete", "start"} => started
  BY DEF LifeInv
<1> USE <1>0, <1>r
<1>1. CASE Start
  <2>1. MsgTypeOK'
    BY <1>1 DEF Start, MsgTypeOK, ThreadAt
  <2>2. LifeInv'
    BY <1>1 DEF Start, LifeInv, Holders, Dropped, Leaving, Running
  <2> QED
    BY <2>1, <2>2
<1>2. CASE Loop
  <2>1. MsgTypeOK'
    BY <1>2 DEF Loop, MsgTypeOK, ThreadAt
  <2>2. LifeInv'
    BY <1>2 DEF Loop, LifeInv, Holders, Dropped, Leaving, Running
  <2> QED
    BY <2>1, <2>2
<1>3. CASE Receive
  <2>1. /\ mQ' \in Seq(Msgs) /\ msg' \in Msgs \cup {NoMsg}
        /\ thread' \in {"proc", "clear", "wait"}
        /\ IF thread' = "proc" THEN msg' \in Msgs ELSE msg' = msg
    BY <1>3, RemoveTypes DEF Receive, MsgTypeOK
  <2>2. MsgTypeOK'
    BY <1>3, <2>1 DEF Receive, MsgTypeOK, ThreadAt
  <2>3. LifeInv'
    BY <1>3, <2>1 DEF Receive, LifeInv, Holders, Dropped, Leaving, Running
  <2> QED
    BY <2>2, <2>3
<1>4. CASE WakeUp
  <2>1. /\ mQ' \in Seq(Msgs) /\ msg' \in Msgs \cup {NoMsg}
        /\ thread' \in {"proc", "clear"}
        /\ IF thread' = "proc" THEN msg' \in Msgs ELSE msg' = msg
    BY <1>4, RemoveTypes DEF WakeUp
  <2>2. MsgTypeOK'
    BY <1>4, <2>1 DEF WakeUp, MsgTypeOK, ThreadAt
  <2>3. LifeInv'
    BY <1>4, <2>1 DEF WakeUp, LifeInv, Holders, Dropped, Leaving, Running
  <2> QED
    BY <2>2, <2>3
<1>5. CASE Proc
  <2>1. msg \in Msgs
    BY <1>5 DEF Proc, LifeInv, MsgTypeOK
  <2>2. processed' \in Seq(Msgs)
    BY <1>5, <2>1, AppendProperties DEF Proc, MsgTypeOK
  <2>3. MsgTypeOK'
    BY <1>5, <2>2 DEF Proc, MsgTypeOK, ThreadAt
  <2>4. LifeInv'
    BY <1>5 DEF Proc, LifeInv, Holders, Dropped, Leaving, Running
  <2> QED
    BY <2>3, <2>4
<1>6. CASE Clear
  <2>1. MsgTypeOK'
    BY <1>6 DEF Clear, MsgTypeOK, ThreadAt
  <2>2. LifeInv'
    BY <1>6 DEF Clear, LifeInv, Holders, Dropped, Leaving, Running
  <2> QED
    BY <2>1, <2>2
<1>7. CASE Delete
  <2>1. freed' \subseteq Msgs /\ mQ' \in Seq(Msgs)
    <3>1. Range(mQ) \subseteq Msgs
      BY RangeOfSeq DEF MsgTypeOK
    <3>2. mQ' = <<>> /\ freed' = freed \cup Range(mQ)
      BY <1>7 DEF Delete, DeleteTask
    <3> QED
      BY <3>1, <3>2 DEF MsgTypeOK
  <2>2. MsgTypeOK'
    BY <1>7, <2>1 DEF Delete, DeleteTask, MsgTypeOK, ThreadAt
  <2>3. LifeInv'
    BY <1>7 DEF Delete, DeleteTask, LifeInv, Holders, Dropped, Leaving, Running
  <2> QED
    BY <2>2, <2>3
<1>8. CASE ThreadDestroys
  <2>1. thread \in {"check", "drop", "deleteDelegate"} => started
    BY DEF LifeInv
  <2>2. thread = "drop" => mRefCount > 0
    BY <2>1 DEF LifeInv, Holders, Dropped
  <2>3. /\ mRefCount' \in 0 .. 2 /\ delegate' \in BOOLEAN
        /\ thread' \in {"drop", "deleteDelegate", "gone"}
    BY <1>8, <2>2, DestroyTypes DEF ThreadDestroys
  <2>4. MsgTypeOK'
    BY <1>8, <2>3 DEF ThreadDestroys, MsgTypeOK, ThreadAt
  <2>5. LifeInv'
    BY <1>8, <2>1, <2>3 DEF ThreadDestroys, Destroy, LifeInv, Holders, Dropped, Leaving, Running, MsgTypeOK, OwnerAt
  <2> QED
    BY <2>4, <2>5
<1> QED
  BY <1>1, <1>2, <1>3, <1>4, <1>5, <1>6, <1>7, <1>8 DEF Thread

(* The owner's steps.                                                      *)
LEMMA OwnerLife ==
  ASSUME MsgTypeOK, LifeInv, destroy \/ OwnerEnds
  PROVE  MsgTypeOK' /\ LifeInv'
<1>0. UNCHANGED <<started, thread, msg, accepted, processed, refused, joins>>
  BY DEF OwnerEnds, OwnerOnly, destroy, DeleteThread, bye, stop, Join, OwnerDestroys
<1>r. owner \in {"bye", "stop", "join", "check", "drop", "deleteDelegate"} => started
  BY DEF LifeInv
<1> USE <1>0, <1>r
<1>1. CASE destroy
  <2>1. woken' \in BOOLEAN
    BY <1>1, Zenon DEF destroy, Unblock, SignalQueue
  <2>2. MsgTypeOK'
    BY <1>1, <2>1 DEF destroy, Unblock, MsgTypeOK, OwnerAt
  <2>3. LifeInv'
    BY <1>1 DEF destroy, LifeInv, Holders, Dropped, Leaving, Running
  <2> QED
    BY <2>2, <2>3
<1>2. CASE DeleteThread
  <2>1. Range(mQ) \subseteq Msgs
    BY RangeOfSeq DEF MsgTypeOK
  <2>3. MsgTypeOK'
    <3>5. CASE started
      BY <1>2, <3>5 DEF DeleteThread, MsgTypeOK, OwnerAt
    <3>6. CASE ~started
      <4>1. owner' = "gone" /\ task' = FALSE /\ mQ' = <<>> /\ freed' = freed \cup Range(mQ)
        BY <1>2, <3>6 DEF DeleteThread, DeleteTask
      <4>2. mQ' \in Seq(Msgs) /\ freed' \subseteq Msgs
        BY <2>1, <4>1 DEF MsgTypeOK
      <4> QED
        BY <1>2, <4>1, <4>2 DEF DeleteThread, MsgTypeOK, OwnerAt
    <3> QED
      BY <3>5, <3>6
  <2>4. LifeInv'
    BY <1>2 DEF DeleteThread, DeleteTask, LifeInv, Holders, Dropped, Leaving, Running
  <2> QED
    BY <2>3, <2>4
<1>3. CASE bye
  <2>1. MsgTypeOK'
    BY <1>3 DEF bye, queueVars, MsgTypeOK, OwnerAt
  <2>2. LifeInv'
    BY <1>3 DEF bye, LifeInv, Holders, Dropped, Leaving, Running
  <2> QED
    BY <2>1, <2>2
<1>4. CASE stop
  <2>1. MsgTypeOK'
    BY <1>4 DEF stop, queueVars, MsgTypeOK, OwnerAt
  <2>2. LifeInv'
    BY <1>4 DEF stop, LifeInv, Holders, Dropped, Leaving, Running
  <2> QED
    BY <2>1, <2>2
<1>5. CASE Join
  <2>1. MsgTypeOK'
    BY <1>5 DEF Join, queueVars, MsgTypeOK, OwnerAt
  <2>2. LifeInv'
    BY <1>5 DEF Join, LifeInv, Holders, Dropped, Leaving, Running
  <2> QED
    BY <2>1, <2>2
<1>6. CASE OwnerDestroys
  <2>1. owner \in {"check", "drop", "deleteDelegate"}
    BY <1>6 DEF OwnerDestroys, Destroy
  <2>2. owner = "drop" => mRefCount > 0
    BY <2>1 DEF LifeInv, Holders, Dropped
  <2>3. /\ mRefCount' \in 0 .. 2 /\ delegate' \in BOOLEAN
        /\ owner' \in {"drop", "deleteDelegate", "gone"}
    BY <1>6, <2>2, DestroyTypes DEF OwnerDestroys
  <2>4. MsgTypeOK'
    BY <1>6, <2>3 DEF OwnerDestroys, queueVars, MsgTypeOK, OwnerAt
  <2>5. LifeInv'
    BY <1>6, <2>1, <2>3 DEF OwnerDestroys, Destroy, LifeInv, Holders, Dropped, Leaving,
       Running, MsgTypeOK, ThreadAt
  <2> QED
    BY <2>4, <2>5
<1> QED
  BY <1>1, <1>2, <1>3, <1>4, <1>5, <1>6 DEF OwnerEnds

(* A message that is sent disturbs neither.                                *)
LEMMA SendLife ==
  ASSUME MsgTypeOK, LifeInv, NEW m \in Msgs, sendMsg(m)
  PROVE  MsgTypeOK' /\ LifeInv'
<1>1. mQ' \in Seq(Msgs) /\ accepted' \in Seq(Msgs) /\ refused' \subseteq Msgs
  <2>1. CASE unblocked
    BY <2>1 DEF sendMsg, MsgTypeOK
  <2>2. CASE ~unblocked
    <3>1. mQ' = Append(mQ, m) /\ accepted' = Append(accepted, m) /\ refused' = refused
      BY <2>2 DEF sendMsg
    <3>2. Append(mQ, m) \in Seq(Msgs) /\ Append(accepted, m) \in Seq(Msgs)
      BY AppendProperties DEF MsgTypeOK
    <3> QED
      BY <3>1, <3>2 DEF MsgTypeOK
  <2> QED
    BY <2>1, <2>2
<1>0. woken' \in BOOLEAN
  BY Zenon DEF sendMsg, SignalQueue, MsgTypeOK
<1>2. MsgTypeOK'
  BY <1>0, <1>1 DEF sendMsg, delegateVars, MsgTypeOK
<1>3. LifeInv'
  BY DEF sendMsg, delegateVars, LifeInv, Holders, Dropped, Leaving, Running
<1> QED
  BY <1>2, <1>3

(* Every step keeps the types and the invariant of the delegate.           *)
LEMMA LifeNext == MsgTypeOK /\ LifeInv /\ [MsgNext]_msgVars => MsgTypeOK' /\ LifeInv'
<1> SUFFICES ASSUME MsgTypeOK, LifeInv, [MsgNext]_msgVars PROVE MsgTypeOK' /\ LifeInv'
  OBVIOUS
<1>1. CASE UNCHANGED msgVars
  <2>1. MsgTypeOK'
    BY <1>1 DEF msgVars, delegateVars, queueVars, history, MsgTypeOK
  <2>2. LifeInv'
    BY <1>1 DEF msgVars, delegateVars, queueVars, history, LifeInv, Holders, Dropped, Leaving,
       Running
  <2> QED
    BY <2>1, <2>2
<1> QED
  BY <1>1, ThreadLife, OwnerLife, SendLife DEF MsgNext

(* Types, for any set of messages: the count of references stays between 0 *)
(* and 2, and only messages are in the queue and in hand.                  *)
THEOREM MsgTypeCorrect == MsgSpec => []MsgTypeOK
<1> QED
  BY LifeInit, LifeNext, PTL DEF MsgSpec

(* LifeInv is an invariant: the references that are left are those of the  *)
(* thread and the owner that have not dropped theirs.                      *)
THEOREM LifeCorrect == MsgSpec => []LifeInv
<1> QED
  BY LifeInit, LifeNext, PTL DEF MsgSpec

(* The delegate is deleted when, and only when, both have let go of it:    *)
(* LocThreadDelegate::destroy of two threads in any order.                 *)
THEOREM DelegateLives == MsgSpec => []DelegateOutlivesUsers
<1>1. MsgTypeOK /\ LifeInv => DelegateOutlivesUsers
  BY DEF LifeInv, DelegateOutlivesUsers, MsgTypeOK
<1> QED
  BY <1>1, MsgTypeCorrect, LifeCorrect, PTL

(* destroy of a joinable task returns after its thread has ended:          *)
(* LocThreadDelegate::stop joins exactly once.                             *)
THEOREM JoinedAtReturn == MsgSpec => []JoinedBeforeReturn
<1>1. LifeInv => JoinedBeforeReturn
  BY DEF LifeInv, JoinedBeforeReturn, Leaving
<1> QED
  BY <1>1, LifeCorrect, PTL

(* Only a task whose thread was stopped before it began is left behind:    *)
(* threadMain deletes the runnable on every other way out.                 *)
THEOREM TaskDeleted == MsgSpec => []LeakedOnlyIfNeverRan
<1>1. LifeInv => LeakedOnlyIfNeverRan
  BY DEF LifeInv, LeakedOnlyIfNeverRan, Leaving
<1> QED
  BY <1>1, LifeCorrect, PTL

-----------------------------------------------------------------------------
(* Messages.                                                               *)

(* The message in hand, as a sequence.                                     *)
InHand == IF msg = NoMsg THEN <<>> ELSE <<msg>>

(* What was accepted is what was processed, the message in hand, and what  *)
(* is in the queue or was freed with it; no message was accepted twice.    *)
FlowInv ==
  /\ \A i, j \in DOMAIN accepted : accepted[i] = accepted[j] => i = j
  /\ ~task => mQ = <<>>
  /\ \E rest \in Seq(Msgs) :
       /\ accepted = (processed \o InHand) \o rest
       /\ freed = IF task THEN {} ELSE Range(rest)
       /\ task => rest = mQ

(* A message in hand is a message.                                         *)
LEMMA InHandType == MsgTypeOK => InHand \in Seq(Msgs)
BY DEF MsgTypeOK, InHand

(* Taking the head off a queue leaves what stands before and in it.        *)
LEMMA TakeHead ==
  ASSUME NEW s \in Seq(Msgs), NEW q \in Seq(Msgs), q # <<>>
  PROVE  (s \o <<Head(q)>>) \o Tail(q) = s \o q
<1>1. Head(q) \in Msgs /\ Tail(q) \in Seq(Msgs)
  BY HeadTailProperties
<1>2. <<Head(q)>> \in Seq(Msgs)
  BY <1>1
<1>3. (s \o <<Head(q)>>) \o Tail(q) = s \o (<<Head(q)>> \o Tail(q))
  BY <1>1, <1>2, ConcatAssociative
<1>4. <<Head(q)>> \o Tail(q) = q
  BY <1>1
<1> QED
  BY <1>3, <1>4

(* A message that is sent goes to the end of everything.                   *)
LEMMA PutLast ==
  ASSUME NEW s \in Seq(Msgs), NEW q \in Seq(Msgs), NEW m \in Msgs
  PROVE  s \o Append(q, m) = Append(s \o q, m)
<1>1. <<m>> \in Seq(Msgs) /\ s \o q \in Seq(Msgs)
  BY ConcatProperties
<1>2. s \o Append(q, m) = s \o (q \o <<m>>)
  BY AppendIsConcat
<1>3. @ = (s \o q) \o <<m>>
  BY <1>1, ConcatAssociative
<1>4. @ = Append(s \o q, m)
  BY <1>1, AppendIsConcat
<1> QED
  BY <1>2, <1>3, <1>4

(* Nothing has been sent yet.                                              *)
LEMMA FlowInit == MsgInit => FlowInv
<1> SUFFICES ASSUME MsgInit PROVE FlowInv
  OBVIOUS
<1>1. InHand = <<>> /\ <<>> \in Seq(Msgs)
  BY DEF MsgInit, InHand
<1>2. accepted = (processed \o InHand) \o <<>>
  BY <1>1, ConcatEmptySeq DEF MsgInit
<1>3. freed = {} /\ task /\ mQ = <<>> /\ DOMAIN accepted = {}
  BY DEF MsgInit
<1> QED
  BY <1>1, <1>2, <1>3 DEF FlowInv

(* A step that changes nothing of the messages.                            *)
LEMMA FlowSame ==
  ASSUME FlowInv, UNCHANGED <<task, mQ, msg, accepted, processed, freed>>
  PROVE  FlowInv'
BY DEF FlowInv, InHand

(* The thread takes the first message of the queue, or finds it empty.     *)
LEMMA FlowRemove ==
  ASSUME MsgTypeOK, LifeInv, FlowInv, linked_list_remove, msg = NoMsg, task,
         UNCHANGED <<task, accepted, processed, freed>>
  PROVE  FlowInv'
<1>1. CASE mQ = <<>> /\ thread' = "clear" /\ UNCHANGED <<msg, mQ>>
  BY <1>1, FlowSame
<1>2. CASE mQ # <<>> /\ thread' = "proc" /\ msg' = Head(mQ) /\ mQ' = Tail(mQ)
  <2>1. accepted = (processed \o <<>>) \o mQ /\ freed = {}
    BY DEF FlowInv, InHand
  <2>2. accepted = processed \o mQ
    BY <2>1, ConcatEmptySeq DEF MsgTypeOK
  <2>3. accepted = (processed \o <<Head(mQ)>>) \o Tail(mQ)
    BY <1>2, <2>2, TakeHead DEF MsgTypeOK
  <2>4. Head(mQ) \in Msgs /\ Tail(mQ) \in Seq(Msgs)
    BY <1>2, HeadTailProperties DEF MsgTypeOK
  <2>5. InHand' = <<Head(mQ)>>
    BY <1>2, <2>4 DEF InHand
  <2>6. accepted' = (processed' \o InHand') \o mQ'
    BY <1>2, <2>3, <2>5
  <2>7. mQ' \in Seq(Msgs)
    BY <1>2, <2>4
  <2> QED
    BY <2>1, <2>6, <2>7 DEF FlowInv
<1> QED
  BY <1>1, <1>2 DEF linked_list_remove

(* The message in hand becomes the last one that was processed.            *)
LEMMA FlowProc == ASSUME MsgTypeOK, LifeInv, FlowInv, Proc PROVE FlowInv'
<1>1. msg \in Msgs /\ InHand = <<msg>> /\ task
  BY DEF Proc, LifeInv, MsgTypeOK, InHand, Leaving
<1>2. InHand' = <<>> /\ processed' = processed \o InHand
  BY <1>1, AppendIsConcat DEF Proc, InHand, MsgTypeOK
<1>3. processed \o InHand \in Seq(Msgs)
  BY InHandType, ConcatProperties DEF MsgTypeOK
<1>4. processed' \o InHand' = processed \o InHand
  BY <1>2, <1>3, ConcatEmptySeq
<1>5. UNCHANGED <<task, mQ, accepted, freed>>
  BY DEF Proc, ThreadOnly
<1> QED
  BY <1>4, <1>5 DEF FlowInv

(* The end of the task frees what is in the queue.                         *)
LEMMA FlowDelete ==
  ASSUME MsgTypeOK, FlowInv, task, DeleteTask, UNCHANGED <<msg, accepted, processed>>
  PROVE  FlowInv'
<1>1. accepted = (processed \o InHand) \o mQ /\ freed = {}
  BY DEF FlowInv
<1>2. /\ InHand' = InHand /\ task' = FALSE /\ mQ' = <<>>
      /\ freed' = Range(mQ)
  BY <1>1 DEF DeleteTask, InHand
<1>3. mQ \in Seq(Msgs)
  BY DEF MsgTypeOK
<1> QED
  BY <1>1, <1>2, <1>3 DEF FlowInv

(* A message that is sent is a new one.                                    *)
LEMMA FlowSend ==
  ASSUME MsgTypeOK, FlowInv, NEW m \in Msgs, sendMsg(m)
  PROVE  FlowInv'
<1>1. CASE unblocked
  BY <1>1, FlowSame DEF sendMsg
<1>2. CASE ~unblocked
  <2>1. /\ mQ' = Append(mQ, m) /\ accepted' = Append(accepted, m)
        /\ m \notin Range(accepted) /\ task
        /\ UNCHANGED <<task, msg, processed, freed>>
    BY <1>2 DEF sendMsg
  <2>2. accepted = (processed \o InHand) \o mQ /\ freed = {}
    BY <2>1 DEF FlowInv
  <2>3. /\ processed \o InHand \in Seq(Msgs)
        /\ mQ \in Seq(Msgs) /\ Append(mQ, m) \in Seq(Msgs)
    BY InHandType, ConcatProperties, AppendProperties DEF MsgTypeOK
  <2>4. accepted' = (processed \o InHand) \o Append(mQ, m)
    BY <2>1, <2>2, <2>3, PutLast
  <2>5. accepted' = (processed' \o InHand') \o mQ'
    BY <2>1, <2>4 DEF InHand
  <2>6. \A i, j \in DOMAIN accepted' : accepted'[i] = accepted'[j] => i = j
    <3>1. accepted \in Seq(Msgs)
      BY DEF MsgTypeOK
    <3>2. /\ DOMAIN accepted = 1 .. Len(accepted)
          /\ DOMAIN accepted' = 1 .. Len(accepted) + 1
          /\ accepted'[Len(accepted) + 1] = m
          /\ \A i \in 1 .. Len(accepted) : accepted'[i] = accepted[i]
      BY <2>1, <3>1, AppendProperties
    <3>3. \A i \in 1 .. Len(accepted) : accepted[i] # m
      BY <2>1, <3>2 DEF Range
    <3>4. \A i, j \in 1 .. Len(accepted) : accepted[i] = accepted[j] => i = j
      BY <3>2 DEF FlowInv
    <3> QED
      BY <3>1, <3>2, <3>3, <3>4
  <2> QED
    BY <2>1, <2>2, <2>3, <2>5, <2>6 DEF FlowInv
<1> QED
  BY <1>1, <1>2

(* Every step keeps track of the messages.                                 *)
LEMMA FlowNext == MsgTypeOK /\ LifeInv /\ FlowInv /\ [MsgNext]_msgVars => FlowInv'
<1> SUFFICES ASSUME MsgTypeOK, LifeInv, FlowInv, [MsgNext]_msgVars PROVE FlowInv'
  OBVIOUS
<1>1. CASE UNCHANGED msgVars
  BY <1>1, FlowSame DEF msgVars, history, queueVars
<1>2. ASSUME NEW m \in Msgs, sendMsg(m) PROVE FlowInv'
  BY <1>2, FlowSend
<1>3. CASE Start \/ Loop \/ Clear \/ ThreadDestroys
  <2>1. UNCHANGED <<task, mQ, msg, accepted, processed, freed>>
    BY <1>3 DEF Start, Loop, Clear, ThreadDestroys, ThreadOnly
  <2> QED
    BY <2>1, FlowSame
<1>4. CASE Receive \/ WakeUp
  <2>1. /\ UNCHANGED <<task, accepted, processed, freed>>
        /\ thread \in {"receive", "wait"}
        /\ linked_list_remove \/ UNCHANGED <<mQ, msg>>
    BY <1>4 DEF Receive, WakeUp, ThreadOnly
  <2>2. msg = NoMsg /\ task
    BY <2>1 DEF LifeInv, Leaving
  <2>3. CASE linked_list_remove
    BY <2>1, <2>2, <2>3, FlowRemove
  <2>4. CASE UNCHANGED <<mQ, msg>>
    BY <2>1, <2>4, FlowSame
  <2> QED
    BY <2>1, <2>3, <2>4
<1>5. CASE Proc
  BY <1>5, FlowProc
<1>6. CASE Delete
  <2>1. task
    BY <1>6 DEF Delete, LifeInv, Leaving
  <2> QED
    BY <1>6, <2>1, FlowDelete DEF Delete, ThreadOnly
<1>7. CASE destroy \/ bye \/ stop \/ Join \/ OwnerDestroys
  <2>1. UNCHANGED <<task, mQ, msg, accepted, processed, freed>>
    BY <1>7 DEF destroy, bye, stop, Join, OwnerDestroys, OwnerOnly, queueVars
  <2> QED
    BY <2>1, FlowSame
<1>8. CASE DeleteThread
  <2>1. UNCHANGED <<msg, accepted, processed>>
    BY <1>8 DEF DeleteThread, OwnerOnly
  <2>2. CASE started
    BY <1>8, <2>1, <2>2, FlowSame DEF DeleteThread
  <2>3. CASE ~started
    <3>1. task /\ DeleteTask
      BY <1>8, <2>3 DEF DeleteThread, LifeInv
    <3> QED
      BY <2>1, <3>1, FlowDelete
  <2> QED
    BY <2>2, <2>3
<1> QED
  BY <1>1, <1>2, <1>3, <1>4, <1>5, <1>6, <1>7, <1>8 DEF MsgNext, Thread, OwnerEnds

(* FlowInv is an invariant: the queue neither loses a message nor invents  *)
(* one, nor changes their order.                                           *)
THEOREM FlowCorrect == MsgSpec => []FlowInv
<1> QED
  BY LifeInit, LifeNext, FlowInit, FlowNext, PTL DEF MsgSpec

(* What FlowInv says, without the witness.                                 *)
LEMMA FlowMeaning == ASSUME MsgTypeOK, FlowInv PROVE EachMessageOnce
<1> DEFINE done == processed \o InHand
<1>1. PICK rest \in Seq(Msgs) :
        /\ accepted = done \o rest
        /\ freed = IF task THEN {} ELSE Range(rest)
        /\ task => rest = mQ
  BY DEF FlowInv
<1>2. done \in Seq(Msgs) /\ mQ \in Seq(Msgs) /\ accepted \in Seq(Msgs)
  BY InHandType, ConcatProperties DEF MsgTypeOK
<1> HIDE DEF done
<1>3. CASE task
  <2>1. accepted = done \o mQ /\ freed = {}
    BY <1>1, <1>3
  <2>2. IsPrefix(done \o mQ, accepted)
    BY <1>2, <2>1, SubSeqFull DEF IsPrefix
  <2> QED
    BY <1>3, <2>1, <2>2 DEF EachMessageOnce, done, InHand
<1>4. CASE ~task
  <2>1. mQ = <<>> /\ freed = Range(rest) /\ done \o mQ = done
    BY <1>1, <1>2, <1>4, ConcatEmptySeq DEF FlowInv
  <2>2. /\ Len(accepted) = Len(done) + Len(rest)
        /\ \A i \in 1 .. Len(done) : accepted[i] = done[i]
        /\ \A i \in 1 .. Len(rest) : accepted[Len(done) + i] = rest[i]
    BY <1>1, <1>2, ConcatProperties
  <2>3. IsPrefix(done, accepted)
    BY <1>1, <1>2, <2>2 DEF IsPrefix
  <2>4. Range(accepted) = Range(done) \cup Range(rest)
    BY <1>1, <1>2, RangeConcatenation
  <2>5. Range(done) \cap Range(rest) = {}
    <3> SUFFICES ASSUME NEW x \in Range(done), x \in Range(rest) PROVE FALSE
      OBVIOUS
    <3>1. PICK i \in 1 .. Len(done) : done[i] = x
      BY <1>2, RangeEquality
    <3>2. PICK j \in 1 .. Len(rest) : rest[j] = x
      BY RangeEquality
    <3>3. accepted[i] = accepted[Len(done) + j] /\ i # Len(done) + j
      BY <1>2, <2>2, <3>1, <3>2
    <3>4. i \in DOMAIN accepted /\ Len(done) + j \in DOMAIN accepted
      BY <1>2, <2>2, <3>1, <3>2
    <3> QED
      BY <3>3, <3>4 DEF FlowInv
  <2>6. Range(accepted) \ Range(done) = freed
    BY <2>1, <2>4, <2>5
  <2> QED
    BY <1>4, <2>1, <2>3, <2>6 DEF EachMessageOnce, done, InHand
<1> QED
  BY <1>3, <1>4

(* Every message the queue took is in one place and in its turn: nothing   *)
(* is processed twice, out of order, or after it was freed, whenever the   *)
(* owner ends the task.                                                    *)
THEOREM MessagesOnce == MsgSpec => []EachMessageOnce
<1>1. MsgTypeOK /\ FlowInv => EachMessageOnce
  BY FlowMeaning
<1> QED
  BY <1>1, MsgTypeCorrect, FlowCorrect, PTL

(* The ending of a message thread, whole: types, the life of the delegate, *)
(* the join and the task, whoever of thread and owner comes first.         *)
THEOREM EndsWellCorrect == MsgSpec => []EndsWell
  BY MsgTypeCorrect, DelegateLives, JoinedAtReturn, TaskDeleted, PTL DEF EndsWell
=============================================================================
