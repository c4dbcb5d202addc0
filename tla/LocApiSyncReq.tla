---------------------------- MODULE LocApiSyncReq ----------------------------
(***************************************************************************)
(* Synchronous requests to the modem: loc_api_sync_req.c.  Threads send a  *)
(* request and wait, in a slot of loc_sync_array, for the indication that  *)
(* answers it; the QMI callback thread brings indications to the slots.    *)
(*                                                                         *)
(* A step of a thread is what it does under one lock: loc_sync_call_mutex  *)
(* to allocate or free a slot, the slot's own lock to fill it or to wait   *)
(* in it.  An indication is handled under both.  The client handle and the *)
(* indication a slot is for are one field here, NoInd when it is freed.    *)
(***************************************************************************)
EXTENDS Integers

CONSTANTS
  Threads,         \* threads that call loc_sync_send_req
  NumSlots,        \* LOC_SYNC_REQ_BUFFER_SIZE
  IndOf,           \* IndOf[t]: the indication that answers t's requests
  NoInd,           \* of a freed slot, which matches no indication
  NoThread,
  SendReqRetries,  \* initial sendReqRetryRem
  MaxAnswers       \* bound: answers to one thread on their way at a time

ASSUME SyncAssumption ==
  /\ NumSlots \in Nat \ {0}
  /\ SendReqRetries \in Nat
  /\ MaxAnswers \in Nat \ {0}
  /\ DOMAIN IndOf = Threads
  /\ \A t \in Threads : IndOf[t] # NoInd
  /\ NoThread \notin Threads

VARIABLES
  in_use,           \* loc_sync_array.in_use
  slot_in_use,      \* loc_sync_array.slot_in_use[]
  slots,            \* loc_sync_array.slots[]
  pc,               \* where a thread is in loc_sync_send_req
  select_id,        \* its slot
  status,           \* its status
  sendReqRetryRem,
  payload,          \* its buffer: to which thread's request it holds an answer
  answers,          \* indications on their way, by the thread that asked
  unheard           \* some wait has ended without an indication

arrayVars == <<in_use, slot_in_use, slots>>
callVars  == <<select_id, status, sendReqRetryRem>>
vars      == <<arrayVars, pc, callVars, payload, answers, unheard>>

Slots   == 1 .. NumSlots

(* BUSY stands for any status of locClientSendReq that is tried again, and *)
(* FAILURE for any other; INTERNAL is what a wait in a lost slot gives.    *)
Statuses == {"SUCCESS", "TIMEOUT", "INTERNAL", "BUSY", "FAILURE"}
InWait  == {"waiting", "woken", "expired"}
Places  == {"idle", "selecting", "sending", "checking", "locking",
            "freeing", "releasing", "returning"} \cup InWait
Inds    == {IndOf[t] : t \in Threads}

Slot == [recv_ind_id : Inds \cup {NoInd},
         recv_ind_payload_ptr : Threads \cup {NoThread},
         ind_is_waiting : BOOLEAN, ind_has_arrived : BOOLEAN]

FreeSlot == [recv_ind_id |-> NoInd, recv_ind_payload_ptr |-> NoThread,
             ind_is_waiting |-> FALSE, ind_has_arrived |-> FALSE]

TypeOK ==
  /\ in_use \in BOOLEAN
  /\ slot_in_use \in [Slots -> BOOLEAN]
  /\ slots \in [Slots -> Slot]
  /\ pc \in [Threads -> Places]
  /\ select_id \in [Threads -> Slots]
  /\ status \in [Threads -> Statuses]
  /\ sendReqRetryRem \in [Threads -> 0 .. SendReqRetries]
  /\ payload \in [Threads -> Threads \cup {NoThread}]
  /\ answers \in [Threads -> 0 .. MaxAnswers]
  /\ unheard \in BOOLEAN

Init ==
  /\ in_use = FALSE
  /\ slot_in_use = [s \in Slots |-> FALSE]
  /\ slots = [s \in Slots |-> FreeSlot]
  /\ pc = [t \in Threads |-> "idle"]
  /\ select_id = [t \in Threads |-> 1]
  /\ status = [t \in Threads |-> "SUCCESS"]
  /\ sendReqRetryRem = [t \in Threads |-> SendReqRetries]
  /\ payload = [t \in Threads |-> NoThread]
  /\ answers = [t \in Threads |-> 0]
  /\ unheard = FALSE

Goto(t, place) == pc' = [pc EXCEPT ![t] = place]
First(s, S)    == s \in S /\ \A r \in S : s <= r

-----------------------------------------------------------------------------
(* loc_sync_send_req, on the thread that calls it.                         *)

(* Mutant: a slot counts as free while it is not filled yet.               *)
UnusedByInd == {s \in Slots : slots[s].recv_ind_id = NoInd}

Unused == {s \in Slots : ~slot_in_use[s]}

loc_alloc_slot(t) ==
  /\ pc[t] = "idle"
  /\ \E s \in Slots :
       /\ First(s, Unused)
       /\ slot_in_use' = [slot_in_use EXCEPT ![s] = TRUE]
       /\ select_id' = [select_id EXCEPT ![t] = s]
  /\ in_use' = TRUE
  /\ Goto(t, "selecting")
  /\ UNCHANGED <<slots, status, sendReqRetryRem, payload, answers, unheard>>

(* The buffer is full: the call returns the initial value of its status.   *)
BufferFull(t) ==
  /\ pc[t] = "idle"
  /\ Unused = {}
  /\ Goto(t, "returning")
  /\ UNCHANGED <<arrayVars, callVars, payload, answers, unheard>>

loc_sync_select_ind(t) ==
  /\ pc[t] = "selecting"
  /\ slots' = [slots EXCEPT ![select_id[t]] =
                 [FreeSlot EXCEPT !.recv_ind_id = IndOf[t], !.recv_ind_payload_ptr = t]]
  /\ Goto(t, "sending")
  /\ UNCHANGED <<in_use, slot_in_use, callVars, payload, answers, unheard>>

(* The end of the loop with a failure: retry, or free the slot and return. *)
Retry(t, st) ==
  /\ status' = [status EXCEPT ![t] = st]
  /\ IF st \in {"BUSY", "INTERNAL"} /\ sendReqRetryRem[t] > 0
     THEN /\ sendReqRetryRem' = [sendReqRetryRem EXCEPT ![t] = @ - 1]
          /\ Goto(t, "sending")
     ELSE Goto(t, "releasing") /\ UNCHANGED sendReqRetryRem

(* locClientSendReq: accepted, to be answered later, or refused.           *)
SendAccepted(t) ==
  /\ pc[t] = "sending"
  /\ answers' = [answers EXCEPT ![t] = IF @ < MaxAnswers THEN @ + 1 ELSE @]
  /\ status' = [status EXCEPT ![t] = "SUCCESS"]
  /\ Goto(t, "checking")
  /\ UNCHANGED <<arrayVars, select_id, sendReqRetryRem, payload, unheard>>

SendRefused(t) ==
  /\ pc[t] = "sending"
  /\ \E st \in {"BUSY", "FAILURE"} : Retry(t, st)
  /\ UNCHANGED <<arrayVars, select_id, payload, answers, unheard>>

(* loc_sync_wait_for_ind first reads slot_in_use without a lock, ...       *)
CheckSelectId(t) ==
  /\ pc[t] = "checking"
  /\ IF slot_in_use[select_id[t]]
     THEN Goto(t, "locking") /\ UNCHANGED <<status, sendReqRetryRem>>
     ELSE Retry(t, "INTERNAL")
  /\ UNCHANGED <<arrayVars, select_id, payload, answers, unheard>>

(* ... then locks the slot.  Mutant: an early indication is not remembered.*)
WaitAlways(t) ==
  /\ pc[t] = "locking"
  /\ slots' = [slots EXCEPT ![select_id[t]].ind_is_waiting = TRUE]
  /\ Goto(t, "waiting")
  /\ UNCHANGED <<in_use, slot_in_use, callVars, payload, answers, unheard>>

loc_sync_wait_for_ind(t) ==
  LET slot == slots[select_id[t]]
  IN  /\ pc[t] = "locking"
      /\ IF slot.ind_has_arrived \/ slot.ind_is_waiting
         THEN /\ status' = [status EXCEPT ![t] =
                              IF slot.ind_has_arrived THEN "SUCCESS" ELSE "INTERNAL"]
              /\ Goto(t, "freeing")
              /\ UNCHANGED slots
         ELSE /\ slots' = [slots EXCEPT ![select_id[t]].ind_is_waiting = TRUE]
              /\ Goto(t, "waiting")
              /\ UNCHANGED status
      /\ UNCHANGED <<in_use, slot_in_use, select_id, sendReqRetryRem, payload, answers, unheard>>

(* pthread_cond_timedwait may return without a signal: timed out, or not.  *)
WakeUnheard(t) ==
  /\ pc[t] = "waiting"
  /\ \E place \in {"expired", "woken"} : Goto(t, place)
  /\ unheard' = TRUE
  /\ UNCHANGED <<arrayVars, callVars, payload, answers>>

EndWait(t) ==
  /\ pc[t] \in {"woken", "expired"}
  /\ slots' = [slots EXCEPT ![select_id[t]].ind_is_waiting = FALSE]
  /\ status' = [status EXCEPT ![t] = IF pc[t] = "woken" THEN "SUCCESS" ELSE "TIMEOUT"]
  /\ Goto(t, "freeing")
  /\ UNCHANGED <<in_use, slot_in_use, select_id, sendReqRetryRem, payload, answers, unheard>>

(* Mutants: only slot_in_use is reset; in_use is reset while slots are in  *)
(* use.                                                                    *)
FreeFlagOnly(s) ==
  /\ slot_in_use' = [slot_in_use EXCEPT ![s] = FALSE]
  /\ in_use' = (in_use /\ \E r \in Slots : slot_in_use'[r])
  /\ UNCHANGED slots

FreeAll(s) ==
  /\ slot_in_use' = [slot_in_use EXCEPT ![s] = FALSE]
  /\ slots' = [slots EXCEPT ![s] = FreeSlot]
  /\ in_use' = FALSE

loc_free_slot(s) ==
  /\ slot_in_use' = [slot_in_use EXCEPT ![s] = FALSE]
  /\ slots' = [slots EXCEPT ![s] = FreeSlot]
  /\ in_use' = (in_use /\ \E r \in Slots : slot_in_use'[r])

(* The wait frees the slot however it ended.                               *)
FreeAfterWait(t) ==
  /\ pc[t] = "freeing"
  /\ loc_free_slot(select_id[t])
  /\ IF status[t] = "SUCCESS"
     THEN Goto(t, "returning") /\ UNCHANGED <<status, sendReqRetryRem>>
     ELSE Retry(t, status[t])
  /\ UNCHANGED <<select_id, payload, answers, unheard>>

(* A failed call frees its slot, whether the wait has freed it or not.     *)
FreeAfterFailure(t) ==
  /\ pc[t] = "releasing"
  /\ loc_free_slot(select_id[t])
  /\ Goto(t, "returning")
  /\ UNCHANGED <<callVars, payload, answers, unheard>>

(* The caller has read the status and its buffer.  The variables of the    *)
(* call end here: they are as the next call will initialise them.          *)
Return(t) ==
  /\ pc[t] = "returning"
  /\ Goto(t, "idle")
  /\ select_id' = [select_id EXCEPT ![t] = 1]
  /\ status' = [status EXCEPT ![t] = "SUCCESS"]
  /\ sendReqRetryRem' = [sendReqRetryRem EXCEPT ![t] = SendReqRetries]
  /\ payload' = [payload EXCEPT ![t] = NoThread]
  /\ UNCHANGED <<arrayVars, answers, unheard>>

-----------------------------------------------------------------------------
(* loc_sync_process_ind, on the QMI callback thread, with the indication   *)
(* that answers a request of t: the first slot that waits for such an      *)
(* indication and has not got one takes it.                                *)

Wants(s, ind) ==
  slot_in_use[s] /\ slots[s].recv_ind_id = ind /\ ~slots[s].ind_has_arrived

(* pthread_cond_signal wakes one of the threads waiting in slot s, if any. *)
Signal(s) ==
  LET waiters == {u \in Threads : pc[u] = "waiting" /\ select_id[u] = s}
  IN  IF waiters = {} THEN UNCHANGED pc ELSE \E u \in waiters : Goto(u, "woken")

(* Mutant: the payload of an indication that comes early is not copied.    *)
DeliverToWaiter(s, t) ==
  IF slots[s].ind_is_waiting
  THEN /\ payload' = [payload EXCEPT ![slots[s].recv_ind_payload_ptr] = t]
       /\ Signal(s) /\ UNCHANGED slots
  ELSE /\ slots' = [slots EXCEPT ![s].ind_has_arrived = TRUE]
       /\ UNCHANGED <<pc, payload>>

Deliver(s, t) ==
  /\ payload' = [payload EXCEPT ![slots[s].recv_ind_payload_ptr] = t]
  /\ IF slots[s].ind_is_waiting
     THEN Signal(s) /\ UNCHANGED slots
     ELSE slots' = [slots EXCEPT ![s].ind_has_arrived = TRUE] /\ UNCHANGED pc

loc_sync_process_ind(t) ==
  /\ answers[t] > 0
  /\ answers' = [answers EXCEPT ![t] = @ - 1]
  /\ LET wanting == {s \in Slots : Wants(s, IndOf[t])}
     IN  IF ~in_use \/ wanting = {}
         THEN /\ in_use' = (in_use /\ \E s \in Slots : slot_in_use[s])
              /\ UNCHANGED <<slots, pc, payload>>
         ELSE /\ \E s \in wanting : First(s, wanting) /\ Deliver(s, t)
              /\ UNCHANGED in_use
  /\ UNCHANGED <<slot_in_use, callVars, unheard>>

-----------------------------------------------------------------------------
Call(t) == loc_alloc_slot(t) \/ BufferFull(t)

Proceed(t) ==
  \/ loc_sync_select_ind(t)
  \/ SendAccepted(t) \/ SendRefused(t)
  \/ CheckSelectId(t) \/ loc_sync_wait_for_ind(t)
  \/ WakeUnheard(t) \/ EndWait(t)
  \/ FreeAfterWait(t) \/ FreeAfterFailure(t) \/ Return(t)

Next == \E t \in Threads : Call(t) \/ Proceed(t) \/ loc_sync_process_ind(t)

Spec == Init /\ [][Next]_vars

-----------------------------------------------------------------------------
(* loc_sync_process_ind returns at once when in_use is FALSE: were it      *)
(* FALSE with a slot in use, an answer would be dropped.                   *)
InUseIsExact == in_use = (\E s \in Slots : slot_in_use[s])

(* The buffer a slot points to is on the stack of the thread that filled   *)
(* the slot.  An indication is copied only while that call has not         *)
(* returned, even after timeouts have mixed up who owns which slot.        *)
BufferIsLive ==
  \A s \in Slots : slots[s].recv_ind_payload_ptr # NoThread =>
    LET owner == slots[s].recv_ind_payload_ptr
    IN  pc[owner] \notin {"idle", "selecting", "returning"} /\ select_id[owner] = s

(* As long as every wait has heard its indication, a thread in a call has  *)
(* a slot of its own, which nobody frees before it does.                   *)
Owns(t) == pc[t] \notin {"idle", "returning"}

SlotsAreOwned ==
  ~unheard => \A t, u \in Threads :
    Owns(t) => slot_in_use[select_id[t]]
               /\ (Owns(u) /\ select_id[t] = select_id[u] => t = u)

(* Provided that no two threads wait for the same indication, a waiting    *)
(* thread has its answer still to come: none is lost between sending the   *)
(* request and waiting, and none is given to another thread.               *)
DistinctInds == \A t, u \in Threads : IndOf[t] = IndOf[u] => t = u

WaiterWillHear ==
  DistinctInds /\ ~unheard =>
    \A t \in Threads : pc[t] = "waiting" => answers[t] > 0

(* ... and a wait that succeeds leaves the thread's own answer in its      *)
(* buffer.                                                                 *)
SuccessIsAnswered ==
  DistinctInds /\ ~unheard =>
    \A t \in Threads : pc[t] = "freeing" => status[t] = "SUCCESS" /\ payload[t] = t
=============================================================================
