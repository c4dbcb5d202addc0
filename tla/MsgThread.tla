----------------------------- MODULE MsgThread -----------------------------
(***************************************************************************)
(* A message thread of the GPS library from its creation to its end:       *)
(* MsgTask.cpp, over LocThread.cpp and msg_q.c.                            *)
(*                                                                         *)
(* The owner creates the task and destroys it once.  Other threads send to *)
(* it, also while it is being destroyed.  The thread receives messages and *)
(* processes them until the queue is unblocked or its delegate is stopped. *)
(* The delegate is counted: the owner and the thread have a reference      *)
(* each, and the one that drops the last deletes it.  The queue is         *)
(* protected by its mutex; mRunnable is read and written without any lock, *)
(* so each access to it is a step.                                         *)
(*                                                                         *)
(* MsgTask::destroy reads mThread after it has unblocked the queue, when   *)
(* the thread may have deleted the task already: the model lets it read    *)
(* what was there.  Left out: spurious wakeups, which the loop of          *)
(* msg_q_rcv absorbs; names and scheduling policy of the thread.           *)
(***************************************************************************)
EXTENDS Naturals, Sequences, FiniteSets, SequencesExt

CONSTANTS Msgs, NoMsg

ASSUME MsgAssumption == NoMsg \notin Msgs

VARIABLES
  started,    \* LocThread::start succeeded: MsgTask::mThread is not NULL
  task,       \* the MsgTask and its queue exist
  delegate,   \* the LocThreadDelegate exists
  mRunnable,  \* LocThreadDelegate::mRunnable is not NULL
  mJoinable,  \* LocThreadDelegate::mJoinable
  mRefCount,  \* LocThreadDelegate::mRefCount
  mQ,         \* msg_q::msg_list
  unblocked,  \* msg_q::unblocked
  woken,      \* list_cond was signalled while the thread waited
  thread,     \* where the thread is
  owner,      \* where the owner is
  msg,        \* the message that was received
  accepted,   \* history: messages sent, in the order the queue took them
  processed,  \* history: messages processed, in order
  freed,      \* history: messages deleted unprocessed
  refused,    \* history: messages the queue refused
  joins       \* history: the task was created joinable

delegateVars == <<started, delegate, mRunnable, mJoinable, mRefCount>>
queueVars    == <<mQ, unblocked, woken>>
history      == <<accepted, processed, freed, refused, joins>>
msgVars == <<task, delegateVars, queueVars, thread, owner, msg, history>>

ThreadAt == {"start", "loop", "receive", "wait", "proc", "clear", "delete", "check", "drop",
             "deleteDelegate", "gone"}
OwnerAt  == {"using", "unblocked", "bye", "stop", "join", "check", "drop", "deleteDelegate",
             "gone"}

(* The constructor.  When no thread can be created the delegate deletes    *)
(* itself and the task is left without a thread.                           *)
MsgInit ==
  /\ started \in BOOLEAN /\ mJoinable \in (IF started THEN BOOLEAN ELSE {FALSE})
  /\ delegate = started /\ mRunnable = started
  /\ mRefCount = IF started THEN 2 ELSE 0
  /\ thread = IF started THEN "start" ELSE "gone"
  /\ task = TRUE
  /\ mQ = <<>> /\ unblocked = FALSE /\ woken = FALSE
  /\ owner = "using"
  /\ msg = NoMsg
  /\ accepted = <<>> /\ processed = <<>> /\ freed = {} /\ refused = {}
  /\ joins = mJoinable

-----------------------------------------------------------------------------
(* The queue, under its mutex.                                             *)

(* Mutant: only the end of the queue is signalled.                         *)
SignalEnd == woken' = (woken \/ (thread = "wait" /\ unblocked'))

SignalQueue == woken' = (woken \/ thread = "wait")

sendMsg(m) ==
  /\ task
  /\ m \notin Range(accepted) \cup refused
  /\ UNCHANGED <<task, delegateVars, unblocked, thread, owner, msg, processed, freed, joins>>
  /\ IF unblocked
     THEN refused' = refused \cup {m} /\ UNCHANGED <<mQ, woken, accepted>>
     ELSE /\ mQ' = Append(mQ, m) /\ accepted' = Append(accepted, m)
          /\ SignalQueue /\ UNCHANGED refused

(* Mutant: the receiver is not woken.                                      *)
UnblockQuietly == unblocked' = TRUE /\ UNCHANGED woken

Unblock == unblocked' = TRUE /\ SignalQueue

(* An empty queue, after it was unblocked, is a failure, which ends the    *)
(* loop of the thread.                                                     *)
linked_list_remove ==
  \/ /\ mQ # <<>> /\ thread' = "proc"
     /\ msg' = Head(mQ) /\ mQ' = Tail(mQ)
  \/ /\ mQ = <<>> /\ thread' = "clear"
     /\ UNCHANGED <<msg, mQ>>

-----------------------------------------------------------------------------
(* LocThreadDelegate::destroy, by the thread or the owner, whose place it  *)
(* is given as `at'.  The delegate is deleted after the mutex is released. *)

(* Mutant: the count is compared after it was decremented.                 *)
DestroyPreDecrement(at, at2) ==
  \/ /\ at = "check"
     /\ at2 = IF mRefCount > 0 THEN "drop" ELSE "gone"
     /\ UNCHANGED <<mRefCount, delegate>>
  \/ /\ at = "drop"
     /\ at2 = IF mRefCount - 1 = 1 THEN "deleteDelegate" ELSE "gone"
     /\ mRefCount' = mRefCount - 1
     /\ UNCHANGED delegate
  \/ /\ at = "deleteDelegate" /\ at2 = "gone"
     /\ delegate' = FALSE
     /\ UNCHANGED mRefCount

Destroy(at, at2) ==
  \/ /\ at = "check"
     /\ at2 = IF mRefCount > 0 THEN "drop" ELSE "gone"
     /\ UNCHANGED <<mRefCount, delegate>>
  \/ /\ at = "drop"
     /\ at2 = IF mRefCount = 1 THEN "deleteDelegate" ELSE "gone"
     /\ mRefCount' = mRefCount - 1
     /\ UNCHANGED delegate
  \/ /\ at = "deleteDelegate" /\ at2 = "gone"
     /\ delegate' = FALSE
     /\ UNCHANGED mRefCount

-----------------------------------------------------------------------------
(* The thread: threadMain, with MsgTask::run as the body of its loop.      *)

ThreadOnly == UNCHANGED <<started, mJoinable, unblocked, owner, accepted, refused, joins>>

Start ==
  /\ thread = "start"
  /\ thread' = IF mRunnable THEN "loop" ELSE "check"
  /\ UNCHANGED <<task, delegate, mRunnable, mRefCount, mQ, woken, msg, processed, freed>>
  /\ ThreadOnly

Loop ==
  /\ thread = "loop"
  /\ thread' = IF mRunnable THEN "receive" ELSE "clear"
  /\ UNCHANGED <<task, delegate, mRunnable, mRefCount, mQ, woken, msg, processed, freed>>
  /\ ThreadOnly

Receive ==
  /\ thread = "receive"
  /\ \/ /\ unblocked /\ thread' = "clear" /\ UNCHANGED <<mQ, msg>>
     \/ /\ ~unblocked /\ mQ = <<>> /\ thread' = "wait" /\ UNCHANGED <<mQ, msg>>
     \/ /\ ~unblocked /\ mQ # <<>> /\ linked_list_remove
  /\ UNCHANGED <<task, delegate, mRunnable, mRefCount, woken, processed, freed>>
  /\ ThreadOnly

WakeUp ==
  /\ thread = "wait" /\ woken
  /\ woken' = FALSE
  /\ mQ # <<>> \/ unblocked
  /\ linked_list_remove
  /\ UNCHANGED <<task, delegate, mRunnable, mRefCount, processed, freed>>
  /\ ThreadOnly

Proc ==
  /\ thread = "proc" /\ thread' = "loop"
  /\ processed' = Append(processed, msg)
  /\ msg' = NoMsg
  /\ UNCHANGED <<task, delegate, mRunnable, mRefCount, mQ, woken, freed>>
  /\ ThreadOnly

Clear ==
  /\ thread = "clear" /\ thread' = "delete"
  /\ mRunnable' = FALSE
  /\ UNCHANGED <<task, delegate, mRefCount, mQ, woken, msg, processed, freed>>
  /\ ThreadOnly

(* Mutant: the queue is destroyed without being flushed.                   *)
DeleteTaskUnflushed == task' = FALSE /\ UNCHANGED <<mQ, freed>>

(* ~MsgTask: what is left in the queue is freed.                           *)
DeleteTask ==
  /\ task' = FALSE
  /\ mQ' = <<>>
  /\ freed' = freed \cup Range(mQ)

Delete ==
  /\ thread = "delete" /\ thread' = "check"
  /\ DeleteTask
  /\ UNCHANGED <<delegate, mRunnable, mRefCount, woken, msg, processed>>
  /\ ThreadOnly

ThreadDestroys ==
  /\ Destroy(thread, thread')
  /\ UNCHANGED <<task, mRunnable, mQ, woken, msg, processed, freed>>
  /\ ThreadOnly

Thread == Start \/ Loop \/ Receive \/ WakeUp \/ Proc \/ Clear \/ Delete \/ ThreadDestroys

-----------------------------------------------------------------------------
(* The owner: MsgTask::destroy.                                            *)

OwnerOnly == UNCHANGED <<started, thread, msg, accepted, processed, refused, joins>>

destroy ==
  /\ owner = "using" /\ owner' = "unblocked"
  /\ Unblock
  /\ UNCHANGED <<task, delegate, mRunnable, mJoinable, mRefCount, mQ, freed>>
  /\ OwnerOnly

DeleteThread ==
  /\ owner = "unblocked"
  /\ IF started THEN owner' = "bye" /\ UNCHANGED <<task, mQ, freed>>
     ELSE owner' = "gone" /\ DeleteTask
  /\ UNCHANGED <<delegate, mRunnable, mJoinable, mRefCount, unblocked, woken>>
  /\ OwnerOnly

(* LocThreadDelegate::bye and stop.                                        *)
bye ==
  /\ owner = "bye"
  /\ owner' = IF mJoinable THEN "stop" ELSE "check"
  /\ UNCHANGED <<task, delegate, mRunnable, mJoinable, mRefCount, queueVars, freed>>
  /\ OwnerOnly

stop ==
  /\ owner = "stop" /\ owner' = "join"
  /\ mRunnable' = FALSE /\ mJoinable' = FALSE
  /\ UNCHANGED <<task, delegate, mRefCount, queueVars, freed>>
  /\ OwnerOnly

Join ==
  /\ owner = "join" /\ owner' = "check"
  /\ thread = "gone"
  /\ UNCHANGED <<task, delegate, mRunnable, mJoinable, mRefCount, queueVars, freed>>
  /\ OwnerOnly

OwnerDestroys ==
  /\ Destroy(owner, owner')
  /\ UNCHANGED <<task, mRunnable, mJoinable, queueVars, freed>>
  /\ OwnerOnly

OwnerEnds == DeleteThread \/ bye \/ stop \/ Join \/ OwnerDestroys

MsgNext == (\E m \in Msgs : sendMsg(m)) \/ Thread \/ destroy \/ OwnerEnds

(* The scheduler runs both threads; the owner need not destroy the task.   *)
Fairness == WF_msgVars(Thread) /\ WF_msgVars(OwnerEnds)

MsgSpec  == MsgInit /\ [][MsgNext]_msgVars
FairSpec == MsgSpec /\ Fairness

-----------------------------------------------------------------------------
(* Types of the state.                                                     *)
MsgTypeOK ==
  /\ {started, task, delegate, mRunnable, mJoinable, unblocked, woken, joins} \subseteq BOOLEAN
  /\ mRefCount \in 0 .. 2
  /\ mQ \in Seq(Msgs) /\ msg \in Msgs \cup {NoMsg}
  /\ thread \in ThreadAt /\ owner \in OwnerAt
  /\ accepted \in Seq(Msgs) /\ processed \in Seq(Msgs)
  /\ freed \subseteq Msgs /\ refused \subseteq Msgs

(* The delegate is deleted when neither the thread nor the owner will look *)
(* at it again, and then it is deleted: LocThread.cpp:150 "we delete this  *)
(* obj when mRefCount becomes 0".                                          *)
DelegateOutlivesUsers ==
  started => (~delegate <=> thread = "gone" /\ owner = "gone")

(* When destroy returns for a joinable task its thread is over: nothing    *)
(* that a message refers to is touched any more.                           *)
JoinedBeforeReturn == owner = "gone" /\ joins => thread = "gone"

(* A message the queue took is in one place, and messages are processed in *)
(* the order they were taken; what the end of the task interrupts is freed *)
(* and not lost.                                                           *)
EachMessageOnce ==
  LET inHand == IF msg = NoMsg THEN <<>> ELSE <<msg>>
  IN /\ IsPrefix(processed \o inHand \o mQ, accepted)
     /\ Range(accepted) \ Range(processed \o inHand \o mQ) = freed
     /\ ~task => mQ = <<>>

(* The thread deletes the task exactly when it got to see it; an owner     *)
(* that stopped a joinable thread before it began leaves the task behind.  *)
LeakedOnlyIfNeverRan ==
  thread = "gone" /\ owner = "gone" /\ task => joins /\ processed = <<>>

(* destroy returns.                                                        *)
DestroyReturns == owner # "using" ~> owner = "gone"

(* A message that was taken by the queue of a task that runs is processed, *)
(* or the task is destroyed.                                               *)
AcceptedIsProcessed ==
  \A m \in Msgs : started /\ m \in Range(accepted) ~> m \in Range(processed) \/ unblocked

(* The end of a task, whoever of thread and owner is first: the delegate   *)
(* outlives both, a joinable thread is over when destroy returns, and a    *)
(* task that ran is deleted.                                               *)
EndsWell == MsgTypeOK /\ DelegateOutlivesUsers /\ JoinedBeforeReturn /\ LeakedOnlyIfNeverRan
=============================================================================
