------------------------------ MODULE LocTimer ------------------------------
(***************************************************************************)
(* The timers of the GPS library: LocTimer.cpp, over LocHeap.cpp.          *)
(*                                                                         *)
(* A client starts and stops a LocTimer from its own thread.  Each start   *)
(* creates a LocTimerDelegate, which the message thread puts into a heap   *)
(* and takes out again.  A timer descriptor of the kernel is armed for the *)
(* soonest of them; the poll thread waits for it, disarms it and posts an  *)
(* expire message.  The message thread then pops timers and calls their    *)
(* clients back.  The two threads share the descriptor and the poll set    *)
(* without a lock: each of their system calls is a step.                   *)
(*                                                                         *)
(* Left out: the second container (alarms), which shares the threads only; *)
(* a client that is deleted while its timer expires; loc_timer_start and   *)
(* loc_timer_stop, which wrap a LocTimer.                                  *)
(***************************************************************************)
EXTENDS LocHeap, Sequences, FiniteSets, TLC

CONSTANTS Clients,    \* LocTimer objects
          NoClient,
          Delays,     \* times they are started with
          MaxStarts,  \* bound: delegates created
          MaxTime     \* bound: the clock

ASSUME TimerAssumption ==
  /\ NoClient \notin Clients
  /\ Delays \subseteq Nat \ {0}
  /\ MaxStarts \in Nat /\ MaxTime \in Nat

VARIABLES now,       \* CLOCK_BOOTTIME
          mTimer,    \* LocTimer::mTimer of each client, 0 for NULL
          created,   \* number of delegates created: 1 .. created exist
          mClient,   \* LocTimerDelegate::mClient of each
          due,       \* LocTimerDelegate::mFutureTime of each
          deleted,   \* delegates that were deleted
          mTree,     \* the container's heap
          msgs,      \* queue of the message thread
          fd,        \* time the descriptor is armed for, 0 when disarmed
          polled,    \* it is in the poll set
          poll,      \* where the poll thread is
          task,      \* where the message thread is
          stopped,   \* history: delegates stopped otherwise than by their own expiry
          armed,     \* history: the delegate the descriptor is armed for
          woke       \* history: the one the poll thread woke for

clientVars == <<mTimer, created, mClient, due>>
kernelVars == <<fd, polled, armed>>
pollVars   == <<poll, woke>>
vars == <<now, mTimer, created, mClient, due, deleted, mTree, msgs, fd, polled,
          poll, task, stopped, armed, woke>>

Delegates == 1 .. MaxStarts

(* Why an expiry is posted: for the delegate the descriptor was armed for, *)
(* if no earlier expiry has or may have taken it.  A history: no action    *)
(* reads it.                                                               *)
Nobody  == 0
Second  == MaxStarts + 1
Causes  == Delegates \cup {Nobody, Second}
Message == [op : {"push", "remove"}, d : Delegates] \cup [op : {"expire"}, by : Causes]

(* The message thread: the message it handles, and what is next in it: the *)
(* system calls of updateSoonestTime, or the steps of an expiry.           *)
Rest   == [at |-> "idle"]
TaskAt == {"idle", "addPoll", "settime", "expire", "stop", "next"}

Elem(d) == [id |-> d, due |-> due[d]]
Soonest == IF mTree = Nil THEN 0 ELSE mTree.data.id

Init ==
  /\ now = 0
  /\ mTimer = [c \in Clients |-> 0]
  /\ created = 0
  /\ mClient = [d \in Delegates |-> NoClient]
  /\ due = [d \in Delegates |-> 0]
  /\ deleted = {}
  /\ mTree = Nil
  /\ msgs = <<>>
  /\ fd = 0 /\ polled = FALSE
  /\ poll = "wait"
  /\ task = Rest
  /\ stopped = {}
  /\ armed = Nobody /\ woke = Nobody

Tick ==
  /\ now < MaxTime
  /\ now' = now + 1
  /\ UNCHANGED <<clientVars, kernelVars, pollVars, deleted, mTree, msgs, task, stopped>>

-----------------------------------------------------------------------------
(* The clients.                                                            *)

start(c, delay) ==
  /\ mTimer[c] = 0
  /\ created < MaxStarts /\ now + delay <= MaxTime
  /\ created' = created + 1
  /\ mTimer' = [mTimer EXCEPT ![c] = created']
  /\ mClient' = [mClient EXCEPT ![created'] = c]
  /\ due' = [due EXCEPT ![created'] = now + delay]
  /\ msgs' = Append(msgs, [op |-> "push", d |-> created'])
  /\ UNCHANGED <<now, kernelVars, pollVars, deleted, mTree, task, stopped>>

(* stop with destroyLocked, under the lock of the client.                  *)
Stopping(c) ==
  /\ mTimer[c] # 0
  /\ mTimer' = [mTimer EXCEPT ![c] = 0]
  /\ mClient' = [mClient EXCEPT ![mTimer[c]] = NoClient]
  /\ msgs' = Append(msgs, [op |-> "remove", d |-> mTimer[c]])

stop(c) ==
  /\ Stopping(c)
  /\ stopped' = stopped \cup {mTimer[c]}
  /\ UNCHANGED <<now, created, due, kernelVars, pollVars, deleted, mTree, task>>

-----------------------------------------------------------------------------
(* The poll thread: LocTimerPollTask::run and LocTimerContainer::expire.   *)

PollOnly == UNCHANGED <<now, clientVars, deleted, mTree, task, stopped>>

(* The descriptor is armed for a timer that is popped already (it is not   *)
(* disarmed when the heap becomes empty), or the message thread has an     *)
(* expiry to handle or in hand that may pop it.                            *)
EarlierExpiry ==
  \/ Elem(armed) \notin Elements(mTree)
  \/ \E n \in DOMAIN msgs : msgs[n].op = "expire"
  \/ task.at \in {"expire", "stop", "next"}

PollWakes ==
  /\ poll = "wait" /\ polled /\ fd # 0 /\ fd <= now
  /\ poll' = "disarm"
  /\ woke' = IF EarlierExpiry THEN Second ELSE armed
  /\ UNCHANGED <<kernelVars, msgs>> /\ PollOnly

PollDisarms ==
  /\ poll = "disarm" /\ poll' = "removePoll"
  /\ fd' = 0 /\ armed' = Nobody
  /\ UNCHANGED <<polled, msgs, woke>> /\ PollOnly

PollRemoves ==
  /\ poll = "removePoll" /\ poll' = "post"
  /\ polled' = FALSE
  /\ UNCHANGED <<fd, armed, msgs, woke>> /\ PollOnly

PollPosts ==
  /\ poll = "post" /\ poll' = "wait"
  /\ msgs' = Append(msgs, [op |-> "expire", by |-> woke]) /\ woke' = Nobody
  /\ UNCHANGED kernelVars /\ PollOnly

-----------------------------------------------------------------------------
(* The message thread.                                                     *)

(* Mutant: the kernel is told only when there was no timer.                *)
UpdateSoonestIfFirst(tree, priorTop) ==
  IF tree # Nil /\ priorTop = 0
  THEN [at |-> "addPoll", d |-> tree.data.id] ELSE Rest

(* updateSoonestTime, given the tree and the delegate that was soonest     *)
(* before: when there is a sooner one the descriptor is polled, then set.  *)
(* The branch for a tree that became empty is never taken: it needs a      *)
(* prior top, which only an addition passes.                               *)
UpdateSoonest(tree, priorTop) ==
  IF tree # Nil /\ (priorTop = 0 \/ outRanks(tree.data, Elem(priorTop)))
  THEN [at |-> "addPoll", d |-> tree.data.id]
  ELSE Rest

Take(op) == task.at = "idle" /\ msgs # <<>> /\ Head(msgs).op = op /\ msgs' = Tail(msgs)

MsgTimerPush ==
  /\ Take("push")
  /\ mTree' = push(mTree, Elem(Head(msgs).d))
  /\ task' = UpdateSoonest(mTree', Soonest)
  /\ UNCHANGED <<now, clientVars, kernelVars, pollVars, deleted, stopped>>

(* A removal of the soonest: the kernel is told of the next one.  With an  *)
(* empty tree the comparison of two null pointers holds as well.           *)
MsgTimerRemove ==
  /\ Take("remove")
  /\ LET d       == Head(msgs).d
         removed == IF mTree' # mTree THEN d ELSE 0
     IN /\ mTree' = remove(mTree, Elem(d))
        /\ task' = IF Soonest = removed THEN UpdateSoonest(mTree', 0) ELSE Rest
        /\ deleted' = deleted \cup {d}
  /\ UNCHANGED <<now, clientVars, kernelVars, pollVars, stopped>>

AddPoll ==
  /\ task.at = "addPoll"
  /\ polled' = TRUE
  /\ task' = [task EXCEPT !.at = "settime"]
  /\ UNCHANGED <<now, clientVars, fd, armed, pollVars, deleted, mTree, msgs, stopped>>

(* Mutant: the time given to the kernel is rounded down.                   *)
SetTimeRounded ==
  /\ task.at = "settime"
  /\ fd' = due[task.d] - 1
  /\ armed' = task.d
  /\ task' = Rest
  /\ UNCHANGED <<now, clientVars, polled, pollVars, deleted, mTree, msgs, stopped>>

SetTime ==
  /\ task.at = "settime"
  /\ fd' = due[task.d]
  /\ armed' = task.d
  /\ task' = Rest
  /\ UNCHANGED <<now, clientVars, polled, pollVars, deleted, mTree, msgs, stopped>>

(* MsgTimerExpire::proc: the first timer is popped whatever its time, then *)
(* each that is due at the time read before; in the end updateSoonestTime. *)
Popping(at, cause) ==
  /\ mTree' = pop(mTree)
  /\ task' = [at |-> "expire", d |-> Soonest, time |-> at, by |-> cause]

MsgTimerExpire ==
  /\ Take("expire")
  /\ IF mTree = Nil THEN task' = Rest /\ UNCHANGED mTree ELSE Popping(now, Head(msgs).by)
  /\ UNCHANGED <<now, clientVars, kernelVars, pollVars, deleted, stopped>>

IsDue(t) == mTree # Nil /\ mTree.data.due <= t

PopIfOutRanks ==
  /\ task.at = "next"
  /\ IF IsDue(task.time) THEN Popping(task.time, Nobody)
     ELSE task' = UpdateSoonest(mTree, 0) /\ UNCHANGED mTree
  /\ UNCHANGED <<now, clientVars, kernelVars, pollVars, deleted, msgs, stopped>>

(* Mutant: a timer popped before its time is not expired.                  *)
ReadClientIfDue ==
  /\ task.at = "expire"
  /\ task' = IF mClient[task.d] = NoClient \/ due[task.d] > task.time
             THEN [at |-> "next", time |-> task.time]
             ELSE [task EXCEPT !.at = "stop"] @@ [c |-> mClient[task.d]]
  /\ UNCHANGED <<now, clientVars, kernelVars, pollVars, deleted, mTree, msgs, stopped>>

(* LocTimerDelegate::expire: the client is read without its lock ...       *)
ReadClient ==
  /\ task.at = "expire"
  /\ task' = IF mClient[task.d] = NoClient
             THEN [at |-> "next", time |-> task.time]
             ELSE [task EXCEPT !.at = "stop"] @@ [c |-> mClient[task.d]]
  /\ UNCHANGED <<now, clientVars, kernelVars, pollVars, deleted, mTree, msgs, stopped>>

(* ... then stopped, and called back if it was not stopped already.  By    *)
(* then its timer may be another one, which is stopped in place of this.   *)
CallBack ==
  /\ task.at = "stop"
  /\ task' = [at |-> "next", time |-> task.time]
  /\ stopped' = stopped \cup ({mTimer[task.c]} \ {0, task.d})
  /\ \/ Stopping(task.c)
     \/ mTimer[task.c] = 0 /\ UNCHANGED <<mTimer, mClient, msgs>>
  /\ UNCHANGED <<now, created, due, kernelVars, pollVars, deleted, mTree>>

-----------------------------------------------------------------------------
Client  == \E c \in Clients : stop(c) \/ \E t \in Delays : start(c, t)
Poll    == PollWakes \/ PollDisarms \/ PollRemoves \/ PollPosts
MsgTask == MsgTimerPush \/ MsgTimerRemove \/ MsgTimerExpire \/ PopIfOutRanks
           \/ AddPoll \/ SetTime \/ ReadClient \/ CallBack

Next == Tick \/ Client \/ Poll \/ MsgTask

(* Time passes and both threads run.  Clients owe nothing.                 *)
Fairness == WF_vars(Tick) /\ WF_vars(Poll) /\ WF_vars(MsgTask)

Spec     == Init /\ [][Next]_vars
FairSpec == Spec /\ Fairness

-----------------------------------------------------------------------------
(* Types; a delegate that exists, and what each thread is about to do.     *)
TypeOK ==
  /\ now \in 0 .. MaxTime
  /\ created \in 0 .. MaxStarts
  /\ mTimer \in [Clients -> 0 .. created]
  /\ mClient \in [Delegates -> Clients \cup {NoClient}]
  /\ due \in [Delegates -> 0 .. MaxTime]
  /\ deleted \subseteq 1 .. created
  /\ msgs \in Seq(Message)
  /\ fd \in 0 .. MaxTime /\ polled \in BOOLEAN
  /\ poll \in {"wait", "disarm", "removePoll", "post"}
  /\ task.at \in TaskAt
  /\ stopped \subseteq 1 .. created /\ armed \in Causes /\ woke \in Causes
  /\ checkNodes(mTree)

(* A delegate is deleted by its remove message, and nothing points at it   *)
(* any more: not its client, the heap, a message or an expiry under way.   *)
NoDanglingDelegate ==
  /\ \A x \in Elements(mTree) : x.id \notin deleted
  /\ \A n \in DOMAIN msgs : msgs[n].op # "expire" => msgs[n].d \notin deleted
  /\ \A c \in Clients : mTimer[c] \notin deleted
  /\ task.at = "expire" => task.d \notin deleted

(* With both threads at rest the kernel is armed for the soonest timer,    *)
(* although the poll thread may have disarmed it just after it was armed.  *)
ArmedForSoonest ==
  msgs = <<>> /\ task = Rest /\ poll = "wait" /\ mTree # Nil =>
    polled /\ fd = mTree.data.due

(* "Continuously pop the heap until the top node's timeout is in the       *)
(* future", LocTimer.cpp:353, is not what the code does: the first pop of  *)
(* an expire message looks at no time (369).  A client is called back      *)
(* before the time of its timer only                                       *)
(*   - if it stopped the timer that expired and started another between    *)
(*     the reading of the delegate and the call of stop (526), or          *)
(*   - by such a first pop, when the message came too late for the timer   *)
(*     it was posted for: that one was stopped, or the poll thread woke    *)
(*     for it beside another expiry.                                       *)
EarlyOnlyIfOvertaken ==
  task.at = "stop" =>
    LET d == mTimer[task.c] IN
      \/ d = 0 \/ due[d] <= task.time
      \/ d # task.d
      \/ task.by \in stopped \cup {Second}

(* A timer that was started is called back or stopped.                     *)
IsRunning(d) == \E c \in Clients : mTimer[c] = d
StartedTimerEnds == \A d \in Delegates : IsRunning(d) ~> ~IsRunning(d)

(* The heap keeps its order and its sizes (LocHeap::checkTree) through     *)
(* every push, pop and removal, and holds no deleted delegate.             *)
HeapIntact == TypeOK /\ NoDanglingDelegate
=============================================================================
