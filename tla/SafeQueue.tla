----------------------------- MODULE SafeQueue -----------------------------
(* mine_tracker/include/safe_queue.hpp as the tracker uses it: the HTTP    *)
(* threads push, the alert worker pops, the main thread stops the queue.   *)
(* Taking the mutex, the critical section with the release, and the        *)
(* notification after it are separate steps of a thread.                   *)
EXTENDS Integers, Sequences

CONSTANTS
  HttpThreads,   \* the threads of the HTTP server that push alerts
  Alerts,
  MaxPushes      \* bound: alerts pushed in one behaviour

ASSUME SafeQueueAssumption ==
  /\ HttpThreads \cap {"free", "worker", "main"} = {}
  /\ MaxPushes \in Nat

VARIABLES
  _queue,
  _stop,
  _mtx,          \* the thread that holds the mutex, or "free"
  http,          \* thread -> "idle", "locked" or "notify" inside push
  worker,        \* pop: "locking", "check", "waiting" on _cv, or "exited"
  main,          \* stop: "idle", "locked", "notify" or "done"
  popped,        \* history: the alerts the worker took
  before_stop    \* history: how many alerts had been pushed when _stop was set

queueVars == <<_queue, _stop, _mtx, http, worker, main, popped, before_stop>>

Pushed == Len(popped) + Len(_queue)

QueueInit ==
  /\ _queue = <<>>
  /\ _stop = FALSE
  /\ _mtx = "free"
  /\ http = [t \in HttpThreads |-> "idle"]
  /\ worker = "locking"
  /\ main = "idle"
  /\ popped = <<>>
  /\ before_stop = 0

Acquire(t) == _mtx = "free" /\ _mtx' = t
Release(t) == _mtx = t /\ _mtx' = "free"

\* Mutant: the notification is forgotten.
NotifyNobody == worker' = worker

\* _cv: the one thread that ever waits is woken, if it waits.
Notify == worker' = IF worker = "waiting" THEN "locking" ELSE worker

-----------------------------------------------------------------------------
(* push *)

PushLock(t) ==
  /\ http[t] = "idle"
  /\ Acquire(t)
  /\ http' = [http EXCEPT ![t] = "locked"]
  /\ UNCHANGED <<_queue, _stop, worker, main, popped, before_stop>>

\* Mutant: what is pushed is the value after it was moved from.
PushMovedFrom(t, a) ==
  /\ http[t] = "locked"
  /\ _queue' = Append(_queue, {})
  /\ Release(t)
  /\ http' = [http EXCEPT ![t] = "notify"]
  /\ UNCHANGED <<_stop, worker, main, popped, before_stop>>

Push(t, a) ==
  /\ http[t] = "locked"
  /\ _queue' = Append(_queue, a)
  /\ Release(t)
  /\ http' = [http EXCEPT ![t] = "notify"]
  /\ UNCHANGED <<_stop, worker, main, popped, before_stop>>

NotifyOne(t) ==
  /\ http[t] = "notify"
  /\ Notify
  /\ http' = [http EXCEPT ![t] = "idle"]
  /\ UNCHANGED <<_queue, _stop, _mtx, main, popped, before_stop>>

-----------------------------------------------------------------------------
(* pop *)

\* On entry, and again when _cv.wait returns.
PopLock ==
  /\ worker = "locking"
  /\ Acquire("worker")
  /\ worker' = "check"
  /\ UNCHANGED <<_queue, _stop, http, main, popped, before_stop>>

\* Mutant: the predicate of the wait forgets _stop.
ReadyIgnoresStop == _queue # <<>>

Ready == _queue # <<>> \/ _stop

\* The predicate is false: release the mutex and wait, in one step.
Wait ==
  /\ worker = "check"
  /\ ~Ready
  /\ Release("worker")
  /\ worker' = "waiting"
  /\ UNCHANGED <<_queue, _stop, http, main, popped, before_stop>>

\* Mutant: the newest alert is taken.
PopNewest ==
  /\ worker = "check"
  /\ _queue # <<>>
  /\ popped' = Append(popped, _queue[Len(_queue)])
  /\ _queue' = SubSeq(_queue, 1, Len(_queue) - 1)
  /\ Release("worker")
  /\ worker' = "locking"
  /\ UNCHANGED <<_stop, http, main, before_stop>>

\* pop returns true; the worker handles the alert and calls pop again.
Pop ==
  /\ worker = "check"
  /\ _queue # <<>>
  /\ popped' = Append(popped, Head(_queue))
  /\ _queue' = Tail(_queue)
  /\ Release("worker")
  /\ worker' = "locking"
  /\ UNCHANGED <<_stop, http, main, before_stop>>

\* Mutant: pop returns false as soon as _stop is set.
ExitOnStop ==
  /\ worker = "check"
  /\ _stop
  /\ Release("worker")
  /\ worker' = "exited"
  /\ UNCHANGED <<_queue, _stop, http, main, popped, before_stop>>

\* pop returns false and the worker's loop ends.
Exit ==
  /\ worker = "check"
  /\ _stop /\ _queue = <<>>
  /\ Release("worker")
  /\ worker' = "exited"
  /\ UNCHANGED <<_queue, _stop, http, main, popped, before_stop>>

SpuriousWakeup ==
  /\ worker = "waiting"
  /\ worker' = "locking"
  /\ UNCHANGED <<_queue, _stop, _mtx, http, main, popped, before_stop>>

-----------------------------------------------------------------------------
(* stop *)

StopLock ==
  /\ main = "idle"
  /\ Acquire("main")
  /\ main' = "locked"
  /\ UNCHANGED <<_queue, _stop, http, worker, popped, before_stop>>

SetStop ==
  /\ main = "locked"
  /\ _stop' = TRUE
  /\ before_stop' = Pushed
  /\ Release("main")
  /\ main' = "notify"
  /\ UNCHANGED <<_queue, http, worker, popped>>

NotifyAll ==
  /\ main = "notify"
  /\ Notify
  /\ main' = "done"
  /\ UNCHANGED <<_queue, _stop, _mtx, http, popped, before_stop>>

-----------------------------------------------------------------------------

InPush(t) == (\E a \in Alerts : Push(t, a)) \/ NotifyOne(t)
InPop     == PopLock \/ Wait \/ Pop \/ Exit
InStop    == SetStop \/ NotifyAll

QueueNext ==
  \/ \E t \in HttpThreads : (Pushed < MaxPushes /\ PushLock(t)) \/ InPush(t)
  \/ InPop \/ SpuriousWakeup
  \/ StopLock \/ InStop

\* A thread the system schedules finishes the call it is in; nothing makes a
\* client send an alert, or an operator stop the tracker.
QueueSpec ==
  /\ QueueInit /\ [][QueueNext]_queueVars
  /\ \A t \in HttpThreads : WF_queueVars(InPush(t))
  /\ WF_queueVars(InPop)
  /\ WF_queueVars(InStop)

-----------------------------------------------------------------------------
(* Properties *)

\* The type of the queue and of the threads that use it.
QueueTypeOK ==
  /\ _queue \in Seq(Alerts) /\ popped \in Seq(Alerts)
  /\ _stop \in BOOLEAN
  /\ _mtx \in HttpThreads \cup {"free", "worker", "main"}
  /\ http \in [HttpThreads -> {"idle", "locked", "notify"}]
  /\ worker \in {"locking", "check", "waiting", "exited"}
  /\ main \in {"idle", "locked", "notify", "done"}
  /\ before_stop \in Nat

\* No wakeup is lost: while the worker sleeps on _cv and there is something for
\* it to do, a thread is about to notify it.  push and stop change the predicate
\* under the mutex for this reason, and notify after they have released it.
NoLostWakeup ==
  worker = "waiting" /\ Ready =>
    main = "notify" \/ \E t \in HttpThreads : http[t] = "notify"

\* The worker drains the queue before it exits: it has taken every alert that
\* was pushed before stop (pop tests _stop only together with the empty queue).
DrainedAtExit == worker = "exited" => Len(popped) >= before_stop

\* The queue implements the channel its users rely on.
Channel == INSTANCE AlertChannel
  WITH pending <- _queue, received <- popped, closed <- _stop,
       ended <- (worker = "exited")

ImplementsChannel == Channel!ChannelSpec
=============================================================================
