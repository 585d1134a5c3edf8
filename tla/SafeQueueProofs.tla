-------------------------- MODULE SafeQueueProofs --------------------------
(* Theorems about SafeQueue, for every set of HTTP threads and alerts.     *)
EXTENDS SafeQueue, SequenceTheorems, TLAPS

\* The mutex is held by the thread whose critical section runs.
MutexInv ==
  /\ worker = "check" <=> _mtx = "worker"
  /\ main = "locked" <=> _mtx = "main"
  /\ \A t \in HttpThreads : http[t] = "locked" <=> _mtx = t

\* What stop saw in the queue is still in it, or was taken.
StopInv ==
  /\ _stop => before_stop <= Pushed
  /\ _stop <=> main \in {"notify", "done"}
  /\ worker = "exited" => _stop

QueueIInv == QueueTypeOK /\ MutexInv /\ NoLostWakeup /\ StopInv /\ DrainedAtExit

\* The queue is empty at first.
LEMMA QueueInitIInv == QueueInit => QueueIInv
<1> SUFFICES ASSUME QueueInit PROVE QueueIInv OBVIOUS
<1>1. <<>> \in Seq(Alerts) /\ 0 \in Nat BY SMT
<1>2. QueueTypeOK BY <1>1 DEF QueueInit, QueueTypeOK
<1>3. MutexInv BY SafeQueueAssumption DEF QueueInit, MutexInv
<1>4. NoLostWakeup /\ StopInv /\ DrainedAtExit
  BY DEF QueueInit, NoLostWakeup, StopInv, DrainedAtExit
<1> QED BY <1>2, <1>3, <1>4 DEF QueueIInv

\* The length of the two sequences as numbers.
LEMMA PushedNat ==
  ASSUME QueueTypeOK
  PROVE  Len(_queue) \in Nat /\ Len(popped) \in Nat /\ Pushed \in Nat
BY LenProperties, SMT DEF QueueTypeOK, Pushed

\* Every step of push keeps the invariant.
LEMMA PushIInv ==
  ASSUME QueueIInv, NEW t \in HttpThreads, PushLock(t) \/ InPush(t)
  PROVE  QueueIInv'
<1> USE SafeQueueAssumption DEF Acquire, Release
<1>1. CASE PushLock(t)
  BY <1>1 DEF PushLock, QueueIInv, QueueTypeOK, MutexInv, NoLostWakeup, Ready,
              StopInv, DrainedAtExit, Pushed
<1>2. CASE \E a \in Alerts : Push(t, a)
  <2>1. PICK a \in Alerts : Push(t, a) BY <1>2
  <2>2. /\ _queue' \in Seq(Alerts)
        /\ Len(_queue') = Len(_queue) + 1
    BY <2>1, AppendProperties DEF Push, QueueIInv, QueueTypeOK
  <2>3. http'[t] = "notify" /\ http' \in [HttpThreads -> {"idle", "locked", "notify"}]
    BY <2>1 DEF Push, QueueIInv, QueueTypeOK
  <2>4. QueueTypeOK' BY <2>1, <2>2, <2>3 DEF Push, QueueIInv, QueueTypeOK
  <2>5. MutexInv' BY <2>1 DEF Push, QueueIInv, QueueTypeOK, MutexInv
  <2>6. NoLostWakeup' BY <2>3 DEF NoLostWakeup
  <2>7. StopInv'
    <3>1. Pushed' = Pushed + 1
      BY <2>1, <2>2, PushedNat, SMT DEF Push, Pushed, QueueIInv
    <3>2. before_stop \in Nat /\ Pushed \in Nat BY PushedNat DEF QueueIInv, QueueTypeOK
    <3>3. \A m, n \in Nat : m <= n => m <= n + 1 BY SMT
    <3> QED BY <2>1, <3>1, <3>2, <3>3 DEF Push, QueueIInv, StopInv
  <2>8. DrainedAtExit' BY <2>1 DEF Push, QueueIInv, DrainedAtExit
  <2> QED BY <2>4, <2>5, <2>6, <2>7, <2>8 DEF QueueIInv
<1>3. CASE NotifyOne(t)
  BY <1>3 DEF NotifyOne, Notify, QueueIInv, QueueTypeOK, MutexInv, NoLostWakeup, Ready,
              StopInv, DrainedAtExit, Pushed
<1> QED BY <1>1, <1>2, <1>3 DEF InPush

\* Every step of pop keeps the invariant.
LEMMA PopIInv ==
  ASSUME QueueIInv, InPop \/ SpuriousWakeup
  PROVE  QueueIInv'
<1> USE SafeQueueAssumption DEF Acquire, Release
<1>1. CASE PopLock
  BY <1>1 DEF PopLock, QueueIInv, QueueTypeOK, MutexInv, NoLostWakeup, Ready,
              StopInv, DrainedAtExit, Pushed
<1>2. CASE Wait
  BY <1>2 DEF Wait, QueueIInv, QueueTypeOK, MutexInv, NoLostWakeup, Ready,
              StopInv, DrainedAtExit, Pushed
<1>3. CASE Pop
  <2>1. /\ _queue \in Seq(Alerts) /\ popped \in Seq(Alerts) /\ _queue # <<>>
        /\ popped' = Append(popped, Head(_queue))
        /\ _queue' = Tail(_queue)
        /\ worker' = "locking"
        /\ UNCHANGED <<_stop, http, main, before_stop>>
    BY <1>3 DEF Pop, QueueIInv, QueueTypeOK
  <2>2. Head(_queue) \in Alerts /\ _queue' \in Seq(Alerts) /\ Len(_queue') = Len(_queue) - 1
    BY <2>1, HeadTailProperties
  <2>3. popped' \in Seq(Alerts) /\ Len(popped') = Len(popped) + 1
    BY <2>1, <2>2, AppendProperties
  <2>4. Pushed' = Pushed
    BY <2>2, <2>3, PushedNat, SMT DEF Pushed, QueueIInv
  <2>5. QueueTypeOK' BY <1>3, <2>1, <2>2, <2>3 DEF Pop, QueueIInv, QueueTypeOK
  <2>6. MutexInv' BY <1>3 DEF Pop, QueueIInv, QueueTypeOK, MutexInv
  <2>7. NoLostWakeup' /\ DrainedAtExit' BY <2>1 DEF NoLostWakeup, DrainedAtExit
  <2>8. StopInv' BY <2>1, <2>4 DEF QueueIInv, StopInv
  <2> QED BY <2>5, <2>6, <2>7, <2>8 DEF QueueIInv
<1>4. CASE Exit
  <2>1. Len(_queue) = 0 BY <1>4, EmptySeq DEF Exit
  <2>2. Pushed = Len(popped) BY <2>1, PushedNat, SMT DEF Pushed, QueueIInv
  <2>3. before_stop <= Len(popped) BY <1>4, <2>2 DEF Exit, QueueIInv, StopInv
  <2>4. \A m, n \in Nat : m <= n => n >= m BY SMT
  <2>5. before_stop \in Nat /\ Len(popped) \in Nat BY PushedNat DEF QueueIInv, QueueTypeOK
  <2>6. DrainedAtExit' BY <1>4, <2>3, <2>4, <2>5 DEF Exit, DrainedAtExit
  <2>7. QueueTypeOK' /\ MutexInv' /\ NoLostWakeup' /\ StopInv'
    BY <1>4 DEF Exit, QueueIInv, QueueTypeOK, MutexInv, NoLostWakeup, Ready, StopInv, Pushed
  <2> QED BY <2>6, <2>7 DEF QueueIInv
<1>5. CASE SpuriousWakeup
  BY <1>5 DEF SpuriousWakeup, QueueIInv, QueueTypeOK, MutexInv, NoLostWakeup, Ready,
              StopInv, DrainedAtExit, Pushed
<1> QED BY <1>1, <1>2, <1>3, <1>4, <1>5 DEF InPop

\* Every step of stop keeps the invariant.
LEMMA StopIInv ==
  ASSUME QueueIInv, StopLock \/ InStop
  PROVE  QueueIInv'
<1> USE SafeQueueAssumption DEF Acquire, Release
<1>1. CASE StopLock
  BY <1>1 DEF StopLock, QueueIInv, QueueTypeOK, MutexInv, NoLostWakeup, Ready,
              StopInv, DrainedAtExit, Pushed
<1>2. CASE SetStop
  <2>1. Pushed \in Nat /\ Pushed' = Pushed BY <1>2, PushedNat DEF SetStop, Pushed, QueueIInv
  <2>2. Pushed <= Pushed BY <2>1, SMT
  <2>3. QueueTypeOK' BY <1>2, <2>1 DEF SetStop, QueueIInv, QueueTypeOK
  <2>4. MutexInv' BY <1>2 DEF SetStop, QueueIInv, QueueTypeOK, MutexInv
  <2>5. NoLostWakeup' BY <1>2 DEF SetStop, NoLostWakeup
  <2>6. worker # "exited"
    <3> SUFFICES ASSUME worker = "exited" PROVE FALSE OBVIOUS
    <3>1. main = "locked" BY <1>2 DEF SetStop
    <3> QED BY <1>2, <3>1 DEF SetStop, QueueIInv, StopInv
  <2>7. StopInv' /\ DrainedAtExit'
    BY <1>2, <2>1, <2>2, <2>6 DEF SetStop, StopInv, DrainedAtExit
  <2> QED BY <2>3, <2>4, <2>5, <2>7 DEF QueueIInv
<1>3. CASE NotifyAll
  BY <1>3 DEF NotifyAll, Notify, QueueIInv, QueueTypeOK, MutexInv, NoLostWakeup, Ready,
              StopInv, DrainedAtExit, Pushed
<1> QED BY <1>1, <1>2, <1>3 DEF InStop

\* Every step inside push, pop and stop preserves the inductive invariant.
LEMMA QueueNextIInv == QueueIInv /\ [QueueNext]_queueVars => QueueIInv'
<1>1. QueueIInv /\ UNCHANGED queueVars => QueueIInv'
  BY DEF queueVars, QueueIInv, QueueTypeOK, MutexInv, NoLostWakeup, Ready, StopInv,
         DrainedAtExit, Pushed
<1> QED BY <1>1, PushIInv, PopIInv, StopIInv DEF QueueNext

\* The inductive invariant holds in every reachable state.
THEOREM QueueInvariant == QueueSpec => []QueueIInv
BY QueueInitIInv, QueueNextIInv, PTL DEF QueueSpec

\* The queue is well typed, with any number of HTTP threads.
THEOREM QueueTypeCorrect == QueueSpec => []QueueTypeOK
<1>1. QueueIInv => QueueTypeOK BY DEF QueueIInv
<1> QED BY <1>1, QueueInvariant, PTL

\* The worker is never left asleep on _cv with an alert, or the order to stop,
\* that nobody will notify it of.
THEOREM WakeupNeverLost == QueueSpec => []NoLostWakeup
<1>1. QueueIInv => NoLostWakeup BY DEF QueueIInv
<1> QED BY <1>1, QueueInvariant, PTL

\* When the worker has exited it has taken every alert pushed before stop.
THEOREM AlwaysDrainedAtExit == QueueSpec => []DrainedAtExit
<1>1. QueueIInv => DrainedAtExit BY DEF QueueIInv
<1> QED BY <1>1, QueueInvariant, PTL

-----------------------------------------------------------------------------
(* Refinement *)

\* Every step of the queue is a step of the channel, or changes nothing of it.
LEMMA QueueStepsAreChannelSteps ==
  QueueIInv /\ [QueueNext]_queueVars => [Channel!ChannelNext]_Channel!channelVars
<1> SUFFICES ASSUME QueueIInv, [QueueNext]_queueVars
             PROVE  [Channel!ChannelNext]_Channel!channelVars
  OBVIOUS
<1>1. CASE \E t \in HttpThreads, a \in Alerts : Push(t, a)
  <2>1. PICK t \in HttpThreads, a \in Alerts : Push(t, a) BY <1>1
  <2>2. Channel!Send(a) BY <2>1 DEF Push, Channel!Send
  <2> QED BY <2>2 DEF Channel!ChannelNext
<1>2. CASE Pop
  BY <1>2 DEF Pop, Channel!Receive, Channel!ChannelNext
<1>3. CASE Exit
  BY <1>3 DEF Exit, Channel!End, Channel!ChannelNext
<1>4. CASE SetStop
  BY <1>4 DEF SetStop, Channel!Close, Channel!ChannelNext
<1>5. CASE \E t \in HttpThreads : PushLock(t) \/ NotifyOne(t)
  BY <1>5 DEF PushLock, NotifyOne, Notify, Channel!channelVars
<1>6. CASE PopLock \/ Wait \/ SpuriousWakeup
  BY <1>6 DEF PopLock, Wait, SpuriousWakeup, Channel!channelVars
<1>7. CASE StopLock \/ NotifyAll
  BY <1>7 DEF StopLock, NotifyAll, Notify, Channel!channelVars
<1>8. CASE UNCHANGED queueVars
  BY <1>8 DEF queueVars, Channel!channelVars
<1> QED
  BY <1>1, <1>2, <1>3, <1>4, <1>5, <1>6, <1>7, <1>8
  DEF QueueNext, InPush, InPop, InStop

\* The queue keeps the promise of AlertChannel: alerts are taken once and in
\* order, and pop returns false only when the stopped queue is empty.
THEOREM QueueImplementsChannel == QueueSpec => Channel!ChannelSafety
<1>1. QueueInit => Channel!ChannelInit
  BY DEF QueueInit, Channel!ChannelInit
<1> QED
  BY <1>1, QueueStepsAreChannelSteps, QueueInvariant, PTL
  DEF QueueSpec, Channel!ChannelSafety
=============================================================================
