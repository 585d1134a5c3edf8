--------------------------- MODULE TrackerProofs ---------------------------
(* The safety of the tracker's shutdown, for any number of requests, and   *)
(* of its pins on the map, for any number of mines.                        *)
EXTENDS TrackerMain, MavlinkBroadcaster, WellFoundedInduction, TLAPS

AfterHttp   == {"joining worker", "joining udp", "joining heartbeat", "exited"}
AfterWorker == {"joining udp", "joining heartbeat", "exited"}

\* Before main has started its threads there is nothing to handle.
UnstartedInv ==
  /\ main = "starting" => http = "none"
  /\ http = "none" =>
       /\ main \in {"starting", "exited"}
       /\ udp = "none"
       /\ early = {}
       /\ \A a \in Alerts : handler[a] = "unsent"

\* What main has joined has ended, and what it has not reached is alive.
JoinedInv ==
  /\ main \notin AfterHttp => alive = Locals
  /\ main \in AfterHttp => http \in {"none", "ended"}
  /\ main = "joining worker" => alive = Locals \ {"http_server"}
  /\ main \in AfterWorker => ended \/ http = "none"
  /\ main \in {"joining udp", "joining heartbeat"} =>
       {"alert_queue", "udp_server"} \subseteq alive
  /\ main \in {"joining heartbeat", "exited"} => udp \in {"none", "ended"}

\* An alert pushed before the stop is received or still pending, and none is
\* pending when the worker ends.
EarlyInv ==
  /\ early \subseteq Range(received) \cup Range(pending)
  /\ ended => closed /\ early \subseteq Range(received)

\* close finds the socket shut, so that no thread is in recvfrom on it.
ShutInv == main = "udp shut" => socket = "shut"

TrackerIInv == TrackerTypeOK /\ UnstartedInv /\ JoinedInv /\ EarlyInv /\ ShutInv

-----------------------------------------------------------------------------
(* The range of a queue *)

LEMMA RangeEmpty == Range(<<>>) = {}
BY DEF Range

LEMMA RangeAppend ==
  ASSUME NEW S, NEW s \in Seq(S), NEW a \in S
  PROVE  Append(s, a) \in Seq(S) /\ Range(Append(s, a)) = Range(s) \cup {a}
<1>1. /\ Append(s, a) \in Seq(S)
      /\ DOMAIN s = 1 .. Len(s) /\ DOMAIN Append(s, a) = 1 .. Len(s) + 1
  BY SMT
<1>2. /\ \A i \in 1 .. Len(s) : Append(s, a)[i] = s[i]
      /\ Append(s, a)[Len(s) + 1] = a
  BY SMT
<1>3. ASSUME NEW x \in Range(Append(s, a)) PROVE x \in Range(s) \cup {a}
  <2>1. PICK i \in 1 .. Len(s) + 1 : x = Append(s, a)[i] BY <1>1 DEF Range
  <2>2. i \in 1 .. Len(s) \/ i = Len(s) + 1 BY SMT
  <2> QED BY <1>1, <1>2, <2>1, <2>2 DEF Range
<1>4. ASSUME NEW x \in Range(s) \cup {a} PROVE x \in Range(Append(s, a))
  <2>1. Len(s) + 1 \in 1 .. Len(s) + 1 /\ 1 .. Len(s) \subseteq 1 .. Len(s) + 1 BY SMT
  <2> QED BY <1>1, <1>2, <2>1 DEF Range
<1> QED BY <1>1, <1>3, <1>4

LEMMA RangeTail ==
  ASSUME NEW S, NEW s \in Seq(S), s # <<>>
  PROVE  /\ Head(s) \in S /\ Tail(s) \in Seq(S)
         /\ Range(s) \subseteq {Head(s)} \cup Range(Tail(s))
<1>1. /\ Len(s) \in Nat \ {0} /\ Len(Tail(s)) = Len(s) - 1
      /\ Head(s) \in S /\ Tail(s) \in Seq(S)
  BY SMT
<1>2. /\ DOMAIN s = 1 .. Len(s) /\ DOMAIN Tail(s) = 1 .. Len(s) - 1
      /\ Head(s) = s[1]
      /\ \A i \in 1 .. Len(s) - 1 : Tail(s)[i] = s[i + 1]
  BY <1>1, SMT
<1> SUFFICES ASSUME NEW i \in 1 .. Len(s) PROVE s[i] \in {Head(s)} \cup Range(Tail(s))
  BY <1>1, <1>2 DEF Range
<1>3. CASE i = 1 BY <1>2, <1>3
<1>4. CASE i # 1
  <2>1. i - 1 \in 1 .. Len(s) - 1 /\ (i - 1) + 1 = i BY <1>1, <1>4, SMT
  <2>2. Tail(s)[i - 1] = s[i] BY <1>2, <2>1
  <2> QED BY <1>2, <2>1, <2>2 DEF Range
<1> QED BY <1>3, <1>4

-----------------------------------------------------------------------------

(* One lemma per action, with a step for each part of the invariant.       *)

USE DEF AfterHttp, AfterWorker, socketVars, channelVars

LEMMA TrackerStart == TrackerInit => TrackerIInv
<1> SUFFICES ASSUME TrackerInit PROVE TrackerIInv OBVIOUS
<1> USE DEF TrackerInit, Queue!ChannelInit
<1>1. TrackerTypeOK
  <2>1. <<>> \in Seq(Alerts) BY SMT
  <2> QED BY <2>1 DEF TrackerTypeOK, Stages, HeartbeatStates, UdpStates, HttpStates, HandlerStages, SocketStates
<1>2. UnstartedInv BY SMT DEF UnstartedInv
<1>3. JoinedInv BY DEF JoinedInv, Locals
<1>4. EarlyInv BY DEF EarlyInv
<1>5. ShutInv BY DEF ShutInv
<1> QED BY <1>1, <1>2, <1>3, <1>4, <1>5 DEF TrackerIInv



LEMMA StartStep ==
  ASSUME TrackerIInv, Start
  PROVE  TrackerIInv'
<1> USE DEF TrackerIInv, Start
<1>1. TrackerTypeOK'
  <2>1. main' \in Stages BY DEF TrackerTypeOK, Stages
  <2>2. heartbeat' \in HeartbeatStates BY DEF TrackerTypeOK, HeartbeatStates
  <2>3. udp' \in UdpStates BY DEF TrackerTypeOK, UdpStates
  <2>4. http' \in HttpStates BY DEF TrackerTypeOK, HttpStates
  <2>5. socket' \in SocketStates BY DEF TrackerTypeOK, SocketStates
  <2> QED BY <2>1, <2>2, <2>3, <2>4, <2>5 DEF TrackerTypeOK
<1>2. UnstartedInv' BY DEF UnstartedInv
<1>3. JoinedInv' BY DEF JoinedInv
<1>4. EarlyInv' BY DEF EarlyInv
<1>5. ShutInv' BY DEF ShutInv
<1> QED BY <1>1, <1>2, <1>3, <1>4, <1>5

LEMMA StartFailsStep ==
  ASSUME TrackerIInv, StartFails
  PROVE  TrackerIInv'
<1> USE DEF TrackerIInv, StartFails
<1>1. TrackerTypeOK'
  <2>1. main' \in Stages BY DEF TrackerTypeOK, Stages
  <2> QED BY <2>1 DEF TrackerTypeOK
<1>2. UnstartedInv' BY DEF UnstartedInv
<1>3. JoinedInv' BY DEF JoinedInv, UnstartedInv
<1>4. EarlyInv' BY DEF EarlyInv
<1>5. ShutInv' BY DEF ShutInv
<1> QED BY <1>1, <1>2, <1>3, <1>4, <1>5

LEMMA SignalStep ==
  ASSUME TrackerIInv, Signal
  PROVE  TrackerIInv'
<1> USE DEF TrackerIInv, Signal
<1>1. TrackerTypeOK' BY DEF TrackerTypeOK
<1>2. UnstartedInv' BY DEF UnstartedInv
<1>3. JoinedInv' BY DEF JoinedInv
<1>4. EarlyInv' BY DEF EarlyInv
<1>5. ShutInv' BY DEF ShutInv
<1> QED BY <1>1, <1>2, <1>3, <1>4, <1>5

LEMMA HeartbeatEndsStep ==
  ASSUME TrackerIInv, HeartbeatEnds
  PROVE  TrackerIInv'
<1> USE DEF TrackerIInv, HeartbeatEnds
<1>1. TrackerTypeOK'
  <2>1. heartbeat' \in HeartbeatStates BY DEF TrackerTypeOK, HeartbeatStates
  <2> QED BY <2>1 DEF TrackerTypeOK
<1>2. UnstartedInv' BY DEF UnstartedInv
<1>3. JoinedInv' BY DEF JoinedInv
<1>4. EarlyInv' BY DEF EarlyInv
<1>5. ShutInv' BY DEF ShutInv
<1> QED BY <1>1, <1>2, <1>3, <1>4, <1>5

LEMMA UdpLoopStep ==
  ASSUME TrackerIInv, UdpLoop
  PROVE  TrackerIInv'
<1> USE DEF TrackerIInv, UdpLoop, UdpStep
<1>1. TrackerTypeOK'
  <2>1. udp' \in UdpStates BY DEF TrackerTypeOK, UdpStates
  <2> QED BY <2>1 DEF TrackerTypeOK
<1>2. UnstartedInv' BY DEF UnstartedInv
<1>3. JoinedInv' BY DEF JoinedInv
<1>4. EarlyInv' BY DEF EarlyInv
<1>5. ShutInv' BY DEF ShutInv
<1> QED BY <1>1, <1>2, <1>3, <1>4, <1>5

LEMMA UdpTestStep ==
  ASSUME TrackerIInv, UdpTest
  PROVE  TrackerIInv'
<1> USE DEF TrackerIInv, UdpTest, UdpStep
<1>1. TrackerTypeOK'
  <2>1. udp' \in UdpStates BY DEF TrackerTypeOK, UdpStates
  <2> QED BY <2>1 DEF TrackerTypeOK
<1>2. UnstartedInv' BY DEF UnstartedInv
<1>3. JoinedInv' BY DEF JoinedInv
<1>4. EarlyInv' BY DEF EarlyInv
<1>5. ShutInv' BY DEF ShutInv
<1> QED BY <1>1, <1>2, <1>3, <1>4, <1>5

LEMMA UdpRecvfromStep ==
  ASSUME TrackerIInv, UdpRecvfrom
  PROVE  TrackerIInv'
<1> USE DEF TrackerIInv, UdpRecvfrom, UdpStep
<1>1. TrackerTypeOK'
  <2>1. udp' \in UdpStates BY DEF TrackerTypeOK, UdpStates
  <2> QED BY <2>1 DEF TrackerTypeOK
<1>2. UnstartedInv' BY DEF UnstartedInv
<1>3. JoinedInv' BY DEF JoinedInv
<1>4. EarlyInv' BY DEF EarlyInv
<1>5. ShutInv' BY DEF ShutInv
<1> QED BY <1>1, <1>2, <1>3, <1>4, <1>5

LEMMA UdpReceiveStep ==
  ASSUME TrackerIInv, UdpReceive
  PROVE  TrackerIInv'
<1> USE DEF TrackerIInv, UdpReceive, UdpStep
<1>1. TrackerTypeOK'
  <2>1. udp' \in UdpStates BY DEF TrackerTypeOK, UdpStates
  <2> QED BY <2>1 DEF TrackerTypeOK
<1>2. UnstartedInv' BY DEF UnstartedInv
<1>3. JoinedInv' BY DEF JoinedInv
<1>4. EarlyInv' BY DEF EarlyInv
<1>5. ShutInv' BY DEF ShutInv
<1> QED BY <1>1, <1>2, <1>3, <1>4, <1>5

LEMMA UdpForeignStep ==
  ASSUME TrackerIInv, UdpForeign
  PROVE  TrackerIInv'
<1> USE DEF TrackerIInv, UdpForeign, UdpStep
<1>1. TrackerTypeOK'
  <2>1. udp' \in UdpStates BY DEF TrackerTypeOK, UdpStates
  <2> QED BY <2>1 DEF TrackerTypeOK
<1>2. UnstartedInv' BY DEF UnstartedInv
<1>3. JoinedInv' BY DEF JoinedInv
<1>4. EarlyInv' BY DEF EarlyInv
<1>5. ShutInv' BY DEF ShutInv
<1> QED BY <1>1, <1>2, <1>3, <1>4, <1>5

LEMMA HttpServesStep ==
  ASSUME TrackerIInv, HttpServes
  PROVE  TrackerIInv'
<1> USE DEF TrackerIInv, HttpServes, HttpStep
<1>1. TrackerTypeOK'
  <2>1. http' \in HttpStates BY DEF TrackerTypeOK, HttpStates
  <2> QED BY <2>1 DEF TrackerTypeOK
<1>2. UnstartedInv' BY DEF UnstartedInv
<1>3. JoinedInv' BY DEF JoinedInv
<1>4. EarlyInv' BY DEF EarlyInv
<1>5. ShutInv' BY DEF ShutInv
<1> QED BY <1>1, <1>2, <1>3, <1>4, <1>5

LEMMA HttpFailsStep ==
  ASSUME TrackerIInv, HttpFails
  PROVE  TrackerIInv'
<1> USE DEF TrackerIInv, HttpFails
<1>1. TrackerTypeOK'
  <2>1. http' \in HttpStates BY DEF TrackerTypeOK, HttpStates
  <2> QED BY <2>1 DEF TrackerTypeOK
<1>2. UnstartedInv' BY DEF UnstartedInv
<1>3. JoinedInv' BY DEF JoinedInv
<1>4. EarlyInv' BY DEF EarlyInv
<1>5. ShutInv' BY DEF ShutInv
<1> QED BY <1>1, <1>2, <1>3, <1>4, <1>5

LEMMA HttpEndsStep ==
  ASSUME TrackerIInv, HttpEnds
  PROVE  TrackerIInv'
<1> USE DEF TrackerIInv, HttpEnds, HttpStep
<1>1. TrackerTypeOK'
  <2>1. http' \in HttpStates BY DEF TrackerTypeOK, HttpStates
  <2> QED BY <2>1 DEF TrackerTypeOK
<1>2. UnstartedInv' BY DEF UnstartedInv
<1>3. JoinedInv' BY DEF JoinedInv
<1>4. EarlyInv' BY DEF EarlyInv
<1>5. ShutInv' BY DEF ShutInv
<1> QED BY <1>1, <1>2, <1>3, <1>4, <1>5

LEMMA ReuseStep ==
  ASSUME TrackerIInv, Reuse
  PROVE  TrackerIInv'
<1> USE DEF TrackerIInv, Reuse
<1>1. TrackerTypeOK'
  <2>1. socket' \in SocketStates BY DEF TrackerTypeOK, SocketStates
  <2> QED BY <2>1 DEF TrackerTypeOK
<1>2. UnstartedInv' BY DEF UnstartedInv
<1>3. JoinedInv' BY DEF JoinedInv
<1>4. EarlyInv' BY DEF EarlyInv
<1>5. ShutInv' BY DEF ShutInv
<1> QED BY <1>1, <1>2, <1>3, <1>4, <1>5

LEMMA RequestStep ==
  ASSUME TrackerIInv, NEW a \in Alerts, Request(a)
  PROVE  TrackerIInv'
<1> USE DEF TrackerIInv, Request, HandlerStep
<1>1. TrackerTypeOK'
  <2>1. handler' \in [Alerts -> HandlerStages] BY DEF TrackerTypeOK, HandlerStages
  <2> QED BY <2>1 DEF TrackerTypeOK
<1>2. UnstartedInv' BY DEF UnstartedInv
<1>3. JoinedInv' BY DEF JoinedInv
<1>4. EarlyInv' BY DEF EarlyInv
<1>5. ShutInv' BY DEF ShutInv
<1> QED BY <1>1, <1>2, <1>3, <1>4, <1>5

LEMMA PushAlertStep ==
  ASSUME TrackerIInv, NEW a \in Alerts, PushAlert(a)
  PROVE  TrackerIInv'
<1> USE DEF TrackerIInv, PushAlert, HandlerStep, Queue!Send
<1>1. TrackerTypeOK'
  <2>1. handler' \in [Alerts -> HandlerStages] BY DEF TrackerTypeOK, HandlerStages
  <2>2. pending' \in Seq(Alerts) BY RangeAppend DEF TrackerTypeOK
  <2> QED BY <2>1, <2>2 DEF TrackerTypeOK
<1>2. UnstartedInv' BY DEF UnstartedInv
<1>3. JoinedInv' BY DEF JoinedInv
<1>4. EarlyInv'
  <2>1. pending \in Seq(Alerts) /\ pending' = Append(pending, a) BY DEF TrackerTypeOK
  <2>2. Range(Append(pending, a)) = Range(pending) \cup {a} BY <2>1, RangeAppend
  <2> QED BY <2>1, <2>2 DEF EarlyInv
<1>5. ShutInv' BY DEF ShutInv
<1> QED BY <1>1, <1>2, <1>3, <1>4, <1>5

LEMMA SkipCallbackStep ==
  ASSUME TrackerIInv, NEW a \in Alerts, SkipCallback(a)
  PROVE  TrackerIInv'
<1> USE DEF TrackerIInv, SkipCallback, HandlerStep
<1>1. TrackerTypeOK'
  <2>1. handler' \in [Alerts -> HandlerStages] BY DEF TrackerTypeOK, HandlerStages
  <2> QED BY <2>1 DEF TrackerTypeOK
<1>2. UnstartedInv' BY DEF UnstartedInv
<1>3. JoinedInv' BY DEF JoinedInv
<1>4. EarlyInv' BY DEF EarlyInv
<1>5. ShutInv' BY DEF ShutInv
<1> QED BY <1>1, <1>2, <1>3, <1>4, <1>5

LEMMA AnswerStep ==
  ASSUME TrackerIInv, NEW a \in Alerts, Answer(a)
  PROVE  TrackerIInv'
<1> USE DEF TrackerIInv, Answer, HandlerStep
<1>1. TrackerTypeOK'
  <2>1. handler' \in [Alerts -> HandlerStages] BY DEF TrackerTypeOK, HandlerStages
  <2> QED BY <2>1 DEF TrackerTypeOK
<1>2. UnstartedInv' BY DEF UnstartedInv
<1>3. JoinedInv' BY DEF JoinedInv
<1>4. EarlyInv' BY DEF EarlyInv
<1>5. ShutInv' BY DEF ShutInv
<1> QED BY <1>1, <1>2, <1>3, <1>4, <1>5

LEMMA WorkerReceivesStep ==
  ASSUME TrackerIInv, WorkerReceives
  PROVE  TrackerIInv'
<1> USE DEF TrackerIInv, WorkerReceives, WorkerStep, Queue!Receive
<1>1. TrackerTypeOK'
  <2>1. pending' \in Seq(Alerts) /\ Head(pending) \in Alerts BY RangeTail DEF TrackerTypeOK
  <2>2. received' \in Seq(Alerts) BY <2>1, RangeAppend DEF TrackerTypeOK
  <2> QED BY <2>1, <2>2 DEF TrackerTypeOK
<1>2. UnstartedInv' BY DEF UnstartedInv
<1>3. JoinedInv' BY DEF JoinedInv
<1>4. EarlyInv'
  <2>1. /\ Head(pending) \in Alerts
        /\ Range(pending) \subseteq {Head(pending)} \cup Range(pending')
    BY RangeTail DEF TrackerTypeOK
  <2>2. received \in Seq(Alerts) /\ received' = Append(received, Head(pending))
    BY DEF TrackerTypeOK
  <2>3. Range(Append(received, Head(pending))) = Range(received) \cup {Head(pending)}
    BY <2>1, <2>2, RangeAppend
  <2> QED BY <2>1, <2>2, <2>3 DEF EarlyInv
<1>5. ShutInv' BY DEF ShutInv
<1> QED BY <1>1, <1>2, <1>3, <1>4, <1>5

LEMMA WorkerEndsStep ==
  ASSUME TrackerIInv, WorkerEnds
  PROVE  TrackerIInv'
<1> USE DEF TrackerIInv, WorkerEnds, WorkerStep, Queue!End
<1>1. TrackerTypeOK' BY DEF TrackerTypeOK
<1>2. UnstartedInv' BY DEF UnstartedInv
<1>3. JoinedInv' BY DEF JoinedInv
<1>4. EarlyInv' BY RangeEmpty DEF EarlyInv, TrackerTypeOK
<1>5. ShutInv' BY DEF ShutInv
<1> QED BY <1>1, <1>2, <1>3, <1>4, <1>5

LEMMA StopQueueStep ==
  ASSUME TrackerIInv, StopQueue
  PROVE  TrackerIInv'
<1> USE DEF TrackerIInv, StopQueue, Shutdown, Queue!Close
<1>1. TrackerTypeOK'
  <2>1. main' \in Stages BY DEF TrackerTypeOK, Stages
  <2> QED BY <2>1 DEF TrackerTypeOK
<1>2. UnstartedInv' BY DEF UnstartedInv
<1>3. JoinedInv' BY DEF JoinedInv
<1>4. EarlyInv' BY DEF EarlyInv
<1>5. ShutInv' BY DEF ShutInv
<1> QED BY <1>1, <1>2, <1>3, <1>4, <1>5

LEMMA StopRunningStep ==
  ASSUME TrackerIInv, StopRunning
  PROVE  TrackerIInv'
<1> USE DEF TrackerIInv, StopRunning, Shutdown
<1>1. TrackerTypeOK'
  <2>1. main' \in Stages BY DEF TrackerTypeOK, Stages
  <2> QED BY <2>1 DEF TrackerTypeOK
<1>2. UnstartedInv' BY DEF UnstartedInv
<1>3. JoinedInv' BY DEF JoinedInv
<1>4. EarlyInv' BY DEF EarlyInv
<1>5. ShutInv' BY DEF ShutInv
<1> QED BY <1>1, <1>2, <1>3, <1>4, <1>5

LEMMA ShutdownSocketStep ==
  ASSUME TrackerIInv, ShutdownSocket
  PROVE  TrackerIInv'
<1> USE DEF TrackerIInv, ShutdownSocket, Shutdown
<1>1. TrackerTypeOK'
  <2>1. main' \in Stages BY DEF TrackerTypeOK, Stages
  <2>2. udp' \in UdpStates BY DEF TrackerTypeOK, UdpStates
  <2>3. socket' \in SocketStates BY DEF TrackerTypeOK, SocketStates
  <2> QED BY <2>1, <2>2, <2>3 DEF TrackerTypeOK
<1>2. UnstartedInv' BY DEF UnstartedInv
<1>3. JoinedInv' BY DEF JoinedInv
<1>4. EarlyInv' BY DEF EarlyInv
<1>5. ShutInv' BY DEF ShutInv
<1> QED BY <1>1, <1>2, <1>3, <1>4, <1>5

LEMMA CloseSocketStep ==
  ASSUME TrackerIInv, CloseSocket
  PROVE  TrackerIInv'
<1> USE DEF TrackerIInv, CloseSocket, Shutdown
<1>1. TrackerTypeOK'
  <2>1. main' \in Stages BY DEF TrackerTypeOK, Stages
  <2>2. socket' \in SocketStates BY DEF TrackerTypeOK, SocketStates
  <2> QED BY <2>1, <2>2 DEF TrackerTypeOK, ShutInv
<1>2. UnstartedInv' BY DEF UnstartedInv
<1>3. JoinedInv' BY DEF JoinedInv
<1>4. EarlyInv' BY DEF EarlyInv
<1>5. ShutInv' BY DEF ShutInv
<1> QED BY <1>1, <1>2, <1>3, <1>4, <1>5

LEMMA ForgetSocketStep ==
  ASSUME TrackerIInv, ForgetSocket
  PROVE  TrackerIInv'
<1> USE DEF TrackerIInv, ForgetSocket, Shutdown
<1>1. TrackerTypeOK'
  <2>1. main' \in Stages BY DEF TrackerTypeOK, Stages
  <2> QED BY <2>1 DEF TrackerTypeOK
<1>2. UnstartedInv' BY DEF UnstartedInv
<1>3. JoinedInv' BY DEF JoinedInv
<1>4. EarlyInv' BY DEF EarlyInv
<1>5. ShutInv' BY DEF ShutInv
<1> QED BY <1>1, <1>2, <1>3, <1>4, <1>5

LEMMA StopHttpStep ==
  ASSUME TrackerIInv, StopHttp
  PROVE  TrackerIInv'
<1> USE DEF TrackerIInv, StopHttp, Shutdown
<1>1. TrackerTypeOK'
  <2>1. main' \in Stages BY DEF TrackerTypeOK, Stages
  <2>2. http' \in HttpStates BY DEF TrackerTypeOK, HttpStates
  <2> QED BY <2>1, <2>2 DEF TrackerTypeOK
<1>2. UnstartedInv' BY DEF UnstartedInv
<1>3. JoinedInv' BY DEF JoinedInv
<1>4. EarlyInv' BY DEF EarlyInv
<1>5. ShutInv' BY DEF ShutInv
<1> QED BY <1>1, <1>2, <1>3, <1>4, <1>5

LEMMA JoinHttpStep ==
  ASSUME TrackerIInv, JoinHttp
  PROVE  TrackerIInv'
<1> USE DEF TrackerIInv, JoinHttp, Join, Shutdown
<1>1. TrackerTypeOK'
  <2>1. main' \in Stages BY DEF TrackerTypeOK, Stages
  <2> QED BY <2>1 DEF TrackerTypeOK
<1>2. UnstartedInv' BY DEF UnstartedInv
<1>3. JoinedInv' BY DEF JoinedInv, Locals
<1>4. EarlyInv' BY DEF EarlyInv
<1>5. ShutInv' BY DEF ShutInv
<1> QED BY <1>1, <1>2, <1>3, <1>4, <1>5

LEMMA JoinWorkerStep ==
  ASSUME TrackerIInv, JoinWorker
  PROVE  TrackerIInv'
<1> USE DEF TrackerIInv, JoinWorker, Join, Shutdown
<1>1. TrackerTypeOK'
  <2>1. main' \in Stages BY DEF TrackerTypeOK, Stages
  <2> QED BY <2>1 DEF TrackerTypeOK
<1>2. UnstartedInv' BY DEF UnstartedInv
<1>3. JoinedInv' BY DEF JoinedInv, Locals
<1>4. EarlyInv' BY DEF EarlyInv
<1>5. ShutInv' BY DEF ShutInv
<1> QED BY <1>1, <1>2, <1>3, <1>4, <1>5

LEMMA JoinUdpStep ==
  ASSUME TrackerIInv, JoinUdp
  PROVE  TrackerIInv'
<1> USE DEF TrackerIInv, JoinUdp, Join, Shutdown
<1>1. TrackerTypeOK'
  <2>1. main' \in Stages BY DEF TrackerTypeOK, Stages
  <2> QED BY <2>1 DEF TrackerTypeOK
<1>2. UnstartedInv' BY DEF UnstartedInv
<1>3. JoinedInv' BY DEF JoinedInv, Locals
<1>4. EarlyInv' BY DEF EarlyInv
<1>5. ShutInv' BY DEF ShutInv
<1> QED BY <1>1, <1>2, <1>3, <1>4, <1>5

LEMMA JoinHeartbeatStep ==
  ASSUME TrackerIInv, JoinHeartbeat
  PROVE  TrackerIInv'
<1> USE DEF TrackerIInv, JoinHeartbeat, Join, Shutdown
<1>1. TrackerTypeOK'
  <2>1. main' \in Stages BY DEF TrackerTypeOK, Stages
  <2> QED BY <2>1 DEF TrackerTypeOK
<1>2. UnstartedInv' BY DEF UnstartedInv
<1>3. JoinedInv' BY DEF JoinedInv, Locals
<1>4. EarlyInv' BY DEF EarlyInv
<1>5. ShutInv' BY DEF ShutInv
<1> QED BY <1>1, <1>2, <1>3, <1>4, <1>5

-----------------------------------------------------------------------------

LEMMA TrackerStep == TrackerIInv /\ [TrackerNext]_trackerVars => TrackerIInv'
<1> SUFFICES ASSUME TrackerIInv, [TrackerNext]_trackerVars PROVE TrackerIInv' OBVIOUS
<1>1. CASE UNCHANGED trackerVars
  BY <1>1 DEF trackerVars, TrackerIInv, TrackerTypeOK, UnstartedInv, JoinedInv, EarlyInv,
     ShutInv
<1>2. CASE Main
  BY <1>2, StartStep, StartFailsStep, StopQueueStep, StopRunningStep, ShutdownSocketStep,
     CloseSocketStep, ForgetSocketStep, StopHttpStep, JoinHttpStep, JoinWorkerStep,
     JoinUdpStep, JoinHeartbeatStep
  DEF Main
<1>3. CASE Udp \/ UdpReceive
  BY <1>3, UdpLoopStep, UdpTestStep, UdpRecvfromStep, UdpReceiveStep, UdpForeignStep DEF Udp
<1>4. CASE Http \/ Reuse
  BY <1>4, HttpServesStep, HttpFailsStep, HttpEndsStep, ReuseStep DEF Http
<1>5. ASSUME NEW a \in Alerts, Request(a) \/ Handler(a) PROVE TrackerIInv'
  BY <1>5, RequestStep, PushAlertStep, SkipCallbackStep, AnswerStep DEF Handler
<1>6. CASE Worker BY <1>6, WorkerReceivesStep, WorkerEndsStep DEF Worker
<1>7. CASE Signal \/ HeartbeatEnds BY <1>7, SignalStep, HeartbeatEndsStep
<1> QED BY <1>1, <1>2, <1>3, <1>4, <1>5, <1>6, <1>7 DEF TrackerNext

LEMMA TrackerInvariant == TrackerSpec => []TrackerIInv
BY TrackerStart, TrackerStep, PTL DEF TrackerSpec

-----------------------------------------------------------------------------

\* The tracker's state has its type, and recvfrom is never entered by a thread
\* that close would leave in it.
THEOREM TrackerTypeCorrect == TrackerSpec => []TrackerTypeOK
<1>1. TrackerIInv => TrackerTypeOK BY DEF TrackerIInv
<1> QED BY <1>1, TrackerInvariant, PTL

\* Whatever was queued before the stop is handled before the process exits,
\* for any number of requests (main, SafeQueue::stop, MineAlertManager::run).
THEOREM QueuedAlwaysHandled == TrackerSpec => []QueuedAlertsHandled
<1>1. TrackerIInv => QueuedAlertsHandled
  BY DEF TrackerIInv, UnstartedInv, JoinedInv, EarlyInv, QueuedAlertsHandled
<1> QED BY <1>1, TrackerInvariant, PTL

\* The locals of main outlive the threads that use them (the order of their
\* declarations in main).
THEOREM ObjectsAlwaysOutliveUsers == TrackerSpec => []ObjectsOutliveUsers
<1>1. TrackerIInv => ObjectsOutliveUsers
  <2> SUFFICES ASSUME TrackerIInv PROVE ObjectsOutliveUsers OBVIOUS
  <2>1. http \in {"starting", "serving", "stopping"} => alive = Locals
    BY DEF TrackerIInv, JoinedInv
  <2>2. http # "none" /\ ~ended => {"alert_manager", "alert_queue"} \subseteq alive
    BY DEF TrackerIInv, JoinedInv, Locals
  <2>3. udp \notin {"none", "ended"} => "udp_server" \in alive
    BY DEF TrackerIInv, JoinedInv, Locals
  <2> QED BY <2>1, <2>2, <2>3 DEF ObjectsOutliveUsers, Locals
<1> QED BY <1>1, TrackerInvariant, PTL

-----------------------------------------------------------------------------
(* The broadcaster *)

Keys == {Uint16(g) : g \in GroupIds}

\* The comment of send_danger_zone, "deterministic unique ICAO address", holds of
\* the groups that get confirmed.
DistinctAddresses == \A k, l \in Keys : Icao(k) = Icao(l) => k = l

\* The registry holds the markers of confirmed groups under their ids.
RegistryInv ==
  \A k \in DOMAIN active_mines :
    k \in Keys /\ active_mines[k].group_id = k /\ active_mines[k].icao_id = Icao(k)

\* Only the worker registers, so what it has left to send is up to date.
WorkerInv ==
  \/ to_send \in {<<>>, <<Banner>>}
  \/ \E k \in DOMAIN active_mines : to_send = <<active_mines[k], Banner>>

\* What a round has left to send is up to date unless the mine was registered
\* again since the snapshot.
RoundInv ==
  \A m \in markers_to_refresh :
    /\ m.group_id \in DOMAIN active_mines
    /\ m.icao_id = Icao(m.group_id)
    /\ m.group_id \notin changed => m = active_mines[m.group_id]

BroadcasterIInv == RegistryInv /\ WorkerInv /\ RoundInv

LEMMA BroadcasterInitIInv == BroadcasterInit => BroadcasterIInv
BY DEF BroadcasterInit, BroadcasterIInv, RegistryInv, WorkerInv, RoundInv

LEMMA RegisterIInv ==
  ASSUME BroadcasterIInv, NEW g \in GroupIds, NEW p \in Positions, Register(g, p)
  PROVE  BroadcasterIInv'
<1> DEFINE k == Uint16(g)
           m == Marker(k, p)
<1>1. /\ active_mines' = Set(active_mines, k, m)
      /\ to_send' = <<m, Banner>> /\ changed' = changed \cup {k}
      /\ markers_to_refresh' = markers_to_refresh
  BY DEF Register, Marker
<1>2. k \in Keys BY DEF Keys
<1>3. m.group_id = k /\ m.icao_id = Icao(k) BY DEF Marker
<1> HIDE DEF k, m
<1>4. /\ DOMAIN active_mines' = DOMAIN active_mines \cup {k}
      /\ active_mines'[k] = m
      /\ \A l \in DOMAIN active_mines : l # k => active_mines'[l] = active_mines[l]
  BY <1>1 DEF Set
<1>5. RegistryInv' BY <1>2, <1>3, <1>4 DEF RegistryInv, BroadcasterIInv
<1>6. WorkerInv' BY <1>1, <1>4 DEF WorkerInv
<1>7. RoundInv' BY <1>1, <1>4 DEF RoundInv, BroadcasterIInv
<1> QED BY <1>5, <1>6, <1>7 DEF BroadcasterIInv

LEMMA WorkerSendIInv == BroadcasterIInv /\ WorkerSend => BroadcasterIInv'
<1> SUFFICES ASSUME BroadcasterIInv, WorkerSend PROVE BroadcasterIInv' OBVIOUS
<1>1. /\ to_send # <<>> /\ to_send' = Tail(to_send)
      /\ UNCHANGED <<active_mines, markers_to_refresh, changed>>
  BY DEF WorkerSend
<1>2. to_send' \in {<<>>, <<Banner>>}
  <2>1. CASE to_send = <<Banner>> BY <1>1, <2>1
  <2>2. ASSUME NEW k \in DOMAIN active_mines, to_send = <<active_mines[k], Banner>>
        PROVE  to_send' = <<Banner>>
    BY <1>1, <2>2
  <2> QED BY <1>1, <2>1, <2>2 DEF BroadcasterIInv, WorkerInv
<1> QED BY <1>1, <1>2 DEF BroadcasterIInv, RegistryInv, WorkerInv, RoundInv

LEMMA RoundIInv == BroadcasterIInv /\ HeartbeatStep => BroadcasterIInv'
<1> SUFFICES ASSUME BroadcasterIInv, HeartbeatStep PROVE BroadcasterIInv' OBVIOUS
<1>1. CASE Snapshot
  <2>1. /\ markers_to_refresh' = {active_mines[k] : k \in DOMAIN active_mines}
        /\ UNCHANGED <<active_mines, to_send>>
    BY <1>1 DEF Snapshot
  <2> QED BY <2>1 DEF BroadcasterIInv, RegistryInv, WorkerInv, RoundInv
<1>2. CASE \E m \in markers_to_refresh : RefreshDelivered(m) \/ RefreshLost(m)
  <2>1. /\ markers_to_refresh' \subseteq markers_to_refresh
        /\ UNCHANGED <<active_mines, to_send, changed>>
    BY <1>2 DEF RefreshDelivered, RefreshLost, Refresh
  <2> QED BY <2>1 DEF BroadcasterIInv, RegistryInv, WorkerInv, RoundInv
<1> QED BY <1>1, <1>2 DEF HeartbeatStep

THEOREM BroadcasterInvariant == BroadcasterSpec => []BroadcasterIInv
<1>1. BroadcasterIInv /\ [BroadcasterNext]_broadcasterVars => BroadcasterIInv'
  <2> SUFFICES ASSUME BroadcasterIInv, [BroadcasterNext]_broadcasterVars
               PROVE  BroadcasterIInv'
    OBVIOUS
  <2>1. CASE UNCHANGED <<active_mines, to_send, markers_to_refresh, changed>>
    BY <2>1 DEF BroadcasterIInv, RegistryInv, WorkerInv, RoundInv
  <2>2. CASE \/ \E p \in Positions : Telemetry(p)
             \/ VehicleStep
             \/ \E g \in GroupIds, p \in Positions : Reject(g, p)
             \/ UNCHANGED broadcasterVars
    BY <2>1, <2>2
    DEF Telemetry, VehicleStep, VehicleLost, VehicleDelivered, VehicleSend, Reject, mineVars,
        broadcasterVars
  <2>3. CASE \E g \in GroupIds, p \in Positions : Register(g, p) BY <2>3, RegisterIInv
  <2>4. CASE WorkerSend BY <2>4, WorkerSendIInv
  <2>5. CASE HeartbeatStep BY <2>5, RoundIInv
  <2> QED BY <2>2, <2>3, <2>4, <2>5 DEF BroadcasterNext
<1> QED BY <1>1, BroadcasterInitIInv, PTL DEF BroadcasterSpec

\* If the ICAO addresses are unique, a pin that shows where its mine is leaves
\* that place only in the round that took its snapshot before the mine was
\* registered there, for any number of mines (send_heartbeat, send_danger_zone).
THEOREM PinAlwaysGoesBackOnlyDuringRound ==
  ASSUME DistinctAddresses PROVE BroadcasterSpec => PinGoesBackOnlyDuringRound
<1> DEFINE Good(k) ==
      /\ active_mines[k].icao_id \in DOMAIN station
      /\ Shown(k) = active_mines[k].position
      /\ active_mines'[k] = active_mines[k]
      /\ Shown(k)' # active_mines[k].position
      => k \in changed
<1>1. ASSUME BroadcasterIInv, BroadcasterNext, NEW k \in DOMAIN active_mines
      PROVE  Good(k)
  <2> SUFFICES ASSUME active_mines[k].icao_id \in DOMAIN station,
                      Shown(k) = active_mines[k].position,
                      active_mines'[k] = active_mines[k],
                      Shown(k)' # active_mines[k].position,
                      k \notin changed
               PROVE  FALSE
    OBVIOUS
  <2>1. /\ station'[Icao(k)] # station[Icao(k)]
        /\ station[Icao(k)] = active_mines[k].position
        /\ Icao(k) \in DOMAIN station /\ k \in Keys
    BY <1>1 DEF Shown, BroadcasterIInv, RegistryInv
  <2>2. ASSUME NEW m, Deliver(m), m.group_id \in Keys, m.icao_id = Icao(m.group_id),
               m.group_id = k => m = active_mines[k]
        PROVE  FALSE
    <3>1. station' = Set(station, m.icao_id, m.position) BY <2>2 DEF Deliver
    <3>2. m.icao_id = Icao(k) BY <2>1, <3>1 DEF Set
    <3>3. m = active_mines[k] BY <2>1, <2>2, <3>2 DEF DistinctAddresses
    <3>4. station'[Icao(k)] = m.position BY <3>1, <3>2 DEF Set
    <3> QED BY <2>1, <3>3, <3>4
  <2>3. CASE WorkerSend
    <3>1. Head(to_send) # Banner /\ Deliver(Head(to_send)) /\ to_send # <<>>
      BY <2>1, <2>3 DEF WorkerSend, Lose
    <3>2. to_send # <<Banner>> BY <3>1
    <3>3. PICK l \in DOMAIN active_mines : to_send = <<active_mines[l], Banner>>
      BY <1>1, <3>1, <3>2 DEF BroadcasterIInv, WorkerInv
    <3>4. Head(to_send) = active_mines[l] BY <3>3
    <3> QED BY <1>1, <2>2, <3>1, <3>4 DEF BroadcasterIInv, RegistryInv
  <2>4. ASSUME NEW m \in markers_to_refresh, RefreshDelivered(m) PROVE FALSE
    <3>1. /\ m.group_id \in Keys /\ m.icao_id = Icao(m.group_id)
          /\ m.group_id = k => m = active_mines[k]
      BY <1>1 DEF BroadcasterIInv, RoundInv, RegistryInv
    <3> QED BY <2>2, <2>4, <3>1 DEF RefreshDelivered
  <2>5. \/ WorkerSend
        \/ \E m \in markers_to_refresh : RefreshDelivered(m)
        \/ UNCHANGED station
    BY <1>1
    DEF BroadcasterNext, Telemetry, VehicleStep, VehicleLost, VehicleDelivered, VehicleSend,
        mineVars, Reject, Register, HeartbeatStep, Snapshot, RefreshLost, Lose
  <2> QED BY <2>1, <2>3, <2>4, <2>5
<1>2. BroadcasterIInv /\ [BroadcasterNext]_broadcasterVars
        => [\A k \in DOMAIN active_mines : Good(k)]_broadcasterVars
  BY <1>1
<1> QED BY <1>2, BroadcasterInvariant, PTL DEF BroadcasterSpec, PinGoesBackOnlyDuringRound

-----------------------------------------------------------------------------
(* The radius of the command line *)

LEMMA LeastOf ==
  ASSUME NEW S, S \subseteq Nat, S # {}
  PROVE  Min(S) \in S /\ \A y \in S : Min(S) =< y
<1>1. PICK x \in S : \A y \in S : ~(<<y, x>> \in OpToRel(<, Nat))
  BY NatLessThanWellFounded, WFMin
<1>2. \A y \in S : ~(y < x) BY <1>1 DEF OpToRel
<1>3. \A y \in S : x =< y BY <1>2, SMT
<1> QED BY <1>1, <1>3 DEF Min

LEMMA LeastIs ==
  ASSUME NEW S, S \subseteq Nat, NEW m \in S, \A y \in S : m =< y
  PROVE  Min(S) = m
<1>1. Min(S) \in S /\ \A y \in S : Min(S) =< y BY LeastOf
<1>2. Min(S) =< m /\ m =< Min(S) /\ Min(S) \in Nat /\ m \in Nat BY <1>1
<1> QED BY <1>1, <1>2, SMT

\* A value that does not parse, or is not above zero, leaves the default.
LEMMA PositiveOrPositive ==
  ASSUME NEW default \in Int, default > 0, NEW n \in Int \cup {NotANumber}
  PROVE  /\ PositiveOr(default, n) \in Int
         /\ PositiveOr(default, n) > 0
         /\ PositiveOr(default, n) \in {default, n}
<1>1. CASE n = NotANumber BY <1>1 DEF PositiveOr
<1>2. CASE n # NotANumber /\ n > 0 BY <1>2 DEF PositiveOr
<1>3. CASE n # NotANumber /\ ~(n > 0) BY <1>3 DEF PositiveOr
<1> QED BY <1>1, <1>2, <1>3

\* An option gives a number of its own argument or of the next, or none.
LEMMA OptionNumberGiven ==
  ASSUME NEW args \in Seq(Argument), NEW i \in DOMAIN args
  PROVE  /\ OptionNumber(args, i) \in Int \cup {NotANumber}
         /\ OptionNumber(args, i) # NotANumber =>
              \E k \in DOMAIN args : args[k].number = OptionNumber(args, i)
<1>1. /\ Len(args) \in Nat /\ DOMAIN args = 1 .. Len(args)
      /\ \A k \in DOMAIN args : args[k] \in Argument
  BY SMT
<1>2. \A arg \in Argument : /\ arg.number \in Int \cup {NotANumber}
                            /\ Value(arg) \in {arg.number, NotANumber}
  BY DEF Argument, Value
<1>3. CASE args[i].form = "prefixed" BY <1>1, <1>2, <1>3 DEF OptionNumber
<1>4. CASE args[i].form # "prefixed" /\ i < Len(args)
  <2>1. i + 1 \in DOMAIN args BY <1>1, <1>4, SMT
  <2>2. OptionNumber(args, i) = Value(args[i + 1]) BY <1>4 DEF OptionNumber
  <2> QED BY <1>1, <1>2, <2>1, <2>2
<1>5. CASE args[i].form # "prefixed" /\ ~(i < Len(args)) BY <1>5 DEF OptionNumber
<1> QED BY <1>3, <1>4, <1>5

\* The radius is usable for a command line of any length.
LEMMA RadiusOfAnyCommandLine ==
  ASSUME NEW args \in Seq(Argument), NEW default \in Int, default > 0
  PROVE  UsableRadius(args, default)
<1> DEFINE radius == ParseFlagRadius(args, default)
           first  == Min(Options(args))
<1>1. CASE Options(args) = {}
  BY <1>1 DEF UsableRadius, ParseFlagRadius
<1>2. CASE Options(args) # {}
  <2>1. /\ Len(args) \in Nat /\ DOMAIN args = 1 .. Len(args)
        /\ DOMAIN args \subseteq Nat /\ Options(args) \subseteq DOMAIN args
    BY SMT DEF Options
  <2>2. first \in Options(args) /\ \A i \in Options(args) : first =< i
    BY <1>2, <2>1, LeastOf
  <2>3. radius = PositiveOr(default, OptionNumber(args, first))
    BY <1>2 DEF ParseFlagRadius
  <2>4. /\ radius \in Int /\ radius > 0
        /\ radius # default => \E i \in DOMAIN args : args[i].number = radius
    <3>1. first \in DOMAIN args BY <2>1, <2>2
    <3> HIDE DEF first, radius
    <3>2. /\ radius \in Int /\ radius > 0
          /\ radius \in {default, OptionNumber(args, first)}
      BY <2>3, <3>1, OptionNumberGiven, PositiveOrPositive
    <3>3. OptionNumber(args, first) = NotANumber => radius = default
      BY <2>3 DEF PositiveOr
    <3> QED BY <3>1, <3>2, <3>3, OptionNumberGiven
  <2>5. ASSUME NEW n \in DOMAIN args, NEW j \in Options(args), j < n
        PROVE  ParseFlagRadius(SubSeq(args, 1, n), default) = radius
    <3> DEFINE sub == SubSeq(args, 1, n)
    <3>1. /\ sub \in Seq(Argument) /\ Len(sub) = n /\ DOMAIN sub = 1 .. n
          /\ \A i \in 1 .. n : sub[i] = args[i]
      BY <2>1, SMT
    <3>2. /\ first < n /\ first < Len(args)
          /\ first \in 1 .. n /\ first + 1 \in 1 .. n
      <4>1. first \in 1 .. Len(args) /\ j \in 1 .. Len(args) /\ first =< j
        BY <2>1, <2>2
      <4> HIDE DEF first
      <4> QED BY <2>1, <2>5, <4>1, SMT
    <3>3. Options(sub) \subseteq Options(args) /\ first \in Options(sub)
      <4>1. 1 .. n \subseteq DOMAIN args BY <2>1, SMT
      <4> QED BY <2>2, <3>1, <3>2, <4>1 DEF Options
    <3>4. Min(Options(sub)) = first
      <4>1. Options(sub) \subseteq Nat BY <2>1, <3>3
      <4>2. \A i \in Options(sub) : first =< i BY <2>2, <3>3
      <4> QED BY <3>3, <4>1, <4>2, LeastIs
    <3>5. sub[first] = args[first] /\ sub[first + 1] = args[first + 1]
      BY <3>1, <3>2
    <3> HIDE DEF sub, first
    <3>6. OptionNumber(sub, first) = OptionNumber(args, first)
      BY <3>1, <3>2, <3>5 DEF OptionNumber
    <3>7. ParseFlagRadius(sub, default) = PositiveOr(default, OptionNumber(sub, first))
      BY <3>3, <3>4 DEF ParseFlagRadius
    <3> QED BY <2>3, <3>6, <3>7 DEF sub
  <2> QED BY <2>4, <2>5 DEF UsableRadius
<1> QED BY <1>1, <1>2

\* Whatever the tracker is started with, and however many arguments there are,
\* Flags gets a positive radius, of a complete option or the default
\* (parse_flag_radius).
THEOREM RadiusAlwaysUsable == TrackerSpec => []RadiusUsable
<1>1. RadiusUsable
  BY CliAssumption, RadiusOfAnyCommandLine DEF RadiusUsable
<1> QED BY <1>1, PTL
=============================================================================
