--------------------------- MODULE DeliveryProofs ---------------------------
(* Theorems about AlertDelivery, for every number of polls, set of fixes   *)
(* and behaviour of the network, and about DetectorToPin, which joins it   *)
(* to the worker of ManagerProofs.                                         *)
EXTENDS DetectorToPin, ManagerProofs

-----------------------------------------------------------------------------
(* The invariant *)

Places == Fixes \cup {NoFix}

RequestType ==
  [poll : Nat, attempt : 1 .. Attempts, at : Places,
   stage : {"sent", "received", "locked", "copied", "answered"}]

TypeInv ==
  /\ pc \in {"reading", "posting", "backoff", "sleeping"}
  /\ last_gps \in Places
  /\ attempt \in 0 .. Attempts
  /\ poll \in Nat
  /\ requests \subseteq RequestType
  /\ pc \in {"posting", "backoff"} => attempt >= 1

\* Neither a request nor a success is of a poll to come.
PastInv ==
  /\ \A r \in requests : r.poll <= poll
  /\ acked \subseteq 0 .. poll

\* While an alert is being sent, its copies name the last fix.
CopiesInv ==
  pc \in {"posting", "backoff"} => \A r \in requests : r.poll = poll => r.at = last_gps

DeliveryIInv ==
  TypeInv /\ PastInv /\ CopiesInv /\ RetriedUntilAnswered /\ CopiesInOnePlace

LEMMA DeliveryInitIInv == DeliveryInit => DeliveryIInv
BY SMT
DEF DeliveryInit, DeliveryIInv, TypeInv, PastInv, CopiesInv, RetriedUntilAnswered,
    CopiesInOnePlace, Places, Attempts

\* A step that takes requests away, or moves them on in the tracker, keeps what
\* is said of requests.
Fewer(S, T) == \A s \in S : \E r \in T : s.poll = r.poll /\ s.at = r.at

LEMMA FewerRequests ==
  ASSUME DeliveryIInv, requests' \subseteq RequestType, Fewer(requests', requests),
         UNCHANGED detectorVars
  PROVE  DeliveryIInv'
<1> USE DEF DeliveryIInv
<1>1. TypeInv' BY SMT DEF TypeInv, detectorVars
<1>2. PastInv' BY SMT DEF TypeInv, PastInv, detectorVars, Fewer
<1>3. CopiesInv' BY SMT DEF CopiesInv, detectorVars, Fewer
<1>4. RetriedUntilAnswered' BY SMT DEF RetriedUntilAnswered, detectorVars
<1>5. CopiesInOnePlace'
  <2> SUFFICES ASSUME NEW r \in requests', NEW s \in requests', r.poll = s.poll
               PROVE  r.at = s.at
    BY DEF CopiesInOnePlace
  <2>1. PICK q \in requests : r.poll = q.poll /\ r.at = q.at BY DEF Fewer
  <2>2. PICK t \in requests : s.poll = t.poll /\ s.at = t.at BY DEF Fewer
  <2> QED BY <2>1, <2>2 DEF CopiesInOnePlace
<1> QED BY <1>1, <1>2, <1>3, <1>4, <1>5

LEMMA AdvanceFewer ==
  ASSUME requests \subseteq RequestType, NEW r \in requests,
         NEW stage \in {"sent", "received", "locked", "copied", "answered"},
         Advance(r, stage)
  PROVE  requests' \subseteq RequestType /\ Fewer(requests', requests)
BY SMT DEF Advance, RequestType, Fewer

-----------------------------------------------------------------------------
(* Every step keeps the invariant *)

\* A first attempt is the only request of its poll.
LEMMA PollTouchedIInv == DeliveryIInv /\ PollTouched => DeliveryIInv'
<1> SUFFICES ASSUME DeliveryIInv, PollTouched PROVE DeliveryIInv' OBVIOUS
<1> DEFINE new == [poll |-> poll + 1, attempt |-> 1, at |-> last_gps', stage |-> "sent"]
<1>1. /\ poll' = poll + 1 /\ pc' = "posting" /\ attempt' = 1 /\ acked' = acked
      /\ last_gps' \in Places
      /\ requests' = requests \cup {new}
  BY DEF PollTouched, ReadGps, Post, Places, DeliveryIInv, TypeInv
<1>2. /\ poll \in Nat /\ requests \subseteq RequestType
      /\ \A r \in requests : r.poll \in Nat /\ r.poll # poll + 1 /\ r.poll <= poll
      /\ acked \subseteq 0 .. poll
  BY SMT DEF DeliveryIInv, TypeInv, PastInv, RequestType
<1>3. new \in RequestType /\ new.poll = poll + 1 /\ new.at = last_gps'
  BY <1>1, <1>2, SMT DEF RequestType, Attempts
<1> HIDE DEF new
<1>4. TypeInv' BY <1>1, <1>2, <1>3, SMT DEF TypeInv, Attempts
<1>5. PastInv' BY <1>1, <1>2, <1>3, SMT DEF PastInv
<1>6. CopiesInv' BY <1>1, <1>2, <1>3, SMT DEF CopiesInv
<1>7. RetriedUntilAnswered' BY <1>1, <1>2, SMT DEF RetriedUntilAnswered
<1>8. CopiesInOnePlace' BY <1>1, <1>2, <1>3, SMT DEF CopiesInOnePlace, DeliveryIInv
<1> QED BY <1>4, <1>5, <1>6, <1>7, <1>8 DEF DeliveryIInv

\* A retry repeats the fix that the other copies name.
LEMMA RetryIInv == DeliveryIInv /\ Retry => DeliveryIInv'
<1> SUFFICES ASSUME DeliveryIInv, Retry PROVE DeliveryIInv' OBVIOUS
<1> DEFINE new == [poll |-> poll, attempt |-> attempt + 1, at |-> last_gps, stage |-> "sent"]
<1>1. /\ poll' = poll /\ pc = "backoff" /\ pc' = "posting" /\ attempt' = attempt + 1
      /\ acked' = acked /\ last_gps' = last_gps /\ attempt < Attempts
      /\ requests' = requests \cup {new}
  BY DEF Retry, Post
<1>2. /\ poll \in Nat /\ attempt \in 0 .. Attempts /\ last_gps \in Places
      /\ requests \subseteq RequestType
      /\ \A r \in requests : r.poll <= poll /\ (r.poll = poll => r.at = last_gps)
      /\ acked \subseteq 0 .. poll /\ poll \notin acked
  BY <1>1 DEF DeliveryIInv, TypeInv, PastInv, CopiesInv, RetriedUntilAnswered
<1>3. new \in RequestType /\ new.poll = poll /\ new.at = last_gps
  BY <1>1, <1>2, SMT DEF RequestType, Attempts
<1> HIDE DEF new
<1>4. TypeInv' BY <1>1, <1>2, <1>3, SMT DEF TypeInv, Attempts
<1>5. PastInv' BY <1>1, <1>2, <1>3, SMT DEF PastInv
<1>6. CopiesInv' BY <1>1, <1>2, <1>3, SMT DEF CopiesInv
<1>7. RetriedUntilAnswered' BY <1>1, <1>2, SMT DEF RetriedUntilAnswered
<1>8. CopiesInOnePlace' BY <1>1, <1>2, <1>3, SMT DEF CopiesInOnePlace, DeliveryIInv
<1> QED BY <1>4, <1>5, <1>6, <1>7, <1>8 DEF DeliveryIInv

\* The other steps of the detector send nothing.
LEMMA QuietIInv ==
  ASSUME DeliveryIInv,
         PollUntouched \/ AttemptSucceeds \/ AttemptFails \/ GiveUp \/ Wake \/ Tick
  PROVE  DeliveryIInv'
<1> USE DEF DeliveryIInv
<1>1. CASE PollUntouched
  <2>1. /\ pc = "reading" /\ pc' = "sleeping" /\ last_gps' \in Places
        /\ UNCHANGED <<attempt, poll, requests, acked>>
    BY <1>1 DEF PollUntouched, ReadGps, Places, TypeInv
  <2> QED BY <2>1, SMT DEF TypeInv, PastInv, CopiesInv, RetriedUntilAnswered, CopiesInOnePlace
<1>2. CASE AttemptSucceeds
  <2>1. /\ pc = "posting" /\ pc' = "sleeping" /\ acked' = acked \cup {poll}
        /\ requests' \subseteq requests
        /\ UNCHANGED <<attempt, poll, last_gps>>
    BY <1>2 DEF AttemptSucceeds
  <2> QED BY <2>1, SMT DEF TypeInv, PastInv, CopiesInv, RetriedUntilAnswered, CopiesInOnePlace
<1>3. CASE AttemptFails
  <2>1. /\ pc = "posting" /\ pc' = "backoff"
        /\ UNCHANGED <<attempt, poll, last_gps, requests, acked>>
    BY <1>3 DEF AttemptFails
  <2> QED BY <2>1, SMT DEF TypeInv, PastInv, CopiesInv, RetriedUntilAnswered, CopiesInOnePlace
<1>4. CASE GiveUp
  <2>1. /\ pc = "backoff" /\ pc' = "sleeping" /\ attempt >= Attempts
        /\ UNCHANGED <<attempt, poll, last_gps, requests, acked>>
    BY <1>4 DEF GiveUp
  <2> QED BY <2>1, SMT
      DEF TypeInv, PastInv, CopiesInv, RetriedUntilAnswered, CopiesInOnePlace, Attempts
<1>5. CASE Wake
  <2>1. /\ pc = "sleeping" /\ pc' = "reading"
        /\ UNCHANGED <<attempt, poll, last_gps, requests, acked>>
    BY <1>5 DEF Wake
  <2> QED BY <2>1, SMT DEF TypeInv, PastInv, CopiesInv, RetriedUntilAnswered, CopiesInOnePlace
<1>6. CASE Tick
  <2>1. UNCHANGED <<pc, attempt, poll, last_gps, requests, acked>> BY <1>6 DEF Tick
  <2> QED BY <2>1, SMT DEF TypeInv, PastInv, CopiesInv, RetriedUntilAnswered, CopiesInOnePlace
<1> QED BY <1>1, <1>2, <1>3, <1>4, <1>5, <1>6

\* The tracker and the network add no request and change no place.
LEMMA ServerIInv ==
  ASSUME DeliveryIInv, NEW r \in requests, Handle(r) \/ Lose(r)
  PROVE  DeliveryIInv'
<1>1. requests \subseteq RequestType BY DEF DeliveryIInv, TypeInv
<1>2. CASE Handle(r)
  <2>1. UNCHANGED detectorVars /\ \E stage \in {"received", "locked", "copied", "answered"} :
          Advance(r, stage)
    BY <1>2 DEF Handle, Receive, Lock, LockTimesOut, CopyCallback, RunCallback
  <2> QED BY <1>1, <2>1, AdvanceFewer, FewerRequests
<1>3. CASE Lose(r)
  <2>1. requests' \subseteq requests /\ UNCHANGED detectorVars BY <1>3 DEF Lose
  <2> QED BY <1>1, <2>1, FewerRequests DEF Fewer
<1> QED BY <1>2, <1>3

\* Every step of the loop, the handlers and the network preserves the invariant.
LEMMA DeliveryNextIInv == DeliveryIInv /\ [DeliveryNext]_deliveryVars => DeliveryIInv'
<1> SUFFICES ASSUME DeliveryIInv, [DeliveryNext]_deliveryVars PROVE DeliveryIInv' OBVIOUS
<1>1. CASE PollTouched BY <1>1, PollTouchedIInv
<1>2. CASE Retry BY <1>2, RetryIInv
<1>3. CASE PollUntouched \/ AttemptSucceeds \/ AttemptFails \/ GiveUp \/ Wake \/ Tick
  BY <1>3, QuietIInv
<1>4. CASE \E r \in requests : Handle(r) \/ Lose(r) BY <1>4, ServerIInv
<1>5. CASE UNCHANGED deliveryVars
  BY <1>5, SMT DEF deliveryVars, DeliveryIInv, TypeInv, PastInv, CopiesInv,
                   RetriedUntilAnswered, CopiesInOnePlace
<1> QED BY <1>1, <1>2, <1>3, <1>4, <1>5 DEF DeliveryNext, Detector, Server

\* The inductive invariant holds in every reachable state.
THEOREM DeliveryInvariant == DeliverySpec => []DeliveryIInv
BY DeliveryInitIInv, DeliveryNextIInv, PTL DEF DeliverySpec

-----------------------------------------------------------------------------
(* Theorems *)

\* The attempts of a poll end with its first answer and only with the third
\* failure otherwise (Controller::runLoop), whatever the network does.
THEOREM AlwaysRetriedUntilAnswered == DeliverySpec => []RetriedUntilAnswered
<1>1. DeliveryIInv => RetriedUntilAnswered BY DEF DeliveryIInv
<1> QED BY <1>1, DeliveryInvariant, PTL

\* Copies of one alert in flight always name one place (Controller::runLoop,
\* last_gps_data), for any number of polls.
THEOREM CopiesAlwaysInOnePlace == DeliverySpec => []CopiesInOnePlace
<1>1. DeliveryIInv => CopiesInOnePlace BY DEF DeliveryIInv
<1> QED BY <1>1, DeliveryInvariant, PTL

-----------------------------------------------------------------------------
(* A network that answers in time *)

\* There is one request at the most, that of the attempt under way; its handler
\* finds callback_mutex free, and what is answered is queued.
ReliableInv ==
  /\ pc # "backoff"
  /\ pc \in {"reading", "sleeping"} => requests = {}
  /\ \A r, s \in requests : r = s
  /\ \A r \in requests : r.poll = poll
  /\ callback_mutex # NoRequest => \E r \in requests : r.stage = "locked"
  /\ \A r \in requests : r.stage = "answered" => Id(r) \in queued
  /\ SuccessMeansQueued

\* The steps of the detector keep it: a poll finds the last request gone.
LEMMA ReliableDetector ==
  ASSUME Reliable, TypeInv, ReliableInv, Detector \/ Tick
  PROVE  ReliableInv'
<1> USE DEF ReliableInv, SuccessMeansQueued
<1>1. CASE PollTouched
  <2> DEFINE new == [poll |-> poll + 1, attempt |-> 1, at |-> last_gps', stage |-> "sent"]
  <2>1. /\ requests = {} /\ requests' = {new} /\ pc' = "posting" /\ poll' = poll + 1
        /\ UNCHANGED <<acked, callback_mutex, queued>>
    BY <1>1 DEF PollTouched, ReadGps, Post, serverVars
  <2>2. new.poll = poll + 1 /\ new.stage = "sent" OBVIOUS
  <2> HIDE DEF new
  <2> QED BY <2>1, <2>2, SMT
<1>2. CASE PollUntouched
  <2>1. /\ requests = {} /\ pc' = "sleeping"
        /\ UNCHANGED <<requests, poll, acked, callback_mutex, queued>>
    BY <1>2 DEF PollUntouched, ReadGps, serverVars
  <2> QED BY <2>1, SMT
<1>3. CASE AttemptSucceeds
  <2>1. PICK r \in requests : r.stage = "answered" /\ requests' = requests \ {r}
    BY <1>3 DEF AttemptSucceeds
  <2>2. /\ pc' = "sleeping" /\ acked' = acked \cup {poll}
        /\ UNCHANGED <<poll, callback_mutex, queued>>
    BY <1>3 DEF AttemptSucceeds, serverVars
  <2>3. requests = {r} /\ requests' = {} BY <2>1
  <2>4. callback_mutex = NoRequest BY <2>1, <2>3
  <2>5. Id(r) \in queued /\ Id(r).poll = poll BY <2>1 DEF Id
  <2> QED BY <2>2, <2>3, <2>4, <2>5
<1>4. CASE AttemptFails \/ Retry \/ GiveUp
  BY <1>4 DEF AttemptFails, Retry, GiveUp
<1>5. CASE Wake \/ Tick
  <2>1. /\ pc' = pc \/ (pc = "sleeping" /\ pc' = "reading")
        /\ UNCHANGED <<requests, poll, acked, callback_mutex, queued>>
    BY <1>5 DEF Wake, Tick, serverVars
  <2> QED BY <2>1, SMT
<1> QED BY <1>1, <1>2, <1>3, <1>4, <1>5 DEF Detector

\* The steps of the tracker keep it: no other handler can hold the mutex.
LEMMA ReliableServer ==
  ASSUME Reliable, TypeInv, ReliableInv, NEW r \in requests, Handle(r) \/ Lose(r)
  PROVE  ReliableInv'
<1> USE DEF ReliableInv, SuccessMeansQueued
<1>1. requests = {r} /\ r \in RequestType /\ r.poll = poll BY DEF TypeInv
<1>2. ~Lose(r) BY DEF Lose
<1>3. ASSUME NEW stage \in {"received", "locked", "copied", "answered"}, Advance(r, stage)
      PROVE  \E q : requests' = {q} /\ q.poll = poll /\ q.stage = stage /\ Id(q) = Id(r)
  <2> DEFINE q == [r EXCEPT !.stage = stage]
  <2>1. requests' = {q} BY <1>1, <1>3 DEF Advance
  <2>2. q.poll = r.poll /\ q.attempt = r.attempt /\ q.stage = stage BY <1>1 DEF RequestType
  <2> QED BY <1>1, <2>1, <2>2 DEF Id
<1>4. UNCHANGED detectorVars
  BY <1>2 DEF Handle, Receive, Lock, LockTimesOut, CopyCallback, RunCallback
<1>5. pc' = pc /\ poll' = poll /\ acked' = acked /\ pc \notin {"reading", "sleeping"}
  BY <1>1, <1>4 DEF detectorVars
<1>6. CASE Receive(r)
  <2>1. PICK q : requests' = {q} /\ q.poll = poll /\ q.stage = "received"
    BY <1>3, <1>6 DEF Receive
  <2>2. callback_mutex = NoRequest BY <1>1, <1>6 DEF Receive
  <2>3. UNCHANGED <<callback_mutex, queued>> BY <1>6 DEF Receive, serverVars
  <2> QED BY <1>5, <2>1, <2>2, <2>3
<1>7. CASE Lock(r)
  <2>1. PICK q : requests' = {q} /\ q.poll = poll /\ q.stage = "locked"
    BY <1>3, <1>7 DEF Lock
  <2>2. queued' = queued BY <1>7 DEF Lock
  <2> QED BY <1>5, <2>1, <2>2
<1>8. ~LockTimesOut(r) BY <1>1 DEF LockTimesOut
<1>9. CASE CopyCallback(r)
  <2>1. PICK q : requests' = {q} /\ q.poll = poll /\ q.stage = "copied"
    BY <1>3, <1>9 DEF CopyCallback
  <2>2. callback_mutex' = NoRequest /\ queued' = queued BY <1>9 DEF CopyCallback
  <2> QED BY <1>5, <2>1, <2>2
<1>10. CASE RunCallback(r)
  <2>1. PICK q : requests' = {q} /\ q.poll = poll /\ q.stage = "answered" /\ Id(q) = Id(r)
    BY <1>3, <1>10 DEF RunCallback
  <2>2. queued' = queued \cup {Id(r)} /\ callback_mutex' = callback_mutex
    BY <1>10 DEF RunCallback
  <2>3. callback_mutex = NoRequest BY <1>1, <1>10 DEF RunCallback
  <2> QED BY <1>5, <2>1, <2>2, <2>3
<1> QED BY <1>2, <1>6, <1>7, <1>8, <1>9, <1>10 DEF Handle

\* A system that has sent nothing satisfies it.
LEMMA ReliableInit == DeliveryInit => ReliableInv
BY SMT DEF DeliveryInit, ReliableInv, SuccessMeansQueued

\* Every step keeps it.
LEMMA ReliableNext ==
  ASSUME Reliable, DeliveryIInv, ReliableInv, [DeliveryNext]_deliveryVars
  PROVE  ReliableInv'
<1>1. TypeInv BY DEF DeliveryIInv
<1>2. CASE Detector \/ Tick BY <1>1, <1>2, ReliableDetector
<1>3. CASE \E r \in requests : Handle(r) \/ Lose(r) BY <1>1, <1>3, ReliableServer
<1>4. CASE UNCHANGED deliveryVars
  BY <1>4 DEF deliveryVars, ReliableInv, SuccessMeansQueued
<1> QED BY <1>2, <1>3, <1>4 DEF DeliveryNext, Server

\* If every request is answered in time, what the detector counts as sent is in
\* the queue of the tracker: only copies in flight can break the promise that
\* HttpClient logs (three attempts, callback_mutex in HttpServer).
THEOREM ReliableSuccessIsQueued ==
  ASSUME Reliable PROVE DeliverySpec => []SuccessMeansQueued
<1>1. DeliveryIInv /\ ReliableInv /\ [DeliveryNext]_deliveryVars => ReliableInv'
  BY ReliableNext
<1>2. ReliableInv => SuccessMeansQueued BY DEF ReliableInv
<1> QED BY <1>1, <1>2, ReliableInit, DeliveryInvariant, PTL DEF DeliverySpec
-----------------------------------------------------------------------------
(* From the touch to the pin: DetectorToPin *)

\* The two halves keep their invariants, and no pin is at a skipped position.
PathIInv ==
  /\ ManagerIInv
  /\ DeliveryIInv
  /\ \A g \in DOMAIN pins : ~IsSkipped(pins[g])

\* The halves share the queue and nothing else: a step of the detector, of a
\* handler or of the network leaves it alone or pushes the position of a request.
LEMMA SendPushes ==
  ASSUME Detector \/ Server \/ Tick \/ \E r \in requests : Lose(r)
  PROVE  \/ alert_queue' = alert_queue
         \/ \E r \in requests : RunCallback(r) /\ alert_queue' = Append(alert_queue, r.at)
<1>1. CASE Detector
  BY <1>1 DEF Detector, PollTouched, PollUntouched, AttemptSucceeds, AttemptFails, Retry,
              GiveUp, Wake, serverVars
<1>2. CASE Tick BY <1>2 DEF Tick, serverVars
<1>3. CASE Server
  <2>1. PICK r \in requests : Handle(r) BY <1>3 DEF Server
  <2> QED BY <2>1
          DEF Handle, Receive, Lock, LockTimesOut, CopyCallback, RunCallback, serverVars
<1>4. CASE \E r \in requests : Lose(r) BY <1>4 DEF Lose, serverVars
<1> QED BY <1>1, <1>2, <1>3, <1>4

\* A step of DetectorToPin is one of the sender's, or leaves it as it is.
LEMMA SenderStep ==
  ASSUME [DetectorToPinNext]_vars
  PROVE  \/ DeliveryNext /\ UNCHANGED workerVars /\ (now' = now \/ now' = now + 1)
         \/ Work
         \/ UNCHANGED vars
BY DEF DetectorToPinNext, Send, Second, DeliveryNext, vars

\* What the sender keeps to itself is not disturbed by the worker.
LEMMA SenderKept ==
  ASSUME UNCHANGED senderVars
  PROVE  /\ DeliveryIInv => DeliveryIInv'
         /\ ReliableInv => ReliableInv'
<1>1. UNCHANGED <<pc, last_gps, attempt, poll, requests, acked, callback_mutex, queued>>
  BY DEF senderVars, detectorVars
<1>2. DeliveryIInv => DeliveryIInv'
  BY <1>1 DEF DeliveryIInv, TypeInv, PastInv, CopiesInv, RetriedUntilAnswered,
              CopiesInOnePlace
<1>3. ReliableInv => ReliableInv'
  BY <1>1 DEF ReliableInv, SuccessMeansQueued
<1> QED BY <1>2, <1>3

\* A step of the sender preserves the invariant of the worker.
LEMMA SenderKeepsManager ==
  ASSUME ManagerIInv, DeliveryIInv, DeliveryNext, UNCHANGED workerVars,
         now' = now \/ now' = now + 1
  PROVE  ManagerIInv'
<1>1. alert_queue \in Seq(Points) /\ now \in Nat BY DEF ManagerIInv
<1>2. now' \in Nat BY <1>1, SMT
<1>3. \A r \in requests : r.at \in Points
  BY PathAssumption DEF DeliveryIInv, TypeInv, RequestType, Places
<1>4. alert_queue' \in Seq(Points)
  BY <1>1, <1>3, SendPushes, AppendProperties DEF DeliveryNext
<1> QED BY <1>2, <1>4, ManagerKept DEF workerVars

\* A turn of the worker pins the position of an alert that was not skipped.
LEMMA WorkPins ==
  ASSUME ManagerIInv, HandleAlert, NEW g \in DOMAIN pins',
         \A h \in DOMAIN pins : ~IsSkipped(pins[h])
  PROVE  ~IsSkipped(pins'[g])
<1>1. CASE pins' = pins BY <1>1
<1>2. CASE \E h \in DOMAIN groups \cup {next_group_id} :
             /\ AddFlag(Head(alert_queue), h)
             /\ PinIfConfirmed(UpdateGroup(ConfidenceOf(h), now), h, Head(alert_queue))
  <2>1. PICK h \in DOMAIN groups \cup {next_group_id} :
               /\ AddFlag(Head(alert_queue), h)
               /\ PinIfConfirmed(UpdateGroup(ConfidenceOf(h), now), h, Head(alert_queue))
    BY <1>2
  <2>2. h # NoGroup BY SMT DEF ManagerIInv, FlagsIInv, FlagsTypeOK, NoGroup
  <2>3. ~IsSkipped(Head(alert_queue))
    BY <2>1, <2>2 DEF AddFlag, Promote, Corroborate
  <2>4. pins' = pins \/ pins' = Set(pins, h, Head(alert_queue))
    BY <2>1 DEF PinIfConfirmed
  <2> QED BY <2>3, <2>4 DEF Set
<1> QED BY <1>1, <1>2 DEF HandleAlert

LEMMA PathInitIInv == DetectorToPinInit => PathIInv
<1> SUFFICES ASSUME DetectorToPinInit PROVE PathIInv OBVIOUS
<1>1. ManagerIInv /\ DeliveryIInv
  BY ManagerInitIInv, DeliveryInitIInv DEF DetectorToPinInit
<1>2. DOMAIN pins = {} BY SMT DEF DetectorToPinInit, ManagerInit
<1> QED BY <1>1, <1>2 DEF PathIInv

LEMMA PathNextIInv == PathIInv /\ [DetectorToPinNext]_vars => PathIInv'
<1> SUFFICES ASSUME PathIInv, [DetectorToPinNext]_vars PROVE PathIInv' OBVIOUS
<1>1. ManagerIInv /\ DeliveryIInv BY DEF PathIInv
<1>2. CASE DeliveryNext /\ UNCHANGED workerVars /\ (now' = now \/ now' = now + 1)
  <2>1. DeliveryIInv' BY <1>1, <1>2, DeliveryNextIInv
  <2>2. ManagerIInv' BY <1>1, <1>2, SenderKeepsManager
  <2>3. pins' = pins BY <1>2 DEF workerVars
  <2> QED BY <2>1, <2>2, <2>3 DEF PathIInv, IsSkipped
<1>3. CASE Work
  <2>1. DeliveryIInv' BY <1>1, <1>3, SenderKept DEF Work
  <2>2. ManagerIInv' BY <1>1, <1>3, HandleAlertIInv DEF Work
  <2>3. \A g \in DOMAIN pins' : ~IsSkipped(pins'[g])
    BY <1>1, <1>3, WorkPins DEF Work, PathIInv
  <2> QED BY <2>1, <2>2, <2>3 DEF PathIInv, IsSkipped
<1>4. CASE UNCHANGED vars
  <2>1. DeliveryIInv' BY <1>1, <1>4, SenderKept DEF vars
  <2>2. alert_queue' \in Seq(Points) /\ now' \in Nat BY <1>1, <1>4 DEF vars, ManagerIInv
  <2>3. ManagerIInv' /\ pins' = pins
    BY <1>1, <1>4, <2>2, ManagerKept DEF vars, workerVars
  <2> QED BY <2>1, <2>3 DEF PathIInv, IsSkipped
<1> QED BY <1>2, <1>3, <1>4, SenderStep

\* The inductive invariant holds in every reachable state, on any network.
THEOREM PathInvariant == DetectorToPinSpec => []PathIInv
BY PathInitIInv, PathNextIInv, PTL DEF DetectorToPinSpec

\* Whatever the network loses or delays, a detector without a fix never has a
\* pin put at 0, 0: the index skips the alert and the manager is told no group
\* (Impl::add, MineAlertManager::run).
THEOREM NeverPinWithoutFix == DetectorToPinSpec => []NoPinWithoutFix
<1>1. IsSkipped(NoFix)
  <2>1. NoFix.lon = 0 BY PathAssumption
  <2> QED BY <2>1, PathAssumption, FlagsAssumption, SMT DEF IsSkipped
<1>2. PathIInv => NoPinWithoutFix
  BY <1>1 DEF PathIInv, NoPinWithoutFix
<1> QED BY <1>2, PathInvariant, PTL

-----------------------------------------------------------------------------
(* From the touch to the pin, on a network that answers in time *)

\* The alert of the current poll that has not reached the queue yet.
InFlight == IF \E r \in requests : r.stage # "answered" THEN 1 ELSE 0

\* A touched poll is in flight, in the queue or stored, and only once.
CountInv == accepted + Len(alert_queue) + InFlight <= poll

\* What the index stored bounds what any part of it has counted.
HitsInv ==
  /\ \A g \in DOMAIN groups : groups[g].hits <= accepted
  /\ Solitaries # {} => accepted >= 1

PollsInv == poll <= MaxPolls

ReliableIInv == PathIInv /\ ReliableInv /\ CountInv /\ HitsInv /\ PollsInv

\* One alert is stored at most once, and counted once by at most one group.
LEMMA AddFlagHits ==
  ASSUME FlagsIInv, HitsInv, NEW p \in Points, NEW g, AddFlag(p, g)
  PROVE  HitsInv' /\ accepted' \in {accepted, accepted + 1}
<1>1. /\ accepted \in Nat
      /\ \A h \in DOMAIN groups : groups[h] \in Position
      /\ \A e \in rtree : e.at \in Position
  BY DEF FlagsIInv, FlagsTypeOK, Entry
<1>2. CASE Skip(p) BY <1>2 DEF Skip, flagVars, HitsInv, Solitaries
<1>3. CASE InsertSolitary(p)
  <2>1. groups' = groups /\ accepted' = accepted + 1 BY <1>3 DEF InsertSolitary
  <2>2. \A h \in DOMAIN groups : groups[h].hits \in Nat BY <1>1 DEF Position
  <2>3. \A h \in DOMAIN groups : groups[h].hits <= accepted BY DEF HitsInv
  <2> QED BY <1>1, <2>1, <2>2, <2>3, SMT DEF HitsInv
<1>4. ASSUME NEW e \in rtree, NEW h, NEW a \in Position, a.hits <= accepted,
             StoreGroup(e, h, AddPoint(a, p))
      PROVE  HitsInv' /\ accepted' = accepted + 1
  <2>1. /\ accepted' = accepted + 1
        /\ groups' = [k \in DOMAIN groups \cup {h} |->
                        IF k = h THEN AddPoint(a, p) ELSE groups[k]]
    BY <1>4 DEF StoreGroup
  <2>2. AddPoint(a, p).hits = a.hits + 1 BY DEF AddPoint
  <2>3. a.hits \in Nat /\ \A k \in DOMAIN groups : groups[k].hits \in Nat
    BY <1>1 DEF Position
  <2>4. \A k \in DOMAIN groups : groups[k].hits <= accepted BY DEF HitsInv
  <2>5. a.hits + 1 <= accepted' /\ accepted' >= 1 BY <1>1, <1>4, <2>1, <2>3, SMT
  <2>6. ASSUME NEW k \in DOMAIN groups' PROVE groups'[k].hits <= accepted'
    <3>1. CASE k = h BY <2>1, <2>2, <2>5, <2>6, <3>1
    <3>2. CASE k # h
      <4>1. k \in DOMAIN groups /\ groups'[k] = groups[k] BY <2>1, <2>6, <3>2
      <4>2. groups[k].hits <= accepted /\ groups[k].hits \in Nat BY <2>3, <2>4, <4>1
      <4>3. groups[k].hits <= accepted + 1 BY <1>1, <4>2, SMT
      <4> QED BY <2>1, <4>1, <4>3
    <3> QED BY <3>1, <3>2
  <2> QED BY <2>1, <2>5, <2>6 DEF HitsInv
<1>5. CASE \E e \in rtree : Promote(p, e)
  <2>1. PICK e \in rtree : Promote(p, e) BY <1>5
  <2>2. e \in Solitaries BY <2>1 DEF Promote, Solitaries
  <2>3. e.at \in Position /\ e.at.hits = 1 /\ accepted >= 1
    BY <1>1, <2>2 DEF FlagsIInv, SinglePoints, HitsInv
  <2>4. e.at.hits <= accepted BY <1>1, <2>3, SMT
  <2> QED BY <1>4, <2>1, <2>3, <2>4 DEF Promote
<1>6. CASE \E e \in rtree : Corroborate(p, e)
  <2>1. PICK e \in rtree : Corroborate(p, e) BY <1>6
  <2>2. e.group \in DOMAIN groups BY <2>1, CorroborateInReach
  <2>3. groups[e.group] \in Position /\ groups[e.group].hits <= accepted
    BY <1>1, <2>2 DEF HitsInv
  <2> QED BY <1>4, <2>1, <2>3 DEF Corroborate
<1>7. Skip(p) => accepted' = accepted BY DEF Skip, flagVars
<1>8. InsertSolitary(p) => accepted' = accepted + 1 BY DEF InsertSolitary
<1> QED BY <1>2, <1>3, <1>4, <1>5, <1>6, <1>7, <1>8
        DEF AddFlag, Promote, Corroborate, StoreGroup

\* The sender never has more in the queue and in flight than touched polls: a
\* poll starts when nothing is in flight, and the callback moves one alert over.
LEMMA SenderCounts ==
  ASSUME Reliable, PathIInv, ReliableInv, CountInv, DeliveryNext, UNCHANGED workerVars
  PROVE  CountInv'
<1>1. /\ accepted \in Nat /\ accepted' = accepted
      /\ poll \in Nat
      /\ alert_queue \in Seq(Points) /\ Len(alert_queue) \in Nat
      /\ requests \subseteq RequestType
  BY LenProperties
  DEF PathIInv, ManagerIInv, FlagsIInv, FlagsTypeOK, workerVars, flagVars, DeliveryIInv, TypeInv
<1>2. InFlight \in {0, 1} /\ InFlight' \in {0, 1} BY DEF InFlight
<1>3. ASSUME alert_queue' = alert_queue, poll' = poll, InFlight' = InFlight \/ InFlight' = 0
      PROVE  CountInv'
  BY <1>1, <1>2, <1>3, SMT DEF CountInv
<1>4. CASE PollTouched
  <2>1. requests = {} /\ poll' = poll + 1 /\ alert_queue' = alert_queue
    BY <1>4 DEF PollTouched, ReadGps, ReliableInv, serverVars
  <2>2. InFlight = 0 BY <2>1 DEF InFlight
  <2> QED BY <1>1, <1>2, <2>1, <2>2, SMT DEF CountInv
<1>5. CASE PollUntouched \/ Wake \/ Tick
  BY <1>3, <1>5 DEF PollUntouched, Wake, Tick, serverVars, InFlight
<1>6. CASE AttemptSucceeds
  <2>1. poll' = poll /\ alert_queue' = alert_queue /\ requests' \subseteq requests
    BY <1>6 DEF AttemptSucceeds, serverVars
  <2>2. InFlight' = InFlight \/ InFlight' = 0 BY <2>1 DEF InFlight
  <2> QED BY <1>3, <2>1, <2>2
<1>7. CASE AttemptFails \/ Retry \/ GiveUp
  BY <1>7 DEF AttemptFails, Retry, GiveUp, ReliableInv
<1>8. ASSUME NEW r \in requests, Handle(r) PROVE CountInv'
  <2>1. requests = {r} /\ poll' = poll
    BY <1>8 DEF ReliableInv, Handle, Receive, Lock, LockTimesOut, CopyCallback, RunCallback,
                detectorVars
  <2>2. CASE RunCallback(r)
    <3>1. /\ alert_queue' = Append(alert_queue, r.at) /\ r.stage = "copied"
          /\ requests' = {[r EXCEPT !.stage = "answered"]}
      BY <2>1, <2>2 DEF RunCallback, Advance
    <3>2. r.at \in Points
      BY <1>1, PathAssumption DEF RequestType, Places
    <3>3. Len(alert_queue') = Len(alert_queue) + 1
      BY <1>1, <3>1, <3>2, AppendProperties
    <3>4. InFlight = 1 BY <3>1 DEF InFlight
    <3>5. InFlight' = 0 BY <1>1, <3>1 DEF InFlight, RequestType
    <3> QED BY <1>1, <2>1, <3>3, <3>4, <3>5, SMT DEF CountInv
  <2>3. CASE ~RunCallback(r)
    <3>1. alert_queue' = alert_queue /\ r.stage # "answered"
      BY <1>8, <2>3 DEF Handle, Receive, Lock, LockTimesOut, CopyCallback, serverVars
    <3>2. InFlight = 1 BY <3>1 DEF InFlight
    <3> QED BY <1>2, <1>3, <2>1, <3>1, <3>2
  <2> QED BY <2>2, <2>3
<1>9. ~\E r \in requests : Lose(r) BY DEF Lose
<1> QED BY <1>4, <1>5, <1>6, <1>7, <1>8, <1>9 DEF DeliveryNext, Detector, Server

\* The worker takes an alert off the queue and stores it once, or not at all.
LEMMA WorkCounts ==
  ASSUME PathIInv, CountInv, HitsInv, Work
  PROVE  CountInv' /\ HitsInv'
<1>1. /\ FlagsIInv /\ accepted \in Nat /\ poll \in Nat
      /\ alert_queue \in Seq(Points) /\ Len(alert_queue) \in Nat
  BY LenProperties
  DEF PathIInv, ManagerIInv, FlagsIInv, FlagsTypeOK, DeliveryIInv, TypeInv
<1>2. alert_queue # <<>> /\ alert_queue' = Tail(alert_queue) BY DEF Work, HandleAlert
<1>3. Head(alert_queue) \in Points /\ Len(alert_queue') = Len(alert_queue) - 1
  BY <1>1, <1>2, HeadTailProperties
<1>4. \E g : AddFlag(Head(alert_queue), g) BY DEF Work, HandleAlert
<1>5. HitsInv' /\ accepted' \in {accepted, accepted + 1} BY <1>1, <1>3, <1>4, AddFlagHits
<1>6. poll' = poll /\ requests' = requests BY DEF Work, senderVars, detectorVars
<1>7. InFlight' = InFlight /\ InFlight \in {0, 1} BY <1>6 DEF InFlight
<1>8. CountInv' BY <1>1, <1>3, <1>5, <1>6, <1>7, SMT DEF CountInv
<1> QED BY <1>5, <1>8
LEMMA SenderPolls ==
  ASSUME DeliveryIInv, PollsInv, DeliveryNext
  PROVE  PollsInv'
<1>1. CASE PollTouched
  <2>1. poll < MaxPolls /\ poll' = poll + 1 /\ poll \in Nat
    BY <1>1 DEF PollTouched, DeliveryIInv, TypeInv
  <2> QED BY <2>1, DeliveryAssumption, SMT DEF PollsInv
<1>2. CASE ~PollTouched
  <2>1. poll' = poll
    BY <1>2 DEF DeliveryNext, Detector, Server, PollUntouched, AttemptSucceeds,
         AttemptFails, Retry, GiveUp, Wake, Tick, Handle, Receive, Lock, LockTimesOut,
         CopyCallback, RunCallback, Lose, detectorVars
  <2> QED BY <2>1 DEF PollsInv
<1> QED BY <1>1, <1>2

LEMMA ReliableInitIInv == DetectorToPinInit => ReliableIInv
<1> SUFFICES ASSUME DetectorToPinInit PROVE ReliableIInv OBVIOUS
<1>1. PathIInv /\ ReliableInv BY PathInitIInv, ReliableInit DEF DetectorToPinInit
<1>2. /\ accepted = 0 /\ poll = 0 /\ requests = {} /\ alert_queue = <<>>
      /\ DOMAIN groups = {} /\ rtree = {}
  BY SMT DEF DetectorToPinInit, DeliveryInit, ManagerInit, FlagsInit
<1>3. Len(alert_queue) = 0 BY <1>2, SMT
<1>4. InFlight = 0 BY <1>2 DEF InFlight
<1>5. CountInv BY <1>2, <1>3, <1>4, SMT DEF CountInv
<1>6. HitsInv BY <1>2 DEF HitsInv, Solitaries
<1>7. PollsInv BY <1>2, DeliveryAssumption, SMT DEF PollsInv
<1> QED BY <1>1, <1>5, <1>6, <1>7 DEF ReliableIInv

LEMMA ReliableNextIInv ==
  ASSUME Reliable, ReliableIInv, [DetectorToPinNext]_vars
  PROVE  ReliableIInv'
<1> USE DEF ReliableIInv
<1>1. PathIInv' BY PathNextIInv
<1>2. CASE DeliveryNext /\ UNCHANGED workerVars /\ (now' = now \/ now' = now + 1)
  <2>1. ReliableInv' BY <1>2, ReliableNext DEF PathIInv
  <2>2. CountInv' BY <1>2, SenderCounts
  <2>3. HitsInv' BY <1>2 DEF HitsInv, Solitaries, workerVars, flagVars
  <2>4. PollsInv' BY <1>2, SenderPolls DEF PathIInv
  <2> QED BY <1>1, <2>1, <2>2, <2>3, <2>4
<1>3. CASE Work
  <2>1. CountInv' /\ HitsInv' BY <1>3, WorkCounts
  <2>2. ReliableInv' BY <1>3, SenderKept DEF Work
  <2>3. PollsInv' BY <1>3 DEF Work, senderVars, detectorVars, PollsInv
  <2> QED BY <1>1, <2>1, <2>2, <2>3
<1>4. CASE UNCHANGED vars
  <2>1. ReliableInv' BY <1>4, SenderKept DEF vars
  <2>2. CountInv' /\ HitsInv' /\ PollsInv'
    BY <1>4 DEF vars, workerVars, flagVars, senderVars, detectorVars, CountInv, InFlight,
                HitsInv, Solitaries, PollsInv
  <2> QED BY <1>1, <2>1, <2>2
<1> QED BY <1>2, <1>3, <1>4, SenderStep

\* The inductive invariant holds in every reachable state if requests are
\* answered in time.
THEOREM ReliablePathInvariant ==
  ASSUME Reliable PROVE DetectorToPinSpec => []ReliableIInv
<1>1. ReliableIInv /\ [DetectorToPinNext]_vars => ReliableIInv' BY ReliableNextIInv
<1> QED BY <1>1, ReliableInitIInv, PTL DEF DetectorToPinSpec

\* Also with the worker draining the queue, what the detector counts as sent
\* went through it (the handler answers after the callback).
THEOREM SentAlwaysQueued ==
  ASSUME Reliable PROVE DetectorToPinSpec => []SentMeansQueued
<1>1. ReliableIInv => SentMeansQueued BY DEF ReliableIInv, ReliableInv, SentMeansQueued
<1> QED BY <1>1, ReliablePathInvariant, PTL

\* A touch is never counted twice, for any number of polls and any speed of the
\* worker: the loop of Controller ends its attempts with the first answer.
THEOREM TouchAlwaysCountedOnce ==
  ASSUME Reliable PROVE DetectorToPinSpec => []TouchCountedOnce
<1>1. ReliableIInv => TouchCountedOnce
  <2> SUFFICES ASSUME ReliableIInv PROVE TouchCountedOnce OBVIOUS
  <2>1. accepted \in Nat /\ poll \in Nat /\ Len(alert_queue) \in Nat
    BY LenProperties
    DEF ReliableIInv, PathIInv, ManagerIInv, FlagsIInv, FlagsTypeOK, DeliveryIInv, TypeInv
  <2>2. InFlight \in {0, 1} BY DEF InFlight
  <2> QED BY <2>1, <2>2, SMT DEF ReliableIInv, CountInv, TouchCountedOnce
<1> QED BY <1>1, ReliablePathInvariant, PTL

\* Hence a pin takes three touched polls (PinNeedsThreeTouches): neither the
\* clock nor the order of handlers and worker can replace one of them.
THEOREM PinAlwaysNeedsThreePolls ==
  ASSUME Reliable PROVE DetectorToPinSpec => []PinNeedsThreePolls
<1>1. ReliableIInv => PinNeedsThreePolls
  <2> SUFFICES ASSUME ReliableIInv, pins # <<>> PROVE poll >= 3
    BY DEF PinNeedsThreePolls
  <2>1. /\ ManagerIInv /\ HitsInv /\ CountInv
        /\ accepted \in Nat /\ poll \in Nat /\ Len(alert_queue) \in Nat
    BY LenProperties
    DEF ReliableIInv, PathIInv, ManagerIInv, FlagsIInv, FlagsTypeOK, DeliveryIInv, TypeInv
  <2>2. PICK g : g \in DOMAIN pins
    <3>1. DOMAIN pins = {} => pins = <<>> BY <2>1, SMT DEF ManagerIInv
    <3> QED BY <3>1
  <2>3. g \in DOMAIN groups /\ groups[g].hits >= 3
    BY <2>1, <2>2, PinHasThreeTouches DEF PinNeedsThreeTouches
  <2>4. groups[g].hits \in Nat /\ groups[g].hits <= accepted
    BY <2>1, <2>3 DEF HitsInv, ManagerIInv, FlagsIInv, FlagsTypeOK, Position
  <2>5. InFlight \in {0, 1} BY DEF InFlight
  <2> QED BY <2>1, <2>3, <2>4, <2>5, SMT DEF CountInv
<1> QED BY <1>1, ReliablePathInvariant, PTL

-----------------------------------------------------------------------------
(* From the touch to the pin, on any network *)

\* The copies of alerts that have not passed their handler.
Waiting == {r \in requests : r.stage # "answered"}

\* The attempts that the current poll may still make.
Unused == IF pc \in {"posting", "backoff"} THEN Attempts - attempt ELSE 0

\* However answers are lost, no touched poll is worth more than its attempts.
CopiesBounded == accepted + Len(alert_queue) <= Attempts * poll

BudgetInv ==
  /\ IsFiniteSet(requests)
  /\ accepted + Len(alert_queue) + Cardinality(Waiting) + Unused <= Attempts * poll

CopiesIInv == PathIInv /\ BudgetInv /\ PollsInv

LEMMA BudgetTypes ==
  ASSUME PathIInv, IsFiniteSet(requests)
  PROVE  /\ accepted \in Nat /\ poll \in Nat /\ attempt \in 0 .. Attempts
         /\ alert_queue \in Seq(Points) /\ Len(alert_queue) \in Nat
         /\ IsFiniteSet(Waiting) /\ Cardinality(Waiting) \in Nat
         /\ Unused \in 0 .. Attempts
<1>1. /\ accepted \in Nat /\ poll \in Nat /\ attempt \in 0 .. Attempts
      /\ alert_queue \in Seq(Points)
  BY DEF PathIInv, ManagerIInv, FlagsIInv, FlagsTypeOK, DeliveryIInv, TypeInv
<1>2. Waiting \in SUBSET requests BY DEF Waiting
<1>3. Unused \in 0 .. Attempts
  <2>1. Attempts - attempt \in 0 .. Attempts /\ 0 \in 0 .. Attempts
    BY <1>1, SMT DEF Attempts
  <2> QED BY <2>1 DEF Unused
<1> QED BY <1>1, <1>2, <1>3, FS_Subset, FS_CardinalityType, LenProperties

\* A post is paid by an attempt of its poll.
LEMMA PostBudget ==
  ASSUME PathIInv, BudgetInv, UNCHANGED <<accepted, alert_queue>>,
         NEW new, requests' = requests \cup {new}, pc' = "posting",
         \/ poll' = poll + 1 /\ attempt' = 1
         \/ poll' = poll /\ attempt' = attempt + 1 /\ attempt < Attempts /\ pc = "backoff"
  PROVE  BudgetInv'
<1>1. IsFiniteSet(requests') BY FS_AddElement DEF BudgetInv
<1>2. /\ Waiting' \subseteq Waiting \cup {new}
      /\ IsFiniteSet(Waiting \cup {new})
      /\ Cardinality(Waiting \cup {new}) \in {Cardinality(Waiting), Cardinality(Waiting) + 1}
  <2>1. Waiting' \subseteq Waiting \cup {new} BY DEF Waiting
  <2>2. IsFiniteSet(Waiting) BY BudgetTypes DEF BudgetInv
  <2> QED BY <2>1, <2>2, FS_AddElement
<1>3. /\ Cardinality(Waiting') <= Cardinality(Waiting \cup {new})
      /\ Cardinality(Waiting') \in Nat
  BY <1>2, FS_Subset, FS_CardinalityType
<1>4. Unused' = Attempts - attempt' BY DEF Unused
<1>5. poll' = poll => Unused = Attempts - attempt BY BudgetTypes, SMT DEF Unused, BudgetInv
<1>6. accepted' + Len(alert_queue') + Cardinality(Waiting') + Unused' <= Attempts * poll'
  <2> DEFINE u == Unused
             v == Unused'
             w == Cardinality(Waiting)
             x == Cardinality(Waiting')
             y == Cardinality(Waiting \cup {new})
  <2>1. /\ accepted \in Nat /\ poll \in Nat /\ attempt \in 0 .. 3
        /\ Len(alert_queue) \in Nat /\ w \in Nat /\ u \in 0 .. 3
    BY BudgetTypes DEF BudgetInv, Attempts
  <2>2. x <= y /\ x \in Nat /\ (y = w \/ y = w + 1) /\ v = 3 - attempt'
        /\ (poll' = poll => u = 3 - attempt)
        /\ accepted + Len(alert_queue) + w + u <= 3 * poll
        /\ accepted' = accepted /\ Len(alert_queue') = Len(alert_queue)
    BY <1>2, <1>3, <1>4, <1>5 DEF BudgetInv, Attempts
  <2>3. \/ poll' = poll + 1 /\ attempt' = 1
        \/ poll' = poll /\ attempt' = attempt + 1 /\ attempt < 3
    BY DEF Attempts
  <2> HIDE DEF u, v, w, x, y
  <2>4. accepted' + Len(alert_queue') + x + v <= 3 * poll'
    BY <2>1, <2>2, <2>3, SMT
  <2> QED BY <2>4 DEF Attempts, v, x
<1> QED BY <1>1, <1>6 DEF BudgetInv

\* A step that makes no copy costs nothing.
LEMMA FewerBudget ==
  ASSUME PathIInv, BudgetInv, UNCHANGED <<accepted, alert_queue, poll>>,
         IsFiniteSet(requests'), Cardinality(Waiting') <= Cardinality(Waiting),
         Cardinality(Waiting') \in Nat, Unused' \in {Unused, 0}
  PROVE  BudgetInv'
<1> DEFINE u == Unused
           v == Unused'
           w == Cardinality(Waiting)
           x == Cardinality(Waiting')
<1>1. /\ accepted \in Nat /\ poll \in Nat /\ Len(alert_queue) \in Nat
      /\ w \in Nat /\ u \in 0 .. 3
  BY BudgetTypes DEF BudgetInv, Attempts
<1>2. /\ accepted + Len(alert_queue) + w + u <= 3 * poll
      /\ x \in Nat /\ x <= w /\ v \in {u, 0}
      /\ accepted' = accepted /\ Len(alert_queue') = Len(alert_queue) /\ poll' = poll
  BY DEF BudgetInv, Attempts
<1> HIDE DEF u, v, w, x
<1>3. accepted' + Len(alert_queue') + x + v <= 3 * poll' BY <1>1, <1>2, SMT
<1> QED BY <1>3 DEF BudgetInv, Attempts, v, x

\* The waiting copies only move on, or fall out.
LEMMA WaitingShrinks ==
  ASSUME IsFiniteSet(requests), NEW r \in requests,
         \/ requests' = requests \ {r}
         \/ \E stage : Advance(r, stage) /\ r.stage # "answered"
  PROVE  /\ IsFiniteSet(requests') /\ IsFiniteSet(Waiting')
         /\ Cardinality(Waiting') \in Nat
         /\ Cardinality(Waiting') <= Cardinality(Waiting)
<1>1. Waiting \in SUBSET requests BY DEF Waiting
<1>2. IsFiniteSet(Waiting) /\ Cardinality(Waiting) \in Nat
  BY <1>1, FS_Subset, FS_CardinalityType
<1>3. CASE requests' = requests \ {r}
  <2>1. Waiting' \in SUBSET Waiting BY <1>3 DEF Waiting
  <2> QED BY <1>2, <1>3, <2>1, FS_RemoveElement, FS_Subset, FS_CardinalityType
<1>4. CASE \E stage : Advance(r, stage) /\ r.stage # "answered"
  <2>1. PICK stage : Advance(r, stage) BY <1>4
  <2> DEFINE new == [r EXCEPT !.stage = stage]
             moved == (Waiting \ {r}) \cup {new}
  <2>2. requests' = (requests \ {r}) \cup {new} BY <2>1 DEF Advance
  <2> HIDE DEF new
  <2>3. r \in Waiting BY <1>4 DEF Waiting
  <2>4. /\ IsFiniteSet(Waiting \ {r}) /\ Cardinality(Waiting \ {r}) = Cardinality(Waiting) - 1
    BY <1>2, <2>3, FS_RemoveElement
  <2>5. /\ IsFiniteSet(moved)
        /\ Cardinality(moved) \in {Cardinality(Waiting \ {r}), Cardinality(Waiting \ {r}) + 1}
    BY <2>4, FS_AddElement
  <2>6. Waiting' \in SUBSET moved BY <2>2 DEF Waiting
  <2> HIDE DEF moved
  <2>7. /\ IsFiniteSet(Waiting') /\ Cardinality(Waiting') \in Nat
        /\ Cardinality(Waiting') <= Cardinality(moved)
    BY <2>5, <2>6, FS_Subset, FS_CardinalityType
  <2>8. Cardinality(moved) <= Cardinality(Waiting)
    BY <1>2, <2>4, <2>5, SMT
  <2>9. Cardinality(Waiting') <= Cardinality(Waiting)
    <3>1. Cardinality(moved) \in Nat BY <2>5, FS_CardinalityType
    <3> QED BY <1>2, <2>7, <2>8, <3>1, SMT
  <2>10. IsFiniteSet(requests')
    <3>1. IsFiniteSet(requests \ {r}) BY FS_RemoveElement
    <3> QED BY <2>2, <3>1, FS_AddElement
  <2> QED BY <2>7, <2>9, <2>10
<1> QED BY <1>3, <1>4

LEMMA SenderBudget ==
  ASSUME PathIInv, BudgetInv, DeliveryNext, UNCHANGED workerVars
  PROVE  BudgetInv'
<1>1. accepted' = accepted BY DEF workerVars, flagVars
<1>2. IsFiniteSet(requests) BY DEF BudgetInv
<1>3. CASE PollTouched \/ Retry
  <2>1. /\ alert_queue' = alert_queue /\ pc' = "posting"
        /\ \E new : requests' = requests \cup {new}
        /\ \/ poll' = poll + 1 /\ attempt' = 1
           \/ poll' = poll /\ attempt' = attempt + 1 /\ attempt < Attempts /\ pc = "backoff"
    BY <1>3 DEF PollTouched, Retry, Post, serverVars
  <2> QED BY <1>1, <2>1, PostBudget
<1>4. CASE PollUntouched \/ AttemptFails \/ GiveUp \/ Wake \/ Tick
  <2>1. /\ alert_queue' = alert_queue /\ poll' = poll /\ requests' = requests
        /\ Unused' = Unused \/ Unused' = 0
    BY <1>4 DEF PollUntouched, AttemptFails, GiveUp, Wake, Tick, serverVars, Unused, ReadGps
  <2>2. Waiting' = Waiting BY <2>1 DEF Waiting
  <2>3. Cardinality(Waiting) \in Nat BY <1>2, BudgetTypes
  <2>4. Cardinality(Waiting') <= Cardinality(Waiting) BY <2>2, <2>3
  <2> QED BY <1>1, <1>2, <2>1, <2>2, <2>3, <2>4, FewerBudget
<1>5. CASE AttemptSucceeds
  <2>1. /\ alert_queue' = alert_queue /\ poll' = poll /\ Unused' = 0
        /\ \E r \in requests : requests' = requests \ {r}
    BY <1>5 DEF AttemptSucceeds, serverVars, Unused
  <2> QED BY <1>1, <1>2, <2>1, WaitingShrinks, FewerBudget
<1>6. ASSUME NEW r \in requests, Lose(r) PROVE BudgetInv'
  <2>1. /\ alert_queue' = alert_queue /\ poll' = poll /\ Unused' = Unused
        /\ requests' = requests \ {r}
    BY <1>6 DEF Lose, serverVars, detectorVars, Unused
  <2> QED BY <1>1, <1>2, <2>1, WaitingShrinks, FewerBudget
<1>7. ASSUME NEW r \in requests, Handle(r) PROVE BudgetInv'
  <2>1. /\ poll' = poll /\ Unused' = Unused /\ r.stage # "answered"
        /\ \E stage : Advance(r, stage)
    BY <1>7 DEF Handle, Receive, Lock, LockTimesOut, CopyCallback, RunCallback,
                detectorVars, Unused
  <2>2. CASE RunCallback(r)
    <3>1. /\ alert_queue' = Append(alert_queue, r.at) /\ r \in Waiting
          /\ requests' = (requests \ {r}) \cup {[r EXCEPT !.stage = "answered"]}
      BY <2>2 DEF RunCallback, Advance, Waiting
    <3>2. r \in RequestType BY DEF PathIInv, DeliveryIInv, TypeInv
    <3>3. r.at \in Points BY <3>2, PathAssumption DEF RequestType, Places
    <3>4. Len(alert_queue') = Len(alert_queue) + 1
      BY <1>2, <3>1, <3>3, BudgetTypes, AppendProperties
    <3>5. Waiting' = Waiting \ {r}
      <4>1. [r EXCEPT !.stage = "answered"].stage = "answered" BY <3>2 DEF RequestType
      <4> QED BY <3>1, <4>1 DEF Waiting
    <3>6. /\ Cardinality(Waiting') = Cardinality(Waiting) - 1
          /\ IsFiniteSet(requests')
      BY <1>2, <2>1, <3>1, <3>5, BudgetTypes, FS_RemoveElement, WaitingShrinks
    <3> DEFINE u == Unused
               v == Unused'
               w == Cardinality(Waiting)
               x == Cardinality(Waiting')
    <3>7. /\ accepted \in Nat /\ poll \in Nat /\ Len(alert_queue) \in Nat
          /\ w \in Nat /\ u \in 0 .. 3
          /\ accepted + Len(alert_queue) + w + u <= 3 * poll
      BY BudgetTypes DEF BudgetInv, Attempts
    <3>8. x = w - 1 /\ v = u BY <2>1, <3>6
    <3> HIDE DEF u, v, w, x
    <3>9. accepted' + Len(alert_queue') + x + v <= 3 * poll'
      BY <1>1, <2>1, <3>4, <3>7, <3>8, SMT
    <3> QED BY <3>6, <3>9 DEF BudgetInv, Attempts, v, x
  <2>3. CASE ~RunCallback(r)
    <3>1. alert_queue' = alert_queue
      BY <1>7, <2>3 DEF Handle, Receive, Lock, LockTimesOut, CopyCallback, serverVars
    <3> QED BY <1>1, <1>2, <2>1, <3>1, WaitingShrinks, FewerBudget
  <2> QED BY <2>2, <2>3
<1> QED BY <1>3, <1>4, <1>5, <1>6, <1>7 DEF DeliveryNext, Detector, Server

\* What the worker stores it took off the queue.
LEMMA WorkBudget ==
  ASSUME PathIInv, BudgetInv, Work
  PROVE  BudgetInv'
<1>1. alert_queue # <<>> /\ alert_queue' = Tail(alert_queue) BY DEF Work, HandleAlert
<1>2. /\ accepted \in Nat /\ poll \in Nat /\ alert_queue \in Seq(Points)
      /\ Len(alert_queue) \in Nat
  BY BudgetTypes DEF BudgetInv
<1>3. Len(alert_queue') = Len(alert_queue) - 1 BY <1>1, <1>2, HeadTailProperties
<1>4. accepted' \in {accepted, accepted + 1}
  BY DEF Work, HandleAlert, AddFlag, Skip, flagVars, InsertSolitary, Promote, Corroborate,
         StoreGroup
<1>5. requests' = requests /\ Waiting' = Waiting /\ Unused' = Unused /\ poll' = poll
  BY DEF Work, senderVars, detectorVars, Waiting, Unused
<1> DEFINE u == Unused
           w == Cardinality(Waiting)
<1>6. w \in Nat /\ u \in 0 .. 3 /\ accepted + Len(alert_queue) + w + u <= 3 * poll
  BY BudgetTypes DEF BudgetInv, Attempts
<1> HIDE DEF u, w
<1>7. accepted' + Len(alert_queue') + w + u <= 3 * poll'
  BY <1>2, <1>3, <1>4, <1>5, <1>6, SMT
<1> QED BY <1>5, <1>7 DEF BudgetInv, Attempts, u, w

THEOREM CopiesInvariant == DetectorToPinSpec => []CopiesIInv
<1>1. DetectorToPinInit => CopiesIInv
  <2> SUFFICES ASSUME DetectorToPinInit PROVE CopiesIInv OBVIOUS
  <2>1. PathIInv BY PathInitIInv
  <2>2. /\ accepted = 0 /\ poll = 0 /\ requests = {} /\ alert_queue = <<>>
        /\ pc = "reading"
    BY SMT DEF DetectorToPinInit, DeliveryInit, ManagerInit, FlagsInit
  <2>3. Len(alert_queue) = 0 BY <2>2, SMT
  <2>4. Waiting = {} /\ Unused = 0 BY <2>2 DEF Waiting, Unused
  <2>5. IsFiniteSet(requests) /\ Cardinality(Waiting) = 0 BY <2>2, <2>4, FS_EmptySet
  <2>6. BudgetInv BY <2>2, <2>3, <2>4, <2>5, SMT DEF BudgetInv, Attempts
  <2>7. PollsInv BY <2>2, DeliveryAssumption, SMT DEF PollsInv
  <2> QED BY <2>1, <2>6, <2>7 DEF CopiesIInv
<1>2. CopiesIInv /\ [DetectorToPinNext]_vars => CopiesIInv'
  <2> SUFFICES ASSUME CopiesIInv, [DetectorToPinNext]_vars PROVE CopiesIInv' OBVIOUS
  <2> USE DEF CopiesIInv
  <2>1. PathIInv' BY PathNextIInv
  <2>2. CASE DeliveryNext /\ UNCHANGED workerVars /\ (now' = now \/ now' = now + 1)
    BY <2>1, <2>2, SenderBudget, SenderPolls DEF PathIInv
  <2>3. CASE Work
    <3>1. PollsInv' BY <2>3 DEF Work, senderVars, detectorVars, PollsInv
    <3> QED BY <2>1, <2>3, <3>1, WorkBudget
  <2>4. CASE UNCHANGED vars
    <3>1. BudgetInv' /\ PollsInv'
      BY <2>4 DEF vars, workerVars, flagVars, senderVars, detectorVars, BudgetInv, Waiting,
                  Unused, PollsInv
    <3> QED BY <2>1, <3>1
  <2> QED BY <2>2, <2>3, <2>4, SenderStep
<1> QED BY <1>1, <1>2, PTL DEF DetectorToPinSpec

\* On any network, a touched poll is stored or queued three times at most: the
\* attempts of Controller::runLoop are all the copies there are, however late
\* they come and however many answers are lost.
THEOREM CopiesAlwaysBounded == DetectorToPinSpec => []CopiesBounded
<1>1. CopiesIInv => CopiesBounded
  <2> SUFFICES ASSUME CopiesIInv PROVE CopiesBounded OBVIOUS
  <2> DEFINE u == Unused
             w == Cardinality(Waiting)
  <2>1. /\ accepted \in Nat /\ poll \in Nat /\ Len(alert_queue) \in Nat
        /\ w \in Nat /\ u \in 0 .. 3
        /\ accepted + Len(alert_queue) + w + u <= 3 * poll
    BY BudgetTypes DEF CopiesIInv, BudgetInv, Attempts
  <2> HIDE DEF u, w
  <2> QED BY <2>1, SMT DEF CopiesBounded, Attempts
<1> QED BY <1>1, CopiesInvariant, PTL

\* Seen from its queue, the whole path is a run of MineAlertManager, on any
\* network: handlers push one alert at a time, the worker takes them, seconds
\* pass.  The bounds of the two specifications have to agree.
THEOREM PathImplementsManager ==
  ASSUME Attempts * MaxPolls <= MaxAlerts, 1 \in Delays
  PROVE  DetectorToPinSpec => ManagerSpec
<1>1. DetectorToPinInit => ManagerInit BY DEF DetectorToPinInit
<1>2. CopiesIInv /\ [DetectorToPinNext]_vars => [ManagerNext]_managerVars
  <2> SUFFICES ASSUME CopiesIInv, [DetectorToPinNext]_vars
               PROVE  [ManagerNext]_managerVars
    OBVIOUS
  <2>1. CASE Send
    <3>1. UNCHANGED <<flagVars, confidences, pins, now>> BY <2>1 DEF Send, workerVars
    <3>2. CASE alert_queue' = alert_queue BY <3>1, <3>2 DEF managerVars
    <3>3. CASE \E r \in requests : RunCallback(r) /\ alert_queue' = Append(alert_queue, r.at)
      <4>1. PICK r \in requests : RunCallback(r) /\ alert_queue' = Append(alert_queue, r.at)
        BY <3>3
      <4>2. Cardinality(Waiting) >= 1
        <5>1. r \in Waiting BY <4>1 DEF RunCallback, Waiting
        <5>2. IsFiniteSet(Waiting) /\ Cardinality(Waiting) \in Nat
          BY BudgetTypes DEF CopiesIInv, BudgetInv
        <5>3. Cardinality(Waiting) # 0 BY <5>1, <5>2, FS_EmptySet
        <5> QED BY <5>2, <5>3, SMT
      <4>3. accepted + Len(alert_queue) < MaxAlerts
        <5> DEFINE u == Unused
                   w == Cardinality(Waiting)
        <5>1. /\ accepted \in Nat /\ poll \in Nat /\ Len(alert_queue) \in Nat
              /\ w \in Nat /\ u \in 0 .. 3 /\ w >= 1
              /\ accepted + Len(alert_queue) + w + u <= 3 * poll
              /\ poll <= MaxPolls /\ 3 * MaxPolls <= MaxAlerts
          BY <4>2, BudgetTypes DEF CopiesIInv, BudgetInv, PollsInv, Attempts
        <5> HIDE DEF u, w
        <5> QED BY <5>1, FlagsAssumption, DeliveryAssumption, SMT
      <4>4. r.at \in Points
        BY PathAssumption
        DEF CopiesIInv, PathIInv, DeliveryIInv, TypeInv, RequestType, Places
      <4>5. PushAlert(r.at) BY <3>1, <4>1, <4>3 DEF PushAlert
      <4> QED BY <4>4, <4>5 DEF ManagerNext
    <3> QED BY <2>1, <3>2, <3>3, SendPushes DEF Send
  <2>2. CASE Work BY <2>2 DEF Work, ManagerNext
  <2>3. CASE Second
    <3>1. now \in Nat BY DEF CopiesIInv, PathIInv, ManagerIInv
    <3>2. Pass(1)
      BY <2>3, <3>1, ManagerAssumption, SMT
      DEF Second, Pass, workerVars, Tick, serverVars
    <3> QED BY <3>2 DEF ManagerNext
  <2>4. CASE UNCHANGED vars BY <2>4 DEF vars, workerVars, managerVars
  <2> QED BY <2>1, <2>2, <2>3, <2>4 DEF DetectorToPinNext
<1> QED BY <1>1, <1>2, CopiesInvariant, PTL DEF DetectorToPinSpec, ManagerSpec
=============================================================================
