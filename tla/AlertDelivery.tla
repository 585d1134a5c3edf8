--------------------------- MODULE AlertDelivery ---------------------------
(* How a touch becomes an alert in the queue of the tracker: the loop of   *)
(* Controller::runLoop with HttpClient::sendMineAlert on the detector, the *)
(* POST handler of HttpServer on the tracker, and a network in between     *)
(* that loses and delays.  Time is in seconds; the tracker takes none.     *)
EXTENDS Integers, FiniteSets, Buzzer, AlertQueue
LOCAL INSTANCE FiniteSetsExt

CONSTANTS
  Fixes,     \* the positions the receiver may report
  NoFix,     \* the position 0, 0 of a detector that had no fix yet
  BuzzerTypes,  \* the types of buzzer that may be mounted
  Reliable,  \* whether every request is answered in time
  MaxPolls,  \* bound: polls that find the sensor touched
  MaxLag     \* bound: seconds the loop is modelled to lag behind

Attempts == 3
Timeout  == 5    \* config.timeout_ms
Backoff  == 2    \* vTaskDelay after a failed attempt
Interval == 1    \* pollIntervalMs, as app_main passes it
GpsRead  == 0 .. 1   \* uart_read_bytes returns with the buffer full or after 1 s

ASSUME DeliveryAssumption ==
  BuzzerTypes \subseteq Types /\ Reliable \in BOOLEAN /\ MaxPolls \in Nat /\ MaxLag \in Nat /\ MaxLag >= Interval

VARIABLES
  pc,           \* "reading" gps, "posting", "backoff" or "sleeping"
  timer,        \* seconds the blocking call may still take
  lag,          \* seconds since lastWakeTime
  last_gps,     \* last_gps_data
  buzzer,       \* a record of Buzzer
  attempt,
  poll,         \* touched polls so far, the current one included
  requests,     \* [poll, attempt, at, stage]: POSTs that are neither over nor lost
  callback_mutex,  \* the request whose handler holds it, or NoRequest
  queued,       \* history: the [poll, attempt] whose callback ran
  acked         \* history: the polls whose alert the client counts as sent

deliveryVars == <<pc, timer, lag, last_gps, buzzer, attempt, poll, requests,
                  callback_mutex, alert_queue, queued, acked>>
serverVars   == <<callback_mutex, alert_queue, queued>>
detectorVars == <<pc, timer, lag, last_gps, buzzer, attempt, poll, acked>>

NoRequest == [poll |-> 0, attempt |-> 0]

Id(r) == [poll |-> r.poll, attempt |-> r.attempt]

DeliveryInit ==
  /\ pc = "reading"
  /\ timer \in GpsRead
  /\ lag = 0
  /\ last_gps = NoFix
  /\ buzzer \in {InitBuzzer(type) : type \in BuzzerTypes}
  /\ attempt = 0
  /\ poll = 0
  /\ requests = {}
  /\ callback_mutex = NoRequest
  /\ alert_queue = <<>>
  /\ queued = {}
  /\ acked = {}

-----------------------------------------------------------------------------
(* Controller::runLoop *)

\* http_client.sendMineAlert starts, with the last fix.
Post(n, k, at) ==
  /\ requests' = requests \cup {[poll |-> n, attempt |-> k, at |-> at, stage |-> "sent"]}
  /\ pc' = "posting"
  /\ timer' = Timeout
  /\ attempt' = k

\* gps.get_data returns a fix, or nothing and the last fix stays.
ReadGps ==
  /\ pc = "reading"
  /\ timer = 0
  /\ last_gps' \in Fixes \cup {last_gps}

PollTouched ==
  /\ ReadGps
  /\ poll < MaxPolls
  /\ buzzer' = TurnOn(buzzer)
  /\ poll' = poll + 1
  /\ Post(poll + 1, 1, last_gps')
  /\ UNCHANGED <<lag, acked, serverVars>>

PollUntouched ==
  /\ ReadGps
  /\ buzzer' = TurnOff(buzzer)
  /\ pc' = "sleeping"
  /\ UNCHANGED <<timer, lag, attempt, poll, requests, acked, serverVars>>

Current(r) == r.poll = poll /\ r.attempt = attempt

\* Mutant: neither the break nor the condition of the loop.
AttemptSucceedsGoesOn ==
  /\ pc = "posting"
  /\ \E r \in requests :
       /\ Current(r) /\ r.stage = "answered"
       /\ requests' = requests \ {r}
  /\ acked' = acked \cup {poll}
  /\ pc' = "backoff"
  /\ timer' = Backoff
  /\ UNCHANGED <<lag, last_gps, buzzer, attempt, poll, serverVars>>

\* A 2xx status counts as success, whatever the body says.
AttemptSucceeds ==
  /\ pc = "posting"
  /\ \E r \in requests :
       /\ Current(r) /\ r.stage = "answered"
       /\ requests' = requests \ {r}
  /\ acked' = acked \cup {poll}
  /\ pc' = "sleeping"
  /\ UNCHANGED <<timer, lag, last_gps, buzzer, attempt, poll, serverVars>>

\* esp_http_client_perform fails, at the latest when its time is up.
AttemptFails ==
  /\ ~Reliable
  /\ pc = "posting"
  /\ pc' = "backoff"
  /\ timer' = Backoff
  /\ UNCHANGED <<lag, last_gps, buzzer, attempt, poll, requests, acked, serverVars>>

\* Mutant: the receiver is read again before a retry.
RetryWithNewFix ==
  /\ pc = "backoff"
  /\ timer = 0
  /\ attempt < Attempts
  /\ last_gps' \in Fixes \cup {last_gps}
  /\ Post(poll, attempt + 1, last_gps')
  /\ UNCHANGED <<lag, buzzer, poll, acked, serverVars>>

Retry ==
  /\ pc = "backoff"
  /\ timer = 0
  /\ attempt < Attempts
  /\ Post(poll, attempt + 1, last_gps)
  /\ UNCHANGED <<lag, last_gps, buzzer, poll, acked, serverVars>>

\* Mutant: the attempts start over instead.
NeverGiveUp ==
  /\ pc = "backoff"
  /\ timer = 0
  /\ attempt >= Attempts
  /\ attempt' = 0
  /\ UNCHANGED <<pc, timer, lag, last_gps, buzzer, poll, requests, acked, serverVars>>

\* "Send flag failed. Action needed!"
GiveUp ==
  /\ pc = "backoff"
  /\ timer = 0
  /\ attempt >= Attempts
  /\ pc' = "sleeping"
  /\ UNCHANGED <<timer, lag, last_gps, buzzer, attempt, poll, requests, acked, serverVars>>

\* vTaskDelayUntil advances lastWakeTime by one interval, and does not sleep
\* at all while that is in the past.
Wake ==
  /\ pc = "sleeping"
  /\ lag >= Interval
  /\ lag' = lag - Interval
  /\ pc' = "reading"
  /\ timer' \in GpsRead
  /\ UNCHANGED <<last_gps, buzzer, attempt, poll, requests, acked, serverVars>>

\* A second passes, unless the running call is over by now.
Tick ==
  /\ IF pc = "sleeping" THEN lag < Interval ELSE timer > 0
  /\ timer' = Max({timer - 1, 0})
  /\ lag' = Min({lag + 1, MaxLag})
  /\ UNCHANGED <<pc, last_gps, buzzer, attempt, poll, requests, acked, serverVars>>

-----------------------------------------------------------------------------
(* The POST handler of HttpServer::init, on a thread per request *)

Advance(r, stage) == requests' = (requests \ {r}) \cup {[r EXCEPT !.stage = stage]}

\* The request arrives, late perhaps, and its JSON is well-formed.
Receive(r) ==
  /\ r.stage = "sent"
  /\ Advance(r, "received")
  /\ UNCHANGED <<detectorVars, serverVars>>

Lock(r) ==
  /\ r.stage = "received"
  /\ callback_mutex = NoRequest
  /\ callback_mutex' = Id(r)
  /\ Advance(r, "locked")
  /\ UNCHANGED <<detectorVars, alert_queue, queued>>

\* 100 ms pass while another handler holds the mutex: 200 all the same.
LockTimesOut(r) ==
  /\ r.stage = "received"
  /\ callback_mutex # NoRequest
  /\ Advance(r, "answered")
  /\ UNCHANGED <<detectorVars, serverVars>>

\* Mutant: the handler answers before it runs the callback, and forgets it.
CopyCallbackOnly(r) ==
  /\ r.stage = "locked"
  /\ callback_mutex' = NoRequest
  /\ Advance(r, "answered")
  /\ UNCHANGED <<detectorVars, alert_queue, queued>>

CopyCallback(r) ==
  /\ r.stage = "locked"
  /\ callback_mutex' = NoRequest
  /\ Advance(r, "copied")
  /\ UNCHANGED <<detectorVars, alert_queue, queued>>

\* cb_copy(data) pushes the alert; then the handler returns 200.
RunCallback(r) ==
  /\ r.stage = "copied"
  /\ alert_queue' = Append(alert_queue, r.at)
  /\ queued' = queued \cup {Id(r)}
  /\ Advance(r, "answered")
  /\ UNCHANGED <<detectorVars, callback_mutex>>

Handle(r) ==
  Receive(r) \/ Lock(r) \/ LockTimesOut(r) \/ CopyCallback(r) \/ RunCallback(r)

\* A request or an answer that gets lost.
Lose(r) ==
  /\ ~Reliable
  /\ r.stage \in {"sent", "answered"}
  /\ requests' = requests \ {r}
  /\ UNCHANGED <<detectorVars, serverVars>>

-----------------------------------------------------------------------------

Detector ==
  \/ PollTouched \/ PollUntouched
  \/ AttemptSucceeds \/ AttemptFails \/ Retry \/ GiveUp
  \/ Wake

Server == \E r \in requests : Handle(r)

DeliveryNext == Detector \/ Server \/ Tick \/ \E r \in requests : Lose(r)

\* The task of the loop is scheduled, every blocking call of it has a timeout,
\* and time passes.  Nothing is assumed of the network or of the tracker.
DeliverySpec ==
  /\ DeliveryInit /\ [][DeliveryNext]_deliveryVars
  /\ WF_deliveryVars(Detector)
  /\ WF_deliveryVars(Tick)

-----------------------------------------------------------------------------
(* Properties *)

\* The attempts end with the first answer to any of them, even one that arrives
\* with the timeout, and without an answer only after the third.
RetriedUntilAnswered ==
  /\ pc \in {"posting", "backoff"} => poll \notin acked
  /\ pc \in {"sleeping", "reading"} /\ poll > 0 => poll \in acked \/ attempt = Attempts

\* Copies of one alert, however late, name one place: a retry repeats the fix
\* of its touch and copies fall in one cluster (Flags::add_flag).
CopiesInOnePlace ==
  \A r, s \in requests : r.poll = s.poll => r.at = s.at

\* The loop never hangs with the buzzer on, whatever the network does: after
\* the last touch the buzzer, of either type, is silent and says so.
BuzzerGoesOff == []<>Silent(buzzer)

-----------------------------------------------------------------------------
\* The detector takes the 200 for an alert that reached the tracker's queue; with
\* Reliable that is so, otherwise a copy in flight can keep callback_mutex from it.
SuccessMeansQueued == \A n \in acked : \E q \in queued : q.poll = n

\* http_client.cpp: "Alert validated by server: success".  An alert that counts
\* as sent is queued, or some copy of it may still come to be.
AcknowledgedNotLost ==
  \A n \in acked :
    \/ \E q \in queued : q.poll = n
    \/ \E r \in requests : r.poll = n /\ r.stage # "answered"
=============================================================================
