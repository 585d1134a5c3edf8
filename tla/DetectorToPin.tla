--------------------------- MODULE DetectorToPin ---------------------------
(* From the touch to the pin: the detector and the HTTP server of          *)
(* AlertDelivery fill the queue, the worker of MineAlertManager drains it, *)
(* and one clock, that of the tracker, runs along with the detector's      *)
(* timers.                                                                 *)
EXTENDS AlertDelivery, MineAlertManager

\* Alerts come from the receiver, or name the 0, 0 of a detector that had no fix;
\* the tracker's limit of 0.01 degrees is above it.
ASSUME PathAssumption ==
  /\ Fixes \cup {NoFix} \subseteq Points
  /\ NoFix = [lon |-> 0, lat |-> 0]
  /\ MinCoordinate > 0

workerVars == <<flagVars, confidences, pins>>
senderVars == <<detectorVars, requests, callback_mutex, queued>>
vars == <<workerVars, alert_queue, now, senderVars>>

DetectorToPinInit == ManagerInit /\ DeliveryInit

\* The detector, a handler or the network.
Send ==
  /\ \/ Detector
     \/ Server
     \/ \E r \in requests : Lose(r)
  /\ UNCHANGED <<workerVars, now>>

Work ==
  /\ HandleAlert
  /\ UNCHANGED senderVars

Second ==
  /\ now < MaxTime
  /\ now' = now + 1
  /\ Tick
  /\ UNCHANGED workerVars

DetectorToPinNext == Send \/ Work \/ Second

DetectorToPinSpec == DetectorToPinInit /\ [][DetectorToPinNext]_vars

-----------------------------------------------------------------------------
(* Properties *)

\* With a network that answers in time, the tracker counts a touch once: what
\* it stored and what waits in the queue does not exceed the touched polls.
TouchCountedOnce == accepted + Len(alert_queue) <= poll

\* A pin takes three polls that found the sensor touched (README: 80% of
\* confidence "corresponds to 3 clear alerts in the area").  It depends on the
\* network: an answer that is lost makes the detector send copies, which come
\* more than the debounce apart.
PinNeedsThreePolls == pins # <<>> => poll >= 3

\* A detector that never had a fix reports 0, 0; no pin is ever put there.
NoPinWithoutFix == \A g \in DOMAIN pins : pins[g] # NoFix

\* What the detector counts as sent is in the queue or beyond.
SentMeansQueued == SuccessMeansQueued
=============================================================================
