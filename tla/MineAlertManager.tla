-------------------------- MODULE MineAlertManager --------------------------
(* MineAlertManager::run of mine_tracker/src/mine_alert_manager.cpp: the   *)
(* worker takes an alert from the queue, files it in the spatial index,    *)
(* updates the confidence of the group and pins the groups it confirms.    *)
(* The index and the confidences belong to the worker alone, so that one   *)
(* turn of its loop is one step.                                           *)
EXTENDS Flags, ConfidenceEngine, AlertQueue

CONSTANTS
  Boot,      \* what the system clock reads at first
  Delays,    \* the seconds that may pass between two events
  MaxTime    \* bound: the last time modelled

ASSUME ManagerAssumption ==
  /\ Boot \in Nat /\ Boot >= DEBOUNCE_SECONDS
  /\ Delays \subseteq Nat
  /\ MaxTime \in Nat

VARIABLES
  confidences,   \* group id -> GroupConfidence (Impl::groups)
  pins,          \* group id -> the position last sent to send_danger_zone
  now            \* the system clock

managerVars == <<flagVars, alert_queue, confidences, pins, now>>

ManagerInit ==
  /\ FlagsInit
  /\ alert_queue = <<>>
  /\ confidences = <<>>
  /\ pins = <<>>
  /\ now = Boot

Set(f, k, v) == [i \in DOMAIN f \cup {k} |-> IF i = k THEN v ELSE f[i]]

\* An HTTP thread pushes an alert that touched p.
PushAlert(p) ==
  /\ accepted + Len(alert_queue) < MaxAlerts
  /\ alert_queue' = Append(alert_queue, p)
  /\ UNCHANGED <<flagVars, confidences, pins, now>>

\* try_emplace
ConfidenceOf(g) == IF g \in DOMAIN confidences THEN confidences[g] ELSE NewConfidence

\* Mutants: the confidence before the touch is tested; lat and lon swapped.
PinIfWasConfirmed(gc, g, p) ==
  pins' = IF IsConfirmed(ConfidenceOf(g)) THEN Set(pins, g, p) ELSE pins
PinSwapped(gc, g, p) ==
  pins' = IF IsConfirmed(gc) THEN Set(pins, g, [lon |-> p.lat, lat |-> p.lon]) ELSE pins

\* send_mavlink_alert, with the position of the alert and not the centroid.
PinIfConfirmed(gc, g, p) ==
  pins' = IF IsConfirmed(gc) THEN Set(pins, g, p) ELSE pins

\* One turn of the loop in run().
HandleAlert ==
  /\ alert_queue # <<>>
  /\ alert_queue' = Tail(alert_queue)
  /\ LET p == Head(alert_queue) IN
     \/ /\ AddFlag(p, NoGroup)
        /\ UNCHANGED <<confidences, pins>>
     \/ \E g \in DOMAIN groups \cup {next_group_id} :
          LET gc == UpdateGroup(ConfidenceOf(g), now) IN
          /\ AddFlag(p, g)
          /\ confidences' = Set(confidences, g, gc)
          /\ PinIfConfirmed(gc, g, p)
  /\ UNCHANGED now

Pass(d) ==
  /\ now + d <= MaxTime
  /\ now' = now + d
  /\ UNCHANGED <<flagVars, alert_queue, confidences, pins>>

ManagerNext ==
  \/ \E p \in Points : PushAlert(p)
  \/ HandleAlert
  \/ \E d \in Delays : Pass(d)

ManagerSpec == ManagerInit /\ [][ManagerNext]_managerVars

-----------------------------------------------------------------------------
(* Properties *)

\* The type of the state of the worker.
ManagerTypeOK ==
  /\ FlagsTypeOK
  /\ alert_queue \in Seq(Points)
  /\ now \in Nat
  /\ \A g \in DOMAIN confidences : confidences[g] \in
       [hit_count : Nat \ {0}, confidence : 0 .. Scale, last_hit_time : Nat]
  /\ \A g \in DOMAIN pins : pins[g] \in Points

\* The index and the manager count the touches of a group apart from each
\* other, and agree: a group exists for both or for neither, and the first hit
\* the manager never saw is the solitary flag that the index promoted.
HitsAgree ==
  /\ DOMAIN confidences = DOMAIN groups
  /\ \A g \in DOMAIN groups : confidences[g].hit_count = groups[g].hits

\* The groups on the map are the groups that are confirmed, at all times: no
\* later touch takes a pinned group back below the threshold.
PinnedIffConfirmed ==
  DOMAIN pins = {g \in DOMAIN confidences : IsConfirmed(confidences[g])}

\* A pin needs three touches: neither one touch nor two can confirm a group
\* (README: 80% "corresponds to 3 clear alerts in the area").
PinNeedsThreeTouches ==
  \A g \in DOMAIN pins : g \in DOMAIN groups /\ groups[g].hits >= 3

\* The pin stands where the last touch was, not at the centroid, and yet it
\* is never farther than the radius from the centroid of its group.
PinsNearCentroids ==
  \A g \in DOMAIN pins : g \in DOMAIN groups /\ Within(groups[g], pins[g])
=============================================================================
