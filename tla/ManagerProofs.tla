--------------------------- MODULE ManagerProofs ---------------------------
(* Theorems about MineAlertManager, for every set of points and delays.    *)
EXTENDS MineAlertManager, FlagsProofs, ConfidenceProofs, SequenceTheorems

GroupConfidences ==
  [hit_count : Nat \ {0}, confidence : Confidences, last_hit_time : Nat]

\* A group the manager knows has been updated, and one update is not enough.
UpdatedInv ==
  \A g \in DOMAIN confidences :
    /\ confidences[g] \in GroupConfidences
    /\ confidences[g].hit_count >= 2
    /\ confidences[g].hit_count = 2 => ~IsConfirmed(confidences[g])

ManagerIInv ==
  /\ FlagsIInv
  /\ alert_queue \in Seq(Points)
  /\ now \in Nat
  /\ UpdatedInv
  /\ HitsAgree
  /\ PinnedIffConfirmed
  /\ pins \in [DOMAIN pins -> Points]
  /\ PinsNearCentroids

\* A worker that has seen no alert satisfies the inductive invariant.
LEMMA ManagerInitIInv == ManagerInit => ManagerIInv
<1> SUFFICES ASSUME ManagerInit PROVE ManagerIInv OBVIOUS
<1>1. FlagsIInv BY FlagsInitIInv DEF ManagerInit
<1>2. alert_queue \in Seq(Points) /\ now \in Nat
  BY ManagerAssumption, SMT DEF ManagerInit
<1>3. DOMAIN confidences = {} /\ DOMAIN pins = {} /\ DOMAIN groups = {}
  BY SMT DEF ManagerInit, FlagsInit
<1> QED
  BY <1>1, <1>2, <1>3 DEF ManagerIInv, UpdatedInv, HitsAgree, PinnedIffConfirmed, PinsNearCentroids

\* What one update makes of a confidence.
LEMMA UpdateOnce ==
  ASSUME NEW gc \in GroupConfidences, NEW t \in Nat
  PROVE  /\ UpdateGroup(gc, t) \in GroupConfidences
         /\ UpdateGroup(gc, t).hit_count = gc.hit_count + 1
         /\ IsConfirmed(gc) => IsConfirmed(UpdateGroup(gc, t))
         /\ gc = NewConfidence => ~IsConfirmed(UpdateGroup(gc, t))
<1> DEFINE u == UpdateGroup(gc, t)
<1>1. /\ u \in GroupConfidences
      /\ u.confidence >= gc.confidence
  BY UpdateGroupGrows DEF GroupConfidences
<1>2. u.hit_count = gc.hit_count + 1 BY DEF UpdateGroup
<1>3. IsConfirmed(gc) => IsConfirmed(u)
  <2>1. \A c, d \in Confidences : d >= c /\ c >= Threshold => d >= Threshold
    BY SMT DEF Confidences, Threshold, INITIAL_CONFIDENCE, Scale
  <2>2. u.confidence \in Confidences /\ gc.confidence \in Confidences
    BY <1>1 DEF GroupConfidences
  <2> QED BY <1>1, <2>1, <2>2 DEF IsConfirmed
<1>4. ASSUME gc = NewConfidence PROVE ~IsConfirmed(u)
  <2>1. \A r \in {StandardRates, RapidRates} :
          UpdateDetection(INITIAL_CONFIDENCE, r) < Threshold
    <3>1. /\ UpdateDetection(INITIAL_CONFIDENCE, StandardRates) = 340029000 \div 58000
          /\ UpdateDetection(INITIAL_CONFIDENCE, RapidRates) = 260061000 \div 122000
      BY SMT DEF UpdateDetection, INITIAL_CONFIDENCE, StandardRates, RapidRates, Scale
    <3>2. /\ 340029000 \div 58000 < 8000 /\ 260061000 \div 122000 < 8000
          /\ 340029000 \div 58000 \in Nat /\ 260061000 \div 122000 \in Nat
      BY SMT
    <3> QED BY <3>1, <3>2 DEF Threshold
  <2>2. /\ gc.confidence = INITIAL_CONFIDENCE
        /\ u.confidence \in Int
        /\ u.confidence < Threshold
    <3>1. gc.confidence = INITIAL_CONFIDENCE BY <1>4 DEF NewConfidence
    <3>2. u.confidence < Threshold BY <2>1, <3>1 DEF UpdateGroup
    <3>3. \A c \in Confidences : c \in Int
      BY SMT DEF Confidences, INITIAL_CONFIDENCE, Scale
    <3> QED BY <1>1, <3>1, <3>2, <3>3 DEF GroupConfidences
  <2>3. \A c \in Int : c < Threshold => ~(c >= Threshold) BY SMT DEF Threshold
  <2> QED BY <2>2, <2>3 DEF IsConfirmed
<1> QED BY <1>1, <1>2, <1>3, <1>4

\* An alert of group g: the index and the manager count it, and the pin of g,
\* if there is one, moves to it.
LEMMA GroupAlertIInv ==
  ASSUME ManagerIInv, NEW p \in Points, NEW g \in DOMAIN groups \cup {next_group_id},
         AddFlag(p, g),
         confidences' = Set(confidences, g, UpdateGroup(ConfidenceOf(g), now)),
         PinIfConfirmed(UpdateGroup(ConfidenceOf(g), now), g, p)
  PROVE  /\ FlagsIInv'
         /\ UpdatedInv'
         /\ HitsAgree'
         /\ PinnedIffConfirmed'
         /\ pins' \in [DOMAIN pins' -> Points]
         /\ PinsNearCentroids'
<1> DEFINE gc == ConfidenceOf(g)
           u  == UpdateGroup(gc, now)
<1>0. FlagsIInv' BY AddFlagIInv DEF ManagerIInv
<1>1. PICK a \in Position :
        /\ Within(a, p)
        /\ groups' = [h \in DOMAIN groups \cup {g} |->
                        IF h = g THEN AddPoint(a, p) ELSE groups[h]]
        /\ g \in DOMAIN groups => a = groups[g]
        /\ g \notin DOMAIN groups => a.hits = 1
  BY AddFlagGroup DEF ManagerIInv
<1>2. DOMAIN confidences = DOMAIN groups BY DEF ManagerIInv, HitsAgree
<1>3. gc \in GroupConfidences /\ gc.hit_count = a.hits
  <2>1. CASE g \in DOMAIN groups
    BY <1>1, <1>2, <2>1 DEF ConfidenceOf, ManagerIInv, UpdatedInv, HitsAgree
  <2>2. CASE g \notin DOMAIN groups
    <3>1. gc = NewConfidence BY <1>2, <2>2 DEF ConfidenceOf
    <3>2. NewConfidence \in GroupConfidences
      BY SMT DEF NewConfidence, GroupConfidences, Confidences, INITIAL_CONFIDENCE, Scale
    <3> QED BY <1>1, <2>2, <3>1, <3>2 DEF NewConfidence
  <2> QED BY <2>1, <2>2
<1>4. /\ u \in GroupConfidences
      /\ u.hit_count = a.hits + 1
      /\ IsConfirmed(gc) => IsConfirmed(u)
      /\ gc = NewConfidence => ~IsConfirmed(u)
  BY <1>3, UpdateOnce DEF ManagerIInv
<1>5. /\ DOMAIN confidences' = DOMAIN confidences \cup {g}
      /\ confidences'[g] = u
      /\ \A h \in DOMAIN confidences : h # g => confidences'[h] = confidences[h]
  BY DEF Set
<1>6. UpdatedInv'
  <2>1. u.hit_count >= 2
    BY <1>1, <1>4, SMT DEF Position
  <2>2. u.hit_count = 2 => ~IsConfirmed(u)
    <3> SUFFICES ASSUME u.hit_count = 2 PROVE ~IsConfirmed(u) OBVIOUS
    <3>1. a.hits \in Nat /\ a.hits + 1 = 2 BY <1>4, SMT DEF Position
    <3>2. gc.hit_count = 1 BY <1>3, <3>1, SMT
    <3>3. g \notin DOMAIN confidences
      <4> SUFFICES ASSUME g \in DOMAIN confidences PROVE FALSE OBVIOUS
      <4>1. gc.hit_count >= 2 BY DEF ConfidenceOf, ManagerIInv, UpdatedInv
      <4> QED BY <3>2, <4>1, SMT
    <3> QED BY <1>4, <3>3 DEF ConfidenceOf
  <2> HIDE DEF u, gc
  <2>3. ASSUME NEW h \in DOMAIN confidences'
        PROVE  /\ confidences'[h] \in GroupConfidences
               /\ confidences'[h].hit_count >= 2
               /\ confidences'[h].hit_count = 2 => ~IsConfirmed(confidences'[h])
    <3>1. CASE h = g BY <1>4, <1>5, <2>1, <2>2, <3>1
    <3>2. CASE h # g BY <1>5, <2>3, <3>2 DEF ManagerIInv, UpdatedInv
    <3> QED BY <3>1, <3>2
  <2> QED BY <2>3 DEF UpdatedInv, IsConfirmed
<1>7. HitsAgree'
  <2>1. DOMAIN groups' = DOMAIN groups \cup {g} BY <1>1
  <2>2. AddPoint(a, p).hits = a.hits + 1 BY DEF AddPoint
  <2> HIDE DEF u, gc
  <2>3. ASSUME NEW h \in DOMAIN groups'
        PROVE  confidences'[h].hit_count = groups'[h].hits
    <3>1. CASE h = g BY <1>1, <1>4, <1>5, <2>2, <3>1
    <3>2. CASE h # g
      BY <1>1, <1>2, <1>5, <2>1, <2>3, <3>2 DEF ManagerIInv, HitsAgree
    <3> QED BY <3>1, <3>2
  <2> QED BY <1>2, <1>5, <2>1, <2>3 DEF HitsAgree
<1>8. g \in DOMAIN pins => IsConfirmed(u)
  <2>1. g \in DOMAIN pins => g \in DOMAIN confidences /\ IsConfirmed(confidences[g])
    BY DEF ManagerIInv, PinnedIffConfirmed
  <2> QED BY <1>4, <2>1 DEF ConfidenceOf
<1>9. /\ DOMAIN pins' = IF IsConfirmed(u) THEN DOMAIN pins \cup {g} ELSE DOMAIN pins
      /\ g \in DOMAIN pins' => pins'[g] = p
      /\ \A h \in DOMAIN pins' : h # g => h \in DOMAIN pins /\ pins'[h] = pins[h]
  <2> HIDE DEF u, gc
  <2>1. pins' = IF IsConfirmed(u) THEN Set(pins, g, p) ELSE pins
    BY DEF PinIfConfirmed, u, gc
  <2> QED BY <1>8, <2>1 DEF Set
<1> HIDE DEF u, gc
<1>10. PinnedIffConfirmed'
  <2>1. ASSUME NEW h
        PROVE  h \in DOMAIN pins' <=> h \in DOMAIN confidences' /\ IsConfirmed(confidences'[h])
    <3>1. CASE h = g BY <1>5, <1>8, <1>9, <3>1
    <3>2. CASE h # g
      BY <1>5, <1>9, <3>2 DEF ManagerIInv, PinnedIffConfirmed
    <3> QED BY <3>1, <3>2
  <2> QED BY <2>1 DEF PinnedIffConfirmed, IsConfirmed
<1>11. pins' \in [DOMAIN pins' -> Points]
  <2>1. pins' = pins \/ pins' = Set(pins, g, p) BY DEF PinIfConfirmed
  <2>2. pins' = [h \in DOMAIN pins' |-> pins'[h]] BY <2>1 DEF Set, ManagerIInv
  <2>3. \A h \in DOMAIN pins' : pins'[h] \in Points BY <1>9 DEF ManagerIInv
  <2> QED BY <2>2, <2>3
<1>12. PinsNearCentroids'
  <2>1. p \in [lon : Int, lat : Int] BY FlagsAssumption
  <2>2. Within(AddPoint(a, p), p) BY <1>1, <2>1, AddPointWithin
  <2>3. ASSUME NEW h \in DOMAIN pins'
        PROVE  h \in DOMAIN groups' /\ Within(groups'[h], pins'[h])
    <3>1. CASE h = g BY <1>1, <1>9, <2>2, <2>3, <3>1
    <3>2. CASE h # g
      BY <1>1, <1>9, <2>3, <3>2 DEF ManagerIInv, PinsNearCentroids
    <3> QED BY <3>1, <3>2
  <2> QED BY <2>3 DEF PinsNearCentroids, Within, ScaledDistance
<1> QED BY <1>0, <1>6, <1>7, <1>10, <1>11, <1>12

\* What the worker keeps to itself is not disturbed by a push or by time.
LEMMA ManagerKept ==
  ASSUME ManagerIInv, UNCHANGED <<flagVars, confidences, pins>>,
         alert_queue' \in Seq(Points), now' \in Nat
  PROVE  ManagerIInv'
BY DEF ManagerIInv, flagVars, FlagsIInv, FlagsTypeOK, IndexMatchesGroups, SolitariesApart,
       SinglePoints, Solitaries, UpdatedInv, HitsAgree, PinnedIffConfirmed, PinsNearCentroids

\* One turn of run() preserves the invariant.
LEMMA HandleAlertIInv == ManagerIInv /\ HandleAlert => ManagerIInv'
<1> SUFFICES ASSUME ManagerIInv, HandleAlert PROVE ManagerIInv' OBVIOUS
<1> USE DEF ManagerIInv
<1> DEFINE p == Head(alert_queue)
<1>1. p \in Points /\ alert_queue' \in Seq(Points) /\ now' = now
  BY HeadTailProperties DEF HandleAlert
<1>2. CASE AddFlag(p, NoGroup) /\ UNCHANGED <<confidences, pins>>
  <2>1. FlagsIInv' /\ groups' = groups
    BY <1>1, <1>2, AddFlagIInv, AddFlagNoGroup
  <2> QED BY <1>1, <1>2, <2>1
          DEF UpdatedInv, HitsAgree, PinnedIffConfirmed, PinsNearCentroids
<1>3. CASE \E g \in DOMAIN groups \cup {next_group_id} :
             /\ AddFlag(p, g)
             /\ confidences' = Set(confidences, g, UpdateGroup(ConfidenceOf(g), now))
             /\ PinIfConfirmed(UpdateGroup(ConfidenceOf(g), now), g, p)
  BY <1>1, <1>3, GroupAlertIInv
<1> QED BY <1>2, <1>3 DEF HandleAlert

\* A push, a turn of run() and the passing of time preserve the invariant.
LEMMA ManagerNextIInv == ManagerIInv /\ [ManagerNext]_managerVars => ManagerIInv'
<1> SUFFICES ASSUME ManagerIInv, [ManagerNext]_managerVars PROVE ManagerIInv'
  OBVIOUS
<1>1. alert_queue \in Seq(Points) /\ now \in Nat BY DEF ManagerIInv
<1>2. CASE \E p \in Points : PushAlert(p)
  <2>1. PICK p \in Points : PushAlert(p) BY <1>2
  <2>2. alert_queue' \in Seq(Points) BY <1>1, <2>1, AppendProperties DEF PushAlert
  <2> QED BY <1>1, <2>1, <2>2, ManagerKept DEF PushAlert
<1>3. CASE HandleAlert BY <1>3, HandleAlertIInv
<1>4. CASE \E d \in Delays : Pass(d)
  <2>1. now' \in Nat BY <1>1, <1>4, ManagerAssumption, SMT DEF Pass
  <2> QED BY <1>1, <1>4, <2>1, ManagerKept DEF Pass
<1>5. CASE UNCHANGED managerVars BY <1>1, <1>5, ManagerKept DEF managerVars
<1> QED BY <1>2, <1>3, <1>4, <1>5 DEF ManagerNext

\* The inductive invariant holds in every reachable state.
THEOREM ManagerInvariant == ManagerSpec => []ManagerIInv
BY ManagerInitIInv, ManagerNextIInv, PTL DEF ManagerSpec

\* The state of the worker is well typed: every confidence is a probability and
\* every pin a position some alert reported.
THEOREM ManagerTypeCorrect == ManagerSpec => []ManagerTypeOK
<1>1. \A c \in Confidences : c \in 0 .. Scale
  BY SMT DEF Confidences, INITIAL_CONFIDENCE, Scale
<1>2. GroupConfidences \subseteq
        [hit_count : Nat \ {0}, confidence : 0 .. Scale, last_hit_time : Nat]
  BY <1>1 DEF GroupConfidences
<1>3. ManagerIInv => ManagerTypeOK
  BY <1>2 DEF ManagerIInv, FlagsIInv, UpdatedInv, ManagerTypeOK
<1> QED BY <1>3, ManagerInvariant, PTL

\* The index and the manager agree on the groups and on their hits.
THEOREM HitsAlwaysAgree == ManagerSpec => []HitsAgree
<1>1. ManagerIInv => HitsAgree BY DEF ManagerIInv
<1> QED BY <1>1, ManagerInvariant, PTL

\* A group is on the map exactly when its confidence has reached 0.80.
THEOREM AlwaysPinnedIffConfirmed == ManagerSpec => []PinnedIffConfirmed
<1>1. ManagerIInv => PinnedIffConfirmed BY DEF ManagerIInv
<1> QED BY <1>1, ManagerInvariant, PTL

\* One touch is a solitary flag, and the first update confirms nothing.
LEMMA PinHasThreeTouches == ManagerIInv => PinNeedsThreeTouches
<1> SUFFICES ASSUME ManagerIInv, NEW g \in DOMAIN pins
             PROVE  g \in DOMAIN groups /\ groups[g].hits >= 3
  BY DEF PinNeedsThreeTouches
<1>1. g \in DOMAIN confidences /\ IsConfirmed(confidences[g])
  BY DEF ManagerIInv, PinnedIffConfirmed
<1>2. g \in DOMAIN groups /\ confidences[g].hit_count = groups[g].hits
  BY <1>1 DEF ManagerIInv, HitsAgree
<1>3. /\ confidences[g].hit_count \in Nat
      /\ confidences[g].hit_count >= 2
      /\ confidences[g].hit_count # 2
  BY <1>1 DEF ManagerIInv, UpdatedInv, GroupConfidences
<1>4. \A n \in Nat : n >= 2 /\ n # 2 => n >= 3 BY SMT
<1> QED BY <1>2, <1>3, <1>4

\* Whatever the touches and the clock are, a pin has had three touches.
THEOREM PinAlwaysNeedsThreeTouches == ManagerSpec => []PinNeedsThreeTouches
BY PinHasThreeTouches, ManagerInvariant, PTL

\* A pin is never farther than the radius from the centroid of its group.
THEOREM PinsAlwaysNearCentroids == ManagerSpec => []PinsNearCentroids
<1>1. ManagerIInv => PinsNearCentroids BY DEF ManagerIInv
<1> QED BY <1>1, ManagerInvariant, PTL
=============================================================================
