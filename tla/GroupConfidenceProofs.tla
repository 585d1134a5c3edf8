----------------------- MODULE GroupConfidenceProofs -----------------------
(* Theorems about GroupConfidence, for every clock and every bound.        *)
EXTENDS GroupConfidence, ConfidenceProofs

-----------------------------------------------------------------------------
(* The invariant *)

\* A prior is never below the initial one.
TypeInv ==
  /\ GroupTypeOK
  /\ gc.confidence \in Confidences
  /\ Clock \in Nat /\ Clock >= DEBOUNCE_SECONDS

\* Between two touches the clock advances by at most the real time that passed
\* and the forward steps; a clear touch spends a debounce of that sum.
ClearInv ==
  /\ (counts.clear - 1) * DEBOUNCE_SECONDS <= touched.time + touched.forward
  /\ counts.clear = 0 => gc.last_hit_time = 0
  /\ counts.clear > 0 =>
       Clock - gc.last_hit_time <= (time + forward) - (touched.time + touched.forward)
  /\ touched.time <= time /\ touched.forward <= forward

GroupIInv == TypeInv /\ ClearInv

\* A GroupConfidence as constructed satisfies the inductive invariant.
LEMMA GroupInitIInv == GroupInit => GroupIInv
BY GroupConfidenceAssumption, SMT
DEF GroupInit, GroupIInv, TypeInv, ClearInv, GroupTypeOK, Confidences, Clock, Scale,
    NewConfidence, INITIAL_CONFIDENCE, DEBOUNCE_SECONDS

\* update_group preserves the inductive invariant.
LEMMA TouchIInv == GroupIInv /\ Touch => GroupIInv'
<1> SUFFICES ASSUME GroupIInv, Touch PROVE GroupIInv' OBVIOUS
<1> DEFINE rapid == IsRapidTouch(gc, Clock)
<1>1. /\ gc \in [hit_count : Nat \ {0}, confidence : Confidences, last_hit_time : Nat]
      /\ time \in Nat /\ offset \in Int /\ forward \in Nat /\ picked \in Nat
      /\ counts \in [clear : Nat, rapid : Nat, apart : Nat]
      /\ touched \in [time : Nat, forward : Nat]
      /\ Clock \in Nat
  BY DEF GroupIInv, TypeInv, GroupTypeOK
<1>2. /\ gc' \in [hit_count : Nat \ {0}, confidence : Confidences, last_hit_time : Nat]
      /\ gc'.last_hit_time = Clock
  BY <1>1, UpdateGroupGrows DEF Touch
<1>3. /\ touched' = [time |-> time, forward |-> forward]
      /\ UNCHANGED <<time, offset, forward>>
      /\ Clock' = Clock
      /\ picked' \in Nat
      /\ counts' \in [clear : Nat, rapid : Nat, apart : Nat]
      /\ counts'.clear = IF rapid THEN counts.clear ELSE counts.clear + 1
  BY <1>1, SMT DEF Touch, If, Clock
<1>4. TypeInv'
  <2>1. \A c \in Confidences : c \in 0 .. Scale
    BY SMT DEF Confidences, INITIAL_CONFIDENCE, Scale
  <2>2. gc' \in [hit_count : Nat \ {0}, confidence : 0 .. Scale, last_hit_time : Nat]
    BY <1>2, <2>1
  <2>3. Clock' >= DEBOUNCE_SECONDS BY <1>3 DEF GroupIInv, TypeInv
  <2> QED BY <1>1, <1>2, <1>3, <2>2, <2>3 DEF TypeInv, GroupTypeOK
<1>5. rapid <=> Clock - gc.last_hit_time < DEBOUNCE_SECONDS
  BY <1>1, SMT DEF IsRapidTouch
<1>6. counts'.clear # 0
  BY <1>1, <1>3, <1>5, SMT DEF GroupIInv, TypeInv, ClearInv, DEBOUNCE_SECONDS
<1>7. (counts'.clear - 1) * DEBOUNCE_SECONDS <= time + forward
  BY <1>1, <1>3, <1>5, SMT DEF GroupIInv, ClearInv, DEBOUNCE_SECONDS
<1>8. ClearInv'
  BY <1>1, <1>2, <1>3, <1>6, <1>7, SMT DEF ClearInv, DEBOUNCE_SECONDS
<1> QED BY <1>4, <1>8 DEF GroupIInv

\* Steps of the clock, and of time.
LEMMA ClockIInv == GroupIInv /\ (Tick \/ \E s \in Steps : StepClock(s)) => GroupIInv'
<1> SUFFICES ASSUME GroupIInv, Tick \/ \E s \in Steps : StepClock(s) PROVE GroupIInv'
  OBVIOUS
<1>1. /\ Clock' \in Nat /\ Clock' >= DEBOUNCE_SECONDS
      /\ time' \in Nat /\ forward' \in Nat /\ offset' \in Int
      /\ Clock' - Clock <= (time' + forward') - (time + forward)
      /\ time <= time' /\ forward <= forward'
      /\ Clock \in Nat
  BY GroupConfidenceAssumption, SMT
  DEF GroupIInv, TypeInv, GroupTypeOK, Tick, StepClock, Clock, DEBOUNCE_SECONDS
<1>2. UNCHANGED <<gc, touched, counts, picked>> BY DEF Tick, StepClock
<1>3. TypeInv' BY <1>1, <1>2 DEF GroupIInv, TypeInv, GroupTypeOK
<1>4. ClearInv'
  <2>1. /\ gc.last_hit_time \in Nat
        /\ touched.time \in Nat /\ touched.forward \in Nat
        /\ counts.clear \in Nat
        /\ time \in Nat /\ forward \in Nat
    BY DEF GroupIInv, TypeInv, GroupTypeOK
  <2>2. counts' = counts /\ gc' = gc /\ touched' = touched BY <1>2
  <2>3. counts.clear > 0 => Clock' - gc.last_hit_time
                              <= (time' + forward') - (touched.time + touched.forward)
    <3>1. counts.clear > 0 => Clock - gc.last_hit_time
                                <= (time + forward) - (touched.time + touched.forward)
      BY DEF GroupIInv, ClearInv
    <3>2. \A c1, c2, f1, f2, l, t \in Int :
            c1 - l <= f1 - t /\ c2 - c1 <= f2 - f1 => c2 - l <= f2 - t
      BY SMT
    <3>3. /\ time + forward \in Int /\ time' + forward' \in Int
          /\ touched.time + touched.forward \in Int
          /\ Clock \in Int /\ Clock' \in Int /\ gc.last_hit_time \in Int
      BY <1>1, <2>1, SMT
    <3> QED BY <1>1, <3>1, <3>2, <3>3
  <2>4. touched.time <= time' /\ touched.forward <= forward'
    <3>1. touched.time <= time /\ touched.forward <= forward BY DEF GroupIInv, ClearInv
    <3> QED BY <1>1, <2>1, <3>1, SMT
  <2> QED BY <2>2, <2>3, <2>4 DEF GroupIInv, ClearInv
<1> QED BY <1>3, <1>4 DEF GroupIInv

\* Touches, the passing of time and steps of the clock preserve the invariant.
LEMMA GroupNextIInv == GroupIInv /\ [GroupNext]_gcVars => GroupIInv'
<1>1. GroupIInv /\ UNCHANGED gcVars => GroupIInv'
  BY DEF gcVars, GroupIInv, TypeInv, ClearInv, GroupTypeOK, Clock
<1> QED BY <1>1, TouchIInv, ClockIInv DEF GroupNext

\* The inductive invariant holds in every reachable state of the object.
THEOREM GroupInvariant == GroupSpec => []GroupIInv
BY GroupInitIInv, GroupNextIInv, PTL DEF GroupSpec

\* The object is well typed: its confidence stays a probability.
THEOREM GroupTypeCorrect == GroupSpec => []GroupTypeOK
<1>1. GroupIInv => GroupTypeOK BY DEF GroupIInv, TypeInv
<1> QED BY <1>1, GroupInvariant, PTL

\* However the clock is stepped, n clear touches take n - 1 debounces of real
\* time or of forward steps (is_rapid_touch).
THEOREM ClearTouchesAlwaysTakeTime == GroupSpec => []ClearTouchesTakeTime
<1>1. GroupIInv => ClearTouchesTakeTime
  <2> SUFFICES ASSUME GroupIInv PROVE ClearTouchesTakeTime OBVIOUS
  <2>1. /\ touched.time \in Nat /\ touched.forward \in Nat
        /\ counts.clear \in Nat /\ time \in Nat /\ forward \in Nat
    BY DEF GroupIInv, TypeInv, GroupTypeOK
  <2> QED BY <2>1, SMT DEF GroupIInv, ClearInv, ClearTouchesTakeTime, DEBOUNCE_SECONDS
<1> QED BY <1>1, GroupInvariant, PTL

\* No touch lowers the confidence, and below the limit of the arithmetic every
\* touch raises it (update_detection).
THEOREM ConfidenceAlwaysGrows == GroupSpec => ConfidenceGrows
<1> DEFINE Grows == /\ gc'.confidence >= gc.confidence
                    /\ gc'.hit_count > gc.hit_count /\ gc.confidence < 9990
                         => gc'.confidence > gc.confidence
<1>1. ASSUME GroupIInv, [GroupNext]_gcVars PROVE Grows
  <2>1. /\ gc \in [hit_count : Nat \ {0}, confidence : Confidences, last_hit_time : Nat]
        /\ Clock \in Nat
    BY <1>1 DEF GroupIInv, TypeInv, GroupTypeOK
  <2>2. CASE Touch BY <2>1, <2>2, UpdateGroupGrows DEF Touch
  <2>3. CASE gc' = gc
    <3>0. gc.confidence \in Confidences /\ gc.hit_count \in Nat BY <2>1
    <3>1. \A c \in Confidences : c >= c
      BY SMT DEF Confidences, INITIAL_CONFIDENCE, Scale
    <3>2. \A n \in Nat : ~(n > n) BY SMT
    <3> QED BY <2>3, <3>0, <3>1, <3>2
  <2> QED BY <1>1, <2>2, <2>3 DEF GroupNext, gcVars, Tick, StepClock
<1>2. GroupIInv /\ [GroupNext]_gcVars => [Grows]_gcVars
  BY <1>1
<1> QED BY <1>2, GroupInvariant, PTL DEF GroupSpec, ConfidenceGrows
-----------------------------------------------------------------------------
(* The decision and the counts of touches *)

\* The confidence after the clear touch that always comes first and k - 1 rapid
\* ones; each is the rounded update of the one before.
Ladder ==
  <<5862, 6055, 6244, 6430, 6612, 6789, 6961, 7128, 7289, 7444, 7593, 7736, 7873, 8004>>

\* The rounded updates, computed: a rapid touch climbs one rung, only the last
\* rung is confirmed, and one more clear touch confirms from any of them.
LEMMA LadderRungs ==
  /\ UpdateDetection(INITIAL_CONFIDENCE, StandardRates) = Ladder[1]
  /\ \A k \in 1 .. 13 : UpdateDetection(Ladder[k], RapidRates) = Ladder[k + 1]
  /\ \A k \in 1 .. 13 : UpdateDetection(Ladder[k], StandardRates) >= Threshold
  /\ \A k \in 1 .. 14 : Ladder[k] \in Confidences /\ (Ladder[k] >= Threshold <=> k = 14)
<1>1. UpdateDetection(INITIAL_CONFIDENCE, StandardRates) = Ladder[1]
  BY SMT DEF UpdateDetection, StandardRates, Scale, Ladder, INITIAL_CONFIDENCE
<1>2. \A k \in 1 .. 13 : UpdateDetection(Ladder[k], RapidRates) = Ladder[k + 1]
  BY SMT DEF UpdateDetection, RapidRates, Scale, Ladder
<1>3. \A k \in 1 .. 13 : UpdateDetection(Ladder[k], StandardRates) >= Threshold
  BY SMT DEF UpdateDetection, StandardRates, Scale, Ladder, Threshold
<1>4. \A k \in 1 .. 14 : Ladder[k] \in Confidences /\ (Ladder[k] >= Threshold <=> k = 14)
  BY SMT DEF Ladder, Threshold, Confidences, Scale, INITIAL_CONFIDENCE
<1> QED BY <1>1, <1>2, <1>3, <1>4

Decided == counts.clear >= 2 \/ (counts.clear = 1 /\ counts.rapid >= 13)

\* Until the counts decide, they determine the confidence.
LadderInv ==
  /\ counts.clear = 0 => counts.rapid = 0 /\ gc.confidence = INITIAL_CONFIDENCE
  /\ counts.clear = 1 /\ counts.rapid <= 12 => gc.confidence = Ladder[counts.rapid + 1]
  /\ Decided => IsConfirmed(gc)

\* The first touch is never rapid: last_hit_time is the epoch.
LEMMA TouchLadder == GroupIInv /\ LadderInv /\ Touch => LadderInv'
<1> SUFFICES ASSUME GroupIInv, LadderInv, Touch PROVE LadderInv' OBVIOUS
<1> DEFINE rapid == IsRapidTouch(gc, Clock)
           c == gc.confidence
           u == UpdateDetection(c, IF rapid THEN RapidRates ELSE StandardRates)
<1>1. /\ gc \in [hit_count : Nat \ {0}, confidence : Confidences, last_hit_time : Nat]
      /\ counts \in [clear : Nat, rapid : Nat, apart : Nat]
      /\ Clock \in Nat /\ Clock >= DEBOUNCE_SECONDS
  BY DEF GroupIInv, TypeInv, GroupTypeOK
<1>2. /\ gc'.confidence = u
      /\ counts'.clear = IF rapid THEN counts.clear ELSE counts.clear + 1
      /\ counts'.rapid = IF rapid THEN counts.rapid + 1 ELSE counts.rapid
  BY <1>1, SMT DEF Touch, UpdateGroup, If
<1>3. c \in Confidences /\ u \in Confidences /\ u >= c
  <2>1. (IF rapid THEN RapidRates ELSE StandardRates) \in {StandardRates, RapidRates} OBVIOUS
  <2> QED BY <1>1, <2>1, UpdateGrows
<1>4. c >= Threshold => u >= Threshold
  <2>1. \A x, y \in Confidences : y >= x /\ x >= Threshold => y >= Threshold
    BY SMT DEF Confidences, Threshold, INITIAL_CONFIDENCE, Scale
  <2> QED BY <1>3, <2>1
<1>5. counts.clear = 0 => ~rapid
  BY <1>1, SMT DEF GroupIInv, ClearInv, IsRapidTouch, DEBOUNCE_SECONDS
<1>6. CASE counts.clear = 0
  <2>1. counts'.clear = 1 /\ counts'.rapid = 0 /\ u = Ladder[1]
    BY <1>1, <1>2, <1>5, <1>6, LadderRungs DEF LadderInv
  <2> QED BY <1>2, <2>1, SMT DEF LadderInv, Decided
<1>7. CASE counts.clear = 1 /\ counts.rapid <= 12 /\ rapid
  <2> DEFINE k == counts.rapid + 1
  <2>1. k \in 1 .. 13 /\ counts'.clear = 1 /\ counts'.rapid = k
    BY <1>1, <1>2, <1>7, SMT
  <2>2. c = Ladder[k] BY <1>7 DEF LadderInv
  <2>3. u = Ladder[k + 1] BY <1>7, <2>1, <2>2, LadderRungs
  <2> HIDE DEF k, u
  <2>4. k = 13 => u >= Threshold BY <2>3, LadderRungs, SMT
  <2> QED BY <1>2, <2>1, <2>3, <2>4, SMT DEF LadderInv, Decided, IsConfirmed
<1>8. CASE counts.clear = 1 /\ counts.rapid <= 12 /\ ~rapid
  <2> DEFINE k == counts.rapid + 1
  <2>1. k \in 1 .. 13 /\ counts'.clear = 2 BY <1>1, <1>2, <1>8, SMT
  <2>2. c = Ladder[k] BY <1>8 DEF LadderInv
  <2>3. u >= Threshold BY <1>8, <2>1, <2>2, LadderRungs
  <2> HIDE DEF u
  <2> QED BY <1>2, <2>1, <2>3, SMT DEF LadderInv, Decided, IsConfirmed
<1>9. CASE Decided
  <2>1. u >= Threshold BY <1>4, <1>9 DEF LadderInv, IsConfirmed
  <2>2. counts'.clear # 0 /\ ~(counts'.clear = 1 /\ counts'.rapid <= 12)
    BY <1>1, <1>2, <1>9, SMT DEF Decided
  <2> HIDE DEF u
  <2> QED BY <1>2, <2>1, <2>2 DEF LadderInv, IsConfirmed
<1>10. \/ counts.clear = 0 \/ Decided
       \/ counts.clear = 1 /\ counts.rapid <= 12
  BY <1>1, SMT DEF Decided
<1> QED BY <1>6, <1>7, <1>8, <1>9, <1>10

\* The decision is a function of how many touches were clear and how many
\* rapid (update_detection, is_rapid_touch), whatever the clock does.
THEOREM DecisionAlwaysOrderFree == GroupSpec => []DecisionIsOrderFree
<1>1. GroupInit => LadderInv
  BY SMT DEF GroupInit, LadderInv, Decided, NewConfidence
<1>2. GroupIInv /\ LadderInv /\ [GroupNext]_gcVars => LadderInv'
  <2>1. UNCHANGED <<gc, counts>> /\ LadderInv => LadderInv'
    BY DEF LadderInv, Decided, IsConfirmed
  <2> QED BY <2>1, TouchLadder DEF GroupNext, Tick, StepClock, gcVars
<1>3. GroupIInv /\ LadderInv => DecisionIsOrderFree
  <2> SUFFICES ASSUME GroupIInv, LadderInv, ~Decided PROVE ~IsConfirmed(gc)
    BY DEF LadderInv, Decided, DecisionIsOrderFree
  <2>1. counts \in [clear : Nat, rapid : Nat, apart : Nat]
    BY DEF GroupIInv, TypeInv, GroupTypeOK
  <2>2. CASE counts.clear = 0
    <3>1. gc.confidence = INITIAL_CONFIDENCE BY <2>2 DEF LadderInv
    <3> QED BY <3>1, SMT DEF IsConfirmed, INITIAL_CONFIDENCE, Threshold
  <2>3. CASE counts.clear = 1 /\ counts.rapid <= 12
    <3>1. counts.rapid + 1 \in 1 .. 14 /\ counts.rapid + 1 # 14
      BY <2>1, <2>3, SMT
    <3> QED BY <2>3, <3>1, LadderRungs DEF LadderInv, IsConfirmed
  <2> QED BY <2>1, <2>2, <2>3, SMT DEF Decided
<1> QED BY <1>1, <1>2, <1>3, GroupInvariant, PTL DEF GroupSpec
=============================================================================
