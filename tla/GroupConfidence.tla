-------------------------- MODULE GroupConfidence --------------------------
(* One GroupConfidence object from the solitary flag that precedes it,     *)
(* under a system clock that time synchronisation may step.                *)
EXTENDS ConfidenceEngine

CONSTANTS
  Boot,        \* what the system clock reads at time 0
  Steps,       \* the jumps the clock may make
  MaxTime,     \* bound: seconds modelled
  MaxTouches,  \* bound: touches of the group
  MaxForward   \* bound: seconds the clock jumps forward in all

ASSUME GroupConfidenceAssumption ==
  /\ Boot \in Nat /\ Boot >= DEBOUNCE_SECONDS
  /\ Steps \subseteq Int
  /\ MaxTime \in Nat /\ MaxTouches \in Nat /\ MaxForward \in Nat

VARIABLES
  gc,       \* the object: hit_count, confidence, last_hit_time
  time,     \* seconds that really passed since the solitary flag
  offset,   \* by how much steps moved the system clock
  forward,  \* history: the sum of the forward steps
  touched,  \* history: time and forward at the last touch, flag included
  counts,   \* history: touches judged clear and rapid; most touches, flag
            \* included, that are pairwise a debounce apart
  picked    \* history: time of the last touch counted in counts.apart

gcVars == <<gc, time, offset, forward, touched, counts, picked>>

\* std::chrono::system_clock::now()
Clock == Boot + time + offset

GroupInit ==
  /\ gc = NewConfidence
  /\ time = 0
  /\ offset = 0
  /\ forward = 0
  /\ touched = [time |-> 0, forward |-> 0]
  /\ counts = [clear |-> 0, rapid |-> 0, apart |-> 1]
  /\ picked = 0

If(b) == IF b THEN 1 ELSE 0

\* GroupConfidence::update_group, called for every touch after the flag.
Touch ==
  LET rapid == IsRapidTouch(gc, Clock)
      apart == time - picked >= DEBOUNCE_SECONDS
  IN
  /\ gc.hit_count < MaxTouches
  /\ gc' = UpdateGroup(gc, Clock)
  /\ touched' = [time |-> time, forward |-> forward]
  /\ counts' = [clear  |-> counts.clear + If(~rapid),
                rapid  |-> counts.rapid + If(rapid),
                apart  |-> counts.apart + If(apart)]
  /\ picked' = IF apart THEN time ELSE picked
  /\ UNCHANGED <<time, offset, forward>>

Tick ==
  /\ time < MaxTime
  /\ time' = time + 1
  /\ UNCHANGED <<gc, offset, forward, touched, counts, picked>>

\* Synchronisation steps the clock, though never back to the epoch.
StepClock(s) ==
  /\ Clock + s >= DEBOUNCE_SECONDS
  /\ s > 0 => forward + s <= MaxForward
  /\ offset' = offset + s
  /\ forward' = IF s > 0 THEN forward + s ELSE forward
  /\ UNCHANGED <<gc, time, touched, counts, picked>>

GroupNext == Touch \/ Tick \/ \E s \in Steps : StepClock(s)

GroupSpec == GroupInit /\ [][GroupNext]_gcVars

-----------------------------------------------------------------------------
(* Properties *)

\* The type of the object and of its history.
GroupTypeOK ==
  /\ gc \in [hit_count : Nat \ {0}, confidence : 0 .. Scale, last_hit_time : Nat]
  /\ time \in Nat /\ offset \in Int /\ forward \in Nat /\ picked \in Nat
  /\ touched \in [time : Nat, forward : Nat]
  /\ counts \in [clear : Nat, rapid : Nat, apart : Nat]

\* The order of the touches is irrelevant: repeated rounding never moves the
\* decision away from the product of the likelihood ratios, which passes
\* 0.80 with two clear touches or with one clear and thirteen rapid ones.
DecisionIsOrderFree ==
  IsConfirmed(gc) <=> counts.clear >= 2 \/ (counts.clear = 1 /\ counts.rapid >= 13)

\* Clear touches cannot be hurried: each one after the first takes a debounce
\* of real time, or a forward step of the clock that is_rapid_touch mistakes
\* for it.  Backward steps never help.
ClearTouchesTakeTime ==
  (counts.clear - 1) * DEBOUNCE_SECONDS <= time + forward

\* A touch never lowers the confidence, and a group once confirmed stays so,
\* whatever the clock does between two touches.
ConfidenceGrows ==
  [][/\ gc'.confidence >= gc.confidence
     /\ gc'.hit_count > gc.hit_count /\ gc.confidence < 9990
          => gc'.confidence > gc.confidence]_gcVars

-----------------------------------------------------------------------------
(* A statement of the documentation that the code does not meet *)

\* confidence_engine.hpp: "Expected 3 clear touches with a 5 sec time delay
\* between all of them".
ThreeClearTouches == IsConfirmed(gc) => counts.apart >= 3
=============================================================================
