-------------------------- MODULE ConfidenceProofs --------------------------
(* Products, order and quotients of integers: what SMT needs to be told;   *)
(* and lemmas about the operators of ConfidenceEngine.                     *)
EXTENDS ConfidenceEngine, TLAPS

\* A product of natural numbers is a natural number.
LEMMA TimesNat == ASSUME NEW a \in Nat, NEW b \in Nat PROVE a * b \in Nat
BY SMT

\* Multiplication by a natural number keeps the order.
LEMMA TimesMonotone ==
  ASSUME NEW x \in Int, NEW y \in Int, NEW k \in Nat, x <= y
  PROVE  x * k <= y * k
<1>1. y - x \in Nat /\ (y - x) * k = y * k - x * k BY SMT
<1>2. (y - x) * k \in Nat BY <1>1, TimesNat
<1>3. x * k \in Int /\ y * k \in Int BY SMT
<1> QED BY <1>1, <1>2, <1>3, SMT

\* The quotient of x by t is bounded by what multiples of t bound x.
LEMMA Quotient ==
  ASSUME NEW x \in Nat, NEW t \in Nat, t > 0, NEW k \in Nat
  PROVE  /\ x \div t \in Nat
         /\ k * t <= x => k <= x \div t
         /\ x < (k + 1) * t => x \div t <= k
<1> DEFINE d == x \div t
<1>1. d \in Nat /\ t * d <= x /\ x < t * d + t BY SMT
<1> HIDE DEF d
<1>2. ASSUME k * t <= x, ~(k <= d) PROVE FALSE
  <2>1. d + 1 <= k BY <1>1, <1>2, SMT
  <2>2. (d + 1) * t <= k * t BY <1>1, <2>1, TimesMonotone
  <2>3. (d + 1) * t = t * d + t /\ k * t \in Nat /\ t * d \in Nat BY <1>1, SMT
  <2> QED BY <1>1, <1>2, <2>2, <2>3, SMT
<1>3. ASSUME x < (k + 1) * t, ~(d <= k) PROVE FALSE
  <2>1. k + 1 <= d BY <1>1, <1>3, SMT
  <2>2. (k + 1) * t <= d * t BY <1>1, <2>1, TimesMonotone
  <2>3. d * t = t * d /\ (k + 1) * t \in Nat /\ t * d \in Nat BY <1>1, SMT
  <2> QED BY <1>1, <1>3, <2>2, <2>3, SMT
<1>4. (k * t <= x => k <= d) /\ (x < (k + 1) * t => d <= k)
  BY <1>2, <1>3
<1> QED BY <1>1, <1>4 DEF d

-----------------------------------------------------------------------------
(* The operators of ConfidenceEngine *)

\* A confidence is never below the prior it starts from.
Confidences == INITIAL_CONFIDENCE .. Scale

\* update_detection with the rates of the code never lowers a confidence, and
\* raises it until rounding stops it just below certainty.
LEMMA UpdateGrows ==
  ASSUME NEW c \in Confidences, NEW r \in {StandardRates, RapidRates}
  PROVE  /\ UpdateDetection(c, r) \in Confidences
         /\ UpdateDetection(c, r) >= c
         /\ c < 9990 => UpdateDetection(c, r) > c
<1> DEFINE p == r.mine
           q == r.clear
           t == p * c + q * (Scale - c)
           x == p * c * Scale + t \div 2
           h == t \div 2
<1>1. /\ c \in Int /\ 2000 <= c /\ c <= 10000
      /\ \/ p = 17 /\ q = 3
         \/ p = 13 /\ q = 12
  BY SMT DEF Confidences, INITIAL_CONFIDENCE, Scale, StandardRates, RapidRates
<1>2. /\ t \in Nat /\ t > 0
      /\ h \in Nat /\ t <= 2 * h + 1 /\ 2 * h <= t
      /\ x \in Nat /\ x = p * c * 10000 + h
  BY <1>1, SMT DEF Scale
<1>3. UpdateDetection(c, r) = x \div t
  BY <1>2, SMT DEF UpdateDetection
<1>4. c * t <= x
  <2>1. c * (10000 - c) \in Nat BY <1>1, SMT
  <2>2. CASE p = 17 /\ q = 3
    <3>1. x - c * t = 14 * (c * (10000 - c)) + h BY <1>2, <2>2, <1>1, SMT DEF Scale
    <3>2. c * t \in Int BY <1>1, <1>2, SMT
    <3> HIDE DEF x, t, h
    <3> QED BY <1>2, <2>1, <3>1, <3>2, SMT
  <2>3. CASE p = 13 /\ q = 12
    <3>1. x - c * t = c * (10000 - c) + h BY <1>2, <2>3, <1>1, SMT DEF Scale
    <3>2. c * t \in Int BY <1>1, <1>2, SMT
    <3> HIDE DEF x, t, h
    <3> QED BY <1>2, <2>1, <3>1, <3>2, SMT
  <2> QED BY <1>1, <2>2, <2>3
<1>5. x < (10000 + 1) * t
  BY <1>1, <1>2, SMT DEF Scale
<1>6. ASSUME c < 9990 PROVE (c + 1) * t <= x
  <2>1. (c - 11) * (9989 - c) \in Nat BY <1>1, <1>6, SMT
  <2>2. c * (10000 - c) >= 109879 /\ c * (10000 - c) \in Nat
    <3>1. (c - 11) * (9989 - c) = c * (10000 - c) - 109879 BY <1>1, SMT
    <3> QED BY <1>1, <2>1, <3>1, SMT
  <2>3. CASE p = 17 /\ q = 3
    <3>1. /\ x - (c + 1) * t = 14 * (c * (10000 - c)) + h - t
          /\ t <= 170000
      BY <1>2, <2>3, <1>1, SMT DEF Scale
    <3>2. (c + 1) * t \in Int BY <1>1, <1>2, SMT
    <3> HIDE DEF x, t, h
    <3> QED BY <1>2, <2>2, <3>1, <3>2, SMT
  <2>4. CASE p = 13 /\ q = 12
    <3>1. /\ x - (c + 1) * t = c * (10000 - c) + h - t
          /\ t <= 130000
      BY <1>2, <2>4, <1>1, SMT DEF Scale
    <3>2. (c + 1) * t \in Int BY <1>1, <1>2, SMT
    <3>3. t \in Nat /\ h \in Nat /\ t <= 2 * h + 1 /\ x \in Nat BY <1>2
    <3> HIDE DEF p, q, x, t, h
    <3>4. h - t >= -65001 BY <3>1, <3>3, SMT
    <3>5. x - (c + 1) * t >= 0 BY <2>2, <3>1, <3>3, <3>4, SMT
    <3> QED BY <3>2, <3>3, <3>5, SMT
  <2> QED BY <1>1, <2>3, <2>4
<1> HIDE DEF p, q, t, x, h
<1>7. /\ c <= x \div t
      /\ x \div t <= 10000
      /\ c < 9990 => c + 1 <= x \div t
      /\ x \div t \in Nat
  <2>1. c \in Nat /\ c + 1 \in Nat /\ 10000 \in Nat BY <1>1, SMT
  <2> QED BY <1>2, <1>4, <1>5, <1>6, <2>1, Quotient
<1> DEFINE u == UpdateDetection(c, r)
<1>8. /\ u \in Nat /\ c <= u /\ u <= 10000
      /\ c < 9990 => c + 1 <= u
  BY <1>3, <1>7
<1> HIDE DEF u
<1>9. /\ u \in Confidences
      /\ u >= c
      /\ c < 9990 => u > c
  BY <1>1, <1>8, SMT DEF Confidences, INITIAL_CONFIDENCE, Scale
<1> QED BY <1>9 DEF u

\* One call of update_group, in the form the invariants need.
LEMMA UpdateGroupGrows ==
  ASSUME NEW g \in [hit_count : Nat \ {0}, confidence : Confidences, last_hit_time : Nat],
         NEW now \in Nat
  PROVE  /\ UpdateGroup(g, now) \in
              [hit_count : Nat \ {0}, confidence : Confidences, last_hit_time : Nat]
         /\ UpdateGroup(g, now).last_hit_time = now
         /\ UpdateGroup(g, now).confidence >= g.confidence
         /\ g.confidence < 9990 => UpdateGroup(g, now).confidence > g.confidence
<1> DEFINE r == IF IsRapidTouch(g, now) THEN RapidRates ELSE StandardRates
           u == UpdateDetection(g.confidence, r)
<1>1. /\ u \in Confidences
      /\ u >= g.confidence
      /\ g.confidence < 9990 => u > g.confidence
  <2>1. r \in {StandardRates, RapidRates} /\ g.confidence \in Confidences OBVIOUS
  <2> HIDE DEF r
  <2> QED BY <2>1, UpdateGrows
<1>2. UpdateGroup(g, now) =
        [hit_count |-> g.hit_count + 1, confidence |-> u, last_hit_time |-> now]
  BY DEF UpdateGroup
<1> HIDE DEF u
<1> QED BY <1>1, <1>2, SMT
=============================================================================
