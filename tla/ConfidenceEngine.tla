-------------------------- MODULE ConfidenceEngine --------------------------
(* The Bayesian update of mine_tracker/src/confidence_engine.cpp.          *)
(* A confidence is a whole number of ten-thousandths, rounded to the       *)
(* nearest; a pair of rates is in lowest terms (0.85 : 0.15 = 17 : 3).     *)
(* Times are seconds since the epoch of system_clock.                      *)
EXTENDS Integers

Scale              == 10000
DEBOUNCE_SECONDS   == 5
InitialConfidenceHalf == 5000                 \* mutant: a prior of 50%
INITIAL_CONFIDENCE == 2000                    \* 0.20
StandardRates      == [mine |-> 17, clear |-> 3]   \* 0.85 and 0.15
RapidRatesSwapped  == [mine |-> 12, clear |-> 13]  \* mutant
RapidRates         == [mine |-> 13, clear |-> 12]  \* 0.52 and 0.48
Threshold          == 8000                    \* 0.80, in MineAlertManager::run

\* Mutant: the flag that was promoted is not counted.
NewConfidenceWithoutFlag ==
  [hit_count |-> 0, confidence |-> INITIAL_CONFIDENCE, last_hit_time |-> 0]

\* GroupConfidence as constructed: the first hit is the solitary flag, whose
\* time is not known to it.
NewConfidence == [hit_count |-> 1, confidence |-> INITIAL_CONFIDENCE, last_hit_time |-> 0]

IsRapidTouch(gc, now) ==
  gc.hit_count # 0 /\ now - gc.last_hit_time < DEBOUNCE_SECONDS

\* Mutant: divides by the likelihood of noise, which yields the odds.
UpdateDetectionOdds(confidence, rates) ==
  LET noise == rates.clear * (Scale - confidence) IN
  IF noise > 0 THEN (rates.mine * confidence * Scale) \div noise ELSE confidence

\* update_detection: the posterior of a mine after one more touch.
UpdateDetection(confidence, rates) ==
  LET likelihood_mine  == rates.mine * confidence
      likelihood_noise == rates.clear * (Scale - confidence)
      total            == likelihood_mine + likelihood_noise
  IN  IF total > 0
      THEN (likelihood_mine * Scale + total \div 2) \div total
      ELSE confidence

\* Mutant: _last_hit_time is not updated.
UpdateGroupKeepsTime(gc, now) ==
  [hit_count     |-> gc.hit_count + 1,
   confidence    |-> UpdateDetection(gc.confidence,
                       IF IsRapidTouch(gc, now) THEN RapidRates ELSE StandardRates),
   last_hit_time |-> gc.last_hit_time]

UpdateGroup(gc, now) ==
  [hit_count     |-> gc.hit_count + 1,
   confidence    |-> UpdateDetection(gc.confidence,
                       IF IsRapidTouch(gc, now) THEN RapidRates ELSE StandardRates),
   last_hit_time |-> now]

IsConfirmed(gc) == gc.confidence >= Threshold
=============================================================================
