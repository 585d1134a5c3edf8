------------------------------- MODULE Buzzer -------------------------------
(* mine_detector/src/buzzer.cpp.  A buzzer is the record of its type, of   *)
(* the duty set in the LEDC channel, of what its pin puts out, and of      *)
(* m_isSounding; an operator is a member function of it.                   *)
EXTENDS Naturals

Types == {"ACTIVE", "PASSIVE"}

\* What a successful init leaves.
InitBuzzer(type) == [type |-> type, duty |-> 0, output |-> 0, m_isSounding |-> FALSE]

\* The drivers: a duty takes effect when it is updated.
SetLevel(b, level) == [b EXCEPT !.output = level]
SetDuty(b, duty)   == [b EXCEPT !.duty = duty]
UpdateDuty(b)      == [b EXCEPT !.output = b.duty]

\* Mutant: the duty is set and not updated.
TurnOffWithoutUpdate(b) ==
  [(IF b.type = "ACTIVE" THEN SetLevel(b, 0) ELSE SetDuty(b, 0))
     EXCEPT !.m_isSounding = FALSE]

TurnOff(b) ==
  [(IF b.type = "ACTIVE" THEN SetLevel(b, 0) ELSE UpdateDuty(SetDuty(b, 0)))
     EXCEPT !.m_isSounding = FALSE]

\* Half of the period, for any frequency; an active buzzer has no tones.
PlayTone(b, frequencyHz) ==
  CASE b.type = "ACTIVE" -> [SetLevel(b, 1) EXCEPT !.m_isSounding = TRUE]
    [] b.type = "PASSIVE" /\ frequencyHz = 0 -> TurnOff(b)
    [] OTHER -> [UpdateDuty(SetDuty(b, 512)) EXCEPT !.m_isSounding = TRUE]

\* The level is set for an active buzzer, the default tone played otherwise.
TurnOn(b) == PlayTone(b, 1000)

Silent(b) == b.output = 0 /\ ~b.m_isSounding
=============================================================================
