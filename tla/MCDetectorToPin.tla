-------------------------- MODULE MCDetectorToPin --------------------------
(* Instances of DetectorToPin for TLC: the receiver reports one place.     *)
EXTENDS DetectorToPin

Spot  == [lon |-> 3, lat |-> 3]
Zero  == [lon |-> 0, lat |-> 0]

MCFixes  == {Spot}
MCPoints == {Spot, Zero}
MCDelays == {1}
MCBuzzerTypes == {"ACTIVE"}   \* as app_main mounts it
=============================================================================
