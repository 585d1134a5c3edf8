------------------------- MODULE MCGroupConfidence -------------------------
(* Instances of GroupConfidence for TLC.                                   *)
EXTENDS GroupConfidence

NoSteps  == {}
NtpSteps == {-4, 3}
=============================================================================
