----------------------------- MODULE MCDetector -----------------------------
(* An instance of Detector for TLC: alerts that outlast the buffer, and    *)
(* receivers that send less and more than a read a second.                 *)
EXTENDS Detector

MCRates == 0 .. 2
=============================================================================
