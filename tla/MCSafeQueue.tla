---------------------------- MODULE MCSafeQueue ----------------------------
(* An instance of SafeQueue for TLC: two HTTP threads and two alerts.      *)
EXTENDS SafeQueue

CONSTANTS t1, t2, a1, a2

MCHttpThreads == {t1, t2}
MCAlerts      == {a1, a2}
=============================================================================
