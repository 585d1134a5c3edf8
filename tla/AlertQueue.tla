----------------------------- MODULE AlertQueue -----------------------------
(* The queue between the HTTP threads, which push alerts (AlertDelivery),  *)
(* and the worker, which takes them (MineAlertManager).  Its own protocol  *)
(* is SafeQueue's.                                                         *)
EXTENDS Sequences

VARIABLE alert_queue   \* the positions of the alerts to handle, oldest first
=============================================================================
