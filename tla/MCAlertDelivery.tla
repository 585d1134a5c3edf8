-------------------------- MODULE MCAlertDelivery --------------------------
(* An instance of AlertDelivery for TLC: a receiver that moves.            *)
EXTENDS AlertDelivery

CONSTANTS here, there, nowhere

MCFixes == {here, there}

MCBuzzerTypes == Types
=============================================================================
