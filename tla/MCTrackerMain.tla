--------------------------- MODULE MCTrackerMain ---------------------------
(* An instance of TrackerMain for TLC, and the command lines of up to      *)
(* three arguments that main may be started with.                          *)
EXTENDS TrackerMain

CONSTANTS a1, a2

MCAlerts == {a1, a2}

MCNumbers == {-1, 0, 15, 30, NotANumber}

MCArguments == {Flag} \cup {Prefixed(n) : n \in MCNumbers} \cup {Text(n) : n \in MCNumbers}

MCCommandLines == UNION {[1 .. n -> MCArguments] : n \in 0 .. 3}
=============================================================================
