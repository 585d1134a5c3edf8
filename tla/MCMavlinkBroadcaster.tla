----------------------- MODULE MCMavlinkBroadcaster -----------------------
(* An instance of MavlinkBroadcaster for TLC.                              *)
EXTENDS MavlinkBroadcaster

CONSTANTS here, there

MCPositions == {here, there}

FirstAndWrapped == {0, 66535}   \* 66535 is 999 as an uint16_t
=============================================================================
