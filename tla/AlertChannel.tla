---------------------------- MODULE AlertChannel ----------------------------
(* What the alert queue promises to its users: alerts are received once,   *)
(* in the order they were sent, and the receiver ends only after the       *)
(* channel is closed and everything it then holds has been received.       *)
EXTENDS Sequences

CONSTANT Alerts

VARIABLES
  pending,    \* alerts sent and not yet received
  received,   \* alerts received, oldest first
  closed,
  ended       \* the receiver has seen the end of the channel

channelVars == <<pending, received, closed, ended>>

ChannelInit ==
  /\ pending = <<>>
  /\ received = <<>>
  /\ closed = FALSE
  /\ ended = FALSE

Send(a) ==
  /\ pending' = Append(pending, a)
  /\ UNCHANGED <<received, closed, ended>>

Receive ==
  /\ ~ended
  /\ pending # <<>>
  /\ received' = Append(received, Head(pending))
  /\ pending' = Tail(pending)
  /\ UNCHANGED <<closed, ended>>

Close ==
  /\ closed' = TRUE
  /\ UNCHANGED <<pending, received, ended>>

End ==
  /\ closed
  /\ pending = <<>>
  /\ ended' = TRUE
  /\ UNCHANGED <<pending, received, closed>>

ChannelNext == (\E a \in Alerts : Send(a)) \/ Receive \/ Close \/ End

ChannelSafety == ChannelInit /\ [][ChannelNext]_channelVars

\* The receiver keeps receiving, and notices the end.
ChannelSpec ==
  ChannelSafety /\ WF_channelVars(Receive) /\ WF_channelVars(End)
=============================================================================
