------------------------- MODULE MavlinkBroadcaster -------------------------
(* mine_tracker/src/mavlink_broadcaster.cpp: the alert worker registers    *)
(* and sends a mine, the heartbeat thread sends a snapshot of all mines    *)
(* every second, and the UDP thread forwards where the detector is.  The   *)
(* ground station shows, for each ICAO address and for the vehicle, the    *)
(* last packet it received.  Datagrams may be lost.                        *)
EXTENDS Integers, Sequences

CONSTANTS
  GroupIds,          \* the groups that get confirmed
  Positions,
  MaxConfirmations   \* bound: calls of send_danger_zone

ASSUME BroadcasterAssumption ==
  /\ GroupIds \subseteq Nat
  /\ MaxConfirmations \in Nat

VARIABLES
  sock_open,           \* sock_fd >= 0
  active_mines,        \* uint16 group id -> MineMarker
  to_send,             \* what send_danger_zone has left to send
  markers_to_refresh,  \* what the round of the heartbeat has left to send
  to_vehicle,          \* what send_gps_position has left to send
  station,             \* ICAO address -> the position shown
  vehicle,             \* position message -> the position shown
  reported,            \* history: what the last telemetry packet said
  confirmed,           \* history: group -> position of its last confirmation
  calls,               \* history: calls of send_danger_zone
  changed              \* history: the mines registered since the last snapshot

broadcasterVars ==
  <<sock_open, active_mines, to_send, markers_to_refresh, to_vehicle, station,
    vehicle, reported, confirmed, calls, changed>>
vehicleVars == <<to_vehicle, vehicle, reported>>
mineVars == <<active_mines, to_send, markers_to_refresh, station, confirmed, calls,
              changed>>

Set(f, k, v) == [i \in DOMAIN f \cup {k} |-> IF i = k THEN v ELSE f[i]]

\* send_danger_zone receives the int group_id of GroupConfidence as uint16_t.
Uint16(n) == n % 65536

Icao(group_id) == 40960 + (group_id % 1000)

Marker(group_id, position) ==
  [icao_id |-> Icao(group_id), group_id |-> group_id, position |-> position]

Banner == [text |-> "MINE CONFIRMED"]

BroadcasterInit ==
  /\ sock_open \in BOOLEAN
  /\ active_mines = <<>>
  /\ to_send = <<>>
  /\ markers_to_refresh = {}
  /\ to_vehicle = <<>>
  /\ station = <<>>
  /\ vehicle = <<>>
  /\ reported = {}
  /\ confirmed = <<>>
  /\ calls = 0
  /\ changed = {}

\* send_mine_point: one datagram, which may be lost.
Deliver(m) == station' = Set(station, m.icao_id, m.position)
Lose       == station' = station

-----------------------------------------------------------------------------
(* send_danger_zone, called by the alert worker *)

\* Without a socket it returns at once: the mine is not registered either.
Reject(g, p) ==
  /\ calls < MaxConfirmations
  /\ ~sock_open
  /\ confirmed' = Set(confirmed, g, p)
  /\ calls' = calls + 1
  /\ UNCHANGED <<sock_open, active_mines, to_send, markers_to_refresh, station, vehicleVars, changed>>

\* Mutant: emplace keeps the entry a mine already has.
RegisterKeepsOldEntry(g, p) ==
  LET m == Marker(Uint16(g), p) IN
  /\ calls < MaxConfirmations
  /\ sock_open
  /\ to_send = <<>>
  /\ active_mines' = IF m.group_id \in DOMAIN active_mines THEN active_mines
                     ELSE Set(active_mines, m.group_id, m)
  /\ to_send' = <<m, Banner>>
  /\ changed' = changed \cup {m.group_id}
  /\ confirmed' = Set(confirmed, g, p)
  /\ calls' = calls + 1
  /\ UNCHANGED <<sock_open, markers_to_refresh, station, vehicleVars>>

\* Under mines_mutex.
Register(g, p) ==
  LET m == Marker(Uint16(g), p) IN
  /\ calls < MaxConfirmations
  /\ sock_open
  /\ to_send = <<>>
  /\ active_mines' = Set(active_mines, m.group_id, m)
  /\ to_send' = <<m, Banner>>
  /\ changed' = changed \cup {m.group_id}
  /\ confirmed' = Set(confirmed, g, p)
  /\ calls' = calls + 1
  /\ UNCHANGED <<sock_open, markers_to_refresh, station, vehicleVars>>

\* The local marker first, then the STATUSTEXT banner, which is sent once.
WorkerSend ==
  /\ to_send # <<>>
  /\ to_send' = Tail(to_send)
  /\ \/ Lose
     \/ Head(to_send) # Banner /\ Deliver(Head(to_send))
  /\ UNCHANGED <<sock_open, active_mines, markers_to_refresh, vehicleVars, confirmed,
                 calls, changed>>

-----------------------------------------------------------------------------
(* send_heartbeat, called by the heartbeat thread every second *)

\* Mutant: only the mines registered since the last round are sent.
SnapshotOnlyChanged ==
  /\ sock_open
  /\ markers_to_refresh = {}
  /\ markers_to_refresh' = {active_mines[k] : k \in changed}
  /\ changed' = {}
  /\ UNCHANGED <<sock_open, active_mines, to_send, station, vehicleVars, confirmed, calls>>

\* Under mines_mutex; the previous round has ended.
Snapshot ==
  /\ sock_open
  /\ markers_to_refresh = {}
  /\ markers_to_refresh' = {active_mines[k] : k \in DOMAIN active_mines}
  /\ changed' = {}
  /\ UNCHANGED <<sock_open, active_mines, to_send, station, vehicleVars, confirmed, calls>>

\* After mines_mutex is released, in the order of the unordered_map.
Refresh(m) ==
  /\ m \in markers_to_refresh
  /\ markers_to_refresh' = markers_to_refresh \ {m}
  /\ UNCHANGED <<sock_open, active_mines, to_send, vehicleVars, confirmed, calls, changed>>

RefreshDelivered(m) == Refresh(m) /\ Deliver(m)
RefreshLost(m)      == Refresh(m) /\ Lose

HeartbeatStep ==
  \/ Snapshot
  \/ \E m \in markers_to_refresh : RefreshDelivered(m) \/ RefreshLost(m)

-----------------------------------------------------------------------------
(* send_gps_position, called by the UDP thread for each telemetry packet *)

VehicleMessages == {"GPS_RAW_INT", "GLOBAL_POSITION_INT"}

VehicleMessage(name, p) == [msg |-> name, position |-> p]

\* Mutant: the position that QGroundControl draws is sent for the first packet
\* only.
TelemetryRawOnly(p) ==
  /\ sock_open
  /\ to_vehicle = <<>>
  /\ to_vehicle' = <<VehicleMessage("GPS_RAW_INT", p)>>
                     \o (IF reported = {} THEN <<VehicleMessage("GLOBAL_POSITION_INT", p)>> ELSE <<>>)
  /\ reported' = {p}
  /\ UNCHANGED <<sock_open, mineVars, vehicle>>

\* A packet arrives, and the one before has been forwarded.
Telemetry(p) ==
  /\ sock_open
  /\ to_vehicle = <<>>
  /\ to_vehicle' = <<VehicleMessage("GPS_RAW_INT", p), VehicleMessage("GLOBAL_POSITION_INT", p)>>
  /\ reported' = {p}
  /\ UNCHANGED <<sock_open, mineVars, vehicle>>

\* One datagram, which may be lost.
VehicleSend ==
  /\ to_vehicle # <<>>
  /\ to_vehicle' = Tail(to_vehicle)
  /\ UNCHANGED <<sock_open, mineVars, reported>>

VehicleDelivered(name) ==
  /\ VehicleSend
  /\ Head(to_vehicle).msg = name
  /\ vehicle' = Set(vehicle, name, Head(to_vehicle).position)

VehicleLost == VehicleSend /\ UNCHANGED vehicle

VehicleStep == VehicleLost \/ \E name \in VehicleMessages : VehicleDelivered(name)

-----------------------------------------------------------------------------

BroadcasterNext ==
  \/ \E p \in Positions : Telemetry(p)
  \/ VehicleStep
  \/ \E g \in GroupIds, p \in Positions : Reject(g, p) \/ Register(g, p)
  \/ WorkerSend
  \/ HeartbeatStep

\* The threads run; and of the packets that are sent over and over, for one
\* mine or for the vehicle, the network does not lose every one.
BroadcasterSpec ==
  /\ BroadcasterInit /\ [][BroadcasterNext]_broadcasterVars
  /\ WF_broadcasterVars(WorkerSend)
  /\ WF_broadcasterVars(HeartbeatStep)
  /\ \A g \in GroupIds : SF_broadcasterVars(
       \E m \in markers_to_refresh : m.group_id = Uint16(g) /\ RefreshDelivered(m))
  /\ WF_broadcasterVars(VehicleStep)
  /\ \A name \in VehicleMessages : SF_broadcasterVars(VehicleDelivered(name))

-----------------------------------------------------------------------------
(* Properties *)

\* What the ground station shows of the mine k.
Shown(k) == station[active_mines[k].icao_id]

\* A pin that shows the registered position of its mine is put back to an
\* older one only by a round of the heartbeat that took its snapshot before
\* that position was registered, never by the alert worker.
PinGoesBackOnlyDuringRound ==
  [][\A k \in DOMAIN active_mines :
       /\ active_mines[k].icao_id \in DOMAIN station
       /\ Shown(k) = active_mines[k].position
       /\ active_mines'[k] = active_mines[k]
       /\ Shown(k)' # active_mines[k].position
       => k \in changed]_broadcasterVars

\* When confirmations cease the map settles: whatever was lost or overtaken,
\* it ends up with the last position of every mine.
MapSettles ==
  sock_open =>
    <>[](\A g \in DOMAIN confirmed :
           /\ Icao(Uint16(g)) \in DOMAIN station
           /\ station[Icao(Uint16(g))] = confirmed[g])

\* A detector that stays where it is and goes on reporting ends up there on
\* the map, in both messages, whichever of them got lost on the way.
VehicleSettles ==
  \A p \in Positions :
    []<>(to_vehicle # <<>>) /\ <>[](reported = {p}) =>
      <>[](\A name \in VehicleMessages : name \in DOMAIN vehicle /\ vehicle[name] = p)
=============================================================================
