# mine_detector: a TLA+ model, checked with TLC and proved with TLAPS

The repository holds two programs. The **detector** runs on an ESP32 on the
harness of an animal: it reads a GPS receiver and a touch sensor once a second,
sounds a buzzer, and posts an alert over Wi-Fi for every poll that finds the sensor
touched. The **tracker** runs on a Raspberry Pi: it takes the alerts over HTTP,
correlates them in space, estimates for each cluster how likely a mine is, and
shows confirmed mines on a ground station over MAVLink.

This directory models both, and the path of an alert from the touch to the pin
on the map. The models are translated from `src/mine_tracker` and
`src/mine_detector`; `PROJECT.json` maps every definition to its lines.

## 1. Inventory

| part | state | operations | talks to | what makes it correct |
|---|---|---|---|---|
| `Flags` (`flags.cpp`) | R-tree of flags and centroids, map of groups, two id counters | `add_flag`, `is_within_radius_of_any` | called by the alert worker only | tree and map agree, no touch is lost or counted twice, centroids drift slowly |
| `GroupConfidence` (`confidence_engine.cpp`) | confidence, hit count, time of the last hit | `update_group` | `system_clock`; owned by the worker | is decided by which touches came and not by their order, clear touches take time |
| `SafeQueue` (`safe_queue.hpp`) | deque, stop flag, mutex, condition variable | `push`, `pop`, `stop` | HTTP threads, worker, main | no lost wakeup, FIFO, drained before the end |
| `MineAlertManager` | confidence per group | `run` | queue → index → confidences → broadcaster | its map and the index agree; only confirmed groups are pinned, near their centroid |
| `MavlinkBroadcaster` | registered mines, socket | `send_danger_zone` (worker), `send_heartbeat` (thread), `send_gps_position` (UDP thread) | UDP to the ground station | the map ends up with the last position of each mine and of the detector |
| `HttpServer` | alert callback and its timed mutex | POST handler per request, `stop` | detector; pushes to the queue | an alert that is acknowledged is queued |
| `UdpServer`, telemetry | socket, running flag | `start`, `receive_package`, `stop` | detector → broadcaster | its thread is never left in a blocking call |
| tracker `main` | running flag, threads | start, heartbeat loop, shutdown | all of the above | every thread ends, acknowledged alerts are handled |
| `Controller` (`controller.cpp`) | last fix, buzzer, wake time | `start`, `runLoop` | GPS, sensor, buzzer, HTTP client | retries are bounded and end with the first success; the loop comes back and catches up |
| `HttpClient` | connection | `sendMineAlert` | tracker | success means delivered |
| `GgaDecoder` | decoded fix | `parse` | `GpsNeo` | valid exactly if parsed; one position from one sentence |
| `GpsNeo` | UART buffer | `init`, `get_data` | UART driver, `Controller` | a fix is not older than the loop is late and the buffer is deep |
| `WifiManager`, `app_main` | retry counter, event bits, the devices that are up | event handler, `connect`, boot | Wi-Fi driver, the `init` of each device | `connect` returns; the loop starts on devices that all came up |
| `Buzzer` | pin or PWM channel, sounding flag | `init`, `turnOn`, `turnOff`, `playTone` | GPIO, LEDC | pin and flag agree; it goes silent |
| `TouchSensor`, `UdpSocket` | a pin; a socket | `init`, `isTouched`, `sendCoordinates` | GPIO; the tracker | — |
| command line (`cli_args.cpp`) | — | `parse_flag_radius` | `main`, `Flags` | a positive radius, whatever the arguments |
| DTOs, exit codes, debug macros | data | — | — | — |

What is hard here:

* *threads*: the HTTP threads, the worker, the heartbeat and main share the
  queue and the registry of mines; snapshots are sent after the lock is released;
* *an unreliable network*: answers are lost, attempts are repeated, copies of an
  alert overtake each other and cannot be told from new touches;
* *time*: a debounce on a clock that can be stepped, a polling loop that catches
  up after a blocked call, timeouts on both sides;
* *two copies of one thing*: tree and map, index and confidences, registry and
  ground station, one output record written by three parsers;
* *numbers*: odds against a threshold, running means, ids narrowed to 16 bits,
  a coordinate test that assumes a hemisphere.

`PROJECT.json` lists each hazard at its line with the properties that would catch
it. A hazard without a property has a note that says why: most are immediate from
one guard or one missing call, and no property could say more than the code.

## 2. The modules

```
AlertChannel <--refined by-- SafeQueue       <-- SafeQueueProofs
Flags, ConfidenceEngine, AlertQueue  <-- MineAlertManager
Buzzer, AlertQueue                   <-- AlertDelivery
AlertDelivery, MineAlertManager      <-- DetectorToPin
ConfidenceEngine                     <-- GroupConfidence
CliArgs                              <-- TrackerMain --INSTANCE--> AlertChannel
DetectorBoot, DetectorLoop           <-- Detector

Flags, ConfidenceProofs              <-- FlagsProofs
GroupConfidence, ConfidenceProofs    <-- GroupConfidenceProofs
MineAlertManager, FlagsProofs        <-- ManagerProofs
DetectorToPin, ManagerProofs         <-- DeliveryProofs
TrackerMain, MavlinkBroadcaster      <-- TrackerProofs
Detector, GpsDecoder                 <-- DetectorProofs
```

`A <-- B` reads "B EXTENDS A". Each `MC*` module gives a module small constants,
each `.cfg` is one run. Operators whose comment says *mutant* are plausible slips in the code; the
specifications never use them. They show that each property can fail.

### Flags

`rtree` and `groups` are the two containers of `Flags::Impl`. `Skip`,
`InsertSolitary`, `Promote` and `Corroborate` are the four branches of
`Impl::add`; `AddFlag(p, g)` is a call that returns `g`. A nearest-neighbour
query returns any one of the nearest entries. Positions are integer points, and
a mean of n points is kept as two sums and n, so that `add_point` is exact and
distances compare by multiplying out. Abstracted: the geoid (the plane stands
for it; the radius is metres, the errors are far below it) and the rounding of
`double`. `MinCoordinate` is the 0.01 degrees of the test for the default
position.

### ConfidenceEngine, GroupConfidence

`ConfidenceEngine` is `update_group` as operators. A confidence is a number of
ten-thousandths, rounded to the nearest; rates are in lowest terms. That the
rounding does not move the decision is itself checked (`DecisionIsOrderFree`
states the exact threshold of the products). `GroupConfidence` runs one object
under a `system_clock` that time synchronisation may step in both directions;
it keeps real time beside the clock to say what the debounce is worth.

### SafeQueue, AlertChannel

Taking the mutex, the critical section and the notification after it are
separate steps of a thread, since `notify_one` and `notify_all` come after the
unlock. `worker = "waiting"` is the wait inside `_cv.wait`; a spurious wakeup is
possible. `AlertChannel` is what the users of the queue rely on: a FIFO that
ends only when it is closed and empty. `ImplementsChannel` is the refinement.

### MineAlertManager

One turn of the loop in `run` is one action: the index and the confidences are
the worker's own. `pop` is an atomic take here; `SafeQueue` models it step by
step. `pins` is what `send_danger_zone` was last called with, for each group.

### MavlinkBroadcaster

The worker registers a mine under `mines_mutex` and sends its marker and the
banner afterwards; the heartbeat copies the registry under the mutex and sends
the copy afterwards, in the order of an unordered map. The UDP thread forwards
each position of the detector in two messages. Each datagram may be lost.
`station` is what a ground station shows, the last packet of each ICAO address,
and `vehicle` the last of each of the two messages about the detector. The group
id is narrowed to 16 bits on the way in, as in the code.

### AlertDelivery

The detector's loop with its timeouts in seconds (5 s for an attempt, 2 s of
pause, 1 s of polling, up to 1 s for the receiver), the requests in flight with
the stage of their handler, and `callback_mutex`. `Lose` loses a request or an
answer at any time; an attempt may fail while its request lives on, which is how
copies arise. `Reliable = TRUE` is a network that answers in time.

The buzzer is a record of `Buzzer`, which has the member functions of
`buzzer.cpp` as operators: an active buzzer is a GPIO level, a passive one a
duty that takes effect when it is updated.

### DetectorToPin

The composition: `AlertDelivery` and `MineAlertManager` share the variable of
`AlertQueue`; `Send` is a step of the detector, a handler or the network, `Work` a
turn of the worker, and in `Second` one clock drives the timers of the detector
and the debounce of the tracker. `PathAssumption` says that the positions of the
receiver are points of the index, and that the position of a detector without a
fix is 0, 0, below the limit of the index.

### GpsDecoder

`GgaDecoder::parse` on one slice of the UART buffer: the first GPGGA, GPRMC and
GPGLL in turn, all writing to one `outPos`. A sentence is a record of what
`tokenize` finds after its header; the checksum is a flag. Coordinates are
integers, scaled to degrees times 10^7 and truncated as in `to_int32_point`.
`latitude_int` and `longitude_int` are `uint32_t`, so that a southern or western
coordinate wraps modulo 2^32 when it is stored: `Uint32` is that conversion, and
`Int32` the one back, where `sendMineAlert` and, on the tracker,
`send_gps_position` take an `int32_t`. A word is kept as two halves of 16 bits,
as TLC has no number of 2^32. The satellite count is narrowed to 8 bits. The
uninitialized status of a GPGLL of six fields takes either value.

### TrackerMain

The life of the tracker process: `main` is the place main has reached, `udp`,
`http` and `heartbeat` are its threads, and the worker is the receiving end of
an `AlertChannel` (INSTANCE), which `SafeQueue` implements. `UdpServer::stop` is
four steps, between which the UDP thread runs: a thread that has read
`socket_fd` may call `recvfrom` after the descriptor was closed, or given to an
HTTP connection. After `return` the locals are destroyed in the reverse order of
their declarations; the destructor of a `jthread` is a join. Crow is external:
`run` returns when the handlers have finished, and `stop` before `run` does
nothing.

### CliArgs

`parse_flag_radius` as operators on a sequence of arguments. What `from_chars`
makes of a text is part of the argument: a number, or `NotANumber`. `TrackerMain`
extends it: main parses its command line before it makes `Flags`.

### DetectorBoot, DetectorLoop, Detector

`DetectorBoot` is `WifiManager` and `app_main`: the driver posts events, the
task of the event loop handles them one at a time, and the main task waits for a
bit and then initialises the devices in order, each of which may fail. A restart
clears everything. `losses` counts up to the number that matters.

`DetectorLoop` is the pace of `runLoop` against the receiver. `uart` holds the
ages of what the UART buffer of 1024 bytes holds, in reads of 255 bytes, and a
full buffer drops what arrives. `lag` is how far `lastWakeTime` is in the past,
so that `Wake` is `vTaskDelayUntil`: it sleeps only when the loop is not behind.
An alert blocks the loop for any time up to `MaxBlock`; what it does meanwhile
is `AlertDelivery`. A read is full or empty; a shorter one, after the timeout,
holds no more than a full one could.

`Detector` composes the two: the loop starts when `app_main` has created
`controller_task`, whose `start` may fail without anyone looking, and the Wi-Fi
driver goes on posting events under the running loop.

## 3. The runs

| run | instance | what it shows |
|---|---|---|
| `group_confidence` | 10 s, 16 touches, clock steps of -4 and +3 s | the decision depends on which touches came and not on their order; clear touches take time |
| `three_clear_touches` | no clock steps | *violation*, see below |
| `safe_queue` | 2 HTTP threads, 2 alerts, 4 pushes | no lost wakeup, drained at exit, refinement of the channel with its liveness: a stopped worker exits |
| `alert_manager` | 6 points, one of them skipped, 5 alerts, steps of 3 s | tree and map stay two copies of one set of centroids, solitary flags stay apart, touches are conserved, a touch moves a centroid by at most radius/(n+1), a stored touch is covered; index and manager agree; pinned iff confirmed; a pin takes three touches and stands within the radius of its centroid |
| `tracker_main` | 2 requests, a signal at any time, an HTTP server that may fail | what was queued before the stop is handled; no thread outlives what it uses; no thread stays in `recvfrom` on a closed socket; the process ends; the radius is positive for every command line of up to three arguments |
| `mavlink` | groups 0 and 66535 (999 in 16 bits), 2 positions, 3 confirmations, any number of telemetry packets | a pin goes back to a stale position only within the round that overlaps its replacement; the mines and the detector settle on the map |
| `alert_delivery` | 1 touched poll, 2 fixes, both types of buzzer, unreliable network | attempts end with the first answer or the third failure; copies name one place; the buzzer goes off |
| `acknowledged_not_lost` | the same with 2 touched polls | *violation*, see below |
| `detector_to_pin` | 5 polls, 15 s, network that answers in time | each touch counted once; a pin takes three touched polls; none at 0, 0; what was acknowledged is queued |
| `one_touch_pins` | 1 poll, 25 s, unreliable network | *violation*, see below |
| `gps_decoder` | every field on both sides of its test | valid exactly if parsed; latitude and longitude from the sentence named as the source; the unsigned coordinates, signed again, on the globe |
| `detector` | a buffer of 3 reads, receivers of 0 to 2 reads a second, alerts of up to 4 s, a touch while the loop is up to 2 s late | `connect` returns; giving up takes six losses without an address; until then every loss is retried; the loop needs every device; a fix is no older than the loop is late and the buffer is deep |

### Why the bounds are enough

* `group_confidence`: the longest way to the threshold is one clear touch and
  thirteen rapid ones, 15 hits. Ten seconds hold two debounces; one forward and
  any number of backward steps occur.
* `safe_queue`: a wakeup needs one push that races a wait; two threads and four
  pushes let pushes overlap each other, the wait and the stop.
* `alert_manager`: three touches pin; five make two groups and a solitary flag,
  or move a pin after it was set. The points give distances below, at and above
  the radius, and ties between two nearest entries; 12 s hold two debounces.
* `tracker_main`: one request can be before the stop of the queue, the other
  after it or across it.
* `mavlink`: a pin can go back when one confirmation falls into a round and the
  other before it; three allow that for one group while the other is confirmed
  once.
* `alert_delivery`: all three attempts of a poll can be in the handlers at once.
  A second touched poll adds nothing to what this run checks, which is about the
  requests of one poll; that a request can find the mutex held by a copy of an
  earlier poll is the matter of `acknowledged_not_lost`, which has two. The lag is
  capped at two intervals, enough for `Wake` with and without a sleep.
* `detector`: Wi-Fi and boot have no bounds. A buffer of three reads fills, both by
  a fast receiver and by a blocked loop, and alerts of 4 s at a lag of 2 s put the
  loop several polls behind. The theorem holds for any of these numbers.
* `detector_to_pin`: five touched polls at one place pass the threshold in
  every order; 10 s on the clock (from `Boot` = 5 to 15) hold two debounces.

### Disagreements found

* `acknowledged_not_lost`. A handler that finds `callback_mutex` taken gives up
  after 100 ms, skips the callback and answers 200 "success" all the same
  (`http_server.cpp:78`). In the run a late copy of the first touch holds the
  mutex while the only POST of the second touch is answered in this way. The
  detector is done with it, no copy of it is in flight, and the tracker never
  learns of the second touch. It takes a handler that is stalled between lock and
  unlock, since all it does there is copy a `std::function`.
* `one_touch_pins`. The answers get lost and the alert is sent three times, the last two
  copies 5 s apart or more (7 s if the attempt between them times out). For the
  tracker these are three clear touches: pinned, after one touch.
  `detector_to_pin` shows that a network that answers in time rules this out.
* `three_clear_touches`. A group has no time for the solitary flag it grew from,
  so its second touch always counts as clear. Flag, touch at once, touch 5 s
  later: confirmed, with only two touches 5 s apart.

Seen while modelling, at once from one guard each and therefore not runs:

* `add` drops every alert with a negative coordinate together with the default
  position (`flags.cpp:48`); groups that drift within the radius of each other
  are not merged;
* rapid touches have no limit, so one clear touch and thirteen rapid ones confirm
  (`DecisionIsOrderFree` states it);
* the ICAO address is 0xA000 + group id mod 1000, so that groups 1000 apart share
  one "unique" address (`mavlink_broadcaster.cpp:207`, comment at `:206`);
* a GPGGA turned down for its HDOP is followed by the same fix as a GPRMC, which
  has no quality test (`gps_decoder.cpp:258`);
* `connect` waits without the timeout its comment mentions
  (`wifi_manager.hpp:18`): an access point that never assigns an address leaves
  the detector in boot;
* an alert that arrives between `alert_queue.stop()` and `http_server.stop()` is
  answered 200 and may stay in a queue whose worker has ended (`main.cpp:120`);
* a receiver that sends more than the 255 bytes a second that a poll reads keeps
  the 1024 bytes of the UART buffer full, and every position is then about 4 s
  old, however regular the polls are (`gps_neo.cpp:83`; `Depth` in
  `DetectorLoop`); `last_gps_data` itself never expires;
* `controller_task` ignores what `start` returns (`main.cpp:95` of the detector):
  without its task the detector stays on and does nothing;
* `--radius inf` is a positive number and is accepted (`cli_args.cpp:21`);
* a signal before Crow's `run` has started leaves an HTTP server that nobody
  stops, and main waits for its thread (`main.cpp:123`): `ShutdownEnds` fails
  without its condition on `http`.

### Fairness

* `SafeQueue`: weak fairness for a thread that is inside a call. Nothing makes a
  client send or an operator stop. Strong fairness is not needed for the mutex:
  a thread that holds it is never blocked, and each step of one thread ends in a
  bounded number of steps.
* `MavlinkBroadcaster`: weak fairness of the three threads; strong fairness of the
  delivery of a mine's repeated packets and of each of the two messages about the
  detector, that is, the network does not lose every one of them. Without it no
  repetition helps. `VehicleSettles` further assumes a detector that goes on
  reporting one place.
* `AlertDelivery`: weak fairness of the detector's task, whose blocking calls
  all have timeouts, and of time. None of the network or of the tracker:
  `BuzzerGoesOff` holds even if nothing ever answers.
* `TrackerMain`: every thread is scheduled, a handler finishes, and an HTTP
  connection that got the number of the closed UDP socket sends something or
  ends. No datagram, request or signal is promised: `ShutdownEnds` holds on a
  silent network.
* `Detector`: the tasks run, time passes, and an attempt to connect comes to an end. That
  an association ends in an address or in a disconnection is an assumption about
  the access point, and the code needs it.
* `CHECK_DEADLOCK FALSE` stands where a bound or the program ends the
  behaviour; `alert_delivery` checks for deadlock.

## 4. What is proved

Every safety property that a run expects to hold is also a theorem for every
value of the constants, from the named assumptions in the modules: integer
coordinates and a positive radius; names of threads that differ from "worker" and
"main"; a clock that reads at least one debounce after the epoch; fixes that are
points of the index, and a default fix at 0, 0, below its limit; a positive default radius.
Where a theorem has a hypothesis of its own, the table names it.

| module | theorems | argument |
|---|---|---|
| `FlagsProofs` | type, `IndexMatchesGroups`, `SolitariesApart`, `PinsMoveLittle`, `StoredTouchIsCovered`, `HitsConserved` | `FlagsIInv` adds that a solitary flag is one touch: without it a radius around a flag would be compared with a radius around a mean. `HitsIInv` adds to the conservation of touches that the tree is finite and that `next_id` is new: otherwise a flag could be stored over another |
| `GroupConfidenceProofs` | type, `ClearTouchesTakeTime`, `DecisionIsOrderFree`, a touch never lowers a confidence | `GroupIInv`: since the last touch the clock moved by at most the real time and the forward steps, and each clear touch uses up a debounce of that sum. `LadderInv`: until a second clear or a thirteenth rapid touch the confidence is the rung that the number of rapid touches gives, and from then on the group is confirmed |
| `SafeQueueProofs` | type, `NoLostWakeup`, `DrainedAtExit`, the safety part of `ImplementsChannel` | `QueueIInv` adds who holds the mutex, and that `stop` saw no more than is now taken or queued |
| `ManagerProofs` | type, `HitsAgree`, `PinnedIffConfirmed`, `PinNeedsThreeTouches`, `PinsNearCentroids` | `ManagerIInv` adds `FlagsIInv` and that one update leaves a group below the threshold; the pin lies within the radius since the new centroid is between the old one and the touch |
| `TrackerProofs`, of `TrackerMain` | type, `QueuedAlertsHandled`, `ObjectsOutliveUsers`, `RadiusUsable` | `TrackerIInv`: an alert pushed before the stop is pending or received, and the worker ends with nothing pending; what main has joined has ended, what it has not reached is alive. The radius: the least option of a prefix that holds one is the least option of the whole |
| `TrackerProofs`, of `MavlinkBroadcaster` | `PinGoesBackOnlyDuringRound`, if the ICAO addresses are unique | `BroadcasterIInv`: what the worker has left to send is what is registered, and what a round has left is too unless the mine was registered again since the snapshot |
| `DeliveryProofs`, of `AlertDelivery` | `RetriedUntilAnswered`, `CopiesInOnePlace`, and `SuccessMeansQueued` on a reliable network | `DeliveryIInv`: no request and no success is of a poll to come, and while an alert is sent its copies name the last fix; `ReliableInv`: there is one request at most, so its handler finds the mutex free |
| `DeliveryProofs`, of `DetectorToPin` on any network | `NoPinWithoutFix`, `CopiesAlwaysBounded`, `PathImplementsManager` | `PathIInv`: the invariants of both halves, and no pin at a position that the index skips. `BudgetInv`: what is stored, queued and on its way, and the attempts the current poll has left, are at most three for each touched poll |
| `DeliveryProofs`, of `DetectorToPin` on a reliable network | `TouchCountedOnce`, `PinNeedsThreePolls`, `SentMeansQueued` | `ReliableIInv` adds `CountInv`, the budget with one for each poll, and `HitsInv`: no group has more hits than alerts were stored |
| `DetectorProofs`, of `Detector` | `FixAgeBounded`, `LoopNeedsDevices`, `GivesUpAfterSix`, `RetriesUntilFail` | `LoopIInv`: each place nearer to the front of the buffer is a second of age, and a slow receiver has sent no more than the loop lags behind; `BootIInv`: the pending events go with the state of the driver, and the losses are the retries spent and those still pending |
| `DetectorProofs`, of `GpsDecoder` | `ValidIffParsed`, `PositionOfOneSentence`, and `DecoderTypeOK` if the receiver keeps to the NMEA format | `DecoderIInv`: what is turned down leaves validity and position blank, and what is taken ends the parsing. `OutputIInv`: what is taken is a sentence of the slice, so that degrees and sixtieths stay in range; `WordsRoundTrip`: a place on the globe survives the way through the unsigned field and back |

The hypotheses:

* unique addresses (`DistinctAddresses`): with two mines at one ICAO address the
  map cannot be right, see the disagreements above;
* `Reliable`, a network that answers in time: `one_touch_pins` and
  `acknowledged_not_lost` show that the properties fail without it.
  `CopiesAlwaysBounded` is what is left on any network: a touch is stored or queued
  three times at most, as often as the loop attempts it;
* `NmeaFormat`: degrees up to the pole or the date line, minutes below 60. The
  decoder takes what it gets, and only the receiver can justify it. The sentences
  of the run have the format.

`PathImplementsManager` is the refinement behind the composition: seen from its
queue, the detector, the network, the handlers and the worker together are a run
of `ManagerSpec`, so that each theorem of `ManagerProofs` holds of the whole path.
Its hypotheses only make the bounds of the two specifications agree (three alerts a
poll within `MaxAlerts`, steps of a second among the steps of the clock).
`MineAlertManager` in turn uses the queue as `AlertChannel` promises, which
`QueueImplementsChannel` proves of `SafeQueue`.

`ConfidenceProofs` holds the nonlinear arithmetic: products, quotients,
how scaling keeps an inequality, that a posterior lies between prior and 1. The
bounds of the runs (`MaxAlerts`, `MaxPolls`, ...) are constants too, so the
theorems hold for all of them.

`SumOfHits` is a fold over the groups, and its facts need induction over a finite
set. `NatInductive` and `SubsetInductive` (in `FlagsProofs`) state induction for a
set of numbers or of subsets instead of a predicate, from the well-foundedness of
`<`; with them the sum is shown to exist, to be a natural number and to change by
what one group changes (`SumOfHitsStored`). `LeastOf` in `TrackerProofs` gets
the least option of a command line in the same way.

`ReliableSuccessIsQueued` is the other side of the run `acknowledged_not_lost`: once
no request is lost or late, more than what that run refutes holds for every number
of polls, since not even a copy in flight is needed to excuse an alert that counts
as sent.

TLC checked each inductive invariant before it was proved, on the instance of its run or
a smaller one (`LadderInv`, `HitsIInv`, `PathIInv`, `ReliableIInv`, `BudgetInv`, `OutputIInv`).

Only model-checked: liveness (the liveness part of `ImplementsChannel`,
`MapSettles`, `VehicleSettles`, `BuzzerGoesOff`, `ShutdownEnds`, `ConnectReturns`),
which TLAPS does not do with fairness.

## 5. Not modelled, and the plan

Not modelled, and why:

* the settings of drivers and sockets, log lines, the packing of MAVLink and JSON
  fields: no property is about them;
* a request with a malformed body, which the detector does not send, and a
  datagram of a wrong size or type, which is dropped like a lost one;
* `Controller::stop`, which only the destructor of an object that is never
  destroyed calls;
* the sequence numbers of MAVLink, a global of a vendored header that three
  threads write without a lock and nothing reads;
* vendored code (json, MAVLink, Crow) and the drivers of ESP-IDF: external, as the
  code uses them.

What is left of the plan:

1. a thread that cannot be created while the tracker starts (the `catch` of
   main): the threads that run are joined before anything stops them;
2. the safety part of the liveness arguments: for each fair step that
   `ShutdownEnds` and `BuzzerGoesOff` wait for, a measure that it lowers and no
   other step raises.
