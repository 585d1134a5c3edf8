---------------------------- MODULE DetectorLoop ----------------------------
(* Controller::runLoop and the UART buffer of GpsNeo: the receiver fills   *)
(* the buffer, a turn of the loop takes out one read, and an alert holds   *)
(* the loop up.  What a read says is GpsDecoder's, how an alert is sent is *)
(* AlertDelivery's.  Time is in seconds; a read's worth of bytes is known  *)
(* by its age.                                                             *)
EXTENDS Integers, Sequences

CONSTANTS
  Slices,    \* reads of 255 bytes that the buffer of 1024 holds
  Rates,     \* reads' worth that a receiver sends in a second at the most
  MaxBlock,  \* seconds an alert takes at the most
  MaxLag     \* bound: no touch while the loop lags behind by more

ASSUME LoopAssumption ==
  Slices \in Nat \ {0} /\ Rates \subseteq Nat /\ MaxBlock \in Nat /\ MaxLag \in Nat

VARIABLES
  rate,   \* of the receiver
  uart,   \* the ages of what is buffered, the next read first
  loop,   \* detector_task: "none", "failed", "reading", "alerting" or
          \* "sleeping"
  timer,  \* seconds the blocking call may still take
  lag,    \* seconds since lastWakeTime
  fix     \* the age of the fix that this turn has read, or NoFixRead

loopVars == <<rate, uart, loop, timer, lag, fix>>

NoFixRead == -1
PollInterval == 1   \* pollIntervalMs
ReadTimeout  == 1   \* pdMS_TO_TICKS(1000)

LoopInit ==
  /\ rate \in Rates
  /\ uart = <<>>
  /\ loop = "none"
  /\ timer = 0
  /\ lag = 0
  /\ fix = NoFixRead

-----------------------------------------------------------------------------
(* Controller::start *)

Create(state) ==
  /\ loop = "none"
  /\ loop' = state
  /\ timer' = ReadTimeout
  /\ UNCHANGED <<rate, uart, lag, fix>>

StartLoop == Create("reading")

\* start returns false, which controller_task does not look at.
StartLoopFails == Create("failed")

-----------------------------------------------------------------------------
(* runLoop *)

\* uart_read_bytes returns a full read at once, or after its timeout what
\* there is, that is nothing; the read holds a whole sentence or does not.
GetData ==
  /\ loop = "reading"
  /\ IF uart # <<>>
       THEN uart' = Tail(uart) /\ fix' \in {NoFixRead, Head(uart)}
       ELSE timer = 0 /\ UNCHANGED <<uart, fix>>

\* isTouched, and sendMineAlert up to three times.
TurnTouched ==
  /\ GetData
  /\ lag <= MaxLag
  /\ loop' = "alerting"
  /\ timer' \in 0 .. MaxBlock
  /\ UNCHANGED <<rate, lag>>

TurnUntouched ==
  /\ GetData
  /\ loop' = "sleeping"
  /\ timer' = 0
  /\ UNCHANGED <<rate, lag>>

AlertEnds ==
  /\ loop = "alerting"
  /\ timer = 0
  /\ loop' = "sleeping"
  /\ UNCHANGED <<rate, uart, timer, lag, fix>>

\* Mutant: vTaskDelay, after which the seconds behind are forgotten.
WakeForgetsLag ==
  /\ loop = "sleeping"
  /\ lag >= PollInterval
  /\ lag' = 0
  /\ loop' = "reading"
  /\ timer' = ReadTimeout
  /\ fix' = NoFixRead
  /\ UNCHANGED <<rate, uart>>

\* vTaskDelayUntil.
Wake ==
  /\ loop = "sleeping"
  /\ lag >= PollInterval
  /\ lag' = lag - PollInterval
  /\ loop' = "reading"
  /\ timer' = ReadTimeout
  /\ fix' = NoFixRead
  /\ UNCHANGED <<rate, uart>>

-----------------------------------------------------------------------------
(* Time and the receiver *)

Blocked ==
  \/ loop = "reading" /\ uart = <<>> /\ timer > 0
  \/ loop = "alerting" /\ timer > 0
  \/ loop = "sleeping" /\ lag < PollInterval

\* A full buffer keeps what it holds: what arrives is lost.
Received(n) ==
  [i \in 1 .. (IF Len(uart) + n <= Slices THEN Len(uart) + n ELSE Slices) |->
     IF i <= Len(uart) THEN uart[i] + 1 ELSE 0]

\* A second passes, unless the running call is over by now.
Second(n) ==
  /\ Blocked
  /\ uart' = Received(n)
  /\ timer' = IF timer > 0 THEN timer - 1 ELSE 0
  /\ lag' = lag + 1
  /\ fix' = IF fix = NoFixRead THEN fix ELSE fix + 1
  /\ UNCHANGED <<rate, loop>>

-----------------------------------------------------------------------------

LoopNext ==
  \/ StartLoop \/ StartLoopFails
  \/ TurnTouched \/ TurnUntouched \/ AlertEnds \/ Wake
  \/ \E n \in 0 .. rate : Second(n)

LoopSpec == LoopInit /\ [][LoopNext]_loopVars

-----------------------------------------------------------------------------
(* Properties *)

\* The most reads that the buffer keeps a loop which does not lag from the
\* newest one: a receiver of no more than a read a second leaves one behind.
Depth == IF rate <= 1 THEN 1 ELSE Slices

\* However long alerts block the loop and whatever the receiver sends, the fix
\* of a turn is no older than the loop lags behind, and a second more for each
\* read that stays in the buffer: with vTaskDelayUntil the loop catches up.
FixAgeBounded == fix <= lag + Depth
=============================================================================
