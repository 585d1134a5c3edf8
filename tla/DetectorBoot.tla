---------------------------- MODULE DetectorBoot ----------------------------
(* The boot of the detector: app_main and WifiManager.  The Wi-Fi driver   *)
(* posts events, which the task of the event loop hands to event_handler   *)
(* one by one, while the main task waits for a bit of the event group.     *)
(* A restart clears all of it.                                             *)
EXTENDS Naturals, Sequences

VARIABLES
  boot,       \* app_main: "reset", "started", "waiting", "connected",
              \* "failed" (handle_init_failure) or "running"
  link,       \* the driver: "off", "idle", "trying", "associated" or "up"
  events,     \* posted by the driver and not yet handled
  retry_num,
  bits,       \* the event group
  initialized,  \* the devices whose init returned true
  losses      \* history: disconnections since the last address or the reset,
              \* counted up to the number that exhausts the retries

bootVars == <<boot, link, events, retry_num, bits, initialized, losses>>

MAXIMUM_RETRY == 5

Devices == <<"sensor", "buzzer", "gps", "udp_socket", "http_client">>

BootInit ==
  /\ boot = "reset"
  /\ link = "off"
  /\ events = <<>>
  /\ retry_num = 0
  /\ bits = {}
  /\ initialized = <<>>
  /\ losses = 0

-----------------------------------------------------------------------------
(* The driver *)

Post(e) == events' = Append(events, e)

Drive(from, to) ==
  /\ link = from
  /\ link' = to
  /\ UNCHANGED <<boot, retry_num, bits, initialized>>

\* No event_handler reacts to the association itself.
Associate == Drive("trying", "associated") /\ UNCHANGED <<events, losses>>

GetAddress ==
  /\ Drive("associated", "up")
  /\ Post("GOT_IP")
  /\ losses' = 0

\* An attempt fails, or an access point goes away.
Disconnect(from) ==
  /\ Drive(from, "idle")
  /\ Post("DISCONNECTED")
  /\ losses' = IF losses > MAXIMUM_RETRY THEN losses ELSE losses + 1

-----------------------------------------------------------------------------
(* event_handler *)

\* esp_wifi_connect
Connect == link' = IF link = "idle" THEN "trying" ELSE link

Result(set) == IF "CONNECTED" \in set THEN "connected" ELSE "failed"

\* A waiting task gets the bits as they are when the first of them is set.
SetBit(bit) ==
  /\ bits' = bits \cup {bit}
  /\ boot' = IF boot = "waiting" THEN Result(bits') ELSE boot

Started == Connect /\ UNCHANGED <<boot, retry_num, bits>>

\* Mutants: a retry that is not counted; no retry after a first connection.
RetryUncounted ==
  /\ retry_num < MAXIMUM_RETRY
  /\ Connect
  /\ UNCHANGED <<boot, retry_num, bits>>

RetryOnlyAtBoot ==
  /\ retry_num < MAXIMUM_RETRY
  /\ IF "CONNECTED" \in bits THEN link' = link ELSE Connect
  /\ retry_num' = retry_num + 1
  /\ UNCHANGED <<boot, bits>>

Retry ==
  /\ retry_num < MAXIMUM_RETRY
  /\ Connect
  /\ retry_num' = retry_num + 1
  /\ UNCHANGED <<boot, bits>>

GiveUp ==
  /\ retry_num >= MAXIMUM_RETRY
  /\ SetBit("FAIL")
  /\ UNCHANGED <<link, retry_num>>

\* Mutant: the budget is not given back.
GotAddressKeepsCount == SetBit("CONNECTED") /\ UNCHANGED <<link, retry_num>>

GotAddress == SetBit("CONNECTED") /\ retry_num' = 0 /\ UNCHANGED link

HandleEvent ==
  /\ events # <<>>
  /\ events' = Tail(events)
  /\ UNCHANGED <<initialized, losses>>
  /\ CASE Head(events) = "START"        -> Started
       [] Head(events) = "DISCONNECTED" -> Retry \/ GiveUp
       [] Head(events) = "GOT_IP"       -> GotAddress

-----------------------------------------------------------------------------
(* app_main *)

\* connect up to esp_wifi_start.
StartWifi ==
  /\ boot = "reset"
  /\ boot' = "started"
  /\ link' = "idle"
  /\ Post("START")
  /\ UNCHANGED <<retry_num, bits, initialized, losses>>

MainTask(from, to) ==
  /\ boot = from
  /\ boot' = to
  /\ UNCHANGED <<link, events, retry_num, bits, losses>>

\* xEventGroupWaitBits finds a bit that is already set, or blocks.
WaitBits ==
  /\ MainTask("started", IF bits = {} THEN "waiting" ELSE Result(bits))
  /\ UNCHANGED initialized

IsNext(d) == Len(initialized) < Len(Devices) /\ Devices[Len(initialized) + 1] = d

\* Mutant: a device that fails is only logged.
InitGoesOn(d) ==
  /\ IsNext(d)
  /\ initialized' \in {Append(initialized, d), Append(initialized, "failed")}
  /\ MainTask("connected", "connected")

\* What init of a device does to it, or handle_init_failure.
InitDevice(d) ==
  /\ IsNext(d)
  /\ \/ MainTask("connected", "connected") /\ initialized' = Append(initialized, d)
     \/ MainTask("connected", "failed") /\ UNCHANGED initialized

InitSensor     == InitDevice("sensor")
InitBuzzer     == InitDevice("buzzer")
InitGps        == InitDevice("gps")
InitUdpSocket  == InitDevice("udp_socket")
InitHttpClient == InitDevice("http_client")

InitDevices == InitSensor \/ InitBuzzer \/ InitGps \/ InitUdpSocket \/ InitHttpClient

\* xTaskCreate of controller_task.
CreateController ==
  /\ Len(initialized) = Len(Devices)
  /\ MainTask("connected", "running") \/ MainTask("connected", "failed")
  /\ UNCHANGED initialized

\* Five seconds after the failure.
Restart ==
  /\ boot = "failed"
  /\ boot' = "reset"
  /\ link' = "off"
  /\ events' = <<>>
  /\ retry_num' = 0
  /\ bits' = {}
  /\ initialized' = <<>>
  /\ losses' = 0

-----------------------------------------------------------------------------

\* What comes of an attempt to connect.
Attempt == Associate \/ GetAddress \/ Disconnect("trying") \/ Disconnect("associated")

AppMain == StartWifi \/ WaitBits \/ InitDevices \/ CreateController \/ Restart

BootNext == Attempt \/ Disconnect("up") \/ HandleEvent \/ AppMain

\* The tasks run, and an attempt comes to an end: an access point that has
\* accepted the station gives it an address or drops it.
BootSpec ==
  /\ BootInit /\ [][BootNext]_bootVars
  /\ WF_bootVars(Attempt) /\ WF_bootVars(HandleEvent) /\ WF_bootVars(AppMain)

-----------------------------------------------------------------------------
(* Properties *)

\* The handler gives up only after six disconnections without an address in
\* between, whenever the events are handled and however often the link was up.
GivesUpAfterSix == "FAIL" \in bits => losses > MAXIMUM_RETRY

\* As long as it has not given up, a link that is down is being retried: the
\* driver is at it, or an event is pending that makes the handler connect.
RetriesUntilFail ==
  link = "idle" /\ "FAIL" \notin bits => events # <<>> /\ events[Len(events)] # "GOT_IP"

\* A main task that blocks in connect comes back, with a connection or not.
ConnectReturns == boot = "started" ~> boot \in {"connected", "failed"}

=============================================================================
