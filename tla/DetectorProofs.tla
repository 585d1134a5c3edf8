--------------------------- MODULE DetectorProofs ---------------------------
(* Theorems about the detector: about Detector, for every receiver, buffer *)
(* and duration of an alert, and about GpsDecoder, for every sentence.     *)
EXTENDS Detector, GpsDecoder, SequenceTheorems, TLAPS

\* A read that is due while the loop is at it.
Due == IF loop = "reading" THEN 1 ELSE 0

LoopTypeOK ==
  /\ rate \in Nat
  /\ uart \in Seq(Nat)
  /\ loop \in {"none", "failed", "reading", "alerting", "sleeping"}
  /\ timer \in Nat
  /\ lag \in Nat
  /\ fix \in Nat \cup {NoFixRead}

\* The buffer holds no more than fits, and what a slow receiver has sent since
\* the loop fell behind.
BufferInv == Len(uart) <= Slices /\ (rate <= 1 => Len(uart) <= lag + Due)

\* Each place nearer to the front is a second of age.
AgesInv == \A i \in 1 .. Len(uart) : uart[i] <= lag + Due + Depth - i

LoopIInv == LoopTypeOK /\ BufferInv /\ AgesInv /\ FixAgeBounded

\* What is pending in the event loop goes with the state of the driver, and
\* the disconnections that the handler has not seen yet are in it.
EventsInv ==
  \/ events = <<>> /\ link \in {"trying", "associated"} /\ losses = retry_num
  \/ events = <<>> /\ link = "up" /\ losses = 0 /\ retry_num = 0
  \/ events = <<>> /\ link = "off" /\ boot = "reset" /\ losses = 0 /\ retry_num = 0
  \/ events = <<>> /\ link = "idle" /\ "FAIL" \in bits /\ losses > MAXIMUM_RETRY
  \/ events = <<"START">> /\ link = "idle" /\ losses = 0 /\ retry_num = 0
  \/ events = <<"GOT_IP">> /\ link = "up" /\ losses = 0
  \/ events = <<"DISCONNECTED">> /\ link = "idle" /\ losses = retry_num + 1
  \/ events = <<"GOT_IP", "DISCONNECTED">> /\ link = "idle" /\ losses = 1

\* No event comes after the handler has given up.
FailInv == "FAIL" \in bits => link = "idle" /\ events = <<>>

DeviceNames == {"sensor", "buzzer", "gps", "udp_socket", "http_client"}

\* The devices of this boot came up in order, and all of them before the task.
BootInv ==
  /\ boot \in {"reset", "started", "waiting", "connected", "failed", "running"}
  /\ initialized \in Seq(DeviceNames) /\ Len(initialized) <= Len(Devices)
  /\ \A i \in 1 .. Len(initialized) : initialized[i] = Devices[i]
  /\ boot = "running" => initialized = Devices
  /\ boot = "reset" => link = "off" /\ bits = {} /\ events = <<>> /\ retry_num = 0

BootIInv ==
  /\ retry_num \in 0 .. MAXIMUM_RETRY
  /\ losses \in 0 .. MAXIMUM_RETRY + 1
  /\ EventsInv /\ FailInv /\ BootInv

DetectorIInv == LoopIInv /\ BootIInv /\ (loop # "none" => boot = "running")

-----------------------------------------------------------------------------
(* The loop *)

\* The buffer after a second, one place at a time.
LEMMA ReceivedFacts ==
  ASSUME LoopTypeOK, NEW n \in Nat
  PROVE  /\ Received(n) \in Seq(Nat)
         /\ Len(Received(n)) = IF Len(uart) + n <= Slices THEN Len(uart) + n ELSE Slices
         /\ \A i \in 1 .. Len(Received(n)) :
              Received(n)[i] = IF i <= Len(uart) THEN uart[i] + 1 ELSE 0
<1> DEFINE size == IF Len(uart) + n <= Slices THEN Len(uart) + n ELSE Slices
           r    == [i \in 1 .. size |-> IF i <= Len(uart) THEN uart[i] + 1 ELSE 0]
<1>1. Len(uart) \in Nat /\ \A i \in 1 .. Len(uart) : uart[i] \in Nat
  BY LenProperties, ElementOfSeq DEF LoopTypeOK
<1>2. size \in Nat BY <1>1, LoopAssumption, SMT
<1>3. \A i \in 1 .. size : (IF i <= Len(uart) THEN uart[i] + 1 ELSE 0) \in Nat
  BY <1>1, <1>2, SMT
<1>4. r \in [1 .. size -> Nat] BY <1>3
<1>5. r \in Seq(Nat) BY <1>2, <1>4, SeqDef
<1>6. Len(r) = size
  <2>1. DOMAIN r = 1 .. Len(r) /\ Len(r) \in Nat BY <1>5, LenProperties
  <2>2. DOMAIN r = 1 .. size BY <1>4
  <2> QED BY <2>1, <2>2, <1>2, SMT
<1>7. Received(n) = r BY DEF Received
<1> QED BY <1>4, <1>5, <1>6, <1>7

\* An empty buffer at first.
LEMMA LoopInitIInv == LoopInit => LoopIInv
<1> SUFFICES ASSUME LoopInit PROVE LoopIInv OBVIOUS
<1>1. <<>> \in Seq(Nat) /\ Len(<<>>) = 0 BY EmptySeq
<1> QED
  BY <1>1, LoopAssumption, SMT
  DEF LoopInit, LoopIInv, LoopTypeOK, BufferInv, AgesInv, FixAgeBounded, NoFixRead,
      Depth, Due

\* A read takes the front out of the buffer, and the loop is not at it any more.
LEMMA GetDataIInv ==
  ASSUME LoopIInv, GetData, loop' \in {"alerting", "sleeping"}, timer' \in Nat,
         UNCHANGED <<rate, lag>>
  PROVE  LoopIInv'
<1> USE LoopAssumption DEF LoopIInv, LoopTypeOK, Due, Depth, NoFixRead
<1>1. Len(uart) \in Nat /\ \A i \in 1 .. Len(uart) : uart[i] \in Nat
  BY LenProperties, ElementOfSeq
<1>2. CASE uart = <<>> /\ UNCHANGED <<uart, fix>>
  BY <1>1, <1>2, EmptySeq, SMT DEF GetData, BufferInv, AgesInv, FixAgeBounded
<1>3. CASE uart # <<>> /\ uart' = Tail(uart) /\ fix' \in {NoFixRead, Head(uart)}
  <2>1. /\ Tail(uart) \in Seq(Nat)
        /\ Len(Tail(uart)) = Len(uart) - 1
        /\ \A i \in 1 .. Len(Tail(uart)) : Tail(uart)[i] = uart[i + 1]
        /\ Head(uart) = uart[1]
        /\ Len(uart) >= 1
    BY <1>3, HeadTailProperties, EmptySeq, SMT
  <2>2. loop = "reading" BY DEF GetData
  <2>3. fix' \in {NoFixRead, uart[1]} /\ uart[1] \in Nat BY <1>1, <1>3, <2>1, SMT
  <2>4. LoopTypeOK' BY <1>3, <2>1, <2>3, SMT
  <2>5. BufferInv' BY <1>1, <1>3, <2>1, <2>2, SMT DEF BufferInv
  <2>6. AgesInv' BY <1>1, <1>3, <2>1, <2>2, SMT DEF AgesInv
  <2>7. FixAgeBounded' BY <1>1, <2>1, <2>2, <2>3, SMT DEF AgesInv, FixAgeBounded
  <2> QED BY <2>4, <2>5, <2>6, <2>7
<1> QED BY <1>2, <1>3 DEF GetData

\* A second ages what is buffered and what was read, and the lag with them.
LEMMA SecondIInv ==
  ASSUME LoopIInv, NEW n \in 0 .. rate, Second(n)
  PROVE  LoopIInv'
<1> USE LoopAssumption DEF LoopIInv, LoopTypeOK, Due, Depth, NoFixRead, Second
<1>1. Len(uart) \in Nat /\ \A i \in 1 .. Len(uart) : uart[i] \in Nat
  BY LenProperties, ElementOfSeq
<1>2. n \in Nat /\ n <= rate BY SMT
<1>3. /\ uart' \in Seq(Nat)
      /\ Len(uart') = IF Len(uart) + n <= Slices THEN Len(uart) + n ELSE Slices
      /\ \A i \in 1 .. Len(uart') :
           uart'[i] = IF i <= Len(uart) THEN uart[i] + 1 ELSE 0
  BY <1>2, ReceivedFacts
<1>4. LoopTypeOK' BY <1>3, SMT
<1>5. BufferInv' BY <1>1, <1>2, <1>3, SMT DEF BufferInv
<1>6. AgesInv'
  <2> SUFFICES ASSUME NEW i \in 1 .. Len(uart') PROVE uart'[i] <= lag' + Due' + Depth' - i
    BY DEF AgesInv
  <2>1. i \in Nat /\ i >= 1 /\ i <= Len(uart') BY <1>1, <1>2, <1>3, SMT
  <2>2. CASE i <= Len(uart)
    <3>1. i \in 1 .. Len(uart) BY <1>1, <2>1, <2>2, SMT
    <3>2. uart[i] \in Nat /\ uart[i] <= lag + Due + Depth - i BY <1>1, <3>1 DEF AgesInv
    <3>3. uart'[i] = uart[i] + 1 BY <1>3, <2>2
    <3>4. Due' = Due /\ Depth' = Depth /\ lag' = lag + 1 OBVIOUS
    <3>5. Due \in Nat /\ Depth \in Nat /\ lag \in Nat BY SMT
    <3> HIDE DEF Due, Depth
    <3> QED BY <2>1, <3>2, <3>3, <3>4, <3>5, SMT
  <2>3. CASE i > Len(uart)
    <3>1. uart'[i] = 0 BY <1>1, <1>3, <2>1, <2>3, SMT
    <3>2. i <= lag' + Due' + Depth' BY <1>1, <1>5, <2>1, SMT DEF BufferInv
    <3>3. lag' + Due' + Depth' \in Nat BY SMT
    <3> QED BY <2>1, <3>1, <3>2, <3>3, SMT
  <2> QED BY <1>1, <2>1, <2>2, <2>3, SMT
<1>7. FixAgeBounded' BY SMT DEF FixAgeBounded
<1> QED BY <1>4, <1>5, <1>6, <1>7

\* Every step of the loop keeps its invariant.
LEMMA LoopNextIInv == LoopIInv /\ [LoopNext]_loopVars => LoopIInv'
<1> SUFFICES ASSUME LoopIInv, [LoopNext]_loopVars PROVE LoopIInv' OBVIOUS
<1> USE LoopAssumption DEF LoopIInv
<1>1. Len(uart) \in Nat /\ \A i \in 1 .. Len(uart) : uart[i] \in Nat
  BY LenProperties, ElementOfSeq DEF LoopTypeOK
<1>2. CASE StartLoop \/ StartLoopFails
  BY <1>1, <1>2, SMT
  DEF StartLoop, StartLoopFails, Create, ReadTimeout, LoopTypeOK, BufferInv, AgesInv,
      FixAgeBounded, Due, Depth
<1>3. CASE TurnTouched \/ TurnUntouched
  <2>1. GetData /\ loop' \in {"alerting", "sleeping"} /\ UNCHANGED <<rate, lag>>
    BY <1>3 DEF TurnTouched, TurnUntouched
  <2>2. timer' \in Nat BY <1>3, SMT DEF TurnTouched, TurnUntouched
  <2> QED BY <2>1, <2>2, GetDataIInv
<1>4. CASE AlertEnds
  BY <1>1, <1>4, SMT
  DEF AlertEnds, LoopTypeOK, BufferInv, AgesInv, FixAgeBounded, Due, Depth
<1>5. CASE Wake
  BY <1>1, <1>5, SMT
  DEF Wake, PollInterval, ReadTimeout, NoFixRead, LoopTypeOK, BufferInv, AgesInv,
      FixAgeBounded, Due, Depth
<1>6. CASE \E n \in 0 .. rate : Second(n) BY <1>6, SecondIInv
<1>7. CASE UNCHANGED loopVars
  BY <1>7 DEF loopVars, LoopTypeOK, BufferInv, AgesInv, FixAgeBounded, Due, Depth
<1> QED BY <1>2, <1>3, <1>4, <1>5, <1>6, <1>7 DEF LoopNext

-----------------------------------------------------------------------------
(* The boot *)

LEMMA AppendToPair ==
  ASSUME NEW e, NEW f
  PROVE  Append(<<e>>, f) = <<e, f>>
<1>1. <<e>> \in Seq({e, f}) /\ <<e, f>> \in Seq({e, f}) BY SMT
<1>2. Len(<<e>>) = 1 /\ Len(<<e, f>>) = 2 BY SMT
<1>3. /\ Append(<<e>>, f) \in Seq({e, f})
      /\ Len(Append(<<e>>, f)) = 2
      /\ Append(<<e>>, f)[1] = e
      /\ Append(<<e>>, f)[2] = f
  BY <1>1, <1>2, AppendProperties, SMT
<1>4. \A i \in 1 .. 2 : Append(<<e>>, f)[i] = <<e, f>>[i] BY <1>3, SMT
<1> QED BY <1>1, <1>2, <1>3, <1>4, SeqEqual

LEMMA Tuples ==
  ASSUME NEW e, NEW f
  PROVE  /\ Append(<<>>, e) = <<e>>
         /\ Head(<<e>>) = e /\ Head(<<e, f>>) = e
         /\ Tail(<<e>>) = <<>> /\ Tail(<<e, f>>) = <<f>>
         /\ <<e>> # <<>> /\ <<e, f>> # <<>>
BY SMT

\* A driver that is at work has nothing pending but an address.
LEMMA DriverIInv ==
  ASSUME BootIInv, Attempt \/ Disconnect("up")
  PROVE  BootIInv'
<1> USE DEF Drive, Post, MAXIMUM_RETRY, BootIInv
<1>1. CASE Associate BY <1>1, SMT DEF Associate, EventsInv, FailInv, BootInv
<1>2. CASE GetAddress
  BY <1>2, Tuples, SMT DEF GetAddress, EventsInv, FailInv, BootInv
<1>3. CASE Disconnect("trying") \/ Disconnect("associated") \/ Disconnect("up")
  <2>1. /\ link \in {"trying", "associated", "up"} /\ link' = "idle"
        /\ events' = Append(events, "DISCONNECTED")
        /\ losses' = IF losses > 5 THEN losses ELSE losses + 1
        /\ UNCHANGED <<boot, retry_num, bits, initialized>>
    BY <1>3 DEF Disconnect
  <2>2. CASE events = <<>> /\ losses = retry_num
    BY <2>1, <2>2, Tuples, SMT DEF EventsInv, FailInv, BootInv
  <2>3. CASE events = <<"GOT_IP">> /\ losses = 0
    BY <2>1, <2>3, AppendToPair, SMT DEF EventsInv, FailInv, BootInv
  <2> QED BY <2>1, <2>2, <2>3, SMT DEF EventsInv
<1> QED BY <1>1, <1>2, <1>3 DEF Attempt

\* Each event is handled in the state of the driver that goes with it.
LEMMA HandlerIInv ==
  ASSUME BootIInv, HandleEvent
  PROVE  BootIInv' /\ (boot = "running" => boot' = "running")
<1> USE DEF MAXIMUM_RETRY, BootIInv, HandleEvent
<1>1. events # <<>> /\ events' = Tail(events) /\ boot # "reset" /\ UNCHANGED <<initialized, losses>>
  BY DEF BootInv
<1>2. CASE events = <<"START">> /\ link = "idle" /\ losses = 0 /\ retry_num = 0
  <2>1. Head(events) = "START" /\ Tail(events) = <<>> BY <1>2, Tuples
  <2>2. Started BY <2>1
  <2> QED BY <1>1, <1>2, <2>1, <2>2, SMT DEF Started, Connect, EventsInv, FailInv, BootInv
<1>3. CASE events = <<"GOT_IP">> /\ link = "up" /\ losses = 0
  <2>1. Head(events) = "GOT_IP" /\ Tail(events) = <<>> BY <1>3, Tuples
  <2>2. GotAddress BY <2>1
  <2> QED
    BY <1>1, <1>3, <2>1, <2>2, SMT
    DEF GotAddress, SetBit, Result, EventsInv, FailInv, BootInv
<1>4. CASE events = <<"GOT_IP", "DISCONNECTED">> /\ link = "idle" /\ losses = 1
  <2>1. Head(events) = "GOT_IP" /\ Tail(events) = <<"DISCONNECTED">> BY <1>4, Tuples
  <2>2. GotAddress BY <2>1
  <2> QED
    BY <1>1, <1>4, <2>1, <2>2, SMT
    DEF GotAddress, SetBit, Result, EventsInv, FailInv, BootInv
<1>5. CASE events = <<"DISCONNECTED">> /\ link = "idle" /\ losses = retry_num + 1
  <2>1. Head(events) = "DISCONNECTED" /\ Tail(events) = <<>> BY <1>5, Tuples
  <2>2. Retry \/ GiveUp BY <2>1
  <2>3. CASE Retry
    BY <1>1, <1>5, <2>1, <2>3, SMT DEF Retry, Connect, EventsInv, FailInv, BootInv
  <2>4. CASE GiveUp
    BY <1>1, <1>5, <2>1, <2>4, SMT DEF GiveUp, SetBit, Result, EventsInv, FailInv, BootInv
  <2> QED BY <2>2, <2>3, <2>4
<1> QED BY <1>1, <1>2, <1>3, <1>4, <1>5 DEF EventsInv

\* A device that is initialized next is the next of Devices.
LEMMA InitDeviceIInv ==
  ASSUME BootIInv, NEW d \in DeviceNames, InitDevice(d)
  PROVE  BootIInv'
<1> USE DEF BootIInv, InitDevice, MainTask, IsNext
<1>1. CASE boot' = "failed" /\ UNCHANGED initialized
  BY <1>1, SMT DEF EventsInv, FailInv, BootInv
<1>2. CASE boot' = "connected" /\ initialized' = Append(initialized, d)
  <2>1. /\ initialized' \in Seq(DeviceNames)
        /\ Len(initialized') = Len(initialized) + 1
        /\ \A i \in 1 .. Len(initialized) : initialized'[i] = initialized[i]
        /\ initialized'[Len(initialized) + 1] = d
    BY <1>2, AppendProperties DEF BootInv
  <2>2. Len(initialized) \in Nat /\ Len(initialized) < Len(Devices) /\ Len(Devices) \in Nat
    BY LenProperties, SMT DEF BootInv, Devices
  <2>3. Len(initialized') <= Len(Devices) BY <2>1, <2>2, SMT
  <2>4. \A i \in 1 .. Len(initialized') : initialized'[i] = Devices[i]
    BY <2>1, <2>2, SMT DEF BootInv
  <2>5. BootInv' BY <1>2, <2>1, <2>3, <2>4 DEF BootInv
  <2> QED BY <1>2, <2>5, SMT DEF EventsInv, FailInv
<1> QED BY <1>1, <1>2

\* The other steps of app_main.
LEMMA AppMainIInv ==
  ASSUME BootIInv, AppMain
  PROVE  BootIInv'
<1> USE DEF BootIInv, MAXIMUM_RETRY
<1>1. CASE StartWifi BY <1>1, Tuples, SMT DEF StartWifi, Post, EventsInv, FailInv, BootInv
<1>2. CASE WaitBits
  BY <1>2, SMT DEF WaitBits, MainTask, Result, EventsInv, FailInv, BootInv
<1>3. CASE InitDevices
  <2>1. PICK d \in DeviceNames : InitDevice(d)
    BY <1>3, SMT
    DEF InitDevices, InitSensor, InitBuzzer, InitGps, InitUdpSocket, InitHttpClient, DeviceNames
  <2> HIDE DEF BootIInv
  <2> QED BY <2>1, InitDeviceIInv
<1>4. CASE CreateController
  <2>1. initialized = Devices
    <3>1. Len(initialized) = Len(Devices) BY <1>4 DEF CreateController
    <3>2. Devices \in Seq(DeviceNames) BY SMT DEF Devices, DeviceNames
    <3> QED BY <3>1, <3>2, SeqEqual DEF BootInv
  <2> QED BY <1>4, <2>1, SMT DEF CreateController, MainTask, EventsInv, FailInv, BootInv
<1>5. CASE Restart
  <2>1. initialized' \in Seq(DeviceNames) /\ Len(initialized') = 0 BY <1>5, EmptySeq DEF Restart
  <2>2. Len(Devices) \in Nat BY SMT DEF Devices
  <2> QED BY <1>5, <2>1, <2>2, SMT DEF Restart, EventsInv, FailInv, BootInv
<1> QED BY <1>1, <1>2, <1>3, <1>4, <1>5 DEF AppMain

-----------------------------------------------------------------------------
(* The detector *)

LEMMA DetectorInitIInv == DetectorInit => DetectorIInv
<1> SUFFICES ASSUME DetectorInit PROVE DetectorIInv OBVIOUS
<1> USE DEF DetectorInit
<1>1. LoopIInv BY LoopInitIInv
<1>2. initialized \in Seq(DeviceNames) /\ Len(initialized) = 0 BY EmptySeq DEF BootInit
<1>3. Len(Devices) \in Nat BY SMT DEF Devices
<1>4. BootIInv
  BY <1>2, <1>3, SMT DEF BootInit, BootIInv, MAXIMUM_RETRY, EventsInv, FailInv, BootInv
<1> QED BY <1>1, <1>4 DEF LoopInit, DetectorIInv

\* The loop leaves the boot alone, and a running detector does not boot again.
LEMMA DetectorNextIInv == DetectorIInv /\ [DetectorNext]_vars => DetectorIInv'
<1> SUFFICES ASSUME DetectorIInv, [DetectorNext]_vars PROVE DetectorIInv' OBVIOUS
<1> USE DEF DetectorIInv
<1>1. CASE Boot
  <2>1. LoopIInv' BY <1>1, LoopNextIInv DEF Boot
  <2>2. BootIInv'
    BY <1>1, DriverIInv, HandlerIInv, AppMainIInv DEF Boot, BootNext
  <2>3. boot = "running" => boot' = "running"
    <3>1. CASE Attempt \/ Disconnect("up")
      BY <3>1 DEF Attempt, Associate, GetAddress, Disconnect, Drive
    <3>2. CASE HandleEvent BY <3>2, HandlerIInv
    <3>3. CASE AppMain
      BY <3>3
      DEF AppMain, StartWifi, WaitBits, InitDevices, InitSensor, InitBuzzer, InitGps,
          InitUdpSocket, InitHttpClient, InitDevice, CreateController, MainTask, Restart
    <3> QED BY <1>1, <3>1, <3>2, <3>3 DEF Boot, BootNext
  <2>4. loop' = loop BY <1>1 DEF Boot, loopVars
  <2> QED BY <2>1, <2>2, <2>3, <2>4
<1>2. CASE UNCHANGED bootVars /\ LoopNext /\ (loop = "none" => boot = "running")
  <2>1. LoopIInv' BY <1>2, LoopNextIInv
  <2>2. BootIInv' BY <1>2 DEF bootVars, BootIInv, EventsInv, FailInv, BootInv
  <2> QED BY <1>2, <2>1, <2>2 DEF bootVars
<1>3. CASE StartController
  BY <1>2, <1>3 DEF StartController, LoopNext
<1>4. CASE Loop
  <2>1. loop # "none"
    BY <1>4 DEF Loop, Turn, TurnTouched, TurnUntouched, GetData, AlertEnds, Wake
  <2> QED BY <1>2, <1>4, <2>1 DEF Loop, Turn, LoopNext
<1>5. CASE Pass
  <2>1. loop # "none" BY <1>5 DEF Pass, Second, Blocked
  <2> QED BY <1>2, <1>5, <2>1 DEF Pass, LoopNext
<1>6. CASE UNCHANGED vars
  <2>1. LoopIInv' BY <1>6, LoopNextIInv DEF vars
  <2>2. BootIInv' BY <1>6 DEF vars, bootVars, BootIInv, EventsInv, FailInv, BootInv
  <2> QED BY <1>6, <2>1, <2>2 DEF vars, bootVars, loopVars
<1> QED BY <1>1, <1>3, <1>4, <1>5, <1>6 DEF DetectorNext

THEOREM DetectorInvariant == DetectorSpec => []DetectorIInv
<1>1. DetectorInit => DetectorIInv BY DetectorInitIInv
<1>2. DetectorIInv /\ [DetectorNext]_vars => DetectorIInv' BY DetectorNextIInv
<1> QED BY <1>1, <1>2, PTL DEF DetectorSpec

\* The fix that a turn reports is never older than the lag and the reads in the
\* buffer explain (GpsNeo::get_data, vTaskDelayUntil).
THEOREM FixAgeAlwaysBounded == DetectorSpec => []FixAgeBounded
<1>1. DetectorIInv => FixAgeBounded BY DEF DetectorIInv, LoopIInv
<1> QED BY <1>1, DetectorInvariant, PTL

\* A loop always has the devices of its boot (app_main).
THEOREM LoopAlwaysHasDevices == DetectorSpec => []LoopNeedsDevices
<1>1. DetectorIInv => LoopNeedsDevices
  BY DEF DetectorIInv, BootIInv, BootInv, LoopNeedsDevices
<1> QED BY <1>1, DetectorInvariant, PTL

\* The handler never gives up before the sixth disconnection in a row
\* (WifiManager::Impl::event_handler).
THEOREM AlwaysGivesUpAfterSix == DetectorSpec => []GivesUpAfterSix
<1>1. DetectorIInv => GivesUpAfterSix
  <2> SUFFICES ASSUME BootIInv, "FAIL" \in bits PROVE losses > MAXIMUM_RETRY
    BY DEF DetectorIInv, GivesUpAfterSix
  <2>1. link = "idle" /\ events = <<>> BY DEF BootIInv, FailInv
  <2> QED BY <2>1, Tuples DEF BootIInv, EventsInv
<1> QED BY <1>1, DetectorInvariant, PTL

\* A link that is down is always being retried until the handler gives up
\* (WifiManager::Impl::event_handler).
THEOREM AlwaysRetriesUntilFail == DetectorSpec => []RetriesUntilFail
<1>1. DetectorIInv => RetriesUntilFail
  <2> SUFFICES ASSUME EventsInv, link = "idle", "FAIL" \notin bits
               PROVE  events # <<>> /\ events[Len(events)] # "GOT_IP"
    BY DEF DetectorIInv, BootIInv, RetriesUntilFail
  <2>1. CASE events = <<"START">> BY <2>1, SMT
  <2>2. CASE events = <<"DISCONNECTED">> BY <2>2, SMT
  <2>3. CASE events = <<"GOT_IP", "DISCONNECTED">> BY <2>3, SMT
  <2> QED BY <2>1, <2>2, <2>3, Zenon DEF EventsInv
<1> QED BY <1>1, DetectorInvariant, PTL

-----------------------------------------------------------------------------
(* The decoder *)

\* What the decoder leaves as constructed until it takes a sentence.
Blank(pos) ==
  /\ DOMAIN pos = DOMAIN NoData
  /\ pos.fix_valid = FALSE /\ pos.latitude_int = Uint32(0) /\ pos.longitude_int = Uint32(0)

\* Until a sentence is taken outPos is blank, whatever was turned down; and the
\* sentence that is taken ends the parsing.
DecoderIInv ==
  /\ ~parsed => Blank(outPos)
  /\ parsed => /\ stage = "done"
               /\ outPos.fix_valid = TRUE
               /\ outPos.gp_type \in {"GPGGA", "GPRMC", "GPGLL"}
               /\ outPos.latitude_int  = Coordinate(Source.lat, Uint32(0))
               /\ outPos.longitude_int = Coordinate(Source.lon, Uint32(0))

LEMMA NoDataBlank == Blank(NoData)
BY DEF Blank, NoData

LEMMA Fields ==
  DOMAIN NoData = {"gp_type", "fix_valid", "latitude_int", "longitude_int", "hdop",
                   "satellite_count"}
BY DEF NoData

\* A dilution, a satellite count and a lost validity leave outPos blank.
LEMMA BlankStays ==
  ASSUME NEW pos, Blank(pos), NEW k
  PROVE  /\ Blank([pos EXCEPT !.hdop = k])
         /\ Blank([pos EXCEPT !.satellite_count = k])
         /\ Blank([pos EXCEPT !.fix_valid = FALSE])
         /\ Blank([pos EXCEPT !.fix_valid = FALSE, !.hdop = k])
<1>1. Blank([pos EXCEPT !.hdop = k]) BY Fields DEF Blank
<1>2. Blank([pos EXCEPT !.satellite_count = k]) BY Fields DEF Blank
<1>3. Blank([pos EXCEPT !.fix_valid = FALSE]) BY Fields DEF Blank
<1>4. Blank([pos EXCEPT !.fix_valid = FALSE, !.hdop = k]) BY Fields DEF Blank
<1> QED BY <1>1, <1>2, <1>3, <1>4

\* What a sentence writes over a blank outPos.
LEMMA Written ==
  ASSUME NEW pos, Blank(pos), NEW s, NEW type
  PROVE  LET new == [At(pos, s) EXCEPT !.gp_type = type, !.fix_valid = TRUE] IN
         /\ new.fix_valid = TRUE /\ new.gp_type = type
         /\ new.latitude_int  = Coordinate(s.lat, Uint32(0))
         /\ new.longitude_int = Coordinate(s.lon, Uint32(0))
<1> DEFINE at == At(pos, s)
           new == [at EXCEPT !.gp_type = type, !.fix_valid = TRUE]
<1>1. /\ DOMAIN at = DOMAIN NoData
      /\ at.latitude_int = Coordinate(s.lat, Uint32(0)) /\ at.longitude_int = Coordinate(s.lon, Uint32(0))
  BY Fields DEF At, Blank
<1> HIDE DEF at
<1>2. /\ new.fix_valid = TRUE /\ new.gp_type = type
      /\ new.latitude_int = at.latitude_int /\ new.longitude_int = at.longitude_int
  BY <1>1, Fields
<1> QED BY <1>1, <1>2 DEF at

LEMMA DecoderInitIInv == DecoderInit => DecoderIInv
BY NoDataBlank DEF DecoderInit, DecoderIInv

LEMMA RejectIInv ==
  ASSUME ~parsed, NEW pos, Blank(pos), NEW next, Reject(pos, next)
  PROVE  DecoderIInv'
<1>1. outPos' = pos /\ ~parsed' BY DEF Reject
<1>2. Blank(outPos)' BY <1>1 DEF Blank, NoData
<1> QED BY <1>1, <1>2 DEF DecoderIInv

LEMMA AcceptIInv ==
  ASSUME NEW type \in {"GPGGA", "GPRMC", "GPGLL"}, NEW pos, Blank(pos), NEW s,
         Accept(pos, s, type),
         type = "GPGGA" => s = slice.gga,
         type = "GPRMC" => s = slice.rmc,
         type = "GPGLL" => s = slice.gll
  PROVE  DecoderIInv'
<1>1. /\ outPos' = [At(pos, s) EXCEPT !.gp_type = type, !.fix_valid = TRUE]
      /\ stage' = "done" /\ parsed' = TRUE /\ slice' = slice
  BY DEF Accept
<1>2. /\ outPos'.fix_valid = TRUE /\ outPos'.gp_type = type
      /\ outPos'.latitude_int  = Coordinate(s.lat, Uint32(0))
      /\ outPos'.longitude_int = Coordinate(s.lon, Uint32(0))
  BY <1>1, Written
<1>3. Source' = s BY <1>1, <1>2 DEF Source
<1>4. /\ outPos'.latitude_int  = Coordinate(Source'.lat, Uint32(0))
      /\ outPos'.longitude_int = Coordinate(Source'.lon, Uint32(0))
  BY <1>2, <1>3
<1>5. /\ (outPos.latitude_int  = Coordinate(Source.lat, Uint32(0)))'
      /\ (outPos.longitude_int = Coordinate(Source.lon, Uint32(0)))'
  BY <1>4 DEF Coordinate, Degrees, Uint32
<1> QED BY <1>1, <1>2, <1>5 DEF DecoderIInv

\* Every parser keeps the invariant.
LEMMA ParseIInv == DecoderIInv /\ DecoderNext => DecoderIInv'
<1> SUFFICES ASSUME DecoderIInv, DecoderNext PROVE DecoderIInv' OBVIOUS
<1>1. stage # "done" BY DEF DecoderNext, ParseGga, ParseRmc, ParseGll
<1>2. ~parsed /\ Blank(outPos) BY <1>1 DEF DecoderIInv
<1>3. CASE ParseGga
  <2> DEFINE s == slice.gga
             measured == [outPos EXCEPT !.hdop = Hdop(s)]
             sats == [measured EXCEPT !.satellite_count = Sats(s)]
  <2>1. \/ Reject(outPos, "rmc")
        \/ Reject([outPos EXCEPT !.fix_valid = FALSE], "rmc")
        \/ Reject(TurnDown(outPos, s), "rmc")
        \/ Accept(sats, s, "GPGGA")
    BY <1>3 DEF ParseGga
  <2>2. /\ Blank([outPos EXCEPT !.fix_valid = FALSE])
        /\ Blank(TurnDown(outPos, s)) /\ Blank(measured)
    BY <1>2, BlankStays DEF TurnDown
  <2> HIDE DEF measured
  <2>3. Blank(sats) BY <2>2, BlankStays
  <2> HIDE DEF sats
  <2>4. CASE Accept(sats, s, "GPGGA") BY <2>3, <2>4, AcceptIInv
  <2> QED BY <1>2, <2>1, <2>2, <2>4, RejectIInv
<1>4. ASSUME NEW s, NEW readable, NEW status, NEW type \in {"GPRMC", "GPGLL"}, NEW next,
             ParseStatus(s, readable, status, type, next),
             type = "GPRMC" => s = slice.rmc,
             type = "GPGLL" => s = slice.gll
      PROVE  DecoderIInv'
  <2>1. \/ Reject(outPos, next)
        \/ Reject([outPos EXCEPT !.fix_valid = FALSE], next)
        \/ Accept(outPos, s, type)
    BY <1>4 DEF ParseStatus
  <2>2. Blank([outPos EXCEPT !.fix_valid = FALSE]) BY <1>2, BlankStays
  <2>3. CASE Accept(outPos, s, type)
    <3>1. type \in {"GPGGA", "GPRMC", "GPGLL"} /\ type # "GPGGA" BY <1>4
    <3> QED BY <1>2, <1>4, <2>3, <3>1, AcceptIInv
  <2> QED BY <1>2, <2>1, <2>2, <2>3, RejectIInv
<1>5. CASE ParseRmc
  <2>1. ParseStatus(slice.rmc, Readable(slice.rmc, 7), slice.rmc.status, "GPRMC", "gll")
    BY <1>5 DEF ParseRmc
  <2> QED BY <1>4, <2>1
<1>6. CASE ParseGll
  <2>1. PICK status : ParseStatus(slice.gll, Readable(slice.gll, 6), status, "GPGLL", "done")
    BY <1>6 DEF ParseGll
  <2> QED BY <1>4, <2>1
<1> QED BY <1>3, <1>5, <1>6 DEF DecoderNext

THEOREM DecoderInvariant == DecoderSpec => []DecoderIInv
<1>1. DecoderIInv /\ UNCHANGED decoderVars => DecoderIInv'
  BY DEF DecoderIInv, decoderVars, Source, Coordinate, Degrees, Uint32, Blank, NoData
<1> QED BY <1>1, DecoderInitIInv, ParseIInv, PTL DEF DecoderSpec

\* GgaDecoder::parse returns true exactly if it leaves a valid fix, for every
\* content of the buffer and every value of the uninitialized status.
THEOREM AlwaysValidIffParsed == DecoderSpec => []ValidIffParsed
<1>1. DecoderIInv => ValidIffParsed BY DEF DecoderIInv, ValidIffParsed, Blank
<1> QED BY <1>1, DecoderInvariant, PTL

\* The position that get_data returns is of one sentence, whatever the sentences
\* before it in the buffer said.
THEOREM PositionAlwaysOfOneSentence == DecoderSpec => []PositionOfOneSentence
<1>1. DecoderIInv => PositionOfOneSentence
  BY DEF DecoderIInv, PositionOfOneSentence, HasFix
<1> QED BY <1>1, DecoderInvariant, PTL

-----------------------------------------------------------------------------
(* The type of the decoder's output *)

\* What a receiver that follows NMEA 0183 sends: degrees up to the pole or the date
\* line, and minutes below sixty.  The decoder does not test it.
NmeaCoordinate(c, degrees) ==
  c = Empty \/ (c.raw \in 0 .. degrees * 100000 /\ c.raw % 100000 < 60000)

NmeaFormat ==
  /\ \A s \in GgaSentences \cup RmcSentences \cup GllSentences :
       NmeaCoordinate(s.lat, 90) /\ NmeaCoordinate(s.lon, 180)
  /\ \A s \in GgaSentences : s.sats \in Int

\* A count that passed its test, and the type of no sentence yet.
Untaken(pos) == pos.gp_type = "UNKNOWN" /\ pos.satellite_count \in 0 .. MaxSats

\* What is taken is a sentence of the slice.
OutputIInv ==
  /\ stage \in {"gga", "rmc", "gll", "done"} /\ parsed \in BOOLEAN
  /\ slice.gga \in GgaSentences \cup {Absent}
  /\ slice.rmc \in RmcSentences \cup {Absent}
  /\ slice.gll \in GllSentences \cup {Absent}
  /\ ~parsed => Untaken(outPos)
  /\ parsed => Source # Absent /\ outPos.satellite_count \in 0 .. MaxSats

LEMMA GlobeHasZero == \A degrees \in {90, 180} : 0 \in Globe(degrees)
BY SMT DEF Globe

\* A word that names a place once it is signed again.
OnGlobe(word, degrees) == word \in Uint32s /\ Int32(word) \in Globe(degrees)

\* A place survives the way through the unsigned field and back, south and west too.
LEMMA WordsRoundTrip ==
  ASSUME NEW degrees \in {90, 180}, NEW x \in Globe(degrees)
  PROVE  Int32(Uint32(x)) = x /\ OnGlobe(Uint32(x), degrees)
<1> DEFINE high == (x \div HalfWord) % HalfWord
           low  == x % HalfWord
<1>1. x \in Int /\ x < HalfWord * (HalfWord \div 2) /\ x >= -(HalfWord * (HalfWord \div 2))
  BY SMT DEF Globe, HalfWord
<1>2. high \in 0 .. HalfWord - 1 /\ low \in 0 .. HalfWord - 1
  <2>1. HalfWord \in Nat \ {0} BY SMT DEF HalfWord
  <2>2. \A y \in Int, k \in Nat \ {0} : y % k \in 0 .. k - 1 /\ y \div k \in Int
    BY SMT
  <2> QED BY <1>1, <2>1, <2>2
<1>3. x = (IF high < HalfWord \div 2 THEN high ELSE high - HalfWord) * HalfWord + low
  BY <1>1, SMT DEF HalfWord
<1>4. Uint32(x) = [high |-> high, low |-> low] BY DEF Uint32
<1> HIDE DEF high, low
<1>5. Uint32(x) \in Uint32s BY <1>2, <1>4 DEF Uint32s
<1>6. Int32(Uint32(x)) = x BY <1>3, <1>4 DEF Int32
<1> QED BY <1>5, <1>6 DEF OnGlobe

\* The sixtieths keep a coordinate in its range.
LEMMA DegreesInRange ==
  ASSUME NEW c, NEW degrees \in {90, 180}, NmeaCoordinate(c, degrees)
  PROVE  OnGlobe(Coordinate(c, Uint32(0)), degrees)
<1>1. ASSUME NEW raw \in 0 .. degrees * 100000, raw % 100000 < 60000, NEW e7,
             e7 = (raw \div 100000) * 10000000 + ((raw % 100000) * 500) \div 3
      PROVE  e7 \in Globe(degrees) /\ -e7 \in Globe(degrees)
  BY <1>1, SMT DEF Globe
<1>2. CASE c = Empty
  <2>1. 0 \in Globe(degrees) BY SMT DEF Globe
  <2> QED BY <1>2, <2>1, WordsRoundTrip DEF Coordinate
<1>3. CASE c # Empty
  <2> DEFINE raw == c.raw
             e7  == (raw \div 100000) * 10000000 + ((raw % 100000) * 500) \div 3
  <2>1. raw \in 0 .. degrees * 100000 /\ raw % 100000 < 60000
    BY <1>3, SMT DEF NmeaCoordinate
  <2>2. Degrees(c) = e7 \/ Degrees(c) = -e7 BY SMT DEF Degrees
  <2> HIDE DEF raw
  <2>3. e7 \in Globe(degrees) /\ -e7 \in Globe(degrees) BY <1>1, <2>1, SMT
  <2> HIDE DEF e7
  <2>4. Degrees(c) \in Globe(degrees) BY <2>2, <2>3
  <2> QED BY <1>3, <2>4, WordsRoundTrip DEF Coordinate
<1> QED BY <1>2, <1>3

\* What is written over a record keeps its count, and nothing but a sentence that
\* is taken names a type.
LEMMA UntakenStays ==
  ASSUME NEW pos, Blank(pos), Untaken(pos), NEW k
  PROVE  /\ Untaken([pos EXCEPT !.hdop = k])
         /\ Untaken([pos EXCEPT !.fix_valid = FALSE])
         /\ Untaken([pos EXCEPT !.fix_valid = FALSE, !.hdop = k])
         /\ k \in 0 .. MaxSats => Untaken([pos EXCEPT !.satellite_count = k])
<1>1. Untaken([pos EXCEPT !.hdop = k]) BY Fields DEF Blank, Untaken
<1>2. Untaken([pos EXCEPT !.fix_valid = FALSE]) BY Fields DEF Blank, Untaken
<1>3. Untaken([pos EXCEPT !.fix_valid = FALSE, !.hdop = k]) BY Fields DEF Blank, Untaken
<1>4. k \in 0 .. MaxSats => Untaken([pos EXCEPT !.satellite_count = k])
  BY Fields DEF Blank, Untaken
<1> QED BY <1>1, <1>2, <1>3, <1>4

LEMMA RejectOutput ==
  ASSUME OutputIInv, ~parsed, NEW pos, Untaken(pos),
         NEW next \in {"rmc", "gll", "done"}, Reject(pos, next)
  PROVE  OutputIInv'
<1>1. outPos' = pos /\ stage' = next /\ parsed' = parsed /\ slice' = slice
  BY DEF Reject
<1>2. Untaken(outPos)' BY <1>1 DEF Untaken
<1> QED BY <1>1, <1>2 DEF OutputIInv

LEMMA AcceptOutput ==
  ASSUME OutputIInv, NEW type \in {"GPGGA", "GPRMC", "GPGLL"},
         NEW pos, Blank(pos), Untaken(pos), NEW s, s # Absent, Accept(pos, s, type),
         type = "GPGGA" => s = slice.gga,
         type = "GPRMC" => s = slice.rmc,
         type = "GPGLL" => s = slice.gll
  PROVE  OutputIInv'
<1>1. /\ outPos' = [At(pos, s) EXCEPT !.gp_type = type, !.fix_valid = TRUE]
      /\ stage' = "done" /\ parsed' = TRUE /\ slice' = slice
  BY DEF Accept
<1>2. outPos'.gp_type = type BY <1>1, Written
<1>3. Source' = s BY <1>1, <1>2 DEF Source
<1>4. outPos'.satellite_count = pos.satellite_count BY <1>1, Fields DEF At, Blank
<1>5. outPos'.satellite_count \in 0 .. MaxSats BY <1>4 DEF Untaken
<1> QED BY <1>1, <1>3, <1>5 DEF OutputIInv

LEMMA ParseOutput ==
  ASSUME NmeaFormat, DecoderIInv, OutputIInv, DecoderNext
  PROVE  OutputIInv'
<1>1. stage # "done" BY DEF DecoderNext, ParseGga, ParseRmc, ParseGll
<1>2. ~parsed /\ Blank(outPos) /\ Untaken(outPos) BY <1>1 DEF DecoderIInv, OutputIInv
<1>3. CASE ParseGga
  <2> DEFINE s == slice.gga
             measured == [outPos EXCEPT !.hdop = Hdop(s)]
             sats == [measured EXCEPT !.satellite_count = Sats(s)]
  <2>1. \/ Reject(outPos, "rmc")
        \/ Reject([outPos EXCEPT !.fix_valid = FALSE], "rmc")
        \/ Reject(TurnDown(outPos, s), "rmc")
        \/ s # Absent /\ Sats(s) <= MaxSats /\ Accept(sats, s, "GPGGA")
    BY <1>3 DEF ParseGga, Readable
  <2>2. /\ Untaken([outPos EXCEPT !.fix_valid = FALSE])
        /\ Untaken(TurnDown(outPos, s))
        /\ Untaken(measured) /\ Blank(measured)
    BY <1>2, BlankStays, UntakenStays DEF TurnDown
  <2> HIDE DEF measured
  <2>3. CASE s # Absent /\ Sats(s) <= MaxSats /\ Accept(sats, s, "GPGGA")
    <3>1. s.sats \in Int BY <2>3 DEF NmeaFormat, OutputIInv
    <3>2. Sats(s) \in 0 .. MaxSats BY <2>3, <3>1, SMT DEF Sats, MaxSats
    <3>3. Blank(sats) /\ Untaken(sats) BY <2>2, <3>2, BlankStays, UntakenStays
    <3> HIDE DEF sats
    <3> QED BY <2>3, <3>3, AcceptOutput
  <2> QED BY <1>2, <2>1, <2>2, <2>3, RejectOutput
<1>4. ASSUME NEW s, NEW n, NEW status, NEW type \in {"GPRMC", "GPGLL"},
             NEW next \in {"gll", "done"},
             ParseStatus(s, Readable(s, n), status, type, next),
             type = "GPRMC" => s = slice.rmc,
             type = "GPGLL" => s = slice.gll
      PROVE  OutputIInv'
  <2>1. \/ Reject(outPos, next)
        \/ Reject([outPos EXCEPT !.fix_valid = FALSE], next)
        \/ s # Absent /\ Accept(outPos, s, type)
    BY <1>4 DEF ParseStatus, Readable
  <2>2. Untaken([outPos EXCEPT !.fix_valid = FALSE]) BY <1>2, UntakenStays
  <2>3. CASE s # Absent /\ Accept(outPos, s, type)
    <3>1. type \in {"GPGGA", "GPRMC", "GPGLL"} /\ type # "GPGGA" BY <1>4
    <3> QED BY <1>2, <1>4, <2>3, <3>1, AcceptOutput
  <2> QED BY <1>2, <1>4, <2>1, <2>2, <2>3, RejectOutput
<1>5. CASE ParseRmc
  <2>1. ParseStatus(slice.rmc, Readable(slice.rmc, 7), slice.rmc.status, "GPRMC", "gll")
    BY <1>5 DEF ParseRmc
  <2> QED BY <1>4, <2>1
<1>6. CASE ParseGll
  <2>1. PICK status : ParseStatus(slice.gll, Readable(slice.gll, 6), status, "GPGLL", "done")
    BY <1>6 DEF ParseGll
  <2> QED BY <1>4, <2>1
<1> QED BY <1>3, <1>5, <1>6 DEF DecoderNext

\* From a receiver that keeps to the format, what alert and telemetry make of the
\* unsigned fields is on the globe, in each hemisphere, and every count passed its
\* test, whichever sentence is taken (to_int32_point, HttpClient::sendMineAlert).
THEOREM OutputAlwaysTyped ==
  ASSUME NmeaFormat
  PROVE  DecoderSpec => []DecoderTypeOK
<1>1. DecoderInit => OutputIInv
  <2> SUFFICES ASSUME DecoderInit PROVE OutputIInv OBVIOUS
  <2>1. Untaken(NoData) BY SMT DEF Untaken, NoData, MaxSats
  <2> QED BY <2>1 DEF DecoderInit, OutputIInv
<1>2. DecoderIInv /\ OutputIInv /\ [DecoderNext]_decoderVars => OutputIInv'
  <2>1. ASSUME OutputIInv, UNCHANGED decoderVars PROVE OutputIInv'
    <3>1. /\ slice' = slice /\ stage' = stage /\ outPos' = outPos /\ parsed' = parsed
      BY <2>1 DEF decoderVars
    <3>2. Source' = Source BY <3>1 DEF Source
    <3> QED BY <2>1, <3>1, <3>2 DEF OutputIInv, Untaken
  <2> QED BY <2>1, ParseOutput
<1>3. DecoderIInv /\ OutputIInv => DecoderTypeOK
  <2> SUFFICES ASSUME DecoderIInv, OutputIInv PROVE DecoderTypeOK OBVIOUS
  <2>1. CASE ~parsed
    <3>1. OnGlobe(Uint32(0), 90) /\ OnGlobe(Uint32(0), 180)
      BY GlobeHasZero, WordsRoundTrip
    <3> QED BY <2>1, <3>1
            DEF DecoderIInv, OutputIInv, Untaken, Blank, DecoderTypeOK, OnGlobe
  <2>2. CASE parsed
    <3>1. Source \in {slice.gga, slice.rmc, slice.gll}
      BY <2>2 DEF DecoderIInv, Source
    <3>2. Source \in GgaSentences \cup RmcSentences \cup GllSentences
      BY <2>2, <3>1 DEF OutputIInv
    <3>3. NmeaCoordinate(Source.lat, 90) /\ NmeaCoordinate(Source.lon, 180)
      BY <3>2 DEF NmeaFormat
    <3>4. /\ OnGlobe(Coordinate(Source.lat, Uint32(0)), 90)
          /\ OnGlobe(Coordinate(Source.lon, Uint32(0)), 180)
      BY <3>3, DegreesInRange
    <3> HIDE DEF Source
    <3> QED BY <2>2, <3>4 DEF DecoderIInv, OutputIInv, DecoderTypeOK, OnGlobe
  <2> QED BY <2>1, <2>2 DEF OutputIInv
<1> QED BY <1>1, <1>2, <1>3, DecoderInvariant, PTL DEF DecoderSpec
=============================================================================
