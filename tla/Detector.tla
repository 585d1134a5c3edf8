------------------------------ MODULE Detector ------------------------------
(* The detector from power-on to its loop: app_main of DetectorBoot brings *)
(* up Wi-Fi and the devices, and the loop of DetectorLoop runs on them     *)
(* while the driver goes on posting events.                                *)
EXTENDS DetectorBoot, DetectorLoop

vars == <<bootVars, loopVars>>

DetectorInit == BootInit /\ LoopInit

\* uart_flush_input: the loop starts with an empty buffer.
Boot == BootNext /\ UNCHANGED loopVars

\* controller_task, once app_main has created it.
StartController ==
  /\ boot = "running"
  /\ StartLoop \/ StartLoopFails
  /\ UNCHANGED bootVars

Turn == TurnTouched \/ TurnUntouched \/ AlertEnds \/ Wake

Loop == Turn /\ UNCHANGED bootVars

Pass == \E n \in 0 .. rate : Second(n) /\ UNCHANGED bootVars

DetectorNext == Boot \/ StartController \/ Loop \/ Pass

\* The tasks run, an attempt to connect ends, and time passes.
DetectorSpec ==
  /\ DetectorInit /\ [][DetectorNext]_vars
  /\ WF_vars(Attempt /\ UNCHANGED loopVars)
  /\ WF_vars(HandleEvent /\ UNCHANGED loopVars)
  /\ WF_vars(AppMain /\ UNCHANGED loopVars)
  /\ WF_vars(StartController) /\ WF_vars(Loop) /\ WF_vars(Pass)

-----------------------------------------------------------------------------
(* Properties *)

\* The loop never polls a device that did not come up: whichever init fails,
\* and however often the detector restarts, a loop means that every device of
\* this boot has been initialized, in order.
LoopNeedsDevices == loop # "none" => initialized = Devices
=============================================================================
