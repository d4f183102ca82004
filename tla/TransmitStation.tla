---------------------------- MODULE TransmitStation ----------------------------
(***************************************************************************)
(* The station: an operator and the settings on the main thread, a radio   *)
(* provider that reports the transmit frequency, mode and split, the       *)
(* worker's timer on the transmit thread, the queue of snapshots between   *)
(* the two, and a serial device that may fail.  Slots of the main thread   *)
(* and slots of the worker interleave in every way the blocking calls      *)
(* leave open.                                                             *)
(***************************************************************************)
EXTENDS TransmitStationOps

CONSTANTS
  SomeRadios,    \* what the radio provider may report
  SomeDevices,   \* what the serial device may refuse at any time
  MaxSlip,       \* bound on the lateness of the worker's timer
  MaxQueue       \* bound on the snapshots not yet received

ASSUME InstanceAssumption ==
  /\ SomeRadios \subseteq Radios
  /\ SomeDevices \subseteq Engine!Adapter!Devices
  /\ MaxSlip \in Nat
  /\ MaxQueue \in Nat

VARIABLES
  s,        \* the controller, the facade and the worker
  device,   \* what the device refuses at present
  now       \* the monotonic clock both threads read
vars == <<s, device, now>>

Init ==
  /\ s \in {NewStation(radio) : radio \in SomeRadios}
  /\ device \in SomeDevices
  /\ now = 0

(* The clock is put back to 0 whenever nothing that is timed remains.      *)
Timed(t) == t.engine.timer # Engine!Stopped \/ t.guard.keyDown
Becomes(t) ==
  /\ s' = t
  /\ now' = IF Timed(s') THEN now ELSE 0
  /\ UNCHANGED device

-----------------------------------------------------------------------------
(* The main thread.  An operator without a callsign cannot arm, and losing *)
(* it disarms: both are among the steps below.                             *)
DoArm == \E opens \in BOOLEAN, levels \in Engine!Adapter!Levels :
           Becomes(Arm(s, opens, levels, now, device))
DoDisarm == Becomes(Disarm(s, now, device))
DoSelectTarget == \E raw \in RawCalls : Becomes(SelectTarget(s, raw))
DoConfirmTarget == \E raw \in RawCalls : Becomes(ConfirmTarget(s, raw))
DoPrepare == \E raw \in RawMessages, wpm \in Speeds : Becomes(Prepare(s, raw, wpm))
DoSetWordsPerMinute == \E wpm \in Speeds : Becomes(SetWordsPerMinute(s, wpm))
DoConfirmPreview == \E raw \in RawMessages : Becomes(ConfirmPreview(s, raw))
DoTransmitPrepared == Becomes(TransmitPrepared(s, now, device))
DoCancelTransmission == Becomes(CancelTransmission(s, now, device))
DoToggleTune == Becomes(ToggleTune(s, now, device))
DoEndQso == Becomes(EndQso(s))
DoEmergencyRelease == Becomes(EmergencyRelease(s, now, device))
DoResetFault == Becomes(ResetFault(s, now, device))
DoConfigureHardware ==
  \E enabled \in BOOLEAN : Becomes(ConfigureHardware(s, enabled, now, device))
DoConfigureRadioSafety ==
  \E radio \in SomeRadios : Becomes(ConfigureRadioSafety(s, radio, now, device))

ReceiveSnapshot == s.queue # <<>> /\ Becomes(UpdateCachedState(s, now, device))
HardwareWatchdog == s.watchdog /\ Becomes(HandleHardwareChanged(s, now, device))

(* The transmit thread, the device and the clock. *)
TimerDue ==
  /\ s.engine.timer # Engine!Stopped
  /\ s.engine.timer <= now
  /\ Len(s.queue) < MaxQueue
TimerFires == TimerDue /\ Becomes(TimerFired(s, now, device))
DeviceFails ==
  s.engine.port.isOpen /\ Becomes([s EXCEPT !.engine = Engine!BackendError(@, device)])
DeviceChanges == device' \in SomeDevices /\ UNCHANGED <<s, now>>
Tick ==
  /\ Timed(s)
  /\ s.engine.timer # Engine!Stopped => now < s.engine.timer + MaxSlip
  /\ now < MaxU64
  /\ now' = now + 1
  /\ UNCHANGED <<s, device>>

Next ==
  \/ DoArm
  \/ DoDisarm
  \/ DoSelectTarget
  \/ DoConfirmTarget
  \/ DoPrepare
  \/ DoSetWordsPerMinute
  \/ DoConfirmPreview
  \/ DoTransmitPrepared
  \/ DoCancelTransmission
  \/ DoToggleTune
  \/ DoEndQso
  \/ DoEmergencyRelease
  \/ DoResetFault
  \/ DoConfigureHardware
  \/ DoConfigureRadioSafety
  \/ ReceiveSnapshot
  \/ HardwareWatchdog
  \/ TimerFires
  \/ DeviceFails
  \/ DeviceChanges
  \/ Tick

Spec == Init /\ [][Next]_vars

(* Weak fairness: both event loops get to what is posted to them, and the  *)
(* clock runs.  For the two loops it is written out with their guards in   *)
(* the place of ENABLED (each step changes the queue, so the guard is when *)
(* it is enabled), which TLC evaluates a great deal faster.                *)
Fairness ==
  /\ []<>(s.queue = <<>>) \/ []<><<ReceiveSnapshot>>_vars
  /\ []<>~TimerDue \/ []<><<TimerFires>>_vars
  /\ WF_vars(Tick)
FairSpec == Spec /\ Fairness

-----------------------------------------------------------------------------
LineUp(line) == Engine!Active(s.engine.port, line)
(* The worker has an output to make, or holds a line up.  Busy says more   *)
(* in two cases that leave it set with the timer stopped and both lines    *)
(* down, until the adapter is opened or configured again: arm() during     *)
(* TUNE when the device then fails to reopen, and close() after a device   *)
(* error of which the worker's timer has not yet learned.                  *)
Sending ==
  s.engine.timer # Engine!Stopped \/ LineUp("ptt") \/ LineUp("key")
SendingMessage == Sending /\ Engine!Running(s.engine)
SendingTune == Sending /\ s.engine.tuning

TypeOK ==
  /\ s \in Stations
  /\ device \in SomeDevices
  /\ now \in 0..MaxU64

(* The plan that is prepared is always an encoding of the message that is  *)
(* staged, at one of the speeds, and no plan of an earlier message.        *)
PlanIsOfTheMessage ==
  s.guard.message # NoMessage =>
    \E wpm \in Speeds : s.plan = EncodeAt(s.guard.message, wpm)

(* A line is up only while the guard grants an output: no interleaving of  *)
(* a slot with the timer, a failure, a change of the settings or a late    *)
(* snapshot leaves the worker keying on a permission that has ended.       *)
OutputIsGuarded ==
  /\ SendingMessage => s.guard.state = "Transmitting"
  /\ SendingTune => s.guard.state = "Tuning"
  /\ Sending => SendingMessage \/ SendingTune

(* What is being sent is an encoding of the very message the operator      *)
(* confirmed, to a confirmed call, though the speed, the plan and the      *)
(* selection may have changed since.                                       *)
OnAirIsConfirmed ==
  SendingMessage =>
    /\ s.guard.messageConfirmed
    /\ s.guard.call # NoCall
    /\ \E wpm \in Speeds : s.engine.sch.plan = EncodeAt(s.guard.message, wpm)

(* While the station is armed the radio is in the state it was armed with, *)
(* and so is everything that goes on the air.                              *)
ArmedForThisRadio ==
  /\ Armed(s) => RadioStillConfirmed(s)
  /\ Sending => RadioStillConfirmed(s)

(* What goes on the air is granted, confirmed and meant for this radio.    *)
OutputIsAuthorized == OutputIsGuarded /\ OnAirIsConfirmed /\ ArmedForThisRadio

(* The controller's own watchdog runs whenever it grants an output that    *)
(* the worker may still be making.                                         *)
OutputIsWatched == Sending => s.watchdog

(* Once every snapshot in flight has been received or overtaken, the       *)
(* facade's copy of busy is the worker's, and a line is believed down only *)
(* when it is: a late snapshot never overwrites a later answer.            *)
CacheCatchesUp ==
  (\A i \in 1..Len(s.queue) : ~s.queue[i].fresh) =>
    /\ s.cache.busy = Engine!Busy(s.engine)
    /\ LineUp("ptt") => s.cache.ptt
    /\ LineUp("key") => s.cache.key

(* What the facade and the controller keep about the worker and the plan   *)
(* is true of them.                                                        *)
StationInv == TypeOK /\ PlanIsOfTheMessage /\ OutputIsWatched /\ CacheCatchesUp

(* A transmission or TUNE that was granted comes to an end, by the         *)
(* schedule, the deadline or a fault, without any act of the operator.     *)
OutputEnds == s.guard.state \in Guard!OutputStates ~> s.guard.state \notin Guard!OutputStates
=============================================================================
