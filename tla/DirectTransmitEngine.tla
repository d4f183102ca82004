------------------------- MODULE DirectTransmitEngine -------------------------
(***************************************************************************)
(* One DirectTransmitWorker on its thread, the keyer: the calls the facade *)
(* makes, in any order, the timer's slot, errors the serial device reports *)
(* of its own accord, and the clock.  The timer may fire late, by          *)
(* EngineSlip ticks at most, which may be more than the scheduler's budget *)
(* for lateness.                                                           *)
(*                                                                         *)
(* What the clock reads while nothing is timed does not matter: it is put  *)
(* back to 0 then, and the call that starts an output reads any value of   *)
(* StartTimes, so that the end of the clock's range is reached too.        *)
(***************************************************************************)
EXTENDS TransmitLimits

Keyer == INSTANCE DirectTransmitEngineOps

CONSTANTS
  SomeEngineConfigs,  \* the configurations the owner may choose from
  EnginePlans,        \* the plans it may start
  EngineDevices,      \* what the serial device may refuse at any time
  StartTimes,         \* clock readings at which an output may begin
  EngineSlip          \* bound on the lateness of a timer

ASSUME EngineAssumption ==
  /\ SomeEngineConfigs \subseteq Keyer!EngineConfigs
  /\ EnginePlans \subseteq Keyer!Scheduler!Plans
  /\ EngineDevices \subseteq Keyer!Adapter!Devices
  /\ StartTimes \subseteq Keyer!Time
  /\ EngineSlip \in Nat

VARIABLES
  keyer,        \* the worker
  keyerDevice,  \* what the device refuses at present
  keyerClock,   \* the reading of the worker's clock
  keyedSince    \* history: when KEY was last raised
keyerVars == <<keyer, keyerDevice, keyerClock, keyedSince>>

KeyerInit ==
  /\ keyer \in {Keyer!NewEngine(c) : c \in SomeEngineConfigs}
  /\ keyerDevice \in EngineDevices
  /\ keyerClock = 0
  /\ keyedSince = 0

(* The worker becomes f in a call made at the reading at. *)
KeyerBecomes(f, at) ==
  /\ keyer' = f
  /\ keyerClock' = IF keyer'.timer = Keyer!Stopped THEN 0 ELSE at
  /\ keyedSince' = IF Keyer!Active(keyer'.port, "key")
                     THEN IF Keyer!Active(keyer.port, "key") THEN keyedSince ELSE at
                     ELSE 0
  /\ UNCHANGED keyerDevice

StartReadings == IF keyer.timer = Keyer!Stopped THEN StartTimes ELSE {keyerClock}

KeyerConfigure(c) ==
  KeyerBecomes(Keyer!Configure(keyer, c, keyerClock, keyerDevice), keyerClock)
KeyerOpenSafe ==
  \E opens \in BOOLEAN, levels \in Keyer!Adapter!Levels :
    KeyerBecomes(Keyer!OpenSafe(keyer, opens, levels, keyerClock, keyerDevice), keyerClock)
KeyerStart(plan, confirmed, at) ==
  KeyerBecomes(Keyer!Start(keyer, plan, confirmed, at, keyerDevice), at)
KeyerCancel == KeyerBecomes(Keyer!Cancel(keyer, keyerClock, keyerDevice), keyerClock)
KeyerStartTune(authorized, at) ==
  KeyerBecomes(Keyer!StartTune(keyer, authorized, at, keyerDevice), at)
KeyerStopTune == KeyerBecomes(Keyer!StopTune(keyer, keyerClock, keyerDevice), keyerClock)
KeyerEmergencyRelease ==
  KeyerBecomes(Keyer!EmergencyRelease(keyer, keyerClock, keyerDevice), keyerClock)
KeyerClose == KeyerBecomes(Keyer!CloseInternal(keyer, keyerClock, keyerDevice), keyerClock)

KeyerTimer ==
  /\ keyer.timer # Keyer!Stopped /\ keyer.timer <= keyerClock
  /\ KeyerBecomes(Keyer!HandleTimer(keyer, keyerClock, keyerDevice), keyerClock)
KeyerFails ==
  keyer.port.isOpen /\ KeyerBecomes(Keyer!BackendError(keyer, keyerDevice), keyerClock)

KeyerDeviceChanges ==
  keyerDevice' \in EngineDevices /\ UNCHANGED <<keyer, keyerClock, keyedSince>>
KeyerTick ==
  /\ keyer.timer # Keyer!Stopped
  /\ keyerClock < keyer.timer + EngineSlip /\ keyerClock < MaxU64
  /\ keyerClock' = keyerClock + 1
  /\ UNCHANGED <<keyer, keyerDevice, keyedSince>>

KeyerNext ==
  \/ \E c \in SomeEngineConfigs : KeyerConfigure(c)
  \/ KeyerOpenSafe
  \/ \E plan \in EnginePlans, confirmed \in BOOLEAN, at \in StartReadings :
       KeyerStart(plan, confirmed, at)
  \/ KeyerCancel
  \/ \E authorized \in BOOLEAN, at \in StartReadings : KeyerStartTune(authorized, at)
  \/ KeyerStopTune
  \/ KeyerEmergencyRelease
  \/ KeyerClose
  \/ KeyerTimer
  \/ KeyerFails
  \/ KeyerDeviceChanges
  \/ KeyerTick

KeyerSpec == KeyerInit /\ [][KeyerNext]_keyerVars

-----------------------------------------------------------------------------
KeyerTypeOK ==
  /\ keyer \in [configured : BOOLEAN, tune : Nat,
                sch : [config : Keyer!Scheduler!Configs,
                       plan : EnginePlans \cup {Keyer!Scheduler!NoPlan},
                       state : Keyer!Scheduler!States, phase : Keyer!Scheduler!Phases,
                       ptt : BOOLEAN, key : BOOLEAN, last : Keyer!Time, next : Keyer!Time,
                       span : Nat, pending : BOOLEAN],
                port : Keyer!Adapter!Ports, timer : Keyer!Time \cup {Keyer!Stopped},
                fault : BOOLEAN, tuning : BOOLEAN, tuneDeadline : Keyer!Time]
  /\ keyerDevice \in EngineDevices
  /\ keyerClock \in Keyer!Time
  /\ keyedSince \in Keyer!Time

(* A line that the worker has raised is always in the care of its timer:   *)
(* no path through cancel, TUNE, reopening, faults or a late slot leaves a *)
(* line up with nothing scheduled that looks at it again.                  *)
AssertedLinesAreTimed ==
  \A line \in Keyer!Adapter!Lines :
    Keyer!Active(keyer.port, line) => keyer.timer # Keyer!Stopped

(* Between calls no line is up that neither the schedule nor TUNE asks     *)
(* for.  (The converse fails in one case: OpenSafe during TUNE lowers the  *)
(* lines and leaves tuning set.)                                           *)
NoUnwantedLine ==
  /\ Keyer!Active(keyer.port, "ptt") => keyer.sch.ptt \/ keyer.tuning
  /\ Keyer!Active(keyer.port, "key") => keyer.sch.key \/ keyer.tuning

(* No write of the worker puts KEY outside PTT on the wire, in whatever    *)
(* order calls, faults and failed writes come, unless the device refuses   *)
(* to lower KEY ("Releases always remove KEY before PTT").                 *)
KeyNeverBare == ~keyer.port.bare

(* KEY is down no longer than the limit of what raised it, the watchdog's  *)
(* for TUNE and the longest element for a message, plus one timer's slip.  *)
KeyDownBounded ==
  Keyer!Active(keyer.port, "key") =>
    keyerClock - keyedSince
      <= (IF keyer.tuning THEN keyer.tune ELSE MaxKeyDown) + EngineSlip

(* However the operator, the timer and the device behave, KEY is as safe   *)
(* as the device lets it be, and the worker's books are true: what its     *)
(* port reports is on the wire, an idle worker has its scheduler's release *)
(* behind it, and an output is looked at by the moment it falls due.       *)
EngineInv ==
  /\ KeyerTypeOK
  /\ KeyNeverBare /\ KeyDownBounded
  /\ AssertedLinesAreTimed /\ NoUnwantedLine
  /\ Keyer!Adapter!PortConsistent(keyer.port)
  /\ Keyer!Adapter!ReportedMatchesWire(keyer.port)
  /\ keyer.sch.pending = FALSE
  /\ keyer.sch.ptt => Keyer!Running(keyer)
  /\ keyer.sch.key => keyer.sch.ptt
  /\ keyer.timer # Keyer!Stopped =>
       /\ Keyer!Busy(keyer)
       /\ \/ keyer.timer <= (IF keyer.tuning THEN keyer.tuneDeadline ELSE keyer.sch.next)
          \/ keyer.timer <= keyerClock

(* However an output ends, by the schedule, an operator's call, a fault or *)
(* the watchdog, a line stays up only if the device refuses to lower it.   *)
EndingStep ==
  Keyer!Busy(keyer) /\ keyer.port.isOpen /\ ~Keyer!Busy(keyer)' =>
    \A line \in Keyer!Adapter!Lines :
      keyer'.port.wire[line] => Keyer!Adapter!Fails(keyerDevice, line, FALSE)
EndsReleased == [][EndingStep]_keyerVars
=============================================================================
