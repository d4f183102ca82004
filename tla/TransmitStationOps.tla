-------------------------- MODULE TransmitStationOps --------------------------
(***************************************************************************)
(* TransmitController and the facade of DirectTransmitEngine, on the main  *)
(* thread, over the guard and the transmit worker: the composition that    *)
(* decides whether the radio is keyed.                                     *)
(*                                                                         *)
(* A controller slot runs to its end on the main thread and blocks it in   *)
(* every facade call, so a slot is one function here.  Inside, the cached  *)
(* state that a facade call updates emits changed(), and changed() runs    *)
(* handleHardwareChanged() before the call returns to the slot.            *)
(***************************************************************************)
EXTENDS TransmitLimits, Sequences

CONSTANTS
  Calls, NoCall, RawCalls, NormalizeCall,
  Messages, NoMessage, RawMessages, NormalizeMessage,
  KeyDeadline, TuneDeadline,
  EngineConfig,   \* the engine configuration of a usable keying setting
  Speeds,         \* words per minute
  Encode,         \* CwTransmitEncoder::encode, a plan or NoPlan
  RadioIds        \* a TX frequency, mode and split state

Engine == INSTANCE DirectTransmitEngineOps
Guard == INSTANCE TransmitGuardOps WITH MaxTime <- MaxU64
NoPlan == Engine!Scheduler!NoPlan

ASSUME StationAssumption ==
  /\ EngineConfig \in Engine!EngineConfigs
  /\ Engine!ValidEngineConfig(EngineConfig)
  /\ Encode \in [Messages \X Speeds -> Engine!Scheduler!Plans]
  /\ NoCall \notin Calls /\ NoMessage \notin Messages
  /\ NormalizeCall \in [RawCalls -> Calls \cup {NoCall}]
  /\ NormalizeMessage \in [RawMessages -> Messages \cup {NoMessage}]
  /\ KeyDeadline \in Nat /\ TuneDeadline \in Nat

Radios == [ready : BOOLEAN, id : RadioIds]

(***************************************************************************)
(* guard, plan, wpm, wasBusy, watchdog (hardware_watchdog_ is running),    *)
(* enabled, radio and armedRadio are the controller's; cache and queue the *)
(* facade's; engine is the worker.                                         *)
(*                                                                         *)
(* queue holds the snapshots that the worker has posted and the main       *)
(* thread has not received.  Revisions only rise along the queue, so what  *)
(* the test revision <= cached_revision_ tells apart is whether a facade   *)
(* call has returned since the snapshot was posted: then it is not fresh.  *)
(***************************************************************************)
Snapshots ==
  [available : BOOLEAN, openSafe : BOOLEAN, busy : BOOLEAN, ptt : BOOLEAN,
   key : BOOLEAN, fault : BOOLEAN]
Stations ==
  [guard : Guard!Guards, plan : Engine!Scheduler!Plans, wasBusy : BOOLEAN,
   watchdog : BOOLEAN, enabled : BOOLEAN, radio : Radios, armedRadio : RadioIds,
   engine : Engine!Engines, cache : Snapshots,
   queue : Seq([snapshot : Snapshots, fresh : BOOLEAN])]

NewStation(radio) ==
  [guard |-> Guard!NewGuard, plan |-> NoPlan, wasBusy |-> FALSE,
   watchdog |-> FALSE, enabled |-> FALSE, radio |-> radio, armedRadio |-> radio.id,
   engine |-> Engine!NewEngine(EngineConfig),
   cache |-> Engine!Snapshot(Engine!NewEngine(EngineConfig)), queue |-> <<>>]

Armed(s) == s.guard.state \notin {"Disarmed", "Fault"}
LinesUp(s) == s.cache.ptt \/ s.cache.key
OnAir(s) == s.cache.busy \/ LinesUp(s)
RadioStillConfirmed(s) == s.radio.ready /\ s.radio.id = s.armedRadio
StationReady(s) == s.enabled /\ s.cache.available /\ s.radio.ready
ReadyForOutput(s) ==
  StationReady(s) /\ RadioStillConfirmed(s) /\ s.cache.openSafe /\ ~s.cache.busy

-----------------------------------------------------------------------------
(* The facade's cached copy, and the handler that its signal runs.         *)

(* Defect: the revision of a snapshot is not compared. *)
OvertakenUnmarked(queue) == queue

Overtaken(queue) == [i \in 1..Len(queue) |-> [queue[i] EXCEPT !.fresh = FALSE]]
Answer(s, engine) ==
  [s EXCEPT !.engine = engine, !.cache = Engine!Snapshot(engine),
            !.queue = Overtaken(@)]

(* A facade call made while the handler runs: it is not entered again. *)
QuietEmergency(s, now, device) ==
  Answer(s, Engine!EmergencyRelease(s.engine, now, device))
Trip(s) == [s EXCEPT !.watchdog = FALSE, !.guard = Guard!TripFault(@)]

(* The guarded output is over: the worker was seen busy, and is not. *)
FinishOutput(s) ==
  [s EXCEPT !.watchdog = FALSE,
            !.guard = IF @.state = "Transmitting" THEN Guard!FinishTransmission(@)
                                                  ELSE Guard!FinishTune(@)]

(* Defect: an output that the worker has ended stays guarded. *)
WatchOutputWithoutEnd(s, now) ==
  LET seen == [s EXCEPT !.guard = Guard!ObserveKeyState(@, s.cache.key, now)]
  IN IF Guard!KeyStateAccepted(s.guard, s.cache.key, now) THEN seen
                                                          ELSE [seen EXCEPT !.watchdog = FALSE]

WatchOutput(s, now) ==
  LET seen == [s EXCEPT !.guard = Guard!ObserveKeyState(@, s.cache.key, now)]
      accepted == Guard!KeyStateAccepted(s.guard, s.cache.key, now)
  IN CASE ~accepted -> [seen EXCEPT !.watchdog = FALSE]
       [] accepted /\ s.wasBusy /\ ~s.cache.busy -> FinishOutput(seen)
       [] OTHER -> seen

(* The lines are up without a guarded output, or KEY has been down longer  *)
(* than the guard allows.                                                  *)
MustRelease(s, now) ==
  IF s.guard.state \in Guard!OutputStates
    THEN ~Guard!KeyStateAccepted(s.guard, s.cache.key, now)
    ELSE LinesUp(s)

HandleHardwareChanged(s, now, device) ==
  LET guarded == s.guard.state \in Guard!OutputStates
      faulted == s.cache.fault /\ (Armed(s) \/ LinesUp(s))
      judged ==
        CASE faulted \/ (LinesUp(s) /\ ~guarded) -> Trip(s)
          [] ~faulted /\ guarded -> WatchOutput(s, now)
          [] OTHER -> s
      handled ==
        IF ~faulted /\ MustRelease(s, now) THEN QuietEmergency(judged, now, device) ELSE judged
  IN [handled EXCEPT !.wasBusy = handled.cache.busy]

(* A blocking facade call: the worker's answer is cached, and the signal   *)
(* of it handled (the status text and the elapsed time that the cached     *)
(* state also holds make nearly every answer a change).                    *)
Facade(s, engine, now, device) == HandleHardwareChanged(Answer(s, engine), now, device)
Emergency(s, now, device) ==
  Facade(s, Engine!EmergencyRelease(s.engine, now, device), now, device)
CloseHardware(s, now, device) ==
  Facade(s, Engine!CloseInternal(s.engine, now, device), now, device)
ConfigureEngine(s, now, device) ==
  Facade(s, IF s.enabled THEN Engine!Configure(s.engine, EngineConfig, now, device)
                         ELSE Engine!CloseInternal(s.engine, now, device), now, device)

(* A snapshot that was posted by the worker's timer reaches the main       *)
(* thread.                                                                 *)
UpdateCachedState(s, now, device) ==
  LET head == Head(s.queue)
      rest == [s EXCEPT !.queue = Tail(@)]
  IN IF head.fresh
       THEN HandleHardwareChanged([rest EXCEPT !.cache = head.snapshot], now, device)
       ELSE rest

TimerFired(s, now, device) ==
  LET engine == Engine!HandleTimer(s.engine, now, device)
  IN [s EXCEPT !.engine = engine,
               !.queue = Append(@, [snapshot |-> Engine!Snapshot(engine), fresh |-> TRUE])]

-----------------------------------------------------------------------------
(* Settings and radio.                                                     *)

ConfigureHardware(s, enabled, now, device) ==
  LET active == Armed(s) \/ OnAir(s)
      stopped == IF active
                   THEN Trip(Emergency([s EXCEPT !.watchdog = FALSE], now, device))
                   ELSE [s EXCEPT !.guard = Guard!Disarm(@)]
  IN [ConfigureEngine([stopped EXCEPT !.enabled = enabled], now, device)
        EXCEPT !.wasBusy = FALSE]

(* Defect: only an output on the air is stopped by a change of the radio. *)
ConfigureRadioSafetyOnAirOnly(s, radio, now, device) ==
  LET known == [s EXCEPT !.radio = radio]
  IN IF Armed(s) /\ ~RadioStillConfirmed(known) /\ OnAir(s)
       THEN [Trip(Emergency([known EXCEPT !.watchdog = FALSE], now, device))
               EXCEPT !.wasBusy = FALSE]
       ELSE known

ConfigureRadioSafety(s, radio, now, device) ==
  LET known == [s EXCEPT !.radio = radio]
      unwatched == [known EXCEPT !.watchdog = FALSE]
      stopped ==
        IF OnAir(s)
          THEN Trip(Emergency(unwatched, now, device))
          ELSE [CloseHardware(unwatched, now, device) EXCEPT !.guard = Guard!Disarm(@)]
  IN IF Armed(s) /\ radio # s.radio /\ ~RadioStillConfirmed(known)
       THEN [stopped EXCEPT !.wasBusy = FALSE]
       ELSE known

-----------------------------------------------------------------------------
(* The operator.                                                           *)

(* What follows openSafe(), which answered opened. *)
ArmOpened(s, opened, now, device) ==
  CASE ~opened -> s
    [] opened /\ Guard!CanArm(s.guard) ->
         [s EXCEPT !.guard = Guard!Arm(@), !.armedRadio = s.radio.id]
    [] opened /\ ~Guard!CanArm(s.guard) -> CloseHardware(s, now, device)

Arm(s, opens, levels, now, device) ==
  LET engine == Engine!OpenSafe(s.engine, opens, levels, now, device)
  IN IF StationReady(s)
       THEN ArmOpened(Facade(s, engine, now, device), Engine!OpenSafeSucceeds(engine),
                      now, device)
       ELSE s

Disarm(s, now, device) ==
  [CloseHardware([s EXCEPT !.watchdog = FALSE], now, device)
     EXCEPT !.guard = Guard!Disarm(@), !.plan = NoPlan]

(* The controller's CallsignPolicy has no ignored calls. *)
SelectTarget(s, raw) ==
  LET free == [s EXCEPT !.guard = Guard!EndQso(@)]
  IN CASE ~Armed(s) -> s
       [] Armed(s) /\ ~Guard!CanRequestQso(free.guard, raw, {}) -> free
       [] Armed(s) /\ Guard!CanRequestQso(free.guard, raw, {}) ->
            [free EXCEPT !.guard = Guard!RequestQso(@, raw, {}), !.plan = NoPlan]
ConfirmTarget(s, raw) == [s EXCEPT !.guard = Guard!Confirm(@, raw, {})]

EncodeAt(message, wpm) == IF message = NoMessage THEN NoPlan ELSE Encode[message, wpm]

Prepare(s, raw, wpm) ==
  LET staged == [s EXCEPT !.guard = Guard!StageMessage(@, raw)]
  IN IF Guard!CanStageMessage(s.guard, raw)
       THEN [staged EXCEPT !.plan = EncodeAt(staged.guard.message, wpm)] ELSE s
(* A staged message is encoded again at the new speed, whether or not it   *)
(* was confirmed already; the worker keeps the plan it was started with.   *)
SetWordsPerMinute(s, wpm) ==
  IF s.guard.message = NoMessage THEN s
                                 ELSE [s EXCEPT !.plan = EncodeAt(s.guard.message, wpm)]
ConfirmPreview(s, raw) == [s EXCEPT !.guard = Guard!ConfirmMessage(@, raw)]

CanTransmit(s) ==
  /\ s.guard.messageConfirmed
  /\ s.plan # NoPlan
  /\ ReadyForOutput(s)
  /\ Guard!CanBeginTransmission(s.guard, {})

(* A facade call that did not do what it was asked for.                    *)
FailedOutput(s, now, device) ==
  [Emergency(s, now, device) EXCEPT !.guard = Guard!TripFault(@)]

OutputBegun(s, begun, now, device) ==
  IF begun THEN [s EXCEPT !.watchdog = TRUE] ELSE FailedOutput(s, now, device)
OutputEnded(s, ended, now, device) ==
  IF ended THEN FinishOutput(s) ELSE FailedOutput(s, now, device)

TransmitPrepared(s, now, device) ==
  LET engine == Engine!Start(s.engine, s.plan, TRUE, now, device)
      granted == [s EXCEPT !.guard = Guard!BeginTransmission(@, {})]
  IN IF CanTransmit(s)
       THEN OutputBegun(Facade(granted, engine, now, device),
                        Engine!StartSucceeds(s.engine, engine), now, device)
       ELSE s

CancelTransmission(s, now, device) ==
  LET engine == Engine!Cancel(s.engine, now, device)
  IN IF s.guard.state = "Transmitting"
       THEN OutputEnded(Facade(s, engine, now, device),
                        Engine!CancelSucceeds(s.engine, engine), now, device)
       ELSE s

StopTune(s, now, device) ==
  LET engine == Engine!StopTune(s.engine, now, device)
  IN OutputEnded(Facade(s, engine, now, device),
                 Engine!StopTuneSucceeds(s.engine, engine), now, device)

StartTune(s, now, device) ==
  LET engine == Engine!StartTune(s.engine, TRUE, now, device)
      granted == [s EXCEPT !.guard = Guard!BeginTune(@)]
      can == Guard!CanBeginTune(s.guard)
  IN OutputBegun(IF can THEN Facade(granted, engine, now, device) ELSE s,
                 can /\ Engine!StartTuneSucceeds(s.engine, engine), now, device)

ToggleTune(s, now, device) ==
  CASE s.guard.state = "Tuning" -> StopTune(s, now, device)
    [] s.guard.state # "Tuning" /\ Armed(s) /\ ReadyForOutput(s) -> StartTune(s, now, device)
    [] OTHER -> s

EndQso(s) ==
  IF Guard!CanEndQso(s.guard) THEN [s EXCEPT !.guard = Guard!EndQso(@), !.plan = NoPlan]
                              ELSE s

EmergencyRelease(s, now, device) ==
  [Emergency([s EXCEPT !.watchdog = FALSE], now, device)
     EXCEPT !.guard = Guard!TripFault(@), !.plan = NoPlan]

ResetFault(s, now, device) ==
  IF Guard!CanResetFault(s.guard)
    THEN [ConfigureEngine([s EXCEPT !.guard = Guard!ResetFault(@)], now, device)
            EXCEPT !.wasBusy = FALSE, !.watchdog = FALSE]
    ELSE s
=============================================================================
