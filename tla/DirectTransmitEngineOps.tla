------------------------ MODULE DirectTransmitEngineOps ------------------------
(***************************************************************************)
(* DirectTransmitWorker: the object on the transmit thread that owns the   *)
(* scheduler, the keying adapter and one single-shot timer, as functions   *)
(* from a worker value to a worker value.  Every call takes the reading of *)
(* the worker's monotonic clock and the behaviour of the serial device for *)
(* the time of the call.                                                   *)
(*                                                                         *)
(* A facade call (DirectTransmitEngine) blocks until the worker has made   *)
(* it; what the facade makes of the worker's answers is in                 *)
(* TransmitStation.tla.                                                    *)
(***************************************************************************)
EXTENDS TransmitLimits

Scheduler == INSTANCE CwTransmitSchedulerOps
Adapter == INSTANCE DirectKeyingAdapterOps

Time == Scheduler!Time
Stopped == -1

(* keying: whether the keying part is well-formed (validKeyingConfig).     *)
EngineConfigs == [keying : BOOLEAN, tune : Nat, scheduler : Scheduler!Configs]
ValidEngineConfig(c) == c.keying /\ c.tune \in 1..MaxTune

Engines ==
  [configured : BOOLEAN, tune : Nat, sch : Scheduler!Schedulers,
   port : Adapter!Ports, timer : Time \cup {Stopped}, fault : BOOLEAN,
   tuning : BOOLEAN, tuneDeadline : Time]

NewEngine(c) ==
  [configured |-> FALSE, tune |-> c.tune, sch |-> Scheduler!NewScheduler(c.scheduler),
   port |-> Adapter!NewPort, timer |-> Stopped, fault |-> FALSE,
   tuning |-> FALSE, tuneDeadline |-> 0]

Active(p, line) == p.known[line] = "Active"
Running(e) == e.sch.state = "Running"
Busy(e) == e.tuning \/ Running(e)
NotTuning(e) == [e EXCEPT !.timer = Stopped, !.tuning = FALSE, !.tuneDeadline = 0]

-----------------------------------------------------------------------------
ReleaseEngine(e, device) == [e EXCEPT !.port = Adapter!ReleaseAll(@, device)]
DrainPending(s, now) == IF s.pending THEN Scheduler!Advance(s, now) ELSE s

FaultEngine(e, now, device) ==
  [ReleaseEngine(NotTuning(e), device) EXCEPT
     !.sch = DrainPending(Scheduler!EmergencyRelease(@), now), !.fault = TRUE]

(***************************************************************************)
(* The writes of applyDesiredLines(), in its order.  A write that fails    *)
(* makes the port unusable, and the writes after it do nothing.  KEY is    *)
(* raised only under an active PTT, and PTT dropped only with KEY down.    *)
(***************************************************************************)
DriveLines(p, want, device) ==
  LET keyed(q) == IF want.ptt THEN Adapter!SetLine(q, "ptt", TRUE, device) ELSE q
      keyDue(q) == IF want.key THEN want.ptt /\ Active(q, "ptt") ELSE Active(q, "key")
      sent(q) == IF keyDue(q) THEN Adapter!SetLine(q, "key", want.key, device) ELSE q
      dropped(q) ==
        IF ~want.ptt /\ Active(q, "ptt") /\ ~Active(q, "key")
          THEN Adapter!SetLine(q, "ptt", FALSE, device) ELSE q
  IN dropped(sent(keyed(p)))

LinesApplied(e) ==
  /\ ~Adapter!FaultOrUnknown(e.port)
  /\ Active(e.port, "ptt") = e.sch.ptt
  /\ Active(e.port, "key") = e.sch.key

(* applyDesiredLines(): either the lines are the scheduler's, or the       *)
(* worker has faulted.                                                     *)
AppliedOrFault(e, now, device) ==
  IF LinesApplied(e) THEN e ELSE FaultEngine(e, now, device)
ApplyDesiredLines(e, now, device) ==
  AppliedOrFault(
    [e EXCEPT !.port = DriveLines(@, [ptt |-> e.sch.ptt, key |-> e.sch.key], device)],
    now, device)

Sooner(a, b) == IF a < b THEN a ELSE b

(* The timer is set for the next deadline, but no later than the next look *)
(* at the adapter's health.                                                *)
ScheduleTimer(e, now) ==
  LET deadline == IF e.tuning THEN e.tuneDeadline ELSE e.sch.next
      delay == IF deadline > now THEN Sooner(deadline - now, HealthPoll) ELSE 0
  IN IF Busy(e) THEN [e EXCEPT !.timer = Sooner(now + delay, MaxU64)]
                ELSE [e EXCEPT !.timer = Stopped]

(* The release of PTT that the scheduler still has pending. *)
ApplyPendingRelease(e, now, device) ==
  IF e.sch.pending
    THEN ApplyDesiredLines([e EXCEPT !.sch = Scheduler!Advance(@, now)], now, device)
    ELSE e
DrainSchedulerRelease(e, now, device) ==
  ApplyPendingRelease(
    IF Running(e)
      THEN ApplyDesiredLines([e EXCEPT !.sch = Scheduler!EmergencyRelease(@)], now, device)
      ELSE e,
    now, device)

CloseInternal(e, now, device) ==
  [IF e.port.openSafe THEN DrainSchedulerRelease(NotTuning(e), now, device) ELSE NotTuning(e)
     EXCEPT !.port = Adapter!Close(@, device), !.fault = FALSE]

-----------------------------------------------------------------------------
Configure(e, c, now, device) ==
  [CloseInternal(e, now, device) EXCEPT
     !.tune = c.tune, !.sch = Scheduler!NewScheduler(c.scheduler),
     !.configured = ValidEngineConfig(c), !.fault = ~ValidEngineConfig(c)]

FaultUnlessInactive(e) == [e EXCEPT !.fault = ~Adapter!KnownInactive(e.port)]

(* OpenSafe leaves tuning as it is: only the timer is stopped. *)
OpenSafe(e, opens, levels, now, device) ==
  IF e.configured
    THEN FaultUnlessInactive(
           [DrainSchedulerRelease([e EXCEPT !.timer = Stopped], now, device) EXCEPT
              !.port = Adapter!Open(Adapter!Close(@, device), opens, levels, device)])
    ELSE [e EXCEPT !.fault = TRUE]
OpenSafeSucceeds(e) == e.configured /\ ~e.fault

(***************************************************************************)
(* start(), after the test that the port is known inactive and the reset   *)
(* of a schedule that has ended.                                           *)
(***************************************************************************)
TimedIfRunning(e, now) == IF Running(e) THEN ScheduleTimer(e, now) ELSE e
KeyStarted(e, now, device) ==
  IF Running(e) THEN TimedIfRunning(ApplyDesiredLines(e, now, device), now)
                ELSE FaultEngine(e, now, device)
StartPlan(e, plan, now, device) ==
  IF e.fault THEN e
             ELSE KeyStarted([e EXCEPT !.sch = Scheduler!Start(@, plan, now)], now, device)

Start(e, plan, confirmed, now, device) ==
  CASE ~confirmed -> e
    [] confirmed /\ ~Adapter!KnownInactive(e.port) -> [e EXCEPT !.fault = TRUE]
    [] confirmed /\ Adapter!KnownInactive(e.port) ->
         IF e.sch.state # "Idle" /\ ~Scheduler!Resettable(e.sch)
           THEN FaultEngine(e, now, device)
           ELSE StartPlan([e EXCEPT !.sch = Scheduler!Reset(@)], plan, now, device)
StartSucceeds(before, after) ==
  Adapter!KnownInactive(before.port) /\ ~before.fault /\ Running(after)

ReleasedOrFault(e, now, device) ==
  IF Adapter!Released(e.port) THEN e ELSE FaultEngine(e, now, device)
StopTune(e, now, device) ==
  IF e.tuning THEN ReleasedOrFault(ReleaseEngine(NotTuning(e), device), now, device) ELSE e
StopTuneSucceeds(before, after) == before.tuning /\ Adapter!Released(after.port)

(* Defect: only the first of the scheduler's two releases is applied. *)
CancelKeyOnly(e, now, device) ==
  IF e.tuning THEN StopTune(e, now, device)
  ELSE IF ~Running(e) THEN e
  ELSE ApplyDesiredLines([e EXCEPT !.timer = Stopped, !.sch = Scheduler!Cancel(@)], now, device)

Cancel(e, now, device) ==
  CASE e.tuning -> StopTune(e, now, device)
    [] ~e.tuning /\ ~Running(e) -> e
    [] ~e.tuning /\ Running(e) ->
         ApplyPendingRelease(
           ApplyDesiredLines([e EXCEPT !.timer = Stopped, !.sch = Scheduler!Cancel(@)],
                             now, device),
           now, device)
CancelSucceeds(before, after) ==
  \/ StopTuneSucceeds(before, after)
  \/ ~before.tuning /\ Running(before) /\ LinesApplied(after)

(* TUNE raises PTT and then KEY, and sets the deadline after both are up.  *)
KeyUnderPtt(p, device) ==
  IF Adapter!LineIs(p, "ptt", TRUE) THEN Adapter!SetLine(p, "key", TRUE, device) ELSE p
TuneKeyed(e, now, device) ==
  IF Adapter!LineIs(e.port, "key", TRUE)
    THEN ScheduleTimer([e EXCEPT !.tuning = TRUE, !.tuneDeadline = now + e.tune], now)
    ELSE FaultEngine(e, now, device)
StartTune(e, authorized, now, device) ==
  CASE ~authorized \/ Busy(e) \/ ~Adapter!KnownInactive(e.port) -> e
    [] OTHER ->
         IF e.fault \/ now > MaxU64 - e.tune
           THEN FaultEngine(e, now, device)
           ELSE TuneKeyed(
                  [e EXCEPT !.port =
                     KeyUnderPtt(Adapter!SetLine(@, "ptt", TRUE, device), device)],
                  now, device)
StartTuneSucceeds(before, after) == ~Busy(before) /\ after.tuning

EmergencyRelease(e, now, device) ==
  LET keyOff == ApplyDesiredLines(
        [NotTuning(e) EXCEPT !.sch = Scheduler!EmergencyRelease(@)], now, device)
  IN [ReleaseEngine(
        ApplyDesiredLines([keyOff EXCEPT !.sch = Scheduler!Advance(@, now)], now, device),
        device) EXCEPT !.fault = TRUE]

-----------------------------------------------------------------------------
(* Defect: the deadline of TUNE is left to the operator. *)
TuneTickWithoutDeadline(e, now, device) ==
  IF ~Active(e.port, "ptt") \/ ~Active(e.port, "key")
    THEN FaultEngine(e, now, device)
    ELSE ScheduleTimer(e, now)

TuneTick(e, now, device) ==
  IF ~Active(e.port, "ptt") \/ ~Active(e.port, "key") \/ now >= e.tuneDeadline
    THEN FaultEngine(e, now, device)
    ELSE ScheduleTimer(e, now)

TimedIfApplied(e, now) == IF LinesApplied(e) THEN ScheduleTimer(e, now) ELSE e

(* What the worker does about the answer of advance().                     *)
Follow(e, result, now, device) ==
  CASE result = "Faulted" -> FaultEngine(e, now, device)
    [] result = "NoChange" -> ScheduleTimer(e, now)
    [] result = "Transition" -> TimedIfApplied(ApplyDesiredLines(e, now, device), now)
SchedulerTick(e, now, device) ==
  Follow([e EXCEPT !.sch = Scheduler!Advance(@, now)],
         Scheduler!AdvanceResult(e.sch, now), now, device)

TimerExpired(e, now, device) ==
  CASE Adapter!FaultOrUnknown(e.port) -> FaultEngine(e, now, device)
    [] ~Adapter!FaultOrUnknown(e.port) /\ e.tuning -> TuneTick(e, now, device)
    [] ~Adapter!FaultOrUnknown(e.port) /\ ~e.tuning -> SchedulerTick(e, now, device)
HandleTimer(e, now, device) == TimerExpired([e EXCEPT !.timer = Stopped], now, device)

(* The serial port reports an error between two calls: only the adapter    *)
(* learns of it, the worker at its next call or timer.                     *)
BackendError(e, device) == [e EXCEPT !.port = Adapter!BackendError(@, device)]

(* What publish() posts, and every facade call returns: state().           *)
Snapshot(e) ==
  [available |-> e.configured,
   openSafe |-> e.port.openSafe /\ ~Adapter!FaultOrUnknown(e.port) /\ ~e.fault,
   busy |-> Busy(e),
   ptt |-> Active(e.port, "ptt"),
   key |-> Active(e.port, "key"),
   fault |-> e.fault \/ e.port.fault]
=============================================================================
