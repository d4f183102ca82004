----------------------- MODULE CwTransmitSchedulerOps -----------------------
(***************************************************************************)
(* The operations of cwassistant::core::CwTransmitScheduler as functions   *)
(* from a scheduler value to a scheduler value.  The scheduler owns no     *)
(* clock and no hardware: every operation is a call its owner makes, with  *)
(* the owner's monotonic reading as a parameter.  CwTransmitScheduler.tla  *)
(* drives these operations with every legal and illegal sequence of calls; *)
(* DirectTransmitEngine.tla calls them from the engine's handlers.         *)
(***************************************************************************)
EXTENDS TransmitLimits, SequencesExt

Time == 0..MaxU64

States == {"Idle", "Running", "Completed", "Cancelled", "Emergency", "Fault"}
Phases == {"None", "Lead", "Spans", "Hang"}

NoPlan == [text |-> FALSE, dot |-> 0, spans |-> <<>>, total |-> 0]

(***************************************************************************)
(* A plan: whether it has a text, the dot length, the spans the encoder    *)
(* produced and the total duration it claims for them.                     *)
(***************************************************************************)
Spans == [key : BOOLEAN, units : Nat]
Plans == [text : BOOLEAN, dot : Nat, spans : Seq(Spans), total : Nat]
Configs == [lead : Nat, hang : Nat, maxMessage : Nat, maxLateness : Nat]

UnitsUpTo(plan, n) ==
  LET sum[k \in 0..Len(plan.spans)] == IF k = 0 THEN 0 ELSE sum[k - 1] + plan.spans[k].units
  IN sum[n]
SpanTicks(plan, i) == plan.spans[i].units * plan.dot

ValidConfig(c) ==
  /\ c.lead <= MaxLeadOrHang
  /\ c.hang <= MaxLeadOrHang
  /\ c.maxMessage \in 1..MaxMessageLimit
  /\ c.maxLateness <= MaxLatenessLimit

(***************************************************************************)
(* The code tests each addition and multiplication against the integer's   *)
(* limit before it makes it; the sum of the units in the limit is the same *)
(* test made once.                                                         *)
(***************************************************************************)
ValidatePlan(c, plan) ==
  LET n == Len(plan.spans)
  IN /\ ValidConfig(c)
     /\ plan.text
     /\ n > 0
     /\ plan.dot > 0
     /\ plan.spans[1].key
     /\ plan.spans[n].key
     /\ \A i \in 1..n : plan.spans[i].units > 0
     /\ \A i \in 1..(n - 1) : plan.spans[i].key # plan.spans[i + 1].key
     /\ \A i \in 1..n : plan.spans[i].key => SpanTicks(plan, i) <= MaxKeyDown
     /\ UnitsUpTo(plan, n) * plan.dot <= MaxU64
     /\ UnitsUpTo(plan, n) * plan.dot = plan.total
     /\ plan.total <= c.maxMessage

-----------------------------------------------------------------------------
Schedulers ==
  [config : Configs, plan : Plans, state : States, phase : Phases,
   ptt : BOOLEAN, key : BOOLEAN, last : Time, next : Time, span : Nat,
   pending : BOOLEAN]

NewScheduler(c) ==
  [config |-> c, plan |-> NoPlan, state |-> "Idle", phase |-> "None",
   ptt |-> FALSE, key |-> FALSE, last |-> 0, next |-> 0, span |-> 0,
   pending |-> FALSE]

(* Defect: a terminal path that does not remember PTT is still up. *)
EnterTerminalWithoutPending(s, state) ==
  [s EXCEPT !.state = state, !.phase = "None", !.next = 0, !.key = FALSE]

(* Every terminal path drops KEY now and leaves PTT to a following call. *)
EnterTerminal(s, state) ==
  [s EXCEPT !.state = state, !.phase = "None", !.next = 0, !.key = FALSE,
            !.pending = s.ptt]

SchedulerFault(s) == EnterTerminal(s, "Fault")

(* Defect: the delay counts from the moment the call arrived. *)
SetNextTransitionFromCall(s, base, delay) ==
  IF s.last > MaxU64 - delay THEN SchedulerFault(s)
                             ELSE [s EXCEPT !.next = s.last + delay]

(* The next transition counts from the boundary just reached, not from the *)
(* moment the call arrived.                                                *)
SetNextTransition(s, base, delay) ==
  IF base > MaxU64 - delay THEN SchedulerFault(s)
                           ELSE [s EXCEPT !.next = base + delay]

FitsClock(c, plan, now) == now + plan.total + c.lead + c.hang <= MaxU64

Start(s, plan, now) ==
  IF s.state # "Idle" \/ ~ValidatePlan(s.config, plan)
       \/ ~FitsClock(s.config, plan, now)
    THEN SchedulerFault(s)
    ELSE SetNextTransition(
           [s EXCEPT !.plan = plan, !.state = "Running", !.phase = "Lead",
                     !.ptt = TRUE, !.key = FALSE, !.last = now, !.span = 0,
                     !.pending = FALSE],
           now, s.config.lead)

-----------------------------------------------------------------------------
(* advance(), cut at its phases.  Each takes the boundary that was due. *)

BeginSpan(s, i, boundary) ==
  SetNextTransition([s EXCEPT !.phase = "Spans", !.span = i,
                              !.key = s.plan.spans[i + 1].key],
                    boundary, SpanTicks(s.plan, i + 1))

BeginHang(s, boundary) ==
  SetNextTransition([s EXCEPT !.phase = "Hang", !.span = @ + 1, !.key = FALSE],
                    boundary, s.config.hang)

Complete(s) ==
  [s EXCEPT !.ptt = FALSE, !.state = "Completed", !.phase = "None", !.next = 0]

CrossBoundary(s, boundary) ==
  CASE s.phase = "Lead" -> BeginSpan(s, 0, boundary)
    [] s.phase = "Spans" /\ s.span + 1 < Len(s.plan.spans) ->
         BeginSpan(s, s.span + 1, boundary)
    [] s.phase = "Spans" /\ s.span + 1 >= Len(s.plan.spans) ->
         BeginHang(s, boundary)
    [] s.phase = "Hang" -> Complete(s)
    [] OTHER -> SchedulerFault(s)

ReleasePending(s) == [s EXCEPT !.ptt = FALSE, !.pending = FALSE]

(* Defect: a schedule that has ended is not advanced any more. *)
AdvanceOnlyRunning(s, now) ==
  CASE s.state # "Running" -> s
    [] s.state = "Running" /\ now < s.last -> SchedulerFault(s)
    [] s.state = "Running" /\ s.last <= now /\ now < s.next ->
         [s EXCEPT !.last = now]
    [] s.state = "Running" /\ s.last <= now /\ s.next <= now ->
         IF now - s.next > s.config.maxLateness
           THEN SchedulerFault([s EXCEPT !.last = now])
           ELSE CrossBoundary([s EXCEPT !.last = now], s.next)

Advance(s, now) ==
  CASE s.state # "Running" /\ s.pending -> ReleasePending(s)
    [] s.state # "Running" /\ ~s.pending -> s
    [] s.state = "Running" /\ now < s.last -> SchedulerFault(s)
    [] s.state = "Running" /\ s.last <= now /\ now < s.next ->
         [s EXCEPT !.last = now]
    [] s.state = "Running" /\ s.last <= now /\ s.next <= now ->
         IF now - s.next > s.config.maxLateness
           THEN SchedulerFault([s EXCEPT !.last = now])
           ELSE CrossBoundary([s EXCEPT !.last = now], s.next)

(* What advance() answers when it leaves the scheduler as advanced. *)
ResultOf(s, advanced) ==
  CASE s.state # "Running" -> IF s.pending THEN "Transition" ELSE "NoChange"
    [] s.state = "Running" ->
         CASE advanced.state = "Fault" -> "Faulted"
           [] advanced = [s EXCEPT !.last = advanced.last] -> "NoChange"
           [] OTHER -> "Transition"
AdvanceResult(s, now) == ResultOf(s, Advance(s, now))

Cancel(s) == IF s.state = "Running" THEN EnterTerminal(s, "Cancelled") ELSE s
EmergencyRelease(s) == EnterTerminal(s, "Emergency")

Resettable(s) == s.state # "Running" /\ ~s.ptt /\ ~s.key /\ ~s.pending
Reset(s) == IF Resettable(s) THEN NewScheduler(s.config) ELSE s
=============================================================================
