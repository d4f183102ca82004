------------------------- MODULE CwTransmitScheduler -------------------------
(***************************************************************************)
(* One CwTransmitScheduler and an owner that may make any call at any      *)
(* time: start with a valid or a defective plan, in any state; advance     *)
(* with any clock reading, late, early or running backwards; cancel;       *)
(* emergency release; reset.  The scheduler itself must keep KEY inside    *)
(* PTT and the schedule free of drift under all of them.                   *)
(***************************************************************************)
EXTENDS CwTransmitSchedulerOps

CONSTANTS
  SomeConfigs,   \* the configurations a scheduler may be constructed with
  SomePlans      \* the plans the owner may submit

ASSUME InputsAssumption == SomeConfigs \subseteq Configs /\ SomePlans \subseteq Plans

VARIABLES
  sch,      \* the scheduler
  origin,   \* history: the clock reading of the start that is running
  keyedAt   \* history: the clock reading of the call that raised KEY
schedulerVars == <<sch, origin, keyedAt>>

SchedulerInit ==
  /\ sch \in {NewScheduler(c) : c \in SomeConfigs}
  /\ origin = 0
  /\ keyedAt = 0

DoStart(plan, now) ==
  /\ sch' = Start(sch, plan, now)
  /\ origin' = IF sch'.state = "Running" THEN now ELSE origin
  /\ UNCHANGED keyedAt

DoAdvance(now) ==
  /\ sch' = Advance(sch, now)
  /\ keyedAt' = IF sch'.key /\ ~sch.key THEN now ELSE keyedAt
  /\ UNCHANGED origin

DoCancel ==
  /\ sch' = Cancel(sch)
  /\ UNCHANGED <<origin, keyedAt>>

DoEmergencyRelease ==
  /\ sch' = EmergencyRelease(sch)
  /\ UNCHANGED <<origin, keyedAt>>

DoReset ==
  /\ sch' = Reset(sch)
  /\ UNCHANGED <<origin, keyedAt>>

SchedulerNext ==
  \/ \E plan \in SomePlans, now \in Time : DoStart(plan, now)
  \/ \E now \in Time : DoAdvance(now)
  \/ DoCancel
  \/ DoEmergencyRelease
  \/ DoReset

(* A call that the engine's timer makes at or after the moment it was set  *)
(* for.  The engine re-arms its timer in every handler while a line is up. *)
DueAdvance == \E now \in Time : now >= sch.last /\ now >= sch.next /\ DoAdvance(now)

SchedulerSpec == SchedulerInit /\ [][SchedulerNext]_schedulerVars
FairSpec == SchedulerSpec /\ WF_schedulerVars(DueAdvance)

-----------------------------------------------------------------------------
SchedulerTypeOK ==
  /\ sch \in Schedulers
  /\ origin \in Time
  /\ keyedAt \in Time

(* KEY is never active outside PTT, and only a running schedule keys: each *)
(* of the terminal paths (enterTerminal) drops KEY.                        *)
KeyInsidePtt == sch.key => sch.ptt /\ sch.state = "Running"

(* A scheduler that has stopped with PTT still up has a release pending,   *)
(* so that the next advance() takes PTT down; no path strands PTT.         *)
PttNeverStranded ==
  sch.ptt => sch.state = "Running" \/ sch.pending

(* KEY is what the plan says for the span being sent, and inactive through *)
(* lead and hang (the span index and the line move together).              *)
KeyFollowsPlan ==
  sch.state = "Running" =>
    sch.key = (sch.phase = "Spans" /\ sch.plan.spans[sch.span + 1].key)

DueTime ==
  LET lead == origin + sch.config.lead
  IN CASE sch.phase = "Lead" -> lead
       [] sch.phase = "Spans" -> lead + UnitsUpTo(sch.plan, sch.span + 1) * sch.plan.dot
       [] sch.phase = "Hang" -> lead + sch.plan.total + sch.config.hang

(* Lateness never accumulates: however late each call within the budget    *)
(* came, the next boundary is the start time plus the exact durations      *)
(* planned before it (advance() counts from boundary_ns, not now_ns).      *)
NoCumulativeDrift == sch.state = "Running" => sch.next = DueTime

(* Observed at the calls, KEY is never down longer than the limit for      *)
(* continuous keying, whatever the plan and however late the calls.        *)
KeyDownWithinLimit == sch.key => sch.last - keyedAt <= MaxKeyDown

(* The strengthening of the invariants above that every call preserves: a  *)
(* running schedule has a valid plan and an index inside it, lead and hang *)
(* hold KEY inactive, and KEY falls due within the limit of its own rise.  *)
ScheduleInv ==
  /\ SchedulerTypeOK
  /\ KeyInsidePtt
  /\ PttNeverStranded
  /\ sch.pending => sch.state # "Running"
  /\ sch.state = "Running" =>
       /\ sch.ptt
       /\ sch.phase # "None"
       /\ ValidatePlan(sch.config, sch.plan)
  /\ sch.phase = "Spans" => sch.span + 1 \in 1..Len(sch.plan.spans)
  /\ KeyFollowsPlan
  /\ sch.key =>
       /\ sch.next <= keyedAt + MaxKeyDown
       /\ sch.last = keyedAt \/ sch.last < sch.next

OneLineStep ==
  /\ ~(sch'.ptt # sch.ptt /\ sch'.key # sch.key)
  /\ sch.ptt /\ ~sch'.ptt => ~sch.key

(* "At most one transition is exposed per call": no call moves both lines, *)
(* and PTT goes down only in a call that found KEY already inactive.       *)
OneLinePerCall == [][OneLineStep]_schedulerVars

(* While the timer keeps calling, an asserted PTT is released, whichever   *)
(* operation ended the transmission.                                       *)
PttEventuallyReleased == sch.ptt ~> ~sch.ptt
=============================================================================
