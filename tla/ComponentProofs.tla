------------------------------ MODULE ComponentProofs ------------------------------
(***************************************************************************)
(* The components that are proved each on its own: the scheduler of the    *)
(* two lines and the guard that permits them, the control of a rig, the    *)
(* session of the cluster and the reports of other receivers.              *)
(***************************************************************************)
EXTENDS CwTransmitScheduler, TransmitGuard, SpotRegistry, ControlLease, DxCluster,
        InductionTheorems

-----------------------------------------------------------------------------
(***************************************************************************)
(* For every configuration, every plan and every clock limit: the types    *)
(* and the line discipline of CwTransmitScheduler.                         *)
(***************************************************************************)

(* What the shared pieces of the operations return. *)

LEMMA EnterTerminalType ==
  ASSUME NEW s \in Schedulers, NEW state \in States
  PROVE  EnterTerminal(s, state) \in Schedulers
<1>1. 0 \in Time
  BY LimitsAssumption DEF Time
<1>2. s.ptt \in BOOLEAN
  BY DEF Schedulers
<1>3. "None" \in Phases
  BY DEF Phases
<1>4. QED
  BY <1>1, <1>2, <1>3 DEF EnterTerminal, Schedulers

LEMMA TripFaultType ==
  ASSUME NEW s \in Schedulers
  PROVE  SchedulerFault(s) \in Schedulers
BY EnterTerminalType DEF SchedulerFault, States

LEMMA SetNextTransitionType ==
  ASSUME NEW s \in Schedulers, NEW base \in Time, NEW delay \in Nat
  PROVE  SetNextTransition(s, base, delay) \in Schedulers
<1>1. CASE base > MaxU64 - delay
  BY <1>1, TripFaultType DEF SetNextTransition
<1>2. CASE ~(base > MaxU64 - delay)
  <2>1. base + delay \in Time
    BY <1>2, LimitsAssumption DEF Time
  <2>2. QED
    BY <1>2, <2>1 DEF SetNextTransition, Schedulers
<1>3. QED
  BY <1>1, <1>2

LEMMA StartType ==
  ASSUME NEW s \in Schedulers, NEW plan \in Plans, NEW now \in Time
  PROVE  Start(s, plan, now) \in Schedulers
<1> DEFINE r == [s EXCEPT !.plan = plan, !.state = "Running", !.phase = "Lead",
                          !.ptt = TRUE, !.key = FALSE, !.last = now, !.span = 0,
                          !.pending = FALSE]
<1>1. "Running" \in States /\ "Lead" \in Phases
  BY DEF States, Phases
<1>2. r \in Schedulers
  BY <1>1 DEF Schedulers
<1>3. s.config.lead \in Nat
  BY DEF Schedulers, Configs
<1>4. SetNextTransition(r, now, s.config.lead) \in Schedulers
  BY <1>2, <1>3, SetNextTransitionType
<1>5. QED
  BY <1>4, TripFaultType DEF Start

LEMMA AdvanceType ==
  ASSUME NEW s \in Schedulers, NEW now \in Time,
         s.phase = "Spans" => s.span + 1 \in 1..Len(s.plan.spans),
         s.state = "Running" => Len(s.plan.spans) > 0
  PROVE  Advance(s, now) \in Schedulers
<1> DEFINE r == [s EXCEPT !.last = now]
<1>1. r \in Schedulers
  BY DEF Schedulers
<1>2. /\ s.plan \in Plans /\ s.span \in Nat /\ s.next \in Time
      /\ s.config.hang \in Nat /\ s.state \in States /\ s.phase \in Phases
  BY DEF Schedulers, Configs
<1>3. s.plan.spans \in Seq(Spans) /\ s.plan.dot \in Nat
  BY <1>2 DEF Plans
<1>4. ASSUME NEW i \in Nat, i + 1 \in 1..Len(s.plan.spans)
      PROVE  BeginSpan(r, i, s.next) \in Schedulers
  <2>1. /\ s.plan.spans[i + 1] \in Spans
        /\ r.plan = s.plan
    BY <1>3, <1>4 DEF Schedulers
  <2>2. s.plan.spans[i + 1].key \in BOOLEAN /\ s.plan.spans[i + 1].units \in Nat
    BY <2>1 DEF Spans
  <2>3. SpanTicks(s.plan, i + 1) \in Nat
    BY <2>2, <1>3 DEF SpanTicks
  <2>4. [r EXCEPT !.phase = "Spans", !.span = i, !.key = s.plan.spans[i + 1].key]
          \in Schedulers
    BY <1>1, <2>2 DEF Schedulers, Phases
  <2>5. QED
    BY <2>1, <2>3, <2>4, <1>2, SetNextTransitionType DEF BeginSpan
<1>5. BeginHang(r, s.next) \in Schedulers
  <2>1. [r EXCEPT !.phase = "Hang", !.span = @ + 1, !.key = FALSE] \in Schedulers
    <3>1. r.span + 1 \in Nat /\ "Hang" \in Phases
      BY <1>1 DEF Schedulers, Phases
    <3> HIDE DEF r
    <3>2. QED
      BY <1>1, <3>1 DEF Schedulers
  <2>2. r.config.hang \in Nat
    BY <1>2 DEF Schedulers
  <2>3. QED
    BY <2>1, <2>2, <1>2, SetNextTransitionType DEF BeginHang
<1>6. Complete(r) \in Schedulers
  <2>1. "Completed" \in States /\ "None" \in Phases /\ 0 \in Time
    BY LimitsAssumption DEF States, Phases, Time
  <2> HIDE DEF r
  <2>2. QED
    BY <1>1, <2>1 DEF Complete, Schedulers
<1>7. s.state = "Running" => CrossBoundary(r, s.next) \in Schedulers
  <2>1. r.phase = s.phase /\ r.plan = s.plan /\ r.span = s.span
    BY DEF Schedulers
  <2>2. CASE s.phase = "Lead" /\ s.state = "Running"
    <3>1. 0 + 1 \in 1..Len(s.plan.spans)
      BY <1>3, <2>2
    <3>2. QED
      BY <2>1, <2>2, <3>1, <1>4 DEF CrossBoundary
  <2>3. CASE s.phase = "Spans" /\ s.span + 1 < Len(s.plan.spans)
    <3>1. s.span + 1 \in Nat /\ (s.span + 1) + 1 \in 1..Len(s.plan.spans)
      BY <1>2, <1>3, <2>3
    <3>2. BeginSpan(r, s.span + 1, s.next) \in Schedulers
      BY <3>1, <1>4
    <3>3. QED
      BY <2>1, <2>3, <3>2 DEF CrossBoundary
  <2>4. CASE s.phase = "Spans" /\ s.span + 1 >= Len(s.plan.spans)
    BY <2>1, <2>4, <1>2, <1>3, <1>5 DEF CrossBoundary
  <2>5. CASE s.phase = "Hang"
    BY <2>1, <2>5, <1>6 DEF CrossBoundary
  <2>6. CASE s.phase = "None"
    BY <2>1, <2>6, <1>1, TripFaultType DEF CrossBoundary
  <2>7. QED
    BY <2>2, <2>3, <2>4, <2>5, <2>6, <1>2, <1>3 DEF Phases
<1>8. ReleasePending(s) \in Schedulers
  BY DEF ReleasePending, Schedulers
<1>9. SchedulerFault(r) \in Schedulers /\ SchedulerFault(s) \in Schedulers
  BY <1>1, TripFaultType
<1>10. s.last \in Time
  BY DEF Schedulers
<1>11. QED
  BY <1>1, <1>2, <1>7, <1>8, <1>9, <1>10, LimitsAssumption DEF Advance, Time

-----------------------------------------------------------------------------
(* The inductive invariant ScheduleInv, one lemma per call. *)

(* The parts of the invariant that mention the scheduler alone, of any     *)
(* scheduler value: what a call must return.                               *)
LineInv(s) ==
  /\ s.key => s.ptt /\ s.state = "Running"
  /\ s.ptt => s.state = "Running" \/ s.pending
  /\ s.pending => s.state # "Running"
  /\ s.state = "Running" =>
       /\ s.ptt
       /\ s.phase # "None"
       /\ ValidatePlan(s.config, s.plan)
  /\ s.phase = "Spans" => s.span + 1 \in 1..Len(s.plan.spans)
  /\ s.state = "Running" =>
       (s.key <=> s.phase = "Spans" /\ s.plan.spans[s.span + 1].key)

LEMMA TerminalLines ==
  ASSUME NEW s \in Schedulers, NEW state \in States, state # "Running"
  PROVE  LineInv(EnterTerminal(s, state)) /\ ~EnterTerminal(s, state).key
<1>1. s.ptt \in BOOLEAN
  BY DEF Schedulers
<1>2. /\ EnterTerminal(s, state).state = state
      /\ EnterTerminal(s, state).phase = "None"
      /\ EnterTerminal(s, state).key = FALSE
      /\ EnterTerminal(s, state).ptt = s.ptt
      /\ EnterTerminal(s, state).pending = s.ptt
  BY <1>1 DEF EnterTerminal, Schedulers
<1>3. QED
  BY <1>1, <1>2 DEF LineInv

LEMMA FaultLines ==
  ASSUME NEW s \in Schedulers
  PROVE  LineInv(SchedulerFault(s)) /\ ~SchedulerFault(s).key
BY TerminalLines DEF SchedulerFault, States

LEMMA SetNextLines ==
  ASSUME NEW s \in Schedulers, LineInv(s), NEW base \in Time, NEW delay \in Nat
  PROVE  /\ LineInv(SetNextTransition(s, base, delay))
         /\ SetNextTransition(s, base, delay).key =>
              s.key /\ SetNextTransition(s, base, delay) = [s EXCEPT !.next = base + delay]
<1>1. CASE base > MaxU64 - delay
  BY <1>1, FaultLines DEF SetNextTransition
<1>2. CASE ~(base > MaxU64 - delay)
  <2>1. SetNextTransition(s, base, delay) = [s EXCEPT !.next = base + delay]
    BY <1>2 DEF SetNextTransition
  <2>2. LineInv([s EXCEPT !.next = base + delay])
    BY DEF LineInv, Schedulers
  <2>3. [s EXCEPT !.next = base + delay].key = s.key
    BY DEF Schedulers
  <2>4. QED
    BY <2>1, <2>2, <2>3
<1>3. QED
  BY <1>1, <1>2

LEMMA ValidPlanSpans ==
  ASSUME NEW config \in Configs, NEW plan \in Plans, ValidatePlan(config, plan)
  PROVE  /\ Len(plan.spans) \in Nat \ {0}
         /\ plan.spans[1].key
         /\ \A i \in 1..Len(plan.spans) :
              /\ plan.spans[i].key \in BOOLEAN
              /\ SpanTicks(plan, i) \in Nat
              /\ plan.spans[i].key => SpanTicks(plan, i) <= MaxKeyDown
         /\ \A i \in 1..(Len(plan.spans) - 1) :
              plan.spans[i].key # plan.spans[i + 1].key
<1>1. plan.spans \in Seq(Spans) /\ plan.dot \in Nat
  BY DEF Plans
<1>2. ASSUME NEW i \in 1..Len(plan.spans)
      PROVE  plan.spans[i].key \in BOOLEAN /\ SpanTicks(plan, i) \in Nat
  <2>1. plan.spans[i] \in Spans
    BY <1>1, <1>2
  <2>2. plan.spans[i].units \in Nat /\ plan.spans[i].key \in BOOLEAN
    BY <2>1 DEF Spans
  <2>3. QED
    BY <2>2, <1>1 DEF SpanTicks
<1>3. QED
  BY <1>1, <1>2 DEF ValidatePlan

LEMMA StartLines ==
  ASSUME NEW s \in Schedulers, NEW plan \in Plans, NEW now \in Time
  PROVE  LineInv(Start(s, plan, now)) /\ ~Start(s, plan, now).key
<1> DEFINE r == [s EXCEPT !.plan = plan, !.state = "Running", !.phase = "Lead",
                          !.ptt = TRUE, !.key = FALSE, !.last = now, !.span = 0,
                          !.pending = FALSE]
<1>1. CASE s.state # "Idle" \/ ~ValidatePlan(s.config, plan) \/ ~FitsClock(s.config, plan, now)
  <2>1. Start(s, plan, now) = SchedulerFault(s)
    BY <1>1 DEF Start
  <2>2. QED
    BY <2>1, FaultLines
<1>2. CASE ~(s.state # "Idle" \/ ~ValidatePlan(s.config, plan) \/ ~FitsClock(s.config, plan, now))
  <2>1. Start(s, plan, now) = SetNextTransition(r, now, s.config.lead)
    BY <1>2 DEF Start
  <2>2. r \in Schedulers
    BY DEF Schedulers, States, Phases
  <2>3. /\ r.state = "Running" /\ r.phase = "Lead" /\ r.ptt = TRUE /\ r.key = FALSE
        /\ r.pending = FALSE /\ r.plan = plan /\ r.config = s.config
    BY DEF Schedulers
  <2>4. LineInv(r) /\ ~r.key
    <3> HIDE DEF r
    <3>1. QED
      BY <1>2, <2>3 DEF LineInv
  <2>5. s.config.lead \in Nat
    BY DEF Schedulers, Configs
  <2>6. QED
    <3> HIDE DEF r
    <3>1. LET t == SetNextTransition(r, now, s.config.lead)
          IN LineInv(t) /\ (t.key => r.key)
      BY <2>2, <2>4, <2>5, SetNextLines
    <3>2. QED
      BY <2>1, <2>4, <3>1
<1>3. QED
  BY <1>1, <1>2

(* BeginSpan raises KEY only from an inactive KEY, and then for at most    *)
(* the limit for continuous keying.                                        *)
LEMMA BeginSpanLines ==
  ASSUME NEW s \in Schedulers, LineInv(s), s.state = "Running",
         NEW i \in Nat, i + 1 \in 1..Len(s.plan.spans),
         (s.phase = "Lead" /\ i = 0) \/ (s.phase = "Spans" /\ i = s.span + 1)
  PROVE  LET t == BeginSpan(s, i, s.next)
         IN /\ LineInv(t)
            /\ t.key => ~s.key /\ t.last = s.last /\ t.next <= s.next + MaxKeyDown
<1> DEFINE r == [s EXCEPT !.phase = "Spans", !.span = i, !.key = s.plan.spans[i + 1].key]
<1>1. s.config \in Configs /\ s.plan \in Plans /\ s.next \in Time /\ s.span \in Nat
  BY DEF Schedulers
<1>2. ValidatePlan(s.config, s.plan) /\ s.ptt
  BY DEF LineInv
<1>3. /\ s.plan.spans[i + 1].key \in BOOLEAN
      /\ SpanTicks(s.plan, i + 1) \in Nat
      /\ s.plan.spans[i + 1].key => SpanTicks(s.plan, i + 1) <= MaxKeyDown
  BY <1>1, <1>2, ValidPlanSpans
<1>4. s.plan.spans[i + 1].key => ~s.key
  <2>1. CASE s.phase = "Lead"
    BY <2>1 DEF LineInv
  <2>2. CASE s.phase = "Spans" /\ i = s.span + 1
    <3>1. s.span + 1 \in 1..(Len(s.plan.spans) - 1)
      BY <1>1, <1>2, <2>2, ValidPlanSpans
    <3>2. s.plan.spans[s.span + 1].key # s.plan.spans[i + 1].key
      BY <1>1, <1>2, <2>2, <3>1, ValidPlanSpans
    <3>3. s.key <=> s.plan.spans[s.span + 1].key
      BY <2>2 DEF LineInv
    <3>4. s.plan.spans[s.span + 1].key \in BOOLEAN
      <4>1. Len(s.plan.spans) \in Nat
        BY <1>1, <1>2, ValidPlanSpans
      <4>2. s.span + 1 \in 1..Len(s.plan.spans)
        BY <3>1, <4>1
      <4>3. QED
        BY <1>1, <1>2, <4>2, ValidPlanSpans
    <3>5. QED
      BY <1>3, <3>2, <3>3, <3>4
  <2>3. QED
    BY <2>1, <2>2
<1>5. r \in Schedulers
  BY <1>3 DEF Schedulers, Phases
<1>6. /\ r.state = "Running" /\ r.phase = "Spans" /\ r.span = i /\ r.plan = s.plan
      /\ r.config = s.config /\ r.ptt = s.ptt /\ r.pending = s.pending
      /\ r.last = s.last /\ (r.key <=> s.plan.spans[i + 1].key)
  BY <1>3 DEF Schedulers
<1> HIDE DEF r
<1>7. LineInv(r)
  BY <1>2, <1>6 DEF LineInv
<1>8. BeginSpan(s, i, s.next) = SetNextTransition(r, s.next, SpanTicks(s.plan, i + 1))
  BY DEF BeginSpan, r
<1>9. /\ LineInv(BeginSpan(s, i, s.next))
      /\ BeginSpan(s, i, s.next).key =>
           /\ r.key
           /\ BeginSpan(s, i, s.next) = [r EXCEPT !.next = s.next + SpanTicks(s.plan, i + 1)]
  BY <1>1, <1>3, <1>5, <1>7, <1>8, SetNextLines
<1>10. [r EXCEPT !.next = s.next + SpanTicks(s.plan, i + 1)].next
         = s.next + SpanTicks(s.plan, i + 1)
       /\ [r EXCEPT !.next = s.next + SpanTicks(s.plan, i + 1)].last = r.last
  BY <1>5 DEF Schedulers
<1>11. BeginSpan(s, i, s.next).key =>
         BeginSpan(s, i, s.next).next <= s.next + MaxKeyDown
  <2>1. SUFFICES ASSUME BeginSpan(s, i, s.next).key
                 PROVE  BeginSpan(s, i, s.next).next <= s.next + MaxKeyDown
    OBVIOUS
  <2>2. SpanTicks(s.plan, i + 1) <= MaxKeyDown
    BY <1>3, <1>6, <1>9, <2>1
  <2>3. BeginSpan(s, i, s.next).next = s.next + SpanTicks(s.plan, i + 1)
    BY <1>9, <1>10, <2>1
  <2>4. s.next \in Nat
    BY <1>1, LimitsAssumption DEF Time
  <2>5. QED
    BY <1>3, <2>2, <2>3, <2>4, LimitsAssumption
<1>12. QED
  BY <1>4, <1>6, <1>9, <1>10, <1>11

LEMMA CrossBoundaryLines ==
  ASSUME NEW s \in Schedulers, LineInv(s), s.state = "Running"
  PROVE  LET t == CrossBoundary(s, s.next)
         IN /\ LineInv(t)
            /\ t.key => ~s.key /\ t.last = s.last /\ t.next <= s.next + MaxKeyDown
<1>1. s.config \in Configs /\ s.plan \in Plans /\ s.next \in Time /\ s.span \in Nat
      /\ s.phase \in Phases /\ s.config.hang \in Nat
  BY DEF Schedulers, Configs
<1>2. ValidatePlan(s.config, s.plan) /\ s.ptt /\ s.phase # "None" /\ ~s.pending
  BY DEF LineInv
<1>3. Len(s.plan.spans) \in Nat \ {0}
  BY <1>1, <1>2, ValidPlanSpans
<1>4. CASE s.phase = "Lead"
  <2>1. CrossBoundary(s, s.next) = BeginSpan(s, 0, s.next)
    BY <1>4 DEF CrossBoundary
  <2>2. ASSUME NEW i \in Nat, i = 0
        PROVE  /\ LineInv(BeginSpan(s, i, s.next))
               /\ BeginSpan(s, i, s.next).key =>
                    /\ ~s.key
                    /\ BeginSpan(s, i, s.next).last = s.last
                    /\ BeginSpan(s, i, s.next).next <= s.next + MaxKeyDown
    <3>1. i + 1 \in 1..Len(s.plan.spans)
      BY <1>3, <2>2
    <3>2. (s.phase = "Lead" /\ i = 0) \/ (s.phase = "Spans" /\ i = s.span + 1)
      BY <1>4, <2>2
    <3>3. QED
      BY <3>1, <3>2, BeginSpanLines
  <2>3. QED
    BY <2>1, <2>2
<1>5. CASE s.phase = "Spans" /\ s.span + 1 < Len(s.plan.spans)
  <2>1. CrossBoundary(s, s.next) = BeginSpan(s, s.span + 1, s.next)
    BY <1>1, <1>3, <1>5 DEF CrossBoundary
  <2>2. s.span + 1 \in Nat /\ (s.span + 1) + 1 \in 1..Len(s.plan.spans)
    BY <1>1, <1>3, <1>5
  <2>3. QED
    BY <1>5, <2>1, <2>2, BeginSpanLines
<1>6. CASE s.phase = "Spans" /\ s.span + 1 >= Len(s.plan.spans)
  <2> DEFINE r == [s EXCEPT !.phase = "Hang", !.span = @ + 1, !.key = FALSE]
  <2>1. r \in Schedulers
    <3>1. s.span + 1 \in Nat /\ "Hang" \in Phases
      BY <1>1 DEF Phases
    <3>2. QED
      BY <3>1 DEF Schedulers
  <2>2. /\ r.state = "Running" /\ r.phase = "Hang" /\ r.key = FALSE /\ r.plan = s.plan
        /\ r.config = s.config /\ r.ptt = s.ptt /\ r.pending = s.pending
    BY DEF Schedulers
  <2>3. CrossBoundary(s, s.next) = SetNextTransition(r, s.next, s.config.hang)
    BY <1>1, <1>3, <1>6 DEF CrossBoundary, BeginHang
  <2> HIDE DEF r
  <2>4. LineInv(r)
    BY <1>2, <2>2 DEF LineInv
  <2>5. QED
    BY <1>1, <2>1, <2>2, <2>3, <2>4, SetNextLines
<1>7. CASE s.phase = "Hang"
  <2>1. CrossBoundary(s, s.next) = Complete(s)
    BY <1>7 DEF CrossBoundary
  <2>2. /\ Complete(s).ptt = FALSE /\ Complete(s).state = "Completed"
        /\ Complete(s).phase = "None" /\ Complete(s).key = s.key
        /\ Complete(s).pending = s.pending
    BY DEF Complete, Schedulers
  <2>3. ~s.key
    BY <1>7 DEF LineInv
  <2>4. QED
    BY <1>2, <2>1, <2>2, <2>3 DEF LineInv
<1>8. QED
  BY <1>1, <1>2, <1>3, <1>4, <1>5, <1>6, <1>7 DEF Phases

LEMMA AdvanceLines ==
  ASSUME NEW s \in Schedulers, LineInv(s), NEW now \in Time
  PROVE  LET t == Advance(s, now)
         IN /\ LineInv(t)
            /\ t.key => t.last = now
            /\ t.key /\ s.key => t.next = s.next /\ now < s.next
            /\ t.key /\ ~s.key => t.next <= now + MaxKeyDown
<1> DEFINE r == [s EXCEPT !.last = now]
<1>1. r \in Schedulers
  BY DEF Schedulers
<1>2. /\ r.state = s.state /\ r.phase = s.phase /\ r.key = s.key /\ r.plan = s.plan
      /\ r.config = s.config /\ r.ptt = s.ptt /\ r.pending = s.pending
      /\ r.span = s.span /\ r.next = s.next /\ r.last = now
  BY DEF Schedulers
<1>3. s.next \in Nat /\ s.last \in Nat /\ now \in Nat
  BY LimitsAssumption DEF Schedulers, Time
<1> HIDE DEF r
<1>4. LineInv(r)
  BY <1>2 DEF LineInv
<1>5. CASE s.state # "Running" /\ s.pending
  <2>1. Advance(s, now) = ReleasePending(s)
    BY <1>5 DEF Advance
  <2>2. /\ ReleasePending(s).state = s.state /\ ReleasePending(s).phase = s.phase
        /\ ReleasePending(s).key = s.key /\ ReleasePending(s).ptt = FALSE
        /\ ReleasePending(s).pending = FALSE /\ ReleasePending(s).span = s.span
        /\ ReleasePending(s).plan = s.plan
    BY DEF ReleasePending, Schedulers
  <2>3. ~s.key
    BY <1>5 DEF LineInv
  <2>4. QED
    BY <1>5, <2>1, <2>2, <2>3 DEF LineInv
<1>6. CASE s.state # "Running" /\ ~s.pending
  <2>1. Advance(s, now) = s
    BY <1>6 DEF Advance
  <2>2. ~s.key
    BY <1>6 DEF LineInv
  <2>3. QED
    BY <2>1, <2>2
<1>7. CASE s.state = "Running" /\ now < s.last
  <2>1. Advance(s, now) = SchedulerFault(s)
    BY <1>3, <1>7 DEF Advance
  <2>2. QED
    BY <2>1, FaultLines
<1>8. CASE s.state = "Running" /\ s.last <= now /\ now < s.next
  <2>1. Advance(s, now) = r
    BY <1>8, <1>3 DEF Advance, r
  <2>2. QED
    BY <1>2, <1>4, <1>8, <2>1
<1>9. CASE s.state = "Running" /\ s.last <= now /\ s.next <= now
  <2>1. CASE now - s.next > s.config.maxLateness
    <3>1. Advance(s, now) = SchedulerFault(r)
      BY <1>9, <1>3, <2>1 DEF Advance, r
    <3>2. QED
      BY <3>1, <1>1, FaultLines
  <2>2. CASE ~(now - s.next > s.config.maxLateness)
    <3>1. Advance(s, now) = CrossBoundary(r, r.next)
      BY <1>9, <1>2, <1>3, <2>2 DEF Advance, r
    <3>2. LineInv(CrossBoundary(r, r.next))
          /\ (CrossBoundary(r, r.next).key =>
                /\ ~r.key
                /\ CrossBoundary(r, r.next).last = r.last
                /\ CrossBoundary(r, r.next).next <= r.next + MaxKeyDown)
      BY <1>1, <1>2, <1>4, <1>9, CrossBoundaryLines
    <3>3. CrossBoundary(r, r.next) \in Schedulers
      <4>1. Advance(s, now) \in Schedulers
        <5>1. s.phase = "Spans" => s.span + 1 \in 1..Len(s.plan.spans)
          BY DEF LineInv
        <5>2. s.config \in Configs /\ s.plan \in Plans
          BY DEF Schedulers
        <5>3. Len(s.plan.spans) \in Nat \ {0}
          BY <1>9, <5>2, ValidPlanSpans DEF LineInv
        <5>4. QED
          BY <5>1, <5>3, AdvanceType
      <4>2. QED
        BY <4>1, <3>1
    <3>4. CrossBoundary(r, r.next).next \in Nat
      BY <3>3, LimitsAssumption DEF Schedulers, Time
    <3>5. CrossBoundary(r, r.next).key => CrossBoundary(r, r.next).next <= now + MaxKeyDown
      BY <3>2, <3>4, <1>2, <1>3, <1>9, LimitsAssumption
    <3>6. QED
      BY <3>1, <3>2, <3>5, <1>2
  <2>3. QED
    BY <2>1, <2>2
<1>10. s.state \in States
  BY DEF Schedulers
<1>11. QED
  BY <1>3, <1>5, <1>6, <1>7, <1>8, <1>9

-----------------------------------------------------------------------------
LEMMA InitScheduleInv == SchedulerInit => ScheduleInv
<1> SUFFICES ASSUME SchedulerInit PROVE ScheduleInv
  OBVIOUS
<1>1. PICK g \in SomeConfigs : sch = NewScheduler(g)
  BY DEF SchedulerInit
<1>2. 0 \in Time /\ g \in Configs
  BY LimitsAssumption, InputsAssumption DEF Time
<1>3. NoPlan \in Plans
  BY DEF NoPlan, Plans
<1>4. sch \in Schedulers
  BY <1>1, <1>2, <1>3 DEF NewScheduler, Schedulers, States, Phases
<1>5. /\ sch.key = FALSE /\ sch.ptt = FALSE /\ sch.pending = FALSE
      /\ sch.state = "Idle" /\ sch.phase = "None"
  BY <1>1 DEF NewScheduler
<1>6. QED
  BY <1>2, <1>4, <1>5
  DEF SchedulerInit, ScheduleInv, SchedulerTypeOK, KeyInsidePtt, PttNeverStranded, KeyFollowsPlan

(* ScheduleInv is the type, the line discipline and the bound on KEY. *)
KeyBound(s, since) ==
  s.key => s.next <= since + MaxKeyDown /\ (s.last = since \/ s.last < s.next)

LEMMA LinesFollowPlan ==
  ASSUME NEW s \in Schedulers, LineInv(s), s.state = "Running"
  PROVE  s.key = (s.phase = "Spans" /\ s.plan.spans[s.span + 1].key)
<1>1. s.config \in Configs /\ s.plan \in Plans /\ s.key \in BOOLEAN
  BY DEF Schedulers
<1>2. s.phase = "Spans" => s.plan.spans[s.span + 1].key \in BOOLEAN
  BY <1>1, ValidPlanSpans DEF LineInv
<1>3. s.key <=> s.phase = "Spans" /\ s.plan.spans[s.span + 1].key
  BY DEF LineInv
<1>4. QED
  BY <1>1, <1>2, <1>3

LEMMA StepScheduleInv == ScheduleInv /\ [SchedulerNext]_schedulerVars => ScheduleInv'
<1> SUFFICES ASSUME ScheduleInv, [SchedulerNext]_schedulerVars PROVE ScheduleInv'
  OBVIOUS
<1> USE DEF SchedulerTypeOK
<1>1. /\ sch \in Schedulers /\ origin \in Time /\ keyedAt \in Time
      /\ LineInv(sch) /\ KeyBound(sch, keyedAt)
  BY DEF ScheduleInv, LineInv, KeyInsidePtt, PttNeverStranded, KeyFollowsPlan, KeyBound
<1>2. SUFFICES /\ sch' \in Schedulers /\ origin' \in Time /\ keyedAt' \in Time
               /\ LineInv(sch') /\ KeyBound(sch', keyedAt')
  <2>1. sch'.state = "Running" =>
          sch'.key = (sch'.phase = "Spans" /\ sch'.plan.spans[sch'.span + 1].key)
    BY <1>2, LinesFollowPlan
  <2>2. QED
    BY <1>2, <2>1
    DEF ScheduleInv, LineInv, KeyInsidePtt, PttNeverStranded, KeyFollowsPlan, KeyBound
<1>3. ASSUME NEW plan \in SomePlans, NEW now \in Time, DoStart(plan, now)
      PROVE  /\ sch' \in Schedulers /\ origin' \in Time /\ keyedAt' \in Time
             /\ LineInv(sch') /\ KeyBound(sch', keyedAt')
  <2>1. plan \in Plans
    BY InputsAssumption
  <2>2. sch' \in Schedulers /\ LineInv(sch') /\ ~sch'.key
    BY <1>1, <1>3, <2>1, StartType, StartLines DEF DoStart
  <2>3. QED
    BY <1>1, <1>3, <2>2 DEF DoStart, LineInv, KeyBound
<1>4. ASSUME NEW now \in Time, DoAdvance(now)
      PROVE  /\ sch' \in Schedulers /\ origin' \in Time /\ keyedAt' \in Time
             /\ LineInv(sch') /\ KeyBound(sch', keyedAt')
  <2>1. sch' \in Schedulers
    <3>1. sch.phase = "Spans" => sch.span + 1 \in 1..Len(sch.plan.spans)
      BY <1>1 DEF LineInv
    <3>2. sch.state = "Running" => Len(sch.plan.spans) > 0
      <4>1. sch.config \in Configs /\ sch.plan \in Plans
        BY <1>1 DEF Schedulers
      <4>2. QED
        BY <1>1, <4>1, ValidPlanSpans DEF LineInv
    <3>3. QED
      BY <1>1, <1>4, <3>1, <3>2, AdvanceType DEF DoAdvance
  <2>2. /\ LineInv(sch')
        /\ sch'.key => sch'.last = now
        /\ sch'.key /\ sch.key => sch'.next = sch.next /\ now < sch.next
        /\ sch'.key /\ ~sch.key => sch'.next <= now + MaxKeyDown
    BY <1>1, <1>4, AdvanceLines DEF DoAdvance
  <2>3. keyedAt' \in Time
    BY <1>1, <1>4 DEF DoAdvance
  <2>4. KeyBound(sch', keyedAt')
    <3>1. CASE sch'.key /\ ~sch.key
      BY <1>4, <2>2, <3>1 DEF DoAdvance, KeyBound
    <3>2. CASE sch'.key /\ sch.key
      BY <1>1, <1>4, <2>2, <3>2 DEF DoAdvance, KeyBound
    <3>3. QED
      BY <3>1, <3>2 DEF KeyBound
  <2>5. QED
    BY <1>1, <1>4, <2>1, <2>2, <2>3, <2>4 DEF DoAdvance, LineInv, KeyBound
<1>5. CASE DoCancel
  <2>1. CASE sch.state = "Running"
    <3>1. sch' = EnterTerminal(sch, "Cancelled")
      BY <1>5, <2>1 DEF DoCancel, Cancel
    <3>2. sch' \in Schedulers /\ LineInv(sch') /\ ~sch'.key
      BY <1>1, <3>1, EnterTerminalType, TerminalLines DEF States
    <3>3. QED
      BY <1>1, <1>5, <3>2 DEF DoCancel, LineInv, KeyBound
  <2>2. CASE sch.state # "Running"
    BY <1>1, <1>5, <2>2 DEF DoCancel, Cancel, LineInv, KeyBound
  <2>3. QED
    BY <2>1, <2>2
<1>6. CASE DoEmergencyRelease
  <2>1. sch' \in Schedulers /\ LineInv(sch') /\ ~sch'.key
    BY <1>1, <1>6, EnterTerminalType, TerminalLines
    DEF DoEmergencyRelease, EmergencyRelease, States
  <2>2. QED
    BY <1>1, <1>6, <2>1 DEF DoEmergencyRelease, LineInv, KeyBound
<1>7. CASE DoReset
  <2>1. CASE Resettable(sch)
    <3>1. sch' = NewScheduler(sch.config)
      BY <1>7, <2>1 DEF DoReset, Reset
    <3>2. NewScheduler(sch.config) \in Schedulers
      BY <1>1, LimitsAssumption
      DEF NewScheduler, NoPlan, Plans, Schedulers, States, Phases, Time
    <3>3. /\ sch'.key = FALSE /\ sch'.ptt = FALSE /\ sch'.pending = FALSE
          /\ sch'.state = "Idle" /\ sch'.phase = "None"
      BY <3>1 DEF NewScheduler
    <3>4. QED
      BY <1>1, <1>7, <3>1, <3>2, <3>3 DEF DoReset, LineInv, KeyBound
  <2>2. CASE ~Resettable(sch)
    BY <1>1, <1>7, <2>2 DEF DoReset, Reset, LineInv, KeyBound
  <2>3. QED
    BY <2>1, <2>2
<1>8. CASE UNCHANGED schedulerVars
  BY <1>1, <1>8 DEF schedulerVars, LineInv, KeyBound
<1>9. QED
  BY <1>3, <1>4, <1>5, <1>6, <1>7, <1>8 DEF SchedulerNext

-----------------------------------------------------------------------------
(* Whatever calls arrive, in whatever order and with whatever clock        *)
(* readings, every call leaves the scheduler in a consistent state.        *)
THEOREM ScheduleInvariant == SchedulerSpec => []ScheduleInv
<1>1. QED
  BY InitScheduleInv, StepScheduleInv, PTL DEF SchedulerSpec

(* The scheduler's fields keep their types; in particular no transition    *)
(* time passes the largest value of the clock's integer type.              *)
THEOREM TypeCorrect == SchedulerSpec => []SchedulerTypeOK
<1>1. ScheduleInv => SchedulerTypeOK
  BY DEF ScheduleInv
<1>2. QED
  BY <1>1, ScheduleInvariant, PTL

(* KEY is active only inside PTT and only while a schedule runs.           *)
THEOREM KeyAlwaysInsidePtt == SchedulerSpec => []KeyInsidePtt
<1>1. ScheduleInv => KeyInsidePtt
  BY DEF ScheduleInv
<1>2. QED
  BY <1>1, ScheduleInvariant, PTL

(* No terminal path leaves PTT up without a pending release.               *)
THEOREM PttIsNeverStranded == SchedulerSpec => []PttNeverStranded
<1>1. ScheduleInv => PttNeverStranded
  BY DEF ScheduleInv
<1>2. QED
  BY <1>1, ScheduleInvariant, PTL

(* Observed at the calls, KEY is down no longer than the continuous limit. *)
THEOREM KeyDownIsBounded == SchedulerSpec => []KeyDownWithinLimit
<1>1. ScheduleInv => KeyDownWithinLimit
  <2>1. SUFFICES ASSUME ScheduleInv, sch.key PROVE sch.last - keyedAt <= MaxKeyDown
    BY DEF KeyDownWithinLimit
  <2>2. sch.last \in Nat /\ sch.next \in Nat /\ keyedAt \in Nat
    BY <2>1, LimitsAssumption DEF ScheduleInv, SchedulerTypeOK, Schedulers, Time
  <2>3. QED
    BY <2>1, <2>2, LimitsAssumption DEF ScheduleInv
<1>2. QED
  BY <1>1, ScheduleInvariant, PTL

LEMMA SetNextKeepsPtt ==
  ASSUME NEW s \in Schedulers, NEW base \in Time, NEW delay \in Nat
  PROVE  SetNextTransition(s, base, delay).ptt = s.ptt
BY DEF SetNextTransition, SchedulerFault, EnterTerminal, Schedulers

(* While a schedule runs, only the end of the hang takes PTT down.         *)
LEMMA CrossBoundaryLinesMove ==
  ASSUME NEW s \in Schedulers, LineInv(s), s.state = "Running"
  PROVE  \/ CrossBoundary(s, s.next).ptt = s.ptt
         \/ CrossBoundary(s, s.next).key = s.key /\ ~s.key
<1>1. /\ s.config \in Configs /\ s.plan \in Plans /\ s.next \in Time /\ s.span \in Nat
      /\ s.phase \in Phases /\ s.config.hang \in Nat
  BY DEF Schedulers, Configs
<1>2. ValidatePlan(s.config, s.plan) /\ s.phase # "None"
  BY DEF LineInv
<1>3. Len(s.plan.spans) \in Nat \ {0}
  BY <1>1, <1>2, ValidPlanSpans
<1>4. ASSUME NEW i \in Nat, i + 1 \in 1..Len(s.plan.spans)
      PROVE  BeginSpan(s, i, s.next).ptt = s.ptt
  <2> DEFINE r == [s EXCEPT !.phase = "Spans", !.span = i, !.key = s.plan.spans[i + 1].key]
  <2>1. s.plan.spans[i + 1].key \in BOOLEAN /\ SpanTicks(s.plan, i + 1) \in Nat
    BY <1>1, <1>2, <1>4, ValidPlanSpans
  <2>2. r \in Schedulers /\ r.ptt = s.ptt
    BY <2>1 DEF Schedulers, Phases
  <2>3. BeginSpan(s, i, s.next) = SetNextTransition(r, s.next, SpanTicks(s.plan, i + 1))
    BY DEF BeginSpan
  <2> HIDE DEF r
  <2>4. QED
    BY <1>1, <2>1, <2>2, <2>3, SetNextKeepsPtt
<1>5. CASE s.phase = "Lead"
  <2>1. CrossBoundary(s, s.next) = BeginSpan(s, 0, s.next)
    BY <1>5 DEF CrossBoundary
  <2>2. ASSUME NEW i \in Nat, i = 0 PROVE BeginSpan(s, i, s.next).ptt = s.ptt
    <3>1. i + 1 \in 1..Len(s.plan.spans)
      BY <1>3, <2>2
    <3>2. QED
      BY <3>1, <1>4
  <2>3. QED
    BY <2>1, <2>2
<1>6. CASE s.phase = "Spans" /\ s.span + 1 < Len(s.plan.spans)
  <2>1. CrossBoundary(s, s.next) = BeginSpan(s, s.span + 1, s.next)
    BY <1>1, <1>3, <1>6 DEF CrossBoundary
  <2>2. s.span + 1 \in Nat /\ (s.span + 1) + 1 \in 1..Len(s.plan.spans)
    BY <1>1, <1>3, <1>6
  <2>3. QED
    BY <2>1, <2>2, <1>4
<1>7. CASE s.phase = "Spans" /\ s.span + 1 >= Len(s.plan.spans)
  <2> DEFINE r == [s EXCEPT !.phase = "Hang", !.span = @ + 1, !.key = FALSE]
  <2>1. r \in Schedulers /\ r.ptt = s.ptt
    <3>1. s.span + 1 \in Nat /\ "Hang" \in Phases
      BY <1>1 DEF Phases
    <3>2. QED
      BY <3>1 DEF Schedulers
  <2>2. CrossBoundary(s, s.next) = SetNextTransition(r, s.next, s.config.hang)
    BY <1>1, <1>3, <1>7 DEF CrossBoundary, BeginHang
  <2> HIDE DEF r
  <2>3. QED
    BY <1>1, <2>1, <2>2, SetNextKeepsPtt
<1>8. CASE s.phase = "Hang"
  <2>1. CrossBoundary(s, s.next) = Complete(s)
    BY <1>8 DEF CrossBoundary
  <2>2. Complete(s).key = s.key
    BY DEF Complete, Schedulers
  <2>3. ~s.key
    BY <1>8 DEF LineInv
  <2>4. QED
    BY <2>1, <2>2, <2>3
<1>9. QED
  BY <1>1, <1>2, <1>3, <1>5, <1>6, <1>7, <1>8 DEF Phases

LEMMA AdvanceMovesOneLine ==
  ASSUME NEW s \in Schedulers, LineInv(s), NEW now \in Time
  PROVE  \/ Advance(s, now).ptt = s.ptt
         \/ Advance(s, now).key = s.key /\ ~s.key
<1> DEFINE r == [s EXCEPT !.last = now]
<1>1. r \in Schedulers
  BY DEF Schedulers
<1>2. /\ r.state = s.state /\ r.phase = s.phase /\ r.key = s.key /\ r.plan = s.plan
      /\ r.config = s.config /\ r.ptt = s.ptt /\ r.pending = s.pending
      /\ r.span = s.span /\ r.next = s.next
  BY DEF Schedulers
<1>3. s.next \in Nat /\ s.last \in Nat /\ now \in Nat
  BY LimitsAssumption DEF Schedulers, Time
<1> HIDE DEF r
<1>4. LineInv(r)
  BY <1>2 DEF LineInv
<1>5. SchedulerFault(s).ptt = s.ptt /\ SchedulerFault(r).ptt = r.ptt
  BY <1>1 DEF SchedulerFault, EnterTerminal, Schedulers
<1>6. CASE s.state # "Running" /\ s.pending
  <2>1. Advance(s, now) = ReleasePending(s)
    BY <1>6 DEF Advance
  <2>2. ReleasePending(s).key = s.key
    BY DEF ReleasePending, Schedulers
  <2>3. QED
    BY <1>6, <2>1, <2>2 DEF LineInv
<1>7. CASE s.state # "Running" /\ ~s.pending
  BY <1>7 DEF Advance
<1>8. CASE s.state = "Running" /\ now < s.last
  BY <1>3, <1>5, <1>8 DEF Advance
<1>9. CASE s.state = "Running" /\ s.last <= now /\ now < s.next
  <2>1. Advance(s, now) = r
    BY <1>3, <1>9 DEF Advance, r
  <2>2. QED
    BY <1>2, <2>1
<1>10. CASE s.state = "Running" /\ s.last <= now /\ s.next <= now
  <2>1. CASE now - s.next > s.config.maxLateness
    <3>1. Advance(s, now) = SchedulerFault(r)
      BY <1>3, <1>10, <2>1 DEF Advance, r
    <3>2. QED
      BY <1>2, <1>5, <3>1
  <2>2. CASE ~(now - s.next > s.config.maxLateness)
    <3>1. Advance(s, now) = CrossBoundary(r, r.next)
      BY <1>2, <1>3, <1>10, <2>2 DEF Advance, r
    <3>2. \/ CrossBoundary(r, r.next).ptt = r.ptt
          \/ CrossBoundary(r, r.next).key = r.key /\ ~r.key
      BY <1>1, <1>2, <1>4, <1>10, CrossBoundaryLinesMove
    <3>3. QED
      BY <1>2, <3>1, <3>2
  <2>3. QED
    BY <2>1, <2>2
<1>11. QED
  BY <1>3, <1>6, <1>7, <1>8, <1>9, <1>10

(* No call moves both lines, and PTT falls only in a call that found KEY   *)
(* inactive: the promise the class comment makes about every path.         *)
THEOREM OneLineAtATime == SchedulerSpec => OneLinePerCall
<1>1. ScheduleInv /\ [SchedulerNext]_schedulerVars => [OneLineStep]_schedulerVars
  <2> SUFFICES ASSUME ScheduleInv, SchedulerNext PROVE OneLineStep
    BY DEF OneLineStep
  <2>1. sch \in Schedulers /\ LineInv(sch)
    BY DEF ScheduleInv, SchedulerTypeOK, LineInv, KeyInsidePtt, PttNeverStranded, KeyFollowsPlan
  <2>2. sch.ptt \in BOOLEAN /\ sch.key \in BOOLEAN
    BY <2>1 DEF Schedulers
  <2>3. SUFFICES sch'.ptt = sch.ptt \/ (sch'.key = sch.key /\ ~sch.key)
    BY <2>2, <2>3 DEF OneLineStep
  <2>4. ASSUME NEW plan \in SomePlans, NEW now \in Time, DoStart(plan, now)
        PROVE  sch'.ptt = sch.ptt \/ (sch'.key = sch.key /\ ~sch.key)
    <3>1. SchedulerFault(sch).ptt = sch.ptt
      BY <2>1 DEF SchedulerFault, EnterTerminal, Schedulers
    <3>2. CASE sch.state # "Idle" \/ ~ValidatePlan(sch.config, plan)
                 \/ ~FitsClock(sch.config, plan, now)
      <4>1. sch' = SchedulerFault(sch)
        BY <2>4, <3>2 DEF DoStart, Start
      <4>2. QED
        BY <3>1, <4>1
    <3>3. CASE ~(sch.state # "Idle" \/ ~ValidatePlan(sch.config, plan)
                   \/ ~FitsClock(sch.config, plan, now))
      <4>1. plan \in Plans
        BY InputsAssumption
      <4>2. ~sch'.key /\ sch' \in Schedulers
        BY <2>1, <2>4, <4>1, StartLines, StartType DEF DoStart
      <4>3. ~sch.key
        BY <2>1, <3>3 DEF LineInv
      <4>4. sch'.key \in BOOLEAN
        BY <4>2 DEF Schedulers
      <4>5. QED
        BY <2>2, <4>2, <4>3, <4>4
    <3>4. QED
      BY <3>2, <3>3
  <2>5. ASSUME NEW now \in Time, DoAdvance(now)
        PROVE  sch'.ptt = sch.ptt \/ (sch'.key = sch.key /\ ~sch.key)
    BY <2>1, <2>5, AdvanceMovesOneLine DEF DoAdvance
  <2>6. CASE DoCancel
    BY <2>1, <2>6 DEF DoCancel, Cancel, EnterTerminal, Schedulers
  <2>7. CASE DoEmergencyRelease
    BY <2>1, <2>7 DEF DoEmergencyRelease, EmergencyRelease, EnterTerminal, Schedulers
  <2>8. CASE DoReset
    <3>1. CASE Resettable(sch)
      BY <2>2, <2>8, <3>1 DEF DoReset, Reset, Resettable, NewScheduler
    <3>2. CASE ~Resettable(sch)
      BY <2>8, <3>2 DEF DoReset, Reset
    <3>3. QED
      BY <3>1, <3>2
  <2>9. QED
    BY <2>4, <2>5, <2>6, <2>7, <2>8 DEF SchedulerNext
<1>2. QED
  BY <1>1, ScheduleInvariant, PTL DEF SchedulerSpec, OneLinePerCall
-----------------------------------------------------------------------------
(* The schedule's arithmetic: the units before a boundary, span by span.   *)

LEMMA UnitsAddUp ==
  ASSUME NEW plan \in Plans
  PROVE  /\ UnitsUpTo(plan, 0) = 0
         /\ \A k \in 1..Len(plan.spans) :
              UnitsUpTo(plan, k) = UnitsUpTo(plan, k - 1) + plan.spans[k].units
         /\ \A k \in 0..Len(plan.spans) : UnitsUpTo(plan, k) \in Nat
  <1> DEFINE n == Len(plan.spans)
             units(k) == plan.spans[k].units
             Body(g) == [k \in 0..n |-> IF k = 0 THEN 0 ELSE g[k - 1] + plan.spans[k].units]
             step == [k \in 1..n |-> [q \in Nat |-> q + units(k)]]
             found == CHOOSE sum : sum = Body(sum)
  <1>1. n \in Nat /\ 0 \in Nat /\ \A k \in 1..n : units(k) \in Nat
    <2>1. plan.spans \in Seq(Spans)
      BY DEF Plans
    <2>2. \A k \in 1..n : plan.spans[k] \in Spans
      BY <2>1
    <2>3. \A x \in Spans : x.units \in Nat
      BY DEF Spans
    <2> QED
      BY <2>1, <2>2, <2>3
  <1>2. step \in [1..n -> [Nat -> Nat]]
    BY <1>1
  <1>3. \A k \in 1..n : \A q \in Nat : step[k][q] = q + units(k)
    OBVIOUS
  <1>4. ASSUME NEW g PROVE Body(g)[0] = 0 /\ \A k \in 1..n : Body(g)[k] = g[k - 1] + units(k)
    BY <1>1
  <1>5. ASSUME NEW g, g = [k \in 0..n |-> g[k]], g[0] = Body(g)[0],
               \A k \in 1..n : g[k] = Body(g)[k]
        PROVE  g = Body(g)
    <2> DEFINE b == Body(g)
    <2>1. b = [k \in 0..n |-> b[k]] /\ \A k \in 0..n : k = 0 \/ k \in 1..n
      BY <1>1
    <2> HIDE DEF b
    <2> QED
      BY <1>5, <2>1 DEF b
  <1>6. \A k : UnitsUpTo(plan, k) = found[k]
    BY DEF UnitsUpTo
  <1> HIDE DEF step, n, Body, units
  <1>7. PICK f \in [0..n -> Nat] : f[0] = 0 /\ \A k \in 1..n : f[k] = step[k][f[k - 1]]
    <2> DEFINE V == Nat
               base == 0
    <2>1. n \in Nat /\ base \in V /\ step \in [1..n -> [V -> V]]
      BY <1>1, <1>2
    <2> HIDE DEF V, base
    <2>2. \E f \in [0..n -> V] : IsRecursion(f, base, step, n)
      BY <2>1, RecursionUpTo
    <2> QED
      BY <2>2 DEF IsRecursion, V, base
  <1>8. f = Body(f)
    <2>1. ASSUME NEW k \in 1..n PROVE f[k] = f[k - 1] + units(k)
      <3>1. k - 1 \in 0..n
        BY <1>1
      <3> QED
        BY <1>3, <1>7, <3>1
    <2> QED
      BY <1>4, <1>5, <1>7, <2>1
  <1>9. found = Body(found)
    BY <1>8
  <1> HIDE DEF found
  <1>10. found[0] = 0 /\ \A k \in 1..n : found[k] = found[k - 1] + units(k)
    <2>1. Body(found)[0] = 0 /\ \A k \in 1..n : Body(found)[k] = found[k - 1] + units(k)
      BY <1>4
    <2> QED
      BY <1>9, <2>1
  <1>11. \A k \in 0..n : found[k] \in Nat
    <2> DEFINE G == {k \in 0..n : found[k] \in Nat}
    <2>1. 0 \in G /\ \A k \in 1..n : k - 1 \in G => k \in G
      BY <1>1, <1>10
    <2> HIDE DEF G
    <2>2. 0..n \subseteq G
      BY <1>1, <2>1, InductionUpTo
    <2> QED
      BY <2>2 DEF G
  <1> QED
    BY <1>6, <1>10, <1>11 DEF n, units

(* When the boundary that a schedule waits for falls due. *)
DueOf(s, from) ==
  LET lead == from + s.config.lead
  IN CASE s.phase = "Lead" -> lead
       [] s.phase = "Spans" -> lead + UnitsUpTo(s.plan, s.span + 1) * s.plan.dot
       [] s.phase = "Hang" -> lead + s.plan.total + s.config.hang

OnTime(s, from) == s.state = "Running" => s.next = DueOf(s, from)

LEMMA ASpanFurther ==
  ASSUME NEW plan \in Plans, NEW k \in 1..Len(plan.spans)
  PROVE  /\ UnitsUpTo(plan, k) * plan.dot = UnitsUpTo(plan, k - 1) * plan.dot + SpanTicks(plan, k)
         /\ UnitsUpTo(plan, k) * plan.dot \in Nat /\ UnitsUpTo(plan, k - 1) * plan.dot \in Nat
         /\ SpanTicks(plan, k) \in Nat
  <1>1. plan.dot \in Nat /\ plan.spans \in Seq(Spans)
    BY DEF Plans
  <1>2. plan.spans[k] \in Spans
    BY <1>1
  <1>3. plan.spans[k].units \in Nat
    BY <1>2 DEF Spans
  <1>4. k \in 0..Len(plan.spans) /\ k - 1 \in 0..Len(plan.spans)
    BY <1>1
  <1>5. /\ UnitsUpTo(plan, k) = UnitsUpTo(plan, k - 1) + plan.spans[k].units
        /\ UnitsUpTo(plan, k) \in Nat /\ UnitsUpTo(plan, k - 1) \in Nat
    BY <1>4, UnitsAddUp
  <1>6. \A a, b, d \in Nat : (a + b) * d = a * d + b * d /\ a * d \in Nat /\ b * d \in Nat
    OBVIOUS
  <1> DEFINE before == UnitsUpTo(plan, k - 1)
             span == plan.spans[k].units
             dot == plan.dot
  <1>7. before \in Nat /\ span \in Nat /\ dot \in Nat /\ before + span \in Nat
    BY <1>1, <1>3, <1>5
  <1> HIDE DEF before, span, dot
  <1>8. /\ (before + span) * dot = before * dot + span * dot
        /\ before * dot \in Nat /\ span * dot \in Nat /\ (before + span) * dot \in Nat
    BY <1>6, <1>7
  <1>9. UnitsUpTo(plan, k) = before + span
    BY <1>5 DEF before, span
  <1> QED
    BY <1>8, <1>9 DEF SpanTicks, before, span, dot

(* A transition that was set counts from the boundary it was set at. *)
LEMMA SetNextCounts ==
  ASSUME NEW s \in Schedulers, NEW base \in Time, NEW delay \in Nat
  PROVE  LET t == SetNextTransition(s, base, delay)
         IN t.state = "Running" =>
              /\ t.next = base + delay
              /\ t.config = s.config /\ t.plan = s.plan /\ t.phase = s.phase /\ t.span = s.span
<1>1. CASE base > MaxU64 - delay
  <2>1. SetNextTransition(s, base, delay).state = "Fault"
    BY <1>1 DEF SetNextTransition, SchedulerFault, EnterTerminal, Schedulers
  <2> QED
    BY <2>1
<1>2. CASE ~(base > MaxU64 - delay)
  <2>1. SetNextTransition(s, base, delay) = [s EXCEPT !.next = base + delay]
    BY <1>2 DEF SetNextTransition
  <2> QED
    BY <2>1 DEF Schedulers
<1> QED
  BY <1>1, <1>2

LEMMA StartOnTime ==
  ASSUME NEW s \in Schedulers, NEW plan \in Plans, NEW now \in Time
  PROVE  OnTime(Start(s, plan, now), now)
<1> DEFINE r == [s EXCEPT !.plan = plan, !.state = "Running", !.phase = "Lead",
                          !.ptt = TRUE, !.key = FALSE, !.last = now, !.span = 0,
                          !.pending = FALSE]
           t == SetNextTransition(r, now, s.config.lead)
<1>1. CASE s.state # "Idle" \/ ~ValidatePlan(s.config, plan) \/ ~FitsClock(s.config, plan, now)
  <2>1. Start(s, plan, now).state = "Fault"
    BY <1>1 DEF Start, SchedulerFault, EnterTerminal, Schedulers
  <2> QED
    BY <2>1 DEF OnTime
<1>2. CASE ~(s.state # "Idle" \/ ~ValidatePlan(s.config, plan) \/ ~FitsClock(s.config, plan, now))
  <2>1. Start(s, plan, now) = t
    BY <1>2 DEF Start
  <2>2. r \in Schedulers /\ s.config.lead \in Nat
    BY DEF Schedulers, States, Phases, Configs
  <2>3. r.phase = "Lead" /\ r.config = s.config
    BY DEF Schedulers
  <2> HIDE DEF r
  <2>4. t.state = "Running" => t.next = now + s.config.lead /\ t.config = s.config /\ t.phase = "Lead"
    BY <2>2, <2>3, SetNextCounts
  <2> HIDE DEF t
  <2> QED
    BY <2>1, <2>4 DEF OnTime, DueOf
<1> QED
  BY <1>1, <1>2

LEMMA BeginSpanOnTime ==
  ASSUME NEW s \in Schedulers, NEW from \in Time, OnTime(s, from), s.state = "Running",
         NEW i \in Nat, i + 1 \in 1..Len(s.plan.spans),
         (s.phase = "Lead" /\ i = 0) \/ (s.phase = "Spans" /\ i = s.span + 1)
  PROVE  OnTime(BeginSpan(s, i, s.next), from)
<1> DEFINE r == [s EXCEPT !.phase = "Spans", !.span = i, !.key = s.plan.spans[i + 1].key]
           t == BeginSpan(s, i, s.next)
           lead == from + s.config.lead
<1>1. /\ s.plan \in Plans /\ s.next \in Time /\ s.config.lead \in Nat /\ from \in Nat
      /\ s.plan.dot \in Nat
  BY LimitsAssumption DEF Schedulers, Configs, Time, Plans
<1>2. s.plan.spans[i + 1].key \in BOOLEAN
  <2>1. s.plan.spans \in Seq(Spans)
    BY <1>1 DEF Plans
  <2>2. s.plan.spans[i + 1] \in Spans
    BY <2>1
  <2> QED
    BY <2>2 DEF Spans
<1>3. /\ UnitsUpTo(s.plan, i + 1) * s.plan.dot
           = UnitsUpTo(s.plan, i) * s.plan.dot + SpanTicks(s.plan, i + 1)
      /\ UnitsUpTo(s.plan, i + 1) * s.plan.dot \in Nat /\ UnitsUpTo(s.plan, i) * s.plan.dot \in Nat
      /\ SpanTicks(s.plan, i + 1) \in Nat
  <2>1. (i + 1) - 1 = i
    OBVIOUS
  <2> QED
    BY <1>1, <2>1, ASpanFurther
<1>4. s.next = lead + UnitsUpTo(s.plan, i) * s.plan.dot
  <2>1. CASE s.phase = "Lead" /\ i = 0
    <3>1. UnitsUpTo(s.plan, 0) = 0
      BY <1>1, UnitsAddUp
    <3>2. s.next = lead
      BY <2>1 DEF OnTime, DueOf
    <3>3. UnitsUpTo(s.plan, i) * s.plan.dot = 0
      BY <1>1, <2>1, <3>1
    <3> QED
      BY <1>1, <3>2, <3>3
  <2>2. CASE s.phase = "Spans" /\ i = s.span + 1
    BY <2>2 DEF OnTime, DueOf
  <2> QED
    BY <2>1, <2>2
<1>5. r \in Schedulers /\ r.phase = "Spans" /\ r.span = i /\ r.plan = s.plan /\ r.config = s.config
  BY <1>2 DEF Schedulers, Phases
<1>6. t = SetNextTransition(r, s.next, SpanTicks(s.plan, i + 1))
  BY DEF BeginSpan
<1> HIDE DEF r, t
<1>7. t.state = "Running" =>
        /\ t.next = s.next + SpanTicks(s.plan, i + 1)
        /\ t.config = s.config /\ t.plan = s.plan /\ t.phase = "Spans" /\ t.span = i
  <2> DEFINE delay == SpanTicks(s.plan, i + 1)
             base == s.next
  <2>1. r \in Schedulers /\ base \in Time /\ delay \in Nat /\ t = SetNextTransition(r, base, delay)
    BY <1>1, <1>3, <1>5, <1>6
  <2> HIDE DEF delay, base
  <2>2. t.state = "Running" =>
          /\ t.next = base + delay
          /\ t.config = r.config /\ t.plan = r.plan /\ t.phase = r.phase /\ t.span = r.span
    BY <2>1, SetNextCounts
  <2> QED
    BY <1>5, <2>2 DEF delay, base
<1>8. t.state = "Running" => t.next = lead + UnitsUpTo(s.plan, i + 1) * s.plan.dot
  <2> DEFINE a == UnitsUpTo(s.plan, i) * s.plan.dot
             b == UnitsUpTo(s.plan, i + 1) * s.plan.dot
             d == SpanTicks(s.plan, i + 1)
  <2>1. a \in Nat /\ b \in Nat /\ d \in Nat /\ lead \in Nat /\ b = a + d /\ s.next = lead + a
    BY <1>1, <1>3, <1>4
  <2>2. t.state = "Running" => t.next = s.next + d
    BY <1>7
  <2> HIDE DEF a, b, d, lead
  <2>3. t.state = "Running" => t.next = lead + b
    BY <2>1, <2>2
  <2> QED
    BY <2>3 DEF b
<1> QED
  BY <1>7, <1>8 DEF OnTime, DueOf, t

LEMMA CrossBoundaryOnTime ==
  ASSUME NEW s \in Schedulers, NEW from \in Time, LineInv(s), OnTime(s, from), s.state = "Running"
  PROVE  OnTime(CrossBoundary(s, s.next), from)
<1>1. s.config \in Configs /\ s.plan \in Plans /\ s.next \in Time /\ s.span \in Nat
      /\ s.phase \in Phases /\ s.config.hang \in Nat /\ s.config.lead \in Nat
  BY DEF Schedulers, Configs
<1>2. ValidatePlan(s.config, s.plan) /\ s.phase # "None"
  BY DEF LineInv
<1>3. Len(s.plan.spans) \in Nat \ {0}
  BY <1>1, <1>2, ValidPlanSpans
<1>4. CASE s.phase = "Lead"
  <2>1. CrossBoundary(s, s.next) = BeginSpan(s, 0, s.next)
    BY <1>4 DEF CrossBoundary
  <2>2. ASSUME NEW i \in Nat, i = 0 PROVE OnTime(BeginSpan(s, i, s.next), from)
    <3>1. i + 1 \in 1..Len(s.plan.spans) /\ s.phase = "Lead" /\ i = 0
      BY <1>3, <1>4, <2>2
    <3> QED
      BY <3>1, BeginSpanOnTime
  <2> QED
    BY <2>1, <2>2
<1>5. CASE s.phase = "Spans" /\ s.span + 1 < Len(s.plan.spans)
  <2>1. CrossBoundary(s, s.next) = BeginSpan(s, s.span + 1, s.next)
    BY <1>1, <1>3, <1>5 DEF CrossBoundary
  <2>2. s.span + 1 \in Nat /\ (s.span + 1) + 1 \in 1..Len(s.plan.spans)
    BY <1>1, <1>3, <1>5
  <2> QED
    BY <1>5, <2>1, <2>2, BeginSpanOnTime
<1>6. CASE s.phase = "Spans" /\ s.span + 1 >= Len(s.plan.spans)
  <2> DEFINE r == [s EXCEPT !.phase = "Hang", !.span = @ + 1, !.key = FALSE]
             t == CrossBoundary(s, s.next)
  <2>1. s.span + 1 = Len(s.plan.spans)
    BY <1>1, <1>3, <1>6 DEF LineInv
  <2>2. UnitsUpTo(s.plan, s.span + 1) * s.plan.dot = s.plan.total
    BY <1>2, <2>1 DEF ValidatePlan
  <2>3. s.next = from + s.config.lead + s.plan.total
    BY <1>6, <2>2 DEF OnTime, DueOf
  <2>4. r \in Schedulers /\ r.phase = "Hang" /\ r.plan = s.plan /\ r.config = s.config
    <3>1. s.span + 1 \in Nat /\ "Hang" \in Phases
      BY <1>1 DEF Phases
    <3> QED
      BY <3>1 DEF Schedulers
  <2>5. t = SetNextTransition(r, s.next, s.config.hang)
    BY <1>1, <1>3, <1>6 DEF CrossBoundary, BeginHang
  <2> HIDE DEF r, t
  <2>6. t.state = "Running" =>
          /\ t.next = s.next + s.config.hang
          /\ t.config = s.config /\ t.plan = s.plan /\ t.phase = "Hang"
    BY <1>1, <2>4, <2>5, SetNextCounts
  <2> QED
    BY <2>3, <2>6 DEF OnTime, DueOf, t
<1>7. CASE s.phase = "Hang"
  <2>1. CrossBoundary(s, s.next).state = "Completed"
    BY <1>7 DEF CrossBoundary, Complete, Schedulers
  <2> QED
    BY <2>1 DEF OnTime
<1> QED
  BY <1>1, <1>2, <1>3, <1>4, <1>5, <1>6, <1>7 DEF Phases

LEMMA AdvanceOnTime ==
  ASSUME NEW s \in Schedulers, NEW from \in Time, LineInv(s), OnTime(s, from), NEW now \in Time
  PROVE  OnTime(Advance(s, now), from)
<1> DEFINE r == [s EXCEPT !.last = now]
<1>1. r \in Schedulers
  BY DEF Schedulers
<1>2. /\ r.state = s.state /\ r.phase = s.phase /\ r.key = s.key /\ r.plan = s.plan
      /\ r.config = s.config /\ r.ptt = s.ptt /\ r.pending = s.pending
      /\ r.span = s.span /\ r.next = s.next
  BY DEF Schedulers
<1>3. s.next \in Nat /\ s.last \in Nat /\ now \in Nat
  BY LimitsAssumption DEF Schedulers, Time
<1>4. SchedulerFault(s).state = "Fault" /\ SchedulerFault(r).state = "Fault"
  BY <1>1 DEF SchedulerFault, EnterTerminal, Schedulers
<1> HIDE DEF r
<1>5. LineInv(r) /\ OnTime(r, from)
  BY <1>2 DEF LineInv, OnTime, DueOf
<1>6. CASE s.state # "Running"
  <2>1. Advance(s, now).state = s.state
    BY <1>6 DEF Advance, ReleasePending, Schedulers
  <2> QED
    BY <1>6, <2>1 DEF OnTime
<1>7. CASE s.state = "Running" /\ now < s.last
  <2>1. Advance(s, now) = SchedulerFault(s)
    BY <1>3, <1>7 DEF Advance
  <2> QED
    BY <1>4, <2>1 DEF OnTime
<1>8. CASE s.state = "Running" /\ s.last <= now /\ now < s.next
  <2>1. Advance(s, now) = r
    BY <1>3, <1>8 DEF Advance, r
  <2> QED
    BY <1>5, <2>1
<1>9. CASE s.state = "Running" /\ s.last <= now /\ s.next <= now
  <2>1. CASE now - s.next > s.config.maxLateness
    <3>1. Advance(s, now) = SchedulerFault(r)
      BY <1>3, <1>9, <2>1 DEF Advance, r
    <3> QED
      BY <1>4, <3>1 DEF OnTime
  <2>2. CASE ~(now - s.next > s.config.maxLateness)
    <3>1. Advance(s, now) = CrossBoundary(r, r.next)
      BY <1>2, <1>3, <1>9, <2>2 DEF Advance, r
    <3> QED
      BY <1>1, <1>2, <1>5, <1>9, <3>1, CrossBoundaryOnTime
  <2> QED
    BY <2>1, <2>2
<1> QED
  BY <1>3, <1>6, <1>7, <1>8, <1>9

(* However late the calls within the budget come, every boundary is due at *)
(* the start plus the exact durations planned before it.                   *)
THEOREM DriftNeverAccumulates == SchedulerSpec => []NoCumulativeDrift
<1>1. NoCumulativeDrift <=> OnTime(sch, origin)
  BY DEF NoCumulativeDrift, OnTime, DueTime, DueOf
<1>2. SchedulerInit => NoCumulativeDrift
  BY DEF SchedulerInit, NewScheduler, NoCumulativeDrift
<1>3. ScheduleInv /\ NoCumulativeDrift /\ [SchedulerNext]_schedulerVars => NoCumulativeDrift'
  <2> SUFFICES ASSUME ScheduleInv, OnTime(sch, origin), [SchedulerNext]_schedulerVars
               PROVE  OnTime(sch', origin')
    BY DEF NoCumulativeDrift, OnTime, DueTime, DueOf
  <2>1. sch \in Schedulers /\ LineInv(sch) /\ origin \in Time
    BY DEF ScheduleInv, SchedulerTypeOK, LineInv, KeyInsidePtt, PttNeverStranded, KeyFollowsPlan
  <2>2. ASSUME NEW plan \in SomePlans, NEW now \in Time, DoStart(plan, now)
        PROVE  OnTime(sch', origin')
    <3>1. plan \in Plans
      BY InputsAssumption
    <3>2. OnTime(sch', now)
      BY <2>1, <2>2, <3>1, StartOnTime DEF DoStart
    <3>3. sch'.state = "Running" => origin' = now
      BY <2>2 DEF DoStart
    <3> QED
      BY <3>2, <3>3 DEF OnTime
  <2>3. ASSUME NEW now \in Time, DoAdvance(now)
        PROVE  OnTime(sch', origin')
    BY <2>1, <2>3, AdvanceOnTime DEF DoAdvance
  <2>4. ASSUME sch'.state # "Running" \/ sch' = sch, origin' = origin
        PROVE  OnTime(sch', origin')
    BY <2>4 DEF OnTime, DueOf
  <2>5. CASE DoCancel
    BY <2>1, <2>4, <2>5 DEF DoCancel, Cancel, EnterTerminal, Schedulers
  <2>6. CASE DoEmergencyRelease
    BY <2>1, <2>4, <2>6 DEF DoEmergencyRelease, EmergencyRelease, EnterTerminal, Schedulers
  <2>7. CASE DoReset
    BY <2>1, <2>4, <2>7 DEF DoReset, Reset, NewScheduler
  <2>8. CASE UNCHANGED schedulerVars
    BY <2>4, <2>8 DEF schedulerVars
  <2> QED
    BY <2>2, <2>3, <2>5, <2>6, <2>7, <2>8 DEF SchedulerNext
<1>4. QED
  BY <1>2, <1>3, ScheduleInvariant, PTL DEF SchedulerSpec

-----------------------------------------------------------------------------
(***************************************************************************)
(* For every set of callsigns and messages, every normalization, and every *)
(* pair of deadlines: the guard's invariant, and what a transmission needs.*)
(***************************************************************************)

LEMMA InitGuardInv == GuardInit => GuardInv
BY GuardAssumption
DEF GuardInit, GuardInv, GuardTypeOK, NewGuard, Guards, TransmitStates, OutputStates, Clock

-----------------------------------------------------------------------------
(* The helpers every operation is made of: what they set and what they     *)
(* leave alone.                                                            *)

LEMMA ForgetMessageFacts ==
  ASSUME NEW g \in Guards
  PROVE  LET r == ForgetMessage(g)
         IN /\ r \in Guards
            /\ r.state = g.state /\ r.call = g.call
            /\ r.message = NoMessage /\ r.messageConfirmed = FALSE
            /\ r.keyDown = g.keyDown /\ r.keyDownSince = g.keyDownSince
            /\ r.tuneReturn = g.tuneReturn
BY DEF ForgetMessage, Guards

LEMMA ForgetQsoFacts ==
  ASSUME NEW g \in Guards
  PROVE  LET r == ForgetQso(g)
         IN /\ r \in Guards
            /\ r.state = g.state /\ r.call = NoCall
            /\ r.message = NoMessage /\ r.messageConfirmed = FALSE
            /\ r.keyDown = g.keyDown /\ r.keyDownSince = g.keyDownSince
            /\ r.tuneReturn = g.tuneReturn
<1> DEFINE f == ForgetMessage(g)
<1>1. /\ f \in Guards
      /\ f.state = g.state
      /\ f.message = NoMessage /\ f.messageConfirmed = FALSE
      /\ f.keyDown = g.keyDown /\ f.keyDownSince = g.keyDownSince
      /\ f.tuneReturn = g.tuneReturn
  BY ForgetMessageFacts
<1>2. ForgetQso(g) = [f EXCEPT !.call = NoCall]
  BY DEF ForgetQso
<1> HIDE DEF f
<1>3. QED
  BY <1>1, <1>2 DEF Guards

LEMMA KeyReleasedFacts ==
  ASSUME NEW g \in Guards
  PROVE  LET r == KeyReleased(g)
         IN /\ r \in Guards
            /\ r.state = g.state /\ r.call = g.call
            /\ r.message = g.message /\ r.messageConfirmed = g.messageConfirmed
            /\ r.keyDown = FALSE /\ r.tuneReturn = g.tuneReturn
<1>1. 0 \in Clock
  BY GuardAssumption DEF Clock
<1>2. QED
  BY <1>1 DEF KeyReleased, Guards

LEMMA EnterFacts ==
  ASSUME NEW g \in Guards, NEW state \in TransmitStates
  PROVE  LET r == Enter(g, state)
         IN /\ r \in Guards
            /\ r.state = state /\ r.call = g.call
            /\ r.message = g.message /\ r.messageConfirmed = g.messageConfirmed
            /\ r.keyDown = g.keyDown /\ r.keyDownSince = g.keyDownSince
            /\ r.tuneReturn = g.tuneReturn
BY DEF Enter, Guards

LEMMA ForgottenQsoFacts ==
  ASSUME NEW g \in Guards, NEW state \in TransmitStates
  PROVE  LET r == Enter(ForgetQso(g), state)
         IN /\ r \in Guards
            /\ r.state = state /\ r.call = NoCall
            /\ r.message = NoMessage /\ r.messageConfirmed = FALSE
            /\ r.keyDown = g.keyDown /\ r.tuneReturn = g.tuneReturn
<1> DEFINE f == ForgetQso(g)
<1>1. /\ f \in Guards /\ f.call = NoCall
      /\ f.message = NoMessage /\ f.messageConfirmed = FALSE
      /\ f.keyDown = g.keyDown /\ f.tuneReturn = g.tuneReturn
  BY ForgetQsoFacts
<1> HIDE DEF f
<1>2. LET r == Enter(f, state)
      IN /\ r \in Guards
         /\ r.state = state /\ r.call = NoCall
         /\ r.message = NoMessage /\ r.messageConfirmed = FALSE
         /\ r.keyDown = g.keyDown /\ r.tuneReturn = g.tuneReturn
  BY <1>1, EnterFacts
<1>3. QED
  BY <1>2 DEF f

LEMMA UnkeyedEntryFacts ==
  ASSUME NEW g \in Guards, NEW state \in TransmitStates
  PROVE  LET r == Enter(KeyReleased(g), state)
         IN /\ r \in Guards
            /\ r.state = state /\ r.call = g.call
            /\ r.message = g.message /\ r.messageConfirmed = g.messageConfirmed
            /\ r.keyDown = FALSE /\ r.tuneReturn = g.tuneReturn
<1> DEFINE k == KeyReleased(g)
<1>1. /\ k \in Guards /\ k.call = g.call
      /\ k.message = g.message /\ k.messageConfirmed = g.messageConfirmed
      /\ k.keyDown = FALSE /\ k.tuneReturn = g.tuneReturn
  BY KeyReleasedFacts
<1> HIDE DEF k
<1>2. LET r == Enter(k, state)
      IN /\ r \in Guards
         /\ r.state = state /\ r.call = g.call
         /\ r.message = g.message /\ r.messageConfirmed = g.messageConfirmed
         /\ r.keyDown = FALSE /\ r.tuneReturn = g.tuneReturn
  BY <1>1, EnterFacts
<1>3. QED
  BY <1>2 DEF k

(* Disarming, a fault and ending a QSO leave nothing behind. *)
LEMMA DisarmFacts ==
  ASSUME NEW g \in Guards, NEW state \in TransmitStates
  PROVE  LET r == Enter(KeyReleased(ForgetQso(g)), state)
         IN /\ r \in Guards
            /\ r.state = state /\ r.call = NoCall
            /\ r.message = NoMessage /\ r.messageConfirmed = FALSE
            /\ r.keyDown = FALSE /\ r.tuneReturn = g.tuneReturn
<1> DEFINE f == ForgetQso(g)
           k == KeyReleased(f)
<1>1. f \in Guards /\ f.call = NoCall /\ f.message = NoMessage
      /\ f.messageConfirmed = FALSE /\ f.tuneReturn = g.tuneReturn
  BY ForgetQsoFacts
<1> HIDE DEF f
<1>2. k \in Guards /\ k.call = NoCall /\ k.message = NoMessage
      /\ k.messageConfirmed = FALSE /\ k.keyDown = FALSE /\ k.tuneReturn = g.tuneReturn
  BY <1>1, KeyReleasedFacts
<1> HIDE DEF k
<1>3. LET r == Enter(k, state)
      IN /\ r \in Guards
         /\ r.state = state /\ r.call = NoCall
         /\ r.message = NoMessage /\ r.messageConfirmed = FALSE
         /\ r.keyDown = FALSE /\ r.tuneReturn = g.tuneReturn
  BY <1>2, EnterFacts
<1>4. QED
  BY <1>3 DEF k, f

-----------------------------------------------------------------------------
(* GuardInv, of any guard and history values. *)
Consistent(g, call, message, since, seen) ==
  /\ g \in Guards
  /\ call \in Calls \cup {NoCall}
  /\ message \in Messages \cup {NoMessage}
  /\ since \in Clock /\ seen \in Clock
  /\ g.tuneReturn \in {"Armed", "Confirmed"}
  /\ g.state \in {"Disarmed", "Armed", "Fault"} => g.call = NoCall
  /\ g.state \in {"Disarmed", "Armed", "Fault", "AwaitingConfirmation"} =>
       g.message = NoMessage
  /\ g.state = "AwaitingConfirmation" => g.call # NoCall
  /\ g.state \in {"Confirmed", "Transmitting"} => g.call = call /\ call # NoCall
  /\ g.state = "Tuning" =>
       /\ g.tuneReturn = "Confirmed" => g.call = call /\ call # NoCall
       /\ g.tuneReturn # "Confirmed" => g.call = NoCall /\ g.message = NoMessage
  /\ g.messageConfirmed => g.message # NoMessage
  /\ g.messageConfirmed /\ g.state # "Transmitting" => g.message = message
  /\ g.keyDown =>
       /\ g.state \in OutputStates
       /\ g.keyDownSince = since
       /\ since <= seen
       /\ seen - since <= Deadline(g)

LEMMA ConsistentIsGuardInv ==
  GuardInv <=> /\ Consistent(guard, okCall, okMessage, heldSince, lastSeen)
               /\ ignored \subseteq Calls
BY DEF GuardInv, GuardTypeOK, Consistent

(* Forgetting what was confirmed is sound outside a QSO. *)
LEMMA BecomesConsistent ==
  ASSUME NEW g, NEW call, NEW message, NEW since, NEW seen,
         Consistent(g, call, message, since, seen)
  PROVE  Consistent(g, IF g.state \in InQso THEN call ELSE NoCall,
                    IF g.state \in InQso THEN message ELSE NoMessage, since, seen)
BY DEF Consistent, InQso, Guards, TransmitStates

(* A call that leaves a guard consistent with what it records of the       *)
(* operator's confirmations preserves the invariant.                       *)
LEMMA BecomesGuardInv ==
  ASSUME GuardInv, NEW g, NEW call, NEW message, Becomes(g, call, message),
         Consistent(g, call, message, heldSince', lastSeen')
  PROVE  GuardInv'
<1>1. Consistent(guard', okCall', okMessage', heldSince', lastSeen')
  BY BecomesConsistent DEF Becomes
<1>2. (ignored \subseteq Calls)'
  BY DEF GuardInv, GuardTypeOK, Becomes
<1>3. QED
  BY <1>1, <1>2 DEF GuardInv, GuardTypeOK, Consistent, Deadline

-----------------------------------------------------------------------------
(* One lemma per group of actions. *)

LEMMA CallGuardInv ==
  ASSUME GuardInv, NEW g, Call(g),
         Consistent(g, okCall, okMessage, heldSince, lastSeen)
  PROVE  GuardInv'
<1>1. Becomes(g, okCall, okMessage) /\ heldSince' = heldSince /\ lastSeen' = lastSeen
  BY DEF Call
<1>2. Consistent(g, okCall, okMessage, heldSince', lastSeen')
  BY <1>1
<1>3. QED
  BY <1>1, <1>2, BecomesGuardInv

LEMMA ArmingGuardInv ==
  ASSUME GuardInv, DoArm \/ DoDisarm \/ DoTripFault \/ DoResetFault
  PROVE  GuardInv'
<1>1. Consistent(guard, okCall, okMessage, heldSince, lastSeen) /\ guard \in Guards
  BY ConsistentIsGuardInv DEF Consistent
<1>2. ASSUME NEW state \in {"Armed", "Disarmed", "Fault"},
             guard.state \in {"Disarmed", "Fault"}
      PROVE  Consistent(Enter(guard, state), okCall, okMessage, heldSince, lastSeen)
  <2>1. state \in TransmitStates
    BY DEF TransmitStates
  <2>2. QED
    BY <1>1, <1>2, <2>1, EnterFacts DEF Consistent, OutputStates
<1>3. ASSUME NEW state \in {"Disarmed", "Fault"}
      PROVE  Consistent(Enter(KeyReleased(ForgetQso(guard)), state),
                        okCall, okMessage, heldSince, lastSeen)
  <2>1. state \in TransmitStates
    BY DEF TransmitStates
  <2>2. QED
    BY <1>1, <1>3, <2>1, DisarmFacts DEF Consistent
<1>4. CASE DoArm
  BY <1>1, <1>2, <1>4, CallGuardInv DEF DoArm, Arm, CanArm
<1>5. CASE DoDisarm
  BY <1>3, <1>5, CallGuardInv DEF DoDisarm, Disarm
<1>6. CASE DoTripFault
  BY <1>3, <1>6, CallGuardInv DEF DoTripFault, TripFault
<1>7. CASE DoResetFault
  BY <1>1, <1>2, <1>7, CallGuardInv DEF DoResetFault, ResetFault, CanResetFault
<1>8. QED
  BY <1>4, <1>5, <1>6, <1>7

LEMMA RequestQsoGuardInv ==
  ASSUME GuardInv, NEW raw \in RawCalls, DoRequestQso(raw)
  PROVE  GuardInv'
<1>1. Consistent(guard, okCall, okMessage, heldSince, lastSeen) /\ guard \in Guards
  BY ConsistentIsGuardInv DEF Consistent
<1> DEFINE named == [guard EXCEPT !.call = NormalizeCall[raw]]
           r == Enter(named, "AwaitingConfirmation")
<1>2. CASE CanRequestQso(guard, raw, ignored)
  <2>1. NormalizeCall[raw] \in Calls /\ guard.state = "Armed"
    BY <1>2 DEF CanRequestQso
  <2>2. /\ named \in Guards /\ named.call = NormalizeCall[raw]
        /\ named.message = guard.message /\ named.messageConfirmed = guard.messageConfirmed
        /\ named.keyDown = guard.keyDown /\ named.tuneReturn = guard.tuneReturn
    BY <1>1, <2>1 DEF Guards
  <2> HIDE DEF named
  <2>3. /\ r \in Guards /\ r.state = "AwaitingConfirmation"
        /\ r.call = NormalizeCall[raw] /\ r.message = guard.message
        /\ r.messageConfirmed = guard.messageConfirmed
        /\ r.keyDown = guard.keyDown /\ r.tuneReturn = guard.tuneReturn
    BY <2>2, EnterFacts DEF TransmitStates
  <2>4. RequestQso(guard, raw, ignored) = r
    BY <1>2 DEF RequestQso, named
  <2> HIDE DEF r
  <2>5. Consistent(r, okCall, okMessage, heldSince, lastSeen)
    BY <1>1, <2>1, <2>3, GuardAssumption DEF Consistent, OutputStates
  <2>6. QED
    BY <2>4, <2>5, CallGuardInv DEF DoRequestQso
<1>3. CASE ~CanRequestQso(guard, raw, ignored)
  BY <1>1, <1>3, CallGuardInv DEF DoRequestQso, RequestQso
<1>4. QED
  BY <1>2, <1>3

LEMMA ConfirmGuardInv ==
  ASSUME GuardInv, NEW raw \in RawCalls, DoConfirm(raw)
  PROVE  GuardInv'
<1>1. Consistent(guard, okCall, okMessage, heldSince, lastSeen) /\ guard \in Guards
  BY ConsistentIsGuardInv DEF Consistent
<1> DEFINE g == Confirm(guard, raw, ignored)
           call == IF CanConfirm(guard, raw, ignored) THEN NormalizeCall[raw] ELSE okCall
<1>2. Becomes(g, call, okMessage) /\ heldSince' = heldSince /\ lastSeen' = lastSeen
  BY DEF DoConfirm
<1>3. Consistent(g, call, okMessage, heldSince, lastSeen)
  <2>1. CASE ~NamesPending(guard, raw)
    BY <1>1, <2>1 DEF Confirm, CanConfirm
  <2>2. CASE NamesPending(guard, raw) /\ guard.call \in ignored
    <3> DEFINE dropped == [guard EXCEPT !.call = NoCall]
    <3>1. /\ dropped \in Guards /\ dropped.call = NoCall
          /\ dropped.message = guard.message
          /\ dropped.messageConfirmed = guard.messageConfirmed
          /\ dropped.keyDown = guard.keyDown /\ dropped.tuneReturn = guard.tuneReturn
      BY <1>1 DEF Guards
    <3>2. g = Enter(dropped, "Armed") /\ call = okCall
      BY <2>2 DEF Confirm, CanConfirm
    <3> HIDE DEF dropped, call
    <3>3. /\ g \in Guards /\ g.state = "Armed" /\ g.call = NoCall
          /\ g.message = guard.message /\ g.messageConfirmed = guard.messageConfirmed
          /\ g.keyDown = guard.keyDown /\ g.tuneReturn = guard.tuneReturn
      BY <3>1, <3>2, EnterFacts DEF TransmitStates
    <3> HIDE DEF g
    <3>4. guard.state = "AwaitingConfirmation"
      BY <2>2 DEF NamesPending
    <3>5. QED
      BY <1>1, <3>2, <3>3, <3>4 DEF Consistent, OutputStates
  <2>3. CASE CanConfirm(guard, raw, ignored)
    <3>1. g = Enter(guard, "Confirmed") /\ call = NormalizeCall[raw]
      BY <2>3 DEF Confirm, CanConfirm
    <3>2. /\ guard.state = "AwaitingConfirmation"
          /\ guard.call = NormalizeCall[raw] /\ NormalizeCall[raw] \in Calls
      BY <2>3 DEF CanConfirm, NamesPending
    <3> HIDE DEF call
    <3>3. /\ g \in Guards /\ g.state = "Confirmed" /\ g.call = guard.call
          /\ g.message = guard.message /\ g.messageConfirmed = guard.messageConfirmed
          /\ g.keyDown = guard.keyDown /\ g.tuneReturn = guard.tuneReturn
      BY <1>1, <3>1, EnterFacts DEF TransmitStates
    <3> HIDE DEF g
    <3>4. QED
      BY <1>1, <3>1, <3>2, <3>3, GuardAssumption DEF Consistent, OutputStates
  <2>4. QED
    BY <2>1, <2>2, <2>3 DEF CanConfirm
<1>4. Consistent(g, call, okMessage, heldSince', lastSeen')
  BY <1>2, <1>3
<1>5. QED
  BY <1>2, <1>4, BecomesGuardInv

LEMMA StageMessageGuardInv ==
  ASSUME GuardInv, NEW raw \in RawMessages, DoStageMessage(raw)
  PROVE  GuardInv'
<1>1. Consistent(guard, okCall, okMessage, heldSince, lastSeen) /\ guard \in Guards
  BY ConsistentIsGuardInv DEF Consistent
<1> DEFINE g == StageMessage(guard, raw)
           message == IF CanStageMessage(guard, raw) THEN NoMessage ELSE okMessage
<1>2. Becomes(g, okCall, message) /\ heldSince' = heldSince /\ lastSeen' = lastSeen
  BY DEF DoStageMessage
<1>3. Consistent(g, okCall, message, heldSince, lastSeen)
  <2>1. CASE ~CanStageMessage(guard, raw)
    BY <1>1, <2>1 DEF StageMessage
  <2>2. CASE CanStageMessage(guard, raw)
    <3>1. /\ guard.state = "Confirmed" /\ NormalizeMessage[raw] \in Messages
          /\ message = NoMessage
      BY <2>2, GuardAssumption DEF CanStageMessage
    <3>2. g = [guard EXCEPT !.message = NormalizeMessage[raw], !.messageConfirmed = FALSE]
      BY <2>2 DEF StageMessage
    <3>3. /\ g \in Guards /\ g.state = "Confirmed" /\ g.call = guard.call
          /\ g.message = NormalizeMessage[raw] /\ g.messageConfirmed = FALSE
          /\ g.keyDown = guard.keyDown /\ g.tuneReturn = guard.tuneReturn
      BY <1>1, <3>1, <3>2 DEF Guards
    <3> HIDE DEF g, message
    <3>4. QED
      BY <1>1, <3>1, <3>3 DEF Consistent, OutputStates
  <2>3. QED
    BY <2>1, <2>2
<1>4. Consistent(g, okCall, message, heldSince', lastSeen')
  BY <1>2, <1>3
<1>5. QED
  BY <1>2, <1>4, BecomesGuardInv

LEMMA ConfirmMessageGuardInv ==
  ASSUME GuardInv, NEW raw \in RawMessages, DoConfirmMessage(raw)
  PROVE  GuardInv'
<1>1. Consistent(guard, okCall, okMessage, heldSince, lastSeen) /\ guard \in Guards
  BY ConsistentIsGuardInv DEF Consistent
<1> DEFINE g == ConfirmMessage(guard, raw)
           message == IF CanConfirmMessage(guard, raw) THEN NormalizeMessage[raw]
                                                       ELSE okMessage
<1>2. Becomes(g, okCall, message) /\ heldSince' = heldSince /\ lastSeen' = lastSeen
  BY DEF DoConfirmMessage
<1>3. Consistent(g, okCall, message, heldSince, lastSeen)
  <2>1. CASE ~(guard.state = "Confirmed" /\ guard.message # NoMessage)
    BY <1>1, <2>1 DEF ConfirmMessage, CanConfirmMessage
  <2>2. CASE guard.state = "Confirmed" /\ guard.message # NoMessage
    <3>1. g = [guard EXCEPT !.messageConfirmed = MatchesStaged(guard, raw)]
      BY <2>2 DEF ConfirmMessage
    <3>2. MatchesStaged(guard, raw) \in BOOLEAN
      BY DEF MatchesStaged
    <3>3. /\ g \in Guards /\ g.state = "Confirmed" /\ g.call = guard.call
          /\ g.message = guard.message
          /\ g.messageConfirmed = MatchesStaged(guard, raw)
          /\ g.keyDown = guard.keyDown /\ g.tuneReturn = guard.tuneReturn
      BY <1>1, <2>2, <3>1, <3>2 DEF Guards
    <3>4. /\ message \in Messages \cup {NoMessage}
          /\ MatchesStaged(guard, raw) => guard.message = message
      BY <1>1, <2>2, GuardAssumption DEF CanConfirmMessage, MatchesStaged, Consistent
    <3> HIDE DEF g, message
    <3>5. QED
      BY <1>1, <2>2, <3>3, <3>4 DEF Consistent, OutputStates
  <2>3. QED
    BY <2>1, <2>2
<1>4. Consistent(g, okCall, message, heldSince', lastSeen')
  BY <1>2, <1>3
<1>5. QED
  BY <1>2, <1>4, BecomesGuardInv

LEMMA BeginTransmissionGuardInv ==
  ASSUME GuardInv, DoBeginTransmission
  PROVE  GuardInv'
<1>1. Consistent(guard, okCall, okMessage, heldSince, lastSeen) /\ guard \in Guards
  BY ConsistentIsGuardInv DEF Consistent
<1> DEFINE g == BeginTransmission(guard, ignored)
           message == IF CanBeginTransmission(guard, ignored) THEN NoMessage ELSE okMessage
<1>2. Becomes(g, okCall, message) /\ heldSince' = heldSince /\ lastSeen' = lastSeen
  BY DEF DoBeginTransmission
<1>3. Consistent(g, okCall, message, heldSince, lastSeen)
  <2>1. CASE ~MessageReady(guard)
    BY <1>1, <2>1 DEF BeginTransmission, CanBeginTransmission
  <2>2. CASE MessageReady(guard) /\ guard.call \in ignored
    <3>1. g = Enter(ForgetQso(guard), "Armed") /\ message = okMessage
      BY <2>2 DEF BeginTransmission, CanBeginTransmission
    <3>2. guard.state = "Confirmed"
      BY <2>2 DEF MessageReady
    <3> HIDE DEF g, message
    <3>3. /\ g \in Guards /\ g.state = "Armed" /\ g.call = NoCall
          /\ g.message = NoMessage /\ g.messageConfirmed = FALSE
          /\ g.keyDown = guard.keyDown /\ g.tuneReturn = guard.tuneReturn
      BY <1>1, <3>1, ForgottenQsoFacts DEF TransmitStates
    <3>4. QED
      BY <1>1, <3>1, <3>2, <3>3 DEF Consistent, OutputStates
  <2>3. CASE CanBeginTransmission(guard, ignored)
    <3>1. g = Enter(KeyReleased(guard), "Transmitting") /\ message = NoMessage
      BY <2>3 DEF BeginTransmission, CanBeginTransmission
    <3>2. guard.state = "Confirmed" /\ guard.message # NoMessage
      BY <2>3 DEF CanBeginTransmission, MessageReady
    <3> HIDE DEF g, message
    <3>3. /\ g \in Guards /\ g.state = "Transmitting" /\ g.call = guard.call
          /\ g.message = guard.message /\ g.messageConfirmed = guard.messageConfirmed
          /\ g.keyDown = FALSE /\ g.tuneReturn = guard.tuneReturn
      BY <1>1, <3>1, UnkeyedEntryFacts DEF TransmitStates
    <3>4. QED
      BY <1>1, <3>1, <3>2, <3>3 DEF Consistent, OutputStates
  <2>4. QED
    BY <2>1, <2>2, <2>3 DEF CanBeginTransmission
<1>4. Consistent(g, okCall, message, heldSince', lastSeen')
  BY <1>2, <1>3
<1>5. QED
  BY <1>2, <1>4, BecomesGuardInv

LEMMA FinishingGuardInv ==
  ASSUME GuardInv, DoFinishTransmission \/ DoEndQso
  PROVE  GuardInv'
<1>1. Consistent(guard, okCall, okMessage, heldSince, lastSeen) /\ guard \in Guards
  BY ConsistentIsGuardInv DEF Consistent
<1>2. CASE DoFinishTransmission
  <2> DEFINE k == KeyReleased(guard)
             f == ForgetMessage(k)
             g == Enter(f, "Confirmed")
  <2>1. CASE guard.state = "Transmitting"
    <3>1. /\ k \in Guards /\ k.call = guard.call /\ k.keyDown = FALSE
          /\ k.tuneReturn = guard.tuneReturn
      BY <1>1, KeyReleasedFacts
    <3>2. DoFinishTransmission => Call(g)
      BY <2>1 DEF DoFinishTransmission, FinishTransmission, CanFinishTransmission
    <3> HIDE DEF k
    <3>3. /\ f \in Guards /\ f.call = guard.call /\ f.keyDown = FALSE
          /\ f.message = NoMessage /\ f.messageConfirmed = FALSE
          /\ f.tuneReturn = guard.tuneReturn
      BY <3>1, ForgetMessageFacts
    <3> HIDE DEF f
    <3>4. /\ g \in Guards /\ g.state = "Confirmed" /\ g.call = guard.call
          /\ g.keyDown = FALSE /\ g.message = NoMessage /\ g.messageConfirmed = FALSE
          /\ g.tuneReturn = guard.tuneReturn
      BY <3>3, EnterFacts DEF TransmitStates
    <3> HIDE DEF g
    <3>5. Consistent(g, okCall, okMessage, heldSince, lastSeen)
      BY <1>1, <2>1, <3>4 DEF Consistent
    <3>6. QED
      BY <1>2, <3>2, <3>5, CallGuardInv
  <2>2. CASE guard.state # "Transmitting"
    BY <1>1, <1>2, <2>2, CallGuardInv
    DEF DoFinishTransmission, FinishTransmission, CanFinishTransmission
  <2>3. QED
    BY <2>1, <2>2
<1>3. CASE DoEndQso
  <2> DEFINE g == Enter(ForgetQso(guard), "Armed")
  <2>1. CASE guard.state = "Confirmed"
    <3>1. DoEndQso => Call(g)
      BY <2>1 DEF DoEndQso, EndQso, CanEndQso
    <3>2. /\ g \in Guards /\ g.state = "Armed" /\ g.call = NoCall
          /\ g.message = NoMessage /\ g.messageConfirmed = FALSE
          /\ g.keyDown = guard.keyDown /\ g.tuneReturn = guard.tuneReturn
      BY <1>1, ForgottenQsoFacts DEF TransmitStates
    <3> HIDE DEF g
    <3>3. Consistent(g, okCall, okMessage, heldSince, lastSeen)
      BY <1>1, <2>1, <3>2 DEF Consistent, OutputStates
    <3>4. QED
      BY <1>3, <3>1, <3>3, CallGuardInv
  <2>2. CASE guard.state # "Confirmed"
    BY <1>1, <1>3, <2>2, CallGuardInv DEF DoEndQso, EndQso, CanEndQso
  <2>3. QED
    BY <2>1, <2>2
<1>4. QED
  BY <1>2, <1>3

LEMMA TuneGuardInv ==
  ASSUME GuardInv, DoBeginTune \/ DoFinishTune
  PROVE  GuardInv'
<1>1. Consistent(guard, okCall, okMessage, heldSince, lastSeen) /\ guard \in Guards
  BY ConsistentIsGuardInv DEF Consistent
<1>2. CASE DoBeginTune
  <2> DEFINE r == [guard EXCEPT !.tuneReturn = guard.state]
             g == Enter(KeyReleased(r), "Tuning")
  <2>1. CASE guard.state \in {"Armed", "Confirmed"}
    <3>1. /\ r \in Guards /\ r.call = guard.call /\ r.message = guard.message
          /\ r.messageConfirmed = guard.messageConfirmed /\ r.tuneReturn = guard.state
      BY <1>1, <2>1 DEF Guards
    <3>2. DoBeginTune => Call(g)
      BY <2>1 DEF DoBeginTune, BeginTune, CanBeginTune
    <3> HIDE DEF r
    <3>3. /\ g \in Guards /\ g.state = "Tuning" /\ g.call = guard.call
          /\ g.message = guard.message /\ g.messageConfirmed = guard.messageConfirmed
          /\ g.keyDown = FALSE /\ g.tuneReturn = guard.state
      BY <3>1, UnkeyedEntryFacts DEF TransmitStates
    <3> HIDE DEF g
    <3>4. Consistent(g, okCall, okMessage, heldSince, lastSeen)
      BY <1>1, <2>1, <3>3 DEF Consistent
    <3>5. QED
      BY <1>2, <3>2, <3>4, CallGuardInv
  <2>2. CASE guard.state \notin {"Armed", "Confirmed"}
    BY <1>1, <1>2, <2>2, CallGuardInv DEF DoBeginTune, BeginTune, CanBeginTune
  <2>3. QED
    BY <2>1, <2>2
<1>3. CASE DoFinishTune
  <2> DEFINE g == Enter(KeyReleased(guard), guard.tuneReturn)
  <2>1. CASE guard.state = "Tuning"
    <3>1. guard.tuneReturn \in TransmitStates
      BY <1>1 DEF Guards
    <3>2. DoFinishTune => Call(g)
      BY <2>1 DEF DoFinishTune, FinishTune, CanFinishTune
    <3>3. /\ g \in Guards /\ g.state = guard.tuneReturn /\ g.call = guard.call
          /\ g.message = guard.message /\ g.messageConfirmed = guard.messageConfirmed
          /\ g.keyDown = FALSE /\ g.tuneReturn = guard.tuneReturn
      BY <1>1, <3>1, UnkeyedEntryFacts
    <3> HIDE DEF g
    <3>4. Consistent(g, okCall, okMessage, heldSince, lastSeen)
      BY <1>1, <2>1, <3>3 DEF Consistent
    <3>5. QED
      BY <1>3, <3>2, <3>4, CallGuardInv
  <2>2. CASE guard.state # "Tuning"
    BY <1>1, <1>3, <2>2, CallGuardInv DEF DoFinishTune, FinishTune, CanFinishTune
  <2>3. QED
    BY <2>1, <2>2
<1>4. QED
  BY <1>2, <1>3

LEMMA ObserveGuardInv ==
  ASSUME GuardInv, NEW down \in BOOLEAN, NEW now \in Clock, DoObserveKeyState(down, now)
  PROVE  GuardInv'
<1>1. Consistent(guard, okCall, okMessage, heldSince, lastSeen) /\ guard \in Guards
  BY ConsistentIsGuardInv DEF Consistent
<1> DEFINE g == ObserveKeyState(guard, down, now)
<1>2. /\ Becomes(g, okCall, okMessage)
      /\ heldSince' = IF down /\ ~guard.keyDown THEN now ELSE heldSince
      /\ lastSeen' = IF down THEN now ELSE lastSeen
  BY DEF DoObserveKeyState
<1>3. heldSince \in Clock /\ lastSeen \in Clock /\ heldSince' \in Clock /\ lastSeen' \in Clock
  BY <1>1, <1>2 DEF Consistent
<1>4. Consistent(g, okCall, okMessage, heldSince', lastSeen')
  <2>1. ASSUME g = TripFault(guard)
        PROVE  Consistent(g, okCall, okMessage, heldSince', lastSeen')
    <3> HIDE DEF g
    <3>1. /\ g \in Guards /\ g.state = "Fault" /\ g.call = NoCall
          /\ g.message = NoMessage /\ g.messageConfirmed = FALSE
          /\ g.keyDown = FALSE /\ g.tuneReturn = guard.tuneReturn
      BY <1>1, <2>1, DisarmFacts DEF TripFault, TransmitStates
    <3>2. QED
      BY <1>1, <1>3, <3>1 DEF Consistent
  <2>2. CASE guard.state \notin OutputStates
    <3>1. CASE down
      BY <2>1, <2>2, <3>1 DEF ObserveKeyState
    <3>2. CASE ~down
      BY <1>1, <1>2, <2>2, <3>2 DEF ObserveKeyState, Consistent
    <3>3. QED
      BY <3>1, <3>2
  <2>3. CASE guard.state \in OutputStates /\ ~down
    <3>1. g = KeyReleased(guard)
      BY <2>3 DEF ObserveKeyState
    <3>2. /\ g \in Guards /\ g.state = guard.state /\ g.call = guard.call
          /\ g.message = guard.message /\ g.messageConfirmed = guard.messageConfirmed
          /\ g.keyDown = FALSE /\ g.tuneReturn = guard.tuneReturn
      BY <1>1, <3>1, KeyReleasedFacts
    <3> HIDE DEF g
    <3>3. QED
      BY <1>1, <1>3, <3>2 DEF Consistent
  <2>4. CASE guard.state \in OutputStates /\ down /\ ~guard.keyDown
    <3>1. g = [guard EXCEPT !.keyDown = TRUE, !.keyDownSince = now]
      BY <2>4 DEF ObserveKeyState
    <3>2. /\ g \in Guards /\ g.state = guard.state /\ g.call = guard.call
          /\ g.message = guard.message /\ g.messageConfirmed = guard.messageConfirmed
          /\ g.keyDownSince = now /\ g.tuneReturn = guard.tuneReturn
      BY <1>1, <3>1 DEF Guards
    <3>3. heldSince' = now /\ lastSeen' = now
      BY <1>2, <2>4
    <3> HIDE DEF g
    <3>4. now - now <= Deadline(g)
      BY GuardAssumption DEF Deadline, Clock
    <3>5. now <= now
      BY GuardAssumption DEF Clock
    <3>6. QED
      BY <1>1, <1>3, <2>4, <3>2, <3>3, <3>4, <3>5 DEF Consistent
  <2>5. CASE guard.state \in OutputStates /\ down /\ guard.keyDown
    <3>1. CASE KeyHeldTooLong(guard, now)
      BY <2>1, <2>5, <3>1 DEF ObserveKeyState
    <3>2. CASE ~KeyHeldTooLong(guard, now)
      <4>1. g = guard
        BY <2>5, <3>2 DEF ObserveKeyState
      <4>2. heldSince' = heldSince /\ lastSeen' = now
        BY <1>2, <2>5
      <4>3. guard.keyDownSince = heldSince
        BY <1>1, <2>5 DEF Consistent
      <4>4. heldSince <= now /\ now - heldSince <= Deadline(guard)
        BY <1>3, <2>5, <3>2, <4>3, GuardAssumption DEF KeyHeldTooLong, Deadline, Clock
      <4> HIDE DEF g
      <4>5. QED
        BY <1>1, <1>3, <4>1, <4>2, <4>3, <4>4 DEF Consistent
    <3>3. QED
      BY <3>1, <3>2
  <2>6. QED
    BY <2>2, <2>3, <2>4, <2>5
<1>5. QED
  BY <1>2, <1>4, BecomesGuardInv

-----------------------------------------------------------------------------
LEMMA StepGuardInv == GuardInv /\ [GuardNext]_guardVars => GuardInv'
<1> SUFFICES ASSUME GuardInv, [GuardNext]_guardVars PROVE GuardInv'
  OBVIOUS
<1>1. CASE DoArm \/ DoDisarm \/ DoTripFault \/ DoResetFault
  BY <1>1, ArmingGuardInv
<1>2. ASSUME NEW raw \in RawCalls, DoRequestQso(raw) \/ DoConfirm(raw)
      PROVE  GuardInv'
  BY <1>2, RequestQsoGuardInv, ConfirmGuardInv
<1>3. ASSUME NEW raw \in RawMessages, DoStageMessage(raw) \/ DoConfirmMessage(raw)
      PROVE  GuardInv'
  BY <1>3, StageMessageGuardInv, ConfirmMessageGuardInv
<1>4. CASE DoBeginTransmission
  BY <1>4, BeginTransmissionGuardInv
<1>5. CASE DoBeginTune \/ DoFinishTune
  BY <1>5, TuneGuardInv
<1>6. ASSUME NEW down \in BOOLEAN, NEW now \in Clock, DoObserveKeyState(down, now)
      PROVE  GuardInv'
  BY <1>6, ObserveGuardInv
<1>7. CASE DoFinishTransmission \/ DoEndQso
  BY <1>7, FinishingGuardInv
<1>8. CASE EditIgnoreList
  BY <1>8 DEF EditIgnoreList, GuardInv, GuardTypeOK, Deadline
<1>9. CASE UNCHANGED guardVars
  BY <1>9 DEF guardVars, GuardInv, GuardTypeOK, Deadline
<1>10. QED
  BY <1>1, <1>2, <1>3, <1>4, <1>5, <1>6, <1>7, <1>8, <1>9 DEF GuardNext

(* In every state of every sequence of calls the guard is consistent: what *)
(* it holds is what the operator confirmed, and KEY is observed down only  *)
(* in an output state and within its deadline.                             *)
THEOREM GuardInvariant == GuardSpec => []GuardInv
<1>1. QED
  BY InitGuardInv, StepGuardInv, PTL DEF GuardSpec

(* The guard's fields keep their types.                                    *)
THEOREM GuardTypeCorrect == GuardSpec => []GuardTypeOK
<1>1. GuardInv => GuardTypeOK
  BY DEF GuardInv
<1>2. QED
  BY <1>1, GuardInvariant, PTL

(* The confirmed state always names the call the operator confirmed.       *)
THEOREM ConfirmedIsByOperator == GuardSpec => []ConfirmedByOperator
<1>1. GuardInv => ConfirmedByOperator
  BY DEF GuardInv, ConfirmedByOperator
<1>2. QED
  BY <1>1, GuardInvariant, PTL

(* The watchdog's bound on an observed KEY holds in every state.           *)
THEOREM KeyWatchdogHolds == GuardSpec => []KeyWatchdogBound
<1>1. GuardInv => KeyWatchdogBound
  BY DEF GuardInv, KeyWatchdogBound
<1>2. QED
  BY <1>1, GuardInvariant, PTL

(* Every action but the beginning of a transmission keeps the state or     *)
(* enters one that is not transmitting.                                    *)
LEMMA OnlyBeginTransmits ==
  ASSUME GuardInv, GuardNext, ~DoBeginTransmission
  PROVE  guard'.state = guard.state \/ guard'.state # "Transmitting"
<1>1. Consistent(guard, okCall, okMessage, heldSince, lastSeen) /\ guard \in Guards
  BY ConsistentIsGuardInv DEF Consistent
<1>2. CASE DoArm \/ DoResetFault
  BY <1>1, <1>2, EnterFacts
  DEF DoArm, DoResetFault, Call, Becomes, Arm, ResetFault, TransmitStates
<1>3. CASE DoDisarm \/ DoTripFault
  BY <1>1, <1>3, DisarmFacts
  DEF DoDisarm, DoTripFault, Call, Becomes, Disarm, TripFault, TransmitStates
<1>4. ASSUME NEW raw \in RawCalls, DoRequestQso(raw)
      PROVE  guard'.state = guard.state \/ guard'.state # "Transmitting"
  <2> DEFINE named == [guard EXCEPT !.call = NormalizeCall[raw]]
  <2>1. CASE CanRequestQso(guard, raw, ignored)
    <3>1. guard' = Enter(named, "AwaitingConfirmation") /\ NormalizeCall[raw] \in Calls
      BY <1>4, <2>1 DEF DoRequestQso, Call, Becomes, RequestQso, CanRequestQso
    <3>2. named \in Guards
      BY <1>1, <3>1 DEF Guards
    <3> HIDE DEF named
    <3>3. QED
      BY <3>1, <3>2, EnterFacts DEF TransmitStates
  <2>2. CASE ~CanRequestQso(guard, raw, ignored)
    BY <1>4, <2>2 DEF DoRequestQso, Call, Becomes, RequestQso
  <2>3. QED
    BY <2>1, <2>2
<1>5. ASSUME NEW raw \in RawCalls, DoConfirm(raw)
      PROVE  guard'.state = guard.state \/ guard'.state # "Transmitting"
  <2> DEFINE dropped == [guard EXCEPT !.call = NoCall]
  <2>1. dropped \in Guards
    BY <1>1 DEF Guards
  <2>2. guard' \in {guard, Enter(dropped, "Armed"), Enter(guard, "Confirmed")}
    BY <1>5 DEF DoConfirm, Becomes, Confirm, CanConfirm
  <2> HIDE DEF dropped
  <2>3. QED
    BY <1>1, <2>1, <2>2, EnterFacts DEF TransmitStates
<1>6. ASSUME NEW raw \in RawMessages, DoStageMessage(raw) \/ DoConfirmMessage(raw)
      PROVE  guard'.state = guard.state
  BY <1>1, <1>6
  DEF DoStageMessage, DoConfirmMessage, Becomes, StageMessage, ConfirmMessage, Guards
<1>7. CASE DoBeginTune
  <2> DEFINE r == [guard EXCEPT !.tuneReturn = guard.state]
  <2>1. r \in Guards
    BY <1>1 DEF Guards
  <2>2. guard' \in {guard, Enter(KeyReleased(r), "Tuning")}
    BY <1>7 DEF DoBeginTune, Call, Becomes, BeginTune
  <2> HIDE DEF r
  <2>3. QED
    BY <2>1, <2>2, UnkeyedEntryFacts DEF TransmitStates
<1>8. CASE DoFinishTune
  <2>1. guard' \in {guard, Enter(KeyReleased(guard), guard.tuneReturn)}
    BY <1>8 DEF DoFinishTune, Call, Becomes, FinishTune
  <2>2. guard.tuneReturn \in {"Armed", "Confirmed"} /\ guard.tuneReturn \in TransmitStates
    BY <1>1 DEF Consistent, Guards
  <2>3. QED
    BY <1>1, <2>1, <2>2, UnkeyedEntryFacts
<1>9. CASE DoFinishTransmission
  <2> DEFINE k == KeyReleased(guard)
             f == ForgetMessage(k)
  <2>1. k \in Guards
    BY <1>1, KeyReleasedFacts
  <2>2. guard' \in {guard, Enter(f, "Confirmed")}
    BY <1>9 DEF DoFinishTransmission, Call, Becomes, FinishTransmission
  <2> HIDE DEF k
  <2>3. f \in Guards
    BY <2>1, ForgetMessageFacts
  <2> HIDE DEF f
  <2>4. QED
    BY <2>2, <2>3, EnterFacts DEF TransmitStates
<1>10. CASE DoEndQso
  <2>1. guard' \in {guard, Enter(ForgetQso(guard), "Armed")}
    BY <1>10 DEF DoEndQso, Call, Becomes, EndQso
  <2>2. QED
    BY <1>1, <2>1, ForgottenQsoFacts DEF TransmitStates
<1>11. ASSUME NEW down \in BOOLEAN, NEW now \in Clock, DoObserveKeyState(down, now)
       PROVE  guard'.state = guard.state \/ guard'.state # "Transmitting"
  <2> DEFINE pressed == [guard EXCEPT !.keyDown = TRUE, !.keyDownSince = now]
  <2>1. pressed.state = guard.state
    BY <1>1 DEF Guards
  <2>2. KeyReleased(guard).state = guard.state
    BY <1>1, KeyReleasedFacts
  <2>3. TripFault(guard).state = "Fault"
    BY <1>1, DisarmFacts DEF TripFault, TransmitStates
  <2>4. guard' \in {guard, pressed, KeyReleased(guard), TripFault(guard)}
    <3>1. guard' = ObserveKeyState(guard, down, now)
      BY <1>11 DEF DoObserveKeyState, Becomes
    <3>2. CASE guard.state \notin OutputStates
      BY <3>1, <3>2 DEF ObserveKeyState
    <3>3. CASE guard.state \in OutputStates /\ ~down
      BY <3>1, <3>3 DEF ObserveKeyState
    <3>4. CASE guard.state \in OutputStates /\ down /\ ~guard.keyDown
      BY <3>1, <3>4 DEF ObserveKeyState
    <3>5. CASE guard.state \in OutputStates /\ down /\ guard.keyDown
      BY <3>1, <3>5 DEF ObserveKeyState
    <3>6. QED
      BY <3>2, <3>3, <3>4, <3>5
  <2> HIDE DEF pressed
  <2>5. QED
    BY <2>1, <2>2, <2>3, <2>4
<1>12. CASE EditIgnoreList
  BY <1>12 DEF EditIgnoreList
<1>13. QED
  BY <1>2, <1>3, <1>4, <1>5, <1>6, <1>7, <1>8, <1>9, <1>10, <1>11, <1>12 DEF GuardNext

(* What a transmission begins with. *)
LEMMA BeginFacts ==
  ASSUME GuardInv, GuardNext, guard.state # "Transmitting", guard'.state = "Transmitting"
  PROVE  /\ CanBeginTransmission(guard, ignored)
         /\ guard'.call = guard.call /\ guard'.message = guard.message
<1>1. DoBeginTransmission
  BY OnlyBeginTransmits
<1>2. guard \in Guards
  BY DEF GuardInv, GuardTypeOK
<1>3. guard' = BeginTransmission(guard, ignored)
  BY <1>1 DEF DoBeginTransmission, Becomes
<1>4. Enter(ForgetQso(guard), "Armed").state = "Armed"
  BY <1>2, ForgottenQsoFacts DEF TransmitStates
<1>5. CanBeginTransmission(guard, ignored)
  BY <1>3, <1>4 DEF BeginTransmission, CanBeginTransmission
<1>6. guard' = Enter(KeyReleased(guard), "Transmitting")
  BY <1>3, <1>5 DEF BeginTransmission, CanBeginTransmission
<1>7. QED
  BY <1>2, <1>5, <1>6, UnkeyedEntryFacts DEF TransmitStates

(* A transmission goes only to the call, and only with the message, that   *)
(* the operator confirmed in this QSO, and each confirmation serves once.  *)
THEOREM OnlyConfirmedIsTransmitted == GuardSpec => TransmitsOnlyConfirmed
<1>1. GuardInv /\ [GuardNext]_guardVars => [BeginsOnlyConfirmed]_guardVars
  <2> SUFFICES ASSUME GuardInv, GuardNext,
                      guard.state # "Transmitting", guard'.state = "Transmitting"
               PROVE  /\ guard'.call = okCall /\ okCall # NoCall
                      /\ guard'.message = okMessage /\ okMessage # NoMessage
    BY DEF BeginsOnlyConfirmed
  <2>1. Consistent(guard, okCall, okMessage, heldSince, lastSeen)
    BY ConsistentIsGuardInv
  <2>2. QED
    BY <2>1, BeginFacts DEF CanBeginTransmission, MessageReady, Consistent
<1>2. QED
  BY <1>1, GuardInvariant, PTL DEF GuardSpec, TransmitsOnlyConfirmed

(* No transmission begins to a call that is ignored at that moment.        *)
THEOREM IgnoredIsNeverTransmittedTo == GuardSpec => NeverTransmitsToIgnored
<1>1. GuardInv /\ [GuardNext]_guardVars => [BeginsOnlyUnignored]_guardVars
  BY BeginFacts DEF BeginsOnlyUnignored, CanBeginTransmission
<1>2. QED
  BY <1>1, GuardInvariant, PTL DEF GuardSpec, NeverTransmitsToIgnored

-----------------------------------------------------------------------------
(***************************************************************************)
(* What a client is told of the control of a rig holds, for any clients,   *)
(* rigs and bounds of the time to live.                                    *)
(***************************************************************************)

Leased == [client : LeaseClients \cup {Nobody}, until : Nat]
LeaseType ==
  /\ leases \in [LeaseRigs -> Leased] /\ granted \in [LeaseRigs -> Leased]
  /\ leaseNow \in Nat

(* While a promise runs, its lease is the one that is stored.              *)
Promised(rig) ==
  /\ granted[rig].until > leaseNow => leases[rig] = granted[rig]
  /\ leases[rig] \in {granted[rig], NoLease}
  /\ leases[rig].until <= leaseNow + MaxTtl
PromiseInv == LeaseType /\ \A rig \in LeaseRigs : Promised(rig)

(* acquire() clamps what is asked for between the two bounds.              *)
LEMMA ClampedTtl ==
  ASSUME NEW ttl \in RequestedTtls
  PROVE  ClampTtl(ttl) \in Nat /\ ClampTtl(ttl) <= MaxTtl /\ ClampTtl(ttl) >= MinTtl
  BY LeaseAssumption DEF ClampTtl

LEMMA LeaseIsLeased ==
  ASSUME NEW client \in LeaseClients, NEW until \in Nat
  PROVE  /\ Lease(client, until) \in Leased /\ NoLease \in Leased
         /\ Lease(client, until).client = client /\ Lease(client, until).until = until
         /\ NoLease.client = Nobody /\ NoLease.until = 0
  BY DEF Lease, NoLease, Leased

(* expire() keeps a lease or drops it, and drops none that still runs.     *)
LEMMA ExpireKeeps ==
  ASSUME PromiseInv, NEW rig \in LeaseRigs
  PROVE  /\ Expire(leases) \in [LeaseRigs -> Leased]
         /\ Expire(leases)[rig] \in {leases[rig], NoLease}
         /\ leases[rig].until > leaseNow => Expire(leases)[rig] = leases[rig]
         /\ Expire(leases)[rig].until <= leaseNow + MaxTtl
         /\ granted[rig].until > leaseNow => Expire(leases)[rig] = granted[rig]
         /\ Expire(leases)[rig] \in {granted[rig], NoLease}
  <1>1. NoLease \in Leased /\ NoLease.until = 0
    BY DEF NoLease, Lease, Leased
  <1>2. leases[rig] \in Leased /\ leases[rig].until \in Nat
    BY DEF PromiseInv, LeaseType, Leased
  <1>3. granted[rig] \in Leased /\ granted[rig].until \in Nat
    BY DEF PromiseInv, LeaseType, Leased
  <1>4. Promised(rig) /\ leaseNow \in Nat
    BY DEF PromiseInv, LeaseType
  <1>5. Expire(leases)[rig] = IF leases[rig].until <= leaseNow THEN NoLease ELSE leases[rig]
    BY DEF Expire
  <1>6. Expire(leases) \in [LeaseRigs -> Leased]
    BY <1>1 DEF Expire, PromiseInv, LeaseType
  <1>7. Expire(leases)[rig] \in {leases[rig], NoLease}
    BY <1>5
  <1>8. leases[rig].until > leaseNow => Expire(leases)[rig] = leases[rig]
    BY <1>5, <1>2, <1>4
  <1>9. Expire(leases)[rig].until <= leaseNow + MaxTtl
    BY <1>1, <1>2, <1>4, <1>7, LeaseAssumption DEF Promised
  <1>10. granted[rig].until > leaseNow => Expire(leases)[rig] = granted[rig]
    BY <1>8, <1>4 DEF Promised
  <1>11. Expire(leases)[rig] \in {granted[rig], NoLease}
    BY <1>4, <1>7 DEF Promised
  <1> QED
    BY <1>6, <1>7, <1>8, <1>9, <1>10, <1>11

(* The calls that begin with expire() and store a lease, or none.          *)
LEMMA StoreKeeps ==
  ASSUME PromiseInv, NEW client \in LeaseClients, NEW at \in LeaseRigs,
         NEW ttl \in RequestedTtls, leaseNow' = leaseNow,
         leases' = [Expire(leases) EXCEPT ![at] = Lease(client, leaseNow + ClampTtl(ttl))],
         granted' = [granted EXCEPT ![at] = Lease(client, leaseNow + ClampTtl(ttl))]
  PROVE  PromiseInv'
  <1> DEFINE lease == Lease(client, leaseNow + ClampTtl(ttl))
  <1>0. leaseNow \in Nat /\ leases \in [LeaseRigs -> Leased] /\ granted \in [LeaseRigs -> Leased]
    BY DEF PromiseInv, LeaseType
  <1>1. leaseNow + ClampTtl(ttl) \in Nat /\ leaseNow + ClampTtl(ttl) <= leaseNow + MaxTtl
    BY <1>0, ClampedTtl, LeaseAssumption
  <1>2. lease \in Leased /\ lease.until <= leaseNow + MaxTtl
    BY <1>1, LeaseIsLeased
  <1>3. Expire(leases) \in [LeaseRigs -> Leased]
    BY ExpireKeeps
  <1>4. LeaseType'
    BY <1>0, <1>2, <1>3 DEF LeaseType
  <1>5. ASSUME NEW rig \in LeaseRigs PROVE Promised(rig)'
    <2> HIDE DEF lease
    <2>1. CASE rig = at
      <3>1. leases'[rig] = lease /\ granted'[rig] = lease
        BY <1>0, <1>3, <2>1 DEF lease
      <3> QED
        BY <3>1, <1>2 DEF Promised
    <2>2. CASE rig # at
      <3>1. leases'[rig] = Expire(leases)[rig] /\ granted'[rig] = granted[rig]
        BY <1>0, <1>3, <2>2
      <3> QED
        BY <3>1, ExpireKeeps DEF Promised
    <2> QED
      BY <2>1, <2>2
  <1> QED
    BY <1>4, <1>5 DEF PromiseInv

LEMMA LooksKeeps ==
  ASSUME PromiseInv, leases' = Expire(leases), granted' = granted, leaseNow' = leaseNow
  PROVE  PromiseInv'
  <1>1. ASSUME NEW rig \in LeaseRigs PROVE Promised(rig)' /\ LeaseType'
    <2>1. leaseNow \in Nat /\ granted \in [LeaseRigs -> Leased]
      BY DEF PromiseInv, LeaseType
    <2> QED
      BY <2>1, ExpireKeeps DEF Promised, LeaseType
  <1>2. LeaseType'
    <2>1. CASE LeaseRigs = {}
      BY <2>1 DEF PromiseInv, LeaseType, Expire
    <2> QED
      BY <1>1, <2>1
  <1> QED
    BY <1>1, <1>2 DEF PromiseInv

LEMMA PromiseInit == LeaseInit => PromiseInv
  <1> SUFFICES ASSUME LeaseInit PROVE PromiseInv
    OBVIOUS
  <1>1. NoLease \in Leased /\ NoLease.until = 0
    BY DEF NoLease, Lease, Leased
  <1> QED
    BY <1>1, LeaseAssumption DEF LeaseInit, PromiseInv, LeaseType, Promised

LEMMA PromiseStep == PromiseInv /\ [LeaseNext]_leaseVars => PromiseInv'
  <1> SUFFICES ASSUME PromiseInv, [LeaseNext]_leaseVars PROVE PromiseInv'
    OBVIOUS
  <1>1. ASSUME NEW client \in LeaseClients, NEW rig \in LeaseRigs, NEW ttl \in RequestedTtls,
               Acquire(client, rig, ttl)
        PROVE  PromiseInv'
    <2>1. CASE Expire(leases)[rig].client \in {Nobody, client}
      BY <1>1, <2>1, StoreKeeps DEF Acquire
    <2>2. CASE Expire(leases)[rig].client \notin {Nobody, client}
      BY <1>1, <2>2, LooksKeeps DEF Acquire
    <2> QED
      BY <2>1, <2>2
  <1>2. ASSUME NEW client \in LeaseClients, NEW rig \in LeaseRigs, NEW ttl \in RequestedTtls,
               Renew(client, rig, ttl)
        PROVE  PromiseInv'
    <2>1. CASE Expire(leases)[rig].client = client
      BY <1>2, <2>1, StoreKeeps DEF Renew
    <2>2. CASE Expire(leases)[rig].client # client
      BY <1>2, <2>2, LooksKeeps DEF Renew
    <2> QED
      BY <2>1, <2>2
  <1>3. ASSUME NEW client \in LeaseClients, NEW at \in LeaseRigs, Release(client, at)
        PROVE  PromiseInv'
    <2>0. leaseNow \in Nat /\ leases \in [LeaseRigs -> Leased] /\ granted \in [LeaseRigs -> Leased]
      BY DEF PromiseInv, LeaseType
    <2>1. NoLease \in Leased /\ NoLease.until = 0
      BY DEF NoLease, Lease, Leased
    <2>2. LeaseType'
      BY <1>3, <2>0, <2>1 DEF Release, LeaseType
    <2>3. ASSUME NEW rig \in LeaseRigs PROVE Promised(rig)'
      <3>1. CASE rig = at
        BY <1>3, <2>0, <2>1, <3>1, LeaseAssumption DEF Release, Promised
      <3>2. CASE rig # at
        <4>1. Promised(rig)
          BY DEF PromiseInv
        <4> QED
          BY <1>3, <2>0, <3>2, <4>1 DEF Release, Promised
      <3> QED
        BY <3>1, <3>2
    <2> QED
      BY <2>2, <2>3 DEF PromiseInv
  <1>4. CASE Looks
    BY <1>4, LooksKeeps DEF Looks
  <1>5. CASE LeaseTick
    <2>0. leaseNow \in Nat /\ leases \in [LeaseRigs -> Leased] /\ granted \in [LeaseRigs -> Leased]
      BY DEF PromiseInv, LeaseType
    <2>1. ASSUME NEW rig \in LeaseRigs PROVE Promised(rig)'
      <3>1. Promised(rig) /\ leases[rig].until \in Nat /\ granted[rig].until \in Nat
        BY <2>0 DEF PromiseInv, Leased
      <3> QED
        BY <1>5, <2>0, <3>1, LeaseAssumption DEF LeaseTick, Promised
    <2> QED
      BY <1>5, <2>0, <2>1 DEF LeaseTick, PromiseInv, LeaseType
  <1>6. CASE UNCHANGED leaseVars
    BY <1>6 DEF leaseVars, PromiseInv, LeaseType, Promised
  <1> QED
    BY <1>1, <1>2, <1>3, <1>4, <1>5, <1>6 DEF LeaseNext

LEMMA PromiseHolds == LeaseSpec => []PromiseInv
  BY PromiseInit, PromiseStep, PTL DEF LeaseSpec

(* remote_control.cpp: the client that was told it has a rig until some    *)
(* time has it until then, and nobody holds a rig that he was not granted, *)
(* or for longer than the largest time to live.                            *)
THEOREM PromiseIsKept == LeaseSpec => []KeepsItsPromise
  <1>1. PromiseInv => KeepsItsPromise
    <2> SUFFICES ASSUME PromiseInv, NEW rig \in LeaseRigs
                 PROVE  /\ granted[rig].until > leaseNow => Owns(granted[rig].client, rig)
                        /\ leases[rig] \in {granted[rig], NoLease}
                        /\ leases[rig].until <= leaseNow + MaxTtl
      BY DEF KeepsItsPromise
    <2> QED
      BY ExpireKeeps DEF PromiseInv, Promised, Owns
  <1> QED
    BY <1>1, PromiseHolds, PTL

(* remote_control.cpp: control never passes from one client to another     *)
(* before the end that the first was told, unless he released it.          *)
THEOREM ControlPassesLate == LeaseSpec => HandsOverLate
  <1> DEFINE Late ==
        \A rig \in LeaseRigs, client \in LeaseClients :
          granted'[rig].client = client /\ granted[rig].client \notin {client, Nobody}
            => granted[rig].until <= leaseNow
  <1>1. PromiseInv /\ [LeaseNext]_leaseVars => [Late]_leaseVars
    <2> SUFFICES ASSUME PromiseInv, LeaseNext, NEW rig \in LeaseRigs, NEW client \in LeaseClients,
                        granted'[rig].client = client, granted[rig].client \notin {client, Nobody},
                        ~(granted[rig].until <= leaseNow)
                 PROVE  FALSE
      BY DEF Late
    <2>1. leaseNow \in Nat /\ granted \in [LeaseRigs -> Leased] /\ granted[rig].until \in Nat
      BY DEF PromiseInv, LeaseType, Leased
    <2>2. Expire(leases)[rig] = granted[rig]
      BY <2>1, ExpireKeeps
    <2>3. granted'[rig] # granted[rig]
      OBVIOUS
    <2>4. ASSUME NEW other \in LeaseClients, NEW at \in LeaseRigs, NEW ttl \in RequestedTtls,
                 Acquire(other, at, ttl) \/ Renew(other, at, ttl)
          PROVE  FALSE
      <3>1. at = rig /\ granted'[rig] = Lease(other, leaseNow + ClampTtl(ttl))
        BY <2>1, <2>3, <2>4 DEF Acquire, Renew
      <3>2. other = client
        BY <3>1 DEF Lease
      <3>3. Expire(leases)[rig].client \in {Nobody, client}
        BY <2>1, <2>3, <2>4, <3>1, <3>2 DEF Acquire, Renew
      <3> QED
        BY <2>2, <3>3
    <2>5. ASSUME NEW other \in LeaseClients, NEW at \in LeaseRigs, Release(other, at)
          PROVE  FALSE
      <3>1. granted'[rig] = NoLease
        BY <2>1, <2>3, <2>5 DEF Release
      <3> QED
        BY <3>1, LeaseAssumption DEF NoLease, Lease
    <2>6. CASE Looks \/ LeaseTick
      BY <2>3, <2>6 DEF Looks, LeaseTick
    <2> QED
      BY <2>4, <2>5, <2>6 DEF LeaseNext
  <1> QED
    BY <1>1, PromiseHolds, PTL DEF LeaseSpec, HandsOverLate

-----------------------------------------------------------------------------
(***************************************************************************)
(* A session of the DX cluster client is always the one its settings       *)
(* describe, for any servers, callsigns and bands and any bounds.          *)
(***************************************************************************)

(* SessionIsCurrent of any client. *)
Current(d) ==
  /\ HasSocket(d) => d.socket.to = d.server
  /\ HasSocket(d) => d.socket.logins = (IF d.loggedIn THEN <<d.login>> ELSE <<>>)
  /\ d.loggedIn /\ d.band # NoBand /\ d.server \in Filtered => d.socket.filter = d.band
  /\ \A i \in 1..Len(d.pending) : d.pending[i].source = SourceOf[d.pending[i].from]

(* A callsign is sent only over a socket, and a socket is held only by an  *)
(* enabled client.                                                         *)
Held(d) ==
  /\ d.loggedIn => HasSocket(d)
  /\ ~HasSocket(d) => d.socket = Nothing
  /\ HasSocket(d) => d.enabled

Sound(d) == d \in Clients /\ Held(d) /\ Current(d)

ClusterIInv ==
  /\ Sound(c)
  /\ stream \in Seq(ServerLines)
  /\ ends \in 0..MaxFailures
  /\ stream # <<>> => HasSocket(c)
-----------------------------------------------------------------------------
(* Delays are drawn from the table. *)
LEMMA DelayTyped == \A n \in 0..MaxFailures : Delay[n] \in Delays
BY DEF Delays

LEMMA NothingTyped == Nothing \in Sockets /\ <<>> \in Seq(Logins) /\ <<>> \in Seq(Spots)
BY DEF Nothing, Sockets

LEMMA ShorterTyped ==
  \A n \in 0..MaxFailures : Shorter(n + 1, MaxFailures) \in 0..MaxFailures
BY ClusterAssumption DEF Shorter

(* What changes only timers and counters leaves a client sound.            *)
LEMMA Quiet ==
  ASSUME NEW d, Sound(d), NEW e \in Clients,
         e.socket = d.socket, e.loggedIn = d.loggedIn, e.enabled = d.enabled,
         e.server = d.server, e.login = d.login, e.band = d.band, e.pending = d.pending
  PROVE  Sound(e)
BY DEF Sound, Held, Current, HasSocket

(* A closed client holds no session to be wrong about. *)
LEMMA CloseSound ==
  ASSUME NEW d \in Clients,
         \A i \in 1..Len(d.pending) : d.pending[i].source = SourceOf[d.pending[i].from]
  PROVE  /\ Sound(CloseConnection(d))
         /\ ~HasSocket(CloseConnection(d))
         /\ CloseConnection(d).enabled = d.enabled
         /\ CloseConnection(d).pending = d.pending
         /\ CloseConnection(d).failures = d.failures
<1> DEFINE e == CloseConnection(d)
<1>1. e \in Clients
  BY NothingTyped DEF CloseConnection, Clients
<1>2. e.socket = Nothing /\ ~e.loggedIn /\ e.enabled = d.enabled /\ e.pending = d.pending
      /\ e.failures = d.failures
  BY DEF CloseConnection, Clients
<1>3. ~HasSocket(e)
  BY <1>2 DEF HasSocket, Nothing
<1> QED BY <1>1, <1>2, <1>3 DEF Sound, Held, Current

LEMMA OpenSound ==
  ASSUME NEW d, Sound(d)
  PROVE  Sound(OpenConnection(d)) /\ (HasSocket(d) => HasSocket(OpenConnection(d)))
<1>1. CASE d.enabled /\ ~HasSocket(d) /\ Joinable(d)
  <2> DEFINE e == OpenConnection(d)
             s == [Nothing EXCEPT !.to = d.server]
  <2>1. d \in Clients /\ d.server \in Servers
    BY <1>1 DEF Sound, Joinable, Clients
  <2>2. s \in Sockets /\ s.to = d.server /\ s.logins = <<>>
    BY <2>1, NothingTyped DEF Nothing, Sockets
  <2>3. e \in Clients
    BY <1>1, <2>1, <2>2 DEF OpenConnection, Clients
  <2>4. e.socket = s /\ ~e.loggedIn /\ e.enabled /\ e.server = d.server
        /\ e.pending = d.pending
    BY <1>1, <2>1 DEF OpenConnection, Clients
  <2> QED BY <1>1, <2>2, <2>3, <2>4 DEF Sound, Held, Current, HasSocket, Joinable
<1>2. CASE ~(d.enabled /\ ~HasSocket(d) /\ Joinable(d))
  BY <1>2 DEF OpenConnection
<1> QED BY <1>1, <1>2

LEMMA ScheduleSound ==
  ASSUME NEW d, Sound(d)
  PROVE  Sound(ScheduleReconnect(d)) /\ HasSocket(ScheduleReconnect(d)) = HasSocket(d)
<1> DEFINE e == ScheduleReconnect(d)
<1>1. d \in Clients /\ Delay[d.failures] \in Delays
  BY DelayTyped DEF Sound, Clients
<1>2. e \in Clients
  BY <1>1 DEF ScheduleReconnect, Clients
<1>3. e.socket = d.socket /\ e.loggedIn = d.loggedIn /\ e.enabled = d.enabled
      /\ e.server = d.server /\ e.login = d.login /\ e.band = d.band /\ e.pending = d.pending
  BY <1>1 DEF ScheduleReconnect, Clients
<1> QED BY <1>2, <1>3, Quiet DEF HasSocket

LEMMA EndedSound ==
  ASSUME NEW d, Sound(d)
  PROVE  Sound(Ended(d)) /\ ~HasSocket(Ended(d))
<1> DEFINE e == CloseConnection(d)
           f == [e EXCEPT !.failures = Shorter(@ + 1, MaxFailures)]
<1>1. Sound(e) /\ ~HasSocket(e)
  BY CloseSound DEF Sound, Current
<1>2. e \in Clients /\ Shorter(e.failures + 1, MaxFailures) \in 0..MaxFailures
  BY <1>1, ShorterTyped DEF Sound, Clients
<1>3. f \in Clients
  BY <1>2 DEF Clients
<1>4. f.socket = e.socket /\ f.loggedIn = e.loggedIn /\ f.enabled = e.enabled
      /\ f.server = e.server /\ f.login = e.login /\ f.band = e.band /\ f.pending = e.pending
  BY <1>2 DEF Clients
<1>5. Sound(f) /\ ~HasSocket(f)
  BY <1>1, <1>3, <1>4, Quiet DEF HasSocket
<1>6. Sound(ScheduleReconnect(f)) /\ ~HasSocket(ScheduleReconnect(f))
  BY <1>5, ScheduleSound
<1>7. Ended(d) = (IF d.enabled THEN ScheduleReconnect(f) ELSE e)
  BY DEF Ended
<1> QED BY <1>1, <1>6, <1>7

(* Putting a timer or the counter back. *)
LEMMA TimersSound ==
  ASSUME NEW d, Sound(d)
  PROVE  /\ Sound([d EXCEPT !.reconnect = Stopped])
         /\ Sound([d EXCEPT !.idle = FALSE]) /\ Sound([d EXCEPT !.idle = TRUE])
         /\ Sound([d EXCEPT !.failures = 0])
         /\ HasSocket([d EXCEPT !.reconnect = Stopped]) = HasSocket(d)
         /\ HasSocket([d EXCEPT !.idle = TRUE]) = HasSocket(d)
<1>1. d \in Clients BY DEF Sound
<1>2. 0 \in 0..MaxFailures BY ClusterAssumption
<1>3. Sound([d EXCEPT !.reconnect = Stopped])
  <2> DEFINE e == [d EXCEPT !.reconnect = Stopped]
  <2>1. e \in Clients BY <1>1 DEF Clients
  <2>2. e.socket = d.socket /\ e.loggedIn = d.loggedIn /\ e.enabled = d.enabled
        /\ e.server = d.server /\ e.login = d.login /\ e.band = d.band /\ e.pending = d.pending
    BY <1>1 DEF Clients
  <2> QED BY <2>1, <2>2, Quiet
<1>4. ASSUME NEW b \in BOOLEAN PROVE Sound([d EXCEPT !.idle = b])
  <2> DEFINE e == [d EXCEPT !.idle = b]
  <2>1. e \in Clients BY <1>1 DEF Clients
  <2>2. e.socket = d.socket /\ e.loggedIn = d.loggedIn /\ e.enabled = d.enabled
        /\ e.server = d.server /\ e.login = d.login /\ e.band = d.band /\ e.pending = d.pending
    BY <1>1 DEF Clients
  <2> QED BY <2>1, <2>2, Quiet
<1>5. Sound([d EXCEPT !.failures = 0])
  <2> DEFINE e == [d EXCEPT !.failures = 0]
  <2>1. e \in Clients BY <1>1, <1>2 DEF Clients
  <2>2. e.socket = d.socket /\ e.loggedIn = d.loggedIn /\ e.enabled = d.enabled
        /\ e.server = d.server /\ e.login = d.login /\ e.band = d.band /\ e.pending = d.pending
    BY <1>1 DEF Clients
  <2> QED BY <2>1, <2>2, Quiet
<1>6. /\ HasSocket([d EXCEPT !.reconnect = Stopped]) = HasSocket(d)
      /\ HasSocket([d EXCEPT !.idle = TRUE]) = HasSocket(d)
  BY <1>1 DEF HasSocket, Clients
<1> QED BY <1>3, <1>4, <1>5, <1>6
-----------------------------------------------------------------------------
(* The setters, each from a sound client to a sound client.                *)

(* A client whose timer for batches rests. *)
LEMMA RestedTyped ==
  ASSUME NEW d \in Clients
  PROVE  [d EXCEPT !.batch = FALSE, !.failures = 0] \in Clients
<1>1. 0 \in 0..MaxFailures
  BY ClusterAssumption
<1>2. QED
  BY <1>1 DEF Clients

Evident(d) == \A i \in 1..Len(d.pending) : d.pending[i].source = SourceOf[d.pending[i].from]

LEMMA SetEnabledSound ==
  ASSUME NEW d, Sound(d), NEW on \in BOOLEAN
  PROVE  Sound(SetEnabled(d, on))
<1>1. d \in Clients /\ 0 \in 0..MaxFailures
  BY ClusterAssumption DEF Sound
<1>2. CASE d.enabled = on
  BY <1>2 DEF SetEnabled
<1>3. CASE d.enabled # on /\ on
  <2> DEFINE e == [d EXCEPT !.enabled = TRUE, !.failures = 0]
  <2>1. e \in Clients
    BY <1>1 DEF Clients
  <2>2. e.socket = d.socket /\ e.loggedIn = d.loggedIn /\ e.enabled
        /\ e.server = d.server /\ e.login = d.login /\ e.band = d.band /\ e.pending = d.pending
    BY <1>1 DEF Clients
  <2>3. Sound(e)
    BY <2>1, <2>2 DEF Sound, Held, Current, HasSocket
  <2>4. SetEnabled(d, on) = OpenConnection(e)
    BY <1>3 DEF SetEnabled
  <2> QED BY <2>3, <2>4, OpenSound
<1>4. CASE d.enabled # on /\ ~on
  <2> DEFINE e == [d EXCEPT !.enabled = FALSE, !.reconnect = Stopped]
             f == CloseConnection(e)
             g == FlushBatch(f)
             h == [g EXCEPT !.batch = FALSE, !.failures = 0]
  <2>1. e \in Clients /\ e.pending = d.pending
    BY <1>1 DEF Clients
  <2>2. Sound(f) /\ ~HasSocket(f)
    BY <2>1, CloseSound DEF Sound, Current
  <2>3. f \in Clients
    BY <2>2 DEF Sound
  <2>4. g \in Clients /\ g.pending = <<>> /\ Len(g.pending) = 0
        /\ g.socket = f.socket /\ g.loggedIn = f.loggedIn
    BY <2>3, NothingTyped DEF FlushBatch, Clients
  <2>5. h \in Clients /\ h.pending = g.pending /\ h.socket = g.socket
        /\ h.loggedIn = g.loggedIn
    <3> HIDE DEF e, f, g
    <3>1. h \in Clients
      BY <2>4, RestedTyped
    <3>2. h.pending = g.pending /\ h.socket = g.socket /\ h.loggedIn = g.loggedIn
      BY <2>4 DEF Clients
    <3>3. QED
      BY <3>1, <3>2
  <2>6. ~HasSocket(h) /\ ~h.loggedIn
    BY <2>2, <2>4, <2>5 DEF HasSocket, Sound, Held
  <2>7. SetEnabled(d, on) = h
    BY <1>4 DEF SetEnabled
  <2> HIDE DEF e, f, g, h
  <2>8. h.socket = Nothing
    BY <2>2, <2>4, <2>5 DEF Sound, Held
  <2>9. Held(h) /\ Current(h)
    BY <2>4, <2>5, <2>6, <2>8 DEF Held, Current
  <2>10. Sound(h)
    BY <2>5, <2>9 DEF Sound
  <2> QED BY <2>7, <2>10
<1> QED BY <1>2, <1>3, <1>4, <1>1 DEF Clients

(* A changed setting is safe although the session it leaves is not current. *)
LEMMA ChangedSound ==
  ASSUME NEW d \in Clients, Held(d), Evident(d)
  PROVE  Sound(Changed(d))
<1> DEFINE e == [d EXCEPT !.failures = 0]
           f == [e EXCEPT !.reconnect = Stopped]
<1>1. e \in Clients /\ 0 \in 0..MaxFailures
  BY ClusterAssumption DEF Clients
<1>2. e.pending = d.pending /\ e.socket = d.socket /\ e.loggedIn = d.loggedIn
      /\ e.enabled = d.enabled
  BY DEF Clients
<1>3. f \in Clients /\ f.pending = e.pending
  BY <1>1 DEF Clients
<1>4. Sound(CloseConnection(f))
  BY <1>2, <1>3, CloseSound DEF Evident
<1>5. Sound(Reopened(e))
  <2>1. Reopened(e) = OpenConnection(CloseConnection(f))
    BY DEF Reopened
  <2> HIDE DEF e, f
  <2>2. PICK closed : closed = CloseConnection(f)
    OBVIOUS
  <2>3. Sound(OpenConnection(closed))
    BY <1>4, <2>2, OpenSound
  <2> QED BY <2>1, <2>2, <2>3
<1>6. CASE d.enabled
  <2>1. Changed(d) = Reopened(e)
    BY <1>6 DEF Changed
  <2> HIDE DEF e, f
  <2> QED BY <1>5, <2>1
<1>7. CASE ~d.enabled
  <2>1. ~HasSocket(e) /\ ~e.loggedIn
    BY <1>2, <1>7 DEF Held, HasSocket
  <2>2. Sound(e)
    BY <1>1, <1>2, <2>1 DEF Sound, Held, Current, Evident, HasSocket
  <2> QED BY <1>7, <2>2 DEF Changed
<1> QED BY <1>6, <1>7

LEMMA SetServerSound ==
  ASSUME NEW d, Sound(d), NEW server \in Servers
  PROVE  Sound(SetServer(d, server))
<1> DEFINE e == [d EXCEPT !.server = server]
<1>1. d \in Clients
  BY DEF Sound
<1>2. e \in Clients /\ e.pending = d.pending /\ e.socket = d.socket
      /\ e.loggedIn = d.loggedIn /\ e.enabled = d.enabled
  BY <1>1 DEF Clients
<1>3. Held(e) /\ Evident(e)
  BY <1>2 DEF Sound, Current, Held, Evident, HasSocket
<1> QED BY <1>2, <1>3, ChangedSound DEF SetServer

LEMMA SetLoginSound ==
  ASSUME NEW d, Sound(d), NEW login \in Logins
  PROVE  Sound(SetLoginCallsign(d, login))
<1> DEFINE e == [d EXCEPT !.login = login]
<1>1. d \in Clients
  BY DEF Sound
<1>2. e \in Clients /\ e.pending = d.pending /\ e.socket = d.socket
      /\ e.loggedIn = d.loggedIn /\ e.enabled = d.enabled
  BY <1>1 DEF Clients
<1>3. Held(e) /\ Evident(e)
  BY <1>2 DEF Sound, Current, Held, Evident, HasSocket
<1> QED BY <1>2, <1>3, ChangedSound DEF SetLoginCallsign

(* What the server was left filtering on is always a band or none. *)
LEMMA FilterTyped ==
  ASSUME NEW d \in Clients
  PROVE  SentFilter(d) \in Bands \cup {NoBand}
BY DEF SentFilter, Clients, Sockets

LEMMA SetBandSound ==
  ASSUME NEW d, Sound(d), NEW band \in Bands \cup {NoBand}
  PROVE  /\ Sound(SetBandFilter(d, band))
         /\ HasSocket(SetBandFilter(d, band)) = HasSocket(d)
<1> DEFINE e == [d EXCEPT !.band = band]
           f == [e EXCEPT !.socket.filter = SentFilter(e)]
<1>1. d \in Clients
  BY DEF Sound
<1>2. e \in Clients /\ e.pending = d.pending /\ e.socket = d.socket /\ e.server = d.server
      /\ e.loggedIn = d.loggedIn /\ e.enabled = d.enabled /\ e.login = d.login
      /\ e.band = band
  BY <1>1 DEF Clients
<1>3. e.socket \in Sockets /\ SentFilter(e) \in Bands \cup {NoBand}
  BY <1>2, FilterTyped DEF Clients
<1>4. [e.socket EXCEPT !.filter = SentFilter(e)] \in Sockets
  BY <1>3 DEF Sockets
<1>5. f \in Clients /\ f.pending = e.pending /\ f.server = e.server
      /\ f.loggedIn = e.loggedIn /\ f.enabled = e.enabled /\ f.login = e.login
      /\ f.band = e.band /\ f.socket = [e.socket EXCEPT !.filter = SentFilter(e)]
  BY <1>2, <1>4 DEF Clients
<1>6. f.socket.to = d.socket.to /\ f.socket.logins = d.socket.logins
      /\ f.socket.filter = SentFilter(e)
  BY <1>2, <1>3, <1>5 DEF Sockets
<1>7. CASE d.band # band /\ d.loggedIn
  <2>1. SentFilter(e) = (IF d.server \in Filtered /\ band # NoBand THEN band ELSE d.socket.filter)
    BY <1>2 DEF SentFilter
  <2>2. Sound(f) /\ HasSocket(f) = HasSocket(d)
    BY <1>2, <1>7, <1>5, <1>6, <2>1 DEF Sound, Held, Current, HasSocket
  <2>3. SetBandFilter(d, band) = f
    BY <1>7, <1>2 DEF SetBandFilter
  <2> QED BY <2>2, <2>3
<1>8. CASE ~(d.band # band /\ d.loggedIn)
  <2>1. Sound(e) /\ HasSocket(e) = HasSocket(d)
    BY <1>2, <1>8 DEF Sound, Held, Current, HasSocket
  <2>2. SetBandFilter(d, band) = e
    BY <1>8 DEF SetBandFilter
  <2> QED BY <2>1, <2>2
<1> QED BY <1>7, <1>8

LEMMA ConfigureSound ==
  ASSUME NEW d, Sound(d), NEW on \in BOOLEAN, NEW server \in Servers,
         NEW login \in Logins \cup {BadLogin}
  PROVE  Sound(ConfigureDxCluster(d, on, server, login, d.band))
<1>1. CASE on /\ login \in Logins
  <2>1. d.band \in Bands \cup {NoBand}
    BY DEF Sound, Clients
  <2> DEFINE e == SetLoginCallsign(SetServer(d, server), login)
  <2>2. Sound(e)
    BY <1>1, SetServerSound, SetLoginSound
  <2>3. Sound(SetBandFilter(e, d.band))
    BY <2>1, <2>2, SetBandSound
  <2>4. Sound(SetEnabled(SetBandFilter(e, d.band), TRUE))
    BY <2>3, SetEnabledSound
  <2> QED BY <1>1, <2>4 DEF ConfigureDxCluster
<1>2. CASE ~(on /\ login \in Logins)
  BY <1>2, SetEnabledSound DEF ConfigureDxCluster
<1> QED BY <1>1, <1>2
-----------------------------------------------------------------------------
(* What arrives over a socket. *)

LEMMA PromptSound ==
  ASSUME NEW d, Sound(d), HasSocket(d)
  PROVE  Sound(AnswerPrompt(d)) /\ HasSocket(AnswerPrompt(d))
<1>1. CASE d.loggedIn \/ d.login \notin Logins
  BY <1>1 DEF AnswerPrompt
<1>2. CASE ~(d.loggedIn \/ d.login \notin Logins)
  <2> DEFINE s == [d.socket EXCEPT !.logins = Append(@, d.login), !.filter = SentFilter(d)]
             e == [d EXCEPT !.loggedIn = TRUE, !.failures = 0,
                            !.socket.logins = Append(@, d.login),
                            !.socket.filter = SentFilter(d)]
  <2>1. d \in Clients /\ d.socket \in Sockets /\ d.login \in Logins
        /\ d.socket.logins = <<>> /\ 0 \in 0..MaxFailures
    BY <1>2, ClusterAssumption DEF Sound, Current, Clients
  <2>2. SentFilter(d) \in Bands \cup {NoBand}
    BY <2>1, FilterTyped
  <2>3. Append(d.socket.logins, d.login) = <<d.login>>
        /\ Append(d.socket.logins, d.login) \in Seq(Logins)
    BY <2>1
  <2>4. s \in Sockets /\ s.to = d.socket.to /\ s.logins = <<d.login>>
        /\ s.filter = SentFilter(d)
    BY <2>1, <2>2, <2>3 DEF Sockets
  <2>5. e = [d EXCEPT !.loggedIn = TRUE, !.failures = 0, !.socket = s]
    BY <2>1 DEF Clients, Sockets
  <2> HIDE DEF s
  <2>6. e \in Clients
    BY <2>1, <2>4, <2>5 DEF Clients
  <2>7. e.socket = s /\ e.loggedIn /\ e.enabled = d.enabled /\ e.server = d.server
        /\ e.login = d.login /\ e.band = d.band /\ e.pending = d.pending
    BY <2>1, <2>5 DEF Clients
  <2>8. SentFilter(d) = (IF d.server \in Filtered /\ d.band # NoBand THEN d.band ELSE d.socket.filter)
    BY DEF SentFilter
  <2> HIDE DEF e
  <2>9. Sound(e) /\ HasSocket(e)
    BY <2>4, <2>6, <2>7, <2>8 DEF Sound, Held, Current, HasSocket
  <2> QED BY <1>2, <2>9 DEF AnswerPrompt, e
<1> QED BY <1>1, <1>2

LEMMA SpotSound ==
  ASSUME NEW d, Sound(d), HasSocket(d)
  PROVE  Sound(StoreSpot(d)) /\ HasSocket(StoreSpot(d))
<1>1. CASE Len(d.pending) >= MaxPending
  BY <1>1 DEF StoreSpot
<1>2. CASE ~(Len(d.pending) >= MaxPending)
  <2> DEFINE spot == [source |-> SourceOf[d.server], from |-> d.socket.to]
             e == [d EXCEPT !.pending = Append(@, spot)]
  <2>1. d \in Clients /\ d.socket \in Sockets /\ d.socket.to = d.server
        /\ d.server \in Servers /\ d.pending \in Seq(Spots)
    BY DEF Sound, Current, Clients, Sockets, HasSocket
  <2>2. spot \in Spots /\ spot.source = SourceOf[spot.from]
    BY <2>1, ClusterAssumption DEF Spots
  <2> HIDE DEF spot
  <2>3. Append(d.pending, spot) \in Seq(Spots)
    BY <2>1, <2>2
  <2>4. \A i \in 1..Len(Append(d.pending, spot)) :
          Append(d.pending, spot)[i].source = SourceOf[Append(d.pending, spot)[i].from]
    BY <2>1, <2>2 DEF Sound, Current
  <2>5. e \in Clients
    BY <2>1, <2>3 DEF Clients
  <2>6. e.socket = d.socket /\ e.loggedIn = d.loggedIn /\ e.enabled = d.enabled
        /\ e.server = d.server /\ e.login = d.login /\ e.band = d.band
        /\ e.pending = Append(d.pending, spot)
    BY <2>1 DEF Clients
  <2>7. Sound(e) /\ HasSocket(e)
    BY <2>4, <2>5, <2>6 DEF Sound, Held, Current, HasSocket
  <2> QED BY <1>2, <2>7 DEF StoreSpot, spot
<1> QED BY <1>1, <1>2

LEMMA ReceivedSound ==
  ASSUME NEW d, Sound(d), HasSocket(d), NEW line \in ServerLines
  PROVE  Sound(Received(d, line)) /\ HasSocket(Received(d, line))
<1> DEFINE e == [d EXCEPT !.idle = TRUE]
<1>1. Sound(e) /\ HasSocket(e)
  BY TimersSound
<1> HIDE DEF e
<1>2. Sound(HandleLine(e, line)) /\ HasSocket(HandleLine(e, line))
  BY <1>1, PromptSound, SpotSound DEF HandleLine, ServerLines
<1> QED BY <1>2 DEF Received, e
-----------------------------------------------------------------------------
(* The invariant holds at the start and every step keeps it.               *)

LEMMA ClusterStarts == ClusterInit => ClusterIInv
<1> SUFFICES ASSUME ClusterInit PROVE ClusterIInv
  OBVIOUS
<1>1. NewClient \in Clients /\ 0 \in 0..MaxFailures
  BY NothingTyped, ClusterAssumption DEF NewClient, Clients
<1>2. NewClient.socket = Nothing /\ ~NewClient.loggedIn /\ Len(NewClient.pending) = 0
  BY DEF NewClient
<1>3. ~HasSocket(NewClient)
  BY <1>2 DEF HasSocket, Nothing
<1>4. <<>> \in Seq(ServerLines)
  OBVIOUS
<1> QED BY <1>1, <1>2, <1>3, <1>4 DEF ClusterInit, ClusterIInv, Sound, Held, Current

(* Ending a connection empties the stream and counts it. *)
LEMMA EndsKeep ==
  ASSUME ClusterIInv, NEW d, Sound(d), EndsWith(d)
  PROVE  ClusterIInv'
<1>1. c' = d /\ stream' = <<>> /\ <<>> \in Seq(ServerLines)
  BY DEF EndsWith
<1>2. ends' \in 0..MaxFailures
  BY ShorterTyped DEF ClusterIInv, EndsWith
<1>3. Sound(c')
  BY <1>1
<1> QED BY <1>1, <1>2, <1>3 DEF ClusterIInv

(* What leaves the stream and the histories alone and keeps a socket. *)
LEMMA QuietKeeps ==
  ASSUME ClusterIInv, NEW d, Sound(d), c' = d, HasSocket(c) => HasSocket(d),
         UNCHANGED <<stream, ends>>
  PROVE  ClusterIInv'
<1>1. Sound(c') /\ (HasSocket(c) => HasSocket(c'))
  OBVIOUS
<1> QED BY <1>1 DEF ClusterIInv

LEMMA ClusterStep == ClusterIInv /\ [ClusterNext]_clusterVars => ClusterIInv'
<1> SUFFICES ASSUME ClusterIInv, [ClusterNext]_clusterVars PROVE ClusterIInv'
  OBVIOUS
<1>0. Sound(c) /\ c \in Clients
  BY DEF ClusterIInv, Sound
<1>1. CASE DoConfigureDxCluster
  <2>1. PICK on \in BOOLEAN, server \in Servers, login \in Logins \cup {BadLogin} :
          c' = ConfigureDxCluster(c, on, server, login, c.band)
    BY <1>1 DEF DoConfigureDxCluster
  <2>2. Sound(c')
    BY <1>0, <2>1, ConfigureSound
  <2>3. CASE c' = c
    BY <1>1, <2>3 DEF DoConfigureDxCluster, ClusterIInv
  <2>4. CASE c' # c
    <3>1. stream' = <<>> /\ <<>> \in Seq(ServerLines) /\ ends' = 0
          /\ 0 \in 0..MaxFailures
      BY <1>1, <2>4, ClusterAssumption DEF DoConfigureDxCluster
    <3> QED BY <2>2, <3>1 DEF ClusterIInv
  <2> QED BY <2>3, <2>4
<1>2. CASE DoSetBandFilter
  <2>1. PICK band \in Bands \cup {NoBand} : c' = SetBandFilter(c, band)
    BY <1>2 DEF DoSetBandFilter
  <2> QED BY <1>0, <1>2, <2>1, SetBandSound, QuietKeeps DEF DoSetBandFilter
<1>3. CASE Connects
  <2> DEFINE s == [c.socket EXCEPT !.up = TRUE]
             e == [c EXCEPT !.socket.up = TRUE]
  <2>1. c.socket \in Sockets
    BY <1>0 DEF Clients
  <2>2. s \in Sockets /\ s.to = c.socket.to /\ s.logins = c.socket.logins
        /\ s.filter = c.socket.filter
    BY <2>1 DEF Sockets
  <2>3. e = [c EXCEPT !.socket = s]
    BY <1>0, <2>1 DEF Clients, Sockets
  <2>4. e \in Clients
    BY <1>0, <2>2, <2>3 DEF Clients
  <2>5. e.socket = s /\ e.loggedIn = c.loggedIn /\ e.enabled = c.enabled
        /\ e.server = c.server /\ e.login = c.login /\ e.band = c.band
        /\ e.pending = c.pending
    BY <1>0, <2>3 DEF Clients
  <2>6. Sound(e) /\ HasSocket(e) = HasSocket(c)
    BY <1>0, <1>3, <2>2, <2>4, <2>5 DEF Connects, Sound, Held, Current, HasSocket
  <2> QED BY <1>3, <2>6, QuietKeeps DEF Connects
<1>4. CASE ServerSends
  <2>1. c.socket \in Sockets /\ c.socket.up /\ c' = c /\ ends' = ends
    BY <1>0, <1>4 DEF ServerSends, Clients
  <2>2. stream' \in Seq(ServerLines)
    BY <1>4 DEF ServerSends, ClusterIInv
  <2>3. HasSocket(c)
    BY <1>0, <1>4 DEF ServerSends, Sound, Held, Nothing
  <2> QED BY <2>1, <2>2, <2>3 DEF ClusterIInv
<1>5. CASE HandleReadyRead
  <2>1. stream # <<>> /\ Head(stream) \in ServerLines /\ stream' \in Seq(ServerLines) /\ HasSocket(c)
    BY <1>5 DEF HandleReadyRead, ClusterIInv
  <2>2. Sound(c') /\ HasSocket(c')
    BY <1>0, <1>5, <2>1, ReceivedSound DEF HandleReadyRead
  <2>3. ends' \in 0..MaxFailures
    BY <1>5, ClusterAssumption DEF HandleReadyRead, ClusterIInv
  <2> QED BY <2>1, <2>2, <2>3 DEF ClusterIInv
<1>6. CASE ConnectionRefused
  <2>1. Sound(ErrorOccurred(c))
    BY <1>0, EndedSound DEF ErrorOccurred
  <2> QED BY <1>6, <2>1, EndsKeep DEF ConnectionRefused
<1>7. CASE ServerHangsUp
  <2>1. Sound(ErrorOccurred(c))
    BY <1>0, EndedSound DEF ErrorOccurred
  <2>2. Sound(RemoteClosed(c))
    BY <2>1, EndedSound DEF RemoteClosed, Disconnected
  <2> QED BY <1>7, <2>2, EndsKeep DEF ServerHangsUp
<1>8. CASE IdleTimerFires
  <2>1. Sound([c EXCEPT !.idle = FALSE])
    BY <1>0, TimersSound
  <2>2. Sound(IdleTimeout(c))
    BY <1>0, <2>1, EndedSound DEF IdleTimeout
  <2> QED BY <1>8, <2>2, EndsKeep DEF IdleTimerFires
<1>9. CASE ReconnectTimerFires
  <2> DEFINE e == [c EXCEPT !.reconnect = Stopped]
  <2>1. Sound(e) /\ HasSocket(e) = HasSocket(c)
    BY <1>0, TimersSound
  <2> HIDE DEF e
  <2>2. Sound(OpenConnection(e)) /\ (HasSocket(e) => HasSocket(OpenConnection(e)))
    BY <2>1, OpenSound
  <2>3. ReconnectTimeout(c) = (IF c.enabled THEN OpenConnection(e) ELSE e)
    BY DEF ReconnectTimeout, e
  <2>4. Sound(ReconnectTimeout(c)) /\ (HasSocket(c) => HasSocket(ReconnectTimeout(c)))
    BY <2>1, <2>2, <2>3
  <2> QED BY <1>9, <2>4, QuietKeeps DEF ReconnectTimerFires
<1>10. CASE BatchTimerFires
  <2> DEFINE e == FlushBatch(c)
  <2>1. e \in Clients /\ e.socket = c.socket /\ e.loggedIn = c.loggedIn
        /\ e.enabled = c.enabled /\ e.server = c.server /\ e.login = c.login
        /\ e.band = c.band /\ Len(e.pending) = 0
    BY <1>0, NothingTyped DEF FlushBatch, Clients
  <2>2. Sound(e) /\ HasSocket(e) = HasSocket(c)
    BY <1>0, <2>1 DEF Sound, Held, Current, HasSocket
  <2> QED BY <1>10, <2>2, QuietKeeps DEF BatchTimerFires
<1>11. CASE UNCHANGED clusterVars
  BY <1>11 DEF clusterVars, ClusterIInv
<1> QED
  BY <1>1, <1>2, <1>3, <1>4, <1>5, <1>6, <1>7, <1>8, <1>9, <1>10, <1>11 DEF ClusterNext

(* Whatever the operator, the server and the network do, in any order, the *)
(* far end of the socket is the configured server, has been sent the       *)
(* configured callsign once and no other, filters on the receiver's band,  *)
(* and every spot that waits is labelled with the kind of its sender.      *)
THEOREM SessionAlwaysCurrent == ClusterSpec => []SessionIsCurrent
<1>1. ClusterIInv => SessionIsCurrent
  BY DEF ClusterIInv, Sound, Current, SessionIsCurrent
<1> QED BY <1>1, ClusterStarts, ClusterStep, PTL DEF ClusterSpec

(* Every variable keeps its type. *)
THEOREM ClusterTypeCorrect == ClusterSpec => []ClusterTypeOK
<1>1. ClusterIInv => ClusterTypeOK
  BY DEF ClusterIInv, Sound, ClusterTypeOK
<1> QED BY <1>1, ClusterStarts, ClusterStep, PTL DEF ClusterSpec

-----------------------------------------------------------------------------
(* What wakes the client, and how long it waits.                           *)

(* No delay is zero, which would read as a timer at rest. *)
LEMMA DelayRuns == \A n \in 0..MaxFailures : Delay[n] \in Nat \ {0}
  <1> DEFINE V == Nat \ {0}
             base == Shorter(MinimumReconnect, MaximumReconnect)
             Next(q, k) == IF k <= 1 THEN base ELSE Shorter(2 * q, MaximumReconnect)
             Body(g) == [failures \in 0..MaxFailures |->
                           IF failures <= 1 THEN Shorter(MinimumReconnect, MaximumReconnect)
                           ELSE Shorter(2 * g[failures - 1], MaximumReconnect)]
             step == [k \in 1..MaxFailures |-> [q \in V |-> Next(q, k)]]
             found == CHOOSE delay : delay = Body(delay)
  <1>1. MaxFailures \in Nat /\ base \in V /\ \A q \in V : Shorter(2 * q, MaximumReconnect) \in V
    BY ClusterAssumption DEF Shorter
  <1>2. step \in [1..MaxFailures -> [V -> V]]
    BY <1>1
  <1>3. \A k \in 1..MaxFailures : \A q \in V : step[k][q] = Next(q, k)
    OBVIOUS
  <1>4. ASSUME NEW g
        PROVE  Body(g)[0] = base /\ \A k \in 1..MaxFailures : Body(g)[k] = Next(g[k - 1], k)
    BY <1>1
  <1>5. ASSUME NEW g, g = [k \in 0..MaxFailures |-> g[k]], g[0] = Body(g)[0],
               \A k \in 1..MaxFailures : g[k] = Body(g)[k]
        PROVE  g = Body(g)
    <2> DEFINE b == Body(g)
    <2>1. b = [k \in 0..MaxFailures |-> b[k]]
          /\ \A k \in 0..MaxFailures : k = 0 \/ k \in 1..MaxFailures
      BY <1>1
    <2> HIDE DEF b
    <2> QED
      BY <1>5, <2>1 DEF b
  <1>6. Delay = found
    BY DEF Delay
  <1> HIDE DEF V, step, Body, Next, base
  <1>7. PICK f \in [0..MaxFailures -> V] : IsRecursion(f, base, step, MaxFailures)
    BY <1>1, <1>2, RecursionUpTo
  <1>8. f = Body(f)
    <2>1. ASSUME NEW k \in 1..MaxFailures PROVE f[k] = Next(f[k - 1], k)
      <3>1. k - 1 \in 0..MaxFailures
        BY <1>1
      <3> QED
        BY <1>3, <1>7, <3>1 DEF IsRecursion
    <2> QED
      BY <1>4, <1>5, <1>7, <2>1 DEF IsRecursion
  <1>9. found = Body(found)
    BY <1>8
  <1> HIDE DEF found
  <1>10. found[0] = base /\ \A k \in 1..MaxFailures : found[k] = Next(found[k - 1], k)
    <2>1. Body(found)[0] = base /\ \A k \in 1..MaxFailures : Body(found)[k] = Next(found[k - 1], k)
      BY <1>4
    <2> QED
      BY <1>9, <2>1
  <1>11. \A k \in 0..MaxFailures : found[k] \in V
    <2> DEFINE G == {k \in 0..MaxFailures : found[k] \in V}
    <2>1. 0 \in G /\ \A k \in 1..MaxFailures : k - 1 \in G => k \in G
      BY <1>1, <1>10 DEF Next
    <2> HIDE DEF G
    <2>2. 0..MaxFailures \subseteq G
      BY <1>1, <2>1, InductionUpTo
    <2> QED
      BY <2>2 DEF G
  <1> QED
    BY <1>6, <1>11 DEF V

(* ClusterInv of any client that has counted n failures; only a client     *)
(* that may connect is enabled.                                            *)
Asleep(d) ==
  ~d.enabled => ~HasSocket(d) /\ ~d.idle /\ ~d.batch /\ d.reconnect = Stopped /\ d.pending = <<>>
Awake(d, n) ==
  /\ d.failures = n
  /\ d.reconnect # Stopped => d.reconnect = Delay[n]
  /\ HasSocket(d) <=> d.attached
  /\ d.enabled => /\ Joinable(d)
                  /\ HasSocket(d) => d.idle /\ d.batch /\ d.reconnect = Stopped
                  /\ ~HasSocket(d) => ~d.idle /\ d.reconnect # Stopped
  /\ Asleep(d)

(* What is untouched by a connection's end. *)
LEMMA CloseQuiets ==
  ASSUME NEW d \in Clients, NEW e, e = CloseConnection(d)
  PROVE  /\ e \in Clients /\ ~HasSocket(e) /\ ~e.attached /\ ~e.idle
         /\ e.reconnect = d.reconnect /\ e.failures = d.failures /\ e.enabled = d.enabled
         /\ e.batch = d.batch /\ e.pending = d.pending /\ e.server = d.server /\ e.login = d.login
         /\ e.band = d.band
<1>1. e \in Clients
  BY NothingTyped DEF CloseConnection, Clients
<1>2. e.socket = Nothing
  BY DEF CloseConnection, Clients
<1>3. ~HasSocket(e)
  BY <1>2 DEF HasSocket, Nothing
<1> QED
  BY <1>1, <1>3 DEF CloseConnection, Clients

LEMMA OpenAwake ==
  ASSUME NEW d \in Clients, d.enabled, Joinable(d), ~HasSocket(d), d.reconnect = Stopped,
         NEW e, e = OpenConnection(d)
  PROVE  Awake(e, d.failures) /\ e.enabled /\ e.failures = d.failures /\ e.server = d.server
         /\ e.login = d.login /\ e.band = d.band
<1> DEFINE s == [Nothing EXCEPT !.to = d.server]
<1>1. e = [d EXCEPT !.loggedIn = FALSE, !.attached = TRUE, !.idle = TRUE, !.batch = TRUE, !.socket = s]
  BY DEF OpenConnection
<1>2. s.to = d.server /\ d.server # NoServer
  BY DEF Nothing, Joinable
<1> HIDE DEF s
<1>3. /\ e.attached /\ e.idle /\ e.batch /\ e.socket = s /\ e.reconnect = Stopped
      /\ e.failures = d.failures /\ e.enabled /\ e.server = d.server /\ e.login = d.login
      /\ e.band = d.band
  BY <1>1 DEF Clients
<1>4. HasSocket(e) /\ Joinable(e)
  BY <1>2, <1>3 DEF HasSocket, Joinable
<1> QED
  BY <1>3, <1>4 DEF Awake, Asleep

LEMMA EndedAwake ==
  ASSUME NEW d \in Clients, d.enabled, Joinable(d), NEW e, e = Ended(d)
  PROVE  Awake(e, Shorter(d.failures + 1, MaxFailures)) /\ ~e.attached
<1> DEFINE f == CloseConnection(d)
           n == Shorter(f.failures + 1, MaxFailures)
           g == [f EXCEPT !.failures = n]
<1>1. /\ f \in Clients /\ ~HasSocket(f) /\ ~f.attached /\ ~f.idle /\ f.failures = d.failures
      /\ f.enabled /\ f.server = d.server /\ f.login = d.login
  BY CloseQuiets
<1>2. e = ScheduleReconnect(g)
  BY DEF Ended
<1> HIDE DEF f
<1>3. n \in 0..MaxFailures
  BY <1>1, ShorterTyped DEF Clients
<1>4. /\ g \in Clients /\ g.failures = n /\ g.socket = f.socket /\ ~g.attached /\ ~g.idle
      /\ g.enabled /\ g.server = d.server /\ g.login = d.login
  BY <1>1, <1>3 DEF Clients
<1> HIDE DEF n, g
<1>5. e = [g EXCEPT !.reconnect = Delay[n]]
  BY <1>2, <1>4 DEF ScheduleReconnect
<1>6. /\ e.reconnect = Delay[n] /\ e.failures = n /\ e.socket = f.socket /\ ~e.attached /\ ~e.idle
      /\ e.enabled /\ e.server = d.server /\ e.login = d.login
  BY <1>4, <1>5 DEF Clients
<1>7. ~HasSocket(e) /\ Joinable(e) /\ Delay[n] # Stopped
  BY <1>1, <1>3, <1>6, DelayRuns DEF HasSocket, Joinable, Stopped
<1>8. n = Shorter(d.failures + 1, MaxFailures)
  BY <1>1 DEF n
<1> QED
  BY <1>6, <1>7, <1>8 DEF Awake, Asleep

(* A setter that takes hold puts the counter back. *)
LEMMA ChangedAwake ==
  ASSUME NEW d \in Clients, d.server \in Servers, d.enabled => d.login \in Logins,
         HasSocket(d) <=> d.attached,
         Asleep(d),
         NEW e, e = Changed(d)
  PROVE  /\ Awake(e, 0) /\ e.failures = 0 /\ e.enabled = d.enabled /\ e.server = d.server
         /\ e.login = d.login /\ e.band = d.band
<1> DEFINE f == [d EXCEPT !.failures = 0]
           g == [f EXCEPT !.reconnect = Stopped]
           h == CloseConnection(g)
<1>0. 0 \in 0..MaxFailures /\ d.server # NoServer
  BY ClusterAssumption
<1>1. /\ f \in Clients /\ f.failures = 0 /\ f.enabled = d.enabled /\ f.server = d.server
      /\ f.login = d.login /\ f.band = d.band /\ f.socket = d.socket /\ f.attached = d.attached
      /\ f.idle = d.idle /\ f.batch = d.batch /\ f.reconnect = d.reconnect /\ f.pending = d.pending
  BY <1>0 DEF Clients
<1>2. CASE d.enabled
  <2>1. e = OpenConnection(h)
    BY <1>2, <1>1 DEF Changed, Reopened
  <2> HIDE DEF f
  <2>2. /\ g \in Clients /\ g.failures = 0 /\ g.enabled /\ g.server = d.server /\ g.login = d.login
        /\ g.band = d.band /\ g.reconnect = Stopped
    BY <1>1, <1>2 DEF Clients
  <2> HIDE DEF g
  <2>3. /\ h \in Clients /\ ~HasSocket(h) /\ h.failures = 0 /\ h.enabled /\ h.server = d.server
        /\ h.login = d.login /\ h.band = d.band /\ h.reconnect = Stopped
    BY <2>2, CloseQuiets
  <2> HIDE DEF h
  <2>4. Joinable(h)
    BY <1>0, <1>2, <2>3 DEF Joinable
  <2> QED
    BY <1>2, <2>1, <2>3, <2>4, OpenAwake
<1>3. CASE ~d.enabled
  <2>1. e = f
    BY <1>3 DEF Changed
  <2> HIDE DEF f
  <2>2. ~HasSocket(e)
    BY <1>1, <1>3, <2>1 DEF Asleep, HasSocket
  <2> QED
    BY <1>0, <1>1, <1>3, <2>1, <2>2 DEF Awake, Asleep, HasSocket
<1> QED
  BY <1>2, <1>3 DEF Clients

(* A setter either changes nothing or leaves a client with no failures. *)
Restarted(e, d) == /\ Awake(e, e.failures) /\ (e = d \/ e.failures = 0)
                   /\ e.enabled = d.enabled /\ e.band = d.band

LEMMA SetServerAwake ==
  ASSUME NEW d \in Clients, Awake(d, d.failures), NEW server \in Servers,
         NEW e, e = SetServer(d, server)
  PROVE  Restarted(e, d) /\ e.server = server
<1> DEFINE f == [d EXCEPT !.server = server]
<1>1. CASE d.server = server
  BY <1>1 DEF SetServer, Restarted
<1>2. CASE d.server # server
  <2>1. e = Changed(f)
    BY <1>2 DEF SetServer
  <2>2. /\ f \in Clients /\ f.server = server /\ f.enabled = d.enabled /\ f.login = d.login
        /\ f.band = d.band /\ f.socket = d.socket /\ f.attached = d.attached /\ f.idle = d.idle
        /\ f.batch = d.batch /\ f.reconnect = d.reconnect /\ f.pending = d.pending
    BY DEF Clients
  <2> HIDE DEF f
  <2>3. /\ HasSocket(f) <=> f.attached
        /\ f.enabled => f.login \in Logins
        /\ Asleep(f)
    BY <2>2 DEF Asleep, Awake, HasSocket, Joinable
  <2>4. /\ Awake(e, 0) /\ e.failures = 0 /\ e.enabled = f.enabled /\ e.server = f.server
        /\ e.band = f.band
    BY <2>1, <2>2, <2>3, ChangedAwake
  <2> QED
    BY <2>2, <2>4 DEF Restarted
<1> QED
  BY <1>1, <1>2

LEMMA SetLoginAwake ==
  ASSUME NEW d \in Clients, Awake(d, d.failures), d.server \in Servers, NEW login \in Logins,
         NEW e, e = SetLoginCallsign(d, login)
  PROVE  Restarted(e, d) /\ e.server = d.server /\ e.login = login
<1> DEFINE f == [d EXCEPT !.login = login]
<1>1. CASE d.login = login
  BY <1>1 DEF SetLoginCallsign, Restarted
<1>2. CASE d.login # login
  <2>1. e = Changed(f)
    BY <1>2 DEF SetLoginCallsign
  <2>2. /\ f \in Clients /\ f.server = d.server /\ f.enabled = d.enabled /\ f.login = login
        /\ f.band = d.band /\ f.socket = d.socket /\ f.attached = d.attached /\ f.idle = d.idle
        /\ f.batch = d.batch /\ f.reconnect = d.reconnect /\ f.pending = d.pending
    BY DEF Clients
  <2> HIDE DEF f
  <2>3. /\ HasSocket(f) <=> f.attached
        /\ f.enabled => f.login \in Logins
        /\ Asleep(f)
    BY <2>2 DEF Asleep, Awake, HasSocket
  <2>4. /\ Awake(e, 0) /\ e.failures = 0 /\ e.enabled = f.enabled /\ e.server = f.server
        /\ e.login = f.login /\ e.band = f.band
    BY <2>1, <2>2, <2>3, ChangedAwake
  <2> QED
    BY <2>2, <2>4 DEF Restarted
<1> QED
  BY <1>1, <1>2

LEMMA SetBandAwake ==
  ASSUME NEW d \in Clients, NEW n, Awake(d, n), NEW band \in Bands \cup {NoBand},
         NEW e, e = SetBandFilter(d, band)
  PROVE  /\ e \in Clients /\ Awake(e, n) /\ e.server = d.server /\ e.login = d.login
         /\ e.enabled = d.enabled /\ e.socket.up = d.socket.up
         /\ band = d.band => e = d
<1> DEFINE f == [d EXCEPT !.band = band]
           s == [f.socket EXCEPT !.filter = SentFilter(f)]
<1>1. /\ f \in Clients /\ f.server = d.server /\ f.login = d.login /\ f.enabled = d.enabled
      /\ f.socket = d.socket /\ f.attached = d.attached /\ f.idle = d.idle /\ f.batch = d.batch
      /\ f.reconnect = d.reconnect /\ f.pending = d.pending /\ f.failures = d.failures
      /\ f.socket \in Sockets
  BY DEF Clients
<1>2. band = d.band => f = d
  BY DEF Clients
<1>3. CASE ~(d.band # band /\ d.loggedIn)
  <2>1. e = f
    BY <1>3 DEF SetBandFilter
  <2> HIDE DEF f
  <2> QED
    BY <1>1, <1>2, <2>1 DEF Awake, Asleep, HasSocket, Joinable
<1>4. CASE d.band # band /\ d.loggedIn
  <2>1. SentFilter(f) \in Bands \cup {NoBand}
    BY <1>1, FilterTyped
  <2>2. s \in Sockets /\ s.to = f.socket.to /\ s.up = f.socket.up
    BY <1>1, <2>1 DEF Sockets
  <2>3. e = [f EXCEPT !.socket = s]
    <3>1. e = [f EXCEPT !.socket.filter = SentFilter(f)]
      BY <1>4 DEF SetBandFilter
    <3> HIDE DEF f
    <3> QED
      BY <1>1, <3>1 DEF Clients, Sockets
  <2> HIDE DEF f, s
  <2>4. /\ e \in Clients /\ e.server = d.server /\ e.login = d.login /\ e.enabled = d.enabled
        /\ e.socket = s /\ e.attached = d.attached /\ e.idle = d.idle /\ e.batch = d.batch
        /\ e.reconnect = d.reconnect /\ e.pending = d.pending /\ e.failures = d.failures
    BY <1>1, <2>2, <2>3 DEF Clients
  <2>5. (HasSocket(e) <=> HasSocket(d)) /\ (Joinable(e) <=> Joinable(d))
    BY <1>1, <2>2, <2>4 DEF HasSocket, Joinable
  <2> QED
    BY <1>1, <1>4, <2>2, <2>4, <2>5 DEF Awake, Asleep
<1> QED
  BY <1>3, <1>4

LEMMA DisabledAwake ==
  ASSUME NEW d \in Clients, d.enabled, NEW e, e = SetEnabled(d, FALSE)
  PROVE  Awake(e, 0) /\ e.failures = 0 /\ ~e.enabled
<1> DEFINE f == [d EXCEPT !.enabled = FALSE, !.reconnect = Stopped]
           g == CloseConnection(f)
           h == FlushBatch(g)
<1>1. f \in Clients /\ ~f.enabled /\ f.reconnect = Stopped
  BY DEF Clients
<1>2. e = [h EXCEPT !.batch = FALSE, !.failures = 0]
  BY DEF SetEnabled, Clients
<1> HIDE DEF f
<1>3. g \in Clients /\ ~HasSocket(g) /\ ~g.attached /\ ~g.idle /\ g.reconnect = Stopped /\ ~g.enabled
  BY <1>1, CloseQuiets
<1> HIDE DEF g
<1>4. /\ h \in Clients /\ h.socket = g.socket /\ ~h.attached /\ ~h.idle /\ h.reconnect = Stopped
      /\ ~h.enabled /\ h.pending = <<>>
  BY <1>3, NothingTyped DEF FlushBatch, Clients
<1> HIDE DEF h
<1>5. /\ e.socket = g.socket /\ ~e.attached /\ ~e.idle /\ e.reconnect = Stopped
      /\ ~e.enabled /\ e.pending = <<>> /\ ~e.batch /\ e.failures = 0
  BY <1>2, <1>4 DEF Clients
<1>6. ~HasSocket(e)
  BY <1>3, <1>5 DEF HasSocket
<1> QED
  BY <1>5, <1>6 DEF Awake, Asleep

LEMMA ConfigureAwake ==
  ASSUME NEW d, Sound(d), Awake(d, d.failures), NEW on \in BOOLEAN, NEW server \in Servers,
         NEW login \in Logins \cup {BadLogin},
         NEW e, e = ConfigureDxCluster(d, on, server, login, d.band)
  PROVE  Awake(e, e.failures) /\ (e = d \/ e.failures = 0)
<1>0. d \in Clients /\ d.band \in Bands \cup {NoBand}
  BY DEF Sound, Clients
<1>1. CASE on /\ login \in Logins
  <2> DEFINE f == SetServer(d, server)
             g == SetLoginCallsign(f, login)
             h == SetBandFilter(g, d.band)
             k == [h EXCEPT !.enabled = TRUE, !.failures = 0]
  <2>1. e = SetEnabled(h, TRUE)
    BY <1>1 DEF ConfigureDxCluster
  <2>2. Restarted(f, d) /\ f.server = server /\ Sound(f) /\ f \in Clients
    BY <1>0, SetServerAwake, SetServerSound DEF Sound
  <2> HIDE DEF f
  <2>3. Restarted(g, f) /\ g.server = server /\ g.login = login /\ Sound(g) /\ g \in Clients
    BY <1>1, <2>2, SetLoginAwake, SetLoginSound DEF Restarted, Sound
  <2> HIDE DEF g
  <2>4. g.band = d.band /\ Awake(g, g.failures) /\ (g = d \/ g.failures = 0)
    BY <2>2, <2>3 DEF Restarted
  <2>5. h = g
    BY <1>0, <2>3, <2>4, SetBandAwake
  <2>6. h \in Clients /\ Awake(h, h.failures) /\ (h = d \/ h.failures = 0) /\ h.server = server /\ h.login = login
    BY <2>3, <2>4, <2>5
  <2> HIDE DEF h
  <2>7. CASE h.enabled
    <3>1. e = h
      BY <2>1, <2>6, <2>7 DEF SetEnabled, Clients
    <3> QED
      BY <2>6, <3>1
  <2>8. CASE ~h.enabled
    <3>1. e = OpenConnection(k)
      BY <2>1, <2>6, <2>8 DEF SetEnabled, Clients
    <3>2. 0 \in 0..MaxFailures /\ server # NoServer
      BY ClusterAssumption
    <3>3. /\ k \in Clients /\ k.enabled /\ k.failures = 0 /\ k.server = server /\ k.login = login
          /\ k.socket = h.socket /\ k.reconnect = h.reconnect
      BY <2>6, <3>2 DEF Clients
    <3> HIDE DEF k
    <3>4. ~HasSocket(k) /\ Joinable(k) /\ k.reconnect = Stopped
      BY <1>1, <2>6, <2>8, <3>2, <3>3 DEF Awake, Asleep, HasSocket, Joinable
    <3> QED
      BY <3>1, <3>3, <3>4, OpenAwake
  <2> QED
    BY <2>7, <2>8
<1>2. CASE ~(on /\ login \in Logins)
  <2>1. e = SetEnabled(d, FALSE)
    BY <1>2 DEF ConfigureDxCluster
  <2>2. CASE d.enabled
    BY <1>0, <2>1, <2>2, DisabledAwake
  <2>3. CASE ~d.enabled
    <3>1. e = d
      BY <1>0, <2>1, <2>3 DEF SetEnabled, Clients
    <3> QED
      BY <3>1
  <2> QED
    BY <2>2, <2>3
<1> QED
  BY <1>1, <1>2

LEMMA ReceivedAwake ==
  ASSUME NEW d, Sound(d), HasSocket(d), NEW n \in 0..MaxFailures, Awake(d, n),
         NEW line \in ServerLines, NEW e, e = Received(d, line)
  PROVE  Awake(e, IF ~d.loggedIn /\ e.loggedIn THEN 0 ELSE n)
<1> DEFINE f == [d EXCEPT !.idle = TRUE]
<1>1. d \in Clients /\ d.enabled
  BY DEF Sound, Awake, Asleep
<1>2. /\ f \in Clients /\ f.enabled /\ f.idle /\ f.socket = d.socket /\ f.attached = d.attached
      /\ f.batch = d.batch /\ f.reconnect = d.reconnect /\ f.failures = d.failures
      /\ f.server = d.server /\ f.login = d.login /\ f.loggedIn = d.loggedIn
  BY <1>1 DEF Clients
<1>3. e = HandleLine(f, line)
  BY DEF Received
<1> HIDE DEF f
<1>4. HasSocket(f) /\ Joinable(f) /\ f.reconnect = Stopped /\ f.batch /\ f.attached /\ f.failures = n
  BY <1>1, <1>2 DEF Awake, Asleep, HasSocket, Joinable
<1>5. Awake(f, n)
  BY <1>2, <1>4 DEF Awake, Asleep
<1>6. CASE e = f
  BY <1>2, <1>5, <1>6
<1>7. CASE e = StoreSpot(f)
  <2> DEFINE q == Append(f.pending, [source |-> SourceOf[f.server], from |-> f.socket.to])
  <2>1. CASE e # f
    <3>1. e = [f EXCEPT !.pending = q]
      BY <1>7, <2>1 DEF StoreSpot
    <3> HIDE DEF q
    <3>2. /\ e.enabled /\ e.idle /\ e.socket = f.socket /\ e.attached = f.attached
          /\ e.batch = f.batch /\ e.reconnect = f.reconnect /\ e.failures = f.failures
          /\ e.server = f.server /\ e.login = f.login /\ e.loggedIn = f.loggedIn
      BY <1>2, <3>1 DEF Clients
    <3> QED
      BY <1>2, <1>4, <3>2 DEF Awake, Asleep, HasSocket, Joinable
  <2> QED
    BY <1>6, <2>1
<1>8. CASE e = AnswerPrompt(f) /\ ~f.loggedIn
  <2>1. f.socket \in Sockets /\ f.login \in Logins
    BY <1>2, <1>4 DEF Clients, Joinable
  <2> DEFINE s == [f.socket EXCEPT !.logins = Append(@, f.login), !.filter = SentFilter(f)]
  <2>2. e = [f EXCEPT !.loggedIn = TRUE, !.failures = 0, !.socket = s]
    BY <1>2, <1>8, <2>1 DEF AnswerPrompt, Clients, Sockets
  <2>3. s.to = f.socket.to
    BY <2>1 DEF Sockets
  <2> HIDE DEF s
  <2>4. /\ e.enabled /\ e.idle /\ e.socket = s /\ e.attached = f.attached
        /\ e.batch = f.batch /\ e.reconnect = f.reconnect /\ e.failures = 0
        /\ e.server = f.server /\ e.login = f.login /\ e.loggedIn
    BY <1>2, <2>2 DEF Clients
  <2> QED
    BY <1>2, <1>4, <1>8, <2>3, <2>4 DEF Awake, Asleep, HasSocket, Joinable
<1> QED
  BY <1>3, <1>6, <1>7, <1>8 DEF HandleLine, AnswerPrompt, ServerLines

(* The invariant, and what makes the stream another one's tail: only an    *)
(* open socket carries lines.                                              *)
AwakeInv == ClusterIInv /\ Awake(c, ends)

LEMMA AwakeStep == AwakeInv /\ [ClusterNext]_clusterVars => Awake(c', ends')
<1> SUFFICES ASSUME AwakeInv, [ClusterNext]_clusterVars PROVE Awake(c', ends')
  OBVIOUS
<1>0. /\ Sound(c) /\ c \in Clients /\ Awake(c, ends) /\ c.failures = ends
      /\ ends \in 0..MaxFailures /\ Held(c) /\ 0 \in 0..MaxFailures
  BY ClusterAssumption DEF AwakeInv, ClusterIInv, Sound, Awake, Asleep
<1>1. CASE DoConfigureDxCluster
  <2>1. PICK on \in BOOLEAN, server \in Servers, login \in Logins \cup {BadLogin} :
          /\ c' = ConfigureDxCluster(c, on, server, login, c.band)
          /\ IF c' = c THEN UNCHANGED <<stream, ends>>
                       ELSE stream' = <<>> /\ ends' = 0
    BY <1>1 DEF DoConfigureDxCluster
  <2>2. Awake(c', c'.failures) /\ (c' = c \/ c'.failures = 0)
    BY <1>0, <2>1, ConfigureAwake
  <2> QED
    BY <1>0, <2>1, <2>2
<1>2. CASE DoSetBandFilter
  <2>1. PICK band \in Bands \cup {NoBand} : c' = SetBandFilter(c, band)
    BY <1>2 DEF DoSetBandFilter
  <2> QED
    BY <1>0, <1>2, <2>1, SetBandAwake DEF DoSetBandFilter
<1>3. CASE Connects
  <2> DEFINE s == [c.socket EXCEPT !.up = TRUE]
  <2>1. s.to = c.socket.to /\ c.socket \in Sockets
    BY <1>0 DEF Clients, Sockets
  <2>2. c' = [c EXCEPT !.socket = s]
    BY <1>0, <1>3, <2>1 DEF Connects, Clients, Sockets
  <2> HIDE DEF s
  <2>3. /\ c'.enabled = c.enabled /\ c'.idle = c.idle /\ c'.socket = s /\ c'.attached = c.attached
        /\ c'.batch = c.batch /\ c'.reconnect = c.reconnect /\ c'.failures = c.failures
        /\ c'.server = c.server /\ c'.login = c.login /\ c'.pending = c.pending
    BY <1>0, <2>2 DEF Clients
  <2> QED
    BY <1>0, <1>3, <2>1, <2>3 DEF Connects, Awake, Asleep, HasSocket, Joinable
<1>4. CASE HandleReadyRead
  <2>1. stream # <<>> /\ Head(stream) \in ServerLines /\ HasSocket(c)
    BY <1>4 DEF HandleReadyRead, AwakeInv, ClusterIInv
  <2> QED
    BY <1>0, <1>4, <2>1, ReceivedAwake DEF HandleReadyRead
<1>5. ASSUME HasSocket(c) 
      PROVE  /\ c.enabled /\ Joinable(c)
             /\ Awake(Ended(c), Shorter(ends + 1, MaxFailures)) /\ ~Ended(c).attached
  BY <1>0, <1>5, EndedAwake DEF Awake, Asleep
<1>6. CASE ConnectionRefused
  BY <1>5, <1>6 DEF ConnectionRefused, EndsWith, ErrorOccurred
<1>7. CASE ServerHangsUp
  <2>1. HasSocket(c)
    BY <1>0, <1>7 DEF ServerHangsUp, Held, Nothing
  <2>2. RemoteClosed(c) = Ended(c)
    BY <1>5, <2>1 DEF RemoteClosed, ErrorOccurred
  <2> QED
    BY <1>5, <1>7, <2>1, <2>2 DEF ServerHangsUp, EndsWith
<1>8. CASE IdleTimerFires
  <2> DEFINE f == [c EXCEPT !.idle = FALSE]
  <2>1. c.enabled /\ Joinable(c)
    BY <1>0, <1>8 DEF IdleTimerFires, Awake, Asleep
  <2>2. f \in Clients /\ f.enabled /\ f.server = c.server /\ f.login = c.login /\ f.failures = ends
    BY <1>0, <2>1 DEF Clients
  <2>3. c' = Ended(f) /\ ends' = Shorter(ends + 1, MaxFailures)
    BY <1>8, <2>1 DEF IdleTimerFires, EndsWith, IdleTimeout
  <2> HIDE DEF f
  <2>4. Joinable(f)
    BY <2>1, <2>2 DEF Joinable
  <2> QED
    BY <2>2, <2>3, <2>4, EndedAwake
<1>9. CASE ReconnectTimerFires
  <2> DEFINE f == [c EXCEPT !.reconnect = Stopped]
  <2>1. c.enabled /\ Joinable(c) /\ ~HasSocket(c)
    BY <1>0, <1>9 DEF ReconnectTimerFires, Awake, Asleep
  <2>2. /\ f \in Clients /\ f.enabled /\ f.server = c.server /\ f.login = c.login /\ f.failures = ends
        /\ f.socket = c.socket /\ f.reconnect = Stopped
    BY <1>0, <2>1 DEF Clients
  <2>3. c' = OpenConnection(f) /\ ends' = ends
    BY <1>9, <2>1 DEF ReconnectTimerFires, ReconnectTimeout
  <2> HIDE DEF f
  <2>4. Joinable(f) /\ ~HasSocket(f)
    BY <2>1, <2>2 DEF Joinable, HasSocket
  <2> QED
    BY <2>2, <2>3, <2>4, OpenAwake
<1>10. CASE BatchTimerFires
  <2>1. c' = [c EXCEPT !.pending = <<>>] /\ ends' = ends
    BY <1>10 DEF BatchTimerFires, FlushBatch
  <2>2. /\ c'.enabled = c.enabled /\ c'.idle = c.idle /\ c'.socket = c.socket
        /\ c'.attached = c.attached /\ c'.batch = c.batch /\ c'.reconnect = c.reconnect
        /\ c'.failures = c.failures /\ c'.server = c.server /\ c'.login = c.login /\ c'.pending = <<>>
    BY <1>0, <2>1 DEF Clients
  <2> QED
    BY <1>0, <2>1, <2>2 DEF Awake, Asleep, HasSocket, Joinable
<1>11. CASE UNCHANGED <<c, ends>>
  BY <1>0, <1>11
<1> QED
  BY <1>1, <1>2, <1>3, <1>4, <1>6, <1>7, <1>8, <1>9, <1>10, <1>11
     DEF ClusterNext, ServerSends, clusterVars

(* An enabled client always has something to wake it, and one thing only:  *)
(* a connection under the idle timer, or the reconnect timer with the      *)
(* delay that the connections ended in a row ask for.                      *)
THEOREM ClientIsAwake == ClusterSpec => []ClusterInv
<1>1. ClusterInit => AwakeInv
  <2>1. ClusterInit => ~HasSocket(c)
    BY DEF ClusterInit, NewClient, HasSocket, Nothing
  <2>2. ClusterInit => Awake(c, ends)
    BY <2>1 DEF ClusterInit, NewClient, Awake, Asleep
  <2> QED
    BY <2>2, ClusterStarts DEF AwakeInv
<1>2. AwakeInv /\ [ClusterNext]_clusterVars => AwakeInv'
  <2> SUFFICES ASSUME AwakeInv, [ClusterNext]_clusterVars PROVE AwakeInv'
    OBVIOUS
  <2>1. Awake(c', ends') /\ ClusterIInv'
    BY AwakeStep, ClusterStep DEF AwakeInv
  <2> QED
    BY <2>1 DEF AwakeInv
<1>3. AwakeInv => ClusterInv
  <2> SUFFICES ASSUME AwakeInv PROVE ClusterInv
    OBVIOUS
  <2>1. c \in Clients /\ c.attached \in BOOLEAN /\ HasSocket(c) \in BOOLEAN
    BY DEF AwakeInv, ClusterIInv, Sound, Clients, HasSocket
  <2>2. ClusterTypeOK
    BY <2>1 DEF AwakeInv, ClusterIInv, ClusterTypeOK
  <2>3. BacksOff
    BY DEF AwakeInv, Awake, Asleep, BacksOff
  <2>4. HasSocket(c) = c.attached
    BY <2>1 DEF AwakeInv, Awake, Asleep
  <2> QED
    BY <2>2, <2>3, <2>4 DEF AwakeInv, Awake, Asleep, ClusterInv
<1> QED
  BY <1>1, <1>2, <1>3, PTL DEF ClusterSpec

-----------------------------------------------------------------------------
(***************************************************************************)
(* What other receivers report: the store and the markers made of it.      *)
(***************************************************************************)

StoredSpots == [source : Feeds, call : SpotCalls, band : SpotBands \cup {Unplaced}, at : Int]
SameKey(a, b) == a.source = b.source /\ a.call = b.call
Unique(store) == \A k, l \in 1..Len(store) : SameKey(store[k], store[l]) => k = l
PartOf(part, store) == \A k \in 1..Len(part) : \E l \in 1..Len(store) : part[k] = store[l]

(* What is current of a store, collected along it.                         *)
Collected(store, window, kept) ==
  /\ kept[0] = <<>>
  /\ \A k \in 1..Len(store) :
       kept[k] = IF IsCurrent(store[k], window) THEN Append(kept[k - 1], store[k]) ELSE kept[k - 1]

LEMMA ExpiredIsCollected ==
  ASSUME NEW store \in Seq(StoredSpots), NEW window
  PROVE  \E kept : Collected(store, window, kept) /\ Expired(store, window) = kept[Len(store)]
  <1> DEFINE n == Len(store)
             Next(q, k) == IF IsCurrent(store[k], window) THEN Append(q, store[k]) ELSE q
             Body(g) == [k \in 0..n |-> IF k = 0 THEN <<>>
                                       ELSE IF IsCurrent(store[k], window)
                                            THEN Append(g[k - 1], store[k]) ELSE g[k - 1]]
             step == [k \in 1..n |-> [q \in Seq(StoredSpots) |-> Next(q, k)]]
             found == CHOOSE kept : kept = Body(kept)
  <1>1. n \in Nat /\ <<>> \in Seq(StoredSpots)
    OBVIOUS
  <1>2. step \in [1..n -> [Seq(StoredSpots) -> Seq(StoredSpots)]]
    OBVIOUS
  <1>3. \A k \in 1..n : \A q \in Seq(StoredSpots) : step[k][q] = Next(q, k)
    OBVIOUS
  <1>4. ASSUME NEW g PROVE Body(g)[0] = <<>> /\ \A k \in 1..n : Body(g)[k] = Next(g[k - 1], k)
    BY <1>1
  <1>5. ASSUME NEW g, g = [k \in 0..n |-> g[k]], g[0] = Body(g)[0],
               \A k \in 1..n : g[k] = Body(g)[k]
        PROVE  g = Body(g)
    <2> DEFINE b == Body(g)
    <2>1. b = [k \in 0..n |-> b[k]] /\ \A k \in 0..n : k = 0 \/ k \in 1..n
      BY <1>1
    <2> HIDE DEF b
    <2> QED
      BY <1>5, <2>1 DEF b
  <1>6. Expired(store, window) = found[n]
    BY DEF Expired
  <1> HIDE DEF step, n, Body, Next
  <1>7. PICK f \in [0..n -> Seq(StoredSpots)] : f[0] = <<>> /\ \A k \in 1..n : f[k] = step[k][f[k - 1]]
    <2> DEFINE V == Seq(StoredSpots)
               base == <<>>
    <2>1. n \in Nat /\ base \in V /\ step \in [1..n -> [V -> V]]
      BY <1>1, <1>2
    <2> HIDE DEF V, base
    <2>2. \E f \in [0..n -> V] : IsRecursion(f, base, step, n)
      BY <2>1, RecursionUpTo
    <2> QED
      BY <2>2 DEF IsRecursion, V, base
  <1>8. f = Body(f)
    <2>1. ASSUME NEW k \in 1..n PROVE f[k] = Next(f[k - 1], k)
      <3>1. k - 1 \in 0..n
        BY <1>1
      <3> QED
        BY <1>3, <1>7, <3>1
    <2> QED
      BY <1>4, <1>5, <1>7, <2>1
  <1>9. found = Body(found)
    BY <1>8
  <1> HIDE DEF found
  <1>10. found[0] = <<>> /\ \A k \in 1..n : found[k] = Next(found[k - 1], k)
    <2>1. Body(found)[0] = <<>> /\ \A k \in 1..n : Body(found)[k] = Next(found[k - 1], k)
      BY <1>4
    <2> QED
      BY <1>9, <2>1
  <1>11. Collected(store, window, found)
    BY <1>10 DEF Collected, n, Next
  <1> QED
    BY <1>6, <1>11 DEF n

LEMMA ExpiredIsPart ==
  ASSUME NEW store \in Seq(StoredSpots), NEW window
  PROVE  /\ Expired(store, window) \in Seq(StoredSpots) /\ PartOf(Expired(store, window), store)
         /\ Len(Expired(store, window)) <= Len(store)
         /\ Unique(store) => Unique(Expired(store, window))
  <1>1. PICK kept : Collected(store, window, kept) /\ Expired(store, window) = kept[Len(store)]
    BY ExpiredIsCollected
  <1> DEFINE n == Len(store)
             Of(q, k) == \A i \in 1..Len(q) : \E j \in 1..k : q[i] = store[j]
             SoundUpTo(k) == /\ kept[k] \in Seq(StoredSpots) /\ Of(kept[k], k) /\ Len(kept[k]) <= k
                             /\ Unique(store) => Unique(kept[k])
             G == {k \in 0..n : SoundUpTo(k)}
  <1>2. /\ n \in Nat /\ kept[0] = <<>>
        /\ \A k \in 1..n : kept[k] = IF IsCurrent(store[k], window) THEN Append(kept[k - 1], store[k])
                                     ELSE kept[k - 1]
    BY <1>1 DEF Collected
  <1>3. 0 \in G
    <2>1. kept[0] = <<>> /\ 0 \in 0..n
      BY <1>2
    <2>2. <<>> \in Seq(StoredSpots) /\ Of(<<>>, 0) /\ Len(<<>>) <= 0 /\ Unique(<<>>)
      BY DEF Unique
    <2>3. SoundUpTo(0)
      BY <2>1, <2>2
    <2> HIDE DEF SoundUpTo
    <2> QED
      BY <2>1, <2>3
  <1>4. ASSUME NEW k \in 1..n, k - 1 \in G
        PROVE  k \in G
    <2> DEFINE p == k - 1
               q == kept[p]
               longer == Append(q, store[k])
    <2>1. /\ p \in 0..n /\ q \in Seq(StoredSpots) /\ Of(q, p) /\ Len(q) <= p /\ k = p + 1
          /\ p \in Nat /\ (Unique(store) => Unique(q))
      <3>1. p \in 0..n /\ k = p + 1 /\ p \in Nat
        BY <1>2, <1>4
      <3>2. SoundUpTo(p)
        <4> HIDE DEF SoundUpTo
        <4> QED
          BY <1>4
      <3> HIDE DEF p
      <3> QED
        BY <3>1, <3>2
    <2>2. kept[k] = IF IsCurrent(store[k], window) THEN longer ELSE q
      BY <1>2
    <2> HIDE DEF p, q
    <2>3. Of(q, k)
      BY <2>1
    <2>4. /\ longer \in Seq(StoredSpots) /\ Len(longer) = Len(q) + 1 /\ longer[Len(q) + 1] = store[k]
          /\ \A i \in 1..Len(q) : longer[i] = q[i]
      BY <2>1
    <2> HIDE DEF longer
    <2>5. Of(longer, k) /\ Len(longer) <= k
      <3>1. Len(longer) <= k
        BY <2>1, <2>4
      <3>2. ASSUME NEW i \in 1..Len(longer) PROVE \E j \in 1..k : longer[i] = store[j]
        <4>1. CASE i \in 1..Len(q)
          BY <2>3, <2>4, <4>1
        <4>2. CASE i = Len(q) + 1
          <5>1. k \in 1..k
            BY <2>1
          <5> QED
            BY <2>4, <4>2, <5>1
        <4> QED
          BY <2>1, <2>4, <4>1, <4>2
      <3> QED
        BY <3>1, <3>2
    <2>6. ASSUME Unique(store) PROVE Unique(longer)
      <3>1. \A i \in 1..Len(q) : ~SameKey(q[i], store[k]) /\ ~SameKey(store[k], q[i])
        <4> SUFFICES ASSUME NEW i \in 1..Len(q)
                     PROVE  ~SameKey(q[i], store[k]) /\ ~SameKey(store[k], q[i])
          OBVIOUS
        <4>1. PICK j \in 1..p : q[i] = store[j]
          BY <2>1
        <4>2. j \in 1..n /\ j # k
          BY <2>1, <4>1
        <4> QED
          BY <2>6, <4>1, <4>2 DEF Unique
      <3>2. \A i \in 1..Len(longer) : i \in 1..Len(q) \/ i = Len(q) + 1
        BY <2>4
      <3> QED
        BY <2>1, <2>4, <2>6, <3>1, <3>2 DEF Unique
    <2>7. /\ longer \in Seq(StoredSpots) /\ Of(longer, k) /\ Len(longer) <= k
          /\ Unique(store) => Unique(longer)
      BY <2>4, <2>5, <2>6
    <2>8. q \in Seq(StoredSpots) /\ Of(q, k) /\ Len(q) <= k /\ (Unique(store) => Unique(q))
      BY <2>1, <2>3
    <2>9. SoundUpTo(k)
      <3>1. CASE kept[k] = longer
        BY <2>7, <3>1
      <3>2. CASE kept[k] = q
        BY <2>8, <3>2
      <3> QED
        BY <2>2, <3>1, <3>2
    <2> HIDE DEF SoundUpTo
    <2> QED
      BY <1>2, <2>9
  <1>5. SoundUpTo(n)
    <2>1. n \in 0..n
      BY <1>2
    <2>2. n \in G
      <3> HIDE DEF G, n
      <3> QED
        BY <1>2, <1>3, <1>4, <2>1, InductionUpTo
    <2> HIDE DEF SoundUpTo
    <2> QED
      BY <2>2
  <1> QED
    BY <1>1, <1>2, <1>5 DEF PartOf

LEMMA LeastPosition ==
  ASSUME NEW n \in Nat, NEW K \in SUBSET (1..n), K # {}
  PROVE  Min(K) \in K
  <1>1. K \in SUBSET Nat
    OBVIOUS
  <1>2. \E k \in K : \A l \in K : k <= l
    BY <1>1, SmallestOf
  <1> QED
    BY <1>2 DEF Min

LEMMA OldestIsStored ==
  ASSUME NEW store \in Seq(StoredSpots), store # <<>>
  PROVE  Oldest(store) \in 1..Len(store)
  <1> DEFINE n == Len(store)
             measure == [k \in 1..n |-> store[k].at]
             K == {k \in DOMAIN store : \A l \in DOMAIN store : store[k].at <= store[l].at}
  <1>1. n \in Nat /\ 1..n # {} /\ DOMAIN store = 1..n
    OBVIOUS
  <1>2. measure \in [1..n -> Int]
    <2>1. ASSUME NEW k \in 1..n PROVE store[k].at \in Int
      <3>1. store[k] \in StoredSpots
        OBVIOUS
      <3> QED
        BY <3>1 DEF StoredSpots
    <2> QED
      BY <2>1
  <1>3. IsFiniteSet(1..n)
    BY <1>1, FS_Interval
  <1>4. \E k \in 1..n : \A l \in 1..n : measure[k] <= measure[l]
    <2> HIDE DEF measure, n
    <2> QED
      BY <1>1, <1>2, <1>3, LeastOfFinite
  <1>5. K # {} /\ K \in SUBSET (1..n)
    BY <1>1, <1>4
  <1>6. Min(K) \in K
    <2> HIDE DEF K, n
    <2> QED
      BY <1>1, <1>5, LeastPosition
  <1> QED
    BY <1>1, <1>5, <1>6 DEF Oldest

LEMMA RemovedIsPart ==
  ASSUME NEW store \in Seq(StoredSpots), NEW k \in 1..Len(store), Unique(store)
  PROVE  /\ RemoveAt(store, k) \in Seq(StoredSpots) /\ Len(RemoveAt(store, k)) = Len(store) - 1
         /\ PartOf(RemoveAt(store, k), store) /\ Unique(RemoveAt(store, k))
  <1> DEFINE left == SubSeq(store, 1, k - 1)
             right == SubSeq(store, k + 1, Len(store))
             rest == left \o right
  <1>1. /\ left \in Seq(StoredSpots) /\ right \in Seq(StoredSpots)
        /\ Len(left) = k - 1 /\ Len(right) = Len(store) - k
        /\ \A i \in 1..k - 1 : left[i] = store[i]
        /\ \A i \in 1..Len(store) - k : right[i] = store[k + i]
    OBVIOUS
  <1> HIDE DEF left, right
  <1>2. /\ rest \in Seq(StoredSpots) /\ Len(rest) = Len(store) - 1
        /\ \A i \in 1..Len(rest) :
             LET j == IF i < k THEN i ELSE i + 1 IN j \in 1..Len(store) /\ rest[i] = store[j]
    <2> DEFINE m == Len(store)
    <2>1. m \in Nat /\ k \in 1..m
      OBVIOUS
    <2> HIDE DEF m
    <2>2. rest \in Seq(StoredSpots) /\ Len(rest) = m - 1
      <3>1. rest \in Seq(StoredSpots) /\ Len(rest) = Len(left) + Len(right)
        <4>1. left \in Seq(StoredSpots) /\ right \in Seq(StoredSpots)
          BY <1>1
        <4> QED
          BY <4>1
      <3>2. Len(left) = k - 1 /\ Len(right) = m - k
        BY <1>1 DEF m
      <3> QED
        BY <2>1, <3>1, <3>2
    <2>3. ASSUME NEW i \in 1..m - 1, i < k PROVE i \in 1..m /\ rest[i] = store[i]
      BY <1>1, <2>1, <2>3 DEF m
    <2>4. ASSUME NEW i \in 1..m - 1, ~(i < k) PROVE i + 1 \in 1..m /\ rest[i] = store[i + 1]
      <3> DEFINE j == i - (k - 1)
      <3>1. j \in 1..m - k /\ k + j = i + 1 /\ i > k - 1
        BY <2>1, <2>4
      <3>2. rest[i] = right[j]
        BY <1>1, <2>1, <3>1 DEF m
      <3>3. right[j] = store[k + j]
        BY <1>1, <3>1 DEF m
      <3> QED
        BY <2>1, <3>1, <3>2, <3>3
    <2> QED
      BY <2>2, <2>3, <2>4 DEF m
  <1> HIDE DEF rest
  <1>3. PartOf(rest, store) /\ Unique(rest)
    <2>1. PartOf(rest, store)
      BY <1>2 DEF PartOf
    <2>2. ASSUME NEW i \in 1..Len(rest), NEW j \in 1..Len(rest), SameKey(rest[i], rest[j])
          PROVE  i = j
      <3> DEFINE a == IF i < k THEN i ELSE i + 1
                 b == IF j < k THEN j ELSE j + 1
      <3>1. a \in 1..Len(store) /\ rest[i] = store[a] /\ b \in 1..Len(store) /\ rest[j] = store[b]
        BY <1>2
      <3>2. a = b => i = j
        BY <1>2
      <3> HIDE DEF a, b
      <3> QED
        BY <2>2, <3>1, <3>2 DEF Unique
    <2> QED
      BY <2>1, <2>2 DEF Unique
  <1>4. RemoveAt(store, k) = rest
    BY DEF RemoveAt, rest, left, right
  <1> QED
    BY <1>2, <1>3, <1>4

(* With one more report, of a station or feed that it does not have.       *)
LEMMA AppendedIsUnique ==
  ASSUME NEW store \in Seq(StoredSpots), Unique(store), NEW spot \in StoredSpots,
         \A i \in 1..Len(store) : ~SameKey(store[i], spot)
  PROVE  /\ Append(store, spot) \in Seq(StoredSpots) /\ Len(Append(store, spot)) = Len(store) + 1
         /\ Unique(Append(store, spot))
         /\ \A i \in 1..Len(Append(store, spot)) :
              Append(store, spot)[i] = spot \/ \E l \in 1..Len(store) : Append(store, spot)[i] = store[l]
  <1> DEFINE longer == Append(store, spot)
  <1>1. /\ longer \in Seq(StoredSpots) /\ Len(longer) = Len(store) + 1 /\ longer[Len(store) + 1] = spot
        /\ \A i \in 1..Len(store) : longer[i] = store[i]
        /\ \A i \in 1..Len(longer) : i \in 1..Len(store) \/ i = Len(store) + 1
    OBVIOUS
  <1> HIDE DEF longer
  <1>2. \A i \in 1..Len(store) : ~SameKey(spot, store[i])
    BY DEF SameKey
  <1>3. Unique(longer)
    BY <1>1, <1>2 DEF Unique
  <1>4. \A i \in 1..Len(longer) : longer[i] = spot \/ \E l \in 1..Len(store) : longer[i] = store[l]
    BY <1>1
  <1> QED
    BY <1>1, <1>3, <1>4 DEF longer

(* CwSpotRegistry::add(): what is stored was stored, or is the report and  *)
(* admissible.                                                             *)
FromOrNew(next, store, spot) ==
  \A k \in 1..Len(next) : next[k] = spot \/ \E l \in 1..Len(store) : next[k] = store[l]
Bounded(store) == store \in Seq(StoredSpots) /\ Unique(store) /\ Len(store) <= MaximumSpots

LEMMA RenewedKeeps ==
  ASSUME NEW store, Bounded(store), NEW spot \in StoredSpots, NEW k \in 1..Len(store),
         SameKey(store[k], spot)
  PROVE  Bounded(Renewed(store, k, spot)) /\ FromOrNew(Renewed(store, k, spot), store, spot)
  <1> DEFINE next == [store EXCEPT ![k] = spot]
  <1>1. /\ next \in Seq(StoredSpots) /\ Len(next) = Len(store)
        /\ \A i \in 1..Len(store) : next[i] = IF i = k THEN spot ELSE store[i]
    BY DEF Bounded
  <1> HIDE DEF next
  <1>2. \A i \in 1..Len(store) : \A x : (SameKey(next[i], x) <=> SameKey(store[i], x))
                                      /\ (SameKey(x, next[i]) <=> SameKey(x, store[i]))
    BY <1>1 DEF SameKey
  <1>3. Bounded(next)
    BY <1>1, <1>2 DEF Bounded, Unique
  <1>4. FromOrNew(next, store, spot) /\ FromOrNew(store, store, spot)
    BY <1>1 DEF FromOrNew
  <1> QED
    BY <1>3, <1>4 DEF Renewed, next

LEMMA InsertedKeeps ==
  ASSUME NEW store, Bounded(store), NEW spot \in StoredSpots, MaximumSpots \in Nat \ {0},
         \A i \in 1..Len(store) : ~SameKey(store[i], spot)
  PROVE  Bounded(Inserted(store, spot)) /\ FromOrNew(Inserted(store, spot), store, spot)
  <1>1. CASE Len(store) < MaximumSpots
    <2>1. Inserted(store, spot) = Append(store, spot)
      BY <1>1 DEF Inserted
    <2> QED
      BY <1>1, <2>1, AppendedIsUnique DEF Bounded, FromOrNew
  <1>2. CASE ~(Len(store) < MaximumSpots) /\ spot.at <= store[Oldest(store)].at
    BY <1>2 DEF Inserted, FromOrNew
  <1>3. CASE ~(Len(store) < MaximumSpots) /\ ~(spot.at <= store[Oldest(store)].at)
    <2> DEFINE rest == RemoveAt(store, Oldest(store))
    <2>1. Len(store) = MaximumSpots /\ store # <<>>
      BY <1>3 DEF Bounded
    <2>2. /\ rest \in Seq(StoredSpots) /\ Len(rest) = Len(store) - 1
          /\ PartOf(rest, store) /\ Unique(rest)
      BY <2>1, OldestIsStored, RemovedIsPart DEF Bounded
    <2> HIDE DEF rest
    <2>3. \A i \in 1..Len(rest) : ~SameKey(rest[i], spot)
      BY <2>2 DEF PartOf
    <2>4. Inserted(store, spot) = Append(rest, spot)
      BY <1>3 DEF Inserted, rest
    <2>5. Bounded(Append(rest, spot))
      BY <2>1, <2>2, <2>3, AppendedIsUnique DEF Bounded
    <2>6. FromOrNew(Append(rest, spot), rest, spot)
      BY <2>2, <2>3, AppendedIsUnique DEF FromOrNew
    <2>7. FromOrNew(Append(rest, spot), store, spot)
      BY <2>2, <2>6 DEF FromOrNew, PartOf
    <2> QED
      BY <2>4, <2>5, <2>7
  <1> QED
    BY <1>1, <1>2, <1>3

LEMMA AddedKeeps ==
  ASSUME NEW store, Bounded(store), NEW spot \in StoredSpots, NEW window
  PROVE  /\ Bounded(Added(store, spot, window))
         /\ \A k \in 1..Len(Added(store, spot, window)) :
              \/ Added(store, spot, window)[k] = spot /\ Admissible(spot, window)
              \/ \E l \in 1..Len(store) : Added(store, spot, window)[k] = store[l]
  <1> DEFINE kept == Expired(store, window)
             same == {k \in DOMAIN kept : kept[k].source = spot.source /\ kept[k].call = spot.call}
             next == Added(store, spot, window)
  <1>1. Bounded(kept) /\ PartOf(kept, store)
    BY ExpiredIsPart, SpotsAssumption DEF Bounded
  <1>2. next = IF MaximumSpots = 0 \/ ~Admissible(spot, window) THEN store
               ELSE IF same # {} THEN Renewed(kept, Min(same), spot) ELSE Inserted(kept, spot)
    BY DEF Added
  <1> HIDE DEF kept, next
  <1>3. CASE MaximumSpots = 0 \/ ~Admissible(spot, window)
    BY <1>2, <1>3 DEF next
  <1>4. CASE ~(MaximumSpots = 0 \/ ~Admissible(spot, window))
    <2>1. Bounded(next) /\ FromOrNew(next, kept, spot)
      <3>1. DOMAIN kept = 1..Len(kept) /\ Len(kept) \in Nat
        BY <1>1 DEF Bounded
      <3>2. CASE same # {}
        <4>1. same \in SUBSET (1..Len(kept))
          BY <3>1
        <4>2. Min(same) \in same
          <5> HIDE DEF same
          <5> QED
            BY <3>1, <3>2, <4>1, LeastPosition
        <4>3. Min(same) \in 1..Len(kept) /\ SameKey(kept[Min(same)], spot)
          BY <3>1, <4>2 DEF SameKey
        <4>4. next = Renewed(kept, Min(same), spot)
          BY <1>2, <1>4, <3>2
        <4> HIDE DEF same
        <4> QED
          BY <1>1, <4>3, <4>4, RenewedKeeps
      <3>3. CASE same = {}
        <4>1. \A i \in 1..Len(kept) : ~SameKey(kept[i], spot)
          BY <3>1, <3>3 DEF SameKey
        <4>2. next = Inserted(kept, spot) /\ MaximumSpots \in Nat \ {0}
          BY <1>2, <1>4, <3>3, SpotsAssumption
        <4> QED
          BY <1>1, <4>1, <4>2, InsertedKeeps
      <3> QED
        BY <3>2, <3>3
    <2> QED
      BY <1>1, <1>4, <2>1 DEF FromOrNew, PartOf, next
  <1> QED
    BY <1>3, <1>4

-----------------------------------------------------------------------------
SpotsType ==
  /\ joined \in Feeds \cup {Off} /\ heard \in SpotBands \cup {Unplaced}
  /\ retention \in Retentions /\ wall \in Nat /\ latest \in Nat /\ wall <= latest
  /\ Bounded(spots)
(* Each report of a store ages with the clock, and what is shown is of it. *)
Ages(store, window) == \A k \in 1..Len(store) : store[k].at <= latest + window
ShownOf(marks, store, feed, on) ==
  \A m \in marks :
    /\ IsWithinReceivedBand(m.band, on)
    /\ \E k \in 1..Len(store) : store[k].call = m.call /\ store[k].source = feed
    /\ \A f \in m.sources : \E k \in 1..Len(store) : store[k].call = m.call /\ store[k].source = f
SpotsIInv ==
  /\ SpotsType
  /\ Ages(spots, retention)
  /\ ShownOf(shown, spots, joined, heard)
  /\ joined = Off => spots = <<>> /\ shown = {}

LEMMA MatchesAreReported ==
  ASSUME NEW store \in Seq(StoredSpots), NEW m \in Matches(store), NEW f \in m.sources
  PROVE  \E k \in 1..Len(store) : store[k].call = m.call /\ store[k].source = f
  <1>1. PICK spot \in ToSet(store) : m = MatchOf(spot.call, store)
    BY DEF Matches
  <1> DEFINE reports == {k \in DOMAIN store : store[k].call = spot.call}
             sources == {store[k].source : k \in reports}
  <1>2. m.call = spot.call /\ m.sources = sources
    BY <1>1 DEF MatchOf
  <1>3. PICK k \in reports : store[k].source = f
    BY <1>2
  <1> QED
    BY <1>2, <1>3

LEMMA RebuildKeeps ==
  ASSUME NEW feed \in Feeds \cup {Off}, NEW store, NEW window \in Retentions, NEW on,
         Bounded(store), Ages(store, window), feed = Off => store = <<>>,
         RebuildDxSpotModel(feed, store, window, on)
  PROVE  /\ Bounded(spots') /\ Ages(spots', window)
         /\ ShownOf(shown', spots', feed, on)
         /\ feed = Off => spots' = <<>> /\ shown' = {}
  <1> DEFINE kept == IF feed = Off THEN store ELSE Expired(store, window)
  <1>1. /\ spots' = kept
        /\ shown' = IF feed = Off THEN {}
                    ELSE {m \in Matches(kept) :
                            feed \in m.sources /\ IsWithinReceivedBand(m.band, on)}
    BY DEF RebuildDxSpotModel
  <1>2. Bounded(kept) /\ PartOf(kept, store)
    BY ExpiredIsPart, SpotsAssumption DEF Bounded, PartOf
  <1> HIDE DEF kept
  <1>3. Ages(kept, window)
    BY <1>2 DEF Ages, PartOf
  <1>4. ShownOf(shown', kept, feed, on)
    <2> SUFFICES ASSUME NEW m \in shown'
                 PROVE  /\ IsWithinReceivedBand(m.band, on)
                        /\ \E k \in 1..Len(kept) : kept[k].call = m.call /\ kept[k].source = feed
                        /\ \A f \in m.sources :
                             \E k \in 1..Len(kept) : kept[k].call = m.call /\ kept[k].source = f
      BY DEF ShownOf
    <2>1. m \in Matches(kept) /\ feed \in m.sources /\ IsWithinReceivedBand(m.band, on)
      BY <1>1
    <2> QED
      BY <1>2, <2>1, MatchesAreReported DEF Bounded
  <1>5. feed = Off => kept = <<>> /\ shown' = {}
    BY <1>1 DEF kept
  <1> QED
    BY <1>1, <1>2, <1>3, <1>4, <1>5

LEMMA InitSpots == SpotsInit => SpotsIInv
  <1> SUFFICES ASSUME SpotsInit PROVE SpotsIInv
    OBVIOUS
  <1>1. Bounded(<<>>) /\ Len(<<>>) = 0
    BY SpotsAssumption DEF Bounded, Unique
  <1> QED
    BY <1>1 DEF SpotsInit, SpotsIInv, SpotsType, Ages, ShownOf

LEMMA ConfigureSpotsStep ==
  ASSUME SpotsIInv, ConfigureSpots
  PROVE  SpotsIInv'
  <1>1. PICK feed \in Feeds \cup {Off}, window \in Retentions :
          LET renewed == IF window # retention THEN <<>> ELSE spots
              store == IF feed = Off /\ joined # Off THEN <<>> ELSE renewed
          IN  /\ joined' = feed /\ retention' = window
              /\ RebuildDxSpotModel(feed, store, window, heard)
              /\ UNCHANGED <<heard, wall, setBacks, latest>>
    BY DEF ConfigureSpots
  <1> DEFINE store == IF feed = Off /\ joined # Off THEN <<>>
                      ELSE IF window # retention THEN <<>> ELSE spots
  <1>2. /\ joined' = feed /\ retention' = window /\ RebuildDxSpotModel(feed, store, window, heard)
        /\ UNCHANGED <<heard, wall, setBacks, latest>>
    BY <1>1
  <1>3. Bounded(<<>>) /\ Ages(<<>>, window)
    BY SpotsAssumption DEF Bounded, Unique, Ages
  <1>4. Bounded(store) /\ Ages(store, window) /\ (feed = Off => store = <<>>)
    BY <1>3 DEF SpotsIInv, SpotsType
  <1> HIDE DEF store
  <1>5. /\ Bounded(spots') /\ Ages(spots', window) /\ ShownOf(shown', spots', feed, heard)
        /\ feed = Off => spots' = <<>> /\ shown' = {}
    BY <1>2, <1>4, RebuildKeeps
  <1> QED
    BY <1>2, <1>5 DEF SpotsIInv, SpotsType, Ages

LEMMA AcceptDxSpotsStep ==
  ASSUME SpotsIInv, AcceptDxSpots
  PROVE  SpotsIInv'
  <1>1. PICK call \in SpotCalls, band \in SpotBands \cup {Unplaced}, at \in Stamps :
          LET spot == [source |-> joined, call |-> call, band |-> band, at |-> at]
          IN  RebuildDxSpotModel(joined, Added(spots, spot, retention), retention, heard)
    BY DEF AcceptDxSpots
  <1> DEFINE spot == [source |-> joined, call |-> call, band |-> band, at |-> at]
             store == Added(spots, spot, retention)
  <1>2. /\ joined # Off /\ RebuildDxSpotModel(joined, store, retention, heard)
        /\ UNCHANGED <<joined, retention, heard, wall, setBacks, latest>>
    BY <1>1 DEF AcceptDxSpots
  <1>3. spot \in StoredSpots /\ spot.at = at /\ joined \in Feeds
    BY <1>2, SpotsAssumption DEF SpotsIInv, SpotsType, StoredSpots
  <1> HIDE DEF spot
  <1>4. /\ Bounded(store)
        /\ \A k \in 1..Len(store) :
             \/ store[k] = spot /\ Admissible(spot, retention)
             \/ \E l \in 1..Len(spots) : store[k] = spots[l]
    BY <1>3, AddedKeeps DEF SpotsIInv, SpotsType
  <1> HIDE DEF store
  <1>5. Ages(store, retention)
    <2>1. /\ wall \in Nat /\ latest \in Nat /\ retention \in Nat /\ wall <= latest /\ spot.at \in Int
      BY <1>3, SpotsAssumption DEF SpotsIInv, SpotsType, StoredSpots
    <2>2. Admissible(spot, retention) => spot.at <= latest + retention
      BY <2>1 DEF Admissible
    <2> QED
      BY <1>4, <2>2 DEF SpotsIInv, Ages
  <1>6. /\ Bounded(spots') /\ Ages(spots', retention) /\ ShownOf(shown', spots', joined, heard)
    BY <1>2, <1>3, <1>4, <1>5, RebuildKeeps DEF SpotsIInv, SpotsType
  <1> QED
    BY <1>2, <1>6 DEF SpotsIInv, SpotsType, Ages

LEMMA StepSpots == SpotsIInv /\ [SpotsNext]_spotVars => SpotsIInv'
  <1> SUFFICES ASSUME SpotsIInv, [SpotsNext]_spotVars PROVE SpotsIInv'
    OBVIOUS
  <1>1. CASE Retune \/ ExpiryTimer
    <2>1. /\ heard' \in SpotBands \cup {Unplaced}
          /\ RebuildDxSpotModel(joined, spots, retention, heard')
          /\ UNCHANGED <<joined, retention, wall, setBacks, latest>>
      BY <1>1 DEF Retune, ExpiryTimer, SpotsIInv, SpotsType
    <2>2. /\ Bounded(spots') /\ Ages(spots', retention) /\ ShownOf(shown', spots', joined, heard')
          /\ joined = Off => spots' = <<>> /\ shown' = {}
      BY <2>1, RebuildKeeps DEF SpotsIInv, SpotsType
    <2> QED
      BY <2>1, <2>2 DEF SpotsIInv, SpotsType, Ages
  <1>2. CASE ClockRuns
    <2>1. /\ wall' = wall + 1 /\ latest' = Max({latest, wall'})
          /\ UNCHANGED <<joined, retention, spots, heard, shown>>
      BY <1>2 DEF ClockRuns
    <2>2. wall' \in Nat /\ latest \in Nat
      BY <2>1 DEF SpotsIInv, SpotsType
    <2>3. latest' \in Nat /\ latest <= latest' /\ wall' <= latest'
      <3>1. \E x \in {latest, wall'} : \A y \in {latest, wall'} : x >= y
        BY <2>2
      <3> QED
        BY <2>1, <2>2, <3>1 DEF Max
    <2>4. Ages(spots, retention)'
      <3>1. \A k \in 1..Len(spots) : spots[k].at \in Int
        <4>1. \A k \in 1..Len(spots) : spots[k] \in StoredSpots
          BY DEF SpotsIInv, SpotsType, Bounded
        <4> QED
          BY <4>1 DEF StoredSpots
      <3>2. retention \in Nat
        BY SpotsAssumption DEF SpotsIInv, SpotsType
      <3> QED
        BY <2>1, <2>2, <2>3, <3>1, <3>2 DEF SpotsIInv, Ages
    <2> QED
      BY <2>1, <2>2, <2>3, <2>4 DEF SpotsIInv, SpotsType
  <1>3. CASE ClockIsSetBack
    BY <1>3 DEF ClockIsSetBack, SpotsIInv, SpotsType, Ages
  <1>4. CASE UNCHANGED spotVars
    BY <1>4 DEF spotVars, SpotsIInv, SpotsType, Ages
  <1> QED
    BY <1>1, <1>2, <1>3, <1>4, ConfigureSpotsStep, AcceptDxSpotsStep DEF SpotsNext

LEMMA SpotsFollow == SpotsIInv => SpotsInv
  <1> SUFFICES ASSUME SpotsIInv PROVE SpotsInv
    OBVIOUS
  <1>1. /\ spots \in Seq(StoredSpots) /\ Unique(spots) /\ Len(spots) <= MaximumSpots
        /\ DOMAIN spots = 1..Len(spots)
    BY DEF SpotsIInv, SpotsType, Bounded
  <1>2. SpotsTypeOK
    <2>1. \A k, l \in 1..Len(spots) :
            k # l => <<spots[k].source, spots[k].call>> # <<spots[l].source, spots[l].call>>
      BY <1>1 DEF Unique, SameKey
    <2> QED
      BY <1>1, <2>1 DEF SpotsIInv, SpotsType, SpotsTypeOK
  <1>3. \A k \in 1..Len(spots) : spots[k] \in ToSet(spots)
    BY <1>1 DEF ToSet
  <1>4. MarkersAreReported
    BY <1>1, <1>3 DEF SpotsIInv, ShownOf, MarkersAreReported
  <1>5. ReportsCanExpire
    BY <1>1 DEF SpotsIInv, Ages, ReportsCanExpire, ToSet
  <1> QED
    BY <1>2, <1>4, <1>5 DEF SpotsInv

(* The store of reports stays within its limit with one report of a station *)
(* from a feed; what is shown is reported by the joined feed on the band    *)
(* received; and no report outlives the clock, however feeds stamp them and *)
(* though the clock is set back: cw_spot_registry.cpp.                      *)
THEOREM SpotsAreReported == SpotsSpec => []SpotsInv
  BY InitSpots, StepSpots, SpotsFollow, PTL DEF SpotsSpec
====================================================================================
