------------------------- MODULE TransmitWorkerProofs -------------------------
(***************************************************************************)
(* What every call of the transmit worker returns, for every value of the  *)
(* limits and of what the serial device refuses: the worker's types, the   *)
(* care it takes of a raised line, and which calls leave it at rest.  From *)
(* them follows, for an owner that calls it in any order, that KEY and PTT *)
(* are as safe on the wire as the device lets them be.                     *)
(***************************************************************************)
EXTENDS TransmitStationOps, DirectTransmitEngine, TLAPS

LEMMA Limits ==
  /\ MaxU64 \in Nat /\ MaxKeyDown \in Nat /\ MaxLeadOrHang \in Nat
  /\ MaxMessageLimit \in Nat /\ MaxLatenessLimit \in Nat
  /\ MaxTune \in Nat /\ HealthPoll \in Nat
  BY LimitsAssumption

-----------------------------------------------------------------------------
(* The port: what a call makes of the lines that are believed raised.      *)

Down(p) == \A line \in Engine!Adapter!Lines : p.known[line] # "Active"

LEMMA KnownOf ==
  ASSUME NEW p \in Engine!Adapter!Ports
  PROVE  /\ p.known \in [Engine!Adapter!Lines -> Engine!Adapter!LineStates]
         /\ p.wire \in Engine!Adapter!Levels
         /\ p.openSafe \in BOOLEAN /\ p.fault \in BOOLEAN /\ p.owned \in BOOLEAN
         /\ p.isOpen \in BOOLEAN /\ p.bare \in BOOLEAN
  BY DEF Engine!Adapter!Ports

LEMMA WriteLineIs ==
  ASSUME NEW p \in Engine!Adapter!Ports, NEW line \in Engine!Adapter!Lines,
         NEW up \in BOOLEAN, NEW device,
         NEW q, q = Engine!Adapter!WriteLine(p, line, up, device)
  PROVE  /\ q \in Engine!Adapter!Ports
         /\ q.openSafe = p.openSafe /\ q.isOpen = p.isOpen /\ q.fault = p.fault
         /\ q.known[line] = IF up THEN "Active" ELSE "Inactive"
         /\ \A other \in Engine!Adapter!Lines \ {line} : q.known[other] = p.known[other]
<1> DEFINE state == IF up THEN "Active" ELSE "Inactive"
           known == [p.known EXCEPT ![line] = state]
           wire == [p.wire EXCEPT ![line] = up]
           bare == p.bare \/ Engine!Adapter!LeavesKeyBare(p, line, up, device)
<1>1. q = [openSafe |-> p.openSafe, known |-> known, fault |-> p.fault, owned |-> p.owned,
           isOpen |-> p.isOpen, wire |-> wire, bare |-> bare]
  <2>1. p = [openSafe |-> p.openSafe, known |-> p.known, fault |-> p.fault,
             owned |-> p.owned, isOpen |-> p.isOpen, wire |-> p.wire, bare |-> p.bare]
    BY DEF Engine!Adapter!Ports
  <2>2. QED
    BY <2>1 DEF Engine!Adapter!WriteLine
<1>2. /\ known \in [Engine!Adapter!Lines -> Engine!Adapter!LineStates]
      /\ wire \in Engine!Adapter!Levels /\ bare \in BOOLEAN
  <2>1. state \in Engine!Adapter!LineStates
    BY DEF Engine!Adapter!LineStates
  <2>2. QED
    BY <2>1, KnownOf DEF Engine!Adapter!Levels
<1>3. known[line] = state /\ \A other \in Engine!Adapter!Lines \ {line} : known[other] = p.known[other]
  BY KnownOf
<1> HIDE DEF known, wire, bare
<1>4. q \in Engine!Adapter!Ports
  BY <1>1, <1>2, KnownOf DEF Engine!Adapter!Ports
<1>5. QED
  BY <1>1, <1>3, <1>4

LEMMA CloseDeviceIs ==
  ASSUME NEW p \in Engine!Adapter!Ports, NEW q, q = Engine!Adapter!CloseDevice(p)
  PROVE  /\ q \in Engine!Adapter!Ports /\ Down(q) /\ q.known = Engine!Adapter!NoneKnown
         /\ ~q.isOpen /\ ~q.openSafe /\ q.fault = p.fault
<1>1. Engine!Adapter!NoneKnown \in [Engine!Adapter!Lines -> Engine!Adapter!LineStates]
  BY DEF Engine!Adapter!NoneKnown, Engine!Adapter!LineStates
<1>2. \A line \in Engine!Adapter!Lines : Engine!Adapter!NoneKnown[line] # "Active"
  BY DEF Engine!Adapter!NoneKnown
<1>3. q = [openSafe |-> FALSE, known |-> Engine!Adapter!NoneKnown, fault |-> p.fault,
           owned |-> FALSE, isOpen |-> FALSE, wire |-> p.wire, bare |-> p.bare]
  <2> HIDE DEF Engine!Adapter!NoneKnown
  <2>1. QED
    BY DEF Engine!Adapter!CloseDevice, Engine!Adapter!MarkClosedUnknown,
           Engine!Adapter!Ports
<1> HIDE DEF Engine!Adapter!NoneKnown
<1>4. q \in Engine!Adapter!Ports
  BY <1>1, <1>3, KnownOf DEF Engine!Adapter!Ports
<1>5. q.known = Engine!Adapter!NoneKnown /\ ~q.isOpen /\ ~q.openSafe /\ q.fault = p.fault
  BY <1>3
<1>6. QED
  BY <1>2, <1>4, <1>5 DEF Down

(* One field of the port replaced.                                         *)
LEMMA PortRecord ==
  ASSUME NEW p \in Engine!Adapter!Ports
  PROVE  p = [openSafe |-> p.openSafe, known |-> p.known, fault |-> p.fault,
              owned |-> p.owned, isOpen |-> p.isOpen, wire |-> p.wire, bare |-> p.bare]
  BY DEF Engine!Adapter!Ports

LEMMA FaultIs ==
  ASSUME NEW p \in Engine!Adapter!Ports, NEW q, q = [p EXCEPT !.fault = TRUE]
  PROVE  /\ q \in Engine!Adapter!Ports /\ q.known = p.known /\ q.fault = TRUE
         /\ q.isOpen = p.isOpen /\ q.openSafe = p.openSafe
  BY DEF Engine!Adapter!Ports

LineLost(p, line) == [p EXCEPT !.known[line] = "Unknown"]
LineFault(p, line) == [p EXCEPT !.known[line] = "Unknown", !.fault = TRUE]
Opened(p, levels) ==
  [p EXCEPT !.fault = FALSE, !.owned = TRUE, !.isOpen = TRUE, !.wire = levels]

LEMMA OpenedType ==
  ASSUME NEW p \in Engine!Adapter!Ports, NEW levels \in Engine!Adapter!Levels
  PROVE  Opened(p, levels) \in Engine!Adapter!Ports
  BY DEF Engine!Adapter!Ports, Opened

LEMMA UnknownIs ==
  ASSUME NEW p \in Engine!Adapter!Ports, NEW line \in Engine!Adapter!Lines, NEW q,
         q = LineLost(p, line)
  PROVE  /\ q \in Engine!Adapter!Ports /\ q.fault = p.fault
         /\ \A l \in Engine!Adapter!Lines : q.known[l] = IF l = line THEN "Unknown" ELSE p.known[l]
<1> DEFINE known == [p.known EXCEPT ![line] = "Unknown"]
<1>1. p = [openSafe |-> p.openSafe, known |-> p.known, fault |-> p.fault,
           owned |-> p.owned, isOpen |-> p.isOpen, wire |-> p.wire, bare |-> p.bare]
  BY PortRecord
<1>2. q = [openSafe |-> p.openSafe, known |-> known, fault |-> p.fault,
           owned |-> p.owned, isOpen |-> p.isOpen, wire |-> p.wire, bare |-> p.bare]
  BY <1>1 DEF LineLost
<1>3. /\ known \in [Engine!Adapter!Lines -> Engine!Adapter!LineStates]
      /\ \A l \in Engine!Adapter!Lines : known[l] = IF l = line THEN "Unknown" ELSE p.known[l]
  BY KnownOf DEF Engine!Adapter!LineStates
<1> HIDE DEF known
<1>4. q \in Engine!Adapter!Ports
  BY <1>2, <1>3, KnownOf DEF Engine!Adapter!Ports
<1>5. QED
  BY <1>2, <1>3, <1>4

LEMMA UnknownFaultIs ==
  ASSUME NEW p \in Engine!Adapter!Ports, NEW line \in Engine!Adapter!Lines,
         NEW q, q = LineFault(p, line)
  PROVE  /\ q \in Engine!Adapter!Ports
         /\ \A l \in Engine!Adapter!Lines : q.known[l] = IF l = line THEN "Unknown" ELSE p.known[l]
<1> DEFINE r == LineLost(p, line)
<1>1. q = [r EXCEPT !.fault = TRUE]
  <2>1. p = [openSafe |-> p.openSafe, known |-> p.known, fault |-> p.fault,
             owned |-> p.owned, isOpen |-> p.isOpen, wire |-> p.wire, bare |-> p.bare]
    BY PortRecord
  <2>2. QED
    BY <2>1 DEF LineLost, LineFault
<1>2. /\ r \in Engine!Adapter!Ports
      /\ \A l \in Engine!Adapter!Lines : r.known[l] = IF l = line THEN "Unknown" ELSE p.known[l]
  BY UnknownIs
<1> HIDE DEF r
<1>3. QED
  BY <1>1, <1>2, FaultIs

LEMMA ReleaseLineQuietlyType ==
  ASSUME NEW p \in Engine!Adapter!Ports, NEW line \in Engine!Adapter!Lines, NEW device
  PROVE  Engine!Adapter!ReleaseLineQuietly(p, line, device) \in Engine!Adapter!Ports
<1>1. Engine!Adapter!WriteLine(p, line, FALSE, device) \in Engine!Adapter!Ports
  <2>1. PICK down \in BOOLEAN : down = FALSE
    OBVIOUS
  <2>2. QED
    BY <2>1, WriteLineIs
<1>2. LineFault(p, line) \in Engine!Adapter!Ports
  BY UnknownFaultIs
<1>3. QED
  BY <1>1, <1>2 DEF Engine!Adapter!ReleaseLineQuietly, LineFault

LEMMA FaultAndCloseIs ==
  ASSUME NEW p \in Engine!Adapter!Ports, NEW release \in BOOLEAN, NEW device,
         NEW q, q = Engine!Adapter!FaultAndClose(p, release, device)
  PROVE  q \in Engine!Adapter!Ports /\ Down(q) /\ q.fault /\ ~q.isOpen /\ ~q.openSafe
<1> DEFINE released == IF release /\ p.isOpen THEN Engine!Adapter!ReleaseQuietly(p, device) ELSE p
           closed == Engine!Adapter!CloseDevice(released)
<1>1. released \in Engine!Adapter!Ports
  BY ReleaseLineQuietlyType DEF Engine!Adapter!ReleaseQuietly, Engine!Adapter!Lines
<1>2. q = [closed EXCEPT !.fault = TRUE]
  BY DEF Engine!Adapter!FaultAndClose
<1> HIDE DEF released
<1>3. closed \in Engine!Adapter!Ports /\ Down(closed) /\ ~closed.isOpen /\ ~closed.openSafe
  BY <1>1, CloseDeviceIs
<1> HIDE DEF closed
<1>4. /\ q \in Engine!Adapter!Ports /\ q.known = closed.known /\ q.fault = TRUE
      /\ q.isOpen = closed.isOpen /\ q.openSafe = closed.openSafe
  BY <1>2, <1>3, FaultIs
<1>5. QED
  BY <1>3, <1>4 DEF Down

LEMMA ReleaseLineIs ==
  ASSUME NEW p \in Engine!Adapter!Ports, NEW line \in Engine!Adapter!Lines, NEW device,
         NEW q, q = Engine!Adapter!ReleaseLine(p, line, device)
  PROVE  /\ q \in Engine!Adapter!Ports /\ q.known[line] # "Active"
         /\ \A other \in Engine!Adapter!Lines \ {line} :
              p.known[other] # "Active" => q.known[other] # "Active"
<1>1. CASE p.known[line] = "Inactive"
  BY <1>1 DEF Engine!Adapter!ReleaseLine
<1>2. CASE p.known[line] # "Inactive" /\ (~p.isOpen \/ Engine!Adapter!Fails(device, line, FALSE))
  <2> DEFINE f == IF p.isOpen /\ device.signals THEN Engine!Adapter!FaultAndClose(p, TRUE, device) ELSE p
  <2>1. f \in Engine!Adapter!Ports /\ (f = p \/ Down(f))
    BY FaultAndCloseIs
  <2>2. q = LineFault(f, line)
    BY <1>2 DEF Engine!Adapter!ReleaseLine, LineFault
  <2> HIDE DEF f
  <2>3. /\ q \in Engine!Adapter!Ports
        /\ \A l \in Engine!Adapter!Lines : q.known[l] = IF l = line THEN "Unknown" ELSE f.known[l]
    BY <2>1, <2>2, UnknownFaultIs
  <2>4. QED
    BY <2>1, <2>3 DEF Down
<1>3. CASE p.known[line] # "Inactive" /\ p.isOpen /\ ~Engine!Adapter!Fails(device, line, FALSE)
  <2>1. q = Engine!Adapter!WriteLine(p, line, FALSE, device)
    BY <1>3 DEF Engine!Adapter!ReleaseLine
  <2>2. PICK down \in BOOLEAN : down = FALSE
    OBVIOUS
  <2> DEFINE w == Engine!Adapter!WriteLine(p, line, down, device)
  <2>3. /\ w \in Engine!Adapter!Ports /\ w.known[line] = IF down THEN "Active" ELSE "Inactive"
        /\ \A other \in Engine!Adapter!Lines \ {line} : w.known[other] = p.known[other]
    BY WriteLineIs
  <2>4. q = w
    BY <2>1, <2>2
  <2> HIDE DEF w
  <2>5. QED
    BY <2>2, <2>3, <2>4
<1>4. QED
  BY <1>1, <1>2, <1>3, KnownOf

(* Whatever the device refuses, no line is believed raised after a release. *)
LEMMA ReleaseAllIs ==
  ASSUME NEW p \in Engine!Adapter!Ports, NEW device, NEW q,
         q = Engine!Adapter!ReleaseAll(p, device)
  PROVE  q \in Engine!Adapter!Ports /\ Down(q)
<1>1. CASE ~p.isOpen
  <2>1. q = [openSafe |-> FALSE, known |-> Engine!Adapter!NoneKnown, fault |-> p.fault,
             owned |-> p.owned, isOpen |-> p.isOpen, wire |-> p.wire, bare |-> p.bare]
    BY <1>1 DEF Engine!Adapter!ReleaseAll, Engine!Adapter!MarkClosedUnknown,
       Engine!Adapter!Ports
  <2>2. /\ Engine!Adapter!NoneKnown \in [Engine!Adapter!Lines -> Engine!Adapter!LineStates]
        /\ \A line \in Engine!Adapter!Lines : Engine!Adapter!NoneKnown[line] # "Active"
    BY DEF Engine!Adapter!NoneKnown, Engine!Adapter!LineStates
  <2> HIDE DEF Engine!Adapter!NoneKnown
  <2>3. q \in Engine!Adapter!Ports
    BY <2>1, <2>2, KnownOf DEF Engine!Adapter!Ports
  <2>4. q.known = Engine!Adapter!NoneKnown
    BY <2>1
  <2>5. QED
    BY <2>2, <2>3, <2>4 DEF Down
<1>2. CASE p.isOpen
  <2> DEFINE r == Engine!Adapter!ReleaseLine(p, "key", device)
  <2>1. r \in Engine!Adapter!Ports /\ r.known["key"] # "Active"
    BY ReleaseLineIs DEF Engine!Adapter!Lines
  <2>2. q = Engine!Adapter!ReleaseLine(r, "ptt", device)
    BY <1>2 DEF Engine!Adapter!ReleaseAll
  <2> HIDE DEF r
  <2>3. /\ q \in Engine!Adapter!Ports /\ q.known["ptt"] # "Active"
        /\ \A other \in Engine!Adapter!Lines \ {"ptt"} : r.known[other] # "Active" => q.known[other] # "Active"
    BY <2>1, <2>2, ReleaseLineIs DEF Engine!Adapter!Lines
  <2>4. QED
    BY <2>1, <2>3 DEF Down, Engine!Adapter!Lines
<1>3. QED
  BY <1>1, <1>2, KnownOf

LEMMA CloseIs ==
  ASSUME NEW p \in Engine!Adapter!Ports, NEW device, NEW q, q = Engine!Adapter!Close(p,
         device)
  PROVE  q \in Engine!Adapter!Ports /\ Down(q) /\ q.known = Engine!Adapter!NoneKnown
<1> DEFINE r == IF p.isOpen THEN Engine!Adapter!ReleaseAll(p, device) ELSE p
<1>1. r \in Engine!Adapter!Ports
  BY ReleaseAllIs
<1>2. q = Engine!Adapter!CloseDevice(r)
  BY DEF Engine!Adapter!Close
<1>3. QED
  BY <1>1, <1>2, CloseDeviceIs

LEMMA BackendErrorIs ==
  ASSUME NEW p \in Engine!Adapter!Ports, NEW device, NEW q,
         q = Engine!Adapter!BackendError(p, device)
  PROVE  q \in Engine!Adapter!Ports /\ Down(q) /\ q.fault
  BY FaultAndCloseIs DEF Engine!Adapter!BackendError

LEMMA SetLineType ==
  ASSUME NEW p \in Engine!Adapter!Ports, NEW line \in Engine!Adapter!Lines,
         NEW up \in BOOLEAN, NEW device
  PROVE  Engine!Adapter!SetLine(p, line, up, device) \in Engine!Adapter!Ports
<1> DEFINE f == IF device.signals THEN p ELSE LineLost(p, line)
<1>1. f \in Engine!Adapter!Ports
  BY UnknownIs
<1>2. Engine!Adapter!FaultAndClose(f, TRUE, device) \in Engine!Adapter!Ports
  BY <1>1, FaultAndCloseIs
<1>3. Engine!Adapter!WriteLine(p, line, up, device) \in Engine!Adapter!Ports
  BY WriteLineIs
<1>4. QED
  BY <1>2, <1>3 DEF Engine!Adapter!SetLine, LineLost

LEMMA DriveLinesType ==
  ASSUME NEW p \in Engine!Adapter!Ports, NEW ptt \in BOOLEAN, NEW key \in BOOLEAN,
         NEW device
  PROVE  Engine!DriveLines(p, [ptt |-> ptt, key |-> key], device) \in Engine!Adapter!Ports
<1>1. Engine!Adapter!Lines = {"ptt", "key"}
  BY DEF Engine!Adapter!Lines
<1> DEFINE q == IF ptt THEN Engine!Adapter!SetLine(p, "ptt", TRUE, device) ELSE p
           due == IF key THEN ptt /\ Engine!Active(q, "ptt") ELSE Engine!Active(q, "key")
           r == IF due THEN Engine!Adapter!SetLine(q, "key", key, device) ELSE q
           t == IF ~ptt /\ Engine!Active(r, "ptt") /\ ~Engine!Active(r, "key")
                  THEN Engine!Adapter!SetLine(r, "ptt", FALSE, device) ELSE r
<1>2. q \in Engine!Adapter!Ports
  BY <1>1, SetLineType
<1>3. r \in Engine!Adapter!Ports
  <2> HIDE DEF q, due
  <2>1. QED
    BY <1>1, <1>2, SetLineType
<1>4. t \in Engine!Adapter!Ports
  <2> HIDE DEF r
  <2>1. QED
    BY <1>1, <1>3, SetLineType
<1>5. Engine!DriveLines(p, [ptt |-> ptt, key |-> key], device) = t
  <2>1. [ptt |-> ptt, key |-> key].ptt = ptt /\ [ptt |-> ptt, key |-> key].key = key
    OBVIOUS
  <2>2. QED
    BY <2>1, Zenon DEF Engine!DriveLines
<1>6. QED
  BY <1>4, <1>5

LEMMA OpenIs ==
  ASSUME NEW p \in Engine!Adapter!Ports, NEW opens \in BOOLEAN,
         NEW levels \in Engine!Adapter!Levels, NEW device,
         NEW q, q = Engine!Adapter!Open(p, opens, levels, device)
  PROVE  q \in Engine!Adapter!Ports /\ Down(q)
<1> DEFINE c == Engine!Adapter!Close(p, device)
           fresh == Opened(c, levels)
           r == Engine!Adapter!ReleaseAll(fresh, device)
<1>1. c \in Engine!Adapter!Ports /\ Down(c)
  BY CloseIs
<1>2. q = IF opens THEN Engine!Adapter!Initialized(r, device) ELSE [c EXCEPT !.fault = TRUE]
  BY DEF Engine!Adapter!Open, Engine!Adapter!OpenClosed, Opened
<1> HIDE DEF c
<1>3. fresh \in Engine!Adapter!Ports
  BY <1>1, OpenedType
<1> HIDE DEF fresh
<1>4. r \in Engine!Adapter!Ports /\ Down(r)
  BY <1>3, ReleaseAllIs
<1> HIDE DEF r
<1>5. /\ [r EXCEPT !.openSafe = TRUE] \in Engine!Adapter!Ports
      /\ [r EXCEPT !.openSafe = TRUE].known = r.known
  BY <1>4 DEF Engine!Adapter!Ports
<1>6. /\ Engine!Adapter!Initialized(r, device) \in Engine!Adapter!Ports
      /\ Down(Engine!Adapter!Initialized(r, device))
  <2>1. CASE Engine!Adapter!Released(r)
    BY <1>4, <1>5, <2>1 DEF Engine!Adapter!Initialized, Down
  <2>2. CASE ~Engine!Adapter!Released(r)
    BY <1>4, <2>2, FaultAndCloseIs DEF Engine!Adapter!Initialized
  <2>3. QED
    BY <2>1, <2>2
<1>7. [c EXCEPT !.fault = TRUE] \in Engine!Adapter!Ports /\ Down([c EXCEPT !.fault = TRUE])
  BY <1>1, FaultIs DEF Down
<1>8. QED
  BY <1>2, <1>6, <1>7

-----------------------------------------------------------------------------
(* The scheduler: its lines are up only while it runs or has a release to  *)
(* make, and KEY only within the spans of a plan that has some.            *)

Disciplined(sch) ==
  /\ sch.pending => sch.state # "Running"
  /\ sch.ptt => sch.state = "Running" \/ sch.pending
  /\ sch.key => sch.ptt /\ sch.state = "Running" /\ sch.phase = "Spans"
  /\ sch.state = "Running" => sch.ptt /\ Len(sch.plan.spans) > 0

LEMMA TimeIs == Engine!Scheduler!Time = 0..MaxU64 /\ 0 \in Engine!Scheduler!Time /\ \A t \in Engine!Scheduler!Time : t \in Int
  BY Limits DEF Engine!Scheduler!Time

LEMMA SchedulerHas ==
  ASSUME NEW sch \in Engine!Scheduler!Schedulers
  PROVE  /\ sch.config \in Engine!Scheduler!Configs
         /\ sch.plan \in Engine!Scheduler!Plans /\ sch.state \in Engine!Scheduler!States
         /\ sch.phase \in Engine!Scheduler!Phases /\ sch.ptt \in BOOLEAN
         /\ sch.key \in BOOLEAN
         /\ sch.last \in Engine!Scheduler!Time /\ sch.next \in Engine!Scheduler!Time
         /\ sch.span \in Nat
         /\ sch.pending \in BOOLEAN
  BY DEF Engine!Scheduler!Schedulers

LEMMA EndedIs ==
  ASSUME NEW sch \in Engine!Scheduler!Schedulers,
         NEW state \in Engine!Scheduler!States \ {"Running"},
         NEW t, t = Engine!Scheduler!EnterTerminal(sch, state)
  PROVE  /\ t \in Engine!Scheduler!Schedulers /\ Disciplined(t)
         /\ t.state = state /\ ~t.key /\ t.ptt = sch.ptt /\ t.pending = sch.ptt
         /\ t.plan = sch.plan
<1>1. 0 \in Engine!Scheduler!Time /\ "None" \in Engine!Scheduler!Phases
  BY TimeIs DEF Engine!Scheduler!Phases
<1>2. t \in Engine!Scheduler!Schedulers
  BY <1>1, SchedulerHas DEF Engine!Scheduler!EnterTerminal, Engine!Scheduler!Schedulers
<1>3. /\ t.state = state /\ t.key = FALSE /\ t.ptt = sch.ptt /\ t.pending = sch.ptt
      /\ t.plan = sch.plan
  BY DEF Engine!Scheduler!EnterTerminal, Engine!Scheduler!Schedulers
<1>4. QED
  BY <1>2, <1>3 DEF Disciplined

LEMMA FaultedIs ==
  ASSUME NEW sch \in Engine!Scheduler!Schedulers, NEW t,
         t = Engine!Scheduler!SchedulerFault(sch)
  PROVE  t \in Engine!Scheduler!Schedulers /\ Disciplined(t) /\ t.state = "Fault" /\ t.plan = sch.plan
<1>1. "Fault" \in Engine!Scheduler!States \ {"Running"}
  BY DEF Engine!Scheduler!States
<1>2. QED
  BY <1>1, EndedIs DEF Engine!Scheduler!SchedulerFault

LEMMA SetNextIs ==
  ASSUME NEW sch \in Engine!Scheduler!Schedulers, Disciplined(sch),
         NEW base \in Engine!Scheduler!Time, NEW delay \in Nat,
         NEW t, t = Engine!Scheduler!SetNextTransition(sch, base, delay)
  PROVE  /\ t \in Engine!Scheduler!Schedulers /\ Disciplined(t) /\ t.plan = sch.plan
         /\ t.state \in {sch.state, "Fault"}
<1>1. CASE base > MaxU64 - delay
  BY <1>1, FaultedIs DEF Engine!Scheduler!SetNextTransition
<1>2. CASE ~(base > MaxU64 - delay)
  <2>1. base + delay \in Engine!Scheduler!Time
    BY <1>2, Limits DEF Engine!Scheduler!Time
  <2>2. t = [sch EXCEPT !.next = base + delay]
    BY <1>2 DEF Engine!Scheduler!SetNextTransition
  <2>3. t \in Engine!Scheduler!Schedulers
    BY <2>1, <2>2 DEF Engine!Scheduler!Schedulers
  <2>4. /\ t.pending = sch.pending /\ t.ptt = sch.ptt /\ t.key = sch.key
        /\ t.state = sch.state /\ t.phase = sch.phase /\ t.plan = sch.plan
    BY <2>2 DEF Engine!Scheduler!Schedulers
  <2>5. QED
    BY <2>3, <2>4 DEF Disciplined
<1>3. QED
  BY <1>1, <1>2

LEMMA StartIs ==
  ASSUME NEW sch \in Engine!Scheduler!Schedulers, NEW plan \in Engine!Scheduler!Plans,
         NEW now \in Engine!Scheduler!Time,
         NEW t, t = Engine!Scheduler!Start(sch, plan, now)
  PROVE  /\ t \in Engine!Scheduler!Schedulers /\ Disciplined(t)
         /\ t.state = "Running" => t.plan = plan
<1> DEFINE r == [sch EXCEPT !.plan = plan, !.state = "Running", !.phase = "Lead",
                            !.ptt = TRUE, !.key = FALSE, !.last = now, !.span = 0,
                            !.pending = FALSE]
<1>1. CASE sch.state # "Idle" \/ ~Engine!Scheduler!ValidatePlan(sch.config, plan)
             \/ ~Engine!Scheduler!FitsClock(sch.config, plan, now)
  <2>1. t = Engine!Scheduler!SchedulerFault(sch)
    BY <1>1 DEF Engine!Scheduler!Start
  <2>2. QED
    BY <2>1, FaultedIs
<1>2. CASE ~(sch.state # "Idle" \/ ~Engine!Scheduler!ValidatePlan(sch.config, plan)
               \/ ~Engine!Scheduler!FitsClock(sch.config, plan, now))
  <2>1. t = Engine!Scheduler!SetNextTransition(r, now, sch.config.lead)
    BY <1>2 DEF Engine!Scheduler!Start
  <2>2. r \in Engine!Scheduler!Schedulers
    BY DEF Engine!Scheduler!Schedulers, Engine!Scheduler!States, Engine!Scheduler!Phases
  <2>3. /\ r.state = "Running" /\ r.ptt = TRUE /\ r.key = FALSE
        /\ r.pending = FALSE /\ r.plan = plan
    BY DEF Engine!Scheduler!Schedulers
  <2> HIDE DEF r
  <2>4. Len(plan.spans) > 0
    BY <1>2 DEF Engine!Scheduler!ValidatePlan
  <2>5. Disciplined(r)
    BY <2>3, <2>4 DEF Disciplined
  <2>6. sch.config.lead \in Nat
    BY DEF Engine!Scheduler!Schedulers, Engine!Scheduler!Configs
  <2>7. QED
    BY <2>1, <2>2, <2>3, <2>5, <2>6, SetNextIs
<1>3. QED
  BY <1>1, <1>2

LEMMA BeginSpanIs ==
  ASSUME NEW sch \in Engine!Scheduler!Schedulers, Disciplined(sch), sch.state = "Running",
         NEW i \in Nat, i + 1 \in 1..Len(sch.plan.spans),
         NEW t, t = Engine!Scheduler!BeginSpan(sch, i, sch.next)
  PROVE  /\ t \in Engine!Scheduler!Schedulers /\ Disciplined(t) /\ t.plan = sch.plan
         /\ t.state \in {"Running", "Fault"}
<1> DEFINE ticks == Engine!Scheduler!SpanTicks(sch.plan, i + 1)
           r == [sch EXCEPT !.phase = "Spans", !.span = i, !.key = sch.plan.spans[i + 1].key]
<1>1. sch.plan.spans \in Seq(Engine!Scheduler!Spans) /\ sch.plan.dot \in Nat
  BY DEF Engine!Scheduler!Schedulers, Engine!Scheduler!Plans
<1>2. sch.plan.spans[i + 1] \in Engine!Scheduler!Spans
  BY <1>1
<1>3. sch.plan.spans[i + 1].key \in BOOLEAN /\ sch.plan.spans[i + 1].units \in Nat
  BY <1>2 DEF Engine!Scheduler!Spans
<1>4. ticks \in Nat
  BY <1>1, <1>3 DEF Engine!Scheduler!SpanTicks
<1>5. r \in Engine!Scheduler!Schedulers
  BY <1>3 DEF Engine!Scheduler!Schedulers, Engine!Scheduler!Phases
<1>6. /\ r.state = sch.state /\ r.phase = "Spans" /\ r.plan = sch.plan /\ r.ptt = sch.ptt
      /\ r.pending = sch.pending /\ r.next = sch.next
  BY DEF Engine!Scheduler!Schedulers
<1>7. t = Engine!Scheduler!SetNextTransition(r, sch.next, ticks)
  BY DEF Engine!Scheduler!BeginSpan
<1> HIDE DEF r, ticks
<1>8. Disciplined(r)
  BY <1>6 DEF Disciplined
<1>9. sch.next \in Engine!Scheduler!Time
  BY SchedulerHas
<1>10. /\ t \in Engine!Scheduler!Schedulers /\ Disciplined(t) /\ t.plan = r.plan
       /\ t.state \in {r.state, "Fault"}
  BY <1>4, <1>5, <1>7, <1>8, <1>9, SetNextIs
<1>11. QED
  BY <1>6, <1>10

LEMMA CrossBoundaryIs ==
  ASSUME NEW sch \in Engine!Scheduler!Schedulers, Disciplined(sch), sch.state = "Running",
         NEW t, t = Engine!Scheduler!CrossBoundary(sch, sch.next)
  PROVE  /\ t \in Engine!Scheduler!Schedulers /\ Disciplined(t) /\ t.plan = sch.plan
         /\ t.state \in {"Running", "Completed", "Fault"}
         /\ t.state # "Fault" => ~t.pending
<1>1. sch.span \in Nat /\ Len(sch.plan.spans) \in Nat /\ sch.config.hang \in Nat
      /\ sch.next \in Engine!Scheduler!Time /\ sch.phase \in Engine!Scheduler!Phases
  BY DEF Engine!Scheduler!Schedulers, Engine!Scheduler!Plans, Engine!Scheduler!Configs
<1>2. CASE sch.phase = "Lead"
  <2>1. t = Engine!Scheduler!BeginSpan(sch, 0, sch.next)
    BY <1>2 DEF Engine!Scheduler!CrossBoundary
  <2>2. PICK i \in Nat : i = 0
    OBVIOUS
  <2>3. i + 1 \in 1..Len(sch.plan.spans)
    BY <1>1, <2>2 DEF Disciplined
  <2>4. t = Engine!Scheduler!BeginSpan(sch, i, sch.next)
    BY <2>1, <2>2
  <2>5. QED
    BY <2>3, <2>4, BeginSpanIs DEF Disciplined
<1>3. CASE sch.phase = "Spans" /\ sch.span + 1 < Len(sch.plan.spans)
  <2>1. t = Engine!Scheduler!BeginSpan(sch, sch.span + 1, sch.next)
    BY <1>1, <1>3 DEF Engine!Scheduler!CrossBoundary
  <2>2. sch.span + 1 \in Nat /\ (sch.span + 1) + 1 \in 1..Len(sch.plan.spans)
    BY <1>1, <1>3
  <2>3. QED
    BY <2>1, <2>2, BeginSpanIs DEF Disciplined
<1>4. CASE sch.phase = "Spans" /\ sch.span + 1 >= Len(sch.plan.spans)
  <2> DEFINE r == [sch EXCEPT !.phase = "Hang", !.span = @ + 1, !.key = FALSE]
  <2>1. r \in Engine!Scheduler!Schedulers
    <3>1. sch.span + 1 \in Nat /\ "Hang" \in Engine!Scheduler!Phases
      BY <1>1 DEF Engine!Scheduler!Phases
    <3>2. QED
      BY <3>1 DEF Engine!Scheduler!Schedulers
  <2>2. /\ r.state = sch.state /\ r.key = FALSE /\ r.plan = sch.plan /\ r.ptt = sch.ptt
        /\ r.pending = sch.pending
    BY DEF Engine!Scheduler!Schedulers
  <2>3. t = Engine!Scheduler!SetNextTransition(r, sch.next, sch.config.hang)
    BY <1>1, <1>4 DEF Engine!Scheduler!CrossBoundary, Engine!Scheduler!BeginHang
  <2> HIDE DEF r
  <2>4. Disciplined(r)
    BY <2>2 DEF Disciplined
  <2>5. /\ t \in Engine!Scheduler!Schedulers /\ Disciplined(t) /\ t.plan = r.plan
        /\ t.state \in {r.state, "Fault"}
    BY <1>1, <2>1, <2>3, <2>4, SetNextIs
  <2>6. QED
    BY <2>2, <2>5 DEF Disciplined
<1>5. CASE sch.phase = "Hang"
  <2>1. t = Engine!Scheduler!Complete(sch)
    BY <1>5 DEF Engine!Scheduler!CrossBoundary
  <2>2. t \in Engine!Scheduler!Schedulers
    <3>1. /\ "Completed" \in Engine!Scheduler!States
          /\ "None" \in Engine!Scheduler!Phases /\ 0 \in Engine!Scheduler!Time
      BY TimeIs DEF Engine!Scheduler!States, Engine!Scheduler!Phases
    <3>2. QED
      BY <2>1, <3>1 DEF Engine!Scheduler!Complete, Engine!Scheduler!Schedulers
  <2>3. /\ t.ptt = FALSE /\ t.state = "Completed" /\ t.key = sch.key
        /\ t.pending = sch.pending /\ t.plan = sch.plan
    BY <2>1 DEF Engine!Scheduler!Complete, Engine!Scheduler!Schedulers
  <2>4. ~sch.key /\ ~sch.pending
    BY <1>5, SchedulerHas DEF Disciplined
  <2>5. QED
    BY <2>2, <2>3, <2>4 DEF Disciplined
<1>6. CASE sch.phase = "None"
  <2>1. t = Engine!Scheduler!SchedulerFault(sch)
    BY <1>6 DEF Engine!Scheduler!CrossBoundary
  <2>2. QED
    BY <2>1, FaultedIs
<1>7. QED
  BY <1>1, <1>2, <1>3, <1>4, <1>5, <1>6 DEF Engine!Scheduler!Phases

LEMMA LastIs ==
  ASSUME NEW sch \in Engine!Scheduler!Schedulers, Disciplined(sch),
         NEW now \in Engine!Scheduler!Time,
         NEW t, t = [sch EXCEPT !.last = now]
  PROVE  /\ t \in Engine!Scheduler!Schedulers /\ Disciplined(t) /\ t.plan = sch.plan
         /\ t.state = sch.state /\ t.ptt = sch.ptt /\ t.next = sch.next
         /\ t.pending = sch.pending
<1>1. t \in Engine!Scheduler!Schedulers
  BY DEF Engine!Scheduler!Schedulers
<1>2. /\ t.plan = sch.plan /\ t.state = sch.state /\ t.ptt = sch.ptt /\ t.next = sch.next
      /\ t.key = sch.key /\ t.phase = sch.phase /\ t.pending = sch.pending
  BY DEF Engine!Scheduler!Schedulers
<1>3. QED
  BY <1>1, <1>2 DEF Disciplined

(* A schedule that runs is advanced, completed or stopped by a fault; one  *)
(* that has ended has made its release afterwards.                         *)
LEMMA AdvanceIs ==
  ASSUME NEW sch \in Engine!Scheduler!Schedulers, Disciplined(sch),
         NEW now \in Engine!Scheduler!Time,
         NEW t, t = Engine!Scheduler!Advance(sch, now)
  PROVE  /\ t \in Engine!Scheduler!Schedulers /\ Disciplined(t) /\ t.plan = sch.plan
         /\ sch.state # "Running" =>
              t.state = sch.state /\ ~t.pending /\ ~t.ptt /\ ~t.key
         /\ sch.state = "Running" =>
              /\ t.state \in {"Running", "Completed", "Fault"}
              /\ t.state # "Fault" => ~t.pending
<1> DEFINE r == [sch EXCEPT !.last = now]
<1>1. /\ r \in Engine!Scheduler!Schedulers /\ Disciplined(r) /\ r.plan = sch.plan
      /\ r.state = sch.state /\ r.ptt = sch.ptt /\ r.next = sch.next
      /\ r.pending = sch.pending
  BY LastIs
<1>2. sch.next \in Int /\ sch.last \in Int /\ now \in Int /\ sch.config.maxLateness \in Int
  BY TimeIs DEF Engine!Scheduler!Schedulers, Engine!Scheduler!Configs
<1>3. CASE sch.state # "Running" /\ sch.pending
  <2>1. t = [sch EXCEPT !.ptt = FALSE, !.pending = FALSE]
    BY <1>3 DEF Engine!Scheduler!Advance, Engine!Scheduler!ReleasePending
  <2>2. /\ t \in Engine!Scheduler!Schedulers /\ t.ptt = FALSE /\ t.pending = FALSE
        /\ t.key = sch.key
        /\ t.state = sch.state /\ t.plan = sch.plan
    BY <2>1 DEF Engine!Scheduler!Schedulers
  <2>3. QED
    BY <1>3, <2>2 DEF Disciplined
<1>4. CASE sch.state # "Running" /\ ~sch.pending
  <2>1. t = sch
    BY <1>4 DEF Engine!Scheduler!Advance
  <2>2. QED
    BY <1>4, <2>1 DEF Disciplined
<1>5. CASE sch.state = "Running" /\ now < sch.last
  <2>1. t = Engine!Scheduler!SchedulerFault(sch)
    BY <1>2, <1>5 DEF Engine!Scheduler!Advance
  <2>2. QED
    BY <1>5, <2>1, FaultedIs
<1>6. CASE sch.state = "Running" /\ sch.last <= now /\ now < sch.next
  <2>1. t = r
    BY <1>2, <1>6 DEF Engine!Scheduler!Advance
  <2> HIDE DEF r
  <2>2. QED
    BY <1>1, <1>6, <2>1 DEF Disciplined
<1>7. CASE sch.state = "Running" /\ sch.last <= now /\ sch.next <= now
  <2>1. t = IF now - sch.next > sch.config.maxLateness THEN Engine!Scheduler!SchedulerFault(r)
                                                       ELSE Engine!Scheduler!CrossBoundary(r, r.next)
    BY <1>1, <1>2, <1>7 DEF Engine!Scheduler!Advance
  <2> HIDE DEF r
  <2>2. CASE now - sch.next > sch.config.maxLateness
    <3>1. t = Engine!Scheduler!SchedulerFault(r)
      BY <2>1, <2>2
    <3>2. QED
      BY <1>1, <1>7, <3>1, FaultedIs
  <2>3. CASE ~(now - sch.next > sch.config.maxLateness)
    <3>1. t = Engine!Scheduler!CrossBoundary(r, r.next)
      BY <2>1, <2>3
    <3>2. QED
      BY <1>1, <1>7, <3>1, CrossBoundaryIs
  <2>4. QED
    BY <2>2, <2>3
<1>8. QED
  BY <1>2, <1>3, <1>4, <1>5, <1>6, <1>7
-----------------------------------------------------------------------------
(* The worker: a raised line is in the timer's care, and the timer runs    *)
(* only for an output.                                                     *)

Rest(e) == e.timer = Engine!Stopped /\ Down(e.port)
Worker(e) ==
  /\ e \in Engine!Engines
  /\ Disciplined(e.sch) /\ ~e.sch.pending
  /\ e.timer = Engine!Stopped => Down(e.port)
  /\ e.timer # Engine!Stopped => Engine!Busy(e)

(* What a fault leaves behind. *)
Halted(e) ==
  /\ Worker(e) /\ Rest(e) /\ ~Engine!Busy(e) /\ e.fault
  /\ ~e.sch.ptt /\ ~e.sch.key

LEMMA EngineHas ==
  ASSUME NEW e \in Engine!Engines
  PROVE  /\ e.configured \in BOOLEAN /\ e.tune \in Nat
         /\ e.sch \in Engine!Scheduler!Schedulers
         /\ e.port \in Engine!Adapter!Ports
         /\ e.timer \in Engine!Scheduler!Time \cup {Engine!Stopped} /\ e.fault \in BOOLEAN
         /\ e.tuning \in BOOLEAN /\ e.tuneDeadline \in Engine!Scheduler!Time
  BY DEF Engine!Engines, Engine!Time

LEMMA StoppedIsNoTime == Engine!Stopped \notin Engine!Scheduler!Time /\ Engine!Stopped = -1
  BY Limits DEF Engine!Scheduler!Time, Engine!Stopped

(* What a record of the worker shares with another but for some fields.    *)
SameButPort(e, f) ==
  /\ f.configured = e.configured /\ f.tune = e.tune /\ f.sch = e.sch /\ f.timer = e.timer
  /\ f.fault = e.fault /\ f.tuning = e.tuning /\ f.tuneDeadline = e.tuneDeadline
SameButSchedule(e, f) ==
  /\ f.configured = e.configured /\ f.tune = e.tune /\ f.port = e.port /\ f.timer = e.timer
  /\ f.fault = e.fault /\ f.tuning = e.tuning /\ f.tuneDeadline = e.tuneDeadline
SameButTimer(e, f) ==
  /\ f.configured = e.configured /\ f.tune = e.tune /\ f.port = e.port /\ f.sch = e.sch
  /\ f.fault = e.fault /\ f.tuning = e.tuning /\ f.tuneDeadline = e.tuneDeadline

LEMMA PortSet ==
  ASSUME NEW e \in Engine!Engines, NEW p \in Engine!Adapter!Ports, NEW f,
         f = [e EXCEPT !.port = p]
  PROVE  f \in Engine!Engines /\ f.port = p /\ SameButPort(e, f)
  BY DEF Engine!Engines, SameButPort

LEMMA ScheduleSet ==
  ASSUME NEW e \in Engine!Engines, NEW sch \in Engine!Scheduler!Schedulers, NEW f,
         f = [e EXCEPT !.sch = sch]
  PROVE  f \in Engine!Engines /\ f.sch = sch /\ SameButSchedule(e, f)
  BY DEF Engine!Engines, SameButSchedule

LEMMA TimerSet ==
  ASSUME NEW e \in Engine!Engines,
         NEW timer \in Engine!Scheduler!Time \cup {Engine!Stopped},
         NEW f, f = [e EXCEPT !.timer = timer]
  PROVE  f \in Engine!Engines /\ f.timer = timer /\ SameButTimer(e, f)
  BY DEF Engine!Engines, Engine!Time, SameButTimer

LEMMA NotTuningIs ==
  ASSUME NEW e \in Engine!Engines, NEW f, f = Engine!NotTuning(e)
  PROVE  /\ f \in Engine!Engines /\ f.timer = Engine!Stopped /\ f.tuning = FALSE
         /\ f.sch = e.sch /\ f.port = e.port /\ f.fault = e.fault
         /\ f.configured = e.configured
<1>1. 0 \in Engine!Time
  BY TimeIs DEF Engine!Time
<1>2. QED
  BY <1>1 DEF Engine!NotTuning, Engine!Engines

LEMMA ReleaseEngineIs ==
  ASSUME NEW e \in Engine!Engines, NEW device, NEW f, f = Engine!ReleaseEngine(e, device)
  PROVE  f \in Engine!Engines /\ Down(f.port) /\ SameButPort(e, f)
<1> DEFINE p == Engine!Adapter!ReleaseAll(e.port, device)
<1>1. p \in Engine!Adapter!Ports /\ Down(p)
  BY EngineHas, ReleaseAllIs
<1>2. f = [e EXCEPT !.port = p]
  BY DEF Engine!ReleaseEngine
<1> HIDE DEF p
<1>3. QED
  BY <1>1, <1>2, PortSet

LEMMA EmergencyScheduleIs ==
  ASSUME NEW sch \in Engine!Scheduler!Schedulers, NEW t,
         t = Engine!Scheduler!EmergencyRelease(sch)
  PROVE  /\ t \in Engine!Scheduler!Schedulers /\ Disciplined(t)
         /\ t.state = "Emergency" /\ ~t.key /\ t.ptt = sch.ptt /\ t.pending = sch.ptt
         /\ t.plan = sch.plan
<1>1. "Emergency" \in Engine!Scheduler!States \ {"Running"}
  BY DEF Engine!Scheduler!States
<1>2. QED
  BY <1>1, EndedIs DEF Engine!Scheduler!EmergencyRelease

(* Whatever state a worker is in, a fault halts it. *)
LEMMA FaultEngineIs ==
  ASSUME NEW e \in Engine!Engines, NEW now \in Engine!Scheduler!Time, NEW device,
         NEW f, f = Engine!FaultEngine(e, now, device)
  PROVE  Halted(f) /\ f.sch.plan = e.sch.plan /\ f.configured = e.configured
<1> DEFINE a == Engine!NotTuning(e)
           b == Engine!ReleaseEngine(a, device)
           ended == Engine!Scheduler!EmergencyRelease(b.sch)
           sch == Engine!DrainPending(ended, now)
<1>1. /\ a \in Engine!Engines /\ a.timer = Engine!Stopped /\ a.tuning = FALSE
      /\ a.sch = e.sch
      /\ a.configured = e.configured
  BY NotTuningIs
<1>2. f = [b EXCEPT !.sch = sch, !.fault = TRUE]
  BY DEF Engine!FaultEngine
<1> HIDE DEF a
<1>3. b \in Engine!Engines /\ Down(b.port) /\ SameButPort(a, b)
  BY <1>1, ReleaseEngineIs
<1> HIDE DEF b
<1>4. /\ ended \in Engine!Scheduler!Schedulers /\ Disciplined(ended)
      /\ ended.state = "Emergency"
      /\ ~ended.key /\ ended.ptt = b.sch.ptt /\ ended.pending = b.sch.ptt
      /\ ended.plan = b.sch.plan
  BY <1>3, EngineHas, EmergencyScheduleIs
<1> HIDE DEF ended
<1>5. /\ sch \in Engine!Scheduler!Schedulers /\ Disciplined(sch) /\ ~sch.pending
      /\ ~sch.ptt /\ ~sch.key
      /\ sch.state = "Emergency" /\ sch.plan = ended.plan
  <2>1. CASE ended.pending
    <3>1. sch = Engine!Scheduler!Advance(ended, now)
      BY <2>1 DEF Engine!DrainPending
    <3> HIDE DEF sch
    <3>2. QED
      BY <1>4, <3>1, AdvanceIs
  <2>2. CASE ~ended.pending
    BY <1>4, <2>2 DEF Engine!DrainPending
  <2>3. QED
    BY <2>1, <2>2
<1> HIDE DEF sch
<1>6. /\ f \in Engine!Engines /\ f.sch = sch /\ f.fault = TRUE /\ f.port = b.port
      /\ f.timer = b.timer /\ f.tuning = b.tuning /\ f.configured = b.configured
  BY <1>2, <1>3, <1>5 DEF Engine!Engines
<1>7. QED
  BY <1>1, <1>3, <1>4, <1>5, <1>6
     DEF Halted, Worker, Rest, SameButPort, Engine!Busy, Engine!Running

(* The lines are the schedule's, or the worker is halted. *)
LEMMA AppliedIs ==
  ASSUME NEW e \in Engine!Engines, NEW now \in Engine!Scheduler!Time, NEW device,
         NEW f, f = Engine!ApplyDesiredLines(e, now, device)
  PROVE  \/ f \in Engine!Engines /\ SameButPort(e, f) /\ Engine!LinesApplied(f)
         \/ Halted(f) /\ f.sch.plan = e.sch.plan /\ f.configured = e.configured
<1> DEFINE p == Engine!DriveLines(e.port, [ptt |-> e.sch.ptt, key |-> e.sch.key], device)
           d == [e EXCEPT !.port = p]
<1>1. p \in Engine!Adapter!Ports
  BY EngineHas, SchedulerHas, DriveLinesType
<1>2. f = Engine!AppliedOrFault(d, now, device)
  BY DEF Engine!ApplyDesiredLines
<1> HIDE DEF p
<1>3. d \in Engine!Engines /\ SameButPort(e, d)
  BY <1>1, PortSet
<1> HIDE DEF d
<1>4. CASE Engine!LinesApplied(d)
  BY <1>2, <1>3, <1>4 DEF Engine!AppliedOrFault
<1>5. CASE ~Engine!LinesApplied(d)
  <2>1. f = Engine!FaultEngine(d, now, device)
    BY <1>2, <1>5 DEF Engine!AppliedOrFault
  <2>2. Halted(f) /\ f.sch.plan = d.sch.plan /\ f.configured = d.configured
    BY <1>3, <2>1, FaultEngineIs
  <2>3. QED
    BY <1>3, <2>2 DEF SameButPort
<1>6. QED
  BY <1>4, <1>5

LEMMA LinesAppliedDown ==
  ASSUME NEW e, Engine!LinesApplied(e), ~e.sch.ptt, ~e.sch.key
  PROVE  Down(e.port)
  BY DEF Engine!LinesApplied, Engine!Active, Down, Engine!Adapter!Lines

(* The release that is still to be made is made. *)
LEMMA PendingIs ==
  ASSUME NEW e \in Engine!Engines, Disciplined(e.sch), e.timer = Engine!Stopped,
         NEW now \in Engine!Scheduler!Time, NEW device,
         NEW f, f = Engine!ApplyPendingRelease(e, now, device)
  PROVE  /\ f \in Engine!Engines /\ Disciplined(f.sch) /\ ~f.sch.pending
         /\ f.timer = Engine!Stopped /\ f.sch.plan = e.sch.plan
         /\ e.sch.pending => Down(f.port)
         /\ ~e.sch.pending => f = e
<1>1. CASE ~e.sch.pending
  <2>1. f = e
    BY <1>1 DEF Engine!ApplyPendingRelease
  <2>2. QED
    BY <1>1, <2>1
<1>2. CASE e.sch.pending
  <2> DEFINE sch == Engine!Scheduler!Advance(e.sch, now)
             d == [e EXCEPT !.sch = sch]
  <2>1. /\ sch \in Engine!Scheduler!Schedulers /\ Disciplined(sch) /\ ~sch.pending
        /\ ~sch.ptt /\ ~sch.key
        /\ sch.plan = e.sch.plan
    BY <1>2, EngineHas, AdvanceIs DEF Disciplined
  <2>2. f = Engine!ApplyDesiredLines(d, now, device)
    BY <1>2 DEF Engine!ApplyPendingRelease
  <2> HIDE DEF sch
  <2>3. d \in Engine!Engines /\ d.sch = sch /\ SameButSchedule(e, d)
    BY <2>1, ScheduleSet
  <2> HIDE DEF d
  <2>4. \/ f \in Engine!Engines /\ SameButPort(d, f) /\ Engine!LinesApplied(f)
        \/ Halted(f) /\ f.sch.plan = d.sch.plan
    BY <2>2, <2>3, AppliedIs
  <2>5. CASE f \in Engine!Engines /\ SameButPort(d, f) /\ Engine!LinesApplied(f)
    <3>1. f.sch = sch /\ f.timer = e.timer
      BY <2>3, <2>5 DEF SameButPort, SameButSchedule
    <3>2. Down(f.port)
      BY <2>1, <2>5, <3>1, LinesAppliedDown
    <3>3. QED
      BY <1>2, <2>1, <2>5, <3>1, <3>2
  <2>6. CASE Halted(f) /\ f.sch.plan = d.sch.plan
    BY <1>2, <2>1, <2>3, <2>6 DEF Halted, Worker, Rest
  <2>7. QED
    BY <2>4, <2>5, <2>6
<1>3. QED
  BY <1>1, <1>2

LEMMA DrainIs ==
  ASSUME NEW e \in Engine!Engines, Disciplined(e.sch), ~e.sch.pending,
         e.timer = Engine!Stopped,
         NEW now \in Engine!Scheduler!Time, NEW device,
         NEW f, f = Engine!DrainSchedulerRelease(e, now, device)
  PROVE  /\ f \in Engine!Engines /\ Disciplined(f.sch) /\ ~f.sch.pending
         /\ f.timer = Engine!Stopped
<1> DEFINE d == [e EXCEPT !.sch = Engine!Scheduler!EmergencyRelease(e.sch)]
           g == Engine!ApplyDesiredLines(d, now, device)
           h == IF Engine!Running(e) THEN g ELSE e
<1>1. f = Engine!ApplyPendingRelease(h, now, device)
  BY DEF Engine!DrainSchedulerRelease
<1>2. /\ Engine!Scheduler!EmergencyRelease(e.sch) \in Engine!Scheduler!Schedulers
      /\ Disciplined(Engine!Scheduler!EmergencyRelease(e.sch))
  BY EngineHas, EmergencyScheduleIs
<1>3. /\ d \in Engine!Engines /\ d.sch = Engine!Scheduler!EmergencyRelease(e.sch)
      /\ SameButSchedule(e, d)
  BY <1>2, ScheduleSet
<1> HIDE DEF d
<1>4. \/ g \in Engine!Engines /\ SameButPort(d, g) /\ Engine!LinesApplied(g)
      \/ Halted(g) /\ g.sch.plan = d.sch.plan
  BY <1>3, AppliedIs
<1> HIDE DEF g
<1>5. g \in Engine!Engines /\ Disciplined(g.sch) /\ g.timer = Engine!Stopped
  BY <1>2, <1>3, <1>4 DEF SameButPort, SameButSchedule, Halted, Worker, Rest
<1>6. h \in Engine!Engines /\ Disciplined(h.sch) /\ h.timer = Engine!Stopped
  BY <1>5
<1> HIDE DEF h
<1>7. QED
  BY <1>1, <1>6, PendingIs

LEMMA ScheduleTimerIs ==
  ASSUME NEW e \in Engine!Engines, NEW now \in Engine!Scheduler!Time, NEW f,
         f = Engine!ScheduleTimer(e, now)
  PROVE  /\ f \in Engine!Engines /\ SameButTimer(e, f)
         /\ f.timer # Engine!Stopped <=> Engine!Busy(e)
<1> DEFINE deadline == IF e.tuning THEN e.tuneDeadline ELSE e.sch.next
           delay == IF deadline > now THEN Engine!Sooner(deadline - now, HealthPoll) ELSE 0
           due == Engine!Sooner(now + delay, MaxU64)
<1>1. deadline \in 0..MaxU64 /\ now \in 0..MaxU64 /\ MaxU64 \in Nat /\ HealthPoll \in Nat
  BY EngineHas, SchedulerHas, TimeIs, Limits
<1>2. f = [e EXCEPT !.timer = IF Engine!Busy(e) THEN due ELSE Engine!Stopped]
  BY DEF Engine!ScheduleTimer
<1> HIDE DEF deadline
<1>3. delay \in Nat
  BY <1>1 DEF Engine!Sooner
<1> HIDE DEF delay
<1>4. due \in Engine!Scheduler!Time
  BY <1>1, <1>3, TimeIs DEF Engine!Sooner
<1> HIDE DEF due
<1>5. QED
  BY <1>2, <1>4, TimerSet, StoppedIsNoTime
-----------------------------------------------------------------------------
(* The calls.  All of them but the two that begin an output leave the      *)
(* worker at rest.                                                         *)

LEMMA NewEngineIs ==
  ASSUME NEW c \in Engine!EngineConfigs, NEW e, e = Engine!NewEngine(c)
  PROVE  Worker(e) /\ Rest(e) /\ ~Engine!Busy(e) /\ ~e.fault
<1> DEFINE sch == Engine!Scheduler!NewScheduler(c.scheduler)
<1>1. c.tune \in Nat /\ c.scheduler \in Engine!Scheduler!Configs
  BY DEF Engine!EngineConfigs
<1>2. sch \in Engine!Scheduler!Schedulers
  <2>1. /\ "Idle" \in Engine!Scheduler!States /\ "None" \in Engine!Scheduler!Phases
        /\ 0 \in Engine!Scheduler!Time
    BY TimeIs DEF Engine!Scheduler!States, Engine!Scheduler!Phases
  <2>2. Engine!Scheduler!NoPlan \in Engine!Scheduler!Plans
    <3>1. <<>> \in Seq(Engine!Scheduler!Spans)
      OBVIOUS
    <3>2. QED
      BY <3>1 DEF Engine!Scheduler!NoPlan, Engine!Scheduler!Plans
  <2>3. QED
    BY <1>1, <2>1, <2>2 DEF Engine!Scheduler!NewScheduler, Engine!Scheduler!Schedulers
<1>3. sch.state = "Idle" /\ ~sch.pending /\ ~sch.ptt /\ ~sch.key
  BY DEF Engine!Scheduler!NewScheduler
<1> HIDE DEF sch
<1>4. Engine!Adapter!NewPort \in Engine!Adapter!Ports /\ Down(Engine!Adapter!NewPort)
  <2>1. /\ Engine!Adapter!NoneKnown \in [Engine!Adapter!Lines -> Engine!Adapter!LineStates]
        /\ [line \in Engine!Adapter!Lines |-> FALSE] \in Engine!Adapter!Levels
        /\ \A line \in Engine!Adapter!Lines : Engine!Adapter!NoneKnown[line] # "Active"
    BY DEF Engine!Adapter!NoneKnown, Engine!Adapter!LineStates, Engine!Adapter!Levels
  <2> HIDE DEF Engine!Adapter!NoneKnown
  <2>2. QED
    BY <2>1 DEF Engine!Adapter!NewPort, Engine!Adapter!Ports, Down
<1>5. e = [configured |-> FALSE, tune |-> c.tune, sch |-> sch, port |-> Engine!Adapter!NewPort,
           timer |-> Engine!Stopped, fault |-> FALSE, tuning |-> FALSE, tuneDeadline |-> 0]
  BY DEF Engine!NewEngine, sch
<1>6. e \in Engine!Engines
  BY <1>1, <1>2, <1>4, <1>5, TimeIs DEF Engine!Engines, Engine!Time
<1>7. QED
  BY <1>3, <1>4, <1>5, <1>6 DEF Worker, Rest, Disciplined, Engine!Busy, Engine!Running

LEMMA CloseInternalIs ==
  ASSUME NEW e, Worker(e), NEW now \in Engine!Scheduler!Time, NEW device,
         NEW f, f = Engine!CloseInternal(e, now, device)
  PROVE  Worker(f) /\ Rest(f)
<1> DEFINE a == Engine!NotTuning(e)
           b == IF e.port.openSafe THEN Engine!DrainSchedulerRelease(a, now, device) ELSE a
           p == Engine!Adapter!Close(b.port, device)
<1>1. a \in Engine!Engines /\ a.timer = Engine!Stopped /\ a.sch = e.sch
  BY NotTuningIs DEF Worker
<1>2. f = [b EXCEPT !.port = p, !.fault = FALSE]
  BY DEF Engine!CloseInternal
<1> HIDE DEF a
<1>3. /\ b \in Engine!Engines /\ Disciplined(b.sch) /\ ~b.sch.pending
      /\ b.timer = Engine!Stopped
  <2>1. CASE e.port.openSafe
    BY <1>1, <2>1, DrainIs DEF Worker
  <2>2. CASE ~e.port.openSafe
    BY <1>1, <2>2 DEF Worker
  <2>3. QED
    BY <2>1, <2>2
<1> HIDE DEF b
<1>4. p \in Engine!Adapter!Ports /\ Down(p)
  BY <1>3, EngineHas, CloseIs
<1> HIDE DEF p
<1>5. f \in Engine!Engines /\ f.port = p /\ f.sch = b.sch /\ f.timer = b.timer
  BY <1>2, <1>3, <1>4 DEF Engine!Engines
<1>6. QED
  BY <1>3, <1>4, <1>5 DEF Worker, Rest

LEMMA ConfigureIs ==
  ASSUME NEW e, Worker(e), NEW c \in Engine!EngineConfigs,
         NEW now \in Engine!Scheduler!Time, NEW device,
         NEW f, f = Engine!Configure(e, c, now, device)
  PROVE  Worker(f) /\ Rest(f)
<1> DEFINE b == Engine!CloseInternal(e, now, device)
           n == Engine!NewEngine(c)
           v == Engine!ValidEngineConfig(c)
<1>1. Worker(b) /\ Rest(b)
  BY CloseInternalIs
<1>2. f = [b EXCEPT !.tune = c.tune, !.sch = Engine!Scheduler!NewScheduler(c.scheduler),
                    !.configured = v, !.fault = ~v]
  BY DEF Engine!Configure
<1> HIDE DEF b
<1>3. Worker(n) /\ n.sch = Engine!Scheduler!NewScheduler(c.scheduler)
  BY NewEngineIs DEF Engine!NewEngine
<1> HIDE DEF n
<1>4. n.sch \in Engine!Scheduler!Schedulers /\ c.tune \in Nat /\ v \in BOOLEAN
  BY <1>3, EngineHas DEF Worker, Engine!EngineConfigs, Engine!ValidEngineConfig
<1> HIDE DEF v
<1>5. f \in Engine!Engines /\ f.port = b.port /\ f.sch = n.sch /\ f.timer = b.timer
  BY <1>1, <1>2, <1>3, <1>4 DEF Engine!Engines, Worker
<1>6. QED
  BY <1>1, <1>3, <1>5 DEF Worker, Rest

LEMMA OpenSafeIs ==
  ASSUME NEW e, Worker(e), NEW opens \in BOOLEAN, NEW levels \in Engine!Adapter!Levels,
         NEW now \in Engine!Scheduler!Time, NEW device,
         e.configured \/ Rest(e),
         NEW f, f = Engine!OpenSafe(e, opens, levels, now, device)
  PROVE  Worker(f) /\ Rest(f)
<1>1. CASE ~e.configured
  <2>1. f = [e EXCEPT !.fault = TRUE]
    BY <1>1 DEF Engine!OpenSafe
  <2>2. f \in Engine!Engines /\ f.sch = e.sch /\ f.port = e.port /\ f.timer = e.timer
    BY <2>1 DEF Engine!Engines, Worker
  <2>3. QED
    BY <1>1, <2>2 DEF Worker, Rest
<1>2. CASE e.configured
  <2> DEFINE a == [e EXCEPT !.timer = Engine!Stopped]
             b == Engine!DrainSchedulerRelease(a, now, device)
             c == Engine!Adapter!Close(b.port, device)
             p == Engine!Adapter!Open(c, opens, levels, device)
             d == [b EXCEPT !.port = p]
  <2>1. f = [d EXCEPT !.fault = ~Engine!Adapter!KnownInactive(d.port)]
    <3>1. f = Engine!FaultUnlessInactive(d)
      BY <1>2 DEF Engine!OpenSafe
    <3> HIDE DEF d
    <3>2. QED
      BY <3>1 DEF Engine!FaultUnlessInactive
  <2>2. a \in Engine!Engines /\ a.timer = Engine!Stopped /\ a.sch = e.sch
    BY TimerSet DEF Worker, SameButTimer
  <2> HIDE DEF a
  <2>3. /\ b \in Engine!Engines /\ Disciplined(b.sch) /\ ~b.sch.pending
        /\ b.timer = Engine!Stopped
    BY <2>2, DrainIs DEF Worker
  <2> HIDE DEF b
  <2>4. c \in Engine!Adapter!Ports
    BY <2>3, EngineHas, CloseIs
  <2> HIDE DEF c
  <2>5. p \in Engine!Adapter!Ports /\ Down(p)
    BY <2>4, OpenIs
  <2> HIDE DEF p
  <2>6. d \in Engine!Engines /\ d.port = p /\ SameButPort(b, d)
    BY <2>3, <2>5, PortSet
  <2> HIDE DEF d
  <2>7. Engine!Adapter!KnownInactive(d.port) \in BOOLEAN
    BY DEF Engine!Adapter!KnownInactive
  <2>8. f \in Engine!Engines /\ f.sch = d.sch /\ f.port = d.port /\ f.timer = d.timer
    BY <2>1, <2>6, <2>7 DEF Engine!Engines
  <2>9. QED
    BY <2>3, <2>5, <2>6, <2>8 DEF Worker, Rest, SameButPort
<1>3. QED
  BY <1>1, <1>2, EngineHas DEF Worker

LEMMA HaltedWorker ==
  ASSUME NEW e, Halted(e)
  PROVE  Worker(e) /\ Rest(e) /\ ~Engine!Busy(e)
  BY DEF Halted

LEMMA ReleasedOrFaultIs ==
  ASSUME NEW e \in Engine!Engines, NEW now \in Engine!Scheduler!Time, NEW device,
         Worker(e), Rest(e), NEW f, f = Engine!ReleasedOrFault(e, now, device)
  PROVE  Worker(f) /\ Rest(f)
<1>1. Halted(Engine!FaultEngine(e, now, device))
  BY FaultEngineIs
<1>2. QED
  BY <1>1, HaltedWorker DEF Engine!ReleasedOrFault

LEMMA StopTuneIs ==
  ASSUME NEW e, Worker(e), NEW now \in Engine!Scheduler!Time, NEW device,
         NEW f, f = Engine!StopTune(e, now, device)
  PROVE  Worker(f) /\ (e.tuning => Rest(f)) /\ (~e.tuning => f = e)
<1>1. CASE ~e.tuning
  BY <1>1 DEF Engine!StopTune
<1>2. CASE e.tuning
  <2> DEFINE a == Engine!NotTuning(e)
             b == Engine!ReleaseEngine(a, device)
  <2>1. f = Engine!ReleasedOrFault(b, now, device)
    BY <1>2 DEF Engine!StopTune
  <2>2. a \in Engine!Engines /\ a.timer = Engine!Stopped /\ a.sch = e.sch
    BY NotTuningIs DEF Worker
  <2> HIDE DEF a
  <2>3. b \in Engine!Engines /\ Down(b.port) /\ SameButPort(a, b)
    BY <2>2, ReleaseEngineIs
  <2> HIDE DEF b
  <2>4. Worker(b) /\ Rest(b)
    BY <2>2, <2>3 DEF Worker, Rest, SameButPort
  <2>5. QED
    BY <1>2, <2>1, <2>3, <2>4, ReleasedOrFaultIs
<1>3. QED
  BY <1>1, <1>2, EngineHas DEF Worker

LEMMA CancelIs ==
  ASSUME NEW e, Worker(e), NEW now \in Engine!Scheduler!Time, NEW device,
         NEW f, f = Engine!Cancel(e, now, device)
  PROVE  Worker(f) /\ Rest(f)
<1>0. e \in Engine!Engines /\ e.sch \in Engine!Scheduler!Schedulers /\ e.tuning \in BOOLEAN
  BY EngineHas DEF Worker
<1>1. CASE e.tuning
  <2>1. f = Engine!StopTune(e, now, device)
    BY <1>1 DEF Engine!Cancel
  <2>2. QED
    BY <1>1, <2>1, StopTuneIs
<1>2. CASE ~e.tuning /\ ~Engine!Running(e)
  <2>1. f = e
    BY <1>2 DEF Engine!Cancel
  <2>2. QED
    BY <1>2, <2>1 DEF Worker, Rest, Engine!Busy
<1>3. CASE ~e.tuning /\ Engine!Running(e)
  <2> DEFINE sch == Engine!Scheduler!Cancel(e.sch)
             a == [e EXCEPT !.timer = Engine!Stopped, !.sch = sch]
             b == Engine!ApplyDesiredLines(a, now, device)
  <2>1. f = Engine!ApplyPendingRelease(b, now, device)
    BY <1>3 DEF Engine!Cancel
  <2>2. /\ sch \in Engine!Scheduler!Schedulers /\ Disciplined(sch) /\ ~sch.key
        /\ sch.pending = sch.ptt
    <3>1. "Cancelled" \in Engine!Scheduler!States \ {"Running"}
      BY DEF Engine!Scheduler!States
    <3>2. sch = Engine!Scheduler!EnterTerminal(e.sch, "Cancelled")
      BY <1>3 DEF Engine!Scheduler!Cancel, Engine!Running
    <3> HIDE DEF sch
    <3>3. QED
      BY <1>0, <3>1, <3>2, EndedIs
  <2> HIDE DEF sch
  <2>3. a \in Engine!Engines /\ a.timer = Engine!Stopped /\ a.sch = sch
    BY <1>0, <2>2 DEF Engine!Engines
  <2> HIDE DEF a
  <2>4. \/ b \in Engine!Engines /\ SameButPort(a, b) /\ Engine!LinesApplied(b)
        \/ Halted(b)
    BY <2>3, AppliedIs
  <2> HIDE DEF b
  <2>5. CASE Halted(b)
    <3>1. /\ b \in Engine!Engines /\ Disciplined(b.sch) /\ ~b.sch.pending
          /\ b.timer = Engine!Stopped
      BY <2>5 DEF Halted, Worker, Rest
    <3>2. f = b
      BY <2>1, <3>1, PendingIs
    <3>3. QED
      BY <2>5, <3>2 DEF Halted
  <2>6. CASE b \in Engine!Engines /\ SameButPort(a, b) /\ Engine!LinesApplied(b)
    <3>1. b.sch = sch /\ b.timer = Engine!Stopped
      BY <2>3, <2>6 DEF SameButPort
    <3>2. /\ f \in Engine!Engines /\ Disciplined(f.sch) /\ ~f.sch.pending
          /\ f.timer = Engine!Stopped
          /\ b.sch.pending => Down(f.port)
          /\ ~b.sch.pending => f = b
      BY <2>1, <2>2, <2>6, <3>1, PendingIs
    <3>3. Down(f.port)
      <4>1. CASE b.sch.pending
        BY <3>2, <4>1
      <4>2. CASE ~b.sch.pending
        BY <2>2, <2>6, <3>1, <3>2, <4>2, LinesAppliedDown
      <4>3. QED
        BY <4>1, <4>2
    <3>4. QED
      BY <3>2, <3>3 DEF Worker, Rest
  <2>7. QED
    BY <2>4, <2>5, <2>6
<1>4. QED
  BY <1>0, <1>1, <1>2, <1>3

LEMMA EmergencyReleaseIs ==
  ASSUME NEW e, Worker(e), NEW now \in Engine!Scheduler!Time, NEW device,
         NEW f, f = Engine!EmergencyRelease(e, now, device)
  PROVE  Worker(f) /\ Rest(f)
<1> DEFINE a == Engine!NotTuning(e)
           b == [a EXCEPT !.sch = Engine!Scheduler!EmergencyRelease(a.sch)]
           c == Engine!ApplyDesiredLines(b, now, device)
           sch == Engine!Scheduler!Advance(c.sch, now)
           d == [c EXCEPT !.sch = sch]
           g == Engine!ApplyDesiredLines(d, now, device)
           h == Engine!ReleaseEngine(g, device)
<1>1. /\ a \in Engine!Engines /\ a.timer = Engine!Stopped /\ a.sch = e.sch
  BY NotTuningIs DEF Worker
<1>2. f = [h EXCEPT !.fault = TRUE]
  <2>1. b = [Engine!NotTuning(e) EXCEPT !.sch = Engine!Scheduler!EmergencyRelease(@)]
    <3>1. a = Engine!NotTuning(e)
      OBVIOUS
    <3> HIDE DEF a
    <3>2. QED
      BY <3>1
  <2>2. QED
    BY <2>1 DEF Engine!EmergencyRelease
<1> HIDE DEF a
<1>3. /\ b \in Engine!Engines /\ b.timer = Engine!Stopped /\ Disciplined(b.sch)
      /\ b.sch.state = "Emergency"
  <2>1. /\ Engine!Scheduler!EmergencyRelease(a.sch) \in Engine!Scheduler!Schedulers
        /\ Disciplined(Engine!Scheduler!EmergencyRelease(a.sch))
        /\ Engine!Scheduler!EmergencyRelease(a.sch).state = "Emergency"
    BY <1>1, EngineHas, EmergencyScheduleIs
  <2>2. /\ b \in Engine!Engines /\ b.sch = Engine!Scheduler!EmergencyRelease(a.sch)
        /\ SameButSchedule(a, b)
    BY <1>1, <2>1, ScheduleSet
  <2> HIDE DEF b
  <2>3. QED
    BY <1>1, <2>1, <2>2 DEF SameButSchedule
<1> HIDE DEF b
<1>4. \/ c \in Engine!Engines /\ SameButPort(b, c) /\ Engine!LinesApplied(c)
      \/ Halted(c)
  BY <1>3, AppliedIs
<1>5. /\ c \in Engine!Engines /\ c.timer = Engine!Stopped /\ Disciplined(c.sch)
      /\ c.sch.state # "Running"
  BY <1>3, <1>4 DEF SameButPort, Halted, Worker, Rest, Engine!Busy, Engine!Running
<1> HIDE DEF c
<1>6. sch \in Engine!Scheduler!Schedulers /\ Disciplined(sch) /\ ~sch.pending
  BY <1>5, EngineHas, AdvanceIs
<1> HIDE DEF sch
<1>7. d \in Engine!Engines /\ d.timer = Engine!Stopped /\ d.sch = sch
  <2>1. d \in Engine!Engines /\ d.sch = sch /\ SameButSchedule(c, d)
    BY <1>5, <1>6, ScheduleSet
  <2>2. QED
    BY <1>5, <2>1 DEF SameButSchedule
<1> HIDE DEF d
<1>8. \/ g \in Engine!Engines /\ SameButPort(d, g) /\ Engine!LinesApplied(g)
      \/ Halted(g)
  BY <1>7, AppliedIs
<1>9. /\ g \in Engine!Engines /\ g.timer = Engine!Stopped /\ Disciplined(g.sch)
      /\ ~g.sch.pending
  BY <1>6, <1>7, <1>8 DEF SameButPort, Halted, Worker, Rest
<1> HIDE DEF g
<1>10. h \in Engine!Engines /\ Down(h.port) /\ SameButPort(g, h)
  BY <1>9, ReleaseEngineIs
<1> HIDE DEF h
<1>11. f \in Engine!Engines /\ f.port = h.port /\ f.sch = h.sch /\ f.timer = h.timer
  BY <1>2, <1>10 DEF Engine!Engines
<1>12. QED
  BY <1>9, <1>10, <1>11 DEF Worker, Rest, SameButPort
-----------------------------------------------------------------------------
(* The calls that begin an output, the timer and the device.               *)

(* The worker makes an output, and neither it nor its port has a fault.    *)
Sound(e) == ~e.fault /\ ~e.port.fault
MakesMessage(e, plan) ==
  Engine!Running(e) /\ ~e.tuning /\ e.sch.plan = plan /\ Sound(e)
MakesTune(e) == e.tuning /\ ~Engine!Running(e) /\ Sound(e)

LEMMA IdleRests ==
  ASSUME NEW e, Worker(e), ~Engine!Busy(e)
  PROVE  Rest(e)
  BY DEF Worker, Rest

(* A schedule that can be timed, with its lines as it wants them. *)
LEMMA TimedIs ==
  ASSUME NEW e \in Engine!Engines, Disciplined(e.sch), ~e.sch.pending,
         Engine!Busy(e) \/ Down(e.port),
         NEW now \in Engine!Scheduler!Time, NEW f, f = Engine!ScheduleTimer(e, now)
  PROVE  Worker(f) /\ SameButTimer(e, f)
<1>1. /\ f \in Engine!Engines /\ SameButTimer(e, f)
      /\ f.timer # Engine!Stopped <=> Engine!Busy(e)
  BY ScheduleTimerIs
<1>2. Engine!Busy(f) = Engine!Busy(e)
  BY <1>1 DEF Engine!Busy, Engine!Running, SameButTimer
<1>3. QED
  BY <1>1, <1>2 DEF Worker, SameButTimer

LEMMA ResetIs ==
  ASSUME NEW sch \in Engine!Scheduler!Schedulers, Disciplined(sch), ~sch.pending, NEW t,
         t = Engine!Scheduler!Reset(sch)
  PROVE  t \in Engine!Scheduler!Schedulers /\ Disciplined(t) /\ ~t.pending
<1>1. CASE ~Engine!Scheduler!Resettable(sch)
  BY <1>1 DEF Engine!Scheduler!Reset
<1>2. CASE Engine!Scheduler!Resettable(sch)
  <2>1. t = Engine!Scheduler!NewScheduler(sch.config)
    BY <1>2 DEF Engine!Scheduler!Reset
  <2>2. /\ "Idle" \in Engine!Scheduler!States /\ "None" \in Engine!Scheduler!Phases
        /\ 0 \in Engine!Scheduler!Time
    BY TimeIs DEF Engine!Scheduler!States, Engine!Scheduler!Phases
  <2>3. Engine!Scheduler!NoPlan \in Engine!Scheduler!Plans
    <3>1. <<>> \in Seq(Engine!Scheduler!Spans)
      OBVIOUS
    <3>2. QED
      BY <3>1 DEF Engine!Scheduler!NoPlan, Engine!Scheduler!Plans
  <2>4. t \in Engine!Scheduler!Schedulers
    BY <2>1, <2>2, <2>3, SchedulerHas
       DEF Engine!Scheduler!NewScheduler, Engine!Scheduler!Schedulers
  <2>5. t.state = "Idle" /\ ~t.pending /\ ~t.ptt /\ ~t.key
    BY <2>1 DEF Engine!Scheduler!NewScheduler
  <2>6. QED
    BY <2>4, <2>5 DEF Disciplined
<1>3. QED
  BY <1>1, <1>2

LEMMA AppliedSound ==
  ASSUME NEW e, Engine!LinesApplied(e)
  PROVE  ~e.port.fault
  BY DEF Engine!LinesApplied, Engine!Adapter!FaultOrUnknown

LEMMA KeyStartedIs ==
  ASSUME NEW e \in Engine!Engines, Disciplined(e.sch), ~e.tuning, ~e.fault,
         NEW now \in Engine!Scheduler!Time, NEW device, NEW f, f = Engine!KeyStarted(e,
         now, device)
  PROVE  /\ Worker(f) /\ f.configured = e.configured
         /\ Rest(f) \/ (Engine!Running(e) /\ MakesMessage(f, e.sch.plan))
<1>1. CASE ~Engine!Running(e)
  <2>1. f = Engine!FaultEngine(e, now, device)
    BY <1>1 DEF Engine!KeyStarted
  <2>2. QED
    BY <2>1, FaultEngineIs, HaltedWorker
<1>2. CASE Engine!Running(e)
  <2> DEFINE a == Engine!ApplyDesiredLines(e, now, device)
  <2>1. f = Engine!TimedIfRunning(a, now)
    BY <1>2 DEF Engine!KeyStarted
  <2>2. \/ a \in Engine!Engines /\ SameButPort(e, a) /\ Engine!LinesApplied(a)
        \/ Halted(a) /\ a.configured = e.configured
    BY AppliedIs
  <2> HIDE DEF a
  <2>3. CASE Halted(a) /\ a.configured = e.configured
    <3>1. f = a
      BY <2>1, <2>3 DEF Engine!TimedIfRunning, Halted, Engine!Busy
    <3>2. QED
      BY <2>3, <3>1, HaltedWorker
  <2>4. CASE a \in Engine!Engines /\ SameButPort(e, a) /\ Engine!LinesApplied(a)
    <3>1. /\ Engine!Running(a) /\ Engine!Busy(a) /\ Disciplined(a.sch) /\ ~a.sch.pending
          /\ ~a.tuning /\ ~a.fault /\ a.configured = e.configured /\ a.sch = e.sch
      BY <1>2, <2>4 DEF SameButPort, Engine!Running, Engine!Busy, Disciplined
    <3>2. f = Engine!ScheduleTimer(a, now)
      BY <2>1, <3>1 DEF Engine!TimedIfRunning
    <3>3. Worker(f) /\ SameButTimer(a, f)
      BY <2>4, <3>1, <3>2, TimedIs
    <3>4. ~a.port.fault
      BY <2>4, AppliedSound
    <3>5. QED
      BY <1>2, <3>1, <3>3, <3>4 DEF SameButTimer, MakesMessage, Sound, Engine!Running
  <2>5. QED
    BY <2>2, <2>3, <2>4
<1>3. QED
  BY <1>1, <1>2

LEMMA StartPlanIs ==
  ASSUME NEW e, Worker(e), ~Engine!Busy(e), NEW plan \in Engine!Scheduler!Plans,
         NEW now \in Engine!Scheduler!Time, NEW device,
         NEW f, f = Engine!StartPlan(e, plan, now, device)
  PROVE  /\ Worker(f) /\ f.configured = e.configured
         /\ Rest(f) \/ MakesMessage(f, plan)
<1>1. CASE e.fault
  <2>1. f = e
    BY <1>1 DEF Engine!StartPlan
  <2>2. QED
    BY <2>1, IdleRests
<1>2. CASE ~e.fault
  <2> DEFINE sch == Engine!Scheduler!Start(e.sch, plan, now)
             a == [e EXCEPT !.sch = sch]
  <2>1. /\ sch \in Engine!Scheduler!Schedulers /\ Disciplined(sch)
        /\ sch.state = "Running" => sch.plan = plan
    BY EngineHas, StartIs DEF Worker
  <2>2. f = Engine!KeyStarted(a, now, device)
    BY <1>2 DEF Engine!StartPlan
  <2> HIDE DEF sch
  <2>3. a \in Engine!Engines /\ a.sch = sch /\ SameButSchedule(e, a)
    BY <2>1, ScheduleSet DEF Worker
  <2> HIDE DEF a
  <2>4. ~a.tuning /\ ~a.fault /\ Disciplined(a.sch) /\ a.configured = e.configured
    BY <1>2, <2>1, <2>3 DEF SameButSchedule, Engine!Busy
  <2>5. /\ Worker(f) /\ f.configured = a.configured
        /\ Rest(f) \/ (Engine!Running(a) /\ MakesMessage(f, a.sch.plan))
    BY <2>2, <2>3, <2>4, KeyStartedIs
  <2>6. QED
    BY <2>1, <2>3, <2>4, <2>5 DEF Engine!Running
<1>3. QED
  BY <1>1, <1>2

(* An idle worker that is started sends the plan it was given, or rests.   *)
LEMMA StartWorkerIs ==
  ASSUME NEW e, Worker(e), ~Engine!Busy(e), NEW plan \in Engine!Scheduler!Plans,
         NEW now \in Engine!Scheduler!Time, NEW device,
         NEW confirmed, confirmed = TRUE, NEW f, f = Engine!Start(e, plan, confirmed, now,
         device)
  PROVE  /\ Worker(f) /\ f.configured = e.configured
         /\ Rest(f) \/ MakesMessage(f, plan)
<1>1. CASE ~Engine!Adapter!KnownInactive(e.port)
  <2>1. f = [e EXCEPT !.fault = TRUE]
    BY <1>1 DEF Engine!Start
  <2>2. /\ f \in Engine!Engines /\ f.sch = e.sch /\ f.port = e.port /\ f.timer = e.timer
        /\ f.configured = e.configured
    BY <2>1 DEF Engine!Engines, Worker
  <2>3. Rest(e)
    BY IdleRests
  <2>4. QED
    BY <2>2, <2>3 DEF Worker, Rest
<1>2. CASE Engine!Adapter!KnownInactive(e.port) /\ e.sch.state # "Idle" /\ ~Engine!Scheduler!Resettable(e.sch)
  <2>1. f = Engine!FaultEngine(e, now, device)
    BY <1>2 DEF Engine!Start
  <2>2. QED
    BY <2>1, FaultEngineIs, HaltedWorker DEF Worker
<1>3. CASE Engine!Adapter!KnownInactive(e.port) /\ ~(e.sch.state # "Idle" /\ ~Engine!Scheduler!Resettable(e.sch))
  <2> DEFINE sch == Engine!Scheduler!Reset(e.sch)
             a == [e EXCEPT !.sch = sch]
  <2>1. f = Engine!StartPlan(a, plan, now, device)
    BY <1>3 DEF Engine!Start
  <2>2. /\ sch \in Engine!Scheduler!Schedulers /\ Disciplined(sch) /\ ~sch.pending
        /\ sch.state # "Running"
    <3>1. sch \in Engine!Scheduler!Schedulers /\ Disciplined(sch) /\ ~sch.pending
      BY EngineHas, ResetIs DEF Worker
    <3>2. sch.state # "Running"
      <4>1. CASE Engine!Scheduler!Resettable(e.sch)
        BY <4>1 DEF Engine!Scheduler!Reset, Engine!Scheduler!NewScheduler
      <4>2. CASE ~Engine!Scheduler!Resettable(e.sch)
        BY <1>3, <4>2 DEF Engine!Scheduler!Reset
      <4>3. QED
        BY <4>1, <4>2
    <3>3. QED
      BY <3>1, <3>2
  <2> HIDE DEF sch
  <2>3. a \in Engine!Engines /\ a.sch = sch /\ SameButSchedule(e, a)
    BY <2>2, ScheduleSet DEF Worker
  <2> HIDE DEF a
  <2>4. Worker(a) /\ ~Engine!Busy(a) /\ a.configured = e.configured
    <3>1. Rest(e)
      BY IdleRests
    <3>2. QED
      BY <2>2, <2>3, <3>1 DEF Worker, Rest, SameButSchedule, Engine!Busy, Engine!Running
  <2>5. QED
    BY <2>1, <2>4, StartPlanIs
<1>4. QED
  BY <1>1, <1>2, <1>3

LEMMA TuneKeyedIs ==
  ASSUME NEW e \in Engine!Engines, Disciplined(e.sch), ~e.sch.pending, ~Engine!Running(e),
         ~e.fault,
         NEW now \in Engine!Scheduler!Time, now + e.tune \in Engine!Scheduler!Time,
         NEW device,
         NEW f, f = Engine!TuneKeyed(e, now, device)
  PROVE  Worker(f) /\ f.configured = e.configured /\ (Rest(f) \/ MakesTune(f))
<1>1. CASE ~Engine!Adapter!LineIs(e.port, "key", TRUE)
  <2>1. f = Engine!FaultEngine(e, now, device)
    BY <1>1 DEF Engine!TuneKeyed
  <2>2. QED
    BY <2>1, FaultEngineIs, HaltedWorker
<1>2. CASE Engine!Adapter!LineIs(e.port, "key", TRUE)
  <2> DEFINE a == [e EXCEPT !.tuning = TRUE, !.tuneDeadline = now + e.tune]
  <2>1. f = Engine!ScheduleTimer(a, now)
    BY <1>2 DEF Engine!TuneKeyed
  <2>2. a \in Engine!Engines /\ a.tuning = TRUE
    BY DEF Engine!Engines, Engine!Time
  <2>3. a.sch = e.sch /\ a.port = e.port /\ a.fault = e.fault /\ a.configured = e.configured
    BY DEF Engine!Engines
  <2> HIDE DEF a
  <2>4. Worker(f) /\ SameButTimer(a, f)
    BY <2>1, <2>2, <2>3, TimedIs DEF Engine!Busy
  <2>5. ~e.port.fault
    BY <1>2 DEF Engine!Adapter!LineIs, Engine!Adapter!Usable
  <2>6. QED
    BY <2>2, <2>3, <2>4, <2>5 DEF SameButTimer, MakesTune, Sound, Engine!Running
<1>3. QED
  BY <1>1, <1>2

LEMMA RaiseBothType ==
  ASSUME NEW p \in Engine!Adapter!Ports, NEW device
  PROVE  Engine!KeyUnderPtt(Engine!Adapter!SetLine(p, "ptt", TRUE, device), device) \in Engine!Adapter!Ports
<1>1. PICK up \in BOOLEAN : up = TRUE
  OBVIOUS
<1>2. PICK ptt \in Engine!Adapter!Lines : ptt = "ptt"
  BY DEF Engine!Adapter!Lines
<1>3. PICK key \in Engine!Adapter!Lines : key = "key"
  BY DEF Engine!Adapter!Lines
<1> DEFINE q == Engine!Adapter!SetLine(p, ptt, up, device)
<1>4. q \in Engine!Adapter!Ports
  BY SetLineType
<1>5. Engine!Adapter!SetLine(q, key, up, device) \in Engine!Adapter!Ports
  BY <1>4, SetLineType
<1>6. QED
  BY <1>1, <1>2, <1>3, <1>4, <1>5 DEF Engine!KeyUnderPtt

(* TUNE of an idle worker holds both lines under a deadline, or none.      *)
LEMMA StartTuneIs ==
  ASSUME NEW e, Worker(e), ~Engine!Busy(e), NEW now \in Engine!Scheduler!Time, NEW device,
         NEW authorized, authorized = TRUE, NEW f, f = Engine!StartTune(e, authorized, now,
         device)
  PROVE  Worker(f) /\ f.configured = e.configured /\ (Rest(f) \/ MakesTune(f))
<1>0. e \in Engine!Engines /\ e.port \in Engine!Adapter!Ports /\ e.tune \in Nat
  BY EngineHas DEF Worker
<1>1. CASE ~Engine!Adapter!KnownInactive(e.port)
  <2>1. f = e
    BY <1>1 DEF Engine!StartTune
  <2>2. QED
    BY <2>1, IdleRests
<1>2. CASE Engine!Adapter!KnownInactive(e.port) /\ (e.fault \/ now > MaxU64 - e.tune)
  <2>1. f = Engine!FaultEngine(e, now, device)
    BY <1>2 DEF Engine!StartTune
  <2>2. QED
    BY <1>0, <2>1, FaultEngineIs, HaltedWorker
<1>3. CASE Engine!Adapter!KnownInactive(e.port) /\ ~(e.fault \/ now > MaxU64 - e.tune)
  <2> DEFINE p == Engine!KeyUnderPtt(Engine!Adapter!SetLine(e.port, "ptt", TRUE, device), device)
             a == [e EXCEPT !.port = p]
  <2>1. f = Engine!TuneKeyed(a, now, device)
    BY <1>3 DEF Engine!StartTune
  <2>2. p \in Engine!Adapter!Ports
    BY <1>0, RaiseBothType
  <2> HIDE DEF p
  <2>3. a \in Engine!Engines /\ SameButPort(e, a)
    BY <1>0, <2>2, PortSet
  <2> HIDE DEF a
  <2>4. now + a.tune \in Engine!Scheduler!Time
    BY <1>0, <1>3, <2>3, TimeIs, Limits DEF SameButPort
  <2>5. Disciplined(a.sch) /\ ~a.sch.pending /\ ~Engine!Running(a) /\ ~a.fault
        /\ a.configured = e.configured
    BY <1>3, <2>3 DEF Worker, SameButPort, Engine!Busy, Engine!Running
  <2>6. QED
    BY <2>1, <2>3, <2>4, <2>5, TuneKeyedIs
<1>4. QED
  BY <1>1, <1>2, <1>3

LEMMA BackendErrorOfWorker ==
  ASSUME NEW e, Worker(e), NEW device, NEW f, f = Engine!BackendError(e, device)
  PROVE  /\ Worker(f) /\ SameButPort(e, f) /\ Down(f.port)
<1> DEFINE p == Engine!Adapter!BackendError(e.port, device)
<1>1. p \in Engine!Adapter!Ports /\ Down(p)
  BY EngineHas, BackendErrorIs DEF Worker
<1>2. f = [e EXCEPT !.port = p]
  BY DEF Engine!BackendError
<1> HIDE DEF p
<1>3. f \in Engine!Engines /\ f.port = p /\ SameButPort(e, f)
  BY <1>1, <1>2, PortSet DEF Worker
<1>4. QED
  BY <1>1, <1>3 DEF Worker, SameButPort, Engine!Busy, Engine!Running

(* What the timer may do: continue the output, end it, or halt.            *)
Continues(e, f) ==
  /\ Worker(f) /\ f.configured = e.configured /\ f.sch.plan = e.sch.plan
  /\ Engine!Running(f) => Engine!Running(e)
  /\ f.tuning => e.tuning
  /\ Rest(f) \/ Sound(f)

LEMMA HaltContinues ==
  ASSUME NEW e \in Engine!Engines, NEW now \in Engine!Scheduler!Time, NEW device,
         NEW f, f = Engine!FaultEngine(e, now, device)
  PROVE  Continues(e, f)
  BY FaultEngineIs DEF Continues, Halted, Engine!Busy

LEMMA TuneTickIs ==
  ASSUME NEW e \in Engine!Engines, Disciplined(e.sch), ~e.sch.pending, e.tuning, Sound(e),
         NEW now \in Engine!Scheduler!Time, NEW device, NEW f, f = Engine!TuneTick(e, now,
         device)
  PROVE  Continues(e, f)
<1>1. CASE f = Engine!FaultEngine(e, now, device)
  BY <1>1, HaltContinues
<1>2. CASE f = Engine!ScheduleTimer(e, now)
  <2>1. Worker(f) /\ SameButTimer(e, f)
    BY <1>2, TimedIs DEF Engine!Busy
  <2>2. QED
    BY <2>1 DEF Continues, SameButTimer, Engine!Running, Sound
<1>3. QED
  BY <1>1, <1>2 DEF Engine!TuneTick

LEMMA FollowIs ==
  ASSUME NEW e \in Engine!Engines, Disciplined(e.sch), ~e.tuning, Sound(e),
         NEW now \in Engine!Scheduler!Time, NEW device, NEW result,
         result \in {"Faulted", "NoChange", "Transition"},
         result # "Faulted" => ~e.sch.pending,
         result = "NoChange" => Engine!Running(e),
         NEW f, f = Engine!Follow(e, result, now, device)
  PROVE  Continues(e, f)
<1>1. CASE result = "Faulted"
  BY <1>1, HaltContinues DEF Engine!Follow
<1>2. CASE result = "NoChange"
  <2>1. f = Engine!ScheduleTimer(e, now)
    BY <1>2 DEF Engine!Follow
  <2>2. Worker(f) /\ SameButTimer(e, f)
    BY <1>2, <2>1, TimedIs DEF Engine!Busy
  <2>3. QED
    BY <2>2 DEF Continues, SameButTimer, Engine!Running, Sound
<1>3. CASE result = "Transition"
  <2> DEFINE a == Engine!ApplyDesiredLines(e, now, device)
  <2>1. f = Engine!TimedIfApplied(a, now)
    BY <1>3 DEF Engine!Follow
  <2>2. \/ a \in Engine!Engines /\ SameButPort(e, a) /\ Engine!LinesApplied(a)
        \/ Halted(a) /\ a.sch.plan = e.sch.plan /\ a.configured = e.configured
    BY AppliedIs
  <2> HIDE DEF a
  <2>3. CASE a \in Engine!Engines /\ SameButPort(e, a) /\ Engine!LinesApplied(a)
    <3>1. f = Engine!ScheduleTimer(a, now)
      BY <2>1, <2>3 DEF Engine!TimedIfApplied
    <3>2. a.sch = e.sch /\ a.tuning = e.tuning /\ a.fault = e.fault
          /\ a.configured = e.configured
      BY <2>3 DEF SameButPort
    <3>3. Engine!Busy(a) \/ Down(a.port)
      <4>1. CASE Engine!Running(a)
        BY <4>1 DEF Engine!Busy
      <4>2. CASE ~Engine!Running(a)
        <5>1. ~a.sch.ptt /\ ~a.sch.key
          BY <1>3, <3>2, <4>2 DEF Disciplined, Engine!Running
        <5>2. QED
          BY <2>3, <5>1, LinesAppliedDown
      <4>3. QED
        BY <4>1, <4>2
    <3>4. Worker(f) /\ SameButTimer(a, f)
      BY <1>3, <2>3, <3>1, <3>2, <3>3, TimedIs
    <3>5. ~a.port.fault
      BY <2>3, AppliedSound
    <3>6. QED
      BY <3>2, <3>4, <3>5 DEF Continues, SameButTimer, Engine!Running, Sound
  <2>4. CASE Halted(a) /\ a.sch.plan = e.sch.plan /\ a.configured = e.configured
    <3>1. CASE f = a
      BY <2>4, <3>1 DEF Continues, Halted, Engine!Busy
    <3>2. CASE f = Engine!ScheduleTimer(a, now)
      <4>1. Worker(f) /\ SameButTimer(a, f)
        BY <2>4, <3>2, TimedIs DEF Halted, Worker, Rest
      <4>2. f.timer = Engine!Stopped
        BY <2>4, <3>2, ScheduleTimerIs DEF Halted, Worker
      <4>3. QED
        BY <2>4, <4>1, <4>2
           DEF Continues, Halted, Rest, SameButTimer, Engine!Busy, Engine!Running
    <3>3. QED
      BY <2>1, <3>1, <3>2 DEF Engine!TimedIfApplied
  <2>5. QED
    BY <2>2, <2>3, <2>4
<1>4. QED
  BY <1>1, <1>2, <1>3

LEMMA SchedulerTickIs ==
  ASSUME NEW e \in Engine!Engines, Disciplined(e.sch), Engine!Running(e), ~e.tuning,
         Sound(e),
         NEW now \in Engine!Scheduler!Time, NEW device, NEW f, f = Engine!SchedulerTick(e,
         now, device)
  PROVE  Continues(e, f)
<1> DEFINE sch == Engine!Scheduler!Advance(e.sch, now)
           result == Engine!Scheduler!AdvanceResult(e.sch, now)
           a == [e EXCEPT !.sch = sch]
<1>1. f = Engine!Follow(a, result, now, device)
  BY DEF Engine!SchedulerTick
<1>2. /\ sch \in Engine!Scheduler!Schedulers /\ Disciplined(sch) /\ sch.plan = e.sch.plan
      /\ sch.state \in {"Running", "Completed", "Fault"}
      /\ sch.state # "Fault" => ~sch.pending
  BY EngineHas, AdvanceIs DEF Engine!Running
<1>3. result = Engine!Scheduler!ResultOf(e.sch, sch)
  BY DEF Engine!Scheduler!AdvanceResult
<1> HIDE DEF sch, result
<1>4. [e.sch EXCEPT !.last = sch.last].state = "Running"
  BY EngineHas DEF Engine!Scheduler!Schedulers, Engine!Running
<1>5. /\ result \in {"Faulted", "NoChange", "Transition"}
      /\ result # "Faulted" => sch.state # "Fault"
      /\ result = "NoChange" => sch = [e.sch EXCEPT !.last = sch.last]
  BY <1>3, <1>4 DEF Engine!Scheduler!ResultOf, Engine!Running
<1>6. result = "NoChange" => sch.state = "Running"
  BY <1>5, <1>4
<1>7. a \in Engine!Engines /\ a.sch = sch /\ SameButSchedule(e, a)
  BY <1>2, ScheduleSet
<1> HIDE DEF a
<1>8. ~a.tuning /\ Sound(a)
  BY <1>7 DEF SameButSchedule, Sound
<1>9. Continues(a, f)
  BY <1>1, <1>2, <1>5, <1>6, <1>7, <1>8, FollowIs DEF Engine!Running
<1>10. QED
  BY <1>2, <1>7, <1>9 DEF Continues, SameButSchedule, Engine!Running

LEMMA HandleTimerIs ==
  ASSUME NEW e, Worker(e), e.timer # Engine!Stopped, ~e.fault,
         NEW now \in Engine!Scheduler!Time, NEW device,
         NEW f, f = Engine!HandleTimer(e, now, device)
  PROVE  Continues(e, f)
<1> DEFINE a == [e EXCEPT !.timer = Engine!Stopped]
<1>1. a \in Engine!Engines /\ SameButTimer(e, a)
  BY TimerSet DEF Worker
<1>2. f = Engine!TimerExpired(a, now, device)
  BY DEF Engine!HandleTimer
<1> HIDE DEF a
<1>3. /\ Disciplined(a.sch) /\ ~a.sch.pending /\ ~a.fault
      /\ a.tuning \/ Engine!Running(a)
  BY <1>1 DEF Worker, SameButTimer, Engine!Busy, Engine!Running
<1>4. Continues(a, f)
  <2>1. CASE Engine!Adapter!FaultOrUnknown(a.port)
    BY <1>1, <1>2, <2>1, HaltContinues DEF Engine!TimerExpired
  <2>2. CASE ~Engine!Adapter!FaultOrUnknown(a.port) /\ a.tuning
    <3>1. Sound(a)
      BY <1>3, <2>2 DEF Engine!Adapter!FaultOrUnknown, Sound
    <3>2. f = Engine!TuneTick(a, now, device)
      BY <1>2, <2>2 DEF Engine!TimerExpired
    <3>3. QED
      BY <1>1, <1>3, <2>2, <3>1, <3>2, TuneTickIs
  <2>3. CASE ~Engine!Adapter!FaultOrUnknown(a.port) /\ ~a.tuning
    <3>1. Sound(a)
      BY <1>3, <2>3 DEF Engine!Adapter!FaultOrUnknown, Sound
    <3>2. f = Engine!SchedulerTick(a, now, device)
      BY <1>2, <2>3 DEF Engine!TimerExpired
    <3>3. QED
      BY <1>1, <1>3, <2>3, <3>1, <3>2, SchedulerTickIs
  <2>4. QED
    BY <1>1, <2>1, <2>2, <2>3, EngineHas
<1>5. QED
  BY <1>1, <1>4 DEF Continues, SameButTimer, Engine!Running
-----------------------------------------------------------------------------
(* The ports: what a call puts on the wire.                                *)

(* What the port reports is on the wire, and KEY was never put outside PTT *)
(* by a write that could have been another.                                *)
Honest(p) ==
  /\ p \in Engine!Adapter!Ports /\ Engine!Adapter!ReportedMatchesWire(p) /\ ~p.bare
(* No line is up but one that the device refuses to lower.                 *)
Lowered(p, device) ==
  \A line \in Engine!Adapter!Lines : p.wire[line] => Engine!Adapter!Fails(device, line, FALSE)
Shut(p) ==
  ~p.isOpen /\ ~p.openSafe /\ ~p.owned /\ p.known = Engine!Adapter!NoneKnown

(* A port in which only what is believed, and the fault, has changed.      *)
LEMMA BelievesLess ==
  ASSUME NEW p, Honest(p), NEW q \in Engine!Adapter!Ports, q.wire = p.wire, q.bare = p.bare,
         \A line \in Engine!Adapter!Lines : q.known[line] = p.known[line] \/ q.known[line] = "Unknown"
  PROVE  Honest(q) /\ \A device : Lowered(p, device) => Lowered(q, device)
  BY DEF Honest, Engine!Adapter!ReportedMatchesWire, Lowered

LEMMA ShutIs ==
  ASSUME NEW p, Honest(p), NEW q, q = Engine!Adapter!CloseDevice(p)
  PROVE  Honest(q) /\ Shut(q) /\ q.wire = p.wire /\ q.fault = p.fault
<1>1. q = [openSafe |-> FALSE, known |-> Engine!Adapter!NoneKnown, fault |-> p.fault,
           owned |-> FALSE, isOpen |-> FALSE, wire |-> p.wire, bare |-> p.bare]
  BY DEF Engine!Adapter!CloseDevice, Engine!Adapter!MarkClosedUnknown, Engine!Adapter!Ports, Honest
<1>2. q \in Engine!Adapter!Ports
  BY CloseDeviceIs DEF Honest
<1>3. \A line \in Engine!Adapter!Lines : Engine!Adapter!NoneKnown[line] = "Unknown"
  BY DEF Engine!Adapter!NoneKnown
<1>4. QED BY <1>1, <1>2, <1>3, BelievesLess DEF Shut

Broken(p) == [p EXCEPT !.fault = TRUE]

LEMMA FaultKeeps ==
  ASSUME NEW p, Honest(p), NEW q, q = Broken(p)
  PROVE  /\ Honest(q) /\ q.fault = TRUE /\ q.wire = p.wire /\ q.known = p.known /\ q.isOpen = p.isOpen
         /\ q.openSafe = p.openSafe /\ q.owned = p.owned
<1>1. /\ q \in Engine!Adapter!Ports /\ q.wire = p.wire /\ q.bare = p.bare /\ q.known = p.known /\ q.isOpen = p.isOpen
      /\ q.openSafe = p.openSafe /\ q.owned = p.owned /\ q.fault = TRUE
  BY DEF Honest, Engine!Adapter!Ports, Broken
<1>2. QED BY <1>1, BelievesLess

LEMMA LineLostIs ==
  ASSUME NEW p, Honest(p), NEW line \in Engine!Adapter!Lines, NEW q, q = LineLost(p, line)
  PROVE  /\ Honest(q) /\ q.wire = p.wire /\ q.isOpen = p.isOpen /\ q.openSafe = p.openSafe /\ q.owned = p.owned
         /\ q.fault = p.fault /\ q.known[line] = "Unknown"
         /\ \A other \in Engine!Adapter!Lines \ {line} : q.known[other] = p.known[other]
         /\ p.known = Engine!Adapter!NoneKnown => q.known = Engine!Adapter!NoneKnown
<1>1. q = [p EXCEPT !.known = [p.known EXCEPT ![line] = "Unknown"]]
  BY DEF LineLost
<1>2. PICK known : known = [p.known EXCEPT ![line] = "Unknown"]
  OBVIOUS
<1>3. /\ q.wire = p.wire /\ q.isOpen = p.isOpen /\ q.openSafe = p.openSafe /\ q.owned = p.owned
      /\ q.fault = p.fault /\ q.bare = p.bare /\ q.known = known
  BY <1>1, <1>2 DEF Honest, Engine!Adapter!Ports
<1>4. /\ q \in Engine!Adapter!Ports
      /\ \A l \in Engine!Adapter!Lines : q.known[l] = IF l = line THEN "Unknown" ELSE p.known[l]
  BY UnknownIs DEF Honest
<1>5. p.known = Engine!Adapter!NoneKnown => q.known = Engine!Adapter!NoneKnown
  BY <1>2, <1>3 DEF Engine!Adapter!NoneKnown
<1>6. Honest(q)
  BY <1>3, <1>4, BelievesLess
<1>7. QED BY <1>3, <1>4, <1>5, <1>6

(* What a call on one line leaves as it was.                               *)
Status(p, q) == q.isOpen = p.isOpen /\ q.openSafe = p.openSafe /\ q.owned = p.owned
Beside(p, q, line) ==
  \A other \in Engine!Adapter!Lines \ {line} : q.known[other] = p.known[other] /\ q.wire[other] = p.wire[other]
LineBroke(p, q, line) ==
  /\ Honest(q) /\ Status(p, q) /\ q.fault = TRUE /\ Beside(p, q, line)
  /\ q.wire = p.wire /\ (p.known = Engine!Adapter!NoneKnown => q.known = Engine!Adapter!NoneKnown)

LEMMA LineBreaks ==
  ASSUME NEW p, Honest(p), NEW line \in Engine!Adapter!Lines, NEW q, q = LineFault(p, line)
  PROVE  LineBroke(p, q, line)
<1>1. PICK r : r = LineLost(p, line)
  OBVIOUS
<1>2. q = Broken(r)
  <2>1. p = [openSafe |-> p.openSafe, known |-> p.known, fault |-> p.fault,
             owned |-> p.owned, isOpen |-> p.isOpen, wire |-> p.wire, bare |-> p.bare]
    BY PortRecord DEF Honest
  <2>2. QED BY <1>1, <2>1 DEF LineLost, LineFault, Broken
<1>3. /\ Honest(r) /\ r.wire = p.wire /\ r.isOpen = p.isOpen /\ r.openSafe = p.openSafe
      /\ r.owned = p.owned /\ r.known[line] = "Unknown"
      /\ \A other \in Engine!Adapter!Lines \ {line} : r.known[other] = p.known[other]
      /\ p.known = Engine!Adapter!NoneKnown => r.known = Engine!Adapter!NoneKnown
  BY <1>1, LineLostIs
<1>4. /\ Honest(q) /\ q.fault = TRUE /\ q.wire = r.wire /\ q.known = r.known /\ q.isOpen = r.isOpen
      /\ q.openSafe = r.openSafe /\ q.owned = r.owned
  BY ONLY <1>2, <1>3, FaultKeeps
<1>5. QED
  BY ONLY <1>3, <1>4 DEF LineBroke, Status, Beside

(* A write that does not put KEY outside PTT.                              *)
LEMMA WriteIsHonest ==
  ASSUME NEW p, Honest(p), NEW line \in Engine!Adapter!Lines, NEW up \in BOOLEAN, NEW device,
         ~Engine!Adapter!LeavesKeyBare(p, line, up, device),
         NEW q, q = Engine!Adapter!WriteLine(p, line, up, device)
  PROVE  /\ Honest(q) /\ q.isOpen = p.isOpen /\ q.openSafe = p.openSafe /\ q.owned = p.owned
         /\ q.fault = p.fault /\ q.wire[line] = up /\ q.known[line] = IF up THEN "Active" ELSE "Inactive"
         /\ \A other \in Engine!Adapter!Lines \ {line} :
              q.known[other] = p.known[other] /\ q.wire[other] = p.wire[other]
<1>1. PICK state : state = IF up THEN "Active" ELSE "Inactive"
  OBVIOUS
<1>2. PICK known : known = [p.known EXCEPT ![line] = state]
  OBVIOUS
<1>3. PICK wire : wire = [p.wire EXCEPT ![line] = up]
  OBVIOUS
<1>4. /\ q.openSafe = p.openSafe /\ q.owned = p.owned /\ q.isOpen = p.isOpen /\ q.fault = p.fault
      /\ q.known = known /\ q.wire = wire
  <2>1. p = [openSafe |-> p.openSafe, known |-> p.known, fault |-> p.fault,
             owned |-> p.owned, isOpen |-> p.isOpen, wire |-> p.wire, bare |-> p.bare]
    BY PortRecord DEF Honest
  <2>2. QED BY <1>1, <1>2, <1>3, <2>1 DEF Engine!Adapter!WriteLine
<1>5. ~q.bare
  BY DEF Engine!Adapter!WriteLine, Honest, Engine!Adapter!Ports
<1>6. q \in Engine!Adapter!Ports
  BY WriteLineIs DEF Honest
<1>7. p.known \in [Engine!Adapter!Lines -> Engine!Adapter!LineStates] /\ p.wire \in [Engine!Adapter!Lines -> BOOLEAN]
  BY KnownOf DEF Honest, Engine!Adapter!Levels
<1>8. /\ q.wire[line] = up /\ q.known[line] = state
      /\ \A other \in Engine!Adapter!Lines \ {line} :
            q.known[other] = p.known[other] /\ q.wire[other] = p.wire[other]
  BY <1>2, <1>3, <1>4, <1>7
<1>9. Engine!Adapter!ReportedMatchesWire(q)
  BY <1>1, <1>8 DEF Engine!Adapter!ReportedMatchesWire, Honest
<1>10. QED BY <1>1, <1>4, <1>5, <1>6, <1>8, <1>9 DEF Honest

(* KEY is out of the way of a line that is to be lowered.                  *)
Clear(p, line, device) ==
  Honest(p) /\ (line = "ptt" => (p.wire["key"] => Engine!Adapter!Fails(device, "key", FALSE)))
Wrote(p, q, line, up) ==
  /\ Honest(q) /\ Status(p, q) /\ q.fault = p.fault /\ Beside(p, q, line)
  /\ q.wire[line] = up /\ q.known[line] = IF up THEN "Active" ELSE "Inactive"
LEMMA WriteIs ==
  ASSUME NEW p, Honest(p), NEW line \in Engine!Adapter!Lines, NEW up \in BOOLEAN, NEW device,
         ~Engine!Adapter!LeavesKeyBare(p, line, up, device),
         NEW q, q = Engine!Adapter!WriteLine(p, line, up, device)
  PROVE  Wrote(p, q, line, up)
  BY WriteIsHonest DEF Wrote, Status, Beside

LEMMA LowerIs ==
  ASSUME NEW p, NEW line \in Engine!Adapter!Lines, NEW device, Clear(p, line, device),
         NEW q, q = Engine!Adapter!WriteLine(p, line, FALSE, device)
  PROVE  Wrote(p, q, line, FALSE)
<1>1. PICK down \in BOOLEAN : down = FALSE
  OBVIOUS
<1>2. ~Engine!Adapter!LeavesKeyBare(p, line, down, device) /\ Honest(p)
  BY <1>1 DEF Engine!Adapter!LeavesKeyBare, Clear
<1>3. q = Engine!Adapter!WriteLine(p, line, down, device)
  BY <1>1
<1>4. Wrote(p, q, line, down)
  BY <1>2, <1>3, WriteIs
<1>5. QED
  BY <1>1, <1>4

LEMMA InactiveIsDown ==
  ASSUME NEW p, Honest(p), NEW line \in Engine!Adapter!Lines, p.known[line] = "Inactive"
  PROVE  ~p.wire[line]
  BY DEF Honest, Engine!Adapter!ReportedMatchesWire

(* One half of a release.                                                  *)
LineLowered(p, q, line, device) ==
  /\ Honest(q) /\ (q.wire[line] => Engine!Adapter!Fails(device, line, FALSE))
  /\ \A other \in Engine!Adapter!Lines \ {line} : q.wire[other] = p.wire[other]

LEMMA QuietLineIs ==
  ASSUME NEW p, NEW line \in Engine!Adapter!Lines, NEW device, Clear(p, line, device),
         NEW q, q = Engine!Adapter!ReleaseLineQuietly(p, line, device)
  PROVE  LineLowered(p, q, line, device)
<1>0. Honest(p)
  BY DEF Clear
<1>1. CASE p.known[line] = "Inactive"
  <2>1. q = p
    BY <1>1 DEF Engine!Adapter!ReleaseLineQuietly
  <2>2. ~p.wire[line]
    BY <1>0, <1>1, InactiveIsDown
  <2>3. QED
    BY <1>0, <2>1, <2>2 DEF LineLowered
<1>2. CASE p.known[line] # "Inactive" /\ Engine!Adapter!Fails(device, line, FALSE)
  <2>1. q = LineFault(p, line)
    BY <1>2 DEF Engine!Adapter!ReleaseLineQuietly, LineFault
  <2>2. LineBroke(p, q, line)
    BY <1>0, <2>1, LineBreaks
  <2>3. QED
    BY <1>2, <2>2 DEF LineBroke, LineLowered
<1>3. CASE p.known[line] # "Inactive" /\ ~Engine!Adapter!Fails(device, line, FALSE)
  <2>1. q = Engine!Adapter!WriteLine(p, line, FALSE, device)
    BY <1>3 DEF Engine!Adapter!ReleaseLineQuietly
  <2>2. Wrote(p, q, line, FALSE)
    BY <2>1, LowerIs
  <2>3. QED
    BY <2>2 DEF Wrote, Beside, LineLowered
<1>4. QED
  BY <1>1, <1>2, <1>3

LEMMA KeyThenPtt ==
  /\ Engine!Adapter!Lines = {"ptt", "key"} /\ "key" \in Engine!Adapter!Lines /\ "ptt" \in Engine!Adapter!Lines
  /\ \A p, device : Honest(p) => Clear(p, "key", device)
  /\ \A p, device : Honest(p) /\ (p.wire["key"] => Engine!Adapter!Fails(device, "key", FALSE)) => Clear(p, "ptt", device)
  BY DEF Engine!Adapter!Lines, Clear

LEMMA QuietIs ==
  ASSUME NEW p, Honest(p), NEW device, NEW q, q = Engine!Adapter!ReleaseQuietly(p, device)
  PROVE  Honest(q) /\ Lowered(q, device)
<1>1. PICK r : r = Engine!Adapter!ReleaseLineQuietly(p, "key", device)
  OBVIOUS
<1>2. LineLowered(p, r, "key", device)
  BY <1>1, KeyThenPtt, QuietLineIs
<1>3. q = Engine!Adapter!ReleaseLineQuietly(r, "ptt", device)
  BY <1>1 DEF Engine!Adapter!ReleaseQuietly
<1>4. Clear(r, "ptt", device)
  BY <1>2, KeyThenPtt DEF LineLowered
<1>5. LineLowered(r, q, "ptt", device)
  BY <1>3, <1>4, KeyThenPtt, QuietLineIs
<1>6. QED
  BY <1>2, <1>5 DEF Lowered, LineLowered, Engine!Adapter!Lines

LEMMA FaultClosed ==
  ASSUME NEW p, Honest(p), NEW release \in BOOLEAN, NEW device,
         NEW q, q = Engine!Adapter!FaultAndClose(p, release, device)
  PROVE  /\ Honest(q) /\ Shut(q) /\ q.fault = TRUE
         /\ (release /\ p.isOpen) \/ Lowered(p, device) => Lowered(q, device)
<1>1. PICK released : released = IF release /\ p.isOpen THEN Engine!Adapter!ReleaseQuietly(p, device) ELSE p
  OBVIOUS
<1>2. PICK closed : closed = Engine!Adapter!CloseDevice(released)
  OBVIOUS
<1>3. q = Broken(closed)
  BY <1>1, <1>2 DEF Engine!Adapter!FaultAndClose, Broken
<1>4. /\ Honest(released)
      /\ (release /\ p.isOpen) \/ Lowered(p, device) => Lowered(released, device)
  BY <1>1, QuietIs
<1>5. Honest(closed) /\ Shut(closed) /\ closed.wire = released.wire
  BY <1>2, <1>4, ShutIs
<1>6. /\ Honest(q) /\ q.fault = TRUE /\ q.wire = closed.wire /\ q.known = closed.known
      /\ q.isOpen = closed.isOpen /\ q.openSafe = closed.openSafe /\ q.owned = closed.owned
  BY <1>3, <1>5, FaultKeeps
<1>7. Lowered(released, device) => Lowered(q, device)
  BY <1>5, <1>6 DEF Lowered
<1>8. Shut(q)
  BY <1>5, <1>6 DEF Shut
<1>9. QED
  BY <1>4, <1>6, <1>7, <1>8

LEMMA FaultReleased ==
  ASSUME NEW p, Honest(p), p.isOpen, NEW device, NEW q, q = Engine!Adapter!FaultAndClose(p, TRUE, device)
  PROVE  Honest(q) /\ Shut(q) /\ q.fault = TRUE /\ Lowered(q, device)
<1>1. PICK yes \in BOOLEAN : yes = TRUE
  OBVIOUS
<1>2. QED
  BY <1>1, FaultClosed

(* A port that may be in the middle of open().                             *)
Openable(p) == Honest(p) /\ p.owned = p.isOpen /\ (~p.isOpen => Shut(p))
Told(p, q, line, device) ==
  /\ q.openSafe = p.openSafe /\ Beside(p, q, line)
  /\ q.wire[line] => Engine!Adapter!Fails(device, line, FALSE)
  /\ p.fault => q.fault
  /\ q.known[line] = "Inactive" \/ q.fault
LineReleased(p, q, line, device) ==
  /\ Openable(q)
  /\ ~p.isOpen => ~q.isOpen /\ q.wire = p.wire
  /\ p.isOpen /\ ~q.isOpen => Lowered(q, device)
  /\ q.isOpen => Told(p, q, line, device)

LEMMA ReleaseLineKeeps ==
  ASSUME NEW p, NEW line \in Engine!Adapter!Lines, NEW device, Openable(p), Clear(p, line, device),
         NEW q, q = Engine!Adapter!ReleaseLine(p, line, device)
  PROVE  LineReleased(p, q, line, device)
<1>0. Honest(p)
  BY DEF Openable
<1>1. CASE p.known[line] = "Inactive"
  <2>1. q = p
    BY <1>1 DEF Engine!Adapter!ReleaseLine
  <2>2. ~p.wire[line]
    BY <1>0, <1>1, InactiveIsDown
  <2>3. QED
    BY <1>1, <2>1, <2>2 DEF LineReleased, Told, Beside
<1>2. CASE p.known[line] # "Inactive" /\ p.isOpen /\ ~Engine!Adapter!Fails(device, line, FALSE)
  <2>1. q = Engine!Adapter!WriteLine(p, line, FALSE, device)
    BY <1>2 DEF Engine!Adapter!ReleaseLine
  <2>2. Wrote(p, q, line, FALSE)
    BY <2>1, LowerIs
  <2>3. Openable(q) /\ q.isOpen = p.isOpen
    BY <1>2, <2>2 DEF Openable, Wrote, Status
  <2>4. Told(p, q, line, device)
    BY <2>2 DEF Told, Wrote, Status
  <2>5. QED
    BY <1>2, <2>3, <2>4 DEF LineReleased
<1>3. CASE p.known[line] # "Inactive" /\ (~p.isOpen \/ Engine!Adapter!Fails(device, line, FALSE))
  <2>1. PICK f : f = IF p.isOpen /\ device.signals THEN Engine!Adapter!FaultAndClose(p, TRUE, device) ELSE p
    OBVIOUS
  <2>2. q = LineFault(f, line)
    BY <1>3, <2>1 DEF Engine!Adapter!ReleaseLine, LineFault
  <2>3. CASE p.isOpen /\ device.signals
    <3>1. Honest(f) /\ Shut(f) /\ Lowered(f, device)
      BY <1>0, <2>1, <2>3, FaultReleased
    <3>2. LineBroke(f, q, line)
      BY <2>2, <3>1, LineBreaks
    <3>3. Shut(q) /\ Lowered(q, device) /\ Honest(q)
      BY <3>1, <3>2 DEF Shut, Lowered, LineBroke, Status
    <3>4. q.owned = q.isOpen
      BY <3>3, KnownOf DEF Shut, Honest
    <3>5. QED
      BY <2>3, <3>3, <3>4 DEF Openable, Shut, LineReleased
  <2>4. CASE ~(p.isOpen /\ device.signals)
    <3>1. LineBroke(p, q, line)
      BY <1>0, <2>1, <2>2, <2>4, LineBreaks
    <3>2. ~p.isOpen => Shut(q)
      BY <3>1 DEF Shut, Openable, LineBroke, Status
    <3>3. Openable(q) /\ q.isOpen = p.isOpen /\ q.wire = p.wire
      BY <3>1, <3>2 DEF Openable, LineBroke, Status
    <3>4. p.isOpen => Told(p, q, line, device)
      BY <1>3, <3>1 DEF Told, LineBroke, Status
    <3>5. QED
      BY <3>3, <3>4 DEF LineReleased
  <2>5. QED
    BY <2>3, <2>4
<1>4. QED
  BY <1>1, <1>2, <1>3

(* The release of an open port: what is still up cannot be lowered, and    *)
(* the port says so.                                                       *)
AllReleased(p, q, device) ==
  /\ Openable(q) /\ Lowered(q, device)
  /\ q.isOpen => /\ q.openSafe = p.openSafe
                 /\ q.fault \/ \A line \in Engine!Adapter!Lines : q.known[line] = "Inactive"

LEMMA ReleaseOpen ==
  ASSUME NEW p, Openable(p), p.isOpen, NEW device, NEW q, q = Engine!Adapter!ReleaseAll(p, device)
  PROVE  AllReleased(p, q, device)
<1>1. PICK r : r = Engine!Adapter!ReleaseLine(p, "key", device)
  OBVIOUS
<1>2. q = Engine!Adapter!ReleaseLine(r, "ptt", device)
  BY <1>1 DEF Engine!Adapter!ReleaseAll
<1>3. LineReleased(p, r, "key", device)
  BY <1>1, KeyThenPtt, ReleaseLineKeeps DEF Openable
<1>4. (r.wire["key"] => Engine!Adapter!Fails(device, "key", FALSE)) /\ Openable(r)
  BY <1>3 DEF LineReleased, Told, Lowered, Engine!Adapter!Lines
<1>5. Clear(r, "ptt", device)
  BY <1>4, KeyThenPtt DEF Openable
<1>6. LineReleased(r, q, "ptt", device)
  BY <1>2, <1>4, <1>5, KeyThenPtt, ReleaseLineKeeps
<1>7. Lowered(q, device)
  <2>1. CASE ~r.isOpen
    BY <1>3, <1>6, <2>1 DEF Lowered, LineReleased
  <2>2. CASE r.isOpen /\ ~q.isOpen
    BY <1>6, <2>2 DEF LineReleased
  <2>3. CASE r.isOpen /\ q.isOpen
    <3>1. q.wire["ptt"] => Engine!Adapter!Fails(device, "ptt", FALSE)
      BY <1>6, <2>3 DEF LineReleased, Told
    <3>2. q.wire["key"] = r.wire["key"]
      BY <1>6, <2>3, KeyThenPtt DEF LineReleased, Told, Beside
    <3>3. QED
      BY <1>4, <3>1, <3>2, KeyThenPtt DEF Lowered
  <2>4. QED
    BY <2>1, <2>2, <2>3
<1>8. ASSUME q.isOpen
      PROVE  q.openSafe = p.openSafe /\ (q.fault \/ \A line \in Engine!Adapter!Lines : q.known[line] = "Inactive")
  <2>1. r.isOpen /\ Told(r, q, "ptt", device)
    BY <1>6, <1>8 DEF LineReleased
  <2>2. Told(p, r, "key", device)
    BY <1>3, <2>1 DEF LineReleased
  <2>3. q.known["key"] = r.known["key"]
    BY <2>1, KeyThenPtt DEF Told, Beside
  <2>4. QED
    BY <2>1, <2>2, <2>3, KeyThenPtt DEF Told
<1>9. QED
  BY <1>6, <1>7, <1>8 DEF LineReleased, AllReleased

(* Between calls.  With o, a port that was open before the call is open    *)
(* still (Cared), or its lines have been seen to (PutDown).                    *)
Sane(p) == Honest(p) /\ Engine!Adapter!PortConsistent(p)
Cared(o, p, device) == Sane(p) /\ (o => p.isOpen \/ Lowered(p, device))
PutDown(o, p, device) == Sane(p) /\ (o => Lowered(p, device))

LEMMA SaneIsOpenable ==
  ASSUME NEW p, Sane(p)
  PROVE  Openable(p) /\ Honest(p) /\ (p.isOpen => p.openSafe)
<1>1. Honest(p) /\ p.owned = p.isOpen /\ p.openSafe = p.isOpen /\ (~p.isOpen => p.known = Engine!Adapter!NoneKnown)
  BY DEF Sane, Engine!Adapter!PortConsistent
<1>2. QED
  BY <1>1 DEF Openable, Shut

LEMMA ShutIsSane ==
  ASSUME NEW p, Honest(p), Shut(p)
  PROVE  Sane(p)
<1>1. p.isOpen \in BOOLEAN /\ p.openSafe \in BOOLEAN /\ p.owned \in BOOLEAN
  BY KnownOf DEF Honest
<1>2. QED
  BY <1>1 DEF Shut, Sane, Engine!Adapter!PortConsistent

LEMMA OpenIsSane ==
  ASSUME NEW p, Openable(p), p.isOpen, p.openSafe,
         p.fault \/ \A line \in Engine!Adapter!Lines : p.known[line] # "Unknown"
  PROVE  Sane(p)
<1>1. p.isOpen \in BOOLEAN /\ p.openSafe \in BOOLEAN /\ Honest(p)
  BY KnownOf DEF Honest, Openable
<1>2. QED
  BY <1>1 DEF Openable, Sane, Engine!Adapter!PortConsistent

LEMMA ReleaseAllPut ==
  ASSUME NEW o, NEW p, NEW device, Cared(o, p, device), NEW q, q = Engine!Adapter!ReleaseAll(p, device)
  PROVE  PutDown(o, q, device)
<1>1. Openable(p) /\ Honest(p) /\ (p.isOpen => p.openSafe)
  BY SaneIsOpenable DEF Cared
<1>2. CASE p.isOpen
  <2>1. AllReleased(p, q, device)
    BY <1>1, <1>2, ReleaseOpen
  <2>2. CASE q.isOpen
    <3>1. /\ Openable(q) /\ q.openSafe
          /\ q.fault \/ \A line \in Engine!Adapter!Lines : q.known[line] # "Unknown"
      BY <1>1, <1>2, <2>1, <2>2 DEF AllReleased
    <3>2. QED
      BY <2>1, <2>2, <3>1, OpenIsSane DEF PutDown, AllReleased
  <2>3. CASE ~q.isOpen
    BY <2>1, <2>3, ShutIsSane DEF PutDown, Openable, AllReleased
  <2>4. QED
    BY <2>2, <2>3
<1>3. CASE ~p.isOpen
  <2>1. Shut(p)
    BY <1>1, <1>3 DEF Openable
  <2>2. q = [openSafe |-> FALSE, known |-> Engine!Adapter!NoneKnown, fault |-> p.fault,
             owned |-> p.owned, isOpen |-> p.isOpen, wire |-> p.wire, bare |-> p.bare]
    BY <1>1, <1>3 DEF Engine!Adapter!ReleaseAll, Engine!Adapter!MarkClosedUnknown, Engine!Adapter!Ports, Honest
  <2>3. p.openSafe = FALSE /\ p.known = Engine!Adapter!NoneKnown
    BY <1>1, <2>1, KnownOf DEF Shut, Honest
  <2>4. p = [openSafe |-> p.openSafe, known |-> p.known, fault |-> p.fault,
             owned |-> p.owned, isOpen |-> p.isOpen, wire |-> p.wire, bare |-> p.bare]
    BY <1>1, PortRecord DEF Honest
  <2>5. q = p
    BY <2>2, <2>3, <2>4
  <2>6. QED
    BY <1>3, <2>5 DEF Cared, PutDown
<1>4. QED
  BY <1>2, <1>3

LEMMA ClosePut ==
  ASSUME NEW o, NEW p, NEW device, Cared(o, p, device), NEW q, q = Engine!Adapter!Close(p, device)
  PROVE  PutDown(o, q, device) /\ Shut(q) /\ Honest(q)
<1>1. PICK r : r = IF p.isOpen THEN Engine!Adapter!ReleaseAll(p, device) ELSE p
  OBVIOUS
<1>2. q = Engine!Adapter!CloseDevice(r)
  BY <1>1 DEF Engine!Adapter!Close
<1>3. PutDown(o, r, device)
  <2>1. CASE p.isOpen
    BY <1>1, <2>1, ReleaseAllPut
  <2>2. CASE ~p.isOpen
    BY <1>1, <2>2 DEF Cared, PutDown
  <2>3. QED
    BY <2>1, <2>2
<1>4. Honest(q) /\ Shut(q) /\ q.wire = r.wire
  BY <1>2, <1>3, ShutIs DEF PutDown, Sane
<1>5. QED
  BY <1>3, <1>4, ShutIsSane DEF PutDown, Lowered

LEMMA PutIsCared ==
  ASSUME NEW o, NEW p, NEW device, PutDown(o, p, device)
  PROVE  Cared(o, p, device) /\ Sane(p)
  BY DEF PutDown, Cared

(* A write that keeps KEY inside PTT as the port knows them.               *)
Ordered(p, line, up) ==
  /\ line = "key" /\ up => p.known["ptt"] = "Active"
  /\ line = "ptt" /\ ~up => p.known["key"] # "Active"

LEMMA SetLineCared ==
  ASSUME NEW o, NEW p, NEW device, Cared(o, p, device), NEW line \in Engine!Adapter!Lines, NEW up \in BOOLEAN,
         Ordered(p, line, up), NEW q, q = Engine!Adapter!SetLine(p, line, up, device)
  PROVE  Cared(o, q, device)
<1>1. Honest(p) /\ Engine!Adapter!PortConsistent(p) /\ Openable(p)
  BY SaneIsOpenable DEF Cared, Sane
<1>2. PICK state : state = IF up THEN "Active" ELSE "Inactive"
  OBVIOUS
<1>3. CASE ~Engine!Adapter!Usable(p) \/ p.known[line] = state
  <2>1. q = p
    BY <1>2, <1>3 DEF Engine!Adapter!SetLine
  <2>2. QED
    BY <2>1
<1>4. CASE Engine!Adapter!Usable(p) /\ p.known[line] # state /\ Engine!Adapter!Fails(device, line, up)
  <2>1. PICK f : f = IF device.signals THEN p ELSE LineLost(p, line)
    OBVIOUS
  <2>2. q = Engine!Adapter!FaultAndClose(f, TRUE, device)
    BY <1>2, <1>4, <2>1 DEF Engine!Adapter!SetLine, LineLost
  <2>3. PICK lost : lost = LineLost(p, line)
    OBVIOUS
  <2>4. Honest(lost) /\ lost.isOpen = p.isOpen
    BY <1>1, <2>3, LineLostIs
  <2>5. Honest(f) /\ f.isOpen
    BY <1>1, <1>4, <2>1, <2>3, <2>4 DEF Engine!Adapter!Usable
  <2>6. Honest(q) /\ Shut(q) /\ Lowered(q, device)
    BY <2>2, <2>5, FaultReleased
  <2>7. QED
    BY <2>6, ShutIsSane DEF Cared
<1>5. CASE Engine!Adapter!Usable(p) /\ p.known[line] # state /\ ~Engine!Adapter!Fails(device, line, up)
  <2>1. q = Engine!Adapter!WriteLine(p, line, up, device)
    BY <1>2, <1>5 DEF Engine!Adapter!SetLine
  <2>2. p.isOpen /\ p.openSafe /\ ~p.fault
    BY <1>5 DEF Engine!Adapter!Usable
  <2>3. \A l \in Engine!Adapter!Lines : p.known[l] # "Unknown"
    BY <1>1, <2>2 DEF Engine!Adapter!PortConsistent
  <2>4. p.known["key"] # "Active" => ~p.wire["key"]
    <3>1. p.known["key"] \in {"Unknown", "Inactive", "Active"}
      BY <1>1, KeyThenPtt, KnownOf DEF Honest, Engine!Adapter!LineStates
    <3>2. QED
      BY <1>1, <2>3, <3>1, KeyThenPtt, InactiveIsDown
  <2>5. p.known["ptt"] = "Active" => p.wire["ptt"]
    BY <1>1, KeyThenPtt DEF Honest, Engine!Adapter!ReportedMatchesWire
  <2>6. ~Engine!Adapter!LeavesKeyBare(p, line, up, device)
    BY <2>4, <2>5 DEF Ordered, Engine!Adapter!LeavesKeyBare
  <2>7. Wrote(p, q, line, up)
    BY <1>1, <2>1, <2>6, WriteIs
  <2>8. Openable(q) /\ q.isOpen /\ q.openSafe
    BY <1>1, <2>2, <2>7 DEF Wrote, Status, Openable
  <2>9. \A l \in Engine!Adapter!Lines : q.known[l] # "Unknown"
    BY <2>3, <2>7 DEF Wrote, Beside
  <2>10. QED
    BY <2>8, <2>9, OpenIsSane DEF Cared
<1>6. QED
  BY <1>2, <1>3, <1>4, <1>5

LEMMA SetPttUp ==
  ASSUME NEW o, NEW p, NEW device, Cared(o, p, device), NEW q, q = Engine!Adapter!SetLine(p, "ptt", TRUE, device)
  PROVE  Cared(o, q, device)
<1>1. PICK up \in BOOLEAN : up = TRUE
  OBVIOUS
<1>2. Ordered(p, "ptt", up) /\ q = Engine!Adapter!SetLine(p, "ptt", up, device)
  BY <1>1 DEF Ordered
<1>3. QED
  BY <1>2, KeyThenPtt, SetLineCared

LEMMA SetPttDown ==
  ASSUME NEW o, NEW p, NEW device, Cared(o, p, device), ~Engine!Active(p, "key"),
         NEW q, q = Engine!Adapter!SetLine(p, "ptt", FALSE, device)
  PROVE  Cared(o, q, device)
<1>1. PICK up \in BOOLEAN : up = FALSE
  OBVIOUS
<1>2. Ordered(p, "ptt", up) /\ q = Engine!Adapter!SetLine(p, "ptt", up, device)
  BY <1>1 DEF Ordered, Engine!Active
<1>3. QED
  BY <1>2, KeyThenPtt, SetLineCared

LEMMA SetKey ==
  ASSUME NEW o, NEW p, NEW device, Cared(o, p, device), NEW up \in BOOLEAN,
         up => Engine!Active(p, "ptt"), NEW q, q = Engine!Adapter!SetLine(p, "key", up, device)
  PROVE  Cared(o, q, device)
<1>1. Ordered(p, "key", up)
  BY DEF Ordered, Engine!Active
<1>2. QED
  BY <1>1, KeyThenPtt, SetLineCared

LEMMA DriveLinesCared ==
  ASSUME NEW o, NEW p, NEW device, Cared(o, p, device), NEW ptt \in BOOLEAN, NEW key \in BOOLEAN,
         NEW q, q = Engine!DriveLines(p, [ptt |-> ptt, key |-> key], device)
  PROVE  Cared(o, q, device)
<1> DEFINE a == IF ptt THEN Engine!Adapter!SetLine(p, "ptt", TRUE, device) ELSE p
           due == IF key THEN ptt /\ Engine!Active(a, "ptt") ELSE Engine!Active(a, "key")
           b == IF due THEN Engine!Adapter!SetLine(a, "key", key, device) ELSE a
           t == IF ~ptt /\ Engine!Active(b, "ptt") /\ ~Engine!Active(b, "key")
                  THEN Engine!Adapter!SetLine(b, "ptt", FALSE, device) ELSE b
<1>1. q = t
  <2>1. [ptt |-> ptt, key |-> key].ptt = ptt /\ [ptt |-> ptt, key |-> key].key = key
    OBVIOUS
  <2>2. QED
    BY <2>1, Zenon DEF Engine!DriveLines
<1>2. Cared(o, a, device)
  BY SetPttUp
<1> HIDE DEF a
<1>3. Cared(o, b, device)
  BY <1>2, SetKey
<1> HIDE DEF b
<1>4. Cared(o, t, device)
  BY <1>3, SetPttDown
<1>5. QED
  BY <1>1, <1>4

LEMMA RaiseBothCared ==
  ASSUME NEW o, NEW p, NEW device, Cared(o, p, device),
         NEW q, q = Engine!KeyUnderPtt(Engine!Adapter!SetLine(p, "ptt", TRUE, device), device)
  PROVE  Cared(o, q, device)
<1>1. PICK r : r = Engine!Adapter!SetLine(p, "ptt", TRUE, device)
  OBVIOUS
<1>2. Cared(o, r, device)
  BY <1>1, SetPttUp
<1>3. q = IF Engine!Adapter!LineIs(r, "ptt", TRUE) THEN Engine!Adapter!SetLine(r, "key", TRUE, device) ELSE r
  BY <1>1 DEF Engine!KeyUnderPtt
<1>4. CASE Engine!Adapter!LineIs(r, "ptt", TRUE)
  <2>1. Engine!Active(r, "ptt")
    BY <1>4 DEF Engine!Adapter!LineIs, Engine!Active
  <2>2. PICK up \in BOOLEAN : up = TRUE
    OBVIOUS
  <2>3. q = Engine!Adapter!SetLine(r, "key", up, device)
    BY <1>3, <1>4, <2>2
  <2>4. QED
    BY <1>2, <2>1, <2>3, SetKey
<1>5. CASE ~Engine!Adapter!LineIs(r, "ptt", TRUE)
  BY <1>2, <1>3, <1>5
<1>6. QED
  BY <1>4, <1>5

LEMMA OpenedIs ==
  ASSUME NEW c, Honest(c), Shut(c), NEW levels \in Engine!Adapter!Levels, NEW f, f = Opened(c, levels)
  PROVE  Openable(f) /\ f.isOpen
<1>1. f = [openSafe |-> c.openSafe, known |-> c.known, fault |-> FALSE,
           owned |-> TRUE, isOpen |-> TRUE, wire |-> levels, bare |-> c.bare]
  BY DEF Opened, Honest, Engine!Adapter!Ports
<1>2. f \in Engine!Adapter!Ports
  BY OpenedType DEF Honest
<1>3. \A line \in Engine!Adapter!Lines : Engine!Adapter!NoneKnown[line] = "Unknown"
  BY DEF Engine!Adapter!NoneKnown
<1>4. Engine!Adapter!ReportedMatchesWire(f)
  BY <1>1, <1>3 DEF Engine!Adapter!ReportedMatchesWire, Shut
<1>5. QED
  BY <1>1, <1>2, <1>4 DEF Openable, Honest

LEMMA InitializedPut ==
  ASSUME NEW o, NEW p, NEW device, Openable(p), Lowered(p, device),
         NEW q, q = Engine!Adapter!Initialized(p, device)
  PROVE  PutDown(o, q, device)
<1>0. Honest(p)
  BY DEF Openable
<1>1. CASE Engine!Adapter!Released(p)
  <2>1. q = [p EXCEPT !.openSafe = TRUE]
    BY <1>1 DEF Engine!Adapter!Initialized
  <2>2. q = [openSafe |-> TRUE, known |-> p.known, fault |-> p.fault,
             owned |-> p.owned, isOpen |-> p.isOpen, wire |-> p.wire, bare |-> p.bare]
    BY <1>0, <2>1 DEF Honest, Engine!Adapter!Ports
  <2>3. q \in Engine!Adapter!Ports
    BY <1>0, <2>1 DEF Honest, Engine!Adapter!Ports
  <2>4. Honest(q)
    BY <1>0, <2>2, <2>3 DEF Honest, Engine!Adapter!ReportedMatchesWire
  <2>5. p.isOpen /\ p.known = Engine!Adapter!AllInactive /\ p.owned = p.isOpen
    BY <1>1 DEF Engine!Adapter!Released, Openable
  <2>6. \A line \in Engine!Adapter!Lines : Engine!Adapter!AllInactive[line] # "Unknown"
    BY DEF Engine!Adapter!AllInactive
  <2>7. Sane(q)
    BY <2>2, <2>4, <2>5, <2>6, OpenIsSane DEF Openable
  <2>8. q.wire = p.wire
    BY <2>2
  <2>9. QED
    BY <2>7, <2>8 DEF PutDown, Lowered
<1>2. CASE ~Engine!Adapter!Released(p)
  <2>1. PICK no \in BOOLEAN : no = FALSE
    OBVIOUS
  <2>2. q = Engine!Adapter!FaultAndClose(p, no, device)
    BY <1>2, <2>1 DEF Engine!Adapter!Initialized
  <2>3. Honest(q) /\ Shut(q) /\ Lowered(q, device)
    BY <1>0, <2>2, FaultClosed
  <2>4. QED
    BY <2>3, ShutIsSane DEF PutDown
<1>3. QED
  BY <1>1, <1>2

LEMMA OpenPut ==
  ASSUME NEW o, NEW p, NEW device, Cared(o, p, device), NEW opens \in BOOLEAN,
         NEW levels \in Engine!Adapter!Levels, NEW q, q = Engine!Adapter!Open(p, opens, levels, device)
  PROVE  PutDown(o, q, device)
<1>1. PICK c : c = Engine!Adapter!Close(p, device)
  OBVIOUS
<1>2. PutDown(o, c, device) /\ Shut(c) /\ Honest(c)
  BY <1>1, ClosePut
<1>3. q = Engine!Adapter!OpenClosed(c, opens, levels, device)
  BY <1>1 DEF Engine!Adapter!Open
<1>4. CASE opens
  <2>1. PICK f : f = Opened(c, levels)
    OBVIOUS
  <2>2. PICK r : r = Engine!Adapter!ReleaseAll(f, device)
    OBVIOUS
  <2>3. q = Engine!Adapter!Initialized(r, device)
    BY <1>3, <1>4, <2>1, <2>2 DEF Engine!Adapter!OpenClosed, Opened
  <2>4. Openable(f) /\ f.isOpen
    BY <1>2, <2>1, OpenedIs
  <2>5. Openable(r) /\ Lowered(r, device)
    BY <2>2, <2>4, ReleaseOpen DEF AllReleased
  <2>6. QED
    BY <2>3, <2>5, InitializedPut
<1>5. CASE ~opens
  <2>1. q = Broken(c)
    BY <1>3, <1>5 DEF Engine!Adapter!OpenClosed, Broken
  <2>2. /\ Honest(q) /\ q.wire = c.wire /\ q.known = c.known
        /\ q.isOpen = c.isOpen /\ q.openSafe = c.openSafe /\ q.owned = c.owned
    BY <1>2, <2>1, FaultKeeps
  <2>3. Sane(q)
    BY <1>2, <2>2, ShutIsSane DEF Shut
  <2>4. QED
    BY <1>2, <2>2, <2>3 DEF PutDown, Lowered
<1>6. QED
  BY <1>4, <1>5

LEMMA BackendErrorPut ==
  ASSUME NEW o, NEW p, NEW device, Sane(p), p.isOpen, NEW q, q = Engine!Adapter!BackendError(p, device)
  PROVE  PutDown(o, q, device)
<1>1. q = Engine!Adapter!FaultAndClose(p, TRUE, device) /\ Honest(p)
  BY DEF Engine!Adapter!BackendError, Sane
<1>2. Honest(q) /\ Shut(q) /\ Lowered(q, device)
  BY <1>1, FaultReleased
<1>3. QED
  BY <1>2, ShutIsSane DEF PutDown

LEMMA NewPortSane ==
  ASSUME NEW p, p = Engine!Adapter!NewPort
  PROVE  Sane(p)
<1>1. /\ Engine!Adapter!NoneKnown \in [Engine!Adapter!Lines -> Engine!Adapter!LineStates]
      /\ [line \in Engine!Adapter!Lines |-> FALSE] \in Engine!Adapter!Levels
      /\ \A line \in Engine!Adapter!Lines : Engine!Adapter!NoneKnown[line] = "Unknown"
  BY DEF Engine!Adapter!NoneKnown, Engine!Adapter!LineStates, Engine!Adapter!Levels
<1>2. PICK none : none = Engine!Adapter!NoneKnown
  OBVIOUS
<1>3. p = [openSafe |-> FALSE, known |-> none, fault |-> FALSE, owned |-> FALSE,
           isOpen |-> FALSE, wire |-> [line \in Engine!Adapter!Lines |-> FALSE], bare |-> FALSE]
  BY <1>2 DEF Engine!Adapter!NewPort
<1>4. p \in Engine!Adapter!Ports
  BY <1>1, <1>2, <1>3 DEF Engine!Adapter!Ports
<1>5. Honest(p) /\ Shut(p)
  BY <1>1, <1>2, <1>3, <1>4 DEF Honest, Shut, Engine!Adapter!ReportedMatchesWire
<1>6. QED
  BY <1>5, ShutIsSane
-----------------------------------------------------------------------------
(* The schedule: what a step of it makes of KEY and of the next boundary.  *)

(* A schedule that runs sends a plan that was accepted, and its KEY is that *)
(* of the span it is in.                                                   *)
Keeps(sch) ==
  sch.state = "Running" =>
    /\ Engine!Scheduler!ValidatePlan(sch.config, sch.plan)
    /\ sch.phase = "Spans" =>
         sch.span + 1 \in 1..Len(sch.plan.spans) /\ sch.key = sch.plan.spans[sch.span + 1].key

LEMMA PlanParts ==
  ASSUME NEW c, NEW plan \in Engine!Scheduler!Plans, Engine!Scheduler!ValidatePlan(c, plan)
  PROVE  /\ Len(plan.spans) \in Nat /\ Len(plan.spans) > 0
         /\ \A i \in 1..(Len(plan.spans) - 1) : plan.spans[i].key # plan.spans[i + 1].key
         /\ \A i \in 1..Len(plan.spans) : plan.spans[i].key => Engine!Scheduler!SpanTicks(plan, i) <= MaxKeyDown
         /\ \A i \in 1..Len(plan.spans) : plan.spans[i].key \in BOOLEAN /\ Engine!Scheduler!SpanTicks(plan, i) \in Nat
<1>1. plan.spans \in Seq(Engine!Scheduler!Spans) /\ plan.dot \in Nat
  BY DEF Engine!Scheduler!Plans
<1>2. \A i \in 1..Len(plan.spans) : plan.spans[i] \in Engine!Scheduler!Spans
  BY <1>1
<1>3. \A i \in 1..Len(plan.spans) : plan.spans[i].key \in BOOLEAN /\ plan.spans[i].units \in Nat
  BY <1>2 DEF Engine!Scheduler!Spans
<1>4. \A i \in 1..Len(plan.spans) : Engine!Scheduler!SpanTicks(plan, i) \in Nat
  BY <1>1, <1>3 DEF Engine!Scheduler!SpanTicks
<1>5. /\ Len(plan.spans) > 0
      /\ \A i \in 1..(Len(plan.spans) - 1) : plan.spans[i].key # plan.spans[i + 1].key
      /\ \A i \in 1..Len(plan.spans) : plan.spans[i].key => Engine!Scheduler!SpanTicks(plan, i) <= MaxKeyDown
  BY DEF Engine!Scheduler!ValidatePlan
<1>6. QED
  BY <1>1, <1>3, <1>4, <1>5

LEMMA EndedKeeps ==
  ASSUME NEW sch \in Engine!Scheduler!Schedulers, NEW t, t = Engine!Scheduler!SchedulerFault(sch)
  PROVE  Keeps(t) /\ ~t.key /\ t.state = "Fault" /\ t.plan = sch.plan
<1>1. "Fault" \in Engine!Scheduler!States \ {"Running"} /\ t = Engine!Scheduler!EnterTerminal(sch, "Fault")
  BY DEF Engine!Scheduler!States, Engine!Scheduler!SchedulerFault
<1>2. t.state = "Fault" /\ ~t.key /\ t.plan = sch.plan
  BY <1>1, EndedIs
<1>3. QED
  BY <1>2 DEF Keeps

(* The outcome of setting the next transition.                             *)
NextSet(sch, t, next) ==
  /\ t.next = next /\ t.state = sch.state /\ t.phase = sch.phase /\ t.span = sch.span
  /\ t.key = sch.key /\ t.ptt = sch.ptt /\ t.plan = sch.plan /\ t.config = sch.config

LEMMA SetNextOutcome ==
  ASSUME NEW sch \in Engine!Scheduler!Schedulers, NEW base \in Engine!Scheduler!Time, NEW delay \in Nat,
         NEW t, t = Engine!Scheduler!SetNextTransition(sch, base, delay)
  PROVE  /\ (Keeps(t) /\ ~t.key /\ t.state = "Fault") \/ NextSet(sch, t, base + delay)
         /\ t.plan = sch.plan
<1>1. CASE base > MaxU64 - delay
  <2>1. t = Engine!Scheduler!SchedulerFault(sch)
    BY <1>1 DEF Engine!Scheduler!SetNextTransition
  <2>2. QED
    BY <2>1, EndedKeeps
<1>2. CASE ~(base > MaxU64 - delay)
  <2>1. t = [sch EXCEPT !.next = base + delay]
    BY <1>2 DEF Engine!Scheduler!SetNextTransition
  <2>2. QED
    BY <2>1 DEF Engine!Scheduler!Schedulers, NextSet
<1>3. QED
  BY <1>1, <1>2

LEMMA StartKeeps ==
  ASSUME NEW sch \in Engine!Scheduler!Schedulers, NEW plan \in Engine!Scheduler!Plans, NEW now \in Engine!Scheduler!Time,
         NEW t, t = Engine!Scheduler!Start(sch, plan, now)
  PROVE  Keeps(t) /\ ~t.key /\ t.plan \in {sch.plan, plan}
<1>1. CASE sch.state # "Idle" \/ ~Engine!Scheduler!ValidatePlan(sch.config, plan) \/ ~Engine!Scheduler!FitsClock(sch.config, plan, now)
  <2>1. t = Engine!Scheduler!SchedulerFault(sch)
    BY <1>1 DEF Engine!Scheduler!Start
  <2>2. QED
    BY <2>1, EndedKeeps
<1>2. CASE ~(sch.state # "Idle" \/ ~Engine!Scheduler!ValidatePlan(sch.config, plan) \/ ~Engine!Scheduler!FitsClock(sch.config, plan, now))
  <2>1. PICK r : r = [sch EXCEPT !.plan = plan, !.state = "Running", !.phase = "Lead",
                            !.ptt = TRUE, !.key = FALSE, !.last = now, !.span = 0,
                            !.pending = FALSE]
    OBVIOUS
  <2>2. t = Engine!Scheduler!SetNextTransition(r, now, sch.config.lead)
    BY <1>2, <2>1 DEF Engine!Scheduler!Start
  <2>3. r \in Engine!Scheduler!Schedulers
    BY <2>1 DEF Engine!Scheduler!Schedulers, Engine!Scheduler!States, Engine!Scheduler!Phases
  <2>4. r.phase = "Lead" /\ r.key = FALSE /\ r.plan = plan /\ r.config = sch.config
    BY <2>1 DEF Engine!Scheduler!Schedulers
  <2>5. sch.config.lead \in Nat
    BY DEF Engine!Scheduler!Schedulers, Engine!Scheduler!Configs
  <2>6. /\ (Keeps(t) /\ ~t.key /\ t.state = "Fault") \/ NextSet(r, t, now + sch.config.lead)
        /\ t.plan = r.plan
    BY <2>2, <2>3, <2>5, SetNextOutcome
  <2>7. Engine!Scheduler!ValidatePlan(sch.config, plan)
    BY <1>2
  <2>8. QED
    BY <2>4, <2>6, <2>7 DEF NextSet, Keeps
<1>3. QED
  BY <1>1, <1>2

(* A span that begins: either the clock's range is at its end, or KEY is   *)
(* that of the span, for no longer than KEY may be down.                   *)
SpanBegun(sch, t, i) ==
  /\ t.state = "Running" /\ t.phase = "Spans" /\ t.span = i
  /\ t.key = sch.plan.spans[i + 1].key
  /\ t.key => t.next <= sch.next + MaxKeyDown

LEMMA BeginSpanKeeps ==
  ASSUME NEW sch \in Engine!Scheduler!Schedulers, sch.state = "Running", Engine!Scheduler!ValidatePlan(sch.config, sch.plan),
         NEW i \in Nat, i + 1 \in 1..Len(sch.plan.spans), NEW t, t = Engine!Scheduler!BeginSpan(sch, i, sch.next)
  PROVE  Keeps(t) /\ ((t.state = "Fault" /\ ~t.key) \/ SpanBegun(sch, t, i))
<1>0. sch.plan \in Engine!Scheduler!Plans /\ sch.next \in Engine!Scheduler!Time
  BY SchedulerHas
<1>1. PICK ticks : ticks = Engine!Scheduler!SpanTicks(sch.plan, i + 1)
  OBVIOUS
<1>2. PICK key : key = sch.plan.spans[i + 1].key
  OBVIOUS
<1>3. PICK r : r = [sch EXCEPT !.phase = "Spans", !.span = i, !.key = key]
  OBVIOUS
<1>4. key \in BOOLEAN /\ ticks \in Nat /\ (key => ticks <= MaxKeyDown)
  BY <1>0, <1>1, <1>2, PlanParts
<1>5. r \in Engine!Scheduler!Schedulers
  BY <1>3, <1>4 DEF Engine!Scheduler!Schedulers, Engine!Scheduler!Phases
<1>6. /\ r.state = sch.state /\ r.phase = "Spans" /\ r.plan = sch.plan /\ r.config = sch.config
      /\ r.span = i /\ r.key = key
  BY <1>3 DEF Engine!Scheduler!Schedulers
<1>7. t = Engine!Scheduler!SetNextTransition(r, sch.next, ticks)
  BY <1>1, <1>2, <1>3 DEF Engine!Scheduler!BeginSpan
<1>8. (Keeps(t) /\ ~t.key /\ t.state = "Fault") \/ NextSet(r, t, sch.next + ticks)
  BY <1>0, <1>4, <1>5, <1>7, SetNextOutcome
<1>9. CASE NextSet(r, t, sch.next + ticks)
  <2>1. /\ t.state = "Running" /\ t.phase = "Spans" /\ t.span = i /\ t.key = key
        /\ t.plan = sch.plan /\ t.config = sch.config /\ t.next = sch.next + ticks
    BY <1>6, <1>9 DEF NextSet
  <2>2. Keeps(t)
    BY <1>2, <2>1 DEF Keeps
  <2>3. key => sch.next + ticks <= sch.next + MaxKeyDown
    BY <1>0, <1>4, TimeIs, Limits
  <2>4. SpanBegun(sch, t, i)
    BY <1>2, <2>1, <2>3 DEF SpanBegun
  <2>5. QED
    BY <2>2, <2>4
<1>10. QED
  BY <1>8, <1>9

(* A boundary that is crossed is seen to be, and KEY rises only from below. *)
Crossed(sch, t) ==
  /\ Keeps(t)
  /\ t.state # sch.state \/ t.phase # sch.phase \/ t.span # sch.span
  /\ t.key => ~sch.key /\ t.next <= sch.next + MaxKeyDown

LEMMA CrossBoundaryKeeps ==
  ASSUME NEW sch \in Engine!Scheduler!Schedulers, Disciplined(sch), sch.state = "Running", Keeps(sch),
         NEW t, t = Engine!Scheduler!CrossBoundary(sch, sch.next)
  PROVE  Crossed(sch, t)
<1>1. /\ sch.span \in Nat /\ Len(sch.plan.spans) \in Nat /\ sch.config.hang \in Nat
      /\ sch.next \in Engine!Scheduler!Time /\ sch.phase \in Engine!Scheduler!Phases /\ sch.plan \in Engine!Scheduler!Plans
  BY DEF Engine!Scheduler!Schedulers, Engine!Scheduler!Plans, Engine!Scheduler!Configs
<1>2. Engine!Scheduler!ValidatePlan(sch.config, sch.plan)
  BY DEF Keeps
<1>3. CASE sch.phase = "Lead"
  <2>1. PICK i \in Nat : i = 0
    OBVIOUS
  <2>2. t = Engine!Scheduler!BeginSpan(sch, i, sch.next)
    BY <1>3, <2>1 DEF Engine!Scheduler!CrossBoundary
  <2>3. i + 1 \in 1..Len(sch.plan.spans)
    BY <1>1, <2>1 DEF Disciplined
  <2>4. Keeps(t) /\ ((t.state = "Fault" /\ ~t.key) \/ SpanBegun(sch, t, i))
    BY <1>2, <2>2, <2>3, BeginSpanKeeps
  <2>5. ~sch.key
    BY <1>3 DEF Disciplined
  <2>6. QED
    BY <1>3, <2>4, <2>5 DEF Crossed, SpanBegun
<1>4. CASE sch.phase = "Spans" /\ sch.span + 1 < Len(sch.plan.spans)
  <2>1. PICK i : i = sch.span + 1
    OBVIOUS
  <2>2. t = Engine!Scheduler!BeginSpan(sch, i, sch.next)
    BY <1>1, <1>4, <2>1 DEF Engine!Scheduler!CrossBoundary
  <2>3. i \in Nat /\ i + 1 \in 1..Len(sch.plan.spans) /\ i # sch.span /\ i \in 1..(Len(sch.plan.spans) - 1)
    BY <1>1, <1>4, <2>1
  <2>4. Keeps(t) /\ ((t.state = "Fault" /\ ~t.key) \/ SpanBegun(sch, t, i))
    BY <1>2, <2>2, <2>3, BeginSpanKeeps
  <2>5. sch.key = sch.plan.spans[i].key
    BY <1>4, <2>1 DEF Keeps
  <2>6. sch.plan.spans[i].key # sch.plan.spans[i + 1].key
    BY <1>1, <1>2, <2>3, PlanParts
  <2>7. sch.plan.spans[i].key \in BOOLEAN /\ sch.plan.spans[i + 1].key \in BOOLEAN
    <3>1. i \in 1..Len(sch.plan.spans) /\ i + 1 \in 1..Len(sch.plan.spans)
      BY <1>1, <2>3
    <3>2. QED
      BY <1>1, <1>2, <3>1, PlanParts
  <2>8. SpanBegun(sch, t, i) => (t.key => ~sch.key)
    BY <2>5, <2>6, <2>7 DEF SpanBegun
  <2>9. QED
    BY <2>3, <2>4, <2>8 DEF Crossed, SpanBegun
<1>5. CASE sch.phase = "Spans" /\ sch.span + 1 >= Len(sch.plan.spans)
  <2>1. PICK r : r = [sch EXCEPT !.phase = "Hang", !.span = @ + 1, !.key = FALSE]
    OBVIOUS
  <2>2. t = Engine!Scheduler!SetNextTransition(r, sch.next, sch.config.hang)
    BY <1>1, <1>5, <2>1 DEF Engine!Scheduler!CrossBoundary, Engine!Scheduler!BeginHang
  <2>3. r \in Engine!Scheduler!Schedulers
    <3>1. sch.span + 1 \in Nat /\ "Hang" \in Engine!Scheduler!Phases
      BY <1>1 DEF Engine!Scheduler!Phases
    <3>2. QED
      BY <2>1, <3>1 DEF Engine!Scheduler!Schedulers
  <2>4. r.phase = "Hang" /\ r.key = FALSE /\ r.plan = sch.plan /\ r.config = sch.config
    BY <2>1 DEF Engine!Scheduler!Schedulers
  <2>5. (Keeps(t) /\ ~t.key /\ t.state = "Fault") \/ NextSet(r, t, sch.next + sch.config.hang)
    BY <1>1, <2>2, <2>3, SetNextOutcome
  <2>6. NextSet(r, t, sch.next + sch.config.hang) => t.phase = "Hang" /\ ~t.key /\ Keeps(t)
    BY <1>2, <2>4 DEF NextSet, Keeps
  <2>7. QED
    BY <1>5, <2>5, <2>6 DEF Crossed
<1>6. CASE sch.phase = "Hang"
  <2>1. t = Engine!Scheduler!Complete(sch)
    BY <1>6 DEF Engine!Scheduler!CrossBoundary
  <2>2. t.state = "Completed" /\ t.key = sch.key
    BY <2>1 DEF Engine!Scheduler!Complete, Engine!Scheduler!Schedulers
  <2>3. ~sch.key
    BY <1>6 DEF Disciplined
  <2>4. QED
    BY <2>2, <2>3 DEF Crossed, Keeps
<1>7. CASE sch.phase = "None"
  <2>1. t = Engine!Scheduler!SchedulerFault(sch)
    BY <1>7 DEF Engine!Scheduler!CrossBoundary
  <2>2. QED
    BY <2>1, EndedKeeps DEF Crossed
<1>8. QED
  BY <1>1, <1>3, <1>4, <1>5, <1>6, <1>7 DEF Engine!Scheduler!Phases

(* What a slot of the timer makes of a schedule that runs.                 *)
Waits(sch, t, now) == now < sch.next /\ t = [sch EXCEPT !.last = now] /\ Keeps(t)
Changes(sch, t, now) ==
  /\ Keeps(t)
  /\ t.state # sch.state \/ t.phase # sch.phase \/ t.span # sch.span
  /\ t.key => ~sch.key /\ t.next <= now + MaxKeyDown

LEMMA LastKeeps ==
  ASSUME NEW sch \in Engine!Scheduler!Schedulers, Keeps(sch), NEW now \in Engine!Scheduler!Time, NEW t, t = [sch EXCEPT !.last = now]
  PROVE  /\ Keeps(t) /\ t.key = sch.key /\ t.phase = sch.phase /\ t.span = sch.span
         /\ t.next = sch.next /\ t.state = sch.state
<1>1. /\ t.plan = sch.plan /\ t.state = sch.state /\ t.key = sch.key /\ t.phase = sch.phase
      /\ t.span = sch.span /\ t.config = sch.config /\ t.next = sch.next
  BY DEF Engine!Scheduler!Schedulers
<1>2. QED
  BY <1>1 DEF Keeps

LEMMA AdvanceMoves ==
  ASSUME NEW sch \in Engine!Scheduler!Schedulers, Disciplined(sch), Keeps(sch), sch.state = "Running",
         NEW now \in Engine!Scheduler!Time, NEW t, t = Engine!Scheduler!Advance(sch, now)
  PROVE  Waits(sch, t, now) \/ Changes(sch, t, now)
<1>1. PICK r : r = [sch EXCEPT !.last = now]
  OBVIOUS
<1>2. /\ r \in Engine!Scheduler!Schedulers /\ Disciplined(r) /\ r.state = sch.state
  BY <1>1, LastIs
<1>3. /\ Keeps(r) /\ r.key = sch.key /\ r.phase = sch.phase /\ r.span = sch.span /\ r.next = sch.next
      /\ r.state = sch.state
  BY <1>1, LastKeeps
<1>4. sch.next \in Int /\ sch.last \in Int /\ now \in Int /\ sch.config.maxLateness \in Int /\ MaxKeyDown \in Nat
  BY TimeIs, Limits DEF Engine!Scheduler!Schedulers, Engine!Scheduler!Configs
<1>5. CASE now < sch.last
  <2>1. t = Engine!Scheduler!SchedulerFault(sch)
    BY <1>4, <1>5 DEF Engine!Scheduler!Advance
  <2>2. QED
    BY <2>1, EndedKeeps DEF Changes
<1>6. CASE sch.last <= now /\ now < sch.next
  <2>1. t = r
    BY <1>1, <1>4, <1>6 DEF Engine!Scheduler!Advance
  <2>2. QED
    BY <1>1, <1>3, <1>6, <2>1 DEF Waits
<1>7. CASE sch.last <= now /\ sch.next <= now
  <2>1. t = IF now - sch.next > sch.config.maxLateness THEN Engine!Scheduler!SchedulerFault(r)
                                                       ELSE Engine!Scheduler!CrossBoundary(r, r.next)
    BY <1>1, <1>3, <1>4, <1>7 DEF Engine!Scheduler!Advance
  <2>2. CASE t = Engine!Scheduler!SchedulerFault(r)
    BY <1>2, <2>2, EndedKeeps DEF Changes
  <2>3. CASE t = Engine!Scheduler!CrossBoundary(r, r.next)
    <3>1. Crossed(r, t)
      BY <1>2, <1>3, <2>3, CrossBoundaryKeeps
    <3>2. t.key => t.next <= now + MaxKeyDown
      <4>1. CASE t.key
        <5>1. t.next <= sch.next + MaxKeyDown
          BY <1>3, <3>1, <4>1 DEF Crossed
        <5>2. t.next \in Int
          <6>1. t \in Engine!Scheduler!Schedulers
            BY <1>2, <2>3, CrossBoundaryIs
          <6>2. QED
            BY <6>1, SchedulerHas, TimeIs
        <5>3. QED
          BY <1>4, <1>7, <5>1, <5>2
      <4>2. QED
        BY <4>1
    <3>3. QED
      BY <1>3, <3>1, <3>2 DEF Crossed, Changes
  <2>4. QED
    BY <2>1, <2>2, <2>3
<1>8. QED
  BY <1>4, <1>5, <1>6, <1>7

(* The answer of advance() says which.                                     *)
LEMMA AnswerSays ==
  ASSUME NEW sch \in Engine!Scheduler!Schedulers, sch.state = "Running", NEW now \in Engine!Scheduler!Time, NEW t,
         Waits(sch, t, now) \/ Changes(sch, t, now),
         NEW result, result = Engine!Scheduler!ResultOf(sch, t)
  PROVE  /\ result = "NoChange" => Waits(sch, t, now)
         /\ result = "Transition" => Changes(sch, t, now)
<1>1. ASSUME Changes(sch, t, now), result = "NoChange" PROVE FALSE
  <2>1. t = [sch EXCEPT !.last = t.last]
    BY <1>1 DEF Engine!Scheduler!ResultOf
  <2>2. t.state = sch.state /\ t.phase = sch.phase /\ t.span = sch.span
    BY <2>1 DEF Engine!Scheduler!Schedulers
  <2>3. QED
    BY <1>1, <2>2 DEF Changes
<1>2. ASSUME Waits(sch, t, now), result = "Transition" PROVE FALSE
  <2>1. t = [sch EXCEPT !.last = now]
    BY <1>2 DEF Waits
  <2>2. t.last = now /\ t.state = "Running"
    BY <2>1 DEF Engine!Scheduler!Schedulers
  <2>3. t = [sch EXCEPT !.last = t.last]
    BY <2>1, <2>2
  <2>4. result = "NoChange"
    BY <2>2, <2>3 DEF Engine!Scheduler!ResultOf
  <2>5. QED
    BY <1>2, <2>4
<1>3. QED
  BY <1>1, <1>2
-----------------------------------------------------------------------------
(* The calls of the worker that end an output, on the wire.                *)

Safe(o, e, device) == e \in Engine!Engines /\ Cared(o, e.port, device)
Stops(o, e, f, device) == Halted(f) /\ f.sch.plan = e.sch.plan /\ PutDown(o, f.port, device)
Applies(o, e, f, device) == Safe(o, f, device) /\ SameButPort(e, f) /\ Engine!LinesApplied(f)
(* What a call that ends an output makes of the schedule.                  *)
Winds(e, f) == (Engine!Running(f) => f.sch = e.sch) /\ f.sch.plan \in {e.sch.plan, Engine!Scheduler!NoPlan}
Ended(o, e, f, device) == Worker(f) /\ Rest(f) /\ PutDown(o, f.port, device) /\ Winds(e, f)

LEMMA ReleaseEngineSafe ==
  ASSUME NEW o, NEW e, NEW device, Safe(o, e, device), NEW f, f = Engine!ReleaseEngine(e, device)
  PROVE  f \in Engine!Engines /\ PutDown(o, f.port, device) /\ SameButPort(e, f)
<1>1. PICK p : p = Engine!Adapter!ReleaseAll(e.port, device)
  OBVIOUS
<1>2. PutDown(o, p, device)
  BY <1>1, ReleaseAllPut DEF Safe
<1>3. f = [e EXCEPT !.port = p]
  BY <1>1 DEF Engine!ReleaseEngine
<1>4. p \in Engine!Adapter!Ports /\ e \in Engine!Engines
  BY <1>2 DEF PutDown, Sane, Honest, Safe
<1>5. f \in Engine!Engines /\ f.port = p /\ SameButPort(e, f)
  BY <1>3, <1>4, PortSet
<1>6. QED
  BY <1>2, <1>5

LEMMA FaultEngineSafe ==
  ASSUME NEW o, NEW e, NEW device, Safe(o, e, device), NEW now \in Engine!Scheduler!Time,
         NEW f, f = Engine!FaultEngine(e, now, device)
  PROVE  Stops(o, e, f, device)
<1>0. e \in Engine!Engines
  BY DEF Safe
<1>1. PICK a : a = Engine!NotTuning(e)
  OBVIOUS
<1>2. PICK b : b = Engine!ReleaseEngine(a, device)
  OBVIOUS
<1>3. a \in Engine!Engines /\ a.port = e.port
  BY <1>0, <1>1, NotTuningIs
<1>4. b \in Engine!Engines /\ PutDown(o, b.port, device)
  BY <1>2, <1>3, ReleaseEngineSafe DEF Safe
<1>5. f.port = b.port
  <2>1. f = [b EXCEPT !.sch = Engine!DrainPending(Engine!Scheduler!EmergencyRelease(b.sch), now), !.fault = TRUE]
    BY <1>1, <1>2 DEF Engine!FaultEngine
  <2>2. QED
    BY <1>4, <2>1 DEF Engine!Engines
<1>6. Halted(f) /\ f.sch.plan = e.sch.plan
  BY <1>0, FaultEngineIs
<1>7. QED
  BY <1>4, <1>5, <1>6 DEF Stops

LEMMA AppliedSafe ==
  ASSUME NEW o, NEW e, NEW device, Safe(o, e, device), NEW now \in Engine!Scheduler!Time,
         NEW f, f = Engine!ApplyDesiredLines(e, now, device)
  PROVE  Applies(o, e, f, device) \/ Stops(o, e, f, device)
<1>0. e \in Engine!Engines /\ e.sch.ptt \in BOOLEAN /\ e.sch.key \in BOOLEAN
  BY EngineHas, SchedulerHas DEF Safe
<1>1. PICK p : p = Engine!DriveLines(e.port, [ptt |-> e.sch.ptt, key |-> e.sch.key], device)
  OBVIOUS
<1>2. Cared(o, p, device)
  BY <1>0, <1>1, DriveLinesCared DEF Safe
<1>3. PICK d : d = [e EXCEPT !.port = p]
  OBVIOUS
<1>4. f = Engine!AppliedOrFault(d, now, device)
  BY <1>1, <1>3 DEF Engine!ApplyDesiredLines
<1>5. d \in Engine!Engines /\ d.port = p /\ SameButPort(e, d)
  <2>1. p \in Engine!Adapter!Ports
    BY <1>2 DEF Cared, Sane, Honest
  <2>2. QED
    BY <1>0, <1>3, <2>1, PortSet
<1>6. Safe(o, d, device)
  BY <1>2, <1>5 DEF Safe
<1>7. CASE Engine!LinesApplied(d)
  BY <1>4, <1>5, <1>6, <1>7 DEF Engine!AppliedOrFault, Applies
<1>8. CASE ~Engine!LinesApplied(d)
  <2>1. f = Engine!FaultEngine(d, now, device)
    BY <1>4, <1>8 DEF Engine!AppliedOrFault
  <2>2. Stops(o, d, f, device)
    BY <1>6, <2>1, FaultEngineSafe
  <2>3. QED
    BY <1>5, <2>2 DEF Stops, SameButPort
<1>9. QED
  BY <1>7, <1>8

(* Lines that are applied and not wanted are down on the wire.             *)
LEMMA QuietPut ==
  ASSUME NEW o, NEW e, NEW device, Safe(o, e, device), Engine!LinesApplied(e), ~e.sch.ptt, ~e.sch.key
  PROVE  PutDown(o, e.port, device)
<1>1. Sane(e.port) /\ Honest(e.port)
  BY DEF Safe, Cared, Sane
<1>2. \A line \in Engine!Adapter!Lines : e.port.known[line] # "Active" /\ e.port.known[line] # "Unknown"
  BY DEF Engine!LinesApplied, Engine!Active, Engine!Adapter!Lines, Engine!Adapter!FaultOrUnknown
<1>3. \A line \in Engine!Adapter!Lines : e.port.known[line] \in {"Unknown", "Inactive", "Active"}
  BY <1>1, KnownOf DEF Honest, Engine!Adapter!LineStates
<1>4. \A line \in Engine!Adapter!Lines : ~e.port.wire[line]
  BY <1>1, <1>2, <1>3, InactiveIsDown
<1>5. QED
  BY <1>1, <1>4 DEF PutDown, Lowered

Settled(o, e, f, device) ==
  /\ Safe(o, f, device) /\ f.sch.plan = e.sch.plan
  /\ e.sch.pending => PutDown(o, f.port, device) /\ ~Engine!Running(f)
  /\ ~e.sch.pending => f = e

LEMMA PendingSafe ==
  ASSUME NEW o, NEW e, NEW device, Safe(o, e, device), Disciplined(e.sch), NEW now \in Engine!Scheduler!Time,
         NEW f, f = Engine!ApplyPendingRelease(e, now, device)
  PROVE  Settled(o, e, f, device)
<1>0. e \in Engine!Engines /\ e.sch \in Engine!Scheduler!Schedulers
  BY EngineHas DEF Safe
<1>1. CASE ~e.sch.pending
  <2>1. f = e
    BY <1>1 DEF Engine!ApplyPendingRelease
  <2>2. QED
    BY <1>1, <2>1 DEF Settled
<1>2. CASE e.sch.pending
  <2>1. PICK sch : sch = Engine!Scheduler!Advance(e.sch, now)
    OBVIOUS
  <2>2. PICK d : d = [e EXCEPT !.sch = sch]
    OBVIOUS
  <2>3. /\ sch \in Engine!Scheduler!Schedulers /\ ~sch.ptt /\ ~sch.key /\ sch.state # "Running"
        /\ sch.plan = e.sch.plan
    BY <1>0, <1>2, <2>1, AdvanceIs DEF Disciplined
  <2>4. f = Engine!ApplyDesiredLines(d, now, device)
    BY <1>2, <2>1, <2>2 DEF Engine!ApplyPendingRelease
  <2>5. d \in Engine!Engines /\ d.sch = sch /\ SameButSchedule(e, d)
    BY <1>0, <2>2, <2>3, ScheduleSet
  <2>6. Safe(o, d, device)
    BY <2>5 DEF Safe, SameButSchedule
  <2>7. Applies(o, d, f, device) \/ Stops(o, d, f, device)
    BY <2>4, <2>6, AppliedSafe
  <2>8. CASE Applies(o, d, f, device)
    <3>1. f.sch = sch /\ Safe(o, f, device) /\ Engine!LinesApplied(f)
      BY <2>5, <2>8 DEF Applies, SameButPort
    <3>2. PutDown(o, f.port, device)
      BY <2>3, <3>1, QuietPut
    <3>3. QED
      BY <1>2, <2>3, <3>1, <3>2 DEF Settled, Engine!Running
  <2>9. CASE Stops(o, d, f, device)
    <3>1. PutDown(o, f.port, device) /\ ~Engine!Running(f) /\ f \in Engine!Engines /\ f.sch.plan = e.sch.plan
      BY <2>3, <2>5, <2>9 DEF Stops, Halted, Worker, Engine!Busy
    <3>2. QED
      BY <1>2, <3>1, PutIsCared DEF Settled, Safe
  <2>10. QED
    BY <2>7, <2>8, <2>9
<1>3. QED
  BY <1>1, <1>2

(* The schedule has been ended, the lines not yet.                         *)
EmergencySaid(o, e, d, device) ==
  Safe(o, d, device) /\ Disciplined(d.sch) /\ ~Engine!Running(d) /\ d.sch.plan = e.sch.plan

LEMMA EmergencySet ==
  ASSUME NEW o, NEW e, NEW device, Safe(o, e, device),
         NEW d, d = [e EXCEPT !.sch = Engine!Scheduler!EmergencyRelease(e.sch)]
  PROVE  EmergencySaid(o, e, d, device)
<1>0. e \in Engine!Engines /\ e.sch \in Engine!Scheduler!Schedulers
  BY EngineHas DEF Safe
<1>1. PICK t : t = Engine!Scheduler!EmergencyRelease(e.sch)
  OBVIOUS
<1>2. /\ t \in Engine!Scheduler!Schedulers /\ Disciplined(t)
      /\ t.state = "Emergency" /\ ~t.key /\ t.ptt = e.sch.ptt /\ t.pending = e.sch.ptt
      /\ t.plan = e.sch.plan
  BY <1>0, <1>1, EmergencyScheduleIs
<1>3. d \in Engine!Engines /\ d.sch = t /\ SameButSchedule(e, d)
  BY <1>0, <1>1, <1>2, ScheduleSet
<1>4. QED
  BY <1>2, <1>3 DEF Safe, SameButSchedule, Engine!Running, EmergencySaid

LEMMA DrainSafe ==
  ASSUME NEW o, NEW e, NEW device, Safe(o, e, device), Disciplined(e.sch), ~e.sch.pending,
         NEW now \in Engine!Scheduler!Time, NEW f, f = Engine!DrainSchedulerRelease(e, now, device)
  PROVE  Safe(o, f, device) /\ f.sch.plan = e.sch.plan /\ ~Engine!Running(f)
<1>1. PICK d : d = [e EXCEPT !.sch = Engine!Scheduler!EmergencyRelease(e.sch)]
  OBVIOUS
<1>2. PICK g : g = Engine!ApplyDesiredLines(d, now, device)
  OBVIOUS
<1>3. PICK h : h = IF Engine!Running(e) THEN g ELSE e
  OBVIOUS
<1>4. f = Engine!ApplyPendingRelease(h, now, device)
  BY <1>1, <1>2, <1>3 DEF Engine!DrainSchedulerRelease
<1>5. Safe(o, d, device) /\ Disciplined(d.sch) /\ ~Engine!Running(d) /\ d.sch.plan = e.sch.plan
  <2>1. EmergencySaid(o, e, d, device)
    BY <1>1, EmergencySet
  <2>2. QED
    BY <2>1 DEF EmergencySaid
<1>6. Applies(o, d, g, device) \/ Stops(o, d, g, device)
  BY <1>2, <1>5, AppliedSafe
<1>7. Safe(o, g, device) /\ Disciplined(g.sch) /\ ~Engine!Running(g) /\ g.sch.plan = d.sch.plan
  <2>1. CASE Applies(o, d, g, device)
    BY <1>5, <2>1 DEF Applies, SameButPort, Engine!Running
  <2>2. CASE Stops(o, d, g, device)
    BY <2>2, PutIsCared DEF Stops, Halted, Worker, Safe, Engine!Busy
  <2>3. QED
    BY <1>6, <2>1, <2>2
<1>8. Safe(o, h, device) /\ Disciplined(h.sch) /\ ~Engine!Running(h) /\ h.sch.plan = e.sch.plan
  BY <1>3, <1>5, <1>7
<1>9. Settled(o, h, f, device)
  BY <1>4, <1>8, PendingSafe
<1>10. QED
  BY <1>8, <1>9 DEF Settled

LEMMA CloseInternalSafe ==
  ASSUME NEW o, NEW e, NEW device, Safe(o, e, device), Worker(e), NEW now \in Engine!Scheduler!Time,
         NEW f, f = Engine!CloseInternal(e, now, device)
  PROVE  Ended(o, e, f, device)
<1>1. PICK a : a = Engine!NotTuning(e)
  OBVIOUS
<1>2. PICK b : b = IF e.port.openSafe THEN Engine!DrainSchedulerRelease(a, now, device) ELSE a
  OBVIOUS
<1>3. PICK p : p = Engine!Adapter!Close(b.port, device)
  OBVIOUS
<1>4. f = [b EXCEPT !.port = p, !.fault = FALSE]
  BY <1>1, <1>2, <1>3 DEF Engine!CloseInternal
<1>5. a \in Engine!Engines /\ a.sch = e.sch /\ a.port = e.port
  BY <1>1, NotTuningIs DEF Worker
<1>6. Safe(o, a, device) /\ Disciplined(a.sch) /\ ~a.sch.pending
  BY <1>5 DEF Safe, Worker
<1>7. Safe(o, b, device) /\ b.sch.plan = e.sch.plan /\ (Engine!Running(b) => b.sch = e.sch)
  <2>1. CASE e.port.openSafe
    <3>1. Safe(o, b, device) /\ b.sch.plan = a.sch.plan /\ ~Engine!Running(b)
      BY <1>2, <1>6, <2>1, DrainSafe
    <3>2. QED
      BY <1>5, <3>1
  <2>2. CASE ~e.port.openSafe
    BY <1>2, <1>5, <1>6, <2>2
  <2>3. QED
    BY <2>1, <2>2
<1>8. PutDown(o, p, device)
  BY <1>3, <1>7, ClosePut DEF Safe
<1>9. f.port = p /\ f.sch = b.sch
  BY <1>4, <1>7 DEF Safe, Engine!Engines
<1>10. Worker(f) /\ Rest(f)
  BY CloseInternalIs
<1>11. QED
  BY <1>7, <1>8, <1>9, <1>10 DEF Ended, Winds, Engine!Running

LEMMA ConfigureSafe ==
  ASSUME NEW o, NEW e, NEW device, Safe(o, e, device), Worker(e), NEW now \in Engine!Scheduler!Time,
         NEW c \in Engine!EngineConfigs, NEW f, f = Engine!Configure(e, c, now, device)
  PROVE  Ended(o, e, f, device)
<1>1. PICK b : b = Engine!CloseInternal(e, now, device)
  OBVIOUS
<1>2. Ended(o, e, b, device)
  BY <1>1, CloseInternalSafe
<1>3. f = [b EXCEPT !.tune = c.tune, !.sch = Engine!Scheduler!NewScheduler(c.scheduler),
                    !.configured = Engine!ValidEngineConfig(c), !.fault = ~Engine!ValidEngineConfig(c)]
  BY <1>1 DEF Engine!Configure
<1>4. f.port = b.port /\ f.sch = Engine!Scheduler!NewScheduler(c.scheduler)
  BY <1>2, <1>3 DEF Ended, Worker, Engine!Engines
<1>5. f.sch.state = "Idle" /\ f.sch.plan = Engine!Scheduler!NoPlan
  BY <1>4 DEF Engine!Scheduler!NewScheduler
<1>6. Worker(f) /\ Rest(f)
  BY ConfigureIs
<1>7. QED
  BY <1>2, <1>4, <1>5, <1>6 DEF Ended, Winds, Engine!Running

LEMMA OpenSafeSafe ==
  ASSUME NEW o, NEW e, NEW device, Safe(o, e, device), Worker(e), NEW now \in Engine!Scheduler!Time,
         NEW opens \in BOOLEAN, NEW levels \in Engine!Adapter!Levels, e.configured,
         NEW f, f = Engine!OpenSafe(e, opens, levels, now, device)
  PROVE  Ended(o, e, f, device)
<1>1. PICK a : a = [e EXCEPT !.timer = Engine!Stopped]
  OBVIOUS
<1>2. PICK b : b = Engine!DrainSchedulerRelease(a, now, device)
  OBVIOUS
<1>3. PICK c : c = Engine!Adapter!Close(b.port, device)
  OBVIOUS
<1>4. PICK p : p = Engine!Adapter!Open(c, opens, levels, device)
  OBVIOUS
<1>5. PICK d : d = [b EXCEPT !.port = p]
  OBVIOUS
<1>6. f = Engine!FaultUnlessInactive(d)
  BY <1>1, <1>2, <1>3, <1>4, <1>5 DEF Engine!OpenSafe
<1>7. a \in Engine!Engines /\ SameButTimer(e, a)
  BY <1>1, TimerSet DEF Worker
<1>8. Safe(o, a, device) /\ Disciplined(a.sch) /\ ~a.sch.pending
  BY <1>7 DEF Safe, Worker, SameButTimer
<1>9. Safe(o, b, device) /\ b.sch.plan = a.sch.plan /\ ~Engine!Running(b)
  BY <1>2, <1>8, DrainSafe
<1>10. PutDown(o, c, device)
  BY <1>3, <1>9, ClosePut DEF Safe
<1>11. PutDown(o, p, device)
  BY <1>4, <1>10, PutIsCared, OpenPut
<1>12. f.port = p /\ f.sch = b.sch
  <2>1. d \in Engine!Engines /\ d.port = p /\ d.sch = b.sch
    BY <1>5, <1>9, <1>11, PortSet DEF Safe, PutDown, Sane, Honest, SameButPort
  <2>2. QED
    BY <1>6, <2>1 DEF Engine!FaultUnlessInactive, Engine!Engines
<1>13. Worker(f) /\ Rest(f)
  BY OpenSafeIs
<1>14. QED
  BY <1>7, <1>9, <1>11, <1>12, <1>13 DEF Ended, Winds, SameButTimer, Engine!Running

LEMMA StopTuneSafe ==
  ASSUME NEW o, NEW e, NEW device, Safe(o, e, device), Worker(e), NEW now \in Engine!Scheduler!Time,
         e.tuning, NEW f, f = Engine!StopTune(e, now, device)
  PROVE  Ended(o, e, f, device)
<1>1. PICK a : a = Engine!NotTuning(e)
  OBVIOUS
<1>2. PICK b : b = Engine!ReleaseEngine(a, device)
  OBVIOUS
<1>3. f = Engine!ReleasedOrFault(b, now, device)
  BY <1>1, <1>2 DEF Engine!StopTune
<1>4. a \in Engine!Engines /\ a.sch = e.sch /\ a.port = e.port
  BY <1>1, NotTuningIs DEF Worker
<1>5. b \in Engine!Engines /\ PutDown(o, b.port, device) /\ SameButPort(a, b)
  BY <1>2, <1>4, ReleaseEngineSafe DEF Safe
<1>6. PutDown(o, f.port, device) /\ Winds(e, f)
  <2>1. CASE f = b
    BY <1>4, <1>5, <2>1 DEF Winds, SameButPort
  <2>2. CASE f = Engine!FaultEngine(b, now, device)
    <3>1. Stops(o, b, f, device)
      BY <1>5, <2>2, PutIsCared, FaultEngineSafe DEF Safe
    <3>2. QED
      BY <1>4, <1>5, <3>1 DEF Stops, Winds, Halted, SameButPort, Engine!Busy
  <2>3. QED
    BY <1>3, <2>1, <2>2 DEF Engine!ReleasedOrFault
<1>7. Worker(f) /\ Rest(f)
  BY StopTuneIs
<1>8. QED
  BY <1>6, <1>7 DEF Ended

LEMMA CancelSafe ==
  ASSUME NEW o, NEW e, NEW device, Safe(o, e, device), Worker(e), NEW now \in Engine!Scheduler!Time,
         Engine!Busy(e), NEW f, f = Engine!Cancel(e, now, device)
  PROVE  Ended(o, e, f, device)
<1>0. e \in Engine!Engines /\ e.sch \in Engine!Scheduler!Schedulers /\ e.tuning \in BOOLEAN
  BY EngineHas DEF Worker
<1>1. CASE e.tuning
  <2>1. f = Engine!StopTune(e, now, device)
    BY <1>1 DEF Engine!Cancel
  <2>2. QED
    BY <1>1, <2>1, StopTuneSafe
<1>2. CASE ~e.tuning
  <2>0. Engine!Running(e)
    BY <1>2 DEF Engine!Busy
  <2>1. PICK sch : sch = Engine!Scheduler!Cancel(e.sch)
    OBVIOUS
  <2>2. PICK a : a = [e EXCEPT !.timer = Engine!Stopped, !.sch = sch]
    OBVIOUS
  <2>3. PICK b : b = Engine!ApplyDesiredLines(a, now, device)
    OBVIOUS
  <2>4. f = Engine!ApplyPendingRelease(b, now, device)
    BY <1>2, <2>0, <2>1, <2>2, <2>3 DEF Engine!Cancel
  <2>5. /\ sch \in Engine!Scheduler!Schedulers /\ Disciplined(sch) /\ ~sch.key /\ sch.pending = sch.ptt
        /\ sch.state = "Cancelled" /\ sch.plan = e.sch.plan
    <3>1. "Cancelled" \in Engine!Scheduler!States \ {"Running"}
      BY DEF Engine!Scheduler!States
    <3>2. sch = Engine!Scheduler!EnterTerminal(e.sch, "Cancelled")
      BY <2>0, <2>1 DEF Engine!Scheduler!Cancel, Engine!Running
    <3>3. QED
      BY <1>0, <3>1, <3>2, EndedIs
  <2>6. a \in Engine!Engines /\ a.sch = sch /\ a.port = e.port
    BY <1>0, <2>2, <2>5 DEF Engine!Engines
  <2>7. Applies(o, a, b, device) \/ Stops(o, a, b, device)
    BY <2>3, <2>6, AppliedSafe DEF Safe
  <2>8. PutDown(o, f.port, device) /\ Winds(e, f)
    <3>1. CASE Stops(o, a, b, device)
      <4>1. Safe(o, b, device) /\ Disciplined(b.sch) /\ ~b.sch.pending /\ ~Engine!Running(b)
        BY <3>1, PutIsCared DEF Stops, Halted, Worker, Safe, Engine!Busy
      <4>2. f = b
        BY <2>4, <4>1, PendingSafe DEF Settled
      <4>3. QED
        BY <2>5, <2>6, <3>1, <4>1, <4>2 DEF Stops, Winds
    <3>2. CASE Applies(o, a, b, device)
      <4>1. b.sch = sch /\ Safe(o, b, device) /\ Engine!LinesApplied(b)
        BY <2>6, <3>2 DEF Applies, SameButPort
      <4>2. Settled(o, b, f, device)
        BY <2>4, <2>5, <4>1, PendingSafe
      <4>3. ~Engine!Running(f) /\ f.sch.plan = e.sch.plan
        BY <2>5, <4>1, <4>2 DEF Settled, Engine!Running
      <4>4. PutDown(o, f.port, device)
        <5>1. CASE b.sch.pending
          BY <4>2, <5>1 DEF Settled
        <5>2. CASE ~b.sch.pending
          BY <2>5, <4>1, <4>2, <5>2, QuietPut DEF Settled
        <5>3. QED
          BY <5>1, <5>2
      <4>5. QED
        BY <4>3, <4>4 DEF Winds
    <3>3. QED
      BY <2>7, <3>1, <3>2
  <2>9. Worker(f) /\ Rest(f)
    BY CancelIs
  <2>10. QED
    BY <2>8, <2>9 DEF Ended
<1>3. QED
  BY <1>0, <1>1, <1>2

LEMMA EmergencyReleaseSafe ==
  ASSUME NEW o, NEW e, NEW device, Safe(o, e, device), Worker(e), NEW now \in Engine!Scheduler!Time,
         NEW f, f = Engine!EmergencyRelease(e, now, device)
  PROVE  Ended(o, e, f, device)
<1>1. PICK a : a = Engine!NotTuning(e)
  OBVIOUS
<1>2. PICK b : b = [a EXCEPT !.sch = Engine!Scheduler!EmergencyRelease(a.sch)]
  OBVIOUS
<1>3. PICK c : c = Engine!ApplyDesiredLines(b, now, device)
  OBVIOUS
<1>4. PICK sch : sch = Engine!Scheduler!Advance(c.sch, now)
  OBVIOUS
<1>5. PICK d : d = [c EXCEPT !.sch = sch]
  OBVIOUS
<1>6. PICK g : g = Engine!ApplyDesiredLines(d, now, device)
  OBVIOUS
<1>7. PICK h : h = Engine!ReleaseEngine(g, device)
  OBVIOUS
<1>8. f = [h EXCEPT !.fault = TRUE]
  <2>1. b = [Engine!NotTuning(e) EXCEPT !.sch = Engine!Scheduler!EmergencyRelease(@)]
    BY <1>1, <1>2
  <2>2. QED
    BY <1>3, <1>4, <1>5, <1>6, <1>7, <2>1 DEF Engine!EmergencyRelease
<1>9. a \in Engine!Engines /\ a.sch = e.sch /\ a.port = e.port
  BY <1>1, NotTuningIs DEF Worker
<1>10. Safe(o, b, device) /\ Disciplined(b.sch) /\ ~Engine!Running(b) /\ b.sch.plan = e.sch.plan
  <2>1. Safe(o, a, device)
    BY <1>9 DEF Safe
  <2>2. EmergencySaid(o, a, b, device)
    BY <1>2, <2>1, EmergencySet
  <2>3. QED
    BY <1>9, <2>2 DEF EmergencySaid
<1>11. Applies(o, b, c, device) \/ Stops(o, b, c, device)
  BY <1>3, <1>10, AppliedSafe
<1>12. Safe(o, c, device) /\ Disciplined(c.sch) /\ ~Engine!Running(c) /\ c.sch.plan = e.sch.plan
  <2>1. CASE Applies(o, b, c, device)
    BY <1>10, <2>1 DEF Applies, SameButPort, Engine!Running
  <2>2. CASE Stops(o, b, c, device)
    BY <1>10, <2>2, PutIsCared DEF Stops, Halted, Worker, Safe, Engine!Busy
  <2>3. QED
    BY <1>11, <2>1, <2>2
<1>13. sch \in Engine!Scheduler!Schedulers /\ sch.plan = e.sch.plan /\ sch.state # "Running"
  BY <1>4, <1>12, EngineHas, AdvanceIs DEF Safe, Engine!Running
<1>14. Safe(o, d, device) /\ d.sch = sch
  <2>1. d \in Engine!Engines /\ d.sch = sch /\ SameButSchedule(c, d)
    BY <1>5, <1>12, <1>13, ScheduleSet DEF Safe
  <2>2. QED
    BY <1>12, <2>1 DEF Safe, SameButSchedule
<1>15. Applies(o, d, g, device) \/ Stops(o, d, g, device)
  BY <1>6, <1>14, AppliedSafe
<1>16. Safe(o, g, device) /\ ~Engine!Running(g) /\ g.sch.plan = e.sch.plan
  <2>1. CASE Applies(o, d, g, device)
    BY <1>13, <1>14, <2>1 DEF Applies, SameButPort, Engine!Running
  <2>2. CASE Stops(o, d, g, device)
    BY <1>13, <1>14, <2>2, PutIsCared DEF Stops, Halted, Worker, Safe, Engine!Busy
  <2>3. QED
    BY <1>15, <2>1, <2>2
<1>17. h \in Engine!Engines /\ PutDown(o, h.port, device) /\ SameButPort(g, h)
  BY <1>7, <1>16, ReleaseEngineSafe
<1>18. f.port = h.port /\ f.sch = g.sch
  BY <1>8, <1>17 DEF Engine!Engines, SameButPort
<1>19. Worker(f) /\ Rest(f)
  BY EmergencyReleaseIs
<1>20. QED
  BY <1>16, <1>17, <1>18, <1>19 DEF Ended, Winds, Engine!Running
-----------------------------------------------------------------------------
(* What every call keeps: KEY has a deadline, and the timer looks at it.   *)

(* The deadline of the output, and the latest moment of KEY that was       *)
(* raised at k.                                                            *)
Deadline(e) == IF e.tuning THEN e.tuneDeadline ELSE e.sch.next
Bound(e, k) == k + (IF e.tuning THEN e.tune ELSE MaxKeyDown)
Within(e, k, t) == Deadline(e) <= Bound(e, k) /\ t <= Bound(e, k)

Timely(e, t, slip) ==
  e.timer # Engine!Stopped => t <= e.timer + slip /\ (e.timer <= Deadline(e) \/ e.timer <= t)
KeyLimited(e, k) == Engine!Active(e.port, "key") => Within(e, k, e.timer)

Wanted(e) ==
  /\ Engine!Active(e.port, "ptt") => e.sch.ptt \/ e.tuning
  /\ Engine!Active(e.port, "key") => e.sch.key \/ e.tuning
(* A message that was started while TUNE was left behind raises no KEY.    *)
OnePurpose(e) == e.tuning /\ Engine!Running(e) => ~Engine!Active(e.port, "key")
Fit(e, plans) ==
  /\ Sane(e.port) /\ Keeps(e.sch) /\ Wanted(e) /\ OnePurpose(e)
  /\ e.sch.plan \in plans \cup {Engine!Scheduler!NoPlan}
Tended(e, plans) == Worker(e) /\ Fit(e, plans)

Raised(e, k, t) == IF Engine!Active(e.port, "key") THEN k ELSE t
Leaves(e, f, device) ==
  Engine!Busy(e) /\ e.port.isOpen /\ ~Engine!Busy(f) => Lowered(f.port, device)
(* What a call made at t makes of a worker that is tended.                 *)
Turns(e, f, k, t, slip, plans, device) ==
  /\ Tended(f, plans) /\ Timely(f, t, slip) /\ KeyLimited(f, Raised(e, k, t))
  /\ Leaves(e, f, device)
Going(e, k, t, slip, plans) ==
  /\ Tended(e, plans) /\ Timely(e, t, slip) /\ KeyLimited(e, k)
  /\ t \in Engine!Scheduler!Time /\ k \in Int /\ slip \in Nat

LEMMA DownIs ==
  ASSUME NEW p, Down(p)
  PROVE  ~Engine!Active(p, "ptt") /\ ~Engine!Active(p, "key")
  BY DEF Down, Engine!Active, Engine!Adapter!Lines

LEMMA GoingSafe ==
  ASSUME NEW e, NEW k, NEW t, NEW slip, NEW plans, Going(e, k, t, slip, plans), NEW device
  PROVE  /\ Safe(e.port.isOpen, e, device) /\ Worker(e) /\ e \in Engine!Engines
         /\ Fit(e, plans) /\ t \in Engine!Scheduler!Time /\ e.sch.plan \in plans \cup {Engine!Scheduler!NoPlan}
  BY DEF Going, Tended, Fit, Safe, Cared, Worker

LEMMA EndedTurns ==
  ASSUME NEW e, NEW k, NEW t, NEW slip, NEW plans, Going(e, k, t, slip, plans), NEW device,
         NEW f, Ended(e.port.isOpen, e, f, device)
  PROVE  Turns(e, f, k, t, slip, plans, device)
<1>1. Worker(f) /\ f.timer = Engine!Stopped /\ Down(f.port) /\ Sane(f.port)
  BY DEF Ended, Rest, PutDown
<1>2. Keeps(f.sch)
  BY DEF Ended, Winds, Engine!Running, Keeps, Going, Tended, Fit
<1>3. f.sch.plan \in plans \cup {Engine!Scheduler!NoPlan}
  BY DEF Ended, Winds, Going, Tended, Fit
<1>4. ~Engine!Active(f.port, "ptt") /\ ~Engine!Active(f.port, "key")
  BY <1>1, DownIs
<1>5. Tended(f, plans)
  BY <1>1, <1>2, <1>3, <1>4 DEF Tended, Fit, Wanted, OnePurpose
<1>6. Leaves(e, f, device)
  BY DEF Ended, PutDown, Leaves
<1>7. QED
  BY <1>1, <1>4, <1>5, <1>6 DEF Turns, Timely, KeyLimited

LEMMA HaltedTurns ==
  ASSUME NEW e, NEW k, NEW t, NEW slip, NEW plans, NEW device,
         NEW f, Halted(f), PutDown(e.port.isOpen, f.port, device), f.sch.plan \in plans \cup {Engine!Scheduler!NoPlan}
  PROVE  Turns(e, f, k, t, slip, plans, device)
<1>1. Worker(f) /\ f.timer = Engine!Stopped /\ Down(f.port) /\ Sane(f.port) /\ ~Engine!Running(f)
  BY DEF Halted, Rest, PutDown, Engine!Busy
<1>2. Keeps(f.sch)
  BY <1>1 DEF Engine!Running, Keeps
<1>3. ~Engine!Active(f.port, "ptt") /\ ~Engine!Active(f.port, "key")
  BY <1>1, DownIs
<1>4. Tended(f, plans)
  BY <1>1, <1>2, <1>3 DEF Tended, Fit, Wanted, OnePurpose
<1>5. QED
  BY <1>1, <1>3, <1>4 DEF Turns, Timely, KeyLimited, Leaves, PutDown

LEMMA FaultTurns ==
  ASSUME NEW e, NEW k, NEW t \in Engine!Scheduler!Time, NEW slip, NEW plans, NEW device,
         NEW g, Safe(e.port.isOpen, g, device), g.sch.plan \in plans \cup {Engine!Scheduler!NoPlan},
         NEW f, f = Engine!FaultEngine(g, t, device)
  PROVE  Turns(e, f, k, t, slip, plans, device)
<1>1. Stops(e.port.isOpen, g, f, device)
  BY FaultEngineSafe
<1>2. QED
  BY <1>1, HaltedTurns DEF Stops

LEMMA NothingTurns ==
  ASSUME NEW e, NEW k, NEW t, NEW slip, NEW plans, Going(e, k, t, slip, plans), NEW device
  PROVE  Turns(e, e, k, t, slip, plans, device)
  BY DEF Going, Turns, KeyLimited, Raised, Leaves

LEMMA OnlyFaultTurns ==
  ASSUME NEW e, NEW k, NEW t, NEW slip, NEW plans, Going(e, k, t, slip, plans), NEW device,
         NEW f, f = [e EXCEPT !.fault = TRUE]
  PROVE  Turns(e, f, k, t, slip, plans, device)
<1>1. e \in Engine!Engines
  BY DEF Going, Tended, Worker
<1>2. /\ f \in Engine!Engines /\ f.sch = e.sch /\ f.port = e.port /\ f.timer = e.timer
      /\ f.tuning = e.tuning /\ f.tuneDeadline = e.tuneDeadline /\ f.tune = e.tune
  BY <1>1 DEF Engine!Engines
<1>3. Engine!Busy(f) = Engine!Busy(e) /\ Engine!Running(f) = Engine!Running(e)
  BY <1>2 DEF Engine!Busy, Engine!Running
<1>4. Worker(f)
  BY <1>2, <1>3 DEF Going, Tended, Worker
<1>5. Fit(f, plans)
  BY <1>2, <1>3 DEF Going, Tended, Fit, Wanted, OnePurpose
<1>6. Timely(f, t, slip) /\ KeyLimited(f, Raised(e, k, t))
  BY <1>2 DEF Going, Timely, KeyLimited, Within, Bound, Deadline, Raised
<1>7. QED
  BY <1>3, <1>4, <1>5, <1>6 DEF Turns, Tended, Leaves

(* The timer is set for the deadline, or for now.                          *)
Due(e, f, t) ==
  /\ f \in Engine!Engines /\ SameButTimer(e, f)
  /\ f.timer # Engine!Stopped => t <= f.timer
  /\ f.timer <= Deadline(e) \/ f.timer <= t

LEMMA TimerFallsDue ==
  ASSUME NEW e \in Engine!Engines, NEW t \in Engine!Scheduler!Time, NEW f, f = Engine!ScheduleTimer(e, t)
  PROVE  Due(e, f, t)
<1>1. PICK due : due = Deadline(e)
  OBVIOUS
<1>2. PICK delay : delay = IF due > t THEN Engine!Sooner(due - t, HealthPoll) ELSE 0
  OBVIOUS
<1>3. PICK timer : timer = Engine!Sooner(t + delay, MaxU64)
  OBVIOUS
<1>4. due \in 0..MaxU64 /\ t \in 0..MaxU64 /\ MaxU64 \in Nat /\ HealthPoll \in Nat
  BY <1>1, EngineHas, SchedulerHas, TimeIs, Limits DEF Deadline
<1>5. f = [e EXCEPT !.timer = IF Engine!Busy(e) THEN timer ELSE Engine!Stopped]
  BY <1>1, <1>2, <1>3 DEF Engine!ScheduleTimer, Deadline
<1>6. delay \in Nat /\ (due > t => delay <= due - t) /\ (due <= t => delay = 0)
  BY <1>2, <1>4 DEF Engine!Sooner
<1>7. timer \in Int /\ t <= timer /\ (timer <= due \/ timer <= t)
  BY <1>3, <1>4, <1>6 DEF Engine!Sooner
<1>8. f \in Engine!Engines /\ SameButTimer(e, f)
  BY ScheduleTimerIs
<1>9. f.timer = timer \/ f.timer = Engine!Stopped
  BY <1>5 DEF Engine!Engines
<1>10. QED
  BY <1>1, <1>4, <1>7, <1>8, <1>9, StoppedIsNoTime DEF Due

LEMMA TimedTurns ==
  ASSUME NEW e, NEW g \in Engine!Engines, NEW plans, Fit(g, plans), Disciplined(g.sch), ~g.sch.pending,
         Engine!Busy(g) \/ Down(g.port), NEW t \in Engine!Scheduler!Time, NEW slip \in Nat, NEW k, k \in Int,
         Engine!Active(g.port, "key") => Within(g, Raised(e, k, t), t),
         NEW device, Leaves(e, g, device), NEW f, f = Engine!ScheduleTimer(g, t)
  PROVE  Turns(e, f, k, t, slip, plans, device)
<1>1. Due(g, f, t)
  BY TimerFallsDue
<1>2. Worker(f)
  BY TimedIs
<1>3. /\ f.sch = g.sch /\ f.port = g.port /\ f.tuning = g.tuning
      /\ f.tuneDeadline = g.tuneDeadline /\ f.tune = g.tune
  BY <1>1 DEF Due, SameButTimer
<1>4. Engine!Busy(f) = Engine!Busy(g) /\ Engine!Running(f) = Engine!Running(g)
  BY <1>3 DEF Engine!Busy, Engine!Running
<1>5. Fit(f, plans)
  BY <1>3, <1>4 DEF Fit, Wanted, OnePurpose
<1>6. Deadline(f) = Deadline(g) /\ \A r : Bound(f, r) = Bound(g, r)
  BY <1>3 DEF Deadline, Bound
<1>7. f.timer \in Int /\ t \in Int /\ Deadline(g) \in Int
  BY <1>1, EngineHas, SchedulerHas, TimeIs, StoppedIsNoTime DEF Due, Deadline
<1>8. Timely(f, t, slip)
  BY <1>1, <1>6, <1>7 DEF Due, Timely
<1>9. Raised(e, k, t) \in Int /\ g.tune \in Int /\ MaxKeyDown \in Int
  BY <1>7, EngineHas, Limits DEF Raised
<1>10. KeyLimited(f, Raised(e, k, t))
  <2>1. CASE Engine!Active(g.port, "key")
    <3>1. PICK b : b = Bound(g, Raised(e, k, t))
      OBVIOUS
    <3>2. b \in Int
      BY <1>9, <3>1 DEF Bound
    <3>3. Deadline(g) <= b /\ t <= b
      BY <2>1, <3>1 DEF Within
    <3>4. f.timer <= b
      BY <1>1, <1>7, <3>2, <3>3 DEF Due
    <3>5. QED
      BY <1>6, <3>1, <3>3, <3>4 DEF KeyLimited, Within
  <2>2. CASE ~Engine!Active(g.port, "key")
    BY <1>3, <2>2 DEF KeyLimited
  <2>3. QED
    BY <2>1, <2>2
<1>11. Leaves(e, f, device)
  BY <1>3, <1>4 DEF Leaves
<1>12. QED
  BY <1>2, <1>5, <1>8, <1>10, <1>11 DEF Turns, Tended

LEMMA InactiveLines ==
  ASSUME NEW p, Engine!Adapter!KnownInactive(p)
  PROVE  Down(p) /\ ~Engine!Active(p, "ptt") /\ ~Engine!Active(p, "key")
<1>1. Down(p)
  BY DEF Engine!Adapter!KnownInactive, Engine!Adapter!AllInactive, Down
<1>2. QED
  BY <1>1, DownIs

(* A call that leaves the timer and the port of a worker with its lines    *)
(* down changes nothing that was promised.                                 *)
LEMMA QuietTurns ==
  ASSUME NEW e, NEW k, NEW t, NEW slip, NEW plans, Going(e, k, t, slip, plans),
         Down(e.port), e.timer # Engine!Stopped => e.tuning,
         NEW sch \in Engine!Scheduler!Schedulers, Disciplined(sch), ~sch.pending, sch.state # "Running",
         sch.plan \in plans \cup {Engine!Scheduler!NoPlan}, Engine!Running(e) => e.tuning,
         NEW f, f = [e EXCEPT !.sch = sch], NEW device
  PROVE  Turns(e, f, k, t, slip, plans, device)
<1>1. e \in Engine!Engines
  BY GoingSafe
<1>2. f \in Engine!Engines /\ f.sch = sch /\ SameButSchedule(e, f)
  BY <1>1, ScheduleSet
<1>3. ~Engine!Running(f) /\ Engine!Busy(f) = f.tuning /\ f.tuning = e.tuning /\ Engine!Busy(f) = Engine!Busy(e)
  <2>1. e.tuning \in BOOLEAN
    BY <1>1, EngineHas
  <2>2. QED
    BY <1>2, <2>1 DEF SameButSchedule, Engine!Busy, Engine!Running
<1>4. Down(f.port) /\ ~Engine!Active(f.port, "ptt") /\ ~Engine!Active(f.port, "key")
  BY <1>2, DownIs DEF SameButSchedule
<1>5. Worker(f)
  BY <1>2, <1>3, <1>4 DEF Worker, SameButSchedule
<1>6. Fit(f, plans)
  <2>1. Keeps(f.sch)
    BY <1>2 DEF Keeps
  <2>2. Sane(f.port)
    BY <1>2, GoingSafe DEF Fit, SameButSchedule
  <2>3. QED
    BY <1>2, <1>4, <2>1, <2>2 DEF Fit, Wanted, OnePurpose
<1>7. Timely(f, t, slip)
  BY <1>2 DEF Going, Timely, Deadline, SameButSchedule
<1>8. QED
  BY <1>3, <1>4, <1>5, <1>6, <1>7 DEF Turns, Tended, KeyLimited, Leaves

(* A message that begins has KEY up nowhere.                               *)
LEMMA KeyStartedTurns ==
  ASSUME NEW e, NEW k \in Int, NEW t \in Engine!Scheduler!Time, NEW slip \in Nat, NEW plans, NEW device,
         NEW g, Safe(e.port.isOpen, g, device), Disciplined(g.sch), Keeps(g.sch), ~g.sch.key,
         g.sch.plan \in plans \cup {Engine!Scheduler!NoPlan},
         NEW f, f = Engine!KeyStarted(g, t, device)
  PROVE  Turns(e, f, k, t, slip, plans, device)
<1>1. CASE ~Engine!Running(g)
  <2>1. f = Engine!FaultEngine(g, t, device)
    BY <1>1 DEF Engine!KeyStarted
  <2>2. QED
    BY <2>1, FaultTurns
<1>2. CASE Engine!Running(g)
  <2>1. PICK a : a = Engine!ApplyDesiredLines(g, t, device)
    OBVIOUS
  <2>2. f = Engine!TimedIfRunning(a, t)
    BY <1>2, <2>1 DEF Engine!KeyStarted
  <2>3. Applies(e.port.isOpen, g, a, device) \/ Stops(e.port.isOpen, g, a, device)
    BY <2>1, AppliedSafe
  <2>4. CASE Stops(e.port.isOpen, g, a, device)
    <3>1. Halted(a) /\ PutDown(e.port.isOpen, a.port, device) /\ a.sch.plan \in plans \cup {Engine!Scheduler!NoPlan}
      BY <2>4 DEF Stops
    <3>2. f = a
      BY <2>2, <3>1 DEF Engine!TimedIfRunning, Halted, Engine!Busy
    <3>3. QED
      BY <3>1, <3>2, HaltedTurns
  <2>5. CASE Applies(e.port.isOpen, g, a, device)
    <3>1. a \in Engine!Engines /\ Sane(a.port) /\ a.sch = g.sch /\ Engine!LinesApplied(a)
      BY <2>5 DEF Applies, Safe, Cared, SameButPort
    <3>2. Engine!Running(a) /\ Engine!Busy(a)
      BY <1>2, <3>1 DEF Engine!Running, Engine!Busy
    <3>3. f = Engine!ScheduleTimer(a, t)
      BY <2>2, <3>2 DEF Engine!TimedIfRunning
    <3>4. ~Engine!Active(a.port, "key")
      BY <3>1 DEF Engine!LinesApplied
    <3>5. Fit(a, plans)
      BY <3>1, <3>4 DEF Fit, Wanted, OnePurpose, Engine!LinesApplied
    <3>6. Disciplined(a.sch) /\ ~a.sch.pending
      BY <3>1, <3>2 DEF Disciplined, Engine!Running
    <3>7. Leaves(e, a, device)
      BY <3>2 DEF Leaves
    <3>8. QED
      BY <3>1, <3>2, <3>3, <3>4, <3>5, <3>6, <3>7, TimedTurns
  <2>6. QED
    BY <2>3, <2>4, <2>5
<1>3. QED
  BY <1>1, <1>2

LEMMA ResetTurns ==
  ASSUME NEW sch \in Engine!Scheduler!Schedulers, ~(sch.state # "Idle" /\ ~Engine!Scheduler!Resettable(sch)), NEW t, t = Engine!Scheduler!Reset(sch)
  PROVE  t.state # "Running" /\ t.plan \in {sch.plan, Engine!Scheduler!NoPlan}
<1>1. CASE Engine!Scheduler!Resettable(sch)
  BY <1>1 DEF Engine!Scheduler!Reset, Engine!Scheduler!NewScheduler
<1>2. CASE ~Engine!Scheduler!Resettable(sch)
  BY <1>2 DEF Engine!Scheduler!Reset
<1>3. QED
  BY <1>1, <1>2

LEMMA StartTurns ==
  ASSUME NEW e, NEW k, NEW t, NEW slip, NEW plans, Going(e, k, t, slip, plans), NEW device,
         NEW plan \in Engine!Scheduler!Plans, plan \in plans, NEW confirmed \in BOOLEAN,
         NEW f, f = Engine!Start(e, plan, confirmed, t, device)
  PROVE  Turns(e, f, k, t, slip, plans, device)
<1>0. /\ Safe(e.port.isOpen, e, device) /\ Worker(e) /\ e \in Engine!Engines
      /\ Fit(e, plans) /\ t \in Engine!Scheduler!Time /\ e.sch.plan \in plans \cup {Engine!Scheduler!NoPlan}
  BY GoingSafe
<1>1. CASE ~confirmed
  <2>1. f = e
    BY <1>1 DEF Engine!Start
  <2>2. QED
    BY <2>1, NothingTurns
<1>2. CASE confirmed /\ ~Engine!Adapter!KnownInactive(e.port)
  <2>1. f = [e EXCEPT !.fault = TRUE]
    BY <1>2 DEF Engine!Start
  <2>2. QED
    BY <2>1, OnlyFaultTurns
<1>3. CASE confirmed /\ Engine!Adapter!KnownInactive(e.port) /\ e.sch.state # "Idle" /\ ~Engine!Scheduler!Resettable(e.sch)
  <2>1. f = Engine!FaultEngine(e, t, device)
    BY <1>3 DEF Engine!Start
  <2>2. QED
    BY <1>0, <2>1, FaultTurns
<1>4. CASE confirmed /\ Engine!Adapter!KnownInactive(e.port) /\ ~(e.sch.state # "Idle" /\ ~Engine!Scheduler!Resettable(e.sch))
  <2>1. PICK sch : sch = Engine!Scheduler!Reset(e.sch)
    OBVIOUS
  <2>2. PICK a : a = [e EXCEPT !.sch = sch]
    OBVIOUS
  <2>3. f = Engine!StartPlan(a, plan, t, device)
    BY <1>4, <2>1, <2>2 DEF Engine!Start
  <2>4. e.sch \in Engine!Scheduler!Schedulers /\ Disciplined(e.sch) /\ ~e.sch.pending
    BY <1>0, EngineHas DEF Worker
  <2>5. sch \in Engine!Scheduler!Schedulers /\ Disciplined(sch) /\ ~sch.pending
    BY <2>1, <2>4, ResetIs
  <2>6. sch.state # "Running" /\ sch.plan \in plans \cup {Engine!Scheduler!NoPlan}
    BY <1>0, <1>4, <2>1, <2>4, ResetTurns
  <2>7. ~Engine!Running(e)
    BY <1>4 DEF Engine!Running, Engine!Scheduler!Resettable
  <2>8. Down(e.port)
    BY <1>4, InactiveLines
  <2>9. a \in Engine!Engines /\ a.sch = sch /\ SameButSchedule(e, a)
    BY <1>0, <2>2, <2>5, ScheduleSet
  <2>10. CASE a.fault
    <3>1. f = a
      BY <2>3, <2>10 DEF Engine!StartPlan
    <3>2. e.timer # Engine!Stopped => e.tuning
      BY <1>0, <2>7 DEF Worker, Engine!Busy
    <3>3. QED
      BY <2>2, <2>5, <2>6, <2>7, <2>8, <3>1, <3>2, QuietTurns
  <2>11. CASE ~a.fault
    <3>1. PICK s : s = Engine!Scheduler!Start(a.sch, plan, t)
      OBVIOUS
    <3>2. PICK g : g = [a EXCEPT !.sch = s]
      OBVIOUS
    <3>3. f = Engine!KeyStarted(g, t, device)
      BY <2>3, <2>11, <3>1, <3>2 DEF Engine!StartPlan
    <3>4. s \in Engine!Scheduler!Schedulers /\ Disciplined(s)
      BY <1>0, <2>5, <2>9, <3>1, StartIs
    <3>5. Keeps(s) /\ ~s.key /\ s.plan \in {sch.plan, plan}
      BY <1>0, <2>5, <2>9, <3>1, StartKeeps
    <3>6. g \in Engine!Engines /\ g.sch = s /\ SameButSchedule(a, g)
      BY <2>9, <3>2, <3>4, ScheduleSet
    <3>7. Safe(e.port.isOpen, g, device)
      BY <1>0, <2>9, <3>6 DEF Safe, SameButSchedule
    <3>8. s.plan \in plans \cup {Engine!Scheduler!NoPlan}
      BY <2>6, <3>5
    <3>9. k \in Int /\ slip \in Nat
      BY DEF Going
    <3>10. QED
      BY <1>0, <3>3, <3>4, <3>5, <3>6, <3>7, <3>8, <3>9, KeyStartedTurns
  <2>12. QED
    BY <2>10, <2>11
<1>5. QED
  BY <1>1, <1>2, <1>3, <1>4

(* TUNE that begins raises KEY now, and has its deadline then.             *)
LEMMA StartTuneTurns ==
  ASSUME NEW e, NEW k, NEW t, NEW slip, NEW plans, Going(e, k, t, slip, plans), NEW device,
         NEW authorized \in BOOLEAN, NEW f, f = Engine!StartTune(e, authorized, t, device)
  PROVE  Turns(e, f, k, t, slip, plans, device)
<1>0. /\ Safe(e.port.isOpen, e, device) /\ Worker(e) /\ e \in Engine!Engines
      /\ Fit(e, plans) /\ t \in Engine!Scheduler!Time /\ e.sch.plan \in plans \cup {Engine!Scheduler!NoPlan}
  BY GoingSafe
<1>1. CASE ~authorized \/ Engine!Busy(e) \/ ~Engine!Adapter!KnownInactive(e.port)
  <2>1. f = e
    BY <1>1 DEF Engine!StartTune
  <2>2. QED
    BY <2>1, NothingTurns
<1>2. CASE ~(~authorized \/ Engine!Busy(e) \/ ~Engine!Adapter!KnownInactive(e.port)) /\ (e.fault \/ t > MaxU64 - e.tune)
  <2>1. f = Engine!FaultEngine(e, t, device)
    BY <1>2 DEF Engine!StartTune
  <2>2. QED
    BY <1>0, <2>1, FaultTurns
<1>3. CASE ~(~authorized \/ Engine!Busy(e) \/ ~Engine!Adapter!KnownInactive(e.port)) /\ ~(e.fault \/ t > MaxU64 - e.tune)
  <2>1. PICK p : p = Engine!KeyUnderPtt(Engine!Adapter!SetLine(e.port, "ptt", TRUE, device), device)
    OBVIOUS
  <2>2. PICK a : a = [e EXCEPT !.port = p]
    OBVIOUS
  <2>3. f = Engine!TuneKeyed(a, t, device)
    BY <1>3, <2>1, <2>2 DEF Engine!StartTune
  <2>4. Cared(e.port.isOpen, p, device)
    BY <1>0, <2>1, RaiseBothCared DEF Safe
  <2>5. p \in Engine!Adapter!Ports /\ Sane(p)
    BY <2>4 DEF Cared, Sane, Honest
  <2>6. a \in Engine!Engines /\ a.port = p /\ SameButPort(e, a)
    BY <1>0, <2>2, <2>5, PortSet
  <2>7. Safe(e.port.isOpen, a, device) /\ a.sch.plan \in plans \cup {Engine!Scheduler!NoPlan}
    BY <1>0, <2>4, <2>6 DEF Safe, SameButPort
  <2>8. CASE ~Engine!Adapter!LineIs(a.port, "key", TRUE)
    <3>1. f = Engine!FaultEngine(a, t, device)
      BY <2>3, <2>8 DEF Engine!TuneKeyed
    <3>2. QED
      BY <1>0, <2>7, <3>1, FaultTurns
  <2>9. CASE Engine!Adapter!LineIs(a.port, "key", TRUE)
    <3>1. PICK due : due = t + a.tune
      OBVIOUS
    <3>2. PICK g : g = [a EXCEPT !.tuning = TRUE, !.tuneDeadline = due]
      OBVIOUS
    <3>3. f = Engine!ScheduleTimer(g, t)
      BY <2>3, <2>9, <3>1, <3>2 DEF Engine!TuneKeyed
    <3>4. t \in Int /\ t >= 0 /\ e.tune \in Nat /\ MaxU64 \in Nat /\ a.tune = e.tune
      BY <1>0, <2>6, EngineHas, TimeIs, Limits DEF SameButPort
    <3>5. due \in Engine!Time /\ t <= due
      BY <1>3, <3>1, <3>4, TimeIs DEF Engine!Time
    <3>6. /\ g \in Engine!Engines /\ g.tuning = TRUE /\ g.tuneDeadline = due /\ g.sch = e.sch
          /\ g.port = p /\ g.tune = a.tune
      BY <2>6, <3>2, <3>5 DEF Engine!Engines, SameButPort
    <3>7. ~Engine!Running(e) /\ ~Engine!Active(e.port, "key")
      BY <1>3, InactiveLines DEF Engine!Busy
    <3>8. Fit(g, plans)
      BY <1>0, <2>5, <3>6, <3>7 DEF Fit, Wanted, OnePurpose, Engine!Running
    <3>9. Disciplined(g.sch) /\ ~g.sch.pending /\ Engine!Busy(g)
      BY <1>0, <3>6 DEF Worker, Engine!Busy
    <3>10. Raised(e, k, t) = t
      BY <3>7 DEF Raised
    <3>11. Within(g, Raised(e, k, t), t)
      BY <3>1, <3>4, <3>5, <3>6, <3>10 DEF Within, Bound, Deadline, Engine!Time
    <3>12. Leaves(e, g, device)
      BY <3>9 DEF Leaves
    <3>13. k \in Int /\ slip \in Nat
      BY DEF Going
    <3>14. QED
      BY <1>0, <3>3, <3>6, <3>8, <3>9, <3>11, <3>12, <3>13, TimedTurns
  <2>10. QED
    BY <2>8, <2>9
<1>4. QED
  BY <1>1, <1>2, <1>3

LEMMA BackendErrorTurns ==
  ASSUME NEW e, NEW k, NEW t, NEW slip, NEW plans, Going(e, k, t, slip, plans), NEW device,
         e.port.isOpen, NEW f, f = Engine!BackendError(e, device)
  PROVE  Turns(e, f, k, t, slip, plans, device)
<1>0. Worker(e) /\ e \in Engine!Engines /\ Fit(e, plans)
  BY GoingSafe
<1>1. PICK p : p = Engine!Adapter!BackendError(e.port, device)
  OBVIOUS
<1>2. f = [e EXCEPT !.port = p]
  BY <1>1 DEF Engine!BackendError
<1>3. PutDown(e.port.isOpen, p, device)
  BY <1>0, <1>1, BackendErrorPut DEF Fit
<1>4. Sane(p) /\ p \in Engine!Adapter!Ports
  BY <1>3 DEF PutDown, Sane, Honest
<1>5. Worker(f) /\ SameButPort(e, f) /\ Down(f.port)
  BY <1>0, BackendErrorOfWorker
<1>6. f.port = p
  BY <1>0, <1>2, <1>4, PortSet
<1>7. ~Engine!Active(f.port, "ptt") /\ ~Engine!Active(f.port, "key")
  BY <1>5, DownIs
<1>8. Fit(f, plans)
  BY <1>0, <1>4, <1>5, <1>6, <1>7 DEF Fit, Wanted, OnePurpose, SameButPort
<1>9. Timely(f, t, slip)
  BY <1>5 DEF Going, Timely, Deadline, SameButPort
<1>10. QED
  BY <1>3, <1>5, <1>6, <1>7, <1>8, <1>9 DEF Turns, Tended, KeyLimited, Leaves, PutDown

LEMMA TuneTickTurns ==
  ASSUME NEW e, NEW k \in Int, NEW t \in Engine!Scheduler!Time, NEW slip \in Nat, NEW plans, NEW device,
         NEW g, Safe(e.port.isOpen, g, device), Fit(g, plans), Disciplined(g.sch), ~g.sch.pending,
         g.tuning, g.port = e.port, Engine!Active(e.port, "key") => Deadline(g) <= Bound(g, k),
         NEW f, f = Engine!TuneTick(g, t, device)
  PROVE  Turns(e, f, k, t, slip, plans, device)
<1>1. CASE f = Engine!FaultEngine(g, t, device)
  <2>1. g.sch.plan \in plans \cup {Engine!Scheduler!NoPlan}
    BY DEF Fit
  <2>2. QED
    BY <1>1, <2>1, FaultTurns
<1>2. CASE f = Engine!ScheduleTimer(g, t) /\ f # Engine!FaultEngine(g, t, device)
  <2>1. ~(~Engine!Active(g.port, "ptt") \/ ~Engine!Active(g.port, "key") \/ t >= g.tuneDeadline)
    BY <1>2 DEF Engine!TuneTick
  <2>2. g \in Engine!Engines
    BY DEF Safe
  <2>3. Raised(e, k, t) = k /\ Deadline(g) <= Bound(g, k)
    BY <2>1 DEF Raised
  <2>4. t <= Bound(g, k)
    <3>1. t \in Int /\ g.tuneDeadline \in Int /\ g.tune \in Int /\ Deadline(g) = g.tuneDeadline
      BY <2>2, EngineHas, TimeIs DEF Deadline
    <3>2. Bound(g, k) \in Int
      BY <3>1 DEF Bound
    <3>3. QED
      BY <2>1, <2>3, <3>1, <3>2
  <2>5. Engine!Busy(g) /\ Leaves(e, g, device)
    BY DEF Engine!Busy, Leaves
  <2>6. Within(g, Raised(e, k, t), t)
    BY <2>3, <2>4 DEF Within
  <2>7. QED
    BY <1>2, <2>2, <2>5, <2>6, TimedTurns
<1>3. QED
  BY <1>1, <1>2 DEF Engine!TuneTick

(* The schedule goes on as it was.                                         *)
LEMMA WaitTurns ==
  ASSUME NEW e, NEW k \in Int, NEW t \in Engine!Scheduler!Time, NEW slip \in Nat, NEW plans, NEW device,
         NEW a \in Engine!Engines, Fit(a, plans), Disciplined(a.sch), ~a.sch.pending,
         ~a.tuning, Engine!Running(a), a.port = e.port,
         Engine!Active(e.port, "key") => Deadline(a) <= Bound(a, k),
         NEW sch \in Engine!Scheduler!Schedulers, Waits(a.sch, sch, t),
         NEW g, g = [a EXCEPT !.sch = sch], NEW f, f = Engine!ScheduleTimer(g, t)
  PROVE  Turns(e, f, k, t, slip, plans, device)
<1>1. g \in Engine!Engines /\ g.sch = sch /\ SameButSchedule(a, g)
  BY ScheduleSet
<1>2. /\ sch.plan = a.sch.plan /\ sch.state = a.sch.state /\ sch.key = a.sch.key
      /\ sch.ptt = a.sch.ptt /\ sch.next = a.sch.next /\ sch.pending = a.sch.pending
  BY EngineHas DEF Waits, Engine!Scheduler!Schedulers
<1>3. Disciplined(sch) /\ ~sch.pending /\ Keeps(sch) /\ t < a.sch.next
  <2>1. a.sch \in Engine!Scheduler!Schedulers /\ sch = [a.sch EXCEPT !.last = t]
    BY EngineHas DEF Waits
  <2>2. Disciplined(sch)
    BY <2>1, LastIs
  <2>3. QED
    BY <1>2, <2>2 DEF Waits
<1>4. g.port = e.port /\ g.tuning = a.tuning /\ g.tune = a.tune
  BY <1>1 DEF SameButSchedule
<1>5. Engine!Running(g) /\ Engine!Busy(g) /\ Deadline(g) = Deadline(a) /\ Deadline(g) = a.sch.next
  BY <1>1, <1>2, <1>4 DEF Engine!Running, Engine!Busy, Deadline
<1>6. Fit(g, plans)
  BY <1>1, <1>2, <1>3, <1>4, <1>5 DEF Fit, Wanted, OnePurpose
<1>7. ASSUME Engine!Active(g.port, "key") PROVE Within(g, Raised(e, k, t), t)
  <2>1. Raised(e, k, t) = k /\ Deadline(g) <= Bound(g, k)
    BY <1>4, <1>5, <1>7 DEF Raised, Bound
  <2>2. t \in Int /\ a.sch.next \in Int /\ MaxKeyDown \in Int /\ Bound(g, k) = k + MaxKeyDown
    BY <1>4, EngineHas, SchedulerHas, TimeIs, Limits DEF Bound
  <2>3. QED
    BY <1>3, <1>5, <2>1, <2>2 DEF Within
<1>8. Leaves(e, g, device)
  BY <1>5 DEF Leaves
<1>9. QED
  BY <1>1, <1>3, <1>5, <1>6, <1>7, <1>8, TimedTurns

(* The schedule has reached the next of its spans, or its end.             *)
LEMMA ChangeTurns ==
  ASSUME NEW e, NEW k \in Int, NEW t \in Engine!Scheduler!Time, NEW slip \in Nat, NEW plans, NEW device,
         NEW a, Safe(e.port.isOpen, a, device), Wanted(a), ~a.tuning, a.port = e.port,
         NEW sch \in Engine!Scheduler!Schedulers, Changes(a.sch, sch, t), Disciplined(sch), ~sch.pending,
         sch.plan \in plans \cup {Engine!Scheduler!NoPlan},
         NEW g, g = [a EXCEPT !.sch = sch],
         NEW f, f = Engine!TimedIfApplied(Engine!ApplyDesiredLines(g, t, device), t)
  PROVE  Turns(e, f, k, t, slip, plans, device)
<1>0. a \in Engine!Engines
  BY DEF Safe
<1>1. g \in Engine!Engines /\ g.sch = sch /\ SameButSchedule(a, g)
  BY <1>0, ScheduleSet
<1>2. Safe(e.port.isOpen, g, device) /\ ~g.tuning
  BY <1>1 DEF Safe, SameButSchedule
<1>3. PICK b : b = Engine!ApplyDesiredLines(g, t, device)
  OBVIOUS
<1>4. f = Engine!TimedIfApplied(b, t)
  BY <1>3
<1>5. Applies(e.port.isOpen, g, b, device) \/ Stops(e.port.isOpen, g, b, device)
  BY <1>2, <1>3, AppliedSafe
<1>6. CASE Stops(e.port.isOpen, g, b, device)
  <2>1. Halted(b) /\ PutDown(e.port.isOpen, b.port, device) /\ b.sch.plan \in plans \cup {Engine!Scheduler!NoPlan}
    BY <1>1, <1>6 DEF Stops
  <2>2. CASE f = b
    BY <2>1, <2>2, HaltedTurns
  <2>3. CASE f = Engine!ScheduleTimer(b, t)
    <3>1. b \in Engine!Engines /\ Disciplined(b.sch) /\ ~b.sch.pending /\ Down(b.port) /\ ~Engine!Running(b)
      BY <2>1 DEF Halted, Worker, Rest, Engine!Busy
    <3>2. ~Engine!Active(b.port, "ptt") /\ ~Engine!Active(b.port, "key")
      BY <3>1, DownIs
    <3>3. Keeps(b.sch)
      BY <3>1 DEF Keeps, Engine!Running
    <3>4. Fit(b, plans)
      BY <2>1, <3>1, <3>2, <3>3 DEF Fit, Wanted, OnePurpose, PutDown
    <3>5. Leaves(e, b, device)
      BY <2>1 DEF Leaves, PutDown
    <3>6. QED
      BY <2>3, <3>1, <3>2, <3>4, <3>5, TimedTurns
  <2>4. QED
    BY <1>4, <2>2, <2>3 DEF Engine!TimedIfApplied
<1>7. CASE Applies(e.port.isOpen, g, b, device)
  <2>1. /\ b \in Engine!Engines /\ Safe(e.port.isOpen, b, device) /\ Sane(b.port)
        /\ b.sch = sch /\ Engine!LinesApplied(b) /\ ~b.tuning
    BY <1>1, <1>2, <1>7 DEF Applies, Safe, Cared, SameButPort
  <2>2. f = Engine!ScheduleTimer(b, t)
    BY <1>4, <2>1 DEF Engine!TimedIfApplied
  <2>3. Fit(b, plans)
    BY <2>1 DEF Changes, Fit, Wanted, OnePurpose, Engine!LinesApplied
  <2>4. Engine!Busy(b) \/ (Down(b.port) /\ PutDown(e.port.isOpen, b.port, device))
    <3>1. CASE Engine!Running(b)
      BY <3>1 DEF Engine!Busy
    <3>2. CASE ~Engine!Running(b)
      <4>1. ~b.sch.ptt /\ ~b.sch.key
        BY <2>1, <3>2 DEF Disciplined, Engine!Running
      <4>2. QED
        BY <2>1, <4>1, LinesAppliedDown, QuietPut
    <3>3. QED
      BY <3>1, <3>2
  <2>5. Leaves(e, b, device)
    BY <2>4 DEF Leaves, PutDown
  <2>6. ASSUME Engine!Active(b.port, "key") PROVE Within(b, Raised(e, k, t), t)
    <3>1. sch.key
      BY <2>1, <2>6 DEF Engine!LinesApplied
    <3>2. ~a.sch.key /\ sch.next <= t + MaxKeyDown
      BY <3>1 DEF Changes
    <3>3. ~Engine!Active(e.port, "key")
      BY <3>2 DEF Wanted
    <3>4. Raised(e, k, t) = t
      BY <3>3 DEF Raised
    <3>5. t \in Int /\ MaxKeyDown \in Nat
      BY TimeIs, Limits
    <3>6. QED
      BY <2>1, <3>2, <3>4, <3>5 DEF Within, Bound, Deadline
  <2>7. Disciplined(b.sch) /\ ~b.sch.pending
    BY <2>1
  <2>8. QED
    BY <2>1, <2>2, <2>3, <2>4, <2>5, <2>6, <2>7, TimedTurns
<1>8. QED
  BY <1>5, <1>6, <1>7

LEMMA SchedulerTickTurns ==
  ASSUME NEW e, NEW k \in Int, NEW t \in Engine!Scheduler!Time, NEW slip \in Nat, NEW plans, NEW device,
         NEW a, Safe(e.port.isOpen, a, device), Fit(a, plans), Disciplined(a.sch), ~a.sch.pending,
         ~a.tuning, Engine!Running(a), a.port = e.port,
         Engine!Active(e.port, "key") => Deadline(a) <= Bound(a, k),
         NEW f, f = Engine!SchedulerTick(a, t, device)
  PROVE  Turns(e, f, k, t, slip, plans, device)
<1>0. a \in Engine!Engines /\ a.sch \in Engine!Scheduler!Schedulers /\ a.sch.state = "Running" /\ Keeps(a.sch)
  BY EngineHas DEF Safe, Fit, Engine!Running
<1>1. PICK sch : sch = Engine!Scheduler!Advance(a.sch, t)
  OBVIOUS
<1>2. PICK result : result = Engine!Scheduler!AdvanceResult(a.sch, t)
  OBVIOUS
<1>3. PICK g : g = [a EXCEPT !.sch = sch]
  OBVIOUS
<1>4. f = Engine!Follow(g, result, t, device)
  BY <1>1, <1>2, <1>3 DEF Engine!SchedulerTick
<1>5. /\ sch \in Engine!Scheduler!Schedulers /\ Disciplined(sch) /\ sch.plan = a.sch.plan
      /\ sch.state # "Fault" => ~sch.pending
  BY <1>0, <1>1, AdvanceIs
<1>6. result = Engine!Scheduler!ResultOf(a.sch, sch)
  BY <1>1, <1>2 DEF Engine!Scheduler!AdvanceResult
<1>7. Waits(a.sch, sch, t) \/ Changes(a.sch, sch, t)
  BY <1>0, <1>1, AdvanceMoves
<1>8. /\ result = "NoChange" => Waits(a.sch, sch, t)
      /\ result = "Transition" => Changes(a.sch, sch, t)
  BY <1>0, <1>5, <1>6, <1>7, AnswerSays
<1>9. /\ result \in {"Faulted", "NoChange", "Transition"}
      /\ result # "Faulted" => sch.state # "Fault"
  <2>1. [a.sch EXCEPT !.last = sch.last].state = "Running"
    BY <1>0 DEF Engine!Scheduler!Schedulers
  <2>2. QED
    BY <1>0, <1>6, <2>1 DEF Engine!Scheduler!ResultOf
<1>10. g \in Engine!Engines /\ g.sch = sch /\ SameButSchedule(a, g)
  BY <1>0, <1>3, <1>5, ScheduleSet
<1>11. Safe(e.port.isOpen, g, device) /\ sch.plan \in plans \cup {Engine!Scheduler!NoPlan}
  BY <1>5, <1>10 DEF Safe, SameButSchedule, Fit
<1>12. CASE result = "Faulted"
  <2>1. f = Engine!FaultEngine(g, t, device)
    BY <1>4, <1>12 DEF Engine!Follow
  <2>2. QED
    BY <1>10, <1>11, <2>1, FaultTurns
<1>13. CASE result = "NoChange"
  <2>1. f = Engine!ScheduleTimer(g, t)
    BY <1>4, <1>13 DEF Engine!Follow
  <2>2. QED
    BY <1>0, <1>3, <1>5, <1>8, <1>13, <2>1, WaitTurns
<1>14. CASE result = "Transition"
  <2>1. f = Engine!TimedIfApplied(Engine!ApplyDesiredLines(g, t, device), t)
    BY <1>4, <1>14 DEF Engine!Follow
  <2>2. Wanted(a)
    BY DEF Fit
  <2>3. QED
    BY <1>3, <1>5, <1>8, <1>9, <1>11, <1>14, <2>1, <2>2, ChangeTurns
<1>15. QED
  BY <1>9, <1>12, <1>13, <1>14

LEMMA HandleTimerTurns ==
  ASSUME NEW e, NEW k, NEW t, NEW slip, NEW plans, Going(e, k, t, slip, plans), NEW device,
         e.timer # Engine!Stopped, NEW f, f = Engine!HandleTimer(e, t, device)
  PROVE  Turns(e, f, k, t, slip, plans, device)
<1>0. /\ Safe(e.port.isOpen, e, device) /\ Worker(e) /\ e \in Engine!Engines
      /\ Fit(e, plans) /\ t \in Engine!Scheduler!Time /\ e.sch.plan \in plans \cup {Engine!Scheduler!NoPlan}
  BY GoingSafe
<1>1. PICK a : a = [e EXCEPT !.timer = Engine!Stopped]
  OBVIOUS
<1>2. f = Engine!TimerExpired(a, t, device)
  BY <1>1 DEF Engine!HandleTimer
<1>3. a \in Engine!Engines /\ SameButTimer(e, a)
  BY <1>0, <1>1, TimerSet
<1>4. a.port = e.port /\ a.sch = e.sch /\ a.tuning = e.tuning /\ a.tune = e.tune
      /\ a.tuneDeadline = e.tuneDeadline
  BY <1>3 DEF SameButTimer
<1>5. Safe(e.port.isOpen, a, device)
  BY <1>0, <1>3, <1>4 DEF Safe
<1>6. Fit(a, plans)
  BY <1>0, <1>4 DEF Fit, Wanted, OnePurpose, Engine!Running
<1>7. Disciplined(a.sch) /\ ~a.sch.pending /\ (a.tuning \/ Engine!Running(a))
  BY <1>0, <1>4 DEF Worker, Engine!Busy, Engine!Running
<1>8. Engine!Active(e.port, "key") => Deadline(a) <= Bound(a, k)
  BY <1>4 DEF Going, KeyLimited, Within, Deadline, Bound
<1>9. k \in Int /\ slip \in Nat
  BY DEF Going
<1>10. CASE Engine!Adapter!FaultOrUnknown(a.port)
  <2>1. f = Engine!FaultEngine(a, t, device)
    BY <1>2, <1>10 DEF Engine!TimerExpired
  <2>2. QED
    BY <1>0, <1>4, <1>5, <2>1, FaultTurns
<1>11. CASE ~Engine!Adapter!FaultOrUnknown(a.port) /\ a.tuning
  <2>1. f = Engine!TuneTick(a, t, device)
    BY <1>2, <1>11 DEF Engine!TimerExpired
  <2>2. QED
    BY <1>0, <1>4, <1>5, <1>6, <1>7, <1>8, <1>9, <1>11, <2>1, TuneTickTurns
<1>12. CASE ~Engine!Adapter!FaultOrUnknown(a.port) /\ ~a.tuning
  <2>1. f = Engine!SchedulerTick(a, t, device)
    BY <1>2, <1>12 DEF Engine!TimerExpired
  <2>2. QED
    BY <1>0, <1>4, <1>5, <1>6, <1>7, <1>8, <1>9, <1>12, <2>1, SchedulerTickTurns
<1>13. QED
  BY <1>10, <1>11, <1>12

(* The calls that end an output.                                           *)
LEMMA OpenSafeTurns ==
  ASSUME NEW e, NEW k, NEW t, NEW slip, NEW plans, Going(e, k, t, slip, plans), NEW device,
         NEW opens \in BOOLEAN, NEW levels \in Engine!Adapter!Levels,
         NEW f, f = Engine!OpenSafe(e, opens, levels, t, device)
  PROVE  Turns(e, f, k, t, slip, plans, device)
<1>0. Safe(e.port.isOpen, e, device) /\ Worker(e) /\ t \in Engine!Scheduler!Time
  BY GoingSafe
<1>1. CASE e.configured
  BY <1>0, <1>1, OpenSafeSafe, EndedTurns
<1>2. CASE ~e.configured
  <2>1. f = [e EXCEPT !.fault = TRUE]
    BY <1>2 DEF Engine!OpenSafe
  <2>2. QED
    BY <2>1, OnlyFaultTurns
<1>3. QED
  BY <1>1, <1>2

LEMMA StopTuneTurns ==
  ASSUME NEW e, NEW k, NEW t, NEW slip, NEW plans, Going(e, k, t, slip, plans), NEW device,
         NEW f, f = Engine!StopTune(e, t, device)
  PROVE  Turns(e, f, k, t, slip, plans, device)
<1>0. Safe(e.port.isOpen, e, device) /\ Worker(e) /\ t \in Engine!Scheduler!Time
  BY GoingSafe
<1>1. CASE e.tuning
  BY <1>0, <1>1, StopTuneSafe, EndedTurns
<1>2. CASE ~e.tuning
  <2>1. f = e
    BY <1>2 DEF Engine!StopTune
  <2>2. QED
    BY <2>1, NothingTurns
<1>3. QED
  BY <1>1, <1>2

LEMMA CancelTurns ==
  ASSUME NEW e, NEW k, NEW t, NEW slip, NEW plans, Going(e, k, t, slip, plans), NEW device,
         NEW f, f = Engine!Cancel(e, t, device)
  PROVE  Turns(e, f, k, t, slip, plans, device)
<1>0. Safe(e.port.isOpen, e, device) /\ Worker(e) /\ t \in Engine!Scheduler!Time
  BY GoingSafe
<1>1. CASE Engine!Busy(e)
  BY <1>0, <1>1, CancelSafe, EndedTurns
<1>2. CASE ~Engine!Busy(e)
  <2>1. f = e
    BY <1>2 DEF Engine!Cancel, Engine!Busy
  <2>2. QED
    BY <2>1, NothingTurns
<1>3. QED
  BY <1>1, <1>2

LEMMA ReleasingTurns ==
  ASSUME NEW e, NEW k, NEW t, NEW slip, NEW plans, Going(e, k, t, slip, plans), NEW device, NEW f,
         \/ f = Engine!CloseInternal(e, t, device)
         \/ f = Engine!EmergencyRelease(e, t, device)
         \/ \E c \in Engine!EngineConfigs : f = Engine!Configure(e, c, t, device)
  PROVE  Turns(e, f, k, t, slip, plans, device)
<1>0. Safe(e.port.isOpen, e, device) /\ Worker(e) /\ t \in Engine!Scheduler!Time
  BY GoingSafe
<1>1. CASE f = Engine!CloseInternal(e, t, device)
  BY <1>0, <1>1, CloseInternalSafe, EndedTurns
<1>2. CASE f = Engine!EmergencyRelease(e, t, device)
  BY <1>0, <1>2, EmergencyReleaseSafe, EndedTurns
<1>3. CASE \E c \in Engine!EngineConfigs : f = Engine!Configure(e, c, t, device)
  BY <1>0, <1>3, ConfigureSafe, EndedTurns
<1>4. QED
  BY <1>1, <1>2, <1>3
-----------------------------------------------------------------------------
(* DirectTransmitEngine is about the same worker: its operators and those  *)
(* of TransmitStationOps are the same functions.                           *)

LEMMA SameScheduler ==
  /\ Keyer!Scheduler!Configs = Engine!Scheduler!Configs
  /\ Keyer!Scheduler!Spans = Engine!Scheduler!Spans
  /\ Keyer!Scheduler!Plans = Engine!Scheduler!Plans
  /\ Keyer!Scheduler!Time = Engine!Scheduler!Time
  /\ Keyer!Scheduler!NoPlan = Engine!Scheduler!NoPlan
  /\ \A c : Keyer!Scheduler!NewScheduler(c) = Engine!Scheduler!NewScheduler(c)
  /\ \A s : Keyer!Scheduler!ReleasePending(s) = Engine!Scheduler!ReleasePending(s)
  /\ \A s, state : Keyer!Scheduler!EnterTerminal(s, state) = Engine!Scheduler!EnterTerminal(s, state)
  /\ \A s : Keyer!Scheduler!SchedulerFault(s) = Engine!Scheduler!SchedulerFault(s)
  /\ \A s, base, delay : Keyer!Scheduler!SetNextTransition(s, base, delay) = Engine!Scheduler!SetNextTransition(s, base, delay)
  /\ \A plan, i : Keyer!Scheduler!SpanTicks(plan, i) = Engine!Scheduler!SpanTicks(plan, i)
  /\ \A s, i, boundary : Keyer!Scheduler!BeginSpan(s, i, boundary) = Engine!Scheduler!BeginSpan(s, i, boundary)
  /\ \A s, boundary : Keyer!Scheduler!BeginHang(s, boundary) = Engine!Scheduler!BeginHang(s, boundary)
  /\ \A s : Keyer!Scheduler!Complete(s) = Engine!Scheduler!Complete(s)
  /\ \A s, boundary : Keyer!Scheduler!CrossBoundary(s, boundary) = Engine!Scheduler!CrossBoundary(s, boundary)
  /\ \A s, t : Keyer!Scheduler!Advance(s, t) = Engine!Scheduler!Advance(s, t)
  /\ \A s : Keyer!Scheduler!EmergencyRelease(s) = Engine!Scheduler!EmergencyRelease(s)
  /\ \A s : Keyer!Scheduler!Resettable(s) = Engine!Scheduler!Resettable(s)
  /\ \A c : Keyer!Scheduler!ValidConfig(c) = Engine!Scheduler!ValidConfig(c)
  /\ \A plan, n : Keyer!Scheduler!UnitsUpTo(plan, n) = Engine!Scheduler!UnitsUpTo(plan, n)
  /\ \A c, plan : Keyer!Scheduler!ValidatePlan(c, plan) = Engine!Scheduler!ValidatePlan(c, plan)
  /\ \A c, plan, t : Keyer!Scheduler!FitsClock(c, plan, t) = Engine!Scheduler!FitsClock(c, plan, t)
  /\ \A s, plan, t : Keyer!Scheduler!Start(s, plan, t) = Engine!Scheduler!Start(s, plan, t)
  /\ \A s : Keyer!Scheduler!Reset(s) = Engine!Scheduler!Reset(s)
  /\ \A s : Keyer!Scheduler!Cancel(s) = Engine!Scheduler!Cancel(s)
  /\ \A s, advanced : Keyer!Scheduler!ResultOf(s, advanced) = Engine!Scheduler!ResultOf(s, advanced)
  /\ \A s, t : Keyer!Scheduler!AdvanceResult(s, t) = Engine!Scheduler!AdvanceResult(s, t)
  /\ Keyer!Scheduler!States = Engine!Scheduler!States
  /\ Keyer!Scheduler!Phases = Engine!Scheduler!Phases
<1>1. Keyer!Scheduler!Configs = Engine!Scheduler!Configs
  BY DEF Keyer!Scheduler!Configs, Engine!Scheduler!Configs
<1>2. Keyer!Scheduler!Spans = Engine!Scheduler!Spans
  BY DEF Keyer!Scheduler!Spans, Engine!Scheduler!Spans
<1>3. Keyer!Scheduler!Plans = Engine!Scheduler!Plans
  BY <1>2 DEF Keyer!Scheduler!Plans, Engine!Scheduler!Plans
<1>4. Keyer!Scheduler!Time = Engine!Scheduler!Time
  BY DEF Keyer!Scheduler!Time, Engine!Scheduler!Time
<1>5. Keyer!Scheduler!NoPlan = Engine!Scheduler!NoPlan
  BY DEF Keyer!Scheduler!NoPlan, Engine!Scheduler!NoPlan
<1>6. \A c : Keyer!Scheduler!NewScheduler(c) = Engine!Scheduler!NewScheduler(c)
  BY <1>5 DEF Keyer!Scheduler!NewScheduler, Engine!Scheduler!NewScheduler
<1>7. \A s : Keyer!Scheduler!ReleasePending(s) = Engine!Scheduler!ReleasePending(s)
  BY DEF Keyer!Scheduler!ReleasePending, Engine!Scheduler!ReleasePending
<1>8. \A s, state : Keyer!Scheduler!EnterTerminal(s, state) = Engine!Scheduler!EnterTerminal(s, state)
  BY DEF Keyer!Scheduler!EnterTerminal, Engine!Scheduler!EnterTerminal
<1>9. \A s : Keyer!Scheduler!SchedulerFault(s) = Engine!Scheduler!SchedulerFault(s)
  BY <1>8 DEF Keyer!Scheduler!SchedulerFault, Engine!Scheduler!SchedulerFault
<1>10. \A s, base, delay : Keyer!Scheduler!SetNextTransition(s, base, delay) = Engine!Scheduler!SetNextTransition(s, base, delay)
  BY <1>9 DEF Keyer!Scheduler!SetNextTransition, Engine!Scheduler!SetNextTransition
<1>11. \A plan, i : Keyer!Scheduler!SpanTicks(plan, i) = Engine!Scheduler!SpanTicks(plan, i)
  BY DEF Keyer!Scheduler!SpanTicks, Engine!Scheduler!SpanTicks
<1>12. \A s, i, boundary : Keyer!Scheduler!BeginSpan(s, i, boundary) = Engine!Scheduler!BeginSpan(s, i, boundary)
  BY <1>10, <1>11 DEF Keyer!Scheduler!BeginSpan, Engine!Scheduler!BeginSpan
<1>13. \A s, boundary : Keyer!Scheduler!BeginHang(s, boundary) = Engine!Scheduler!BeginHang(s, boundary)
  BY <1>10 DEF Keyer!Scheduler!BeginHang, Engine!Scheduler!BeginHang
<1>14. \A s : Keyer!Scheduler!Complete(s) = Engine!Scheduler!Complete(s)
  BY DEF Keyer!Scheduler!Complete, Engine!Scheduler!Complete
<1>15. \A s, boundary : Keyer!Scheduler!CrossBoundary(s, boundary) = Engine!Scheduler!CrossBoundary(s, boundary)
  BY <1>12, <1>13, <1>14, <1>9 DEF Keyer!Scheduler!CrossBoundary, Engine!Scheduler!CrossBoundary
<1>16. \A s, t : Keyer!Scheduler!Advance(s, t) = Engine!Scheduler!Advance(s, t)
  BY <1>7, <1>9, <1>15 DEF Keyer!Scheduler!Advance, Engine!Scheduler!Advance
<1>17. \A s : Keyer!Scheduler!EmergencyRelease(s) = Engine!Scheduler!EmergencyRelease(s)
  BY <1>8 DEF Keyer!Scheduler!EmergencyRelease, Engine!Scheduler!EmergencyRelease
<1>18. \A s : Keyer!Scheduler!Resettable(s) = Engine!Scheduler!Resettable(s)
  BY DEF Keyer!Scheduler!Resettable, Engine!Scheduler!Resettable
<1>19. \A c : Keyer!Scheduler!ValidConfig(c) = Engine!Scheduler!ValidConfig(c)
  BY DEF Keyer!Scheduler!ValidConfig, Engine!Scheduler!ValidConfig
<1>20. \A plan, n : Keyer!Scheduler!UnitsUpTo(plan, n) = Engine!Scheduler!UnitsUpTo(plan, n)
  BY DEF Keyer!Scheduler!UnitsUpTo, Engine!Scheduler!UnitsUpTo
<1>21. \A c, plan : Keyer!Scheduler!ValidatePlan(c, plan) = Engine!Scheduler!ValidatePlan(c, plan)
  BY <1>19, <1>11, <1>20 DEF Keyer!Scheduler!ValidatePlan, Engine!Scheduler!ValidatePlan
<1>22. \A c, plan, t : Keyer!Scheduler!FitsClock(c, plan, t) = Engine!Scheduler!FitsClock(c, plan, t)
  BY DEF Keyer!Scheduler!FitsClock, Engine!Scheduler!FitsClock
<1>23. \A s, plan, t : Keyer!Scheduler!Start(s, plan, t) = Engine!Scheduler!Start(s, plan, t)
  BY <1>21, <1>22, <1>9, <1>10 DEF Keyer!Scheduler!Start, Engine!Scheduler!Start
<1>24. \A s : Keyer!Scheduler!Reset(s) = Engine!Scheduler!Reset(s)
  BY <1>18, <1>6 DEF Keyer!Scheduler!Reset, Engine!Scheduler!Reset
<1>25. \A s : Keyer!Scheduler!Cancel(s) = Engine!Scheduler!Cancel(s)
  BY <1>8 DEF Keyer!Scheduler!Cancel, Engine!Scheduler!Cancel
<1>26. \A s, advanced : Keyer!Scheduler!ResultOf(s, advanced) = Engine!Scheduler!ResultOf(s, advanced)
  BY DEF Keyer!Scheduler!ResultOf, Engine!Scheduler!ResultOf
<1>27. \A s, t : Keyer!Scheduler!AdvanceResult(s, t) = Engine!Scheduler!AdvanceResult(s, t)
  BY <1>26, <1>16 DEF Keyer!Scheduler!AdvanceResult, Engine!Scheduler!AdvanceResult
<1>28. Keyer!Scheduler!States = Engine!Scheduler!States
  BY DEF Keyer!Scheduler!States, Engine!Scheduler!States
<1>29. Keyer!Scheduler!Phases = Engine!Scheduler!Phases
  BY DEF Keyer!Scheduler!Phases, Engine!Scheduler!Phases
<1>30. QED
  BY <1>1, <1>2, <1>3, <1>4, <1>5, <1>6, <1>7, <1>8, <1>9, <1>10, <1>11, <1>12, <1>13, <1>14, <1>15, <1>16, <1>17, <1>18, <1>19, <1>20, <1>21, <1>22, <1>23, <1>24, <1>25, <1>26, <1>27, <1>28, <1>29

LEMMA SameAdapter ==
  /\ Keyer!Adapter!Lines = Engine!Adapter!Lines
  /\ Keyer!Adapter!Writes = Engine!Adapter!Writes
  /\ Keyer!Adapter!Devices = Engine!Adapter!Devices
  /\ Keyer!Adapter!NoneKnown = Engine!Adapter!NoneKnown
  /\ Keyer!Adapter!AllInactive = Engine!Adapter!AllInactive
  /\ \A p : Keyer!Adapter!Released(p) = Engine!Adapter!Released(p)
  /\ \A d, line, up : Keyer!Adapter!Fails(d, line, up) = Engine!Adapter!Fails(d, line, up)
  /\ \A p, line, up, d : Keyer!Adapter!LeavesKeyBare(p, line, up, d) = Engine!Adapter!LeavesKeyBare(p, line, up, d)
  /\ \A p, line, up, d : Keyer!Adapter!WriteLine(p, line, up, d) = Engine!Adapter!WriteLine(p, line, up, d)
  /\ \A p, line, d : Keyer!Adapter!ReleaseLineQuietly(p, line, d) = Engine!Adapter!ReleaseLineQuietly(p, line, d)
  /\ \A p, d : Keyer!Adapter!ReleaseQuietly(p, d) = Engine!Adapter!ReleaseQuietly(p, d)
  /\ \A p : Keyer!Adapter!MarkClosedUnknown(p) = Engine!Adapter!MarkClosedUnknown(p)
  /\ \A p : Keyer!Adapter!CloseDevice(p) = Engine!Adapter!CloseDevice(p)
  /\ \A p, release, d : Keyer!Adapter!FaultAndClose(p, release, d) = Engine!Adapter!FaultAndClose(p, release, d)
  /\ \A p, d : Keyer!Adapter!Initialized(p, d) = Engine!Adapter!Initialized(p, d)
  /\ \A p, line, d : Keyer!Adapter!ReleaseLine(p, line, d) = Engine!Adapter!ReleaseLine(p, line, d)
  /\ \A p, d : Keyer!Adapter!ReleaseAll(p, d) = Engine!Adapter!ReleaseAll(p, d)
  /\ \A p, opens, levels, d : Keyer!Adapter!OpenClosed(p, opens, levels, d) = Engine!Adapter!OpenClosed(p, opens, levels, d)
  /\ \A p, d : Keyer!Adapter!Close(p, d) = Engine!Adapter!Close(p, d)
  /\ \A p, opens, levels, d : Keyer!Adapter!Open(p, opens, levels, d) = Engine!Adapter!Open(p, opens, levels, d)
  /\ Keyer!Adapter!NewPort = Engine!Adapter!NewPort
  /\ \A p : Keyer!Adapter!FaultOrUnknown(p) = Engine!Adapter!FaultOrUnknown(p)
  /\ \A p : Keyer!Adapter!Usable(p) = Engine!Adapter!Usable(p)
  /\ \A p, line, up, d : Keyer!Adapter!SetLine(p, line, up, d) = Engine!Adapter!SetLine(p, line, up, d)
  /\ Keyer!Adapter!Levels = Engine!Adapter!Levels
  /\ \A p : Keyer!Adapter!KnownInactive(p) = Engine!Adapter!KnownInactive(p)
  /\ \A p, line, up : Keyer!Adapter!LineIs(p, line, up) = Engine!Adapter!LineIs(p, line, up)
  /\ \A p, d : Keyer!Adapter!BackendError(p, d) = Engine!Adapter!BackendError(p, d)
  /\ Keyer!Adapter!LineStates = Engine!Adapter!LineStates
  /\ Keyer!Adapter!Ports = Engine!Adapter!Ports
  /\ \A p : Keyer!Adapter!PortConsistent(p) = Engine!Adapter!PortConsistent(p)
  /\ \A p : Keyer!Adapter!ReportedMatchesWire(p) = Engine!Adapter!ReportedMatchesWire(p)
<1>1. Keyer!Adapter!Lines = Engine!Adapter!Lines
  BY DEF Keyer!Adapter!Lines, Engine!Adapter!Lines
<1>2. Keyer!Adapter!Writes = Engine!Adapter!Writes
  BY <1>1 DEF Keyer!Adapter!Writes, Engine!Adapter!Writes
<1>3. Keyer!Adapter!Devices = Engine!Adapter!Devices
  BY <1>2 DEF Keyer!Adapter!Devices, Engine!Adapter!Devices
<1>4. Keyer!Adapter!NoneKnown = Engine!Adapter!NoneKnown
  BY <1>1 DEF Keyer!Adapter!NoneKnown, Engine!Adapter!NoneKnown
<1>5. Keyer!Adapter!AllInactive = Engine!Adapter!AllInactive
  BY <1>1 DEF Keyer!Adapter!AllInactive, Engine!Adapter!AllInactive
<1>6. \A p : Keyer!Adapter!Released(p) = Engine!Adapter!Released(p)
  BY <1>5 DEF Keyer!Adapter!Released, Engine!Adapter!Released
<1>7. \A d, line, up : Keyer!Adapter!Fails(d, line, up) = Engine!Adapter!Fails(d, line, up)
  BY DEF Keyer!Adapter!Fails, Engine!Adapter!Fails
<1>8. \A p, line, up, d : Keyer!Adapter!LeavesKeyBare(p, line, up, d) = Engine!Adapter!LeavesKeyBare(p, line, up, d)
  BY <1>7 DEF Keyer!Adapter!LeavesKeyBare, Engine!Adapter!LeavesKeyBare
<1>9. \A p, line, up, d : Keyer!Adapter!WriteLine(p, line, up, d) = Engine!Adapter!WriteLine(p, line, up, d)
  BY <1>8 DEF Keyer!Adapter!WriteLine, Engine!Adapter!WriteLine
<1>10. \A p, line, d : Keyer!Adapter!ReleaseLineQuietly(p, line, d) = Engine!Adapter!ReleaseLineQuietly(p, line, d)
  BY <1>7, <1>9 DEF Keyer!Adapter!ReleaseLineQuietly, Engine!Adapter!ReleaseLineQuietly
<1>11. \A p, d : Keyer!Adapter!ReleaseQuietly(p, d) = Engine!Adapter!ReleaseQuietly(p, d)
  BY <1>10 DEF Keyer!Adapter!ReleaseQuietly, Engine!Adapter!ReleaseQuietly
<1>12. \A p : Keyer!Adapter!MarkClosedUnknown(p) = Engine!Adapter!MarkClosedUnknown(p)
  BY <1>4 DEF Keyer!Adapter!MarkClosedUnknown, Engine!Adapter!MarkClosedUnknown
<1>13. \A p : Keyer!Adapter!CloseDevice(p) = Engine!Adapter!CloseDevice(p)
  BY <1>12 DEF Keyer!Adapter!CloseDevice, Engine!Adapter!CloseDevice
<1>14. \A p, release, d : Keyer!Adapter!FaultAndClose(p, release, d) = Engine!Adapter!FaultAndClose(p, release, d)
  BY <1>11, <1>13 DEF Keyer!Adapter!FaultAndClose, Engine!Adapter!FaultAndClose
<1>15. \A p, d : Keyer!Adapter!Initialized(p, d) = Engine!Adapter!Initialized(p, d)
  BY <1>6, <1>14 DEF Keyer!Adapter!Initialized, Engine!Adapter!Initialized
<1>16. \A p, line, d : Keyer!Adapter!ReleaseLine(p, line, d) = Engine!Adapter!ReleaseLine(p, line, d)
  BY <1>7, <1>14, <1>9 DEF Keyer!Adapter!ReleaseLine, Engine!Adapter!ReleaseLine
<1>17. \A p, d : Keyer!Adapter!ReleaseAll(p, d) = Engine!Adapter!ReleaseAll(p, d)
  BY <1>12, <1>16 DEF Keyer!Adapter!ReleaseAll, Engine!Adapter!ReleaseAll
<1>18. \A p, opens, levels, d : Keyer!Adapter!OpenClosed(p, opens, levels, d) = Engine!Adapter!OpenClosed(p, opens, levels, d)
  BY <1>15, <1>17 DEF Keyer!Adapter!OpenClosed, Engine!Adapter!OpenClosed
<1>19. \A p, d : Keyer!Adapter!Close(p, d) = Engine!Adapter!Close(p, d)
  BY <1>13, <1>17 DEF Keyer!Adapter!Close, Engine!Adapter!Close
<1>20. \A p, opens, levels, d : Keyer!Adapter!Open(p, opens, levels, d) = Engine!Adapter!Open(p, opens, levels, d)
  BY <1>18, <1>19 DEF Keyer!Adapter!Open, Engine!Adapter!Open
<1>21. Keyer!Adapter!NewPort = Engine!Adapter!NewPort
  BY <1>4, <1>1 DEF Keyer!Adapter!NewPort, Engine!Adapter!NewPort
<1>22. \A p : Keyer!Adapter!FaultOrUnknown(p) = Engine!Adapter!FaultOrUnknown(p)
  BY <1>1 DEF Keyer!Adapter!FaultOrUnknown, Engine!Adapter!FaultOrUnknown
<1>23. \A p : Keyer!Adapter!Usable(p) = Engine!Adapter!Usable(p)
  BY DEF Keyer!Adapter!Usable, Engine!Adapter!Usable
<1>24. \A p, line, up, d : Keyer!Adapter!SetLine(p, line, up, d) = Engine!Adapter!SetLine(p, line, up, d)
  BY <1>7, <1>14, <1>9 DEF Keyer!Adapter!SetLine, Engine!Adapter!SetLine, Keyer!Adapter!Usable, Engine!Adapter!Usable
<1>25. Keyer!Adapter!Levels = Engine!Adapter!Levels
  BY <1>1 DEF Keyer!Adapter!Levels, Engine!Adapter!Levels
<1>26. \A p : Keyer!Adapter!KnownInactive(p) = Engine!Adapter!KnownInactive(p)
  BY <1>22, <1>5 DEF Keyer!Adapter!KnownInactive, Engine!Adapter!KnownInactive
<1>27. \A p, line, up : Keyer!Adapter!LineIs(p, line, up) = Engine!Adapter!LineIs(p, line, up)
  BY <1>23 DEF Keyer!Adapter!LineIs, Engine!Adapter!LineIs
<1>28. \A p, d : Keyer!Adapter!BackendError(p, d) = Engine!Adapter!BackendError(p, d)
  BY <1>14 DEF Keyer!Adapter!BackendError, Engine!Adapter!BackendError
<1>29. Keyer!Adapter!LineStates = Engine!Adapter!LineStates
  BY DEF Keyer!Adapter!LineStates, Engine!Adapter!LineStates
<1>30. Keyer!Adapter!Ports = Engine!Adapter!Ports
  BY <1>1, <1>29, <1>25 DEF Keyer!Adapter!Ports, Engine!Adapter!Ports
<1>31. \A p : Keyer!Adapter!PortConsistent(p) = Engine!Adapter!PortConsistent(p)
  BY <1>4, <1>1 DEF Keyer!Adapter!PortConsistent, Engine!Adapter!PortConsistent
<1>32. \A p : Keyer!Adapter!ReportedMatchesWire(p) = Engine!Adapter!ReportedMatchesWire(p)
  BY <1>1 DEF Keyer!Adapter!ReportedMatchesWire, Engine!Adapter!ReportedMatchesWire
<1>33. QED
  BY <1>1, <1>2, <1>3, <1>4, <1>5, <1>6, <1>7, <1>8, <1>9, <1>10, <1>11, <1>12, <1>13, <1>14, <1>15, <1>16, <1>17, <1>18, <1>19, <1>20, <1>21, <1>22, <1>23, <1>24, <1>25, <1>26, <1>27, <1>28, <1>29, <1>30, <1>31, <1>32

LEMMA SameWorker ==
  /\ Keyer!EngineConfigs = Engine!EngineConfigs
  /\ Keyer!Time = Engine!Time
  /\ Keyer!Stopped = Engine!Stopped
  /\ \A c : Keyer!NewEngine(c) = Engine!NewEngine(c)
  /\ \A p, line : Keyer!Active(p, line) = Engine!Active(p, line)
  /\ \A v : Keyer!LinesApplied(v) = Engine!LinesApplied(v)
  /\ \A v, d : Keyer!ReleaseEngine(v, d) = Engine!ReleaseEngine(v, d)
  /\ \A v : Keyer!NotTuning(v) = Engine!NotTuning(v)
  /\ \A s, t : Keyer!DrainPending(s, t) = Engine!DrainPending(s, t)
  /\ \A v, t, d : Keyer!FaultEngine(v, t, d) = Engine!FaultEngine(v, t, d)
  /\ \A v, t, d : Keyer!AppliedOrFault(v, t, d) = Engine!AppliedOrFault(v, t, d)
  /\ \A p, want, d : Keyer!DriveLines(p, want, d) = Engine!DriveLines(p, want, d)
  /\ \A v, t, d : Keyer!ApplyDesiredLines(v, t, d) = Engine!ApplyDesiredLines(v, t, d)
  /\ \A v, t, d : Keyer!ApplyPendingRelease(v, t, d) = Engine!ApplyPendingRelease(v, t, d)
  /\ \A v : Keyer!Running(v) = Engine!Running(v)
  /\ \A v, t, d : Keyer!DrainSchedulerRelease(v, t, d) = Engine!DrainSchedulerRelease(v, t, d)
  /\ \A v, t, d : Keyer!CloseInternal(v, t, d) = Engine!CloseInternal(v, t, d)
  /\ \A c : Keyer!ValidEngineConfig(c) = Engine!ValidEngineConfig(c)
  /\ \A v, c, t, d : Keyer!Configure(v, c, t, d) = Engine!Configure(v, c, t, d)
  /\ \A v : Keyer!FaultUnlessInactive(v) = Engine!FaultUnlessInactive(v)
  /\ \A v, opens, levels, t, d : Keyer!OpenSafe(v, opens, levels, t, d) = Engine!OpenSafe(v, opens, levels, t, d)
  /\ \A a, b : Keyer!Sooner(a, b) = Engine!Sooner(a, b)
  /\ \A v : Keyer!Busy(v) = Engine!Busy(v)
  /\ \A v, t : Keyer!ScheduleTimer(v, t) = Engine!ScheduleTimer(v, t)
  /\ \A v, t : Keyer!TimedIfRunning(v, t) = Engine!TimedIfRunning(v, t)
  /\ \A v, t, d : Keyer!KeyStarted(v, t, d) = Engine!KeyStarted(v, t, d)
  /\ \A v, plan, t, d : Keyer!StartPlan(v, plan, t, d) = Engine!StartPlan(v, plan, t, d)
  /\ \A v, plan, confirmed, t, d : Keyer!Start(v, plan, confirmed, t, d) = Engine!Start(v, plan, confirmed, t, d)
  /\ \A v, t, d : Keyer!ReleasedOrFault(v, t, d) = Engine!ReleasedOrFault(v, t, d)
  /\ \A v, t, d : Keyer!StopTune(v, t, d) = Engine!StopTune(v, t, d)
  /\ \A v, t, d : Keyer!Cancel(v, t, d) = Engine!Cancel(v, t, d)
  /\ \A v, t, d : Keyer!TuneKeyed(v, t, d) = Engine!TuneKeyed(v, t, d)
  /\ \A p, d : Keyer!KeyUnderPtt(p, d) = Engine!KeyUnderPtt(p, d)
  /\ \A v, authorized, t, d : Keyer!StartTune(v, authorized, t, d) = Engine!StartTune(v, authorized, t, d)
  /\ \A v, t, d : Keyer!EmergencyRelease(v, t, d) = Engine!EmergencyRelease(v, t, d)
  /\ \A v, t, d : Keyer!TuneTick(v, t, d) = Engine!TuneTick(v, t, d)
  /\ \A v, t : Keyer!TimedIfApplied(v, t) = Engine!TimedIfApplied(v, t)
  /\ \A v, result, t, d : Keyer!Follow(v, result, t, d) = Engine!Follow(v, result, t, d)
  /\ \A v, t, d : Keyer!SchedulerTick(v, t, d) = Engine!SchedulerTick(v, t, d)
  /\ \A v, t, d : Keyer!TimerExpired(v, t, d) = Engine!TimerExpired(v, t, d)
  /\ \A v, t, d : Keyer!HandleTimer(v, t, d) = Engine!HandleTimer(v, t, d)
  /\ \A v, d : Keyer!BackendError(v, d) = Engine!BackendError(v, d)
<1>1. Keyer!EngineConfigs = Engine!EngineConfigs
  BY SameScheduler DEF Keyer!EngineConfigs, Engine!EngineConfigs
<1>2. Keyer!Time = Engine!Time
  BY SameScheduler DEF Keyer!Time, Engine!Time
<1>3. Keyer!Stopped = Engine!Stopped
  BY DEF Keyer!Stopped, Engine!Stopped
<1>4. \A c : Keyer!NewEngine(c) = Engine!NewEngine(c)
  BY <1>3, SameAdapter, SameScheduler DEF Keyer!NewEngine, Engine!NewEngine
<1>5. \A p, line : Keyer!Active(p, line) = Engine!Active(p, line)
  BY DEF Keyer!Active, Engine!Active
<1>6. \A v : Keyer!LinesApplied(v) = Engine!LinesApplied(v)
  BY <1>5, SameAdapter DEF Keyer!LinesApplied, Engine!LinesApplied
<1>7. \A v, d : Keyer!ReleaseEngine(v, d) = Engine!ReleaseEngine(v, d)
  BY SameAdapter DEF Keyer!ReleaseEngine, Engine!ReleaseEngine
<1>8. \A v : Keyer!NotTuning(v) = Engine!NotTuning(v)
  BY <1>3 DEF Keyer!NotTuning, Engine!NotTuning
<1>9. \A s, t : Keyer!DrainPending(s, t) = Engine!DrainPending(s, t)
  BY SameScheduler DEF Keyer!DrainPending, Engine!DrainPending
<1>10. \A v, t, d : Keyer!FaultEngine(v, t, d) = Engine!FaultEngine(v, t, d)
  BY <1>7, <1>8, <1>9, SameScheduler DEF Keyer!FaultEngine, Engine!FaultEngine
<1>11. \A v, t, d : Keyer!AppliedOrFault(v, t, d) = Engine!AppliedOrFault(v, t, d)
  BY <1>6, <1>10 DEF Keyer!AppliedOrFault, Engine!AppliedOrFault
<1>12. \A p, want, d : Keyer!DriveLines(p, want, d) = Engine!DriveLines(p, want, d)
  <2>1. \A p, line, up, d : Keyer!Adapter!SetLine(p, line, up, d) = Engine!Adapter!SetLine(p, line, up, d)
    BY SameAdapter
  <2> TAKE p, want, d
  <2>2. PICK q : q = IF want.ptt THEN Engine!Adapter!SetLine(p, "ptt", TRUE, d) ELSE p
    OBVIOUS
  <2>3. PICK due : due = IF want.key THEN want.ptt /\ q.known["ptt"] = "Active" ELSE q.known["key"] = "Active"
    OBVIOUS
  <2>4. PICK r : r = IF due THEN Engine!Adapter!SetLine(q, "key", want.key, d) ELSE q
    OBVIOUS
  <2>5. Engine!DriveLines(p, want, d) =
          IF ~want.ptt /\ r.known["ptt"] = "Active" /\ ~(r.known["key"] = "Active")
          THEN Engine!Adapter!SetLine(r, "ptt", FALSE, d) ELSE r
    BY <2>2, <2>3, <2>4, Zenon DEF Engine!DriveLines, Engine!Active
  <2>6. Keyer!DriveLines(p, want, d) =
          IF ~want.ptt /\ r.known["ptt"] = "Active" /\ ~(r.known["key"] = "Active")
          THEN Keyer!Adapter!SetLine(r, "ptt", FALSE, d) ELSE r
    BY <2>1, <2>2, <2>3, <2>4, Zenon DEF Keyer!DriveLines, Keyer!Active
  <2>7. QED BY <2>1, <2>5, <2>6
<1>13. \A v, t, d : Keyer!ApplyDesiredLines(v, t, d) = Engine!ApplyDesiredLines(v, t, d)
  BY <1>11, <1>12 DEF Keyer!ApplyDesiredLines, Engine!ApplyDesiredLines
<1>14. \A v, t, d : Keyer!ApplyPendingRelease(v, t, d) = Engine!ApplyPendingRelease(v, t, d)
  BY <1>13, SameScheduler DEF Keyer!ApplyPendingRelease, Engine!ApplyPendingRelease
<1>15. \A v : Keyer!Running(v) = Engine!Running(v)
  BY DEF Keyer!Running, Engine!Running
<1>16. \A v, t, d : Keyer!DrainSchedulerRelease(v, t, d) = Engine!DrainSchedulerRelease(v, t, d)
  BY <1>14, <1>15, <1>13, SameScheduler DEF Keyer!DrainSchedulerRelease, Engine!DrainSchedulerRelease
<1>17. \A v, t, d : Keyer!CloseInternal(v, t, d) = Engine!CloseInternal(v, t, d)
  BY <1>16, <1>8, SameAdapter DEF Keyer!CloseInternal, Engine!CloseInternal
<1>18. \A c : Keyer!ValidEngineConfig(c) = Engine!ValidEngineConfig(c)
  BY DEF Keyer!ValidEngineConfig, Engine!ValidEngineConfig
<1>19. \A v, c, t, d : Keyer!Configure(v, c, t, d) = Engine!Configure(v, c, t, d)
  BY <1>17, <1>18, SameScheduler DEF Keyer!Configure, Engine!Configure
<1>20. \A v : Keyer!FaultUnlessInactive(v) = Engine!FaultUnlessInactive(v)
  BY SameAdapter DEF Keyer!FaultUnlessInactive, Engine!FaultUnlessInactive
<1>21. \A v, opens, levels, t, d : Keyer!OpenSafe(v, opens, levels, t, d) = Engine!OpenSafe(v, opens, levels, t, d)
  BY <1>20, <1>16, <1>3, SameAdapter DEF Keyer!OpenSafe, Engine!OpenSafe
<1>22. \A a, b : Keyer!Sooner(a, b) = Engine!Sooner(a, b)
  BY DEF Keyer!Sooner, Engine!Sooner
<1>23. \A v : Keyer!Busy(v) = Engine!Busy(v)
  BY <1>15 DEF Keyer!Busy, Engine!Busy
<1>24. \A v, t : Keyer!ScheduleTimer(v, t) = Engine!ScheduleTimer(v, t)
  BY <1>22, <1>23, <1>3 DEF Keyer!ScheduleTimer, Engine!ScheduleTimer
<1>25. \A v, t : Keyer!TimedIfRunning(v, t) = Engine!TimedIfRunning(v, t)
  BY <1>15, <1>24 DEF Keyer!TimedIfRunning, Engine!TimedIfRunning
<1>26. \A v, t, d : Keyer!KeyStarted(v, t, d) = Engine!KeyStarted(v, t, d)
  BY <1>15, <1>25, <1>13, <1>10 DEF Keyer!KeyStarted, Engine!KeyStarted
<1>27. \A v, plan, t, d : Keyer!StartPlan(v, plan, t, d) = Engine!StartPlan(v, plan, t, d)
  BY <1>26, SameScheduler DEF Keyer!StartPlan, Engine!StartPlan
<1>28. \A v, plan, confirmed, t, d : Keyer!Start(v, plan, confirmed, t, d) = Engine!Start(v, plan, confirmed, t, d)
  BY <1>10, <1>27, SameAdapter, SameScheduler DEF Keyer!Start, Engine!Start
<1>29. \A v, t, d : Keyer!ReleasedOrFault(v, t, d) = Engine!ReleasedOrFault(v, t, d)
  BY <1>10, SameAdapter DEF Keyer!ReleasedOrFault, Engine!ReleasedOrFault
<1>30. \A v, t, d : Keyer!StopTune(v, t, d) = Engine!StopTune(v, t, d)
  BY <1>29, <1>7, <1>8 DEF Keyer!StopTune, Engine!StopTune
<1>31. \A v, t, d : Keyer!Cancel(v, t, d) = Engine!Cancel(v, t, d)
  BY <1>30, <1>15, <1>14, <1>13, <1>3, SameScheduler DEF Keyer!Cancel, Engine!Cancel
<1>32. \A v, t, d : Keyer!TuneKeyed(v, t, d) = Engine!TuneKeyed(v, t, d)
  BY <1>24, <1>10, SameAdapter DEF Keyer!TuneKeyed, Engine!TuneKeyed
<1>33. \A p, d : Keyer!KeyUnderPtt(p, d) = Engine!KeyUnderPtt(p, d)
  BY SameAdapter DEF Keyer!KeyUnderPtt, Engine!KeyUnderPtt
<1>34. \A v, authorized, t, d : Keyer!StartTune(v, authorized, t, d) = Engine!StartTune(v, authorized, t, d)
  BY <1>23, <1>10, <1>32, <1>33, SameAdapter DEF Keyer!StartTune, Engine!StartTune
<1>35. \A v, t, d : Keyer!EmergencyRelease(v, t, d) = Engine!EmergencyRelease(v, t, d)
  BY <1>13, <1>8, <1>7, SameScheduler DEF Keyer!EmergencyRelease, Engine!EmergencyRelease
<1>36. \A v, t, d : Keyer!TuneTick(v, t, d) = Engine!TuneTick(v, t, d)
  BY <1>5, <1>10, <1>24 DEF Keyer!TuneTick, Engine!TuneTick
<1>37. \A v, t : Keyer!TimedIfApplied(v, t) = Engine!TimedIfApplied(v, t)
  BY <1>6, <1>24 DEF Keyer!TimedIfApplied, Engine!TimedIfApplied
<1>38. \A v, result, t, d : Keyer!Follow(v, result, t, d) = Engine!Follow(v, result, t, d)
  BY <1>10, <1>24, <1>37, <1>13 DEF Keyer!Follow, Engine!Follow
<1>39. \A v, t, d : Keyer!SchedulerTick(v, t, d) = Engine!SchedulerTick(v, t, d)
  BY <1>38, SameScheduler DEF Keyer!SchedulerTick, Engine!SchedulerTick
<1>40. \A v, t, d : Keyer!TimerExpired(v, t, d) = Engine!TimerExpired(v, t, d)
  BY <1>10, <1>36, <1>39, SameAdapter DEF Keyer!TimerExpired, Engine!TimerExpired
<1>41. \A v, t, d : Keyer!HandleTimer(v, t, d) = Engine!HandleTimer(v, t, d)
  BY <1>40, <1>3 DEF Keyer!HandleTimer, Engine!HandleTimer
<1>42. \A v, d : Keyer!BackendError(v, d) = Engine!BackendError(v, d)
  BY SameAdapter DEF Keyer!BackendError, Engine!BackendError
<1>43. QED
  BY <1>1, <1>2, <1>3, <1>4, <1>5, <1>6, <1>7, <1>8, <1>9, <1>10, <1>11, <1>12, <1>13, <1>14, <1>15, <1>16, <1>17, <1>18, <1>19, <1>20, <1>21, <1>22, <1>23, <1>24, <1>25, <1>26, <1>27, <1>28, <1>29, <1>30, <1>31, <1>32, <1>33, <1>34, <1>35, <1>36, <1>37, <1>38, <1>39, <1>40, <1>41, <1>42
-----------------------------------------------------------------------------
(* The worker with its owner, its timer, its device and its clock.         *)

(* The inductive invariant of the worker between calls.                    *)
KeyerInv ==
  /\ Tended(keyer, EnginePlans)
  /\ keyerDevice \in EngineDevices
  /\ keyerClock \in Engine!Scheduler!Time /\ keyedSince \in Engine!Scheduler!Time
  /\ Timely(keyer, keyerClock, EngineSlip)
  /\ KeyLimited(keyer, keyedSince)

LEMMA KeyerHas ==
  /\ SomeEngineConfigs \subseteq Engine!EngineConfigs /\ EnginePlans \subseteq Engine!Scheduler!Plans
  /\ StartTimes \subseteq Engine!Scheduler!Time /\ EngineSlip \in Nat
  BY EngineAssumption, SameWorker, SameScheduler DEF Engine!Time

LEMMA KeyerStarts ==
  ASSUME KeyerInit
  PROVE  KeyerInv
<1>1. PICK c \in SomeEngineConfigs : keyer = Engine!NewEngine(c)
  BY SameWorker DEF KeyerInit
<1>2. c \in Engine!EngineConfigs
  BY KeyerHas
<1>3. Worker(keyer) /\ Rest(keyer) /\ ~Engine!Busy(keyer)
  BY <1>1, <1>2, NewEngineIs
<1>4. /\ keyer.port = Engine!Adapter!NewPort /\ keyer.sch = Engine!Scheduler!NewScheduler(c.scheduler)
  BY <1>1 DEF Engine!NewEngine
<1>5. Sane(keyer.port)
  BY <1>4, NewPortSane
<1>6. keyer.sch.state = "Idle" /\ keyer.sch.plan = Engine!Scheduler!NoPlan
  BY <1>4 DEF Engine!Scheduler!NewScheduler
<1>7. keyer.timer = Engine!Stopped /\ ~Engine!Active(keyer.port, "ptt") /\ ~Engine!Active(keyer.port, "key")
  BY <1>3, DownIs DEF Rest
<1>8. Tended(keyer, EnginePlans)
  BY <1>3, <1>5, <1>6, <1>7 DEF Tended, Fit, Wanted, OnePurpose, Keeps
<1>9. keyerClock = 0 /\ keyedSince = 0 /\ keyerDevice \in EngineDevices
  BY DEF KeyerInit
<1>10. QED
  BY <1>7, <1>8, <1>9, TimeIs DEF KeyerInv, Timely, KeyLimited

(* The worker becomes f in a call that it takes at the reading t.          *)
LEMMA KeyerCallKeeps ==
  ASSUME KeyerInv, NEW f, NEW t \in Engine!Scheduler!Time,
         Turns(keyer, f, keyedSince, t, EngineSlip, EnginePlans, keyerDevice), KeyerBecomes(f, t)
  PROVE  KeyerInv' /\ Leaves(keyer, keyer', keyerDevice) /\ keyerDevice' = keyerDevice
<1>1. /\ keyer' = f /\ keyerDevice' = keyerDevice
      /\ keyerClock' = IF f.timer = Engine!Stopped THEN 0 ELSE t
      /\ keyedSince' = IF Engine!Active(f.port, "key")
                       THEN IF Engine!Active(keyer.port, "key") THEN keyedSince ELSE t ELSE 0
  BY SameWorker DEF KeyerBecomes
<1>2. keyerClock' \in Engine!Scheduler!Time /\ keyedSince' \in Engine!Scheduler!Time
  BY <1>1, TimeIs DEF KeyerInv
<1>3. Timely(f, keyerClock', EngineSlip)
  BY <1>1 DEF Turns, Timely
<1>4. KeyLimited(f, keyedSince')
  BY <1>1 DEF Turns, KeyLimited, Raised
<1>5. Tended(f, EnginePlans) /\ Leaves(keyer, f, keyerDevice)
  BY DEF Turns
<1>6. keyerDevice' \in EngineDevices
  BY <1>1 DEF KeyerInv
<1>7. KeyerInv'
  BY <1>1, <1>2, <1>3, <1>4, <1>5, <1>6 DEF KeyerInv
<1>8. QED
  BY <1>1, <1>5, <1>7

LEMMA KeyerGoes ==
  ASSUME KeyerInv, NEW t, t \in StartReadings
  PROVE  Going(keyer, keyedSince, t, EngineSlip, EnginePlans) /\ t \in Engine!Scheduler!Time
<1>1. /\ keyer.timer = Engine!Stopped \/ t = keyerClock
      /\ t \in StartTimes \/ t = keyerClock
  BY SameWorker DEF StartReadings
<1>2. t \in Engine!Scheduler!Time
  BY <1>1, KeyerHas DEF KeyerInv
<1>3. Timely(keyer, t, EngineSlip)
  BY <1>1 DEF KeyerInv, Timely
<1>4. keyedSince \in Int /\ EngineSlip \in Nat
  BY KeyerHas, TimeIs DEF KeyerInv
<1>5. QED
  BY <1>2, <1>3, <1>4 DEF KeyerInv, Going

LEMMA KeyerGoesNow ==
  ASSUME KeyerInv
  PROVE  Going(keyer, keyedSince, keyerClock, EngineSlip, EnginePlans) /\ keyerClock \in Engine!Scheduler!Time
<1>1. keyedSince \in Int /\ EngineSlip \in Nat
  BY KeyerHas, TimeIs DEF KeyerInv
<1>2. QED
  BY <1>1 DEF KeyerInv, Going

LEMMA KeyerStep ==
  ASSUME KeyerInv, KeyerNext
  PROVE  KeyerInv' /\ Leaves(keyer, keyer', keyerDevice)
<1>0. Going(keyer, keyedSince, keyerClock, EngineSlip, EnginePlans) /\ keyerClock \in Engine!Scheduler!Time
  BY KeyerGoesNow
<1>1. ASSUME NEW c \in SomeEngineConfigs, KeyerConfigure(c)
      PROVE  KeyerInv' /\ Leaves(keyer, keyer', keyerDevice)
  <2>1. PICK f : f = Engine!Configure(keyer, c, keyerClock, keyerDevice)
    OBVIOUS
  <2>2. KeyerBecomes(f, keyerClock)
    BY <1>1, <2>1, SameWorker DEF KeyerConfigure
  <2>3. \E g \in Engine!EngineConfigs : f = Engine!Configure(keyer, g, keyerClock, keyerDevice)
    BY <2>1, KeyerHas
  <2>4. Turns(keyer, f, keyedSince, keyerClock, EngineSlip, EnginePlans, keyerDevice)
    BY <1>0, <2>3, ReleasingTurns
  <2>5. QED
    BY <1>0, <2>2, <2>4, KeyerCallKeeps
<1>2. ASSUME KeyerOpenSafe PROVE KeyerInv' /\ Leaves(keyer, keyer', keyerDevice)
  <2>1. PICK opens \in BOOLEAN, levels \in Engine!Adapter!Levels :
          KeyerBecomes(Keyer!OpenSafe(keyer, opens, levels, keyerClock, keyerDevice), keyerClock)
    BY <1>2, SameAdapter DEF KeyerOpenSafe
  <2>2. PICK f : f = Engine!OpenSafe(keyer, opens, levels, keyerClock, keyerDevice)
    OBVIOUS
  <2>3. KeyerBecomes(f, keyerClock)
    BY <2>1, <2>2, SameWorker
  <2>4. Turns(keyer, f, keyedSince, keyerClock, EngineSlip, EnginePlans, keyerDevice)
    BY <1>0, <2>2, OpenSafeTurns
  <2>5. QED
    BY <1>0, <2>3, <2>4, KeyerCallKeeps
<1>3. ASSUME NEW plan \in EnginePlans, NEW confirmed \in BOOLEAN, NEW t \in StartReadings,
             KeyerStart(plan, confirmed, t)
      PROVE  KeyerInv' /\ Leaves(keyer, keyer', keyerDevice)
  <2>1. PICK f : f = Engine!Start(keyer, plan, confirmed, t, keyerDevice)
    OBVIOUS
  <2>2. KeyerBecomes(f, t)
    BY <1>3, <2>1, SameWorker DEF KeyerStart
  <2>3. Going(keyer, keyedSince, t, EngineSlip, EnginePlans) /\ t \in Engine!Scheduler!Time
    BY KeyerGoes
  <2>4. plan \in Engine!Scheduler!Plans
    BY KeyerHas
  <2>5. Turns(keyer, f, keyedSince, t, EngineSlip, EnginePlans, keyerDevice)
    BY <2>1, <2>3, <2>4, StartTurns
  <2>6. QED
    BY <2>2, <2>3, <2>5, KeyerCallKeeps
<1>4. ASSUME KeyerCancel PROVE KeyerInv' /\ Leaves(keyer, keyer', keyerDevice)
  <2>1. PICK f : f = Engine!Cancel(keyer, keyerClock, keyerDevice)
    OBVIOUS
  <2>2. KeyerBecomes(f, keyerClock)
    BY <1>4, <2>1, SameWorker DEF KeyerCancel
  <2>3. Turns(keyer, f, keyedSince, keyerClock, EngineSlip, EnginePlans, keyerDevice)
    BY <1>0, <2>1, CancelTurns
  <2>4. QED
    BY <1>0, <2>2, <2>3, KeyerCallKeeps
<1>5. ASSUME NEW authorized \in BOOLEAN, NEW t \in StartReadings,
             KeyerStartTune(authorized, t)
      PROVE  KeyerInv' /\ Leaves(keyer, keyer', keyerDevice)
  <2>1. PICK f : f = Engine!StartTune(keyer, authorized, t, keyerDevice)
    OBVIOUS
  <2>2. KeyerBecomes(f, t)
    BY <1>5, <2>1, SameWorker DEF KeyerStartTune
  <2>3. Going(keyer, keyedSince, t, EngineSlip, EnginePlans) /\ t \in Engine!Scheduler!Time
    BY KeyerGoes
  <2>4. Turns(keyer, f, keyedSince, t, EngineSlip, EnginePlans, keyerDevice)
    BY <2>1, <2>3, StartTuneTurns
  <2>5. QED
    BY <2>2, <2>3, <2>4, KeyerCallKeeps
<1>6. ASSUME KeyerStopTune PROVE KeyerInv' /\ Leaves(keyer, keyer', keyerDevice)
  <2>1. PICK f : f = Engine!StopTune(keyer, keyerClock, keyerDevice)
    OBVIOUS
  <2>2. KeyerBecomes(f, keyerClock)
    BY <1>6, <2>1, SameWorker DEF KeyerStopTune
  <2>3. Turns(keyer, f, keyedSince, keyerClock, EngineSlip, EnginePlans, keyerDevice)
    BY <1>0, <2>1, StopTuneTurns
  <2>4. QED
    BY <1>0, <2>2, <2>3, KeyerCallKeeps
<1>7. ASSUME KeyerEmergencyRelease PROVE KeyerInv' /\ Leaves(keyer, keyer', keyerDevice)
  <2>1. PICK f : f = Engine!EmergencyRelease(keyer, keyerClock, keyerDevice)
    OBVIOUS
  <2>2. KeyerBecomes(f, keyerClock)
    BY <1>7, <2>1, SameWorker DEF KeyerEmergencyRelease
  <2>3. Turns(keyer, f, keyedSince, keyerClock, EngineSlip, EnginePlans, keyerDevice)
    BY <1>0, <2>1, ReleasingTurns
  <2>4. QED
    BY <1>0, <2>2, <2>3, KeyerCallKeeps
<1>8. ASSUME KeyerClose PROVE KeyerInv' /\ Leaves(keyer, keyer', keyerDevice)
  <2>1. PICK f : f = Engine!CloseInternal(keyer, keyerClock, keyerDevice)
    OBVIOUS
  <2>2. KeyerBecomes(f, keyerClock)
    BY <1>8, <2>1, SameWorker DEF KeyerClose
  <2>3. Turns(keyer, f, keyedSince, keyerClock, EngineSlip, EnginePlans, keyerDevice)
    BY <1>0, <2>1, ReleasingTurns
  <2>4. QED
    BY <1>0, <2>2, <2>3, KeyerCallKeeps
<1>9. ASSUME KeyerTimer PROVE KeyerInv' /\ Leaves(keyer, keyer', keyerDevice)
  <2>1. PICK f : f = Engine!HandleTimer(keyer, keyerClock, keyerDevice)
    OBVIOUS
  <2>2. KeyerBecomes(f, keyerClock) /\ keyer.timer # Engine!Stopped
    BY <1>9, <2>1, SameWorker DEF KeyerTimer
  <2>3. Turns(keyer, f, keyedSince, keyerClock, EngineSlip, EnginePlans, keyerDevice)
    BY <1>0, <2>1, <2>2, HandleTimerTurns
  <2>4. QED
    BY <1>0, <2>2, <2>3, KeyerCallKeeps
<1>10. ASSUME KeyerFails PROVE KeyerInv' /\ Leaves(keyer, keyer', keyerDevice)
  <2>1. PICK f : f = Engine!BackendError(keyer, keyerDevice)
    OBVIOUS
  <2>2. KeyerBecomes(f, keyerClock) /\ keyer.port.isOpen
    BY <1>10, <2>1, SameWorker DEF KeyerFails
  <2>3. Turns(keyer, f, keyedSince, keyerClock, EngineSlip, EnginePlans, keyerDevice)
    BY <1>0, <2>1, <2>2, BackendErrorTurns
  <2>4. QED
    BY <1>0, <2>2, <2>3, KeyerCallKeeps
<1>11. ASSUME KeyerDeviceChanges PROVE KeyerInv' /\ Leaves(keyer, keyer', keyerDevice)
  BY <1>11 DEF KeyerDeviceChanges, KeyerInv, Leaves
<1>12. ASSUME KeyerTick PROVE KeyerInv' /\ Leaves(keyer, keyer', keyerDevice)
  <2>1. /\ keyer' = keyer /\ keyerDevice' = keyerDevice /\ keyedSince' = keyedSince
        /\ keyerClock' = keyerClock + 1 /\ keyer.timer # Engine!Stopped
        /\ keyerClock < keyer.timer + EngineSlip /\ keyerClock < MaxU64
    BY <1>12, SameWorker DEF KeyerTick
  <2>2. keyerClock \in Int /\ keyer.timer \in Int /\ EngineSlip \in Int /\ Deadline(keyer) \in Int
    <3>1. keyer \in Engine!Engines
      BY <1>0, GoingSafe
    <3>2. QED
      BY <1>0, <3>1, EngineHas, SchedulerHas, TimeIs, KeyerHas, StoppedIsNoTime DEF Deadline
  <2>3. keyerClock' \in Engine!Scheduler!Time
    BY <1>0, <2>1, TimeIs, Limits
  <2>4. Timely(keyer, keyerClock', EngineSlip)
    BY <2>1, <2>2 DEF KeyerInv, Timely
  <2>5. QED
    BY <2>1, <2>3, <2>4 DEF KeyerInv, Leaves
<1>13. QED
  BY <1>1, <1>2, <1>3, <1>4, <1>5, <1>6, <1>7, <1>8, <1>9, <1>10, <1>11, <1>12 DEF KeyerNext

LEMMA KeyerTypes ==
  ASSUME KeyerInv
  PROVE  KeyerTypeOK
<1>1. keyer \in Engine!Engines /\ keyer.sch.plan \in EnginePlans \cup {Engine!Scheduler!NoPlan}
  BY DEF KeyerInv, Tended, Fit, Worker
<1>2. PICK schs : schs = [config : Engine!Scheduler!Configs, plan : EnginePlans \cup {Engine!Scheduler!NoPlan},
                   state : Engine!Scheduler!States, phase : Engine!Scheduler!Phases, ptt : BOOLEAN,
                   key : BOOLEAN, last : Engine!Scheduler!Time, next : Engine!Scheduler!Time, span : Nat, pending : BOOLEAN]
  OBVIOUS
<1>3. keyer.sch \in schs
  BY <1>1, <1>2, EngineHas DEF Engine!Scheduler!Schedulers
<1>4. keyer \in [configured : BOOLEAN, tune : Nat, sch : schs,
                  port : Engine!Adapter!Ports, timer : Engine!Scheduler!Time \cup {Engine!Stopped}, fault : BOOLEAN,
                  tuning : BOOLEAN, tuneDeadline : Engine!Scheduler!Time]
  BY <1>1, <1>3 DEF Engine!Engines, Engine!Time
<1>5. Engine!Time = Engine!Scheduler!Time
  BY DEF Engine!Time
<1>6. keyer \in [configured : BOOLEAN, tune : Nat,
            sch : [config : Keyer!Scheduler!Configs, plan : EnginePlans \cup {Keyer!Scheduler!NoPlan},
                   state : Keyer!Scheduler!States, phase : Keyer!Scheduler!Phases, ptt : BOOLEAN,
                   key : BOOLEAN, last : Keyer!Time, next : Keyer!Time, span : Nat,
                   pending : BOOLEAN],
            port : Keyer!Adapter!Ports, timer : Keyer!Time \cup {Keyer!Stopped}, fault : BOOLEAN,
            tuning : BOOLEAN, tuneDeadline : Keyer!Time]
  BY <1>2, <1>4, <1>5, SameWorker, SameScheduler, SameAdapter
<1>7. keyerDevice \in EngineDevices /\ keyerClock \in Keyer!Time /\ keyedSince \in Keyer!Time
  BY <1>5, SameWorker DEF KeyerInv
<1>8. QED
  BY <1>6, <1>7 DEF KeyerTypeOK

LEMMA KeyerSafe ==
  ASSUME KeyerInv
  PROVE  EngineInv
<1>0. /\ Worker(keyer) /\ Fit(keyer, EnginePlans) /\ keyer \in Engine!Engines
      /\ Sane(keyer.port) /\ Wanted(keyer) /\ Timely(keyer, keyerClock, EngineSlip)
      /\ KeyLimited(keyer, keyedSince) /\ Disciplined(keyer.sch) /\ ~keyer.sch.pending
  BY DEF KeyerInv, Tended, Fit, Worker
<1>1. KeyerTypeOK
  BY KeyerTypes
<1>2. KeyNeverBare
  BY <1>0 DEF Sane, Honest, KeyNeverBare
<1>3. AssertedLinesAreTimed
  <2>1. \A line \in Engine!Adapter!Lines : Engine!Active(keyer.port, line) => keyer.timer # Engine!Stopped
    BY <1>0 DEF Worker, Down, Engine!Active
  <2>2. QED
    BY <2>1, SameWorker, SameAdapter DEF AssertedLinesAreTimed
<1>4. NoUnwantedLine
  BY <1>0, SameWorker DEF Wanted, NoUnwantedLine
<1>5. KeyDownBounded
  <2>1. SUFFICES ASSUME Engine!Active(keyer.port, "key")
                 PROVE  keyerClock - keyedSince <= (IF keyer.tuning THEN keyer.tune ELSE MaxKeyDown) + EngineSlip
    BY SameWorker DEF KeyDownBounded
  <2>2. PICK limit : limit = IF keyer.tuning THEN keyer.tune ELSE MaxKeyDown
    OBVIOUS
  <2>3. limit \in Nat /\ keyerClock \in Int /\ keyedSince \in Int /\ EngineSlip \in Nat /\ keyer.timer \in Int
    BY <1>0, <2>2, EngineHas, KeyerHas, Limits, TimeIs, StoppedIsNoTime DEF KeyerInv
  <2>4. keyer.timer # Engine!Stopped
    BY <1>0, <2>1, DownIs DEF Worker
  <2>5. keyerClock <= keyer.timer + EngineSlip /\ keyer.timer <= keyedSince + limit
    BY <1>0, <2>1, <2>2, <2>4 DEF Timely, KeyLimited, Within, Bound
  <2>6. QED
    BY <2>2, <2>3, <2>5
<1>6. Keyer!Adapter!PortConsistent(keyer.port) /\ Keyer!Adapter!ReportedMatchesWire(keyer.port)
  BY <1>0, SameAdapter DEF Sane, Honest
<1>7. keyer.sch.pending = FALSE /\ (keyer.sch.ptt => Keyer!Running(keyer)) /\ (keyer.sch.key => keyer.sch.ptt)
  <2>1. keyer.sch.pending \in BOOLEAN
    BY <1>0, EngineHas, SchedulerHas
  <2>2. QED
    BY <1>0, <2>1, SameWorker DEF Disciplined, Engine!Running
<1>8. keyer.timer # Keyer!Stopped =>
        /\ Keyer!Busy(keyer)
        /\ keyer.timer <= (IF keyer.tuning THEN keyer.tuneDeadline ELSE keyer.sch.next) \/ keyer.timer <= keyerClock
  BY <1>0, SameWorker DEF Worker, Timely, Deadline
<1>9. QED
  BY <1>1, <1>2, <1>3, <1>4, <1>5, <1>6, <1>7, <1>8 DEF EngineInv

LEMMA KeyerKeeps ==
  KeyerSpec => []KeyerInv
<1>1. KeyerInit => KeyerInv
  BY KeyerStarts
<1>2. KeyerInv /\ [KeyerNext]_keyerVars => KeyerInv'
  <2>1. SUFFICES ASSUME KeyerInv, [KeyerNext]_keyerVars PROVE KeyerInv'
    OBVIOUS
  <2>2. CASE KeyerNext
    BY <2>1, <2>2, KeyerStep
  <2>3. CASE UNCHANGED keyerVars
    BY <2>1, <2>3 DEF KeyerInv, keyerVars
  <2>4. QED
    BY <2>1, <2>2, <2>3
<1>3. QED
  BY <1>1, <1>2, PTL DEF KeyerSpec

(* However its owner calls it, however late its timer and whatever the     *)
(* device refuses or reports of its own accord, what the worker believes   *)
(* of its lines is on the wire, KEY is never outside PTT by its doing, no  *)
(* line is up that neither the schedule nor TUNE wants or that no timer    *)
(* looks after, and KEY is down no longer than the limit of what raised it *)
(* and one slip of the timer.                                              *)
THEOREM EngineIsSafe ==
  KeyerSpec => []EngineInv
<1>1. KeyerSpec => []KeyerInv
  BY KeyerKeeps
<1>2. KeyerInv => EngineInv
  BY KeyerSafe
<1>3. QED
  BY <1>1, <1>2, PTL

(* An output that ends, by the schedule, a call, a fault or the watchdog,  *)
(* leaves no line up but one that the device refuses to lower.             *)
THEOREM OutputsEndReleased ==
  KeyerSpec => EndsReleased
<1>1. KeyerSpec => []KeyerInv
  BY KeyerKeeps
<1>2. KeyerInv /\ [KeyerNext]_keyerVars => [EndingStep]_keyerVars
  <2>1. SUFFICES ASSUME KeyerInv, KeyerNext PROVE EndingStep
    OBVIOUS
  <2>2. Leaves(keyer, keyer', keyerDevice)
    BY <2>1, KeyerStep
  <2>3. ASSUME Engine!Busy(keyer), keyer.port.isOpen, ~Engine!Busy(keyer')
        PROVE  \A line \in Engine!Adapter!Lines : keyer'.port.wire[line] => Engine!Adapter!Fails(keyerDevice, line, FALSE)
    BY <2>2, <2>3 DEF Leaves, Lowered
  <2>4. Keyer!Busy(keyer) = Engine!Busy(keyer) /\ Keyer!Busy(keyer)' = Engine!Busy(keyer')
    BY SameWorker
  <2>5. QED
    BY <2>3, <2>4, SameAdapter DEF EndingStep
<1>3. QED
  BY <1>1, <1>2, PTL DEF KeyerSpec, EndsReleased
=============================================================================
