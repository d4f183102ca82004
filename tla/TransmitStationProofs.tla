------------------------ MODULE TransmitStationProofs ------------------------
(***************************************************************************)
(* Whatever the operator, the settings, the radio, the worker's timer and  *)
(* the serial device do, and in whatever order, the radio is keyed only by *)
(* what the guard has granted, for every value of the constants.           *)
(***************************************************************************)
EXTENDS TransmitStation, StationProfiles, TransmitWorkerProofs, InductionTheorems, SequenceTheorems

LEMMA Parameters ==
  /\ EngineConfig \in Engine!EngineConfigs
  /\ Encode \in [Messages \X Speeds -> Engine!Scheduler!Plans]
  /\ NoCall \notin Calls /\ NoMessage \notin Messages
  /\ NormalizeCall \in [RawCalls -> Calls \cup {NoCall}]
  /\ NormalizeMessage \in [RawMessages -> Messages \cup {NoMessage}]
  BY StationAssumption

-----------------------------------------------------------------------------
(* The guard: it has a call wherever it may come to grant a message, also  *)
(* when it returns from TUNE, holds no message outside a confirmed QSO,    *)
(* and grants only a message that is confirmed.                            *)

Holds(g) ==
  /\ g.state \in {"AwaitingConfirmation", "Confirmed", "Transmitting"} => g.call # NoCall
  /\ g.state \in {"Disarmed", "Armed", "AwaitingConfirmation", "Fault"} => g.message = NoMessage
  /\ g.state = "Tuning" =>
       /\ g.tuneReturn \in {"Armed", "Confirmed"}
       /\ g.tuneReturn = "Confirmed" => g.call # NoCall
       /\ g.tuneReturn = "Armed" => g.message = NoMessage
  /\ g.state = "Transmitting" => g.messageConfirmed
GuardOk(g) == g \in Guard!Guards /\ Holds(g)
ArmedGuard(g) == g.state \notin {"Disarmed", "Fault"}

(* The guard h keeps no message but that of g. *)
NoNewMessage(g, h) == h.message # NoMessage => h.message = g.message

LEMMA GuardHas ==
  ASSUME NEW g \in Guard!Guards
  PROVE  /\ g.state \in Guard!TransmitStates /\ g.call \in Calls \cup {NoCall}
         /\ g.message \in Messages \cup {NoMessage} /\ g.messageConfirmed \in BOOLEAN
         /\ g.keyDown \in BOOLEAN /\ g.keyDownSince \in Engine!Scheduler!Time
         /\ g.tuneReturn \in Guard!TransmitStates
  BY DEF Guard!Guards, Guard!Clock, Engine!Scheduler!Time

LEMMA ClockIs == Guard!Clock = Engine!Scheduler!Time /\ 0 \in Guard!Clock
  BY TimeIs DEF Guard!Clock

LEMMA TripFaultIs ==
  ASSUME NEW g, GuardOk(g), NEW h, h = Guard!TripFault(g)
  PROVE  GuardOk(h) /\ h.state = "Fault" /\ h.message = NoMessage
<1>1. h.state = "Fault" /\ h.message = NoMessage
  BY DEF Guard!TripFault, Guard!Enter, Guard!KeyReleased, Guard!ForgetQso,
         Guard!ForgetMessage, GuardOk, Guard!Guards
<1>2. h \in Guard!Guards
  BY ClockIs DEF Guard!TripFault, Guard!Enter, Guard!KeyReleased, Guard!ForgetQso,
         Guard!ForgetMessage, GuardOk, Guard!Guards, Guard!TransmitStates
<1>3. QED
  BY <1>1, <1>2 DEF GuardOk, Holds

LEMMA DisarmIs ==
  ASSUME NEW g, GuardOk(g), NEW h, h = Guard!Disarm(g)
  PROVE  GuardOk(h) /\ h.state = "Disarmed" /\ h.message = NoMessage
<1>1. h.state = "Disarmed" /\ h.message = NoMessage
  BY DEF Guard!Disarm, Guard!Enter, Guard!KeyReleased, Guard!ForgetQso,
         Guard!ForgetMessage, GuardOk, Guard!Guards
<1>2. h \in Guard!Guards
  BY ClockIs DEF Guard!Disarm, Guard!Enter, Guard!KeyReleased, Guard!ForgetQso,
         Guard!ForgetMessage, GuardOk, Guard!Guards, Guard!TransmitStates
<1>3. QED
  BY <1>1, <1>2 DEF GuardOk, Holds

LEMMA EnterIs ==
  ASSUME NEW g \in Guard!Guards, NEW state \in Guard!TransmitStates,
         NEW h, h = Guard!Enter(g, state)
  PROVE  /\ h \in Guard!Guards /\ h.state = state /\ h.call = g.call
         /\ h.message = g.message /\ h.messageConfirmed = g.messageConfirmed
         /\ h.tuneReturn = g.tuneReturn
  BY DEF Guard!Enter, Guard!Guards

LEMMA KeyReleasedIs ==
  ASSUME NEW g \in Guard!Guards, NEW h, h = Guard!KeyReleased(g)
  PROVE  /\ h \in Guard!Guards /\ h.state = g.state /\ h.call = g.call
         /\ h.message = g.message /\ h.messageConfirmed = g.messageConfirmed
         /\ h.tuneReturn = g.tuneReturn
  BY ClockIs DEF Guard!KeyReleased, Guard!Guards

LEMMA ForgetMessageIs ==
  ASSUME NEW g \in Guard!Guards, NEW h, h = Guard!ForgetMessage(g)
  PROVE  /\ h \in Guard!Guards /\ h.state = g.state /\ h.call = g.call
         /\ h.message = NoMessage /\ h.tuneReturn = g.tuneReturn
  BY DEF Guard!ForgetMessage, Guard!Guards

LEMMA FinishTransmissionIs ==
  ASSUME NEW g, GuardOk(g), NEW h, h = Guard!FinishTransmission(g)
  PROVE  GuardOk(h) /\ NoNewMessage(g, h) /\ (ArmedGuard(h) => ArmedGuard(g))
<1>1. CASE g.state # "Transmitting"
  BY <1>1 DEF Guard!FinishTransmission, Guard!CanFinishTransmission, NoNewMessage
<1>2. CASE g.state = "Transmitting"
  <2> DEFINE a == Guard!KeyReleased(g)
             b == Guard!ForgetMessage(a)
  <2>1. /\ a \in Guard!Guards /\ a.call = g.call
    BY KeyReleasedIs DEF GuardOk
  <2>2. h = Guard!Enter(b, "Confirmed")
    BY <1>2 DEF Guard!FinishTransmission, Guard!CanFinishTransmission
  <2> HIDE DEF a
  <2>3. b \in Guard!Guards /\ b.call = a.call /\ b.message = NoMessage
    BY <2>1, ForgetMessageIs
  <2> HIDE DEF b
  <2>4. "Confirmed" \in Guard!TransmitStates
    BY DEF Guard!TransmitStates
  <2>5. /\ h \in Guard!Guards /\ h.state = "Confirmed" /\ h.call = b.call
        /\ h.message = b.message
    BY <2>2, <2>3, <2>4, EnterIs
  <2>6. QED
    BY <1>2, <2>1, <2>3, <2>5 DEF GuardOk, Holds, NoNewMessage, ArmedGuard
<1>3. QED
  BY <1>1, <1>2

LEMMA FinishTuneIs ==
  ASSUME NEW g, GuardOk(g), NEW h, h = Guard!FinishTune(g)
  PROVE  GuardOk(h) /\ NoNewMessage(g, h) /\ (ArmedGuard(h) => ArmedGuard(g))
<1>1. CASE g.state # "Tuning"
  BY <1>1 DEF Guard!FinishTune, Guard!CanFinishTune, NoNewMessage
<1>2. CASE g.state = "Tuning"
  <2> DEFINE a == Guard!KeyReleased(g)
  <2>1. /\ a \in Guard!Guards /\ a.call = g.call /\ a.message = g.message
    BY KeyReleasedIs DEF GuardOk
  <2>2. h = Guard!Enter(a, g.tuneReturn)
    BY <1>2 DEF Guard!FinishTune, Guard!CanFinishTune
  <2> HIDE DEF a
  <2>3. /\ h \in Guard!Guards /\ h.state = g.tuneReturn /\ h.call = a.call
        /\ h.message = a.message
    BY <2>1, <2>2, GuardHas, EnterIs DEF GuardOk
  <2>4. QED
    BY <1>2, <2>1, <2>3 DEF GuardOk, Holds, NoNewMessage, ArmedGuard
<1>3. QED
  BY <1>1, <1>2

(* An observation of KEY that is accepted changes nothing that is granted; *)
(* one that is not trips the fault.                                        *)
LEMMA ObserveIs ==
  ASSUME NEW g, GuardOk(g), g.state \in Guard!OutputStates,
         NEW down \in BOOLEAN, NEW clock \in Engine!Scheduler!Time,
         NEW h, h = Guard!ObserveKeyState(g, down, clock)
  PROVE  /\ GuardOk(h) /\ NoNewMessage(g, h)
         /\ Guard!KeyStateAccepted(g, down, clock) =>
              h.state = g.state /\ h.message = g.message
         /\ ArmedGuard(h) => ArmedGuard(g)
<1>0. g \in Guard!Guards
  BY DEF GuardOk
<1>1. CASE ~down
  <2>1. h = Guard!KeyReleased(g)
    BY <1>1 DEF Guard!ObserveKeyState
  <2>2. QED
    BY <1>0, <2>1, KeyReleasedIs DEF GuardOk, Holds, NoNewMessage, ArmedGuard
<1>2. CASE down /\ ~g.keyDown
  <2>1. h = [g EXCEPT !.keyDown = TRUE, !.keyDownSince = clock]
    BY <1>2 DEF Guard!ObserveKeyState
  <2>2. /\ h \in Guard!Guards /\ h.state = g.state /\ h.call = g.call
        /\ h.message = g.message /\ h.messageConfirmed = g.messageConfirmed
        /\ h.tuneReturn = g.tuneReturn
    BY <1>0, <2>1, ClockIs DEF Guard!Guards
  <2>3. QED
    BY <2>2 DEF GuardOk, Holds, NoNewMessage, ArmedGuard
<1>3. CASE down /\ g.keyDown /\ Guard!KeyHeldTooLong(g, clock)
  <2>1. h = Guard!TripFault(g)
    BY <1>3 DEF Guard!ObserveKeyState
  <2>2. ~Guard!KeyStateAccepted(g, down, clock)
    BY <1>3 DEF Guard!KeyStateAccepted
  <2>3. QED
    BY <2>1, <2>2, TripFaultIs DEF NoNewMessage, ArmedGuard
<1>4. CASE down /\ g.keyDown /\ ~Guard!KeyHeldTooLong(g, clock)
  <2>1. h = g
    BY <1>4 DEF Guard!ObserveKeyState
  <2>2. QED
    BY <2>1 DEF NoNewMessage
<1>5. QED
  BY <1>0, <1>1, <1>2, <1>3, <1>4, GuardHas

(* What the operator's calls make of the guard: nothing while an output is *)
(* made, and no message but the one that is staged.                        *)
Asked(g, h) ==
  /\ GuardOk(h) /\ NoNewMessage(g, h)
  /\ g.state \in Guard!OutputStates => h = g
  /\ ArmedGuard(h) => ArmedGuard(g)

LEMMA EnterOk ==
  ASSUME NEW g \in Guard!Guards,
         NEW state \in {"Disarmed", "Armed", "AwaitingConfirmation", "Confirmed"},
         state \in {"AwaitingConfirmation", "Confirmed"} => g.call # NoCall,
         state # "Confirmed" => g.message = NoMessage,
         NEW h, h = Guard!Enter(g, state)
  PROVE  GuardOk(h) /\ h.message = g.message /\ h.state = state
<1>1. state \in Guard!TransmitStates
  BY DEF Guard!TransmitStates
<1>2. /\ h \in Guard!Guards /\ h.state = state /\ h.call = g.call /\ h.message = g.message
  BY <1>1, EnterIs
<1>3. QED
  BY <1>2 DEF GuardOk, Holds

LEMMA ArmIs ==
  ASSUME NEW g, GuardOk(g), Guard!CanArm(g), NEW h, h = Guard!Arm(g)
  PROVE  GuardOk(h) /\ h.message = g.message /\ h.state = "Armed"
  BY EnterOk DEF GuardOk, Holds, Guard!Arm, Guard!CanArm

LEMMA ResetFaultIs ==
  ASSUME NEW g, GuardOk(g), Guard!CanResetFault(g), NEW h, h = Guard!ResetFault(g)
  PROVE  GuardOk(h) /\ h.message = g.message /\ h.state = "Disarmed"
  BY EnterOk DEF GuardOk, Holds, Guard!ResetFault, Guard!CanResetFault

LEMMA EndQsoIs ==
  ASSUME NEW g, GuardOk(g), NEW h, h = Guard!EndQso(g)
  PROVE  /\ Asked(g, h) /\ (h = g \/ h.message = NoMessage)
         /\ g.state = "Confirmed" => h.message = NoMessage
<1>1. CASE g.state # "Confirmed"
  BY <1>1 DEF Guard!EndQso, Guard!CanEndQso, Asked, NoNewMessage
<1>2. CASE g.state = "Confirmed"
  <2> DEFINE f == Guard!ForgetQso(g)
  <2>1. f \in Guard!Guards /\ f.message = NoMessage
    BY DEF Guard!ForgetQso, Guard!ForgetMessage, GuardOk, Guard!Guards
  <2>2. h = Guard!Enter(f, "Armed")
    BY <1>2 DEF Guard!EndQso, Guard!CanEndQso
  <2> HIDE DEF f
  <2>3. GuardOk(h) /\ h.message = f.message
    BY <2>1, <2>2, EnterOk
  <2>4. QED
    BY <1>2, <2>1, <2>3 DEF Asked, NoNewMessage, ArmedGuard, Guard!OutputStates
<1>3. QED
  BY <1>1, <1>2

LEMMA RequestQsoIs ==
  ASSUME NEW g, GuardOk(g), NEW raw, NEW ignored, Guard!CanRequestQso(g, raw, ignored),
         NEW h, h = Guard!RequestQso(g, raw, ignored)
  PROVE  Asked(g, h)
<1> DEFINE call == NormalizeCall[raw]
           f == [g EXCEPT !.call = call]
<1>1. g.state = "Armed" /\ g.message = NoMessage /\ call \in Calls /\ call # NoCall
  BY Parameters DEF Guard!CanRequestQso, GuardOk, Holds
<1>2. h = Guard!Enter(f, "AwaitingConfirmation")
  BY DEF Guard!RequestQso
<1> HIDE DEF call
<1>3. f \in Guard!Guards /\ f.call = call /\ f.message = g.message
  BY <1>1 DEF GuardOk, Guard!Guards
<1> HIDE DEF f
<1>4. GuardOk(h) /\ h.message = f.message
  BY <1>1, <1>2, <1>3, EnterOk
<1>5. QED
  BY <1>1, <1>3, <1>4 DEF Asked, NoNewMessage, ArmedGuard, Guard!OutputStates

LEMMA ConfirmIs ==
  ASSUME NEW g, GuardOk(g), NEW raw, NEW ignored, NEW h, h = Guard!Confirm(g, raw, ignored)
  PROVE  Asked(g, h)
<1>1. CASE ~Guard!NamesPending(g, raw)
  <2>1. h = g
    BY <1>1 DEF Guard!Confirm, Guard!CanConfirm
  <2>2. QED
    BY <2>1 DEF Asked, NoNewMessage
<1>2. CASE Guard!NamesPending(g, raw) /\ g.call \in ignored
  <2> DEFINE f == [g EXCEPT !.call = NoCall]
  <2>1. h = Guard!Enter(f, "Armed")
    BY <1>2 DEF Guard!Confirm, Guard!CanConfirm
  <2>2. f \in Guard!Guards /\ f.message = g.message
    BY DEF GuardOk, Guard!Guards
  <2>3. g.message = NoMessage
    BY <1>2 DEF Guard!NamesPending, GuardOk, Holds
  <2> HIDE DEF f
  <2>4. GuardOk(h) /\ h.message = f.message
    BY <2>1, <2>2, <2>3, EnterOk
  <2>5. QED
    BY <1>2, <2>2, <2>4 DEF Asked, NoNewMessage, ArmedGuard, Guard!OutputStates,
                           Guard!NamesPending
<1>3. CASE Guard!NamesPending(g, raw) /\ g.call \notin ignored
  <2>1. h = Guard!Enter(g, "Confirmed")
    BY <1>3 DEF Guard!Confirm, Guard!CanConfirm
  <2>2. g.state = "AwaitingConfirmation" /\ g.call # NoCall
    BY <1>3 DEF Guard!NamesPending, GuardOk, Holds
  <2>3. GuardOk(h) /\ h.message = g.message
    BY <2>1, <2>2, EnterOk DEF GuardOk
  <2>4. QED
    BY <2>2, <2>3 DEF Asked, NoNewMessage, ArmedGuard, Guard!OutputStates
<1>4. QED
  BY <1>1, <1>2, <1>3

LEMMA StageMessageIs ==
  ASSUME NEW g, GuardOk(g), NEW raw \in RawMessages, Guard!CanStageMessage(g, raw),
         NEW h, h = Guard!StageMessage(g, raw)
  PROVE  GuardOk(h) /\ g.state = "Confirmed" /\ h.state = "Confirmed"
         /\ h.message \in Messages
<1> DEFINE text == NormalizeMessage[raw]
<1>1. g.state = "Confirmed" /\ text \in Messages
  BY Parameters DEF Guard!CanStageMessage
<1>2. h = [g EXCEPT !.message = text, !.messageConfirmed = FALSE]
  BY DEF Guard!StageMessage
<1> HIDE DEF text
<1>3. /\ h \in Guard!Guards /\ h.state = g.state /\ h.call = g.call /\ h.message = text
  BY <1>1, <1>2 DEF GuardOk, Guard!Guards
<1>4. QED
  BY <1>1, <1>3 DEF GuardOk, Holds

LEMMA ConfirmMessageIs ==
  ASSUME NEW g, GuardOk(g), NEW raw, NEW h, h = Guard!ConfirmMessage(g, raw)
  PROVE  Asked(g, h)
<1>1. CASE ~(g.state = "Confirmed" /\ g.message # NoMessage)
  <2>1. h = g
    BY <1>1 DEF Guard!ConfirmMessage
  <2>2. QED
    BY <2>1 DEF Asked, NoNewMessage
<1>2. CASE g.state = "Confirmed" /\ g.message # NoMessage
  <2> DEFINE matches == Guard!MatchesStaged(g, raw)
  <2>1. h = [g EXCEPT !.messageConfirmed = matches]
    BY <1>2 DEF Guard!ConfirmMessage
  <2>2. matches \in BOOLEAN
    BY DEF Guard!MatchesStaged
  <2> HIDE DEF matches
  <2>3. h \in Guard!Guards /\ h.state = g.state /\ h.call = g.call /\ h.message = g.message
    BY <2>1, <2>2 DEF GuardOk, Guard!Guards
  <2>4. QED
    BY <1>2, <2>3 DEF Asked, NoNewMessage, ArmedGuard, Guard!OutputStates, GuardOk, Holds
<1>3. QED
  BY <1>1, <1>2

LEMMA BeginTransmissionIs ==
  ASSUME NEW g, GuardOk(g), NEW ignored, Guard!CanBeginTransmission(g, ignored),
         NEW h, h = Guard!BeginTransmission(g, ignored)
  PROVE  /\ GuardOk(h) /\ h.state = "Transmitting" /\ h.message = g.message
         /\ h.message # NoMessage /\ g.state = "Confirmed"
<1> DEFINE f == Guard!KeyReleased(g)
<1>1. /\ g.state = "Confirmed" /\ g.message # NoMessage /\ g.messageConfirmed
      /\ g.call # NoCall
  BY DEF Guard!CanBeginTransmission, Guard!MessageReady, GuardOk, Holds
<1>2. h = Guard!Enter(f, "Transmitting")
  BY DEF Guard!BeginTransmission, Guard!CanBeginTransmission
<1>3. /\ f \in Guard!Guards /\ f.call = g.call /\ f.message = g.message
      /\ f.messageConfirmed = g.messageConfirmed
  BY KeyReleasedIs DEF GuardOk
<1> HIDE DEF f
<1>4. "Transmitting" \in Guard!TransmitStates
  BY DEF Guard!TransmitStates
<1>5. /\ h \in Guard!Guards /\ h.state = "Transmitting" /\ h.call = f.call
      /\ h.message = f.message /\ h.messageConfirmed = f.messageConfirmed
  BY <1>2, <1>3, <1>4, EnterIs
<1>6. QED
  BY <1>1, <1>3, <1>5 DEF GuardOk, Holds

LEMMA BeginTuneIs ==
  ASSUME NEW g, GuardOk(g), Guard!CanBeginTune(g), NEW h, h = Guard!BeginTune(g)
  PROVE  GuardOk(h) /\ h.state = "Tuning" /\ h.message = g.message
<1> DEFINE a == [g EXCEPT !.tuneReturn = g.state]
           f == Guard!KeyReleased(a)
<1>1. g.state \in {"Armed", "Confirmed"}
  BY DEF Guard!CanBeginTune
<1>2. h = Guard!Enter(f, "Tuning")
  BY DEF Guard!BeginTune
<1>3. /\ a \in Guard!Guards /\ a.call = g.call /\ a.message = g.message
      /\ a.tuneReturn = g.state
  BY DEF GuardOk, Guard!Guards
<1> HIDE DEF a
<1>4. /\ f \in Guard!Guards /\ f.call = a.call /\ f.message = a.message
      /\ f.tuneReturn = a.tuneReturn
  BY <1>3, KeyReleasedIs
<1> HIDE DEF f
<1>5. "Tuning" \in Guard!TransmitStates
  BY DEF Guard!TransmitStates
<1>6. /\ h \in Guard!Guards /\ h.state = "Tuning" /\ h.call = f.call
      /\ h.message = f.message /\ h.tuneReturn = f.tuneReturn
  BY <1>2, <1>4, <1>5, EnterIs
<1>7. QED
  BY <1>1, <1>3, <1>4, <1>6 DEF GuardOk, Holds

-----------------------------------------------------------------------------
(* What the main thread knows of the worker: a snapshot that has not been  *)
(* overtaken never calls an output ended that goes on, nor reports a fault *)
(* of a worker that is not at rest, and the latest of them is the truth.   *)

Seen(v, e) ==
  /\ Engine!Busy(e) => v.busy
  /\ v.fault => Rest(e)
  /\ v.available = e.configured
Current(v, e) ==
  /\ Seen(v, e)
  /\ v.busy = Engine!Busy(e)
  /\ Engine!Active(e.port, "ptt") => v.ptt
  /\ Engine!Active(e.port, "key") => v.key

Views(kept, queue, e) ==
  /\ Seen(kept, e)
  /\ \A i \in 1..Len(queue) : queue[i].fresh => Seen(queue[i].snapshot, e)
  /\ \A i, j \in 1..Len(queue) : i < j /\ queue[i].fresh => queue[j].fresh
  /\ (\A i \in 1..Len(queue) : ~queue[i].fresh) => Current(kept, e)
  /\ Len(queue) > 0 /\ queue[Len(queue)].fresh => Current(queue[Len(queue)].snapshot, e)

(* The timer runs only for what the guard grants at present.               *)
GrantedFor(g, e) ==
  e.timer # Engine!Stopped =>
    \/ /\ Engine!Running(e) /\ ~e.tuning /\ g.state = "Transmitting"
       /\ \E wpm \in Speeds : e.sch.plan = EncodeAt(g.message, wpm)
    \/ e.tuning /\ ~Engine!Running(e) /\ g.state = "Tuning"

PlanOf(g, plan) ==
  g.message # NoMessage => \E wpm \in Speeds : plan = EncodeAt(g.message, wpm)

Working(e) == Worker(e) /\ (e.fault => e.timer = Engine!Stopped)

Core(t) ==
  /\ t \in Stations
  /\ GuardOk(t.guard) /\ PlanOf(t.guard, t.plan)
  /\ Working(t.engine)
  /\ Views(t.cache, t.queue, t.engine)
  /\ GrantedFor(t.guard, t.engine)

SameRadio(t) == Armed(t) => RadioStillConfirmed(t)
Watched(t) == t.engine.timer # Engine!Stopped => t.watchdog

-----------------------------------------------------------------------------
(* The fields of the station that a step leaves alone.                     *)

Items == [snapshot : Snapshots, fresh : BOOLEAN]

LEMMA StationHas ==
  ASSUME NEW t \in Stations
  PROVE  /\ t.guard \in Guard!Guards /\ t.plan \in Engine!Scheduler!Plans
         /\ t.wasBusy \in BOOLEAN
         /\ t.watchdog \in BOOLEAN /\ t.enabled \in BOOLEAN /\ t.radio \in Radios
         /\ t.armedRadio \in RadioIds /\ t.engine \in Engine!Engines
         /\ t.cache \in Snapshots
         /\ t.queue \in Seq(Items)
  BY DEF Stations, Items

Kept(t, u) ==
  /\ u.plan = t.plan /\ u.radio = t.radio /\ u.armedRadio = t.armedRadio
  /\ u.enabled = t.enabled
SameLink(t, u) == u.engine = t.engine /\ u.cache = t.cache /\ u.queue = t.queue

LEMMA GuardSet ==
  ASSUME NEW t \in Stations, NEW g \in Guard!Guards, NEW u, u = [t EXCEPT !.guard = g]
  PROVE  /\ u \in Stations /\ u.guard = g /\ Kept(t, u) /\ SameLink(t, u)
         /\ u.watchdog = t.watchdog /\ u.wasBusy = t.wasBusy
  BY DEF Stations, Kept, SameLink

Unwatched(t, g) == [t EXCEPT !.watchdog = FALSE, !.guard = g]
Replanned(t, g, plan) == [t EXCEPT !.guard = g, !.plan = plan]

LEMMA UnwatchedGuardSet ==
  ASSUME NEW t \in Stations, NEW g \in Guard!Guards,
         NEW u, u = Unwatched(t, g)
  PROVE  /\ u \in Stations /\ u.guard = g /\ Kept(t, u) /\ SameLink(t, u)
         /\ u.wasBusy = t.wasBusy
  BY DEF Unwatched, Stations, Kept, SameLink

LEMMA GuardAndPlanSet ==
  ASSUME NEW t \in Stations, NEW g \in Guard!Guards, NEW plan \in Engine!Scheduler!Plans,
         NEW u, u = Replanned(t, g, plan)
  PROVE  /\ u \in Stations /\ u.guard = g /\ u.plan = plan /\ SameLink(t, u)
         /\ u.radio = t.radio /\ u.armedRadio = t.armedRadio /\ u.watchdog = t.watchdog
  BY DEF Replanned, Stations, SameLink

LEMMA WatchdogSet ==
  ASSUME NEW t \in Stations, NEW on \in BOOLEAN, NEW u, u = [t EXCEPT !.watchdog = on]
  PROVE  /\ u \in Stations /\ u.guard = t.guard /\ Kept(t, u) /\ SameLink(t, u)
         /\ u.watchdog = on
  BY DEF Stations, Kept, SameLink

LEMMA WasBusySet ==
  ASSUME NEW t \in Stations, NEW busy \in BOOLEAN, NEW u, u = [t EXCEPT !.wasBusy = busy]
  PROVE  /\ u \in Stations /\ u.guard = t.guard /\ Kept(t, u) /\ SameLink(t, u)
         /\ u.watchdog = t.watchdog
  BY DEF Stations, Kept, SameLink

Linked(t, e, v, q) == [t EXCEPT !.engine = e, !.cache = v, !.queue = q]

LEMMA LinkSet ==
  ASSUME NEW t \in Stations, NEW e \in Engine!Engines, NEW v \in Snapshots,
         NEW q \in Seq(Items),
         NEW u, u = Linked(t, e, v, q)
  PROVE  /\ u \in Stations /\ u.guard = t.guard /\ Kept(t, u) /\ u.watchdog = t.watchdog
         /\ u.wasBusy = t.wasBusy /\ u.engine = e /\ u.cache = v /\ u.queue = q
<1>1. u = [guard |-> t.guard, plan |-> t.plan, wasBusy |-> t.wasBusy,
           watchdog |-> t.watchdog, enabled |-> t.enabled, radio |-> t.radio,
           armedRadio |-> t.armedRadio, engine |-> e, cache |-> v, queue |-> q]
  BY DEF Stations, Linked
<1>2. u \in Stations
  BY <1>1, StationHas DEF Stations, Items
<1>3. QED
  BY <1>1, <1>2 DEF Kept

(* What the invariant says is about the guard, the plan and the link.      *)
LEMMA CoreOf ==
  ASSUME NEW t, Core(t), NEW u \in Stations, SameLink(t, u),
         GuardOk(u.guard), PlanOf(u.guard, u.plan), GrantedFor(u.guard, u.engine)
  PROVE  Core(u)
  BY DEF Core, SameLink

LEMMA PlanKept ==
  ASSUME NEW g, NEW h, NEW plan, PlanOf(g, plan), NoNewMessage(g, h)
  PROVE  PlanOf(h, plan)
  BY DEF PlanOf, NoNewMessage

LEMMA RestIsGranted ==
  ASSUME NEW e, Rest(e), NEW g
  PROVE  GrantedFor(g, e)
  BY DEF GrantedFor, Rest

LEMMA UngrantedRests ==
  ASSUME NEW e, Worker(e), NEW g, GrantedFor(g, e), g.state \notin Guard!OutputStates
  PROVE  Rest(e)
  BY DEF GrantedFor, Rest, Worker, Guard!OutputStates

-----------------------------------------------------------------------------
(* A facade call: the worker's answer is the truth when it is cached.      *)

LEMMA SnapshotIs ==
  ASSUME NEW e, Worker(e), Rest(e) \/ Sound(e)
  PROVE  Engine!Snapshot(e) \in Snapshots /\ Current(Engine!Snapshot(e), e)
<1>1. /\ e.configured \in BOOLEAN /\ e.fault \in BOOLEAN /\ e.port \in Engine!Adapter!Ports
      /\ e.port.openSafe \in BOOLEAN /\ e.port.fault \in BOOLEAN
  BY EngineHas, KnownOf DEF Worker
<1>2. Engine!Busy(e) \in BOOLEAN
  BY EngineHas DEF Worker, Engine!Busy, Engine!Running
<1>3. Engine!Adapter!FaultOrUnknown(e.port) \in BOOLEAN
  BY <1>1 DEF Engine!Adapter!FaultOrUnknown
<1>4. Engine!Snapshot(e) \in Snapshots
  BY <1>1, <1>2, <1>3 DEF Engine!Snapshot, Snapshots, Engine!Active
<1>5. Current(Engine!Snapshot(e), e)
  BY <1>1, <1>2 DEF Engine!Snapshot, Current, Seen, Sound
<1>6. QED
  BY <1>4, <1>5

LEMMA OvertakenIs ==
  ASSUME NEW q \in Seq(Items), NEW r, r = Overtaken(q)
  PROVE  r \in Seq(Items) /\ \A i \in 1..Len(r) : r[i].fresh = FALSE
<1>1. Len(q) \in Nat /\ r = [i \in 1..Len(q) |-> [q[i] EXCEPT !.fresh = FALSE]]
  BY DEF Overtaken
<1>2. \A i \in 1..Len(q) : [q[i] EXCEPT !.fresh = FALSE] \in Items
  <2>1. TAKE i \in 1..Len(q)
  <2>2. q[i] \in Items
    OBVIOUS
  <2>3. QED
    BY <2>2 DEF Items
<1>3. r \in Seq(Items) /\ Len(r) = Len(q)
  BY <1>1, <1>2
<1>4. \A i \in 1..Len(q) : [q[i] EXCEPT !.fresh = FALSE].fresh = FALSE
  <2>1. TAKE i \in 1..Len(q)
  <2>2. q[i] \in Items
    OBVIOUS
  <2>3. QED
    BY <2>2 DEF Items
<1>5. QED
  BY <1>1, <1>3, <1>4

LEMMA AnswerIs ==
  ASSUME NEW t \in Stations, GuardOk(t.guard), PlanOf(t.guard, t.plan),
         NEW e, Worker(e), Rest(e) \/ Sound(e), GrantedFor(t.guard, e),
         NEW u, u = Answer(t, e)
  PROVE  /\ Core(u) /\ u.engine = e /\ u.guard = t.guard /\ Kept(t, u)
         /\ u.watchdog = t.watchdog
<1> DEFINE v == Engine!Snapshot(e)
           q == Overtaken(t.queue)
<1>0. e \in Engine!Engines
  BY DEF Worker
<1>1. v \in Snapshots /\ Current(v, e)
  BY SnapshotIs
<1>2. q \in Seq(Items) /\ \A i \in 1..Len(q) : q[i].fresh = FALSE
  BY OvertakenIs, StationHas
<1>3. u = Linked(t, e, v, q)
  BY DEF Answer, Linked
<1> HIDE DEF v, q
<1>4. /\ u \in Stations /\ u.guard = t.guard /\ Kept(t, u) /\ u.watchdog = t.watchdog
      /\ u.engine = e /\ u.cache = v /\ u.queue = q
  BY <1>0, <1>1, <1>2, <1>3, LinkSet
<1>5. Len(q) \in Nat
  BY <1>2
<1>6. Views(v, q, e)
  BY <1>1, <1>2, <1>5 DEF Views, Current
<1>7. Working(e)
  BY DEF Working, Rest, Sound
<1>8. QED
  BY <1>4, <1>6, <1>7 DEF Core, Kept

Idle(t) == Core(t) /\ Rest(t.engine)

LEMMA QuietEmergencyIs ==
  ASSUME NEW t \in Stations, GuardOk(t.guard), PlanOf(t.guard, t.plan), Worker(t.engine),
         NEW clock \in Engine!Scheduler!Time, NEW serial, NEW u, u = QuietEmergency(t,
         clock, serial)
  PROVE  Idle(u) /\ u.guard = t.guard /\ Kept(t, u)
<1> DEFINE e == Engine!EmergencyRelease(t.engine, clock, serial)
<1>1. Worker(e) /\ Rest(e)
  BY EmergencyReleaseIs
<1>2. u = Answer(t, e)
  BY DEF QuietEmergency
<1> HIDE DEF e
<1>3. QED
  BY <1>1, <1>2, AnswerIs, RestIsGranted DEF Idle

-----------------------------------------------------------------------------
(* The handler: it grants nothing, and what it does not stop it leaves.    *)

(* u is t after the handler, or a slot that only releases, has run.        *)
Handled(t, u) ==
  /\ Core(u) /\ Kept(t, u)
  /\ Rest(u.engine) \/ (u.engine = t.engine /\ u.watchdog = t.watchdog)
  /\ Armed(u) => Armed(t)

LEMMA ArmedIs ==
  ASSUME NEW t
  PROVE  Armed(t) <=> ArmedGuard(t.guard)
  BY DEF Armed, ArmedGuard

LEMMA TripIs ==
  ASSUME NEW t, Core(t), Rest(t.engine), NEW u, u = Trip(t)
  PROVE  Handled(t, u) /\ u.engine = t.engine /\ ~Armed(u)
<1> DEFINE g == Guard!TripFault(t.guard)
<1>1. GuardOk(g) /\ g.state = "Fault" /\ g.message = NoMessage
  BY TripFaultIs DEF Core
<1>2. u = Unwatched(t, g)
  BY DEF Unwatched, Trip
<1> HIDE DEF g
<1>3. /\ u \in Stations /\ u.guard = g /\ Kept(t, u) /\ SameLink(t, u)
  BY <1>1, <1>2, UnwatchedGuardSet DEF Core, GuardOk
<1>4. GrantedFor(u.guard, u.engine) /\ PlanOf(u.guard, u.plan)
  BY <1>1, <1>3, RestIsGranted DEF SameLink, PlanOf
<1>5. Core(u)
  BY <1>1, <1>3, <1>4, CoreOf
<1>6. QED
  BY <1>1, <1>3, <1>5 DEF Handled, SameLink, Armed

LEMMA FinishOutputIs ==
  ASSUME NEW t, Core(t), Rest(t.engine), NEW u, u = FinishOutput(t)
  PROVE  Handled(t, u) /\ u.engine = t.engine
<1> DEFINE g == IF t.guard.state = "Transmitting" THEN Guard!FinishTransmission(t.guard)
                                                  ELSE Guard!FinishTune(t.guard)
<1>1. GuardOk(g) /\ NoNewMessage(t.guard, g) /\ (ArmedGuard(g) => ArmedGuard(t.guard))
  BY FinishTransmissionIs, FinishTuneIs DEF Core
<1>2. u = Unwatched(t, g)
  BY DEF Unwatched, FinishOutput
<1> HIDE DEF g
<1>3. /\ u \in Stations /\ u.guard = g /\ Kept(t, u) /\ SameLink(t, u)
  BY <1>1, <1>2, UnwatchedGuardSet DEF Core, GuardOk
<1>4. GrantedFor(u.guard, u.engine) /\ PlanOf(u.guard, u.plan)
  BY <1>1, <1>3, RestIsGranted, PlanKept DEF SameLink, Kept, Core
<1>5. Core(u)
  BY <1>1, <1>3, <1>4, CoreOf
<1>6. QED
  BY <1>1, <1>3, <1>5 DEF Handled, SameLink, Armed, ArmedGuard

LEMMA CoreHas ==
  ASSUME NEW t, Core(t)
  PROVE  /\ t \in Stations /\ GuardOk(t.guard) /\ PlanOf(t.guard, t.plan)
         /\ Worker(t.engine) /\ GrantedFor(t.guard, t.engine)
         /\ t.cache.ptt \in BOOLEAN /\ t.cache.key \in BOOLEAN /\ t.cache.busy \in BOOLEAN
         /\ t.cache.fault \in BOOLEAN /\ t.wasBusy \in BOOLEAN
         /\ t.cache.fault => Rest(t.engine)
         /\ ~t.cache.busy => Rest(t.engine) /\ ~Engine!Busy(t.engine)
         /\ t.cache.available = t.engine.configured
<1>1. t.cache \in Snapshots /\ t.wasBusy \in BOOLEAN
  BY StationHas DEF Core
<1>2. Worker(t.engine) /\ Seen(t.cache, t.engine)
  BY DEF Core, Working, Views
<1>3. QED
  BY <1>1, <1>2, IdleRests DEF Core, Snapshots, Seen

(* An observation of KEY while an output is guarded. *)
LEMMA WatchOutputIs ==
  ASSUME NEW t, Core(t), t.guard.state \in Guard!OutputStates,
         NEW clock \in Engine!Scheduler!Time,
         NEW u, u = WatchOutput(t, clock)
  PROVE  /\ u \in Stations /\ GuardOk(u.guard) /\ PlanOf(u.guard, u.plan)
         /\ Kept(t, u) /\ u.engine = t.engine
         /\ Armed(u) => Armed(t)
         /\ Guard!KeyStateAccepted(t.guard, t.cache.key, clock) => Handled(t, u)
<1> DEFINE g == Guard!ObserveKeyState(t.guard, t.cache.key, clock)
           seen == [t EXCEPT !.guard = g]
           accepted == Guard!KeyStateAccepted(t.guard, t.cache.key, clock)
<1>1. /\ GuardOk(g) /\ NoNewMessage(t.guard, g) /\ (ArmedGuard(g) => ArmedGuard(t.guard))
      /\ accepted => g.state = t.guard.state /\ g.message = t.guard.message
  BY CoreHas, ObserveIs
<1>2. u = CASE ~accepted -> [seen EXCEPT !.watchdog = FALSE]
            [] accepted /\ t.wasBusy /\ ~t.cache.busy -> FinishOutput(seen)
            [] OTHER -> seen
  BY DEF WatchOutput
<1>3. accepted \in BOOLEAN
  BY DEF Guard!KeyStateAccepted
<1> HIDE DEF g, accepted
<1>4. /\ seen \in Stations /\ seen.guard = g /\ Kept(t, seen) /\ SameLink(t, seen)
      /\ seen.watchdog = t.watchdog
  BY <1>1, CoreHas, GuardSet DEF GuardOk
<1>5. PlanOf(seen.guard, seen.plan)
  BY <1>1, <1>4, CoreHas, PlanKept DEF Kept
<1> HIDE DEF seen
<1>6. CASE ~accepted
  <2> DEFINE off == [seen EXCEPT !.watchdog = FALSE]
  <2>1. u = off
    BY <1>2, <1>6
  <2>2. off \in Stations /\ off.guard = seen.guard /\ Kept(seen, off) /\ SameLink(seen, off)
    BY <1>4, WatchdogSet
  <2> HIDE DEF off
  <2>3. QED
    BY <1>1, <1>4, <1>5, <1>6, <2>1, <2>2 DEF Kept, SameLink, Armed, ArmedGuard, accepted
<1>7. CASE accepted
  <2>1. GrantedFor(seen.guard, seen.engine)
    BY <1>1, <1>4, <1>7, CoreHas DEF GrantedFor, SameLink
  <2>2. Core(seen)
    BY <1>1, <1>4, <1>5, <2>1, CoreOf
  <2>3. Handled(t, seen)
    BY <1>1, <1>4, <2>2 DEF Handled, SameLink, Armed, ArmedGuard
  <2>4. u = seen \/ (~t.cache.busy /\ u = FinishOutput(seen))
    BY <1>2, <1>3, <1>7
  <2>5. CASE u = seen
    BY <1>1, <1>4, <1>5, <2>3, <2>5 DEF SameLink, Handled
  <2>6. CASE ~t.cache.busy /\ u = FinishOutput(seen)
    <3>1. Rest(seen.engine)
      BY <1>4, <2>6, CoreHas DEF SameLink
    <3>2. Handled(seen, u) /\ u.engine = seen.engine
      BY <2>2, <2>6, <3>1, FinishOutputIs
    <3>3. Handled(t, u)
      BY <1>4, <2>3, <3>1, <3>2 DEF Handled, Kept
    <3>4. QED
      BY <1>4, <3>2, <3>3, CoreHas DEF Handled, SameLink
  <2>7. QED
    BY <2>4, <2>5, <2>6
<1>8. QED
  BY <1>3, <1>6, <1>7

LEMMA HandlerIs ==
  ASSUME NEW t, Core(t), NEW clock \in Engine!Scheduler!Time, NEW serial,
         NEW u, u = HandleHardwareChanged(t, clock, serial)
  PROVE  Handled(t, u)
<1> DEFINE guarded == t.guard.state \in Guard!OutputStates
           faulted == t.cache.fault /\ (Armed(t) \/ LinesUp(t))
           release == MustRelease(t, clock)
           judged == CASE faulted \/ (LinesUp(t) /\ ~guarded) -> Trip(t)
                       [] ~faulted /\ guarded -> WatchOutput(t, clock)
                       [] OTHER -> t
           handled == IF ~faulted /\ release THEN QuietEmergency(judged, clock, serial)
                                             ELSE judged
<1>1. u = [handled EXCEPT !.wasBusy = handled.cache.busy]
  BY DEF HandleHardwareChanged
<1>2. Handled(t, handled)
  <2>1. release = IF guarded THEN ~Guard!KeyStateAccepted(t.guard, t.cache.key, clock)
                             ELSE LinesUp(t)
    BY DEF MustRelease
  <2>2. faulted => Rest(t.engine)
    BY CoreHas
  <2>3. ~guarded => Rest(t.engine)
    BY CoreHas, UngrantedRests
  <2> HIDE DEF release
  <2>4. CASE faulted
    <3>1. handled = Trip(t)
      BY <2>4
    <3>2. QED
      BY <2>2, <2>4, <3>1, TripIs
  <2>5. CASE ~faulted /\ LinesUp(t) /\ ~guarded
    <3>1. judged = Trip(t) /\ handled = QuietEmergency(judged, clock, serial)
      BY <2>1, <2>5
    <3> HIDE DEF judged, handled
    <3>2. Handled(t, judged)
      BY <2>3, <2>5, <3>1, TripIs
    <3>3. Idle(handled) /\ handled.guard = judged.guard /\ Kept(judged, handled)
      BY <3>1, <3>2, CoreHas, QuietEmergencyIs DEF Handled
    <3>4. QED
      BY <3>2, <3>3 DEF Handled, Idle, Kept, Armed
  <2>6. CASE ~faulted /\ ~LinesUp(t) /\ ~guarded
    <3>1. handled = t
      BY <2>1, <2>6
    <3>2. QED
      BY <3>1 DEF Handled, Kept
  <2>7. CASE ~faulted /\ guarded /\ Guard!KeyStateAccepted(t.guard, t.cache.key, clock)
    <3>1. handled = WatchOutput(t, clock)
      BY <2>1, <2>7
    <3>2. QED
      BY <2>7, <3>1, WatchOutputIs
  <2>8. CASE ~faulted /\ guarded /\ ~Guard!KeyStateAccepted(t.guard, t.cache.key, clock)
    <3>1. judged = WatchOutput(t, clock) /\ handled = QuietEmergency(judged, clock, serial)
      BY <2>1, <2>8
    <3> HIDE DEF judged, handled
    <3>2. /\ judged \in Stations /\ GuardOk(judged.guard)
          /\ PlanOf(judged.guard, judged.plan)
          /\ Kept(t, judged) /\ judged.engine = t.engine
          /\ Armed(judged) => Armed(t)
      BY <2>8, <3>1, WatchOutputIs
    <3>3. Idle(handled) /\ handled.guard = judged.guard /\ Kept(judged, handled)
      BY <3>1, <3>2, CoreHas, QuietEmergencyIs
    <3>4. QED
      BY <3>2, <3>3 DEF Handled, Idle, Kept, Armed
  <2>9. QED
    BY <2>4, <2>5, <2>6, <2>7, <2>8
<1> HIDE DEF handled
<1>3. Core(handled) /\ handled \in Stations /\ handled.cache.busy \in BOOLEAN
  BY <1>2, CoreHas DEF Handled
<1>4. /\ u \in Stations /\ u.guard = handled.guard /\ Kept(handled, u)
      /\ SameLink(handled, u) /\ u.watchdog = handled.watchdog
  BY <1>1, <1>3, WasBusySet
<1>5. Core(u)
  BY <1>3, <1>4, CoreHas, CoreOf DEF Kept, SameLink
<1>6. QED
  BY <1>2, <1>4, <1>5 DEF Handled, Kept, SameLink, Armed

(* A facade call may be made in any slot whose guard and plan are in       *)
(* order; what it answers is cached and handled before it returns.         *)
Ready(t) ==
  t \in Stations /\ GuardOk(t.guard) /\ PlanOf(t.guard, t.plan) /\ Worker(t.engine)

LEMMA CoreReady ==
  ASSUME NEW t, Core(t)
  PROVE  Ready(t)
  BY CoreHas DEF Ready

LEMMA FacadeIs ==
  ASSUME NEW t, Ready(t), NEW e, Worker(e), Rest(e) \/ Sound(e), GrantedFor(t.guard, e),
         NEW clock \in Engine!Scheduler!Time, NEW serial, NEW u, u = Facade(t, e, clock,
         serial)
  PROVE  /\ Core(u) /\ Kept(t, u) /\ (Armed(u) => Armed(t))
         /\ Rest(u.engine) \/ (u.engine = e /\ u.watchdog = t.watchdog)
<1> DEFINE a == Answer(t, e)
<1>1. Core(a) /\ a.engine = e /\ a.guard = t.guard /\ Kept(t, a) /\ a.watchdog = t.watchdog
  BY AnswerIs DEF Ready
<1>2. u = HandleHardwareChanged(a, clock, serial)
  BY DEF Facade
<1> HIDE DEF a
<1>3. Handled(a, u)
  BY <1>1, <1>2, HandlerIs
<1>4. QED
  BY <1>1, <1>3 DEF Handled, Kept, Armed

LEMMA CallRests ==
  ASSUME NEW t, Ready(t), NEW e, Worker(e), Rest(e),
         NEW clock \in Engine!Scheduler!Time, NEW serial, NEW u, u = Facade(t, e, clock,
         serial)
  PROVE  Idle(u) /\ Kept(t, u) /\ (Armed(u) => Armed(t))
<1>1. GrantedFor(t.guard, e)
  BY RestIsGranted
<1>2. QED
  BY <1>1, FacadeIs DEF Idle

LEMMA EmergencyIs ==
  ASSUME NEW t, Ready(t), NEW clock \in Engine!Scheduler!Time, NEW serial,
         NEW u, u = Emergency(t, clock, serial)
  PROVE  Idle(u) /\ Kept(t, u) /\ (Armed(u) => Armed(t))
<1> DEFINE e == Engine!EmergencyRelease(t.engine, clock, serial)
<1>1. Worker(e) /\ Rest(e)
  BY EmergencyReleaseIs DEF Ready
<1>2. u = Facade(t, e, clock, serial)
  BY DEF Emergency
<1> HIDE DEF e
<1>3. QED
  BY <1>1, <1>2, CallRests

LEMMA CloseHardwareIs ==
  ASSUME NEW t, Ready(t), NEW clock \in Engine!Scheduler!Time, NEW serial,
         NEW u, u = CloseHardware(t, clock, serial)
  PROVE  Idle(u) /\ Kept(t, u) /\ (Armed(u) => Armed(t))
<1> DEFINE e == Engine!CloseInternal(t.engine, clock, serial)
<1>1. Worker(e) /\ Rest(e)
  BY CloseInternalIs DEF Ready
<1>2. u = Facade(t, e, clock, serial)
  BY DEF CloseHardware
<1> HIDE DEF e
<1>3. QED
  BY <1>1, <1>2, CallRests

LEMMA ConfigureEngineIs ==
  ASSUME NEW t, Ready(t), NEW clock \in Engine!Scheduler!Time, NEW serial,
         NEW u, u = ConfigureEngine(t, clock, serial)
  PROVE  Idle(u) /\ Kept(t, u) /\ (Armed(u) => Armed(t))
<1> DEFINE on == Engine!Configure(t.engine, EngineConfig, clock, serial)
           off == Engine!CloseInternal(t.engine, clock, serial)
           e == IF t.enabled THEN on ELSE off
<1>1. Worker(on) /\ Rest(on)
  BY Parameters, ConfigureIs DEF Ready
<1>2. Worker(off) /\ Rest(off)
  BY CloseInternalIs DEF Ready
<1>3. u = Facade(t, e, clock, serial)
  BY DEF ConfigureEngine
<1> HIDE DEF on, off
<1>4. Worker(e) /\ Rest(e)
  BY <1>1, <1>2
<1> HIDE DEF e
<1>5. QED
  BY <1>3, <1>4, CallRests

-----------------------------------------------------------------------------
(* The operator's slots.                                                   *)

Good(t) == Core(t) /\ SameRadio(t) /\ Watched(t)

LEMMA NoPlanIs ==
  /\ NoPlan \in Engine!Scheduler!Plans
  /\ \A m \in Messages \cup {NoMessage}, wpm \in Speeds : EncodeAt(m, wpm) \in Engine!Scheduler!Plans
<1>1. <<>> \in Seq(Engine!Scheduler!Spans)
  OBVIOUS
<1>2. NoPlan \in Engine!Scheduler!Plans
  BY <1>1 DEF NoPlan, Engine!Scheduler!NoPlan, Engine!Scheduler!Plans
<1>3. QED
  BY <1>2, Parameters DEF EncodeAt

LEMMA SameRadioKept ==
  ASSUME NEW t, SameRadio(t), NEW u, Kept(t, u), Armed(u) => Armed(t)
  PROVE  SameRadio(u)
  BY DEF SameRadio, Kept, RadioStillConfirmed

LEMMA IdleIsGood ==
  ASSUME NEW u, Idle(u), SameRadio(u)
  PROVE  Good(u)
  BY DEF Idle, Good, Watched, Rest

LEMMA WatchdogCore ==
  ASSUME NEW t, Core(t), NEW on \in BOOLEAN, NEW u, u = [t EXCEPT !.watchdog = on]
  PROVE  /\ Core(u) /\ Kept(t, u) /\ u.guard = t.guard /\ u.watchdog = on
         /\ u.engine = t.engine /\ u.cache = t.cache
<1>1. /\ u \in Stations /\ u.guard = t.guard /\ Kept(t, u) /\ SameLink(t, u)
      /\ u.watchdog = on
  BY CoreHas, WatchdogSet
<1>2. Core(u)
  BY <1>1, CoreHas, CoreOf DEF SameLink, Kept
<1>3. QED
  BY <1>1, <1>2 DEF SameLink

LEMMA GuardAtRest ==
  ASSUME NEW t, Idle(t), NEW g, GuardOk(g), PlanOf(g, t.plan),
         NEW u, u = [t EXCEPT !.guard = g]
  PROVE  Idle(u) /\ Kept(t, u) /\ u.guard = g
<1>1. u \in Stations /\ u.guard = g /\ Kept(t, u) /\ SameLink(t, u)
  BY CoreHas, GuardSet DEF Idle, GuardOk
<1>2. GrantedFor(u.guard, u.engine)
  BY <1>1, RestIsGranted DEF Idle, SameLink
<1>3. Core(u)
  BY <1>1, <1>2, CoreOf DEF Idle, Kept
<1>4. QED
  BY <1>1, <1>3 DEF Idle, SameLink

LEMMA PlanAtRest ==
  ASSUME NEW t, Idle(t), NEW g, GuardOk(g), NEW plan \in Engine!Scheduler!Plans, PlanOf(g,
         plan),
         NEW u, u = Replanned(t, g, plan)
  PROVE  /\ Idle(u) /\ u.guard = g /\ u.radio = t.radio /\ u.armedRadio = t.armedRadio
<1>1. /\ u \in Stations /\ u.guard = g /\ u.plan = plan /\ SameLink(t, u)
      /\ u.radio = t.radio /\ u.armedRadio = t.armedRadio
  BY CoreHas, GuardAndPlanSet DEF Idle, GuardOk
<1>2. GrantedFor(u.guard, u.engine)
  BY <1>1, RestIsGranted DEF Idle, SameLink
<1>3. Core(u)
  BY <1>1, <1>2, CoreOf DEF Idle
<1>4. QED
  BY <1>1, <1>3 DEF Idle, SameLink

(* The guard's answer to the operator: it moves only while no output is    *)
(* made, and so what the worker makes stays what is granted.               *)
LEMMA AskedOf ==
  ASSUME NEW t, Good(t), NEW h, Asked(t.guard, h), NEW u, u = [t EXCEPT !.guard = h]
  PROVE  Good(u) /\ u.guard = h /\ Kept(t, u) /\ SameLink(t, u) /\ u.watchdog = t.watchdog
<1>1. /\ u \in Stations /\ u.guard = h /\ Kept(t, u) /\ SameLink(t, u)
      /\ u.watchdog = t.watchdog
  BY CoreHas, GuardSet DEF Good, Asked, GuardOk
<1>2. GrantedFor(h, t.engine)
  BY CoreHas DEF Good, GrantedFor, Asked, Guard!OutputStates
<1>3. PlanOf(h, t.plan)
  BY CoreHas, PlanKept DEF Good, Asked
<1>4. Core(u)
  BY <1>1, <1>2, <1>3, CoreOf DEF Good, Asked, Kept, SameLink
<1>5. Armed(u) => Armed(t)
  BY <1>1 DEF Asked, Armed, ArmedGuard
<1>6. SameRadio(u)
  BY <1>1, <1>5, SameRadioKept DEF Good
<1>7. QED
  BY <1>1, <1>4, <1>6 DEF Good, Watched, SameLink

(* A plan replaced by another of the same message. *)
LEMMA PlanReplaced ==
  ASSUME NEW t, Good(t), NEW plan \in Engine!Scheduler!Plans, PlanOf(t.guard, plan),
         NEW u, u = [t EXCEPT !.plan = plan]
  PROVE  Good(u)
<1>0. t \in Stations
  BY CoreHas DEF Good
<1>1. /\ u \in Stations /\ u.guard = t.guard /\ u.plan = plan /\ SameLink(t, u)
      /\ u.radio = t.radio /\ u.armedRadio = t.armedRadio /\ u.watchdog = t.watchdog
  BY <1>0 DEF Stations, SameLink
<1>2. Core(u)
  BY <1>1, CoreHas, CoreOf DEF Good, SameLink
<1>3. QED
  BY <1>1, <1>2 DEF Good, SameRadio, Watched, SameLink, Armed, RadioStillConfirmed

LEMMA ConfirmTargetKeeps ==
  ASSUME NEW t, Good(t), NEW raw, NEW u, u = ConfirmTarget(t, raw)
  PROVE  Good(u)
<1> DEFINE h == Guard!Confirm(t.guard, raw, {})
<1>1. Asked(t.guard, h)
  BY ConfirmIs, CoreHas DEF Good
<1>2. u = [t EXCEPT !.guard = h]
  BY DEF ConfirmTarget
<1> HIDE DEF h
<1>3. QED
  BY <1>1, <1>2, AskedOf

LEMMA ConfirmPreviewKeeps ==
  ASSUME NEW t, Good(t), NEW raw, NEW u, u = ConfirmPreview(t, raw)
  PROVE  Good(u)
<1> DEFINE h == Guard!ConfirmMessage(t.guard, raw)
<1>1. Asked(t.guard, h)
  BY ConfirmMessageIs, CoreHas DEF Good
<1>2. u = [t EXCEPT !.guard = h]
  BY DEF ConfirmPreview
<1> HIDE DEF h
<1>3. QED
  BY <1>1, <1>2, AskedOf

LEMMA SetWordsPerMinuteKeeps ==
  ASSUME NEW t, Good(t), NEW wpm \in Speeds, NEW u, u = SetWordsPerMinute(t, wpm)
  PROVE  Good(u)
<1>1. CASE t.guard.message = NoMessage
  BY <1>1 DEF SetWordsPerMinute
<1>2. CASE t.guard.message # NoMessage
  <2> DEFINE plan == EncodeAt(t.guard.message, wpm)
  <2>1. u = [t EXCEPT !.plan = plan]
    BY <1>2 DEF SetWordsPerMinute
  <2>2. plan \in Engine!Scheduler!Plans
    BY NoPlanIs, CoreHas, GuardHas DEF Good, GuardOk
  <2>3. PlanOf(t.guard, plan)
    BY DEF PlanOf
  <2> HIDE DEF plan
  <2>4. QED
    BY <2>1, <2>2, <2>3, PlanReplaced
<1>3. QED
  BY <1>1, <1>2

LEMMA PrepareKeeps ==
  ASSUME NEW t, Good(t), NEW raw \in RawMessages, NEW wpm \in Speeds,
         NEW u, u = Prepare(t, raw, wpm)
  PROVE  Good(u)
<1>1. CASE ~Guard!CanStageMessage(t.guard, raw)
  BY <1>1 DEF Prepare
<1>2. CASE Guard!CanStageMessage(t.guard, raw)
  <2> DEFINE h == Guard!StageMessage(t.guard, raw)
             plan == EncodeAt(h.message, wpm)
  <2>1. /\ GuardOk(h) /\ t.guard.state = "Confirmed" /\ h.state = "Confirmed"
        /\ h.message \in Messages
    BY <1>2, StageMessageIs, CoreHas DEF Good
  <2>2. u = Replanned(t, h, plan)
    <3>1. [t EXCEPT !.guard = h].guard = h
      BY CoreHas DEF Good, Stations
    <3>2. u = [[t EXCEPT !.guard = h] EXCEPT !.plan = plan]
      BY <1>2, <3>1 DEF Prepare
    <3> HIDE DEF h, plan
    <3>3. QED
      BY <3>2 DEF Replanned
  <2>3. plan \in Engine!Scheduler!Plans /\ PlanOf(h, plan)
    BY <2>1, NoPlanIs DEF PlanOf
  <2>4. Rest(t.engine)
    BY <2>1, CoreHas, UngrantedRests DEF Good, Guard!OutputStates
  <2> HIDE DEF h, plan
  <2>5. Idle(u) /\ u.guard = h /\ u.radio = t.radio /\ u.armedRadio = t.armedRadio
    BY <2>1, <2>2, <2>3, <2>4, PlanAtRest DEF Idle, Good
  <2>6. SameRadio(u)
    BY <2>1, <2>5 DEF Good, SameRadio, Armed, RadioStillConfirmed
  <2>7. QED
    BY <2>5, <2>6, IdleIsGood
<1>3. QED
  BY <1>1, <1>2

LEMMA WatchdogOff ==
  ASSUME NEW t, Core(t), NEW u, u = [t EXCEPT !.watchdog = FALSE]
  PROVE  /\ Core(u) /\ Kept(t, u) /\ u.guard = t.guard /\ u.engine = t.engine
         /\ Ready(u)
<1>1. PICK off \in BOOLEAN : off = FALSE
  OBVIOUS
<1>2. u = [t EXCEPT !.watchdog = off]
  BY <1>1
<1>3. Core(u) /\ Kept(t, u) /\ u.guard = t.guard /\ u.engine = t.engine
  BY <1>2, WatchdogCore
<1>4. QED
  BY <1>3, CoreReady

LEMMA WasBusyOff ==
  ASSUME NEW t, Idle(t), NEW u, u = [t EXCEPT !.wasBusy = FALSE]
  PROVE  Idle(u) /\ Kept(t, u) /\ u.guard = t.guard
<1>1. PICK off \in BOOLEAN : off = FALSE
  OBVIOUS
<1>2. u = [t EXCEPT !.wasBusy = off]
  BY <1>1
<1>3. u \in Stations /\ u.guard = t.guard /\ Kept(t, u) /\ SameLink(t, u)
  BY <1>2, CoreHas, WasBusySet DEF Idle
<1>4. Core(u)
  BY <1>3, CoreHas, CoreOf DEF Idle, SameLink, Kept
<1>5. QED
  BY <1>3, <1>4 DEF Idle, SameLink

LEMMA EndQsoKeeps ==
  ASSUME NEW t, Good(t), NEW u, u = EndQso(t)
  PROVE  Good(u)
<1>1. CASE ~Guard!CanEndQso(t.guard)
  BY <1>1 DEF EndQso
<1>2. CASE Guard!CanEndQso(t.guard)
  <2> DEFINE h == Guard!EndQso(t.guard)
  <2>1. t.guard.state = "Confirmed"
    BY <1>2 DEF Guard!CanEndQso
  <2>2. GuardOk(h) /\ h.message = NoMessage /\ (ArmedGuard(h) => ArmedGuard(t.guard))
    BY <2>1, EndQsoIs, CoreHas DEF Good, Asked
  <2>3. u = Replanned(t, h, NoPlan)
    BY <1>2 DEF EndQso, Replanned
  <2>4. PlanOf(h, NoPlan)
    BY <2>2 DEF PlanOf
  <2>5. Idle(t)
    BY <2>1, CoreHas, UngrantedRests DEF Good, Idle, Guard!OutputStates
  <2> HIDE DEF h
  <2>6. Idle(u) /\ u.guard = h /\ u.radio = t.radio /\ u.armedRadio = t.armedRadio
    BY <2>2, <2>3, <2>4, <2>5, NoPlanIs, PlanAtRest
  <2>7. SameRadio(u)
    BY <2>2, <2>6 DEF Good, SameRadio, Armed, ArmedGuard, RadioStillConfirmed
  <2>8. QED
    BY <2>6, <2>7, IdleIsGood
<1>3. QED
  BY <1>1, <1>2

LEMMA SelectTargetKeeps ==
  ASSUME NEW t, Good(t), NEW raw, NEW u, u = SelectTarget(t, raw)
  PROVE  Good(u)
<1> DEFINE g == Guard!EndQso(t.guard)
           free == [t EXCEPT !.guard = g]
           h == Guard!RequestQso(free.guard, raw, {})
           can == Guard!CanRequestQso(free.guard, raw, {})
<1>1. Asked(t.guard, g)
  BY EndQsoIs, CoreHas DEF Good
<1> HIDE DEF g
<1>2. Good(free) /\ free.guard = g
  BY <1>1, AskedOf
<1>3. u = CASE ~Armed(t) -> t
            [] Armed(t) /\ ~can -> free
            [] Armed(t) /\ can -> [free EXCEPT !.guard = h, !.plan = NoPlan]
  BY DEF SelectTarget, g
<1> HIDE DEF free
<1>4. CASE ~Armed(t)
  BY <1>3, <1>4
<1>5. CASE Armed(t) /\ ~can
  BY <1>2, <1>3, <1>5
<1>6. CASE Armed(t) /\ can
  <2>1. u = Replanned(free, h, NoPlan)
    BY <1>3, <1>6 DEF Replanned
  <2>2. Asked(free.guard, h)
    BY <1>2, <1>6, RequestQsoIs, CoreHas DEF Good
  <2>3. free.guard.state = "Armed" /\ free.guard.message = NoMessage
    BY <1>2, <1>6, CoreHas DEF Guard!CanRequestQso, Good, GuardOk, Holds
  <2>4. PlanOf(h, NoPlan)
    BY <2>2, <2>3 DEF PlanOf, Asked, NoNewMessage
  <2>5. Idle(free)
    BY <1>2, <2>3, CoreHas, UngrantedRests DEF Good, Idle, Guard!OutputStates
  <2> HIDE DEF h, can
  <2>6. Idle(u) /\ u.guard = h /\ u.radio = free.radio /\ u.armedRadio = free.armedRadio
    BY <2>1, <2>2, <2>4, <2>5, NoPlanIs, PlanAtRest DEF Asked
  <2>7. SameRadio(u)
    BY <1>2, <2>2, <2>6 DEF Asked, Good, SameRadio, Armed, ArmedGuard, RadioStillConfirmed
  <2>8. QED
    BY <2>6, <2>7, IdleIsGood
<1>7. QED
  BY <1>4, <1>5, <1>6

LEMMA DisarmKeeps ==
  ASSUME NEW t, Good(t), NEW clock \in Engine!Scheduler!Time, NEW serial, NEW u,
         u = Disarm(t, clock, serial)
  PROVE  Good(u)
<1> DEFINE off == [t EXCEPT !.watchdog = FALSE]
           c == CloseHardware(off, clock, serial)
           h == Guard!Disarm(c.guard)
<1>1. Ready(off)
  BY WatchdogOff DEF Good
<1> HIDE DEF off
<1>2. Idle(c)
  BY <1>1, CloseHardwareIs
<1>3. u = Replanned(c, h, NoPlan)
  BY DEF Disarm, Replanned, off
<1> HIDE DEF c
<1>4. GuardOk(h) /\ h.state = "Disarmed" /\ h.message = NoMessage
  BY <1>2, DisarmIs, CoreHas DEF Idle
<1> HIDE DEF h
<1>5. PlanOf(h, NoPlan)
  BY <1>4 DEF PlanOf
<1>6. Idle(u) /\ u.guard = h
  BY <1>2, <1>3, <1>4, <1>5, NoPlanIs, PlanAtRest
<1>7. SameRadio(u)
  BY <1>4, <1>6 DEF SameRadio, Armed
<1>8. QED
  BY <1>6, <1>7, IdleIsGood

LEMMA EmergencyReleaseKeeps ==
  ASSUME NEW t, Good(t), NEW clock \in Engine!Scheduler!Time, NEW serial,
         NEW u, u = EmergencyRelease(t, clock, serial)
  PROVE  Good(u)
<1> DEFINE off == [t EXCEPT !.watchdog = FALSE]
           c == Emergency(off, clock, serial)
           h == Guard!TripFault(c.guard)
<1>1. Ready(off)
  BY WatchdogOff DEF Good
<1> HIDE DEF off
<1>2. Idle(c)
  BY <1>1, EmergencyIs
<1>3. u = Replanned(c, h, NoPlan)
  BY DEF EmergencyRelease, Replanned, off
<1> HIDE DEF c
<1>4. GuardOk(h) /\ h.state = "Fault" /\ h.message = NoMessage
  BY <1>2, TripFaultIs, CoreHas DEF Idle
<1> HIDE DEF h
<1>5. PlanOf(h, NoPlan)
  BY <1>4 DEF PlanOf
<1>6. Idle(u) /\ u.guard = h
  BY <1>2, <1>3, <1>4, <1>5, NoPlanIs, PlanAtRest
<1>7. SameRadio(u)
  BY <1>4, <1>6 DEF SameRadio, Armed
<1>8. QED
  BY <1>6, <1>7, IdleIsGood

Quieted(t) == [t EXCEPT !.wasBusy = FALSE, !.watchdog = FALSE]

LEMMA QuietedIs ==
  ASSUME NEW t, Idle(t), NEW u, u = Quieted(t)
  PROVE  Idle(u) /\ u.guard = t.guard
<1>1. t \in Stations
  BY CoreHas DEF Idle
<1>2. u \in Stations /\ u.guard = t.guard /\ u.plan = t.plan /\ SameLink(t, u)
  BY <1>1 DEF Quieted, Stations, SameLink
<1>3. Core(u)
  BY <1>2, CoreHas, CoreOf DEF Idle, SameLink
<1>4. QED
  BY <1>2, <1>3 DEF Idle, SameLink

LEMMA ResetFaultKeeps ==
  ASSUME NEW t, Good(t), NEW clock \in Engine!Scheduler!Time, NEW serial, NEW u,
         u = ResetFault(t, clock, serial)
  PROVE  Good(u)
<1>1. CASE ~Guard!CanResetFault(t.guard)
  BY <1>1 DEF ResetFault
<1>2. CASE Guard!CanResetFault(t.guard)
  <2> DEFINE h == Guard!ResetFault(t.guard)
             x == [t EXCEPT !.guard = h]
             y == ConfigureEngine(x, clock, serial)
  <2>1. GuardOk(h) /\ h.state = "Disarmed" /\ h.message = t.guard.message
    BY <1>2, ResetFaultIs, CoreHas DEF Good
  <2>2. u = Quieted(y)
    BY <1>2 DEF ResetFault, Quieted
  <2>3. Idle(t)
    BY <1>2, CoreHas, UngrantedRests DEF Good, Idle, Guard!OutputStates, Guard!CanResetFault
  <2>4. PlanOf(h, t.plan)
    BY <2>1, CoreHas DEF Good, PlanOf
  <2> HIDE DEF h
  <2>5. Idle(x) /\ x.guard = h
    BY <2>1, <2>3, <2>4, GuardAtRest
  <2> HIDE DEF x
  <2>6. Ready(x) /\ ~Armed(x)
    BY <2>1, <2>5, CoreReady DEF Idle, Armed
  <2>7. Idle(y) /\ ~Armed(y)
    BY <2>6, ConfigureEngineIs
  <2> HIDE DEF y
  <2>8. Idle(u) /\ u.guard = y.guard
    BY <2>2, <2>7, QuietedIs
  <2>9. SameRadio(u)
    BY <2>7, <2>8 DEF SameRadio, Armed
  <2>10. QED
    BY <2>8, <2>9, IdleIsGood
<1>3. QED
  BY <1>1, <1>2

-----------------------------------------------------------------------------
(* The settings and the radio, and arming.                                 *)

LEMMA RadioHas ==
  ASSUME NEW radio \in Radios
  PROVE  radio.ready \in BOOLEAN /\ radio.id \in RadioIds
  BY DEF Radios

Admitted(t, g, id) == [t EXCEPT !.guard = g, !.armedRadio = id]

LEMMA AdmittedIs ==
  ASSUME NEW t, Idle(t), NEW g, GuardOk(g), PlanOf(g, t.plan), NEW id \in RadioIds,
         NEW u, u = Admitted(t, g, id)
  PROVE  Idle(u) /\ u.guard = g /\ u.radio = t.radio /\ u.armedRadio = id
<1>1. t \in Stations
  BY CoreHas DEF Idle
<1>2. /\ u \in Stations /\ u.guard = g /\ u.plan = t.plan /\ SameLink(t, u)
      /\ u.radio = t.radio /\ u.armedRadio = id
  BY <1>1 DEF GuardOk, Admitted, Stations, SameLink
<1>3. GrantedFor(u.guard, u.engine)
  BY <1>2, RestIsGranted DEF Idle, SameLink
<1>4. Core(u)
  BY <1>2, <1>3, CoreOf DEF Idle
<1>5. QED
  BY <1>2, <1>4 DEF Idle, SameLink

(* The radio may report anything; what it reports is not the worker's.     *)
LEMMA RadioSet ==
  ASSUME NEW t, Core(t), NEW radio \in Radios, NEW u, u = [t EXCEPT !.radio = radio]
  PROVE  /\ Core(u) /\ u.radio = radio /\ u.guard = t.guard /\ u.armedRadio = t.armedRadio
         /\ u.engine = t.engine /\ u.watchdog = t.watchdog
<1>1. t \in Stations
  BY CoreHas
<1>2. /\ u \in Stations /\ u.guard = t.guard /\ u.plan = t.plan /\ SameLink(t, u)
      /\ u.radio = radio /\ u.armedRadio = t.armedRadio /\ u.watchdog = t.watchdog
  BY <1>1 DEF Stations, SameLink
<1>3. Core(u)
  BY <1>2, CoreHas, CoreOf DEF SameLink
<1>4. QED
  BY <1>2, <1>3 DEF SameLink

LEMMA EnabledSet ==
  ASSUME NEW t, Idle(t), NEW enabled \in BOOLEAN, NEW u, u = [t EXCEPT !.enabled = enabled]
  PROVE  Idle(u) /\ u.guard = t.guard
<1>1. t \in Stations
  BY CoreHas DEF Idle
<1>2. u \in Stations /\ u.guard = t.guard /\ u.plan = t.plan /\ SameLink(t, u)
  BY <1>1 DEF Stations, SameLink
<1>3. Core(u)
  BY <1>2, CoreHas, CoreOf DEF Idle, SameLink
<1>4. QED
  BY <1>2, <1>3 DEF Idle, SameLink

LEMMA ArmOpenedIs ==
  ASSUME NEW t, Idle(t), SameRadio(t), t.radio.ready, NEW opened \in BOOLEAN,
         NEW clock \in Engine!Scheduler!Time, NEW serial, NEW u, u = ArmOpened(t, opened,
         clock, serial)
  PROVE  Good(u)
<1>1. CASE ~opened
  BY <1>1, IdleIsGood DEF ArmOpened
<1>2. CASE opened /\ Guard!CanArm(t.guard)
  <2> DEFINE g == Guard!Arm(t.guard)
  <2>1. GuardOk(g) /\ g.message = t.guard.message
    BY <1>2, ArmIs, CoreHas DEF Idle
  <2>2. u = Admitted(t, g, t.radio.id)
    BY <1>2 DEF ArmOpened, Admitted
  <2>3. PlanOf(g, t.plan) /\ t.radio.id \in RadioIds
    BY <2>1, CoreHas, StationHas, RadioHas DEF Idle, PlanOf
  <2> HIDE DEF g
  <2>4. Idle(u) /\ u.radio = t.radio /\ u.armedRadio = t.radio.id
    BY <2>1, <2>2, <2>3, AdmittedIs
  <2>5. SameRadio(u)
    BY <2>4 DEF SameRadio, RadioStillConfirmed
  <2>6. QED
    BY <2>4, <2>5, IdleIsGood
<1>3. CASE opened /\ ~Guard!CanArm(t.guard)
  <2>1. u = CloseHardware(t, clock, serial)
    BY <1>3 DEF ArmOpened
  <2>2. Idle(u) /\ Kept(t, u) /\ (Armed(u) => Armed(t))
    BY <2>1, CoreReady, CloseHardwareIs DEF Idle
  <2>3. QED
    BY <2>2, SameRadioKept, IdleIsGood
<1>4. QED
  BY <1>1, <1>2, <1>3

LEMMA ArmKeeps ==
  ASSUME NEW t, Good(t), NEW opens \in BOOLEAN, NEW levels \in Engine!Adapter!Levels,
         NEW clock \in Engine!Scheduler!Time, NEW serial, NEW u, u = Arm(t, opens, levels,
         clock, serial)
  PROVE  Good(u)
<1>1. CASE ~StationReady(t)
  BY <1>1 DEF Arm
<1>2. CASE StationReady(t)
  <2> DEFINE e == Engine!OpenSafe(t.engine, opens, levels, clock, serial)
             a == Facade(t, e, clock, serial)
             opened == Engine!OpenSafeSucceeds(e)
  <2>1. t.engine.configured /\ t.radio.ready /\ Ready(t)
    BY <1>2, CoreHas, CoreReady DEF StationReady, Good
  <2>2. Worker(e) /\ Rest(e)
    BY <2>1, OpenSafeIs DEF Ready
  <2>3. u = ArmOpened(a, opened, clock, serial)
    BY <1>2 DEF Arm
  <2>4. opened \in BOOLEAN
    BY <2>2, EngineHas DEF Worker, Engine!OpenSafeSucceeds
  <2> HIDE DEF e, opened
  <2>5. Idle(a) /\ Kept(t, a) /\ (Armed(a) => Armed(t))
    BY <2>1, <2>2, CallRests
  <2> HIDE DEF a
  <2>6. SameRadio(a) /\ a.radio.ready
    BY <2>1, <2>5, SameRadioKept DEF Good, Kept
  <2>7. QED
    BY <2>3, <2>4, <2>5, <2>6, ArmOpenedIs
<1>3. QED
  BY <1>1, <1>2

(* A station whose worker is at rest is disarmed. *)
LEMMA DisarmedAtRest ==
  ASSUME NEW t, Idle(t), NEW u, u = [t EXCEPT !.guard = Guard!Disarm(@)]
  PROVE  Idle(u) /\ Kept(t, u) /\ ~Armed(u)
<1> DEFINE g == Guard!Disarm(t.guard)
<1>1. GuardOk(g) /\ g.state = "Disarmed" /\ g.message = NoMessage
  BY DisarmIs, CoreHas DEF Idle
<1>2. u = [t EXCEPT !.guard = g]
  OBVIOUS
<1> HIDE DEF g
<1>3. PlanOf(g, t.plan)
  BY <1>1 DEF PlanOf
<1>4. Idle(u) /\ Kept(t, u) /\ u.guard = g
  BY <1>1, <1>2, <1>3, GuardAtRest
<1>5. QED
  BY <1>1, <1>4 DEF Armed

(* A station is released and its guard put into the fault state.           *)
LEMMA TrippedIs ==
  ASSUME NEW t, Ready(t), NEW clock \in Engine!Scheduler!Time, NEW serial,
         NEW u, u = Trip(Emergency(t, clock, serial))
  PROVE  Idle(u) /\ ~Armed(u)
<1> DEFINE c == Emergency(t, clock, serial)
<1>1. Idle(c)
  BY EmergencyIs
<1> HIDE DEF c
<1>2. Handled(c, u) /\ u.engine = c.engine /\ ~Armed(u)
  BY <1>1, TripIs DEF Idle, c
<1>3. QED
  BY <1>1, <1>2 DEF Handled, Idle

LEMMA ConfigureHardwareKeeps ==
  ASSUME NEW t, Good(t), NEW enabled \in BOOLEAN, NEW clock \in Engine!Scheduler!Time,
         NEW serial,
         NEW u, u = ConfigureHardware(t, enabled, clock, serial)
  PROVE  Good(u)
<1> DEFINE active == Armed(t) \/ OnAir(t)
           off == [t EXCEPT !.watchdog = FALSE]
           tripped == Trip(Emergency(off, clock, serial))
           disarmed == [t EXCEPT !.guard = Guard!Disarm(@)]
           stopped == IF active THEN tripped ELSE disarmed
           x == [stopped EXCEPT !.enabled = enabled]
           y == ConfigureEngine(x, clock, serial)
<1>1. u = [y EXCEPT !.wasBusy = FALSE]
  BY DEF ConfigureHardware
<1>2. Ready(off)
  BY WatchdogOff DEF Good
<1>3. Idle(stopped) /\ ~Armed(stopped)
  <2>1. CASE active
    <3> HIDE DEF off
    <3>1. Idle(tripped) /\ ~Armed(tripped)
      BY <1>2, TrippedIs
    <3>2. QED
      BY <2>1, <3>1
  <2>2. CASE ~active
    <3>1. Idle(t)
      BY <2>2, CoreHas DEF OnAir, Good, Idle
    <3>2. Idle(disarmed) /\ ~Armed(disarmed)
      BY <3>1, DisarmedAtRest
    <3>3. QED
      BY <2>2, <3>2
  <2>3. QED
    BY <2>1, <2>2
<1> HIDE DEF stopped
<1>4. Idle(x) /\ x.guard = stopped.guard
  BY <1>3, EnabledSet
<1> HIDE DEF x
<1>5. Idle(y) /\ (Armed(y) => Armed(x))
  BY <1>4, CoreReady, ConfigureEngineIs DEF Idle
<1> HIDE DEF y
<1>6. Idle(u) /\ u.guard = y.guard
  BY <1>1, <1>5, WasBusyOff
<1>7. SameRadio(u)
  BY <1>3, <1>4, <1>5, <1>6 DEF SameRadio, Armed
<1>8. QED
  BY <1>6, <1>7, IdleIsGood

LEMMA ConfigureRadioSafetyKeeps ==
  ASSUME NEW t, Good(t), NEW radio \in Radios, NEW clock \in Engine!Scheduler!Time,
         NEW serial,
         NEW u, u = ConfigureRadioSafety(t, radio, clock, serial)
  PROVE  Good(u)
<1> DEFINE known == [t EXCEPT !.radio = radio]
           unwatched == [known EXCEPT !.watchdog = FALSE]
           tripped == Trip(Emergency(unwatched, clock, serial))
           closed == CloseHardware(unwatched, clock, serial)
           disarmed == [closed EXCEPT !.guard = Guard!Disarm(@)]
           stopped == IF OnAir(t) THEN tripped ELSE disarmed
           stops == Armed(t) /\ radio # t.radio /\ ~RadioStillConfirmed(known)
<1>1. u = IF stops THEN [stopped EXCEPT !.wasBusy = FALSE] ELSE known
  BY DEF ConfigureRadioSafety
<1>2. /\ Core(known) /\ known.radio = radio /\ known.guard = t.guard
      /\ known.armedRadio = t.armedRadio /\ known.engine = t.engine
      /\ known.watchdog = t.watchdog
  BY RadioSet DEF Good
<1> HIDE DEF known
<1>3. CASE ~stops
  <2>1. u = known
    BY <1>1, <1>3
  <2>2. Armed(known) => RadioStillConfirmed(known)
    <3>1. CASE radio = t.radio
      BY <1>2, <3>1 DEF Good, SameRadio, Armed, RadioStillConfirmed
    <3>2. CASE radio # t.radio
      BY <1>2, <1>3, <3>2 DEF Armed
    <3>3. QED
      BY <3>1, <3>2
  <2>3. QED
    BY <1>2, <2>1, <2>2 DEF Good, SameRadio, Watched
<1>4. CASE stops
  <2>1. Ready(unwatched)
    BY <1>2, WatchdogOff
  <2> HIDE DEF unwatched
  <2>2. Idle(tripped) /\ ~Armed(tripped)
    BY <2>1, TrippedIs
  <2>3. Idle(closed)
    BY <2>1, CloseHardwareIs
  <2> HIDE DEF closed, tripped
  <2>4. Idle(disarmed) /\ ~Armed(disarmed)
    BY <2>3, DisarmedAtRest
  <2> HIDE DEF disarmed
  <2>5. Idle(stopped) /\ ~Armed(stopped)
    BY <2>2, <2>4
  <2> HIDE DEF stopped
  <2>6. u = [stopped EXCEPT !.wasBusy = FALSE]
    BY <1>1, <1>4
  <2>7. Idle(u) /\ u.guard = stopped.guard
    BY <2>5, <2>6, WasBusyOff
  <2>8. SameRadio(u)
    BY <2>5, <2>7 DEF SameRadio, Armed
  <2>9. QED
    BY <2>7, <2>8, IdleIsGood
<1>5. QED
  BY <1>3, <1>4

-----------------------------------------------------------------------------
(* The outputs.                                                            *)

LEMMA FailedOutputIs ==
  ASSUME NEW t, Ready(t), NEW clock \in Engine!Scheduler!Time, NEW serial,
         NEW u, u = FailedOutput(t, clock, serial)
  PROVE  Good(u)
<1> DEFINE c == Emergency(t, clock, serial)
           g == Guard!TripFault(c.guard)
<1>1. Idle(c)
  BY EmergencyIs
<1>2. u = [c EXCEPT !.guard = g]
  BY DEF FailedOutput
<1> HIDE DEF c
<1>3. GuardOk(g) /\ g.state = "Fault" /\ g.message = NoMessage
  BY <1>1, TripFaultIs, CoreHas DEF Idle
<1> HIDE DEF g
<1>4. PlanOf(g, c.plan)
  BY <1>3 DEF PlanOf
<1>5. Idle(u) /\ u.guard = g
  BY <1>1, <1>2, <1>3, <1>4, GuardAtRest
<1>6. SameRadio(u)
  BY <1>3, <1>5 DEF SameRadio, Armed
<1>7. QED
  BY <1>5, <1>6, IdleIsGood

LEMMA OutputBegunIs ==
  ASSUME NEW t, Core(t), SameRadio(t), NEW begun \in BOOLEAN,
         NEW clock \in Engine!Scheduler!Time,
         NEW serial, NEW u, u = OutputBegun(t, begun, clock, serial)
  PROVE  Good(u)
<1>1. CASE ~begun
  <2>1. u = FailedOutput(t, clock, serial)
    BY <1>1 DEF OutputBegun
  <2>2. QED
    BY <2>1, CoreReady, FailedOutputIs
<1>2. CASE begun
  <2>1. PICK on \in BOOLEAN : on = TRUE
    OBVIOUS
  <2>2. u = [t EXCEPT !.watchdog = on]
    BY <1>2, <2>1 DEF OutputBegun
  <2>3. Core(u) /\ Kept(t, u) /\ u.guard = t.guard /\ u.watchdog = on
    BY <2>2, WatchdogCore
  <2>4. SameRadio(u)
    BY <2>3, SameRadioKept DEF Armed
  <2>5. QED
    BY <2>1, <2>3, <2>4 DEF Good, Watched
<1>3. QED
  BY <1>1, <1>2

LEMMA HandledGood ==
  ASSUME NEW t, Good(t), NEW u, Handled(t, u)
  PROVE  Good(u)
<1>1. SameRadio(u)
  BY SameRadioKept DEF Good, Handled
<1>2. QED
  BY <1>1 DEF Good, Handled, Watched, Rest

LEMMA OutputEndedIs ==
  ASSUME NEW t, Idle(t), SameRadio(t), NEW ended \in BOOLEAN,
         NEW clock \in Engine!Scheduler!Time,
         NEW serial, NEW u, u = OutputEnded(t, ended, clock, serial)
  PROVE  Good(u)
<1>1. CASE ~ended
  <2>1. u = FailedOutput(t, clock, serial)
    BY <1>1 DEF OutputEnded
  <2>2. QED
    BY <2>1, CoreReady, FailedOutputIs DEF Idle
<1>2. CASE ended
  <2>1. u = FinishOutput(t)
    BY <1>2 DEF OutputEnded
  <2>2. Handled(t, u)
    BY <2>1, FinishOutputIs DEF Idle
  <2>3. QED
    BY <2>2, IdleIsGood, HandledGood
<1>3. QED
  BY <1>1, <1>2

LEMMA IdleOutput ==
  ASSUME NEW t, Good(t), ReadyForOutput(t)
  PROVE  Worker(t.engine) /\ ~Engine!Busy(t.engine)
  BY CoreHas DEF ReadyForOutput, Good

LEMMA TransmitPreparedKeeps ==
  ASSUME NEW t, Good(t), NEW clock \in Engine!Scheduler!Time, NEW serial,
         NEW u, u = TransmitPrepared(t, clock, serial)
  PROVE  Good(u)
<1>1. CASE ~CanTransmit(t)
  BY <1>1 DEF TransmitPrepared
<1>2. CASE CanTransmit(t)
  <2> DEFINE g == Guard!BeginTransmission(t.guard, {})
             granted == [t EXCEPT !.guard = g]
             e == Engine!Start(t.engine, t.plan, TRUE, clock, serial)
             a == Facade(granted, e, clock, serial)
             begun == Engine!StartSucceeds(t.engine, e)
  <2>1. u = OutputBegun(a, begun, clock, serial)
    BY <1>2 DEF TransmitPrepared
  <2>2. /\ GuardOk(g) /\ g.state = "Transmitting" /\ g.message = t.guard.message
        /\ g.message # NoMessage /\ t.guard.state = "Confirmed"
    BY <1>2, BeginTransmissionIs, CoreHas DEF CanTransmit, Good
  <2>3. Worker(e) /\ (Rest(e) \/ MakesMessage(e, t.plan))
    <3>1. PICK confirmed : confirmed = TRUE
      OBVIOUS
    <3>2. e = Engine!Start(t.engine, t.plan, confirmed, clock, serial)
      BY <3>1
    <3>3. Worker(t.engine) /\ ~Engine!Busy(t.engine) /\ t.plan \in Engine!Scheduler!Plans
      BY <1>2, IdleOutput, CoreHas, StationHas DEF CanTransmit, Good
    <3> HIDE DEF e
    <3>4. QED
      BY <3>1, <3>2, <3>3, StartWorkerIs
  <2>4. begun \in BOOLEAN
    BY DEF Engine!StartSucceeds
  <2> HIDE DEF e, g, begun
  <2>5. PlanOf(g, t.plan)
    BY <2>2, CoreHas DEF Good, PlanOf
  <2>6. GrantedFor(g, e)
    <3>1. CASE Rest(e)
      BY <3>1, RestIsGranted
    <3>2. CASE MakesMessage(e, t.plan)
      BY <2>2, <2>5, <3>2 DEF MakesMessage, GrantedFor, PlanOf
    <3>3. QED
      BY <2>3, <3>1, <3>2
  <2>7. /\ granted \in Stations /\ granted.guard = g /\ Kept(t, granted)
        /\ SameLink(t, granted)
    BY <2>2, CoreHas, GuardSet DEF Good, GuardOk
  <2> HIDE DEF granted
  <2>8. Ready(granted)
    BY <2>2, <2>5, <2>7, CoreHas DEF Ready, Good, Kept, SameLink
  <2>9. Core(a) /\ Kept(granted, a)
    BY <2>3, <2>6, <2>7, <2>8, FacadeIs DEF MakesMessage
  <2> HIDE DEF a
  <2>10. Kept(t, a) /\ Armed(t)
    BY <2>2, <2>7, <2>9 DEF Kept, Armed
  <2>11. SameRadio(a)
    BY <2>10, SameRadioKept DEF Good
  <2>12. QED
    BY <2>1, <2>4, <2>9, <2>11, OutputBegunIs
<1>3. QED
  BY <1>1, <1>2

LEMMA CancelTransmissionKeeps ==
  ASSUME NEW t, Good(t), NEW clock \in Engine!Scheduler!Time, NEW serial,
         NEW u, u = CancelTransmission(t, clock, serial)
  PROVE  Good(u)
<1>1. CASE t.guard.state # "Transmitting"
  BY <1>1 DEF CancelTransmission
<1>2. CASE t.guard.state = "Transmitting"
  <2> DEFINE e == Engine!Cancel(t.engine, clock, serial)
             a == Facade(t, e, clock, serial)
             ended == Engine!CancelSucceeds(t.engine, e)
  <2>1. u = OutputEnded(a, ended, clock, serial)
    BY <1>2 DEF CancelTransmission
  <2>2. Worker(e) /\ Rest(e)
    BY CancelIs, CoreHas DEF Good
  <2>3. ended \in BOOLEAN
    BY DEF Engine!CancelSucceeds
  <2> HIDE DEF e, ended
  <2>4. Idle(a) /\ Kept(t, a) /\ (Armed(a) => Armed(t))
    BY <2>2, CoreReady, CallRests DEF Good
  <2> HIDE DEF a
  <2>5. SameRadio(a)
    BY <2>4, SameRadioKept DEF Good
  <2>6. QED
    BY <2>1, <2>3, <2>4, <2>5, OutputEndedIs
<1>3. QED
  BY <1>1, <1>2

LEMMA StopTuneKeeps ==
  ASSUME NEW t, Good(t), t.guard.state = "Tuning", NEW clock \in Engine!Scheduler!Time,
         NEW serial,
         NEW u, u = StopTune(t, clock, serial)
  PROVE  Good(u)
<1> DEFINE e == Engine!StopTune(t.engine, clock, serial)
           a == Facade(t, e, clock, serial)
           ended == Engine!StopTuneSucceeds(t.engine, e)
<1>1. u = OutputEnded(a, ended, clock, serial)
  BY DEF StopTune
<1>2. Worker(e) /\ Rest(e)
  <2>1. Worker(t.engine) /\ (t.engine.tuning \/ Rest(t.engine))
    BY CoreHas DEF Good, GrantedFor, Rest, Worker
  <2>2. QED
    BY <2>1, StopTuneIs
<1>3. ended \in BOOLEAN
  BY <1>2, CoreHas, EngineHas DEF Engine!StopTuneSucceeds
<1> HIDE DEF e, ended
<1>4. Idle(a) /\ Kept(t, a) /\ (Armed(a) => Armed(t))
  BY <1>2, CoreReady, CallRests DEF Good
<1> HIDE DEF a
<1>5. SameRadio(a)
  BY <1>4, SameRadioKept DEF Good
<1>6. QED
  BY <1>1, <1>3, <1>4, <1>5, OutputEndedIs

LEMMA StartTuneKeeps ==
  ASSUME NEW t, Good(t), Armed(t), ReadyForOutput(t), NEW clock \in Engine!Scheduler!Time,
         NEW serial,
         NEW u, u = StartTune(t, clock, serial)
  PROVE  Good(u)
<1>1. CASE ~Guard!CanBeginTune(t.guard)
  <2>1. u = FailedOutput(t, clock, serial)
    BY <1>1 DEF StartTune, OutputBegun
  <2>2. QED
    BY <2>1, CoreReady, FailedOutputIs DEF Good
<1>2. CASE Guard!CanBeginTune(t.guard)
  <2> DEFINE g == Guard!BeginTune(t.guard)
             granted == [t EXCEPT !.guard = g]
             e == Engine!StartTune(t.engine, TRUE, clock, serial)
             a == Facade(granted, e, clock, serial)
             begun == Guard!CanBeginTune(t.guard) /\ Engine!StartTuneSucceeds(t.engine, e)
  <2>1. u = OutputBegun(a, begun, clock, serial)
    BY <1>2 DEF StartTune
  <2>2. GuardOk(g) /\ g.state = "Tuning" /\ g.message = t.guard.message
    BY <1>2, BeginTuneIs, CoreHas DEF Good
  <2>3. Worker(e) /\ (Rest(e) \/ MakesTune(e))
    <3>1. PICK authorized : authorized = TRUE
      OBVIOUS
    <3>2. e = Engine!StartTune(t.engine, authorized, clock, serial)
      BY <3>1
    <3>3. Worker(t.engine) /\ ~Engine!Busy(t.engine)
      BY IdleOutput
    <3> HIDE DEF e
    <3>4. QED
      BY <3>1, <3>2, <3>3, StartTuneIs
  <2>4. begun \in BOOLEAN
    OBVIOUS
  <2> HIDE DEF e, g, begun
  <2>5. PlanOf(g, t.plan)
    BY <2>2, CoreHas DEF Good, PlanOf
  <2>6. GrantedFor(g, e)
    <3>1. CASE Rest(e)
      BY <3>1, RestIsGranted
    <3>2. CASE MakesTune(e)
      BY <2>2, <3>2 DEF MakesTune, GrantedFor
    <3>3. QED
      BY <2>3, <3>1, <3>2
  <2>7. /\ granted \in Stations /\ granted.guard = g /\ Kept(t, granted)
        /\ SameLink(t, granted)
    BY <2>2, CoreHas, GuardSet DEF Good, GuardOk
  <2> HIDE DEF granted
  <2>8. Ready(granted)
    BY <2>2, <2>5, <2>7, CoreHas DEF Ready, Good, Kept, SameLink
  <2>9. Core(a) /\ Kept(granted, a)
    BY <2>3, <2>6, <2>7, <2>8, FacadeIs DEF MakesTune
  <2> HIDE DEF a
  <2>10. Kept(t, a)
    BY <2>7, <2>9 DEF Kept
  <2>11. SameRadio(a)
    BY <2>10, SameRadioKept DEF Good
  <2>12. QED
    BY <2>1, <2>4, <2>9, <2>11, OutputBegunIs
<1>3. QED
  BY <1>1, <1>2

LEMMA ToggleTuneKeeps ==
  ASSUME NEW t, Good(t), NEW clock \in Engine!Scheduler!Time, NEW serial, NEW u,
         u = ToggleTune(t, clock, serial)
  PROVE  Good(u)
<1>1. CASE t.guard.state = "Tuning"
  <2>1. u = StopTune(t, clock, serial)
    BY <1>1 DEF ToggleTune
  <2>2. QED
    BY <1>1, <2>1, StopTuneKeeps
<1>2. CASE t.guard.state # "Tuning" /\ Armed(t) /\ ReadyForOutput(t)
  <2>1. u = StartTune(t, clock, serial)
    BY <1>2 DEF ToggleTune
  <2>2. QED
    BY <1>2, <2>1, StartTuneKeeps
<1>3. CASE ~(t.guard.state = "Tuning") /\ ~(Armed(t) /\ ReadyForOutput(t))
  BY <1>3 DEF ToggleTune
<1>4. QED
  BY <1>1, <1>2, <1>3

-----------------------------------------------------------------------------
(* The snapshots, the worker's timer and the device.                       *)

LEMMA ItemHas ==
  ASSUME NEW q \in Seq(Items), NEW i \in 1..Len(q)
  PROVE  q[i] \in Items /\ q[i].snapshot \in Snapshots /\ q[i].fresh \in BOOLEAN
<1>1. q[i] \in Items
  OBVIOUS
<1>2. QED
  BY <1>1 DEF Items

(* The first snapshot in flight is received, or has been overtaken.        *)
LEMMA ViewsReceived ==
  ASSUME NEW q \in Seq(Items), q # <<>>, NEW kept, NEW e, Views(kept, q, e),
         NEW v, v = IF q[1].fresh THEN q[1].snapshot ELSE kept
  PROVE  Tail(q) \in Seq(Items) /\ Views(v, Tail(q), e)
<1> DEFINE r == Tail(q)
           n == Len(q)
<1>1. n \in Nat \ {0} /\ r \in Seq(Items) /\ Len(r) = n - 1
  OBVIOUS
<1>2. \A i \in 1..Len(r) : r[i] = q[i + 1] /\ i + 1 \in 1..n
  BY <1>1
<1>3. 1 \in 1..n /\ n \in 1..n
  BY <1>1
<1> HIDE DEF r
<1>4. \A i \in 1..Len(r) : r[i].fresh => Seen(r[i].snapshot, e)
  BY <1>2 DEF Views
<1>5. \A i, j \in 1..Len(r) : i < j /\ r[i].fresh => r[j].fresh
  <2>1. TAKE i, j \in 1..Len(r)
  <2>2. /\ r[i] = q[i + 1] /\ i + 1 \in 1..n /\ r[j] = q[j + 1] /\ j + 1 \in 1..n
        /\ i < j => i + 1 < j + 1
    BY <1>1, <1>2
  <2>3. QED
    BY <2>2 DEF Views
<1>6. Seen(v, e)
  BY <1>3 DEF Views
<1>7. Len(r) > 0 => r[Len(r)] = q[n] /\ (r[Len(r)].fresh => n > 0)
  <2>1. Len(r) > 0 => Len(r) \in 1..Len(r) /\ Len(r) + 1 = n
    BY <1>1
  <2>2. QED
    BY <1>1, <1>2, <2>1
<1>8. (\A i \in 1..Len(r) : ~r[i].fresh) => Current(v, e)
  <2> SUFFICES ASSUME \A i \in 1..Len(r) : ~r[i].fresh
               PROVE  Current(v, e)
    OBVIOUS
  <2>1. CASE q[1].fresh
    <3>1. Len(r) = 0
      <4> SUFFICES ASSUME Len(r) # 0
                   PROVE  FALSE
        OBVIOUS
      <4>1. 1 \in 1..Len(r)
        BY <1>1
      <4>2. r[1] = q[2] /\ 2 \in 1..n /\ 1 < 2
        BY <1>2, <4>1
      <4>3. q[2].fresh
        BY <1>3, <2>1, <4>2 DEF Views
      <4>4. QED
        BY <4>1, <4>2, <4>3
    <3>2. n = 1
      BY <1>1, <3>1
    <3>3. QED
      BY <2>1, <3>2 DEF Views
  <2>2. CASE ~q[1].fresh
    <3>1. ASSUME NEW i \in 1..n
          PROVE  ~q[i].fresh
      <4>1. CASE i = 1
        BY <2>2, <4>1
      <4>2. CASE i # 1
        <5>1. i - 1 \in 1..Len(r) /\ (i - 1) + 1 = i
          BY <1>1, <4>2
        <5>2. r[i - 1] = q[i]
          BY <1>2, <5>1
        <5>3. QED
          BY <5>1, <5>2
      <4>3. QED
        BY <4>1, <4>2
    <3>2. QED
      BY <2>2, <3>1 DEF Views
  <2>3. QED
    BY <2>1, <2>2
<1>9. Len(r) > 0 /\ r[Len(r)].fresh => Current(r[Len(r)].snapshot, e)
  BY <1>7 DEF Views
<1>10. Views(v, r, e)
  BY <1>4, <1>5, <1>6, <1>8, <1>9 DEF Views
<1>11. QED
  BY <1>1, <1>10 DEF r

(* While the timer runs, what is seen of the worker stays true of what     *)
(* follows from it.                                                        *)
LEMMA SeenContinues ==
  ASSUME NEW v, NEW e, NEW f, Seen(v, e), e.timer # Engine!Stopped, Continues(e, f)
  PROVE  Seen(v, f)
  BY DEF Seen, Rest, Continues, Engine!Busy

Posted(v) == [snapshot |-> v, fresh |-> TRUE]

LEMMA PostedIs ==
  ASSUME NEW v \in Snapshots
  PROVE  Posted(v) \in Items /\ Posted(v).snapshot = v /\ Posted(v).fresh
  BY DEF Posted, Items

LEMMA ViewsFired ==
  ASSUME NEW q \in Seq(Items), NEW kept, NEW e, NEW f, Views(kept, q, e),
         e.timer # Engine!Stopped, Continues(e, f),
         NEW v \in Snapshots, Current(v, f)
  PROVE  Append(q, Posted(v)) \in Seq(Items) /\ Views(kept, Append(q, Posted(v)), f)
<1> DEFINE r == Append(q, Posted(v))
           n == Len(q)
<1>1. n \in Nat /\ r \in Seq(Items) /\ Len(r) = n + 1
  BY PostedIs
<1>2. /\ \A i \in 1..n : r[i] = q[i]
      /\ r[n + 1] = Posted(v)
  BY PostedIs
<1>3. \A i \in 1..n + 1 : i \in 1..n \/ i = n + 1
  BY <1>1
<1> HIDE DEF r
<1>4. \A i \in 1..Len(r) : r[i].fresh => Seen(r[i].snapshot, f)
  <2>1. TAKE i \in 1..Len(r)
  <2>2. CASE i \in 1..n
    BY <1>2, <2>2, SeenContinues DEF Views
  <2>3. CASE i = n + 1
    BY <1>2, <2>3, PostedIs DEF Current
  <2>4. QED
    BY <1>1, <1>3, <2>2, <2>3
<1>5. \A i, j \in 1..Len(r) : i < j /\ r[i].fresh => r[j].fresh
  <2>1. TAKE i, j \in 1..Len(r)
  <2>2. CASE j = n + 1
    BY <1>2, <2>2, PostedIs
  <2>3. CASE j \in 1..n
    <3>1. i < j => i \in 1..n
      BY <1>1, <2>3
    <3>2. QED
      BY <1>2, <2>3, <3>1 DEF Views
  <2>4. QED
    BY <1>1, <1>3, <2>2, <2>3
<1>6. Seen(kept, f)
  BY SeenContinues DEF Views
<1>7. Len(r) \in 1..Len(r) /\ r[Len(r)].fresh /\ r[Len(r)].snapshot = v
  BY <1>1, <1>2, PostedIs
<1>8. Views(kept, r, f)
  BY <1>4, <1>5, <1>6, <1>7 DEF Views
<1>9. QED
  BY <1>1, <1>8 DEF r

LEMMA UpdateCachedStateKeeps ==
  ASSUME NEW t, Good(t), t.queue # <<>>, NEW clock \in Engine!Scheduler!Time, NEW serial,
         NEW u, u = UpdateCachedState(t, clock, serial)
  PROVE  Good(u)
<1> DEFINE head == Head(t.queue)
           rest == [t EXCEPT !.queue = Tail(t.queue)]
           seen == [rest EXCEPT !.cache = head.snapshot]
           v == IF head.fresh THEN head.snapshot ELSE t.cache
<1>1. t \in Stations /\ t.queue \in Seq(Items) /\ Views(t.cache, t.queue, t.engine)
  BY CoreHas, StationHas DEF Good, Core
<1>2. head = t.queue[1] /\ head.snapshot \in Snapshots /\ head.fresh \in BOOLEAN
  <2>1. head = t.queue[1] /\ 1 \in 1..Len(t.queue)
    BY <1>1
  <2>2. QED
    BY <1>1, <2>1, ItemHas
<1> HIDE DEF head
<1>3. Tail(t.queue) \in Seq(Items) /\ Views(v, Tail(t.queue), t.engine)
  BY <1>1, <1>2, ViewsReceived
<1>4. u = IF head.fresh THEN HandleHardwareChanged(seen, clock, serial) ELSE rest
  BY DEF UpdateCachedState, head
<1>5. /\ rest \in Stations /\ rest.guard = t.guard /\ Kept(t, rest)
      /\ rest.engine = t.engine
      /\ rest.cache = t.cache /\ rest.queue = Tail(t.queue) /\ rest.watchdog = t.watchdog
  BY <1>1, <1>3 DEF Stations, Items, Kept
<1>6. /\ seen \in Stations /\ seen.guard = t.guard /\ Kept(t, seen)
      /\ seen.engine = t.engine
      /\ seen.cache = head.snapshot /\ seen.queue = Tail(t.queue)
      /\ seen.watchdog = t.watchdog
  <2> HIDE DEF rest
  <2>1. /\ seen \in Stations /\ seen.guard = rest.guard /\ Kept(rest, seen)
        /\ seen.engine = rest.engine /\ seen.cache = head.snapshot
        /\ seen.queue = rest.queue /\ seen.watchdog = rest.watchdog
    BY <1>2, <1>5 DEF Stations, Kept
  <2>2. QED
    BY <1>5, <2>1 DEF Kept
<1> HIDE DEF rest, seen
<1>7. CASE head.fresh
  <2>1. Core(seen)
    BY <1>3, <1>6, <1>7 DEF Good, Core, Kept
  <2>2. Good(seen)
    BY <1>6, <2>1, SameRadioKept DEF Good, Watched, Armed
  <2>3. Handled(seen, u)
    BY <1>4, <1>7, <2>1, HandlerIs
  <2>4. QED
    BY <2>2, <2>3, HandledGood
<1>8. CASE ~head.fresh
  <2>1. Core(rest)
    BY <1>3, <1>5, <1>8 DEF Good, Core, Kept
  <2>2. Good(rest)
    BY <1>5, <2>1, SameRadioKept DEF Good, Watched, Armed
  <2>3. QED
    BY <1>4, <1>8, <2>2
<1>9. QED
  BY <1>2, <1>7, <1>8

LEMMA HandlerKeeps ==
  ASSUME NEW t, Good(t), NEW clock \in Engine!Scheduler!Time, NEW serial,
         NEW u, u = HandleHardwareChanged(t, clock, serial)
  PROVE  Good(u)
  BY HandlerIs, HandledGood DEF Good

LEMMA TimerFiredKeeps ==
  ASSUME NEW t, Good(t), t.engine.timer # Engine!Stopped,
         NEW clock \in Engine!Scheduler!Time, NEW serial,
         NEW u, u = TimerFired(t, clock, serial)
  PROVE  Good(u)
<1> DEFINE f == Engine!HandleTimer(t.engine, clock, serial)
           v == Engine!Snapshot(f)
           q == Append(t.queue, Posted(v))
<1>1. Worker(t.engine) /\ ~t.engine.fault
  BY DEF Good, Core, Working
<1>2. Continues(t.engine, f)
  BY <1>1, HandleTimerIs
<1>3. u = Linked(t, f, t.cache, q)
  <2>1. t \in Stations
    BY CoreHas DEF Good
  <2>2. u = [t EXCEPT !.engine = f, !.queue = q]
    BY DEF TimerFired, Posted
  <2> HIDE DEF f, q
  <2>3. QED
    BY <2>1, <2>2 DEF Linked, Stations
<1> HIDE DEF f
<1>4. v \in Snapshots /\ Current(v, f)
  BY <1>2, SnapshotIs DEF Continues
<1> HIDE DEF v
<1>5. q \in Seq(Items) /\ Views(t.cache, q, f)
  BY <1>2, <1>4, CoreHas, StationHas, ViewsFired DEF Good, Core
<1> HIDE DEF q
<1>6. f \in Engine!Engines /\ t.cache \in Snapshots /\ t \in Stations
  BY <1>2, CoreHas, StationHas DEF Good, Continues, Worker
<1>7. /\ u \in Stations /\ u.guard = t.guard /\ Kept(t, u) /\ u.watchdog = t.watchdog
      /\ u.engine = f /\ u.cache = t.cache /\ u.queue = q
  BY <1>3, <1>5, <1>6, LinkSet
<1>8. GrantedFor(t.guard, f)
  BY <1>2, CoreHas DEF Good, GrantedFor, Continues, Worker, Engine!Busy
<1>9. Working(f)
  BY <1>2 DEF Continues, Working, Rest, Sound
<1>10. Core(u)
  BY <1>5, <1>7, <1>8, <1>9, CoreHas DEF Good, Core, Kept
<1>11. SameRadio(u)
  BY <1>7, SameRadioKept DEF Good, Armed
<1>12. QED
  BY <1>7, <1>10, <1>11 DEF Good, Watched

LEMMA DeviceFailsKeeps ==
  ASSUME NEW t, Good(t), NEW serial,
         NEW u, u = [t EXCEPT !.engine = Engine!BackendError(t.engine, serial)]
  PROVE  Good(u)
<1> DEFINE f == Engine!BackendError(t.engine, serial)
<1>1. Worker(f) /\ SameButPort(t.engine, f) /\ Down(f.port)
  BY BackendErrorOfWorker, CoreHas DEF Good
<1>2. t \in Stations /\ f \in Engine!Engines
  BY <1>1, CoreHas DEF Good, Worker
<1> HIDE DEF f
<1>3. u = [t EXCEPT !.engine = f]
  BY DEF f
<1>4. /\ u \in Stations /\ u.guard = t.guard /\ Kept(t, u) /\ u.watchdog = t.watchdog
      /\ u.engine = f /\ u.cache = t.cache /\ u.queue = t.queue
  BY <1>2, <1>3 DEF Stations, Kept
<1>5. /\ Engine!Busy(f) = Engine!Busy(t.engine)
      /\ Engine!Running(f) = Engine!Running(t.engine)
      /\ Rest(t.engine) => Rest(f)
      /\ ~Engine!Active(f.port, "ptt") /\ ~Engine!Active(f.port, "key")
  BY <1>1 DEF SameButPort, Engine!Busy, Engine!Running, Rest, Down, Engine!Active,
     Engine!Adapter!Lines
<1>6. \A v : /\ Seen(v, t.engine) => Seen(v, f)
             /\ Current(v, t.engine) => Current(v, f)
  BY <1>1, <1>5 DEF Seen, Current, SameButPort
<1>7. Views(t.cache, t.queue, f)
  BY <1>6 DEF Good, Core, Views
<1>8. GrantedFor(t.guard, f) /\ Working(f)
  BY <1>1, <1>5 DEF Good, Core, Working, GrantedFor, SameButPort
<1>9. Core(u)
  BY <1>4, <1>7, <1>8, CoreHas DEF Good, Core, Kept
<1>10. SameRadio(u)
  BY <1>4, SameRadioKept DEF Good, Armed
<1>11. QED
  BY <1>1, <1>4, <1>9, <1>10 DEF Good, Watched, SameButPort

-----------------------------------------------------------------------------
(* The station.                                                            *)

LEMMA Instance ==
  /\ SomeRadios \subseteq Radios /\ SomeDevices \subseteq Engine!Adapter!Devices
  /\ MaxU64 \in Nat /\ Engine!Scheduler!Time = 0..MaxU64 /\ 0 \in 0..MaxU64
  BY InstanceAssumption, Limits, TimeIs

LEMMA NewStationIs ==
  ASSUME NEW radio \in Radios, NEW t, t = NewStation(radio)
  PROVE  Good(t)
<1> DEFINE e == Engine!NewEngine(EngineConfig)
           v == Engine!Snapshot(e)
           g == Guard!NewGuard
<1>1. Worker(e) /\ Rest(e) /\ ~Engine!Busy(e) /\ ~e.fault
  BY Parameters, NewEngineIs
<1>2. v \in Snapshots /\ Current(v, e)
  BY <1>1, SnapshotIs
<1>3. g \in Guard!Guards /\ g.state = "Disarmed" /\ g.message = NoMessage
  BY ClockIs DEF Guard!NewGuard, Guard!Guards, Guard!TransmitStates
<1>4. t = [guard |-> g, plan |-> NoPlan, wasBusy |-> FALSE, watchdog |-> FALSE,
           enabled |-> FALSE, radio |-> radio, armedRadio |-> radio.id,
           engine |-> e, cache |-> v, queue |-> <<>>]
  BY DEF NewStation
<1>5. <<>> \in Seq(Items) /\ Len(<<>>) = 0
  OBVIOUS
<1>6. e \in Engine!Engines
  BY <1>1 DEF Worker
<1> HIDE DEF e, v, g
<1>7. t \in Stations
  BY <1>2, <1>3, <1>4, <1>5, <1>6, NoPlanIs, RadioHas DEF Stations, Items
<1>8. /\ t.guard = g /\ t.engine = e /\ t.cache = v /\ t.queue = <<>> /\ t.plan = NoPlan
  BY <1>4
<1>9. GuardOk(g) /\ PlanOf(g, NoPlan) /\ GrantedFor(g, e) /\ Working(e)
  BY <1>1, <1>3, RestIsGranted DEF GuardOk, Holds, PlanOf, Working
<1>10. Views(v, <<>>, e)
  BY <1>2, <1>5 DEF Views, Current
<1>11. Core(t)
  BY <1>7, <1>8, <1>9, <1>10 DEF Core
<1>12. ~Armed(t)
  BY <1>3, <1>8 DEF Armed
<1>13. QED
  BY <1>1, <1>8, <1>11, <1>12 DEF Good, SameRadio, Watched, Rest

StationIInv == Good(s) /\ device \in SomeDevices /\ now \in 0..MaxU64

LEMMA StationInit == Init => StationIInv
<1> SUFFICES ASSUME Init
             PROVE  StationIInv
  OBVIOUS
<1>1. PICK radio \in SomeRadios : s = NewStation(radio)
  BY DEF Init
<1>2. radio \in Radios
  BY Instance
<1>3. Good(s)
  BY <1>1, <1>2, NewStationIs
<1>4. QED
  BY <1>3, Instance DEF Init, StationIInv

LEMMA BecomesKeeps ==
  ASSUME StationIInv, NEW u, Good(u), Becomes(u)
  PROVE  StationIInv'
<1>1. s' = u /\ now' \in 0..MaxU64 /\ device' = device
  BY Instance DEF Becomes, StationIInv
<1>2. Good(s')
  BY <1>1
<1>3. QED
  BY <1>1, <1>2 DEF StationIInv

LEMMA StationStep == StationIInv /\ [Next]_vars => StationIInv'
<1> SUFFICES ASSUME StationIInv, [Next]_vars
             PROVE  StationIInv'
  OBVIOUS
<1>0. Good(s) /\ now \in Engine!Scheduler!Time
  BY Instance DEF StationIInv
<1>1. CASE DoArm
  BY <1>0, <1>1, ArmKeeps, BecomesKeeps DEF DoArm
<1>2. CASE DoDisarm
  BY <1>0, <1>2, DisarmKeeps, BecomesKeeps DEF DoDisarm
<1>3. CASE DoSelectTarget
  BY <1>0, <1>3, SelectTargetKeeps, BecomesKeeps DEF DoSelectTarget
<1>4. CASE DoConfirmTarget
  BY <1>0, <1>4, ConfirmTargetKeeps, BecomesKeeps DEF DoConfirmTarget
<1>5. CASE DoPrepare
  BY <1>0, <1>5, PrepareKeeps, BecomesKeeps DEF DoPrepare
<1>6. CASE DoSetWordsPerMinute
  BY <1>0, <1>6, SetWordsPerMinuteKeeps, BecomesKeeps DEF DoSetWordsPerMinute
<1>7. CASE DoConfirmPreview
  BY <1>0, <1>7, ConfirmPreviewKeeps, BecomesKeeps DEF DoConfirmPreview
<1>8. CASE DoTransmitPrepared
  BY <1>0, <1>8, TransmitPreparedKeeps, BecomesKeeps DEF DoTransmitPrepared
<1>9. CASE DoCancelTransmission
  BY <1>0, <1>9, CancelTransmissionKeeps, BecomesKeeps DEF DoCancelTransmission
<1>10. CASE DoToggleTune
  BY <1>0, <1>10, ToggleTuneKeeps, BecomesKeeps DEF DoToggleTune
<1>11. CASE DoEndQso
  BY <1>0, <1>11, EndQsoKeeps, BecomesKeeps DEF DoEndQso
<1>12. CASE DoEmergencyRelease
  BY <1>0, <1>12, EmergencyReleaseKeeps, BecomesKeeps DEF DoEmergencyRelease
<1>13. CASE DoResetFault
  BY <1>0, <1>13, ResetFaultKeeps, BecomesKeeps DEF DoResetFault
<1>14. CASE DoConfigureHardware
  BY <1>0, <1>14, ConfigureHardwareKeeps, BecomesKeeps DEF DoConfigureHardware
<1>15. CASE DoConfigureRadioSafety
  BY <1>0, <1>15, Instance, ConfigureRadioSafetyKeeps, BecomesKeeps
     DEF DoConfigureRadioSafety
<1>16. CASE ReceiveSnapshot
  BY <1>0, <1>16, UpdateCachedStateKeeps, BecomesKeeps DEF ReceiveSnapshot
<1>17. CASE HardwareWatchdog
  BY <1>0, <1>17, HandlerKeeps, BecomesKeeps DEF HardwareWatchdog
<1>18. CASE TimerFires
  BY <1>0, <1>18, TimerFiredKeeps, BecomesKeeps DEF TimerFires, TimerDue
<1>19. CASE DeviceFails
  <2> DEFINE u == [s EXCEPT !.engine = Engine!BackendError(s.engine, device)]
  <2>1. Becomes(u)
    BY <1>19 DEF DeviceFails
  <2>2. Good(u)
    BY <1>0, DeviceFailsKeeps
  <2> HIDE DEF u
  <2>3. QED
    BY <2>1, <2>2, BecomesKeeps
<1>20. CASE DeviceChanges
  BY <1>20 DEF DeviceChanges, StationIInv
<1>21. CASE Tick
  BY <1>21, Instance DEF Tick, StationIInv
<1>22. CASE UNCHANGED vars
  BY <1>22 DEF vars, StationIInv
<1>23. QED
  BY <1>1, <1>2, <1>3, <1>4, <1>5, <1>6, <1>7, <1>8, <1>9, <1>10, <1>11, <1>12, <1>13,
     <1>14, <1>15, <1>16, <1>17, <1>18, <1>19, <1>20, <1>21, <1>22 DEF Next

LEMMA StationAlways == Spec => []StationIInv
<1>1. QED
  BY StationInit, StationStep, PTL DEF Spec

(* A raised line is in the timer's care, and so all that is sending is     *)
(* what the timer runs for.                                                *)
LEMMA SendingIsTimed ==
  ASSUME StationIInv, Sending
  PROVE  s.engine.timer # Engine!Stopped
  BY DEF StationIInv, Good, Core, Working, Worker, Down, Sending, LineUp, Engine!Active,
         Engine!Adapter!Lines

LEMMA AuthorizedNow ==
  ASSUME StationIInv
  PROVE  OutputIsAuthorized
<1>1. Core(s) /\ SameRadio(s) /\ GuardOk(s.guard)
  BY DEF StationIInv, Good, Core
<1>2. Sending =>
        \/ /\ Engine!Running(s.engine) /\ ~s.engine.tuning /\ s.guard.state = "Transmitting"
           /\ \E wpm \in Speeds : s.engine.sch.plan = EncodeAt(s.guard.message, wpm)
        \/ s.engine.tuning /\ ~Engine!Running(s.engine) /\ s.guard.state = "Tuning"
  BY <1>1, SendingIsTimed DEF Core, GrantedFor
<1>3. OutputIsGuarded
  BY <1>2 DEF OutputIsGuarded, SendingMessage, SendingTune
<1>4. OnAirIsConfirmed
  BY <1>1, <1>2 DEF OnAirIsConfirmed, SendingMessage, GuardOk, Holds
<1>5. ArmedForThisRadio
  BY <1>1, <1>2 DEF ArmedForThisRadio, SameRadio, Armed
<1>6. QED
  BY <1>3, <1>4, <1>5 DEF OutputIsAuthorized

(* The radio is keyed only by what the guard grants at that moment: a      *)
(* message only while it is in the transmitting state, an encoding of the  *)
(* very message the operator confirmed, to a call; TUNE only while it is   *)
(* in the tuning state; and either only with the radio as it was armed.    *)
THEOREM AuthorizedAlways == Spec => []OutputIsAuthorized
<1>1. StationIInv => OutputIsAuthorized
  BY AuthorizedNow
<1>2. QED
  BY <1>1, StationAlways, PTL

LEMMA StationNow ==
  ASSUME StationIInv
  PROVE  StationInv
<1>1. Core(s) /\ Watched(s)
  BY DEF StationIInv, Good
<1>2. TypeOK
  BY <1>1 DEF Core, StationIInv, TypeOK
<1>3. PlanIsOfTheMessage
  BY <1>1 DEF Core, PlanOf, PlanIsOfTheMessage
<1>4. OutputIsWatched
  BY <1>1, SendingIsTimed DEF Watched, OutputIsWatched
<1>5. CacheCatchesUp
  BY <1>1 DEF Core, Views, Current, CacheCatchesUp, LineUp
<1>6. QED
  BY <1>2, <1>3, <1>4, <1>5 DEF StationInv

(* What the controller and the facade keep about the worker is true of it: *)
(* the prepared plan is of the staged message, an output that may go on is *)
(* watched, and once every snapshot has been received or overtaken the     *)
(* cached state is the worker's.                                           *)
THEOREM StationAlwaysTrue == Spec => []StationInv
<1>1. StationIInv => StationInv
  BY StationNow
<1>2. QED
  BY <1>1, StationAlways, PTL
-----------------------------------------------------------------------------
(* The station profiles: the acceptance of direct keying is what was        *)
(* measured, and the settings that were stored are what a start reads.      *)

(* What a measurement has found, and how it has left the outputs.           *)
ProbeStates == [passed : BOOLEAN, out : [Lines -> BOOLEAN]]

(* Four steps in order.                                                    *)
LEMMA FourOf ==
  ASSUME NEW S, NEW p \in S, NEW q \in S, NEW r \in S, NEW t \in S, NEW four, four = <<p, q, r, t>>
  PROVE  /\ four \in Seq(S) /\ Len(four) = 4
         /\ four[1] = p /\ four[2] = q /\ four[3] = r /\ four[4] = t
  OBVIOUS

(* Four steps after others: the others stay where they were.               *)
LEMMA FourAndMore ==
  ASSUME NEW S, NEW a \in Seq(S), NEW b \in Seq(S), Len(b) = 4
  PROVE  /\ a \o b \in Seq(S) /\ Len(a \o b) = Len(a) + 4
         /\ \A i \in 1..Len(a) : (a \o b)[i] = a[i]
         /\ (a \o b)[Len(a) + 1] = b[1] /\ (a \o b)[Len(a) + 2] = b[2]
<1> DEFINE ab == a \o b
<1>1. /\ ab \in Seq(S) /\ Len(ab) = Len(a) + Len(b)
      /\ \A i \in 1..Len(a) + Len(b) : ab[i] = IF i <= Len(a) THEN a[i] ELSE b[i - Len(a)]
      /\ Len(a) \in Nat
  BY ConcatProperties, LenProperties
<1> DEFINE n == Len(a)
<1> HIDE DEF n, ab
<1>a. n \in Nat /\ Len(ab) = n + 4 /\ \A i \in 1..n + 4 : ab[i] = IF i <= n THEN a[i] ELSE b[i - n]
  BY <1>1 DEF n
<1>2. \A i \in 1..n : ab[i] = a[i]
  BY <1>a
<1>3. ab[n + 1] = b[1] /\ ab[n + 2] = b[2]
  <2>1. /\ n + 1 \in 1..n + 4 /\ ~(n + 1 <= n) /\ n + 1 - n = 1
        /\ n + 2 \in 1..n + 4 /\ ~(n + 2 <= n) /\ n + 2 - n = 2
    BY <1>a
  <2>2. ab[n + 1] = b[n + 1 - n] /\ ab[n + 2] = b[n + 2 - n]
    BY <1>a, <2>1
  <2>3. QED
    BY <2>1, <2>2
<1>4. QED
  BY <1>1, <1>2, <1>3, <1>a DEF n, ab

BeginsAs(w, S, x, y) ==
  /\ w \in Seq(S) /\ Len(w) = 12
  /\ \A i \in 1..4 : w[i] = x[i]
  /\ w[5] = y[1] /\ w[6] = y[2]

(* Three times four steps, as a measurement has: the first six by name.    *)
LEMMA ThreeFours ==
  ASSUME NEW S, NEW x \in Seq(S), NEW y \in Seq(S), NEW z \in Seq(S),
         Len(x) = 4, Len(y) = 4, Len(z) = 4
  PROVE  BeginsAs((x \o y) \o z, S, x, y)
<1> DEFINE xy == x \o y
           xyz == xy \o z
<1>1. /\ xy \in Seq(S) /\ Len(xy) = Len(x) + 4
      /\ \A i \in 1..Len(x) : xy[i] = x[i]
      /\ xy[Len(x) + 1] = y[1] /\ xy[Len(x) + 2] = y[2]
  BY FourAndMore
<1>2. xy \in Seq(S) /\ Len(xy) = 8 /\ (\A i \in 1..4 : xy[i] = x[i]) /\ xy[5] = y[1] /\ xy[6] = y[2]
  BY <1>1
<1>3. xyz \in Seq(S) /\ Len(xyz) = Len(xy) + 4 /\ \A i \in 1..Len(xy) : xyz[i] = xy[i]
  BY <1>2, FourAndMore
<1>4. QED
  BY <1>2, <1>3 DEF BeginsAs

ProbeSteps == [op : {"drive", "sense"}, line : Lines, level : BOOLEAN]

(* The steps of DirectKeyingAcceptanceProbe::run up to the first reading   *)
(* while PTT is raised.                                                    *)
LEMMA StepsOfMeasurement ==
  ASSUME NEW config \in Configs, NEW steps, steps = Measurement(config)
  PROVE  /\ Len(steps) = 12
         /\ steps[1] = Drive(config.key, FALSE) /\ steps[2] = Drive(config.ptt, FALSE)
         /\ steps[3] = Sense(config.ptt, FALSE) /\ steps[4] = Sense(config.key, FALSE)
         /\ steps[5] = Drive(config.ptt, TRUE) /\ steps[6] = Sense(config.ptt, TRUE)
         /\ \A k \in 1..12 : steps[k] \in ProbeSteps
<1>1. config.ptt \in Lines /\ config.key \in Lines
  BY DEF Configs
<1> DEFINE pd == Drive(config.ptt, FALSE)
           ps == Sense(config.ptt, FALSE)
           kd == Drive(config.key, FALSE)
           ks == Sense(config.key, FALSE)
           pD == Drive(config.ptt, TRUE)
           pS == Sense(config.ptt, TRUE)
           kD == Drive(config.key, TRUE)
           kS == Sense(config.key, TRUE)
           a == <<kd, pd, ps, ks>>
           b == <<pD, pS, pd, ps>>
           c == <<kD, kS, kd, ks>>
<1>2. /\ pd \in ProbeSteps /\ ps \in ProbeSteps /\ kd \in ProbeSteps /\ ks \in ProbeSteps
      /\ pD \in ProbeSteps /\ pS \in ProbeSteps /\ kD \in ProbeSteps /\ kS \in ProbeSteps
  BY <1>1 DEF Drive, Sense, ProbeSteps
<1>3. steps = (a \o b) \o c
  BY Zenon DEF Measurement, Baseline, Pulse
<1> HIDE DEF pd, ps, kd, ks, pD, pS, kD, kS
<1>4. /\ a \in Seq(ProbeSteps) /\ Len(a) = 4 /\ a[1] = kd /\ a[2] = pd /\ a[3] = ps /\ a[4] = ks
      /\ b \in Seq(ProbeSteps) /\ Len(b) = 4 /\ b[1] = pD /\ b[2] = pS
      /\ c \in Seq(ProbeSteps) /\ Len(c) = 4
  BY <1>2, FourOf
<1> HIDE DEF a, b, c
<1>6. /\ steps \in Seq(ProbeSteps) /\ Len(steps) = 12
      /\ \A i \in 1..4 : steps[i] = a[i]
      /\ steps[5] = b[1] /\ steps[6] = b[2]
  <2>1. /\ a \in Seq(ProbeSteps) /\ b \in Seq(ProbeSteps) /\ c \in Seq(ProbeSteps)
        /\ Len(a) = 4 /\ Len(b) = 4 /\ Len(c) = 4
    BY <1>4
  <2>2. BeginsAs((a \o b) \o c, ProbeSteps, a, b)
    BY <2>1, ThreeFours
  <2>3. BeginsAs(steps, ProbeSteps, a, b)
    BY <1>3, <2>2
  <2>4. QED
    BY <2>3 DEF BeginsAs
<1>7. \A k \in 1..12 : steps[k] \in ProbeSteps
  BY <1>6, ElementOfSeq
<1>8. /\ steps[1] = kd /\ steps[2] = pd /\ steps[3] = ps /\ steps[4] = ks
      /\ steps[5] = pD /\ steps[6] = pS
  BY <1>4, <1>6
<1>9. QED
  BY <1>6, <1>7, <1>8 DEF pd, ps, kd, ks, pD, pS

(* A step leaves a state of the measurement, and none passes after one     *)
(* that failed.                                                            *)
LEMMA ProbeStepIs ==
  ASSUME NEW bench, NEW r \in ProbeStates, NEW step \in ProbeSteps
  PROVE  /\ ProbeStep(bench, r, step) \in ProbeStates
         /\ ProbeStep(bench, r, step).passed => r.passed
<1>1. SetOutput(bench, r.out, step.line, step.level) \in [Lines -> BOOLEAN]
  BY DEF SetOutput, ProbeStates, ProbeSteps
<1>2. WaitForSense(bench, r.out, step.line, step.level) \in BOOLEAN
  BY DEF WaitForSense
<1>3. QED
  BY <1>1, <1>2 DEF ProbeStep, ProbeStates

(* The measurement, step by step.                                          *)
LEMMA MeasuredIs ==
  ASSUME NEW config \in Configs, NEW bench, NEW steps, steps = Measurement(config),
         NEW found, found = Measured(config, bench)
  PROVE  /\ found[0] = [passed |-> TRUE, out |-> Quiet]
         /\ \A k \in 1..12 : found[k] = ProbeStep(bench, found[k - 1], steps[k])
         /\ \A k \in 0..12 : found[k] \in ProbeStates
<1> DEFINE n == Len(steps)
           base == [passed |-> TRUE, out |-> Quiet]
           Body(g) == [k \in 0..n |-> IF k = 0 THEN base ELSE ProbeStep(bench, g[k - 1], steps[k])]
           step == [k \in 1..n |-> [q \in ProbeStates |-> ProbeStep(bench, q, steps[k])]]
           result == CHOOSE after : after = Body(after)
<1>1. n = 12 /\ \A k \in 1..12 : steps[k] \in ProbeSteps
  BY StepsOfMeasurement
<1>2. base \in ProbeStates
  BY DEF ProbeStates, Quiet
<1>3. step \in [1..n -> [ProbeStates -> ProbeStates]]
  BY <1>1, ProbeStepIs
<1>4. \A k \in 1..n : \A q \in ProbeStates : step[k][q] = ProbeStep(bench, q, steps[k])
  OBVIOUS
<1>5. ASSUME NEW g
      PROVE  Body(g)[0] = base /\ \A k \in 1..n : Body(g)[k] = ProbeStep(bench, g[k - 1], steps[k])
  BY <1>1
<1>6. ASSUME NEW g, g = [k \in 0..n |-> g[k]], g[0] = Body(g)[0], \A k \in 1..n : g[k] = Body(g)[k]
      PROVE  g = Body(g)
  <2> DEFINE b == Body(g)
  <2>1. b = [k \in 0..n |-> b[k]] /\ \A k \in 0..n : k = 0 \/ k \in 1..n
    BY <1>1
  <2> HIDE DEF b
  <2>2. QED
    BY <1>6, <2>1 DEF b
<1>7. found = result
  BY Zenon DEF Measured
<1> HIDE DEF base, step, Body
<1>8. PICK f \in [0..n -> ProbeStates] : f[0] = base /\ \A k \in 1..n : f[k] = step[k][f[k - 1]]
  <2>1. n \in Nat
    BY <1>1
  <2> HIDE DEF n
  <2>2. \E f \in [0..n -> ProbeStates] : IsRecursion(f, base, step, n)
    BY <1>2, <1>3, <2>1, RecursionUpTo
  <2>3. QED
    BY <2>2 DEF IsRecursion
<1>9. f = Body(f)
  <2>1. ASSUME NEW k \in 1..n PROVE f[k] = ProbeStep(bench, f[k - 1], steps[k])
    <3>1. k - 1 \in 0..n
      BY <1>1
    <3>2. QED
      BY <1>4, <1>8, <3>1
  <2>2. QED
    BY <1>5, <1>6, <1>8, <2>1
<1>10. result = Body(result)
  BY <1>9
<1> HIDE DEF result
<1>11. found[0] = base /\ \A k \in 1..n : found[k] = ProbeStep(bench, found[k - 1], steps[k])
  <2>1. Body(found)[0] = base /\ \A k \in 1..n : Body(found)[k] = ProbeStep(bench, found[k - 1], steps[k])
    BY <1>5
  <2>2. QED
    BY <1>7, <1>10, <2>1
<1>12. \A k \in 0..n : found[k] \in ProbeStates
  <2> DEFINE G == {k \in 0..n : found[k] \in ProbeStates}
  <2>1. 0 \in G
    BY <1>1, <1>2, <1>11
  <2>2. ASSUME NEW k \in 1..n, k - 1 \in G PROVE k \in G
    <3>1. steps[k] \in ProbeSteps /\ found[k - 1] \in ProbeStates
      BY <1>1, <2>2
    <3>2. ProbeStep(bench, found[k - 1], steps[k]) \in ProbeStates
      BY <3>1, ProbeStepIs
    <3>3. QED
      BY <1>1, <1>11, <3>2
  <2> HIDE DEF G
  <2>3. 0..n \subseteq G
    BY <1>1, <2>1, <2>2, InductionUpTo
  <2>4. QED
    BY <2>3 DEF G
<1>13. QED
  BY <1>1, <1>11, <1>12 DEF base

(* Lowering a line that is low leaves every output low.                    *)
LEMMA LoweredFromQuiet ==
  ASSUME NEW bench, NEW r \in ProbeStates, NEW step \in ProbeSteps,
         step.op = "drive", ~step.level, r.passed, r.out = Quiet
  PROVE  ProbeStep(bench, r, step).out = Quiet
<1>1. [Quiet EXCEPT ![step.line] = step.level] = Quiet
  <2> DEFINE line == step.line
             level == step.level
  <2>1. line \in Lines /\ level \in BOOLEAN /\ ~level
    BY DEF ProbeSteps
  <2> HIDE DEF line, level
  <2>2. \A other \in Lines : [Quiet EXCEPT ![line] = level][other] <=> Quiet[other]
    BY <2>1 DEF Quiet
  <2>3. [Quiet EXCEPT ![line] = level] \in [Lines -> BOOLEAN] /\ Quiet \in [Lines -> BOOLEAN]
    BY <2>1 DEF Quiet
  <2>4. [Quiet EXCEPT ![line] = level] = Quiet
    BY <2>2, <2>3
  <2>5. QED
    BY <2>4 DEF line, level
<1>2. ProbeStep(bench, r, step).out = SetOutput(bench, r.out, step.line, step.level)
  BY DEF ProbeStep
<1>3. QED
  BY <1>1, <1>2 DEF SetOutput

(* Reading the inputs changes no output.                                   *)
LEMMA SensedOnly ==
  ASSUME NEW bench, NEW r \in ProbeStates, NEW step \in ProbeSteps, step.op = "sense"
  PROVE  ProbeStep(bench, r, step).out = r.out
BY DEF ProbeStep, ProbeStates

RaisedAt(step) == [Quiet EXCEPT ![step.line] = step.level]

(* A line that was raised is the one that is high.                         *)
LEMMA RaisedFromQuiet ==
  ASSUME NEW bench, NEW r \in ProbeStates, NEW step \in ProbeSteps,
         step.op = "drive", step.level, r.passed, r.out = Quiet,
         ProbeStep(bench, r, step).passed
  PROVE  ProbeStep(bench, r, step).out = RaisedAt(step)
<1>1. /\ ProbeStep(bench, r, step).out = SetOutput(bench, Quiet, step.line, step.level)
      /\ ProbeStep(bench, r, step).passed <=> <<step.line, step.level>> \notin bench.refuses
  BY DEF ProbeStep
<1>2. QED
  BY <1>1, Zenon DEF SetOutput, RaisedAt

(* What a reading with one output raised asks for.                         *)
SeenAlone(bench, out, line) ==
  /\ ReadInputs(bench, out)[line]
  /\ \A other \in Lines \ {line} : ~ReadInputs(bench, out)[other]

(* A reading that passes while PTT is raised saw the input of that line    *)
(* alone.                                                                  *)
LEMMA SensedHigh ==
  ASSUME NEW bench, NEW r \in ProbeStates, NEW step \in ProbeSteps, r.passed,
         step.op = "sense", step.level = TRUE, ProbeStep(bench, r, step).passed
  PROVE  SeenAlone(bench, r.out, step.line)
<1>1. ProbeStep(bench, r, step).passed <=> WaitForSense(bench, r.out, step.line, step.level)
  BY DEF ProbeStep, ProbeStates
<1>2. WaitForSense(bench, r.out, step.line, step.level)
  BY <1>1, Zenon
<1>3. QED
  BY <1>2, Zenon DEF WaitForSense, SeenAlone

(* One raised output is seen at its own input alone by a straight plug     *)
(* only.                                                                   *)
LEMMA StraightAlone ==
  ASSUME NEW bench \in Benches, NEW line \in Lines, NEW out,
         out = [Quiet EXCEPT ![line] = TRUE], SeenAlone(bench, out, line)
  PROVE  bench.plug = "straight"
<1>1. PICK other \in Lines : other # line /\ Lines = {line, other}
  BY DEF Lines
<1>2. out[line] /\ ~out[other] /\ out \in [Lines -> BOOLEAN]
  BY <1>1 DEF Quiet
<1>3. bench.plug \in Plugs
  BY DEF Benches
<1>4. bench.plug # "absent"
  BY DEF SeenAlone, ReadInputs
<1>5. bench.plug # "joined"
  BY <1>1, <1>2 DEF SeenAlone, ReadInputs, Lines
<1>6. bench.plug # "crossed"
  <2>1. SUFFICES ASSUME bench.plug = "crossed" PROVE FALSE
    OBVIOUS
  <2>2. ReadInputs(bench, out) = [rts |-> out.dtr, dtr |-> out.rts]
    BY <2>1 DEF ReadInputs
  <2>3. CASE line = "rts"
    BY <1>1, <1>2, <2>2, <2>3 DEF SeenAlone, Lines
  <2>4. CASE line = "dtr"
    BY <1>1, <1>2, <2>2, <2>4 DEF SeenAlone, Lines
  <2>5. QED
    BY <2>3, <2>4 DEF Lines
<1>7. QED
  BY <1>3, <1>4, <1>5, <1>6 DEF Plugs

(* A measurement that passes was made on a plug that feeds each output     *)
(* back to its own input alone: a crossed or a joined plug, or none, shows *)
(* when PTT is raised.                                                     *)
LEMMA PassedIsStraight ==
  ASSUME NEW config \in Configs, NEW bench \in Benches, NEW confirmed \in BOOLEAN,
         RunProbe(config, bench, confirmed).passed
  PROVE  bench.plug = "straight" /\ confirmed
<1> DEFINE steps == Measurement(config)
           found == Measured(config, bench)
<1>1. /\ Len(steps) = 12
      /\ steps[1] = Drive(config.key, FALSE) /\ steps[2] = Drive(config.ptt, FALSE)
      /\ steps[3] = Sense(config.ptt, FALSE) /\ steps[4] = Sense(config.key, FALSE)
      /\ steps[5] = Drive(config.ptt, TRUE) /\ steps[6] = Sense(config.ptt, TRUE)
      /\ \A k \in 1..12 : steps[k] \in ProbeSteps
  BY StepsOfMeasurement
<1>2. /\ found[0] = [passed |-> TRUE, out |-> Quiet]
      /\ \A k \in 1..12 : found[k] = ProbeStep(bench, found[k - 1], steps[k])
      /\ \A k \in 0..12 : found[k] \in ProbeStates
  BY MeasuredIs
<1>3. confirmed /\ ValidConfig(config) /\ found[12].passed
  BY <1>1 DEF RunProbe
<1> HIDE DEF steps, found
<1>4. \A k \in 1..12 : found[k].passed => found[k - 1].passed
  <2>1. TAKE k \in 1..12
  <2>2. steps[k] \in ProbeSteps /\ found[k - 1] \in ProbeStates /\ found[k] = ProbeStep(bench, found[k - 1], steps[k])
    BY <1>1, <1>2
  <2>3. QED
    BY <2>2, ProbeStepIs
<1>5. /\ found[6].passed /\ found[5].passed /\ found[4].passed /\ found[3].passed
      /\ found[2].passed /\ found[1].passed
  <2>1. found[11].passed /\ found[10].passed /\ found[9].passed
    BY <1>3, <1>4
  <2>2. found[8].passed /\ found[7].passed /\ found[6].passed
    BY <1>4, <2>1
  <2>3. found[5].passed /\ found[4].passed /\ found[3].passed
    BY <1>4, <2>2
  <2>4. QED
    BY <1>4, <2>2, <2>3
<1>6. config.ptt \in Lines /\ config.key \in Lines /\ config.ptt # config.key
  BY <1>3 DEF Configs, ValidConfig
<1> DEFINE kd == Drive(config.key, FALSE)
           pd == Drive(config.ptt, FALSE)
           ps == Sense(config.ptt, FALSE)
           ks == Sense(config.key, FALSE)
           pD == Drive(config.ptt, TRUE)
           pS == Sense(config.ptt, TRUE)
<1>a. /\ kd \in ProbeSteps /\ kd.op = "drive" /\ ~kd.level
      /\ pd \in ProbeSteps /\ pd.op = "drive" /\ ~pd.level
  BY <1>6 DEF ProbeSteps, Drive
<1>b. /\ ps \in ProbeSteps /\ ps.op = "sense"
      /\ ks \in ProbeSteps /\ ks.op = "sense"
  BY <1>6 DEF ProbeSteps, Sense
<1>c. pD \in ProbeSteps /\ pD.op = "drive" /\ pD.level /\ pD.level = TRUE /\ pD.line = config.ptt
  BY <1>6 DEF ProbeSteps, Drive
<1>d. pS \in ProbeSteps /\ pS.op = "sense" /\ pS.level = TRUE /\ pS.line = config.ptt
  BY <1>6 DEF ProbeSteps, Sense
<1>e. /\ steps[1] = kd /\ steps[2] = pd /\ steps[3] = ps /\ steps[4] = ks
      /\ steps[5] = pD /\ steps[6] = pS
  BY <1>1, Zenon
<1> HIDE DEF kd, pd, ps, ks, pD, pS
<1>7. /\ found[1] = ProbeStep(bench, found[0], kd)
      /\ found[2] = ProbeStep(bench, found[1], pd)
      /\ found[3] = ProbeStep(bench, found[2], ps)
      /\ found[4] = ProbeStep(bench, found[3], ks)
      /\ found[5] = ProbeStep(bench, found[4], pD)
      /\ found[6] = ProbeStep(bench, found[5], pS)
  BY <1>e, <1>2
<1>f. /\ found[0] \in ProbeStates /\ found[1] \in ProbeStates /\ found[2] \in ProbeStates
      /\ found[3] \in ProbeStates /\ found[4] \in ProbeStates /\ found[5] \in ProbeStates
  BY <1>2
<1>8. found[4].out = Quiet
  <2>1. found[0].passed /\ found[0].out = Quiet
    BY <1>2
  <2>2. found[1].out = Quiet
    BY <1>f, <1>a, <1>7, <2>1, LoweredFromQuiet
  <2>3. found[2].out = Quiet
    BY <1>f, <1>5, <1>a, <1>7, <2>2, LoweredFromQuiet
  <2>4. found[3].out = Quiet
    BY <1>f, <1>b, <1>7, <2>3, SensedOnly
  <2>5. QED
    BY <1>f, <1>b, <1>7, <2>4, SensedOnly
<1>9. found[5].out = [Quiet EXCEPT ![config.ptt] = TRUE]
  <2>1. found[5].out = [Quiet EXCEPT ![pD.line] = pD.level]
    <3>1. ProbeStep(bench, found[4], pD).passed /\ found[4].passed
      BY <1>5, <1>7
    <3>2. ProbeStep(bench, found[4], pD).out = RaisedAt(pD)
      BY <1>f, <3>1, <1>c, <1>8, RaisedFromQuiet
    <3>3. QED
      BY <3>2, <1>7, Zenon DEF RaisedAt
  <2>2. QED
    BY <1>c, <2>1, Zenon
<1>10. SeenAlone(bench, found[5].out, config.ptt)
  BY <1>f, <1>5, <1>d, <1>7, SensedHigh
<1>11. bench.plug = "straight"
  BY <1>6, <1>9, <1>10, StraightAlone
<1>12. QED
  BY <1>3, <1>11

Memories ==
  [setup : BOOLEAN, input : Inputs, output : Outputs, type : 0..1, source : SourceModes,
   device : SdrDevices \cup {NoDevice}, call : BOOLEAN, radio : BOOLEAN, txMode : {"CW", "CW-R"},
   ptt : Lines, key : Lines, direct : BOOLEAN, accepted : Configs \cup {NoConfig},
   validated : BOOLEAN, fps : RawFps, cluster : BOOLEAN, server : Int,
   diag : BOOLEAN, token : BOOLEAN, open : BOOLEAN]

(* What a key that is a switch gives, and the radio's, which an old profile *)
(* takes from whether it was set up.                                        *)
Was(kept, key) == Value(kept, key, FALSE)
RadioWas(kept) == Value(kept, "radio", Was(kept, "setup"))
InputWas(kept) == Value(kept, "input", "default")
OutputWas(kept) == Value(kept, "output", "default")
TypeWas(kept) == Value(kept, "type", 0)
SourceWas(kept) == Value(kept, "source", 0)
DeviceWas(kept) == Value(kept, "device", NoDevice)
ModeWas(kept) == Value(kept, "txMode", "CW")
PttWas(kept) == Value(kept, "ptt", "rts")
KeyWas(kept) == Value(kept, "key", "dtr")
AcceptedWas(kept) == Value(kept, "accepted", NoConfig)
FpsWas(kept) == Value(kept, "fps", FpsHigh)
ServerWas(kept) == Value(kept, "server", 0)

(* Stored keys each of the type that is read of them.                      *)
WellStored(kept) ==
  /\ Was(kept, "setup") \in BOOLEAN /\ InputWas(kept) \in Inputs /\ OutputWas(kept) \in Outputs
  /\ TypeWas(kept) \in 0..1 /\ SourceWas(kept) \in SourceModes
  /\ DeviceWas(kept) \in SdrDevices \cup {NoDevice}
  /\ Was(kept, "call") \in BOOLEAN /\ RadioWas(kept) \in BOOLEAN
  /\ ModeWas(kept) \in {"CW", "CW-R"}
  /\ PttWas(kept) \in Lines /\ KeyWas(kept) \in Lines /\ Was(kept, "direct") \in BOOLEAN
  /\ AcceptedWas(kept) \in Configs \cup {NoConfig}
  /\ FpsWas(kept) \in RawFps /\ Was(kept, "cluster") \in BOOLEAN /\ ServerWas(kept) \in Int
  /\ Was(kept, "diag") \in BOOLEAN /\ Was(kept, "token") \in BOOLEAN /\ Was(kept, "open") \in BOOLEAN
  /\ TypeWas(kept) = 1 => DeviceWas(kept) # NoDevice

(* What is read of a key after others were written.                        *)
LEMMA ValueOver ==
  ASSUME NEW values, NEW kept, NEW key, NEW default
  PROVE  Value(Over(values, kept), key, default)
           = IF key \in DOMAIN values THEN values[key] ELSE Value(kept, key, default)
<1>1. DOMAIN Over(values, kept) = DOMAIN values \cup DOMAIN kept
  BY DEF Over
<1>2. CASE key \in DOMAIN values
  <2>1. Over(values, kept)[key] = values[key]
    BY <1>2 DEF Over
  <2>2. QED
    BY <1>1, <1>2, <2>1, Zenon DEF Value
<1>3. CASE key \notin DOMAIN values /\ key \in DOMAIN kept
  <2>1. Over(values, kept)[key] = kept[key]
    BY <1>3 DEF Over
  <2>2. QED
    BY <1>1, <1>3, <2>1, Zenon DEF Value
<1>4. CASE key \notin DOMAIN values /\ key \notin DOMAIN kept
  BY <1>1, <1>4, Zenon DEF Value
<1>5. QED
  BY <1>2, <1>3, <1>4, Zenon

(* What is loaded depends on the keys that are stored alone, and on how     *)
(* long the list of servers is.                                             *)
LoadedFrom(kept, n) ==
  [setup |-> Was(kept, "setup"), input |-> InputWas(kept), output |-> OutputWas(kept),
   type |-> TypeWas(kept), source |-> SourceWas(kept), device |-> DeviceWas(kept),
   call |-> Was(kept, "call"), radio |-> RadioWas(kept), txMode |-> ModeWas(kept),
   ptt |-> PttWas(kept), key |-> KeyWas(kept), direct |-> Was(kept, "direct"),
   accepted |-> AcceptedWas(kept),
   validated |-> Was(kept, "direct")
                   /\ AcceptedWas(kept) = [ptt |-> PttWas(kept), key |-> KeyWas(kept)],
   fps |-> FpsWas(kept), cluster |-> Was(kept, "cluster") /\ Was(kept, "call"),
   server |-> ServerOrFirst(ServerWas(kept), n),
   diag |-> Was(kept, "diag") /\ ~(Was(kept, "open") /\ ~Was(kept, "token")),
   token |-> Was(kept, "token"), open |-> Was(kept, "open")]

Fields == {"setup", "input", "output", "type", "source", "device", "call", "radio", "txMode",
           "ptt", "key", "direct", "accepted", "validated", "fps", "cluster", "server", "diag",
           "token", "open"}

(* The settings in memory are a record of these fields.                    *)
LEMMA MemoriesAre ==
  ASSUME NEW m \in Memories
  PROVE  DOMAIN m = Fields /\ m = [f \in Fields |-> m[f]]
BY DEF Memories, Fields

(* A record of all the fields.                                             *)
IsRecord(m) == m = [f \in Fields |-> m[f]]

(* What the reception part of a load reads.                                *)
LEMMA LoadedReceptionIs ==
  ASSUME NEW m, NEW kept, NEW r, IsRecord(m), r = LoadedReception(m, kept)
  PROVE  /\ IsRecord(r)
         /\ r.setup = Was(kept, "setup") /\ r.input = InputWas(kept) /\ r.output = OutputWas(kept)
         /\ r.type = TypeWas(kept) /\ r.source = SourceWas(kept) /\ r.device = DeviceWas(kept)
         /\ r.call = Was(kept, "call")
<1>1. r = [m EXCEPT !.setup = Was(kept, "setup"), !.input = InputWas(kept),
                    !.output = OutputWas(kept), !.type = TypeWas(kept),
                    !.source = SourceWas(kept), !.device = DeviceWas(kept),
                    !.call = Was(kept, "call")]
  <2>1. LoadedReception(m, kept) =
          [m EXCEPT !.setup = Was(kept, "setup"), !.input = InputWas(kept),
                    !.output = OutputWas(kept), !.type = TypeWas(kept),
                    !.source = SourceWas(kept), !.device = DeviceWas(kept),
                    !.call = Was(kept, "call")]
    BY Zenon DEF LoadedReception, Was, InputWas, OutputWas, TypeWas, SourceWas, DeviceWas
  <2>2. QED
    BY Zenon, <2>1
<1>2. DOMAIN m = Fields
  BY DEF IsRecord
<1>3. DOMAIN r = Fields
  BY <1>1, <1>2
<1>4. r = [f \in DOMAIN r |-> r[f]]
  BY <1>1
<1>5. IsRecord(r)
  BY <1>3, <1>4 DEF IsRecord
<1>6. QED
  BY <1>1, <1>2, <1>5 DEF Fields

(* What the radio part of a load reads, from the reference lines.          *)
LEMMA LoadedRadioIs ==
  ASSUME NEW m, NEW kept, NEW r, IsRecord(m), r = LoadedRadio(m, kept)
  PROVE  /\ IsRecord(r)
         /\ m.setup = Was(kept, "setup") => r.radio = RadioWas(kept)
         /\ r.txMode = ModeWas(kept) /\ r.ptt = "rts" /\ r.key = "dtr"
         /\ \A f \in Fields \ {"radio", "txMode", "ptt", "key", "validated"} : r[f] = m[f]
<1> DEFINE was == Value(kept, "radio", m.setup)
<1>1. m.setup = Was(kept, "setup") => was = RadioWas(kept)
  BY Zenon DEF RadioWas
<1> DEFINE w == WithReferenceDefaults(m)
<1>2. /\ IsRecord(w) /\ w.ptt = "rts" /\ w.key = "dtr"
      /\ \A f \in Fields \ {"ptt", "key", "validated"} : w[f] = m[f]
  BY DEF WithReferenceDefaults, IsRecord, Fields
<1>3. r = [w EXCEPT !.radio = was, !.txMode = ModeWas(kept)]
  BY Zenon DEF LoadedRadio, ModeWas
<1> HIDE DEF was, w
<1>4. /\ IsRecord(r) /\ r.radio = was /\ r.txMode = ModeWas(kept)
      /\ \A f \in Fields \ {"radio", "txMode"} : r[f] = w[f]
  BY <1>2, <1>3 DEF IsRecord, Fields
<1>5. QED
  BY <1>1, <1>2, <1>4 DEF Fields

(* What the keying part of a load reads; an acceptance counts for the      *)
(* lines it names.                                                         *)
LEMMA LoadedKeyingIs ==
  ASSUME NEW m, NEW kept, NEW r, IsRecord(m), r = LoadedKeying(m, kept),
         m.ptt = "rts", m.key = "dtr"
  PROVE  /\ IsRecord(r)
         /\ r.ptt = PttWas(kept) /\ r.key = KeyWas(kept) /\ r.direct = Was(kept, "direct")
         /\ r.accepted = AcceptedWas(kept)
         /\ r.validated = (Was(kept, "direct")
                             /\ AcceptedWas(kept) = [ptt |-> PttWas(kept), key |-> KeyWas(kept)])
         /\ \A f \in Fields \ {"ptt", "key", "direct", "accepted", "validated"} : r[f] = m[f]
<1> DEFINE w == [m EXCEPT !.direct = Was(kept, "direct"), !.ptt = PttWas(kept),
                          !.key = KeyWas(kept), !.accepted = AcceptedWas(kept)]
<1>1. r = [w EXCEPT !.validated = w.direct /\ w.accepted = Config(w)]
  BY Zenon DEF LoadedKeying, Was, PttWas, KeyWas, AcceptedWas
<1>2. /\ IsRecord(w) /\ w.ptt = PttWas(kept) /\ w.key = KeyWas(kept)
      /\ w.direct = Was(kept, "direct") /\ w.accepted = AcceptedWas(kept)
      /\ \A f \in Fields \ {"ptt", "key", "direct", "accepted"} : w[f] = m[f]
  BY DEF IsRecord, Fields
<1> DEFINE v == (w.direct /\ w.accepted = Config(w))
<1>3. v = (Was(kept, "direct") /\ AcceptedWas(kept) = [ptt |-> PttWas(kept), key |-> KeyWas(kept)])
  BY <1>2, Zenon DEF Config
<1>4. r = [w EXCEPT !.validated = v]
  BY <1>1
<1> HIDE DEF w, v
<1>5. /\ IsRecord(r) /\ r.validated = v
      /\ \A f \in Fields \ {"validated"} : r[f] = w[f]
  BY <1>2, <1>4 DEF IsRecord, Fields
<1>6. /\ r.ptt = PttWas(kept) /\ r.key = KeyWas(kept) /\ r.direct = Was(kept, "direct")
      /\ r.accepted = AcceptedWas(kept)
      /\ \A f \in Fields \ {"ptt", "key", "direct", "accepted", "validated"} : r[f] = m[f]
  BY <1>2, <1>5 DEF Fields
<1>7. QED
  BY <1>3, <1>5, <1>6, Zenon

(* What the display part of a load reads.                                  *)
LEMMA LoadedDisplayIs ==
  ASSUME NEW m, NEW kept, NEW r, IsRecord(m), r = LoadedDisplay(m, kept)
  PROVE  /\ IsRecord(r) /\ r.fps = FpsWas(kept)
         /\ \A f \in Fields \ {"fps"} : r[f] = m[f]
<1>1. r = [m EXCEPT !.fps = FpsWas(kept)]
  BY Zenon DEF LoadedDisplay, FpsWas
<1>2. QED
  BY <1>1 DEF IsRecord, Fields

(* What the part of a load for the network services reads.                 *)
LEMMA LoadedServicesIs ==
  ASSUME NEW m, NEW kept, NEW n, NEW r, IsRecord(m), r = LoadedServices(m, kept, n),
         m.call = Was(kept, "call")
  PROVE  /\ IsRecord(r)
         /\ r.server = ServerOrFirst(ServerWas(kept), n)
         /\ r.cluster = (Was(kept, "cluster") /\ Was(kept, "call"))
         /\ r.diag = (Was(kept, "diag") /\ ~(Was(kept, "open") /\ ~Was(kept, "token")))
         /\ r.token = Was(kept, "token") /\ r.open = Was(kept, "open")
         /\ \A f \in Fields \ {"server", "cluster", "diag", "token", "open"} : r[f] = m[f]
<1> DEFINE in == (Was(kept, "cluster") /\ m.call)
           index == ServerOrFirst(ServerWas(kept), n)
           w == [m EXCEPT !.server = index, !.cluster = in, !.token = Was(kept, "token"),
                          !.open = Was(kept, "open")]
           on == (Was(kept, "diag") /\ ~Unguarded(w))
<1>1. r = [w EXCEPT !.diag = on]
  BY Zenon DEF LoadedServices, Was, ServerWas
<1>2. in = (Was(kept, "cluster") /\ Was(kept, "call"))
  BY Zenon
<1> HIDE DEF in, index
<1>3. /\ IsRecord(w) /\ w.server = index /\ w.cluster = in /\ w.token = Was(kept, "token")
      /\ w.open = Was(kept, "open")
      /\ \A f \in Fields \ {"server", "cluster", "token", "open"} : w[f] = m[f]
  BY DEF IsRecord, Fields
<1> HIDE DEF w
<1>4. on = (Was(kept, "diag") /\ ~(Was(kept, "open") /\ ~Was(kept, "token")))
  BY <1>3, Zenon DEF Unguarded
<1> HIDE DEF on
<1>5. /\ IsRecord(r) /\ r.diag = on /\ \A f \in Fields \ {"diag"} : r[f] = w[f]
  BY <1>1, <1>3 DEF IsRecord, Fields
<1>6. /\ r.server = index /\ r.cluster = in /\ r.token = Was(kept, "token")
      /\ r.open = Was(kept, "open")
      /\ \A f \in Fields \ {"server", "cluster", "diag", "token", "open"} : r[f] = m[f]
  BY <1>3, <1>5 DEF Fields
<1>7. QED
  BY <1>2, <1>4, <1>5, <1>6, Zenon DEF index

(* A load forgets everything that was in memory.                           *)
LEMMA LoadedIs ==
  ASSUME NEW m \in Memories, NEW kept, NEW n
  PROVE  Loaded(m, kept, n) = LoadedFrom(kept, n)
<1> DEFINE a == LoadedReception(m, kept)
           b == LoadedRadio(a, kept)
           c == LoadedKeying(b, kept)
           d == LoadedDisplay(c, kept)
           e == LoadedServices(d, kept, n)
           w == LoadedFrom(kept, n)
<1>0. Loaded(m, kept, n) = e
  BY Zenon DEF Loaded
<1>1. IsRecord(m)
  BY MemoriesAre, Zenon DEF IsRecord
<1>2. /\ IsRecord(a)
      /\ a.setup = Was(kept, "setup") /\ a.input = InputWas(kept) /\ a.output = OutputWas(kept)
      /\ a.type = TypeWas(kept) /\ a.source = SourceWas(kept) /\ a.device = DeviceWas(kept)
      /\ a.call = Was(kept, "call")
  BY <1>1, LoadedReceptionIs
<1> HIDE DEF a
<1>3. /\ IsRecord(b)
      /\ b.radio = RadioWas(kept)
      /\ b.txMode = ModeWas(kept) /\ b.ptt = "rts" /\ b.key = "dtr"
      /\ \A f \in Fields \ {"radio", "txMode", "ptt", "key", "validated"} : b[f] = a[f]
  BY <1>2, LoadedRadioIs
<1> HIDE DEF b
<1>4. /\ IsRecord(c)
      /\ c.ptt = PttWas(kept) /\ c.key = KeyWas(kept) /\ c.direct = Was(kept, "direct")
      /\ c.accepted = AcceptedWas(kept)
      /\ c.validated = (Was(kept, "direct")
                          /\ AcceptedWas(kept) = [ptt |-> PttWas(kept), key |-> KeyWas(kept)])
      /\ \A f \in Fields \ {"ptt", "key", "direct", "accepted", "validated"} : c[f] = b[f]
  BY <1>3, LoadedKeyingIs
<1> HIDE DEF c
<1>5. /\ IsRecord(d) /\ d.fps = FpsWas(kept)
      /\ \A f \in Fields \ {"fps"} : d[f] = c[f]
  BY <1>4, LoadedDisplayIs
<1> HIDE DEF d
<1>6. d.call = Was(kept, "call")
  BY <1>2, <1>3, <1>4, <1>5 DEF Fields
<1>7. /\ IsRecord(e)
      /\ e.server = ServerOrFirst(ServerWas(kept), n)
      /\ e.cluster = (Was(kept, "cluster") /\ Was(kept, "call"))
      /\ e.diag = (Was(kept, "diag") /\ ~(Was(kept, "open") /\ ~Was(kept, "token")))
      /\ e.token = Was(kept, "token") /\ e.open = Was(kept, "open")
      /\ \A f \in Fields \ {"server", "cluster", "diag", "token", "open"} : e[f] = d[f]
  BY <1>5, <1>6, LoadedServicesIs
<1> HIDE DEF e
<1>8. IsRecord(w)
  BY Zenon DEF LoadedFrom, IsRecord, Fields
<1>9. \A f \in Fields : e[f] = w[f]
  <2>1. /\ e.setup = Was(kept, "setup") /\ e.input = InputWas(kept) /\ e.output = OutputWas(kept)
        /\ e.type = TypeWas(kept) /\ e.source = SourceWas(kept) /\ e.device = DeviceWas(kept)
        /\ e.call = Was(kept, "call")
    BY <1>2, <1>3, <1>4, <1>5, <1>7 DEF Fields
  <2>2. e.radio = RadioWas(kept) /\ e.txMode = ModeWas(kept)
    BY <1>3, <1>4, <1>5, <1>7 DEF Fields
  <2>3. /\ e.ptt = PttWas(kept) /\ e.key = KeyWas(kept) /\ e.direct = Was(kept, "direct")
        /\ e.accepted = AcceptedWas(kept)
    BY <1>4, <1>5, <1>7 DEF Fields
  <2>4. e.validated = c.validated /\ e.fps = FpsWas(kept)
    BY <1>4, <1>5, <1>7 DEF Fields
  <2>5. e.validated = w.validated
    BY <1>4, <2>4, Zenon DEF LoadedFrom
  <2>6. e.cluster = w.cluster /\ e.diag = w.diag
    BY <1>7, Zenon DEF LoadedFrom
  <2>7. e.server = w.server /\ e.token = w.token /\ e.open = w.open /\ e.fps = w.fps
    BY <1>7, <2>4, Zenon DEF LoadedFrom
  <2>8. /\ e.setup = w.setup /\ e.input = w.input /\ e.output = w.output
        /\ e.type = w.type /\ e.source = w.source /\ e.device = w.device /\ e.call = w.call
    BY <2>1, Zenon DEF LoadedFrom
  <2>9. /\ e.radio = w.radio /\ e.txMode = w.txMode /\ e.ptt = w.ptt /\ e.key = w.key
        /\ e.direct = w.direct /\ e.accepted = w.accepted
    BY <2>2, <2>3, Zenon DEF LoadedFrom
  <2> HIDE DEF w
  <2>10. QED
    BY <2>5, <2>6, <2>7, <2>8, <2>9 DEF Fields
<1> HIDE DEF w
<1>10. e = w
  BY <1>7, <1>8, <1>9, Zenon DEF IsRecord
<1>11. QED
  BY <1>0, <1>10 DEF w

(* What is read after keys were written over others.                       *)
LEMMA WrittenOver ==
  ASSUME NEW values, NEW kept, NEW after, after = Over(values, kept)
  PROVE  /\ InputWas(after) = IF "input" \in DOMAIN values THEN values["input"] ELSE InputWas(kept)
         /\ OutputWas(after) = IF "output" \in DOMAIN values THEN values["output"] ELSE OutputWas(kept)
         /\ TypeWas(after) = IF "type" \in DOMAIN values THEN values["type"] ELSE TypeWas(kept)
         /\ SourceWas(after) = IF "source" \in DOMAIN values THEN values["source"] ELSE SourceWas(kept)
         /\ DeviceWas(after) = IF "device" \in DOMAIN values THEN values["device"] ELSE DeviceWas(kept)
         /\ ModeWas(after) = IF "txMode" \in DOMAIN values THEN values["txMode"] ELSE ModeWas(kept)
         /\ PttWas(after) = IF "ptt" \in DOMAIN values THEN values["ptt"] ELSE PttWas(kept)
         /\ KeyWas(after) = IF "key" \in DOMAIN values THEN values["key"] ELSE KeyWas(kept)
         /\ AcceptedWas(after) = IF "accepted" \in DOMAIN values THEN values["accepted"] ELSE AcceptedWas(kept)
         /\ FpsWas(after) = IF "fps" \in DOMAIN values THEN values["fps"] ELSE FpsWas(kept)
         /\ ServerWas(after) = IF "server" \in DOMAIN values THEN values["server"] ELSE ServerWas(kept)
         /\ \A key : Was(after, key) = IF key \in DOMAIN values THEN values[key] ELSE Was(kept, key)
         /\ "radio" \in DOMAIN values => RadioWas(after) = values["radio"]
         /\ "radio" \notin DOMAIN values /\ "setup" \notin DOMAIN values => RadioWas(after) = RadioWas(kept)
<1>1. \A key, default : Value(after, key, default)
        = IF key \in DOMAIN values THEN values[key] ELSE Value(kept, key, default)
  BY ValueOver
<1>2. \A key : Was(after, key) = IF key \in DOMAIN values THEN values[key] ELSE Was(kept, key)
  BY <1>1, Zenon DEF Was
<1>3. /\ "radio" \in DOMAIN values => RadioWas(after) = values["radio"]
      /\ "radio" \notin DOMAIN values /\ "setup" \notin DOMAIN values => RadioWas(after) = RadioWas(kept)
  BY <1>1, <1>2, Zenon DEF RadioWas
<1>4. InputWas(after) = IF "input" \in DOMAIN values THEN values["input"] ELSE InputWas(kept)
  BY <1>1, Zenon DEF InputWas
<1>5. OutputWas(after) = IF "output" \in DOMAIN values THEN values["output"] ELSE OutputWas(kept)
  BY <1>1, Zenon DEF OutputWas
<1>6. TypeWas(after) = IF "type" \in DOMAIN values THEN values["type"] ELSE TypeWas(kept)
  BY <1>1, Zenon DEF TypeWas
<1>7. SourceWas(after) = IF "source" \in DOMAIN values THEN values["source"] ELSE SourceWas(kept)
  BY <1>1, Zenon DEF SourceWas
<1>8. DeviceWas(after) = IF "device" \in DOMAIN values THEN values["device"] ELSE DeviceWas(kept)
  BY <1>1, Zenon DEF DeviceWas
<1>9. ModeWas(after) = IF "txMode" \in DOMAIN values THEN values["txMode"] ELSE ModeWas(kept)
  BY <1>1, Zenon DEF ModeWas
<1>10. PttWas(after) = IF "ptt" \in DOMAIN values THEN values["ptt"] ELSE PttWas(kept)
  BY <1>1, Zenon DEF PttWas
<1>11. KeyWas(after) = IF "key" \in DOMAIN values THEN values["key"] ELSE KeyWas(kept)
  BY <1>1, Zenon DEF KeyWas
<1>12. AcceptedWas(after) = IF "accepted" \in DOMAIN values THEN values["accepted"] ELSE AcceptedWas(kept)
  BY <1>1, Zenon DEF AcceptedWas
<1>13. FpsWas(after) = IF "fps" \in DOMAIN values THEN values["fps"] ELSE FpsWas(kept)
  BY <1>1, Zenon DEF FpsWas
<1>14. ServerWas(after) = IF "server" \in DOMAIN values THEN values["server"] ELSE ServerWas(kept)
  BY <1>1, Zenon DEF ServerWas
<1>15. QED
  BY <1>2, <1>3, <1>4, <1>5, <1>6, <1>7, <1>8, <1>9, <1>10, <1>11, <1>12, <1>13, <1>14

(* The wizard alone stores the mark that it was ended, and nothing stores  *)
(* whether the acceptance is valid.                                        *)
StoredFields == Fields \ {"setup", "validated"}

(* What Apply stores is what is in memory.                                 *)
LEMMA StoredIs ==
  ASSUME NEW m
  PROVE  /\ DOMAIN Stored(m) = StoredFields \cup {"schema"}
         /\ \A f \in StoredFields : Stored(m)[f] = m[f]
<1> DEFINE a == StoredReception(m)
           b == StoredKeying(m)
           c == StoredServices(m)
           ba == Over(b, a)
<1>1. /\ DOMAIN a = {"schema", "input", "output", "type", "source", "device", "call", "radio", "txMode"}
      /\ \A f \in DOMAIN a \ {"schema"} : a[f] = m[f]
  BY DEF StoredReception
<1>2. DOMAIN b = {"direct", "accepted", "ptt", "key"} /\ \A f \in DOMAIN b : b[f] = m[f]
  BY DEF StoredKeying
<1>3. /\ DOMAIN c = {"fps", "cluster", "server", "diag", "token", "open"}
      /\ \A f \in DOMAIN c : c[f] = m[f]
  BY DEF StoredServices
<1>4. Stored(m) = Over(c, ba)
  BY Zenon DEF Stored
<1> HIDE DEF a, b, c
<1>5. /\ DOMAIN ba = DOMAIN b \cup DOMAIN a
      /\ \A f \in DOMAIN ba : ba[f] = IF f \in DOMAIN b THEN b[f] ELSE a[f]
  BY DEF Over
<1> HIDE DEF ba
<1>6. /\ DOMAIN Over(c, ba) = DOMAIN c \cup DOMAIN ba
      /\ \A f \in DOMAIN Over(c, ba) : Over(c, ba)[f] = IF f \in DOMAIN c THEN c[f] ELSE ba[f]
  BY DEF Over
<1>7. DOMAIN c \cup (DOMAIN b \cup DOMAIN a) = StoredFields \cup {"schema"}
  BY <1>1, <1>2, <1>3 DEF StoredFields, Fields
<1>8. \A f \in StoredFields : f # "schema"
  BY DEF StoredFields, Fields
<1>9. QED
  BY <1>1, <1>2, <1>3, <1>4, <1>5, <1>6, <1>7, <1>8


(* Settings in memory that offer nothing that was not measured.            *)
Proper(m, measured) ==
  /\ m \in Memories
  /\ m.validated => m.direct /\ m.accepted = Config(m)
  /\ m.accepted \in measured \cup {NoConfig}
  /\ m.type = 1 => m.device # NoDevice
(* The network services are guarded: NothingUnguarded, of any settings.    *)
Guards(m, n) ==
  /\ m.diag => ~Unguarded(m)
  /\ m.cluster => m.call
  /\ m.server = Custom \/ m.server \in 0..n - 1
ProperlyStored(kept, measured) == WellStored(kept) /\ AcceptedWas(kept) \in measured \cup {NoConfig}

(* What is stored is what is in memory, but for the mark that the wizard    *)
(* was ended, which only the wizard stores.                                 *)
LoadsAs(kept, n, m) ==
  /\ InputWas(kept) = m.input /\ OutputWas(kept) = m.output /\ TypeWas(kept) = m.type
  /\ SourceWas(kept) = m.source /\ DeviceWas(kept) = m.device
  /\ Was(kept, "call") <=> m.call
  /\ RadioWas(kept) <=> m.radio
  /\ ModeWas(kept) = m.txMode /\ PttWas(kept) = m.ptt /\ KeyWas(kept) = m.key
  /\ Was(kept, "direct") <=> m.direct
  /\ AcceptedWas(kept) = m.accepted /\ FpsWas(kept) = m.fps
  /\ Was(kept, "cluster") /\ Was(kept, "call") <=> m.cluster
  /\ ServerOrFirst(ServerWas(kept), n) = m.server
  /\ Was(kept, "diag") /\ ~(Was(kept, "open") /\ ~Was(kept, "token")) <=> m.diag
  /\ Was(kept, "token") <=> m.token
  /\ Was(kept, "open") <=> m.open

(* An index is moved into the list of servers, and kept when it is in it.  *)
LEMMA ServerIsListed ==
  ASSUME NEW index \in Int, NEW n \in Nat
  PROVE  /\ ServerOrFirst(index, n) \in Int
         /\ ServerOrFirst(index, n) = Custom \/ ServerOrFirst(index, n) \in 0..n - 1
         /\ index = Custom \/ index \in 0..n - 1 => ServerOrFirst(index, n) = index
BY DEF ServerOrFirst, Custom

(* What is loaded of well-formed keys is well-formed and guarded.          *)
LEMMA LoadedFields ==
  ASSUME NEW kept, NEW n \in Nat, NEW l, l = LoadedFrom(kept, n), WellStored(kept)
  PROVE  l \in Memories /\ LoadsAs(kept, n, l) /\ Guards(l, n)
<1> DEFINE index == ServerOrFirst(ServerWas(kept), n)
           valid == (Was(kept, "direct")
                       /\ AcceptedWas(kept) = [ptt |-> PttWas(kept), key |-> KeyWas(kept)])
           in == (Was(kept, "cluster") /\ Was(kept, "call"))
           on == (Was(kept, "diag") /\ ~(Was(kept, "open") /\ ~Was(kept, "token")))
<1>1. index \in Int /\ (index = Custom \/ index \in 0..n - 1)
  BY ServerIsListed DEF WellStored
<1>2. valid \in BOOLEAN /\ in \in BOOLEAN /\ on \in BOOLEAN
  OBVIOUS
<1>3. l = [setup |-> Was(kept, "setup"), input |-> InputWas(kept), output |-> OutputWas(kept),
           type |-> TypeWas(kept), source |-> SourceWas(kept), device |-> DeviceWas(kept),
           call |-> Was(kept, "call"), radio |-> RadioWas(kept), txMode |-> ModeWas(kept),
           ptt |-> PttWas(kept), key |-> KeyWas(kept), direct |-> Was(kept, "direct"),
           accepted |-> AcceptedWas(kept), validated |-> valid, fps |-> FpsWas(kept),
           cluster |-> in, server |-> index, diag |-> on, token |-> Was(kept, "token"),
           open |-> Was(kept, "open")]
  BY Zenon DEF LoadedFrom
<1>4. in <=> (Was(kept, "cluster") /\ Was(kept, "call"))
  OBVIOUS
<1>5. on <=> (Was(kept, "diag") /\ ~(Was(kept, "open") /\ ~Was(kept, "token")))
  OBVIOUS
<1> HIDE DEF valid, in, on, index
<1>6. l \in Memories
  BY <1>1, <1>2, <1>3 DEF WellStored, Memories
<1>7. /\ l.call = Was(kept, "call") /\ l.cluster = in /\ l.diag = on /\ l.open = Was(kept, "open")
      /\ l.token = Was(kept, "token") /\ l.server = index /\ l.radio = RadioWas(kept)
      /\ l.direct = Was(kept, "direct")
  BY <1>3
<1>8. /\ InputWas(kept) = l.input /\ OutputWas(kept) = l.output /\ TypeWas(kept) = l.type
      /\ SourceWas(kept) = l.source /\ DeviceWas(kept) = l.device
      /\ ModeWas(kept) = l.txMode /\ PttWas(kept) = l.ptt /\ KeyWas(kept) = l.key
      /\ AcceptedWas(kept) = l.accepted /\ FpsWas(kept) = l.fps
  BY <1>3
<1>9. LoadsAs(kept, n, l)
  BY <1>4, <1>5, <1>7, <1>8, Zenon DEF LoadsAs, index
<1>10. (l.diag => ~Unguarded(l)) /\ (l.cluster => l.call)
  BY <1>4, <1>5, <1>7, Zenon DEF Unguarded
<1>11. QED
  BY <1>1, <1>6, <1>7, <1>9, <1>10 DEF Guards

(* What is loaded counts as accepted only what was measured.               *)
LEMMA LoadedSound ==
  ASSUME NEW kept, NEW n \in Nat, NEW measured, NEW l, l = LoadedFrom(kept, n),
         ProperlyStored(kept, measured)
  PROVE  Proper(l, measured)
<1>1. l \in Memories /\ LoadsAs(kept, n, l)
  BY LoadedFields DEF ProperlyStored
<1>2. l.validated => l.direct /\ l.accepted = Config(l)
  BY Zenon DEF LoadedFrom, Config
<1>3. l.accepted \in measured \cup {NoConfig} /\ (l.type = 1 => l.device # NoDevice)
  BY <1>1, Zenon DEF LoadsAs, ProperlyStored, WellStored
<1>4. QED
  BY <1>1, <1>2, <1>3 DEF Proper

(* What was loaded is what is in memory.                                   *)
ComesBackAs(l, m) ==
  /\ [l EXCEPT !.validated = m.validated, !.setup = m.setup] = m
  /\ m.validated => l.validated

(* Where the keys that are stored agree with memory, a start reads it      *)
(* back.                                                                   *)
LEMMA ComesBack ==
  ASSUME NEW kept, NEW n \in Nat, NEW measured, NEW m, Proper(m, measured), WellStored(kept),
         LoadsAs(kept, n, m), NEW l, l = LoadedFrom(kept, n)
  PROVE  ComesBackAs(l, m)
<1>1. l \in Memories /\ m \in Memories /\ LoadsAs(kept, n, l)
  BY LoadedFields DEF Proper
<1>2. /\ l.input = m.input /\ l.output = m.output /\ l.type = m.type /\ l.source = m.source
      /\ l.device = m.device /\ l.txMode = m.txMode /\ l.ptt = m.ptt /\ l.key = m.key
      /\ l.accepted = m.accepted /\ l.fps = m.fps /\ l.server = m.server
  BY <1>1, Zenon DEF LoadsAs
<1>3. /\ l.call <=> m.call
      /\ l.radio <=> m.radio
      /\ l.direct <=> m.direct
      /\ l.cluster <=> m.cluster
      /\ l.diag <=> m.diag
      /\ l.token <=> m.token
      /\ l.open <=> m.open
  BY <1>1, Zenon DEF LoadsAs
<1>4. /\ l.call = m.call /\ l.radio = m.radio /\ l.direct = m.direct /\ l.cluster = m.cluster
      /\ l.diag = m.diag /\ l.token = m.token /\ l.open = m.open
  <2>1. \A p \in BOOLEAN, q \in BOOLEAN : (p <=> q) => p = q
    OBVIOUS
  <2>2. /\ l.call \in BOOLEAN /\ l.radio \in BOOLEAN /\ l.direct \in BOOLEAN
        /\ l.cluster \in BOOLEAN /\ l.diag \in BOOLEAN /\ l.token \in BOOLEAN /\ l.open \in BOOLEAN
    BY <1>1 DEF Memories
  <2>3. /\ m.call \in BOOLEAN /\ m.radio \in BOOLEAN /\ m.direct \in BOOLEAN
        /\ m.cluster \in BOOLEAN /\ m.diag \in BOOLEAN /\ m.token \in BOOLEAN /\ m.open \in BOOLEAN
    BY <1>1 DEF Memories
  <2>4. QED
    BY <1>3, <2>1, <2>2, <2>3, Zenon
<1>5. [l EXCEPT !.validated = m.validated, !.setup = m.setup] = m
  <2> DEFINE a == [l EXCEPT !.validated = m.validated, !.setup = m.setup]
  <2>1. IsRecord(l) /\ IsRecord(m)
    BY <1>1, MemoriesAre, Zenon DEF IsRecord
  <2>2. /\ IsRecord(a) /\ a.validated = m.validated /\ a.setup = m.setup
        /\ \A f \in Fields \ {"validated", "setup"} : a[f] = l[f]
    BY <2>1 DEF IsRecord, Fields
  <2> HIDE DEF a
  <2>3. \A f \in Fields : a[f] = m[f]
    BY <1>2, <1>4, <2>2 DEF Fields
  <2>4. a = m
    BY <2>1, <2>2, <2>3, Zenon DEF IsRecord
  <2>5. QED
    BY <2>4 DEF a
<1>6. m.validated => l.validated
  <2>1. SUFFICES ASSUME m.validated PROVE l.validated
    OBVIOUS
  <2>2. m.direct /\ m.accepted = [ptt |-> m.ptt, key |-> m.key]
    BY <2>1 DEF Proper, Config
  <2>3. /\ Was(kept, "direct")
        /\ AcceptedWas(kept) = [ptt |-> PttWas(kept), key |-> KeyWas(kept)]
    BY <2>2, Zenon DEF LoadsAs
  <2>4. QED
    BY <2>3, Zenon DEF LoadedFrom
<1>7. QED
  BY <1>5, <1>6 DEF ComesBackAs

(* The reference lines keep the acceptance record and offer nothing.       *)
LEMMA ReferenceIsSound ==
  ASSUME NEW m, NEW measured, m \in Memories, m.accepted \in measured \cup {NoConfig},
         m.type = 1 => m.device # NoDevice, NEW w, w = WithReferenceDefaults(m)
  PROVE  /\ Proper(w, measured)
         /\ ~w.validated
         /\ \A f \in Fields \ {"validated", "ptt", "key"} : w[f] = m[f]
<1>1. w = [m EXCEPT !.validated = FALSE, !.ptt = "rts", !.key = "dtr"]
  BY DEF WithReferenceDefaults
<1>2. w \in Memories
  BY <1>1 DEF Memories, Lines
<1>3. ~w.validated /\ \A f \in Fields \ {"validated", "ptt", "key"} : w[f] = m[f]
  BY <1>1 DEF Memories, Fields
<1>4. w.accepted = m.accepted /\ w.type = m.type /\ w.device = m.device
  BY <1>3 DEF Fields
<1>5. QED
  BY <1>2, <1>3, <1>4 DEF Proper

(* The settings a process starts with.                                     *)
LEMMA FreshIsSound ==
  ASSUME NEW measured
  PROVE  /\ Proper(WithReferenceDefaults(Fresh), measured)
         /\ Guards(WithReferenceDefaults(Fresh), 1)
<1>1. Fresh \in Memories
  BY ProfilesAssumption DEF Fresh, Memories, Lines, SourceModes, RawFps, FpsHigh
<1>2. /\ Fresh.accepted = NoConfig /\ Fresh.type = 0 /\ ~Fresh.diag /\ ~Fresh.cluster
      /\ Fresh.server = 0
  BY DEF Fresh
<1> DEFINE w == WithReferenceDefaults(Fresh)
<1>3. /\ Proper(w, measured)
      /\ \A f \in Fields \ {"validated", "ptt", "key"} : w[f] = Fresh[f]
  BY <1>1, <1>2, ReferenceIsSound
<1> HIDE DEF w
<1>4. w.diag = Fresh.diag /\ w.cluster = Fresh.cluster /\ w.server = Fresh.server
  BY <1>3 DEF Fields
<1>5. Guards(w, 1)
  BY <1>2, <1>4 DEF Guards
<1>6. QED
  BY <1>3, <1>5 DEF w

(* What the parts of a reset leave.                                        *)
ReceptionPart(m, input, type, via, unit) ==
  [m EXCEPT !.setup = FALSE, !.input = input, !.type = type, !.source = via, !.device = unit]
StationPart(a, mode, fps) ==
  [a EXCEPT !.call = FALSE, !.radio = FALSE, !.txMode = mode, !.direct = FALSE,
            !.validated = FALSE, !.fps = fps]
ServicesPart(b, first) ==
  [b EXCEPT !.cluster = FALSE, !.server = first, !.diag = FALSE, !.token = FALSE, !.open = FALSE]

LEMMA ReceptionPartIs ==
  ASSUME NEW m \in Memories, NEW input \in Inputs, NEW type \in 0..1, NEW via \in SourceModes,
         NEW unit \in SdrDevices \cup {NoDevice},
         NEW a, a = ReceptionPart(m, input, type, via, unit)
  PROVE  a \in Memories /\ a.type = type /\ a.accepted = m.accepted
  BY DEF Memories, ReceptionPart

LEMMA StationPartIs ==
  ASSUME NEW a \in Memories, NEW mode \in {"CW", "CW-R"}, NEW fps \in RawFps,
         NEW b, b = StationPart(a, mode, fps)
  PROVE  b \in Memories /\ b.type = a.type /\ b.accepted = a.accepted
  BY DEF Memories, StationPart

LEMMA ServicesPartIs ==
  ASSUME NEW b \in Memories, NEW first \in Int,
         NEW c, c = ServicesPart(b, first)
  PROVE  /\ c \in Memories /\ c.type = b.type /\ c.accepted = b.accepted
         /\ ~c.diag /\ ~c.cluster /\ c.server = first
  BY DEF Memories, ServicesPart

(* The settings a new profile starts with.                                 *)
LEMMA ResetIsSound ==
  ASSUME NEW m \in Memories, NEW measured, m.accepted \in measured \cup {NoConfig},
         servers \in Nat
  PROVE  Proper(InMemoryReset(m), measured) /\ Guards(InMemoryReset(m), servers)
<1> DEFINE a == ResetReception(m)
           b == ResetStation(a)
           c == ResetServices(b)
           w == WithReferenceDefaults(c)
           first == ServerOrFirst(0, servers)
<1>a. a = [m EXCEPT !.setup = FALSE, !.input = "default", !.type = 0, !.source = 0,
                    !.device = NoDevice]
  BY DEF ResetReception
<1> HIDE DEF a
<1>1. a \in Memories /\ a.type = 0 /\ a.accepted = m.accepted
  <2>1. 0 \in SourceModes /\ "default" \in Inputs
    BY ProfilesAssumption DEF SourceModes
  <2> DEFINE input == "default"
             zero == 0
             unit == NoDevice
  <2>2. a = ReceptionPart(m, input, zero, zero, unit)
    BY <1>a DEF ReceptionPart
  <2>3. /\ input \in Inputs /\ zero \in 0..1 /\ zero \in SourceModes
        /\ unit \in SdrDevices \cup {NoDevice}
    BY <2>1
  <2> HIDE DEF input, zero, unit
  <2>4. a \in Memories /\ a.type = zero /\ a.accepted = m.accepted
    BY <2>2, <2>3, ReceptionPartIs
  <2>5. QED
    BY <2>4 DEF zero
<1>b. b = [a EXCEPT !.call = FALSE, !.radio = FALSE, !.txMode = "CW", !.direct = FALSE,
                    !.validated = FALSE, !.fps = FpsHigh]
  BY DEF ResetStation
<1> HIDE DEF b
<1>2. b \in Memories /\ b.type = 0 /\ b.accepted = a.accepted
  <2> DEFINE mode == "CW"
  <2>1. FpsHigh \in RawFps /\ mode \in {"CW", "CW-R"}
    BY DEF RawFps, FpsHigh
  <2>2. b = StationPart(a, mode, FpsHigh)
    BY <1>b DEF StationPart
  <2> HIDE DEF mode
  <2>3. b \in Memories /\ b.type = a.type /\ b.accepted = a.accepted
    BY <2>1, <2>2, <1>1, StationPartIs
  <2>4. QED
    BY <1>1, <2>3
<1>3. first \in Int /\ (first = Custom \/ first \in 0..servers - 1)
  BY ServerIsListed
<1>4. c = ServicesPart(b, first)
  BY DEF ResetServices, ServicesPart
<1> HIDE DEF first, c
<1>5. /\ c \in Memories /\ c.type = 0 /\ c.accepted = b.accepted
      /\ ~c.diag /\ ~c.cluster /\ c.server = first
  <2>1. /\ c \in Memories /\ c.type = b.type /\ c.accepted = b.accepted
        /\ ~c.diag /\ ~c.cluster /\ c.server = first
    BY <1>2, <1>3, <1>4, ServicesPartIs
  <2>2. QED
    BY <1>2, <2>1
<1>6. c.accepted \in measured \cup {NoConfig}
  BY <1>1, <1>2, <1>5
<1>7. Proper(w, measured) /\ \A f \in Fields \ {"validated", "ptt", "key"} : w[f] = c[f]
  BY <1>5, <1>6, ReferenceIsSound
<1> HIDE DEF w
<1>8. w.diag = c.diag /\ w.cluster = c.cluster /\ w.server = c.server
  BY <1>7 DEF Fields
<1>9. Guards(w, servers)
  BY <1>3, <1>5, <1>8 DEF Guards
<1>10. InMemoryReset(m) = w
  BY Zenon DEF InMemoryReset, w, c, b, a
<1>11. QED
  BY <1>7, <1>9, <1>10

(* What Apply makes of the settings is well-formed and guarded.            *)
LEMMA NormalizedIsSound ==
  ASSUME NEW m, NEW measured, Proper(m, measured), servers \in Nat,
         scan.listed \subseteq SdrDevices
  PROVE  Proper(Normalized(m), measured) /\ Guards(Normalized(m), servers)
<1> DEFINE a == NormalizedReception(m)
           b == NormalizedDisplay(a)
           in == (b.cluster /\ b.call)
           on == (b.diag /\ ~Unguarded(b))
           index == ServerOrFirst(b.server, servers)
           c == NormalizedServices(b)
<1>0. Normalized(m) = c
  BY Zenon DEF Normalized
<1>1. m \in Memories
  BY DEF Proper
<1>2. /\ a \in Memories /\ (a.type = 1 => m.type = 1)
      /\ \A f \in Fields \ {"type"} : a[f] = m[f]
  BY <1>1 DEF NormalizedReception, Memories, Fields
<1> HIDE DEF a
<1>3. b \in Memories /\ \A f \in Fields \ {"fps"} : b[f] = a[f]
  BY <1>2 DEF NormalizedDisplay, Memories, Fields, RawFps, FpsLow, FpsHigh
<1> HIDE DEF b
<1>4. index \in Int /\ (index = Custom \/ index \in 0..servers - 1)
  <2>1. b.server \in Int
    BY <1>3 DEF Memories
  <2>2. QED
    BY <2>1, ServerIsListed
<1>5. in \in BOOLEAN /\ on \in BOOLEAN /\ (in => b.call) /\ (on => ~Unguarded(b))
  OBVIOUS
<1>6. c = [b EXCEPT !.server = index, !.cluster = in, !.diag = on]
  BY DEF NormalizedServices
<1> HIDE DEF in, on, index, c
<1>7. /\ c \in Memories /\ c.server = index /\ c.cluster = in /\ c.diag = on
      /\ \A f \in Fields \ {"server", "cluster", "diag"} : c[f] = b[f]
  BY <1>3, <1>4, <1>5, <1>6 DEF Memories, Fields
<1>8. /\ c.validated = m.validated /\ c.direct = m.direct /\ c.accepted = m.accepted
      /\ c.ptt = m.ptt /\ c.key = m.key /\ c.type = a.type /\ c.device = m.device
      /\ c.call = b.call /\ c.open = b.open /\ c.token = b.token
  BY <1>2, <1>3, <1>7 DEF Fields
<1>9. Proper(c, measured)
  BY <1>2, <1>7, <1>8 DEF Proper, Config
<1>10. Guards(c, servers)
  <2>1. c.diag => ~Unguarded(c)
    BY <1>5, <1>7, <1>8, Zenon DEF Unguarded
  <2>2. c.cluster => c.call
    BY <1>5, <1>7, <1>8, Zenon
  <2>3. QED
    BY <1>4, <1>7, <2>1, <2>2 DEF Guards
<1>11. QED
  BY <1>0, <1>9, <1>10

(* After Apply the stored keys agree with memory.                          *)
LEMMA AppliedIsStored ==
  ASSUME NEW m, NEW measured, NEW n \in Nat, NEW kept, NEW after, after = Over(Stored(m), kept),
         Proper(m, measured), Guards(m, n), ProperlyStored(kept, measured)
  PROVE  ProperlyStored(after, measured) /\ LoadsAs(after, n, m) /\ RadioWas(after) = m.radio
<1> DEFINE values == Stored(m)
<1>1. /\ \A f \in StoredFields : f \in DOMAIN values /\ values[f] = m[f]
      /\ "setup" \notin DOMAIN values
  BY StoredIs DEF StoredFields
<1>2. after = Over(values, kept)
  OBVIOUS
<1> HIDE DEF values
<1>3. /\ \A key \in StoredFields : Was(after, key) = m[key]
      /\ Was(after, "setup") = Was(kept, "setup")
  <2>1. \A key : Was(after, key) = IF key \in DOMAIN values THEN values[key] ELSE Was(kept, key)
    BY <1>2, WrittenOver
  <2>2. QED
    BY <1>1, <2>1
<1>4. /\ Was(after, "call") = m.call /\ Was(after, "direct") = m.direct
      /\ Was(after, "cluster") = m.cluster /\ Was(after, "diag") = m.diag
      /\ Was(after, "token") = m.token /\ Was(after, "open") = m.open
  BY <1>3 DEF StoredFields, Fields
<1>5. /\ InputWas(after) = m.input /\ OutputWas(after) = m.output /\ TypeWas(after) = m.type
      /\ SourceWas(after) = m.source /\ DeviceWas(after) = m.device
  BY <1>1, <1>2, WrittenOver DEF StoredFields, Fields
<1>6. /\ ModeWas(after) = m.txMode /\ PttWas(after) = m.ptt /\ KeyWas(after) = m.key
      /\ AcceptedWas(after) = m.accepted /\ FpsWas(after) = m.fps
      /\ ServerWas(after) = m.server /\ RadioWas(after) = m.radio
  BY <1>1, <1>2, WrittenOver DEF StoredFields, Fields
<1>7. m \in Memories /\ m.accepted \in measured \cup {NoConfig} /\ (m.type = 1 => m.device # NoDevice)
  BY DEF Proper
<1>8. WellStored(after)
  <2>1. /\ m.input \in Inputs /\ m.output \in Outputs /\ m.type \in 0..1
        /\ m.source \in SourceModes /\ m.device \in SdrDevices \cup {NoDevice}
        /\ m.txMode \in {"CW", "CW-R"} /\ m.ptt \in Lines /\ m.key \in Lines
        /\ m.accepted \in Configs \cup {NoConfig} /\ m.fps \in RawFps /\ m.server \in Int
    BY <1>7 DEF Memories
  <2>2. /\ m.call \in BOOLEAN /\ m.radio \in BOOLEAN /\ m.direct \in BOOLEAN
        /\ m.cluster \in BOOLEAN /\ m.diag \in BOOLEAN /\ m.token \in BOOLEAN /\ m.open \in BOOLEAN
    BY <1>7 DEF Memories
  <2>3. Was(after, "setup") \in BOOLEAN
    BY <1>3 DEF ProperlyStored, WellStored
  <2>4. QED
    BY <1>4, <1>5, <1>6, <1>7, <2>1, <2>2, <2>3, Zenon DEF WellStored
<1>9. ServerOrFirst(ServerWas(after), n) = m.server
  <2>1. m.server \in Int /\ (m.server = Custom \/ m.server \in 0..n - 1)
    BY <1>7 DEF Memories, Guards
  <2>2. QED
    BY <1>6, <2>1, ServerIsListed
<1>10. /\ Was(after, "cluster") /\ Was(after, "call") <=> m.cluster
       /\ Was(after, "diag") /\ ~(Was(after, "open") /\ ~Was(after, "token")) <=> m.diag
  BY <1>4, Zenon DEF Guards, Unguarded
<1>11. LoadsAs(after, n, m)
  BY <1>4, <1>5, <1>6, <1>9, <1>10, Zenon DEF LoadsAs
<1>12. QED
  BY <1>6, <1>7, <1>8, <1>11, Zenon DEF ProperlyStored

(* The mark that the wizard was ended changes nothing else.                *)
LEMMA MarkIsStored ==
  ASSUME NEW m, NEW measured, NEW n \in Nat, NEW kept, NEW after,
         after = Over(Over([setup |-> TRUE], Stored(m)), kept),
         Proper(m, measured), Guards(m, n), ProperlyStored(kept, measured)
  PROVE  ProperlyStored(after, measured) /\ LoadsAs(after, n, m)
<1> DEFINE values == Stored(m)
           mark == [setup |-> TRUE]
           both == Over(mark, values)
           applied == Over(values, kept)
<1>1. ProperlyStored(applied, measured) /\ LoadsAs(applied, n, m) /\ RadioWas(applied) = m.radio
  BY AppliedIsStored
<1>2. /\ DOMAIN mark = {"setup"} /\ mark["setup"] \in BOOLEAN
      /\ "radio" \in DOMAIN values /\ values["radio"] = m.radio /\ "setup" \notin DOMAIN values
  BY StoredIs DEF StoredFields, Fields
<1>3. after = Over(mark, applied)
  <2>1. /\ DOMAIN both = DOMAIN mark \cup DOMAIN values
        /\ \A f \in DOMAIN both : both[f] = IF f \in DOMAIN mark THEN mark[f] ELSE values[f]
    BY DEF Over
  <2>2. /\ DOMAIN applied = DOMAIN values \cup DOMAIN kept
        /\ \A f \in DOMAIN applied : applied[f] = IF f \in DOMAIN values THEN values[f] ELSE kept[f]
    BY DEF Over
  <2>3. after = Over(both, kept)
    OBVIOUS
  <2> HIDE DEF mark, values, both, applied
  <2>4. QED
    BY <2>1, <2>2, <2>3 DEF Over
<1> HIDE DEF mark, values, both, applied
<1>4. /\ \A key : key # "setup" => Was(after, key) = Was(applied, key)
      /\ Was(after, "setup") \in BOOLEAN
  <2>1. \A key : Was(after, key) = IF key \in DOMAIN mark THEN mark[key] ELSE Was(applied, key)
    BY <1>3, WrittenOver
  <2>2. QED
    BY <1>2, <2>1
<1>5. /\ Was(after, "call") = Was(applied, "call") /\ Was(after, "direct") = Was(applied, "direct")
      /\ Was(after, "cluster") = Was(applied, "cluster") /\ Was(after, "diag") = Was(applied, "diag")
      /\ Was(after, "token") = Was(applied, "token") /\ Was(after, "open") = Was(applied, "open")
  BY <1>4
<1>6. /\ InputWas(after) = InputWas(applied) /\ OutputWas(after) = OutputWas(applied)
      /\ TypeWas(after) = TypeWas(applied) /\ SourceWas(after) = SourceWas(applied)
      /\ DeviceWas(after) = DeviceWas(applied)
  BY <1>2, <1>3, WrittenOver
<1>7. /\ ModeWas(after) = ModeWas(applied) /\ PttWas(after) = PttWas(applied)
      /\ KeyWas(after) = KeyWas(applied) /\ AcceptedWas(after) = AcceptedWas(applied)
      /\ FpsWas(after) = FpsWas(applied) /\ ServerWas(after) = ServerWas(applied)
  BY <1>2, <1>3, WrittenOver
<1>8. RadioWas(after) = RadioWas(applied)
  <2>1. "radio" \in DOMAIN after /\ after["radio"] = m.radio
    BY <1>2, <1>3 DEF Over, applied
  <2>2. RadioWas(after) = m.radio
    BY <2>1, Zenon DEF RadioWas, Value
  <2>3. QED
    BY <1>1, <2>2
<1>9. ProperlyStored(after, measured)
  BY <1>1, <1>4, <1>5, <1>6, <1>7, <1>8, ZenonT(60) DEF ProperlyStored, WellStored
<1>10. LoadsAs(after, n, m)
  BY <1>1, <1>5, <1>6, <1>7, <1>8, ZenonT(60) DEF LoadsAs
<1>11. QED
  BY <1>9, <1>10

(* Some keys written, of the type that is read of them.                     *)
Writable(values, measured) ==
  /\ DOMAIN values \subseteq {"input", "txMode", "source", "ptt", "key", "accepted",
                              "call", "cluster", "diag", "token", "open"}
  /\ "input" \in DOMAIN values => values["input"] \in Inputs
  /\ "txMode" \in DOMAIN values => values["txMode"] \in {"CW", "CW-R"}
  /\ "source" \in DOMAIN values => values["source"] \in SourceModes
  /\ "ptt" \in DOMAIN values => values["ptt"] \in Lines
  /\ "key" \in DOMAIN values => values["key"] \in Lines
  /\ "accepted" \in DOMAIN values => /\ values["accepted"] \in Configs \cup {NoConfig}
                                     /\ values["accepted"] \in measured \cup {NoConfig}
  /\ \A key \in {"call", "cluster", "diag", "token", "open"} :
       key \in DOMAIN values => values[key] \in BOOLEAN

(* Keys of the right type over well-formed ones.                           *)
LEMMA WrittenIsSound ==
  ASSUME NEW values, NEW measured, NEW kept, NEW after, after = Over(values, kept),
         Writable(values, measured), ProperlyStored(kept, measured)
  PROVE  ProperlyStored(after, measured)
<1>1. /\ \A key \in {"setup", "output", "type", "device", "radio", "direct", "fps", "server"} :
           key \notin DOMAIN values
  BY DEF Writable
<1>2. \A key : Was(after, key) = IF key \in DOMAIN values THEN values[key] ELSE Was(kept, key)
  BY WrittenOver
<1>3. /\ Was(after, "setup") \in BOOLEAN /\ Was(after, "direct") \in BOOLEAN
      /\ Was(after, "call") \in BOOLEAN /\ Was(after, "cluster") \in BOOLEAN
      /\ Was(after, "diag") \in BOOLEAN /\ Was(after, "token") \in BOOLEAN
      /\ Was(after, "open") \in BOOLEAN
  BY <1>1, <1>2 DEF ProperlyStored, WellStored, Writable
<1>4. /\ RadioWas(after) = RadioWas(kept) /\ OutputWas(after) = OutputWas(kept)
      /\ TypeWas(after) = TypeWas(kept) /\ DeviceWas(after) = DeviceWas(kept)
      /\ FpsWas(after) = FpsWas(kept) /\ ServerWas(after) = ServerWas(kept)
  BY <1>1, WrittenOver
<1>5. /\ InputWas(after) = IF "input" \in DOMAIN values THEN values["input"] ELSE InputWas(kept)
      /\ SourceWas(after) = IF "source" \in DOMAIN values THEN values["source"] ELSE SourceWas(kept)
      /\ ModeWas(after) = IF "txMode" \in DOMAIN values THEN values["txMode"] ELSE ModeWas(kept)
      /\ PttWas(after) = IF "ptt" \in DOMAIN values THEN values["ptt"] ELSE PttWas(kept)
      /\ KeyWas(after) = IF "key" \in DOMAIN values THEN values["key"] ELSE KeyWas(kept)
      /\ AcceptedWas(after) = IF "accepted" \in DOMAIN values THEN values["accepted"] ELSE AcceptedWas(kept)
  BY WrittenOver
<1>6. /\ InputWas(after) \in Inputs /\ SourceWas(after) \in SourceModes
      /\ ModeWas(after) \in {"CW", "CW-R"} /\ PttWas(after) \in Lines /\ KeyWas(after) \in Lines
  BY <1>5, Zenon DEF Writable, ProperlyStored, WellStored
<1>7. /\ AcceptedWas(after) \in Configs \cup {NoConfig}
      /\ AcceptedWas(after) \in measured \cup {NoConfig}
  BY <1>5, Zenon DEF Writable, ProperlyStored, WellStored
<1>8. QED
  BY <1>3, <1>4, <1>6, <1>7, ZenonT(60) DEF ProperlyStored, WellStored

(* Keys written with the fields they stand for keep the store in           *)
(* agreement.                                                              *)
LEMMA WrittenLoads ==
  ASSUME NEW values, NEW kept, NEW after, after = Over(values, kept), NEW n, NEW m, NEW w,
         DOMAIN values \subseteq {"input", "txMode", "source", "accepted"},
         \A f \in DOMAIN values : w[f] = values[f],
         \A f \in Fields : f \notin DOMAIN values /\ f # "validated" => w[f] = m[f],
         LoadsAs(kept, n, m)
  PROVE  LoadsAs(after, n, w)
<1>1. \A f \in {"setup", "output", "type", "device", "radio", "direct", "fps", "server", "ptt", "key",
                "call", "cluster", "diag", "token", "open"} : f \notin DOMAIN values /\ w[f] = m[f]
  BY DEF Fields
<1>2. \A key : Was(after, key) = IF key \in DOMAIN values THEN values[key] ELSE Was(kept, key)
  BY WrittenOver
<1>3. /\ Was(after, "direct") = Was(kept, "direct") /\ Was(after, "call") = Was(kept, "call")
      /\ Was(after, "cluster") = Was(kept, "cluster") /\ Was(after, "diag") = Was(kept, "diag")
      /\ Was(after, "token") = Was(kept, "token") /\ Was(after, "open") = Was(kept, "open")
  BY <1>1, <1>2
<1>4. /\ RadioWas(after) = RadioWas(kept) /\ OutputWas(after) = OutputWas(kept)
      /\ TypeWas(after) = TypeWas(kept) /\ DeviceWas(after) = DeviceWas(kept)
      /\ FpsWas(after) = FpsWas(kept) /\ ServerWas(after) = ServerWas(kept)
      /\ PttWas(after) = PttWas(kept) /\ KeyWas(after) = KeyWas(kept)
  BY <1>1, WrittenOver
<1>5. /\ InputWas(after) = IF "input" \in DOMAIN values THEN values["input"] ELSE InputWas(kept)
      /\ SourceWas(after) = IF "source" \in DOMAIN values THEN values["source"] ELSE SourceWas(kept)
      /\ ModeWas(after) = IF "txMode" \in DOMAIN values THEN values["txMode"] ELSE ModeWas(kept)
      /\ AcceptedWas(after) = IF "accepted" \in DOMAIN values THEN values["accepted"] ELSE AcceptedWas(kept)
  BY WrittenOver
<1>6. /\ InputWas(kept) = m.input /\ SourceWas(kept) = m.source /\ ModeWas(kept) = m.txMode
      /\ AcceptedWas(kept) = m.accepted
  BY Zenon DEF LoadsAs
<1>7. /\ InputWas(after) = w.input /\ SourceWas(after) = w.source /\ ModeWas(after) = w.txMode
      /\ AcceptedWas(after) = w.accepted
  BY <1>5, <1>6 DEF Fields
<1>8. /\ w.output = m.output /\ w.type = m.type /\ w.device = m.device /\ w.radio = m.radio
      /\ w.direct = m.direct /\ w.fps = m.fps /\ w.server = m.server /\ w.ptt = m.ptt
      /\ w.key = m.key /\ w.call = m.call /\ w.cluster = m.cluster /\ w.diag = m.diag
      /\ w.token = m.token /\ w.open = m.open
  BY <1>1
<1>9. QED
  BY <1>3, <1>4, <1>7, <1>8, ZenonT(60) DEF LoadsAs

AllStored(stores, measured) ==
  DOMAIN stores = Profiles /\ \A k \in Profiles : ProperlyStored(stores[k], measured)
Scans == [listed : SUBSET SdrDevices, running : BOOLEAN, pending : BOOLEAN, queued : BOOLEAN]
SettledTruly == disk[profile] = cache[profile] /\ LoadsAs(disk[profile], servers, memory)

(* The inductive invariant: memory and both copies of the store are well-  *)
(* formed and claim no acceptance that was not measured, and while         *)
(* everything is settled the file, the process and memory agree.           *)
ProfilesState ==
  /\ profile \in Profiles /\ source \in SourceModes /\ servers \in Nat
  /\ looped \subseteq Configs
  /\ scan \in Scans /\ RestoreIsAnswered
  /\ Proper(memory, looped) /\ Guards(memory, servers)
  /\ AllStored(cache, looped) /\ AllStored(disk, looped)
  /\ settled => SettledTruly

(* A write to the keys of one profile leaves the others.                   *)
LEMMA PutIsSound ==
  ASSUME NEW k \in Profiles, NEW values, NEW measured, AllStored(cache, measured),
         ProperlyStored(Over(values, cache[k]), measured)
  PROVE  AllStored(Put(k, values), measured) /\ Put(k, values)[k] = Over(values, cache[k])
<1> DEFINE written == Over(values, cache[k])
<1>1. Put(k, values) = [cache EXCEPT ![k] = written]
  BY DEF Put
<1> HIDE DEF written
<1>2. DOMAIN cache = Profiles
  BY DEF AllStored
<1>3. /\ DOMAIN Put(k, values) = Profiles
      /\ \A j \in Profiles : Put(k, values)[j] = IF j = k THEN written ELSE cache[j]
  BY <1>1, <1>2
<1>4. ProperlyStored(written, measured)
  BY DEF written
<1>5. QED
  BY <1>3, <1>4 DEF AllStored, written

(* What was measured once stays measured.                                  *)
LEMMA MoreMeasured ==
  ASSUME NEW measured, NEW more, measured \subseteq more
  PROVE  /\ \A m : Proper(m, measured) => Proper(m, more)
         /\ \A kept : ProperlyStored(kept, measured) => ProperlyStored(kept, more)
         /\ \A stores : AllStored(stores, measured) => AllStored(stores, more)
<1>1. \A m : Proper(m, measured) => Proper(m, more)
  BY DEF Proper
<1>2. \A kept : ProperlyStored(kept, measured) => ProperlyStored(kept, more)
  BY DEF ProperlyStored
<1>3. QED
  BY <1>1, <1>2 DEF AllStored

(* A write of the file succeeds or leaves the file as it was.              *)
LEMMA FlushIsSound ==
  ASSUME NEW c, NEW ok \in BOOLEAN, NEW measured, Flush(c, ok), AllStored(c, measured),
         AllStored(disk, measured)
  PROVE  AllStored(cache', measured) /\ AllStored(disk', measured) /\ (ok => disk' = c /\ cache' = c)
BY DEF Flush

(* A change that waits for Apply.                                          *)
LEMMA EditStep ==
  ASSUME ProfilesState, NEW m, Edit(m), Proper(m, looped), Guards(m, servers)
  PROVE  ProfilesState'
<1>1. /\ memory' = m /\ ~settled' /\ cache' = cache /\ disk' = disk
      /\ profile' = profile /\ source' = source /\ scan' = scan /\ servers' = servers
      /\ looped' = looped
  BY DEF Edit, NoFlush
<1>2. QED
  BY <1>1 DEF ProfilesState, RestoreIsAnswered

(* A change that is stored at once. *)
(* The keys that are written are the fields that were changed.             *)
WrittenAs(values, m, w) ==
  /\ DOMAIN values \subseteq {"input", "txMode", "source", "accepted"}
  /\ \A f \in DOMAIN values : w[f] = values[f]
  /\ \A f \in Fields : f \notin DOMAIN values /\ f # "validated" => w[f] = m[f]

(* A write-through of some keys, whether the file was written or not.      *)
LEMMA StoredAtOnce ==
  ASSUME ProfilesState, NEW values, NEW ok \in BOOLEAN, NEW measured, looped \subseteq measured,
         Writable(values, measured), Flush(Put(profile, values), ok)
  PROVE  /\ AllStored(cache', measured) /\ AllStored(disk', measured)
         /\ ok => /\ disk' = cache'
                  /\ disk'[profile] = Over(values, cache[profile])
<1> DEFINE written == Over(values, cache[profile])
           c == Put(profile, values)
<1>1. /\ profile \in Profiles /\ AllStored(cache, measured) /\ AllStored(disk, measured)
  BY MoreMeasured DEF ProfilesState
<1>2. ProperlyStored(cache[profile], measured)
  BY <1>1 DEF AllStored
<1>3. ProperlyStored(written, measured)
  BY <1>2, WrittenIsSound
<1>4. AllStored(c, measured) /\ c[profile] = written
  BY <1>1, <1>3, PutIsSound
<1> HIDE DEF written, c
<1>5. Flush(c, ok)
  BY DEF c
<1>6. AllStored(cache', measured) /\ AllStored(disk', measured) /\ (ok => disk' = c /\ cache' = c)
  BY <1>1, <1>4, <1>5, FlushIsSound
<1>7. QED
  BY <1>4, <1>6 DEF written

(* A change that is stored at once.                                        *)
LEMMA WriteThroughStep ==
  ASSUME ProfilesState, NEW m, NEW values, WriteThrough(m, values), Proper(m, looped),
         Guards(m, servers), Writable(values, looped), WrittenAs(values, memory, m)
  PROVE  ProfilesState'
<1>1. /\ memory' = m
      /\ profile' = profile /\ source' = source /\ scan' = scan /\ servers' = servers
      /\ looped' = looped
  BY DEF WriteThrough
<1>2. PICK ok \in BOOLEAN : Flush(Put(profile, values), ok) /\ settled' = (settled /\ ok)
  BY DEF WriteThrough
<1>3. /\ AllStored(cache', looped) /\ AllStored(disk', looped)
      /\ ok => disk' = cache' /\ disk'[profile] = Over(values, cache[profile])
  BY <1>2, StoredAtOnce
<1>4. settled' => settled /\ ok
  BY <1>2
<1>5. settled /\ ok => LoadsAs(disk'[profile], servers, m)
  <2>1. SUFFICES ASSUME settled, ok PROVE LoadsAs(disk'[profile], servers, m)
    OBVIOUS
  <2>2. LoadsAs(cache[profile], servers, memory)
    BY <2>1, Zenon DEF ProfilesState, SettledTruly
  <2>3. QED
    BY <1>3, <2>1, <2>2, WrittenLoads DEF WrittenAs
<1>6. settled' => SettledTruly'
  BY <1>1, <1>3, <1>4, <1>5 DEF SettledTruly
<1>7. QED
  BY <1>1, <1>3, <1>6 DEF ProfilesState, RestoreIsAnswered

(* Another preferred source changes nothing that is guarded.               *)
LEMMA WithSource ==
  ASSUME NEW m, NEW measured, NEW n, NEW mode \in SourceModes, NEW w,
         w = [m EXCEPT !.source = mode], Proper(m, measured), Guards(m, n)
  PROVE  /\ Proper(w, measured) /\ Guards(w, n)
         /\ w.source = mode /\ WrittenAs([source |-> mode], m, w)
         /\ Writable([source |-> mode], measured)
<1>1. m \in Memories
  BY DEF Proper
<1>2. w \in Memories
  BY <1>1 DEF Memories
<1>3. w.source = mode /\ \A f \in Fields \ {"source"} : w[f] = m[f]
  BY <1>1 DEF Memories, Fields
<1>4. /\ w.validated = m.validated /\ w.direct = m.direct /\ w.accepted = m.accepted
      /\ w.ptt = m.ptt /\ w.key = m.key /\ w.type = m.type /\ w.device = m.device
      /\ w.diag = m.diag /\ w.open = m.open /\ w.token = m.token /\ w.cluster = m.cluster
      /\ w.call = m.call /\ w.server = m.server
  BY <1>3 DEF Fields
<1>5. Proper(w, measured)
  BY <1>2, <1>4 DEF Proper, Config
<1>6. Guards(w, n)
  BY <1>4 DEF Guards, Unguarded
<1> DEFINE values == [source |-> mode]
<1>7. DOMAIN values = {"source"} /\ values["source"] = mode
  OBVIOUS
<1> HIDE DEF values
<1>8. WrittenAs(values, m, w)
  BY <1>3, <1>7 DEF WrittenAs
<1>9. Writable(values, measured)
  BY <1>7 DEF Writable
<1>10. QED
  BY <1>3, <1>5, <1>6, <1>8, <1>9 DEF values

(* A change of the mode of the controller, which is stored.                *)
LEMMA SetSourceModeStep ==
  ASSUME ProfilesState, NEW m, NEW mode \in SourceModes, NEW isSettled,
         SetSourceMode(m, mode, isSettled), Proper(m, looped), Guards(m, servers),
         isSettled => disk[profile] = cache[profile] /\ LoadsAs(disk[profile], servers, m),
         profile' = profile, servers' = servers, looped' = looped,
         scan' \in Scans, RestoreIsAnswered'
  PROVE  ProfilesState'
<1> DEFINE w == [m EXCEPT !.source = mode]
           values == [source |-> mode]
<1>1. m \in Memories
  BY DEF Proper
<1>2. /\ Proper(w, looped) /\ Guards(w, servers) /\ w.source = mode
      /\ WrittenAs(values, m, w) /\ Writable(values, looped)
  BY WithSource
<1>3. m.source = mode => w = m
  BY <1>1 DEF Memories
<1>4. source' = mode
  BY DEF SetSourceMode
<1>5. CASE mode = source \/ mode = m.source
  <2>1. /\ memory' = m /\ cache' = cache /\ disk' = disk /\ (settled' => isSettled)
    BY <1>2, <1>3, <1>5 DEF SetSourceMode, NoFlush
  <2>2. settled' => SettledTruly'
    BY <2>1 DEF SettledTruly
  <2>3. QED
    BY <1>4, <2>1, <2>2 DEF ProfilesState
<1>6. CASE mode # source /\ mode # m.source
  <2>1. PICK ok \in BOOLEAN : Flush(Put(profile, values), ok) /\ (settled' => isSettled /\ ok)
    BY <1>2, <1>6 DEF SetSourceMode
  <2>2. memory' = w
    BY <1>6 DEF SetSourceMode
  <2> HIDE DEF w, values
  <2>3. /\ AllStored(cache', looped) /\ AllStored(disk', looped)
        /\ ok => disk' = cache' /\ disk'[profile] = Over(values, cache[profile])
    BY <1>2, <2>1, StoredAtOnce
  <2>4. isSettled /\ ok => LoadsAs(disk'[profile], servers, w)
    <3>1. SUFFICES ASSUME isSettled, ok PROVE LoadsAs(disk'[profile], servers, w)
      OBVIOUS
    <3>2. LoadsAs(cache[profile], servers, m)
      BY <3>1, Zenon
    <3>3. QED
      BY <1>2, <2>3, <3>1, <3>2, WrittenLoads DEF WrittenAs
  <2>5. settled' => SettledTruly'
    BY <2>1, <2>2, <2>3, <2>4 DEF SettledTruly
  <2>6. QED
    BY <1>2, <1>4, <2>2, <2>3, <2>5 DEF ProfilesState
<1>7. QED
  BY <1>5, <1>6

(* What an edit left as it was.                                            *)
SameKeying(w, m) ==
  /\ w.validated = m.validated /\ w.direct = m.direct /\ w.accepted = m.accepted
  /\ w.ptt = m.ptt /\ w.key = m.key /\ w.type = m.type /\ w.device = m.device
SameServices(w, m) ==
  /\ w.diag = m.diag /\ w.open = m.open /\ w.token = m.token
  /\ w.cluster = m.cluster /\ w.call = m.call /\ w.server = m.server

(* Fields of keying and of the receiver that stay as they were.            *)
LEMMA SameIsSound ==
  ASSUME NEW w \in Memories, NEW m, NEW measured, SameKeying(w, m), Proper(m, measured)
  PROVE  Proper(w, measured)
BY DEF SameKeying, Proper, Config

(* Fields of the network services that stay as they were.                  *)
LEMMA SameIsGuarded ==
  ASSUME NEW w, NEW m, NEW n, SameServices(w, m), Guards(m, n)
  PROVE  Guards(w, n)
BY DEF SameServices, Guards, Unguarded

(* An edit of a field that nothing is guarded by.                          *)
LEMMA NothingMeasured ==
  ASSUME ProfilesState, NEW w \in Memories, SameServices(w, memory), Edit(w),
         SameKeying(w, memory)
  PROVE  ProfilesState'
<1>1. Proper(w, looped) /\ Guards(w, servers)
  BY SameIsSound, SameIsGuarded DEF ProfilesState
<1>2. QED
  BY <1>1, EditStep

(* The settings in memory are well-formed.                                 *)
LEMMA MemoryIs ==
  ASSUME ProfilesState
  PROVE  memory \in Memories
BY DEF ProfilesState, Proper

(* Edits on the pages of sound, display and radio.                         *)
LEMMA SoundEdits ==
  ASSUME ProfilesState, SelectAudioInput \/ SelectAudioOutput \/ SetTargetFps \/ SetRadioEnabled
  PROVE  ProfilesState'
<1>1. memory \in Memories
  BY MemoryIs
<1>2. CASE SelectAudioInput
  <2>1. PICK v \in Inputs : Edit([memory EXCEPT !.input = v])
    BY <1>2 DEF SelectAudioInput
  <2> DEFINE w == [memory EXCEPT !.input = v]
  <2>2. w \in Memories
    BY <1>1 DEF Memories
  <2>3. SameKeying(w, memory) /\ SameServices(w, memory)
    BY <1>1 DEF Memories, SameKeying, SameServices
  <2>4. Edit(w)
    BY <2>1
  <2> HIDE DEF w
  <2>5. QED
    BY <2>2, <2>3, <2>4, NothingMeasured
<1>3. CASE SelectAudioOutput
  <2>1. PICK v \in Outputs : Edit([memory EXCEPT !.output = v])
    BY <1>3 DEF SelectAudioOutput
  <2> DEFINE w == [memory EXCEPT !.output = v]
  <2>2. w \in Memories
    BY <1>1 DEF Memories
  <2>3. SameKeying(w, memory) /\ SameServices(w, memory)
    BY <1>1 DEF Memories, SameKeying, SameServices
  <2>4. Edit(w)
    BY <2>1
  <2> HIDE DEF w
  <2>5. QED
    BY <2>2, <2>3, <2>4, NothingMeasured
<1>4. CASE SetTargetFps
  <2>1. PICK v \in RawFps : Edit([memory EXCEPT !.fps = v])
    BY <1>4 DEF SetTargetFps
  <2> DEFINE w == [memory EXCEPT !.fps = v]
  <2>2. w \in Memories
    BY <1>1 DEF Memories
  <2>3. SameKeying(w, memory) /\ SameServices(w, memory)
    BY <1>1 DEF Memories, SameKeying, SameServices
  <2>4. Edit(w)
    BY <2>1
  <2> HIDE DEF w
  <2>5. QED
    BY <2>2, <2>3, <2>4, NothingMeasured
<1>5. CASE SetRadioEnabled
  <2>1. PICK v \in BOOLEAN : Edit([memory EXCEPT !.radio = v])
    BY <1>5 DEF SetRadioEnabled
  <2> DEFINE w == [memory EXCEPT !.radio = v]
  <2>2. w \in Memories
    BY <1>1 DEF Memories
  <2>3. SameKeying(w, memory) /\ SameServices(w, memory)
    BY <1>1 DEF Memories, SameKeying, SameServices
  <2>4. Edit(w)
    BY <2>1
  <2> HIDE DEF w
  <2>5. QED
    BY <2>2, <2>3, <2>4, NothingMeasured
<1>6. QED
  BY <1>2, <1>3, <1>4, <1>5

(* Another receiver, one that was found.                                   *)
LEMMA DeviceSelected ==
  ASSUME ProfilesState, SelectSdrDevice
  PROVE  ProfilesState'
<1>1. memory \in Memories /\ scan \in Scans /\ Proper(memory, looped) /\ Guards(memory, servers)
  BY MemoryIs DEF ProfilesState
<1>2. PICK v \in scan.listed : Edit([memory EXCEPT !.device = v])
  BY DEF SelectSdrDevice
<1>3. v \in SdrDevices /\ v # NoDevice
  BY <1>1, <1>2, ProfilesAssumption DEF Scans
<1> DEFINE w == [memory EXCEPT !.device = v]
<1>4. w \in Memories
  BY <1>1, <1>3 DEF Memories
<1>5. /\ w.validated = memory.validated /\ w.direct = memory.direct
      /\ w.accepted = memory.accepted /\ w.ptt = memory.ptt /\ w.key = memory.key
      /\ w.device = v
  BY <1>1 DEF Memories
<1>6. SameServices(w, memory)
  BY <1>1 DEF Memories, SameServices
<1>7. Edit(w)
  BY <1>2
<1> HIDE DEF w
<1>8. Proper(w, looped)
  BY <1>1, <1>3, <1>4, <1>5 DEF Proper, Config
<1>9. QED
  BY <1>1, <1>6, <1>7, <1>8, SameIsGuarded, EditStep

(* A change of what was measured takes the acceptance away.                *)
LEMMA UnacceptedStep ==
  ASSUME ProfilesState, NEW m \in Memories, SameServices(m, memory), m.type = memory.type,
         m.device = memory.device, Edit(Unaccepted(m))
  PROVE  ProfilesState'
<1> DEFINE w == Unaccepted(m)
<1>1. w = [m EXCEPT !.validated = FALSE, !.accepted = NoConfig]
  BY DEF Unaccepted
<1> HIDE DEF w
<1>2. w \in Memories
  BY <1>1 DEF Memories
<1>3. ~w.validated /\ w.accepted = NoConfig /\ w.type = m.type /\ w.device = m.device
  BY <1>1 DEF Memories
<1>4. SameServices(w, m)
  BY <1>1 DEF Memories, SameServices
<1>5. Proper(memory, looped) /\ Guards(memory, servers)
  BY DEF ProfilesState
<1>6. Proper(w, looped)
  BY <1>2, <1>3, <1>5 DEF Proper
<1>7. Guards(w, servers)
  BY <1>4, <1>5, SameIsGuarded
<1>8. Edit(w)
  BY DEF w
<1>9. QED
  BY <1>6, <1>7, <1>8, EditStep

(* Direct keying switched, a line changed, the reference lines restored.   *)
LEMMA KeyingChanged ==
  ASSUME ProfilesState, SetDirectKeyingEnabled \/ SetLineIndex \/ ResetToReferenceDefaults
  PROVE  ProfilesState'
<1>1. memory \in Memories
  BY MemoryIs
<1>2. CASE SetDirectKeyingEnabled
  <2> DEFINE other == ~memory.direct
             m == [memory EXCEPT !.direct = ~@]
  <2>a. other \in BOOLEAN /\ m = [memory EXCEPT !.direct = other]
    OBVIOUS
  <2> HIDE DEF other
  <2>1. m \in Memories
    <3> HIDE DEF m
    <3>1. QED
      BY <1>1, <2>a DEF Memories
  <2>2. SameServices(m, memory) /\ m.type = memory.type /\ m.device = memory.device
    BY <1>1 DEF Memories, SameServices
  <2>3. Edit(Unaccepted(m))
    BY <1>2, Zenon DEF SetDirectKeyingEnabled
  <2> HIDE DEF m
  <2>4. QED
    BY <2>1, <2>2, <2>3, UnacceptedStep
<1>3. CASE SetLineIndex
  <2>1. PICK m \in {[memory EXCEPT !.ptt = line] : line \in Lines}
                     \cup {[memory EXCEPT !.key = line] : line \in Lines} : Edit(Unaccepted(m))
    BY <1>3, Zenon DEF SetLineIndex
  <2>2. PICK line \in Lines : m = [memory EXCEPT !.ptt = line] \/ m = [memory EXCEPT !.key = line]
    OBVIOUS
  <2>3. m \in Memories
    BY <1>1, <2>2 DEF Memories
  <2>4. SameServices(m, memory) /\ m.type = memory.type /\ m.device = memory.device
    BY <1>1, <2>2 DEF Memories, SameServices
  <2>5. QED
    BY <2>1, <2>3, <2>4, UnacceptedStep
<1>4. CASE ResetToReferenceDefaults
  <2> DEFINE w == WithReferenceDefaults(memory)
  <2>1. Edit(w)
    BY <1>4 DEF ResetToReferenceDefaults
  <2>2. /\ memory.accepted \in looped \cup {NoConfig}
        /\ memory.type = 1 => memory.device # NoDevice
        /\ Guards(memory, servers)
    BY DEF ProfilesState, Proper
  <2>3. /\ Proper(w, looped)
        /\ \A f \in Fields \ {"validated", "ptt", "key"} : w[f] = memory[f]
    BY <1>1, <2>2, ReferenceIsSound
  <2> HIDE DEF w
  <2>4. SameServices(w, memory)
    BY <2>3 DEF SameServices, Fields
  <2>5. QED
    BY <2>1, <2>2, <2>3, <2>4, SameIsGuarded, EditStep
<1>5. QED
  BY <1>2, <1>3, <1>4

(* The recovered input device and the transmit mode are stored at once.    *)
LEMMA WrittenAtOnce ==
  ASSUME ProfilesState, AdoptRecoveredAudioInput \/ ToggleControlledTxMode
  PROVE  ProfilesState'
<1>1. memory \in Memories /\ Proper(memory, looped) /\ Guards(memory, servers)
  BY MemoryIs DEF ProfilesState
<1>2. CASE AdoptRecoveredAudioInput
  <2>1. PICK v \in Inputs \ {"default"} : WriteThrough([memory EXCEPT !.input = v], [input |-> v])
    BY <1>2 DEF AdoptRecoveredAudioInput
  <2> DEFINE w == [memory EXCEPT !.input = v]
             values == [input |-> v]
  <2>2. w \in Memories /\ w.input = v /\ \A f \in Fields \ {"input"} : w[f] = memory[f]
    BY <1>1 DEF Memories, Fields
  <2>3. DOMAIN values = {"input"} /\ values["input"] = v
    OBVIOUS
  <2>4. WriteThrough(w, values)
    BY <2>1
  <2> HIDE DEF w, values
  <2>5. WrittenAs(values, memory, w) /\ Writable(values, looped)
    BY <2>2, <2>3 DEF WrittenAs, Writable
  <2>6. SameKeying(w, memory) /\ SameServices(w, memory)
    BY <2>2 DEF SameKeying, SameServices, Fields
  <2>7. Proper(w, looped) /\ Guards(w, servers)
    BY <1>1, <2>2, <2>6, SameIsSound, SameIsGuarded
  <2>8. QED
    BY <2>4, <2>5, <2>7, WriteThroughStep
<1>3. CASE ToggleControlledTxMode
  <2> DEFINE v == IF memory.txMode = "CW" THEN "CW-R" ELSE "CW"
             w == [memory EXCEPT !.txMode = v]
             values == [txMode |-> v]
  <2>1. WriteThrough(w, values)
    BY <1>3 DEF ToggleControlledTxMode
  <2>a. v \in {"CW", "CW-R"}
    OBVIOUS
  <2> HIDE DEF v
  <2>2. w \in Memories /\ w.txMode = v /\ \A f \in Fields \ {"txMode"} : w[f] = memory[f]
    BY <1>1, <2>a DEF Memories, Fields
  <2>3. DOMAIN values = {"txMode"} /\ values["txMode"] = v
    OBVIOUS
  <2> HIDE DEF w, values
  <2>5. WrittenAs(values, memory, w) /\ Writable(values, looped)
    BY <2>a, <2>2, <2>3 DEF WrittenAs, Writable
  <2>6. SameKeying(w, memory) /\ SameServices(w, memory)
    BY <2>2 DEF SameKeying, SameServices, Fields
  <2>7. Proper(w, looped) /\ Guards(w, servers)
    BY <1>1, <2>2, <2>6, SameIsSound, SameIsGuarded
  <2>8. QED
    BY <2>1, <2>5, <2>7, WriteThroughStep
<1>4. QED
  BY <1>2, <1>3

(* An edit of the cluster or of the server for observers.                  *)
LEMMA ServicesChanged ==
  ASSUME ProfilesState, NEW w \in Memories, Edit(w), SameKeying(w, memory), Guards(w, servers)
  PROVE  ProfilesState'
<1>1. Proper(w, looped)
  BY SameIsSound DEF ProfilesState
<1>2. QED
  BY <1>1, EditStep

(* The callsign guards the cluster login from every side.                  *)
LEMMA ClusterEdits ==
  ASSUME ProfilesState, SetOwnCallsign \/ SetDxClusterEnabled \/ SetDxClusterServerIndex
  PROVE  ProfilesState'
<1>1. memory \in Memories /\ Guards(memory, servers) /\ servers \in Nat
  BY MemoryIs DEF ProfilesState
<1>2. CASE SetOwnCallsign
  <2> DEFINE call == ~memory.call
             in == (memory.cluster /\ ~memory.call)
             w == [memory EXCEPT !.call = ~@, !.cluster = @ /\ ~memory.call]
  <2>1. /\ w = [memory EXCEPT !.call = call, !.cluster = in]
        /\ call \in BOOLEAN /\ in \in BOOLEAN /\ (in => call)
    OBVIOUS
  <2>2. Edit(w)
    BY <1>2, Zenon DEF SetOwnCallsign
  <2> HIDE DEF call, in, w
  <2>3. w \in Memories
    BY <1>1, <2>1 DEF Memories
  <2>4. /\ w.call = call /\ w.cluster = in /\ w.diag = memory.diag /\ w.open = memory.open
        /\ w.token = memory.token /\ w.server = memory.server /\ SameKeying(w, memory)
    BY <1>1, <2>1 DEF Memories, SameKeying
  <2>5. Guards(w, servers)
    BY <1>1, <2>1, <2>4 DEF Guards, Unguarded
  <2>6. QED
    BY <2>2, <2>3, <2>4, <2>5, ServicesChanged
<1>3. CASE SetDxClusterEnabled
  <2>1. PICK v \in BOOLEAN : (v => memory.call) /\ Edit([memory EXCEPT !.cluster = v])
    BY <1>3 DEF SetDxClusterEnabled
  <2> DEFINE w == [memory EXCEPT !.cluster = v]
  <2>2. Edit(w)
    BY <2>1
  <2>3. w \in Memories
    BY <1>1 DEF Memories
  <2>4. /\ w.call = memory.call /\ w.cluster = v /\ w.diag = memory.diag /\ w.open = memory.open
        /\ w.token = memory.token /\ w.server = memory.server /\ SameKeying(w, memory)
    BY <1>1 DEF Memories, SameKeying
  <2> HIDE DEF w
  <2>5. Guards(w, servers)
    BY <1>1, <2>1, <2>4 DEF Guards, Unguarded
  <2>6. QED
    BY <2>2, <2>3, <2>4, <2>5, ServicesChanged
<1>4. CASE SetDxClusterServerIndex
  <2>1. PICK index \in {Custom, 0, 1} :
          Edit([memory EXCEPT !.server = ServerOrFirst(index, servers)])
    BY <1>4 DEF SetDxClusterServerIndex
  <2> DEFINE v == ServerOrFirst(index, servers)
             w == [memory EXCEPT !.server = v]
  <2>2. Edit(w)
    BY <2>1
  <2>a. v \in Int /\ (v = Custom \/ v \in 0..servers - 1)
    <3>1. index \in Int
      BY DEF Custom
    <3>2. QED
      BY <1>1, <3>1, ServerIsListed
  <2> HIDE DEF v
  <2>3. w \in Memories
    BY <1>1, <2>a DEF Memories
  <2>4. /\ w.call = memory.call /\ w.cluster = memory.cluster /\ w.diag = memory.diag
        /\ w.open = memory.open /\ w.token = memory.token /\ w.server = v
        /\ SameKeying(w, memory)
    BY <1>1 DEF Memories, SameKeying
  <2> HIDE DEF w
  <2>5. Guards(w, servers)
    BY <1>1, <2>a, <2>4 DEF Guards, Unguarded
  <2>6. QED
    BY <2>2, <2>3, <2>4, <2>5, ServicesChanged
<1>5. QED
  BY <1>2, <1>3, <1>4

(* The server for observers is switched off where it would be open to all. *)
LEMMA GuardedIs ==
  ASSUME NEW m \in Memories, NEW w, w = Guarded(m), m.cluster => m.call,
         m.server = Custom \/ m.server \in 0..servers - 1
  PROVE  w \in Memories /\ Guards(w, servers) /\ SameKeying(w, m)
<1> DEFINE on == (m.diag /\ ~Unguarded(m))
<1>1. w = [m EXCEPT !.diag = on] /\ on \in BOOLEAN /\ (on => ~Unguarded(m))
  BY DEF Guarded
<1> HIDE DEF on
<1>2. w \in Memories
  BY <1>1 DEF Memories
<1>3. /\ w.diag = on /\ w.open = m.open /\ w.token = m.token /\ w.cluster = m.cluster
      /\ w.call = m.call /\ w.server = m.server /\ SameKeying(w, m)
  BY <1>1 DEF Memories, SameKeying
<1>4. Guards(w, servers)
  BY <1>1, <1>3 DEF Guards, Unguarded
<1>5. QED
  BY <1>2, <1>3, <1>4

(* The token guards the server for observers from every side.              *)
LEMMA DiagnosticsEdits ==
  ASSUME ProfilesState,
         SetDiagnosticsServerEnabled \/ SetDiagnosticsServerToken \/ SetDiagnosticsServerAddresses
  PROVE  ProfilesState'
<1>1. memory \in Memories /\ Guards(memory, servers) /\ servers \in Nat
  BY MemoryIs DEF ProfilesState
<1>2. CASE SetDiagnosticsServerEnabled
  <2>1. PICK v \in BOOLEAN : (v => ~Unguarded(memory)) /\ Edit([memory EXCEPT !.diag = v])
    BY <1>2 DEF SetDiagnosticsServerEnabled
  <2> DEFINE w == [memory EXCEPT !.diag = v]
  <2>2. Edit(w)
    BY <2>1
  <2>3. w \in Memories
    BY <1>1 DEF Memories
  <2>4. /\ w.call = memory.call /\ w.cluster = memory.cluster /\ w.diag = v /\ w.open = memory.open
        /\ w.token = memory.token /\ w.server = memory.server /\ SameKeying(w, memory)
    BY <1>1 DEF Memories, SameKeying
  <2> HIDE DEF w
  <2>5. Guards(w, servers)
    BY <1>1, <2>1, <2>4 DEF Guards, Unguarded
  <2>6. QED
    BY <2>2, <2>3, <2>4, <2>5, ServicesChanged
<1>3. CASE SetDiagnosticsServerToken
  <2>1. PICK v \in BOOLEAN : Edit(Guarded([memory EXCEPT !.token = v]))
    BY <1>3 DEF SetDiagnosticsServerToken
  <2> DEFINE m == [memory EXCEPT !.token = v]
             w == Guarded(m)
  <2>2. Edit(w)
    BY <2>1
  <2>3. m \in Memories
    BY <1>1 DEF Memories
  <2>4. /\ m.call = memory.call /\ m.cluster = memory.cluster /\ m.server = memory.server
        /\ SameKeying(m, memory)
    BY <1>1 DEF Memories, SameKeying
  <2> HIDE DEF m
  <2>5. w \in Memories /\ Guards(w, servers) /\ SameKeying(w, m)
    BY <1>1, <2>3, <2>4, GuardedIs DEF Guards
  <2> HIDE DEF w
  <2>6. SameKeying(w, memory)
    BY <2>4, <2>5 DEF SameKeying
  <2>7. QED
    BY <2>2, <2>5, <2>6, ServicesChanged
<1>4. CASE SetDiagnosticsServerAddresses
  <2>1. PICK v \in BOOLEAN : Edit(Guarded([memory EXCEPT !.open = v]))
    BY <1>4 DEF SetDiagnosticsServerAddresses
  <2> DEFINE m == [memory EXCEPT !.open = v]
             w == Guarded(m)
  <2>2. Edit(w)
    BY <2>1
  <2>3. m \in Memories
    BY <1>1 DEF Memories
  <2>4. /\ m.call = memory.call /\ m.cluster = memory.cluster /\ m.server = memory.server
        /\ SameKeying(m, memory)
    BY <1>1 DEF Memories, SameKeying
  <2> HIDE DEF m
  <2>5. w \in Memories /\ Guards(w, servers) /\ SameKeying(w, m)
    BY <1>1, <2>3, <2>4, GuardedIs DEF Guards
  <2> HIDE DEF w
  <2>6. SameKeying(w, memory)
    BY <2>4, <2>5 DEF SameKeying
  <2>7. QED
    BY <2>2, <2>5, <2>6, ServicesChanged
<1>5. QED
  BY <1>2, <1>3, <1>4

(* The lines of the settings.                                              *)
LEMMA ConfigOf ==
  ASSUME NEW m \in Memories, NEW w \in Memories, w.ptt = m.ptt, w.key = m.key
  PROVE  Config(m) \in Configs /\ Config(w) = Config(m)
BY DEF Memories, Config, Configs

(* The loopback test, with its result stored or not.                       *)
LEMMA LoopbackRun ==
  ASSUME ProfilesState, RunDirectKeyingLoopback
  PROVE  ProfilesState'
<1>1. /\ memory \in Memories /\ Proper(memory, looped) /\ Guards(memory, servers)
      /\ looped \subseteq Configs
  BY MemoryIs DEF ProfilesState
<1> DEFINE config == Config(memory)
<1>2. PICK bench \in SomeBenches, confirmed \in BOOLEAN :
        LET probe == RunProbe(config, bench, confirmed)
            accepted == IF probe.passed THEN config ELSE NoConfig
        IN  /\ \E ok \in BOOLEAN :
                 /\ Flush(Put(profile, [accepted |-> accepted]), ok)
                 /\ memory' = [memory EXCEPT !.accepted = accepted, !.validated = probe.passed /\ ok]
                 /\ settled' = (settled /\ ok)
            /\ looped' = IF bench.plug = "straight" /\ confirmed THEN looped \cup {config} ELSE looped
  BY Zenon DEF RunDirectKeyingLoopback
<1> DEFINE passed == RunProbe(config, bench, confirmed).passed
           accepted == IF passed THEN config ELSE NoConfig
           values == [accepted |-> accepted]
<1>3. PICK ok \in BOOLEAN :
        /\ Flush(Put(profile, values), ok)
        /\ memory' = [memory EXCEPT !.accepted = accepted, !.validated = passed /\ ok]
        /\ settled' = (settled /\ ok)
  BY <1>2, Zenon
<1>4. looped' = IF bench.plug = "straight" /\ confirmed THEN looped \cup {config} ELSE looped
  BY <1>2, Zenon
<1>5. memory.direct /\ UNCHANGED <<profile, source, scan, servers>>
  BY DEF RunDirectKeyingLoopback
<1>6. config \in Configs
  BY <1>1, ConfigOf
<1>7. passed => bench.plug = "straight" /\ confirmed
  <2>1. bench \in Benches
    BY ProfilesAssumption
  <2>2. QED
    BY <1>6, <2>1, PassedIsStraight
<1>8. DOMAIN values = {"accepted"} /\ values["accepted"] = accepted
  OBVIOUS
<1> DEFINE valid == (passed /\ ok)
<1>9. /\ valid \in BOOLEAN /\ (valid => passed)
      /\ memory' = [memory EXCEPT !.accepted = accepted, !.validated = valid]
  BY <1>3, Zenon
<1>10. /\ passed => accepted = config
       /\ ~passed => accepted = NoConfig
  OBVIOUS
<1> HIDE DEF passed, accepted, values, valid
<1>11. /\ looped \subseteq looped' /\ looped' \subseteq Configs
       /\ accepted \in looped' \cup {NoConfig} /\ accepted \in Configs \cup {NoConfig}
  <2>1. CASE passed
    BY <1>1, <1>4, <1>6, <1>7, <1>10, <2>1
  <2>2. CASE ~passed
    BY <1>1, <1>4, <1>6, <1>10, <2>2
  <2>3. QED
    BY <2>1, <2>2
<1>12. memory' \in Memories
  BY <1>1, <1>9, <1>11 DEF Memories
<1>13. /\ memory'.accepted = accepted /\ memory'.validated = valid
       /\ \A f \in Fields \ {"accepted", "validated"} : memory'[f] = memory[f]
  BY <1>1, <1>9 DEF Memories, Fields
<1>14. /\ memory'.direct = memory.direct /\ memory'.ptt = memory.ptt /\ memory'.key = memory.key
       /\ memory'.type = memory.type /\ memory'.device = memory.device
       /\ SameServices(memory', memory)
  BY <1>13 DEF Fields, SameServices
<1>15. Proper(memory', looped')
  <2>1. Config(memory') = config
    BY <1>1, <1>12, <1>14, ConfigOf
  <2>2. memory'.validated => memory'.direct /\ memory'.accepted = Config(memory')
    BY <1>5, <1>9, <1>10, <1>13, <1>14, <2>1
  <2>3. memory'.type = 1 => memory'.device # NoDevice
    BY <1>1, <1>14 DEF Proper
  <2>4. QED
    BY <1>11, <1>12, <1>13, <2>2, <2>3 DEF Proper
<1>16. Guards(memory', servers)
  BY <1>1, <1>14, SameIsGuarded
<1>17. Writable(values, looped')
  BY <1>8, <1>11 DEF Writable
<1>18. WrittenAs(values, memory, memory')
  BY <1>8, <1>13 DEF WrittenAs
<1>19. /\ AllStored(cache', looped') /\ AllStored(disk', looped')
       /\ ok => disk' = cache' /\ disk'[profile] = Over(values, cache[profile])
  BY <1>3, <1>11, <1>17, StoredAtOnce
<1>20. settled' => SettledTruly'
  <2>1. SUFFICES ASSUME settled, ok PROVE SettledTruly'
    BY <1>3, Zenon
  <2>2. LoadsAs(cache[profile], servers, memory)
    BY <2>1, Zenon DEF ProfilesState, SettledTruly
  <2>3. LoadsAs(disk'[profile], servers, memory')
    BY <1>18, <1>19, <2>1, <2>2, WrittenLoads DEF WrittenAs
  <2>4. QED
    BY <1>5, <1>19, <2>1, <2>3 DEF SettledTruly
<1>21. QED
  BY <1>5, <1>11, <1>15, <1>16, <1>19, <1>20 DEF ProfilesState, RestoreIsAnswered

(* The operator changes the source.                                        *)
LEMMA SourceChosen ==
  ASSUME ProfilesState, ChooseSource
  PROVE  ProfilesState'
<1>1. PICK mode \in SourceModes \ {source} : SetSourceMode(memory, mode, settled)
  BY Zenon DEF ChooseSource
<1>2. UNCHANGED <<profile, servers, looped, scan>>
  BY DEF ChooseSource
<1>3. /\ Proper(memory, looped) /\ Guards(memory, servers) /\ scan' \in Scans /\ RestoreIsAnswered'
      /\ settled => disk[profile] = cache[profile] /\ LoadsAs(disk[profile], servers, memory)
  BY <1>2 DEF ProfilesState, SettledTruly, RestoreIsAnswered
<1> DEFINE m == memory
           was == settled
<1>4. /\ SetSourceMode(m, mode, was) /\ Proper(m, looped) /\ Guards(m, servers) /\ mode \in SourceModes
      /\ was => disk[profile] = cache[profile] /\ LoadsAs(disk[profile], servers, m)
  BY <1>1, <1>3
<1> HIDE DEF m, was
<1>5. QED
  BY <1>2, <1>3, <1>4, SetSourceModeStep

(* The controller reports the mode it is in.                               *)
LEMMA ReportedSource ==
  ASSUME ProfilesState, StateChanged
  PROVE  ProfilesState'
<1> DEFINE w == [memory EXCEPT !.source = source]
           values == [source |-> source]
<1>1. PICK ok \in BOOLEAN : Flush(Put(profile, values), ok) /\ settled' = (settled /\ ok)
  BY DEF StateChanged
<1>2. memory' = w /\ UNCHANGED <<profile, source, scan, servers, looped>>
  BY DEF StateChanged
<1>3. /\ Proper(w, looped) /\ Guards(w, servers)
      /\ WrittenAs(values, memory, w) /\ Writable(values, looped)
  BY WithSource DEF ProfilesState
<1> HIDE DEF w, values
<1>4. /\ AllStored(cache', looped) /\ AllStored(disk', looped)
      /\ ok => disk' = cache' /\ disk'[profile] = Over(values, cache[profile])
  BY <1>1, <1>3, StoredAtOnce
<1>5. settled' => SettledTruly'
  <2>1. SUFFICES ASSUME settled, ok PROVE SettledTruly'
    BY <1>1, Zenon
  <2>2. LoadsAs(cache[profile], servers, memory)
    BY <2>1, Zenon DEF ProfilesState, SettledTruly
  <2>3. LoadsAs(disk'[profile], servers, w)
    BY <1>3, <1>4, <2>1, <2>2, WrittenLoads DEF WrittenAs
  <2>4. QED
    BY <1>2, <1>4, <2>1, <2>3 DEF SettledTruly
<1>6. QED
  BY <1>2, <1>3, <1>4, <1>5 DEF ProfilesState, RestoreIsAnswered

(* Another input type, with the receiver it needs.                         *)
LEMMA WithType ==
  ASSUME NEW m, NEW measured, NEW n, NEW v \in 0..1, NEW w, w = [m EXCEPT !.type = v],
         Proper(m, measured), Guards(m, n), v = 1 => m.device # NoDevice
  PROVE  Proper(w, measured) /\ Guards(w, n)
<1>1. m \in Memories
  BY DEF Proper
<1>2. w \in Memories
  BY <1>1 DEF Memories
<1>3. /\ w.type = v /\ w.device = m.device /\ w.validated = m.validated /\ w.direct = m.direct
      /\ w.accepted = m.accepted /\ w.ptt = m.ptt /\ w.key = m.key /\ SameServices(w, m)
  BY <1>1 DEF Memories, SameServices
<1>4. QED
  BY <1>2, <1>3, SameIsGuarded DEF Proper, Config

(* The operator changes the input type.                                    *)
LEMMA InputTypeSet ==
  ASSUME ProfilesState, SetReceiverInputType
  PROVE  ProfilesState'
<1>1. PICK requested \in 0..1 :
        LET type == IF memory.device \in scan.listed THEN requested ELSE 0
        IN  SetSourceMode([memory EXCEPT !.type = type], ModeOfType(type), FALSE)
  BY Zenon DEF SetReceiverInputType
<1>2. UNCHANGED <<profile, servers, looped, scan>>
  BY DEF SetReceiverInputType
<1> DEFINE v == IF memory.device \in scan.listed THEN requested ELSE 0
           m == [memory EXCEPT !.type = v]
           mode == ModeOfType(v)
           never == FALSE
<1>3. SetSourceMode(m, mode, never) /\ ~never
  BY <1>1, Zenon
<1>4. v \in 0..1 /\ mode \in SourceModes
  BY DEF ModeOfType, SourceModes
<1>5. v = 1 => memory.device # NoDevice
  BY ProfilesAssumption DEF ProfilesState, Scans
<1>6. /\ Proper(memory, looped) /\ Guards(memory, servers) /\ scan' \in Scans /\ RestoreIsAnswered'
  BY <1>2 DEF ProfilesState, RestoreIsAnswered
<1> HIDE DEF v, mode, never
<1>7. Proper(m, looped) /\ Guards(m, servers)
  BY <1>4, <1>5, <1>6, WithType
<1> HIDE DEF m
<1>8. never => disk[profile] = cache[profile] /\ LoadsAs(disk[profile], servers, m)
  BY <1>3
<1>9. QED
  BY <1>2, <1>3, <1>4, <1>6, <1>7, <1>8, SetSourceModeStep

(* A discovery of receivers is asked for.                                  *)
LEMMA ScanAsked ==
  ASSUME ProfilesState, RefreshSdrDevices
  PROVE  ProfilesState'
<1>1. /\ scan' = [scan EXCEPT !.running = TRUE]
      /\ UNCHANGED <<profile, memory, source, servers, settled, looped, cache, disk>>
  BY DEF RefreshSdrDevices, NoFlush
<1>2. scan' \in Scans /\ scan'.running
  BY <1>1 DEF ProfilesState, Scans
<1>3. QED
  BY <1>1, <1>2 DEF ProfilesState, RestoreIsAnswered, SettledTruly

(* The queued answer without SoapySDR.                                     *)
LEMMA RestoreAnswered ==
  ASSUME ProfilesState, AnswerSdrStartupRestore
  PROVE  ProfilesState'
<1> DEFINE m == memory
           was == settled
           mode == IF scan.pending /\ source = 2 THEN 0 ELSE source
<1>1. /\ scan' = [scan EXCEPT !.queued = FALSE, !.pending = FALSE]
      /\ SetSourceMode(m, mode, was)
      /\ UNCHANGED <<profile, servers, looped>>
  BY DEF AnswerSdrStartupRestore
<1>2. scan' \in Scans /\ RestoreIsAnswered'
  BY <1>1 DEF ProfilesState, Scans, RestoreIsAnswered
<1>3. /\ Proper(m, looped) /\ Guards(m, servers) /\ mode \in SourceModes
      /\ was => disk[profile] = cache[profile] /\ LoadsAs(disk[profile], servers, m)
  BY DEF ProfilesState, SettledTruly, SourceModes
<1> HIDE DEF m, was, mode
<1>4. QED
  BY <1>1, <1>2, <1>3, SetSourceModeStep

(* A receiver that was not found is forgotten, and its type with it.       *)
LEMMA ReceiversReported ==
  ASSUME ProfilesState, ApplySdrDiscoveryReport
  PROVE  ProfilesState'
<1>1. PICK listed \in SUBSET SdrDevices :
       LET found == IF memory.device \in listed THEN memory.device ELSE NoDevice
           type == IF found = NoDevice THEN 0 ELSE memory.type
           lost == scan.pending /\ found = NoDevice
           mode == IF type # memory.type THEN 0
                   ELSE IF lost /\ source = 2 THEN 0 ELSE source
       IN  /\ scan' = [scan EXCEPT !.listed = listed, !.running = FALSE, !.pending = FALSE]
           /\ SetSourceMode([memory EXCEPT !.device = found, !.type = type], mode,
                            settled /\ found = memory.device)
  BY Zenon DEF ApplySdrDiscoveryReport
<1> DEFINE found == IF memory.device \in listed THEN memory.device ELSE NoDevice
           v == IF found = NoDevice THEN 0 ELSE memory.type
           lost == (scan.pending /\ found = NoDevice)
           mode == IF v # memory.type THEN 0 ELSE IF lost /\ source = 2 THEN 0 ELSE source
           m == [memory EXCEPT !.device = found, !.type = v]
           was == (settled /\ found = memory.device)
<1>2. /\ scan' = [scan EXCEPT !.listed = listed, !.running = FALSE, !.pending = FALSE]
      /\ SetSourceMode(m, mode, was)
  BY <1>1, Zenon
<1>3. UNCHANGED <<profile, servers, looped>>
  BY DEF ApplySdrDiscoveryReport
<1>4. scan' \in Scans /\ RestoreIsAnswered'
  BY <1>2 DEF ProfilesState, Scans, RestoreIsAnswered
<1>5. /\ Proper(memory, looped) /\ Guards(memory, servers) /\ memory \in Memories
      /\ settled => disk[profile] = cache[profile] /\ LoadsAs(disk[profile], servers, memory)
  BY MemoryIs DEF ProfilesState, SettledTruly
<1>6. mode \in SourceModes
  BY DEF ProfilesState, SourceModes
<1>7. /\ found \in SdrDevices \cup {NoDevice} /\ v \in 0..1 /\ (v = 1 => found # NoDevice)
      /\ was => settled /\ found = memory.device
  BY <1>5 DEF Memories
<1>8. found = memory.device => v = memory.type
  <2>1. memory.device = NoDevice => memory.type = 0
    BY <1>5 DEF Proper, Memories
  <2>2. QED
    BY <2>1
<1> HIDE DEF found, v, mode, was
<1>9. m \in Memories
  BY <1>5, <1>7 DEF Memories
<1>10. /\ m.device = found /\ m.type = v /\ m.validated = memory.validated
       /\ m.direct = memory.direct /\ m.accepted = memory.accepted /\ m.ptt = memory.ptt
       /\ m.key = memory.key /\ SameServices(m, memory)
  BY <1>5 DEF Memories, SameServices
<1>11. Proper(m, looped) /\ Guards(m, servers)
  BY <1>5, <1>7, <1>9, <1>10, SameIsGuarded DEF Proper, Config
<1>12. was => m = memory
  BY <1>5, <1>7, <1>8 DEF Memories
<1> HIDE DEF m
<1>13. was => disk[profile] = cache[profile] /\ LoadsAs(disk[profile], servers, m)
  BY <1>5, <1>7, <1>12
<1>14. QED
  BY <1>2, <1>3, <1>4, <1>6, <1>11, <1>13, SetSourceModeStep

(* Apply is refused: what it normalized stays in memory.                   *)
LEMMA ApplyRefused ==
  ASSUME ProfilesState, RefuseToApply
  PROVE  ProfilesState'
<1> DEFINE w == Normalized(memory)
<1>1. /\ memory' = w /\ (settled' => settled /\ memory' = memory)
      /\ UNCHANGED <<profile, source, scan, servers, looped, cache, disk>>
  BY DEF RefuseToApply, NoFlush
<1>2. Proper(w, looped) /\ Guards(w, servers)
  BY NormalizedIsSound DEF ProfilesState, Scans
<1> HIDE DEF w
<1>3. settled' => SettledTruly'
  BY <1>1 DEF ProfilesState, SettledTruly
<1>4. QED
  BY <1>1, <1>2, <1>3 DEF ProfilesState, RestoreIsAnswered

(* Apply.                                                                  *)
LEMMA Applied ==
  ASSUME ProfilesState, Apply
  PROVE  ProfilesState'
<1> DEFINE w == Normalized(memory)
           values == Stored(w)
           written == Over(values, cache[profile])
           c == Put(profile, values)
<1>1. PICK ok \in BOOLEAN : Flush(c, ok) /\ settled' = ok
  BY Zenon DEF Apply
<1>2. memory' = w /\ UNCHANGED <<profile, source, scan, servers, looped>>
  BY DEF Apply
<1>3. Proper(w, looped) /\ Guards(w, servers)
  BY NormalizedIsSound DEF ProfilesState, Scans
<1>4. /\ profile \in Profiles /\ ProperlyStored(cache[profile], looped) /\ servers \in Nat
      /\ AllStored(cache, looped) /\ AllStored(disk, looped)
  BY DEF ProfilesState, AllStored
<1> HIDE DEF w
<1>5. ProperlyStored(written, looped) /\ LoadsAs(written, servers, w)
  BY <1>3, <1>4, AppliedIsStored
<1> HIDE DEF values
<1>6. AllStored(c, looped) /\ c[profile] = written
  BY <1>4, <1>5, PutIsSound
<1> HIDE DEF c, written
<1>7. /\ AllStored(cache', looped) /\ AllStored(disk', looped)
      /\ ok => disk' = c /\ cache' = c
  BY <1>1, <1>4, <1>6, FlushIsSound
<1>8. settled' => SettledTruly'
  BY <1>1, <1>2, <1>5, <1>6, <1>7 DEF SettledTruly
<1>9. QED
  BY <1>2, <1>3, <1>7, <1>8 DEF ProfilesState, RestoreIsAnswered

(* The end of the wizard, with a mark that may not reach the file.         *)
LEMMA SetupCompleted ==
  ASSUME ProfilesState, CompleteSetup
  PROVE  ProfilesState'
<1> DEFINE w == Normalized(memory)
           values == Stored(w)
           marks == Over([setup |-> TRUE], values)
           applied == Put(profile, values)
           marked == Put(profile, marks)
           done == [w EXCEPT !.setup = TRUE]
<1>1. /\ cache' = marked
      /\ \/ disk' = marked /\ memory' = done
         \/ disk' = applied /\ memory' = w /\ ~settled'
      /\ UNCHANGED <<profile, source, scan, servers, looped>>
  BY DEF CompleteSetup
<1>2. Proper(w, looped) /\ Guards(w, servers)
  BY NormalizedIsSound DEF ProfilesState, Scans
<1>3. /\ profile \in Profiles /\ ProperlyStored(cache[profile], looped) /\ servers \in Nat
      /\ AllStored(cache, looped) /\ AllStored(disk, looped)
  BY DEF ProfilesState, AllStored
<1> HIDE DEF w
<1>4. w \in Memories
  BY <1>2 DEF Proper
<1>5. /\ done \in Memories /\ SameKeying(done, w) /\ SameServices(done, w)
      /\ \A f \in Fields \ {"setup"} : done[f] = w[f]
  <2>1. done \in Memories
    BY <1>4 DEF Memories
  <2>2. \A f \in Fields \ {"setup"} : done[f] = w[f]
    BY <1>4 DEF Memories, Fields
  <2> HIDE DEF done
  <2>3. QED
    BY <2>1, <2>2 DEF SameKeying, SameServices, Fields
<1> HIDE DEF done
<1>6. Proper(done, looped) /\ Guards(done, servers)
  BY <1>2, <1>5, SameIsSound, SameIsGuarded
<1>7. ProperlyStored(Over(values, cache[profile]), looped)
  BY <1>2, <1>3, AppliedIsStored
<1>8. /\ ProperlyStored(Over(marks, cache[profile]), looped)
      /\ LoadsAs(Over(marks, cache[profile]), servers, w)
  BY <1>2, <1>3, MarkIsStored
<1>9. LoadsAs(Over(marks, cache[profile]), servers, done)
  <2> DEFINE after == Over(marks, cache[profile])
  <2>1. LoadsAs(after, servers, w)
    BY <1>8
  <2> HIDE DEF after
  <2>2. /\ done.input = w.input /\ done.output = w.output /\ done.source = w.source
        /\ done.radio = w.radio /\ done.txMode = w.txMode /\ done.fps = w.fps
    BY <1>5 DEF Fields
  <2>3. LoadsAs(after, servers, done)
    BY <1>5, <2>1, <2>2, ZenonT(60) DEF LoadsAs, SameKeying, SameServices
  <2>4. QED
    BY <2>3 DEF after
<1> HIDE DEF values, marks
<1>10. AllStored(applied, looped)
  BY <1>3, <1>7, PutIsSound
<1>11. AllStored(marked, looped) /\ marked[profile] = Over(marks, cache[profile])
  BY <1>3, <1>8, PutIsSound
<1> HIDE DEF applied, marked
<1>12. settled' => SettledTruly'
  BY <1>1, <1>9, <1>11 DEF SettledTruly
<1>13. QED
  BY <1>1, <1>2, <1>6, <1>10, <1>11, <1>12 DEF ProfilesState, RestoreIsAnswered

(* Another profile is loaded.                                              *)
LEMMA ProfileSelected ==
  ASSUME ProfilesState, SelectProfile
  PROVE  ProfilesState'
<1>1. PICK k \in Profiles :
        /\ profile' = k
        /\ memory' = Loaded(InMemoryReset(memory), cache[k], servers)
        /\ settled' = (disk[k] = cache[k])
  BY DEF SelectProfile
<1>2. /\ scan' = [scan EXCEPT !.pending = FALSE]
      /\ UNCHANGED <<source, servers, looped, cache, disk>>
  BY DEF SelectProfile, NoFlush
<1>3. scan' \in Scans /\ RestoreIsAnswered'
  BY <1>2 DEF ProfilesState, Scans, RestoreIsAnswered
<1>4. /\ memory \in Memories /\ memory.accepted \in looped \cup {NoConfig} /\ servers \in Nat
      /\ ProperlyStored(cache[k], looped) /\ AllStored(cache, looped) /\ AllStored(disk, looped)
  BY MemoryIs DEF ProfilesState, Proper, AllStored
<1>5. InMemoryReset(memory) \in Memories
  BY <1>4, ResetIsSound DEF Proper
<1>6. memory' = LoadedFrom(cache[k], servers)
  BY <1>1, <1>5, LoadedIs
<1>7. Proper(memory', looped)
  BY <1>4, <1>6, LoadedSound
<1>8. Guards(memory', servers) /\ LoadsAs(cache[k], servers, memory')
  BY <1>4, <1>6, LoadedFields DEF ProperlyStored
<1>9. settled' => SettledTruly'
  BY <1>1, <1>2, <1>8 DEF SettledTruly
<1>10. QED
  BY <1>1, <1>2, <1>3, <1>4, <1>7, <1>8, <1>9 DEF ProfilesState

(* The first keys of a new profile.                                        *)
LEMMA CreatedIsSound ==
  ASSUME NEW kept, NEW measured, NEW values, values = [schema |-> TRUE, setup |-> FALSE],
         ProperlyStored(kept, measured)
  PROVE  ProperlyStored(Over(values, kept), measured)
<1> DEFINE after == Over(values, kept)
<1>1. DOMAIN values = {"schema", "setup"} /\ values["setup"] \in BOOLEAN
  OBVIOUS
<1>a. after = Over(values, kept)
  OBVIOUS
<1> HIDE DEF after
<1>2. /\ \A key : key \notin {"schema", "setup"} => Was(after, key) = Was(kept, key)
      /\ Was(after, "setup") \in BOOLEAN
  <2>1. \A key : Was(after, key) = IF key \in DOMAIN values THEN values[key] ELSE Was(kept, key)
    BY <1>a, WrittenOver
  <2>2. QED
    BY <1>1, <2>1
<1>3. /\ Was(after, "call") = Was(kept, "call") /\ Was(after, "direct") = Was(kept, "direct")
      /\ Was(after, "cluster") = Was(kept, "cluster") /\ Was(after, "diag") = Was(kept, "diag")
      /\ Was(after, "token") = Was(kept, "token") /\ Was(after, "open") = Was(kept, "open")
  BY <1>2
<1>4. /\ InputWas(after) = InputWas(kept) /\ OutputWas(after) = OutputWas(kept)
      /\ TypeWas(after) = TypeWas(kept) /\ SourceWas(after) = SourceWas(kept)
      /\ DeviceWas(after) = DeviceWas(kept)
  BY <1>1, <1>a, WrittenOver
<1>5. /\ ModeWas(after) = ModeWas(kept) /\ PttWas(after) = PttWas(kept)
      /\ KeyWas(after) = KeyWas(kept) /\ AcceptedWas(after) = AcceptedWas(kept)
      /\ FpsWas(after) = FpsWas(kept) /\ ServerWas(after) = ServerWas(kept)
  BY <1>1, <1>a, WrittenOver
<1>6. RadioWas(after) \in BOOLEAN
  <2>1. \A default : Value(after, "radio", default) = Value(kept, "radio", default)
    BY <1>1, <1>a, ValueOver
  <2>2. CASE "radio" \in DOMAIN kept
    <3>1. RadioWas(after) = RadioWas(kept)
      BY <2>1, <2>2, Zenon DEF RadioWas, Value
    <3>2. QED
      BY <3>1 DEF ProperlyStored, WellStored
  <2>3. CASE "radio" \notin DOMAIN kept
    <3>1. RadioWas(after) = Was(after, "setup")
      BY <2>1, <2>3, Zenon DEF RadioWas, Value
    <3>2. QED
      BY <1>2, <3>1
  <2>4. QED
    BY <2>2, <2>3
<1>7. ProperlyStored(after, measured)
  BY <1>2, <1>3, <1>4, <1>5, <1>6, ZenonT(60) DEF ProperlyStored, WellStored
<1>8. QED
  BY <1>7, <1>a

(* A new profile.                                                          *)
LEMMA ProfileCreated ==
  ASSUME ProfilesState, CreateProfile
  PROVE  ProfilesState'
<1> DEFINE values == [schema |-> TRUE, setup |-> FALSE]
<1>1. PICK k \in Profiles, ok \in BOOLEAN : profile' = k /\ Flush(Put(k, values), ok)
  BY DEF CreateProfile
<1>2. /\ memory' = InMemoryReset(memory) /\ ~settled'
      /\ scan' = [scan EXCEPT !.pending = FALSE]
      /\ UNCHANGED <<source, servers, looped>>
  BY DEF CreateProfile
<1>3. scan' \in Scans /\ RestoreIsAnswered'
  BY <1>2 DEF ProfilesState, Scans, RestoreIsAnswered
<1>4. /\ memory \in Memories /\ memory.accepted \in looped \cup {NoConfig} /\ servers \in Nat
      /\ ProperlyStored(cache[k], looped) /\ AllStored(cache, looped) /\ AllStored(disk, looped)
  BY MemoryIs DEF ProfilesState, Proper, AllStored
<1>5. Proper(memory', looped) /\ Guards(memory', servers)
  BY <1>2, <1>4, ResetIsSound
<1>6. ProperlyStored(Over(values, cache[k]), looped)
  BY <1>4, CreatedIsSound
<1> DEFINE c == Put(k, values)
<1>a. Flush(c, ok)
  BY <1>1
<1> HIDE DEF values
<1>7. AllStored(c, looped)
  BY <1>4, <1>6, PutIsSound
<1> HIDE DEF c
<1>8. AllStored(cache', looped) /\ AllStored(disk', looped)
  BY <1>4, <1>7, <1>a, FlushIsSound
<1>9. QED
  BY <1>1, <1>2, <1>3, <1>5, <1>8 DEF ProfilesState

(* A start from keys that are well-formed.                                 *)
LEMMA StartedStep ==
  ASSUME ProfilesState, NEW k \in Profiles, NEW stored, NEW n \in Nat, AllStored(stored, looped),
         Started(k, stored, n), looped' = looped
  PROVE  ProfilesState'
<1> DEFINE fresh == WithReferenceDefaults(Fresh)
           m == Loaded(fresh, stored[k], n)
           mode == ModeOfType(m.type)
           prefers == IF mode = 2 THEN [m EXCEPT !.source = 2] ELSE m
           values == [source |-> 2]
           written == Over(values, stored[k])
           c == IF prefers = m THEN stored ELSE [stored EXCEPT ![k] = written]
           asks == (page = "source" /\ m.device # NoDevice)
<1>1. /\ profile' = k /\ servers' = n /\ memory' = prefers /\ source' = prefers.source
      /\ cache' = c /\ disk' = c
  BY Zenon DEF Started
<1>2. scan' = [listed |-> {}, running |-> asks /\ built, pending |-> asks,
               queued |-> asks /\ ~built]
  BY Zenon DEF Started
<1>3. scan' \in Scans /\ RestoreIsAnswered'
  <2> DEFINE run == (asks /\ built)
             wait == (asks /\ ~built)
  <2>1. /\ scan' = [listed |-> {}, running |-> run, pending |-> asks, queued |-> wait]
        /\ run \in BOOLEAN /\ asks \in BOOLEAN /\ wait \in BOOLEAN /\ (asks => run \/ wait)
    BY <1>2, Zenon
  <2> HIDE DEF run, wait, asks
  <2>2. QED
    BY <2>1 DEF Scans, RestoreIsAnswered
<1>4. fresh \in Memories
  BY FreshIsSound DEF Proper
<1> HIDE DEF fresh, asks
<1>5. m = LoadedFrom(stored[k], n) /\ ProperlyStored(stored[k], looped) /\ DOMAIN stored = Profiles
  BY <1>4, LoadedIs DEF AllStored
<1> HIDE DEF m
<1>6. /\ Proper(m, looped) /\ Guards(m, n) /\ LoadsAs(stored[k], n, m) /\ m \in Memories
  BY <1>5, LoadedSound, LoadedFields DEF ProperlyStored
<1>7. CASE prefers = m
  <2>1. c = stored /\ memory' = m /\ m.source \in SourceModes
    BY <1>1, <1>6, <1>7 DEF Memories
  <2> HIDE DEF c, prefers
  <2>2. settled' => SettledTruly'
    BY <1>1, <1>6, <2>1 DEF SettledTruly
  <2>3. QED
    BY <1>1, <1>3, <1>6, <1>7, <2>1, <2>2 DEF ProfilesState
<1>8. CASE prefers # m
  <2> DEFINE w == [m EXCEPT !.source = 2]
             receiver == 2
  <2>1. prefers = w /\ c = [stored EXCEPT ![k] = written]
    BY <1>8
  <2>2. receiver \in SourceModes /\ w = [m EXCEPT !.source = receiver] /\ values = [source |-> receiver]
    BY DEF SourceModes
  <2> HIDE DEF receiver, w, values, c, prefers, mode
  <2>3. /\ Proper(w, looped) /\ Guards(w, n) /\ w.source = receiver
        /\ WrittenAs(values, m, w) /\ Writable(values, looped)
    BY <1>6, <2>2, WithSource
  <2>4. ProperlyStored(written, looped)
    BY <1>5, <2>3, WrittenIsSound
  <2>5. LoadsAs(written, n, w)
    BY <1>6, <2>3, WrittenLoads DEF WrittenAs
  <2> HIDE DEF written
  <2>6. AllStored(c, looped) /\ c[k] = written
    BY <1>5, <2>1, <2>4 DEF AllStored
  <2>7. settled' => SettledTruly'
    BY <1>1, <2>1, <2>5, <2>6 DEF SettledTruly
  <2>8. QED
    BY <1>1, <1>3, <2>1, <2>2, <2>3, <2>6, <2>7 DEF ProfilesState
<1>9. QED
  BY <1>7, <1>8

(* What the operator may have made of the file is of the type that is      *)
(* read.                                                                   *)
LEMMA EditsAreWritable ==
  ASSUME NEW values \in Edits, NEW measured
  PROVE  Writable(values, measured)
<1>1. CASE values = [diag |-> TRUE, open |-> TRUE, token |-> FALSE]
  <2>1. /\ DOMAIN values = {"diag", "open", "token"}
        /\ \A key \in {"diag", "open", "token"} : values[key] \in BOOLEAN
    BY <1>1
  <2>2. QED
    BY <2>1 DEF Writable
<1>2. CASE values = [cluster |-> TRUE, call |-> FALSE]
  <2>1. /\ DOMAIN values = {"cluster", "call"}
        /\ \A key \in {"cluster", "call"} : values[key] \in BOOLEAN
    BY <1>2
  <2>2. QED
    BY <2>1 DEF Writable
<1>3. CASE values = [ptt |-> "dtr", key |-> "rts"]
  <2>1. /\ DOMAIN values = {"ptt", "key"} /\ values["ptt"] \in Lines /\ values["key"] \in Lines
    BY <1>3 DEF Lines
  <2>2. QED
    BY <2>1 DEF Writable
<1>4. QED
  BY <1>1, <1>2, <1>3 DEF Edits

(* A restart, from the file or from an edited one.                         *)
LEMMA Restarted ==
  ASSUME ProfilesState, Restart
  PROVE  ProfilesState'
<1>1. looped' = looped
  BY DEF Restart
<1>2. PICK k \in Profiles, n \in Servers :
        \/ Started(k, disk, n)
        \/ \E edit \in Edits : Started(k, [disk EXCEPT ![k] = Over(edit, @)], n)
  BY DEF Restart
<1>3. AllStored(disk, looped) /\ n \in Nat
  BY ProfilesAssumption DEF ProfilesState
<1>4. CASE Started(k, disk, n)
  BY <1>1, <1>3, <1>4, StartedStep
<1>5. ASSUME NEW edit \in Edits, Started(k, [disk EXCEPT ![k] = Over(edit, @)], n)
      PROVE  ProfilesState'
  <2> DEFINE written == Over(edit, disk[k])
             stored == [disk EXCEPT ![k] = written]
  <2>1. Started(k, stored, n)
    BY <1>5
  <2>2. ProperlyStored(disk[k], looped) /\ DOMAIN disk = Profiles
    BY <1>3 DEF AllStored
  <2>3. ProperlyStored(written, looped)
    BY <2>2, EditsAreWritable, WrittenIsSound
  <2> HIDE DEF written
  <2>4. AllStored(stored, looped)
    BY <1>3, <2>2, <2>3 DEF AllStored
  <2> HIDE DEF stored
  <2>5. QED
    BY <1>1, <1>3, <2>1, <2>4, StartedStep
<1>6. QED
  BY <1>2, <1>4, <1>5

(* With nothing stored a start reads the defaults.                         *)
LEMMA NothingStored ==
  ASSUME NEW measured, NEW kept, kept = NoKeys
  PROVE  /\ ProperlyStored(kept, measured)
         /\ LoadsAs(kept, 1, WithReferenceDefaults(Fresh))
<1>1. \A key, default : Value(kept, key, default) = default
  BY DEF Value, NoKeys
<1>2. /\ InputWas(kept) = "default" /\ OutputWas(kept) = "default" /\ TypeWas(kept) = 0
      /\ SourceWas(kept) = 0 /\ DeviceWas(kept) = NoDevice /\ ModeWas(kept) = "CW"
      /\ PttWas(kept) = "rts" /\ KeyWas(kept) = "dtr" /\ AcceptedWas(kept) = NoConfig
      /\ FpsWas(kept) = FpsHigh /\ ServerWas(kept) = 0
  BY <1>1, Zenon DEF InputWas, OutputWas, TypeWas, SourceWas, DeviceWas, ModeWas, PttWas, KeyWas,
                     AcceptedWas, FpsWas, ServerWas
<1>3. \A key : Was(kept, key) = FALSE
  BY <1>1, Zenon DEF Was
<1>4. RadioWas(kept) = FALSE
  BY <1>1, <1>3, Zenon DEF RadioWas
<1>5. (\A key : Was(kept, key) \in BOOLEAN /\ ~Was(kept, key)) /\ RadioWas(kept) \in BOOLEAN /\ ~RadioWas(kept)
  BY <1>3, <1>4, Zenon
<1>6. WellStored(kept)
  <2>1. /\ "default" \in Inputs /\ "default" \in Outputs /\ 0 \in 0..1 /\ 0 \in SourceModes
        /\ "CW" \in {"CW", "CW-R"} /\ "rts" \in Lines /\ "dtr" \in Lines /\ FpsHigh \in RawFps
        /\ 0 \in Int /\ 0 # 1
    BY ProfilesAssumption DEF SourceModes, Lines, RawFps, FpsHigh
  <2>2. QED
    BY <1>2, <1>5, <2>1 DEF WellStored
<1> DEFINE w == WithReferenceDefaults(Fresh)
<1>7. /\ w.input = "default" /\ w.output = "default" /\ w.type = 0 /\ w.source = 0
      /\ w.device = NoDevice /\ w.txMode = "CW" /\ w.ptt = "rts" /\ w.key = "dtr"
      /\ w.accepted = NoConfig /\ w.fps = FpsHigh /\ w.server = 0
      /\ ~w.call /\ ~w.radio /\ ~w.direct /\ ~w.cluster /\ ~w.diag /\ ~w.token /\ ~w.open
  BY DEF WithReferenceDefaults, Fresh
<1>8. ServerOrFirst(0, 1) = 0
  BY DEF ServerOrFirst
<1> HIDE DEF w
<1>9. LoadsAs(kept, 1, w)
  BY <1>2, <1>5, <1>7, <1>8 DEF LoadsAs
<1>10. QED
  BY <1>2, <1>6, <1>9, Zenon DEF ProperlyStored, w

(* The invariant holds at the first start ...                              *)
LEMMA ProfilesBegin ==
  ASSUME ProfilesInit
  PROVE  ProfilesState
<1>1. /\ profile = Home /\ memory = WithReferenceDefaults(Fresh)
      /\ cache = [k \in Profiles |-> NoKeys] /\ disk = cache /\ source = 0
      /\ scan = [listed |-> {}, running |-> FALSE, pending |-> FALSE, queued |-> FALSE]
      /\ servers = 1 /\ looped = {}
  BY DEF ProfilesInit
<1>2. profile \in Profiles /\ source \in SourceModes /\ servers \in Nat /\ looped \subseteq Configs
  BY <1>1, ProfilesAssumption DEF SourceModes
<1>3. scan \in Scans /\ RestoreIsAnswered
  BY <1>1 DEF Scans, RestoreIsAnswered
<1>4. Proper(memory, looped) /\ Guards(memory, servers)
  BY <1>1, FreshIsSound
<1>5. \A k \in Profiles : cache[k] = NoKeys /\ disk[k] = NoKeys
  BY <1>1
<1>6. AllStored(cache, looped) /\ AllStored(disk, looped)
  BY <1>1, <1>5, NothingStored DEF AllStored
<1>7. SettledTruly
  BY <1>1, <1>2, <1>5, NothingStored DEF SettledTruly
<1>8. QED
  BY <1>2, <1>3, <1>4, <1>6, <1>7 DEF ProfilesState

(* ... and every action preserves it.                                      *)
LEMMA ProfilesStep ==
  ASSUME ProfilesState, [ProfilesNext]_profileVars
  PROVE  ProfilesState'
<1>1. CASE UNCHANGED profileVars
  BY <1>1 DEF profileVars, ProfilesState, SettledTruly, RestoreIsAnswered
<1>2. CASE \/ SelectAudioInput \/ SelectAudioOutput \/ SetTargetFps \/ SetRadioEnabled
  BY <1>2, SoundEdits
<1>3. CASE AdoptRecoveredAudioInput \/ ToggleControlledTxMode
  BY <1>3, WrittenAtOnce
<1>4. CASE SetDirectKeyingEnabled \/ SetLineIndex \/ ResetToReferenceDefaults
  BY <1>4, KeyingChanged
<1>5. CASE RunDirectKeyingLoopback
  BY <1>5, LoopbackRun
<1>6. CASE SetOwnCallsign \/ SetDxClusterEnabled \/ SetDxClusterServerIndex
  BY <1>6, ClusterEdits
<1>7. CASE \/ SetDiagnosticsServerEnabled \/ SetDiagnosticsServerToken
           \/ SetDiagnosticsServerAddresses
  BY <1>7, DiagnosticsEdits
<1>8. CASE ChooseSource
  BY <1>8, SourceChosen
<1>9. CASE StateChanged
  BY <1>9, ReportedSource
<1>10. CASE SetReceiverInputType
  BY <1>10, InputTypeSet
<1>11. CASE SelectSdrDevice
  BY <1>11, DeviceSelected
<1>12. CASE RefreshSdrDevices
  BY <1>12, ScanAsked
<1>13. CASE ApplySdrDiscoveryReport
  BY <1>13, ReceiversReported
<1>14. CASE AnswerSdrStartupRestore
  BY <1>14, RestoreAnswered
<1>15. CASE RefuseToApply
  BY <1>15, ApplyRefused
<1>16. CASE Apply
  BY <1>16, Applied
<1>17. CASE CompleteSetup
  BY <1>17, SetupCompleted
<1>18. CASE SelectProfile
  BY <1>18, ProfileSelected
<1>19. CASE CreateProfile
  BY <1>19, ProfileCreated
<1>20. CASE Restart
  BY <1>20, Restarted
<1>21. QED
  BY <1>1, <1>2, <1>3, <1>4, <1>5, <1>6, <1>7, <1>8, <1>9, <1>10, <1>11, <1>12, <1>13, <1>14,
     <1>15, <1>16, <1>17, <1>18, <1>19, <1>20 DEF ProfilesNext

(* The settings, what is stored of them and what was measured agree.       *)
LEMMA ProfilesStateHolds == ProfilesSpec => []ProfilesState
<1>1. QED
  BY ProfilesBegin, ProfilesStep, PTL DEF ProfilesSpec

(* AcceptanceIsMeasured: AppSettings offers direct keying only for lines   *)
(* that passed the loopback test on a straight plug with the radio         *)
(* disconnected, after any sequence of edits, applies, changes of profile, *)
(* restarts and writes that failed.                                        *)
THEOREM OfferedAsMeasured == ProfilesSpec => []AcceptanceIsMeasured
<1>1. ProfilesState => AcceptanceIsMeasured
  <2>1. SUFFICES ASSUME ProfilesState, memory.validated PROVE Config(memory) \in looped
    BY DEF ProfilesState, Proper, AcceptanceIsMeasured
  <2>2. /\ memory \in Memories /\ memory.accepted = Config(memory)
        /\ memory.accepted \in looped \cup {NoConfig}
    BY <2>1 DEF ProfilesState, Proper
  <2>3. Config(memory) \in Configs
    BY <2>2, ConfigOf
  <2>4. \A config \in Configs : config # NoConfig
    BY DEF Configs, NoConfig, Lines
  <2>5. QED
    BY <2>2, <2>3, <2>4
<1>2. QED
  BY <1>1, ProfilesStateHolds, PTL

(* ProfilesInv: what AppSettings applied or wrote through is what the next *)
(* start loads; no settings in memory are unguarded, however the stored    *)
(* keys were edited; a start that asked for its receiver has an answer on  *)
(* the way.                                                                *)
THEOREM SettingsComeBack == ProfilesSpec => []ProfilesInv
<1>1. ProfilesState => ProfilesInv
  <2>1. SUFFICES ASSUME ProfilesState PROVE ProfilesInv
    OBVIOUS
  <2>2. memory \in Memories /\ Proper(memory, looped) /\ Guards(memory, servers) /\ servers \in Nat
    BY <2>1, MemoryIs DEF ProfilesState
  <2>3. ProfilesTypeOK
    BY <2>1, <2>2 DEF ProfilesTypeOK, ProfilesState, Memories
  <2>4. NothingUnguarded
    BY <2>2 DEF NothingUnguarded, Guards
  <2>5. AppliedComesBack
    <3> DEFINE fresh == WithReferenceDefaults(Fresh)
               m == Loaded(fresh, disk[profile], servers)
    <3>1. SUFFICES ASSUME settled PROVE ComesBackAs(m, memory)
      BY Zenon DEF AppliedComesBack, ComesBackAs
    <3>2. fresh \in Memories
      BY FreshIsSound DEF Proper
    <3>3. LoadsAs(disk[profile], servers, memory) /\ WellStored(disk[profile])
      BY <2>1, <3>1 DEF ProfilesState, SettledTruly, AllStored, ProperlyStored
    <3> HIDE DEF fresh
    <3>4. m = LoadedFrom(disk[profile], servers)
      BY <3>2, LoadedIs
    <3> HIDE DEF m
    <3>5. QED
      BY <2>2, <3>3, <3>4, ComesBack
  <2>6. QED
    BY <2>1, <2>3, <2>4, <2>5 DEF ProfilesInv, ProfilesState
<1>2. QED
  BY <1>1, ProfilesStateHolds, PTL
=============================================================================
