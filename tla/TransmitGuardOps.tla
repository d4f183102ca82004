--------------------------- MODULE TransmitGuardOps ---------------------------
(***************************************************************************)
(* The operations of cwassistant::core::TransmitGuard, the state machine   *)
(* that grants permission to transmit, as functions from a guard value to  *)
(* a guard value, each with the predicate that says whether the call       *)
(* answers true.  The guard reads one thing that others change: the set of *)
(* ignored callsigns of the CallsignPolicy it was built with.              *)
(*                                                                         *)
(* Operator input is raw text.  What CallsignPolicy::normalize and         *)
(* normalize_message make of it is a parameter: any function that maps     *)
(* some inputs to one normal form and rejects others.                      *)
(***************************************************************************)
EXTENDS Integers

CONSTANTS
  Calls, NoCall,            \* normalized callsigns; the empty string
  RawCalls, NormalizeCall,  \* callsign texts; CallsignPolicy::normalize
  Messages, NoMessage,      \* normalized messages; the empty string
  RawMessages, NormalizeMessage,
  MaxTime,                  \* bound on the watchdog's clock readings
  KeyDeadline,              \* TransmitGuard::kMaximumContinuousKeyDownNs
  TuneDeadline              \* TransmitGuard::kMaximumTuneKeyDownNs

ASSUME GuardAssumption ==
  /\ NoCall \notin Calls
  /\ NoMessage \notin Messages
  /\ NormalizeCall \in [RawCalls -> Calls \cup {NoCall}]
  /\ NormalizeMessage \in [RawMessages -> Messages \cup {NoMessage}]
  /\ MaxTime \in Nat
  /\ KeyDeadline \in Nat
  /\ TuneDeadline \in Nat

Clock == 0..MaxTime

TransmitStates ==
  {"Disarmed", "Armed", "AwaitingConfirmation", "Confirmed", "Transmitting",
   "Tuning", "Fault"}
OutputStates == {"Transmitting", "Tuning"}

Guards ==
  [state : TransmitStates, call : Calls \cup {NoCall},
   message : Messages \cup {NoMessage}, messageConfirmed : BOOLEAN,
   keyDown : BOOLEAN, keyDownSince : Clock, tuneReturn : TransmitStates]

NewGuard ==
  [state |-> "Disarmed", call |-> NoCall, message |-> NoMessage,
   messageConfirmed |-> FALSE, keyDown |-> FALSE, keyDownSince |-> 0,
   tuneReturn |-> "Armed"]

ForgetMessage(g) == [g EXCEPT !.message = NoMessage, !.messageConfirmed = FALSE]
ForgetQso(g) == [ForgetMessage(g) EXCEPT !.call = NoCall]
KeyReleased(g) == [g EXCEPT !.keyDown = FALSE, !.keyDownSince = 0]
Enter(g, state) == [g EXCEPT !.state = state]

-----------------------------------------------------------------------------
Disarm(g) == Enter(KeyReleased(ForgetQso(g)), "Disarmed")
TripFault(g) == Enter(KeyReleased(ForgetQso(g)), "Fault")

CanArm(g) == g.state = "Disarmed"
Arm(g) == IF CanArm(g) THEN Enter(g, "Armed") ELSE g

CanResetFault(g) == g.state = "Fault"
ResetFault(g) == IF CanResetFault(g) THEN Enter(g, "Disarmed") ELSE g

CanRequestQso(g, raw, ignored) ==
  /\ g.state = "Armed"
  /\ NormalizeCall[raw] \in Calls \ ignored
RequestQso(g, raw, ignored) ==
  IF CanRequestQso(g, raw, ignored)
    THEN Enter([g EXCEPT !.call = NormalizeCall[raw]], "AwaitingConfirmation")
    ELSE g

NamesPending(g, raw) ==
  /\ g.state = "AwaitingConfirmation"
  /\ NormalizeCall[raw] \in Calls
  /\ NormalizeCall[raw] = g.call

CanConfirm(g, raw, ignored) == NamesPending(g, raw) /\ g.call \notin ignored
(* A call that was put on the ignore list while its confirmation was       *)
(* awaited is dropped, not merely refused.                                 *)
Confirm(g, raw, ignored) ==
  CASE ~NamesPending(g, raw) -> g
    [] NamesPending(g, raw) /\ g.call \in ignored ->
         Enter([g EXCEPT !.call = NoCall], "Armed")
    [] CanConfirm(g, raw, ignored) -> Enter(g, "Confirmed")

-----------------------------------------------------------------------------
CanStageMessage(g, raw) ==
  g.state = "Confirmed" /\ NormalizeMessage[raw] # NoMessage

StageMessage(g, raw) ==
  IF CanStageMessage(g, raw)
    THEN [g EXCEPT !.message = NormalizeMessage[raw], !.messageConfirmed = FALSE]
    ELSE g

MatchesStaged(g, raw) ==
  NormalizeMessage[raw] # NoMessage /\ NormalizeMessage[raw] = g.message
CanConfirmMessage(g, raw) ==
  /\ g.state = "Confirmed"
  /\ g.message # NoMessage
  /\ MatchesStaged(g, raw)
(* A text that does not match also withdraws an earlier confirmation. *)
ConfirmMessage(g, raw) ==
  IF g.state = "Confirmed" /\ g.message # NoMessage
    THEN [g EXCEPT !.messageConfirmed = MatchesStaged(g, raw)]
    ELSE g

MessageReady(g) ==
  g.state = "Confirmed" /\ g.message # NoMessage /\ g.messageConfirmed
CanBeginTransmission(g, ignored) == MessageReady(g) /\ g.call \notin ignored

BeginTransmission(g, ignored) ==
  CASE ~MessageReady(g) -> g
    [] MessageReady(g) /\ g.call \in ignored -> Enter(ForgetQso(g), "Armed")
    [] CanBeginTransmission(g, ignored) -> Enter(KeyReleased(g), "Transmitting")

CanFinishTransmission(g) == g.state = "Transmitting"

(* Defect: the message sent stays staged and confirmed. *)
FinishTransmissionKeepingMessage(g) ==
  IF CanFinishTransmission(g) THEN Enter(KeyReleased(g), "Confirmed") ELSE g

FinishTransmission(g) ==
  IF CanFinishTransmission(g)
    THEN Enter(ForgetMessage(KeyReleased(g)), "Confirmed")
    ELSE g

CanEndQso(g) == g.state = "Confirmed"

EndQso(g) == IF CanEndQso(g) THEN Enter(ForgetQso(g), "Armed") ELSE g

-----------------------------------------------------------------------------
CanBeginTune(g) == g.state \in {"Armed", "Confirmed"}

BeginTune(g) ==
  IF CanBeginTune(g)
    THEN Enter(KeyReleased([g EXCEPT !.tuneReturn = g.state]), "Tuning")
    ELSE g

CanFinishTune(g) == g.state = "Tuning"
FinishTune(g) ==
  IF CanFinishTune(g) THEN Enter(KeyReleased(g), g.tuneReturn) ELSE g

Deadline(g) == IF g.state = "Tuning" THEN TuneDeadline ELSE KeyDeadline
KeyHeldTooLong(g, now) ==
  g.keyDown /\ (now < g.keyDownSince \/ now - g.keyDownSince > Deadline(g))

(* Defect: every observation of KEY down restarts the watchdog. *)
ObserveKeyStateRestarting(g, down, now) ==
  IF g.state \in OutputStates
    THEN [g EXCEPT !.keyDown = down, !.keyDownSince = IF down THEN now ELSE 0]
    ELSE IF down THEN TripFault(g) ELSE g

ObserveKeyState(g, down, now) ==
  CASE g.state \notin OutputStates -> IF down THEN TripFault(g) ELSE g
    [] g.state \in OutputStates /\ ~down -> KeyReleased(g)
    [] g.state \in OutputStates /\ down ->
         CASE ~g.keyDown -> [g EXCEPT !.keyDown = TRUE, !.keyDownSince = now]
           [] g.keyDown /\ KeyHeldTooLong(g, now) -> TripFault(g)
           [] g.keyDown /\ ~KeyHeldTooLong(g, now) -> g
KeyStateAccepted(g, down, now) ==
  IF g.state \in OutputStates THEN ~(down /\ KeyHeldTooLong(g, now)) ELSE ~down
=============================================================================
