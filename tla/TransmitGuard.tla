----------------------------- MODULE TransmitGuard -----------------------------
(***************************************************************************)
(* One TransmitGuard, called in any order with any input, while the ignore *)
(* list it reads changes under it.  The controller's own sequence of calls *)
(* is in TransmitStation.tla; here no order is assumed, because each call  *)
(* must refuse to be made out of turn.                                     *)
(***************************************************************************)
EXTENDS TransmitGuardOps

VARIABLES
  guard,     \* the guard
  ignored,   \* CallsignPolicy's ignore list, edited in the settings
  okCall,    \* history: the call the operator confirmed by name in this QSO
  okMessage, \* history: the message the operator confirmed and has not sent
  heldSince, \* history: when KEY was first observed down in this stretch
  lastSeen   \* history: when KEY was last observed down
guardVars == <<guard, ignored, okCall, okMessage, heldSince, lastSeen>>

GuardInit ==
  /\ guard = NewGuard
  /\ ignored \in SUBSET Calls
  /\ okCall = NoCall
  /\ okMessage = NoMessage
  /\ heldSince = 0
  /\ lastSeen = 0

(* A call that leaves the guard at g.  What the operator confirmed lasts   *)
(* as long as the QSO it was confirmed for.                                *)
InQso == {"Confirmed", "Transmitting", "Tuning"}
Becomes(g, call, message) ==
  /\ guard' = g
  /\ okCall' = IF g.state \in InQso THEN call ELSE NoCall
  /\ okMessage' = IF g.state \in InQso THEN message ELSE NoMessage
  /\ UNCHANGED ignored
Call(g) == Becomes(g, okCall, okMessage) /\ UNCHANGED <<heldSince, lastSeen>>

DoArm == Call(Arm(guard))
DoDisarm == Call(Disarm(guard))
DoRequestQso(raw) == Call(RequestQso(guard, raw, ignored))

DoConfirm(raw) ==
  /\ Becomes(Confirm(guard, raw, ignored),
             IF CanConfirm(guard, raw, ignored) THEN NormalizeCall[raw] ELSE okCall,
             okMessage)
  /\ UNCHANGED <<heldSince, lastSeen>>

DoStageMessage(raw) ==
  /\ Becomes(StageMessage(guard, raw), okCall,
             IF CanStageMessage(guard, raw) THEN NoMessage ELSE okMessage)
  /\ UNCHANGED <<heldSince, lastSeen>>

DoConfirmMessage(raw) ==
  /\ Becomes(ConfirmMessage(guard, raw), okCall,
             IF CanConfirmMessage(guard, raw) THEN NormalizeMessage[raw] ELSE okMessage)
  /\ UNCHANGED <<heldSince, lastSeen>>

DoBeginTransmission ==
  /\ Becomes(BeginTransmission(guard, ignored), okCall,
             IF CanBeginTransmission(guard, ignored) THEN NoMessage ELSE okMessage)
  /\ UNCHANGED <<heldSince, lastSeen>>

DoBeginTune == Call(BeginTune(guard))
DoFinishTransmission == Call(FinishTransmission(guard))
DoFinishTune == Call(FinishTune(guard))
DoEndQso == Call(EndQso(guard))
DoTripFault == Call(TripFault(guard))
DoResetFault == Call(ResetFault(guard))

DoObserveKeyState(down, now) ==
  /\ Becomes(ObserveKeyState(guard, down, now), okCall, okMessage)
  /\ heldSince' = IF down /\ ~guard.keyDown THEN now ELSE heldSince
  /\ lastSeen' = IF down THEN now ELSE lastSeen

(* CallsignPolicy's ignore list changes, whatever the guard is doing. *)
EditIgnoreList ==
  /\ ignored' \in SUBSET Calls
  /\ UNCHANGED <<guard, okCall, okMessage, heldSince, lastSeen>>

GuardNext ==
  \/ DoArm
  \/ DoDisarm
  \/ \E raw \in RawCalls : DoRequestQso(raw) \/ DoConfirm(raw)
  \/ \E raw \in RawMessages : DoStageMessage(raw) \/ DoConfirmMessage(raw)
  \/ DoBeginTransmission
  \/ DoBeginTune
  \/ \E down \in BOOLEAN, now \in Clock : DoObserveKeyState(down, now)
  \/ DoFinishTransmission
  \/ DoFinishTune
  \/ DoEndQso
  \/ DoTripFault
  \/ DoResetFault
  \/ EditIgnoreList

GuardSpec == GuardInit /\ [][GuardNext]_guardVars

-----------------------------------------------------------------------------
GuardTypeOK ==
  /\ guard \in Guards
  /\ ignored \subseteq Calls
  /\ okCall \in Calls \cup {NoCall}
  /\ okMessage \in Messages \cup {NoMessage}
  /\ heldSince \in Clock
  /\ lastSeen \in Clock

(* What each state implies about the rest of the guard: a call is pending  *)
(* exactly while one is being worked, nothing is staged outside a          *)
(* confirmed QSO, and the call worked is the one the operator confirmed.   *)
GuardInv ==
  /\ GuardTypeOK
  /\ guard.tuneReturn \in {"Armed", "Confirmed"}
  /\ guard.state \in {"Disarmed", "Armed", "Fault"} => guard.call = NoCall
  /\ guard.state \in {"Disarmed", "Armed", "Fault", "AwaitingConfirmation"} =>
       guard.message = NoMessage
  /\ guard.state = "AwaitingConfirmation" => guard.call # NoCall
  /\ guard.state \in {"Confirmed", "Transmitting"} => guard.call = okCall /\ okCall # NoCall
  /\ guard.state = "Tuning" =>
       IF guard.tuneReturn = "Confirmed"
         THEN guard.call = okCall /\ okCall # NoCall
         ELSE guard.call = NoCall /\ guard.message = NoMessage
  /\ guard.messageConfirmed => guard.message # NoMessage
  /\ guard.messageConfirmed /\ guard.state # "Transmitting" => guard.message = okMessage
  /\ guard.keyDown =>
       /\ guard.state \in OutputStates
       /\ guard.keyDownSince = heldSince
       /\ heldSince <= lastSeen
       /\ lastSeen - heldSince <= Deadline(guard)

(* A transmission begins only to the call the operator confirmed by name   *)
(* and with the message the operator confirmed after it was staged, in     *)
(* this QSO; one confirmation is good for one transmission.                *)
BeginsOnlyConfirmed ==
  guard.state # "Transmitting" /\ guard'.state = "Transmitting" =>
    /\ guard'.call = okCall /\ okCall # NoCall
    /\ guard'.message = okMessage /\ okMessage # NoMessage
TransmitsOnlyConfirmed == [][BeginsOnlyConfirmed]_guardVars

(* A call that is on the ignore list when the transmission begins is never *)
(* transmitted to, though it was not ignored when it was confirmed.        *)
BeginsOnlyUnignored ==
  guard.state # "Transmitting" /\ guard'.state = "Transmitting" =>
    guard'.call \notin ignored
NeverTransmitsToIgnored == [][BeginsOnlyUnignored]_guardVars

(* The confirmed state is reached only with the operator's confirmation of *)
(* that very call: not by TUNE returning, not by a transmission finishing. *)
ConfirmedByOperator == guard.state = "Confirmed" => guard.call = okCall /\ okCall # NoCall

(* KEY observed down is tolerated for the deadline of the state at most,   *)
(* counted from the first observation.                                     *)
KeyWatchdogBound ==
  guard.keyDown => lastSeen - heldSince <= Deadline(guard)
=============================================================================
