---------------------------- MODULE RadioControlOps ----------------------------
(***************************************************************************)
(* What every radio provider reports and accepts: a state whose fields are *)
(* each known, unknown or unavailable, a set of capabilities, and the      *)
(* validation of a command against both.                                   *)
(***************************************************************************)
EXTENDS Integers, SequencesExt

(* The checked arithmetic between what a radio's dial shows and what is on *)
(* the air, and the choice of the OmniRig property that a frequency is     *)
(* read from or written to.  A frequency is an unsigned integer of a fixed *)
(* width and an offset a signed one; NoHz, which is zero hertz, stands for *)
(* a frequency that does not exist or does not fit.                        *)
CONSTANT MaxHz   \* the largest frequency the integer type holds
ASSUME WidthAssumption == MaxHz \in Nat /\ MaxHz >= 1000

NoHz == 0
Hertz == 1..MaxHz

AddSignedOffset(frequency, offset) ==
  IF frequency + offset \in Hertz THEN frequency + offset ELSE NoHz

(* A plan holds the two dials; a radio in simplex transmits on the first.  *)
TxDial(plan) == IF plan.split THEN plan.tx ELSE plan.rx
ResolveFrequencies(plan, rxOffset, txOffset) ==
  LET rf == [rx |-> AddSignedOffset(plan.rx, rxOffset),
             tx |-> AddSignedOffset(TxDial(plan), txOffset)]
  IN  IF plan.rx = NoHz \/ TxDial(plan) = NoHz \/ rf.rx = NoHz \/ rf.tx = NoHz
        THEN [rx |-> NoHz, tx |-> NoHz]
        ELSE rf

(* The dial that puts the radio on an actual frequency: a positive offset  *)
(* may not use it up and a negative one may not carry it past the width.   *)
ResolveDialFrequency(rf, offset) ==
  IF rf = NoHz \/ (offset >= 0 /\ rf <= offset) \/ (offset < 0 /\ rf > MaxHz + offset)
    THEN NoHz
    ELSE rf - offset

(* Defect: the step is taken from what the radio last reported, so steps   *)
(* made faster than the readback are lost.                                 *)
StepFromReported(reported, pending, step, direction) ==
  AddSignedOffset(reported, direction * step)

(* One step of the dial, from the last request that was not yet confirmed. *)
StepRxFrequency(reported, pending, step, direction) ==
  LET base == IF pending = NoHz THEN reported ELSE pending
  IN  IF reported = NoHz \/ step = 0 THEN NoHz
      ELSE IF direction < 0
        THEN IF base > step THEN base - step ELSE NoHz
        ELSE IF base <= MaxHz - step THEN base + step ELSE NoHz

-----------------------------------------------------------------------------
(***************************************************************************)
(* A frequency as it is typed.  A symbol is a digit, 0 to 9, or a point or *)
(* a comma, the Separator; the unit is ten to the power of digits, which   *)
(* bounds the decimals.  whole is compared with the width before it is     *)
(* multiplied, never after.                                                *)
(***************************************************************************)
Separator == 10
NotParsed == [whole |-> 0, fraction |-> 0, decimals |-> 0, digit |-> FALSE, separator |-> FALSE, ok |-> FALSE]

ParseSymbol(state, symbol, digits) ==
  IF ~state.ok THEN state
  ELSE IF symbol = Separator
    THEN [state EXCEPT !.separator = TRUE, !.ok = ~state.separator /\ state.digit]
  ELSE IF state.separator
    THEN [state EXCEPT !.fraction = 10 * @ + symbol, !.decimals = @ + 1,
                       !.digit = TRUE, !.ok = state.decimals < digits]
  ELSE [state EXCEPT !.whole = 10 * @ + symbol, !.digit = TRUE,
                     !.ok = state.whole <= (MaxHz - symbol) \div 10]
ParseFrequencyValue(text, digits) ==
  LET read == FoldLeft(LAMBDA state, symbol : ParseSymbol(state, symbol, digits),
                       [NotParsed EXCEPT !.ok = TRUE], text)
      hz == read.fraction * 10^(digits - read.decimals)
  IN  IF ~read.ok \/ ~read.digit \/ (read.separator /\ read.decimals = 0)
         \/ read.whole > (MaxHz - hz) \div 10^digits
        THEN NoHz
        ELSE read.whole * 10^digits + hz

-----------------------------------------------------------------------------
(***************************************************************************)
(* OmniRig publishes the frequencies of VFO A, of VFO B and of whichever   *)
(* is selected, which of them can be written, and, for some radios, which  *)
(* VFO receives and which transmits: "AB" receives on A.                   *)
(***************************************************************************)
NoVfo == ""
RxProperty(layout) ==
  IF layout \in {"AA", "AB", "A"} THEN "FreqA"
  ELSE IF layout \in {"BA", "BB", "B"} THEN "FreqB" ELSE "None"
TxProperty(layout) ==
  IF layout \in {"AA", "BA", "A"} THEN "FreqA"
  ELSE IF layout \in {"AB", "BB", "B"} THEN "FreqB" ELSE "None"
OtherProperty(property) ==
  IF property = "FreqA" THEN "FreqB" ELSE IF property = "FreqB" THEN "FreqA" ELSE "None"

(* A radio that does not name its VFOs, in split, receives on A and        *)
(* transmits on B, if the property can be written.                         *)
ConventionalTarget(named, split, transmit, writable) ==
  LET target == IF transmit THEN "FreqB" ELSE "FreqA"
  IN  IF ~named /\ split /\ target \in writable THEN target ELSE "None"

ActiveVfoIsReceive(named, split) == ~named /\ ~split

(* What a receive frequency is written to.                                 *)
SelectRxTarget(online, receiving, writable, layout) ==
  IF ~online \/ ~receiving THEN "None"
  ELSE IF RxProperty(layout) \in writable THEN RxProperty(layout)
  ELSE IF "Freq" \in writable THEN "Freq" ELSE "None"

-----------------------------------------------------------------------------
Known == "Known"
Unknown == "Unknown"
Unavailable == "Unavailable"

NoMode == "?"
Modes == {"CW", "CW-R", "USB", "LSB", NoMode}
VfoNames == {"A", "B"}
Capabilities == {"SetRxFrequency", "SetTxFrequency", "SetRxMode", "SetTxMode",
                 "SelectRxVfo", "SelectTxVfo", "SetSplit"}

(* A field that was read, and one that was not.                            *)
Read(value) == [obs |-> Known, val |-> value]
Unread(obs, none) == [obs |-> obs, val |-> none]
ReadUnless(none, value) == IF value = none THEN Unread(Unknown, none) ELSE Read(value)

Blank(obs) ==
  [avail |-> obs, rx |-> Unread(obs, NoHz), tx |-> Unread(obs, NoHz),
   rxMode |-> Unread(obs, NoMode), txMode |-> Unread(obs, NoMode),
   rxVfo |-> Unread(obs, NoVfo), txVfo |-> Unread(obs, NoVfo),
   split |-> Unread(obs, "?"), caps |-> Unread(obs, {})]
NoRadio == Blank(Unavailable)

FieldIsValid(field, none) == (field.obs = Known) <=> (field.val # none)
Frequencies == {"rx", "tx"}
ModeFields == {"rxMode", "txMode"}
VfoFields == {"rxVfo", "txVfo"}
RadioStateIsValid(s) ==
  /\ \A f \in Frequencies : FieldIsValid(s[f], NoHz)
  /\ \A f \in ModeFields : FieldIsValid(s[f], NoMode)
  /\ \A f \in VfoFields : FieldIsValid(s[f], NoVfo)
  /\ FieldIsValid(s.split, "?")
  /\ s.caps.obs = Known \/ s.caps.val = {}
  /\ s.caps.val \subseteq Capabilities
  /\ s.avail = Unavailable =>
       \A f \in Frequencies \cup ModeFields \cup VfoFields \cup {"split"} : s[f].obs # Known

HasCapability(s, capability) == s.caps.obs = Known /\ capability \in s.caps.val

(* A command names the capability it needs and carries a value.            *)
Command(capability, value) == [needs |-> capability, val |-> value]
ValueIsValid(command) ==
  CASE command.needs \in {"SetRxFrequency", "SetTxFrequency"} -> command.val # NoHz
    [] command.needs \in {"SetRxMode", "SetTxMode"} -> command.val # NoMode
    [] command.needs \in {"SelectRxVfo", "SelectTxVfo"} -> command.val # NoVfo
    [] OTHER -> TRUE
CommandIsValid(s, command) ==
  /\ ValueIsValid(command)
  /\ RadioStateIsValid(s)
  /\ s.avail = Known
  /\ HasCapability(s, command.needs)

SplitOrSettable(s) == s.split.val = "Enabled" \/ HasCapability(s, "SetSplit")
PointedTxIsAvailable(s) ==
  /\ RadioStateIsValid(s) /\ s.avail = Known
  /\ HasCapability(s, "SetTxFrequency") /\ SplitOrSettable(s)
TxSyncIsAvailable(s) == s.rx.obs = Known /\ PointedTxIsAvailable(s)

(* The plan of a state in which the three fields it needs were read.       *)
PlanIsKnown(s) == s.rx.obs = Known /\ s.tx.obs = Known /\ s.split.obs = Known
PlanOf(s) == [rx |-> s.rx.val, tx |-> s.tx.val, split |-> s.split.val = "Enabled"]

-----------------------------------------------------------------------------
(***************************************************************************)
(* CAT4OM's picture of a radio.  vfos holds the frequency and the mode of  *)
(* the VFOs the server describes; commands are those it advertises.        *)
(***************************************************************************)
NoVfos == [v \in {} |-> NoHz]
NoCat4OmRadio ==
  [id |-> "", connected |-> FALSE, active |-> NoVfo, tx |-> NoVfo, split |-> FALSE,
   vfos |-> NoVfos, commands |-> {}]

HzOf(radio, vfo) == IF vfo \in DOMAIN radio.vfos THEN radio.vfos[vfo].hz ELSE NoHz
ModeOf(radio, vfo) == IF vfo \in DOMAIN radio.vfos THEN radio.vfos[vfo].mode ELSE NoMode

(* Both frequencies are needed; in simplex they are the same.              *)
Cat4OmPlanIsKnown(radio) ==
  HzOf(radio, radio.active) # NoHz /\ HzOf(radio, IF radio.split THEN radio.tx ELSE radio.active) # NoHz

Granted(radio, writable) ==
  IF ~writable THEN {}
  ELSE UNION {CASE command = "SetFrequency" -> {"SetRxFrequency", "SetTxFrequency"}
                [] command = "SetMode" -> {"SetRxMode", "SetTxMode"}
                [] command = "SetVfo" -> {"SelectRxVfo", "SelectTxVfo"}
                [] command = "SetSplit" -> {"SetSplit"} : command \in radio.commands}

Cat4OmRadioState(radio, writable) ==
  IF ~radio.connected THEN NoRadio
  ELSE [avail |-> Known,
        rx |-> ReadUnless(NoHz, HzOf(radio, radio.active)),
        tx |-> ReadUnless(NoHz, HzOf(radio, radio.tx)),
        rxMode |-> ReadUnless(NoMode, ModeOf(radio, radio.active)),
        txMode |-> ReadUnless(NoMode, ModeOf(radio, radio.tx)),
        rxVfo |-> ReadUnless(NoVfo, radio.active),
        txVfo |-> ReadUnless(NoVfo, radio.tx),
        split |-> Read(IF radio.split THEN "Enabled" ELSE "Disabled"),
        caps |-> Read(Granted(radio, writable))]
=============================================================================
