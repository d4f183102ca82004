----------------------------- MODULE RadioSettings -----------------------------
(***************************************************************************)
(* AppSettings with the operator at its controls, a rig behind OmniRig     *)
(* whose owner turns its knobs, and two clients of other providers that    *)
(* report what they please.  OmniRig and CAT4OM are read every 200 ms, the *)
(* Hamlib client also when it reports.                                     *)
(***************************************************************************)
EXTENDS RadioControlOps

(* The radio behind OmniRig, as AppSettings reads it and writes to it.  A  *)
(* rig has two VFOs, of which one is selected; it names the VFOs that      *)
(* receive and transmit (layout), names none, or has no such property      *)
(* (Absent).  writable is the mask of the parameters that can be set.      *)
Absent == "absent"
Label(property) == IF property = "FreqA" THEN "A" ELSE IF property = "FreqB" THEN "B" ELSE NoVfo
PropertyHz(rig, property) ==
  IF property = "None" THEN NoHz
  ELSE rig.hz[IF property = "Freq" THEN rig.selected ELSE Label(property)]

Named(rig) == RxProperty(rig.layout) # "None"
SplitOn(rig) == rig.split = "Enabled"
Conventional(rig, transmit) == ConventionalTarget(Named(rig), SplitOn(rig), transmit, rig.writable)

(* The VFO the radio named, then the one the split convention implies; the *)
(* selected one only where one VFO is in play.                             *)
RxSource(rig) ==
  IF Named(rig) THEN RxProperty(rig.layout)
  ELSE IF Conventional(rig, FALSE) # "None" THEN Conventional(rig, FALSE)
  ELSE IF ActiveVfoIsReceive(Named(rig), SplitOn(rig)) THEN "Freq" ELSE "None"
(* Out of split it is the standby VFO that would transmit.                 *)
TxSource(rig) ==
  IF ~SplitOn(rig) THEN OtherProperty(RxProperty(rig.layout))
  ELSE IF rig.layout = Absent THEN Conventional(rig, TRUE) ELSE TxProperty(rig.layout)

WriteTarget(rig) == SelectRxTarget(rig.online, rig.receiving, rig.writable, rig.layout)

OmniRigCapabilities(rig, target) ==
  {c \in Capabilities :
     \/ c = "SetRxFrequency" /\ target # "None"
     \/ c = "SetTxFrequency" /\ TxSource(rig) # "None" /\ TxSource(rig) \in rig.writable
     \/ c = "SetRxMode" /\ "mode" \in rig.writable
     \/ c = "SetSplit" /\ "split" \in rig.writable}

(* The modes of the VFOs are remembered as each receives: a transmit mode  *)
(* is what its VFO was last heard with.                                    *)
SeenModes(modes, rig) ==
  IF Named(rig) /\ rig.mode # NoMode
    THEN [modes EXCEPT ![Label(RxProperty(rig.layout))] = rig.mode] ELSE modes

(* A receive frequency that cannot be read this time is held; everything   *)
(* else that was not read is unknown.                                      *)
OmniRigState(previous, rig, target, modes) ==
  LET hz == PropertyHz(rig, RxSource(rig))
      tx == TxSource(rig)
      rxLabel == IF RxSource(rig) = "Freq" THEN NoVfo ELSE Label(RxSource(rig))
  IN  IF ~rig.online THEN NoRadio
      ELSE [avail |-> Known,
            rx |-> IF hz = NoHz /\ previous.rx.obs = Known THEN previous.rx ELSE ReadUnless(NoHz, hz),
            tx |-> ReadUnless(NoHz, PropertyHz(rig, tx)),
            rxMode |-> ReadUnless(NoMode, rig.mode),
            txMode |-> ReadUnless(NoMode, IF tx = "None" THEN NoMode ELSE modes[Label(tx)]),
            rxVfo |-> ReadUnless(NoVfo, rxLabel),
            txVfo |-> ReadUnless(NoVfo, Label(tx)),
            split |-> ReadUnless("?", rig.split),
            caps |-> Read(OmniRigCapabilities(rig, target))]

-----------------------------------------------------------------------------
Moved(rig, property, hz) ==
  [rig EXCEPT !.hz[IF property = "Freq" THEN rig.selected ELSE Label(property)] = hz]

(* The rig after a write, or the same rig when the write is refused.       *)
WriteOmniRigRx(rig, hz) == IF WriteTarget(rig) = "None" THEN rig ELSE Moved(rig, WriteTarget(rig), hz)

(* The transmit VFO that was last read comes before the one named now: a   *)
(* radio that was just put in split may not name it yet.                   *)
TxTarget(rig, state) ==
  IF state.txVfo.obs = Known THEN (IF state.txVfo.val = "A" THEN "FreqA" ELSE "FreqB")
  ELSE TxProperty(rig.layout)
TxIsWritten(rig, state) == TxTarget(rig, state) \in rig.writable
WriteOmniRigTx(rig, state, hz) ==
  IF TxIsWritten(rig, state) THEN Moved(rig, TxTarget(rig, state), hz) ELSE rig

WriteOmniRigMode(rig, mode) == IF "mode" \in rig.writable THEN [rig EXCEPT !.mode = mode] ELSE rig
WriteOmniRigSplit(rig, enabled) ==
  IF "split" \in rig.writable
    THEN [rig EXCEPT !.split = IF enabled THEN "Enabled" ELSE "Disabled"] ELSE rig

-----------------------------------------------------------------------------
(* The radio half of AppSettings, as functions from the settings to the    *)
(* settings: the state of the radio it was last told, the receive          *)
(* frequency that was asked for and not yet reported, and the window of    *)
(* the SDR receiver, which follows the radio when Radio Sync is on.  A     *)
(* setter emits settingsChanged, whose first listener refreshes the state. *)
CONSTANTS MaxRf,     \* the highest frequency that can be tuned
          Reach      \* how far the decode window may be from the acquisition centre
ASSUME TuningAssumption == MaxRf \in 1..MaxHz /\ Reach \in Nat

OmniRig == 0
Hamlib == 1
Cat4Om == 2
NoBackend == -1

Clamped(value, low, high) == IF value < low THEN low ELSE IF value > high THEN high ELSE value

(* The frequencies on the air, when the provider reports all of the plan.  *)
ControlledRf(s) ==
  IF s.enabled /\ s.linked /\ PlanIsKnown(s.radio)
    THEN ResolveFrequencies(PlanOf(s.radio), s.rxOffset, s.txOffset) ELSE [rx |-> NoHz, tx |-> NoHz]
(* The receive frequency is enough for the SDR to follow.                  *)
ObservedRxRf(s) ==
  IF s.enabled /\ s.radio.rx.obs = Known THEN AddSignedOffset(s.radio.rx.val, s.rxOffset) ELSE NoHz

RxIsWritable(s) == ControlledRf(s).rx # NoHz /\ HasCapability(s.radio, "SetRxFrequency")

-----------------------------------------------------------------------------
(* sdrSettingsChanged: the window is put back within reach of the centre.  *)
ApplySdrInput(s) == [s EXCEPT !.decoder = Clamped(@, s.center - Reach, s.center + Reach)]

SetSdrRadioWindow(s, rf) ==
  ApplySdrInput(
    [s EXCEPT !.center = Clamped(rf + Clamped(s.loOffset, -Reach, Reach), 1, MaxRf), !.decoder = rf])

FollowSdrToRadioVfo(s) ==
  IF s.follow /\ ObservedRxRf(s) # NoHz THEN SetSdrRadioWindow(s, ObservedRxRf(s)) ELSE s

ReapplySdrRadioWindow(s) ==
  IF s.follow THEN FollowSdrToRadioVfo(s)
  ELSE IF s.decoder = NoHz THEN s ELSE SetSdrRadioWindow(s, s.decoder)

ReconcilePending(s) ==
  IF s.pending # NoHz /\ s.owner = s.backend /\ ControlledRf(s).rx = s.pending
    THEN [s EXCEPT !.pending = NoHz, !.owner = NoBackend, !.timer = FALSE] ELSE s

RememberPending(s, rf) == [s EXCEPT !.pending = rf, !.owner = s.backend, !.timer = TRUE]

ForgetPending(s) == [s EXCEPT !.pending = NoHz, !.owner = NoBackend, !.timer = FALSE]

(* provided: what the clients of the other two providers would report.     *)
NextRadio(s, rig, target, provided) ==
  IF ~(s.enabled /\ s.linked) THEN NoRadio
  ELSE IF s.backend = OmniRig THEN OmniRigState(s.radio, rig, target, SeenModes(s.modes, rig))
  ELSE provided[s.backend]

(* Defect: the change of a state is announced before the state is set.     *)
RefreshAnnouncingFirst(s, rig, target, provided) ==
  LET told == IF NextRadio(s, rig, target, provided) # s.radio THEN FollowSdrToRadioVfo(s) ELSE s
  IN  ReconcilePending([told EXCEPT !.radio = NextRadio(s, rig, target, provided),
                          !.target = target, !.modes = SeenModes(@, rig)])

(* A state that differs is announced, and the SDR follows it, before the   *)
(* request that it may answer is reconciled.  The frequency itself differs *)
(* also when it can no longer be read and the state holds it.              *)
RefreshControlledFrequency(s, rig, target, provided) ==
  LET reads == s.enabled /\ s.linked /\ s.backend = OmniRig
      heard == reads /\ rig.online
      read == [s EXCEPT !.radio = NextRadio(s, rig, target, provided),
                        !.target = IF reads THEN target ELSE "None",
                        !.dial = IF heard THEN PropertyHz(rig, RxSource(rig)) ELSE NoHz,
                        !.modes = IF heard THEN SeenModes(@, rig) ELSE @]
      differs == read.dial # s.dial \/ read.target # s.target \/ read.radio # s.radio
  IN  ReconcilePending(IF differs THEN FollowSdrToRadioVfo(read) ELSE read)

-----------------------------------------------------------------------------
(* A profile that is loaded replaces the settings, and leaves a request to *)
(* its timer and the clients of the providers as they are.                 *)
LoadProfile(s, p) ==
  [s EXCEPT !.enabled = p.enabled, !.linked = p.linked, !.backend = p.backend, !.follow = p.follow,
            !.loOffset = p.loOffset, !.rxOffset = p.rxOffset, !.center = p.center, !.decoder = p.decoder]

(* What a setter assigns before it emits settingsChanged, and what it does *)
(* after the refresh that this makes.                                      *)
SetFrequencyBackend(s, backend) ==
  IF s.backend = backend THEN s ELSE ForgetPending([s EXCEPT !.backend = backend])

SetSdrCenter(s, hz) ==
  ApplySdrInput(
    [s EXCEPT !.center = hz,
              !.decoder = IF s.follow THEN @ ELSE Clamped(@ + (hz - s.center), 1, MaxRf)])
SetSdrDecoderCenter(s, hz) == ApplySdrInput([s EXCEPT !.decoder = Clamped(hz, 1, MaxRf)])

(* The request timer gives up on the report.                               *)
RequestTimerFires(s) == [s EXCEPT !.pending = NoHz, !.owner = NoBackend, !.timer = FALSE]

(* What a step of the dial asks for, from the request not yet reported.    *)
SteppedRf(s, direction) ==
  StepRxFrequency(ControlledRf(s).rx, IF s.owner = s.backend THEN s.pending ELSE NoHz, s.step, direction)

RxDial(s, rf) == ResolveDialFrequency(rf, s.rxOffset)
TxDialOf(s, rf) == ResolveDialFrequency(rf, s.txOffset)
RxCommandIsValid(s, rf) ==
  s.enabled /\ RxDial(s, rf) # NoHz /\ CommandIsValid(s.radio, Command("SetRxFrequency", RxDial(s, rf)))

(* The transmit frequency is pointed in split: split is asked for first,   *)
(* and a refusal ends it there.                                            *)
NeedsSplit(s) == s.radio.split.val # "Enabled"
SplitIsValid(s) == CommandIsValid(s.radio, Command("SetSplit", "Enabled"))
TxCommandIsValid(s, rf) ==
  /\ TxDialOf(s, rf) # NoHz
  /\ CommandIsValid(s.radio, Command("SetTxFrequency", TxDialOf(s, rf)))
SyncIsAvailable(s) == ControlledRf(s).rx # NoHz /\ TxSyncIsAvailable(s.radio)

CycledMode(mode) ==
  CASE mode = "USB" -> "LSB" [] mode = "LSB" -> "CW" [] mode = "CW" -> "CW-R" [] OTHER -> "USB"
ToggledTarget(target) == IF target = "CW" THEN "CW-R" ELSE "CW"

-----------------------------------------------------------------------------
CONSTANTS SomeRigs,      \* what the rig can be set to
          SomeRadios,    \* what the other providers may report
          SomeProfiles,  \* what the stored profiles hold
          SomeRf,        \* frequencies the operator types
          TunedRf,       \* bound on the frequencies he steps to
          MaxChanges,    \* bound on the settings he changes
          SomeOffsets    \* offsets he sets

Backends == {OmniRig, Hamlib, Cat4Om}
Layouts == {"AA", "AB", "BA", "BB", "A", "B", NoVfo, Absent}
Parameters == {"Freq", "FreqA", "FreqB", "mode", "split"}
Rigs ==
  [online : BOOLEAN, receiving : BOOLEAN, writable : SUBSET Parameters, layout : Layouts,
   split : {"Enabled", "Disabled", "?"}, hz : [VfoNames -> Nat], selected : VfoNames, mode : Modes]
Profiles ==
  [enabled : BOOLEAN, linked : BOOLEAN, backend : Backends, follow : BOOLEAN, loOffset : Int,
   rxOffset : Int, center : 1..MaxRf, decoder : 1..MaxRf]
ASSUME SettingsAssumption ==
  /\ SomeRigs \subseteq Rigs /\ SomeProfiles \subseteq Profiles
  /\ \A radio \in SomeRadios : RadioStateIsValid(radio)
  /\ SomeRf \subseteq 1..MaxRf /\ TunedRf \subseteq 1..MaxRf /\ SomeOffsets \subseteq Int

VARIABLES
  rs,          \* the settings
  rsRig,       \* the rig
  rsProvided,  \* what the clients of the other providers hold
  rsAsked,     \* history: what the operator's requests add up to
  rsTransmit,  \* history: where the transmit VFO was before a request for a
               \* receive frequency, or NoHz
  rsChanges    \* history: the settings changed
rsVars == <<rs, rsRig, rsProvided, rsAsked, rsTransmit, rsChanges>>

RadioSettingsInit ==
  /\ rsRig \in SomeRigs /\ rsProvided = [b \in {Hamlib, Cat4Om} |-> NoRadio]
  /\ rsAsked = NoHz /\ rsTransmit = NoHz /\ rsChanges = 0
  /\ \E profile \in SomeProfiles :
       rs = LoadProfile([enabled |-> FALSE, linked |-> FALSE, backend |-> OmniRig, radio |-> NoRadio,
              dial |-> NoHz, target |-> "None", modes |-> [v \in VfoNames |-> NoMode], pending |-> NoHz,
              owner |-> NoBackend, timer |-> FALSE, follow |-> FALSE, center |-> 1, decoder |-> 1,
              loOffset |-> 0, rxOffset |-> 0, txOffset |-> 0, step |-> 1, txTarget |-> "CW"], profile)

-----------------------------------------------------------------------------
(* Capabilities are read once a second, frequencies at every refresh.      *)
Targets0 == {rs.target, WriteTarget(rsRig)}
RefreshedIs(s, target) == RefreshControlledFrequency(s, rsRig, target, rsProvided)
Unasked == rsAsked' = (IF rs'.pending = NoHz THEN NoHz ELSE rsAsked) /\ rsTransmit' = NoHz

RadioFrequencyTimer ==
  /\ \E target \in Targets0 : rs' = RefreshedIs(rs, target)
  /\ Unasked /\ UNCHANGED <<rsRig, rsProvided, rsChanges>>

HamlibReports ==
  /\ \E radio \in SomeRadios :
       /\ rsProvided' = [rsProvided EXCEPT ![Hamlib] = radio]
       /\ \E target \in Targets0 : rs' = RefreshControlledFrequency(rs, rsRig, target, rsProvided')
  /\ Unasked /\ UNCHANGED <<rsRig, rsChanges>>

(* CAT4OM's report makes the SDR follow what is known from before.         *)
Cat4OmReports ==
  /\ \E radio \in SomeRadios : rsProvided' = [rsProvided EXCEPT ![Cat4Om] = radio]
  /\ rs' = FollowSdrToRadioVfo(ReconcilePending(rs))
  /\ Unasked /\ UNCHANGED <<rsRig, rsChanges>>

RigChanges ==
  /\ rsRig' \in SomeRigs /\ rsTransmit' = NoHz
  /\ UNCHANGED <<rs, rsProvided, rsAsked, rsChanges>>

RxRequestTimeout ==
  /\ rs.timer /\ rs' = RequestTimerFires(rs)
  /\ Unasked /\ UNCHANGED <<rsRig, rsProvided, rsChanges>>

-----------------------------------------------------------------------------
(* settingsChanged: every setter ends in a refresh, and those on which the *)
(* window depends rebuild it after that.                                   *)
Setting(s) == \E target \in Targets0 : rs' = RefreshedIs(s, target)
SettingThen(s, After(_)) == \E target \in Targets0 : rs' = After(RefreshedIs(s, target))
Set(change) ==
  /\ rsChanges < MaxChanges /\ rsChanges' = rsChanges + 1
  /\ change
  /\ Unasked /\ UNCHANGED <<rsRig, rsProvided>>

DoSetFrequencyBackend ==
  Set(\E backend \in {OmniRig, Hamlib, Cat4Om} :
        /\ backend # rs.backend
        /\ Setting(SetFrequencyBackend(rs, backend)))
DoSetRadioEnabled == Set(Setting([rs EXCEPT !.enabled = ~@]))
DoSetRadioLinked == Set(Setting([rs EXCEPT !.linked = ~@]))
DoSetSdrFollow == Set(SettingThen([rs EXCEPT !.follow = ~@], FollowSdrToRadioVfo))
DoSetLoOffset ==
  Set(\E offset \in SomeOffsets \ {rs.loOffset} :
        SettingThen([rs EXCEPT !.loOffset = offset], ReapplySdrRadioWindow))
DoSetRxOffset ==
  Set(\E offset \in SomeOffsets \ {rs.rxOffset} :
        SettingThen([rs EXCEPT !.rxOffset = offset], FollowSdrToRadioVfo))
DoSetSdrCenter == Set(\E hz \in SomeRf \ {rs.center} : Setting(SetSdrCenter(rs, hz)))
DoSetSdrDecoderCenter == Set(\E hz \in SomeRf \ {rs.decoder} : Setting(SetSdrDecoderCenter(rs, hz)))
DoSelectProfile == Set(\E profile \in SomeProfiles : Setting(LoadProfile(rs, profile)))

-----------------------------------------------------------------------------
(* A write that OmniRig accepts moves the rig; one another provider        *)
(* accepts is under way.                                                   *)
TransmitHz == PropertyHz(rsRig, TxSource(rsRig))
WritesRx(rf, accepted) ==
  /\ RxCommandIsValid(rs, rf)
  /\ IF rs.backend = OmniRig
       THEN /\ accepted = (WriteTarget(rsRig) # "None")
            /\ rsRig' = WriteOmniRigRx(rsRig, RxDial(rs, rf))
       ELSE accepted \in BOOLEAN /\ UNCHANGED rsRig
  /\ rsTransmit' = IF rs.backend = OmniRig /\ Named(rsRig) /\ TxSource(rsRig) # RxSource(rsRig)
                     THEN TransmitHz ELSE NoHz

(* setControlledRxFrequency *)
DoSetControlledRx ==
  \E rf \in SomeRf, accepted \in BOOLEAN :
    /\ RxIsWritable(rs) /\ WritesRx(rf, accepted)
    /\ rs' = IF accepted THEN RememberPending(rs, rf) ELSE rs
    /\ rsAsked' = IF accepted THEN rf ELSE rsAsked
    /\ UNCHANGED <<rsProvided, rsChanges>>

(* stepControlledRxFrequency *)
DoStepControlledRx ==
  \E direction \in {-1, 1}, accepted \in BOOLEAN :
    /\ RxIsWritable(rs) /\ SteppedRf(rs, direction) \in TunedRf
    /\ WritesRx(SteppedRf(rs, direction), accepted)
    /\ rs' = IF accepted THEN RememberPending(rs, SteppedRf(rs, direction)) ELSE rs
    /\ rsAsked' = IF ~accepted THEN rsAsked
                  ELSE (IF rs.owner = rs.backend THEN rsAsked ELSE ControlledRf(rs).rx) + direction * rs.step
    /\ UNCHANGED <<rsProvided, rsChanges>>

(* requestSdrRxFrequencyHz: without Radio Sync the radio is left alone; the *)
(* window moves at once.                                                   *)
DoRequestSdrRx ==
  \E rf \in SomeRf \cup ({rs.decoder - rs.step, rs.decoder + rs.step} \cap TunedRf) :
    IF ~rs.follow
      THEN Set(SettingThen(SetSdrRadioWindow(rs, rf), LAMBDA s : s))
      ELSE \E accepted \in BOOLEAN :
             /\ WritesRx(rf, accepted)
             /\ rs' = IF accepted THEN SetSdrRadioWindow(RememberPending(rs, rf), rf) ELSE rs
             /\ rsAsked' = IF accepted THEN rf ELSE rsAsked
             /\ UNCHANGED <<rsProvided, rsChanges>>

(* requestControlledTxRfFrequency, from an edit or from the receive VFO.   *)
DoSetControlledTx ==
  \E rf \in SomeRf \cup (IF SyncIsAvailable(rs) THEN {ControlledRf(rs).rx} \cap TunedRf ELSE {}) :
    /\ NeedsSplit(rs) => SplitIsValid(rs)
    /\ TxCommandIsValid(rs, rf)
    /\ rsRig' = IF rs.backend # OmniRig \/ (NeedsSplit(rs) /\ "split" \notin rsRig.writable)
                  THEN rsRig
                ELSE WriteOmniRigTx(IF NeedsSplit(rs) THEN WriteOmniRigSplit(rsRig, TRUE) ELSE rsRig,
                                    rs.radio, TxDialOf(rs, rf))
    /\ rsTransmit' = NoHz /\ UNCHANGED <<rs, rsProvided, rsAsked, rsChanges>>

(* cycleControlledRxMode and toggleControlledTxMode; OmniRig sets only the *)
(* receive mode.                                                           *)
DoCycleRxMode ==
  LET mode == CycledMode(rs.radio.rxMode.val)
  IN  /\ CommandIsValid(rs.radio, Command("SetRxMode", mode))
      /\ rsRig' = IF rs.backend = OmniRig THEN WriteOmniRigMode(rsRig, mode) ELSE rsRig
      /\ rsTransmit' = NoHz /\ UNCHANGED <<rs, rsProvided, rsAsked, rsChanges>>
DoToggleTxMode == Set(rs' = FollowSdrToRadioVfo([rs EXCEPT !.txTarget = ToggledTarget(@)]))

RadioSettingsNext ==
  \/ RadioFrequencyTimer \/ HamlibReports \/ Cat4OmReports \/ RigChanges \/ RxRequestTimeout
  \/ DoSetFrequencyBackend \/ DoSetRadioEnabled \/ DoSetRadioLinked \/ DoSetSdrFollow
  \/ DoSetLoOffset \/ DoSetRxOffset \/ DoSetSdrCenter \/ DoSetSdrDecoderCenter \/ DoSelectProfile
  \/ DoSetControlledRx \/ DoStepControlledRx \/ DoRequestSdrRx \/ DoSetControlledTx
  \/ DoCycleRxMode \/ DoToggleTxMode
RadioSettingsSpec == RadioSettingsInit /\ [][RadioSettingsNext]_rsVars

-----------------------------------------------------------------------------
(* app_settings.cpp: a request is pending exactly while its timer runs and *)
(* is then what the operator's requests add up to: steps made faster than  *)
(* the readback are not lost.  No state of a radio outlives the settings   *)
(* that allow it.  A request for a receive frequency leaves the frequency  *)
(* of the transmit VFO alone when the radio says which VFO that is, unless *)
(* the selected VFO is the only one that the request could be written to.  *)
RadioSettingsInv ==
  /\ (rs.pending # NoHz) = rs.timer /\ (rs.owner # NoBackend) = rs.timer
  /\ rs.pending = rsAsked
  /\ ~(rs.enabled /\ rs.linked) => rs.radio = NoRadio
  /\ RadioStateIsValid(rs.radio)
  /\ rsTransmit # NoHz /\ WriteTarget(rsRig) # "Freq" => TransmitHz = rsTransmit

(* "RX edits and edge steps target only the receive VFO" (docs/manuals/    *)
(* operator-guide.md:1372-1373): a request for a receive frequency never   *)
(* moves the VFO that transmits, on a radio that says which one that is.   *)
RxWriteLeavesTx == rsTransmit # NoHz => TransmitHz = rsTransmit

(* With Radio Sync, whatever changes the frequency that the radio receives *)
(* on the air, if it can be tuned, or where the local oscillator should    *)
(* be, leaves the window on the radio's frequency and the acquisition      *)
(* centre at the configured offset.  Without it, a new offset is measured  *)
(* from where the operator is.                                             *)
WindowIsAt(s, rf) ==
  /\ s.decoder = rf
  /\ s.center = Clamped(rf + Clamped(s.loOffset, -Reach, Reach), 1, MaxRf)
WindowMovesWithRadio ==
  [][/\ (rs'.radio # rs.radio \/ DoSetSdrFollow \/ DoSetLoOffset \/ DoSetRxOffset)
          /\ rs'.follow /\ ObservedRxRf(rs') \in 1..MaxRf => WindowIsAt(rs', ObservedRxRf(rs'))
     /\ DoSetLoOffset /\ ~rs'.follow => WindowIsAt(rs', rs.decoder)]_rsVars
=============================================================================
