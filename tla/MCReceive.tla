-------------------------------- MODULE MCReceive --------------------------------
(***************************************************************************)
(* The parts of the receive path that share no state, in one instance: a   *)
(* behaviour works one of them and leaves the others at rest.              *)
(***************************************************************************)
EXTENDS SpscRing, SdrCapture, LiveReception,
        CharacterLanes, CharacterConsensus, CharacterInference, ChannelBank

CONSTANT Parts
VARIABLE part

AtRest(p) ==
  /\ IF p = "ring" THEN TRUE ELSE UNCHANGED ringVars
  /\ IF p = "sdr" THEN TRUE ELSE UNCHANGED sdrVars
  /\ IF p = "reception" THEN TRUE ELSE UNCHANGED receptionVars
  /\ IF p = "lanes" THEN TRUE ELSE UNCHANGED lanesVars
  /\ IF p = "consensus" THEN TRUE ELSE UNCHANGED consensusVars
  /\ IF p = "inference" THEN TRUE ELSE UNCHANGED inferenceVars
  /\ IF p = "bank" THEN TRUE ELSE UNCHANGED bankVars

ReceiveInit ==
  /\ part \in Parts
  /\ RingInit /\ SdrInit /\ ReceptionInit /\ LanesInit /\ ConsensusInit /\ InferenceInit /\ BankInit
  /\ part # "reception" => permission = "granted"
  /\ part # "bank" => bank = EmptyBank
  /\ part # "sdr" => hardware = CHOOSE f \in Tunable : TRUE
  /\ part # "sdr" => dsp.wanted = hardware
ReceiveNext ==
  /\ UNCHANGED part
  /\ \/ part = "ring" /\ RingNext /\ AtRest("ring")
     \/ part = "sdr" /\ SdrNext /\ AtRest("sdr")
     \/ part = "reception" /\ ReceptionNext /\ AtRest("reception")
     \/ part = "lanes" /\ LanesNext /\ AtRest("lanes")
     \/ part = "consensus" /\ ConsensusNext /\ AtRest("consensus")
     \/ part = "inference" /\ InferenceNext /\ AtRest("inference")
     \/ part = "bank" /\ BankNext /\ AtRest("bank")
ReceiveSpec ==
  /\ ReceiveInit /\ [][ReceiveNext]_<<part, ringVars, sdrVars, receptionVars,
                                     lanesVars, consensusVars, inferenceVars, bankVars>>
  /\ WF_receptionVars(Capturing) /\ WF_receptionVars(DspTakes) /\ WF_receptionVars(Hearing)

-----------------------------------------------------------------------------
MCLaneInputs ==
  {[verified |-> TRUE, selected |-> FALSE, active |-> TRUE],
   [verified |-> FALSE, selected |-> TRUE, active |-> FALSE],
   [verified |-> FALSE, selected |-> FALSE, active |-> TRUE]}
MCSent == <<"K", "1", "T">>
MCProducers == {<<0, 1>>, <<0, 2>>, <<1, 1>>}

(* What a small channel bank may see: frequencies 1 to 4, two steps apart  *)
(* where two signals are told apart.                                       *)
MCWhole == <<1, 4>>
MCFrames ==
  [band : {MCWhole}, peaks : {<<>>, <<1>>, <<2>>, <<1, 3>>, <<3, 1>>}, steady : {TRUE}, due : {TRUE}]
  \cup [band : {<<3, 4>>}, peaks : {<<>>, <<3>>}, steady : {FALSE}, due : BOOLEAN]
MCRead(found, call, times, keyers) ==
  [evidence |-> found, call |-> call, times |-> times, keyers |-> keyers,
   recovers |-> found = "implausible"]
MCReadings ==
  {MCRead("copied", "A", 1, "none yet"), MCRead("copied", "B", 2, "several"),
   MCRead("poor", NoCall, 0, "one"), MCRead("implausible", NoCall, 0, "none yet"),
   MCRead("silence", NoText, 0, "none yet")}
MCShifts == {-2, 1}

(* An empty bank; one that has verified two streams; one that has verified  *)
(* a stream, and was then pointed at a place next to it.                    *)
MCHeard(peaks, decoded) ==
  ProcessSamples(UpdateSpectrum(EmptyBank,
                   [at |-> 1, band |-> MCWhole, peaks |-> peaks, due |-> TRUE, steady |-> TRUE,
                    clear |-> FALSE, faint |-> 0, audible |-> {}]), decoded, FALSE, 1)
MCBegin(b) == [bank |-> b, retained |-> RebuildSnapshots(<<>>, b.tracks, 1), said |-> ReadBy(b.tracks)]
MCFirst == MCRead("copied", "A", 1, "none yet")
MCSecond == MCRead("copied", "B", 1, "none yet")
MCBeginnings ==
  {MCBegin(EmptyBank), MCBegin(MCHeard(<<1, 3>>, <<MCFirst, MCSecond>>)),
   MCBegin(SelectFrequency(MCHeard(<<1>>, <<MCFirst>>), 2, 0))}

MCFewFrames == [band : {MCWhole}, peaks : {<<1, 3>>, <<2>>, <<1>>}, steady : {TRUE}, due : {TRUE}]
MCFewReadings == {MCRead("copied", NoCall, 0, "none yet"), MCRead("poor", NoText, 0, "none yet")}
=============================================================================
