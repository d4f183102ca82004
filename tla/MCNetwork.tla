-------------------------------- MODULE MCNetwork --------------------------------
(***************************************************************************)
(* The parts of the program that talk to a radio or to a server and share  *)
(* no state, in one instance: a behaviour works one of them and leaves the *)
(* others at rest.                                                         *)
(***************************************************************************)
EXTENDS HamlibClient, Cat4OmClient, RadioSettings, ControlLease, DxCluster,
        SpotRegistry, SequencesExt

CONSTANT Parts
VARIABLE part
AtRest(p) ==
  /\ IF p = "hamlib" THEN TRUE ELSE UNCHANGED hlVars
  /\ IF p = "cat4om" THEN TRUE ELSE UNCHANGED catVars
  /\ IF p = "settings" THEN TRUE ELSE UNCHANGED rsVars
  /\ IF p = "lease" THEN TRUE ELSE UNCHANGED leaseVars
  /\ IF p = "cluster" THEN TRUE ELSE UNCHANGED clusterVars
  /\ IF p = "spots" THEN TRUE ELSE UNCHANGED spotVars

NetworkInit ==
  /\ part \in Parts
  /\ HamlibInit /\ Cat4OmInit /\ RadioSettingsInit /\ LeaseInit /\ ClusterInit /\ SpotsInit
  /\ part # "hamlib" => panel = CHOOSE p \in Panels : TRUE
  /\ group.radios = CHOOSE r \in Reported : TRUE
  /\ part # "settings" => rsRig = CHOOSE r \in SomeRigs : TRUE
  /\ part # "spots" => retention = CHOOSE r \in Retentions : TRUE
  /\ part # "settings" => rs.center = 10 /\ rs.backend = OmniRig
NetworkNext ==
  /\ UNCHANGED part
  /\ \/ part = "hamlib" /\ HamlibNext /\ AtRest("hamlib")
     \/ part = "cat4om" /\ Cat4OmNext /\ AtRest("cat4om")
     \/ part = "settings" /\ RadioSettingsNext /\ AtRest("settings")
     \/ part = "lease" /\ LeaseNext /\ AtRest("lease")
     \/ part = "cluster" /\ ClusterNext /\ AtRest("cluster")
     \/ part = "spots" /\ SpotsNext /\ AtRest("spots")
NetworkSpec ==
  /\ NetworkInit
  /\ [][NetworkNext]_<<part, hlVars, catVars, rsVars, leaseVars, clusterVars, spotVars>>
  /\ WF_clusterVars(ReconnectTimerFires)

-----------------------------------------------------------------------------
(* What a text of digits and separators says, read as a whole: digits with *)
(* at most one separator among them and no more decimals than the unit     *)
(* has, in hertz; nothing when it is not of this form or does not fit.     *)
Texts == SeqOf({0, 1, 9, Separator}, 5)
Number(text) == FoldLeft(LAMBDA n, digit : 10 * n + digit, 0, text)
Typed(text, digits) ==
  LET separators == {i \in DOMAIN text : text[i] = Separator}
      point == IF separators = {} THEN Len(text) + 1 ELSE CHOOSE i \in separators : TRUE
      decimals == Len(text) - point
      wellFormed == /\ Cardinality(separators) <= 1 /\ point > 1
                    /\ separators = {} \/ decimals \in 1..digits
      hz == Number(SubSeq(text, 1, point - 1)) * 10^digits
            + IF separators = {} THEN 0
              ELSE Number(SubSeq(text, point + 1, Len(text))) * 10^(digits - decimals)
  IN  IF wellFormed /\ hz <= MaxHz THEN hz ELSE NoHz
(* parse_frequency_value(), which reads from left to right and compares    *)
(* before it multiplies, accepts what can be represented and nothing else. *)
ASSUME ParsedAsTyped ==
  \A text \in Texts, digits \in 0..2 : ParseFrequencyValue(text, digits) = Typed(text, digits)

MCPanels ==
  {[rx |-> rx, tx |-> 2, mode |-> "CW", split |-> FALSE] : rx \in {1, 2}}
MCCommands == {Command("SetRxFrequency", hz) : hz \in {1, 2}}

MCCatRadio(hz) ==
  [id |-> "r", connected |-> TRUE, active |-> "A", tx |-> "A", split |-> FALSE,
   vfos |-> [v \in {"A"} |-> [hz |-> hz, mode |-> "CW"]], commands |-> {"SetFrequency"}]
MCCatRadios == {MCCatRadio(1), MCCatRadio(2)}

(* In simplex; in split, with the transmit VFO selected, which can be      *)
(* written by name or as the selected one only; a radio that names no VFO; *)
(* and one that is switched off.                                           *)
All == {"Freq", "FreqA", "FreqB", "split"}
Rig(layout, split, selected, writable) ==
  [online |-> TRUE, receiving |-> TRUE, writable |-> writable, layout |-> layout, split |-> split,
   hz |-> [v \in VfoNames |-> IF v = "A" THEN 11 ELSE 20], selected |-> selected, mode |-> "CW"]
MCRigs ==
  {Rig("AA", "Disabled", "A", All), Rig("AB", "Enabled", "B", All),
   Rig("AB", "Enabled", "B", {"Freq", "split"}),
   Rig(NoVfo, "Enabled", "B", {"Freq", "FreqA"}),
   [Rig("AB", "Enabled", "A", All) EXCEPT !.online = FALSE]}
Reports(hz) ==
  [Blank(Unknown) EXCEPT !.avail = Known, !.rx = Read(hz), !.tx = Read(hz),
                         !.split = Read("Disabled"), !.caps = Read(Capabilities)]
MCRadios == {NoRadio, Reports(11)}
Profile(backend, follow, offset) ==
  [enabled |-> TRUE, linked |-> TRUE, backend |-> backend, follow |-> follow,
   loOffset |-> offset, rxOffset |-> 0, center |-> 10, decoder |-> 10]
MCProfiles == {Profile(OmniRig, TRUE, 0), Profile(Hamlib, FALSE, 5)}

(* A cluster that filters by band, and a reverse beacon node, which takes  *)
(* no commands.                                                            *)
MCServers == {"node", "beacon"}
MCSourceOf == [server \in MCServers |->
                 IF server = "beacon" THEN "ReverseBeacon" ELSE "Cluster"]
=============================================================================
