--------------------------- MODULE StationProfiles ---------------------------
(***************************************************************************)
(* The settings of the station profiles (desktop/settings/                 *)
(* app_settings.cpp, wired in desktop/main.cpp): what is edited in memory, *)
(* what Apply, the write-through setters and the loopback test store under *)
(* the keys of the selected profile, and what a start or a change of       *)
(* profile reads back.  Settings that are treated alike are one field: a   *)
(* number that is clamped when applied (fps), one that is written through  *)
(* (txMode), a routable address (open), a token that guards it.  The store *)
(* is QSettings: a value set is seen by the process at once, and lost with *)
(* it if the file could not be written.                                    *)
(***************************************************************************)
EXTENDS AcceptanceProbe, Integers

CONSTANTS Profiles, Home,        \* keys of profiles, and that of the first start
          SdrDevices, NoDevice,  \* SDR receivers
          Inputs, Outputs,       \* sound devices; "default" is one of each
          Servers,               \* how long the file of cluster servers may be
          SomeBenches,           \* what the loopback test is run on
          BackendBuilt,          \* builds with and without SoapySDR
          MostEdits,             \* bound on what the operator does
          MostFailures,          \* bound on writes of the file that fail
          Pages                  \* the page a behaviour edits: pages share only
                                 \* the operations on the whole profile

ASSUME ProfilesAssumption ==
  /\ Home \in Profiles /\ NoDevice \notin SdrDevices
  /\ "default" \in Inputs /\ "default" \in Outputs
  /\ Servers \subseteq Nat /\ SomeBenches \subseteq Benches

VARIABLES page, built,
          profile,               \* profile_storage_key_
          memory,                \* the settings as edited
          cache, disk,           \* the stored keys, in the process and in the file
          source,                \* the source mode of the replay controller
          scan,                  \* discovery of receivers and the startup restore
          servers,               \* the loaded list of cluster servers
          settled,               \* whether the settings in memory are all stored
          edits, failures,       \* how many changes were made, how many writes failed
          looped                 \* configurations measured on a straight plug
profileVars == <<page, built, profile, memory, cache, disk, source, scan, servers,
                 settled, edits, failures, looped>>

Custom == -1
NoConfig == [ptt |-> "none", key |-> "none"]
Configs == [ptt : Lines, key : Lines]
SourceModes == 0..2                       \* sound card, file, receiver
FpsLow == 1
FpsHigh == 2
RawFps == 0..3

(* What a process starts with.                                              *)
Fresh ==
  [setup |-> FALSE, input |-> "default", output |-> "default", type |-> 0, source |-> 0,
   device |-> NoDevice, call |-> FALSE, radio |-> FALSE, txMode |-> "CW",
   ptt |-> "rts", key |-> "dtr", direct |-> FALSE, accepted |-> NoConfig,
   validated |-> FALSE, fps |-> FpsHigh, cluster |-> FALSE, server |-> 0,
   diag |-> FALSE, token |-> FALSE, open |-> FALSE]

Config(m) == [ptt |-> m.ptt, key |-> m.key]
Unguarded(m) == m.open /\ ~m.token        \* diagnosticsServerExposureUnguarded
ServerOrFirst(index, n) ==
  IF index = Custom \/ index \in 0..n - 1 THEN index ELSE IF n > 0 THEN 0 ELSE Custom

(* The lines and the CAT parameters of the reference rig; the acceptance    *)
(* that was recorded is kept.                                               *)
WithReferenceDefaults(m) == [m EXCEPT !.validated = FALSE, !.ptt = "rts", !.key = "dtr"]

(* A new profile starts from the defaults, but for the audio output and the *)
(* acceptance record, which resetInMemorySettings() leaves.                 *)
ResetReception(m) ==
  [m EXCEPT !.setup = FALSE, !.input = "default", !.type = 0, !.source = 0,
            !.device = NoDevice]
ResetStation(m) ==
  [m EXCEPT !.call = FALSE, !.radio = FALSE, !.txMode = "CW", !.direct = FALSE,
            !.validated = FALSE, !.fps = FpsHigh]
ResetServices(m) ==
  [m EXCEPT !.cluster = FALSE, !.server = ServerOrFirst(0, servers),
            !.diag = FALSE, !.token = FALSE, !.open = FALSE]
InMemoryReset(m) == WithReferenceDefaults(ResetServices(ResetStation(ResetReception(m))))

(* What the stored keys give, each with its default.                        *)
Value(kept, key, default) == IF key \in DOMAIN kept THEN kept[key] ELSE default
LoadedReception(m, kept) ==
  [m EXCEPT !.setup = Value(kept, "setup", FALSE), !.input = Value(kept, "input", "default"),
            !.output = Value(kept, "output", "default"), !.type = Value(kept, "type", 0),
            !.source = Value(kept, "source", 0), !.device = Value(kept, "device", NoDevice),
            !.call = Value(kept, "call", FALSE)]
LoadedRadio(m, kept) ==
  [WithReferenceDefaults(m) EXCEPT !.radio = Value(kept, "radio", m.setup),
                                   !.txMode = Value(kept, "txMode", "CW")]

(* An acceptance counts for the configuration it was measured with.         *)
LoadedKeying(m, kept) ==
  LET r == [m EXCEPT !.direct = Value(kept, "direct", FALSE), !.ptt = Value(kept, "ptt", m.ptt),
                     !.key = Value(kept, "key", m.key),
                     !.accepted = Value(kept, "accepted", NoConfig)]
  IN  [r EXCEPT !.validated = r.direct /\ r.accepted = Config(r)]
LoadedDisplay(m, kept) == [m EXCEPT !.fps = Value(kept, "fps", FpsHigh)]
LoadedServices(m, kept, n) ==
  LET r == [m EXCEPT !.server = ServerOrFirst(Value(kept, "server", 0), n),
                     !.cluster = Value(kept, "cluster", FALSE) /\ m.call,
                     !.token = Value(kept, "token", FALSE), !.open = Value(kept, "open", FALSE)]
  IN  [r EXCEPT !.diag = Value(kept, "diag", FALSE) /\ ~Unguarded(r)]

Loaded(m, kept, n) ==
  LoadedServices(LoadedDisplay(LoadedKeying(LoadedRadio(LoadedReception(m, kept), kept), kept), kept), kept, n)

(* What Apply makes of the settings before it stores them ...               *)
NormalizedReception(m) == [m EXCEPT !.type = IF m.device \in scan.listed THEN @ ELSE 0]
NormalizedDisplay(m) ==
  [m EXCEPT !.fps = IF @ < FpsLow THEN FpsLow ELSE IF @ > FpsHigh THEN FpsHigh ELSE @]
NormalizedServices(m) ==
  [m EXCEPT !.server = ServerOrFirst(@, servers), !.cluster = @ /\ m.call,
            !.diag = @ /\ ~Unguarded(m)]
Normalized(m) == NormalizedServices(NormalizedDisplay(NormalizedReception(m)))

(* ... and the keys it stores: setup is not among them.                     *)
StoredReception(m) ==
  [schema |-> TRUE, input |-> m.input, output |-> m.output, type |-> m.type,
   source |-> m.source, device |-> m.device, call |-> m.call,
   radio |-> m.radio, txMode |-> m.txMode]
StoredKeying(m) ==
  [direct |-> m.direct, accepted |-> m.accepted, ptt |-> m.ptt, key |-> m.key]
(* Defect: the addresses the server is bound to are not stored. *)
StoredWithoutAddresses(m) ==
  [fps |-> m.fps, cluster |-> m.cluster, server |-> m.server, diag |-> m.diag,
   token |-> m.token]
StoredServices(m) ==
  [fps |-> m.fps, cluster |-> m.cluster, server |-> m.server, diag |-> m.diag,
   token |-> m.token, open |-> m.open]

(* Keys written over what is kept.                                          *)
Over(values, kept) ==
  [key \in DOMAIN values \cup DOMAIN kept |-> IF key \in DOMAIN values THEN values[key] ELSE kept[key]]
Stored(m) == Over(StoredServices(m), Over(StoredKeying(m), StoredReception(m)))

Put(k, values) == [cache EXCEPT ![k] = Over(values, @)]
Exists(k) == "schema" \in DOMAIN cache[k]

-----------------------------------------------------------------------------

(* A write of the file succeeds, or fails and leaves the values with the    *)
(* process, to be written by the next one that succeeds.                    *)
Flush(c, ok) ==
  /\ cache' = c
  /\ ok => disk' = c /\ UNCHANGED failures
  /\ ~ok => failures < MostFailures /\ failures' = failures + 1 /\ UNCHANGED disk
NoFlush == UNCHANGED <<cache, disk, failures>>

Edited == edits < MostEdits /\ edits' = edits + 1

(* A change that waits for Apply, and one that is stored at once.           *)
Edit(m) ==
  /\ Edited /\ memory' = m /\ m # memory /\ settled' = FALSE
  /\ NoFlush /\ UNCHANGED <<page, built, profile, source, scan, servers, looped>>
WriteThrough(m, values) ==
  /\ Edited /\ memory' = m /\ m # memory
  /\ \E ok \in BOOLEAN : Flush(Put(profile, values), ok) /\ settled' = (settled /\ ok)
  /\ UNCHANGED <<page, built, profile, source, scan, servers, looped>>

(* The controller changes its mode, says so, and the mode is stored.        *)
SetSourceMode(m, mode, isSettled) ==
  LET prefers == IF mode # source THEN [m EXCEPT !.source = mode] ELSE m
  IN  /\ source' = mode /\ memory' = prefers
      /\ IF prefers.source = m.source THEN NoFlush /\ settled' = isSettled
         ELSE \E ok \in BOOLEAN :
                /\ Flush(Put(profile, [source |-> mode]), ok) /\ settled' = (isSettled /\ ok)

-----------------------------------------------------------------------------

SelectAudioInput == page = "sound" /\ \E input \in Inputs : Edit([memory EXCEPT !.input = input])
AdoptRecoveredAudioInput ==
  page = "sound" /\ \E input \in Inputs \ {"default"} :
    WriteThrough([memory EXCEPT !.input = input], [input |-> input])
SelectAudioOutput == page = "sound" /\ \E output \in Outputs : Edit([memory EXCEPT !.output = output])

SetTargetFps == page = "display" /\ \E fps \in RawFps : Edit([memory EXCEPT !.fps = fps])
ToggleControlledTxMode ==
  /\ page = "display"
  /\ LET next == IF memory.txMode = "CW" THEN "CW-R" ELSE "CW"
     IN  WriteThrough([memory EXCEPT !.txMode = next], [txMode |-> next])

(* Every change of what was measured takes the acceptance away.             *)
Unaccepted(m) == [m EXCEPT !.validated = FALSE, !.accepted = NoConfig]
SetRadioEnabled == page = "keying" /\ \E radio \in BOOLEAN : Edit([memory EXCEPT !.radio = radio])
SetDirectKeyingEnabled ==
  page = "keying" /\ Edit(Unaccepted([memory EXCEPT !.direct = ~@]))
SetLineIndex ==
  page = "keying" /\ \E m \in {[memory EXCEPT !.ptt = line] : line \in Lines}
                           \cup {[memory EXCEPT !.key = line] : line \in Lines} :
    m # memory /\ Edit(Unaccepted(m))
ResetToReferenceDefaults == page = "keying" /\ Edit(WithReferenceDefaults(memory))

(* The loopback test is run and its result stored, whether the lines it was *)
(* run with have been applied or not.                                       *)
RunDirectKeyingLoopback ==
  /\ page = "keying" /\ memory.direct /\ Edited
  /\ \E bench \in SomeBenches, confirmed \in BOOLEAN :
       LET probe == RunProbe(Config(memory), bench, confirmed)
           accepted == IF probe.passed THEN Config(memory) ELSE NoConfig
       IN  /\ \E ok \in BOOLEAN :
                /\ Flush(Put(profile, [accepted |-> accepted]), ok)
                /\ memory' = [memory EXCEPT !.accepted = accepted, !.validated = probe.passed /\ ok]
                /\ settled' = (settled /\ ok)
           /\ looped' = IF bench.plug = "straight" /\ confirmed THEN looped \cup {Config(memory)}
                        ELSE looped
  /\ UNCHANGED <<page, built, profile, source, scan, servers>>

(* The cluster is logged in to as the station, and the server for           *)
(* observers is guarded from every side a setting can be changed on.        *)
SetOwnCallsign ==
  page = "cluster" /\ Edit([memory EXCEPT !.call = ~@, !.cluster = @ /\ ~memory.call])
SetDxClusterEnabled ==
  page = "cluster" /\ \E on \in BOOLEAN :
    (on => memory.call) /\ Edit([memory EXCEPT !.cluster = on])
SetDxClusterServerIndex ==
  page = "cluster" /\ \E index \in {Custom, 0, 1} :
    Edit([memory EXCEPT !.server = ServerOrFirst(index, servers)])
SetDiagnosticsServerEnabled ==
  page = "diagnostics" /\ \E on \in BOOLEAN :
    (on => ~Unguarded(memory)) /\ Edit([memory EXCEPT !.diag = on])
Guarded(m) == [m EXCEPT !.diag = @ /\ ~Unguarded(m)]
SetDiagnosticsServerToken ==
  page = "diagnostics" /\ \E token \in BOOLEAN : Edit(Guarded([memory EXCEPT !.token = token]))
SetDiagnosticsServerAddresses ==
  page = "diagnostics" /\ \E open \in BOOLEAN : Edit(Guarded([memory EXCEPT !.open = open]))

-----------------------------------------------------------------------------

(* The operator changes the source in the main window.                      *)
ChooseSource ==
  /\ page = "source" /\ Edited
  /\ \E mode \in SourceModes \ {source} : SetSourceMode(memory, mode, settled)
  /\ UNCHANGED <<page, built, profile, scan, servers, looped>>

(* The controller reports a change of its state, of whatever kind, and the  *)
(* mode it is in is taken for the preferred one.                            *)
StateChanged ==
  /\ page = "source" /\ memory.source # source
  /\ \E ok \in BOOLEAN :
       Flush(Put(profile, [source |-> source]), ok) /\ settled' = (settled /\ ok)
  /\ memory' = [memory EXCEPT !.source = source]
  /\ UNCHANGED <<page, edits, built, profile, source, scan, servers, looped>>

(* A receiver is refused until it is found; what changes the input type     *)
(* changes the source with it.                                              *)
ModeOfType(type) == IF type = 1 THEN 2 ELSE 0
SetReceiverInputType ==
  /\ page = "source" /\ Edited
  /\ \E requested \in 0..1 :
       LET type == IF memory.device \in scan.listed THEN requested ELSE 0
       IN  /\ type # memory.type
           /\ SetSourceMode([memory EXCEPT !.type = type], ModeOfType(type), FALSE)
  /\ UNCHANGED <<page, built, profile, scan, servers, looped>>
SelectSdrDevice ==
  page = "source" /\ \E device \in scan.listed : Edit([memory EXCEPT !.device = device])

RefreshSdrDevices ==
  /\ page = "source" /\ ~scan.running
  /\ scan' = [scan EXCEPT !.running = TRUE]
  /\ NoFlush /\ UNCHANGED <<page, edits, built, profile, memory, source, servers, settled, looped>>

(* The report of a discovery: the saved receiver is kept if it was found,   *)
(* and a start that asked for it is answered; if it was not found the       *)
(* source falls back to the sound card.                                     *)
ApplySdrDiscoveryReport ==
  /\ page = "source" /\ scan.running
  /\ \E listed \in SUBSET SdrDevices :
       LET device == IF memory.device \in listed THEN memory.device ELSE NoDevice
           type == IF device = NoDevice THEN 0 ELSE memory.type
           lost == scan.pending /\ device = NoDevice
           mode == IF type # memory.type THEN 0
                   ELSE IF lost /\ source = 2 THEN 0 ELSE source
       IN  /\ (built \/ listed = {})
           /\ scan' = [scan EXCEPT !.listed = listed, !.running = FALSE, !.pending = FALSE]
           /\ SetSourceMode([memory EXCEPT !.device = device, !.type = type], mode,
                            settled /\ device = memory.device)
  /\ UNCHANGED <<page, edits, built, profile, servers, looped>>

(* Without SoapySDR the answer is known and only queued.                    *)
AnswerSdrStartupRestore ==
  /\ page = "source" /\ scan.queued
  /\ scan' = [scan EXCEPT !.queued = FALSE, !.pending = FALSE]
  /\ SetSourceMode(memory, IF scan.pending /\ source = 2 THEN 0 ELSE source, settled)
  /\ UNCHANGED <<page, edits, built, profile, servers, looped>>

-----------------------------------------------------------------------------

(* Apply is refused, with nothing stored, while PTT and KEY share a line.   *)
SharedLine(m) == m.radio /\ m.ptt = m.key
RefuseToApply ==
  /\ Edited /\ SharedLine(Normalized(memory))
  /\ memory' = Normalized(memory) /\ settled' = (settled /\ memory' = memory) /\ NoFlush
  /\ UNCHANGED <<page, built, profile, source, scan, servers, looped>>
Apply ==
  LET m == Normalized(memory)
  IN  /\ Edited /\ ~SharedLine(m) /\ memory' = m
      /\ \E ok \in BOOLEAN : Flush(Put(profile, Stored(m)), ok) /\ settled' = ok
      /\ UNCHANGED <<page, built, profile, source, scan, servers, looped>>

(* The end of the wizard: an Apply, and then the mark that it was ended.    *)
CompleteSetup ==
  LET m == Normalized(memory)
      applied == Put(profile, Stored(m))
      marked == Put(profile, Over([setup |-> TRUE], Stored(m)))
  IN  /\ page = "display" /\ Edited /\ ~SharedLine(m) /\ cache' = marked
      /\ \/ disk' = marked /\ UNCHANGED failures
            /\ memory' = [m EXCEPT !.setup = TRUE] /\ settled' = TRUE
         \/ failures < MostFailures /\ failures' = failures + 1 /\ disk' = applied
            /\ memory' = m /\ settled' = FALSE
      /\ UNCHANGED <<page, built, profile, source, scan, servers, looped>>

(* The controller is not told of another profile's source.                  *)
SelectProfile ==
  /\ \E k \in Profiles :
       /\ Exists(k) /\ profile' = k
       /\ memory' = Loaded(InMemoryReset(memory), cache[k], servers)
       /\ settled' = (disk[k] = cache[k])
  /\ scan' = [scan EXCEPT !.pending = FALSE]
  /\ NoFlush /\ UNCHANGED <<page, edits, built, source, servers, looped>>
CreateProfile ==
  /\ Edited
  /\ \E k \in Profiles, ok \in BOOLEAN :
       ~Exists(k) /\ profile' = k /\ Flush(Put(k, [schema |-> TRUE, setup |-> FALSE]), ok)
  /\ memory' = InMemoryReset(memory) /\ settled' = FALSE
  /\ scan' = [scan EXCEPT !.pending = FALSE]
  /\ UNCHANGED <<page, built, source, servers, looped>>

(* What an operator may do to the file while the program is not running.    *)
Edits ==
  IF page = "diagnostics" THEN {[diag |-> TRUE, open |-> TRUE, token |-> FALSE]}
  ELSE IF page = "cluster" THEN {[cluster |-> TRUE, call |-> FALSE]}
  ELSE IF page = "keying" THEN {[ptt |-> "dtr", key |-> "rts"]}
  ELSE {}

(* A start: the settings are loaded, a saved receiver is looked for, and an *)
(* SDR input type selects the receiver, which is stored.                    *)
Started(k, stored, n) ==
  LET m == Loaded(WithReferenceDefaults(Fresh), stored[k], n)
      mode == ModeOfType(m.type)
      prefers == IF mode = 2 THEN [m EXCEPT !.source = 2] ELSE m
      asks == page = "source" /\ m.device # NoDevice
  IN  /\ profile' = k /\ servers' = n /\ memory' = prefers /\ source' = prefers.source
      /\ scan' = [listed |-> {}, running |-> asks /\ built, pending |-> asks,
                  queued |-> asks /\ ~built]
      /\ LET c == IF prefers = m THEN stored
                  ELSE [stored EXCEPT ![k] = Over([source |-> 2], @)]
         IN  cache' = c /\ disk' = c
      /\ settled' = TRUE
Restart ==
  /\ \E k \in Profiles, n \in Servers :
       /\ n # servers => page = "cluster"
       /\ \/ Started(k, disk, n)
          \/ Exists(k) /\ \E edit \in Edits : Started(k, [disk EXCEPT ![k] = Over(edit, @)], n)
  /\ UNCHANGED <<page, edits, built, failures, looped>>

NoKeys == [k \in {} |-> FALSE]
ProfilesInit ==
  /\ page \in Pages /\ built \in BackendBuilt /\ (built \/ page = "source")
  /\ profile = Home /\ memory = WithReferenceDefaults(Fresh)
  /\ cache = [k \in Profiles |-> NoKeys] /\ disk = cache
  /\ source = 0
  /\ scan = [listed |-> {}, running |-> FALSE, pending |-> FALSE, queued |-> FALSE]
  /\ servers = 1 /\ settled = TRUE /\ edits = 0 /\ failures = 0 /\ looped = {}
ProfilesNext ==
  \/ SelectAudioInput \/ AdoptRecoveredAudioInput \/ SelectAudioOutput
  \/ SetTargetFps \/ ToggleControlledTxMode
  \/ SetRadioEnabled \/ SetDirectKeyingEnabled \/ SetLineIndex
  \/ ResetToReferenceDefaults \/ RunDirectKeyingLoopback
  \/ SetOwnCallsign \/ SetDxClusterEnabled \/ SetDxClusterServerIndex
  \/ SetDiagnosticsServerEnabled \/ SetDiagnosticsServerToken
  \/ SetDiagnosticsServerAddresses
  \/ ChooseSource \/ StateChanged \/ SetReceiverInputType \/ SelectSdrDevice
  \/ RefreshSdrDevices \/ ApplySdrDiscoveryReport \/ AnswerSdrStartupRestore
  \/ RefuseToApply \/ Apply \/ CompleteSetup \/ SelectProfile \/ CreateProfile \/ Restart
ProfilesSpec == ProfilesInit /\ [][ProfilesNext]_profileVars

-----------------------------------------------------------------------------

(* Direct keying is offered only for the very lines that were measured on a *)
(* straight plug with the radio disconnected, after any sequence of edits,  *)
(* applies, profile changes, restarts and writes that failed.               *)
AcceptanceIsMeasured ==
  memory.validated => /\ memory.direct /\ memory.accepted = Config(memory)
                      /\ Config(memory) \in looped

(* No settings in memory describe an observer server that other machines    *)
(* reach without a token, a cluster login without a callsign, or a server   *)
(* that is not in the list, however the stored keys were changed.           *)
NothingUnguarded ==
  /\ memory.diag => ~Unguarded(memory)
  /\ memory.cluster => memory.call
  /\ memory.server = Custom \/ memory.server \in 0..servers - 1

(* A start that asked for its receiver has its answer on the way.           *)
RestoreIsAnswered == scan.pending => scan.running \/ scan.queued

(* What was applied or written through is what the next start reads.        *)
AppliedComesBack ==
  settled =>
    LET m == Loaded(WithReferenceDefaults(Fresh), disk[profile], servers)
    IN  /\ [m EXCEPT !.validated = memory.validated, !.setup = memory.setup] = memory
        /\ memory.validated => m.validated

ProfilesTypeOK ==
  /\ profile \in Profiles /\ source \in SourceModes
  /\ memory.type \in 0..1 /\ memory.source \in SourceModes
  /\ memory.device \in SdrDevices \cup {NoDevice}
  /\ memory.accepted \in Configs \cup {NoConfig}
ProfilesInv ==
  ProfilesTypeOK /\ NothingUnguarded /\ RestoreIsAnswered /\ AppliedComesBack

(* "Every named station profile isolates radio, keying, audio, SDR ...      *)
(* settings": a report of the controller's state stores nothing in a        *)
(* profile that its operator did not choose there.                          *)
ReportsStoreNothing == [][StateChanged => UNCHANGED cache]_profileVars
=============================================================================
