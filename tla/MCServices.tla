------------------------------- MODULE MCServices -------------------------------
(***************************************************************************)
(* The scheduler of a transmission, the guard of the transmitter and the   *)
(* worker that keys it, each called in any order, the services beside the  *)
(* radio, and what the live worker hands out and records, in one instance: *)
(* a behaviour works one of them and leaves the others at rest.            *)
(***************************************************************************)
EXTENDS CwTransmitScheduler, TransmitGuard, DirectTransmitEngine, CallsignDatabaseUpdater,
        UpdateChecker, DiagnosticsServer, DebugCapture, WorkerOutputs

CONSTANT Parts
VARIABLE part

CallsInit ==
  /\ part \in Parts /\ SchedulerInit /\ GuardInit /\ KeyerInit
  /\ part # "scheduler" => sch.config = CHOOSE c \in SomeConfigs : TRUE
  /\ part # "guard" => ignored = {}
  /\ part # "worker" => /\ keyerDevice = CHOOSE d \in EngineDevices : TRUE
                        /\ keyer = Keyer!NewEngine(CHOOSE c \in SomeEngineConfigs : TRUE)
CallsNext ==
  /\ UNCHANGED part
  /\ \/ part = "scheduler" /\ SchedulerNext /\ UNCHANGED <<guardVars, keyerVars>>
     \/ part = "guard" /\ GuardNext /\ UNCHANGED <<schedulerVars, keyerVars>>
     \/ part = "worker" /\ KeyerNext /\ UNCHANGED <<schedulerVars, guardVars>>

-----------------------------------------------------------------------------
AtRest(p) ==
  /\ IF p = "updater" THEN TRUE ELSE UNCHANGED updaterVars
  /\ IF p = "checker" THEN TRUE ELSE UNCHANGED checkerVars
  /\ IF p = "observers" THEN TRUE ELSE UNCHANGED observerVars
  /\ IF p = "capture" THEN TRUE ELSE UNCHANGED captureVars
  /\ IF p = "outputs" THEN TRUE ELSE UNCHANGED outputsVars
CallsAtRest == UNCHANGED <<schedulerVars, guardVars, keyerVars>>

ServicesInit ==
  /\ CallsInit
  /\ UpdaterInit /\ CheckerInit /\ DiagnosticsInit /\ CaptureInit /\ OutputsInit
ServicesNext ==
  \/ CallsNext /\ AtRest("calls")
  \/ /\ UNCHANGED part /\ CallsAtRest
     /\ \/ part = "updater" /\ UpdaterNext /\ AtRest("updater")
        \/ part = "checker" /\ CheckerNext /\ AtRest("checker")
        \/ part = "observers" /\ DiagnosticsNext /\ AtRest("observers")
        \/ part = "capture" /\ CaptureNext /\ AtRest("capture")
        \/ part = "outputs" /\ OutputsNext /\ AtRest("outputs")
ServicesVars ==
  <<part, schedulerVars, guardVars, keyerVars, updaterVars, checkerVars, observerVars,
    captureVars, outputsVars>>
ServicesSpec ==
  /\ ServicesInit /\ [][ServicesNext]_ServicesVars
  /\ WF_schedulerVars(DueAdvance)
  /\ WF_updaterVars(MetadataReply) /\ WF_updaterVars(ArtifactReply) /\ WF_updaterVars(RetryTimer)

(* What is offered or shown of a file that was fetched is true of the file: *)
(* the callsign database, and the download of a release.                    *)
DownloadsInv == UpdaterInv /\ CheckerInv

-----------------------------------------------------------------------------
MCSomeConfigs ==
  { [lead |-> 1, hang |-> 0, maxMessage |-> 4, maxLateness |-> 1],
    [lead |-> 0, hang |-> 1, maxMessage |-> 4, maxLateness |-> 1],
    [lead |-> 9, hang |-> 0, maxMessage |-> 4, maxLateness |-> 0] }

On(n) == [key |-> TRUE, units |-> n]
Off(n) == [key |-> FALSE, units |-> n]
Plan(dot, spans, total) == [text |-> TRUE, dot |-> dot, spans |-> spans, total |-> total]

MCSomePlans ==
  { Plan(1, <<On(1), Off(1), On(2)>>, 4),
    Plan(2, <<On(1)>>, 2),
    Plan(1, <<On(2), On(2)>>, 4),
    Plan(1, <<On(3)>>, 3),
    Plan(1, <<On(1), Off(1)>>, 2),
    Plan(1, <<On(1), Off(1), On(1)>>, 4) }

(* Two callsigns and two messages, one of each in two spellings, and one   *)
(* text of each kind that normalizes to nothing.                           *)
MCCalls == {"c1", "c2"}
MCRawCalls == {"c1", "c2", "c1 lower", "junk"}
MCNormalizeCall ==
  [raw \in MCRawCalls |->
     CASE raw \in {"c1", "c1 lower"} -> "c1" [] raw = "c2" -> "c2" [] raw = "junk" -> "none"]
MCMessages == {"m1", "m2"}
MCRawMessages == {"m1", "m2", "m1 spaced", "unsendable"}
MCNormalizeMessage ==
  [raw \in MCRawMessages |->
     CASE raw \in {"m1", "m1 spaced"} -> "m1" [] raw = "m2" -> "m2"
       [] raw = "unsendable" -> "empty"]

(* PTT leads by more than a health poll, so a timer also expires early. *)
MCScheduler == [lead |-> 3, hang |-> 0, maxMessage |-> 3, maxLateness |-> 1]
MCSomeEngineConfigs ==
  { [keying |-> TRUE, tune |-> 3, scheduler |-> MCScheduler],
    [keying |-> FALSE, tune |-> 3, scheduler |-> MCScheduler] }

(* A message of two elements, and one the scheduler rejects. *)
MCEnginePlans ==
  { [text |-> TRUE, dot |-> 1, spans |-> <<On(1), Off(1), On(1)>>, total |-> 3],
    [text |-> TRUE, dot |-> 1, spans |-> <<On(3)>>, total |-> 3] }

Refuses(line, up) == [line |-> line, up |-> up]
Device(broken, signals) == [broken |-> broken, signals |-> signals]
MCEngineDevices ==
  { Device({}, FALSE), Device({Refuses("ptt", TRUE)}, FALSE),
    Device({Refuses("key", TRUE)}, TRUE),
    Device({Refuses("key", FALSE)}, FALSE), Device({Refuses("key", FALSE)}, TRUE),
    Device({Refuses("ptt", FALSE)}, FALSE), Device({Refuses("ptt", FALSE)}, TRUE),
    Device({Refuses("key", FALSE), Refuses("ptt", FALSE)}, FALSE) }

(* From 0 everything fits below MaxU64, from 7 neither output does. *)
MCStartTimes == {0, 7}
=============================================================================
