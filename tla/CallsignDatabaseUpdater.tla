------------------------- MODULE CallsignDatabaseUpdater -------------------------
(***************************************************************************)
(* CallsignDatabaseUpdater: one database is published by a provider, asked *)
(* for by its metadata and then by its contents, and kept in one file.  A  *)
(* version stands for the contents, their SHA-256 and their timestamp.     *)
(* Of a reply counts when it arrives: the provider may publish again at    *)
(* any time, the program may stop, and the file may be changed by others.  *)
(***************************************************************************)
EXTENDS Integers

CONSTANTS
  DatabaseVersions,    \* bound on the versions that are published
  UpdaterAttempts,     \* kMaximumAttempts
  UpdaterRedirects     \* kMaximumRedirects
ASSUME UpdaterAssumption ==
  /\ DatabaseVersions \in Nat \ {0}
  /\ UpdaterAttempts \in Nat \ {0} /\ UpdaterRedirects \in Nat

VARIABLES
  updater,          \* the members of CallsignDatabaseUpdater
  file,             \* what managed_file_path_ holds
  records,          \* QSettings
  published,        \* the provider's version
  flight,           \* what is under way: a reply, a timer, or nothing
  dueAt,            \* whether the last check is more than a day ago
  touched           \* whether others have changed the file since the last start
updaterVars == <<updater, file, records, published, flight, dueAt, touched>>

NoVersion == 0
Unreadable == -1
Versions == 1..DatabaseVersions
NothingUnderWay == [kind |-> "none", redirects |-> 0]

(* localFileHash(): a file that is missing or fails validation has none.    *)
LocalHash(f) == IF f \in Versions THEN f ELSE NoVersion

(* Defect: what was recorded at the last installation is trusted. *)
LoadedTrusting(r, f) ==
  [enabled |-> r.enabled, auto |-> r.auto, checking |-> FALSE, downloading |-> FALSE,
   offered |-> FALSE, installs |-> FALSE, available |-> NoVersion, attempts |-> 0,
   hash |-> IF LocalHash(f) = NoVersion THEN NoVersion ELSE r.hash,
   modified |-> IF LocalHash(f) = NoVersion THEN NoVersion ELSE r.modified]
(* The constructor: a record that does not describe the file is dropped.    *)
Loaded(r, f) ==
  [enabled |-> r.enabled, auto |-> r.auto, checking |-> FALSE, downloading |-> FALSE,
   offered |-> FALSE, installs |-> FALSE, available |-> NoVersion, attempts |-> 0,
   hash |-> LocalHash(f),
   modified |-> IF LocalHash(f) = r.hash THEN r.modified ELSE NoVersion]

UpdaterInit ==
  /\ records = [enabled |-> FALSE, auto |-> TRUE, hash |-> NoVersion, modified |-> NoVersion]
  /\ file = NoVersion /\ published = 1 /\ flight = NothingUnderWay /\ dueAt = TRUE
  /\ updater = Loaded(records, file)
  /\ touched = FALSE

-----------------------------------------------------------------------------
Busy(u) == u.checking \/ u.downloading
CheckFails(u) == [u EXCEPT !.checking = FALSE, !.installs = FALSE]
DownloadFails(u) == [CheckFails(u) EXCEPT !.downloading = FALSE]
UpToDate(u) == [DownloadFails(u) EXCEPT !.offered = FALSE]
Replies(redirects) == [kind |-> "reply", redirects |-> redirects]
Timer == [kind |-> "timer", redirects |-> 0]
Finished(u) == updater' = u /\ flight' = NothingUnderWay

(* Defect: a retry counts as a first attempt. *)
RequestUncounted(u, redirects) ==
  /\ updater' = IF ~u.enabled THEN (IF u.downloading THEN DownloadFails(u) ELSE CheckFails(u)) ELSE u
  /\ flight' = IF u.enabled THEN Replies(redirects) ELSE NothingUnderWay
(* requestMetadata(), requestArtifact(): a redirect counts as an attempt.   *)
Request(u, redirects) ==
  /\ updater' = IF ~u.enabled THEN (IF u.downloading THEN DownloadFails(u) ELSE CheckFails(u))
                ELSE [u EXCEPT !.attempts = @ + 1]
  /\ flight' = IF u.enabled THEN Replies(redirects) ELSE NothingUnderWay
BeginMetadata(u, installs) ==
  Request([u EXCEPT !.checking = TRUE, !.offered = FALSE, !.attempts = 0, !.installs = installs],
          UpdaterRedirects)
BeginArtifact(u) ==
  Request([u EXCEPT !.checking = FALSE, !.downloading = TRUE, !.attempts = 0], UpdaterRedirects)
(* persistSuccessfulState() *)
Recorded(u) == [u EXCEPT !.hash = u.available, !.modified = u.available]
Persisted(r, u) == [r EXCEPT !.hash = u.available, !.modified = u.available]

-----------------------------------------------------------------------------
CheckForUpdates ==
  /\ ~Busy(updater) /\ updater.enabled
  /\ BeginMetadata(updater, FALSE)
  /\ UNCHANGED <<file, records, published, dueAt, touched>>
UpdateDatabase ==
  /\ ~Busy(updater) /\ updater.enabled
  /\ IF updater.available = NoVersion THEN BeginMetadata(updater, TRUE) ELSE BeginArtifact(updater)
  /\ UNCHANGED <<file, records, published, dueAt, touched>>
(* At startup, and when the operator switches the database on. *)
CheckAndInstallIfDue ==
  /\ ~Busy(updater) /\ updater.enabled /\ updater.auto /\ dueAt
  /\ BeginMetadata(updater, TRUE)
  /\ UNCHANGED <<file, records, published, dueAt, touched>>
SetManagedEnabled ==
  /\ updater' = [updater EXCEPT !.enabled = ~@] /\ records' = [records EXCEPT !.enabled = ~@]
  /\ UNCHANGED <<file, published, flight, dueAt, touched>>
SetAutoUpdateEnabled ==
  /\ updater' = [updater EXCEPT !.auto = ~@] /\ records' = [records EXCEPT !.auto = ~@]
  /\ UNCHANGED <<file, published, flight, dueAt, touched>>

(* What may come back, besides what was asked for: a redirect; a failure    *)
(* that is worth a retry; or one that is not, such as an unsafe redirect,   *)
(* an oversized or malformed reply, or an unexpected origin.                *)
Troubled(fails, outcome) ==
  IF outcome = "redirect" /\ flight.redirects > 0 THEN Request(updater, flight.redirects - 1)
  ELSE IF outcome = "transient" /\ updater.attempts < UpdaterAttempts
  THEN flight' = Timer /\ UNCHANGED updater
  ELSE Finished(fails)
Trouble == {"redirect", "transient", "failure"}

(* handleMetadataReply() *)
MetadataReply ==
  /\ updater.checking /\ flight.kind = "reply"
  /\ UNCHANGED <<file, published, touched>>
  /\ \/ ~updater.enabled /\ Finished(CheckFails(updater)) /\ UNCHANGED <<records, dueAt>>
     \/ /\ updater.enabled /\ UNCHANGED <<records, dueAt>>
        /\ \E outcome \in Trouble : Troubled(CheckFails(updater), outcome)
     \/ /\ updater.enabled /\ dueAt' = FALSE
        /\ LET u == [updater EXCEPT !.available = published, !.checking = FALSE,
                                    !.offered = LocalHash(file) # published]
           IN IF ~u.offered
              THEN Finished(UpToDate(Recorded(u))) /\ records' = Persisted(records, u)
              ELSE /\ UNCHANGED records
                   /\ IF u.installs THEN BeginArtifact(u) ELSE Finished(u)

Accepted(u, v) == v = u.available

(* handleArtifactReply(): the condition sent along was the hash that is     *)
(* recorded, so the provider may answer that nothing changed.  The program  *)
(* may fail to write the file, or stop between its commit and the record    *)
(* of it.                                                                   *)
Unmodified ==
  IF LocalHash(file) = updater.hash /\ updater.hash = updater.available
  THEN Finished(UpToDate(Recorded(updater))) /\ records' = Persisted(records, updater)
  ELSE Finished(DownloadFails(updater)) /\ UNCHANGED records
ArtifactReply ==
  /\ updater.downloading /\ flight.kind = "reply"
  /\ UNCHANGED <<published, dueAt>>
  /\ \/ /\ ~updater.enabled /\ Finished(DownloadFails(updater)) /\ UNCHANGED <<file, records, touched>>
     \/ /\ updater.enabled /\ UNCHANGED <<file, records, touched>>
        /\ \E outcome \in Trouble : Troubled(DownloadFails(updater), outcome)
     \/ /\ updater.enabled /\ updater.hash = published /\ Unmodified /\ UNCHANGED <<file, touched>>
     \/ /\ updater.enabled
        /\ IF ~Accepted(updater, published)
           THEN Finished(DownloadFails(updater)) /\ UNCHANGED <<file, records, touched>>
           ELSE \/ Finished(DownloadFails(updater)) /\ UNCHANGED <<file, records, touched>>
                \/ /\ file' = published /\ Finished(UpToDate(Recorded(updater)))
                   /\ records' = Persisted(records, updater) /\ UNCHANGED touched
                \/ /\ touched' = FALSE /\ file' = published /\ UNCHANGED records
                   /\ updater' = Loaded(records, published) /\ flight' = NothingUnderWay
RetryTimer ==
  /\ flight.kind = "timer"
  /\ Request(updater, UpdaterRedirects)
  /\ UNCHANGED <<file, records, published, dueAt, touched>>

ProviderPublishes ==
  /\ published < DatabaseVersions /\ published' = published + 1
  /\ UNCHANGED <<updater, file, records, flight, dueAt, touched>>
DayPasses ==
  /\ ~dueAt /\ dueAt' = TRUE /\ UNCHANGED <<updater, file, records, published, flight, touched>>
UpdaterRestarts ==
  /\ touched' = FALSE /\ updater' = Loaded(records, file) /\ flight' = NothingUnderWay
  /\ UNCHANGED <<file, records, published, dueAt>>
FileIsReplaced ==
  /\ touched' = TRUE
  /\ \E f \in {NoVersion, Unreadable} \cup Versions : f # file /\ file' = f
  /\ UNCHANGED <<updater, records, published, flight, dueAt>>

UpdaterNext ==
  \/ CheckForUpdates \/ UpdateDatabase \/ CheckAndInstallIfDue
  \/ SetManagedEnabled \/ SetAutoUpdateEnabled
  \/ MetadataReply \/ ArtifactReply \/ RetryTimer
  \/ ProviderPublishes \/ DayPasses \/ UpdaterRestarts \/ FileIsReplaced
UpdaterSpec ==
  /\ UpdaterInit /\ [][UpdaterNext]_updaterVars
  /\ WF_updaterVars(MetadataReply) /\ WF_updaterVars(ArtifactReply) /\ WF_updaterVars(RetryTimer)

-----------------------------------------------------------------------------
(* While nobody else touches the file, the hash that goes into the next     *)
(* conditional request is the hash of the file, and the version that is     *)
(* shown is the version of the file, also after a stop between its commit   *)
(* and the record of it.  The updater is busy exactly while something is on *)
(* its way that will end it, with one thing at a time.                      *)
UpdaterInv ==
  /\ ~touched =>
       /\ updater.hash = LocalHash(file)
       /\ updater.modified \in {NoVersion, LocalHash(file)}
       /\ updater.offered => updater.available # file
  /\ Busy(updater) <=> flight.kind # "none"
  /\ ~(updater.checking /\ updater.downloading)
  /\ updater.attempts <= UpdaterAttempts + UpdaterRedirects

(* A check or a download that was begun ends, whatever the provider answers *)
(* and however often it redirects: the transfers have a timeout, and the    *)
(* attempts are counted.                                                    *)
UpdaterSettles == Busy(updater) ~> ~Busy(updater)
=============================================================================
