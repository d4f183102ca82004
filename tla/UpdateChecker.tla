------------------------------ MODULE UpdateChecker ------------------------------
(***************************************************************************)
(* UpdateChecker: the manifest of the newest release, and the download of  *)
(* a release: its list of checksums first, then its file, which is kept    *)
(* under a name of its own once its checksum has been verified.  A release *)
(* stands for its version, its addresses and its contents; what is         *)
(* published under the addresses of one release may still be changing.     *)
(***************************************************************************)
EXTENDS Integers

CONSTANTS
  CurrentRelease,   \* the version that runs
  NewestRelease,    \* bound on the releases that are published
  CheckerTries      \* kMaximumAttempts
ASSUME UpdateCheckerAssumption ==
  CurrentRelease \in Nat /\ NewestRelease \in Nat \ {0} /\ CheckerTries \in Nat \ {0}

VARIABLES
  checker,          \* the members of UpdateChecker
  manifest,         \* what is under way for a check: a reply, a timer, nothing
  transfer,         \* and for a download
  kept,             \* what the file of each release holds on the disk
  newest,           \* the release that the manifest names
  edition           \* how often the files of each release have been published
checkerVars == <<checker, manifest, transfer, kept, newest, edition>>

NoRelease == 0
Releases == 1..NewestRelease
NoFile == 0         \* no file, no edition, and no checksum
CutShort == -1      \* the beginning of a file

(* checksums and target are pending_checksums_text_ and the pending         *)
(* addresses; path is downloaded_file_path_, by its release.                *)
CheckerInit ==
  /\ checker = [release |-> NoRelease, available |-> FALSE, downloading |-> FALSE, verified |-> FALSE,
                path |-> NoRelease, target |-> NoRelease, checksums |-> NoFile,
                checks |-> 0, lists |-> 0, files |-> 0]
  /\ manifest = "none" /\ transfer = "none"
  /\ kept = [r \in Releases |-> NoFile] /\ edition = [r \in Releases |-> 1]
  /\ newest = 1

Outcomes == {"transient", "failure", "cut", "whole"}

-----------------------------------------------------------------------------
(* checkForUpdates(), requestManifest() *)
CheckRelease ==
  /\ manifest = "none"
  /\ manifest' = "reply" /\ checker' = [checker EXCEPT !.checks = 1]
  /\ UNCHANGED <<transfer, kept, newest, edition>>
(* handleManifestReply(): a manifest that is cut is malformed. *)
ManifestReply ==
  /\ manifest = "reply"
  /\ \E outcome \in Outcomes :
       IF outcome = "transient" /\ checker.checks < CheckerTries
       THEN manifest' = "timer" /\ UNCHANGED checker
       ELSE /\ manifest' = "none"
            /\ checker' = IF outcome # "whole" THEN checker
                          ELSE [checker EXCEPT !.release = newest,
                                               !.available = newest > CurrentRelease]
  /\ UNCHANGED <<transfer, kept, newest, edition>>
ManifestTimer ==
  /\ manifest = "timer" /\ manifest' = "reply" /\ checker' = [checker EXCEPT !.checks = @ + 1]
  /\ UNCHANGED <<transfer, kept, newest, edition>>

-----------------------------------------------------------------------------
(* downloadUpdate() *)
DownloadBegun(c) ==
  [c EXCEPT !.downloading = TRUE, !.verified = FALSE, !.path = NoRelease,
            !.target = c.release, !.lists = 1, !.files = 0]
DownloadUpdate ==
  /\ ~checker.downloading /\ checker.release # NoRelease
  /\ checker' = DownloadBegun(checker) /\ transfer' = "list"
  /\ UNCHANGED <<manifest, kept, newest, edition>>

(* finishDownload(): a failure removes the file that is on offer, of which  *)
(* there is none by then.                                                   *)
DownloadEnds(c, success, disk) ==
  /\ checker' = [c EXCEPT !.downloading = FALSE, !.verified = success,
                          !.path = IF success THEN @ ELSE NoRelease]
  /\ transfer' = "none"
  /\ kept' = IF success \/ c.path = NoRelease THEN disk ELSE [disk EXCEPT ![c.path] = NoFile]

(* handleChecksumsReply(): a list that does not declare its length may be   *)
(* cut without being noticed, before the line that was wanted or after it.  *)
ChecksumsReply ==
  /\ transfer = "list"
  /\ \E outcome \in Outcomes, declared \in BOOLEAN :
       LET again == outcome = "transient" \/ (outcome = "cut" /\ declared)
           line == edition[checker.target]
       IN IF again /\ checker.lists < CheckerTries
          THEN transfer' = "list-timer" /\ UNCHANGED <<checker, kept>>
          ELSE IF again \/ outcome = "failure" THEN DownloadEnds(checker, FALSE, kept)
          ELSE /\ transfer' = "file" /\ UNCHANGED kept
               /\ \E read \in {line} \cup (IF outcome = "cut" THEN {NoFile} ELSE {}) :
                    checker' = [checker EXCEPT !.checksums = read, !.files = 1]
  /\ UNCHANGED <<manifest, newest, edition>>
ChecksumsTimer ==
  /\ transfer = "list-timer" /\ transfer' = "list" /\ checker' = [checker EXCEPT !.lists = @ + 1]
  /\ UNCHANGED <<manifest, kept, newest, edition>>

Verified(c, content) == content = c.checksums

(* handleArtifactReply(): a reply that does not declare its length may be   *)
(* cut without being noticed as such; the disk may be full.                 *)
ArtifactArrives ==
  /\ transfer = "file"
  /\ \E outcome \in Outcomes, declared \in BOOLEAN, full \in BOOLEAN :
       LET content == IF outcome = "cut" THEN CutShort ELSE edition[checker.target]
           again == outcome = "transient" \/ (outcome = "cut" /\ declared)
           put(v) == [kept EXCEPT ![checker.target] = v]
       IN IF again /\ checker.files < CheckerTries
          THEN transfer' = "file-timer" /\ UNCHANGED <<checker, kept>>
          ELSE IF again \/ outcome = "failure" \/ ~Verified(checker, content)
          THEN DownloadEnds(checker, FALSE, kept)
          ELSE IF full THEN DownloadEnds(checker, FALSE, put(CutShort))
          ELSE DownloadEnds([checker EXCEPT !.path = checker.target], TRUE, put(content))
  /\ UNCHANGED <<manifest, newest, edition>>
ArtifactTimer ==
  /\ transfer = "file-timer" /\ transfer' = "file" /\ checker' = [checker EXCEPT !.files = @ + 1]
  /\ UNCHANGED <<manifest, kept, newest, edition>>

ReleasePublished ==
  /\ newest < NewestRelease /\ newest' = newest + 1
  /\ UNCHANGED <<checker, manifest, transfer, kept, edition>>
ReleaseChanges ==
  /\ \E r \in Releases : edition[r] = 1 /\ edition' = [edition EXCEPT ![r] = 2]
  /\ UNCHANGED <<checker, manifest, transfer, kept, newest>>

CheckerNext ==
  \/ CheckRelease \/ ManifestReply \/ ManifestTimer
  \/ DownloadUpdate \/ ChecksumsReply \/ ChecksumsTimer \/ ArtifactArrives \/ ArtifactTimer
  \/ ReleasePublished \/ ReleaseChanges
CheckerSpec == CheckerInit /\ [][CheckerNext]_checkerVars

-----------------------------------------------------------------------------
(* The file that the operator is offered to open is whole, and is the       *)
(* edition whose checksum was read for it: not one that was cut, that an    *)
(* unfinished download has since written over, or that the checksums of     *)
(* another release matched.  A download is under way exactly while          *)
(* something will end it.                                                   *)
CheckerInv ==
  /\ checker.verified =>
       /\ checker.path # NoRelease /\ checker.path = checker.target /\ ~checker.downloading
       /\ kept[checker.path] = checker.checksums /\ kept[checker.path] \notin {NoFile, CutShort}
  /\ ~checker.verified => checker.path = NoRelease
  /\ checker.downloading <=> transfer # "none"
  /\ checker.checks <= CheckerTries /\ checker.lists <= CheckerTries /\ checker.files <= CheckerTries
=============================================================================
