------------------------------ MODULE ServicesProofs ------------------------------
(***************************************************************************)
(* What the services beside the radio keep, for every value of their       *)
(* constants: the callsign database, the download of a release, the        *)
(* observers of the diagnostics server and their audio, and the queues of  *)
(* the live worker.                                                        *)
(***************************************************************************)
EXTENDS MCServices, SequenceTheorems, FiniteSetTheorems, TLAPS

-----------------------------------------------------------------------------
(***************************************************************************)
(* The callsign database: what is said of its file, the one request that is *)
(* under way, and the attempts that are left.                              *)
(***************************************************************************)

UpdaterRecord ==
  [enabled : BOOLEAN, auto : BOOLEAN, checking : BOOLEAN, downloading : BOOLEAN,
   offered : BOOLEAN, installs : BOOLEAN, available : {NoVersion} \cup Versions, attempts : Nat,
   hash : Int, modified : Int]
(* A record tells of one installation, or of none. *)
UpdaterRecords ==
  {r \in [enabled : BOOLEAN, auto : BOOLEAN, hash : Int, modified : Int] :
     r.modified \in {NoVersion, r.hash}}
Flights == [kind : {"none", "reply", "timer"}, redirects : 0..UpdaterRedirects]

UpdaterType ==
  /\ updater \in UpdaterRecord /\ records \in UpdaterRecords
  /\ file \in {NoVersion, Unreadable} \cup Versions
  /\ published \in Versions /\ flight \in Flights
  /\ dueAt \in BOOLEAN /\ touched \in BOOLEAN

(* What an updater u says of a file f that only the program has written. *)
DescribesFile(u, f) ==
  /\ u.hash = LocalHash(f) /\ u.modified \in {NoVersion, LocalHash(f)}
  /\ u.offered => u.available # f
OneAtATime(u, fl) ==
  /\ Busy(u) <=> fl.kind # "none"
  /\ ~(u.checking /\ u.downloading)
(* A redirect counts as an attempt, and there are only so many of them for *)
(* each attempt that is made because of a failure.                         *)
AttemptsLeft(u, fl) ==
  /\ u.attempts <= UpdaterAttempts + UpdaterRedirects
  /\ fl.kind = "reply" => u.attempts + fl.redirects <= UpdaterAttempts + UpdaterRedirects
  /\ fl.kind = "timer" => u.attempts < UpdaterAttempts

UpdaterIInv ==
  /\ UpdaterType
  /\ ~touched => DescribesFile(updater, file)
  /\ OneAtATime(updater, flight)
  /\ AttemptsLeft(updater, flight)

LEMMA VersionsAreNumbers ==
  /\ 1 \in Versions /\ Versions \subseteq Int /\ NoVersion \in Int /\ Unreadable \in Int
  /\ NoVersion \notin Versions /\ Unreadable \notin Versions
  BY UpdaterAssumption DEF Versions, NoVersion, Unreadable

LEMMA HashOfFile ==
  ASSUME NEW f \in {NoVersion, Unreadable} \cup Versions
  PROVE  /\ LocalHash(f) \in {NoVersion} \cup Versions
         /\ \A v \in Versions : LocalHash(f) = v <=> f = v
  BY VersionsAreNumbers DEF LocalHash

(* The constructor keeps of what is recorded only what describes the file. *)
LEMMA LoadedDescribes ==
  ASSUME NEW r \in UpdaterRecords, NEW f \in {NoVersion, Unreadable} \cup Versions
  PROVE  /\ Loaded(r, f) \in UpdaterRecord
         /\ DescribesFile(Loaded(r, f), f)
         /\ OneAtATime(Loaded(r, f), NothingUnderWay)
         /\ AttemptsLeft(Loaded(r, f), NothingUnderWay)
  <1>1. LocalHash(f) \in Int /\ NoVersion \in Int
    BY HashOfFile, VersionsAreNumbers
  <1>2. Loaded(r, f) \in UpdaterRecord
    BY <1>1 DEF Loaded, UpdaterRecord, UpdaterRecords
  <1>3. DescribesFile(Loaded(r, f), f)
    BY DEF Loaded, DescribesFile, UpdaterRecords
  <1>4. OneAtATime(Loaded(r, f), NothingUnderWay)
    BY DEF OneAtATime, Loaded, NothingUnderWay, Busy
  <1>5. AttemptsLeft(Loaded(r, f), NothingUnderWay)
    BY UpdaterAssumption DEF AttemptsLeft, Loaded, NothingUnderWay
  <1> QED
    BY <1>2, <1>3, <1>4, <1>5

(* A request that is made for something under way counts.                  *)
LEMMA RequestCounts ==
  ASSUME NEW u \in UpdaterRecord, NEW redirects \in 0..UpdaterRedirects,
         Busy(u), ~(u.checking /\ u.downloading),
         u.attempts + 1 + redirects <= UpdaterAttempts + UpdaterRedirects,
         Request(u, redirects)
  PROVE  /\ updater' \in UpdaterRecord /\ flight' \in Flights
         /\ OneAtATime(updater', flight') /\ AttemptsLeft(updater', flight')
         /\ updater'.hash = u.hash /\ updater'.modified = u.modified
         /\ updater'.offered = u.offered /\ updater'.available = u.available
  <1>1. CASE u.enabled
    BY <1>1, UpdaterAssumption
       DEF Request, UpdaterRecord, Flights, Replies, OneAtATime, AttemptsLeft, Busy
  <1>2. CASE ~u.enabled
    <2> DEFINE d == IF u.downloading THEN DownloadFails(u) ELSE CheckFails(u)
    <2>1. updater' = d /\ flight' = NothingUnderWay
      BY <1>2 DEF Request
    <2>2. /\ d \in UpdaterRecord /\ ~Busy(d)
          /\ d.attempts = u.attempts /\ d.hash = u.hash /\ d.modified = u.modified
          /\ d.offered = u.offered /\ d.available = u.available
      BY DEF UpdaterRecord, CheckFails, DownloadFails, Busy
    <2>3. NothingUnderWay \in Flights /\ NothingUnderWay.kind = "none"
      BY UpdaterAssumption DEF NothingUnderWay, Flights
    <2>4. u.attempts \in Nat /\ redirects \in Nat
      BY UpdaterAssumption DEF UpdaterRecord
    <2> QED
      BY <2>1, <2>2, <2>3, <2>4, UpdaterAssumption DEF OneAtATime, AttemptsLeft, Busy
  <1> QED
    BY <1>1, <1>2

LEMMA InitUpdater == UpdaterInit => UpdaterIInv
  <1> SUFFICES ASSUME UpdaterInit PROVE UpdaterIInv
    OBVIOUS
  <1>1. records \in UpdaterRecords /\ file \in {NoVersion, Unreadable} \cup Versions
    BY VersionsAreNumbers DEF UpdaterInit, UpdaterRecords
  <1>2. NothingUnderWay \in Flights
    BY UpdaterAssumption DEF NothingUnderWay, Flights
  <1> QED
    BY <1>1, <1>2, LoadedDescribes, VersionsAreNumbers DEF UpdaterInit, UpdaterIInv, UpdaterType

(* A check and a download that begin, by whoever asks for them.            *)
LEMMA BeginMetadataCounts ==
  ASSUME NEW u \in UpdaterRecord, NEW installs \in BOOLEAN, ~Busy(u), BeginMetadata(u, installs),
         UpdaterIInv, UNCHANGED <<file, records, published, dueAt, touched>>,
         ~touched => u.hash = LocalHash(file) /\ u.modified \in {NoVersion, LocalHash(file)}
  PROVE  UpdaterIInv'
  <1> DEFINE w == [u EXCEPT !.checking = TRUE, !.offered = FALSE, !.attempts = 0, !.installs = installs]
  <1>1. /\ w \in UpdaterRecord /\ Busy(w) /\ ~(w.checking /\ w.downloading) /\ w.attempts = 0
        /\ w.hash = u.hash /\ w.modified = u.modified /\ ~w.offered
    BY DEF UpdaterRecord, Busy
  <1>2. UpdaterRedirects \in 0..UpdaterRedirects /\ 0 + 1 + UpdaterRedirects <= UpdaterAttempts + UpdaterRedirects
    BY UpdaterAssumption
  <1>3. Request(w, UpdaterRedirects)
    BY DEF BeginMetadata
  <1>4. /\ updater' \in UpdaterRecord /\ flight' \in Flights
        /\ OneAtATime(updater', flight') /\ AttemptsLeft(updater', flight')
        /\ updater'.hash = u.hash /\ updater'.modified = u.modified /\ ~updater'.offered
    <2> HIDE DEF w
    <2> QED
      BY <1>1, <1>2, <1>3, RequestCounts
  <1> QED
    BY <1>4 DEF UpdaterIInv, UpdaterType, DescribesFile

LEMMA BeginArtifactCounts ==
  ASSUME NEW u \in UpdaterRecord, ~u.downloading, BeginArtifact(u),
         UpdaterIInv, file' = file, touched' = touched, published' = published,
         records' \in UpdaterRecords, dueAt' \in BOOLEAN,
         ~touched => DescribesFile(u, file)
  PROVE  UpdaterIInv'
  <1> DEFINE w == [u EXCEPT !.checking = FALSE, !.downloading = TRUE, !.attempts = 0]
  <1>1. /\ w \in UpdaterRecord /\ Busy(w) /\ ~(w.checking /\ w.downloading) /\ w.attempts = 0
        /\ w.hash = u.hash /\ w.modified = u.modified /\ w.offered = u.offered
        /\ w.available = u.available
    BY DEF UpdaterRecord, Busy
  <1>2. UpdaterRedirects \in 0..UpdaterRedirects /\ 0 + 1 + UpdaterRedirects <= UpdaterAttempts + UpdaterRedirects
    BY UpdaterAssumption
  <1>3. Request(w, UpdaterRedirects)
    BY DEF BeginArtifact
  <1>4. /\ updater' \in UpdaterRecord /\ flight' \in Flights
        /\ OneAtATime(updater', flight') /\ AttemptsLeft(updater', flight')
        /\ updater'.hash = u.hash /\ updater'.modified = u.modified
        /\ updater'.offered = u.offered /\ updater'.available = u.available
    <2> HIDE DEF w
    <2> QED
      BY <1>1, <1>2, <1>3, RequestCounts
  <1> QED
    BY <1>4 DEF UpdaterIInv, UpdaterType, DescribesFile

(* What ends leaves nothing under way, whichever member it clears.         *)
LEMMA FinishedSettles ==
  ASSUME NEW u \in UpdaterRecord, ~Busy(u), Finished(u),
         u.attempts <= UpdaterAttempts + UpdaterRedirects
  PROVE  /\ updater' \in UpdaterRecord /\ flight' \in Flights
         /\ OneAtATime(updater', flight') /\ AttemptsLeft(updater', flight')
         /\ updater' = u
  BY UpdaterAssumption
     DEF Finished, NothingUnderWay, Flights, OneAtATime, AttemptsLeft, Busy

LEMMA FailsDescribes ==
  ASSUME NEW u \in UpdaterRecord
  PROVE  /\ CheckFails(u) \in UpdaterRecord /\ DownloadFails(u) \in UpdaterRecord
         /\ UpToDate(u) \in UpdaterRecord /\ ~UpToDate(u).offered
         /\ ~Busy(DownloadFails(u)) /\ ~Busy(UpToDate(u)) /\ (~u.downloading => ~Busy(CheckFails(u)))
         /\ \A w \in {CheckFails(u), DownloadFails(u), UpToDate(u)} :
              /\ w.hash = u.hash /\ w.modified = u.modified /\ w.attempts = u.attempts
              /\ w.available = u.available
              /\ w.offered => u.offered
  BY DEF UpdaterRecord, CheckFails, DownloadFails, UpToDate, Busy

(* A reply that is trouble ends what it was for, or is tried again.        *)
LEMMA TroubledSettles ==
  ASSUME UpdaterIInv, flight.kind = "reply", NEW fails \in UpdaterRecord,
         fails \in {CheckFails(updater), DownloadFails(updater)}, ~Busy(fails),
         NEW outcome \in Trouble, Troubled(fails, outcome),
         UNCHANGED <<file, published, touched, records, dueAt>>
  PROVE  UpdaterIInv'
  <1> SUFFICES /\ updater' \in UpdaterRecord /\ flight' \in Flights
               /\ OneAtATime(updater', flight') /\ AttemptsLeft(updater', flight')
               /\ updater'.hash = updater.hash /\ updater'.modified = updater.modified
               /\ updater'.available = updater.available
               /\ updater'.offered => updater.offered
    BY DEF UpdaterIInv, UpdaterType, DescribesFile
  <1>1. /\ updater \in UpdaterRecord /\ flight \in Flights /\ updater.attempts \in Nat
        /\ OneAtATime(updater, flight) /\ AttemptsLeft(updater, flight)
    BY DEF UpdaterIInv, UpdaterType, UpdaterRecord
  <1>2. CASE outcome = "redirect" /\ flight.redirects > 0
    <2>1. flight.redirects \in 0..UpdaterRedirects
      BY <1>1 DEF Flights
    <2>2. /\ flight.redirects - 1 \in 0..UpdaterRedirects
          /\ updater.attempts + 1 + (flight.redirects - 1) <= UpdaterAttempts + UpdaterRedirects
      BY <1>1, <1>2, <2>1, UpdaterAssumption DEF AttemptsLeft
    <2>3. Request(updater, flight.redirects - 1)
      BY <1>2 DEF Troubled
    <2>4. Busy(updater) /\ ~(updater.checking /\ updater.downloading)
      BY <1>1 DEF OneAtATime
    <2> QED
      BY <1>1, <2>2, <2>3, <2>4, RequestCounts
  <1>3. CASE ~(outcome = "redirect" /\ flight.redirects > 0)
             /\ outcome = "transient" /\ updater.attempts < UpdaterAttempts
    <2>1. flight' = Timer /\ updater' = updater
      BY <1>3 DEF Troubled
    <2> QED
      BY <1>1, <1>3, <2>1, UpdaterAssumption DEF Timer, Flights, OneAtATime, AttemptsLeft
  <1>4. CASE ~(outcome = "redirect" /\ flight.redirects > 0)
             /\ ~(outcome = "transient" /\ updater.attempts < UpdaterAttempts)
    <2>1. Finished(fails)
      BY <1>4 DEF Troubled
    <2>2. /\ fails.attempts = updater.attempts /\ fails.hash = updater.hash
          /\ fails.modified = updater.modified /\ fails.available = updater.available
          /\ fails.offered => updater.offered
      <3>1. fails = CheckFails(updater) \/ fails = DownloadFails(updater)
        OBVIOUS
      <3> QED
        BY <1>1, <3>1 DEF CheckFails, DownloadFails, UpdaterRecord
    <2>3. fails.attempts <= UpdaterAttempts + UpdaterRedirects
      BY <1>1, <2>2 DEF AttemptsLeft
    <2> QED
      BY <2>1, <2>2, <2>3, FinishedSettles
  <1> QED
    BY <1>2, <1>3, <1>4

(* handleMetadataReply(): the version that is offered is not that of the   *)
(* file, and one that is the file's is recorded for it.                    *)
LEMMA MetadataReplyStep == UpdaterIInv /\ MetadataReply => UpdaterIInv'
  <1> SUFFICES ASSUME UpdaterIInv, MetadataReply PROVE UpdaterIInv'
    OBVIOUS
  <1>1. /\ updater \in UpdaterRecord /\ flight \in Flights /\ records \in UpdaterRecords
        /\ published \in Versions /\ file \in {NoVersion, Unreadable} \cup Versions
        /\ updater.attempts \in Nat /\ dueAt \in BOOLEAN
        /\ updater.attempts <= UpdaterAttempts + UpdaterRedirects
        /\ updater.checking /\ ~updater.downloading /\ flight.kind = "reply"
        /\ file' = file /\ published' = published /\ touched' = touched
    BY DEF UpdaterIInv, UpdaterType, UpdaterRecord, AttemptsLeft, OneAtATime, MetadataReply
  <1>2. CASE ~updater.enabled /\ Finished(CheckFails(updater)) /\ UNCHANGED <<records, dueAt>>
    <2>1. /\ CheckFails(updater) \in UpdaterRecord /\ ~Busy(CheckFails(updater))
          /\ CheckFails(updater).attempts = updater.attempts
          /\ CheckFails(updater).hash = updater.hash
          /\ CheckFails(updater).modified = updater.modified
          /\ CheckFails(updater).available = updater.available
          /\ CheckFails(updater).offered = updater.offered
      BY <1>1 DEF CheckFails, UpdaterRecord, Busy
    <2>2. /\ updater' \in UpdaterRecord /\ flight' \in Flights
          /\ OneAtATime(updater', flight') /\ AttemptsLeft(updater', flight')
          /\ updater' = CheckFails(updater)
      BY <1>1, <1>2, <2>1, FinishedSettles
    <2> QED
      BY <1>1, <1>2, <2>1, <2>2 DEF UpdaterIInv, UpdaterType, DescribesFile
  <1>3. CASE /\ UNCHANGED <<records, dueAt>>
             /\ \E outcome \in Trouble : Troubled(CheckFails(updater), outcome)
    BY <1>1, <1>3, FailsDescribes, TroubledSettles
  <1>4. CASE /\ updater.enabled /\ dueAt' = FALSE
             /\ LET u == [updater EXCEPT !.available = published, !.checking = FALSE,
                                         !.offered = LocalHash(file) # published]
                IN IF ~u.offered
                   THEN Finished(UpToDate(Recorded(u))) /\ records' = Persisted(records, u)
                   ELSE /\ UNCHANGED records
                        /\ IF u.installs THEN BeginArtifact(u) ELSE Finished(u)
    <2> DEFINE u == [updater EXCEPT !.available = published, !.checking = FALSE,
                                    !.offered = LocalHash(file) # published]
    <2>1. /\ u \in UpdaterRecord /\ ~Busy(u) /\ ~u.downloading
          /\ u.available = published /\ u.hash = updater.hash /\ u.modified = updater.modified
          /\ u.offered = (LocalHash(file) # published) /\ u.attempts = updater.attempts
      BY <1>1 DEF UpdaterRecord, Busy
    <2>2. ~touched => DescribesFile(u, file)
      BY <1>1, <2>1, HashOfFile DEF UpdaterIInv, DescribesFile
    <2>3. CASE ~u.offered
      <3>1. Finished(UpToDate(Recorded(u))) /\ records' = Persisted(records, u)
        BY <1>4, <2>3
      <3>2. /\ Recorded(u) \in UpdaterRecord /\ Recorded(u).hash = published
            /\ Recorded(u).modified = published /\ Recorded(u).attempts = u.attempts
        <4> DEFINE version == u.available
                   w == Recorded(u)
        <4>1. version = published /\ version \in Int /\ u \in UpdaterRecord
          BY <1>1, <2>1, VersionsAreNumbers
        <4>2. w = [u EXCEPT !.hash = version, !.modified = version]
          BY DEF Recorded
        <4> HIDE DEF u, w, version
        <4>3. w \in UpdaterRecord /\ w.hash = version /\ w.modified = version /\ w.attempts = u.attempts
          BY <4>1, <4>2 DEF UpdaterRecord
        <4> QED
          BY <4>1, <4>3 DEF w
      <3>3. records' \in UpdaterRecords
        BY <1>1, <2>1, <3>1, VersionsAreNumbers DEF Persisted, UpdaterRecords
      <3>4. /\ updater' = UpToDate(Recorded(u)) /\ updater' \in UpdaterRecord /\ flight' \in Flights
            /\ OneAtATime(updater', flight') /\ AttemptsLeft(updater', flight')
            /\ updater'.hash = published /\ updater'.modified = published /\ ~updater'.offered
        <4>1. /\ UpToDate(Recorded(u)) \in UpdaterRecord /\ ~Busy(UpToDate(Recorded(u)))
              /\ UpToDate(Recorded(u)).hash = published
              /\ UpToDate(Recorded(u)).modified = published
              /\ ~UpToDate(Recorded(u)).offered
              /\ UpToDate(Recorded(u)).attempts = updater.attempts
          <5> HIDE DEF u
          <5> QED
            BY ZenonT(60), <2>1, <3>2, FailsDescribes DEF UpToDate, DownloadFails, CheckFails, UpdaterRecord
        <4> QED
          BY <1>1, <3>1, <4>1, FinishedSettles
      <3>5. LocalHash(file) = published
        BY <2>1, <2>3
      <3> QED
        BY <1>1, <1>4, <3>3, <3>4, <3>5 DEF UpdaterIInv, UpdaterType, DescribesFile
    <2>4. CASE u.offered
      <3>1. records' = records /\ IF u.installs THEN BeginArtifact(u) ELSE Finished(u)
        BY <1>4, <2>4
      <3>2. CASE BeginArtifact(u)
        <4> HIDE DEF u
        <4> QED
          BY <1>1, <1>4, <2>1, <2>2, <3>1, <3>2, BeginArtifactCounts
      <3>3. CASE Finished(u)
        <4>1. /\ updater' \in UpdaterRecord /\ flight' \in Flights
              /\ OneAtATime(updater', flight') /\ AttemptsLeft(updater', flight') /\ updater' = u
          <5> HIDE DEF u
          <5> QED
            BY <1>1, <2>1, <3>3, FinishedSettles
        <4> HIDE DEF u
        <4> QED
          BY <1>1, <1>4, <2>2, <3>1, <4>1 DEF UpdaterIInv, UpdaterType
      <3> QED
        BY <3>1, <3>2, <3>3
    <2> QED
      BY <2>3, <2>4
  <1> QED
    BY <1>2, <1>3, <1>4 DEF MetadataReply

(* handleArtifactReply(): the file that is written is the version that was *)
(* offered, and what is recorded is what is in it.                         *)
LEMMA ArtifactReplyStep == UpdaterIInv /\ ArtifactReply => UpdaterIInv'
  <1> SUFFICES ASSUME UpdaterIInv, ArtifactReply PROVE UpdaterIInv'
    OBVIOUS
  <1>1. /\ updater \in UpdaterRecord /\ flight \in Flights /\ records \in UpdaterRecords
        /\ published \in Versions /\ file \in {NoVersion, Unreadable} \cup Versions
        /\ updater.attempts \in Nat /\ dueAt \in BOOLEAN /\ touched \in BOOLEAN
        /\ updater.attempts <= UpdaterAttempts + UpdaterRedirects
        /\ ~updater.checking /\ updater.downloading /\ flight.kind = "reply"
        /\ published' = published /\ dueAt' = dueAt
    BY DEF UpdaterIInv, UpdaterType, UpdaterRecord, AttemptsLeft, OneAtATime, ArtifactReply
  <1>2. /\ DownloadFails(updater) \in UpdaterRecord /\ ~Busy(DownloadFails(updater))
        /\ DownloadFails(updater).attempts = updater.attempts
        /\ DownloadFails(updater).hash = updater.hash
        /\ DownloadFails(updater).modified = updater.modified
        /\ DownloadFails(updater).available = updater.available
        /\ DownloadFails(updater).offered = updater.offered
    BY <1>1 DEF DownloadFails, CheckFails, UpdaterRecord, Busy
  <1>3. CASE Finished(DownloadFails(updater)) /\ UNCHANGED <<file, records, touched>>
    <2>1. /\ updater' \in UpdaterRecord /\ flight' \in Flights
          /\ OneAtATime(updater', flight') /\ AttemptsLeft(updater', flight')
          /\ updater' = DownloadFails(updater)
      BY <1>1, <1>2, <1>3, FinishedSettles
    <2> QED
      BY <1>1, <1>2, <1>3, <2>1 DEF UpdaterIInv, UpdaterType, DescribesFile
  <1>4. CASE /\ UNCHANGED <<file, records, touched>>
             /\ \E outcome \in Trouble : Troubled(DownloadFails(updater), outcome)
    BY <1>1, <1>2, <1>4, TroubledSettles
  <1>5. /\ UpToDate(Recorded(updater)) \in UpdaterRecord /\ ~Busy(UpToDate(Recorded(updater)))
        /\ UpToDate(Recorded(updater)).hash = updater.available
        /\ UpToDate(Recorded(updater)).modified = updater.available
        /\ ~UpToDate(Recorded(updater)).offered
        /\ UpToDate(Recorded(updater)).attempts = updater.attempts
    BY <1>1, VersionsAreNumbers DEF UpToDate, DownloadFails, CheckFails, Recorded, UpdaterRecord, Busy
  <1>6. Persisted(records, updater) \in UpdaterRecords
    BY <1>1, VersionsAreNumbers DEF Persisted, UpdaterRecords, UpdaterRecord
  <1>7. ASSUME Finished(UpToDate(Recorded(updater))), records' = Persisted(records, updater),
               file' \in {NoVersion, Unreadable} \cup Versions, touched' = touched,
               LocalHash(file') = updater.available
        PROVE  UpdaterIInv'
    <2>1. /\ updater' \in UpdaterRecord /\ flight' \in Flights
          /\ OneAtATime(updater', flight') /\ AttemptsLeft(updater', flight')
          /\ updater' = UpToDate(Recorded(updater))
      BY <1>1, <1>5, <1>7, FinishedSettles
    <2> QED
      BY <1>1, <1>5, <1>6, <1>7, <2>1 DEF UpdaterIInv, UpdaterType, DescribesFile
  <1>8. CASE Unmodified /\ UNCHANGED <<file, touched>>
    BY <1>1, <1>3, <1>7, <1>8 DEF Unmodified
  <1>9. CASE /\ Accepted(updater, published) /\ UNCHANGED touched /\ file' = published
             /\ Finished(UpToDate(Recorded(updater))) /\ records' = Persisted(records, updater)
    <2>1. LocalHash(file') = updater.available /\ file' \in {NoVersion, Unreadable} \cup Versions
      BY <1>1, <1>9 DEF Accepted, LocalHash
    <2> QED
      BY <1>7, <1>9, <2>1
  <1>10. CASE /\ touched' = FALSE /\ file' = published /\ UNCHANGED records
              /\ updater' = Loaded(records, published) /\ flight' = NothingUnderWay
    <2>1. NothingUnderWay \in Flights
      BY UpdaterAssumption DEF NothingUnderWay, Flights
    <2>2. published \in {NoVersion, Unreadable} \cup Versions
      BY <1>1
    <2> QED
      BY <1>1, <1>10, <2>1, <2>2, LoadedDescribes DEF UpdaterIInv, UpdaterType
  <1> QED
    BY <1>3, <1>4, <1>8, <1>9, <1>10 DEF ArtifactReply

LEMMA StepUpdater == UpdaterIInv /\ [UpdaterNext]_updaterVars => UpdaterIInv'
  <1> SUFFICES ASSUME UpdaterIInv, [UpdaterNext]_updaterVars PROVE UpdaterIInv'
    OBVIOUS
  <1>0. /\ updater \in UpdaterRecord /\ flight \in Flights /\ records \in UpdaterRecords
        /\ published \in Versions /\ file \in {NoVersion, Unreadable} \cup Versions
        /\ updater.attempts \in Nat
    BY DEF UpdaterIInv, UpdaterType, UpdaterRecord
  <1>1. CASE CheckForUpdates
    BY <1>0, <1>1, BeginMetadataCounts DEF CheckForUpdates, UpdaterIInv, DescribesFile
  <1>2. CASE UpdateDatabase
    <2>1. CASE BeginMetadata(updater, TRUE)
      BY <1>0, <1>2, <2>1, BeginMetadataCounts DEF UpdateDatabase, UpdaterIInv, DescribesFile
    <2>2. CASE BeginArtifact(updater)
      BY <1>0, <1>2, <2>2, BeginArtifactCounts DEF UpdateDatabase, UpdaterIInv, UpdaterType, Busy
    <2> QED
      BY <1>2, <2>1, <2>2 DEF UpdateDatabase
  <1>3. CASE CheckAndInstallIfDue
    BY <1>0, <1>3, BeginMetadataCounts DEF CheckAndInstallIfDue, UpdaterIInv, DescribesFile
  <1>4. CASE SetManagedEnabled
    BY ZenonT(60), <1>0, <1>4 DEF SetManagedEnabled, UpdaterIInv, UpdaterType, DescribesFile, OneAtATime,
                      AttemptsLeft, Busy, UpdaterRecord, UpdaterRecords
  <1>5. CASE SetAutoUpdateEnabled
    BY ZenonT(60), <1>0, <1>5 DEF SetAutoUpdateEnabled, UpdaterIInv, UpdaterType, DescribesFile, OneAtATime,
                      AttemptsLeft, Busy, UpdaterRecord, UpdaterRecords
  <1>6. CASE RetryTimer
    <2>1. /\ Busy(updater) /\ ~(updater.checking /\ updater.downloading)
          /\ updater.attempts + 1 + UpdaterRedirects <= UpdaterAttempts + UpdaterRedirects
      BY <1>0, <1>6, UpdaterAssumption DEF RetryTimer, UpdaterIInv, OneAtATime, AttemptsLeft
    <2>2. UpdaterRedirects \in 0..UpdaterRedirects
      BY UpdaterAssumption
    <2> QED
      BY <1>0, <1>6, <2>1, <2>2, RequestCounts DEF RetryTimer, UpdaterIInv, UpdaterType, DescribesFile
  <1>7. CASE ProviderPublishes
    BY <1>0, <1>7, UpdaterAssumption DEF ProviderPublishes, UpdaterIInv, UpdaterType, Versions
  <1>8. CASE DayPasses
    BY <1>8 DEF DayPasses, UpdaterIInv, UpdaterType
  <1>9. CASE UpdaterRestarts
    <2>1. NothingUnderWay \in Flights
      BY UpdaterAssumption DEF NothingUnderWay, Flights
    <2> QED
      BY <1>0, <1>9, <2>1, LoadedDescribes DEF UpdaterRestarts, UpdaterIInv, UpdaterType
  <1>10. CASE FileIsReplaced
    BY <1>10 DEF FileIsReplaced, UpdaterIInv, UpdaterType
  <1>11. CASE UNCHANGED updaterVars
    BY <1>11 DEF updaterVars, UpdaterIInv, UpdaterType
  <1> QED
    BY <1>1, <1>2, <1>3, <1>4, <1>5, <1>6, <1>7, <1>8, <1>9, <1>10, <1>11,
       MetadataReplyStep, ArtifactReplyStep DEF UpdaterNext

LEMMA UpdaterFollows == UpdaterIInv => UpdaterInv
  BY DEF UpdaterIInv, UpdaterInv, DescribesFile, OneAtATime, AttemptsLeft

(* What the updater says of the database's file is true while nobody else  *)
(* has touched the file, one request at a time is under way, and attempts  *)
(* and redirects are bounded: callsign_database_updater.cpp.               *)
THEOREM DatabaseIsDescribed == UpdaterSpec => []UpdaterInv
  BY UpdaterFollows, InitUpdater, StepUpdater, PTL DEF UpdaterSpec

-----------------------------------------------------------------------------
(***************************************************************************)
(* The download of a release: what a download that ended offers, and what  *)
(* one that is under way works with.                                       *)
(***************************************************************************)

Editions == {1, 2}
Contents == {NoFile, CutShort} \cup Editions
Transfers == {"none", "list", "list-timer", "file", "file-timer"}
CheckerRecord ==
  [release : {NoRelease} \cup Releases, available : BOOLEAN, downloading : BOOLEAN, verified : BOOLEAN,
   path : {NoRelease} \cup Releases, target : {NoRelease} \cup Releases, checksums : {NoFile} \cup Editions,
   checks : Nat, lists : Nat, files : Nat]
CheckerType ==
  /\ checker \in CheckerRecord
  /\ manifest \in {"none", "reply", "timer"} /\ transfer \in Transfers
  /\ kept \in [Releases -> Contents] /\ edition \in [Releases -> Editions]
  /\ newest \in Releases

(* What a download that has ended offers, and what one that is under way   *)
(* works with: the release that it was begun for, and its list.            *)
OffersWhole(c, disk) ==
  IF c.verified
  THEN /\ c.path \in Releases /\ c.path = c.target /\ ~c.downloading
       /\ disk[c.path] = c.checksums /\ c.checksums \in Editions
  ELSE c.path = NoRelease
DownloadsOne(c, moves) ==
  /\ c.downloading <=> moves # "none"
  /\ c.downloading => c.target \in Releases
(* A timer runs only for an attempt that is still allowed. *)
TriesLeft(c, m, moves) ==
  /\ c.checks <= CheckerTries /\ c.lists <= CheckerTries /\ c.files <= CheckerTries
  /\ m = "timer" => c.checks < CheckerTries
  /\ moves = "list-timer" => c.lists < CheckerTries
  /\ moves = "file-timer" => c.files < CheckerTries
CheckerIInv ==
  /\ CheckerType
  /\ OffersWhole(checker, kept) /\ DownloadsOne(checker, transfer)
  /\ TriesLeft(checker, manifest, transfer)

LEMMA ReleasesAreNumbers ==
  /\ 1 \in Releases /\ Releases \subseteq Nat /\ NoRelease \notin Releases
  /\ NoFile \notin Editions /\ CutShort \notin Editions /\ CutShort # NoFile
  BY UpdateCheckerAssumption DEF Releases, NoRelease, NoFile, CutShort, Editions

LEMMA InitChecker == CheckerInit => CheckerIInv
  BY ReleasesAreNumbers, UpdateCheckerAssumption
     DEF CheckerInit, CheckerIInv, CheckerType, CheckerRecord, Transfers, Contents, Editions,
         OffersWhole, DownloadsOne, TriesLeft

(* finishDownload(): what fails takes nothing from the disk, for nothing   *)
(* is on offer while a download is under way.                              *)
LEMMA DownloadFailsEnds ==
  ASSUME CheckerIInv, checker.downloading, NEW disk \in [Releases -> Contents],
         DownloadEnds(checker, FALSE, disk), UNCHANGED <<manifest, newest, edition>>
  PROVE  CheckerIInv'
  <1>1. checker \in CheckerRecord /\ ~checker.verified /\ checker.path = NoRelease
    BY DEF CheckerIInv, CheckerType, OffersWhole
  <1>2. /\ checker' = [checker EXCEPT !.downloading = FALSE, !.verified = FALSE, !.path = NoRelease]
        /\ transfer' = "none" /\ kept' = disk
    BY <1>1 DEF DownloadEnds
  <1>3. checker' \in CheckerRecord /\ ~checker'.verified /\ checker'.path = NoRelease
        /\ ~checker'.downloading /\ checker'.checks = checker.checks
        /\ checker'.lists = checker.lists /\ checker'.files = checker.files
    BY <1>1, <1>2 DEF CheckerRecord
  <1> QED
    BY <1>2, <1>3 DEF CheckerIInv, CheckerType, OffersWhole, DownloadsOne, TriesLeft, Transfers

LEMMA ManifestSteps ==
  CheckerIInv /\ (CheckRelease \/ ManifestReply \/ ManifestTimer) => CheckerIInv'
  <1> SUFFICES ASSUME CheckerIInv, CheckRelease \/ ManifestReply \/ ManifestTimer
               PROVE  CheckerIInv'
    OBVIOUS
  <1>1. /\ checker \in CheckerRecord /\ newest \in Releases
        /\ UNCHANGED <<transfer, kept, newest, edition>>
    BY DEF CheckerIInv, CheckerType, CheckRelease, ManifestReply, ManifestTimer
  <1>2. SUFFICES /\ checker' \in CheckerRecord /\ manifest' \in {"none", "reply", "timer"}
                 /\ checker'.downloading = checker.downloading
                 /\ checker'.verified = checker.verified
                 /\ checker'.path = checker.path /\ checker'.target = checker.target
                 /\ checker'.checksums = checker.checksums
                 /\ checker'.lists = checker.lists /\ checker'.files = checker.files
                 /\ checker'.checks <= CheckerTries
                 /\ manifest' = "timer" => checker'.checks < CheckerTries
    BY <1>1, <1>2 DEF CheckerIInv, CheckerType, OffersWhole, DownloadsOne, TriesLeft
  <1>3. CASE CheckRelease
    <2>1. checker' = [checker EXCEPT !.checks = 1] /\ manifest' = "reply"
      BY <1>3 DEF CheckRelease
    <2> QED
      BY <1>1, <2>1, UpdateCheckerAssumption DEF CheckerRecord
  <1>4. CASE ManifestReply
    <2>1. /\ manifest' = "timer" => checker.checks < CheckerTries
          /\ manifest' \in {"timer", "none"}
          /\ \/ checker' = checker
             \/ checker' = [checker EXCEPT !.release = newest, !.available = newest > CurrentRelease]
      BY <1>4 DEF ManifestReply
    <2>2. [checker EXCEPT !.release = newest, !.available = newest > CurrentRelease] \in CheckerRecord
      <3>1. (newest > CurrentRelease) \in BOOLEAN
        OBVIOUS
      <3> DEFINE more == newest > CurrentRelease
      <3> HIDE DEF more
      <3> QED
        BY <1>1, <3>1 DEF CheckerRecord, more
    <2>3. checker'.checks = checker.checks /\ checker.checks <= CheckerTries
      BY <1>1, <2>1 DEF CheckerRecord, CheckerIInv, TriesLeft
    <2> QED
      BY <1>1, <2>1, <2>2, <2>3 DEF CheckerRecord
  <1>5. CASE ManifestTimer
    <2>1. /\ checker' = [checker EXCEPT !.checks = @ + 1] /\ manifest' = "reply"
          /\ checker.checks < CheckerTries
      BY <1>5 DEF ManifestTimer, CheckerIInv, TriesLeft
    <2> QED
      BY <1>1, <2>1, UpdateCheckerAssumption DEF CheckerRecord
  <1> QED
    BY <1>3, <1>4, <1>5

LEMMA DownloadSteps ==
  CheckerIInv /\ (DownloadUpdate \/ ChecksumsTimer \/ ArtifactTimer) => CheckerIInv'
  <1> SUFFICES ASSUME CheckerIInv, DownloadUpdate \/ ChecksumsTimer \/ ArtifactTimer
               PROVE  CheckerIInv'
    OBVIOUS
  <1>1. checker \in CheckerRecord
    BY DEF CheckerIInv, CheckerType
  <1>2. CASE DownloadUpdate
    <2>1. /\ checker' = DownloadBegun(checker) /\ transfer' = "list"
          /\ checker.release \in Releases /\ UNCHANGED <<manifest, kept, newest, edition>>
      BY <1>1, <1>2 DEF DownloadUpdate, CheckerRecord
    <2>2. /\ checker' \in CheckerRecord /\ checker'.downloading /\ ~checker'.verified
          /\ checker'.path = NoRelease /\ checker'.target \in Releases
          /\ checker'.checks = checker.checks /\ checker'.lists = 1 /\ checker'.files = 0
      BY <1>1, <2>1 DEF DownloadBegun, CheckerRecord
    <2> QED
      BY <2>1, <2>2, UpdateCheckerAssumption
         DEF CheckerIInv, CheckerType, OffersWhole, DownloadsOne, TriesLeft, Transfers
  <1>3. CASE ChecksumsTimer
    <2>0. checker' = [checker EXCEPT !.lists = @ + 1]
      BY <1>3 DEF ChecksumsTimer
    <2>9. checker.downloading /\ ~checker.verified /\ checker.path = NoRelease
      BY <1>1, <1>3 DEF ChecksumsTimer, CheckerIInv, DownloadsOne, OffersWhole
    <2>1. /\ checker' \in CheckerRecord /\ checker'.downloading /\ ~checker'.verified /\ checker'.path = NoRelease
          /\ checker'.target = checker.target /\ checker'.checksums = checker.checksums
          /\ checker'.checks = checker.checks /\ checker'.files = checker.files
          /\ checker'.lists = checker.lists + 1 /\ checker.lists \in Nat
      BY <1>1, <2>0, <2>9 DEF CheckerRecord
    <2>2. /\ transfer = "list-timer" /\ transfer' = "list"
          /\ UNCHANGED <<manifest, kept, newest, edition>>
      BY <1>3 DEF ChecksumsTimer
    <2> QED
      BY <2>1, <2>2, UpdateCheckerAssumption
         DEF CheckerIInv, CheckerType, OffersWhole, DownloadsOne, TriesLeft, Transfers
  <1>4. CASE ArtifactTimer
    <2>0. checker' = [checker EXCEPT !.files = @ + 1]
      BY <1>4 DEF ArtifactTimer
    <2>9. checker.downloading /\ ~checker.verified /\ checker.path = NoRelease
      BY <1>1, <1>4 DEF ArtifactTimer, CheckerIInv, DownloadsOne, OffersWhole
    <2>1. /\ checker' \in CheckerRecord /\ checker'.downloading /\ ~checker'.verified /\ checker'.path = NoRelease
          /\ checker'.target = checker.target /\ checker'.checksums = checker.checksums
          /\ checker'.checks = checker.checks /\ checker'.lists = checker.lists
          /\ checker'.files = checker.files + 1 /\ checker.files \in Nat
      BY <1>1, <2>0, <2>9 DEF CheckerRecord
    <2>2. /\ transfer = "file-timer" /\ transfer' = "file"
          /\ UNCHANGED <<manifest, kept, newest, edition>>
      BY <1>4 DEF ArtifactTimer
    <2> QED
      BY <2>1, <2>2, UpdateCheckerAssumption
         DEF CheckerIInv, CheckerType, OffersWhole, DownloadsOne, TriesLeft, Transfers
  <1> QED
    BY <1>2, <1>3, <1>4

(* handleChecksumsReply(): the list that is read, or the beginning of it,  *)
(* is the one published at that moment for the release that was asked for. *)
LEMMA ChecksumsReplyStep == CheckerIInv /\ ChecksumsReply => CheckerIInv'
  <1> SUFFICES ASSUME CheckerIInv, ChecksumsReply PROVE CheckerIInv'
    OBVIOUS
  <1>1. /\ checker \in CheckerRecord /\ transfer = "list" /\ checker.downloading
        /\ checker.target \in Releases /\ ~checker.verified /\ checker.path = NoRelease
        /\ kept \in [Releases -> Contents] /\ edition[checker.target] \in Editions
        /\ UNCHANGED <<manifest, newest, edition>>
    BY DEF CheckerIInv, CheckerType, OffersWhole, DownloadsOne, ChecksumsReply
  <1>2. CASE transfer' = "list-timer" /\ UNCHANGED <<checker, kept>> /\ checker.lists < CheckerTries
    BY <1>1, <1>2
       DEF CheckerIInv, CheckerType, OffersWhole, DownloadsOne, TriesLeft, Transfers
  <1>3. CASE DownloadEnds(checker, FALSE, kept)
    BY <1>1, <1>3, DownloadFailsEnds
  <1>4. CASE /\ transfer' = "file" /\ UNCHANGED kept
             /\ \E read \in {edition[checker.target], NoFile} :
                  checker' = [checker EXCEPT !.checksums = read, !.files = 1]
    <2>1. /\ checker' \in CheckerRecord /\ checker'.downloading /\ ~checker'.verified
          /\ checker'.path = NoRelease /\ checker'.target = checker.target
          /\ checker'.checks = checker.checks
          /\ checker'.lists = checker.lists /\ checker'.files = 1
      <3>1. PICK read \in {edition[checker.target], NoFile} :
              checker' = [checker EXCEPT !.checksums = read, !.files = 1]
        BY <1>4
      <3>2. read \in {NoFile} \cup Editions
        BY <1>1
      <3> QED
        BY <1>1, <3>1, <3>2 DEF CheckerRecord
    <2>2. transfer' = "file" /\ kept' = kept
      BY <1>4
    <2> QED
      BY <1>1, <2>1, <2>2, UpdateCheckerAssumption
         DEF CheckerIInv, CheckerType, OffersWhole, DownloadsOne, TriesLeft, Transfers
  <1> QED
    BY <1>2, <1>3, <1>4 DEF ChecksumsReply

(* handleArtifactReply(): only what matches the list is put on offer, and  *)
(* what was cut never does.                                                *)
LEMMA ArtifactArrivesStep == CheckerIInv /\ ArtifactArrives => CheckerIInv'
  <1> SUFFICES ASSUME CheckerIInv, ArtifactArrives PROVE CheckerIInv'
    OBVIOUS
  <1>0. checker \in CheckerRecord
    BY DEF CheckerIInv, CheckerType
  <1>1. /\ checker \in CheckerRecord /\ transfer = "file" /\ checker.downloading
        /\ checker.target \in Releases /\ ~checker.verified /\ checker.path = NoRelease
        /\ checker.checksums \in {NoFile} \cup Editions
        /\ kept \in [Releases -> Contents] /\ edition[checker.target] \in Editions
        /\ UNCHANGED <<manifest, newest, edition>>
    <2>1. checker.checksums \in {NoFile} \cup Editions
      BY <1>0 DEF CheckerRecord
    <2> QED
      BY <1>0, <2>1 DEF CheckerIInv, CheckerType, OffersWhole, DownloadsOne, ArtifactArrives
  <1> DEFINE put(v) == [kept EXCEPT ![checker.target] = v]
             offering == [checker EXCEPT !.path = checker.target]
  <1>2. CASE transfer' = "file-timer" /\ UNCHANGED <<checker, kept>> /\ checker.files < CheckerTries
    BY <1>1, <1>2
       DEF CheckerIInv, CheckerType, OffersWhole, DownloadsOne, TriesLeft, Transfers
  <1>3. CASE DownloadEnds(checker, FALSE, kept) \/ DownloadEnds(checker, FALSE, put(CutShort))
    <2>1. put(CutShort) \in [Releases -> Contents]
      BY <1>1 DEF Contents
    <2> QED
      BY <1>1, <1>3, <2>1, DownloadFailsEnds
  <1>4. ASSUME NEW content \in {CutShort, edition[checker.target]}, Verified(checker, content),
               DownloadEnds(offering, TRUE, put(content))
        PROVE  CheckerIInv'
    <2>1. content = checker.checksums /\ content \in Editions
      BY <1>1, <1>4, ReleasesAreNumbers DEF Verified
    <2>2. put(content) \in [Releases -> Contents] /\ put(content)[checker.target] = content
      BY <1>1, <2>1 DEF Contents
    <2>3. /\ checker' = [offering EXCEPT !.downloading = FALSE, !.verified = TRUE]
          /\ transfer' = "none" /\ kept' = put(content)
      BY <1>1, <1>4 DEF DownloadEnds, CheckerRecord
    <2>4. /\ checker' \in CheckerRecord /\ checker'.verified /\ ~checker'.downloading
          /\ checker'.path = checker.target /\ checker'.target = checker.target
          /\ checker'.checksums = checker.checksums /\ checker'.checks = checker.checks
          /\ checker'.lists = checker.lists /\ checker'.files = checker.files
      BY <1>1, <2>3 DEF CheckerRecord
    <2> QED
      BY <1>1, <2>1, <2>2, <2>3, <2>4
         DEF CheckerIInv, CheckerType, OffersWhole, DownloadsOne, TriesLeft, Transfers
  <1>5. PICK outcome \in Outcomes, declared \in BOOLEAN, full \in BOOLEAN :
          LET content == IF outcome = "cut" THEN CutShort ELSE edition[checker.target]
              again == outcome = "transient" \/ (outcome = "cut" /\ declared)
          IN IF again /\ checker.files < CheckerTries
             THEN transfer' = "file-timer" /\ UNCHANGED <<checker, kept>>
             ELSE IF again \/ outcome = "failure" \/ ~Verified(checker, content)
             THEN DownloadEnds(checker, FALSE, kept)
             ELSE IF full THEN DownloadEnds(checker, FALSE, put(CutShort))
             ELSE DownloadEnds(offering, TRUE, put(content))
    BY DEF ArtifactArrives
  <1> QED
    BY <1>2, <1>3, <1>4, <1>5

LEMMA StepChecker == CheckerIInv /\ [CheckerNext]_checkerVars => CheckerIInv'
  <1> SUFFICES ASSUME CheckerIInv, [CheckerNext]_checkerVars PROVE CheckerIInv'
    OBVIOUS
  <1>1. CASE ReleasePublished
    BY <1>1, UpdateCheckerAssumption DEF ReleasePublished, CheckerIInv, CheckerType, Releases
  <1>2. CASE ReleaseChanges
    BY <1>2 DEF ReleaseChanges, CheckerIInv, CheckerType, Editions
  <1>3. CASE UNCHANGED checkerVars
    BY <1>3 DEF checkerVars, CheckerIInv, CheckerType
  <1> QED
    BY <1>1, <1>2, <1>3, ManifestSteps, DownloadSteps, ChecksumsReplyStep, ArtifactArrivesStep
       DEF CheckerNext

LEMMA CheckerFollows == CheckerIInv => CheckerInv
  BY ReleasesAreNumbers
     DEF CheckerIInv, CheckerInv, CheckerType, OffersWhole, DownloadsOne, TriesLeft

(* What is offered to be opened is the release's file as its list of       *)
(* checksums has it, one transfer at a time is under way, and every request *)
(* is repeated only so often: update_checker.cpp.                          *)
THEOREM DownloadIsVerified == CheckerSpec => []CheckerInv
  BY CheckerFollows, InitChecker, StepChecker, PTL DEF CheckerSpec

-----------------------------------------------------------------------------
(***************************************************************************)
(* Both of them, as the run has them.                                      *)
(***************************************************************************)

(* Every step of the instance works each of the two, or leaves it.         *)
LEMMA ServicesWork ==
  ASSUME [ServicesNext]_ServicesVars
  PROVE  [UpdaterNext]_updaterVars /\ [CheckerNext]_checkerVars
  BY DEF ServicesNext, ServicesVars, AtRest, CallsNext

(* Whatever the other parts of the program do, what is offered or shown of *)
(* a file that was fetched is true of the file.                            *)
THEOREM DownloadsAreTrue == ServicesSpec => []DownloadsInv
  <1>1. UpdaterIInv /\ CheckerIInv => DownloadsInv
    BY UpdaterFollows, CheckerFollows DEF DownloadsInv
  <1>2. ServicesInit => UpdaterInit /\ CheckerInit
    BY DEF ServicesInit
  <1> QED
    BY <1>1, <1>2, ServicesWork, InitUpdater, StepUpdater, InitChecker, StepChecker, PTL
       DEF ServicesSpec

-----------------------------------------------------------------------------
(***************************************************************************)
(* The observers and what they hear.                                       *)
(***************************************************************************)

Datagram == [sequence : Nat, dropped : Nat, chunk : Nat]
AudioRecord ==
  [enabled : BOOLEAN, requested : SUBSET Endpoints, bound : SUBSET Endpoints,
   subscribers : SUBSET [id : Nat, via : Endpoints], sending : BOOLEAN]
FlowType ==
  /\ producer \in [left : Nat, room : BOOLEAN, chunk : Nat]
  /\ datagrams \in [sequence : Nat, dropped : Nat, inFlight : Nat]
  /\ posted \in Seq(Datagram)
  /\ heard \in [Ids(audio.subscribers) -> [from : Nat, last : Datagram]]

(* The datagrams on their way, and after them the one that would be posted *)
(* next.                                                                   *)
Due(i) ==
  IF i <= Len(posted) THEN posted[i]
  ELSE [sequence |-> datagrams.sequence, dropped |-> datagrams.dropped, chunk |-> producer.chunk]
(* Between two of them, as much of the audio is missing as the second says. *)
Follows(next, was) == next.chunk = was.chunk + 1 + next.dropped

Numbered ==
  /\ Len(posted) = datagrams.inFlight
  /\ datagrams.inFlight <= MostInFlight
  /\ producer.room => producer.left > 0 /\ datagrams.inFlight < MostInFlight
  /\ \A i \in 1..Len(posted) + 1 : Due(i).sequence = datagrams.sequence - Len(posted) + i - 1
(* From its beginning, a subscription accounts for what it is sent: along  *)
(* the datagrams on their way, and from the last that it has to the first  *)
(* of them.  Before it began, the producer may have passed over audio.     *)
Accounted(h) ==
  /\ \A i \in 1..Len(posted) : Due(i).sequence >= h.from => Follows(Due(i + 1), Due(i))
  /\ h.last.chunk > 0 => h.last.sequence < Due(1).sequence
  /\ h.last.chunk > 0 /\ h.last.sequence >= h.from /\ h.last.sequence + 1 = Due(1).sequence
       => Follows(Due(1), h.last)
FlowInv ==
  /\ FlowType /\ Numbered
  /\ audio.subscribers # {} => audio.sending
  /\ \A id \in DOMAIN heard : Accounted(heard[id])

LEMMA DueIsDatagram ==
  ASSUME FlowType, NEW i \in 1..Len(posted) + 1
  PROVE  Due(i) \in Datagram
  <1>1. Len(posted) \in Nat /\ \A k \in 1..Len(posted) : posted[k] \in Datagram
    BY DEF FlowType
  <1>2. CASE i <= Len(posted)
    BY <1>1, <1>2 DEF Due
  <1>3. CASE ~(i <= Len(posted))
    BY <1>3 DEF Due, FlowType, Datagram
  <1> QED
    BY <1>2, <1>3

(* What the thread of the server does for a connection leaves what is on   *)
(* its way alone; a subscription that it begins has heard nothing.         *)
LEMMA RemembersKeeps ==
  ASSUME FlowInv, AudioKept, Remembers, audio'.subscribers # {} => audio'.sending
  PROVE  FlowInv' /\ GapStep
  <1>1. /\ heard' = [id \in Ids(audio'.subscribers) |->
                       IF id \in DOMAIN heard THEN heard[id]
                       ELSE [from |-> datagrams.sequence, last |-> NoDatagram]]
        /\ producer' = producer /\ datagrams' = datagrams /\ posted' = posted
    BY DEF Remembers, HeardByThose, AudioKept
  <1>2. datagrams.sequence \in Nat /\ NoDatagram \in Datagram
    BY DEF FlowInv, FlowType, NoDatagram, Datagram
  <1>3. FlowType'
    BY <1>1, <1>2 DEF FlowInv, FlowType
  <1>4. Numbered' /\ \A i : Due(i)' = Due(i)
    BY <1>1 DEF FlowInv, Numbered, Due
  <1>5. ASSUME NEW id \in DOMAIN heard' PROVE Accounted(heard[id])'
    <2>1. CASE id \in DOMAIN heard
      BY <1>1, <1>4, <1>5, <2>1 DEF FlowInv, Accounted, Follows
    <2>2. CASE id \notin DOMAIN heard
      <3>1. heard'[id].from = datagrams.sequence /\ heard'[id].last.chunk = 0
        BY <1>1, <1>5, <2>2 DEF NoDatagram
      <3>2. \A i \in 1..Len(posted) : ~(Due(i).sequence >= datagrams.sequence)
        <4>1. Len(posted) \in Nat
          BY DEF FlowInv, FlowType
        <4> QED
          BY <1>2, <4>1 DEF FlowInv, Numbered
      <3> QED
        BY <1>1, <1>4, <3>1, <3>2 DEF Accounted
    <2> QED
      BY <2>1, <2>2
  <1>6. GapStep
    BY <1>1 DEF GapStep
  <1> QED
    BY <1>3, <1>4, <1>5, <1>6 DEF FlowInv

(* publishAudio(): what is passed over because nobody listens is passed    *)
(* over when there is no subscription, and what finds no room is counted.  *)
LEMMA ProducerKeeps ==
  ASSUME FlowInv, PublishBlock \/ ChunkFinds
  PROVE  FlowInv' /\ GapStep
  <1>1. /\ UNCHANGED <<audio, posted, heard>> /\ Len(posted) \in Nat
        /\ producer \in [left : Nat, room : BOOLEAN, chunk : Nat]
        /\ datagrams \in [sequence : Nat, dropped : Nat, inFlight : Nat]
    BY DEF FlowInv, FlowType, PublishBlock, ChunkFinds
  <1>2. /\ producer' \in [left : Nat, room : BOOLEAN, chunk : Nat]
        /\ datagrams' \in [sequence : Nat, dropped : Nat, inFlight : Nat]
        /\ datagrams'.sequence = datagrams.sequence /\ datagrams'.inFlight = datagrams.inFlight
        /\ producer'.room => producer'.left > 0 /\ datagrams.inFlight < MostInFlight
        /\ \/ producer'.chunk = producer.chunk /\ datagrams'.dropped = datagrams.dropped
           \/ producer'.chunk = producer.chunk + 1 /\ datagrams'.dropped = datagrams.dropped + 1
           \/ ~audio.sending
    <2>0. producer.room => producer.left > 0 /\ datagrams.inFlight < MostInFlight
      BY DEF FlowInv, Numbered
    <2>1. CASE PublishBlock
      <3>1. ~producer.room /\ datagrams' = datagrams
        BY <1>1, <2>0, <2>1 DEF PublishBlock
      <3>2. CASE audio.sending
        <4>1. producer' = [producer EXCEPT !.left = BlockChunks]
          BY <2>1, <3>2 DEF PublishBlock
        <4> QED
          BY <1>1, <3>1, <4>1, AudioStreamAssumption
      <3>3. CASE ~audio.sending
        <4>1. producer' = [producer EXCEPT !.chunk = @ + 1]
          BY <2>1, <3>3 DEF PublishBlock
        <4> QED
          BY <1>1, <3>1, <3>3, <4>1
      <3> QED
        BY <3>2, <3>3
    <2>2. CASE ChunkFinds
      <3>1. producer.left > 0 /\ ~producer.room
        BY <2>2 DEF ChunkFinds
      <3>2. CASE datagrams.inFlight >= MostInFlight
        <4>1. /\ datagrams' = [datagrams EXCEPT !.dropped = @ + 1]
              /\ producer' = [producer EXCEPT !.left = @ - 1, !.chunk = @ + 1]
          BY <2>2, <3>2 DEF ChunkFinds
        <4>2. /\ producer.left \in Nat /\ producer.chunk \in Nat /\ producer.room \in BOOLEAN
              /\ producer.left - 1 \in Nat /\ datagrams.dropped \in Nat
          BY <1>1, <3>1
        <4>3. /\ producer' \in [left : Nat, room : BOOLEAN, chunk : Nat]
              /\ producer'.room = producer.room /\ producer'.chunk = producer.chunk + 1
          <5>1. producer.chunk + 1 \in Nat
            BY <4>2
          <5> QED
            BY <1>1, <4>1, <4>2, <5>1
        <4>4. /\ datagrams' \in [sequence : Nat, dropped : Nat, inFlight : Nat]
              /\ datagrams'.sequence = datagrams.sequence
              /\ datagrams'.inFlight = datagrams.inFlight
              /\ datagrams'.dropped = datagrams.dropped + 1
          BY <1>1, <4>1, <4>2
        <4> QED
          BY <3>1, <4>3, <4>4
      <3>3. CASE ~(datagrams.inFlight >= MostInFlight)
        <4>1. datagrams' = datagrams /\ producer' = [producer EXCEPT !.room = TRUE]
          BY <2>2, <3>3 DEF ChunkFinds
        <4>2. producer' \in [left : Nat, room : BOOLEAN, chunk : Nat]
              /\ producer'.left = producer.left /\ producer'.chunk = producer.chunk
          BY <1>1, <4>1
        <4>3. datagrams.inFlight < MostInFlight
          BY <1>1, <3>3, AudioStreamAssumption
        <4> QED
          BY <1>1, <3>1, <4>1, <4>2, <4>3
      <3> QED
        BY <3>2, <3>3
    <2> QED
      BY <2>1, <2>2
  <1>3. \A i \in 1..Len(posted) : Due(i)' = Due(i)
    BY <1>1 DEF Due
  <1>4. ASSUME NEW i \in 1..Len(posted) + 1, i = Len(posted) + 1
        PROVE  /\ Due(i)'.sequence = Due(i).sequence
               /\ Due(i)'.chunk = producer'.chunk /\ Due(i)'.dropped = datagrams'.dropped
               /\ Due(i).chunk = producer.chunk /\ Due(i).dropped = datagrams.dropped
    BY <1>1, <1>2, <1>4 DEF Due
  <1>5. FlowType'
    BY <1>1, <1>2 DEF FlowInv, FlowType
  <1>6. Numbered'
    <2>1. \A i \in 1..Len(posted) + 1 : Due(i)'.sequence = Due(i).sequence
      BY <1>1, <1>3, <1>4
    <2> QED
      BY <1>1, <1>2, <2>1 DEF FlowInv, Numbered
  <1>7. ASSUME NEW id \in DOMAIN heard PROVE Accounted(heard[id])'
    <2>1. audio.sending /\ Accounted(heard[id]) /\ heard[id].last \in Datagram /\ heard[id].from \in Nat
      BY <1>7 DEF FlowInv, FlowType, Ids
    <2>2. ASSUME NEW i \in 1..Len(posted) + 1, NEW was \in Datagram, Follows(Due(i), was)
          PROVE  Follows(Due(i)', was)
      <3>1. CASE i \in 1..Len(posted)
        BY <1>3, <2>2, <3>1
      <3>2. CASE i = Len(posted) + 1
        <4>1. /\ Due(i)'.chunk = producer'.chunk /\ Due(i)'.dropped = datagrams'.dropped
              /\ Due(i).chunk = producer.chunk /\ Due(i).dropped = datagrams.dropped
          BY <1>4, <3>2
        <4>2. producer.chunk \in Nat /\ datagrams.dropped \in Nat /\ was.chunk \in Nat
          BY <1>1 DEF Datagram
        <4>3. \/ producer'.chunk = producer.chunk /\ datagrams'.dropped = datagrams.dropped
              \/ producer'.chunk = producer.chunk + 1 /\ datagrams'.dropped = datagrams.dropped + 1
          BY <1>2, <2>1
        <4> QED
          BY <2>2, <4>1, <4>2, <4>3 DEF Follows
      <3> QED
        BY <1>1, <3>1, <3>2
    <2>3. \A i \in 1..Len(posted) + 1 : Due(i) \in Datagram /\ Due(i)'.sequence = Due(i).sequence
      BY <1>1, <1>3, <1>4, DueIsDatagram DEF FlowInv
    <2>4. ASSUME NEW i \in 1..Len(posted), Due(i).sequence >= heard[id].from
          PROVE  Follows(Due(i + 1)', Due(i)')
      <3>1. Follows(Due(i + 1), Due(i)) /\ Due(i)' = Due(i)
        BY <1>3, <2>1, <2>4 DEF Accounted
      <3>2. i \in 1..Len(posted) + 1 /\ i + 1 \in 1..Len(posted) + 1
        BY <1>1
      <3> DEFINE k == i + 1
      <3>3. Follows(Due(k)', Due(i))
        <4>1. k \in 1..Len(posted) + 1 /\ Follows(Due(k), Due(i)) /\ Due(i) \in Datagram
          BY <2>3, <3>1, <3>2
        <4> HIDE DEF k
        <4> QED
          BY <2>2, <4>1
      <3> QED
        BY <3>1, <3>3
    <2>5. 1 \in 1..Len(posted) + 1
      BY <1>1
    <2>6. \A was \in Datagram : Follows(Due(1), was) => Follows(Due(1)', was)
      BY <2>2, <2>5
    <2> QED
      BY <1>1, <1>3, <2>1, <2>3, <2>4, <2>5, <2>6 DEF Accounted
  <1>8. GapStep
    BY <1>1 DEF GapStep
  <1> QED
    BY <1>1, <1>5, <1>6, <1>7, <1>8 DEF FlowInv

(* A datagram that is posted says what was dropped before it.              *)
LEMMA ChunkPostedKeeps ==
  ASSUME FlowInv, ChunkPosted
  PROVE  FlowInv' /\ GapStep
  <1> DEFINE d == [sequence |-> datagrams.sequence, dropped |-> datagrams.dropped,
                   chunk |-> producer.chunk]
  <1>1. /\ Len(posted) \in Nat /\ posted \in Seq(Datagram) /\ d \in Datagram
        /\ producer.left \in Nat /\ producer.chunk \in Nat
        /\ datagrams \in [sequence : Nat, dropped : Nat, inFlight : Nat]
        /\ datagrams.sequence \in Nat /\ datagrams.dropped \in Nat /\ datagrams.inFlight \in Nat
    BY DEF FlowInv, FlowType, Datagram
  <1>2. /\ producer.left > 0 /\ datagrams.inFlight < MostInFlight /\ Len(posted) = datagrams.inFlight
        /\ producer' = [left |-> producer.left - 1, room |-> FALSE, chunk |-> producer.chunk + 1]
        /\ datagrams' = [datagrams EXCEPT !.sequence = @ + 1, !.inFlight = @ + 1, !.dropped = 0]
        /\ posted' = Append(posted, d) /\ audio' = audio /\ heard' = heard
    BY DEF FlowInv, Numbered, ChunkPosted, Counted
  <1>3. /\ datagrams'.sequence = datagrams.sequence + 1 /\ datagrams'.dropped = 0
        /\ datagrams'.inFlight = datagrams.inFlight + 1
        /\ datagrams' \in [sequence : Nat, dropped : Nat, inFlight : Nat]
    <2>1. datagrams' = [datagrams EXCEPT !.sequence = @ + 1, !.inFlight = @ + 1, !.dropped = 0]
      BY <1>2
    <2>2. datagrams.sequence + 1 \in Nat /\ datagrams.inFlight + 1 \in Nat
      BY <1>1
    <2>3. datagrams \in [sequence : Nat, dropped : Nat, inFlight : Nat]
      BY <1>1
    <2> QED
      BY <2>1, <2>2, <2>3
  <1>4. producer' \in [left : Nat, room : BOOLEAN, chunk : Nat] /\ ~producer'.room
        /\ producer'.chunk = producer.chunk + 1
    BY <1>1, <1>2
  <1>5. /\ posted' \in Seq(Datagram) /\ Len(posted') = Len(posted) + 1
        /\ \A i \in 1..Len(posted) : posted'[i] = posted[i]
        /\ \A i : i = Len(posted) + 1 => posted'[i] = d
    BY <1>1, <1>2
  <1>6. \A i \in 1..Len(posted) + 1 : Due(i)' = Due(i)
    <2>1. SUFFICES ASSUME NEW i \in 1..Len(posted) + 1 PROVE Due(i)' = Due(i)
      OBVIOUS
    <2>2. CASE i \in 1..Len(posted)
      BY <1>1, <1>5, <2>2 DEF Due
    <2>3. CASE i = Len(posted) + 1
      BY <1>1, <1>5, <2>3 DEF Due
    <2> QED
      BY <1>1, <2>2, <2>3
  <1>7. ASSUME NEW i, i = Len(posted) + 2
        PROVE  /\ Due(i)'.sequence = datagrams.sequence + 1 /\ Due(i)'.dropped = 0
               /\ Due(i)'.chunk = producer.chunk + 1
    <2>1. ~(i <= Len(posted)')
      BY <1>1, <1>5, <1>7
    <2> QED
      BY <1>3, <1>4, <2>1 DEF Due
  <1>8. ASSUME NEW i, i = Len(posted) + 1
        PROVE  Due(i).chunk = producer.chunk /\ Due(i).sequence = datagrams.sequence
    <2>1. ~(i <= Len(posted))
      BY <1>1, <1>8
    <2> QED
      BY <2>1 DEF Due
  <1>9. FlowType'
    BY <1>1, <1>2, <1>3, <1>4, <1>5 DEF FlowInv, FlowType
  <1>10. Numbered'
    <2>1. ASSUME NEW i \in 1..Len(posted)' + 1
          PROVE  Due(i)'.sequence = datagrams'.sequence - Len(posted)' + i - 1
      <3>1. CASE i \in 1..Len(posted) + 1
        <4>1. Due(i).sequence = datagrams.sequence - Len(posted) + i - 1
          BY <3>1 DEF FlowInv, Numbered
        <4>2. Due(i)'.sequence = Due(i).sequence
          BY <1>6, <3>1
        <4>3. /\ datagrams'.sequence = datagrams.sequence + 1 /\ datagrams.sequence \in Nat
              /\ Len(posted') = Len(posted) + 1 /\ Len(posted) \in Nat /\ i \in Nat
          BY <1>1, <1>3, <1>5, <3>1
        <4>4. datagrams.sequence - Len(posted) = datagrams'.sequence - Len(posted')
          BY <4>3
        <4> QED
          BY <4>1, <4>2, <4>4
      <3>2. CASE i = Len(posted) + 2
        BY <1>1, <1>3, <1>5, <1>7, <3>2
      <3> QED
        BY <1>1, <1>5, <3>1, <3>2
    <2> QED
      BY <1>1, <1>2, <1>3, <1>4, <1>5, <2>1, AudioStreamAssumption DEF Numbered
  <1>11. ASSUME NEW id \in DOMAIN heard PROVE Accounted(heard[id])'
    <2>1. Accounted(heard[id]) /\ heard'[id] = heard[id]
      BY <1>2, <1>11 DEF FlowInv
    <2>2. 1 \in 1..Len(posted) + 1
      BY <1>1
    <2>3. ASSUME NEW i \in 1..Len(posted)', Due(i)'.sequence >= heard[id].from
          PROVE  Follows(Due(i + 1)', Due(i)')
      <3> DEFINE k == i + 1
      <3>1. CASE i \in 1..Len(posted)
        <4>1. i \in 1..Len(posted) + 1 /\ k \in 1..Len(posted) + 1
          BY <1>1, <3>1
        <4>2. Due(i)' = Due(i) /\ Due(k)' = Due(k)
          <5> HIDE DEF k
          <5> QED
            BY <1>6, <4>1
        <4> QED
          BY <2>1, <2>3, <3>1, <4>2 DEF Accounted
      <3>2. CASE i = Len(posted) + 1
        <4>1. Due(i)'.chunk = producer.chunk
          BY <1>1, <1>6, <1>8, <3>2
        <4>2. Due(k)'.chunk = producer.chunk + 1 /\ Due(k)'.dropped = 0
          <5>1. k = Len(posted) + 2
            BY <1>1, <3>2
          <5> HIDE DEF k
          <5> QED
            BY <1>7, <5>1
        <4> QED
          BY <1>1, <4>1, <4>2 DEF Follows
      <3> QED
        BY <1>1, <1>5, <3>1, <3>2
    <2> QED
      BY <1>6, <2>1, <2>2, <2>3 DEF Accounted
  <1>12. GapStep
    BY <1>2 DEF GapStep
  <1> QED
    BY <1>2, <1>9, <1>10, <1>11, <1>12 DEF FlowInv

(* sendDatagram(): what is sent next follows what was sent before, for an  *)
(* observer that got that; the others have a gap in the numbers.           *)
LEMMA SendDatagramKeeps ==
  ASSUME FlowInv, SendDatagram
  PROVE  FlowInv' /\ GapStep
  <1>1. PICK taken \in SUBSET Ids(audio.subscribers) :
          heard' = [id \in DOMAIN heard |->
                      IF id \in taken THEN [heard[id] EXCEPT !.last = Head(posted)] ELSE heard[id]]
    BY DEF SendDatagram
  <1>2. /\ posted # <<>> /\ posted \in Seq(Datagram) /\ Len(posted) \in Nat \ {0}
        /\ posted' = Tail(posted) /\ Len(posted') = Len(posted) - 1
        /\ posted' \in Seq(Datagram) /\ Head(posted) = posted[1] /\ posted[1] \in Datagram
        /\ \A i \in 1..Len(posted) - 1 : posted'[i] = posted[i + 1]
        /\ audio' = audio /\ producer' = producer
        /\ datagrams' = [datagrams EXCEPT !.inFlight = @ - 1]
    BY DEF FlowInv, FlowType, SendDatagram
  <1>3. /\ datagrams \in [sequence : Nat, dropped : Nat, inFlight : Nat]
        /\ Len(posted) = datagrams.inFlight /\ datagrams.inFlight <= MostInFlight
        /\ producer.room => producer.left > 0 /\ datagrams.inFlight < MostInFlight
    BY DEF FlowInv, FlowType, Numbered
  <1>4. /\ datagrams' \in [sequence : Nat, dropped : Nat, inFlight : Nat]
        /\ datagrams'.sequence = datagrams.sequence /\ datagrams'.dropped = datagrams.dropped
        /\ datagrams'.inFlight = datagrams.inFlight - 1
    BY <1>2, <1>3
  <1>5. ASSUME NEW i \in 1..Len(posted), NEW k, k = i + 1 PROVE Due(i)' = Due(k)
    <2>1. CASE i \in 1..Len(posted) - 1
      BY <1>2, <1>5, <2>1 DEF Due
    <2>2. CASE i = Len(posted)
      <3>1. ~(i <= Len(posted')) /\ ~(k <= Len(posted))
        BY <1>2, <1>5, <2>2
      <3> QED
        BY <1>2, <1>4, <3>1 DEF Due
    <2> QED
      BY <1>2, <2>1, <2>2
  <1>6. Due(1) = posted[1]
    BY <1>2 DEF Due
  <1>7. FlowType'
    <2>1. heard \in [Ids(audio.subscribers) -> [from : Nat, last : Datagram]]
      BY DEF FlowInv, FlowType
    <2>2. \A h \in [from : Nat, last : Datagram] :
            [h EXCEPT !.last = Head(posted)] \in [from : Nat, last : Datagram]
      BY <1>2
    <2>3. heard' \in [Ids(audio.subscribers) -> [from : Nat, last : Datagram]]
      BY <1>1, <2>1, <2>2
    <2> QED
      BY <1>2, <1>4, <2>3 DEF FlowInv, FlowType
  <1>8. Numbered'
    <2>1. ASSUME NEW i \in 1..Len(posted)' + 1
          PROVE  Due(i)'.sequence = datagrams'.sequence - Len(posted)' + i - 1
      <3> DEFINE k == i + 1
      <3>1. i \in 1..Len(posted) /\ k \in 1..Len(posted) + 1
        BY <1>2
      <3>2. Due(i)' = Due(k) /\ Due(k).sequence = datagrams.sequence - Len(posted) + k - 1
        <4> HIDE DEF k
        <4>1. Due(k).sequence = datagrams.sequence - Len(posted) + k - 1
          BY <3>1 DEF FlowInv, Numbered
        <4>2. Due(i)' = Due(k)
          BY <1>5, <3>1 DEF k
        <4> QED
          BY <4>1, <4>2
      <3>3. datagrams.sequence \in Nat
        BY <1>3
      <3> QED
        BY <1>2, <1>4, <3>2, <3>3
    <2> QED
      BY <1>2, <1>3, <1>4, <2>1, AudioStreamAssumption DEF Numbered
  <1>9. \A i \in 1..Len(posted) + 1 : Due(i) \in Datagram /\ Due(i).sequence = datagrams.sequence - Len(posted) + i - 1
    BY DueIsDatagram DEF FlowInv, Numbered
  <1>10. /\ Due(1)'.sequence = Due(1).sequence + 1 /\ Due(1).sequence \in Nat
         /\ \A two : two = 2 => Due(1)' = Due(two)
    <2>1. \A two : two = 2 => Due(1)' = Due(two)
      BY <1>2, <1>5
    <2>2. /\ 2 \in 1..Len(posted) + 1 /\ 1 \in 1..Len(posted) + 1 /\ datagrams.sequence \in Nat
      BY <1>2, <1>3
    <2>3. /\ Due(2).sequence = datagrams.sequence - Len(posted) + 1
          /\ Due(1).sequence = datagrams.sequence - Len(posted)
          /\ Due(1).sequence \in Nat
      <3>1. Due(1) \in Datagram /\ Due(2) \in Datagram
        BY <1>9, <2>2
      <3>2. /\ Due(1).sequence = datagrams.sequence - Len(posted) + 1 - 1
            /\ Due(2).sequence = datagrams.sequence - Len(posted) + 2 - 1
        BY <1>9, <2>2
      <3>3. Due(1).sequence \in Nat
        BY <3>1 DEF Datagram
      <3> QED
        BY <1>2, <2>2, <3>2, <3>3
    <2> QED
      BY <1>2, <2>1, <2>2, <2>3
  <1>11. ASSUME NEW id \in DOMAIN heard PROVE Accounted(heard[id])'
    <2>1. /\ Accounted(heard[id]) /\ heard[id] \in [from : Nat, last : Datagram]
          /\ heard[id].last.sequence \in Nat
      BY <1>11 DEF FlowInv, FlowType, Datagram
    <2>2. heard'[id].from = heard[id].from /\ heard'[id].last \in {heard[id].last, Due(1)}
      BY <1>1, <1>2, <1>6, <1>11, <2>1
    <2>3. ASSUME NEW i \in 1..Len(posted)', Due(i)'.sequence >= heard[id].from
          PROVE  Follows(Due(i + 1)', Due(i)')
      <3> DEFINE k == i + 1
                 l == k + 1
      <3>1. i \in 1..Len(posted) /\ k \in 1..Len(posted)
        BY <1>2
      <3>2. Due(i)' = Due(k)
        BY <1>5, <3>1
      <3>3. Due(k)' = Due(l)
        <4> HIDE DEF k
        <4> QED
          BY <1>5, <3>1
      <3>4. Due(k).sequence >= heard[id].from => Follows(Due(l), Due(k))
        <4> HIDE DEF k
        <4> QED
          BY <2>1, <3>1 DEF Accounted
      <3> QED
        BY <2>3, <3>2, <3>3, <3>4
    <2>4. ASSUME heard'[id].last.chunk > 0 PROVE heard'[id].last.sequence < Due(1)'.sequence
      BY <1>10, <2>1, <2>2, <2>4 DEF Accounted
    <2>5. ASSUME heard'[id].last.chunk > 0, heard'[id].last.sequence >= heard'[id].from,
                 heard'[id].last.sequence + 1 = Due(1)'.sequence
          PROVE  Follows(Due(1)', heard'[id].last)
      <3>1. CASE heard'[id].last = Due(1)
        <4>1. 1 \in 1..Len(posted) /\ \A two : two = 1 + 1 => Due(1)' = Due(two)
          BY <1>2, <1>10
        <4>2. Follows(Due(1 + 1), Due(1))
          BY <2>1, <2>2, <2>5, <3>1, <4>1 DEF Accounted
        <4> QED
          BY <3>1, <4>1, <4>2
      <3>2. CASE heard'[id].last = heard[id].last
        <4>1. heard[id].last.sequence < Due(1).sequence
          BY <2>1, <2>5, <3>2 DEF Accounted
        <4> QED
          BY <1>10, <2>1, <2>5, <3>2, <4>1
      <3> QED
        BY <2>2, <3>1, <3>2
    <2> QED
      BY <1>2, <2>2, <2>3, <2>4, <2>5 DEF Accounted
  <1>12. GapStep
    <2>1. SUFFICES ASSUME NEW id \in DOMAIN heard, heard[id].last.chunk > 0,
                          heard'[id].last # heard[id].last,
                          heard[id].last.sequence >= heard[id].from
                   PROVE  /\ heard'[id].last.sequence > heard[id].last.sequence
                          /\ heard'[id].last.sequence = heard[id].last.sequence + 1
                               => Follows(heard'[id].last, heard[id].last)
      BY DEF GapStep, Follows
    <2>2. heard'[id].last = Due(1)
      BY <1>1, <1>2, <1>6, <2>1 DEF FlowInv, FlowType
    <2>3. Accounted(heard[id]) /\ heard[id].last.sequence \in Nat
      BY DEF FlowInv, FlowType, Datagram
    <2> QED
      BY <1>10, <2>1, <2>2, <2>3 DEF Accounted
  <1> QED
    <2>1. DOMAIN heard' = DOMAIN heard
      BY <1>1
    <2> QED
      BY <1>2, <1>7, <1>8, <1>11, <1>12, <2>1 DEF FlowInv

-----------------------------------------------------------------------------
Client ==
  [id : Nat, peer : Peers, via : Endpoints, authenticated : BOOLEAN, deadline : BOOLEAN,
   requests : Nat]
AudioSound(a) ==
  /\ a \in AudioRecord
  /\ a.sending <=> a.subscribers # {}
  /\ \A s \in a.subscribers : a.enabled /\ s.via \in a.bound
  /\ a.bound \subseteq a.requested
  /\ IsFiniteSet(a.subscribers) /\ Cardinality(a.subscribers) <= MostSubscribers
(* Whoever is sent audio is connected, and was let in. *)
Known(a, cs) ==
  \A s \in a.subscribers : \E c \in cs : c.id = s.id /\ c.via = s.via /\ c.authenticated
ClientSound(c, sv) ==
  /\ c \in Client
  /\ Permits(sv.allowed, c.peer) /\ c.via \in sv.listening
  /\ c.deadline <=> ~c.authenticated
  /\ c.authenticated /\ ~sv.token => c.via \in Loopback
  /\ c.requests <= MostRequests
(* Without a token, only loopback is listened on. *)
ServiceSound(sv) ==
  /\ sv \in [enabled : BOOLEAN, requested : SUBSET Endpoints, token : BOOLEAN,
             allowed : SUBSET Peers, listening : SUBSET Endpoints, nextId : Nat]
  /\ ~sv.token => sv.listening \subseteq Loopback
  /\ sv.listening # {} => sv.enabled
Counts(cs) == IsFiniteSet(cs) /\ Cardinality(cs) <= MostClients
ObserversIInv ==
  /\ FlowInv /\ AudioSound(audio) /\ ServiceSound(service) /\ Counts(clients)
  /\ audio.requested = service.listening
  /\ Known(audio, clients)
  /\ \A c \in clients : ClientSound(c, service)

LEMMA NobodyIsCounted == IsFiniteSet({}) /\ Cardinality({}) = 0
  BY FS_EmptySet

LEMMA WithoutSound ==
  ASSUME NEW a, AudioSound(a), NEW ids
  PROVE  /\ AudioSound(Without(a, ids))
         /\ Without(a, ids).requested = a.requested
         /\ Without(a, ids).subscribers = {s \in a.subscribers : s.id \notin ids}
  <1> DEFINE left == {s \in a.subscribers : s.id \notin ids}
  <1>1. Without(a, ids) = [a EXCEPT !.subscribers = left, !.sending = @ /\ left # {}]
    BY DEF Without
  <1>2. left \subseteq a.subscribers /\ a.subscribers \subseteq [id : Nat, via : Endpoints]
    BY DEF AudioSound, AudioRecord
  <1>3. IsFiniteSet(left) /\ Cardinality(left) <= Cardinality(a.subscribers)
    BY <1>2, FS_Subset DEF AudioSound
  <1>4. Cardinality(left) <= MostSubscribers
    BY <1>3, FS_CardinalityType, AudioStreamAssumption DEF AudioSound
  <1> HIDE DEF left
  <1>5. /\ Without(a, ids) \in AudioRecord /\ Without(a, ids).subscribers = left
        /\ Without(a, ids).sending = (a.sending /\ left # {})
        /\ Without(a, ids).enabled = a.enabled /\ Without(a, ids).bound = a.bound
        /\ Without(a, ids).requested = a.requested
    <2>1. (a.sending /\ left # {}) \in BOOLEAN
      OBVIOUS
    <2> DEFINE sending == a.sending /\ left # {}
    <2> HIDE DEF sending
    <2>2. Without(a, ids) = [a EXCEPT !.subscribers = left, !.sending = sending] /\ sending \in BOOLEAN
      BY <1>1, <2>1 DEF AudioSound, AudioRecord, sending
    <2>3. /\ Without(a, ids) \in AudioRecord /\ Without(a, ids).subscribers = left
          /\ Without(a, ids).sending = sending
          /\ Without(a, ids).enabled = a.enabled /\ Without(a, ids).bound = a.bound
          /\ Without(a, ids).requested = a.requested
      BY <1>2, <2>2 DEF AudioSound, AudioRecord
    <2> QED
      BY <2>3 DEF sending
  <1> QED
    BY <1>2, <1>3, <1>4, <1>5 DEF AudioSound, left

(* rebind(): nobody is subscribed afterwards, over sockets of the service. *)
LEMMA ReboundSound ==
  ASSUME NEW a, a \in AudioRecord, NEW bound \in SUBSET a.requested
  PROVE  /\ AudioSound(Rebound(a, bound)) /\ Rebound(a, bound).requested = a.requested
         /\ Rebound(a, bound).subscribers = {}
  <1>1. /\ Rebound(a, bound) \in AudioRecord /\ Rebound(a, bound).subscribers = {}
        /\ ~Rebound(a, bound).sending /\ Rebound(a, bound).requested = a.requested
        /\ Rebound(a, bound).bound \in {bound, {}}
    BY DEF Rebound, Unsubscribed, AudioRecord
  <1> QED
    BY <1>1, NobodyIsCounted, AudioStreamAssumption DEF AudioSound

LEMMA SubscribeSound ==
  ASSUME AudioSound(audio), NEW c \in Client, Subscribe(c.id, c.via)
  PROVE  /\ AudioSound(audio') /\ audio'.requested = audio.requested
         /\ audio'.subscribers \subseteq audio.subscribers \cup {[id |-> c.id, via |-> c.via]}
  <1>1. CASE ~CanSubscribe(c.id, c.via)
    BY <1>1 DEF Subscribe
  <1>2. CASE CanSubscribe(c.id, c.via)
    <2> DEFINE s == [id |-> c.id, via |-> c.via]
               more == audio.subscribers \cup {s}
    <2>1. /\ s \in [id : Nat, via : Endpoints]
          /\ audio.enabled /\ s.via \in audio.bound
          /\ Cardinality(audio.subscribers) < MostSubscribers
          /\ audio' = [audio EXCEPT !.subscribers = more, !.sending = TRUE]
      BY <1>2 DEF CanSubscribe, Subscribe, Client
    <2>2. IsFiniteSet(more) /\ Cardinality(more) <= Cardinality(audio.subscribers) + 1
      <3>1. IsFiniteSet(audio.subscribers)
        BY DEF AudioSound
      <3>2. Cardinality(audio.subscribers) \in Nat
        BY <3>1, FS_CardinalityType
      <3>3. /\ IsFiniteSet(more)
            /\ Cardinality(more) = IF s \in audio.subscribers THEN Cardinality(audio.subscribers)
                                   ELSE Cardinality(audio.subscribers) + 1
        BY <3>1, FS_AddElement
      <3> QED
        BY <3>2, <3>3
    <2>3. Cardinality(more) <= MostSubscribers
      BY <2>1, <2>2, FS_CardinalityType, AudioStreamAssumption DEF AudioSound
    <2>4. more \subseteq [id : Nat, via : Endpoints] /\ more # {}
          /\ \A r \in more : audio.enabled /\ r.via \in audio.bound
      BY <2>1 DEF AudioSound, AudioRecord
    <2>5. audio' = [audio EXCEPT !.subscribers = more, !.sending = TRUE]
      BY <2>1
    <2>6. more = audio.subscribers \cup {[id |-> c.id, via |-> c.via]}
      OBVIOUS
    <2> HIDE DEF more, s
    <2>7. /\ audio' \in AudioRecord /\ audio'.subscribers = more /\ audio'.sending
          /\ audio'.enabled = audio.enabled /\ audio'.bound = audio.bound
          /\ audio'.requested = audio.requested
      BY <2>4, <2>5 DEF AudioSound, AudioRecord
    <2> QED
      BY <2>2, <2>3, <2>4, <2>6, <2>7 DEF AudioSound
  <1> QED
    BY <1>1, <1>2

(* Those that remain are known, and sound by what still holds of them.     *)
LEMMA DropKeeps ==
  ASSUME ObserversIInv, NEW gone \in SUBSET clients, Drop(gone),
         service' = service \/ \A c \in clients \ gone : ClientSound(c, service'),
         ServiceSound(service'), service'.listening = service.listening,
         Remembers, AudioKept
  PROVE  ObserversIInv' /\ GapStep
  <1>1. clients' = clients \ gone /\ audio' = Without(audio, {c.id : c \in gone})
    BY DEF Drop
  <1>2. /\ AudioSound(audio') /\ audio'.requested = audio.requested
        /\ audio'.subscribers = {s \in audio.subscribers : s.id \notin {c.id : c \in gone}}
    BY <1>1, WithoutSound DEF ObserversIInv
  <1>3. FlowInv' /\ GapStep
    BY <1>2, RemembersKeeps DEF ObserversIInv, AudioSound
  <1>4. Counts(clients')
    <2>1. clients' \in SUBSET clients /\ IsFiniteSet(clients)
      BY <1>1 DEF ObserversIInv, Counts
    <2>2. IsFiniteSet(clients') /\ Cardinality(clients') <= Cardinality(clients)
      BY <2>1, FS_Subset
    <2> QED
      BY <2>1, <2>2, FS_CardinalityType, DiagnosticsAssumption DEF ObserversIInv, Counts
  <1>5. Known(audio', clients')
    BY <1>1, <1>2 DEF ObserversIInv, Known
  <1>6. \A c \in clients' : ClientSound(c, service')
    BY <1>1 DEF ObserversIInv
  <1> QED
    BY <1>2, <1>3, <1>4, <1>5, <1>6 DEF ObserversIInv

(* One connection goes on with another record of itself.                   *)
LEMMA ClientGoesOn ==
  ASSUME ObserversIInv, NEW c \in clients, NEW d, ClientSound(d, service),
         d.id = c.id, d.via = c.via, c.authenticated => d.authenticated,
         clients' = (clients \ {c}) \cup {d}, UNCHANGED service,
         AudioSound(audio'), audio'.requested = audio.requested,
         \A s \in audio'.subscribers :
           s \in audio.subscribers \/ (d.authenticated /\ s = [id |-> d.id, via |-> d.via]),
         Remembers, AudioKept
  PROVE  ObserversIInv' /\ GapStep
  <1>1. FlowInv' /\ GapStep
    BY RemembersKeeps DEF ObserversIInv, AudioSound
  <1>2. Counts(clients')
    <2>1. IsFiniteSet(clients) /\ Cardinality(clients) \in Nat /\ Cardinality(clients) <= MostClients
      BY FS_CardinalityType DEF ObserversIInv, Counts
    <2>2. IsFiniteSet(clients \ {c}) /\ Cardinality(clients \ {c}) = Cardinality(clients) - 1
      BY <2>1, FS_RemoveElement
    <2>3. /\ IsFiniteSet(clients')
          /\ Cardinality(clients') = IF d \in clients \ {c} THEN Cardinality(clients \ {c})
                                     ELSE Cardinality(clients \ {c}) + 1
      BY <2>2, FS_AddElement
    <2> QED
      BY <2>1, <2>2, <2>3, DiagnosticsAssumption DEF Counts
  <1>3. Known(audio', clients')
    <2>1. SUFFICES ASSUME NEW s \in audio'.subscribers
                   PROVE  \E k \in clients' : k.id = s.id /\ k.via = s.via /\ k.authenticated
      BY DEF Known
    <2>2. d \in clients'
      OBVIOUS
    <2>3. CASE s \in audio.subscribers
      <3>1. PICK k \in clients : k.id = s.id /\ k.via = s.via /\ k.authenticated
        BY <2>3 DEF ObserversIInv, Known
      <3> QED
        BY <2>2, <3>1
    <2>4. CASE d.authenticated /\ s = [id |-> d.id, via |-> d.via]
      BY <2>2, <2>4
    <2> QED
      BY <2>3, <2>4
  <1> QED
    BY <1>1, <1>2, <1>3 DEF ObserversIInv

LEMMA InitObservers == DiagnosticsInit => ObserversIInv
  <1> SUFFICES ASSUME DiagnosticsInit PROVE ObserversIInv
    OBVIOUS
  <1> USE DEF DiagnosticsInit, AudioInit
  <1>1. audio \in AudioRecord /\ audio.subscribers = {} /\ ~audio.sending /\ audio.bound = {} /\ audio.requested = {}
    BY DEF AudioRecord
  <1>2. AudioSound(audio)
    BY <1>1, NobodyIsCounted, AudioStreamAssumption DEF AudioSound
  <1>3. FlowInv
    <2>1. Ids(audio.subscribers) = {} /\ Len(posted) = 0 /\ posted \in Seq(Datagram)
      BY <1>1 DEF Ids
    <2>2. heard \in [Ids(audio.subscribers) -> [from : Nat, last : Datagram]] /\ DOMAIN heard = {}
      BY <2>1
    <2>3. FlowType
      BY <2>1, <2>2 DEF FlowType
    <2>4. Numbered
      BY <2>1, AudioStreamAssumption DEF Numbered, Due
    <2> QED
      BY <1>1, <2>2, <2>3, <2>4 DEF FlowInv
  <1>4. ServiceSound(service) /\ audio.requested = service.listening
    BY <1>1 DEF ServiceSound
  <1>5. Counts(clients) /\ clients = {}
    BY NobodyIsCounted, DiagnosticsAssumption DEF Counts
  <1> QED
    BY <1>1, <1>2, <1>3, <1>4, <1>5 DEF ObserversIInv, Known

(* restart(): nobody is left, and what is listened on is permitted.        *)
LEMMA RestartKeeps ==
  ASSUME ObserversIInv,
         NEW s \in [enabled : BOOLEAN, requested : SUBSET Endpoints, token : BOOLEAN,
                    allowed : SUBSET Peers, listening : SUBSET Endpoints, nextId : Nat],
         Restart(s), Remembers, AudioKept
  PROVE  ObserversIInv' /\ GapStep
  <1>1. PICK up \in SUBSET {x \in s.requested : s.enabled /\ (x \in Loopback \/ s.token)} :
          /\ service' = [s EXCEPT !.listening = up]
          /\ clients' = {}
          /\ \E bound \in SUBSET up : ConfigureAudio(up, bound)
    BY DEF Restart
  <1>2. PICK bound \in SUBSET up : ConfigureAudio(up, bound)
    BY <1>1
  <1>3. up \in SUBSET Endpoints
    BY <1>1
  <1>4. ServiceSound(service') /\ service'.listening = up
    BY <1>1, <1>3 DEF ServiceSound
  <1>5. /\ [audio EXCEPT !.requested = up] \in AudioRecord
        /\ [audio EXCEPT !.requested = up].requested = up
    BY <1>3 DEF ObserversIInv, AudioSound, AudioRecord
  <1>6. AudioSound(audio') /\ audio'.requested = up /\ audio'.subscribers = {}
    BY <1>2, <1>5, ReboundSound DEF ConfigureAudio
  <1>7. FlowInv' /\ GapStep
    BY <1>6, RemembersKeeps DEF ObserversIInv
  <1>8. Counts(clients') /\ clients' = {}
    BY <1>1, NobodyIsCounted, DiagnosticsAssumption DEF Counts
  <1> QED
    BY <1>4, <1>6, <1>7, <1>8 DEF ObserversIInv, Known

LEMMA SettingsStep ==
  ASSUME ObserversIInv, SetStreamEnabled \/ Configure \/ SetAllowedPeers \/ SetAudioStreamingEnabled
  PROVE  ObserversIInv' /\ GapStep
  <1> DEFINE Services == [enabled : BOOLEAN, requested : SUBSET Endpoints, token : BOOLEAN,
                          allowed : SUBSET Peers, listening : SUBSET Endpoints, nextId : Nat]
  <1>1. /\ service \in Services /\ Remembers /\ AudioKept
        /\ AudioSound(audio) /\ audio \in AudioRecord
    BY DEF ObserversIInv, ServiceSound, AudioSound, SetStreamEnabled, Configure, SetAllowedPeers,
           SetAudioStreamingEnabled
  <1>2. CASE SetStreamEnabled
    <2>1. [service EXCEPT !.enabled = ~@] \in Services
      BY <1>1
    <2> QED
      BY <1>1, <1>2, <2>1, RestartKeeps DEF SetStreamEnabled
  <1>3. CASE Configure
    <2>1. PICK requested \in SUBSET Endpoints, token \in BOOLEAN :
            LET s == [service EXCEPT !.requested = requested, !.token = token]
            IN IF s.enabled THEN Restart(s) ELSE service' = s /\ UNCHANGED <<clients, audio>>
      BY <1>3 DEF Configure
    <2> DEFINE s == [service EXCEPT !.requested = requested, !.token = token]
    <2>2. s \in Services /\ s.enabled = service.enabled /\ s.listening = service.listening
      BY <1>1
    <2>3. CASE s.enabled
      <3>1. Restart(s)
        BY <2>1, <2>3
      <3> HIDE DEF s
      <3> QED
        BY <1>1, <2>2, <3>1, RestartKeeps
    <2>4. CASE ~s.enabled
      <3>1. service' = s /\ UNCHANGED <<clients, audio>>
        BY <2>1, <2>4
      <3> HIDE DEF s
      <3>2. service.listening = {} /\ clients = {}
        BY <2>2, <2>4 DEF ObserversIInv, ServiceSound, ClientSound
      <3>3. ServiceSound(service') /\ service'.listening = service.listening
        BY <2>2, <3>1, <3>2 DEF ServiceSound
      <3>4. FlowInv' /\ GapStep
        BY <1>1, <3>1, RemembersKeeps DEF ObserversIInv, AudioSound
      <3> QED
        BY <3>1, <3>2, <3>3, <3>4 DEF ObserversIInv, Counts, AudioSound, AudioRecord, Known
    <2> QED
      BY <2>3, <2>4
  <1>4. CASE SetAllowedPeers
    <2>1. PICK rule \in PeerRules :
            /\ service' = [service EXCEPT !.allowed = rule]
            /\ Drop({c \in clients : ~Permits(rule, c.peer)})
      BY <1>4 DEF SetAllowedPeers
    <2> DEFINE gone == {c \in clients : ~Permits(rule, c.peer)}
    <2>2. /\ service' \in Services /\ service'.allowed = rule /\ service'.token = service.token
          /\ service'.listening = service.listening /\ service'.enabled = service.enabled
      BY <1>1, <2>1, DiagnosticsAssumption
    <2>3. ServiceSound(service')
      BY <2>2 DEF ObserversIInv, ServiceSound
    <2>4. \A c \in clients \ gone : ClientSound(c, service')
      BY <2>2 DEF ObserversIInv, ClientSound
    <2>5. gone \in SUBSET clients /\ Drop(gone)
      BY <2>1
    <2> HIDE DEF gone
    <2> QED
      BY <1>1, <2>2, <2>3, <2>4, <2>5, DropKeeps
  <1>5. CASE SetAudioStreamingEnabled
    <2>1. PICK enabled \in BOOLEAN, bound \in SUBSET audio.requested : EnableAudio(enabled, bound)
      BY <1>5 DEF SetAudioStreamingEnabled
    <2>2. service' = service /\ clients' = clients
      BY <1>5 DEF SetAudioStreamingEnabled
    <2>3. /\ AudioSound(audio') /\ audio'.requested = audio.requested
          /\ audio' = audio \/ audio'.subscribers = {}
      <3>1. CASE enabled = audio.enabled
        BY <1>1, <2>1, <3>1 DEF EnableAudio
      <3>2. CASE enabled # audio.enabled
        <4>1. /\ [audio EXCEPT !.enabled = enabled] \in AudioRecord
              /\ [audio EXCEPT !.enabled = enabled].requested = audio.requested
              /\ audio' = Rebound([audio EXCEPT !.enabled = enabled], bound)
          BY <1>1, <2>1, <3>2 DEF EnableAudio, AudioRecord
        <4> QED
          BY <4>1, ReboundSound
      <3> QED
        BY <3>1, <3>2
    <2>4. FlowInv' /\ GapStep
      BY <1>1, <2>3, RemembersKeeps DEF ObserversIInv, AudioSound
    <2>5. Known(audio', clients')
      BY <2>2, <2>3 DEF ObserversIInv, Known
    <2> QED
      BY <2>2, <2>3, <2>4, <2>5 DEF ObserversIInv
  <1> QED
    BY <1>2, <1>3, <1>4, <1>5

LEMMA AcceptStep ==
  ASSUME ObserversIInv, AcceptPending
  PROVE  ObserversIInv' /\ GapStep
  <1>1. PICK peer \in Peers, via \in service.listening :
          /\ Permits(service.allowed, peer) /\ Cardinality(clients) < MostClients
          /\ via \in Loopback => peer \in LocalPeers
          /\ clients' = clients \cup {[id |-> service.nextId, peer |-> peer, via |-> via,
                                       authenticated |-> ~service.token, deadline |-> service.token,
                                       requests |-> 0]}
    BY DEF AcceptPending
  <1> DEFINE d == [id |-> service.nextId, peer |-> peer, via |-> via,
                   authenticated |-> ~service.token, deadline |-> service.token, requests |-> 0]
  <1>2. /\ ServiceSound(service) /\ service.token \in BOOLEAN /\ service.nextId \in Nat
        /\ service.listening \subseteq Endpoints
        /\ service' = [service EXCEPT !.nextId = @ + 1] /\ UNCHANGED audioVars
    BY DEF ObserversIInv, ServiceSound, AcceptPending
  <1>3. /\ service'.token = service.token /\ service'.listening = service.listening
        /\ service'.allowed = service.allowed /\ ServiceSound(service')
    BY <1>2 DEF ServiceSound
  <1>4. ClientSound(d, service')
    <2>1. d \in Client
      BY <1>2 DEF Client
    <2>2. ~service.token => via \in Loopback
      BY <1>2 DEF ServiceSound
    <2>3. /\ d.id = service.nextId /\ d.peer = peer /\ d.via = via /\ d.requests = 0
          /\ d.deadline = service.token /\ d.authenticated = ~service.token
      OBVIOUS
    <2>4. d.deadline <=> ~d.authenticated
      BY <1>2, <2>3
    <2> HIDE DEF d
    <2> QED
      BY <1>1, <1>2, <1>3, <2>1, <2>2, <2>3, <2>4, DiagnosticsAssumption DEF ClientSound
  <1>5. clients' = clients \cup {d}
    BY <1>1
  <1> HIDE DEF d
  <1>6. \A c \in clients' : ClientSound(c, service')
    BY <1>3, <1>4, <1>5 DEF ObserversIInv, ClientSound
  <1>7. Counts(clients')
    <2>1. IsFiniteSet(clients) /\ Cardinality(clients) \in Nat
      BY FS_CardinalityType DEF ObserversIInv, Counts
    <2>2. /\ IsFiniteSet(clients')
          /\ Cardinality(clients') = IF d \in clients THEN Cardinality(clients)
                                     ELSE Cardinality(clients) + 1
      BY <1>5, <2>1, FS_AddElement
    <2> QED
      BY <1>1, <2>1, <2>2, DiagnosticsAssumption DEF Counts
  <1>8. FlowInv' /\ GapStep
    <2>1. UNCHANGED <<audio, producer, datagrams, posted, heard>>
      BY <1>2 DEF audioVars
    <2> QED
      BY <2>1 DEF ObserversIInv, FlowInv, FlowType, Numbered, Accounted, Follows, Due, GapStep
  <1> QED
    BY <1>2, <1>3, <1>5, <1>6, <1>7, <1>8 DEF ObserversIInv, Known, audioVars

LEMMA ConnectionStep ==
  ASSUME ObserversIInv,
         PresentToken \/ HandshakeTimeout \/ HandleRequestLine \/ ClientDisconnects \/ Publish
  PROVE  ObserversIInv' /\ GapStep
  <1>1. /\ Remembers /\ AudioKept /\ service' = service /\ ServiceSound(service)
        /\ AudioSound(audio)
    BY DEF ObserversIInv, PresentToken, HandshakeTimeout, HandleRequestLine, ClientDisconnects, Publish
  <1>2. ASSUME NEW gone \in SUBSET clients, Drop(gone) PROVE ObserversIInv' /\ GapStep
    BY <1>1, <1>2, DropKeeps
  <1>3. \A c \in clients : {c} \in SUBSET clients /\ ClientSound(c, service) /\ c \in Client
    BY DEF ObserversIInv, ClientSound
  <1>4. CASE PresentToken
    <2>1. PICK c \in clients, accepted \in BOOLEAN :
            /\ ~c.authenticated
            /\ IF accepted
               THEN /\ clients' = (clients \ {c}) \cup {[c EXCEPT !.authenticated = TRUE, !.deadline = FALSE]}
                    /\ UNCHANGED audio
               ELSE Drop({c})
      BY <1>4 DEF PresentToken
    <2> DEFINE d == [c EXCEPT !.authenticated = TRUE, !.deadline = FALSE]
    <2>2. CASE accepted
      <3>1. /\ d \in Client /\ d.id = c.id /\ d.via = c.via /\ d.peer = c.peer
            /\ d.authenticated /\ ~d.deadline /\ d.requests = c.requests
        BY <1>3 DEF Client
      <3>2. ~service.token => c.via \in Loopback
        BY <1>1, <1>3 DEF ServiceSound, ClientSound
      <3>3. clients' = (clients \ {c}) \cup {d} /\ audio' = audio
        BY <2>1, <2>2
      <3> HIDE DEF d
      <3>4. ClientSound(d, service)
        BY <1>3, <3>1, <3>2 DEF ClientSound
      <3> QED
        BY <1>1, <2>1, <3>1, <3>3, <3>4, ClientGoesOn
    <2>3. CASE ~accepted
      BY <1>2, <1>3, <2>1, <2>3
    <2> QED
      BY <2>2, <2>3
  <1>5. CASE HandshakeTimeout
    BY <1>2, <1>3, <1>5 DEF HandshakeTimeout
  <1>6. CASE HandleRequestLine
    <2>1. PICK c \in clients, line \in {"start", "stop", "other"} :
            LET asked == [c EXCEPT !.requests = @ + 1]
            IN /\ c.authenticated
               /\ IF line = "other" \/ c.requests = MostRequests THEN Drop({c})
                  ELSE /\ clients' = (clients \ {c}) \cup {asked}
                       /\ IF line = "start" THEN Subscribe(c.id, c.via)
                          ELSE audio' = Without(audio, {c.id})
      BY <1>6 DEF HandleRequestLine
    <2> DEFINE d == [c EXCEPT !.requests = @ + 1]
    <2>2. CASE line = "other" \/ c.requests = MostRequests
      BY <1>2, <1>3, <2>1, <2>2
    <2>3. CASE ~(line = "other" \/ c.requests = MostRequests)
      <3>1. /\ clients' = (clients \ {c}) \cup {d}
            /\ IF line = "start" THEN Subscribe(c.id, c.via) ELSE audio' = Without(audio, {c.id})
        BY <2>1, <2>3
      <3>2. /\ d \in Client /\ d.id = c.id /\ d.via = c.via /\ d.peer = c.peer
            /\ d.authenticated = c.authenticated /\ d.deadline = c.deadline
            /\ d.requests = c.requests + 1 /\ c.requests \in Nat
        BY <1>3 DEF Client
      <3> HIDE DEF d
      <3>3. c.authenticated /\ d.authenticated
        BY <2>1, <3>2
      <3>4. ClientSound(d, service)
        BY <1>3, <2>3, <3>2, DiagnosticsAssumption DEF ClientSound
      <3>5. /\ AudioSound(audio') /\ audio'.requested = audio.requested
            /\ audio'.subscribers \subseteq audio.subscribers \cup {[id |-> c.id, via |-> c.via]}
        <4>1. CASE Subscribe(c.id, c.via)
          BY <1>1, <1>3, <4>1, SubscribeSound
        <4>2. CASE audio' = Without(audio, {c.id})
          BY <1>1, <4>2, WithoutSound
        <4> QED
          BY <3>1, <4>1, <4>2
      <3> QED
        BY <1>1, <3>1, <3>2, <3>3, <3>4, <3>5, ClientGoesOn
    <2> QED
      BY <2>2, <2>3
  <1>7. CASE ClientDisconnects
    BY <1>2, <1>3, <1>7 DEF ClientDisconnects
  <1>8. CASE Publish
    <2>1. PICK slow \in SUBSET {c \in clients : c.authenticated} : Drop(slow)
      BY <1>8 DEF Publish
    <2>2. slow \in SUBSET clients
      OBVIOUS
    <2> QED
      BY <1>2, <2>1, <2>2
  <1> QED
    BY <1>4, <1>5, <1>6, <1>7, <1>8

LEMMA StepObservers ==
  ObserversIInv /\ [DiagnosticsNext]_observerVars => ObserversIInv' /\ [GapStep]_audioVars
  <1> SUFFICES ASSUME ObserversIInv, [DiagnosticsNext]_observerVars
               PROVE  ObserversIInv' /\ [GapStep]_audioVars
    OBVIOUS
  <1>1. CASE AudioFlows /\ UNCHANGED <<service, clients, settings>>
    <2>1. FlowInv' /\ GapStep /\ audio' = audio
      <3>1. CASE PublishBlock \/ ChunkFinds
        BY <3>1, ProducerKeeps DEF ObserversIInv, PublishBlock, ChunkFinds
      <3>2. CASE ChunkPosted
        BY <3>2, ChunkPostedKeeps DEF ObserversIInv, ChunkPosted
      <3>3. CASE SendDatagram
        BY <3>3, SendDatagramKeeps DEF ObserversIInv, SendDatagram
      <3> QED
        BY <1>1, <3>1, <3>2, <3>3 DEF AudioFlows
    <2> QED
      BY <1>1, <2>1 DEF ObserversIInv
  <1>2. CASE UNCHANGED observerVars
    <2>1. UNCHANGED <<service, clients, settings, audio, producer, datagrams, posted, heard>>
      BY <1>2 DEF observerVars, audioVars
    <2>2. FlowInv'
      BY <2>1 DEF ObserversIInv, FlowInv, FlowType, Numbered, Accounted, Follows, Due
    <2> QED
      BY <2>1, <2>2 DEF ObserversIInv, audioVars
  <1> QED
    BY <1>1, <1>2, SettingsStep, AcceptStep, ConnectionStep DEF DiagnosticsNext

(* Whoever is connected is permitted by the rule that is in force and came *)
(* over an address that is still listened on, only so many are, none that  *)
(* is not loopback's without a token, and audio goes only to subscriptions *)
(* of connections that authenticated: diagnostics_server.cpp.              *)
THEOREM ObserversAreLetIn == DiagnosticsSpec => []ObserversInv
  <1>1. ObserversIInv => ObserversInv
    <2> SUFFICES ASSUME ObserversIInv PROVE ObserversInv
      OBVIOUS
    <2>1. AudioInv
      BY DEF ObserversIInv, FlowInv, FlowType, Numbered, AudioSound, AudioInv
    <2> QED
      BY <2>1 DEF ObserversIInv, ObserversInv, Known, ClientSound, ServiceSound, Counts, AudioSound
  <1> QED
    BY <1>1, InitObservers, StepObservers, PTL DEF DiagnosticsSpec

(* Of two datagrams with consecutive numbers the second says how much of    *)
(* the audio is missing between them, across every subscription, removal   *)
(* and change of the settings: audio_stream_server.cpp.                    *)
THEOREM GapsAreCounted == DiagnosticsSpec => GapsAreAccounted
  BY InitObservers, StepObservers, PTL DEF DiagnosticsSpec, GapsAreAccounted

-----------------------------------------------------------------------------
(***************************************************************************)
(* What LiveAudioDspWorker hands to the main thread stays bounded and is   *)
(* accounted for, whatever the limits and however long it runs.            *)
(***************************************************************************)

Frames == [number : Int, before : Int]
Lines == {"clean", "last", "older"}
Displays == {"idle", "drawing", "playing", "frameMissing", "bufferMissing"}
Spectra ==
  [count : Int, queue : Seq(Frames), made : Int, dropped : Int, drawn : Int, told : Int]
SpectrumType == spectrum \in Spectra /\ display \in Displays
Modes == {0, 2, 3}
Monitors == [count : Int, queued : Nat, mode : Modes]
MonitorType == monitor \in Monitors
RegionType ==
  region \in [subscribed : BOOLEAN, capturing : BOOLEAN, active : BOOLEAN, line : Lines, heard : Lines]

(* A frame says how many were dropped between the one before it, which is  *)
(* the last that was drawn when it is the next, and itself; what was       *)
(* dropped since the last is not yet told.                                 *)
Consecutive(s) ==
  /\ \A i \in 1..Len(s.queue) :
       s.queue[i].number = (IF i = 1 THEN s.drawn ELSE s.queue[i - 1].number) + s.queue[i].before + 1
  /\ s.made = (IF s.queue = <<>> THEN s.drawn ELSE s.queue[Len(s.queue)].number) + s.dropped

FramesInv ==
  /\ SpectrumType
  /\ spectrum.count = Len(spectrum.queue) + (IF display = "drawing" THEN 1 ELSE 0)
  /\ spectrum.count <= MostFramesInFlight /\ display # "frameMissing"
  /\ spectrum.told = spectrum.drawn
  /\ Consecutive(spectrum)
BuffersInv ==
  /\ MonitorType
  /\ monitor.count <= monitor.queued + (IF display = "playing" THEN 1 ELSE 0)
  /\ monitor.count < 0 => display = "bufferMissing"
RegionInv ==
  /\ RegionType
  /\ region.active => region.line = "last"
  /\ region.heard # "older"
HandedOutInv == FramesInv /\ BuffersInv /\ RegionInv

-----------------------------------------------------------------------------
LEMMA FrameFields ==
  ASSUME NEW frame \in Frames
  PROVE  frame.number \in Int /\ frame.before \in Int
  BY DEF Frames

LEMMA SpectrumFields ==
  ASSUME NEW s \in Spectra
  PROVE  /\ s.count \in Int /\ s.queue \in Seq(Frames) /\ s.made \in Int
         /\ s.dropped \in Int /\ s.drawn \in Int /\ s.told \in Int
  BY DEF Spectra

LEMMA SpectrumDropped ==
  ASSUME NEW s \in Spectra
  PROVE  [s EXCEPT !.made = s.made + 1, !.dropped = s.dropped + 1] \in Spectra
  <1>1. s.made + 1 \in Int /\ s.dropped + 1 \in Int
    BY SpectrumFields
  <1> QED
    BY <1>1 DEF Spectra
LEMMA SpectrumQueued ==
  ASSUME NEW s \in Spectra, NEW q \in Seq(Frames)
  PROVE  [s EXCEPT !.made = s.made + 1, !.count = s.count + 1, !.dropped = 0, !.queue = q] \in Spectra
  <1>1. s.made + 1 \in Int /\ s.count + 1 \in Int
    BY SpectrumFields
  <1>2. ASSUME NEW none \in Int
        PROVE  [s EXCEPT !.made = s.made + 1, !.count = s.count + 1, !.dropped = none, !.queue = q] \in Spectra
    BY <1>1 DEF Spectra
  <1>3. 0 \in Int
    OBVIOUS
  <1> QED
    BY <1>2, <1>3, Zenon
LEMMA SpectrumDrawn ==
  ASSUME NEW s \in Spectra, NEW a \in Int, NEW b \in Int, NEW q \in Seq(Frames)
  PROVE  [s EXCEPT !.queue = q, !.drawn = a, !.told = b] \in Spectra
  BY DEF Spectra
LEMMA SpectrumCounted ==
  ASSUME NEW s \in Spectra, NEW a \in Int
  PROVE  [s EXCEPT !.count = a] \in Spectra
  BY DEF Spectra

LEMMA MonitorCounted ==
  ASSUME NEW m \in Monitors, NEW c \in Int
  PROVE  [m EXCEPT !.count = c] \in Monitors
  BY DEF Monitors
LEMMA MonitorTuned ==
  ASSUME NEW m \in Monitors, NEW k \in Modes
  PROVE  [m EXCEPT !.mode = k, !.count = 0] \in Monitors
  <1>1. ASSUME NEW none \in Int PROVE [m EXCEPT !.mode = k, !.count = none] \in Monitors
    BY DEF Monitors
  <1>2. 0 \in Int
    OBVIOUS
  <1> QED
    BY <1>1, <1>2, Zenon
LEMMA MonitorQueued ==
  ASSUME NEW m \in Monitors, NEW n \in Nat
  PROVE  [m EXCEPT !.queued = n] \in Monitors
  BY DEF Monitors
LEMMA MonitorFilled ==
  ASSUME NEW m \in Monitors
  PROVE  [m EXCEPT !.queued = m.queued + 1, !.count = m.count + 1] \in Monitors
  <1>1. m.queued + 1 \in Nat /\ m.count + 1 \in Int
    BY DEF Monitors
  <1> QED
    BY <1>1 DEF Monitors

-----------------------------------------------------------------------------
(* The frames after the first follow it.                                   *)
LEMMA TailFollows ==
  ASSUME NEW q \in Seq(Frames), q # <<>>, NEW drawn \in Int,
         \A i \in 1..Len(q) : q[i].number = (IF i = 1 THEN drawn ELSE q[i - 1].number) + q[i].before + 1
  PROVE  /\ \A i \in 1..Len(Tail(q)) :
              Tail(q)[i].number = (IF i = 1 THEN q[1].number ELSE Tail(q)[i - 1].number)
                                    + Tail(q)[i].before + 1
         /\ q[Len(q)].number = IF Tail(q) = <<>> THEN q[1].number ELSE Tail(q)[Len(Tail(q))].number
  <1>1. /\ Len(q) \in Nat /\ Len(q) >= 1 /\ Len(Tail(q)) = Len(q) - 1
        /\ \A i \in 1..Len(Tail(q)) : Tail(q)[i] = q[i + 1]
    BY HeadTailProperties, LenProperties, EmptySeq
  <1>2. ASSUME NEW i \in 1..Len(Tail(q))
        PROVE  Tail(q)[i].number = (IF i = 1 THEN q[1].number ELSE Tail(q)[i - 1].number)
                                     + Tail(q)[i].before + 1
    <2>1. Tail(q)[i] = q[i + 1] /\ (i # 1 => Tail(q)[i - 1] = q[i])
      <3>1. i # 1 => i - 1 \in 1..Len(Tail(q)) /\ (i - 1) + 1 = i
        BY <1>1
      <3> QED
        BY <1>1, <3>1
    <2>2. i + 1 \in 1..Len(q) /\ (i + 1) - 1 = i /\ i + 1 # 1
      BY <1>1
    <2>3. q[i + 1].number = q[i].number + q[i + 1].before + 1
      BY <2>2
    <2> QED
      BY <2>1, <2>3
  <1>3. CASE Len(q) = 1
    <2>1. Tail(q) = <<>>
      <3>1. Tail(q) \in Seq(Frames) /\ Len(Tail(q)) = 0
        BY <1>1, <1>3, HeadTailProperties
      <3> QED
        BY <3>1, EmptySeq
    <2> QED
      BY <1>2, <1>3, <2>1
  <1>4. CASE Len(q) # 1
    <2>1. Len(Tail(q)) \in 1..Len(Tail(q)) /\ Len(Tail(q)) + 1 = Len(q)
      BY <1>1, <1>4
    <2>2. Tail(q)[Len(Tail(q))] = q[Len(q)]
      BY <1>1, <2>1
    <2>3. Tail(q) # <<>>
      <3> SUFFICES ASSUME Tail(q) = <<>> PROVE FALSE
        OBVIOUS
      <3>1. Len(Tail(q)) = Len(<<>>)
        OBVIOUS
      <3>2. Len(<<>>) = 0
        BY EmptySeq
      <3>3. Len(Tail(q)) # 0
        BY <2>1
      <3> QED
        BY <3>1, <3>2, <3>3, Zenon
    <2> QED
      BY <1>2, <2>2, <2>3
  <1> QED
    BY <1>3, <1>4

(* publishSpectrumFrame(): a frame that finds no room is counted, and the  *)
(* next one that does carries the count.                                   *)
LEMMA PublishKeeps ==
  ASSUME FramesInv, PublishSpectrumFrame
  PROVE  FramesInv'
  <1> DEFINE frame == [number |-> spectrum.made + 1, before |-> spectrum.dropped]
             q == spectrum.queue
  <1>0. spectrum \in Spectra /\ display \in Displays
    BY DEF FramesInv, SpectrumType
  <1>1. /\ q \in Seq(Frames) /\ Len(q) \in Nat /\ spectrum.made \in Int
        /\ spectrum.dropped \in Int /\ spectrum.count \in Int /\ spectrum.drawn \in Int
    BY <1>0, SpectrumFields, LenProperties
  <1>a. frame \in Frames
    BY <1>1 DEF Frames
  <1>2. spectrum' = Published(spectrum) /\ display' = display
    BY DEF PublishSpectrumFrame
  <1>3. CASE spectrum.count >= MostFramesInFlight
    <2>1. spectrum' = [spectrum EXCEPT !.made = @ + 1, !.dropped = @ + 1]
      BY <1>2, <1>3 DEF Published
    <2>2. SpectrumType'
      BY <1>0, <1>1, <1>2, <2>1, SpectrumDropped DEF SpectrumType
    <2>3. /\ spectrum'.queue = q /\ spectrum'.drawn = spectrum.drawn /\ spectrum'.told = spectrum.told
          /\ spectrum'.made = spectrum.made + 1 /\ spectrum'.dropped = spectrum.dropped + 1
          /\ spectrum'.count = spectrum.count
      BY <1>0, <2>1 DEF Spectra
    <2>4. q = <<>> \/ q[Len(q)].number \in Int
      <3>1. q # <<>> => Len(q) \in 1..Len(q) /\ q[Len(q)] \in Frames
        BY <1>1, EmptySeq, LenProperties
      <3> QED
        BY <3>1, FrameFields
    <2>5. Consecutive(spectrum')
      BY <1>1, <2>3, <2>4 DEF FramesInv, Consecutive
    <2> QED
      BY <1>2, <2>2, <2>3, <2>5 DEF FramesInv
  <1>4. CASE ~(spectrum.count >= MostFramesInFlight)
    <2>1. spectrum' = [spectrum EXCEPT !.made = @ + 1, !.count = @ + 1, !.dropped = 0,
                                       !.queue = Append(@, frame)]
      BY <1>2, <1>4 DEF Published
    <2>2. /\ spectrum'.queue = Append(q, frame) /\ spectrum'.drawn = spectrum.drawn
          /\ spectrum'.told = spectrum.told /\ spectrum'.made = spectrum.made + 1
          /\ spectrum'.dropped = 0 /\ spectrum'.count = spectrum.count + 1
      BY <1>0, <2>1 DEF Spectra
    <2>3. /\ Append(q, frame) \in Seq(Frames) /\ Len(Append(q, frame)) = Len(q) + 1
          /\ Append(q, frame)[Len(q) + 1] = frame
          /\ \A i \in 1..Len(q) : Append(q, frame)[i] = q[i]
      BY <1>1, <1>a, AppendProperties
    <2>4. SpectrumType'
      BY <1>0, <1>1, <1>2, <2>1, <2>3, SpectrumQueued DEF SpectrumType
    <2>5. Consecutive(spectrum')
      <3>1. ASSUME NEW i \in 1..(Len(q) + 1)
            PROVE  Append(q, frame)[i].number =
                     (IF i = 1 THEN spectrum.drawn ELSE Append(q, frame)[i - 1].number)
                       + Append(q, frame)[i].before + 1
        <4>1. CASE i \in 1..Len(q)
          <5>1. Append(q, frame)[i] = q[i] /\ (i # 1 => Append(q, frame)[i - 1] = q[i - 1])
            BY <1>1, <2>3, <4>1
          <5> QED
            BY <4>1, <5>1 DEF FramesInv, Consecutive
        <4>2. CASE i = Len(q) + 1
          <5>1. Append(q, frame)[i] = frame /\ (i # 1 => Append(q, frame)[i - 1] = q[Len(q)])
            BY <1>1, <2>3, <4>2
          <5>2. frame.number = spectrum.made + 1 /\ frame.before = spectrum.dropped
            OBVIOUS
          <5>3. spectrum.made = (IF i = 1 THEN spectrum.drawn ELSE q[Len(q)].number) + spectrum.dropped
            BY <1>1, <4>2, EmptySeq DEF FramesInv, Consecutive
          <5>4. i # 1 => q[Len(q)].number \in Int
            BY <1>1, <4>2, LenProperties, FrameFields
          <5> QED
            BY <1>1, <5>1, <5>2, <5>3, <5>4
        <4> QED
          BY <1>1, <4>1, <4>2
      <3>2. Append(q, frame) # <<>>
        BY <1>1, <1>a, AppendProperties
      <3>3. spectrum'.made = spectrum'.queue[Len(spectrum'.queue)].number + spectrum'.dropped
        BY <1>1, <2>2, <2>3
      <3> QED
        BY <2>2, <2>3, <3>1, <3>2, <3>3 DEF Consecutive
    <2>6. /\ spectrum.count = Len(q) + (IF display = "drawing" THEN 1 ELSE 0)
          /\ display # "frameMissing" /\ spectrum.told = spectrum.drawn
      BY DEF FramesInv
    <2>7. /\ spectrum'.count = Len(spectrum'.queue) + (IF display' = "drawing" THEN 1 ELSE 0)
          /\ spectrum'.count <= MostFramesInFlight
      <3>1. Len(spectrum'.queue) = Len(q) + 1 /\ spectrum'.count = spectrum.count + 1
        BY <2>2, <2>3
      <3>2. display' = display /\ spectrum.count < MostFramesInFlight
        BY <1>1, <1>2, <1>4, OutputsAssumption
      <3> HIDE DEF q
      <3> QED
        BY <1>1, <2>6, <3>1, <3>2, OutputsAssumption
    <2> HIDE DEF frame
    <2> QED
      BY <1>2, <2>2, <2>4, <2>5, <2>6, <2>7 DEF FramesInv
  <1> QED
    BY <1>3, <1>4

(* The display is told, with each frame, how far the last drawn was.       *)
LEMMA DrawKeeps ==
  ASSUME FramesInv, DrawFrame
  PROVE  FramesInv'
  <1> DEFINE q == spectrum.queue
  <1>0. spectrum \in Spectra /\ display \in Displays
    BY DEF FramesInv, SpectrumType
  <1>1. /\ q \in Seq(Frames) /\ q # <<>> /\ Len(q) \in Nat /\ Len(q) >= 1 /\ spectrum.drawn \in Int
        /\ spectrum.made \in Int /\ spectrum.count \in Int /\ spectrum.dropped \in Int
    BY <1>0, SpectrumFields, LenProperties, EmptySeq DEF DrawFrame
  <1>2. /\ spectrum' = [spectrum EXCEPT !.queue = Tail(q), !.drawn = q[1].number,
                                        !.told = spectrum.drawn + q[1].before + 1]
        /\ display = "idle" /\ display' = "drawing" /\ Head(q) = q[1]
    BY <1>1 DEF DrawFrame
  <1>3. /\ q[1] \in Frames /\ q[1].number \in Int /\ q[1].before \in Int
        /\ q[1].number = spectrum.drawn + q[1].before + 1
    <2>1. 1 \in 1..Len(q) /\ q[1] \in Frames
      BY <1>1, LenProperties
    <2> QED
      BY <2>1, FrameFields DEF FramesInv, Consecutive
  <1>4. /\ spectrum'.queue = Tail(q) /\ spectrum'.drawn = q[1].number
        /\ spectrum'.told = spectrum.drawn + q[1].before + 1 /\ spectrum'.made = spectrum.made
        /\ spectrum'.dropped = spectrum.dropped /\ spectrum'.count = spectrum.count
    BY <1>0, <1>2 DEF Spectra
  <1>5. /\ Tail(q) \in Seq(Frames) /\ Len(Tail(q)) = Len(q) - 1
        /\ \A i \in 1..(Len(q) - 1) : Tail(q)[i] = q[i + 1]
    BY <1>1, HeadTailProperties
  <1>6. SpectrumType'
    BY <1>0, <1>1, <1>2, <1>3, <1>5, SpectrumDrawn DEF SpectrumType, Displays
  <1>7. Consecutive(spectrum')
    <2>1. \A i \in 1..Len(q) :
            q[i].number = (IF i = 1 THEN spectrum.drawn ELSE q[i - 1].number) + q[i].before + 1
      BY DEF FramesInv, Consecutive
    <2>2. spectrum.made = q[Len(q)].number + spectrum.dropped
      BY <1>1 DEF FramesInv, Consecutive
    <2> HIDE DEF q
    <2>3. /\ \A i \in 1..Len(Tail(q)) :
               Tail(q)[i].number = (IF i = 1 THEN q[1].number ELSE Tail(q)[i - 1].number)
                                     + Tail(q)[i].before + 1
          /\ q[Len(q)].number = IF Tail(q) = <<>> THEN q[1].number ELSE Tail(q)[Len(Tail(q))].number
      BY <1>1, <2>1, TailFollows
    <2>4. \A i \in 1..Len(spectrum'.queue) :
            spectrum'.queue[i].number
              = (IF i = 1 THEN spectrum'.drawn ELSE spectrum'.queue[i - 1].number)
                  + spectrum'.queue[i].before + 1
      BY <1>4, <2>3
    <2>5. spectrum'.made = (IF spectrum'.queue = <<>> THEN spectrum'.drawn
                            ELSE spectrum'.queue[Len(spectrum'.queue)].number) + spectrum'.dropped
      BY <1>4, <2>2, <2>3
    <2> QED
      BY <2>4, <2>5 DEF Consecutive
  <1> QED
    BY <1>1, <1>2, <1>3, <1>4, <1>5, <1>6, <1>7 DEF FramesInv

(* noteSpectrumFrameConsumed(): the count was positive.                    *)
LEMMA ConsumedKeeps ==
  ASSUME FramesInv, FrameConsumed
  PROVE  FramesInv'
  <1>0. spectrum \in Spectra /\ display \in Displays
    BY DEF FramesInv, SpectrumType
  <1>1. spectrum.count \in Int /\ Len(spectrum.queue) \in Nat /\ spectrum.count > 0
    <2>1. spectrum.count \in Int /\ Len(spectrum.queue) \in Nat
      BY <1>0, SpectrumFields, LenProperties
    <2> QED
      BY <2>1 DEF FramesInv, FrameConsumed
  <1>2. display = "drawing" /\ display' = "idle" /\ spectrum' = [spectrum EXCEPT !.count = @ - 1]
    BY <1>1 DEF FrameConsumed
  <1>3. /\ spectrum'.queue = spectrum.queue /\ spectrum'.drawn = spectrum.drawn
        /\ spectrum'.told = spectrum.told /\ spectrum'.made = spectrum.made
        /\ spectrum'.dropped = spectrum.dropped /\ spectrum'.count = spectrum.count - 1
    BY <1>0, <1>2 DEF Spectra
  <1>4. SpectrumType'
    BY <1>0, <1>1, <1>2, SpectrumCounted DEF SpectrumType, Displays
  <1>5. Consecutive(spectrum')
    BY <1>3 DEF FramesInv, Consecutive
  <1> QED
    BY <1>1, <1>2, <1>3, <1>4, <1>5, OutputsAssumption DEF FramesInv

-----------------------------------------------------------------------------
LEMMA HandedOutInit == OutputsInit => HandedOutInv
  <1> SUFFICES ASSUME OutputsInit PROVE HandedOutInv
    OBVIOUS
  <1>1. FramesInv
    <2>1. <<>> \in Seq(Frames) /\ Len(<<>>) = 0
      OBVIOUS
    <2> QED
      BY <2>1, OutputsAssumption DEF OutputsInit, FramesInv, SpectrumType, Spectra, Displays, Consecutive
  <1>2. BuffersInv /\ RegionInv
    BY DEF OutputsInit, BuffersInv, MonitorType, Monitors, Modes, RegionInv, RegionType, Lines
  <1> QED
    BY <1>1, <1>2 DEF HandedOutInv

(* What leaves the frames and what the display does with them alone.       *)
LEMMA FramesAlone ==
  ASSUME FramesInv, spectrum' = spectrum, display' \in Displays,
         (display = "drawing") <=> (display' = "drawing"), display' # "frameMissing"
  PROVE  FramesInv'
  BY DEF FramesInv, SpectrumType, Consecutive

LEMMA BuffersAlone ==
  ASSUME BuffersInv, monitor' = monitor,
         (display = "playing") <=> (display' = "playing"),
         (display = "bufferMissing") => (display' = "bufferMissing")
  PROVE  BuffersInv'
  BY DEF BuffersInv, MonitorType

(* setMonitor(), start() and stop() clear the count while buffers are      *)
(* queued, and so does the second step of an acknowledgement.              *)
LEMMA CountCleared ==
  ASSUME BuffersInv, NEW mode \in Modes,
         \/ monitor' = [monitor EXCEPT !.count = 0]
         \/ monitor' = [monitor EXCEPT !.mode = mode, !.count = 0]
  PROVE  BuffersInv'
  <1>1. monitor \in Monitors /\ monitor.queued \in Nat
    BY DEF BuffersInv, MonitorType, Monitors
  <1>2. monitor'.count = 0 /\ monitor'.queued = monitor.queued
    BY <1>1 DEF Monitors
  <1>3. MonitorType'
    <2>1. [monitor EXCEPT !.count = 0] \in Monitors
      BY <1>1, MonitorCounted
    <2>2. [monitor EXCEPT !.mode = mode, !.count = 0] \in Monitors
      BY <1>1, MonitorTuned
    <2> QED
      BY <2>1, <2>2 DEF MonitorType
  <1> QED
    BY <1>1, <1>2, <1>3 DEF BuffersInv

LEMMA RegionAlone == ASSUME RegionInv, region' = region PROVE RegionInv'
  BY DEF RegionInv, RegionType

LEMMA HandedOutStep == HandedOutInv /\ [OutputsNext]_outputsVars => HandedOutInv'
  <1> SUFFICES ASSUME HandedOutInv, [OutputsNext]_outputsVars PROVE HandedOutInv'
    OBVIOUS
  <1>0. /\ FramesInv /\ BuffersInv /\ RegionInv /\ display \in Displays /\ display # "frameMissing"
        /\ monitor \in Monitors
    BY DEF HandedOutInv, FramesInv, SpectrumType, BuffersInv, MonitorType
  <1>a. monitor.count \in Int /\ monitor.queued \in Nat
    BY <1>0 DEF Monitors
  <1>1. CASE PublishSpectrumFrame
    BY <1>0, <1>1, PublishKeeps, BuffersAlone, RegionAlone DEF PublishSpectrumFrame, HandedOutInv
  <1>2. CASE DrawFrame
    BY <1>0, <1>2, DrawKeeps, BuffersAlone, RegionAlone DEF DrawFrame, HandedOutInv
  <1>3. CASE FrameConsumed
    <2>1. display = "drawing" /\ display' \in {"idle", "frameMissing"}
      BY <1>3 DEF FrameConsumed
    <2> QED
      BY <1>0, <1>3, <2>1, ConsumedKeeps, BuffersAlone, RegionAlone DEF FrameConsumed, HandedOutInv
  <1>4. CASE PlayBuffer
    <2>1. FramesInv' /\ RegionInv'
      BY <1>0, <1>4, FramesAlone, RegionAlone DEF PlayBuffer, Displays
    <2>2. BuffersInv'
      <3>1. monitor' = [monitor EXCEPT !.queued = monitor.queued - 1] /\ monitor.queued - 1 \in Nat
            /\ display = "idle" /\ display' = "playing"
        BY <1>a, <1>4 DEF PlayBuffer
      <3>2. monitor'.count = monitor.count /\ monitor'.queued = monitor.queued - 1
        BY <1>0, <3>1 DEF Monitors
      <3>3. MonitorType'
        BY <1>0, <3>1, MonitorQueued DEF MonitorType
      <3> QED
        BY <1>0, <1>a, <3>1, <3>2, <3>3 DEF BuffersInv
    <2> QED
      BY <2>1, <2>2 DEF HandedOutInv
  <1>5. CASE BufferConsumed
    <2>1. display' \in {"idle", "bufferMissing"} /\ display = "playing"
      BY <1>5 DEF BufferConsumed
    <2>2. FramesInv' /\ RegionInv'
      BY <1>0, <1>5, <2>1, FramesAlone, RegionAlone DEF BufferConsumed, Displays
    <2>3. BuffersInv'
      <3>1. monitor' = [monitor EXCEPT !.count = monitor.count - 1] /\ monitor.count - 1 \in Int
            /\ display' = (IF monitor.count <= 0 THEN "bufferMissing" ELSE "idle")
        BY <1>a, <1>5 DEF BufferConsumed
      <3>2. monitor'.count = monitor.count - 1 /\ monitor'.queued = monitor.queued
        BY <1>0, <3>1 DEF Monitors
      <3>3. MonitorType'
        BY <1>0, <1>a, <3>1, MonitorCounted DEF MonitorType
      <3> QED
        BY <1>0, <1>a, <2>1, <3>1, <3>2, <3>3 DEF BuffersInv
    <2> QED
      BY <2>2, <2>3 DEF HandedOutInv
  <1>6. CASE CountReset
    <2>1. display = "bufferMissing" /\ display' = "idle" /\ spectrum' = spectrum /\ region' = region
          /\ monitor' = [monitor EXCEPT !.count = 0]
      BY <1>0, <1>6 DEF CountReset
    <2>2. FramesInv' /\ RegionInv'
      BY <1>0, <2>1, FramesAlone, RegionAlone DEF Displays
    <2>3. BuffersInv'
      BY <1>0, <2>1, CountCleared, 0 \in Modes DEF Modes
    <2> QED
      BY <2>2, <2>3 DEF HandedOutInv
  <1>7. CASE SetMonitor
    <2>1. FramesInv'
      BY <1>0, <1>7, FramesAlone DEF SetMonitor
    <2>2. BuffersInv'
      BY <1>0, <1>7, CountCleared DEF SetMonitor, Modes
    <2>3. RegionInv'
      BY <1>0, <1>7 DEF SetMonitor, ResetRegionAudio, RegionInv, RegionType, Lines
    <2> QED
      BY <2>1, <2>2, <2>3 DEF HandedOutInv
  <1>8. CASE SetRemoteAudioSubscribed
    <2>1. RegionInv'
      BY <1>0, <1>8 DEF SetRemoteAudioSubscribed, ResetRegionAudio, RegionInv, RegionType, Lines
    <2> QED
      BY <1>0, <1>8, <2>1, FramesAlone, BuffersAlone DEF SetRemoteAudioSubscribed, HandedOutInv
  <1>9. CASE CaptureTurns
    <2>1. RegionInv'
      BY <1>0, <1>9 DEF CaptureTurns, RegionInv, RegionType
    <2> QED
      BY <1>0, <1>9, <2>1, FramesAlone, BuffersAlone DEF CaptureTurns, HandedOutInv
  <1>10. CASE StartOrStop
    <2>1. FramesInv'
      BY <1>0, <1>10, FramesAlone DEF StartOrStop
    <2>2. BuffersInv'
      BY <1>0, <1>10, CountCleared, 0 \in Modes DEF StartOrStop, Modes
    <2>3. RegionInv'
      BY <1>0, <1>10 DEF StartOrStop, ResetRegionAudio, RegionInv, RegionType, Lines
    <2> QED
      BY <2>1, <2>2, <2>3 DEF HandedOutInv
  <1>11. CASE ProduceAudio
    <2>1. FramesInv'
      BY <1>0, <1>11, FramesAlone DEF ProduceAudio
    <2>2. BuffersInv'
      <3>1. PICK bounded \in BOOLEAN : monitor' = monitor \/ monitor' = Emitted(monitor, bounded)
        BY <1>11 DEF ProduceAudio
      <3>2. display' = display
        BY <1>11 DEF ProduceAudio
      <3>3. CASE monitor' = monitor
        BY <1>0, <3>2, <3>3, BuffersAlone
      <3>4. CASE monitor' = [monitor EXCEPT !.queued = monitor.queued + 1]
        <4>1. monitor'.count = monitor.count /\ monitor'.queued = monitor.queued + 1
          BY <1>0, <3>4 DEF Monitors
        <4>2. MonitorType'
          BY <1>0, <1>a, <3>4, MonitorQueued DEF MonitorType
        <4> QED
          BY <1>0, <1>a, <3>2, <4>1, <4>2 DEF BuffersInv
      <3>5. CASE monitor' = [monitor EXCEPT !.queued = monitor.queued + 1, !.count = monitor.count + 1]
        <4>1. monitor'.count = monitor.count + 1 /\ monitor'.queued = monitor.queued + 1
          BY <1>0, <3>5 DEF Monitors
        <4>2. MonitorType'
          BY <1>0, <1>a, <3>5, MonitorFilled DEF MonitorType
        <4> QED
          BY <1>0, <1>a, <3>2, <4>1, <4>2 DEF BuffersInv
      <3> QED
        BY <3>1, <3>3, <3>4, <3>5 DEF Emitted
    <2>3. RegionInv'
      <3>1. PICK gap \in BOOLEAN : region' = Demodulated(region, gap)
        BY <1>11 DEF ProduceAudio
      <3> DEFINE q == IF gap THEN ResetRegionAudio(region) ELSE region
      <3>2. RegionType /\ (region.active => region.line = "last") /\ region.heard # "older"
        BY <1>0 DEF RegionInv
      <3>3. /\ q \in [subscribed : BOOLEAN, capturing : BOOLEAN, active : BOOLEAN, line : Lines, heard : Lines]
            /\ q.active => q.line = "last"
            /\ q.heard # "older"
        BY <3>2 DEF RegionType, ResetRegionAudio, Lines
      <3>4. region' = IF ~RegionAudioWanted
                      THEN (IF q.active THEN ResetRegionAudio(q) ELSE [q EXCEPT !.line = Aged(@)])
                      ELSE [q EXCEPT !.active = TRUE, !.heard = IF q.active THEN q.line ELSE "clean",
                                     !.line = "last"]
        BY <3>1 DEF Demodulated
      <3> HIDE DEF q
      <3>5. CASE RegionAudioWanted
        BY <3>3, <3>4, <3>5 DEF RegionInv, RegionType, Lines
      <3>6. CASE ~RegionAudioWanted
        BY <3>3, <3>4, <3>6 DEF RegionInv, RegionType, ResetRegionAudio, Aged, Lines
      <3> QED
        BY <3>5, <3>6
    <2> QED
      BY <2>1, <2>2, <2>3 DEF HandedOutInv
  <1>12. CASE UNCHANGED outputsVars
    BY <1>0, <1>12, FramesAlone, BuffersAlone, RegionAlone DEF outputsVars, HandedOutInv
  <1> QED
    BY <1>1, <1>2, <1>3, <1>4, <1>5, <1>6, <1>7, <1>8, <1>9, <1>10, <1>11, <1>12 DEF OutputsNext

(* live_audio_worker.cpp: the frames in flight are bounded and counted     *)
(* exactly, the display is told of every frame it missed, listening never  *)
(* stops for a count that was cleared, and no audio of the region is made  *)
(* of a delay line that has missed a block.                                *)
THEOREM OutputsAreAccounted == OutputsSpec => []OutputsInv
  <1>1. HandedOutInv => OutputsInv
    BY DEF HandedOutInv, FramesInv, BuffersInv, RegionInv, OutputsInv
  <1> QED
    BY <1>1, HandedOutInit, HandedOutStep, PTL DEF OutputsSpec

-----------------------------------------------------------------------------
(***************************************************************************)
(* Debug captures: what a data file, its sidecar, the writer that makes    *)
(* them and the source that reads them back say of one another.            *)
(***************************************************************************)

SegmentList == Seq([start : Nat, center : Centers])
AudioRate == AudioRates \cup {SoundRate}

(* The samples that stand under segment k.                                 *)
Covers(segments, k, i) ==
  /\ k \in 1..Len(segments) /\ segments[k].start < i
  /\ k < Len(segments) => i <= segments[k + 1].start

(* Segments are retunes in order, each marked by the first sample after    *)
(* it, if there is one.                                                    *)
Marks(segments, data) ==
  /\ segments \in SegmentList /\ segments # <<>> /\ segments[1].start = 0
  /\ \A j, k \in 1..Len(segments) : j < k => segments[j].start < segments[k].start
  /\ \A k \in 2..Len(segments) : segments[k - 1].center # segments[k].center
  /\ \A k \in 1..Len(segments) :
       segments[k].start < Len(data) => data[segments[k].start + 1] = segments[k].center
(* Where there was room for every retune, the samples under a segment were *)
(* received on its frequency.                                              *)
TellsOf(segments, data) ==
  Len(segments) < MostSegments =>
    \A i \in 1..Len(data), k \in 1..Len(segments) : Covers(segments, k, i) => data[i] = segments[k].center

FilesTell(f) ==
  /\ f \in [data : Seq(Centers), sidecar : {f.sidecar}, audio : {f.audio}, orderly : BOOLEAN]
  /\ f.orderly => f.sidecar.kind = "whole"
  /\ f.sidecar.kind = "whole" =>
       /\ Marks(f.sidecar.segments, f.data)
       /\ f.orderly => TellsOf(f.sidecar.segments, f.data)
  /\ f.audio.kind = "wav" =>
       /\ f.audio \in [kind : {"wav"}, rate : AudioRate, declared : Nat, held : Seq(AudioRate)]
       /\ f.audio.declared \in {0, Len(f.audio.held)}

(* A writer whose sidecar would tell of its data; the one of its opening   *)
(* is there, and tells of the first segment.                               *)
Describes(w, f) ==
  /\ ~f.orderly /\ f.sidecar.kind = "whole" /\ f.sidecar.segments = <<w.segments[1]>>
  /\ Marks(w.segments, f.data) /\ TellsOf(w.segments, f.data)
(* One that goes on.                                                       *)
Writes(w, f) ==
  /\ ~w.stopped /\ w.written = Len(f.data) /\ w.written < MostSamples
  /\ w.segments[Len(w.segments)].start < w.written

IqMembers ==
  [open : BOOLEAN, stopped : BOOLEAN, rate : IqRates \cup {0}, segments : SegmentList, written : Nat]
CaptureFormed(c) ==
  c \in [active : BOOLEAN, pending : BOOLEAN, audioFailed : BOOLEAN,
         iq : IqMembers,
         wav : [open : BOOLEAN, rate : AudioRate \cup {0}, frames : Nat]]
Hears(c, f) ==
  c.wav.open => f.audio.kind = "wav" /\ f.audio.declared = 0 /\ Len(f.audio.held) = c.wav.frames

(* What can be closed, and what goes on.                                   *)
Closable(c, f) ==
  /\ CaptureFormed(c) /\ FilesTell(f) /\ Hears(c, f)
  /\ c.iq.open => Describes(c.iq, f)
Captures(c, f) ==
  /\ Closable(c, f)
  /\ c.active <=> c.pending \/ c.iq.open \/ c.wav.open
  /\ c.pending => ~c.iq.open /\ ~c.wav.open
  /\ c.iq.open => Writes(c.iq, f)

(* The source has read up to its position, and is under the segment before *)
(* the next; what it hands on was under one.                               *)
Sources(f) ==
  [open : {TRUE}, total : {Len(f.data)}, segments : {f.sidecar.segments}, running : BOOLEAN,
   position : 0..Len(f.data), next : 2..Len(f.sidecar.segments) + 1, center : Centers,
   handed : [from : Nat, to : 0..Len(f.data), center : Centers \cup {0}]]
Plays(p, f) ==
  /\ p \in Sources(f)
  /\ f.sidecar.kind = "whole"
  /\ p.running => p.position < Len(f.data)
  /\ p.center = p.segments[p.next - 1].center
  /\ p.segments[p.next - 1].start <= p.position
  /\ p.next <= Len(p.segments) => p.position < p.segments[p.next].start
  /\ \E k \in 1..Len(p.segments) :
       \A i \in p.handed.from + 1..p.handed.to :
         Covers(p.segments, k, i) /\ p.handed.center = p.segments[k].center

CaptureIInv ==
  /\ Captures(capture, files)
  /\ IF player.open THEN Plays(player, files) ELSE player = NoPlayer

(* The limits are numbers, and a block has samples.                        *)
LEMMA CaptureBounds ==
  /\ MostSamples \in Nat /\ MostSamples > 0 /\ MostAudioBlocks \in Nat
  /\ MostSegments \in Nat /\ MostSegments > 0 /\ ReplayBlock \in Nat /\ ReplayBlock > 0
  /\ \A n \in BlockSizes : n \in Nat /\ n > 0
  BY DebugCaptureAssumption

(* writeBlock(): samples of one frequency at the end of the data.          *)
Extends(g, f, center, n) ==
  /\ g \in [data : Seq(Centers), sidecar : {g.sidecar}, audio : {g.audio}, orderly : BOOLEAN]
  /\ g.sidecar = f.sidecar /\ g.audio = f.audio /\ g.orderly = f.orderly
  /\ Len(g.data) = Len(f.data) + n
  /\ \A i \in 1..Len(f.data) : g.data[i] = f.data[i]
  /\ \A i \in Len(f.data) + 1..Len(g.data) : g.data[i] = center

LEMMA ReceivedIs ==
  ASSUME NEW f, FilesTell(f), NEW center \in Centers, NEW n \in Nat, NEW g, g = Received(f, center, n)
  PROVE  Extends(g, f, center, n)
<1> DEFINE more == [i \in 1..n |-> center]
<1>1. more \in Seq(Centers) /\ Len(more) = n /\ \A i \in 1..n : more[i] = center
  OBVIOUS
<1>2. f.data \in Seq(Centers)
  BY DEF FilesTell
<1>3. /\ g.data = f.data \o more
      /\ g.sidecar = f.sidecar /\ g.audio = f.audio /\ g.orderly = f.orderly
      /\ g \in [data : {g.data}, sidecar : {g.sidecar}, audio : {g.audio}, orderly : BOOLEAN]
  BY DEF FilesTell, Received
<1> HIDE DEF more
<1> DEFINE old == f.data
           new == g.data
<1>4. old \in Seq(Centers) /\ new = old \o more
  BY <1>2, <1>3
<1>5. /\ g.sidecar = f.sidecar /\ g.audio = f.audio /\ g.orderly = f.orderly
      /\ new \in Seq(Centers)
           => g \in [data : Seq(Centers), sidecar : {g.sidecar}, audio : {g.audio}, orderly : BOOLEAN]
  BY <1>3
<1> HIDE DEF old, new
<1>6. /\ new \in Seq(Centers) /\ Len(new) = Len(old) + Len(more)
      /\ \A i \in 1..Len(old) + Len(more) :
           new[i] = IF i <= Len(old) THEN old[i] ELSE more[i - Len(old)]
  BY <1>1, <1>4, ConcatProperties
<1>7. Len(old) \in Nat
  BY <1>4, LenProperties
<1>8. /\ Len(new) = Len(old) + n
      /\ \A i \in 1..Len(old) : new[i] = old[i]
      /\ \A i \in Len(old) + 1..Len(new) : new[i] = center
  <2>1. ASSUME NEW i \in 1..Len(old)
        PROVE  new[i] = old[i]
    BY <1>1, <1>6, <1>7
  <2>2. ASSUME NEW i \in Len(old) + 1..Len(new)
        PROVE  new[i] = center
    <3>1. i - Len(old) \in 1..n /\ i \in 1..Len(old) + Len(more) /\ ~(i <= Len(old))
      BY <1>1, <1>6, <1>7
    <3>2. QED
      BY <1>1, <1>6, <3>1
  <2>3. QED
    BY <1>1, <1>6, <2>1, <2>2
<1>9. QED
  BY <1>5, <1>6, <1>8 DEF old, new, Extends

(* A list of segments has a length, and each segment its two fields.       *)
LEMMA SegmentsAre ==
  ASSUME NEW segments, segments \in SegmentList
  PROVE  /\ Len(segments) \in Nat /\ (segments # <<>> => Len(segments) >= 1)
         /\ \A k \in 1..Len(segments) :
              /\ segments[k] \in [start : Nat, center : Centers]
              /\ segments[k].start \in Nat /\ segments[k].center \in Centers
<1>1. Len(segments) \in Nat /\ (segments # <<>> => Len(segments) # 0)
  BY EmptySeq, LenProperties DEF SegmentList
<1>2. \A k \in 1..Len(segments) : segments[k] \in [start : Nat, center : Centers]
  BY ElementOfSeq DEF SegmentList
<1>3. QED
  BY <1>1, <1>2

(* The first segment is told of data that more of it may be told of.       *)
LEMMA FirstIsMarked ==
  ASSUME NEW segments, NEW data, Marks(segments, data)
  PROVE  Marks(<<segments[1]>>, data) /\ Len(segments) \in Nat /\ Len(segments) >= 1
<1>1. Len(segments) \in Nat /\ Len(segments) >= 1 /\ segments[1] \in [start : Nat, center : Centers]
  BY SegmentsAre DEF Marks
<1> DEFINE first == <<segments[1]>>
<1>2. first \in SegmentList /\ Len(first) = 1 /\ first[1] = segments[1] /\ first # <<>>
  BY <1>1 DEF SegmentList
<1> HIDE DEF first
<1>3. Marks(first, data)
  BY <1>1, <1>2 DEF Marks
<1>4. QED
  BY <1>1, <1>3 DEF first

(* A prefix of the data is told of as well.                                *)
LEMMA LessIsMarked ==
  ASSUME NEW segments, NEW data, Marks(segments, data), NEW less,
         Len(less) \in Nat, Len(data) \in Nat, Len(less) <= Len(data),
         \A i \in 1..Len(less) : less[i] = data[i]
  PROVE  Marks(segments, less)
<1>1. /\ segments \in SegmentList /\ segments # <<>> /\ segments[1].start = 0
      /\ \A j, k \in 1..Len(segments) : j < k => segments[j].start < segments[k].start
      /\ \A k \in 2..Len(segments) : segments[k - 1].center # segments[k].center
  BY DEF Marks
<1>2. ASSUME NEW k \in 1..Len(segments), segments[k].start < Len(less)
      PROVE  less[segments[k].start + 1] = segments[k].center
  <2> DEFINE start == segments[k].start
  <2>1. start \in Nat /\ start < Len(less)
    BY <1>1, <1>2, SegmentsAre
  <2>2. start < Len(data) => data[start + 1] = segments[k].center
    BY DEF Marks
  <2> HIDE DEF start
  <2>3. start < Len(data) /\ start + 1 \in 1..Len(less)
    BY <2>1
  <2>4. less[start + 1] = data[start + 1]
    BY <2>3
  <2>5. QED
    BY <2>2, <2>3, <2>4 DEF start
<1>3. QED
  BY <1>1, <1>2 DEF Marks

(* The retune of a block, and the samples of it that were written.         *)
Marked(segments, data, center) ==
  IF center # segments[Len(segments)].center /\ Len(segments) < MostSegments
    THEN Append(segments, [start |-> Len(data), center |-> center]) ELSE segments

(* What told of the data tells of it with the retune and the samples       *)
(* that follow, however many of the block were written.                    *)
LEMMA RetuneIsMarked ==
  ASSUME NEW segments, NEW data, Marks(segments, data), TellsOf(segments, data), Len(data) \in Nat,
         NEW center \in Centers,
         \/ \A k \in 1..Len(segments) : segments[k].start < Len(data)
         \/ Len(segments) = 1 /\ Len(data) = 0 /\ segments[1].center = center,
         NEW more, Len(more) \in Nat, Len(more) >= Len(data),
         \A i \in 1..Len(data) : more[i] = data[i],
         \A i \in Len(data) + 1..Len(more) : more[i] = center,
         NEW told, told = Marked(segments, data, center)
  PROVE  /\ Marks(told, more) /\ TellsOf(told, more) /\ told[1] = segments[1]
         /\ told[Len(told)].start <= Len(data)
<1>0. /\ segments \in SegmentList /\ segments # <<>> /\ Len(segments) \in Nat /\ Len(segments) >= 1
      /\ \A k \in 1..Len(segments) : segments[k].start \in Nat
      /\ segments[1].start = 0 /\ MostSegments \in Nat
  BY SegmentsAre, CaptureBounds DEF Marks
<1>1. \A i \in 1..Len(more) : i \in 1..Len(data) \/ i \in Len(data) + 1..Len(more)
  OBVIOUS
<1>2. CASE center # segments[Len(segments)].center /\ Len(segments) < MostSegments
  <2> DEFINE segment == [start |-> Len(data), center |-> center]
  <2>1. /\ told = Append(segments, segment) /\ segment \in [start : Nat, center : Centers]
        /\ segment.start = Len(data) /\ segment.center = center
    BY <1>2 DEF Marked
  <2> HIDE DEF segment
  <2>0. /\ told \in SegmentList /\ told # <<>> /\ Len(told) = Len(segments) + 1
         /\ \A k \in 1..Len(segments) : told[k] = segments[k]
         /\ told[Len(told)] = segment
    BY <1>0, <2>1, AppendProperties DEF SegmentList
  <2>2. /\ told \in SegmentList /\ told # <<>> /\ Len(told) = Len(segments) + 1
        /\ \A k \in 1..Len(segments) : told[k] = segments[k]
        /\ told[Len(told)].start = Len(data) /\ told[Len(told)].center = center
    BY <2>0, <2>1
  <2>3. \A k \in 1..Len(segments) : segments[k].start < Len(data)
    BY <1>2
  <2>4. \A k \in 1..Len(told) : k \in 1..Len(segments) \/ k = Len(told)
    BY <1>0, <2>2
  <2>5. told[1] = segments[1] /\ told[1].start = 0
    BY <1>0, <2>2
  <2>6. \A j, k \in 1..Len(told) : j < k => told[j].start < told[k].start
    <3>1. SUFFICES ASSUME NEW j \in 1..Len(told), NEW k \in 1..Len(told), j < k
                   PROVE  told[j].start < told[k].start
      OBVIOUS
    <3>2. j \in 1..Len(segments)
      BY <1>0, <2>2, <3>1
    <3>3. CASE k \in 1..Len(segments)
      BY <2>2, <3>1, <3>2, <3>3 DEF Marks
    <3>4. CASE k = Len(told)
      BY <2>2, <2>3, <3>2, <3>4
    <3>5. QED
      BY <2>4, <3>3, <3>4
  <2>7. \A k \in 2..Len(told) : told[k - 1].center # told[k].center
    <3>1. ASSUME NEW k \in 2..Len(segments)
          PROVE  told[k - 1].center # told[k].center
      BY <1>0, <2>2 DEF Marks
    <3>2. told[Len(told) - 1].center # told[Len(told)].center
      BY <1>0, <1>2, <2>2
    <3>3. \A k \in 2..Len(told) : k \in 2..Len(segments) \/ k = Len(told)
      BY <1>0, <2>2
    <3>4. QED
      BY <3>1, <3>2, <3>3
  <2>8. ASSUME NEW k \in 1..Len(told), told[k].start < Len(more)
        PROVE  more[told[k].start + 1] = told[k].center
    <3>1. CASE k \in 1..Len(segments)
      <4>1. segments[k].start < Len(data) /\ told[k] = segments[k] /\ segments[k].start \in Nat
        BY <1>0, <2>2, <2>3, <3>1
      <4>2. data[segments[k].start + 1] = segments[k].center
        BY <3>1, <4>1 DEF Marks
      <4>3. segments[k].start + 1 \in 1..Len(data)
        BY <4>1
      <4>4. QED
        BY <4>1, <4>2, <4>3
    <3>2. CASE k = Len(told)
      BY <2>2, <2>8, <3>2
    <3>3. QED
      BY <2>4, <3>1, <3>2
  <2>9. Marks(told, more)
    BY <2>2, <2>5, <2>6, <2>7, <2>8 DEF Marks
  <2>10. ASSUME Len(told) < MostSegments, NEW i \in 1..Len(more), NEW k \in 1..Len(told),
                Covers(told, k, i)
         PROVE  more[i] = told[k].center
    <3>1. CASE k = Len(told)
      BY <1>1, <2>2, <2>10, <3>1 DEF Covers
    <3>2. CASE k \in 1..Len(segments)
      <4>1. i <= told[k + 1].start /\ told[k].start < i
        BY <1>0, <2>2, <2>10, <3>2 DEF Covers
      <4>2. told[k + 1].start <= Len(data)
        <5>1. CASE k + 1 \in 1..Len(segments)
          BY <1>0, <2>2, <2>3, <5>1
        <5>2. CASE k + 1 = Len(told)
          BY <2>2, <5>2
        <5>3. QED
          BY <1>0, <2>2, <3>2, <5>1, <5>2
      <4>3. i \in 1..Len(data)
        BY <1>0, <2>2, <4>1, <4>2, <3>2, SegmentsAre
      <4>4. Covers(segments, k, i)
        BY <1>0, <2>2, <4>1, <3>2 DEF Covers
      <4>5. data[i] = segments[k].center
        BY <1>0, <1>2, <3>2, <4>3, <4>4 DEF TellsOf
      <4>6. QED
        BY <2>2, <3>2, <4>3, <4>5
    <3>3. QED
      BY <2>4, <3>1, <3>2
  <2>11. QED
    BY <2>2, <2>5, <2>9, <2>10 DEF TellsOf
<1>3. CASE ~(center # segments[Len(segments)].center /\ Len(segments) < MostSegments)
  <2>1. told = segments
    BY <1>3 DEF Marked
  <2>2. \A k \in 1..Len(segments) : segments[k].start <= Len(data)
    BY <1>0
  <2>3. ASSUME NEW k \in 1..Len(segments), segments[k].start < Len(more)
        PROVE  more[segments[k].start + 1] = segments[k].center
    <3>1. CASE segments[k].start < Len(data)
      <4>1. data[segments[k].start + 1] = segments[k].center
        BY <3>1 DEF Marks
      <4>2. segments[k].start + 1 \in 1..Len(data)
        BY <1>0, <3>1
      <4>3. QED
        BY <4>1, <4>2
    <3>2. CASE Len(segments) = 1 /\ Len(data) = 0 /\ segments[1].center = center
      BY <1>0, <2>3, <3>2
    <3>3. QED
      BY <3>1, <3>2
  <2>4. Marks(segments, more)
    BY <2>3 DEF Marks
  <2>5. ASSUME Len(segments) < MostSegments, NEW i \in 1..Len(more), NEW k \in 1..Len(segments),
               Covers(segments, k, i)
        PROVE  more[i] = segments[k].center
    <3>1. CASE i \in 1..Len(data)
      BY <2>5, <3>1 DEF TellsOf
    <3>2. CASE i \in Len(data) + 1..Len(more)
      <4>1. k = Len(segments)
        BY <1>0, <2>2, <2>5, <3>2 DEF Covers
      <4>2. QED
        BY <1>3, <2>5, <3>2, <4>1
    <3>3. QED
      BY <1>1, <3>1, <3>2
  <2>6. QED
    BY <1>0, <2>1, <2>2, <2>4, <2>5 DEF TellsOf
<1>4. QED
  BY <1>2, <1>3

-----------------------------------------------------------------------------
(* What the operations on the two files make of a worker and its folder.   *)
WithIq(c, w) == [c EXCEPT !.iq = w]

(* Only the IQ writer of a worker changes.                                 *)
LEMMA WithIqIs ==
  ASSUME NEW c, CaptureFormed(c), NEW w, NEW d, d = WithIq(c, w)
  PROVE  /\ d.iq = w /\ (d.active <=> c.active) /\ (d.pending <=> c.pending)
         /\ d.wav = c.wav /\ (d.audioFailed <=> c.audioFailed)
         /\ w \in IqMembers => CaptureFormed(d)
  BY DEF CaptureFormed, WithIq

(* No segments are a list of segments.                                     *)
LEMMA NothingListed == <<>> \in SegmentList
  BY EmptySeq DEF SegmentList

(* A closed writer is a writer.                                            *)
LEMMA ClosedIsFormed ==
  ClosedIq \in IqMembers
  BY NothingListed DEF ClosedIq, IqMembers

WithSidecar(f, sidecar, orderly) == [f EXCEPT !.sidecar = sidecar, !.orderly = orderly]

(* writeSidecar() and close(): the folder tells, and the worker is quiet.  *)
LEMMA SidecarTells ==
  ASSUME NEW f, FilesTell(f), NEW w, Describes(w, f), NEW sidecar \in Sidecars(w, f),
         NEW g, g = WithSidecar(f, sidecar, sidecar = Recording(w))
  PROVE  FilesTell(g) /\ g.audio = f.audio
<1>1. /\ g \in [data : Seq(Centers), sidecar : {g.sidecar}, audio : {g.audio}, orderly : BOOLEAN]
      /\ g.audio = f.audio /\ g.data = f.data /\ g.sidecar = sidecar
      /\ g.orderly <=> sidecar = Recording(w)
  BY DEF FilesTell, WithSidecar
<1>2. g.audio.kind = "wav" =>
        /\ g.audio \in [kind : {"wav"}, rate : AudioRate, declared : Nat, held : Seq(AudioRate)]
        /\ g.audio.declared \in {0, Len(g.audio.held)}
  BY <1>1 DEF FilesTell
<1>3. CASE sidecar = Recording(w)
  <2>1. sidecar.kind = "whole" /\ sidecar.segments = w.segments
    BY <1>3 DEF Recording
  <2>2. Marks(w.segments, f.data) /\ TellsOf(w.segments, f.data)
    BY DEF Describes
  <2>3. QED
    BY <1>1, <1>2, <2>1, <2>2 DEF FilesTell
<1>4. CASE sidecar # Recording(w) /\ sidecar = f.sidecar
  <2>1. f.sidecar.kind = "whole" => Marks(f.sidecar.segments, f.data)
    BY DEF FilesTell
  <2>2. QED
    BY <1>1, <1>2, <1>4, <2>1 DEF FilesTell
<1>5. CASE sidecar # Recording(w) /\ sidecar = CutSidecar
  <2>1. sidecar.kind # "whole"
    BY <1>5 DEF CutSidecar
  <2>2. QED
    BY <1>1, <1>2, <1>5, <2>1 DEF FilesTell
<1>6. QED
  BY <1>3, <1>4, <1>5 DEF Sidecars

(* close(): no writer is left open, and the folder tells.                  *)
LEMMA IqClosedIs ==
  ASSUME NEW c, NEW f, Closable(c, f), NEW o \in IqClosed(c, f)
  PROVE  Closable(o.c, o.f) /\ ~o.c.iq.open /\ o.c.wav = c.wav
<1>1. CASE ~c.iq.open
  BY <1>1 DEF IqClosed, Outcome
<1>2. CASE c.iq.open
  <2>1. PICK sidecar \in Sidecars(c.iq, f) :
          o = Outcome(WithIq(c, ClosedIq), WithSidecar(f, sidecar, sidecar = Recording(c.iq)))
    BY <1>2 DEF IqClosed, WithIq, WithSidecar
  <2>6. /\ o.c = WithIq(c, ClosedIq)
        /\ o.f = WithSidecar(f, sidecar, sidecar = Recording(c.iq))
    BY <2>1 DEF Outcome
  <2>2. CaptureFormed(o.c) /\ o.c.iq = ClosedIq /\ o.c.wav = c.wav
    BY <2>6, WithIqIs, ClosedIsFormed DEF Closable
  <2>3. FilesTell(o.f) /\ o.f.audio = f.audio
    BY <1>2, <2>6, SidecarTells DEF Closable
  <2>4. ~o.c.iq.open
    BY <2>2 DEF ClosedIq
  <2>5. QED
    BY <2>2, <2>3, <2>4 DEF Closable, Hears
<1>3. QED
  BY <1>1, <1>2

(* close(): the audio file declares what it holds.                         *)
LEMMA WavClosedIs ==
  ASSUME NEW c, NEW f, Closable(c, f), NEW o, o = WavClosed(c, f)
  PROVE  Closable(o.c, o.f) /\ ~o.c.wav.open
<1>1. CASE ~c.wav.open
  BY <1>1 DEF WavClosed, Outcome
<1>2. CASE c.wav.open
  <2>0. CaptureFormed(c) /\ FilesTell(f) /\ Hears(c, f)
    BY DEF Closable
  <2>1. o.c = [c EXCEPT !.wav = ClosedWav] /\ o.f = [f EXCEPT !.audio.declared = c.wav.frames]
    BY <1>2 DEF WavClosed, Outcome
  <2>2. CaptureFormed(o.c) /\ o.c.iq = c.iq /\ ~o.c.wav.open
    <3>1. /\ ClosedWav \in [open : BOOLEAN, rate : AudioRate \cup {0}, frames : Nat] /\ ~ClosedWav.open
      BY DEF ClosedWav
    <3>2. QED
      BY <2>0, <2>1, <3>1 DEF CaptureFormed
  <2>3. /\ f.audio \in [kind : {"wav"}, rate : AudioRate, declared : Nat, held : Seq(AudioRate)]
        /\ Len(f.audio.held) = c.wav.frames /\ c.wav.frames \in Nat
    BY <1>2, <2>0 DEF FilesTell, Hears, CaptureFormed
  <2> DEFINE sound == [f.audio EXCEPT !.declared = c.wav.frames]
  <2>4. /\ sound \in [kind : {"wav"}, rate : AudioRate, declared : Nat, held : Seq(AudioRate)]
        /\ sound.declared = Len(sound.held) /\ sound.kind = "wav"
    BY <2>3
  <2>5. o.f = [f EXCEPT !.audio = sound]
    BY <2>0, <2>1 DEF FilesTell
  <2> HIDE DEF sound
  <2>6. /\ o.f \in [data : Seq(Centers), sidecar : {o.f.sidecar}, audio : {o.f.audio}, orderly : BOOLEAN]
        /\ o.f.data = f.data /\ o.f.sidecar = f.sidecar /\ o.f.orderly = f.orderly /\ o.f.audio = sound
    BY <2>0, <2>5 DEF FilesTell
  <2>7. FilesTell(o.f)
    BY <2>0, <2>4, <2>6 DEF FilesTell
  <2>8. o.c.iq.open => Describes(o.c.iq, o.f)
    BY <2>2, <2>6 DEF Closable, Describes
  <2>9. QED
    BY <2>2, <2>7, <2>8 DEF Closable, Hears
<1>3. QED
  BY <1>1, <1>2

(* finishDebugCapture() *)
LEMMA EndedIs ==
  ASSUME NEW c, NEW f, Closable(c, f), NEW o \in CaptureEnded(c, f)
  PROVE  Captures(o.c, o.f) /\ ~o.c.active
<1> DEFINE wav == WavClosed(c, f)
<1>1. Closable(wav.c, wav.f) /\ ~wav.c.wav.open
  BY WavClosedIs
<1> HIDE DEF wav
<1>2. PICK i \in IqClosed(wav.c, wav.f) :
        o = Outcome([i.c EXCEPT !.active = FALSE, !.pending = FALSE], i.f)
  BY DEF CaptureEnded, wav
<1>3. Closable(i.c, i.f) /\ ~i.c.iq.open /\ i.c.wav = wav.c.wav
  BY <1>1, <1>2, IqClosedIs
<1>4. /\ o.f = i.f /\ CaptureFormed(o.c) /\ o.c.iq = i.c.iq /\ o.c.wav = i.c.wav
      /\ ~o.c.active /\ ~o.c.pending
  BY <1>2, <1>3 DEF Outcome, CaptureFormed, Closable
<1>5. QED
  BY <1>1, <1>3, <1>4 DEF Captures, Closable, Hears

-----------------------------------------------------------------------------
(* A writer that was just opened, or has written.                          *)
Receives(w, f, center) ==
  /\ ~w.stopped /\ w.written = Len(f.data) /\ w.written < MostSamples
  /\ \/ \A k \in 1..Len(w.segments) : w.segments[k].start < Len(f.data)
     \/ Len(w.segments) = 1 /\ Len(f.data) = 0 /\ w.segments[1].center = center
IqBlocks == [iq : {TRUE}, rate : IqRates, center : Centers, count : BlockSizes]

(* The segment of an opening tells of no samples yet.                      *)
LEMMA FirstSegment ==
  ASSUME NEW center \in Centers, NEW segments, segments = <<[start |-> 0, center |-> center]>>
  PROVE  /\ Marks(segments, <<>>) /\ TellsOf(segments, <<>>)
         /\ Len(segments) = 1 /\ segments[1].center = center /\ segments = <<segments[1]>>
<1>1. /\ segments \in SegmentList /\ segments # <<>> /\ Len(segments) = 1
      /\ segments[1].start = 0 /\ segments[1].center = center
  BY DEF SegmentList
<1>2. Marks(segments, <<>>) /\ TellsOf(segments, <<>>)
  BY <1>1 DEF Marks, TellsOf
<1>3. QED
  BY <1>1, <1>2

(* The data file is cut, whatever became of its sidecar.                   *)
Emptied(f, sidecar) == [f EXCEPT !.data = <<>>, !.sidecar = sidecar, !.orderly = FALSE]

(* Such a folder tells, of no samples.                                     *)
LEMMA EmptiedTells ==
  ASSUME NEW f, FilesTell(f), NEW sidecar,
         sidecar.kind = "whole" => sidecar = f.sidecar \/ Marks(sidecar.segments, <<>>),
         NEW g, g = Emptied(f, sidecar)
  PROVE  FilesTell(g) /\ g.audio = f.audio /\ g.data = <<>> /\ g.sidecar = sidecar /\ ~g.orderly
<1>1. <<>> \in Seq(Centers) /\ Len(<<>>) = 0
  BY EmptySeq
<1>2. /\ g \in [data : Seq(Centers), sidecar : {g.sidecar}, audio : {g.audio}, orderly : BOOLEAN]
      /\ g.audio = f.audio /\ g.data = <<>> /\ g.sidecar = sidecar /\ ~g.orderly
  BY <1>1 DEF FilesTell, Emptied
<1>3. ASSUME sidecar.kind = "whole"
      PROVE  Marks(sidecar.segments, <<>>)
  <2>1. CASE sidecar = f.sidecar
    <3>1. Marks(f.sidecar.segments, f.data) /\ f.data \in Seq(Centers)
      BY <1>3, <2>1 DEF FilesTell
    <3>2. Len(f.data) \in Nat
      BY <3>1, LenProperties
    <3>3. QED
      BY <1>1, <2>1, <3>1, <3>2, LessIsMarked
  <2>2. QED
    BY <1>3, <2>1
<1>4. QED
  BY <1>2, <1>3 DEF FilesTell

Began(center, rate) ==
  [ClosedIq EXCEPT !.open = TRUE, !.rate = rate, !.segments = <<[start |-> 0, center |-> center]>>]

(* open(): a writer with one segment, of nothing written.                   *)
LEMMA BeganIs ==
  ASSUME NEW center \in Centers, NEW rate \in IqRates, NEW w, w = Began(center, rate)
  PROVE  /\ w \in IqMembers
         /\ w.open /\ ~w.stopped /\ w.written = 0 /\ w.segments = <<[start |-> 0, center |-> center]>>
<1>1. <<[start |-> 0, center |-> center]>> \in SegmentList
  BY FirstSegment DEF Marks
<1>2. QED
  BY <1>1 DEF Began, ClosedIq, IqMembers

(* open(): the writer's fields, then pending_.                            *)
Opening(c, w) == [c EXCEPT !.iq = w, !.pending = FALSE]

(* The worker with its writer opened, and pending no more.                 *)
LEMMA OpeningIs ==
  ASSUME NEW c, CaptureFormed(c), NEW w, NEW d, d = Opening(c, w)
  PROVE  /\ d.iq = w /\ (d.active <=> c.active) /\ ~d.pending
         /\ d.wav = c.wav /\ (d.audioFailed <=> c.audioFailed)
         /\ w \in IqMembers => CaptureFormed(d)
  BY DEF CaptureFormed, Opening

(* The outcomes of open(), named.                                          *)
LEMMA IqOpenings ==
  ASSUME NEW c, NEW f, FilesTell(f), NEW block, NEW o \in IqOpened(c, f, block),
         NEW w, w = Began(block.center, block.rate)
  PROVE  \/ o.ok /\ o.c = Opening(c, w) /\ o.f = Emptied(f, Recording(w))
         \/ ~o.ok /\ o.c = c /\ (o.f = f \/ \E sidecar \in Sidecars(w, f) : o.f = Emptied(f, sidecar))
<1> DEFINE cut == [f EXCEPT !.data = <<>>, !.orderly = FALSE]
           placed(s) == [cut EXCEPT !.sidecar = s]
<1>1. \A s : placed(s) = Emptied(f, s)
  BY DEF FilesTell, Emptied
<1>2. o \in {[ok |-> TRUE, c |-> Opening(c, w), f |-> placed(Recording(w))]}
           \cup {[ok |-> FALSE, c |-> c, f |-> g] : g \in {f} \cup {placed(s) : s \in Sidecars(w, f)}}
  BY DEF IqOpened, Opening, Began
<1> HIDE DEF placed
<1>3. CASE o \in {[ok |-> TRUE, c |-> Opening(c, w), f |-> placed(Recording(w))]}
  BY <1>1, <1>3
<1>4. CASE o \in {[ok |-> FALSE, c |-> c, f |-> g] : g \in {f} \cup {placed(s) : s \in Sidecars(w, f)}}
  <2>1. PICK g \in {f} \cup {placed(s) : s \in Sidecars(w, f)} : o = [ok |-> FALSE, c |-> c, f |-> g]
    BY <1>4
  <2>2. ~o.ok /\ o.c = c /\ o.f = g
    BY <2>1
  <2>3. QED
    BY <1>1, <2>1, <2>2
<1>5. QED
  BY <1>2, <1>3, <1>4

(* open(): what it leaves can be closed, and receives if it succeeded.     *)
LEMMA IqOpenedIs ==
  ASSUME NEW c, NEW f, Captures(c, f), c.pending, NEW block \in IqBlocks, NEW o \in IqOpened(c, f, block)
  PROVE  /\ Closable(o.c, o.f)
         /\ o.ok => /\ o.c.active /\ ~o.c.pending /\ o.c.iq.open /\ ~o.c.wav.open
                    /\ Receives(o.c.iq, o.f, block.center)
<1> DEFINE w == Began(block.center, block.rate)
<1>0. /\ CaptureFormed(c) /\ FilesTell(f) /\ Hears(c, f) /\ ~c.iq.open /\ ~c.wav.open /\ c.active
      /\ block.center \in Centers /\ block.rate \in IqRates
  BY DEF Captures, Closable, IqBlocks
<1>1. /\ w \in IqMembers
      /\ w.open /\ ~w.stopped /\ w.written = 0 /\ w.segments = <<[start |-> 0, center |-> block.center]>>
  BY <1>0, BeganIs
<1>5. \/ o.ok /\ o.c = Opening(c, w) /\ o.f = Emptied(f, Recording(w))
      \/ ~o.ok /\ o.c = c /\ (o.f = f \/ \E sidecar \in Sidecars(w, f) : o.f = Emptied(f, sidecar))
  BY <1>0, IqOpenings
<1> HIDE DEF w
<1>2. /\ Marks(w.segments, <<>>) /\ TellsOf(w.segments, <<>>)
      /\ Len(w.segments) = 1 /\ w.segments[1].center = block.center /\ w.segments = <<w.segments[1]>>
  BY <1>0, <1>1, FirstSegment
<1>3. Recording(w).kind = "whole" /\ Recording(w).segments = w.segments /\ CutSidecar.kind # "whole"
  BY DEF Recording, CutSidecar
<1>4. ASSUME NEW sidecar \in Sidecars(w, f), NEW g, g = Emptied(f, sidecar)
      PROVE  FilesTell(g) /\ g.audio = f.audio /\ g.data = <<>> /\ g.sidecar = sidecar /\ ~g.orderly
  <2>1. sidecar.kind = "whole" => sidecar = f.sidecar \/ Marks(sidecar.segments, <<>>)
    BY <1>2, <1>3 DEF Sidecars
  <2>2. QED
    <3>1. FilesTell(f) /\ g = Emptied(f, sidecar)
      BY <1>0, <1>4
    <3>2. QED
      BY <2>1, <3>1, EmptiedTells
<1>6. CASE ~o.ok
  BY <1>0, <1>4, <1>5, <1>6 DEF Closable, Hears
<1>7. CASE o.ok
  <2>2. o.c = Opening(c, w) /\ o.f = Emptied(f, Recording(w))
    BY <1>5, <1>7
  <2>3. /\ CaptureFormed(o.c) /\ o.c.iq = w /\ (o.c.active <=> c.active) /\ o.c.wav = c.wav
        /\ ~o.c.pending
    BY <1>0, <1>1, <2>2, OpeningIs
  <2>4. Recording(w) \in Sidecars(w, f)
    BY DEF Sidecars
  <2>5. /\ FilesTell(o.f) /\ o.f.audio = f.audio /\ o.f.data = <<>> /\ o.f.sidecar = Recording(w)
        /\ ~o.f.orderly
    BY <1>4, <2>2, <2>4
  <2>6. Describes(w, o.f)
    BY <1>2, <1>3, <2>5 DEF Describes
  <2>7. Len(o.f.data) = 0
    BY <2>5, EmptySeq
  <2>8. Receives(w, o.f, block.center)
    BY <1>1, <1>2, <2>7, CaptureBounds DEF Receives
  <2>9. QED
    BY <1>0, <1>1, <2>3, <2>5, <2>6, <2>8 DEF Closable, Hears
<1>8. QED
  BY <1>5, <1>6, <1>7

-----------------------------------------------------------------------------
(* writeBlock(): a writer that has its retune, and samples of the block.   *)
LEMMA WrittenIs ==
  ASSUME NEW c, NEW f, Closable(c, f), c.iq.open, NEW center \in Centers, Receives(c.iq, f, center),
         NEW n \in Nat, NEW w, w \in IqMembers, w.segments = Marked(c.iq.segments, f.data, center),
         NEW g, g = Received(f, center, n)
  PROVE  /\ Closable(WithIq(c, w), g)
         /\ Len(g.data) = Len(f.data) + n /\ Len(f.data) \in Nat
         /\ w.segments[Len(w.segments)].start <= Len(f.data)
<1>1. CaptureFormed(c) /\ FilesTell(f) /\ Hears(c, f) /\ Describes(c.iq, f)
  BY DEF Closable
<1>2. /\ g \in [data : Seq(Centers), sidecar : {g.sidecar}, audio : {g.audio}, orderly : BOOLEAN]
      /\ g.sidecar = f.sidecar /\ g.audio = f.audio /\ g.orderly = f.orderly
      /\ Len(g.data) = Len(f.data) + n
      /\ \A i \in 1..Len(f.data) : g.data[i] = f.data[i]
      /\ \A i \in Len(f.data) + 1..Len(g.data) : g.data[i] = center
  <2>1. Extends(g, f, center, n)
    BY <1>1, ReceivedIs
  <2>2. QED
    BY <2>1 DEF Extends
<1>3. Len(f.data) \in Nat /\ Len(g.data) \in Nat /\ Len(g.data) >= Len(f.data)
  <2>1. f.data \in Seq(Centers)
    BY <1>1 DEF FilesTell
  <2>2. QED
    BY <1>2, <2>1, LenProperties
<1> DEFINE old == f.data
           new == g.data
           had == c.iq.segments
           told == w.segments
<1>4. Marks(had, old) /\ TellsOf(had, old) /\ f.sidecar.segments = <<had[1]>>
      /\ ~f.orderly /\ f.sidecar.kind = "whole"
  BY <1>1 DEF Describes
<1>5. \/ \A k \in 1..Len(had) : had[k].start < Len(old)
      \/ Len(had) = 1 /\ Len(old) = 0 /\ had[1].center = center
  BY DEF Receives
<1>6. /\ Len(old) \in Nat /\ Len(new) \in Nat /\ Len(new) >= Len(old) /\ told = Marked(had, old, center)
      /\ \A i \in 1..Len(old) : new[i] = old[i]
      /\ \A i \in Len(old) + 1..Len(new) : new[i] = center
  BY <1>2, <1>3
<1> HIDE DEF old, new, had, told
<1>7. /\ Marks(told, new) /\ TellsOf(told, new) /\ told[1] = had[1]
      /\ told[Len(told)].start <= Len(old)
  BY <1>4, <1>5, <1>6, RetuneIsMarked
<1>8. Marks(<<told[1]>>, new)
  BY <1>7, FirstIsMarked
<1>9. FilesTell(g)
  <2>1. g.sidecar.kind = "whole" /\ g.sidecar.segments = <<told[1]>> /\ ~g.orderly
    BY <1>2, <1>4, <1>7
  <2>2. Marks(g.sidecar.segments, g.data)
    BY <1>8, <2>1 DEF new
  <2>3. g.audio.kind = "wav" =>
          /\ g.audio \in [kind : {"wav"}, rate : AudioRate, declared : Nat, held : Seq(AudioRate)]
          /\ g.audio.declared \in {0, Len(g.audio.held)}
    BY <1>1, <1>2 DEF FilesTell
  <2>4. QED
    BY <1>2, <2>1, <2>2, <2>3 DEF FilesTell
<1>10. Describes(w, g)
  BY <1>2, <1>4, <1>7 DEF Describes, told, new
<1> DEFINE d == WithIq(c, w)
<1>11. CaptureFormed(d) /\ d.iq = w /\ d.wav = c.wav
  BY <1>1, WithIqIs
<1> HIDE DEF d
<1>12. Closable(d, g)
  BY <1>1, <1>2, <1>9, <1>10, <1>11 DEF Closable, Hears
<1>13. QED
  BY <1>2, <1>3, <1>7, <1>12 DEF d, old, told

(* The retune of a writer is that of its segments.                         *)
LEMMA RetunedIs ==
  ASSUME NEW w, w \in IqMembers, NEW data, w.written = Len(data), NEW block, block.center \in Centers,
         NEW r, r = Retuned(w, block)
  PROVE  /\ r \in IqMembers /\ r.segments = Marked(w.segments, data, block.center)
         /\ (r.open <=> w.open) /\ (r.stopped <=> w.stopped) /\ r.rate = w.rate /\ r.written = w.written
<1> DEFINE segment == [start |-> w.written, center |-> block.center]
           longer == Append(w.segments, segment)
<1>1. /\ w.segments \in SegmentList /\ segment \in [start : Nat, center : Centers]
  BY DEF IqMembers
<1>2. longer \in SegmentList
  <2> HIDE DEF segment
  <2>1. QED
    BY <1>1, AppendProperties DEF SegmentList
<1>3. r = [w EXCEPT !.segments = longer] \/ r = w
  BY DEF Retuned
<1>4. IF block.center # w.segments[Len(w.segments)].center /\ Len(w.segments) < MostSegments
        THEN r = [w EXCEPT !.segments = longer] ELSE r = w
  BY DEF Retuned, IqMembers
<1>5. Marked(w.segments, data, block.center) =
        IF block.center # w.segments[Len(w.segments)].center /\ Len(w.segments) < MostSegments
          THEN longer ELSE w.segments
  BY DEF Marked
<1> HIDE DEF longer
<1>6. QED
  BY <1>2, <1>4, <1>5 DEF IqMembers

Halted(r, written) == [r EXCEPT !.written = written, !.stopped = TRUE]
GoneOn(r, written) == [r EXCEPT !.written = written, !.stopped = FALSE]

(* A writer that stopped keeps its segments.                                *)
LEMMA HaltedIs ==
  ASSUME NEW r, r \in IqMembers, NEW written \in Nat, NEW w, w = Halted(r, written)
  PROVE  w \in IqMembers /\ w.segments = r.segments /\ (w.open <=> r.open) /\ w.written = written
  BY DEF Halted, IqMembers

(* And so does one that goes on.                                           *)
LEMMA GoneOnIs ==
  ASSUME NEW r, r \in IqMembers, NEW written \in Nat, NEW w, w = GoneOn(r, written)
  PROVE  /\ w \in IqMembers /\ w.segments = r.segments /\ (w.open <=> r.open) /\ w.written = written
         /\ ~w.stopped
  BY DEF GoneOn, IqMembers

(* What writeBlock() may leave, with its retune named.                     *)
LEMMA IqWritings ==
  ASSUME NEW c, NEW f, CaptureFormed(c), c.iq.written = Len(f.data), c.iq.written < MostSamples,
         NEW block \in IqBlocks, NEW o \in IqWritten(c, f, block), NEW r, r = Retuned(c.iq, block)
  PROVE  \/ ~o.ok /\ o.c = WithIq(c, Halted(c.iq, c.iq.written)) /\ o.f = f
         \/ \E n \in Nat :
              /\ n > 0 /\ c.iq.written + n < MostSamples
              /\ o.c = WithIq(c, GoneOn(r, c.iq.written + n)) /\ o.f = Received(f, block.center, n)
         \/ \E n, m \in Nat :
              ~o.ok /\ o.c = WithIq(c, Halted(r, m)) /\ o.f = Received(f, block.center, n)
<1>0. /\ c.iq \in IqMembers /\ c.iq.written \in Nat /\ block.center \in Centers
      /\ block.count \in Nat /\ block.count > 0 /\ MostSamples \in Nat
  BY CaptureBounds DEF CaptureFormed, IqMembers, IqBlocks
<1>1. r \in IqMembers /\ r.written = c.iq.written
  <2> DEFINE retuned == Retuned(c.iq, block)
             w == c.iq
             data == f.data
  <2>3. w \in IqMembers /\ w.written = Len(data) /\ retuned = Retuned(w, block) /\ block.center \in Centers
    BY <1>0
  <2> HIDE DEF w, data, retuned
  <2>4. retuned \in IqMembers /\ retuned.written = w.written
    BY <2>3, RetunedIs
  <2>1. retuned \in IqMembers /\ retuned.written = c.iq.written
    BY <2>4 DEF w
  <2>2. QED
    BY <2>1 DEF retuned
<1> DEFINE room == MostSamples - r.written
           n == IF block.count < room THEN block.count ELSE room
           ended == r.written + n >= MostSamples
<1>2. /\ n \in Nat /\ n > 0 /\ (~ended => c.iq.written + n < MostSamples) /\ ended \in BOOLEAN
  BY <1>0, <1>1
<1>3. IF block.rate # c.iq.rate
        THEN o \in {[ok |-> FALSE, c |-> [c EXCEPT !.iq.stopped = TRUE], f |-> f]}
        ELSE \/ o \in {[ok |-> ~ended, c |-> [c EXCEPT !.iq = [r EXCEPT !.written = @ + n, !.stopped = ended]],
                        f |-> Received(f, block.center, n)]}
             \/ o \in {[ok |-> FALSE, c |-> [c EXCEPT !.iq = [r EXCEPT !.stopped = TRUE]],
                        f |-> Received(f, block.center, k)] : k \in 0..n}
  BY DEF IqWritten
<1>4. /\ [c EXCEPT !.iq.stopped = TRUE] = WithIq(c, Halted(c.iq, c.iq.written))
      /\ [c EXCEPT !.iq = [r EXCEPT !.stopped = TRUE]] = WithIq(c, Halted(r, r.written))
  BY <1>0, <1>1 DEF CaptureFormed, WithIq, Halted, IqMembers
<1> HIDE DEF n, ended
<1>5. /\ ended => [c EXCEPT !.iq = [r EXCEPT !.written = @ + n, !.stopped = ended]] = WithIq(c, Halted(r, r.written + n))
      /\ ~ended => [c EXCEPT !.iq = [r EXCEPT !.written = @ + n, !.stopped = ended]] = WithIq(c, GoneOn(r, r.written + n))
  <2>1. (ended => ended = TRUE) /\ (~ended => ended = FALSE)
    BY <1>2
  <2>2. ended = TRUE => [c EXCEPT !.iq = [r EXCEPT !.written = @ + n, !.stopped = ended]] = WithIq(c, Halted(r, r.written + n))
    BY Zenon DEF WithIq, Halted
  <2>3. ended = FALSE => [c EXCEPT !.iq = [r EXCEPT !.written = @ + n, !.stopped = ended]] = WithIq(c, GoneOn(r, r.written + n))
    BY Zenon DEF WithIq, GoneOn
  <2>4. QED
    BY <2>1, <2>2, <2>3
<1>6. CASE block.rate # c.iq.rate
  <2>1. o = [ok |-> FALSE, c |-> WithIq(c, Halted(c.iq, c.iq.written)), f |-> f]
    BY <1>3, <1>4, <1>6
  <2>2. QED
    BY <2>1
<1>7. CASE o \in {[ok |-> ~ended, c |-> [c EXCEPT !.iq = [r EXCEPT !.written = @ + n, !.stopped = ended]],
                   f |-> Received(f, block.center, n)]}
  <2>1. CASE ended
    <3>1. ~o.ok
      <4> DEFINE left == [c EXCEPT !.iq = [r EXCEPT !.written = @ + n, !.stopped = ended]]
                 after == Received(f, block.center, n)
      <4>1. o = [ok |-> ~ended, c |-> left, f |-> after]
        BY <1>7, Zenon
      <4> HIDE DEF left, after
      <4>2. QED
        BY <2>1, <4>1
    <3>4. o.c = WithIq(c, Halted(r, r.written + n)) /\ o.f = Received(f, block.center, n)
      BY <1>5, <1>7, <2>1
    <3>2. r.written + n \in Nat
      BY <1>0, <1>1, <1>2
    <3>3. QED
      BY <3>1, <3>2, <3>4, <1>2
  <2>2. CASE ~ended
    <3>1. o.c = WithIq(c, GoneOn(r, c.iq.written + n)) /\ o.f = Received(f, block.center, n)
      BY <1>1, <1>5, <1>7, <2>2
    <3>2. QED
      BY <1>2, <2>2, <3>1
  <2>3. QED
    BY <2>1, <2>2
<1>8. CASE o \in {[ok |-> FALSE, c |-> [c EXCEPT !.iq = [r EXCEPT !.stopped = TRUE]],
                   f |-> Received(f, block.center, k)] : k \in 0..n}
  <2>1. PICK k \in 0..n : o = [ok |-> FALSE, c |-> WithIq(c, Halted(r, r.written)),
                               f |-> Received(f, block.center, k)]
    BY <1>4, <1>8
  <2>2. k \in Nat /\ r.written \in Nat
    BY <1>0, <1>1, <1>2
  <2>3. QED
    BY <2>1, <2>2
<1>9. QED
  BY <1>3, <1>6, <1>7, <1>8

(* writeBlock(): what it leaves can be closed, and goes on if it may.      *)
LEMMA IqWrittenIs ==
  ASSUME NEW c, NEW f, Closable(c, f), c.active, ~c.pending, c.iq.open, NEW block \in IqBlocks,
         Receives(c.iq, f, block.center), NEW o \in IqWritten(c, f, block)
  PROVE  Closable(o.c, o.f) /\ (o.ok => Captures(o.c, o.f))
<1>0. /\ CaptureFormed(c) /\ c.iq \in IqMembers /\ c.iq.written = Len(f.data) /\ c.iq.written < MostSamples
      /\ c.iq.written \in Nat /\ block.center \in Centers /\ Describes(c.iq, f) /\ FilesTell(f) /\ Hears(c, f)
  BY DEF Closable, CaptureFormed, Receives, IqMembers, IqBlocks
<1> DEFINE r == Retuned(c.iq, block)
<1>1. r \in IqMembers /\ r.segments = Marked(c.iq.segments, f.data, block.center) /\ r.open
  BY <1>0, RetunedIs
<1>2. \/ ~o.ok /\ o.c = WithIq(c, Halted(c.iq, c.iq.written)) /\ o.f = f
      \/ \E n \in Nat :
           /\ n > 0 /\ c.iq.written + n < MostSamples
           /\ o.c = WithIq(c, GoneOn(r, c.iq.written + n)) /\ o.f = Received(f, block.center, n)
      \/ \E n, m \in Nat :
           ~o.ok /\ o.c = WithIq(c, Halted(r, m)) /\ o.f = Received(f, block.center, n)
  BY <1>0, IqWritings
<1> HIDE DEF r
<1>3. CASE ~o.ok /\ o.c = WithIq(c, Halted(c.iq, c.iq.written)) /\ o.f = f
  <2> DEFINE w == Halted(c.iq, c.iq.written)
  <2>1. w \in IqMembers /\ w.segments = c.iq.segments
    BY <1>0, HaltedIs
  <2>2. o.c = WithIq(c, w)
    BY <1>3
  <2> HIDE DEF w
  <2>3. CaptureFormed(o.c) /\ o.c.iq = w /\ o.c.wav = c.wav
    BY <1>0, <2>1, <2>2, WithIqIs
  <2>4. Describes(w, f)
    BY <1>0, <2>1 DEF Describes
  <2>5. QED
    BY <1>0, <1>3, <2>3, <2>4 DEF Closable, Hears
<1>4. ASSUME NEW n \in Nat, n > 0, c.iq.written + n < MostSamples,
             o.c = WithIq(c, GoneOn(r, c.iq.written + n)), o.f = Received(f, block.center, n)
      PROVE  Captures(o.c, o.f)
  <2> DEFINE m == c.iq.written + n
             w == GoneOn(r, m)
  <2>0. m \in Nat /\ m = c.iq.written + n /\ w = GoneOn(r, m)
    BY <1>0
  <2> HIDE DEF m
  <2>a. w = GoneOn(r, m) /\ m \in Nat
    BY <2>0
  <2> HIDE DEF w
  <2>b. /\ w \in IqMembers /\ w.segments = r.segments /\ (w.open <=> r.open) /\ w.written = m
        /\ ~w.stopped
    BY <1>1, <2>a, GoneOnIs
  <2>1. /\ w \in IqMembers /\ w.segments = r.segments /\ w.open /\ w.written = m /\ ~w.stopped
    BY <1>1, <2>b
  <2>2. o.c = WithIq(c, w)
    BY <1>4, <2>0
  <2> HIDE DEF w
  <2>3. w.segments = Marked(c.iq.segments, f.data, block.center)
    BY <1>1, <2>1
  <2>4. /\ Closable(WithIq(c, w), o.f) /\ Len(o.f.data) = Len(f.data) + n /\ Len(f.data) \in Nat
        /\ w.segments[Len(w.segments)].start <= Len(f.data)
    BY <1>0, <1>4, <2>1, <2>3, WrittenIs
  <2>5. o.c.iq = w /\ (o.c.active <=> c.active) /\ (o.c.pending <=> c.pending)
    BY <1>0, <2>2, WithIqIs
  <2>6. Writes(w, o.f)
    <3>1. Marks(w.segments, o.f.data)
      BY <2>1, <2>2, <2>4, <2>5 DEF Closable, Describes
    <3>2. w.segments[Len(w.segments)].start \in Nat
      BY <3>1, SegmentsAre DEF Marks
    <3>3. QED
      BY <1>0, <1>4, <2>0, <2>1, <2>4, <3>2 DEF Writes
  <2>7. QED
    BY <2>1, <2>2, <2>4, <2>5, <2>6 DEF Captures
<1>5. ASSUME NEW n \in Nat, NEW m \in Nat, ~o.ok, o.c = WithIq(c, Halted(r, m)), o.f = Received(f, block.center, n)
      PROVE  Closable(o.c, o.f)
  <2> DEFINE w == Halted(r, m)
  <2>1. w \in IqMembers /\ w.segments = Marked(c.iq.segments, f.data, block.center)
    BY <1>1, HaltedIs
  <2>2. o.c = WithIq(c, w)
    BY <1>5
  <2> HIDE DEF w
  <2>3. Closable(WithIq(c, w), o.f)
    BY <1>0, <1>5, <2>1, WrittenIs
  <2>4. QED
    BY <2>2, <2>3
<1>6. QED
  BY <1>2, <1>3, <1>4, <1>5 DEF Captures

(* The audio of a folder changes; the recording beside it does not.        *)
AudioFiles == [kind : {"wav"}, rate : AudioRate, declared : Nat, held : Seq(AudioRate)]
WithAudio(f, sound) == [f EXCEPT !.audio = sound]

(* A folder whose audio is of the right form tells of as much as before.   *)
LEMMA AudioTells ==
  ASSUME NEW f, FilesTell(f), NEW sound, sound \in AudioFiles, sound.declared \in {0, Len(sound.held)},
         NEW g, g = WithAudio(f, sound)
  PROVE  /\ FilesTell(g) /\ g.audio = sound /\ g.data = f.data /\ g.sidecar = f.sidecar
         /\ (g.orderly <=> f.orderly)
<1>1. /\ g \in [data : Seq(Centers), sidecar : {g.sidecar}, audio : {g.audio}, orderly : BOOLEAN]
      /\ g.audio = sound /\ g.data = f.data /\ g.sidecar = f.sidecar
      /\ (g.orderly <=> f.orderly)
  BY DEF FilesTell, WithAudio
<1>2. QED
  BY <1>1 DEF FilesTell, AudioFiles

(* The iq of a worker, and what it recorded, is as it was.                 *)
LEMMA AudioCaptures ==
  ASSUME NEW c, NEW f, Captures(c, f), NEW d, CaptureFormed(d), d.iq = c.iq, NEW g, FilesTell(g),
         g.data = f.data, g.sidecar = f.sidecar, g.orderly <=> f.orderly,
         d.wav.open, d.active, ~d.pending, Hears(d, g)
  PROVE  Captures(d, g)
<1>1. d.iq.open => Describes(d.iq, g) /\ Writes(d.iq, g)
  BY DEF Captures, Closable, Describes, Writes
<1>2. QED
  BY <1>1 DEF Captures, Closable

OpenWav(rate) == [open |-> TRUE, rate |-> rate, frames |-> 0]
EmptyAudio(rate) == [kind |-> "wav", rate |-> rate, declared |-> 0, held |-> <<>>]
NowRecords(c, wav) == [c EXCEPT !.wav = wav, !.pending = FALSE]

(* The worker with its audio file open.                                    *)
LEMMA NowRecordsIs ==
  ASSUME NEW c, CaptureFormed(c), NEW wav \in [open : BOOLEAN, rate : AudioRate \cup {0}, frames : Nat],
         NEW d, d = NowRecords(c, wav)
  PROVE  /\ CaptureFormed(d) /\ d.wav = wav /\ d.iq = c.iq /\ ~d.pending /\ (d.active <=> c.active)
  BY DEF CaptureFormed, NowRecords

(* open() of the audio file, which may fail and leave nothing.             *)
LEMMA WavOpenedIs ==
  ASSUME NEW c, NEW f, Captures(c, f), c.active, NEW rate \in AudioRate, NEW o \in WavOpened(c, f, rate)
  PROVE  /\ Captures(o.c, o.f)
         /\ o.ok => o.c.active /\ ~o.c.pending /\ o.c.wav.open /\ o.c.iq = c.iq
<1>1. \/ o.ok /\ o.c = NowRecords(c, OpenWav(rate)) /\ o.f = WithAudio(f, EmptyAudio(rate))
      \/ ~o.ok /\ o.c = c /\ o.f = f
  BY DEF WavOpened, NowRecords, OpenWav, WithAudio, EmptyAudio
<1>2. CASE o.ok
  <2> DEFINE wav == OpenWav(rate)
             sound == EmptyAudio(rate)
  <2>1. wav \in [open : BOOLEAN, rate : AudioRate \cup {0}, frames : Nat] /\ wav.open /\ wav.frames = 0
    BY DEF OpenWav
  <2>2. /\ sound \in AudioFiles /\ sound.declared \in {0, Len(sound.held)} /\ sound.kind = "wav"
        /\ sound.declared = 0 /\ Len(sound.held) = 0
    BY EmptySeq DEF EmptyAudio, AudioFiles
  <2>3. o.c = NowRecords(c, wav) /\ o.f = WithAudio(f, sound)
    BY <1>1, <1>2
  <2> HIDE DEF wav, sound
  <2>4. CaptureFormed(c) /\ FilesTell(f)
    BY DEF Captures, Closable
  <2>5. CaptureFormed(o.c) /\ o.c.wav = wav /\ o.c.iq = c.iq /\ ~o.c.pending /\ (o.c.active <=> c.active)
    BY <2>1, <2>3, <2>4, NowRecordsIs
  <2>6. /\ FilesTell(o.f) /\ o.f.audio = sound /\ o.f.data = f.data /\ o.f.sidecar = f.sidecar
        /\ (o.f.orderly <=> f.orderly)
    BY <2>2, <2>3, <2>4, AudioTells
  <2>7. Hears(o.c, o.f)
    BY <2>1, <2>2, <2>5, <2>6 DEF Hears
  <2>8. QED
    BY <2>1, <2>5, <2>6, <2>7, AudioCaptures
<1>3. QED
  BY <1>1, <1>2

(* write(): a block more is held, and counted.                             *)
LEMMA WavWrittenIs ==
  ASSUME NEW c, NEW f, Captures(c, f), c.active, c.wav.open, NEW rate \in AudioRate,
         NEW w, w = WavWritten(c, f, rate)
  PROVE  Captures(w.c, w.f)
<1>1. CASE c.wav.frames >= MostAudioBlocks
  BY <1>1 DEF WavWritten
<1>2. CASE ~(c.wav.frames >= MostAudioBlocks)
  <2>0. CaptureFormed(c) /\ FilesTell(f) /\ Hears(c, f) /\ ~c.pending
    BY DEF Captures, Closable
  <2>1. w.c = [c EXCEPT !.wav.frames = @ + 1] /\ w.f = [f EXCEPT !.audio.held = Append(@, rate)]
    BY <1>2 DEF WavWritten
  <2>2. /\ f.audio \in AudioFiles /\ Len(f.audio.held) = c.wav.frames /\ f.audio.declared = 0
        /\ f.audio.held \in Seq(AudioRate) /\ c.wav.frames \in Nat
    BY <2>0 DEF FilesTell, Hears, CaptureFormed, AudioFiles
  <2> DEFINE held == Append(f.audio.held, rate)
             sound == [f.audio EXCEPT !.held = held]
  <2>3. held \in Seq(AudioRate) /\ Len(held) = c.wav.frames + 1
    BY <2>2, AppendProperties
  <2>5. w.f = WithAudio(f, sound)
    BY <2>0, <2>1, <2>2 DEF FilesTell, AudioFiles, WithAudio
  <2> HIDE DEF held
  <2>4. /\ sound \in AudioFiles /\ sound.declared = 0 /\ Len(sound.held) = c.wav.frames + 1 /\ sound.kind = "wav"
        /\ sound.declared \in {0, Len(sound.held)}
    BY <2>2, <2>3 DEF AudioFiles
  <2> HIDE DEF sound
  <2>6. /\ FilesTell(w.f) /\ w.f.audio = sound /\ w.f.data = f.data /\ w.f.sidecar = f.sidecar
        /\ (w.f.orderly <=> f.orderly)
    BY <2>0, <2>4, <2>5, AudioTells
  <2>7. /\ CaptureFormed(w.c) /\ w.c.iq = c.iq /\ ~w.c.pending /\ (w.c.active <=> c.active)
        /\ w.c.wav.open /\ w.c.wav.frames = c.wav.frames + 1
    BY <2>0, <2>1, <2>2 DEF CaptureFormed
  <2>8. Hears(w.c, w.f)
    BY <2>4, <2>6, <2>7 DEF Hears
  <2>9. QED
    BY <2>6, <2>7, <2>8, AudioCaptures
<1>3. QED
  BY <1>1, <1>2

-----------------------------------------------------------------------------
(* A whole block of a capture.                                             *)
LEMMA WritesReceives ==
  ASSUME NEW w, NEW f, Describes(w, f), Writes(w, f), NEW center
  PROVE  Receives(w, f, center)
<1>1. \A k \in 1..Len(w.segments) : w.segments[k].start < Len(f.data)
  <2>1. /\ Marks(w.segments, f.data) /\ w.segments \in SegmentList
        /\ w.segments[Len(w.segments)].start < Len(f.data)
    BY DEF Describes, Writes, Marks
  <2>2. /\ Len(w.segments) \in Nat /\ Len(w.segments) >= 1
        /\ \A k \in 1..Len(w.segments) : w.segments[k].start \in Nat
    BY <2>1, SegmentsAre DEF Marks
  <2>3. \A k \in 1..Len(w.segments) : k # Len(w.segments) =>
          w.segments[k].start < w.segments[Len(w.segments)].start
    BY <2>1, <2>2 DEF Marks
  <2>4. QED
    BY <2>1, <2>2, <2>3 DEF Writes
<1>2. QED
  BY <1>1 DEF Writes, Receives

(* The first lines of captureBlock(): a file is open, or the capture ended. *)
LEMMA BegunIs ==
  ASSUME NEW c, NEW f, Captures(c, f), c.active, NEW block \in Blocks, NEW b \in Begun(c, f, block)
  PROVE  /\ Closable(b.c, b.f)
         /\ ~b.ok => Captures(b.c, b.f)
         /\ b.ok => /\ b.c.active /\ ~b.c.pending /\ (b.c.iq.open \/ b.c.wav.open)
                    /\ b.c.iq.open /\ block.iq => Receives(b.c.iq, b.f, block.center)
                    /\ ~b.c.iq.open => Captures(b.c, b.f)
<1>1. CASE ~c.pending
  <2>1. b.ok /\ b.c = c /\ b.f = f
    BY <1>1 DEF Begun
  <2>2. c.iq.open \/ c.wav.open
    BY <1>1 DEF Captures
  <2>3. c.iq.open => Receives(c.iq, f, block.center)
    BY WritesReceives DEF Captures, Closable
  <2>4. QED
    BY <1>1, <2>1, <2>2, <2>3 DEF Captures
<1>2. CASE c.pending
  <2>0. ~c.iq.open /\ ~c.wav.open
    BY <1>2 DEF Captures
  <2>1. PICK o \in IF block.iq THEN IqOpened(c, f, block) ELSE WavOpened(c, f, block.rate) :
          IF o.ok THEN b = o
          ELSE \E p \in CaptureEnded(o.c, o.f) : b = [ok |-> FALSE, c |-> p.c, f |-> p.f]
    BY <1>2 DEF Begun
  <2>2. /\ Closable(o.c, o.f)
        /\ o.ok => /\ o.c.active /\ ~o.c.pending /\ (o.c.iq.open \/ o.c.wav.open)
                   /\ o.c.iq.open => Receives(o.c.iq, o.f, block.center)
                   /\ ~o.c.iq.open => Captures(o.c, o.f)
    <3>1. CASE block.iq
      <4>1. block \in IqBlocks
        BY <3>1 DEF Blocks, IqBlocks
      <4>2. QED
        BY <1>2, <2>1, <3>1, <4>1, IqOpenedIs
    <3>2. CASE ~block.iq
      <4>1. block.rate \in AudioRate
        BY <3>2 DEF Blocks, AudioRate
      <4>2. /\ Captures(o.c, o.f)
            /\ o.ok => o.c.active /\ ~o.c.pending /\ o.c.wav.open /\ o.c.iq = c.iq
        BY <2>1, <3>2, <4>1, WavOpenedIs
      <4>3. QED
        BY <2>0, <4>2 DEF Captures
    <3>3. QED
      BY <3>1, <3>2
  <2>3. CASE o.ok
    BY <2>1, <2>2, <2>3
  <2>4. CASE ~o.ok
    <3>1. PICK p \in CaptureEnded(o.c, o.f) : b = [ok |-> FALSE, c |-> p.c, f |-> p.f]
      BY <2>1, <2>4
    <3>2. Captures(p.c, p.f)
      BY <2>2, EndedIs
    <3>3. ~b.ok /\ b.c = p.c /\ b.f = p.f
      BY <3>1
    <3>4. QED
      BY <3>2, <3>3 DEF Captures
  <2>5. QED
    BY <2>3, <2>4
<1>3. QED
  BY <1>1, <1>2

(* captureBlock(), however it ends.                                         *)
LEMMA CapturedIs ==
  ASSUME NEW c, NEW f, Captures(c, f), c.active, NEW block \in Blocks, NEW o \in Captured(c, f, block)
  PROVE  Captures(o.c, o.f)
<1>1. PICK b \in Begun(c, f, block) :
        o \in IF ~b.ok THEN {Outcome(b.c, b.f)}
              ELSE IF block.iq # b.c.iq.open THEN CaptureEnded(b.c, b.f)
              ELSE UNION {CaptureEnded(w.c, w.f) \cup (IF w.ok THEN {Outcome(w.c, w.f)} ELSE {}) :
                     w \in IF block.iq THEN IqWritten(b.c, b.f, block) ELSE {WavWritten(b.c, b.f, block.rate)}}
  BY DEF Captured
<1>2. /\ Closable(b.c, b.f)
      /\ ~b.ok => Captures(b.c, b.f)
      /\ b.ok => /\ b.c.active /\ ~b.c.pending /\ (b.c.iq.open \/ b.c.wav.open)
                 /\ b.c.iq.open /\ block.iq => Receives(b.c.iq, b.f, block.center)
                 /\ ~b.c.iq.open => Captures(b.c, b.f)
  BY BegunIs
<1>3. CASE ~b.ok
  BY <1>1, <1>2, <1>3 DEF Outcome
<1>4. CASE b.ok /\ ((block.iq /\ ~b.c.iq.open) \/ (~block.iq /\ b.c.iq.open))
  <2>1. block.iq \in BOOLEAN /\ b.c.iq.open \in BOOLEAN
    BY <1>2 DEF Blocks, Closable, CaptureFormed, IqMembers
  <2>2. o \in CaptureEnded(b.c, b.f)
    BY <1>1, <1>4, <2>1
  <2>3. QED
    BY <1>2, <2>2, EndedIs
<1>5. CASE b.ok /\ ((block.iq /\ b.c.iq.open) \/ (~block.iq /\ ~b.c.iq.open))
  <2>1. block.iq \in BOOLEAN /\ b.c.iq.open \in BOOLEAN
    BY <1>2 DEF Blocks, Closable, CaptureFormed, IqMembers
  <2>2. PICK w \in IF block.iq THEN IqWritten(b.c, b.f, block) ELSE {WavWritten(b.c, b.f, block.rate)} :
          o \in CaptureEnded(w.c, w.f) \/ (w.ok /\ o = Outcome(w.c, w.f))
    BY <1>1, <1>5, <2>1
  <2>3. Closable(w.c, w.f) /\ (w.ok => Captures(w.c, w.f))
    <3>1. CASE block.iq
      <4>1. block \in IqBlocks
        BY <3>1 DEF Blocks, IqBlocks
      <4>2. QED
        BY <1>2, <1>5, <2>2, <3>1, <4>1, IqWrittenIs
    <3>2. CASE ~block.iq
      <4>1. block.rate \in AudioRate
        BY <3>2 DEF Blocks, AudioRate
      <4>2. Captures(w.c, w.f)
        BY <1>2, <1>5, <2>2, <3>2, <4>1, WavWrittenIs
      <4>3. QED
        BY <4>2 DEF Captures
    <3>3. QED
      BY <3>1, <3>2
  <2>4. CASE o \in CaptureEnded(w.c, w.f)
    BY <2>3, <2>4, EndedIs
  <2>5. CASE w.ok /\ o = Outcome(w.c, w.f)
    BY <2>3, <2>5 DEF Outcome
  <2>6. QED
    BY <2>2, <2>4, <2>5
<1>6. QED
  BY <1>3, <1>4, <1>5

(* captureRegionAudio(), which may give up the audio alone.                *)
LEMMA RegionAudioIs ==
  ASSUME NEW c, NEW f, Captures(c, f), NEW rate \in AudioRate, NEW a \in RegionAudio(c, f, rate)
  PROVE  Captures(a.c, a.f)
<1>1. CASE ~c.active \/ c.audioFailed
  BY <1>1 DEF RegionAudio, Outcome
<1>2. CASE c.active /\ ~c.audioFailed
  <2>1. PICK o \in IF c.wav.open THEN {[ok |-> TRUE, c |-> c, f |-> f]} ELSE WavOpened(c, f, rate) :
          LET w == IF o.ok THEN WavWritten(o.c, o.f, rate) ELSE o
          IN  a = Outcome(IF w.ok THEN w.c ELSE [w.c EXCEPT !.audioFailed = TRUE], w.f)
    BY <1>2 DEF RegionAudio
  <2>2. Captures(o.c, o.f) /\ (o.ok => o.c.active /\ o.c.wav.open)
    <3>1. CASE c.wav.open
      BY <1>2, <2>1, <3>1
    <3>2. CASE ~c.wav.open
      BY <1>2, <2>1, <3>2, WavOpenedIs
    <3>3. QED
      BY <3>1, <3>2
  <2> DEFINE w == IF o.ok THEN WavWritten(o.c, o.f, rate) ELSE o
  <2>3. Captures(w.c, w.f)
    <3>1. CASE o.ok
      BY <2>2, <3>1, WavWrittenIs
    <3>2. CASE ~o.ok
      BY <2>2, <3>2
    <3>3. QED
      BY <3>1, <3>2
  <2>4. a.f = w.f /\ (a.c = w.c \/ a.c = [w.c EXCEPT !.audioFailed = TRUE])
    BY <2>1 DEF Outcome
  <2> HIDE DEF w
  <2>5. /\ CaptureFormed(a.c) /\ a.c.iq = w.c.iq /\ a.c.wav = w.c.wav
        /\ (a.c.active <=> w.c.active) /\ (a.c.pending <=> w.c.pending)
    BY <2>3, <2>4 DEF Captures, Closable, CaptureFormed
  <2>6. QED
    BY <2>3, <2>4, <2>5 DEF Captures, Closable, Hears
<1>3. QED
  BY <1>1, <1>2

(* startDebugCapture(), also over a capture that runs.                     *)
LEMMA StartCaptures ==
  ASSUME Captures(capture, files), StartDebugCapture
  PROVE  Captures(capture', files')
<1>1. PICK done \in IF capture.active THEN CaptureEnded(capture, files) ELSE {Outcome(capture, files)} :
        \/ Takes(done)
        \/ /\ capture' = [done.c EXCEPT !.active = TRUE, !.pending = TRUE, !.audioFailed = FALSE]
           /\ files' \in {done.f, NoFiles}
  BY DEF StartDebugCapture
<1>2. Captures(done.c, done.f) /\ ~done.c.active
  <2>1. CASE capture.active
    BY <1>1, <2>1, EndedIs DEF Captures
  <2>2. CASE ~capture.active
    BY <1>1, <2>2 DEF Outcome
  <2>3. QED
    BY <2>1, <2>2
<1>3. CASE Takes(done)
  BY <1>2, <1>3 DEF Takes
<1>4. CASE /\ capture' = [done.c EXCEPT !.active = TRUE, !.pending = TRUE, !.audioFailed = FALSE]
           /\ files' \in {done.f, NoFiles}
  <2>1. CaptureFormed(done.c) /\ ~done.c.iq.open /\ ~done.c.wav.open
    BY <1>2 DEF Captures, Closable
  <2>2. /\ CaptureFormed(capture') /\ capture'.active /\ capture'.pending
        /\ capture'.iq = done.c.iq /\ capture'.wav = done.c.wav
    BY <1>4, <2>1 DEF CaptureFormed
  <2>3. FilesTell(NoFiles)
    BY EmptySeq DEF FilesTell, NoFiles, NoSidecar, NoAudio
  <2>4. FilesTell(files')
    BY <1>2, <1>4, <2>3 DEF Captures, Closable
  <2>5. QED
    BY <2>1, <2>2, <2>4 DEF Captures, Closable, Hears
<1>5. QED
  BY <1>1, <1>3, <1>4

(* stopDebugCapture()                                                      *)
LEMMA StopCaptures ==
  ASSUME Captures(capture, files), StopDebugCapture
  PROVE  Captures(capture', files')
<1>1. PICK o \in CaptureEnded(capture, files) : Takes(o)
  BY DEF StopDebugCapture
<1>2. QED
  BY <1>1, EndedIs DEF Captures, Takes

(* A block, and the audio of the region with it.                           *)
LEMMA BlockCaptures ==
  ASSUME Captures(capture, files), CaptureBlock
  PROVE  Captures(capture', files')
<1>1. PICK block \in Blocks : \E o \in Captured(capture, files, block) :
        \/ Takes(o)
        \/ \E rate \in AudioRates : \E a \in RegionAudio(o.c, o.f, rate) : Takes(a)
  BY DEF CaptureBlock
<1>2. PICK o \in Captured(capture, files, block) :
        \/ Takes(o)
        \/ \E rate \in AudioRates : \E a \in RegionAudio(o.c, o.f, rate) : Takes(a)
  BY <1>1
<1>3. Captures(o.c, o.f)
  BY <1>2, CapturedIs DEF CaptureBlock
<1>4. CASE Takes(o)
  BY <1>3, <1>4 DEF Takes
<1>5. CASE \E rate \in AudioRates : \E a \in RegionAudio(o.c, o.f, rate) : Takes(a)
  <2>1. PICK rate \in AudioRate : \E a \in RegionAudio(o.c, o.f, rate) : Takes(a)
    BY <1>5 DEF AudioRate
  <2>2. PICK a \in RegionAudio(o.c, o.f, rate) : Takes(a)
    BY <2>1
  <2>3. Captures(a.c, a.f)
    BY <1>3, <2>2, RegionAudioIs
  <2>4. QED
    BY <2>2, <2>3 DEF Takes
<1>6. QED
  BY <1>2, <1>4, <1>5

(* A worker that captures nothing suits every folder.                      *)
LEMMA NoCaptureIs ==
  ASSUME NEW f, FilesTell(f)
  PROVE  Captures(NoCapture, f)
  BY ClosedIsFormed DEF Captures, Closable, CaptureFormed, Hears, NoCapture, ClosedIq, ClosedWav

Shortened(f, k, sidecar) == [f EXCEPT !.data = SubSeq(@, 1, k), !.sidecar = sidecar]
(* A sidecar tells of what is left of the samples.                         *)
LEMMA ShortenedTells ==
  ASSUME NEW f, FilesTell(f), ~f.orderly, NEW k \in 0..Len(f.data), NEW sidecar \in {f.sidecar, CutSidecar},
         NEW g, g = Shortened(f, k, sidecar)
  PROVE  FilesTell(g)
<1> DEFINE old == f.data
           new == SubSeq(old, 1, k)
<1>1. old \in Seq(Centers) /\ Len(old) \in Nat /\ k \in Nat /\ k <= Len(old)
  <2>1. old \in Seq(Centers)
    BY DEF FilesTell
  <2>2. QED
    BY <2>1, LenProperties
<1>2. /\ g \in [data : {new}, sidecar : {g.sidecar}, audio : {g.audio}, orderly : BOOLEAN]
      /\ g.data = new /\ g.sidecar = sidecar /\ g.audio = f.audio /\ ~g.orderly
  BY DEF FilesTell, Shortened
<1> HIDE DEF old
<1>3. /\ new \in Seq(Centers) /\ Len(new) = k
      /\ \A i \in 1..k : new[i] = old[i]
  <2>1. \A i \in 1..k : i \in 1..Len(old)
    BY <1>1
  <2>2. 1 \in 1..Len(old) + 1 /\ k \in 0..Len(old)
    BY <1>1
  <2>3. QED
    BY <1>1, <2>1, <2>2, SubSeqProperties
<1> HIDE DEF new
<1>4. sidecar.kind = "whole" => Marks(sidecar.segments, new)
  <2>1. CASE sidecar = f.sidecar
    <3>1. sidecar.kind = "whole" => Marks(sidecar.segments, old)
      BY <2>1 DEF FilesTell, old
    <3>2. QED
      BY <1>1, <1>3, <3>1, LessIsMarked
  <2>2. CASE sidecar = CutSidecar
    BY <2>2 DEF CutSidecar
  <2>3. QED
    BY <2>1, <2>2
<1>5. g.audio.kind = "wav" =>
        /\ g.audio \in [kind : {"wav"}, rate : AudioRate, declared : Nat, held : Seq(AudioRate)]
        /\ g.audio.declared \in {0, Len(g.audio.held)}
  BY <1>2 DEF FilesTell
<1>6. QED
  BY <1>2, <1>3, <1>4, <1>5 DEF FilesTell

(* The program stops with a capture under way.                             *)
LEMMA CrashCaptures ==
  ASSUME Captures(capture, files), Crash
  PROVE  Captures(capture', files')
<1>1. capture' = NoCapture /\ FilesTell(files)
  BY DEF Crash, Captures, Closable
<1>2. FilesTell(files')
  <2>1. CASE ~capture.iq.open
    BY <1>1, <2>1 DEF Crash
  <2>2. CASE capture.iq.open
    <3>1. PICK k \in 0..Len(files.data), sidecar \in {files.sidecar, CutSidecar} :
            files' = Shortened(files, k, sidecar)
      BY <2>2 DEF Crash, Shortened
    <3>2. ~files.orderly
      BY <2>2 DEF Captures, Closable, Describes
    <3>3. QED
      BY <1>1, <3>1, <3>2, ShortenedTells
  <2>3. QED
    BY <2>1, <2>2
<1>3. QED
  BY <1>1, <1>2, NoCaptureIs

-----------------------------------------------------------------------------
(* The source that reads a recording back.                                 *)
LEMMA OpenPlays ==
  ASSUME FilesTell(files), OpenRecording
  PROVE  Plays(player', files)
<1> DEFINE segments == files.sidecar.segments
           data == files.data
           p == player'
<1>1. /\ Marks(segments, data) /\ files.sidecar.kind = "whole" /\ data \in Seq(Centers) /\ data # <<>>
  BY DEF OpenRecording, Readable, FilesTell
<1>2. /\ Len(data) \in Nat /\ Len(data) # 0
  BY <1>1, EmptySeq, LenProperties
<1>3. /\ Len(segments) \in Nat /\ Len(segments) >= 1 /\ segments[1].center \in Centers
      /\ segments[1].start = 0 /\ \A k \in 1..Len(segments) : segments[k].start \in Nat
      /\ \A j, k \in 1..Len(segments) : j < k => segments[j].start < segments[k].start
  BY <1>1, SegmentsAre DEF Marks
<1>4. p = [NoPlayer EXCEPT !.open = TRUE, !.total = Len(data), !.running = TRUE,
                           !.segments = segments, !.next = 2, !.center = segments[1].center]
  BY DEF OpenRecording
<1>5. /\ p.segments = segments /\ p.next = 2 /\ p.center = segments[1].center /\ p.position = 0
      /\ p.handed.from = 0 /\ p.handed.to = 0 /\ p.running /\ p.handed.center = 0
      /\ p \in [open : {TRUE}, total : {Len(data)}, segments : {segments}, running : BOOLEAN,
                position : {0}, next : {2}, center : {segments[1].center},
                handed : [from : {0}, to : {0}, center : {0}]]
  BY <1>4 DEF NoPlayer
<1> HIDE DEF segments, data, p
<1>6. p \in Sources(files)
  <2>1. 0 \in 0..Len(data) /\ 2 \in 2..Len(segments) + 1 /\ 0 \in Nat
    BY <1>2, <1>3
  <2>2. segments = files.sidecar.segments /\ data = files.data
    BY DEF segments, data
  <2>3. QED
    BY <1>3, <1>5, <2>1, <2>2 DEF Sources
<1>7. p.next <= Len(p.segments) => p.position < p.segments[p.next].start
  BY <1>3, <1>5
<1>8. \E k \in 1..Len(p.segments) :
        \A i \in p.handed.from + 1..p.handed.to :
          Covers(p.segments, k, i) /\ p.handed.center = p.segments[k].center
  <2>1. 1 \in 1..Len(p.segments) /\ p.handed.from + 1..p.handed.to = {}
    BY <1>3, <1>5
  <2>2. QED
    BY <2>1
<1>9. QED
  <2>1. data = files.data
    BY DEF data
  <2>2. /\ p.running => p.position < Len(data)
        /\ p.center = p.segments[p.next - 1].center /\ p.segments[p.next - 1].start <= p.position
    BY <1>2, <1>3, <1>5
  <2>3. Plays(p, files)
    BY <1>1, <1>6, <1>7, <1>8, <2>1, <2>2 DEF Plays
  <2>4. QED
    BY <2>3 DEF p

(* The lesser of two numbers.                                              *)
LEMMA LesserIs ==
  ASSUME NEW a \in Nat, NEW b \in Nat, NEW l, l = Lesser(a, b)
  PROVE  l \in Nat /\ l <= a /\ l <= b /\ (l = a \/ l = b)
  BY DEF Lesser

(* What read() makes of its members, with the new position, the next       *)
(* segment and its frequency named.                                        *)
ReadTo(p, to, next, center) ==
  [p EXCEPT !.handed = [from |-> p.position, to |-> to, center |-> p.center],
            !.position = to, !.running = to < p.total, !.next = next, !.center = center]

(* The fields of a source that has read.                                   *)
LEMMA ReadToIs ==
  ASSUME NEW p, NEW f, Plays(p, f), NEW to \in 0..Len(f.data), NEW next \in 2..Len(p.segments) + 1,
         NEW center \in Centers, NEW q, q = ReadTo(p, to, next, center)
  PROVE  /\ q.segments = p.segments /\ q.position = to /\ q.next = next /\ q.center = center
         /\ (q.running => to < p.total)
         /\ q.handed.from = p.position /\ q.handed.to = to /\ q.handed.center = p.center
         /\ q \in Sources(f)
<1> DEFINE handed == [from |-> p.position, to |-> to, center |-> p.center]
           running == to < p.total
<1>1. running \in BOOLEAN /\ (running => to < p.total)
  OBVIOUS
<1>2. /\ p \in [open : {TRUE}, total : {Len(f.data)}, segments : {f.sidecar.segments}, running : BOOLEAN,
                position : 0..Len(f.data), next : 2..Len(p.segments) + 1, center : Centers,
                handed : {p.handed}]
      /\ p.segments = f.sidecar.segments
  BY DEF Plays, Sources
<1>3. /\ handed \in [from : Nat, to : 0..Len(f.data), center : Centers \cup {0}]
      /\ handed.from = p.position /\ handed.to = to /\ handed.center = p.center
  BY <1>2
<1>4. q = [p EXCEPT !.handed = handed, !.position = to, !.running = running, !.next = next, !.center = center]
  BY Zenon DEF ReadTo
<1> HIDE DEF handed, running
<1>5. /\ q.segments = p.segments /\ q.position = to /\ q.next = next /\ q.center = center
      /\ q.handed = handed /\ (q.running <=> running)
      /\ q \in Sources(f)
  BY <1>1, <1>2, <1>3, <1>4 DEF Sources
<1>6. QED
  BY <1>1, <1>3, <1>5

(* read(): never past a retune, so at most the next segment is reached.    *)
LEMMA ReadPlays ==
  ASSUME NEW p, NEW f, FilesTell(f), Plays(p, f), p.running, NEW q, q = Read(p)
  PROVE  Plays(q, f)
<1> DEFINE segments == p.segments
           total == p.total
           limit == IF p.next <= Len(segments) THEN Lesser(total, segments[p.next].start) ELSE total
           to == Lesser(limit, p.position + ReplayBlock)
           passed == {i \in p.next..Len(segments) : segments[i].start <= to}
           last == CHOOSE i \in passed : \A j \in passed : j <= i
           next == IF passed = {} THEN p.next ELSE last + 1
           center == IF passed = {} THEN p.center ELSE segments[last].center
<1>1. /\ segments = f.sidecar.segments /\ f.sidecar.kind = "whole" /\ total = Len(f.data)
      /\ p.next \in 2..Len(segments) + 1 /\ p.position \in 0..total /\ p.position < total
      /\ p.center = segments[p.next - 1].center /\ p.center \in Centers
      /\ segments[p.next - 1].start <= p.position
      /\ p.next <= Len(segments) => p.position < segments[p.next].start
  BY DEF Plays, Sources
<1>2. /\ Len(segments) \in Nat /\ Len(segments) >= 1 /\ total \in Nat
      /\ \A k \in 1..Len(segments) : segments[k].start \in Nat /\ segments[k].center \in Centers
      /\ \A j, k \in 1..Len(segments) : j < k => segments[j].start < segments[k].start
  <2>1. Marks(segments, f.data) /\ f.data \in Seq(Centers)
    BY <1>1 DEF FilesTell
  <2>2. total \in Nat
    BY <1>1, <2>1, LenProperties
  <2>3. /\ segments \in SegmentList /\ segments # <<>>
        /\ \A j, k \in 1..Len(segments) : j < k => segments[j].start < segments[k].start
    BY <2>1 DEF Marks
  <2> HIDE DEF segments, total
  <2>4. QED
    BY <2>2, <2>3, SegmentsAre
<1>3. q = ReadTo(p, to, next, center)
  BY DEF Read, ReadTo
<1> HIDE DEF segments, total
<1>4. /\ limit \in Nat /\ limit <= total /\ p.position < limit
      /\ p.next <= Len(segments) => limit <= segments[p.next].start
  <2>1. CASE p.next <= Len(segments)
    <3>1. segments[p.next].start \in Nat
      BY <1>1, <1>2, <2>1
    <3> DEFINE start == segments[p.next].start
    <3>2. limit = Lesser(total, start) /\ start \in Nat
      BY <2>1, <3>1
    <3> HIDE DEF limit, start
    <3>3. limit \in Nat /\ limit <= total /\ limit <= start /\ (limit = total \/ limit = start)
      BY <1>2, <3>2, LesserIs
    <3>4. p.position < start /\ p.position \in Nat
      BY <1>1, <1>2, <2>1 DEF start
    <3>5. limit \in Nat /\ limit <= total /\ p.position < limit /\ limit <= start
      BY <1>1, <1>2, <3>3, <3>4
    <3>6. QED
      BY <2>1, <3>5 DEF start
  <2>2. CASE ~(p.next <= Len(segments))
    BY <1>1, <1>2, <2>2
  <2>3. QED
    BY <2>1, <2>2
<1> HIDE DEF limit
<1>5. /\ to \in Nat /\ to <= total /\ p.position < to
      /\ p.next <= Len(segments) => to <= segments[p.next].start
  <2>1. p.position + ReplayBlock \in Nat /\ p.position < p.position + ReplayBlock
    BY <1>1, <1>2, CaptureBounds
  <2>2. to \in Nat /\ to <= limit /\ p.position < to
    <3> DEFINE further == p.position + ReplayBlock
    <3>1. further \in Nat /\ p.position < further /\ to = Lesser(limit, further)
      BY <2>1
    <3> HIDE DEF further, to
    <3>2. to \in Nat /\ to <= limit /\ (to = limit \/ to = further)
      BY <1>4, <3>1, LesserIs
    <3>3. QED
      BY <1>4, <3>1, <3>2
  <2> HIDE DEF to
  <2>3. to <= total
    BY <1>2, <1>4, <2>2
  <2>4. ASSUME p.next <= Len(segments)
        PROVE  to <= segments[p.next].start
    <3> DEFINE start == segments[p.next].start
    <3>1. p.next \in 1..Len(segments)
      BY <1>1, <1>2, <2>4
    <3>2. start \in Nat /\ limit <= start
      BY <1>2, <1>4, <2>4, <3>1
    <3> HIDE DEF start
    <3>3. to <= start
      BY <1>4, <2>2, <3>2
    <3>4. QED
      BY <3>3 DEF start
  <2>5. QED
    BY <2>2, <2>3, <2>4
<1> HIDE DEF to
<1>6. passed = {} \/ (passed = {p.next} /\ p.next <= Len(segments) /\ segments[p.next].start = to)
  <2>1. ASSUME NEW i \in passed
        PROVE  i = p.next /\ p.next <= Len(segments) /\ segments[p.next].start = to
    <3>1. i \in p.next..Len(segments) /\ segments[i].start <= to /\ i \in 1..Len(segments)
          /\ p.next \in 1..Len(segments)
      BY <1>1, <1>2
    <3>2. to <= segments[p.next].start /\ segments[p.next].start \in Nat /\ segments[i].start \in Nat
      BY <1>1, <1>2, <1>5, <3>1
    <3>3. p.next < i => segments[p.next].start < segments[i].start
      BY <1>2, <3>1
    <3>4. ~(p.next < i)
      BY <3>1, <3>2, <3>3, <1>5
    <3>5. i = p.next
      BY <1>1, <3>1, <3>4
    <3>6. QED
      BY <1>5, <3>1, <3>2, <3>5
  <2>2. QED
    BY <2>1
<1>7. /\ next \in 2..Len(segments) + 1 /\ center = segments[next - 1].center /\ center \in Centers
      /\ segments[next - 1].start <= to
      /\ next <= Len(segments) => to < segments[next].start
  <2>1. CASE passed = {}
    <3>1. next = p.next /\ center = p.center
      BY <2>1
    <3>2. p.next <= Len(segments) => to < segments[p.next].start
      <4>1. p.next <= Len(segments) => ~(segments[p.next].start <= to)
        BY <1>1, <1>2, <2>1
      <4>2. p.next <= Len(segments) => segments[p.next].start \in Nat
        BY <1>1, <1>2
      <4>3. QED
        BY <1>5, <4>1, <4>2
    <3>3. segments[p.next - 1].start \in Nat
      BY <1>1, <1>2
    <3> HIDE DEF next, center
    <3>4. segments[p.next - 1].start <= to
      <4> DEFINE start == segments[p.next - 1].start
      <4>1. start \in Nat /\ start <= p.position /\ p.position \in Nat /\ p.position < to /\ to \in Nat
        BY <1>1, <1>2, <1>5, <3>3
      <4> HIDE DEF start
      <4>2. start <= to
        BY <4>1
      <4>3. QED
        BY <4>2 DEF start
    <3>5. QED
      BY <1>1, <3>1, <3>2, <3>4
  <2>2. CASE passed = {p.next} /\ p.next <= Len(segments) /\ segments[p.next].start = to
    <3>1. last = p.next
      BY <1>1, <2>2
    <3>2. next = p.next + 1 /\ center = segments[p.next].center
      BY <2>2, <3>1
    <3> HIDE DEF next, center
    <3>3. next - 1 = p.next /\ next \in 2..Len(segments) + 1 /\ p.next \in 1..Len(segments)
      <4>1. Len(segments) \in Nat /\ p.next \in 2..Len(segments) + 1 /\ p.next <= Len(segments) /\ next = p.next + 1
        BY <1>1, <1>2, <2>2, <3>2
      <4>2. QED
        BY <4>1
    <3>4. center = segments[next - 1].center /\ center \in Centers /\ segments[next - 1].start <= to
      BY <1>2, <1>5, <2>2, <3>2, <3>3
    <3>5. next <= Len(segments) => to < segments[next].start
      <4>3. Len(segments) \in Nat /\ next = p.next + 1 /\ p.next \in 1..Len(segments)
        BY <1>2, <3>2, <3>3
      <4>1. next <= Len(segments) => next \in 1..Len(segments) /\ p.next < next
        BY <4>3
      <4>2. QED
        BY <1>2, <2>2, <3>3, <4>1
    <3>6. QED
      BY <3>3, <3>4, <3>5
  <2>3. QED
    BY <1>6, <2>1, <2>2
<1> HIDE DEF next, center
<1>8. to \in 0..Len(f.data)
  BY <1>1, <1>2, <1>5
<1>9. /\ q.segments = p.segments /\ q.position = to /\ q.next = next /\ q.center = center
      /\ (q.running => to < p.total)
      /\ q.handed.from = p.position /\ q.handed.to = to /\ q.handed.center = p.center
      /\ q \in Sources(f)
  <2>1. to \in 0..Len(f.data) /\ next \in 2..Len(p.segments) + 1 /\ center \in Centers
    BY <1>7, <1>8 DEF segments
  <2>2. QED
    BY <1>3, <2>1, ReadToIs
<1>10. \E k \in 1..Len(segments) :
         \A i \in q.handed.from + 1..q.handed.to :
           Covers(segments, k, i) /\ q.handed.center = segments[k].center
  <2>1. p.next - 1 \in 1..Len(segments)
    BY <1>1, <1>2
  <2>2. ASSUME NEW i \in q.handed.from + 1..q.handed.to
        PROVE  Covers(segments, p.next - 1, i) /\ q.handed.center = segments[p.next - 1].center
    <3>a. i \in p.position + 1..to /\ p.position \in Nat /\ to \in Nat
      BY <1>1, <1>2, <1>5, <1>9
    <3>1. i \in Int /\ p.position < i /\ i <= to /\ segments[p.next - 1].start \in Nat
      BY <1>2, <2>1, <3>a
    <3>2. p.next - 1 < Len(segments) => i <= segments[p.next - 1 + 1].start
      <4>1. p.next - 1 + 1 = p.next /\ (p.next - 1 < Len(segments) => p.next <= Len(segments))
        BY <1>1, <1>2
      <4>2. p.next <= Len(segments) => segments[p.next].start \in Nat
        BY <1>1, <1>2
      <4>3. QED
        BY <1>5, <3>1, <4>1, <4>2
    <3> DEFINE k == p.next - 1
    <3>3. /\ k \in 1..Len(segments) /\ segments[k].start \in Nat
          /\ segments[k].start <= p.position /\ p.position \in Nat
          /\ k < Len(segments) => i <= segments[k + 1].start
          /\ q.handed.center = segments[k].center
      BY <1>1, <1>2, <1>9, <2>1, <3>1, <3>2
    <3> HIDE DEF k
    <3>4. segments[k].start < i
      BY <3>1, <3>3
    <3>5. Covers(segments, k, i)
      BY <3>3, <3>4 DEF Covers
    <3>6. QED
      BY <3>3, <3>5 DEF k
  <2>3. QED
    BY <2>1, <2>2
<1>11. /\ q.running => q.position < Len(f.data)
       /\ q.center = segments[q.next - 1].center /\ segments[q.next - 1].start <= q.position
       /\ q.next <= Len(segments) => q.position < segments[q.next].start
  <2>1. q.running => q.position < Len(f.data)
    BY <1>1, <1>9 DEF total
  <2>2. QED
    BY <1>7, <1>9, <2>1
<1>12. QED
  BY <1>1, <1>9, <1>10, <1>11 DEF Plays, segments

-----------------------------------------------------------------------------
(* A program that has just started captures and plays nothing.             *)
LEMMA CaptureStart == CaptureInit => CaptureIInv
<1>1. FilesTell(NoFiles)
  BY EmptySeq DEF FilesTell, NoFiles, NoSidecar, NoAudio
<1>2. ~NoPlayer.open
  BY DEF NoPlayer
<1>3. QED
  BY <1>1, <1>2, NoCaptureIs DEF CaptureInit, CaptureIInv

(* Every step keeps what the files, the writer and the source say.         *)
LEMMA CaptureStep == CaptureIInv /\ [CaptureNext]_captureVars => CaptureIInv'
<1> SUFFICES ASSUME CaptureIInv, [CaptureNext]_captureVars
             PROVE  CaptureIInv'
  OBVIOUS
<1>0. /\ Captures(capture, files) /\ FilesTell(files) /\ ~NoPlayer.open /\ ~NoPlayer.running
      /\ IF player.open THEN Plays(player, files) ELSE player = NoPlayer
  BY DEF CaptureIInv, Captures, Closable, NoPlayer
<1>1. ASSUME ~player.open, StartDebugCapture \/ StopDebugCapture \/ CaptureBlock \/ Crash
      PROVE  CaptureIInv'
  <2>1. player' = player
    BY <1>1 DEF StartDebugCapture, StopDebugCapture, CaptureBlock, Crash
  <2>2. Captures(capture', files')
    BY <1>0, <1>1, StartCaptures, StopCaptures, BlockCaptures, CrashCaptures
  <2>3. QED
    BY <1>0, <1>1, <2>1, <2>2 DEF CaptureIInv
<1>2. CASE OpenRecording
  <2>1. Plays(player', files) /\ UNCHANGED <<capture, files>>
    BY <1>0, <1>2, OpenPlays DEF OpenRecording
  <2>2. player'.open
    BY <2>1 DEF Plays, Sources
  <2>3. QED
    BY <1>0, <2>1, <2>2 DEF CaptureIInv
<1>3. CASE ReadBlock
  <2>1. player.open /\ player.running /\ player' = Read(player) /\ UNCHANGED <<capture, files>>
    BY <1>0, <1>3 DEF ReadBlock
  <2>2. Plays(player', files)
    BY <1>0, <2>1, ReadPlays
  <2>3. player'.open
    BY <2>2 DEF Plays, Sources
  <2>4. QED
    BY <1>0, <2>1, <2>2, <2>3 DEF CaptureIInv
<1>4. CASE CloseRecording
  BY <1>0, <1>4 DEF CloseRecording, CaptureIInv
<1>5. CASE UNCHANGED captureVars
  BY <1>5 DEF captureVars, CaptureIInv
<1>6. QED
  BY <1>1, <1>2, <1>3, <1>4, <1>5 DEF CaptureNext

(* Segments that tell are in an order the source accepts.                  *)
LEMMA MarkedIsInOrder ==
  ASSUME NEW segments, NEW data, Marks(segments, data)
  PROVE  InOrder(segments)
<1>1. Len(segments) \in Nat /\ segments[1].start = 0
  BY SegmentsAre DEF Marks
<1>2. \A i \in 2..Len(segments) : i - 1 \in 1..Len(segments) /\ i \in 1..Len(segments) /\ i - 1 < i
  BY <1>1
<1>3. QED
  BY <1>1, <1>2 DEF Marks, InOrder

(* What was handed on came from under one segment.                         *)
LEMMA HandedIs ==
  ASSUME FilesTell(files), Plays(player, files)
  PROVE  /\ files.orderly => HandedTruly(player)
         /\ \A i \in player.handed.from + 1..player.handed.to :
              (\A j \in 1..i : files.data[j] = files.data[1]) => files.data[i] = player.handed.center
<1> DEFINE segments == player.segments
           data == files.data
<1>1. /\ Marks(segments, data) /\ Len(data) \in Nat
      /\ files.orderly => TellsOf(segments, data)
      /\ player.handed.from \in Nat /\ player.handed.to \in 0..Len(data)
  <2>1. segments = files.sidecar.segments /\ player.handed.from \in Nat /\ player.handed.to \in 0..Len(data)
    BY DEF Plays, Sources
  <2>2. data \in Seq(Centers)
    BY DEF FilesTell
  <2>3. QED
    BY <2>1, <2>2, LenProperties DEF FilesTell, Plays
<1>2. PICK k \in 1..Len(segments) :
        \A i \in player.handed.from + 1..player.handed.to :
          Covers(segments, k, i) /\ player.handed.center = segments[k].center
  BY DEF Plays
<1>3. segments[k].start \in Nat
  BY <1>1, SegmentsAre DEF Marks
<1> HIDE DEF segments, data
<1>4. ASSUME files.orderly, Len(segments) < MostSegments,
             NEW i \in player.handed.from + 1..player.handed.to
      PROVE  data[i] = player.handed.center
  <2>1. i \in 1..Len(data)
    BY <1>1
  <2>2. QED
    BY <1>1, <1>2, <1>4, <2>1 DEF TellsOf
<1>5. ASSUME NEW i \in player.handed.from + 1..player.handed.to,
             \A j \in 1..i : data[j] = data[1]
      PROVE  data[i] = player.handed.center
  <2>1. i \in 1..Len(data) /\ segments[k].start < i
    BY <1>1, <1>2 DEF Covers
  <2>2. segments[k].start + 1 \in 1..i /\ segments[k].start < Len(data) /\ i \in 1..i
    BY <1>1, <1>3, <2>1
  <2>3. data[segments[k].start + 1] = segments[k].center
    BY <1>1, <2>2 DEF Marks
  <2>4. QED
    BY <1>2, <1>5, <2>2, <2>3
<1>6. QED
  BY <1>4, <1>5 DEF HandedTruly, segments, data

(* What is kept implies what the run checks.                               *)
LEMMA CaptureHolds == CaptureIInv => CaptureInv
<1> SUFFICES ASSUME CaptureIInv
             PROVE  CaptureInv
  OBVIOUS
<1>0. /\ Captures(capture, files) /\ Closable(capture, files) /\ FilesTell(files)
      /\ player.open => Plays(player, files)
  BY DEF CaptureIInv, Captures, Closable
<1>1. ReplayedAsReceived
  <2>1. files.orderly /\ files.data # <<>> => Readable(files)
    BY <1>0, MarkedIsInOrder DEF FilesTell, Readable
  <2>2. QED
    BY <1>0, <2>1, HandedIs DEF ReplayedAsReceived
<1>2. ASSUME capture.iq.open
      PROVE  LET w == capture.iq
             IN  /\ InOrder(w.segments) /\ w.segments[Len(w.segments)].start < w.written
                 /\ \A i \in 2..Len(w.segments) : w.segments[i - 1].center # w.segments[i].center
                 /\ ~w.stopped /\ w.written = Len(files.data) /\ w.written < MostSamples
                 /\ files.sidecar.kind = "whole"
  <2>1. Marks(capture.iq.segments, files.data) /\ files.sidecar.kind = "whole" /\ Writes(capture.iq, files)
    BY <1>0, <1>2 DEF Captures, Closable, Describes
  <2>2. QED
    BY <2>1, MarkedIsInOrder DEF Writes, Marks
<1>3. files.audio.kind = "wav" => files.audio.declared \in {0, Len(files.audio.held)}
  BY <1>0 DEF FilesTell
<1>4. QED
  BY <1>0, <1>1, <1>2, <1>3 DEF CaptureInv, Captures

(* iq_writer.cpp, wav_writer.cpp, iq_replay_source.cpp and the captures of *)
(* live_audio_worker.cpp: what is replayed carries the frequency it was    *)
(* received on, every retune is where its samples begin, no file stays     *)
(* open behind a capture that ended, and an audio file never declares      *)
(* what it does not hold.                                                  *)
THEOREM ReplayedTruly == CaptureSpec => []CaptureInv
<1>1. CaptureIInv => CaptureInv
  BY CaptureHolds
<1>2. QED
  BY CaptureStart, CaptureStep, <1>1, PTL DEF CaptureSpec
===================================================================================
