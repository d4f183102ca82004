------------------------------ MODULE DebugCapture ------------------------------
(***************************************************************************)
(* A debug capture of LiveAudioDspWorker: the IQ of an SDR in a data file  *)
(* with a sidecar that says which frequency its samples were received on   *)
(* (IqWriter), the audio of a sound card or of the decoded region beside   *)
(* it (WavWriter), and the source that reads a recording back              *)
(* (IqReplaySource).  A sample in a data file stands for the frequency it  *)
(* was received on, one in an audio file for its rate.  Any write may      *)
(* fail, and the program may stop at any point.                            *)
(***************************************************************************)
EXTENDS Integers, Sequences

CONSTANTS
  Centers,        \* frequencies the receiver may be tuned to
  IqRates,        \* and its sample rates
  AudioRates,     \* output rates of IqRegionDemodulator, which follow the window
  SoundRate,      \* the rate of the sound card
  BlockSizes,     \* samples of a block
  ReplayBlock,    \* samples of a block that is read back
  MostSamples,      \* maximum_samples_
  MostAudioBlocks,  \* kMaximumFrames, in blocks of audio
  MostSegments    \* kMaximumSegments
ASSUME DebugCaptureAssumption ==
  /\ MostSamples \in Nat \ {0} /\ MostAudioBlocks \in Nat \ {0} /\ MostSegments \in Nat \ {0}
  /\ ReplayBlock \in Nat \ {0} /\ BlockSizes \subseteq Nat \ {0}

VARIABLES
  capture,        \* the worker's members: its state, the two writers
  files,          \* what the folder of the last capture holds
  player          \* the members of IqReplaySource
captureVars == <<capture, files, player>>

NoSidecar == [kind |-> "none"]
CutSidecar == [kind |-> "cut"]
NoAudio == [kind |-> "none"]
NoFiles == [data |-> <<>>, sidecar |-> NoSidecar, audio |-> NoAudio, orderly |-> FALSE]

ClosedIq == [open |-> FALSE, stopped |-> FALSE, rate |-> 0, segments |-> <<>>, written |-> 0]
ClosedWav == [open |-> FALSE, rate |-> 0, frames |-> 0]
NoCapture ==
  [active |-> FALSE, pending |-> FALSE, audioFailed |-> FALSE,
   iq |-> ClosedIq, wav |-> ClosedWav]
NoPlayer ==
  [open |-> FALSE, total |-> 0, segments |-> <<>>, running |-> FALSE, position |-> 0, next |-> 0,
   center |-> 0, handed |-> [from |-> 0, to |-> 0, center |-> 0]]

CaptureInit ==
  capture = NoCapture /\ files = NoFiles /\ player = NoPlayer

-----------------------------------------------------------------------------
(* IqWriter, WavWriter: what they leave is a set of outcomes, of the        *)
(* worker c with the files f of its folder.                                *)
Outcome(c, f) == [c |-> c, f |-> f]
Recording(w) == [kind |-> "whole", rate |-> w.rate, segments |-> w.segments, count |-> w.written]
(* writeSidecar(): the file cannot be opened, or is cut and then written.  *)
Sidecars(w, f) == {f.sidecar, CutSidecar, Recording(w)}

(* open() *)
IqOpened(c, f, block) ==
  LET w == [ClosedIq EXCEPT !.open = TRUE, !.rate = block.rate,
                            !.segments = <<[start |-> 0, center |-> block.center]>>]
      emptied == [f EXCEPT !.data = <<>>, !.orderly = FALSE]
  IN  {[ok |-> TRUE, c |-> [c EXCEPT !.iq = w, !.pending = FALSE],
        f |-> [emptied EXCEPT !.sidecar = Recording(w)]]}
      \cup {[ok |-> FALSE, c |-> c, f |-> g] :
              g \in {f} \cup {[emptied EXCEPT !.sidecar = s] : s \in Sidecars(w, f)}}

(* close(); what the members keep is not used until the next open(). *)
IqClosed(c, f) ==
  IF ~c.iq.open THEN {Outcome(c, f)}
  ELSE {Outcome([c EXCEPT !.iq = ClosedIq],
                [f EXCEPT !.sidecar = s, !.orderly = s = Recording(c.iq)]) :
          s \in Sidecars(c.iq, f)}

Retuned(w, block) ==
  IF block.center # w.segments[Len(w.segments)].center /\ Len(w.segments) < MostSegments
  THEN [w EXCEPT !.segments = Append(@, [start |-> w.written, center |-> block.center])]
  ELSE w

(* writeBlock(): a write that fails may leave a part of the block.         *)
Received(f, center, n) == [f EXCEPT !.data = @ \o [i \in 1..n |-> center]]
IqWritten(c, f, block) ==
  LET w == Retuned(c.iq, block)
      room == MostSamples - w.written
      n == IF block.count < room THEN block.count ELSE room
      ended == w.written + n >= MostSamples
      kept(writer) == [c EXCEPT !.iq = writer]
  IN  IF block.rate # c.iq.rate
      THEN {[ok |-> FALSE, c |-> [c EXCEPT !.iq.stopped = TRUE], f |-> f]}
      ELSE {[ok |-> ~ended, c |-> kept([w EXCEPT !.written = @ + n, !.stopped = ended]),
             f |-> Received(f, block.center, n)]}
           \cup {[ok |-> FALSE, c |-> kept([w EXCEPT !.stopped = TRUE]),
                  f |-> Received(f, block.center, k)] : k \in 0..n}

WavOpened(c, f, rate) ==
  {[ok |-> TRUE, c |-> [c EXCEPT !.wav = [open |-> TRUE, rate |-> rate, frames |-> 0], !.pending = FALSE],
    f |-> [f EXCEPT !.audio = [kind |-> "wav", rate |-> rate, declared |-> 0, held |-> <<>>]]],
   [ok |-> FALSE, c |-> c, f |-> f]}
WavWritten(c, f, rate) ==
  IF c.wav.frames >= MostAudioBlocks THEN [ok |-> FALSE, c |-> c, f |-> f]
  ELSE [ok |-> TRUE, c |-> [c EXCEPT !.wav.frames = @ + 1],
        f |-> [f EXCEPT !.audio.held = Append(@, rate)]]
WavClosed(c, f) ==
  IF ~c.wav.open THEN Outcome(c, f)
  ELSE Outcome([c EXCEPT !.wav = ClosedWav], [f EXCEPT !.audio.declared = c.wav.frames])

-----------------------------------------------------------------------------
(* finishDebugCapture() *)
CaptureEnded(c, f) ==
  LET wav == WavClosed(c, f)
  IN  {Outcome([o.c EXCEPT !.active = FALSE, !.pending = FALSE], o.f) : o \in IqClosed(wav.c, wav.f)}
Takes(outcome) == capture' = outcome.c /\ files' = outcome.f

(* startDebugCapture(): the folder or the log may fail.  A folder is named  *)
(* by the second, so a capture may begin in the folder of the last one.    *)
StartDebugCapture ==
  /\ UNCHANGED player
  /\ \E done \in IF capture.active THEN CaptureEnded(capture, files) ELSE {Outcome(capture, files)} :
       \/ Takes(done)
       \/ /\ capture' = [done.c EXCEPT !.active = TRUE, !.pending = TRUE, !.audioFailed = FALSE]
          /\ files' \in {done.f, NoFiles}
(* stopDebugCapture(), and stop(). *)
StopDebugCapture ==
  /\ capture.active /\ UNCHANGED player
  /\ \E o \in CaptureEnded(capture, files) : Takes(o)

(* openIqCapture() and the first lines of captureBlock().                  *)
Begun(c, f, block) ==
  IF ~c.pending THEN {[ok |-> TRUE, c |-> c, f |-> f]}
  ELSE UNION {IF o.ok THEN {o} ELSE {[ok |-> FALSE, c |-> p.c, f |-> p.f] : p \in CaptureEnded(o.c, o.f)} :
                o \in IF block.iq THEN IqOpened(c, f, block) ELSE WavOpened(c, f, block.rate)}

(* captureBlock(): a block of the other kind, a bound or a failed write     *)
(* ends the capture, and so may the time it has lasted.                     *)
Captured(c, f, block) ==
  UNION {IF ~b.ok THEN {Outcome(b.c, b.f)}
         ELSE IF block.iq # b.c.iq.open THEN CaptureEnded(b.c, b.f)
         ELSE UNION {CaptureEnded(w.c, w.f) \cup (IF w.ok THEN {Outcome(w.c, w.f)} ELSE {}) :
                w \in IF block.iq THEN IqWritten(b.c, b.f, block) ELSE {WavWritten(b.c, b.f, block.rate)}} :
           b \in Begun(c, f, block)}

(* captureRegionAudio(), after it in the same pass of drain().             *)
RegionAudio(c, f, rate) ==
  IF ~c.active \/ c.audioFailed THEN {Outcome(c, f)}
  ELSE UNION {LET w == IF o.ok THEN WavWritten(o.c, o.f, rate) ELSE o
              IN  {Outcome(IF w.ok THEN w.c ELSE [w.c EXCEPT !.audioFailed = TRUE], w.f)} :
                o \in IF c.wav.open THEN {[ok |-> TRUE, c |-> c, f |-> f]} ELSE WavOpened(c, f, rate)}

Blocks ==
  [iq : {TRUE}, rate : IqRates, center : Centers, count : BlockSizes]
  \cup [iq : {FALSE}, rate : {SoundRate}, center : {0}, count : {1}]
CaptureBlock ==
  /\ capture.active /\ UNCHANGED player
  /\ \E block \in Blocks : \E o \in Captured(capture, files, block) :
       \/ Takes(o)
       \/ /\ block.iq
          /\ \E rate \in AudioRates : \E a \in RegionAudio(o.c, o.f, rate) : Takes(a)

(* The program stops: what was buffered is lost; the sidecar may just have *)
(* been cut to be written again, when the samples are all there.           *)
Crash ==
  /\ capture.active /\ capture' = NoCapture /\ UNCHANGED player
  /\ \E k \in 0..Len(files.data), sidecar \in {files.sidecar, CutSidecar} :
       files' = IF ~capture.iq.open THEN files
                ELSE [files EXCEPT !.data = SubSeq(@, 1, k), !.sidecar = sidecar]

-----------------------------------------------------------------------------
InOrder(segments) ==
  /\ segments[1].start = 0
  /\ \A i \in 2..Len(segments) : segments[i - 1].start < segments[i].start
Readable(f) == f.sidecar.kind = "whole" /\ InOrder(f.sidecar.segments) /\ f.data # <<>>

(* open(), loadMetadata(), start() *)
OpenRecording ==
  /\ ~player.open /\ Readable(files)
  /\ player' = [NoPlayer EXCEPT
       !.open = TRUE, !.total = Len(files.data), !.running = TRUE,
       !.segments = files.sidecar.segments, !.next = 2, !.center = files.sidecar.segments[1].center]
  /\ UNCHANGED <<capture, files>>

Lesser(m, n) == IF m < n THEN m ELSE n
(* Defect: a block goes on over a retune. *)
ReadAcross(p) ==
  LET to == Lesser(p.total, p.position + ReplayBlock)
      passed == {i \in p.next..Len(p.segments) : p.segments[i].start <= to}
  IN  [p EXCEPT !.handed = [from |-> p.position, to |-> to, center |-> p.center],
                !.position = to, !.running = to < p.total, !.next = @ + (Len(p.segments) + 1 - p.next),
                !.center = IF passed = {} THEN @ ELSE p.segments[Len(p.segments)].center]
(* read() *)
Read(p) ==
  LET limit == IF p.next <= Len(p.segments) THEN Lesser(p.total, p.segments[p.next].start) ELSE p.total
      to == Lesser(limit, p.position + ReplayBlock)
      passed == {i \in p.next..Len(p.segments) : p.segments[i].start <= to}
      last == CHOOSE i \in passed : \A j \in passed : j <= i
  IN  [p EXCEPT !.handed = [from |-> p.position, to |-> to, center |-> p.center],
                !.position = to, !.running = to < p.total,
                !.next = IF passed = {} THEN @ ELSE last + 1,
                !.center = IF passed = {} THEN @ ELSE p.segments[last].center]
ReadBlock ==
  /\ player.running /\ player' = Read(player) /\ UNCHANGED <<capture, files>>
CloseRecording ==
  /\ player.open /\ player' = NoPlayer /\ UNCHANGED <<capture, files>>

(* A recording is read back while nothing is written to it.                *)
CaptureNext ==
  \/ ~player.open /\ (StartDebugCapture \/ StopDebugCapture \/ CaptureBlock \/ Crash)
  \/ OpenRecording \/ ReadBlock \/ CloseRecording
CaptureSpec == CaptureInit /\ [][CaptureNext]_captureVars

-----------------------------------------------------------------------------
(* The inverse of IqWriter: a recording that was closed can be opened, and  *)
(* of one with room for its retunes every block that is read back carries   *)
(* the frequency that each of its samples was received on, also when a      *)
(* write had failed in the middle of a block after a retune.  Of one that   *)
(* was interrupted, or is still being made, that holds up to the first      *)
(* retune only: the later ones are in the sidecar when it is closed.        *)
HandedTruly(p) ==
  Len(p.segments) < MostSegments =>
    \A i \in p.handed.from + 1..p.handed.to : files.data[i] = p.handed.center
ReplayedAsReceived ==
  /\ files.orderly => /\ files.data # <<>> => Readable(files)
                      /\ player.open => HandedTruly(player)
  /\ player.open => \A i \in player.handed.from + 1..player.handed.to :
       (\A j \in 1..i : files.data[j] = files.data[1]) => files.data[i] = player.handed.center

(* No file stays open behind a capture that has ended, and one that is      *)
(* pending has opened none.  While IQ is recorded, every retune is where    *)
(* the samples after it begin, in an order IqReplaySource accepts, the      *)
(* bound is kept, and the sidecar of the open is there to be read.  An      *)
(* audio file declares nothing, or everything it holds.  And what is        *)
(* replayed of it is what was received.                                     *)
CaptureInv ==
  /\ ReplayedAsReceived
  /\ capture.active <=> capture.pending \/ capture.iq.open \/ capture.wav.open
  /\ capture.pending => ~capture.iq.open /\ ~capture.wav.open
  /\ capture.iq.open =>
       LET w == capture.iq
       IN  /\ InOrder(w.segments) /\ w.segments[Len(w.segments)].start < w.written
           /\ \A i \in 2..Len(w.segments) : w.segments[i - 1].center # w.segments[i].center
           /\ ~w.stopped /\ w.written = Len(files.data) /\ w.written < MostSamples
           /\ files.sidecar.kind = "whole"
  /\ files.audio.kind = "wav" => files.audio.declared \in {0, Len(files.audio.held)}
=============================================================================
