------------------------------ MODULE SdrCapture ------------------------------
(***************************************************************************)
(* SDR reception, from the receiver's own queue to the decoder's filter:   *)
(* SdrCaptureWorker and SdrReceiver on the capture thread, the pipe, and   *)
(* the IqSubbandDecimator of LiveAudioDspWorker on the DSP thread.         *)
(*                                                                         *)
(* The device is the ground truth.  Its samples come in chunks, one per    *)
(* read; a chunk knows when it was received and on which frequency, and,   *)
(* for the properties, what the program could not know of it.  What the    *)
(* program knows is the label it wrote on the block, a sequence number and *)
(* a time.                                                                 *)
(*                                                                         *)
(* Every slot may be called at any time, in every order: the controller    *)
(* that posts the calls is not modelled.  The pipe is the queue that       *)
(* SpscRing implements under one consumer.                                 *)
(***************************************************************************)
EXTENDS Integers, Sequences

CONSTANTS
  Freqs,         \* the frequencies of windows and labels, in units of the grid
  Reach,         \* how far the decoder window may lie from the centre
  Tunable,       \* the frequencies that the device may be on
  QueueDepth,    \* the chunks that the device's driver can hold
  DrainReads,    \* kMaximumRetuneDrainReads and kRetuneDrainSeconds, in reads
  PipeDepth,
  MaxChunks      \* bound on the chunks that the device receives

NoFreq == 0

(* The comment at the drain's bounds says that they exceed every driver's  *)
(* queue.                                                                  *)
ASSUME SdrAssumption ==
  /\ Freqs \subseteq Nat \ {NoFreq} /\ Tunable \subseteq Freqs
  /\ {Reach, QueueDepth, DrainReads, MaxChunks} \subseteq Nat /\ PipeDepth \in Nat \ {0}
  /\ DrainReads > QueueDepth

VARIABLES
  now,        \* chunks received on the air so far, lost ones included
  hardware,   \* the frequency the device is on
  astray,     \* has a retune it refused left it on another than it was set to?
  device,     \* the driver's queue of chunks and overflow reports
  running,    \* running_ and diagnostics_.running
  pending,    \* pending_retune_hz_, or NoFreq
  actual,     \* actual_.center_frequency_hz
  sequence,   \* sequence_
  clock,      \* synthesized_timestamp_ns_
  silent,     \* has a drain read the report of a hole, and no samples, since
              \* the numbers last moved?
  pipe,
  dsp         \* see DspStates

sdrVars == <<now, hardware, astray, device, running, pending, actual, sequence, clock, silent,
             pipe, dsp>>

Times == 0..MaxChunks

(* astray: received while the device was; unmarked: the numbers and times  *)
(* of the blocks say nothing of the hole before it.                        *)
Chunks == [at : 1..MaxChunks, freq : Freqs, astray : BOOLEAN, unmarked : BOOLEAN]
NoChunk == [at |-> 0, freq |-> NoFreq, astray |-> FALSE, unmarked |-> FALSE]
Overflow == NoChunk     \* an entry of the driver's queue that holds no samples

SdrBlocks == [chunk : Chunks, label : Freqs, seq : 0..(2 * MaxChunks), time : Times]

(* What IqReceiveValidator remembers of the block before: its label, and   *)
(* the sequence number and time that the next one must have.               *)
NoPrevious == [label |-> NoFreq, seq |-> 0, time |-> 0]
Expectations == [label : Freqs \cup {NoFreq}, seq : 0..(2 * MaxChunks + 1), time : 0..(MaxChunks + 1)]

DspStates ==
  [running : BOOLEAN,
   iq : BOOLEAN,                          \* processing_complex_iq_
   wanted : Freqs,                        \* sdr_decoder_center_frequency_hz_
   applied : Freqs \cup {NoFreq},         \* its applied_ twin, if applied
   expected : Expectations,               \* the validator's memory
   stream : Freqs \cup {NoFreq},          \* input_stream_, if initialized
   filtered : Chunks \cup {NoChunk},      \* the last chunk in the filter
   filterRun : Times,                     \* how many since its state was reset
   batched : Chunks \cup {NoChunk},       \* the last chunk in the pending batch
   batchRun : Times]                      \* how many since it was emptied

SdrInit ==
  /\ now = 0
  /\ hardware \in Tunable
  /\ astray = FALSE
  /\ device = <<>>
  /\ running = FALSE
  /\ pending = NoFreq
  /\ actual = NoFreq
  /\ sequence = 0
  /\ clock = 0
  /\ silent = FALSE
  /\ pipe = <<>>
  /\ \E w \in Freqs :
       dsp = [running |-> FALSE, iq |-> FALSE, wanted |-> w, applied |-> NoFreq,
              expected |-> NoPrevious, stream |-> NoFreq,
              filtered |-> NoChunk, filterRun |-> 0,
              batched |-> NoChunk, batchRun |-> 0]

-----------------------------------------------------------------------------
(* The device.  A chunk that finds the driver's queue full is lost, and    *)
(* the queue says so once, where the hole is.                              *)
Receive ==
  /\ running
  /\ now < MaxChunks
  /\ now' = now + 1
  /\ device' =
       IF Len(device) < QueueDepth
         THEN Append(device, [at |-> now', freq |-> hardware, astray |-> astray, unmarked |-> FALSE])
         ELSE IF Len(device) > QueueDepth
           THEN device
           ELSE Append(device, Overflow)
  /\ UNCHANGED <<hardware, astray, running, pending, actual, sequence, clock, silent, pipe, dsp>>

-----------------------------------------------------------------------------
(* The capture thread. *)

(* start() empties the pipe, then opens the device on f or fails to.       *)
StartCapture(f) ==
  /\ pipe' = <<>>
  /\ pending' = NoFreq
  /\ \/ /\ running' = TRUE
        /\ hardware' = f /\ astray' = FALSE
        /\ actual' = f
        /\ device' = <<>>
        /\ sequence' = 0
        /\ clock' = 0
        /\ silent' = FALSE
     \/ /\ running' = FALSE
        /\ device' = <<>>
        /\ UNCHANGED <<hardware, astray, actual, sequence, clock, silent>>
  /\ UNCHANGED <<now, dsp>>

StopCapture ==
  /\ running' = FALSE
  /\ pending' = NoFreq
  /\ device' = <<>>
  /\ UNCHANGED <<now, hardware, astray, actual, sequence, clock, silent, pipe, dsp>>

(* The newest request replaces the one before, and restarts the timer.     *)
RequestRetune(f) ==
  /\ running
  /\ pending' = f
  /\ UNCHANGED <<now, hardware, astray, device, running, actual, sequence, clock, silent, pipe, dsp>>

Samples(queue) == SelectSeq(queue, LAMBDA c : c # Overflow)

(* Defect: what the driver has queued is kept, under the new label. *)
RetuneKeepingQueue ==
  /\ running /\ pending # NoFreq
  /\ hardware' = pending /\ astray' = FALSE
  /\ actual' = pending
  /\ pending' = NoFreq
  /\ UNCHANGED <<now, device, running, sequence, clock, silent, pipe, dsp>>

(* The device accepts: what its driver had queued was received before the  *)
(* move and is dropped, and samples dropped are a hole.  The report of an  *)
(* overflow is read with them: alone, it makes none.                       *)
Retune ==
  /\ running /\ pending # NoFreq
  /\ hardware' = pending /\ astray' = FALSE
  /\ actual' = pending
  /\ pending' = NoFreq
  /\ LET drained == SubSeq(device, 1, IF Len(device) < DrainReads THEN Len(device) ELSE DrainReads)
     IN  /\ device' = SubSeq(device, Len(drained) + 1, Len(device))
         /\ sequence' = IF Samples(drained) = <<>> THEN sequence ELSE sequence + 1
         /\ silent' = (Samples(drained) = <<>> /\ (drained # <<>> \/ silent))
  /\ UNCHANGED <<now, running, clock, pipe, dsp>>

(* The device refuses, or reads back another frequency than it was asked   *)
(* for, and may have moved all the same: reception goes on as before.      *)
RetuneRefused ==
  /\ running /\ pending # NoFreq
  /\ pending' = NoFreq
  /\ hardware' \in Tunable
  /\ astray' = (hardware' # actual)
  /\ UNCHANGED <<now, device, running, actual, sequence, clock, silent, pipe, dsp>>

ReadOverflow ==
  /\ running
  /\ device # <<>> /\ Head(device) = Overflow
  /\ device' = Tail(device)
  /\ sequence' = sequence + 1
  /\ silent' = FALSE
  /\ UNCHANGED <<now, hardware, astray, running, pending, actual, clock, pipe, dsp>>

(* A block is labelled and numbered, and dropped if the pipe is full.  Its *)
(* time is the one the device gives, or the one that the blocks before it  *)
(* lead to.                                                                *)
Pump ==
  /\ running
  /\ device # <<>> /\ Head(device) # Overflow
  /\ \E stamped \in BOOLEAN :
       LET time == IF stamped THEN Head(device).at ELSE clock
           chunk == [Head(device) EXCEPT !.unmarked = silent /\ ~stamped]
           block == [chunk |-> chunk, label |-> actual, seq |-> sequence, time |-> time]
       IN  /\ pipe' = IF Len(pipe) < PipeDepth THEN Append(pipe, block) ELSE pipe
           /\ clock' = time + 1
  /\ device' = Tail(device)
  /\ sequence' = sequence + 1
  /\ silent' = FALSE
  /\ UNCHANGED <<now, hardware, astray, running, pending, actual, dsp>>

(* A read fails, or the receiver's own validator rejects the samples.  The *)
(* retune that waits is forgotten by the next start only.                  *)
ReadFails ==
  /\ running
  /\ running' = FALSE
  /\ device' = <<>>
  /\ UNCHANGED <<now, hardware, astray, pending, actual, sequence, clock, silent, pipe, dsp>>

-----------------------------------------------------------------------------
(* The DSP thread. *)

DecimatorReset(d) ==
  [d EXCEPT !.expected = NoPrevious, !.stream = NoFreq,
            !.filtered = NoChunk, !.filterRun = 0]
BatchEmptied(d) == [d EXCEPT !.batched = NoChunk, !.batchRun = 0]

(* applySdrDecoderWindow, if the window in force is not the one wanted.    *)
WindowApplied(d) ==
  IF d.applied = d.wanted THEN d
  ELSE [BatchEmptied(DecimatorReset(d)) EXCEPT !.applied = d.wanted]

SessionReset(d, starts) ==
  [BatchEmptied(DecimatorReset(d)) EXCEPT
     !.running = starts, !.iq = FALSE, !.applied = NoFreq]

DspStart ==
  /\ dsp' = SessionReset(dsp, TRUE)
  /\ pipe' = <<>>
  /\ UNCHANGED <<now, hardware, astray, device, running, pending, actual, sequence, clock, silent>>

DspStop ==
  /\ dsp' = SessionReset(dsp, FALSE)
  /\ UNCHANGED <<now, hardware, astray, device, running, pending, actual, sequence, clock, silent, pipe>>

(* The window is applied at once only if IQ is being processed; drain()    *)
(* does it otherwise, at the first block.                                  *)
SetDecoderWindow(f) ==
  /\ LET d == [dsp EXCEPT !.wanted = f]
     IN  dsp' = IF dsp.iq THEN WindowApplied(d) ELSE d
  /\ UNCHANGED <<now, hardware, astray, device, running, pending, actual, sequence, clock, silent, pipe>>

(* Defect: the time of the block is not looked at. *)
DiscontinuousByNumber(e, block) ==
  /\ e # NoPrevious
  /\ block.label # e.label \/ block.seq # e.seq

(* AcceptedAfterDiscontinuity: not the block that was to come next.        *)
Discontinuous(e, block) ==
  /\ e # NoPrevious
  /\ \/ block.label # e.label
     \/ block.seq # e.seq
     \/ block.time # e.time

Validated(d, block) ==
  [d EXCEPT !.iq = TRUE,
            !.expected = [label |-> block.label, seq |-> block.seq + 1, time |-> block.time + 1]]

InReach(window, centre) == window - centre \in (-Reach)..Reach

(* IqSubbandDecimator::process on a block within reach: the filter's state *)
(* starts over on a new stream and after a discontinuity, and so does the  *)
(* batch after a discontinuity.  The batch may be handed to the decoder,   *)
(* and what did not fit into it begins the next.                           *)
Decimated(d, block) ==
  LET hole == Discontinuous(d.expected, block)
      fresh == hole \/ d.stream # block.label
      run == IF hole THEN 0 ELSE d.batchRun
  IN  {[Validated(d, block) EXCEPT
          !.stream = block.label,
          !.filtered = block.chunk,
          !.filterRun = IF fresh THEN 1 ELSE @ + 1,
          !.batched = IF n = 0 THEN NoChunk ELSE block.chunk,
          !.batchRun = n] : n \in {0, 1, run + 1}}

Process(d, block) ==
  IF InReach(d.applied, block.label) THEN Decimated(d, block) ELSE {Validated(d, block)}

(* Defect: a window asked for before the first block is never applied. *)
DrainBlockUnapplied ==
  /\ dsp.running
  /\ pipe # <<>>
  /\ dsp' \in Process(dsp, Head(pipe))
  /\ pipe' = Tail(pipe)
  /\ UNCHANGED <<now, hardware, astray, device, running, pending, actual, sequence, clock, silent>>

DrainBlock ==
  /\ dsp.running
  /\ pipe # <<>>
  /\ dsp' \in Process(WindowApplied(dsp), Head(pipe))
  /\ pipe' = Tail(pipe)
  /\ UNCHANGED <<now, hardware, astray, device, running, pending, actual, sequence, clock, silent>>

SdrCapturing ==
  \/ \E f \in Tunable : StartCapture(f)
  \/ \E f \in Tunable : RequestRetune(f)
  \/ StopCapture \/ Retune \/ RetuneRefused \/ ReadOverflow \/ Pump \/ ReadFails
SdrDsp == DspStart \/ DspStop \/ DrainBlock \/ \E f \in Freqs : SetDecoderWindow(f)
SdrNext == Receive \/ SdrCapturing \/ SdrDsp
SdrSpec == SdrInit /\ [][SdrNext]_sdrVars

-----------------------------------------------------------------------------
(* Every block carries the frequency that its samples were received on,    *)
(* however many retunes and starts lie between the two: what was queued    *)
(* when the device moved is never labelled after the move.  Only a device  *)
(* that moved while it refused to is out of the program's sight, until it  *)
(* is next set.                                                            *)
LabelsAsSet ==
  \A i \in 1..Len(pipe) : pipe[i].chunk.astray \/ pipe[i].label = pipe[i].chunk.freq

(* "A retune no longer labels samples with a frequency they were not       *)
(* received on" (CHANGELOG.md:66), whatever the retune came to.            *)
LabelsTrue == \A i \in 1..Len(pipe) : pipe[i].label = pipe[i].chunk.freq

(* The label that the next block will carry is the one its samples have:   *)
(* with it, LabelsAsSet is inductive.                                      *)
ReceivedAsLabelled ==
  running => /\ astray \/ hardware = actual
             /\ \A i \in 1..Len(device) :
                  device[i] # Overflow => device[i].astray \/ device[i].freq = actual

(* A window that IQ is processed under is the window asked for last: a     *)
(* request made before the first block, or while another source ran, is    *)
(* in force all the same.                                                  *)
WindowInForce == dsp.iq => dsp.applied = dsp.wanted

(* The samples of a chunk directly continue those of another, but for what *)
(* the program could not know.                                             *)
Continues(chunk, before) ==
  /\ chunk.unmarked \/ chunk.at = before.at + 1
  /\ chunk.astray \/ before.astray \/ chunk.freq = before.freq

(* The filter's state is never carried across a hole, whether samples were *)
(* lost in the driver, dropped by a retune or by a full pipe, or belong to *)
(* another frequency or session, and whether or not the device puts times  *)
(* on its samples; and neither does the batch that the decoder is given    *)
(* span one.  The one hole excepted is reported by the driver, to a        *)
(* retune's drain that reads nothing else.                                 *)
FilterStep ==
  0 < dsp.filterRun /\ dsp.filterRun < dsp'.filterRun => Continues(dsp'.filtered, dsp.filtered)
BatchStep ==
  0 < dsp.batchRun /\ dsp.batchRun < dsp'.batchRun => Continues(dsp'.batched, dsp.batched)
FilterStateIsContinuous == [][FilterStep /\ BatchStep]_sdrVars

(* "The next valid block then resets overlap/filter state instead of       *)
(* silently joining samples across a device overflow"                      *)
(* (sdr_receiver.cpp:278-279): every hole, whoever read the report of it.  *)
HolesNoticed ==
  [][0 < dsp.filterRun /\ dsp.filterRun < dsp'.filterRun =>
       dsp'.filtered.at = dsp.filtered.at + 1]_sdrVars
=============================================================================
