----------------------------- MODULE WorkerOutputs -----------------------------
(***************************************************************************)
(* What LiveAudioDspWorker hands to the main thread, which draws and       *)
(* plays: spectrum frames and monitor audio, each queued, bounded by a     *)
(* count of those in flight, and acknowledged in two steps; and the        *)
(* demodulator of the decoded region, which runs only while somebody wants *)
(* its audio.  Loading a count and adding to it are one step here: between *)
(* the two the main thread can only make it smaller.                       *)
(***************************************************************************)
EXTENDS Integers, Sequences

CONSTANTS
  MostFramesInFlight,    \* kMaximumSpectrumFramesInFlight
  MostBuffersInFlight,   \* kMaximumMonitorBuffersInFlight
  MostFrames,            \* bound on the frames that are made
  MostQueued             \* bound on the monitor buffers that are queued
ASSUME OutputsAssumption == MostFramesInFlight \in Nat \ {0} /\ MostBuffersInFlight \in Nat \ {0}

VARIABLES
  spectrum,    \* the frames: their count, the queue, and what has been drawn
  monitor,     \* the buffers: their count, how many are queued, the mode
  display,        \* what the main thread is in the middle of
  region       \* the demodulator of the region, and who wants its audio
outputsVars == <<spectrum, monitor, display, region>>

(* line is what the delay line holds, and heard what it held when the last  *)
(* audio was made: nothing, the block before, or an older one.              *)
OutputsInit ==
  /\ spectrum = [count |-> 0, queue |-> <<>>, made |-> 0, dropped |-> 0, drawn |-> 0, told |-> 0]
  /\ monitor = [count |-> 0, queued |-> 0, mode |-> 0]
  /\ display = "idle"
  /\ region = [subscribed |-> FALSE, capturing |-> FALSE, active |-> FALSE,
               line |-> "clean", heard |-> "clean"]

-----------------------------------------------------------------------------
(* Defect: the drops before a frame are not carried over to the next one. *)
PublishedForgetting(s) ==
  IF s.count >= MostFramesInFlight
  THEN [s EXCEPT !.made = @ + 1]
  ELSE [s EXCEPT !.made = @ + 1, !.count = @ + 1, !.dropped = 0,
                 !.queue = Append(@, [number |-> s.made + 1, before |-> s.dropped])]
(* publishSpectrumFrame() *)
Published(s) ==
  IF s.count >= MostFramesInFlight
  THEN [s EXCEPT !.made = @ + 1, !.dropped = @ + 1]
  ELSE [s EXCEPT !.made = @ + 1, !.count = @ + 1, !.dropped = 0,
                 !.queue = Append(@, [number |-> s.made + 1, before |-> s.dropped])]
PublishSpectrumFrame ==
  /\ spectrum.made < MostFrames /\ spectrum' = Published(spectrum)
  /\ UNCHANGED <<monitor, display, region>>

(* The handler of frameProduced.  The display tells by dropped_before where *)
(* the row of the frame belongs.                                            *)
DrawFrame ==
  /\ display = "idle" /\ spectrum.queue # <<>> /\ display' = "drawing"
  /\ LET frame == Head(spectrum.queue)
     IN  spectrum' = [spectrum EXCEPT !.queue = Tail(@), !.drawn = frame.number,
                                      !.told = spectrum.drawn + frame.before + 1]
  /\ UNCHANGED <<monitor, region>>
(* noteSpectrumFrameConsumed(): the count is decremented, and set to zero   *)
(* by a second step if it was not positive.                                 *)
FrameConsumed ==
  /\ display = "drawing" /\ display' = IF spectrum.count <= 0 THEN "frameMissing" ELSE "idle"
  /\ spectrum' = [spectrum EXCEPT !.count = @ - 1] /\ UNCHANGED <<monitor, region>>
-----------------------------------------------------------------------------
(* emitMonitorAudio(): the audio of the region is bounded, that of a track  *)
(* or of the whole receiver is not.                                        *)
Emitted(m, bounded) ==
  IF ~bounded THEN [m EXCEPT !.queued = @ + 1]
  ELSE IF m.count >= MostBuffersInFlight THEN m
  ELSE [m EXCEPT !.queued = @ + 1, !.count = @ + 1]

(* The handler of monitorAudioProduced, and noteMonitorAudioConsumed().     *)
PlayBuffer ==
  /\ display = "idle" /\ monitor.queued > 0 /\ display' = "playing"
  /\ monitor' = [monitor EXCEPT !.queued = @ - 1] /\ UNCHANGED <<spectrum, region>>
BufferConsumed ==
  /\ display = "playing" /\ display' = IF monitor.count <= 0 THEN "bufferMissing" ELSE "idle"
  /\ monitor' = [monitor EXCEPT !.count = @ - 1] /\ UNCHANGED <<spectrum, region>>
CountReset ==
  /\ display \in {"frameMissing", "bufferMissing"} /\ display' = "idle"
  /\ spectrum' = IF display = "frameMissing" THEN [spectrum EXCEPT !.count = 0] ELSE spectrum
  /\ monitor' = IF display = "bufferMissing" THEN [monitor EXCEPT !.count = 0] ELSE monitor
  /\ UNCHANGED region

-----------------------------------------------------------------------------
RegionAudioWanted == monitor.mode = 3 \/ region.subscribed \/ region.capturing

ResetRegionAudio(r) == [r EXCEPT !.active = FALSE, !.line = "clean"]

(* setMonitor() *)
SetMonitor ==
  /\ \E mode \in {0, 2, 3} : monitor' = [monitor EXCEPT !.mode = mode, !.count = 0]
  /\ region' = ResetRegionAudio(region) /\ UNCHANGED <<spectrum, display>>
(* setRemoteAudioSubscribed() *)
SetRemoteAudioSubscribed ==
  /\ region' = ResetRegionAudio([region EXCEPT !.subscribed = ~@]) /\ UNCHANGED <<spectrum, monitor, display>>
(* startDebugCapture(), finishDebugCapture() *)
CaptureTurns ==
  /\ region' = [region EXCEPT !.capturing = ~@] /\ UNCHANGED <<spectrum, monitor, display>>
(* start(), stop() *)
StartOrStop ==
  /\ monitor' = [monitor EXCEPT !.count = 0] /\ region' = ResetRegionAudio(region)
  /\ UNCHANGED <<spectrum, display>>

Aged(line) == IF line = "clean" THEN "clean" ELSE "older"
(* produceRegionAudio(), for a block that may follow a gap.  A demodulator  *)
(* that is not active is configured, and that resets it.                    *)
Demodulated(r, gap) ==
  LET q == IF gap THEN ResetRegionAudio(r) ELSE r
  IN  IF ~RegionAudioWanted THEN (IF q.active THEN ResetRegionAudio(q) ELSE [q EXCEPT !.line = Aged(@)])
      ELSE [q EXCEPT !.active = TRUE, !.heard = IF q.active THEN q.line ELSE "clean", !.line = "last"]
(* drain(): the audio of the region, or of a track. *)
ProduceAudio ==
  /\ monitor.queued < MostQueued
  /\ \E gap \in BOOLEAN : region' = Demodulated(region, gap)
  /\ monitor' = IF monitor.mode = 0 THEN monitor ELSE Emitted(monitor, monitor.mode = 3)
  /\ UNCHANGED <<spectrum, display>>

OutputsNext ==
  \/ PublishSpectrumFrame \/ DrawFrame \/ FrameConsumed
  \/ PlayBuffer \/ BufferConsumed \/ CountReset
  \/ SetMonitor \/ SetRemoteAudioSubscribed \/ CaptureTurns \/ StartOrStop \/ ProduceAudio
OutputsSpec == OutputsInit /\ [][OutputsNext]_outputsVars

-----------------------------------------------------------------------------
(* Of the frames, the count is exactly what is queued or being drawn, so    *)
(* the second step of an acknowledgement never runs, the bound holds, and   *)
(* the display is told of every frame it did not get.  Of the buffers,      *)
(* whose count is cleared while some are queued and is also decremented for *)
(* those that were never counted, it is never more than what is queued or   *)
(* being played: once the main thread has caught up, listening goes on.     *)
(* And no audio of the region is made of a delay line that has missed a     *)
(* block.                                                                   *)
OutputsInv ==
  /\ spectrum.count = Len(spectrum.queue) + (IF display = "drawing" THEN 1 ELSE 0)
  /\ spectrum.count <= MostFramesInFlight /\ display # "frameMissing"
  /\ spectrum.told = spectrum.drawn
  /\ monitor.count <= monitor.queued + (IF display = "playing" THEN 1 ELSE 0)
  /\ monitor.count < 0 => display = "bufferMissing"
  /\ region.heard # "older"
=============================================================================
