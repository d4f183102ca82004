# CW Buddy in TLA+

CW Buddy is a desktop program for Morse (CW) operators. It receives audio or
SDR samples, finds and decodes the signals in them, follows a transceiver and
reporting networks, and can key a transmitter through the control lines of a
serial port. This directory holds its formal models, the configurations that
check them with TLC, and proofs that TLAPS checks. Every definition is
translated from the C++ under `src/src/`; paths below are relative to `src/`.

Contents: [1 The system](#1-the-system) · [2 Modules](#2-modules) ·
[3 Runs](#3-runs-bounds-and-what-they-show) · [4 Fairness](#4-fairness) ·
[5 Proofs](#5-proofs) · [6 What the models showed](#6-what-the-models-showed) ·
[7 Only model-checked, and not modelled](#7-what-is-only-model-checked-and-what-is-not-modelled) ·
[8 Plan](#8-plan)

`tlc -config X.cfg M` checks a run, `tlapm M.tla` the proofs of a module.
`PROJECT.json` lists components, runs, mutants, the lines each definition
stands for, hazards and theorems.

## 1 The system

The main (Qt) thread holds the controllers, the settings and the network
clients; a transmit thread `DirectTransmitWorker` with its precise timer; a
capture thread the audio and the SDR capture worker; a DSP thread
`LiveAudioDspWorker`; an inference thread the local character model. They talk
through queued signals, with three exceptions: the transmit facade makes
*blocking* calls, samples cross in a lock-free ring, and a few counters and one
queue are shared under atomics or a mutex.

### Transmission

| component | state | operations | correct when |
|---|---|---|---|
| `CwTransmitScheduler` (core) | state, phase, span index, lines, next transition, last clock reading, pending release | `start`, `advance(now)`, `cancel`, `emergencyRelease`, `reset` | KEY only inside PTT; one line per call; late calls do not accumulate; KEY bounded; PTT always comes down |
| `TransmitGuard` (core) | state, target call, staged message, confirmation flag, KEY observation | arm, request, confirm, stage, confirm message, begin, finish, tune, observe KEY, fault, reset | only an explicitly confirmed call and message go out; an ignored call never does; an observed KEY is bounded |
| `DirectKeyingAdapter` | which port lines are believed up, open/safe/fault | `openSafe`, `setPtt`, `setKey`, `releaseAll`, `close`, asynchronous errors | a release tries both lines; what it reports is on the wire |
| `DirectTransmitEngine` + worker | adapter, scheduler, timer, TUNE deadline; a cache in the facade with a revision | `configure`, `openSafe`, `start`, `cancel`, `startTune`, `stopTune`, `emergencyRelease`, `close`, timer slot | a line that is up is in the timer's care; an older snapshot never overwrites a newer one |
| `TransmitController` | guard, prepared plan, radio at arming, watchdog | every slot of the transmit pane | what is on the air is what was confirmed, on the radio state that was armed, watched |
| acceptance probe | the step of a loopback measurement, its record | raise and lower each line, read both inputs | a record vouches only for the configuration that was measured |

The controller calls the facade, the facade blocks on the worker, the worker
drives scheduler and adapter from its timer and posts a snapshot per change.
The hard part is what lies between: snapshots still in the queue after a
synchronous call has returned something newer, a radio that changes between
arming and keying, a write to the serial port that fails half-way through a
release, a timer slot that comes late.

### Reception

| component | state | operations | correct when |
|---|---|---|---|
| `SpscRingBuffer`, the pipe | slots, two atomic indices | `try_push`, `try_pop`; a drain by the SDR worker at its start | a bounded FIFO without torn blocks |
| `SdrReceiver`, `SdrCaptureWorker`, SoapySDR backend | device, actual configuration, sequence number, synthetic clock, pending retune | start, stop, `pump`, `requestRetune`, drain | each block is labelled with the frequency its samples came from |
| `IqReceiveValidator`, `IqSubbandDecimator`, `LiveAudioDspWorker` | expectation of the next block, filter state, wanted and applied window, batch | start, stop, window, drain of the pipe | no filter or batch crosses a hole; the window in force is the one asked for last |
| `LiveAudioDspWorker`, outputs | frames and buffers in flight, manual selection, demodulated region | publish, acknowledge, monitor, subscribe | bounds hold across threads; what is left out is declared |
| `LiveAudioDspWorker`, captures; `IqWriter`, `WavWriter`, `IqReplaySource` | open files, sidecar of retunes, limits | begin, write, retune, end; open and read | each sample is read back under the frequency it was received on |
| `LiveAudioCaptureWorker` | device, input identity | start, stop, failure and recovery | every start is answered |
| `ReplayController` (live part) | source mode, live flag, selected input and receiver, centre, window | switches, starts, stops, permissions, settings, reports of the workers | one source at a time, and everyone agrees which |

Commands and reports cross in queues between three threads and carry no
session number; devices take long to open, and fail at any time.

### Signals and text

| component | state | operations | correct when |
|---|---|---|---|
| `CwChannelBank` | tracks, color leases, observations that outlive their tracks | spectrum frame, samples, selection, retune, reset, refinement | a verified stream is not lost to noise, is named by what it said itself, and meets no refinement of another |
| `LocalCharacterFrontendBank` | a few lanes with a frontend each | blocks, reset, enable | no window holds a break; a later lane is newer |
| `LocalCharacterInferenceWorker` | queue under a mutex, generation, cancellation token, model | submit, drain, discard, configure, results | an answer of what was discarded is not shown; the queue never sleeps full |
| `CwCharacterConsensusMerger` | the last readings, the committed text | add a reading | each character once, in order |
| `CwSpotRegistry` and its markers | reports by station, age and feed | add, expire, retune, configure | no marker without a report on the received band; no report for good |

### Radio, settings and services

| component | state | operations | correct when |
|---|---|---|---|
| `HamlibRigctldClient` | socket, one request, a queue, the poll in progress, two timers | connect, poll, read, write, time-out, reconnect | what is published is what the radio had; an open connection never falls silent |
| `Cat4OmClient` | handshake, role, requests in flight, numbered updates | connect, receive, request, reconnect | after a gap it catches up; it keeps no role of a former connection |
| `AppSettings`, radio | provider, pending frequency, window and centre | reports, steps, writes, Radio Sync | steps add up; the window moves with the radio |
| `AppSettings`, profiles | memory, cache, file; scan of receivers | edit, apply, create, select, start | what was applied comes back; nothing is exposed unguarded |
| `DxClusterClient` | server, login, band filter, socket, three timers, failures, batch | settings, session, lines, time-outs | no session outlives its settings; a failing server is tried less and less, but always |
| `CallsignDatabaseUpdater`, `UpdateChecker` | phase, attempts, hash, file | check, download, verify, install | what is offered is not what one has; what is verified is whole |
| `DiagnosticsServer`, `AudioStreamServer` | clients, deadlines, subscriptions, datagrams | accept, token, request, drop, settings, audio | audio leaves only for who is let in; gaps are declared |
| `ControlLeaseManager` | holder and end per rig | acquire, renew, release, expire | a promise is kept to its end and no longer |

Not modelled, and out of a model checker's reach: the decoder, the event
lattice, the segmenters, the rescoring and the spectrum are arithmetic on
floating-point numbers. Tables, forms, presentation and file formats hold
little state. `PROJECT.json` lists every component with its reason.

## 2 Modules

An `...Ops` module holds the operations of a component as operators on a
record, so that a larger model can use the component as a part of its own
state; the module without a suffix adds variables, actions, the
specification and the properties; `MC...` puts the parts of a run together and
gives the constants that a `.cfg` cannot write; `...Proofs` holds the theorems.

| module | models | state |
|---|---|---|
| `CwTransmitSchedulerOps`, `CwTransmitScheduler` | `core/src/cw_transmit_scheduler.cpp` | `sch`: the object's fields; `origin`, `keyedAt` are history |
| `TransmitGuardOps`, `TransmitGuard` | `core/src/transmit_guard.cpp` | `guard`: the fields; `okCall`, `okMessage`, `heldSince`, `lastSeen` record what the operator confirmed and what was observed; `ignored` is the ignore list |
| `DirectKeyingAdapterOps` | `direct_keying_adapter.cpp` | a port: believed lines and, as ground truth, `wire`; `device` says which writes fail now |
| `TransmitLimits` | the limits compiled into the transmit path | constants that the other transmit modules share |
| `DirectTransmitEngineOps`, `DirectTransmitEngine` | the worker in `direct_transmit_engine.cpp` | `keyer`: scheduler, port, timer, flags; `keyerClock` its clock; `keyedSince` is history |
| `TransmitStationOps`, `TransmitStation` | `transmit_controller.cpp` and the facade of `direct_transmit_engine.cpp` | `s`: guard, plan, radio, watchdog, the facade's cache, the queue of snapshots, the worker |
| `AcceptanceProbe` | `direct_keying_acceptance_probe.cpp` | functions from a bench to a measurement |
| `StationProfiles` | profiles in `app_settings.cpp`, wiring in `main.cpp` | what is in memory, in the cache of QSettings and in the file; the scan; the controller's source |
| `BoundedFifo` | abstract: a bounded queue | `queue`, `taken` |
| `SpscRing` | `spsc_ring_buffer.hpp` and its uses as a pipe | both indices, what each thread last loaded of the other's, the slot it is copying |
| `SdrCapture` | `sdr_receiver.cpp`, `sdr_capture_worker.cpp`, `iq_receive.cpp`, the IQ path of `live_audio_worker.cpp` | device and its queue as ground truth; receiver; pipe; DSP |
| `LiveReception` | the live part of `replay_controller.cpp` with both capture workers and the DSP worker | one record per object, three queues of signals |
| `WorkerOutputs` | what `live_audio_worker.cpp` hands out | counts, queues, and what the display is doing between the two steps of an acknowledgement |
| `DebugCapture` | captures in `live_audio_worker.cpp`, `iq_writer.cpp`, `wav_writer.cpp`, `iq_replay_source.cpp` | writers, files as they are on disk, a player |
| `ChannelBankOps`, `ChannelBank` | `cw_channel_bank.cpp` | `bank`, `retained`; `said` is history |
| `CharacterLanes` | lanes in `local_character_decoder.cpp`, `cw_character_lane_frontend.cpp` | lanes, the bank's generation, transcripts |
| `CharacterConsensus` | `cw_character_decoder.cpp` | the merger, the reading in the making |
| `CharacterInference` | `local_character_decoder.cpp`, its use in `replay_controller.cpp` | queue, worker, event queue, controller |
| `SpotRegistry` | `cw_spot_registry.cpp` and the markers in `replay_controller.cpp` | reports, markers, a clock that may be set back |
| `RadioControlOps` | `radio_control.cpp`, `frequency_plan.cpp`, `cat4om_protocol.cpp` | operators on states, capabilities and frequencies |
| `HamlibClient` | `hamlib_rigctld_client.cpp` | `hl`: the client; `panel` the radio; `hlSeen` what it had since the poll began |
| `Cat4OmClient` | `cat4om_client.cpp` | `cat`: the client; `group` the server; messages both ways |
| `RadioSettings` | frequency control in `app_settings.cpp` | `rs`: the settings; `rsRig` a rig behind OmniRig; history of requests |
| `ControlLease` | `remote_control.cpp` | leases, the clock, what was promised |
| `DxCluster` | `dx_cluster_client.cpp` and its configuration by the controller | `c`: the client; `stream`: lines on their way |
| `CallsignDatabaseUpdater`, `UpdateChecker` | the files of that name | the object, what is in flight, the file and its record, the provider |
| `DiagnosticsServer`, `AudioStreamServer` | the files of that name | clients, settings; subscribers, datagrams, what each hears |
| `MCTransmitStation`, `MCReceive`, `MCNetwork`, `MCServices` | — | the runs of section 3 |

How they compose: `TransmitStation` instantiates the guard, the scheduler, the
adapter and the worker's operations, the same definitions that the smaller
modules check on their own; `SpscRing` implements `BoundedFifo`, which is what
`SdrCapture` takes the pipe for; `DiagnosticsServer` extends
`AudioStreamServer`, whose subscriptions it makes and drops; `StationProfiles`
extends `AcceptanceProbe`, whose measurements it records; `HamlibClient`,
`Cat4OmClient` and `RadioSettings` share `RadioControlOps`; `LiveReception`
takes both workers at the level of their signals. The `MC` modules put parts
that share no state side by side: `part` is chosen at the start, and a
behaviour works that part and leaves the others as they are.

Abstractions worth knowing:

- *Time* is counted in ticks. `MaxU64` stands for the largest value of the
  nanosecond clock, so that additions overflow, and are refused, where the code
  refuses them.
- *Data*: a callsign or message is a model value, its normalization a function
  (`NormalizeCall`, `NormalizeMessage`, constants about which the proofs assume
  only a type), a plan a sequence of spans, a block a chunk with a label, a
  version of a file its number.
- *Calls that block* (`BlockingQueuedConnection` with a wait) are one step.
  The main thread can do nothing else meanwhile, and the worker does nothing
  but the call.
- *Serial writes* succeed or fail as `device` says at that moment; a device may
  change its mind between any two steps, and may report an error of its own accord.
- *Atomics*: an acquire load returns any value not older than one the thread
  already knows. The copy of a slot is the interval between two steps.
- *Device samples* know when and on which frequency they were received; the
  program sees the label, the sequence number and the time it wrote itself. In
  a capture a sample stands for its frequency, or for its rate.
- *Lines and messages* of a server are of the kinds that the parser tells apart.
- *Signals*: the channel bank's peaks, the gates of its verification and what
  a track has spelled are inputs, any of a small set in any order. The local
  model's answers are readings of a few characters that may miss one, be
  unsure of it or place it late.
- *Settings* that are treated alike are one field. QSettings is external: a
  cache the process sees at once, and a file that may refuse to be written.

## 3 Runs, bounds and what they show

Four runs hold; a further eight must fail (section 6).

| run | states | parts, worked one at a time |
|---|---|---|
| `station` | 330,076 | `station`: controller, facade, snapshots, worker, device and radio together; `profiles`: settings, loopback test and the wiring to the controller |
| `receive` | 1,047,128 | `ring`, `sdr`, `reception`, `lanes`, `consensus`, `inference`, `bank` |
| `network` | 404,830 | `hamlib`, `cat4om`, `settings`, `lease`, `cluster`, `spots` |
| `services` | 346,541 | `scheduler`, `guard`, `worker`, `updater`, `checker`, `observers`, `capture`, `outputs` |

A run asks a question of each of its parts. The parts share nothing, so the
states of a run are the sum of theirs. Each property below has a mutant of the
model of the code that breaks it.

### station

Two messages of which one cannot be encoded at the slower speed, three radio
states, a device that may refuse to lower KEY. `MaxQueue = 1`: an act of the
operator meets at most one undelivered snapshot, which is enough for one to be
overtaken by a synchronous answer; a second would be overtaken in the same way.
`HealthPoll` exceeds every output, so that polls do not multiply the states;
the poll itself is in `services`.

- `OutputIsAuthorized`: what is keyed was granted by the guard, is the plan of
  the confirmed message at some speed of the operator's, and goes out on the
  radio state that was armed.
- `StationInv`: the plan is that of the message, an output is watched by the
  controller too, and the facade's copy of the worker catches up: a late
  snapshot never overwrites a later answer.
- `OutputEnds`: what was granted ends without an act of the operator.
- `AcceptanceIsMeasured`: keying is taken for validated only with a record of a
  passed loopback of exactly the stored configuration, through edits, changes
  of profile, failed writes and restarts. Benches: every plug (straight,
  crossed, shorted, open), a port that does not open, a line that refuses to fall.
- `ProfilesInv`: no service is exposed on a routable address without a token,
  however the state came about; a scan for a saved receiver is answered; what
  was applied or written through is what the next start reads.
  Two profiles, one receiver that comes and goes, one failed write and
  `MostEdits = 4`: an edit in one profile, a change to the other, an edit there
  and the way back. `page` picks which group of settings a behaviour edits:
  the groups are disjoint fields of the same record.

### receive

- **ring**: capacity 3 (four slots, so both indices wrap and the ring is full,
  empty and in between), three blocks. `RingInv` (indices and the slot each
  thread is in), `FifoSpec` (the ring implements `BoundedFifo` with `queue`
  mapped to the slots between the indices).
- **sdr**: a driver queue of one chunk that overflows, a pipe of two that fills,
  three frequencies of which the outer two are out of each other's reach; windows
  are asked for on all three, the device is set to the outer ones; `DrainReads` above
  `QueueDepth`, as the comment on the drain's bounds claims; three chunks: one before a
  hole, one lost, one that follows. A device may refuse a retune and have
  moved all the same, and each block may carry the device's
  time or one that is counted on. What the program cannot know is history in the
  chunk: that it was received while the device was elsewhere than it was last set
  to (`astray`), and that the hole before it was reported to a drain which read
  nothing else, and no time tells of it (`unmarked`). `LabelsAsSet`: a label is the
  frequency of the samples, but for chunks received astray. `WindowInForce`: IQ is
  decoded under the window asked for last. `FilterStateIsContinuous`: filter and
  batch never span a hole or two frequencies, but for chunks that are unmarked or
  astray. `LabelsTrue` and `HolesNoticed`, which make no such exception, are two of
  the runs that must fail, on the same instance.
- **reception**: two inputs, one receiver, two centres; three sessions (start,
  switch, start again) is the smallest number in which a report of an earlier
  session can meet a later one; `MaxWaiting = 1` lets the operator act only
  when at most one command waits. `ReceptionInv`: the ring has one producer, of
  the selected source once commands have been carried out; when every queue is
  empty the controller's picture is what the devices do, and the decoder's
  window is within the receiver's. The last two exclude sessions in which a
  report of an earlier one was handled, and those that were not given the
  settings as they are: in both the code leaves the parties apart, see section
  6. `StartAnswered`: a start does not hang.
- **lanes**: two tracks for one lane, so that one is always passed over or
  evicted; graces of 0 and 1 block, windows of two rows with a stride of one;
  four runs of a lane. `LanesInv`.
- **consensus**: three characters sent, three readings retained, six readings
  that may miss, doubt or straggle, two lanes. `TranscriptTrue`.
- **inference**: windows of two tracks and of two source modes, two of them
  pending at most, four submitted, three requests of the operator, a model that
  loads or does not.
  `InferenceInv`: what is pending is of the generation in force, a queue with
  work has a drain on its way, and the controller shows the model that is there.
- **bank**: two tracks and two memories at most (`TrackCapacity`: the memories
  are as many as tracks may be addressed, 128 in the code), four places of which neighbours share a color
  lease, so that a third peak meets a full bank; three steps from the empty
  bank, from one that has verified two streams, and from one that verified a
  stream and was then pointed at the place beside it. Three steps are what it
  takes to give up a track, take its place and be named.
  `BankInv`; `StreamsLast`: a verified track goes only for its age,
  a retune or a reset, and a name gives way only to a corroborated one, unless
  its memory was given away: by a retune that leaves it no frequency, or, where
  memories are full, to an older track that has none.

### network

- **hamlib**: a queue of three, one line ahead, two frequencies that the
  operator turns to, a daemon that answers late, wrongly, out of turn or not at
  all. `HamlibInv` (an open connection has a timer that will end the silence; a
  queued write is of this connection), `PublishesWhatWasSeen` (what a poll
  publishes is what the radio had since the poll began).
- **cat4om**: two radio states, two updates and messages in flight, two
  requests, updates left out, other instances, lost mastership. `Cat4OmInv`:
  the client is never left mute, keeps no role of a former connection, and
  once all is read its radios are the server's.
- **settings**: rigs that name both VFOs, one or none, split and not, and one in
  split whose receive VFO is neither selected nor writable; two frequencies to
  tune to; three providers. `RadioSettingsInv` (a pending request is what the
  operator's steps add up to; a receive write leaves the transmit frequency
  alone when the rig says which VFO transmits, unless it can only go to the
  VFO that is selected), `WindowMovesWithRadio`. `RxWriteLeavesTx`, without that
  exception, is a run that must fail.
- **lease**: two clients, two rigs, requests below, within and above the
  bounds, a clock past every end. `KeepsItsPromise`.
- **cluster**: two servers (one that filters by band), two callsigns and one
  that is none, two bands and an unknown one, so that every kind of change to a
  session occurs. `MaxFailures = 3` reaches the cap of the delay (15, 30, 40);
  two lines in flight allow a prompt behind a prompt and a spot before a login.
  `SessionIsCurrent`, `ClusterInv`, `KeepsTrying`.
- **spots**: two stations, one received band and reports that cannot be placed,
  two reports at most so that the cap is reached, stamps before, within and
  after the clock's range, a clock set back once. `SpotsInv`: a marker has its
  reports on the received band, and every report can still expire.

`MCNetwork` also evaluates `ParsedAsTyped`: `parse_frequency_value()`, which
reads from left to right and compares before it multiplies, agrees with the
reading of the whole text for every text of up to five symbols.

### services

- **scheduler**: every sequence of calls with good and bad plans (adjacent
  marks, too long, ending on a space, a wrong total) and configurations (one
  with a lead beyond its limit); starts near `MaxU64 = 9` overflow the clock.
  `NoCumulativeDrift` (the next boundary is the start plus the *planned*
  durations, however late the calls came), `ScheduleInv`,
  `PttEventuallyReleased`.
- **guard**: every order of operator acts, with the ignore list changing in
  between; calls include a malformed one; `MaxTime = 4` is longer than either
  deadline (1 and 2), so a KEY is observed inside, at and past both. `GuardInv`,
  `TransmitsOnlyConfirmed`.
- **worker**: the worker over a serial device that fails. `EngineSlip = 2` exceeds
  the scheduler's tolerated lateness (1), so both branches occur; the lead (3)
  exceeds `HealthPoll` (2), so the timer also expires early;
  `StartTimes = {0, 7}` with `MaxU64 = 9` reaches both ends of the clock. The
  clock is put back to 0 when nothing is timed: what it reads then is not used.
  `EngineInv` (every raised line is in the timer's care, KEY is never bare or
  down too long, what is reported is on the wire), `EndsReleased` (when an
  output ends, a line stays up only if the device refuses).
- **updater**, **checker**: two versions, so that a reply may be of the one or
  the other, two attempts, one redirect, a stop between any two steps, a file
  changed by others. `DownloadsInv` (the record is true of the file, what is
  offered is not what one has, a verified download is whole and of the edition
  whose checksum was read), `UpdaterSettles`.
- **observers**: two clients of two peers over two addresses, one datagram in
  flight, blocks of two chunks, three settings. `ObserversInv`,
  `GapsAreAccounted`.
- **capture**: four samples, three segments, two blocks of audio, two rates,
  a bound that is reached, writes that fail and a crash at any point.
  `CaptureInv`.
- **outputs**: two frames and two buffers in flight, five frames. `OutputsInv`.

`CHECK_DEADLOCK FALSE` is set in `receive` and violation runs, where the bounds
on chunks, sessions or steps let a part come to its end; a stopped receiver is
a legal rest.

## 4 Fairness

- `services`: weak fairness of a call to `advance` that is due. The engine
  re-arms its timer while a line is up: `EngineInv` is the justification. Weak
  fairness of a reply to a request of the updater, which carries a transfer
  time-out in the code and so is answered, if only with an error, and of its
  retry timer.
- `station`: the main thread's event loop receives what is queued, the transmit
  thread's loop runs a timer that is due, and the clock advances. No fairness
  for the operator, the radio, the device or the controller's own watchdog. The
  first two are written with their guards in place of `ENABLED`, to which they
  are equal because each of these steps changes the state.
- `network`: weak fairness of the cluster client's reconnect timer alone.
  Nothing is assumed of a server or of the network.
- `receive`: each of the three event loops of the reception gets to what it
  holds. Nothing is assumed of the operator or of the devices, a call to a
  device ends.

Safety properties need no fairness.

## 5 Proofs

| module | proves about |
|---|---|
| `InductionTheorems` | natural numbers: the induction and the recursion that the others use |
| `ComponentProofs` | the scheduler, the guard, the DX cluster client, the spots, the control lease |
| `TransmitWorkerProofs` | every call of the keying adapter and the worker, and the worker with an owner that calls it in any order |
| `TransmitStationProofs` | the controller with the guard, the worker and the queue between them; the settings of the profiles and the loopback test |
| `ReceiveProofs` | the ring, the SDR's path, who is receiving, the lanes of the local model, the inference worker |
| `RadioProofs` | frequency arithmetic, the two rig clients, the radio's settings |
| `ServicesProofs` | database, download, observers and their audio, what the live worker hands out, captures |

All obligations of these modules are proved, from nothing but the named
assumptions on constants, which say that bounds are naturals, inputs subsets of
their types and "none" no input, and what is listed here. The largest
strengthenings, `StationIInv`, `CatIInv`, `CaptureIInv`, `ReceptionIInv`, `KeyerInv` and
`HamlibSeenInv`, were model-checked, their types apart, on the instances of
their runs before they were proved.

**Induction.** The library's induction theorems take an operator, which no
installed prover can instantiate. `InductionUpTo` says the same of a *set* of numbers,
from the well-foundedness of `<` on `Nat`; `RecursionUpTo`, that a function
with given steps exists, from which a recursive definition gets its equations;
`LeastOfFinite`, that a finite set has a least member by a measure. What is to be
shown by induction is written as a set first. Operators that a proof needs
unfolded are recursive functions or quantifiers.

**Keying worker** (`EngineIsSafe`, `OutputsEndReleased`). For any configurations,
plans, start readings, slip of the timer and whatever the serial device refuses
or reports of its own accord, `EngineInv` holds and every output ends with its
lines released. `EngineInv` is not inductive in two places. That KEY
is released in time asks that a running schedule *has* a validated plan and that
its KEY is that of its span (`Keeps`), so that KEY is only raised at a boundary
before which it was not, and the next boundary is then within the longest
element (`Changes`); and that the timer and the deadline it stands for are
both within the limit of when KEY was raised (`KeyLimited`). That KEY is never
bare asks what each write finds: a port that is not open knows nothing, one that
is open and sound knows both lines, and what is known is on the wire (`Sane`).
A message may be started after the adapter was opened during TUNE, with the TUNE
flag left set: then KEY is not raised (`OnePurpose`), and the timer's next
slot faults. Every call is shown to make of a worker that is tended one that is
(`Turns`); a call that ends an output ends in `Rest` with both
lines put down as far as the device lets them (`Ended`), and so does every fault (`Halted`);
`KeyerInv` joins these facts. `DirectTransmitEngine` and the station instantiate the same operators; the
lemmas `SameScheduler`, `SameAdapter` and `SameWorker` say that they are.

**Transmit station** (`AuthorizedAlways`, `StationAlwaysTrue`). For any calls,
messages, speeds, encodings, radios, limits and whatever the serial device
refuses. `OutputIsAuthorized` relates the believed lines on the worker's thread to
the guard on the main thread, and is far from inductive: the guard leaves
"Transmitting" when a snapshot says that the output ended, and snapshots are
late. `StationIInv` holds four facts that carry it:
- the *worker* (`Worker`): a line believed raised is in the care of the timer,
  the timer runs only for an output, a schedule lifts lines only as its plan
  says, and a faulted worker is stopped. Each call of the worker has a lemma
  that says which it returns: at rest, or making exactly the output asked for;
  `Continues` says the same of the timer's slot. They hold whatever the
  device refuses, because no line is believed raised after a release, only
  faulted;
- the *views* (`Views`): a snapshot that no answer has overtaken never calls
  ended an output that goes on (`Seen`); the newest is the truth (`Current`); the
  fresh ones are a suffix of the queue. Without the first, an old snapshot
  could end a transmission in the guard's books alone;
- the *grant* (`GrantedFor`): the timer runs only for what the guard grants at
  present, and for a message only with an encoding of the message it holds;
- the guard (`Holds`): what each state may remember, TUNE's return included.

`SameRadio` and `Watched` are shown with them: armed means the radio it was
armed with, and a running timer has the controller's watchdog. The proof has
one lemma per slot (`...Keeps`), built along the calls the slot makes.

**Scheduler** (`ScheduleInvariant`, `KeyAlwaysInsidePtt`, `PttIsNeverStranded`,
`KeyDownIsBounded`, `OneLineAtATime`, `DriftNeverAccumulates`, `TypeCorrect`).
For every configuration, plan and clock range. `KeyInsidePtt` is not inductive:
an advance raises KEY without a look at PTT, and reads a span by an index that
only the validated plan keeps in bounds. `ScheduleInv` adds: a running schedule
has PTT up and a valid plan; the span index is inside it; KEY is what the span
says; KEY falls due within the limit of its own rise. The last part gives the
bound on KEY, whatever the lateness budget, because a late call is refused
before it can extend the mark. For the drift, `OnTime` says that the next
boundary is the start, the lead and the sum of the units before it, whatever
the lateness of the calls; `UnitsAddUp` gives that sum its equations, and a step
moves it by one span.

**Guard** (`GuardInvariant`, `ConfirmedIsByOperator`, `KeyWatchdogHolds`,
`OnlyConfirmedIsTransmitted`, `IgnoredIsNeverTransmittedTo`,
`GuardTypeCorrect`). For every set of calls and messages and every
normalization. The strengthening relates each state to what it may remember:
no call outside a QSO, no message before confirmation, and for TUNE what it
will return to. Without that last part TUNE could return to a confirmed state
that nobody confirmed. The proof follows the operations: each one, as an
operator on a record, preserves `Consistent` with the record of the operator's acts.

**Ring** (`RingWellFormed`, `SlotsKeptApart`, `RingIsFifo`). For every capacity
and every set of blocks, if one thread pops. The invariant is about *old*
indices: what the producer knows of the tail lies behind it and what the
consumer knows of the head lies between the two. The one slot kept empty then
separates the threads. `RingIsFifo` is the refinement, step by step: the end of a push
appends, the end of a pop takes the head, the rest stutters.

**SDR** (`LabelsAreTrue`, `FilterIsContinuous`, `WindowIsInForce`). For any
frequencies and depths of queues, and nothing is assumed of the device but
that its queue is shorter than a drain. The strengthening for labels
(`LabelInv`) is that everything *still in the driver's queue* that was not received astray
was received at the frequency of the next label, which the drain after a retune
establishes because `DrainReads > QueueDepth`. For continuity, `ExpectedInv`
says that what the filter and the batch hold was received on the label last
filtered, and that a block of another label, if one was seen since, was out of the
window's reach; and `ChainInv` follows the chunks from the driver's queue, as
far as a block can tell of it (`Source`), through the pipe to the validator: a
block that has the number and the time expected after the one before it holds the
next chunk received, or is unmarked (`Linked`), and so does the block that the capture
thread sends next (`StillToCome`) and the one that the validator takes next
(`Follows`). Every step of the capture thread that sends nothing keeps this
(`Preserves`). The window needs neither: while IQ is decoded, the
window applied is the window wanted (`WindowKept`).

**Inference** (`InferenceIsInForce`). For any tracks and length of queue. Four
facts: what waits is of the present generation and one window of a track
(`InForce`); a drain is on its way or at work exactly if one is scheduled, and only one,
so that no wakeup is lost or asked for twice (`OneDrain`); a "ready" that no
later word of the model follows, in the mail or shown, is right
(`TellsTheModel`); windows are prepared only for a model that is shown
(`Prepares`).

**Reception** (`ReceptionAgrees`). For any inputs, receivers, centres,
windows and lengths of the queues. `ReceptionInv` speaks of the moment when
nothing is on its way; the strengthening says what each party *will* have been
told once its queue is read to the end. `WillRun` and `WillHear` do so of the DSP
worker, by the last signal in its queue that says anything of running or of the
window; `Switches` of the capture workers, by the last command that switches, and
`Delivers` when none is left, by what they hold and the reports on their way to the
controller. That two sources never fill the ring rests on the shape of the queue
of commands: a start comes directly after the stop of the other source, of which
at most one is carried out already (`Paired`); a report of a recovery is
followed at once by that of the start it led to (`Recoveries`); and what is carried
out or reported is of this session or, while a switch is on its way, of one
before it (`OfTheirTime`). `Clean` is the complement of what section 6 finds: no
report of an earlier session was taken for this one. Once it fails it stays
failed until a session begins. So the theorem says of every session that one
source fills the ring, and of those alone that were not crossed that the
parties agree; of one in which a setting was changed or a retune refused, that
they agree whether there is reception and not on which.

**Lanes** (`LanesKept`). For any finite set of tracks, any bounds and any order in
which the table holds the lanes. One block serves the tracks that rank first
one after the other; `Banks` is the set of what the bank may be between two of
them, and `RecursionUpTo` and `InductionUpTo` carry it along. Distinct runs need
that the number of a new lane or of a new run is above all that went before; the
bound on the number of lanes, that the lane which makes room is one of the
table, which exists by `LeastOfFinite`. No transcript follows a bank yet to come,
because a window is of the generation in force when it is made, and a
generation is never taken back.

**DX cluster** (`SessionAlwaysCurrent`, `ClientIsAwake`, `ClusterTypeCorrect`).
For any servers, callsigns, bands and bounds. `SessionIsCurrent` alone says
nothing of a client without a connection; `ClusterIInv` adds that such a client
holds the empty session, is not logged in and has no line on its way to it, and
that only an enabled client holds a connection. `Awake` adds that an enabled
client may connect, and has either a connection under the idle timer or the reconnect
timer with the delay for its failures, a table given its equations by recursion.

**Spots** (`SpotsAreReported`). For any stations, feeds, bands, limits and
clocks set back at will. The store is shown unique by feed and station and
within its limit (`Bounded`): what is added replaces its like, and the oldest, which
exists by `LeastOfFinite`, gives way. What is shown is of what is stored
(`ShownOf`), and no report is younger than the latest time by more than the window
(`Ages`).

**Hamlib** (`ConversationIsBounded`, `PollTellsWhatWasSeen`). For any panels, commands and bounds, and
whatever a daemon answers. That an open connection always has a timer is not
inductive: after a reply the poll timer is started only if nothing is left to
send. `Polling` counts the reads of a poll still to come, and says that they stand
first in the queue; so a poll that is not complete has a request to send.
That `PublishesWhatWasSeen` holds asks which lines on their way are an answer,
and to what (`Answering`): none are, or they are all that is missing from the answer to
the request that is out, one behind the other, and then no read is on the wire. So a result
nobody asked for finds either a write, which it ends early, or a read without a
line, which fails. The reads go out in the order of the five (`PollInOrder`), so
a poll is published with its split state just read and the receive frequency
read since the poll began (`Witnessed`); and a poll begins only where no answer
is on its way, so what was seen before it may be forgotten.

**CAT4OM** (`GroupIsFollowed`). For any radios and any number of messages in
flight. What the client will hold is what the *last* message in flight that
says something says, and if none does, what it holds (`Tells`); a message is
taken as what it says of the mastership and of each radio to a client that
waits for given answers. The numbers of updates go up, none is missing unless
one was left out, and a client that knows of a gap is owed a snapshot until its
answer is on the way (`InOrder`, `Complete`, `Owes`); request numbers are unique among
requests and answers (`Answerable`). A welcome about to be read makes a client
that tracks the group. Without a connection, nothing of these remains (`Alive`).

**Radio's settings** (`RequestsAddUp`, `WindowFollowsTheRadio`). For any
rig, named and writable as it may be, reports of the other providers, profiles,
frequencies and offsets. The strengthening adds the shape of the settings and of the rig, that
what the other providers hold is valid, and that a frequency once read is held only
with a valid state. A setter may leave, before its refresh, a state of a
radio that the settings no longer allow (`Prepared`, as against `Held`); the
refresh takes it back, and follows the radio exactly if what was told of it
changed (`Kept`). The window is at the radio's
frequency if that can be tuned: beyond `MaxRf` the centre is held back.

**Database and download** (`DatabaseIsDescribed`, `DownloadIsVerified`,
`DownloadsAreTrue`). For any versions, editions and attempts. `UpdaterIInv`
says of the *record* what holds of a file only the program has written, that one
request is under way, and how many attempts are left. `CheckerIInv` says the
same of the file on disk through a download in pieces: what is offered is whole, what is
under way is of the release it was begun for. The third theorem is both, in
the instance of the run.

**Observers** (`ObserversAreLetIn`, `GapsAreCounted`). For any peers, rules and
limits. A client is tied to what the server knows of it and the audio server to
the clients that exist, so that no subscription outlives an authenticated
connection. For gaps, `Due(i)` is the i-th datagram that a subscriber is yet to
receive, the one in the making included; each says exactly what is missing since its
predecessor (`Accounted`), though not across the beginning of a subscription.

**Outputs** (`OutputsAreAccounted`). For any limits and any number of frames.
Two conjuncts are not inductive. That the display was told of every frame it
did not get needs `Follows`: each frame still queued says how many were left
out before it, counted from its predecessor or from what was drawn last, and
what was dropped since the newest is in the counter. That no stale line of a
region is heard needs that an active demodulator's line has missed nothing
(`RegionInv`). The count of buffers may be negative, but only while the display
is between the two steps of an acknowledgement (`BuffersInv`).

**Captures** (`ReplayedTruly`). For any frequencies, rates, sizes and limits,
any write that fails and a crash at any point. A sidecar, on the disk or still
in the writer, *marks* its data (`Marks`): its segments are in order, and the
first sample after each, if there is one, was received on that segment's
frequency. Every prefix of the data keeps that, and so do a failed write of a
part of a block and a crash. That *all* samples under a segment are its own
(`TellsOf`) holds only while there is room for retunes, and of the
sidecar on the disk only once it is written as the writer closes; before that it tells
of the first segment. The source is between two retunes and never reads past the next
(`Plays`), so that a block comes from under one segment. Room for a
single segment, where no retune is ever marked, is among the values.

**Settings** (`OfferedAsMeasured`, `SettingsComeBack`). For any profiles,
receivers, sound devices, benches and lengths of the list of servers, any number
of writes that fail and the edits of the file that are modelled. A
load is first shown to depend on the keys alone (`LoadedIs`), whatever memory
held. `AcceptanceIsMeasured` is not inductive: what is stored in *every*
profile, in the process and in the file, must claim no acceptance that was not
measured (`ProperlyStored`), since any of them may be loaded; and a measurement
that passes is of a straight plug (`PassedIsStraight`), since another shows as
soon as PTT is raised. That settings come back needs that an input type which
asks for a receiver has one: else a discovery that finds none would change the
type of settings it leaves as applied. A settled profile then has three equal
copies of all but the mark of the wizard (`SettledTruly`).

**Lease** (`PromiseIsKept`, `ControlPassesLate`). For any clients, rigs and
bounds. `PromiseInv` adds to `KeepsItsPromise` that a promise which still runs
is the lease that is stored, so that an expiry, whoever causes it, finds only
leases whose promise has ended.

**Radio arithmetic** (`DialReachesTheAir`, `PlanIsWhole`, `StepsReturn`). Facts
about the operators of `RadioControlOps` for every width `MaxHz`: dial and
offset are inverse, a plan is given as a whole or not, steps add up and are
refused exactly where they would leave the range.

## 6 What the models showed

Eight disagreements between a sentence in the repository and the code are runs
that must fail, listed under "findings":

1. `ring_drained_at_start`. `spsc_ring_buffer.hpp:10` and
   `replay_controller.cpp:1116-1118` say single consumer;
   `sdr_capture_worker.cpp:41` pops too, while the DSP worker may be running.
2. `refused_retune_mislabels`. `CHANGELOG.md:66` says that a retune no longer
   labels samples with a frequency they were not received on, and
   `sdr_receiver_test.cpp:253-257` that a refused one leaves the stream
   unchanged; `soapy_sdr_backend.cpp:365-373` sets the device before it
   refuses what it reads back.
3. `overflow_drained`. `sdr_receiver.cpp:277-279` says that the block after an
   overflow resets the filter; the drain of a retune counts samples, and
   reads an overflow without any as nothing (:250).
4. `later_lane_rejected`. A test says that a newer front end starts a fresh
   consensus; a lane counts its own breaks in the number that a lane made anew
   starts again, so a later lane can have an older key and be ignored.
5. `committed_twice`. A test says that overlapping readings do not duplicate a
   confirmed prefix; a last character read a little later each time is
   committed again once the reading that committed it is no longer retained.
6. `colors_shared`. `docs/architecture.md:350` says that concurrent identities
   own distinct colors; a demoted stream's lease is taken by its neighbour, and
   re-verified it looks only at lower numbers.
7. `profiles_not_isolated`. `docs/requirements.md:377` says that profiles
   isolate their settings; the source mode in force is written under the keys
   of the profile that was just selected.
8. `receive_write_moves_transmit`. `docs/manuals/operator-guide.md:1372-1373`
   says that receive edits target only the receive VFO; for a receive VFO that is
   not writable, `frequency_plan.cpp:246` takes the selected one, which may be
   the one that transmits.

Met while modelling, and not runs of their own:

*Transmission.*
- `docs/architecture.md:591-592` asks for an explicit reset of a latched fault;
  `transmit_controller.cpp:189` (a change of hardware settings) and `disarm()`
  leave it without one. `docs/manuals/operator-guide.md:522-525` promises a
  disarm for a changed port; `:184` takes an armed idle station for active,
  and releases in an emergency and faults.
- Opening the adapter during TUNE stops the timer and leaves the TUNE flag, so
  the worker stays busy with both lines down until it is configured, opened or
  closed. `arm()` while already armed closes the adapter, because the guard
  refuses, while the guard stays armed.
- A cancel that meets a message's natural end fails, and faults.
- An asynchronous serial error of an idle port is not published: the facade's
  copy of "open and safe" stays as it was.
- A main thread that stalls can trip the KEY watchdog without need, since
  snapshots of KEY are only received there.

All of these end with the lines down: `OutputIsAuthorized` and `EngineInv`
hold with them in the model.

*Reception.*
- Reports carry no session: a late `failed` stops the DSP of the session that
  followed, a late `started` shows reception in the newly selected mode, a recovered
  input overrides a later selection, a late permission returns to audio.
- Settings that change between a start and its `started` are neither retuned
  nor restarted. Of a dial moved in between the window is published all the same, so that
  receiver and decoder do not "move together" (`replay_controller.cpp:2691-2695`):
  the reception ends settled, live and with a window that the decimator refuses.
- Two tracks that take turns at one place have their transcripts frozen again at each
  turn (`cw_channel_bank.cpp:3185`), where `docs/architecture.md:343-344` says
  exactly once: the prefix is the composed text, and the successor may be
  the track that wrote its beginning.
- Settings keep the decoder window one kilohertz from the edge (`main.cpp:431`), the
  controller two (`sdr_receiver.hpp:90`), though the comment at
  `replay_controller.cpp:1713-1718` speaks of one rule. Both are in the model.
- The "hard ceiling on the backlog" of monitor buffers
  (`live_audio_worker.hpp:180`) does not hold once `setMonitor` has cleared the
  count while buffers are queued; `OutputsInv` states what does.
- The WAV file of a region declares the rate of its first block, though the
  rate follows the window (`live_audio_worker.cpp:1609`). After a crash a WAV
  file declares no samples and a sidecar lacks the later retunes; a write error
  of a WAV file is not noticed. A capture begun within the second of the one
  before truncates its files; one asked for between a stop and its handling
  waits for the next session.
- Live DSP tags its windows with source mode 0, so the controller drops the
  local model's results in direct SDR mode (`replay_controller.cpp:992`).
- `discardPending` raises the generation first and cancels outside the lock;
  `LiveAudioDspWorker::configure` resets the decoder and not the front ends; a
  late hypothesis after `resetDecoder` makes a consensus entry again;
  `acceptCharacterRefinement` emits the snapshot of before.
- A parked track matched by a peak at the band's edge or selected again stays
  parked; a lease is dropped by a shift below zero while its track lives on; a
  muted predecessor's text is frozen as empty; where memories are full
  (`cw_channel_bank.cpp:3164-3170`) a newly verified older track may take that of
  a live stream, whose name may then change on a single reading against the
  comment at :3196-3203, and so may that of a stream whose memory a retune drops; a lane may be taken from a track
  that is still eligible.

*Radio, settings, services.*
- The DX cluster's failure counter is put back when the callsign is *sent*
  (`dx_cluster_client.cpp:707`): a server "refusing this callsign" is tried after the
  shortest delay every time, and not every ten minutes (:633-635).
- The Hamlib client does not try again after an attempt that was refused or
  timed out; a CAT4OM observer never asks for what a gap left out, and a
  refused `getAllState` is not repeated; after a loss the radio's last state
  stays (`docs/requirements.md:450`). An OmniRig receive write goes to the transmit VFO also of a
  rig in split that names no VFO. `selectProfile` changes
  provider and offsets without forgetting the pending request.
- An SDR preference does not outlive an absent receiver: the fallback of the
  start (`main.cpp:503`) is written through as a preference, against the comment at
  `app_settings.cpp:3102`. `createProfile` inherits the audio output and the
  acceptance record, and switches before a failed write is noticed;
  `selectProfile` leaves out some of the change signals; a failed mark of the
  set-up is written by the next successful write.
- The updater keeps what was available after a checksum mismatch until a check
  is asked for, and when its file is removed by others is told "not modified"
  until restart. A verified older download hides that of a newer release; a
  partial file stays on disk when saving fails.
- A new audio subscriber may first receive a datagram from before it.
- A station whose newest report, of a feed joined formerly, is on another band
  is not shown although the joined feed reports it on the received one.

## 7 What is only model-checked, and what is not modelled

Liveness (`PttEventuallyReleased`, `OutputEnds`, `KeepsTrying`, `UpdaterSettles`,
`StartAnswered`) is left to TLC: the prover has no `ENABLED` and no fairness.
So is `ParsedAsTyped`, which compares a scan of text with a reference
definition.

`TranscriptTrue`, `BankInv` and `StreamsLast` have no theorem: the first is about
folds over sequences of readings whose alignment is picked by score, the others
about a bank whose every call is a chain of folds over its tracks.

Limits of the models: time is discrete; a blocking call has no timeout of its
own (the facade's is longer than any call); an unbounded queue of signals is
bounded by limiting when the *operator* acts, never by dropping a signal; the
SDR's sample conversion, gains and antennas and the filter's arithmetic are
left out, since no property tells them apart; the serial driver, Qt's sockets,
QSettings and the SoapySDR devices are external and behave as the code allows
for. Of the consensus, a configuration without a minimum of symbols is not
modelled; audio blocks at a refused rate are not numbered; the platform token
and the polarity of an acceptance record are one value of the configuration,
and the guard against a port that CAT and keying share is left to the
settings' form. Batches of spots are taken one report at a time.

Smaller differences that no property tells apart: a window that the decimator
refuses (`live_audio_worker.cpp:1259-1267`) and a write to rigctld that is cut
short (`hamlib_rigctld_client.cpp:317-320`) cannot be reached today and are left
out; the bank counts a track's observations up to the number it needs and not to
65535 (`cw_channel_bank.cpp:786-799`), ranks tracks without the last tie-break by
level (:930), and takes the gate on weak signals (:1442-1452, :1919-1935) with the
other gates as an input; the hash and the time of the callsign database are
stored by two calls (`callsign_database_updater.cpp:625-627`) and in one step,
both being in memory until QSettings writes.

Not modelled at all: the CW decoder, the event lattice, the segmenters, the
rescoring, the refinement's acoustics and the spectrum analyzer (arithmetic on
floats); alphabets, vocabularies, prefixes, callsign scores, the transmit
encoder's table, ADIF and station equipment (values and tables); file replay and
the presentation models of the controller; the user interface.

## 8 Plan

1. Theorems for `BankInv` and `StreamsLast`.
2. The radio of `TransmitStation`, whose reports are any value at any time,
   replaced by the rig clients.
3. File replay and its hand-over with live sessions.
4. Conversation profiles and callsign evidence as pure functions against
   reference definitions.
