------------------------------- MODULE ChannelBank -------------------------------
(***************************************************************************)
(* CwChannelBank at work: spectrum frames, blocks of samples, the          *)
(* operator's selections, retunes of the radio, gaps of the input, and the *)
(* results of the local character model, in any order.                     *)
(***************************************************************************)
EXTENDS ChannelBankOps

CONSTANTS
  Frames,       \* what a spectrum frame may show: [band, peaks, steady, due]
  Readings,     \* what the samples of a track may give
  Selections,   \* the frequencies that the operator points at
  Shifts,       \* the moves of the radio, as steps of audio frequency
  Beginnings,   \* [bank, retained, said]: states that a few calls lead to
  MostIds,      \* bound on the tracks that are ever created
  MostSteps,    \* bound on the steps of a behaviour
  LastTick      \* bound on the time

VARIABLES
  bank,         \* [tracks, leases, next, band, spectrumAt, expected]
  retained,     \* retained_observations_
  tick,
  steps,
  said          \* what each track has read: its id, the call, and how often
bankVars == <<bank, retained, tick, steps, said>>

EmptyBank ==
  [tracks |-> <<>>, leases |-> [c \in 0..TrackCapacity - 1 |-> NewLease], next |-> 1,
   band |-> NoBand, spectrumAt |-> 0, expected |-> 0]
BankInit ==
  /\ tick = 1 /\ steps = 0
  /\ \E s \in Beginnings : bank = s.bank /\ retained = s.retained /\ said = s.said

Step == steps < MostSteps /\ steps' = steps + 1
BankTick == tick < LastTick /\ tick' = tick + 1 /\ UNCHANGED <<bank, retained, steps, said>>

(* updateSpectrum() is called with rebuild_snapshot = false while samples   *)
(* are processed too, so the snapshots wait for those.                      *)
BankSpectrum ==
  /\ Step
  /\ \E f \in Frames, clear \in BOOLEAN, heard \in BOOLEAN :
       \E faint \in {0} \cup IdsOf(bank.tracks) :
         bank' = UpdateSpectrum(bank, [at |-> tick, band |-> f.band, peaks |-> f.peaks, due |-> f.due,
                                       steady |-> f.steady, clear |-> clear, faint |-> faint,
                                       audible |-> IF heard THEN IdsOf(bank.tracks) ELSE {}])
  /\ bank'.next <= MostIds + 1
  /\ UNCHANGED <<retained, tick, said>>

Rebuilt(b, at) == bank' = b /\ retained' = RebuildSnapshots(retained, b.tracks, at)
ReadBy(tracks) ==
  {<<t.id, t.heard.call, t.heard.times>> :
     t \in {u \in {tracks[i] : i \in DOMAIN tracks} : u.heard.call \notin {NoText, NoCall}}}
BankSamples ==
  /\ Step
  /\ \E gap \in BOOLEAN : \E decoded \in [IdsOf(bank.tracks) -> Readings] :
       Rebuilt(ProcessSamples(bank, decoded, gap, tick), tick)
  /\ said' = said \cup ReadBy(bank'.tracks)
  /\ UNCHANGED tick
BankSelect ==
  /\ Step
  /\ \E f \in Selections : \E faint \in {0} \cup IdsOf(bank.tracks) :
       LET b == SelectFrequency(bank, f, faint) IN
         IF b = bank THEN UNCHANGED <<bank, retained>> ELSE Rebuilt(b, bank.spectrumAt)
  /\ bank'.next <= MostIds + 1
  /\ UNCHANGED <<tick, said>>
BankShift ==
  /\ Step
  /\ \E delta \in Shifts :
       LET b == ShiftTrackedFrequencies(bank, delta) IN
         /\ bank' = b
         /\ retained' = RebuildSnapshots(ShiftObservations(retained, delta), b.tracks, b.expected)
  /\ UNCHANGED <<tick, said>>
BankDiscontinuity ==
  /\ Step /\ bank' = NoteInputDiscontinuity(bank) /\ UNCHANGED <<retained, tick, said>>
BankEmptied ==
  Step /\ bank' = EmptyBank /\ retained' = <<>> /\ said' = {} /\ UNCHANGED tick
BankRefinement ==
  /\ Step
  /\ \E id \in IdsOf(bank.tracks), read \in 1..tick, d \in Readings :
       bank' = AcceptCharacterRefinement(bank, id, read, d.evidence)
  /\ UNCHANGED <<retained, tick, said>>

BankNext ==
  \/ BankTick \/ BankSpectrum \/ BankSamples \/ BankSelect \/ BankShift
  \/ BankDiscontinuity \/ BankEmptied \/ BankRefinement
BankSpec == BankInit /\ [][BankNext]_bankVars

-----------------------------------------------------------------------------
TrackSet(b) == {b.tracks[i] : i \in DOMAIN b.tracks}
VerifiedTracks(b) == {t \in TrackSet(b) : t.state = "Verified"}
Observations == {retained[k] : k \in DOMAIN retained}

(* Identities are never reused, the bank never exceeds its size, each       *)
(* observation has a source of its own, every verified track wears a color, *)
(* and no name is shown that its own source did not read: not one left by   *)
(* the stream that was at this place before.                                *)
BankInv ==
  /\ Len(bank.tracks) <= MaximumTracks /\ Len(retained) <= TrackCapacity
  /\ \A i, j \in DOMAIN bank.tracks : i < j => bank.tracks[i].id < bank.tracks[j].id
  /\ \A t \in TrackSet(bank) : t.id < bank.next
  /\ \A k, l \in DOMAIN retained : k # l => retained[k].source # retained[l].source
  /\ \A t \in VerifiedTracks(bank) : t.ever /\ t.color # NoColor
  /\ \A o \in Observations :
       o.name # NoCall => \E read \in said : read[1] = o.source /\ read[2] = o.name

(* A verified track is not given up for a new peak or a selection: it goes  *)
(* when it was not heard for as long as it is kept, when a retune leaves it *)
(* no frequency, or at a reset.                                             *)
LeftBelow(s) == \E delta \in Shifts : s.freq + delta <= 0 /\ bank' = ShiftTrackedFrequencies(bank, delta)
VerifiedIsKept ==
  [][\A t \in VerifiedTracks(bank) :
       \/ t.id \in IdsOf(bank'.tracks) \/ bank' = EmptyBank
       \/ tick - t.detected > DecodedRetention \/ (Parked(t) /\ tick - t.parkedSince > ParkedRetention)
       \/ LeftBelow(t)]_bankVars

(* Has this been read of a stream, at least so often?                       *)
HasRead(readings, id, call, times) ==
  \E read \in readings : read[1] = id /\ read[2] = call /\ read[3] >= times

(* The name shown of a stream does not jump from one call to another on the *)
(* strength of a single reading, except when the memory of it was given     *)
(* away: at a retune that leaves it no frequency, or, when there are as     *)
(* many memories as there may be, to an older track that had none.          *)
Displaced(o) ==
  /\ Len(retained) + Len(bank'.tracks) > TrackCapacity
  /\ \E u \in VerifiedTracks(bank') :
       u.id < o.source /\ \A q \in Observations : q.source = u.id => LeftBelow(q)
NameIsEarned ==
  [][\A o \in Observations : \A p \in {retained'[k] : k \in DOMAIN retained'} :
       (o.source = p.source /\ o.name # NoCall /\ p.name \notin {NoCall, o.name}) =>
         \/ HasRead(said', p.source, p.name, Corroborations)
         \/ LeftBelow(o) \/ Displaced(o)]_bankVars

(* No stream that was earned is lost or renamed lightly.                    *)
StreamsLast == VerifiedIsKept /\ NameIsEarned

(* Concurrent identities own distinct colors. *)
ColorsDistinct ==
  \A o, p \in {q \in Observations : q.refreshed} : o.source # p.source => o.color # p.color
=============================================================================
