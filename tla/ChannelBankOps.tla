----------------------------- MODULE ChannelBankOps -----------------------------
(***************************************************************************)
(* CwChannelBank: the tracks that it follows, the colors that it leases to *)
(* frequencies, and what it remembers of each stream it has published.     *)
(* Frequencies are whole steps of about 35 Hz, time is counted in ticks.   *)
(* What the spectrum and the samples say of a track is an input: the peaks *)
(* of a frame, strongest first, and how far the gates of the verification  *)
(* were passed.                                                            *)
(***************************************************************************)
EXTENDS Integers, Sequences, FiniteSets
LOCAL INSTANCE SequencesExt
LOCAL INSTANCE FiniteSetsExt

CONSTANTS
  MaximumTracks,          \* maximum_tracks
  TrackCapacity,          \* kCwMaximumTrackCapacity: the colors, and the streams remembered
  MinimumObservations,    \* minimum_spectral_observations
  IdentityTolerance,      \* track_identity_tolerance_hz
  TrackingTolerance,      \* tracking_tolerance_hz
  Separation,             \* minimum_separation_hz
  ColorTolerance,         \* color_identity_tolerance_hz
  ReanchorLimit,          \* presentation_reanchor_limit_hz
  MatchHold,              \* kCandidateMatchHoldSeconds
  UnverifiedRetention, EmptyRetention, DecodedRetention, ParkedRetention,
  ColorRetention,         \* the retention times of the configuration
  RefinementAge,          \* kCharacterRefinementEvidenceSeconds
  EnterSamples, ExitSamples,  \* evidence that verifies, and that revokes it
  VerdictEvaluations,     \* kKeyerVerdictEvaluations
  Corroborations          \* kCwStreamLabelCorroborations
ASSUME ChannelBankAssumption ==
  /\ TrackCapacity \in Nat \ {0} /\ MaximumTracks \in 1..TrackCapacity
  /\ MinimumObservations \in Nat \ {0}
  /\ IdentityTolerance \in Nat /\ TrackingTolerance \in Nat /\ Separation \in Nat
  /\ EnterSamples \in Nat \ {0} /\ ExitSamples \in Nat \ {0}
  /\ VerdictEvaluations \in Nat \ {0} /\ Corroborations \in Nat \ {0}

NoColor == -1
NoBand == <<0, 0>>
NoText == "no text"
NoCall == "no call"
NotHeard == [call |-> NoText, times |-> 0]
Gap(f, g) == IF f < g THEN g - f ELSE f - g
Clamped(f, lower, upper) == Min({Max({f, lower}), upper})

(* A track: color is NoColor until one is assigned; parkedSince is -1 when *)
(* it is not parked; refined is the time of the newest refinement, or -1;  *)
(* mute stands for keyer_overlap_unresolved, votes for the evaluations in a *)
(* row that found several keyers (or, negative, one); heard is the call     *)
(* that its text spells, and how often.                                     *)
NewTrack(id, f, at) ==
  [id |-> id, freq |-> f, origin |-> f, shown |-> f, state |-> "Candidate",
   observations |-> 0, pass |-> 0, fail |-> 0, matched |-> FALSE, ever |-> FALSE, likely |-> FALSE,
   selected |-> FALSE, selectedAt |-> 0, color |-> NoColor, detected |-> at, met |-> at,
   parkedSince |-> -1, refined |-> -1, mute |-> FALSE, votes |-> 0, suspended |-> FALSE,
   heard |-> NotHeard]
Parked(t) == t.parkedSince >= 0
(* The same sequence, which TLC then holds as a tuple and updates as one. *)
Tuple(s) == SubSeq(s, 1, Len(s))
NewLease == [occupied |-> FALSE, freq |-> 0, seen |-> 0]
IdsOf(tracks) == {tracks[i].id : i \in DOMAIN tracks}
Numbered(tracks, id) == CHOOSE i \in DOMAIN tracks : tracks[i].id = id

-----------------------------------------------------------------------------
(* parkTracksOutsideBand() *)
ParkTracks(tracks, band, now) ==
  [i \in DOMAIN tracks |->
     LET t == tracks[i]
         outside == t.freq <= 0 \/ t.freq < band[1] \/ t.freq > band[2]
     IN IF band = NoBand \/ outside = Parked(t) THEN t
        ELSE IF outside THEN [t EXCEPT !.parkedSince = now]
        ELSE [t EXCEPT !.parkedSince = -1, !.detected = now, !.met = now]]

(* assignOrRefreshColor(), for the i-th track of a bank b, a record of     *)
(* tracks and leases: a color that no earlier verified track wears is      *)
(* kept, else the nearest lease that is current and free is taken, else    *)
(* the first free one that has lapsed, else the one longest not seen.      *)
Current(lease, now) == lease.occupied /\ now <= lease.seen + ColorRetention
ColorsInUse(b, i) ==
  {b.tracks[j].color : j \in {k \in DOMAIN b.tracks \ {i} :
                                b.tracks[k].color # NoColor /\ b.tracks[k].state = "Verified"}}
WornEarlier(b, i) ==
  \E j \in DOMAIN b.tracks : /\ b.tracks[j].id < b.tracks[i].id /\ b.tracks[j].state = "Verified"
                             /\ b.tracks[j].color = b.tracks[i].color
SelectedColor(b, i, now) ==
  LET free == DOMAIN b.leases \ ColorsInUse(b, i)
      apart(c) == Gap(b.leases[c].freq, b.tracks[i].shown)
      near == {c \in free : Current(b.leases[c], now) /\ apart(c) <= ColorTolerance}
      nearest == {c \in near : \A e \in near : apart(c) <= apart(e)}
      lapsed == {c \in free : ~Current(b.leases[c], now)}
      oldest == {c \in free : \A e \in free : b.leases[c].seen <= b.leases[e].seen}
  IN IF near # {} THEN Max(nearest)
     ELSE IF lapsed # {} THEN Min(lapsed)
     ELSE IF free # {} THEN Min(oldest)
     ELSE (b.tracks[i].id - 1) % TrackCapacity
AssignOrRefreshColor(b, i, now) ==
  LET t == b.tracks[i] IN
  IF t.color # NoColor /\ ~WornEarlier(b, i)
  THEN [b EXCEPT !.leases[t.color].seen = Max({@, now}), !.leases[t.color].occupied = TRUE]
  ELSE LET c == SelectedColor(b, i, now)
           lease == b.leases[c]
       IN [b EXCEPT !.tracks[i].color = c,
                    !.leases[c] = [occupied |-> TRUE, seen |-> now,
                                   freq |-> IF Current(lease, now) THEN lease.freq ELSE t.shown]]

(* reanchorPresentationOnFirstVerification(), followVerifiedPresentation() *)
Reanchored(t) ==
  [t EXCEPT !.shown = Clamped(t.freq, t.origin - ReanchorLimit, t.origin + ReanchorLimit)]

-----------------------------------------------------------------------------
(* updateVerification(), for the i-th track.  evidence is how far the gates *)
(* were passed: "silence" in the spectrum, "implausible" text, "unkeyed" up *)
(* to the cadence gates, "poor" past those but not in what was decoded,     *)
(* "copied" past all.                                                       *)
Refined(t, now) == t.refined >= 0 /\ now >= t.refined /\ now <= t.refined + RefinementAge
Verify(b, i, now) ==
  LET t == b.tracks[i]
      seen == [t EXCEPT !.fail = 0, !.pass = EnterSamples, !.state = "Verified", !.ever = TRUE,
                        !.selected = FALSE]
      first == IF t.ever THEN seen ELSE Reanchored(seen)
  IN AssignOrRefreshColor([b EXCEPT !.tracks[i] = first], i, now)
UpdateVerification(b, i, evidence, now) ==
  LET t == b.tracks[i]
      verified == t.state = "Verified"
      persistent == t.observations >= MinimumObservations
      keyed == persistent /\ evidence \in {"poor", "copied"}
      passes == keyed /\ (evidence = "copied" \/ Refined(t, now))
      eligible == IF keyed THEN "MorseLikely" ELSE "Candidate"
      likely == [b EXCEPT !.tracks[i].likely = @ \/ keyed]
      put(u) == [likely EXCEPT !.tracks[i] = [u EXCEPT !.likely = @ \/ keyed]]
  IN IF evidence = "implausible" /\ ~t.mute
     THEN [b EXCEPT !.tracks[i] = [t EXCEPT !.state = "Candidate", !.pass = 0, !.fail = 0]]
     ELSE IF verified /\ ~t.matched /\ evidence = "silence" THEN b
     ELSE IF ~passes
     THEN IF verified /\ t.fail + 1 < ExitSamples THEN put([t EXCEPT !.pass = 0, !.fail = @ + 1])
          ELSE put([t EXCEPT !.pass = 0, !.fail = 0, !.state = eligible])
     ELSE IF ~verified /\ t.pass + 1 < EnterSamples
     THEN put([t EXCEPT !.fail = 0, !.pass = @ + 1, !.state = "MorseLikely"])
     ELSE Verify(likely, i, now)

-----------------------------------------------------------------------------
(* updateSpectrum(): which peaks are followed.  The peak nearest each       *)
(* established track is kept first, for that track, unless one kept already *)
(* is too close; then every peak that no kept one is too close to.          *)
Priority(t) == IF t.selected THEN 4 ELSE IF t.state = "Verified" THEN 3
               ELSE IF t.ever THEN 2 ELSE IF t.state = "MorseLikely" THEN 1 ELSE 0
Outranks(t, u) ==
  \/ Priority(t) > Priority(u)
  \/ Priority(t) = Priority(u) /\ t.observations > u.observations
  \/ Priority(t) = Priority(u) /\ t.observations = u.observations /\ t.id < u.id
Established(tracks) ==
  SetToSortSeq({i \in DOMAIN tracks : Priority(tracks[i]) > 0},
               LAMBDA i, j : Outranks(tracks[i], tracks[j]))
SameSignal(t, f, apart) ==
  t.observations >= MinimumObservations =>
    apart <= IdentityTolerance /\ Gap(f, t.origin) <= TrackingTolerance
TooClose(kept, f) == \E k \in DOMAIN kept : Gap(kept[k].freq, f) < Separation

(* The reservation score is the distance to the center of the filter plus  *)
(* one and a half times the distance to the center that is shown.          *)
Reserve(tracks, peaks, r, i) ==
  LET t == tracks[i]
      score(k) == 2 * Gap(peaks[k], t.freq) + 3 * Gap(peaks[k], t.shown)
      open == {k \in DOMAIN peaks \ r.reserved :
                 SameSignal(t, peaks[k], Min({Gap(peaks[k], t.freq), Gap(peaks[k], t.shown)}))}
      best == {k \in open : \A l \in open : score(k) <= score(l)}
  IN IF open = {} \/ (~t.selected /\ TooClose(r.kept, peaks[Max(best)])) THEN r
     ELSE [kept |-> Append(r.kept, [freq |-> peaks[Max(best)], preferred |-> t.id]),
           reserved |-> r.reserved \cup {Max(best)}]
Separated(tracks, peaks) ==
  LET r == FoldLeft(LAMBDA a, i : Reserve(tracks, peaks, a, i),
                    [kept |-> <<>>, reserved |-> {}], Established(tracks))
      rest == SelectSeq([k \in DOMAIN peaks |-> k], LAMBDA k : k \notin r.reserved)
  IN FoldLeft(LAMBDA kept, k : IF TooClose(kept, peaks[k]) THEN kept
                               ELSE Append(kept, [freq |-> peaks[k], preferred |-> 0]),
              r.kept, rest)

(* The track that a kept peak belongs to: the nearest that is free, else an *)
(* unselected one whose cell it falls in.  0 stands for a new one, -1 for   *)
(* none at all.                                                             *)
Belongs(tracks, c) ==
  LET apart(i) == IF c.preferred = tracks[i].id
                  THEN Min({Gap(tracks[i].freq, c.freq), Gap(tracks[i].shown, c.freq)})
                  ELSE Gap(tracks[i].freq, c.freq)
      open == {i \in DOMAIN tracks :
                 /\ ~tracks[i].matched /\ c.preferred \in {0, tracks[i].id}
                 /\ SameSignal(tracks[i], c.freq, apart(i)) /\ apart(i) <= TrackingTolerance}
      cell(i) == Min({Gap(c.freq, tracks[i].origin), Gap(c.freq, tracks[i].shown)})
      occupants == {i \in DOMAIN tracks : ~tracks[i].selected /\ cell(i) < Separation}
      free == {i \in occupants : ~tracks[i].matched}
  IN IF open # {} THEN Max({i \in open : \A j \in open : apart(i) <= apart(j)})
     ELSE IF free # {} THEN Max({i \in free : \A j \in free : cell(i) <= cell(j)})
     ELSE IF occupants # {} THEN -1
     ELSE 0

(* Which track makes room in a full bank: the weakest of those that are     *)
(* neither matched nor verified.  faint is the id of the track that scores  *)
(* lowest, and clear says that the new peak exceeds it by the margin.       *)
Weakest(tracks, open, faint) ==
  {i \in open : tracks[i].id = faint \/ (faint \notin {tracks[j].id : j \in open} /\ i = Min(open))}
(* Defect: a verified track makes room like any other. *)
VictimsOfAny(tracks, faint) ==
  Weakest(tracks, {i \in DOMAIN tracks : ~tracks[i].matched}, faint)
Victims(tracks, faint) ==
  Weakest(tracks, {i \in DOMAIN tracks : ~tracks[i].matched /\ tracks[i].state # "Verified"}, faint)
MakesRoom(t, clear, now) == clear \/ now > t.met \/ t.observations < MinimumObservations
Admitted(b, f, faint, clear, now) ==
  LET victims == Victims(b.tracks, faint)
      added(tracks) == [b EXCEPT !.tracks = Append(tracks, NewTrack(b.next, f, now)), !.next = @ + 1]
  IN IF Len(b.tracks) < MaximumTracks THEN added(b.tracks)
     ELSE IF \E v \in victims : MakesRoom(b.tracks[v], clear, now)
     THEN added(RemoveAt(b.tracks, CHOOSE v \in victims : TRUE))
     ELSE b

(* A matched track moves to its peak, and its persistence grows.  steady    *)
(* says that what was measured lets the shown center follow.                *)
HeardBy(t, now) ==
  [t EXCEPT !.matched = TRUE, !.suspended = FALSE, !.detected = now, !.met = now,
            !.observations = Min({@ + 1, MinimumObservations})]
MatchTo(b, i, f, steady, now) ==
  LET t == [HeardBy(b.tracks[i], now) EXCEPT !.freq = f]
      follows == steady /\ (t.state = "Verified" \/ (t.selected /\ ~t.ever))
      put == [b EXCEPT !.tracks[i] = IF follows THEN Reanchored(t) ELSE t]
  IN IF t.color # NoColor /\ t.ever THEN AssignOrRefreshColor(put, i, now) ELSE put
Associated(b, c, frame) ==
  LET i == Belongs(b.tracks, c)
      more == Admitted(b, c.freq, frame.faint, frame.clear, frame.at)
  IN IF i > 0 THEN MatchTo(b, i, c.freq, frame.steady, frame.at)
     ELSE IF i < 0 \/ more = b THEN b
     ELSE MatchTo(more, Len(more.tracks), c.freq, frame.steady, frame.at)

(* A selected track is also heard below the threshold for peaks; the others *)
(* lose persistence.                                                        *)
Listened(tracks, frame) ==
  [i \in DOMAIN tracks |->
     LET t == tracks[i] IN
     IF t.matched THEN t
     ELSE IF t.selected /\ t.id \in frame.audible THEN HeardBy(t, frame.at)
     ELSE [t EXCEPT !.observations = Max({@ - 1, 0})]]

(* expired *)
Lapsed(t, now) ==
  LET manual == t.selected /\ ~t.ever
      since == IF manual THEN t.selectedAt ELSE t.detected
      retention == IF manual \/ t.state = "Verified" THEN DecodedRetention
                   ELSE IF t.state = "MorseLikely" \/ t.heard.call # NoText
                   THEN Max({UnverifiedRetention, EmptyRetention})
                   ELSE UnverifiedRetention
  IN IF Parked(t) THEN now - t.parkedSince > ParkedRetention ELSE now - since > retention

(* A frame that comes before the detector is due only moves the band.       *)
UpdateSpectrum(b, frame) ==
  LET parked == IF b.band # NoBand /\ b.band # frame.band
                THEN ParkTracks(b.tracks, frame.band, frame.at) ELSE b.tracks
      fresh == Tuple([i \in DOMAIN parked |-> [parked[i] EXCEPT !.matched = FALSE]])
      associated == FoldLeft(LAMBDA a, c : Associated(a, c, frame),
                             [b EXCEPT !.tracks = fresh, !.band = frame.band, !.spectrumAt = frame.at],
                             Separated(parked, frame.peaks))
      left == Listened(associated.tracks, frame)
  IN IF ~frame.due THEN [b EXCEPT !.tracks = parked, !.band = frame.band, !.spectrumAt = frame.at]
     ELSE [associated EXCEPT !.tracks = SelectSeq(left, LAMBDA t : ~Lapsed(t, frame.at))]

-----------------------------------------------------------------------------
(* selectFrequency(): the track at the place the operator points at, or a   *)
(* new one there, is analysed although the spectrum does not show it.       *)
SelectFrequency(b, f, faint) ==
  LET at == b.spectrumAt
      here == {i \in DOMAIN b.tracks : b.tracks[i].freq = f}
      victims == Weakest(b.tracks, {i \in DOMAIN b.tracks : ~b.tracks[i].selected
                                                           /\ b.tracks[i].state # "Verified"}, faint)
      room == IF Len(b.tracks) < MaximumTracks THEN b.tracks
              ELSE RemoveAt(b.tracks, CHOOSE v \in victims : TRUE)
      found == IF here # {} THEN b
               ELSE [b EXCEPT !.next = @ + 1,
                              !.tracks = Append(room, [NewTrack(b.next, f, at) EXCEPT !.suspended = TRUE])]
      i == IF here # {} THEN Max(here) ELSE Len(found.tracks)
      t == [found.tracks[i] EXCEPT !.selected = TRUE, !.selectedAt = at]
  IN IF f < b.band[1] \/ f > b.band[2] THEN b
     ELSE IF here = {} /\ Len(b.tracks) >= MaximumTracks /\ victims = {} THEN b
     ELSE [found EXCEPT !.tracks[i] = IF t.ever THEN t
                                      ELSE [t EXCEPT !.freq = f, !.origin = f, !.shown = f]]

(* shiftTrackedFrequencies(): a retune of the radio moves every track and   *)
(* every lease.                                                             *)
ShiftTrackedFrequencies(b, delta) ==
  LET moved == [i \in DOMAIN b.tracks |-> [b.tracks[i] EXCEPT !.freq = @ + delta, !.origin = @ + delta,
                                                             !.shown = @ + delta]]
      parked == ParkTracks(moved, b.band, b.expected)
      shifted(lease) == IF ~lease.occupied THEN lease
                        ELSE IF lease.freq + delta <= 0 THEN NewLease
                        ELSE [lease EXCEPT !.freq = @ + delta]
  IN [b EXCEPT !.tracks = SelectSeq(parked, LAMBDA t : t.freq > 0),
               !.leases = [c \in DOMAIN b.leases |-> shifted(b.leases[c])]]

(* noteInputDiscontinuity() *)
NoteInputDiscontinuity(b) ==
  [b EXCEPT !.expected = 0,
            !.tracks = [i \in DOMAIN b.tracks |-> [b.tracks[i] EXCEPT !.suspended = TRUE]]]

(* updateKeyerResolution(): evaluations that agree, several in a row, say   *)
(* whether the channel carries one keyer or more.                           *)
UpdateKeyerResolution(t, keyers) ==
  LET votes == IF keyers = "several" THEN Min({Max({t.votes, 0}) + 1, VerdictEvaluations})
               ELSE IF keyers = "one" THEN Max({Min({t.votes, 0}) - 1, -VerdictEvaluations})
               ELSE 0
  IN IF keyers = "none yet" THEN t
     ELSE [t EXCEPT !.votes = votes,
                    !.mute = IF votes = VerdictEvaluations THEN TRUE
                             ELSE IF votes = -VerdictEvaluations THEN FALSE ELSE @]

(* recoverRejectedDecoder(): a track that was never verified, and whose     *)
(* text stays implausible, starts again with an empty one.                  *)
RecoverRejectedDecoder(b, i, d) ==
  IF d.recovers /\ d.evidence = "implausible" /\ ~b.tracks[i].ever /\ ~b.tracks[i].mute
  THEN [b EXCEPT !.tracks[i] = [@ EXCEPT !.heard = NotHeard, !.pass = 0, !.fail = 0,
                                         !.state = "Candidate"]]
  ELSE b

(* processSamples(): a track whose peak has been gone for too long is       *)
(* suspended; one that is parked keeps its text; any other is decoded and   *)
(* judged.  decoded gives, per track, what was read in its samples.  gap:   *)
(* the samples do not follow the last ones, so every text starts anew.      *)
ProcessTrack(b, i, d, now) ==
  LET t == UpdateKeyerResolution(b.tracks[i], d.keyers)
      read == [t EXCEPT !.heard = IF d.call = NoText THEN @ ELSE [call |-> d.call, times |-> d.times]]
      judged == UpdateVerification([b EXCEPT !.tracks[i] = read], i, d.evidence, now)
  IN IF now > t.met + MatchHold THEN [b EXCEPT !.tracks[i] = [t EXCEPT !.suspended = TRUE]]
     ELSE IF t.suspended \/ Parked(t) THEN [b EXCEPT !.tracks[i] = t]
     ELSE RecoverRejectedDecoder(judged, i, d)
ProcessSamples(b, decoded, gap, now) ==
  LET blank(t) == IF gap THEN [t EXCEPT !.heard = NotHeard] ELSE t
      start == [b EXCEPT !.tracks = Tuple([i \in DOMAIN b.tracks |-> blank(b.tracks[i])]),
                        !.expected = now]
  IN FoldLeft(LAMBDA a, i : ProcessTrack(a, i, decoded[a.tracks[i].id], now), start,
              [i \in DOMAIN b.tracks |-> i])

(* acceptCharacterRefinement(): a call that the local model read at time    *)
(* read counts as evidence, if it is not older than the last one, nor too   *)
(* old, and the track has been taken for Morse and heard.                   *)
AcceptCharacterRefinement(b, id, read, evidence) ==
  LET now == IF b.expected # 0 THEN b.expected ELSE read
      i == Numbered(b.tracks, id)
      t == b.tracks[i]
  IN IF /\ id \in IdsOf(b.tracks)
        /\ read > t.refined /\ read <= now + 1 /\ now <= read + RefinementAge
        /\ t.likely /\ t.observations >= MinimumObservations
     THEN UpdateVerification([b EXCEPT !.tracks[i].refined = read], i, evidence, now)
     ELSE b

-----------------------------------------------------------------------------
(* What CwChannelBank remembers of the streams it has published: the name  *)
(* that a stream has earned (CwStreamLabel), and the observations that     *)
(* outlive their track (rebuildSnapshots).  A text is the sequence of the  *)
(* tracks that wrote it; the call that a track reads in its own text is    *)
(* t.heard, with the number of times that it occurs there.                 *)
CONSTANTS
  IdentifiedMultiplier,   \* identified_stream_retention_multiplier
  MostText                \* kMaximumPresentationText, in texts of one track
ASSUME StreamObservationsAssumption == IdentifiedMultiplier \in Nat \ {0} /\ MostText \in Nat \ {0}

NoLabel == [call |-> NoCall, support |-> 0, contested |-> FALSE, challenger |-> NoCall, rival |-> 0]
(* A name replaces one that was itself uncertain.                          *)
Contested(label, support) == label.call # NoCall /\ support < Corroborations

(* cwApplyStreamLabelReading(): a name that one reading gave is held until  *)
(* another contradicts it, and is then withheld until one is corroborated;  *)
(* a corroborated name is only lost to a rival that is corroborated too.    *)
ApplyStreamLabelReading(label, reading, support) ==
  LET settled == [label EXCEPT !.challenger = NoCall, !.rival = 0]
      rival == IF reading = label.challenger THEN Max({label.rival, support}) ELSE support
      most == Max({label.support, support})
  IN IF reading = NoCall THEN label
     ELSE IF reading = label.call
     THEN [settled EXCEPT !.support = most, !.contested = @ /\ most < Corroborations]
     ELSE IF label.support < Corroborations
     THEN [settled EXCEPT !.call = reading, !.support = support,
                          !.contested = Contested(label, support)]
     ELSE IF rival >= Corroborations
     THEN [settled EXCEPT !.call = reading, !.support = rival, !.contested = FALSE]
     ELSE [label EXCEPT !.challenger = reading, !.rival = rival]

-----------------------------------------------------------------------------
(* The call, and the text, that a verified track contributes: nothing while *)
(* the channel carries more than one keyer.                                 *)
Reading(t) == IF t.mute \/ t.heard.call \in {NoText, NoCall} THEN NoCall ELSE t.heard.call
Trimmed(text) == SubSeq(text, Max({1, Len(text) - MostText + 1}), Len(text))
OwnText(t) == IF t.heard.call = NoText THEN <<>> ELSE <<t.id>>
ComposePresentationText(prefix, text) == IF text = <<>> THEN prefix ELSE Trimmed(prefix \o text)

NewObservation(t) ==
  [source |-> t.id, color |-> t.color, freq |-> t.freq, shown |-> t.shown, text |-> <<>>,
   prefix |-> <<>>, label |-> NoLabel, name |-> NoCall, seen |-> 0, refreshed |-> FALSE]

(* The observation that a verified track refreshes: its own, else that of a *)
(* predecessor of its color and place that is no longer published (then the *)
(* text so far is frozen, and the name has to be earned anew), else a new   *)
(* one, for which the one longest not seen makes room.                      *)
Predecessors(retained, t, verified) ==
  {k \in DOMAIN retained : /\ ~retained[k].refreshed /\ retained[k].source \notin verified
                           /\ retained[k].color = t.color
                           /\ Gap(retained[k].shown, t.shown) <= ColorTolerance}
(* Defect: the name is inherited together with the text. *)
SucceededWithName(o, t) == [o EXCEPT !.prefix = Trimmed(o.text), !.source = t.id]
Succeeded(o, t) == [o EXCEPT !.prefix = Trimmed(o.text), !.source = t.id, !.label = NoLabel]
Place(retained, t, verified) ==
  LET own == {k \in DOMAIN retained : retained[k].source = t.id}
      before == Predecessors(retained, t, verified)
      apart(k) == Gap(retained[k].shown, t.shown)
      nearest == {k \in before : \A l \in before : apart(k) <= apart(l)}
      older(k, l) == IF retained[k].refreshed # retained[l].refreshed THEN ~retained[k].refreshed
                     ELSE retained[k].seen <= retained[l].seen
      oldest == {k \in DOMAIN retained : \A l \in DOMAIN retained : older(k, l)}
  IN IF own # {} THEN [retained |-> retained, at |-> Min(own)]
     ELSE IF before # {}
     THEN [retained |-> [retained EXCEPT ![Max(nearest)] = Succeeded(@, t)], at |-> Max(nearest)]
     ELSE IF Len(retained) >= TrackCapacity
     THEN [retained |-> [retained EXCEPT ![Min(oldest)] = NewObservation(t)], at |-> Min(oldest)]
     ELSE [retained |-> Append(retained, NewObservation(t)), at |-> Len(retained) + 1]

(* A muted track keeps what it has earned, and shows none of it. *)
Observed(o, t) ==
  LET label == ApplyStreamLabelReading(o.label, Reading(t), t.heard.times)
  IN [o EXCEPT !.label = label, !.color = t.color, !.freq = t.freq, !.shown = t.shown,
               !.name = IF t.mute \/ label.contested THEN NoCall ELSE label.call,
               !.text = IF t.mute THEN <<>> ELSE ComposePresentationText(o.prefix, OwnText(t)),
               !.seen = t.detected, !.refreshed = TRUE]
Refresh(retained, t, verified) ==
  LET place == Place(retained, t, verified)
  IN [place.retained EXCEPT ![place.at] = Observed(@, t)]

Expired(o, now) ==
  now - o.seen > DecodedRetention * (IF o.label.call = NoCall THEN 1 ELSE IdentifiedMultiplier)

(* rebuildSnapshots() *)
RebuildSnapshots(retained, tracks, now) ==
  LET verified == SelectSeq(tracks, LAMBDA t : t.state = "Verified")
      start == Tuple([k \in DOMAIN retained |-> [retained[k] EXCEPT !.refreshed = FALSE]])
      rebuilt == FoldLeft(LAMBDA r, t : Refresh(r, t, IdsOf(verified)), start, verified)
  IN SelectSeq(rebuilt, LAMBDA o : ~Expired(o, now))

(* shiftTrackedFrequencies(): the observations move with their tracks. *)
ShiftObservations(retained, delta) ==
  SelectSeq([k \in DOMAIN retained |-> [retained[k] EXCEPT !.freq = @ + delta, !.shown = @ + delta]],
            LAMBDA o : o.freq > 0)
=============================================================================
