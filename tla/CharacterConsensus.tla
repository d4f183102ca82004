--------------------------- MODULE CharacterConsensus ---------------------------
(***************************************************************************)
(* One transcript of the local model: a station sends a few characters,    *)
(* the model reads them in windows that overlap, and the merger commits    *)
(* what repeated readings agree on.  A reading may miss a character, be    *)
(* less sure of it, or place it up to Jitter later than it was.  The lane  *)
(* may start anew, and a reading of an earlier one may still arrive.       *)
(***************************************************************************)
EXTENDS FiniteSets, Sequences, Integers
LOCAL INSTANCE SequencesExt
LOCAL INSTANCE FiniteSetsExt

(* CwCharacterConsensusMerger: what several overlapping readings of one    *)
(* track agree on.  A reading (hypothesis) is the key of the lane it was   *)
(* made from, its number there, the span it is valid in and its            *)
(* characters; a character is a symbol, the span of time it sounded in and *)
(* a confidence: "low", "moderate" (at least 0.70 of the minimum) or       *)
(* "high" (at least the minimum).                                          *)
CONSTANTS
  Tolerance,       \* alignment_tolerance_ms
  Confirmations,   \* confirmation_windows
  Retained,        \* retained_windows
  MostCharacters   \* maximum_stable_characters
ASSUME ConsensusAssumption ==
  /\ Tolerance \in Nat /\ MostCharacters \in Nat
  /\ Confirmations \in 2..4 /\ Retained \in Confirmations..6

Midpoint(c) == c.from + (c.to - c.from) \div 2
Apart(a, b) == IF a < b THEN b - a ELSE a - b
Matches(a, b) == a.symbol = b.symbol /\ Apart(Midpoint(a), Midpoint(b)) <= Tolerance

(* For each character of one reading, the character of the other that it   *)
(* is aligned with, or 0: the traceback of a longest common subsequence.   *)
AlignCharacters(reference, compared) ==
  LET score[l \in 0..Len(reference), r \in 0..Len(compared)] ==
        IF l = 0 \/ r = 0 THEN 0
        ELSE Max({score[l - 1, r], score[l, r - 1],
                  IF Matches(reference[l], compared[r]) THEN score[l - 1, r - 1] + 1 ELSE 0})
      traced[l \in 0..Len(reference), r \in 0..Len(compared)] ==
        IF l = 0 \/ r = 0 THEN [i \in 1..Len(reference) |-> 0]
        ELSE IF /\ Matches(reference[l], compared[r])
                /\ score[l, r] = score[l - 1, r - 1] + 1
        THEN [traced[l - 1, r - 1] EXCEPT ![l] = r]
        ELSE IF score[l - 1, r] >= score[l, r - 1] THEN traced[l - 1, r] ELSE traced[l, r - 1]
  IN traced[Len(reference), Len(compared)]

InsideUsableContext(c, h) == c.from >= h.validFrom /\ c.to <= h.validTo
Usable(c, h) == InsideUsableContext(c, h) /\ c.confidence = "high"

(* The key of a lane: the generation of the bank and that of the lane.     *)
NewerGeneration(candidate, current) ==
  \/ candidate.bank > current.bank
  \/ candidate.bank = current.bank /\ candidate.lane > current.lane

NoKey == [bank |-> 0, lane |-> 0]
ResetMerger(key) ==
  [key |-> key, windows |-> <<>>, stable |-> <<>>, provisional |-> <<>>, sequence |-> 0, end |-> 0]
NewMerger == ResetMerger(NoKey)

(* The merger after a reading that it takes in, before it commits.         *)
Follows(m, h) == m.key = h.key \/ m.key = NoKey \/ NewerGeneration(h.key, m.key)
Joined(m, h) == IF m.key = h.key THEN m ELSE ResetMerger(h.key)
Retaining(windows, h) ==
  LET all == Append(windows, h) IN IF Len(all) > Retained THEN Tail(all) ELSE all

(* The characters of earlier readings that character i of the newest one   *)
(* is aligned with, each with the reading it is in.                        *)
Aligned(windows, i) ==
  LET newest == windows[Len(windows)].characters
      maps == [w \in 1..(Len(windows) - 1) |-> AlignCharacters(newest, windows[w].characters)]
  IN {<<w, maps[w][i]>> : w \in {v \in 1..(Len(windows) - 1) : maps[v][i] # 0}}

(* Defect: the character that was committed last is not counted.           *)
AlreadyCommittedBefore(windows, i, end) ==
  \/ windows[Len(windows)].characters[i].to < end
  \/ \E p \in Aligned(windows, i) : windows[p[1]].characters[p[2]].to < end

AlreadyCommitted(windows, i, end) ==
  \/ windows[Len(windows)].characters[i].to <= end
  \/ \E p \in Aligned(windows, i) : windows[p[1]].characters[p[2]].to <= end

Confirmed(windows, i) ==
  LET newest == windows[Len(windows)]
      c == newest.characters[i]
      others(P(_, _)) ==
        Cardinality({p \in Aligned(windows, i) : P(windows[p[1]].characters[p[2]], windows[p[1]])})
      strong == (IF c.confidence = "high" THEN 1 ELSE 0) + others(Usable)
      repeated == 1 + others(LAMBDA d, h : InsideUsableContext(d, h) /\ d.confidence # "low")
  IN /\ InsideUsableContext(c, newest) /\ c.confidence # "low"
     /\ \/ strong >= Confirmations
        \/ Confirmations + 1 <= Retained /\ repeated >= Confirmations + 1

(* Characters are committed in order up to the first that is not           *)
(* confirmed; "first" is the first one not committed.                      *)
Commit(m) ==
  LET newest == m.windows[Len(m.windows)]
      step(acc, i) ==
        IF acc.stopped \/ AlreadyCommitted(m.windows, i, acc.end) THEN acc
        ELSE IF Confirmed(m.windows, i) /\ Len(acc.stable) < MostCharacters
        THEN [acc EXCEPT !.stable = Append(@, newest.characters[i].symbol),
                         !.end = newest.characters[i].to, !.first = i + 1]
        ELSE [acc EXCEPT !.first = i, !.stopped = TRUE]
      n == Len(newest.characters)
      all == FoldLeft(step, [stable |-> m.stable, end |-> m.end, first |-> n + 1, stopped |-> FALSE],
                      [i \in 1..n |-> i])
      left == SelectSeq([i \in 1..n |-> i],
                        LAMBDA i : /\ i >= all.first
                                   /\ ~AlreadyCommitted(m.windows, i, all.end)
                                   /\ InsideUsableContext(newest.characters[i], newest))
  IN [m EXCEPT !.stable = all.stable, !.end = all.end,
               !.provisional = [k \in 1..Len(left) |-> newest.characters[left[k]].symbol]]

(* process(): a reading of another lane that is not newer, or numbered no  *)
(* higher than one already seen, is ignored.                               *)
ProcessReading(m, h) ==
  LET joined == Joined(m, h)
  IN IF ~Follows(m, h) THEN m
     ELSE IF h.sequence <= joined.sequence THEN joined
     ELSE Commit([joined EXCEPT !.sequence = h.sequence,
                                !.windows = Retaining(joined.windows, h)])

-----------------------------------------------------------------------------
(* freshCharacterRefinementCallEvidence(): the last word of the transcript *)
(* that is a call now and reached into what is new, unless the part that   *)
(* was there before was a call already.  "space" ends a word.              *)
Words(text) ==
  {w \in (1..Len(text)) \X (1..Len(text)) :
     /\ w[1] <= w[2] /\ \A i \in w[1]..w[2] : text[i] # "space"
     /\ w[1] = 1 \/ text[w[1] - 1] = "space"
     /\ w[2] = Len(text) \/ text[w[2] + 1] = "space"}

IsCall(word) == Len(word) >= 2

FreshCalls(text, before) ==
  {w \in Words(text) :
     /\ w[2] > before /\ IsCall(SubSeq(text, w[1], w[2]))
     /\ ~(before >= w[1] /\ IsCall(SubSeq(text, w[1], before)))}
FreshCallEvidence(text, before) ==
  LET fresh == FreshCalls(text, before)
  IN {SubSeq(text, w[1], w[2]) : w \in {v \in fresh : \A u \in fresh : u[2] <= v[2]}}

-----------------------------------------------------------------------------
CONSTANTS
  Sent,         \* the symbols sent, one every Spacing, each sounding for Sounding
  Spacing, Sounding,
  Jitter,
  Span,         \* the time a reading is valid for
  Stride,       \* the time from one reading to the next
  Confidences,
  MaxReadings, MaxLanes

VARIABLES
  merger,       \* the entry of local_character_consensus_
  reading,      \* the last reading: its lane and its number there
  evidence      \* the calls passed on to the channel bank since the lane began
consensusVars == <<merger, reading, evidence>>

ConsensusInit ==
  /\ merger = NewMerger /\ evidence = <<>>
  /\ reading = [lane |-> 1, sequence |-> 0]

LastValid(n) == Stride * n
(* The characters that sounded while reading n was valid.                  *)
Sounded(n) ==
  {i \in 1..Len(Sent) : /\ Spacing * i >= LastValid(n) - Span
                        /\ Spacing * i + Sounding + Jitter <= LastValid(n)}
Placed(i, late, confidence) ==
  [symbol |-> Sent[i], from |-> Spacing * i + late, to |-> Spacing * i + Sounding + late,
   confidence |-> confidence]

(* A reading of some of the characters, in order.                          *)
Hypothesis(lane, n, heard, late, sure) ==
  [key |-> [bank |-> 1, lane |-> lane], sequence |-> n,
   validFrom |-> LastValid(n) - Span, validTo |-> LastValid(n),
   characters |-> [k \in 1..Cardinality(heard) |->
                     LET i == SetToSortSeq(heard, <)[k] IN Placed(i, late[i], sure[i])]]

(* The handler of resultReady(): the transcript is brought up to date, and *)
(* a call that it completes is passed on.                                  *)
ResultReady(h) ==
  LET after == ProcessReading(merger, h)
      restarted == after.key # merger.key
  IN /\ merger' = after
     /\ \E fresh \in {FreshCallEvidence(after.stable, Len(merger.stable))} :
          evidence' = (IF restarted THEN <<>> ELSE evidence) \o SetToSeq(fresh)

ReadAgain ==
  /\ reading.sequence < MaxReadings
  /\ LET n == reading.sequence + 1 IN
     \E heard \in SUBSET Sounded(n) :
     \E late \in [heard -> 0..Jitter], sure \in [heard -> Confidences] :
       /\ reading' = [reading EXCEPT !.sequence = n]
       /\ ResultReady(Hypothesis(reading.lane, n, heard, late, sure))

(* The lane starts anew: its readings are numbered from one again.         *)
LaneRestarts ==
  /\ reading.lane < MaxLanes
  /\ reading' = [lane |-> reading.lane + 1, sequence |-> 0]
  /\ UNCHANGED <<merger, evidence>>

(* A reading of the lane before, or one that was delivered before.         *)
Straggles ==
  /\ \E lane \in 1..reading.lane, n \in 1..MaxReadings :
       /\ lane < reading.lane \/ n <= reading.sequence
       /\ merger.key # NoKey /\ (lane = merger.key.lane => n <= merger.sequence)
       /\ lane <= merger.key.lane
       /\ ResultReady(Hypothesis(lane, n, Sounded(n), [i \in Sounded(n) |-> 0],
                                 [i \in Sounded(n) |-> "high"]))
  /\ UNCHANGED reading

ConsensusNext == ReadAgain \/ LaneRestarts \/ Straggles
ConsensusSpec == ConsensusInit /\ [][ConsensusNext]_consensusVars

-----------------------------------------------------------------------------
ConsensusTypeOK ==
  /\ Len(merger.windows) <= Retained /\ Len(merger.stable) <= MostCharacters
  /\ \A w \in 1..Len(merger.windows) : merger.windows[w].key = merger.key
  /\ reading.lane \in 1..MaxLanes /\ reading.sequence \in 0..MaxReadings

(* A transcript holds characters that were sent, in their order and each   *)
(* once, whatever the readings missed and however they arrived; what is    *)
(* still open follows it; and each call in it is passed on at most once.   *)
TranscriptTrue ==
  /\ ConsensusTypeOK
  /\ LET text == merger.stable \o merger.provisional
     IN \E at \in [1..Len(text) -> 1..Len(Sent)] :
          \A i \in 1..Len(text) : text[i] = Sent[at[i]] /\ (i > 1 => at[i] > at[i - 1])
  /\ Len(evidence) <= Cardinality(Words(merger.stable))

(* "overlap consensus does not duplicate a confirmed callsign prefix"      *)
(* (tests/cw_character_refinement_tests.cpp): what was confirmed once is   *)
(* not committed again.                                                    *)
NothingTwice ==
  \A symbol \in {Sent[i] : i \in 1..Len(Sent)} :
    Cardinality({i \in 1..Len(merger.stable) : merger.stable[i] = symbol})
      <= Cardinality({i \in 1..Len(Sent) : Sent[i] = symbol})
=============================================================================
