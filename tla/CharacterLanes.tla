----------------------------- MODULE CharacterLanes -----------------------------
(***************************************************************************)
(* LocalCharacterFrontendBank: the few lanes in which tracks are prepared  *)
(* for the local model, each with its frontend (CwCharacterLaneFrontend),  *)
(* and the transcripts of the controller that its windows feed.  Time is   *)
(* counted in blocks; a frontend makes one row of features per block.      *)
(***************************************************************************)
EXTENDS Integers, Sequences, FiniteSets

CONSTANTS
  LaneTracks,     \* ids of tracks
  MostLanes,      \* maximum_lanes_
  Grace,          \* blocks of silence that a lane outlives
  ManualGrace,    \* the same for a track the operator selected
  UnseenLimit,    \* blocks after which a lane that is not used is erased
  WindowRows,     \* window_frame_count_
  StrideRows,     \* stride_frame_count_
  LaneInputs,     \* the states of tracks that are tried
  MaxRuns,        \* bounds on the unbroken runs of lanes, and
  MaxWindows      \* on the windows in one
ASSUME LanesAssumption ==
  /\ IsFiniteSet(LaneTracks) /\ MostLanes \in 1..8
  /\ Grace \in Nat /\ ManualGrace \in Nat /\ UnseenLimit \in Nat
  /\ LaneInputs \subseteq [verified : BOOLEAN, selected : BOOLEAN, active : BOOLEAN]
  /\ WindowRows \in Nat \ {0} /\ StrideRows \in 1..WindowRows

VARIABLES
  lanes,        \* lanes_
  laneBank,     \* the other fields of the bank
  runs,         \* history: the unbroken runs of all lanes so far
  transcripts   \* per track, what its consensus last followed, or NoTranscript
lanesVars == <<lanes, laneBank, runs, transcripts>>

NoTranscript == [bank |-> 0, lane |-> 0, sequence |-> 0, run |-> 0]

(* A lane: its key, the blocks since it was used and since its track was   *)
(* active, whether the next block continues the last one, the rows since   *)
(* the last window was due, the windows made, and (history) its run and    *)
(* whether its rows span a break.                                          *)
NewLane(bank, run) ==
  [bank |-> bank.generation, lane |-> bank.next, unseen |-> 0, silent |-> 0, started |-> FALSE,
   follows |-> FALSE, rows |-> 0, windows |-> 0, run |-> run, spans |-> FALSE]

LanesInit ==
  /\ lanes = <<>> /\ runs = 0
  /\ laneBank = [enabled |-> FALSE, generation |-> 1, next |-> 1]
  /\ transcripts = [id \in LaneTracks |-> NoTranscript]

(* What the channel bank says of a track that is verified, Morse-likely or *)
(* selected; any other is left out.                                        *)
Eligible(id, t) ==
  \/ t.active
  \/ IF id \in DOMAIN lanes
     THEN lanes[id].silent <= (IF t.selected THEN ManualGrace ELSE Grace)
     ELSE t.selected

(* Verified tracks come first, then selected ones, then by signal-to-noise *)
(* ratio.                                                                  *)
Before(t, u) ==
  \/ t.verified /\ ~u.verified
  \/ t.verified = u.verified /\ t.selected /\ ~u.selected
Smaller(m, n) == IF m <= n THEN m ELSE n
Ranked(tracks) ==
  LET eligible == {id \in DOMAIN tracks : Eligible(id, tracks[id])}
      count == Smaller(MostLanes, Cardinality(eligible))
      Taken(first) == {first[i] : i \in 1..count}
  IN {first \in [1..count -> eligible] :
        /\ \A i \in 1..count, j \in 1..count :
             i < j => first[i] # first[j] /\ ~Before(tracks[first[j]], tracks[first[i]])
        /\ \A id \in eligible \ Taken(first), i \in 1..count : ~Before(tracks[id], tracks[first[i]])}

(* The lane that makes room: one of those used longest ago, the first of   *)
(* them that the table happens to hold.                                    *)
Places == {table \in [LaneTracks -> 1..Cardinality(LaneTracks)] :
             \A id, other \in LaneTracks : id # other => table[id] # table[other]}
Oldest(all, table) ==
  LET longest == {id \in DOMAIN all : \A other \in DOMAIN all : all[other].unseen <= all[id].unseen}
  IN CHOOSE id \in longest : \A other \in longest : table[id] <= table[other]
Without(all, id) == [other \in DOMAIN all \ {id} |-> all[other]]

-----------------------------------------------------------------------------
(* CwCharacterLaneFrontend                                                 *)
ResetSignalState(l) == [l EXCEPT !.rows = 0, !.windows = 0, !.spans = FALSE]

(* Defect: a break in the input leaves the rows before it.                 *)
AfterBreakKept(l, run) == [l EXCEPT !.lane = @ + 1, !.run = run, !.spans = l.rows > 0]
AfterBreak(l, run) == [ResetSignalState(l) EXCEPT !.lane = @ + 1, !.run = run]

Broken(l, lost) == l.started /\ (lost \/ ~l.follows)
RowMade(l) ==
  LET rows == IF l.rows = WindowRows THEN WindowRows - StrideRows + 1 ELSE l.rows + 1
  IN [l EXCEPT !.rows = rows, !.windows = IF rows = WindowRows THEN @ + 1 ELSE @,
               !.started = TRUE, !.follows = TRUE]
FrontendProcess(l, lost, run) == RowMade(IF Broken(l, lost) THEN AfterBreak(l, run) ELSE l)
WindowReady(l) == l.follows /\ l.rows = WindowRows

(* One eligible track of process(): w is the bank on the way.              *)
Served(w, id, t, lost, table) ==
  LET held == id \in DOMAIN w.lanes
      roomy == IF held \/ Cardinality(DOMAIN w.lanes) < MostLanes THEN w.lanes
               ELSE Without(w.lanes, Oldest(w.lanes, table))
      found == IF held THEN w.lanes[id] ELSE NewLane(w.bank, w.runs + 1)
      run == w.runs + 1
      lane == FrontendProcess([found EXCEPT !.unseen = 0, !.silent = IF t.active THEN 0 ELSE @],
                              lost, run)
  IN [lanes |-> [other \in DOMAIN roomy \cup {id} |-> IF other = id THEN lane ELSE roomy[other]],
      bank |-> IF held THEN w.bank ELSE [w.bank EXCEPT !.next = @ + 1],
      runs |-> IF held /\ ~Broken(found, lost) THEN w.runs ELSE run]

(* The eligible tracks, one after the other.                               *)
ServedAll(w, tracks, first, lost, table) ==
  LET served[n \in 0..Len(first)] ==
        IF n = 0 THEN w ELSE Served(served[n - 1], first[n], tracks[first[n]], lost, table)
  IN served[Len(first)]

(* A lane that is not served is a block older, and its input has a gap.    *)
LongestGrace == IF Grace <= ManualGrace THEN ManualGrace ELSE Grace
Aged(all, lost) ==
  [id \in DOMAIN all |->
     [all[id] EXCEPT !.unseen = @ + 1,
                     !.silent = Smaller(@ + (IF lost THEN 2 ELSE 1), LongestGrace + 1)]]
Kept(all) ==
  [id \in {i \in DOMAIN all : all[i].unseen <= UnseenLimit} |->
     [all[id] EXCEPT !.follows = all[id].unseen = 0]]

-----------------------------------------------------------------------------
(* The consensus of a track, as far as keys and numbers go.                *)
Newer(l, t) == l.bank > t.bank \/ (l.bank = t.bank /\ l.lane > t.lane)
Accepts(t, l) ==
  \/ t = NoTranscript \/ Newer(l, t)
  \/ l.bank = t.bank /\ l.lane = t.lane /\ l.windows > t.sequence
Following(l) == [bank |-> l.bank, lane |-> l.lane, sequence |-> l.windows, run |-> l.run]

(* process(): a block arrives, after one that was lost or not; the windows *)
(* it completes reach the controller, or are dropped on the way.           *)
ProcessBlock ==
  /\ laneBank.enabled /\ runs + MostLanes <= MaxRuns
  /\ \A id \in DOMAIN lanes : lanes[id].windows < MaxWindows
  /\ \E present \in SUBSET LaneTracks : \E tracks \in [present -> LaneInputs] :
     \E first \in Ranked(tracks), table \in Places, lost \in BOOLEAN :
       LET w == ServedAll([lanes |-> Aged(lanes, lost), bank |-> laneBank, runs |-> runs],
                          tracks, first, lost, table)
           ready == {id \in {first[i] : i \in 1..Len(first)} \cap DOMAIN w.lanes : WindowReady(w.lanes[id])}
       IN /\ lanes' = Kept(w.lanes) /\ laneBank' = w.bank /\ runs' = w.runs
          /\ \E heard \in SUBSET ready :
               transcripts' = [id \in LaneTracks |->
                 IF id \in heard /\ Accepts(transcripts[id], w.lanes[id])
                 THEN Following(w.lanes[id]) ELSE transcripts[id]]

BankReset(bank) == [bank EXCEPT !.generation = @ + 1, !.next = 1]
SetEnabled ==
  /\ laneBank.generation < MaxRuns
  /\ laneBank' = [BankReset(laneBank) EXCEPT !.enabled = ~@] /\ lanes' = <<>>
  /\ UNCHANGED <<runs, transcripts>>
(* reset(): a new session, a retune, a new recording.                      *)
ResetBank ==
  /\ laneBank.enabled /\ laneBank.generation < MaxRuns
  /\ laneBank' = BankReset(laneBank) /\ lanes' = <<>>
  /\ UNCHANGED <<runs, transcripts>>
(* resetDecoder() of the controller forgets the transcripts.               *)
ForgetTranscripts ==
  /\ transcripts' = [id \in LaneTracks |-> NoTranscript]
  /\ UNCHANGED <<lanes, laneBank, runs>>

LanesNext == ProcessBlock \/ SetEnabled \/ ResetBank \/ ForgetTranscripts
LanesSpec == LanesInit /\ [][LanesNext]_lanesVars

-----------------------------------------------------------------------------
(* There are never more lanes than the bank may have, no window holds      *)
(* sound from before and after a break in its input (a lane that was       *)
(* passed over, samples that were lost), no two lanes began in one run,    *)
(* and no transcript follows a lane of a bank that was reset as if it were *)
(* one of the present bank.                                                *)
LanesInv ==
  /\ Cardinality(DOMAIN lanes) <= MostLanes
  /\ \A id \in DOMAIN lanes :
       /\ ~lanes[id].spans /\ lanes[id].unseen <= UnseenLimit
       /\ lanes[id].bank = laneBank.generation /\ lanes[id].run <= runs
       /\ \A other \in DOMAIN lanes \ {id} : lanes[other].run # lanes[id].run
  /\ \A id \in LaneTracks : transcripts[id].bank <= laneBank.generation

(* "a newer frontend incarnation starts a fresh consensus sequence"        *)
(* (tests/cw_character_refinement_tests.cpp): a lane that began after the  *)
(* one a transcript follows has a newer key, so that its windows are taken *)
(* in.                                                                     *)
LaterLaneIsNewer ==
  \A id \in DOMAIN lanes :
    lanes[id].run > transcripts[id].run => Accepts(transcripts[id], [lanes[id] EXCEPT !.windows = 1])
=============================================================================
