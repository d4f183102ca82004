--------------------------- MODULE CharacterInference ---------------------------
(***************************************************************************)
(* LocalCharacterInferenceWorker, between the threads that prepare windows *)
(* and submit them directly, its own thread, which loads models and runs   *)
(* them, and the controller, which configures it through its event queue,  *)
(* discards its work directly and takes its results from a queue.          *)
(***************************************************************************)
EXTENDS Integers, Sequences, FiniteSets
LOCAL INSTANCE SequencesExt

CONSTANTS
  Producers,      \* <<source mode, track>> of the windows that are made
  MostPending,    \* kMaximumPendingWindows
  MaxRequests,    \* bounds on the requests of the operator,
  MaxSubmitted    \* on the windows submitted
ASSUME InferenceAssumption == MostPending \in Nat \ {0} /\ MaxRequests \in Nat

VARIABLES
  waiting,        \* pending_windows_, each its producer and queue_generation
  queue,          \* drain_scheduled_ and queue_generation_
  events,         \* the event queue of the worker's thread
  inferring,      \* the inference under way, or NotRunning
  backend,        \* backend: "none" or "ready"
  discarding,     \* the controller is between the halves of discardPending(): "no",
                  \* "reset", or the state it configures next
  local,          \* local_character_state_, and whether a transcript is kept
  mail,           \* the signals of the worker on their way to the controller
  frontends,      \* whether the frontends prepare windows, once told
  spent           \* history: requests and submissions so far
inferenceVars ==
  <<waiting, queue, events, inferring, backend, discarding, local, mail, frontends, spent>>

NotRunning == [of |-> <<>>, generation |-> 0, cancelled |-> FALSE]

InferenceInit ==
  /\ waiting = <<>> /\ events = <<>> /\ mail = <<>>
  /\ queue = [scheduled |-> FALSE, generation |-> 1]
  /\ inferring = NotRunning /\ backend = "none" /\ discarding = "no" /\ frontends = FALSE
  /\ local = [state |-> "disabled", heard |-> FALSE]
  /\ spent = [requests |-> 0, submitted |-> 0]

-----------------------------------------------------------------------------
(* submit(): the latest window of a track replaces one that waits; when    *)
(* there is no room the oldest is dropped.                                 *)
Same(p) == {i \in 1..Len(waiting) : waiting[i].of = p}
Entered(p) ==
  IF Same(p) # {} THEN waiting
  ELSE Append(IF Len(waiting) >= MostPending THEN Tail(waiting) ELSE waiting,
              [of |-> p, generation |-> queue.generation])
SubmitAs(p, schedules) ==
  /\ frontends /\ spent.submitted < MaxSubmitted
  /\ spent' = [spent EXCEPT !.submitted = @ + 1]
  /\ waiting' = Entered(p)
  /\ queue' = [queue EXCEPT !.scheduled = TRUE]
  /\ events' = IF schedules THEN Append(events, "drain") ELSE events
  /\ UNCHANGED <<inferring, backend, discarding, local, mail, frontends>>

(* Defect: a drain is asked for only when nothing waited.                  *)
SubmitWhenEmpty(p) == SubmitAs(p, waiting = <<>>)
Submit(p) == SubmitAs(p, ~queue.scheduled)

(* drainOne(): the first window is taken; the worker then runs it, or asks *)
(* for the next drain at once when no model is loaded.                     *)
Drain == events # <<>> /\ Head(events) = "drain" /\ inferring = NotRunning
DrainNothing ==
  /\ Drain /\ waiting = <<>>
  /\ queue' = [queue EXCEPT !.scheduled = FALSE] /\ events' = Tail(events)
  /\ UNCHANGED <<waiting, inferring, backend, discarding, local, mail, frontends, spent>>
DrainOne ==
  /\ Drain /\ waiting # <<>> /\ waiting' = Tail(waiting)
  /\ IF backend = "ready"
     THEN /\ inferring' = [of |-> Head(waiting).of, generation |-> Head(waiting).generation,
                         cancelled |-> FALSE]
          /\ events' = Tail(events)
     ELSE UNCHANGED inferring /\ events' = Append(Tail(events), "drain")
  /\ UNCHANGED <<queue, backend, discarding, local, mail, frontends, spent>>

(* The inference ends, well or not; one that was cancelled fails.  What is *)
(* of an earlier generation is not told.                                   *)
Tells(signal) ==
  mail' = IF inferring.generation = queue.generation THEN Append(mail, signal) ELSE mail
InferenceEnds ==
  /\ inferring # NotRunning
  /\ \/ ~inferring.cancelled /\ Tells("result")
     \/ Tells("error")
  /\ inferring' = NotRunning /\ events' = Append(events, "drain")
  /\ UNCHANGED <<waiting, queue, backend, discarding, local, frontends, spent>>

(* configure() in the worker's thread, where nothing runs meanwhile: the   *)
(* waiting windows go, then the old model; a model that is asked for loads *)
(* or does not.                                                            *)
Configure ==
  /\ events # <<>> /\ Head(events) \in {"load", "unload"} /\ inferring = NotRunning
  /\ waiting' = <<>> /\ queue' = [queue EXCEPT !.generation = @ + 1]
  /\ events' = Tail(events)
  /\ \/ Head(events) = "unload" /\ backend' = "none" /\ mail' = Append(mail, "disabled")
     \/ Head(events) = "load" /\ backend' = "none" /\ mail' = Append(mail, "error")
     \/ Head(events) = "load" /\ backend' = "ready" /\ mail' = Append(mail, "ready")
  /\ UNCHANGED <<inferring, discarding, local, frontends, spent>>

-----------------------------------------------------------------------------
(* The controller.  discardPending() runs in its thread: the queue is      *)
(* cleared under one lock, and the model's run, which may be a later one,  *)
(* is cancelled after it.                                                  *)
Request == discarding = "no" /\ spent.requests < MaxRequests
           /\ spent' = [spent EXCEPT !.requests = @ + 1]
DiscardBegins ==
  waiting' = <<>> /\ queue' = [queue EXCEPT !.generation = @ + 1]
(* The second half, and what the caller does after it: the transcripts go; *)
(* enabled without its files, the model is unloaded.  A run that has not   *)
(* begun, or is over, in the model's hands is not cancelled.               *)
DiscardEnds ==
  /\ discarding # "no" /\ discarding' = "no"
  /\ \/ inferring # NotRunning /\ backend = "ready" /\ inferring' = [inferring EXCEPT !.cancelled = TRUE]
     \/ UNCHANGED inferring
  /\ local' = [state |-> IF discarding = "reset" THEN local.state ELSE discarding, heard |-> FALSE]
  /\ events' = CASE discarding = "reset" -> events
                 [] discarding = "loading" -> Append(events, "load")
                 [] OTHER -> Append(events, "unload")
  /\ UNCHANGED <<waiting, queue, backend, mail, frontends, spent>>

ConfigureLocalCharacterDecoder(state) ==
  /\ Request /\ DiscardBegins /\ discarding' = state /\ frontends' = FALSE
  /\ UNCHANGED <<events, inferring, backend, local, mail>>

(* resetDecoder(), of a source that changed or was reset.                  *)
ResetDecoder ==
  /\ Request /\ DiscardBegins /\ discarding' = "reset"
  /\ UNCHANGED <<events, inferring, backend, local, mail, frontends>>

(* statusChanged() and resultReady() of the worker.                        *)
StatusChanged ==
  /\ discarding = "no" /\ mail # <<>> /\ Head(mail) # "result" /\ mail' = Tail(mail)
  /\ frontends' = (Head(mail) = "ready")
  /\ local' = [state |-> Head(mail), heard |-> local.heard /\ Head(mail) = "ready"]
  /\ UNCHANGED <<waiting, queue, events, inferring, backend, discarding, spent>>
ResultHeard ==
  /\ discarding = "no" /\ mail # <<>> /\ Head(mail) = "result" /\ mail' = Tail(mail)
  /\ local' = [local EXCEPT !.heard = @ \/ local.state = "ready"]
  /\ UNCHANGED <<waiting, queue, events, inferring, backend, discarding, frontends, spent>>

InferenceThread == DrainNothing \/ DrainOne \/ InferenceEnds \/ Configure
InferenceNext ==
  \/ \E p \in Producers : Submit(p)
  \/ InferenceThread \/ DiscardEnds
  \/ \E state \in {"loading", "disabled", "unconfigured"} : ConfigureLocalCharacterDecoder(state)
  \/ ResetDecoder \/ StatusChanged \/ ResultHeard
InferenceSpec == InferenceInit /\ [][InferenceNext]_inferenceVars

-----------------------------------------------------------------------------
(* The queue stays within its bound, with one window of each track, all of *)
(* the present generation.                                                 *)
QueueInForce ==
  /\ Len(waiting) <= MostPending
  /\ \A i \in 1..Len(waiting) : waiting[i].generation = queue.generation /\ Same(waiting[i].of) = {i}

(* A drain is under way exactly when the worker believes one is: no wakeup *)
(* is lost, and none is asked for twice.                                   *)
Drains ==
  Cardinality({i \in 1..Len(events) : events[i] = "drain"}) + (IF inferring = NotRunning THEN 0 ELSE 1)
WakesUp ==
  /\ Drains = (IF queue.scheduled THEN 1 ELSE 0)
  /\ waiting # <<>> => queue.scheduled

(* Once everything asked for is done, the controller shows a model as      *)
(* ready only when there is one, prepares windows only for that, and keeps *)
(* no transcript without it.                                               *)
InferenceSettled == discarding = "no" /\ mail = <<>> /\ \A i \in 1..Len(events) : events[i] = "drain"
ShowsTheModel ==
  /\ InferenceSettled /\ local.state = "ready" => backend = "ready"
  /\ InferenceSettled => frontends = (local.state = "ready")
  /\ local.heard => local.state = "ready"

InferenceInv == QueueInForce /\ WakesUp /\ ShowsTheModel
=============================================================================
