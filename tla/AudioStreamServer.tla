---------------------------- MODULE AudioStreamServer ----------------------------
(***************************************************************************)
(* AudioStreamServer: receive audio is cut into datagrams on the thread    *)
(* that produces it and sent on the thread of the server, to the observers *)
(* that have subscribed.  There are never more than a few datagrams on     *)
(* their way between the two; what finds no room is dropped and counted,   *)
(* and the count travels with the next datagram.                           *)
(***************************************************************************)
EXTENDS Integers, Sequences, FiniteSets

CONSTANTS
  Endpoints,        \* the addresses that the service may be bound to
  MostSubscribers,  \* kMaximumSubscribers
  MostInFlight,     \* kMaximumDatagramsInFlight
  BlockChunks,      \* datagrams that a block of audio is cut into
  MostChunks        \* bound on the datagrams that are ever produced
ASSUME AudioStreamAssumption ==
  MostSubscribers \in Nat \ {0} /\ MostInFlight \in Nat \ {0} /\ BlockChunks \in Nat \ {0}

VARIABLES
  audio,        \* [enabled, requested, bound, subscribers, sending]
  producer,     \* the thread that produces audio: [left, room, chunk]
  datagrams,    \* [sequence, dropped, inFlight]: the counters that both threads use
  posted,       \* the datagrams on their way to the thread of the server
  heard         \* of each subscription, [from, last]: the number that comes next
                \* when it begins, and the last datagram that it was sent
audioVars == <<audio, producer, datagrams, posted, heard>>

NoDatagram == [sequence |-> 0, dropped |-> 0, chunk |-> 0]
Ids(subscribers) == {s.id : s \in subscribers}

AudioInit ==
  /\ audio = [enabled |-> FALSE, requested |-> {}, bound |-> {}, subscribers |-> {}, sending |-> FALSE]
  /\ producer = [left |-> 0, room |-> FALSE, chunk |-> 1]
  /\ datagrams = [sequence |-> 0, dropped |-> 0, inFlight |-> 0]
  /\ posted = <<>> /\ heard = <<>>

-----------------------------------------------------------------------------
(* The thread of the server.  rebind() ends every subscription: each names  *)
(* the socket that it leaves by.                                            *)
Unsubscribed(a) == [a EXCEPT !.subscribers = {}, !.sending = FALSE]
Rebound(a, bound) == [Unsubscribed(a) EXCEPT !.bound = IF a.enabled THEN bound ELSE {}]
EnableAudio(enabled, bound) ==
  audio' = IF enabled = audio.enabled THEN audio
           ELSE Rebound([audio EXCEPT !.enabled = enabled], bound)
ConfigureAudio(requested, bound) == audio' = Rebound([audio EXCEPT !.requested = requested], bound)

(* via: the socket that socketFor() finds for the connection, bound to its  *)
(* address or to all of its family on its port.                             *)
CanSubscribe(id, via) ==
  /\ audio.enabled /\ id \notin Ids(audio.subscribers)
  /\ Cardinality(audio.subscribers) < MostSubscribers /\ via \in audio.bound
Subscribe(id, via) ==
  audio' = IF CanSubscribe(id, via)
           THEN [audio EXCEPT !.subscribers = @ \cup {[id |-> id, via |-> via]}, !.sending = TRUE]
           ELSE audio
Without(a, ids) ==
  LET left == {s \in a.subscribers : s.id \notin ids}
  IN [a EXCEPT !.subscribers = left, !.sending = @ /\ left # {}]

(* A subscription that ends takes what it has heard with it. *)
HeardByThose(a) ==
  [id \in Ids(a.subscribers) |->
     IF id \in DOMAIN heard THEN heard[id] ELSE [from |-> datagrams.sequence, last |-> NoDatagram]]
Remembers == heard' = HeardByThose(audio')

(* sendDatagram(): a datagram that the system does not take is not sent     *)
(* again, and is missed by that subscriber alone.                           *)
SendDatagram ==
  /\ posted # <<>>
  /\ \E taken \in SUBSET Ids(audio.subscribers) :
       heard' = [id \in DOMAIN heard |->
                   IF id \in taken THEN [heard[id] EXCEPT !.last = Head(posted)] ELSE heard[id]]
  /\ posted' = Tail(posted) /\ datagrams' = [datagrams EXCEPT !.inFlight = @ - 1]
  /\ UNCHANGED <<audio, producer>>

-----------------------------------------------------------------------------
(* publishAudio(), on the thread that produces: whether anybody listens is  *)
(* asked once for a block; for each datagram of it, whether there is room,  *)
(* and then, as steps of their own, the counters.  A block at a rate that   *)
(* is refused is not audio here, and has no place among the chunks.         *)
PublishBlock ==
  /\ producer.left = 0 /\ producer.chunk <= MostChunks
  /\ producer' = IF audio.sending THEN [producer EXCEPT !.left = BlockChunks]
                 ELSE [producer EXCEPT !.chunk = @ + 1]
  /\ UNCHANGED <<audio, datagrams, posted, heard>>
ChunkFinds ==
  /\ producer.left > 0 /\ ~producer.room
  /\ IF datagrams.inFlight >= MostInFlight
     THEN /\ datagrams' = [datagrams EXCEPT !.dropped = @ + 1]
          /\ producer' = [producer EXCEPT !.left = @ - 1, !.chunk = @ + 1]
     ELSE producer' = [producer EXCEPT !.room = TRUE] /\ UNCHANGED datagrams
  /\ UNCHANGED <<audio, posted, heard>>
(* Defect: the count of what was dropped is read, and never taken. *)
CountedAgain(d) == [d EXCEPT !.sequence = @ + 1, !.inFlight = @ + 1]
Counted(d) == [d EXCEPT !.sequence = @ + 1, !.inFlight = @ + 1, !.dropped = 0]
ChunkPosted ==
  /\ producer.left > 0 /\ producer.room
  /\ producer' = [left |-> producer.left - 1, room |-> FALSE, chunk |-> producer.chunk + 1]
  /\ datagrams' = Counted(datagrams)
  /\ posted' = Append(posted, [sequence |-> datagrams.sequence, dropped |-> datagrams.dropped,
                               chunk |-> producer.chunk])
  /\ UNCHANGED <<audio, heard>>
AudioFlows == PublishBlock \/ ChunkFinds \/ ChunkPosted \/ SendDatagram

-----------------------------------------------------------------------------
(* What is on its way never exceeds the bound and is what is counted; the   *)
(* producer is told to work exactly while somebody listens; and nobody does *)
(* over a socket that is gone.                                              *)
AudioInv ==
  /\ Len(posted) = datagrams.inFlight /\ datagrams.inFlight <= MostInFlight
  /\ audio.sending <=> audio.subscribers # {}
  /\ \A s \in audio.subscribers : audio.enabled /\ s.via \in audio.bound
  /\ audio.bound \subseteq audio.requested
  /\ DOMAIN heard = Ids(audio.subscribers)

(* An observer can tell what the station dropped from what the network did: *)
(* between two datagrams with consecutive numbers, as much of the audio is  *)
(* missing as the second one says, and there is no datagram it gets twice.  *)
(* Not so of the datagrams that were on their way before it subscribed.     *)
GapStep ==
  \A id \in DOMAIN heard \cap DOMAIN heard' :
    LET was == heard[id].last
        is == heard'[id].last
    IN (was.chunk > 0 /\ is # was /\ was.sequence >= heard[id].from) =>
         /\ is.sequence > was.sequence
         /\ is.sequence = was.sequence + 1 => is.chunk = was.chunk + 1 + is.dropped
GapsAreAccounted == [][GapStep]_audioVars
=============================================================================
