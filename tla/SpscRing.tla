------------------------------- MODULE SpscRing -------------------------------
(***************************************************************************)
(* SpscRingBuffer, the lock-free ring under LiveAudioPipe, at the grain of *)
(* its atomic accesses.  A push loads both indices, copies the block into  *)
(* its slot and stores head_; a pop loads both indices, copies the block   *)
(* out and stores tail_.  The copy is not atomic, and the other thread may *)
(* act between a load and the store that follows it.                       *)
(*                                                                         *)
(* The acquire load of the other thread's index may return an old value,   *)
(* but never one older than it returned before.  The release store makes   *)
(* the copied block visible with the index.                                *)
(*                                                                         *)
(* The capture thread is the producer.  SdrCaptureWorker::start() also     *)
(* empties the pipe before it opens the device: then the capture thread    *)
(* pops as well.                                                           *)
(***************************************************************************)
EXTENDS Integers, Sequences

CONSTANTS
  Capacity,
  Blocks,
  NoBlock,     \* what a slot holds before, and while, a block is copied in
  Consumers,   \* the threads that pop
  CaptureThread      \* the producer's thread; in Consumers if it empties the pipe

ASSUME RingAssumption ==
  /\ Capacity \in Nat \ {0}
  /\ NoBlock \notin Blocks

VARIABLES
  storage,     \* storage_
  head,        \* head_, stored by the producer
  tail,        \* tail_, stored by a consumer
  pushing,     \* the block being copied in, or NoBlock
  knownTail,   \* the last value of tail_ that the producer loaded
  popping,     \* per consumer, the slot it copies out of, or Idle
  knownHead,   \* per consumer, the last value of head_ that it loaded
  taken        \* the block that the last pop returned

ringVars == <<storage, head, tail, pushing, knownTail, popping, knownHead, taken>>

Slots == 0..Capacity
Idle == -1
Increment(i) == IF i = Capacity THEN 0 ELSE i + 1

(* How many increments lead from one index to the other.                   *)
Ahead(from, to) == IF to >= from THEN to - from ELSE to - from + Capacity + 1
Advanced(i, n) == IF i + n > Capacity THEN i + n - Capacity - 1 ELSE i + n

RingInit ==
  /\ storage = [i \in Slots |-> NoBlock]
  /\ head = 0
  /\ tail = 0
  /\ pushing = NoBlock
  /\ knownTail = 0
  /\ popping = [c \in Consumers |-> Idle]
  /\ knownHead = [c \in Consumers |-> 0]
  /\ taken = NoBlock

(* Between the value a thread loaded last and the value that is stored.    *)
Loadable(known, stored) == {Advanced(known, n) : n \in 0..Ahead(known, stored)}

(* One thread makes one call at a time. *)
CaptureIsFree == CaptureThread \in Consumers => popping[CaptureThread] = Idle

(* Defect: the ring is full only when the indices would pass each other.   *)
BeginPushIntoLastSlot(b) ==
  /\ pushing = NoBlock /\ CaptureIsFree
  /\ \E t \in Loadable(knownTail, tail) :
       /\ Increment(head) # t \/ storage[head] = NoBlock
       /\ knownTail' = t
  /\ pushing' = b
  /\ storage' = [storage EXCEPT ![head] = NoBlock]
  /\ UNCHANGED <<head, tail, popping, knownHead, taken>>

(* try_push: the ring is not full as far as the producer knows, and the    *)
(* copy into the slot begins.                                              *)
BeginPush(b) ==
  /\ pushing = NoBlock /\ CaptureIsFree
  /\ \E t \in Loadable(knownTail, tail) :
       /\ Increment(head) # t
       /\ knownTail' = t
  /\ pushing' = b
  /\ storage' = [storage EXCEPT ![head] = NoBlock]
  /\ UNCHANGED <<head, tail, popping, knownHead, taken>>

PushFails ==
  /\ pushing = NoBlock /\ CaptureIsFree
  /\ \E t \in Loadable(knownTail, tail) :
       /\ Increment(head) = t
       /\ knownTail' = t
  /\ UNCHANGED <<storage, head, tail, pushing, popping, knownHead, taken>>

(* Defect: the index is stored without the block. *)
EndPushUncopied ==
  /\ pushing # NoBlock
  /\ head' = Increment(head)
  /\ pushing' = NoBlock
  /\ UNCHANGED <<storage, tail, knownTail, popping, knownHead, taken>>

EndPush ==
  /\ pushing # NoBlock
  /\ storage' = [storage EXCEPT ![head] = pushing]
  /\ head' = Increment(head)
  /\ pushing' = NoBlock
  /\ UNCHANGED <<tail, knownTail, popping, knownHead, taken>>

(* try_pop: the ring is not empty as far as the consumer knows, and the    *)
(* copy out of the slot begins.                                            *)
BeginPop(c) ==
  /\ popping[c] = Idle
  /\ c = CaptureThread => pushing = NoBlock
  /\ \E h \in Loadable(knownHead[c], head) :
       /\ tail # h
       /\ knownHead' = [knownHead EXCEPT ![c] = h]
  /\ popping' = [popping EXCEPT ![c] = tail]
  /\ UNCHANGED <<storage, head, tail, pushing, knownTail, taken>>

PopFails(c) ==
  /\ popping[c] = Idle
  /\ c = CaptureThread => pushing = NoBlock
  /\ tail \in Loadable(knownHead[c], head)
  /\ knownHead' = [knownHead EXCEPT ![c] = tail]
  /\ UNCHANGED <<storage, head, tail, pushing, knownTail, popping, taken>>

EndPop(c) ==
  /\ popping[c] # Idle
  /\ taken' = storage[popping[c]]
  /\ tail' = Increment(popping[c])
  /\ popping' = [popping EXCEPT ![c] = Idle]
  /\ UNCHANGED <<storage, head, pushing, knownTail, knownHead>>

Push == (\E b \in Blocks : BeginPush(b)) \/ PushFails \/ EndPush
Pop(c) == BeginPop(c) \/ PopFails(c) \/ EndPop(c)
RingNext == Push \/ \E c \in Consumers : Pop(c)
RingSpec == RingInit /\ [][RingNext]_ringVars

-----------------------------------------------------------------------------
(***************************************************************************)
(* Every index is a slot, and what a thread knows of the other's index is  *)
(* neither ahead of it nor behind its own side of the ring.                *)
(***************************************************************************)
RingTypeInv ==
  /\ storage \in [Slots -> Blocks \cup {NoBlock}]
  /\ head \in Slots /\ tail \in Slots /\ knownTail \in Slots
  /\ pushing \in Blocks \cup {NoBlock}
  /\ popping \in [Consumers -> Slots \cup {Idle}]
  /\ knownHead \in [Consumers -> Slots]
  /\ taken \in Blocks \cup {NoBlock}

(***************************************************************************)
(* The inductive invariant.  What the producer knows of tail_ is behind    *)
(* it, what a consumer knows of head_ lies between the two indices, and    *)
(* between them lie the blocks, each of them copied in.                    *)
(***************************************************************************)
KnownIndices ==
  /\ Ahead(tail, head) <= Ahead(knownTail, head)
  /\ \A c \in Consumers : Ahead(tail, knownHead[c]) <= Ahead(tail, head)
AccessedSlots ==
  /\ pushing # NoBlock => Increment(head) # knownTail
  /\ \A c \in Consumers :
       popping[c] # Idle => popping[c] = tail /\ tail # knownHead[c]
CopiedBlocks ==
  \A n \in 0..(Ahead(tail, head) - 1) : storage[Advanced(tail, n)] \in Blocks
RingInv == RingTypeInv /\ KnownIndices /\ AccessedSlots /\ CopiedBlocks

(* The copies of try_push and try_pop are plain, so the two threads must   *)
(* never be in the same slot: the slot that the ring keeps empty keeps the *)
(* producer out of a slot until the consumer has copied it out, and the    *)
(* consumer out of it until the producer has copied it in, however old the *)
(* index that either of them last loaded.                                  *)
NoTornBlock ==
  \A c \in Consumers : pushing # NoBlock => popping[c] # head

(* The consumer's index only ever advances by the one slot that it took:   *)
(* "Bounded single-producer/single-consumer queue"                         *)
(* (spsc_ring_buffer.hpp:10).                                              *)
TailAdvancesByOne == [][tail' # tail => tail' = Increment(tail)]_ringVars

-----------------------------------------------------------------------------
(* The blocks in the ring, oldest first. *)
Contents == [n \in 1..Ahead(tail, head) |-> storage[Advanced(tail, n - 1)]]

Fifo == INSTANCE BoundedFifo WITH queue <- Contents, taken <- taken

(* The ring does what a bounded queue does: under one producer and one     *)
(* consumer, no block that a push accepted is lost, repeated, reordered or *)
(* torn, and a push that succeeds never overwrites one.                    *)
FifoSpec == Fifo!Spec
=============================================================================
