------------------------------ MODULE BoundedFifo ------------------------------
(***************************************************************************)
(* What the pipe between a capture worker and the DSP worker promises: a   *)
(* queue of at most Capacity blocks, which the producer may find full and  *)
(* the consumer empty, and which loses, repeats and reorders nothing that  *)
(* it has accepted.                                                        *)
(***************************************************************************)
EXTENDS Naturals, Sequences

CONSTANTS Capacity, Blocks, NoBlock

VARIABLES
  queue,     \* the blocks accepted and not yet taken, in order
  taken      \* the block that the last take returned

Init == queue = <<>> /\ taken = NoBlock

Accept ==
  \E b \in Blocks :
    /\ Len(queue) < Capacity
    /\ queue' = Append(queue, b)
    /\ UNCHANGED taken

Take ==
  /\ queue # <<>>
  /\ taken' = Head(queue)
  /\ queue' = Tail(queue)

Next == Accept \/ Take
Spec == Init /\ [][Next]_<<queue, taken>>
=============================================================================
