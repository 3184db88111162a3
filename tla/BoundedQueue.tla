---------------------------- MODULE BoundedQueue ----------------------------
(***************************************************************************)
(* What a bounded buffer that refuses an item when it is full promises: a  *)
(* queue of at most Capacity items.                                        *)
(***************************************************************************)
EXTENDS Naturals, Sequences

CONSTANTS Capacity, Values

VARIABLE queue

QueueInit == queue = <<>>

Offer(x) == Len(queue) < Capacity /\ queue' = Append(queue, x)
Take     == queue # <<>> /\ queue' = Tail(queue)
Reset    == queue' = <<>>

QueueNext == (\E x \in Values : Offer(x)) \/ Take \/ Reset

QueueSpec == QueueInit /\ [][QueueNext]_queue
=============================================================================
