----------------------------- MODULE RingBuffer -----------------------------
(***************************************************************************)
(* RingBuffer of utils/buffer-pool.ts: a queue in an array of fixed size.  *)
(* A full buffer refuses an item instead of overwriting the oldest one.    *)
(***************************************************************************)
EXTENDS Naturals, Sequences

CONSTANTS
  Capacity,   \* capacity
  Values,     \* what is put into the buffer
  Undefined   \* what an empty slot holds

ASSUME CapacityPositive == Capacity \in Nat \ {0}

VARIABLES buffer, head, tail, count

ringVars == <<buffer, head, tail, count>>

Slots == 0 .. Capacity - 1

RingInit ==
  /\ buffer = [i \in Slots |-> Undefined]
  /\ head = 0 /\ tail = 0 /\ count = 0

(* Faulty: the oldest item is overwritten. *)
PushOverwrites(x) ==
  /\ buffer' = [buffer EXCEPT ![tail] = x]
  /\ tail' = (tail + 1) % Capacity
  /\ count' = IF count = Capacity THEN count ELSE count + 1
  /\ head' = IF count = Capacity THEN (head + 1) % Capacity ELSE head

Push(x) ==
  \/ /\ count = Capacity
     /\ UNCHANGED ringVars
  \/ /\ count # Capacity
     /\ buffer' = [buffer EXCEPT ![tail] = x]
     /\ tail' = (tail + 1) % Capacity
     /\ count' = count + 1
     /\ UNCHANGED head

Pop ==
  /\ count # 0
  /\ buffer' = [buffer EXCEPT ![head] = Undefined]
  /\ head' = (head + 1) % Capacity
  /\ count' = count - 1
  /\ UNCHANGED tail

ClearBuffer ==
  /\ buffer' = [i \in Slots |-> Undefined]
  /\ head' = 0 /\ tail' = 0 /\ count' = 0

(* toArray. *)
ToArray == [i \in 1 .. count |-> buffer[(head + i - 1) % Capacity]]

RingNext == (\E x \in Values : Push(x)) \/ Pop \/ ClearBuffer

RingSpec == RingInit /\ [][RingNext]_ringVars

Queue == INSTANCE BoundedQueue WITH queue <- ToArray

(* push, pop, clear and toArray together behave as a queue of at most      *)
(* Capacity items: head, tail and count never lose or mix up an item, and  *)
(* what toArray returns is what was pushed and not popped, in that order.  *)
BufferIsQueue == Queue!QueueSpec
=============================================================================
