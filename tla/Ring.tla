---------------------------------- MODULE Ring ----------------------------------
(***************************************************************************)
(* The ring buffer of os_queue_t (kernel/src/os_ipc.c): slots, the index   *)
(* to read next, the index to write next, and the number of messages.      *)
(***************************************************************************)
EXTENDS Integers, Sequences

CONSTANTS
  Capacity,   \* os_queue_t.capacity
  Msg         \* messages; their size and content do not matter

ASSUME RingAssumption == Capacity \in Nat \ {0}

Slot == 0 .. Capacity - 1

RingType(Content) ==
  [buffer : [Slot -> Content], head : Slot, tail : Slot, count : 0 .. Capacity]

\* os_queue_init, over a buffer that holds anything
EmptyRing(any) == [buffer |-> [i \in Slot |-> any], head |-> 0, tail |-> 0, count |-> 0]

\* Mutation: the write index does not wrap at the capacity but before it.
MutPush(q, m) ==
  [q EXCEPT !.buffer[q.tail] = m, !.count = @ + 1,
            !.tail = IF q.tail + 1 < Capacity - 1 THEN q.tail + 1 ELSE 0]

\* os_queue_push_buffered
Push(q, m) ==
  [q EXCEPT !.buffer[q.tail] = m, !.tail = (q.tail + 1) % Capacity, !.count = @ + 1]

\* The oldest message, and the ring without it (first lines of os_queue_recv).
Oldest(q) == q.buffer[q.head]
Pop(q) == [q EXCEPT !.head = (q.head + 1) % Capacity, !.count = @ - 1]

\* The write index follows from the read index and the number of messages.
Consistent(q) == q.tail = (q.head + q.count) % Capacity

\* The messages in the ring, oldest first.
Contents(q) == [j \in 1 .. q.count |-> q.buffer[(q.head + j - 1) % Capacity]]
=============================================================================
