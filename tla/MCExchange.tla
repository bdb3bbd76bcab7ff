------------------------------ MODULE MCExchange ------------------------------
(* A mutex and a queue, the objects that pass something from task to task, over *)
(* the same three tasks, of which a is more urgent than the peers b and c.  The *)
(* build names the calls made in a behaviour; the object that is not called     *)
(* stands still.                                                                *)
EXTENDS Mutex, Queue, TLC

CONSTANTS a, b, c, x, y

\* Calls with windows for the tick, and calls without windows, where interrupt
\* handlers call the kernel too or under round robin.
Windows(ops) == [slices |-> FALSE, exits |-> TRUE, masked |-> FALSE, ops |-> ops]
Masked(ops) == [slices |-> FALSE, exits |-> TRUE, masked |-> TRUE, ops |-> ops]

MCBuilds ==
  { Windows({"mlock", "munlock"}), [Masked({"mlock", "munlock"}) EXCEPT !.slices = TRUE],
    Windows({"send", "recv"}), Masked({"send", "recv", "isr"}) }

MCCreatePrio == [t \in Task |-> IF t = a THEN {0} ELSE {1}]

MCInit == MutexInit /\ QueueInit

MCNext ==
  \/ "mlock" \in k.build.ops /\ MutexNext /\ UNCHANGED <<q, parcel>>
  \/ "send" \in k.build.ops /\ QueueNext /\ UNCHANGED <<mx, holds, asked>>

MCSpec == MCInit /\ [][MCNext]_<<k, pc, mx, holds, asked, q, parcel>>

MCSymmetry == Permutations({b, c}) \cup Permutations(Msg)

\* main creates all tasks, and in one order, a between its peers.
MCOrder ==
  \/ k.at = "boot"
  \/ (\A t \in Task : Live(t)) /\ \A i \in DOMAIN k.table : k.table[i] = a => i = 3

\* A result is only read by the return of a call that blocked, a parcel only
\* while its sender waits, and a slot of the ring only while it holds a message.
Used(i) == \E j \in 0 .. q.count - 1 : i = (q.head + j) % Capacity
MCView ==
  << [k EXCEPT !.result = [t \in Tcb |-> IF InBlockingCall(t) THEN @[t] ELSE "EOK"]],
     pc, mx, holds, asked,
     [q EXCEPT !.buffer = [i \in Slot |-> IF Used(i) THEN @[i] ELSE NULL]],
     [t \in Task |-> IF k.wait[t] = send_wait THEN parcel[t] ELSE NULL] >>
=============================================================================
