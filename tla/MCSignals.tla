------------------------------- MODULE MCSignals -------------------------------
(* A semaphore and an event over the same three tasks, of which a is more       *)
(* urgent than the peers b and c.  The build names the calls made in a          *)
(* behaviour; the object that is not called stands still.                       *)
EXTENDS Sem, Event, TLC

CONSTANTS a, b, c, x, y

\* Calls with windows for the tick, and calls without windows where interrupt
\* handlers call the kernel too.
Windows(ops) == [slices |-> FALSE, exits |-> TRUE, masked |-> FALSE, ops |-> ops]
Masked(ops) == [slices |-> FALSE, exits |-> TRUE, masked |-> TRUE, ops |-> ops \cup {"isr"}]

MCBuilds ==
  { Windows({"take", "give", "reset"}), [Masked({"take", "give"}) EXCEPT !.slices = TRUE],
    Windows({"wait", "set"}), Masked({"wait", "set", "clear"}) }

MCCreatePrio == [t \in Task |-> IF t = a THEN {0} ELSE {1}]
MCSets == {{x}, {x, y}}

\* Any of two flags, with a clear of what was met, or both, and they stay.
MCRequests ==
  { [flags |-> {x, y}, all |-> FALSE, clear |-> TRUE],
    [flags |-> {x, y}, all |-> TRUE, clear |-> FALSE] }

MCInit == SemInit /\ EventInit

MCNext ==
  \/ "take" \in k.build.ops /\ SemNext /\ UNCHANGED <<flags, want, seen>>
  \/ "wait" \in k.build.ops /\ EventNext /\ UNCHANGED units

MCSpec == MCInit /\ [][MCNext]_<<k, pc, units, flags, want, seen>>

MCPeers == Permutations({b, c})

\* main creates all tasks, and in one order, a between its peers.
MCOrder ==
  \/ k.at = "boot"
  \/ (\A t \in Task : Live(t)) /\ \A i \in DOMAIN k.table : k.table[i] = a => i = 3

\* A result is only read by the return of a call that blocked, and seen by nobody
\* after that.
MCView == << [k EXCEPT !.result = [t \in Tcb |-> IF InBlockingCall(t) THEN @[t] ELSE "EOK"]],
             pc, units, flags, want >>
=============================================================================
