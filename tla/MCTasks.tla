------------------------------- MODULE MCTasks -------------------------------
(* Instances of Tasks: three tasks, two of them peers.                     *)
EXTENDS Tasks, TLC

CONSTANTS a, b, c

\* Task a may be created at, and moved between, the priority of its peers and a
\* more urgent one.
MCTask == {a, b, c}
MCCreatePrio == [t \in MCTask |-> IF t = a THEN {0, 1} ELSE {1}]

\* Calls with windows for the tick and no time slices; calls without windows and
\* round robin; the port that does not switch on interrupt exit, where tasks come
\* and go.
Windows == [slices |-> FALSE, exits |-> TRUE, masked |-> FALSE,
            ops |-> {"yield", "delay", "setprio", "lock", "suspend", "resume"}]
Robin == [slices |-> TRUE, exits |-> TRUE, masked |-> TRUE,
          ops |-> {"yield", "delay", "suspend", "resume"}]
NoExit == [slices |-> FALSE, exits |-> FALSE, masked |-> FALSE,
           ops |-> {"create", "delete", "delay", "overflow"}]
MCBuilds == {Windows, Robin, NoExit}

\* The instances of the other runs.
MCFair == {[Robin EXCEPT !.ops = {"yield", "delay"}]}
MCWindow == {[Windows EXCEPT !.ops = {"delay"}]}
MCTable == {[Windows EXCEPT !.masked = TRUE, !.ops = {"create", "delete", "delay"}]}

MCUrgent == {[Windows EXCEPT !.masked = TRUE, !.ops = {"delay"}]}

\* The peers are interchangeable.
MCPeers == Permutations({b, c})

\* Ticks matter only through the time left to a sleeper: two states that differ
\* by a shift of the tick, or by a wake tick nobody waits for, behave alike.
MCView ==
  << [k EXCEPT !.tick = 0,
               !.wake = [t \in Tcb |-> IF k.state[t] = "SLEEPING"
                                       THEN (k.wake[t] - k.tick) % TickMod ELSE 0]], pc >>
=============================================================================
