-------------------------------- MODULE MCMutex --------------------------------
(* Instances of Mutex: task a is more urgent than the peers b and c.       *)
EXTENDS Mutex, TLC

CONSTANTS a, b, c

\* Round robin where tasks yield, and calls without windows where they sleep.
MCFair == {[slices |-> TRUE, exits |-> TRUE, masked |-> TRUE,
            ops |-> {"mlock", "munlock", "yield"}]}
MCInherit == {[slices |-> FALSE, exits |-> TRUE, masked |-> TRUE,
               ops |-> {"mlock", "munlock", "delay"}]}

MCCreatePrio == [t \in Task |-> IF t = a THEN {0} ELSE {1}]

\* ... or all are peers.
MCEqualPrio == [t \in Task |-> {1}]

\* Peers are interchangeable: main creates them in one order.
MCOrder == \A i \in DOMAIN k.table : k.table[i] = <<Idle, a, b, c>>[i]
=============================================================================
