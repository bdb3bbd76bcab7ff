------------------------------ MODULE MCSmpSched ------------------------------
(* Instances of SmpSched in which tasks may go from core to core.          *)
EXTENDS SmpSched

\* Time runs and tasks yield, with interrupts disabled during calls.
MCYield == {[slices |-> FALSE, exits |-> TRUE, masked |-> TRUE, ops |-> {"yield"}]}
=============================================================================
