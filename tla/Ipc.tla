---------------------------------- MODULE Ipc ----------------------------------
(***************************************************************************)
(* What the blocking calls of kernel/src/os_ipc.c share, over the tasks of *)
(* module Tasks.  A call that blocks is three actions of its task: the     *)
(* critical section, which makes the task BLOCKED and puts it on a wait    *)
(* list ("block"); the os_sched() after it ("back"); and the return, once  *)
(* the task runs again, which reads pending_result.  In between another    *)
(* task, an interrupt handler or the tick may have woken it.               *)
(***************************************************************************)
EXTENDS Tasks

CONSTANT Timeouts   \* the timeout arguments of blocking calls

\* OS_NO_WAIT and OS_WAIT_FOREVER, the least and the greatest os_tick_t
NoWait == 0
Forever == TickMod - 1

ASSUME IpcAssumption == Timeouts \subseteq Tick /\ NoWait # Forever

\* The places of a call: in the windows after its critical section, or in
\* os_sched and due to return.
CallPlaces == {"run", "call", "block", "back"}

\* The deadline a blocking call computes: 0 stands for none.
Deadline(timeout) ==
  IF timeout = Forever THEN 0 ELSE (k.tick + timeout) % TickMod

\* The critical section of a call that blocks task t on list l.
Blocked(s, t, l, timeout) ==
  WaitAppend([s EXCEPT !.wait[t] = l, !.deadline[t] = Deadline(timeout),
                       !.result[t] = "ETIMEOUT", !.state[t] = "BLOCKED"], l, t)

\* ... and how the call goes on.
Block(s, t, l, timeout) ==
  LET blocked == Blocked(s, t, l, timeout)
  IN IF k.build.masked THEN k' = CallSched(blocked) /\ pc' = [pc EXCEPT ![t] = "back"]
     ELSE k' = blocked /\ pc' = [pc EXCEPT ![t] = "block"]

\* The os_sched() of a call that blocks.
EnterBlocked(t) ==
  /\ k.at = "task" /\ k.cur = t /\ pc[t] = "block"
  /\ k' = CallSched(k)
  /\ pc' = [pc EXCEPT ![t] = "back"]

\* A call that has blocked returns k.result[t].
Returns(t) == k.at = "task" /\ k.cur = t /\ pc[t] = "back"

\* Task t is inside a call that blocks.
InBlockingCall(t) == pc[t] \in {"block", "back"}

\* An interrupt handler whose kernel calls make s from k; those that end with
\* os_sched() only note it there (SchedFromIrq), and it is done on the way out.
Interrupt(s) ==
  "isr" \in k.build.ops /\ k.at = "task" /\ k' = IrqExit(s) /\ UNCHANGED pc

\* The longest waiting task leaves list l and is woken.
HandOff(s, l, result) == Wake(ListPopHead(s, l), s.head[l], result)

\* What the woken, timed out or blocked task is told when it returns.
Outcome(t) ==
  IF ~InBlockingCall(t) THEN "idle"
  ELSE IF k.state[t] = "BLOCKED" THEN "waiting" ELSE k.result[t]

\* Wait list l as a sequence, in the order of its links.
Waiting(l) == [j \in 1 .. k.count[l] |-> Walk(k, l, TaskCount)[j]]
-----------------------------------------------------------------------------
(* Properties.                                                             *)

\* The tasks on the wait lists are exactly the BLOCKED ones, each on the list of
\* the object its pending_ipc names and on no other (blocking, waking and
\* task_timeout_wake must agree about it).
WaitersBlocked ==
  \A l \in WaitList :
    Members(k, l, TaskCount) = { t \in Task : k.state[t] = "BLOCKED" /\ k.wait[t] = l }

\* No wait outlasts its deadline: when the tick handler has ended, no task is
\* BLOCKED whose deadline has been reached, whatever the scan met before it, also
\* where tick and deadline wrap (task_timeout_wake, os_tick_handler).
NobodyOverstays ==
  k.at \in {"task", "sched"} =>
    \A t \in Task : k.state[t] = "BLOCKED" /\ k.deadline[t] # 0
                      => ~Reached(k.tick, k.deadline[t])

\* A waiting call times out at its deadline tick and at no other.
TimesOutOnTime ==
  [][ \A t \in Task : Outcome(t) = "waiting" /\ Outcome(t)' = "ETIMEOUT"
                        => k.tick = k.deadline[t] ]_vars
=============================================================================
