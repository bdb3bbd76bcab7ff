-------------------------------- MODULE Tasks --------------------------------
(***************************************************************************)
(* The task interface of kernel/src/os_sched.c (os_task_*, os_sched_lock,  *)
(* os_sched_unlock) called by application tasks, over the scheduler and    *)
(* the timer interrupt of module Sched.  Each action is one call up to its *)
(* os_sched().                                                             *)
(***************************************************************************)
EXTENDS Sched

\* A control block that os_task_create has filled in and that has not ended.
Live(t) == k.state[t] \notin {"INIT", "TERMINATED"}

\* os_task_delete and os_task_suspend: a READY task leaves its list, any other
\* keeps its links; only the current task gives up the processor.
Stopped(s, t, state) ==
  [(IF s.state[t] = "READY" THEN ReadyRemove(s, t) ELSE s) EXCEPT !.state[t] = state]

StopTask(c, t, state) ==
  LET s == Stopped(k, t, state)
  IN IF t = c THEN ThenSched(c, s) ELSE k' = s /\ UNCHANGED pc

TaskDelete(c, t) ==
  /\ "delete" \in k.build.ops /\ Runs(c) /\ Live(t)
  /\ StopTask(c, t, "TERMINATED")

TaskSuspend(c, t) ==
  /\ "suspend" \in k.build.ops /\ Runs(c) /\ Live(t)
  /\ StopTask(c, t, "SUSPENDED")

\* os_task_resume: os_sched is called in any case.
Resumed(s, t) == IF s.state[t] = "SUSPENDED" THEN ReadyAdd(s, t) ELSE s

TaskResume(c, t) ==
  /\ "resume" \in k.build.ops /\ Runs(c) /\ Live(t)
  /\ ThenSched(c, Resumed(k, t))

\* os_task_yield: only a RUNNING task with a ready peer gives way.
TaskYield(c) ==
  /\ "yield" \in k.build.ops /\ Runs(c)
  /\ IF k.state[c] = "RUNNING" /\ k.count[k.prio[c]] > 0
     THEN ThenSched(c, ReadyAdd(k, c))
     ELSE UNCHANGED vars

\* Mutation: the sum does not wrap with the tick counter.
MutDelayed(s, t, ticks) ==
  [(IF s.state[t] = "READY" THEN ReadyRemove(s, t) ELSE s)
     EXCEPT !.wake[t] = s.tick + ticks, !.state[t] = "SLEEPING"]

\* os_task_delay of at least one tick (a delay of 0 is os_task_yield).
Delayed(s, t, ticks) ==
  [(IF s.state[t] = "READY" THEN ReadyRemove(s, t) ELSE s)
     EXCEPT !.wake[t] = (s.tick + ticks) % TickMod, !.state[t] = "SLEEPING"]

TaskDelay(c, ticks) ==
  /\ "delay" \in k.build.ops /\ Runs(c) /\ ticks > 0
  /\ ThenSched(c, Delayed(k, c, ticks))

\* Mutation: a READY task stays on the list of its old priority.
MutRePrio(s, t, p) ==
  LET follows == s.prio[t] = s.base[t] \/ p < s.prio[t]
  IN [s EXCEPT !.prio[t] = IF follows THEN p ELSE @, !.base[t] = p]

\* os_task_set_prio on a priority that is not the task's already: the current
\* priority follows the base unless the task has inherited a more urgent one.
RePrio(s, t, p) ==
  LET follows == s.prio[t] = s.base[t] \/ p < s.prio[t]
      off == IF s.state[t] = "READY" THEN ReadyRemove(s, t) ELSE s
      set == [off EXCEPT !.prio[t] = IF follows THEN p ELSE @, !.base[t] = p]
  IN IF s.state[t] = "READY" THEN ReadyAdd(set, t) ELSE set

TaskSetPrio(c, t, p) ==
  /\ "setprio" \in k.build.ops /\ Runs(c) /\ Live(t)
  /\ IF k.prio[t] = p /\ k.base[t] = p THEN UNCHANGED vars
     ELSE ThenSched(c, RePrio(k, t, p))

\* os_sched_lock, nested at most LockMax deep.
SchedLock(c) ==
  /\ "lock" \in k.build.ops /\ Runs(c) /\ k.lock < LockMax
  /\ k' = [k EXCEPT !.lock = @ + 1]
  /\ UNCHANGED pc

\* os_sched_unlock: the outermost one runs the scheduling that was postponed.
SchedUnlock(c) ==
  /\ "lock" \in k.build.ops /\ Runs(c) /\ k.lock > 0
  /\ LET s == [k EXCEPT !.lock = @ - 1]
     IN IF s.lock = 0 /\ s.pend THEN ThenSched(c, s) ELSE k' = s /\ UNCHANGED pc

\* A task overruns its own stack and smashes the guard word below it.
Overflow(c) ==
  /\ "overflow" \in k.build.ops /\ Runs(c)
  /\ k' = [k EXCEPT !.guard[c] = FALSE]
  /\ UNCHANGED pc
-----------------------------------------------------------------------------
\* What the task c may do next.
TaskStep(c) ==
  \/ EnterSched(c)
  \/ \E t \in Task : \E p \in CreatePrio[t] : TaskCreate(c, t, p)
  \/ \E t \in Task : TaskDelete(c, t) \/ TaskSuspend(c, t) \/ TaskResume(c, t)
  \/ \E t \in Task : \E p \in CreatePrio[t] : TaskSetPrio(c, t, p)
  \/ TaskYield(c)
  \/ \E ticks \in Delays : TaskDelay(c, ticks)
  \/ SchedLock(c)
  \/ SchedUnlock(c)
  \/ Overflow(c)

\* What the kernel and the hardware do.
KernelStep ==
  \/ \E t \in Task : \E p \in CreatePrio[t] : MainCreate(t, p)
  \/ KernelStart
  \/ StartFirst
  \/ SkipOverflowed
  \/ Switch
  \/ IdleSched
  \/ TickStart
  \/ TickScan
  \/ TickEnd

TasksNext == KernelStep \/ \E c \in Task : TaskStep(c)

TasksSpec == KernelInit /\ [][TasksNext]_vars

\* Code inside the kernel runs to its end.  The timer interrupt stays pending
\* until it is taken, so it is taken although interrupts are disabled again and
\* again (strong fairness), and a task in the few instructions before its
\* os_sched() gets through them although ticks may come in between.
KernelFairness ==
  /\ WF_vars(KernelStart) /\ WF_vars(StartFirst)
  /\ WF_vars(TickScan) /\ WF_vars(TickEnd)
  /\ WF_vars(Switch) /\ WF_vars(SkipOverflowed)
  /\ SF_vars(TickStart)
  /\ \A c \in Task : SF_vars(EnterSched(c))

FairTasksSpec == TasksSpec /\ KernelFairness
-----------------------------------------------------------------------------
(* Properties.                                                             *)

TaskCount == Cardinality(Tcb)

\* Every field has its type.
TypeOK ==
  /\ k \in KernelType
  /\ pc \in [Tcb -> {"run", "call"}]

\* The links of os_tcb_t (one pair for all lists) are sound at every point where
\* an interrupt or another task can look: every list is a chain from head to
\* tail with inverse back links and as many elements as its count.
ListsSound == \A l \in List : WellFormed(k, l, TaskCount)

\* A task is on the ready list of its current priority exactly when it is READY,
\* and on no other ready list: what task_ready_add, task_ready_remove and every
\* handler that writes state or priority must maintain together.
ReadyListedOnce ==
  \A p \in Prio : Members(k, p, TaskCount)
                    = { t \in Task : k.state[t] = "READY" /\ k.prio[t] = p }

\* g_ready_bitmap, which sched_highest_ready trusts, names exactly the ready
\* lists that are not empty.
BitmapExact == k.bitmap = { p \in Prio : k.head[p] # NULL }

\* The three together, at every point where anybody can look: the lists are sound,
\* and states, priorities and the bitmap agree with them.
ListsAgree == ListsSound /\ ReadyListedOnce /\ BitmapExact

\* At most one task is RUNNING, and it is g_current_task: the switch, the start
\* and the stack-guard paths of os_sched never leave a second one behind.
SoleRunning == \A t \in Tcb : k.state[t] = "RUNNING" => k.cur = t

\* A delayed task is made READY by the tick it asked for, neither earlier nor
\* later, also when the 32-bit tick wraps in between (os_task_delay and the scan
\* of os_tick_handler).
WakesOnTime ==
  [][\A t \in Task : k.state[t] = "SLEEPING" /\ k'.state[t] = "READY"
                       => k.tick = k.wake[t]]_vars

\* A sleeping task does not sleep for ever: as long as ticks come it is woken
\* (or suspended or deleted by another).
SleepersWake ==
  \A t \in Task : k.state[t] = "SLEEPING" ~> k.state[t] # "SLEEPING"

MostUrgent(t) ==
  \A u \in Task : k.state[u] \in {"READY", "RUNNING"} => k.prio[t] <= k.prio[u]

\* No starvation at the top: a READY task than which no ready task is more urgent
\* gets the processor, however many peers of its own priority it has.
TopTaskRuns ==
  \A t \in Task : []<>~(k.state[t] = "READY" /\ MostUrgent(t))

\* The task that executes outside the kernel with the scheduler unlocked is
\* RUNNING (tests/kernel/test_sched_semantics.c:99,
\* test_task_yield_without_peer_keeps_current_running_out_of_ready_queue).
CurrentIsRunning ==
  \A t \in Task : Runs(t) /\ k.lock = 0 => k.state[t] = "RUNNING"

\* A task that executes is not displaced by a less urgent one: with calls that mask
\* interrupts, no READY task is more urgent than the one that executes
\* (config/os_config.h:49 promises "time slicing for equal priority tasks" only, and
\* os_sched.c:861 asks for the highest).
UrgentTaskRuns ==
  \A t \in Task : Runs(t) /\ k.lock = 0 => MostUrgent(t)

\* While no more than OS_CFG_TASK_MAX tasks (idle included) exist, every sleeping
\* task is in the table that os_tick_handler scans (os_config.h:66, "Maximum
\* number of tasks").
SleepersAreScanned ==
  Cardinality({ t \in Task : Live(t) }) < TaskMax
    => \A t \in Task : k.state[t] = "SLEEPING"
                         => \E j \in 1 .. Len(k.table) : k.table[j] = t
=============================================================================
