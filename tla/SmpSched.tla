-------------------------------- MODULE SmpSched --------------------------------
(***************************************************************************)
(* The scheduler on several cores: kernel/src/os_sched.c as built with     *)
(* OS_CFG_SMP_EN = 1, and os_context_switch.  The ready lists are shared   *)
(* and their lock g_sched_lock makes each critical section one step; in    *)
(* between, cores interleave, and a core takes interrupts.  The lists of   *)
(* all priorities are one sequence, and which delays end at a tick is left *)
(* open.                                                                   *)
(***************************************************************************)
EXTENDS Integers, Sequences, FiniteSets

CONSTANTS
  Core,                \* OS_CFG_CPU_COUNT cores
  Task,                \* the tasks main creates before the scheduler starts
  TaskPrio, IdlePrio,  \* the priorities of tasks, and OS_PRIO_IDLE
  AnyCore,             \* OS_CPU_ANY
  Affinities,          \* what main and the tasks pass to os_task_set_affinity
  NoTask,              \* the null pointer
  SmpBuilds            \* the settings and the calls made, as Builds in Sched

IdleTask(c) == <<"idle", c>>
Idles == { IdleTask(c) : c \in Core }
AllTcb == Task \cup Idles

ASSUME SmpSchedAssumption ==
  /\ Affinities \subseteq Core \cup {AnyCore} /\ AnyCore \notin Core
  /\ NoTask \notin AllTcb /\ Task \cap Idles = {} /\ IsFiniteSet(Task)
  /\ TaskPrio \subseteq Nat /\ IdlePrio \in Nat
  /\ SmpBuilds \subseteq [slices : BOOLEAN, exits : BOOLEAN, masked : BOOLEAN,
                          ops : SUBSET {"yield", "delay", "suspend", "resume", "affinity"}]

VARIABLES
  build,
  priority, affinity, tstate,  \* fields of each os_tcb_t
  ready,      \* g_ready_list: the listed tasks in the order they were added
  current,    \* g_current_task
  frame,      \* tcb->sp: whose stack the context lies on that was saved last
  stack,      \* whose stack each core executes on
  place,      \* each core: before os_kernel_start, in a task, on the way out of an
              \* interrupt, or in os_sched between its lock and the switch
  switch,     \* the arguments of that os_context_switch
  step,       \* how far the code on each stack is in a call
  cpu_read,   \* ... what os_cpu_id() told it
  cur_read    \* ... and, before it took the lock, g_current_task

NoSwitch == [from |-> NoTask, to |-> NoTask]
schedvars == <<build, priority, affinity, tstate, ready, current, frame, stack, place, switch,
               step, cpu_read, cur_read>>

\* Some elements of S, in some order
Orders(S) ==
  { w \in UNION { [1 .. n -> S] : n \in 0 .. Cardinality(S) } :
      \A i, j \in DOMAIN w : w[i] = w[j] => i = j }

\* main creates the tasks, sets their affinity, and starts the scheduler.
SmpSchedInit ==
  /\ build \in SmpBuilds
  /\ priority \in [AllTcb -> TaskPrio \cup {IdlePrio}]
  /\ \A t \in Task : priority[t] \in TaskPrio
  /\ \A c \in Core : priority[IdleTask(c)] = IdlePrio
  /\ affinity \in [AllTcb -> Core \cup {AnyCore}]
  /\ \A t \in Task : affinity[t] \in Affinities
  /\ \A c \in Core : affinity[IdleTask(c)] = c
  /\ tstate = [t \in AllTcb |-> "READY"]
  /\ ready \in Orders(Task) /\ Len(ready) = Cardinality(Task)
  /\ current = [c \in Core |-> NoTask]
  /\ frame = [t \in AllTcb |-> t]
  /\ stack = [c \in Core |-> NoTask]
  /\ place = [c \in Core |-> "off"]
  /\ switch = [c \in Core |-> NoSwitch]
  /\ step = [t \in AllTcb |-> "run"]
  /\ cpu_read = [t \in AllTcb |-> AnyCore]
  /\ cur_read = [t \in AllTcb |-> NoTask]

-----------------------------------------------------------------------------
(* os_sched and the switch.                                                *)

\* Mutation: the affinity is not looked at.
MutMayRunOn(t, c) == tstate[t] = "READY"

\* task_is_schedulable_on_cpu.  (A listed task is not RUNNING: SmpListsAgree.)
MayRunOn(t, c) == tstate[t] = "READY" /\ affinity[t] \in {c, AnyCore}

\* sched_highest_ready: the first of the most urgent tasks, or idle
Places(t) == { i \in DOMAIN ready : ready[i] = t }
Listed(c) == { t \in AllTcb : Places(t) # {} /\ MayRunOn(t, c) }
GoesBefore(t, u) ==
  \/ priority[t] < priority[u]
  \/ priority[t] = priority[u] /\ \E i \in Places(t) : \A j \in Places(u) : i <= j
HighestOn(c) ==
  IF Listed(c) = {} THEN {IdleTask(c)}
  ELSE { t \in Listed(c) : \A u \in Listed(c) : GoesBefore(t, u) }

\* task_ready_remove, which leaves the idle task alone, and for a READY task
Unlinked(t) ==
  IF Places(t) = {} THEN ready
  ELSE LET i == CHOOSE i \in Places(t) : TRUE
       IN [j \in 1 .. Len(ready) - 1 |-> IF j < i THEN ready[j] ELSE ready[j + 1]]
RemoveReady(t) == IF tstate[t] = "READY" THEN Unlinked(t) ELSE ready

\* os_kernel_start on core c.  It enables interrupts before it switches to the first
\* task, but the first tick is a period away, and no other interrupt schedules.
StartsOn(c) ==
  /\ place[c] = "off"
  /\ \E first \in HighestOn(c) :
       /\ ready' = Unlinked(first)
       /\ tstate' = [tstate EXCEPT ![first] = "RUNNING"]
       /\ current' = [current EXCEPT ![c] = first]
       /\ switch' = [switch EXCEPT ![c] = [from |-> NoTask, to |-> first]]
  /\ place' = [place EXCEPT ![c] = "switch"]
  /\ UNCHANGED <<build, priority, affinity, frame, stack, step, cpu_read, cur_read>>

\* Mutation: the current task goes back to its list whatever became of it.
MutStaysReady(t) == TRUE

\* The task a core leaves goes back to its list if it is still RUNNING.
StaysReady(t) == tstate[t] = "RUNNING"

\* The critical section of os_sched, on core c, with the core os_cpu_id() told
SchedLocked(c, cpu) ==
  \E next \in HighestOn(cpu) :
    LET cur == current[cpu]
    IN IF next = cur
       THEN /\ place' = [place EXCEPT ![c] = "task"]
            /\ UNCHANGED <<tstate, ready, current, switch>>
       ELSE /\ ready' = IF StaysReady(cur) /\ cur # IdleTask(cpu)
                        THEN Append(Unlinked(next), cur) ELSE Unlinked(next)
            /\ tstate' = [tstate EXCEPT ![cur] = IF StaysReady(cur) THEN "READY" ELSE @,
                                        ![next] = "RUNNING"]
            /\ current' = [current EXCEPT ![cpu] = next]
            /\ switch' = [switch EXCEPT ![c] = [from |-> cur, to |-> next]]
            /\ place' = [place EXCEPT ![c] = "switch"]

\* os_context_switch, with the lock released: the context is saved for the task
\* that is left, and the one saved for the next task is loaded.
SwitchesContext(c) ==
  /\ place[c] = "switch"
  /\ frame' = IF switch[c].from = NoTask THEN frame
              ELSE [frame EXCEPT ![switch[c].from] = stack[c]]
  /\ stack' = [stack EXCEPT ![c] = frame'[switch[c].to]]
  /\ place' = [place EXCEPT ![c] = "task"]
  /\ switch' = [switch EXCEPT ![c] = NoSwitch]
  /\ UNCHANGED <<build, priority, affinity, tstate, ready, current, step, cpu_read, cur_read>>

\* ready_list_has_peer_for_cpu looks for such a listed task t, with the states st.
IsPeer(t, cur, st, c) ==
  t # cur /\ priority[t] = priority[cur] /\ st[t] = "READY" /\ affinity[t] \in {c, AnyCore}

-----------------------------------------------------------------------------
(* Interrupts.                                                             *)

\* The tick: the delays of woken end, and the time slice of the current task may.
\* (The interrupt other cores send does not: os_ipi_handler leaves the scheduler to
\* os_irq_exit, which looks for g_sched_pending, and nothing sets that for it.)
Interrupted(c) ==
  /\ place[c] = "task" /\ (build.masked => step[stack[c]] = "run")
  /\ \E woken \in Orders({ t \in Task : tstate[t] = "SLEEPING" }) :
       LET awake == [t \in AllTcb |-> IF \E i \in DOMAIN woken : woken[i] = t
                                      THEN "READY" ELSE tstate[t]]
           lists == ready \o woken
           cur == current[c]
       IN \/ tstate' = awake /\ ready' = lists
          \/ /\ build.slices
             /\ \E i \in DOMAIN lists : IsPeer(lists[i], cur, awake, c)
             /\ tstate' = [awake EXCEPT ![cur] = "READY"]
             /\ ready' = Append(lists, cur)
  /\ place' = [place EXCEPT ![c] = "exit"]
  /\ UNCHANGED <<build, priority, affinity, current, frame, stack, switch, step, cpu_read, cur_read>>

\* os_irq_exit
InterruptExits(c) ==
  /\ place[c] = "exit"
  /\ IF build.exits THEN SchedLocked(c, c)
     ELSE place' = [place EXCEPT ![c] = "task"] /\ UNCHANGED <<tstate, ready, current, switch>>
  /\ UNCHANGED <<build, priority, affinity, frame, stack, step, cpu_read, cur_read>>

-----------------------------------------------------------------------------
(* Calls, by the code that core c executes.                                *)

At(c, s) == place[c] = "task" /\ step[stack[c]] = s
GoesTo(c, s) == step' = [step EXCEPT ![stack[c]] = s]
Forgets(c) ==
  /\ cpu_read' = [cpu_read EXCEPT ![stack[c]] = AnyCore]
  /\ cur_read' = [cur_read EXCEPT ![stack[c]] = NoTask]
InTask == UNCHANGED <<build, priority, current, frame, stack, place, switch>>

\* A call, or os_sched at its end, begins with a look at where it runs.
ReadsCpu(c) ==
  /\ \/ At(c, "run") /\ stack[c] \in Task /\ GoesTo(c, "in")
     \/ At(c, "call") /\ GoesTo(c, "sched")
  /\ cpu_read' = [cpu_read EXCEPT ![stack[c]] = c]
  /\ InTask /\ UNCHANGED <<affinity, tstate, ready, cur_read>>

\* os_task_yield and os_task_delay look at the current task before they take the lock.
ReadsCurrent(c) ==
  /\ At(c, "in") /\ GoesTo(c, "lock")
  /\ cur_read' = [cur_read EXCEPT ![stack[c]] = current[cpu_read[stack[c]]]]
  /\ InTask /\ UNCHANGED <<affinity, tstate, ready, cpu_read>>

\* os_task_yield, once it has the lock
YieldOn(c) ==
  LET cpu == cpu_read[stack[c]]
      cur == cur_read[stack[c]]
  IN /\ "yield" \in build.ops /\ At(c, "lock")
     /\ Forgets(c)
     /\ IF tstate[cur] = "RUNNING" /\ \E i \in DOMAIN ready : IsPeer(ready[i], cur, tstate, cpu)
        THEN /\ tstate' = [tstate EXCEPT ![cur] = "READY"]
             /\ ready' = Append(ready, cur)
             /\ GoesTo(c, "call")
        ELSE GoesTo(c, "run") /\ UNCHANGED <<tstate, ready>>
     /\ InTask /\ UNCHANGED affinity

\* os_task_delay, once it has the lock
DelayOn(c) ==
  LET cur == cur_read[stack[c]]
  IN /\ "delay" \in build.ops /\ At(c, "lock")
     /\ ready' = RemoveReady(cur)
     /\ tstate' = [tstate EXCEPT ![cur] = "SLEEPING"]
     /\ GoesTo(c, "call") /\ Forgets(c)
     /\ InTask /\ UNCHANGED affinity

\* os_task_suspend: a task that runs on another core goes on.
SuspendOn(c, t) ==
  /\ "suspend" \in build.ops /\ At(c, "run") /\ stack[c] \in Task
  /\ ready' = RemoveReady(t)
  /\ tstate' = [tstate EXCEPT ![t] = "SUSPENDED"]
  /\ GoesTo(c, IF t = current[c] THEN "call" ELSE "run")
  /\ InTask /\ UNCHANGED <<affinity, cpu_read, cur_read>>

\* os_task_resume
ResumeOn(c, t) ==
  /\ "resume" \in build.ops /\ At(c, "run") /\ stack[c] \in Task
  /\ IF tstate[t] = "SUSPENDED"
     THEN tstate' = [tstate EXCEPT ![t] = "READY"] /\ ready' = Append(ready, t)
     ELSE UNCHANGED <<tstate, ready>>
  /\ GoesTo(c, "call")
  /\ InTask /\ UNCHANGED <<affinity, cpu_read, cur_read>>

\* os_task_set_affinity.  The interrupt it may send to the core task t runs on
\* schedules nothing there.
SetAffinity(c, t, a) ==
  /\ "affinity" \in build.ops /\ At(c, "run") /\ stack[c] \in Task
  /\ affinity' = [affinity EXCEPT ![t] = a]
  /\ GoesTo(c, "call")
  /\ InTask /\ UNCHANGED <<tstate, ready, cpu_read, cur_read>>

\* The idle task asks for a switch where interrupts do not.
IdleAsks(c) ==
  /\ ~build.exits /\ At(c, "run") /\ stack[c] \in Idles
  /\ GoesTo(c, "call")
  /\ InTask /\ UNCHANGED <<affinity, tstate, ready, cpu_read, cur_read>>

\* os_sched, called by a task
SchedOn(c) ==
  /\ At(c, "sched")
  /\ SchedLocked(c, cpu_read[stack[c]])
  /\ GoesTo(c, "run") /\ Forgets(c)
  /\ UNCHANGED <<build, priority, affinity, frame, stack>>

CoreStep(c) ==
  \/ StartsOn(c) \/ SwitchesContext(c) \/ Interrupted(c) \/ InterruptExits(c)
  \/ ReadsCpu(c) \/ ReadsCurrent(c) \/ YieldOn(c) \/ DelayOn(c) \/ IdleAsks(c) \/ SchedOn(c)
  \/ \E t \in Task : SuspendOn(c, t) \/ ResumeOn(c, t)
                     \/ \E a \in Affinities : SetAffinity(c, t, a)

SmpSchedNext == \E c \in Core : CoreStep(c)
SmpSchedSpec == SmpSchedInit /\ [][SmpSchedNext]_schedvars
-----------------------------------------------------------------------------
(* Properties.                                                             *)

\* No two cores ever execute on one stack: a task is left to another core only
\* once its context is saved (os_sched releases its lock before the switch).
SoleExecution ==
  \A c, d \in Core : c # d /\ stack[c] # NoTask => stack[c] # stack[d]

\* Cores that share the lists keep them in order, whatever they do to each other's
\* tasks: a task is linked once if it is READY and otherwise not at all, no task is
\* the current one of two cores, only current tasks are RUNNING, and a core that is
\* not about to switch executes its current task.
SmpListsAgree ==
  /\ \A t \in AllTcb : Cardinality(Places(t)) = IF t \in Task /\ tstate[t] = "READY" THEN 1 ELSE 0
  /\ \A c, d \in Core : c # d /\ current[c] # NoTask => current[c] # current[d]
  /\ \A t \in AllTcb : tstate[t] = "RUNNING" => \E c \in Core : current[c] = t
  /\ \A c \in Core : place[c] \in {"task", "exit"} => stack[c] = current[c]
=============================================================================
