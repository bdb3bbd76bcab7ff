-------------------------------- MODULE Sched --------------------------------
(***************************************************************************)
(* The single-core scheduler: kernel/src/os_sched.c as built with          *)
(* OS_CFG_SMP_EN = 0.  The kernel's structures are the fields of one       *)
(* record k, so that a handler is the composition of the functions it      *)
(* calls.  Interrupts are disabled while the kernel holds g_sched_lock:    *)
(* k.at names the critical section control is in, and every other process  *)
(* waits until it is "task" again; each iteration of a kernel loop is a    *)
(* step.  Between a call's critical section and its os_sched() interrupts  *)
(* are enabled, and pc holds the calls that are in that window.            *)
(***************************************************************************)
EXTENDS TaskList, Sequences

CONSTANTS
  Task,          \* the application's task control blocks
  Idle,          \* the control block of the idle task
  PrioMax,       \* OS_CFG_PRIO_MAX: priorities are 0 (most urgent) .. PrioMax - 1
  WaitList,      \* the wait lists of the IPC objects
  TaskMax,       \* OS_CFG_TASK_MAX: size of the table the tick handler scans
  TickMod,       \* os_tick_t wraps at this value (2^32 in the code)
  SliceTicks,    \* OS_CFG_TIME_SLICE_TICKS
  Builds,        \* the builds and applications considered, see Build
  Ops,           \* the names of the application's operations
  CreatePrio,    \* the priorities a task may be created with or set to
  Delays,        \* the arguments of os_task_delay
  LockMax        \* bound on the nesting of os_sched_lock

Prio == 0 .. PrioMax - 1
Tcb == Task \cup {Idle}
List == Prio \cup WaitList
Tick == 0 .. TickMod - 1
Results == {"EOK", "ETIMEOUT", "ERROR"}

\* A build of the kernel, with OS_CFG_TIME_SLICE_EN and OS_CFG_IRQ_EXIT_SCHED_EN,
\* and the habits of the application: whether tasks call the kernel with
\* interrupts masked, and the operations it uses ("isr" stands for calls by
\* interrupt handlers other than the tick).
Build == [slices : BOOLEAN, exits : BOOLEAN, masked : BOOLEAN, ops : SUBSET Ops]

States == {"INIT", "READY", "RUNNING", "SUSPENDED", "BLOCKED", "SLEEPING",
           "TERMINATED"}

ASSUME SchedAssumption ==
  /\ PrioMax \in Nat \ {0} /\ TickMod \in Nat \ {0} /\ CountMod \in Nat \ {0}
  /\ SliceTicks \in Nat \ {0} /\ TaskMax \in Nat \ {0} /\ LockMax \in Nat
  /\ Builds \subseteq Build
  /\ Idle \notin Task /\ NULL \notin Tcb /\ NULL \notin List
  /\ CreatePrio \in [Task -> SUBSET Prio] /\ Delays \subseteq Nat

\* The lists are distinct objects, and a count of 32 bits does not wrap with as many
\* tasks as memory holds.
ASSUME ListAssumption ==
  IsFiniteSet(Task) /\ Prio \cap WaitList = {} /\ Cardinality(Tcb) < CountMod

VARIABLES
  k,     \* the kernel's structures, see KernelType
  pc     \* where each task is in the call it makes

vars == <<k, pc>>

Link == Tcb \cup {NULL}

\* Sections control may be in: main before os_kernel_start, the start itself,
\* a task (or idle), the tick handler, os_sched.
Sections == {"boot", "start", "task", "tick", "sched"}

\* The fields of os_tcb_t, by task; those of the lists, by list; the kernel's
\* globals (table and its length are g_task_table, i the scan's index, at the
\* critical section, lock and pend the scheduler's lock and pending flag).
KernelType ==
  [ next : [Tcb -> Link], prev : [Tcb -> Link],
    head : [List -> Link], tail : [List -> Link],
    count : [List -> 0 .. CountMod - 1], bitmap : SUBSET Prio,
    state : [Tcb -> States], prio : [Tcb -> Prio], base : [Tcb -> Prio],
    slice : [Tcb -> 0 .. SliceTicks], wake : [Tcb -> Tick],
    guard : [Tcb -> BOOLEAN], wait : [Tcb -> WaitList \cup {NULL}],
    deadline : [Tcb -> Tick], result : [Tcb -> Results],
    table : Seq(Tcb), cur : Link, pend : BOOLEAN, lock : 0 .. LockMax,
    tick : Tick, running : BOOLEAN, at : Sections, i : Nat, build : Build ]
-----------------------------------------------------------------------------
(* Ready lists.                                                            *)

\* task_ready_add
ReadyAdd(s, t) ==
  [ListAppend(s, s.prio[t], t) EXCEPT !.bitmap = @ \cup {s.prio[t]},
                                      !.state[t] = "READY"]

\* task_ready_remove: the list is the one of the task's CURRENT priority.
ReadyRemove(s, t) ==
  LET r == ListRemove(s, s.prio[t], t)
  IN IF r.count[s.prio[t]] = 0 THEN [r EXCEPT !.bitmap = @ \ {s.prio[t]}] ELSE r

\* sched_highest_ready once every task it skips is gone: the head of the most
\* urgent list whose bit is set and that is not empty, or the idle task.
Candidates(s) == { p \in s.bitmap : s.head[p] # NULL }
Highest(s) ==
  IF Candidates(s) = {} THEN Idle
  ELSE s.head[CHOOSE p \in Candidates(s) : \A q \in Candidates(s) : p <= q]

\* os_sched_wake_task
Wake(s, t, result) ==
  ReadyAdd([s EXCEPT !.result[t] = result, !.wait[t] = NULL, !.deadline[t] = 0], t)

\* task_timeout_wake: pending_type and pending_ipc together name the wait list.
TimeoutWake(s, t) ==
  Wake(IF s.wait[t] = NULL THEN s ELSE ListRemove(s, s.wait[t], t), t, "ETIMEOUT")

\* Mutation: the operands of the unsigned difference are swapped.
MutReached(now, at) == (at - now) % TickMod < TickMod \div 2

\* (os_tick_t)(now - at) < 0x80000000: true for half of the ticks after at.
Reached(now, at) == (now - at) % TickMod < TickMod \div 2
-----------------------------------------------------------------------------
(* Entering the scheduler.                                                 *)

\* task_stack_guard_fail
GuardFail(s, t) ==
  [s EXCEPT !.state[t] = "TERMINATED", !.next[t] = NULL, !.prev[t] = NULL]

\* The head of os_sched, up to sched_highest_ready: postponed while the
\* scheduler is locked, and a running task with a smashed stack guard ends.
CallSched(s) ==
  LET entered == [s EXCEPT !.pend = FALSE, !.at = "sched"]
  IN IF ~s.running THEN s
     ELSE IF s.lock > 0 THEN [s EXCEPT !.pend = TRUE]
     ELSE IF s.state[s.cur] = "RUNNING" /\ ~s.guard[s.cur] THEN GuardFail(entered, s.cur)
     ELSE entered

\* os_sched called by an interrupt handler (the nesting count is not zero).
SchedFromIrq(s) == [s EXCEPT !.pend = s.running \/ @]

\* os_irq_exit of the outermost interrupt, and the return to the task.
IrqExit(s) ==
  LET r == [s EXCEPT !.at = "task"]
  IN IF r.lock = 0 /\ r.pend /\ r.build.exits THEN CallSched(r) ELSE r

\* Task t is executing its own code, between kernel calls.
Runs(t) == k.at = "task" /\ k.cur = t /\ pc[t] = "run"

\* The end of a call whose critical section made s and that goes on with
\* os_sched(): at once if the caller masked interrupts, and otherwise after a
\* window in which interrupts are taken.
ThenSched(t, s) ==
  IF k.build.masked THEN k' = CallSched(s) /\ UNCHANGED pc
  ELSE k' = s /\ pc' = [pc EXCEPT ![t] = "call"]

\* The os_sched() call at the end of the window.
EnterSched(t) ==
  /\ k.at = "task" /\ k.cur = t /\ pc[t] = "call"
  /\ k' = CallSched(k)
  /\ pc' = [pc EXCEPT ![t] = "run"]
-----------------------------------------------------------------------------
(* Start-up.                                                               *)

\* os_kernel_init: the idle task is created, which puts it in the task table
\* and the ready list, and taken off the list again; it stays READY.
KernelInit ==
  /\ \E build \in Builds :
       k = [ next |-> [t \in Tcb |-> NULL], prev |-> [t \in Tcb |-> NULL],
             head |-> [l \in List |-> NULL], tail |-> [l \in List |-> NULL],
             count |-> [l \in List |-> 0], bitmap |-> {},
             state |-> [t \in Tcb |-> IF t = Idle THEN "READY" ELSE "INIT"],
             prio |-> [t \in Tcb |-> IF t = Idle THEN PrioMax - 1 ELSE 0],
             base |-> [t \in Tcb |-> IF t = Idle THEN PrioMax - 1 ELSE 0],
             slice |-> [t \in Tcb |-> IF t = Idle THEN SliceTicks ELSE 0],
             wake |-> [t \in Tcb |-> 0], guard |-> [t \in Tcb |-> TRUE],
             wait |-> [t \in Tcb |-> NULL], deadline |-> [t \in Tcb |-> 0],
             result |-> [t \in Tcb |-> "EOK"], table |-> <<Idle>>, cur |-> NULL,
             pend |-> FALSE, lock |-> 0, tick |-> 0, running |-> FALSE,
             at |-> "boot", i |-> 0, build |-> build ]
  /\ pc = [t \in Tcb |-> "run"]

\* Mutation: the task is not entered in the table of tasks.
MutCreatedNoTable(s, t, p) ==
  ReadyAdd([s EXCEPT !.next[t] = NULL, !.prev[t] = NULL, !.prio[t] = p,
                     !.base[t] = p, !.slice[t] = SliceTicks, !.wait[t] = NULL,
                     !.deadline[t] = 0, !.guard[t] = TRUE], t)

\* The control block os_task_create fills in, and its entry in the table: when
\* the table is full the task is not entered, and the call still succeeds.
Created(s, t, p) ==
  ReadyAdd([s EXCEPT !.next[t] = NULL, !.prev[t] = NULL, !.prio[t] = p,
                     !.base[t] = p, !.slice[t] = SliceTicks, !.wait[t] = NULL,
                     !.deadline[t] = 0, !.guard[t] = TRUE,
                     !.table = IF Len(@) < TaskMax THEN Append(@, t) ELSE @], t)

\* A control block may be (re)used when no task lives in it.
Reusable(t) == k.state[t] \in {"INIT", "TERMINATED"} /\ k.cur # t

\* os_task_create by main, before the kernel runs: os_sched is not called.
MainCreate(t, p) ==
  /\ k.at = "boot" /\ Reusable(t)
  /\ k' = Created(k, t, p)
  /\ UNCHANGED pc

\* os_task_create by a running task c.
TaskCreate(c, t, p) ==
  /\ "create" \in k.build.ops /\ Runs(c) /\ Reusable(t)
  /\ LET s == Created(k, t, p)
         fresh == [pc EXCEPT ![t] = "run"]
     IN IF k.build.masked THEN k' = CallSched(s) /\ pc' = fresh
        ELSE k' = s /\ pc' = [fresh EXCEPT ![c] = "call"]

\* os_kernel_start up to sched_highest_ready
KernelStart ==
  /\ k.at = "boot"
  /\ k' = [k EXCEPT !.at = "start"]
  /\ UNCHANGED pc

\* The rest of os_kernel_start: the first task runs.
StartFirst ==
  /\ k.at = "start"
  /\ LET first == Highest(k)
         s == IF first = Idle THEN k ELSE ReadyRemove(k, first)
     IN /\ first = Idle \/ k.guard[first]
        /\ k' = [s EXCEPT !.state[first] = "RUNNING", !.cur = first,
                          !.running = TRUE, !.at = "task"]
  /\ UNCHANGED pc
-----------------------------------------------------------------------------
(* Scheduling: the rest of os_sched, and os_kernel_start's use of the same  *)
(* loop.                                                                    *)

\* One turn of the loop of sched_highest_ready over a ready task whose stack
\* guard is smashed: it is taken off its list and ends (task_stack_guard_fail).
SkipOverflowed ==
  /\ k.at \in {"start", "sched"}
  /\ LET t == Highest(k)
     IN /\ t # Idle /\ ~k.guard[t]
        /\ k' = GuardFail(ReadyRemove(k, t), t)
  /\ UNCHANGED pc

\* Mutation: the idle task keeps its state when it is switched out.
MutSwitchTo(s, next) ==
  LET s1 == IF next = Idle THEN s ELSE ReadyRemove(s, next)
      s2 == IF s1.state[s.cur] = "RUNNING" /\ s.cur # Idle THEN ReadyAdd(s1, s.cur)
            ELSE s1
  IN [s2 EXCEPT !.state[next] = "RUNNING", !.cur = next]

\* The switch to another task: it leaves the ready list, and a RUNNING current
\* task goes back to the end of its own.
SwitchTo(s, next) ==
  LET s1 == IF next = Idle THEN s ELSE ReadyRemove(s, next)
      s2 == IF s1.state[s.cur] # "RUNNING" THEN s1
            ELSE IF s.cur = Idle THEN [s1 EXCEPT !.state[Idle] = "READY"]
            ELSE ReadyAdd(s1, s.cur)
  IN [s2 EXCEPT !.state[next] = "RUNNING", !.cur = next]

\* Nothing happens when the task found is the current one, whatever its state.
Switch ==
  /\ k.at = "sched"
  /\ LET next == Highest(k)
     IN /\ next = Idle \/ k.guard[next]
        /\ k' = [(IF next = k.cur THEN k ELSE SwitchTo(k, next)) EXCEPT !.at = "task"]
  /\ UNCHANGED pc

\* idle_task_entry: on a port that does not switch on interrupt exit the idle
\* loop calls os_sched itself, before and after wfi.
IdleSched ==
  /\ ~k.build.exits
  /\ Runs(Idle)
  /\ k' = CallSched(k)
  /\ UNCHANGED pc
-----------------------------------------------------------------------------
(* The timer interrupt: os_trap_handler and os_tick_handler.               *)

TickStart ==
  /\ k.at = "task"
  /\ k' = [k EXCEPT !.tick = (@ + 1) % TickMod, !.at = "tick", !.i = 1]
  /\ UNCHANGED pc

\* One turn of the scan: a sleeper whose tick has come becomes ready, and a
\* blocked task whose deadline has passed times out (0 stands for no deadline).
ScanTask(s, t) ==
  IF s.state[t] = "SLEEPING" /\ Reached(s.tick, s.wake[t]) THEN ReadyAdd(s, t)
  ELSE IF s.state[t] = "BLOCKED" /\ s.deadline[t] # 0 /\ Reached(s.tick, s.deadline[t])
    THEN TimeoutWake(s, t)
  ELSE s

TickScan ==
  /\ k.at = "tick" /\ k.i <= Len(k.table)
  /\ k' = [ScanTask(k, k.table[k.i]) EXCEPT !.i = @ + 1]
  /\ UNCHANGED pc

\* The time slice: when it ends and the current priority's list is not empty,
\* the current task is made READY and listed, whatever its state is.
SliceTick(s) ==
  IF ~s.build.slices \/ s.slice[s.cur] = 0 THEN s
  ELSE IF s.slice[s.cur] > 1 THEN [s EXCEPT !.slice[s.cur] = @ - 1]
  ELSE LET full == [s EXCEPT !.slice[s.cur] = SliceTicks]
       IN IF s.count[s.prio[s.cur]] > 0 THEN ReadyAdd(full, s.cur) ELSE full

\* The end of the handler, os_irq_exit included.
TickEnd ==
  /\ k.at = "tick" /\ k.i > Len(k.table)
  /\ k' = IrqExit(SchedFromIrq([SliceTick(k) EXCEPT !.i = 0]))
  /\ UNCHANGED pc
=============================================================================
