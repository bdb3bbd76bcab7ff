# A formal model of rrtos

rrtos is a real-time kernel for RISC-V microcontrollers (CH32, BE-U1000, QEMU
`virt`), with memory management, optional multicore support, physical memory
protection, a federated-learning client and an AI runtime around it. This
directory holds TLA+ modules translated from the C sources, TLC configurations
that check them on small instances, and theorems checked by TLAPS. Paths below
are relative to the repository; `PROJECT.json` maps every definition to the lines
it models.

To repeat a run: `tlc -config MCTasks.cfg MCTasks.tla`. To repeat the proofs:
`tlapm ReadyProofs.tla`, and in the same way `TasksProofs`, `SleepProofs`, `WaitProofs`,
`IpcProofs`, `PromiseProofs`, `MemoryProofs` and `ServiceProofs`.

## 1. Inventory

| component | state | operations | what makes it hard | correctness |
|---|---|---|---|---|
| task lists and ready bitmap (`kernel/src/os_sched.c`) | `next`/`prev` of each control block, `head`/`tail`/`count` of each list, `g_ready_bitmap` | append, remove, pop head | one pair of links serves ready and wait lists; the bitmap is derived | every list is sound, every task on at most one, bitmap exact |
| scheduler and tick (same file, `arch/riscv/src/trap.c`) | `g_current_task`, tick, scheduler lock, pending flag, slices, table of tasks, stack guards | `os_sched`, `os_tick_handler`, interrupt entry and exit, `os_kernel_start` | interrupts between a call's critical section and its `os_sched()`; wrapping ticks; a port without a switch on interrupt exit; stack overflow found in mid-search | one RUNNING task, right time of waking, nobody at the top starves |
| task interface (same file) | state, priority and base priority of each task | create, delete, suspend, resume, yield, delay, set_prio, sched_lock, sched_unlock | calls on other tasks in any state | state, list and priority agree |
| semaphores (`kernel/src/os_ipc.c`) | count, wait list | init, take, give (tasks, interrupts), reset | timeout against give; reset with waiters | no unit lost or made, FIFO service, no lost wake-up |
| mutexes (same file) | owner, nesting count, remembered priority | lock, unlock | direct hand-off, timeout against hand-off, inheritance | exclusion as the callers see it, no stranded waiter |
| message queues (same file) | ring indices, slots, two wait lists | send (tasks, interrupts), receive | hand-off past the ring, refill by a waiting sender, index wrap | delivered once and in order |
| event flags (same file) | flag word, requests of the waiters | set (tasks, interrupts), clear, wait | unlinking while walking; clear-on-exit changes what later waiters see | no satisfied waiter waits, cleared flags go to one |
| memory pools (`memory/src/os_mem.c`) | free list threaded through the blocks, count | init, alloc, free | holders overwrite the links; double, interior and foreign frees | every block free or held once, and only held pointers are accepted |
| heap (same file) | doubly linked list of all blocks with headers, accounts | malloc, calloc, realloc, free, peak reset | best fit with split, joining both neighbours, a realloc that is two critical sections | blocks tile the arena, no two free neighbours, what is held stays |
| software timers (`kernel/src/os_timer.c`) | wheel of slots, position, active count, a task and its semaphore | init, start, stop, reset, tick, processing | callbacks run without the lock while the slot's list is being walked; the position lags behind the tick; wake-ups merge | the count is exact, a timer fires at its tick and at last |
| multicore support (`multicore/src/os_smp.c`) | online, ready and release masks, pending interrupt reasons, call slots | start and release of cores, interrupts from core to core, remote calls | release order, merged interrupts, one call slot per core | a call runs exactly once, and at last |
| scheduler under SMP (`os_sched.c` with `OS_CFG_SMP_EN`, `arch/riscv/src/context.S`) | the ready lists shared, current task and stack per core, affinity | the task interface and the scheduler on several cores | the lock is released before the switch; a core number read before the lock; calls on tasks that run elsewhere | a stack is executed by one core, the lists agree with the states |
| PMP (`security/src/os_pmp.c`) | registers and the table beside them, contexts of tasks | set, clear, lock, context switch, stack guard, secure region | locked entries, entries that overlap, table against registers | the table tells what the processor does, a locked region stays |
| federated-learning client (`federated/src/fl_client.c`) | state, mutex, task, stop flag | train a round, update, start, stop, deinit, init | a stop waits for a fixed time, and the task does not end at all; the state is read before the mutex is taken | one works at a time, and the state tells at what |
| gradient compression (`federated/src/fl_compress.c`) | values and positions, the part being partitioned | top-k selection, decompression | selection in place with a moving pivot and ties | the k greatest values, each with its position |
| AI runtime: model registry (`ai/src/ai_model_registry.c`) | the IREE objects it refers to: instance, loader, device, allocator, a module per model, context | init, deinit, inference | each of a dozen creations may fail, when some objects are in the registry, some in local variables and some held by others | each reference is given back once, on every way out |
| HAL, start-up, C library shims | device registers | register access | - | - |

Interaction: everything that blocks goes through one protocol. A call takes a
lock with interrupts disabled, changes its object, the caller's control block and
one list, releases the lock, and calls `os_sched()`. The tick handler scans the
table of tasks and ends delays and timed waits, unlinking a task from whatever
wait list its `pending_ipc` names. `os_sched_wake_task` is the one function
through which IPC objects make tasks READY. Timers use a semaphore and a task; the
federated client uses a task and a mutex; heap, pools and protection are called
by anybody and call nobody.

## 2. Modules

```
TaskList -- Sched -- Tasks -- Ipc -+- Sem ---- implements CountingSem --+
                                   +- Event ---------------------------+- MCSignals
                                   +- Mutex ---------------------------+- MCExchange
                                   +- Queue (with Ring) -- implements BoundedFifo
MemPool, Heap, TimerWheel, Smp, SmpSched,
Pmp, TopK, FlClient, AiRegistry ---------------------------------------- MCServices

Sched, Tasks -- TasksProofs -- ReadyProofs -- SleepProofs --+
                                       Ipc -----------------+- WaitProofs -+
                            Sem, Queue, Event, Mutex ----------------------+- IpcProofs -- PromiseProofs
MemPool, Heap, Pmp -- MemoryProofs
TimerWheel, AiRegistry, Smp, SmpSched, FlClient -- ServiceProofs
```

* **TaskList**: `os_list_append`, `os_list_remove` and the wait-list variants as
  updates of links, heads, tails and counts (counts wrap at `CountMod`), and the
  predicate `WellFormed` that relates them.
* **Sched**: the ready lists, the bitmap, `os_sched`, the start, the tick handler
  and interrupt exit. The kernel's globals and control blocks are the fields of
  one record `k`, so that a handler is the composition of the functions it calls.
  `k.at` names the critical section control is in. While it is not `"task"`,
  interrupts are disabled, and nobody but that section moves. The scan of the tick
  handler and the search for the next task take one step per iteration.
* **Tasks**: the task interface, one action per call up to its `os_sched()`. In a
  build that makes calls with interrupts enabled, the caller is then in a *window*
  (`pc = "call"`) in which the tick and other handlers may run; the action
  `EnterSched` ends it. The composition of all this with the kernel is `TasksNext`.
* **Ipc**: what blocking calls share: deadlines, the wait, the hand-off to the
  first waiter, the return that reads `pending_result`. A call that blocks is three
  actions, with windows between them.
* **Sem, Mutex, Queue, Event**: the objects. Each extends `Ipc`, adds its
  variables, its actions by tasks and by interrupt handlers, and its properties.
  `Mutex` also keeps what callers were told (`holds`), because mutual exclusion is
  a statement about them and not about the mutex.
* **Ring**: the buffer of a queue with its wrapping indices.
* **CountingSem, BoundedFifo**: what a semaphore and a queue promise, with no
  scheduler, lists, links, indices or windows: a count or a sequence of messages,
  and the waiting callers in order. `Sem` and `Queue` are checked to implement them
  under the refinement mappings at the end of these modules.
* **MCSignals, MCExchange**: two objects each over one set of tasks. The build says
  which of the two a behaviour is about, so that one run covers both with the same
  tasks, ticks and handlers.
* **MemPool**: a pool whose free list is threaded through the blocks, with clients
  that free anything and write into what they hold.
* **Heap**: the list of all blocks as a function from addresses to headers. A
  critical section is one action; `os_realloc` is two of them, between which others
  allocate and free. The trace of the largest allocations and two event counters
  are left out.
* **TimerWheel**: lists of timers per slot, the tick handler that only counts and
  gives the semaphore, and the timer task: it detaches the list of a slot, walks it,
  and runs callbacks without the lock, so that start, stop and reset come in between.
* **Smp**: the hand-shake that starts secondary cores; sending an interrupt (mark the
  reason, then ring), taking it (acknowledge, exchange the reasons, execute), remote
  calls through one slot per core with or without waiting.
* **SmpSched**: the scheduler with `OS_CFG_SMP_EN = 1`. The critical sections under
  `g_sched_lock` are one action each; reading the core's number, reading its
  current task before a lock is taken, the switch of stacks and the exit from an interrupt are actions of their own, with other cores in
  between. `frame` says on whose stack the saved context of a task lies, `stack` on
  whose stack a core executes; `os_context_switch` is what moves one to the other.
  The interrupt one core sends another is not among the interrupts: `os_ipi_handler` leaves
  the scheduler to `os_irq_exit`, which does nothing unless `g_sched_pending` is set
  (os_sched.c:833), and nothing sets that for it.
* **Pmp**: registers as the processor sees them and `g_pmp_regions` beside them;
  `Written`, `Covers` and `Granted` are the processor's rules (a write to a locked entry, and
  to the address below a locked TOR entry, has no effect), `CheckAccess` is
  `os_pmp_check_access`. Bases and sizes are encoded as the code does, aligned or not;
  `Faithful` says which entries can be what the table tells of them.
* **TopK**: `quickselect_partition`, one pass of the partition per action.
* **FlClient**: rounds and updates in the task and by direct callers, the mutex as a
  line of waiters, and the controller. A round, a pause and the wait of `fl_client_stop`
  take any time. When `fl_async_task` returns, the task enters it again with `argument`
  `"junk"` (section 5), and whatever it reads through that is open.
* **AiRegistry**: `ai_runtime_init` as the sequence of its creations, each of which
  may fail, `ai_runtime_deinit`, and `ai_infer_sync` as what it takes and gives back.
  `field` and `local` are what the registry and the variables of the present call
  refer to, `refs` counts the references taken and not given back. IREE is external:
  an object counts references, and a creation that fails leaves nothing behind. The views of
  single inputs in `ai_infer_sync` (ai_model_registry.c:652-666), of which one exists at a
  time, are left out with their failures: they lead to the clean-up that is modelled.
* **MCServices**: instances of the nine services that share no state. The variable
  `part` says which of them a behaviour is about; the others stand still.

### Builds

The behaviour depends on `OS_CFG_TIME_SLICE_EN`, `OS_CFG_IRQ_EXIT_SCHED_EN` and
on two habits of the application: whether its tasks call the kernel with interrupts
enabled, and which calls it makes. A `Build` (module `Sched`) names these four; an
initial state picks one from the constant `Builds`, and it never changes. One run
thus covers several builds. This is not only economy: the code is *not* correct in
every build (section 5), and the builds of the passing runs say exactly under
which disciplines it is:

* *windows*: calls with interrupts enabled, no time slices, no interrupt handler
  but the tick calls the kernel, delays and timeouts of at least two ticks where a
  tick in the window could otherwise end them (the IPC runs);
* *masked* or *round robin*: calls with interrupts disabled (or from a port where
  no interrupt can come between), with time slices and kernel calls by interrupt
  handlers;
* *no exit switch*: the BE-U1000 setting, without time slices.

`SmpBuilds` of module `SmpSched` are the same for several cores: calls with windows
(for interrupts and other cores) and no slices; slices among peers, with calls that mask
interrupts and neither delay nor resume a task; no exit switch. The combinations left out
list a task twice in the code: time slices with windows, and time slices with a resume or a
delay (section 5).

## 3. Runs

| run | module | question |
|---|---|---|
| `tasks_calls` | MCTasks | Three tasks make every call of the task interface in three builds. `TypeOK`; `ListsAgree` (lists sound, each READY task on the list of its priority and on no other, bitmap exact); `SoleRunning`; `WakesOnTime` (every sleeper is woken by its own tick). |
| `tasks_fair` | MCTasks | Under the kernel's fairness a most urgent ready task gets the processor (`TopTaskRuns`), and every sleeper is woken (`SleepersWake`). |
| `signals` | MCSignals | A semaphore implements `CountingSem` (`CountsAndServesInOrder`), and nobody waits while there are units, over sound lists (`SemSound`). No satisfied request for flags waits (`EventSound`), and those woken get what they asked for and nothing that went to another (`AnswersFitRequests`). For both: a wait times out at its deadline and at no other tick (`TimesOutOnTime`) and does not outlast it (`NobodyOverstays`). |
| `exchange` | MCExchange | What callers of a mutex were told agrees with owner and nesting count, also between a hand-off and the return of the new owner, and a free mutex has no waiters (`MutexSound`). A queue implements `BoundedFifo` (`DeliversInOrder`) with senders waiting, receivers waiting, interrupt handlers sending and either timing out; nobody waits without a reason (`QueueSound`). |
| `mutex_fair` | MCMutex | Three peers under round robin, so that one holds the mutex and two are in line for it: a task that waits without a deadline becomes the owner, though others come and time out (`WaitersGetTheMutex`). |
| `services` | MCServices | *Pool*: `PoolSound` (every block free or held once, and `os_mem_pool_free` accepts exactly what is held). *Heap*: `HeapTiles`, `NoFreeNeighbours`, `HeapAccounts`, `HeldBlocksStay`. *Timers*: `ActiveCountExact`, `FiresOnTime`, `ActiveTimersFire`. *Cores*: `CallsRunOnce`, `CallsAreRun`. *Scheduler on two cores*, tasks pinned: `SoleExecution`, `SmpListsAgree`. *Protection*: `CheckTellsTheHardware`, `LockedRegionsStay`. *Top-k*: `KeepsTheGreatest`. *Client*: `StateTellsTheWork`. *AI registry*: `ReferencesBalance`. |
| `tasks_urgent`, `tasks_window`, `tasks_table`, `mutex_inherit`, `timers_callback`, `smp_switch` | | Deviations: each is expected to be violated (section 5). |

### Bounds

* Three tasks and the idle task: two peers and one more urgent, so that there are
  preemption, rotation and two waiters behind one another. The peers are
  interchangeable (SYMMETRY), which no action distinguishes.
* `PrioMax = 3`: two priorities for tasks and the one of idle.
* `TickMod = 4`, 2 under fairness: the tick wraps within every behaviour, and the
  half-range comparison of the code (`< 0x80000000`) tells two ticks of
  lateness from earliness. All deadlines and delays are below half the range
  or stand for "forever" (`TickMod - 1`).
* `CountMod = 8`: more than the tasks that can be listed twice, so that a wrong
  count shows as a wrong count.
* `SliceTicks = 2` (1 for the fair mutex run): slices end with and without an
  intermediate tick. `LockMax = 1`, `HoldMax = 2`, `NestMod = 8`: the nested and
  the outermost case each occur; a nesting count that wraps is excluded.
* `TaskMax = 4`: the table is full once every task was created.
* Ring of two slots for two messages, one more sender than slots are free:
  indices wrap at every second message.
* Semaphore with at most two units; two event bits, two kinds of request (any of both
  bits with a clear, both without), two arguments of set and clear.
* `MCMutexFair`, too, creates its tasks in one order: all three are peers, which nothing else
  distinguishes.
* `MCSignals` and `MCExchange` start all tasks in one order of creation (`CONSTRAINT
  MCOrder`), the urgent task between the peers; the order only decides which of two
  tasks that time out at the same tick is woken first, and the urgent one comes after
  one peer and before the other.
* VIEWs drop what no later step reads: the result field of a task that is in no
  blocking call, the parcel of a task that does not wait to send, empty ring slots, and, in
  `MCTasks`, the tick except for the time left to sleepers.
* Pool of three blocks, two clients, every pointer of the pool and some outside.
* Heap of 25 units with headers of 4: at most five blocks, sizes that fit exactly,
  leave too little for a header, and cannot be met; two callers.
* Two timers on two slots, one periodic and one not, with a period of one round of the
  wheel, so that timers share a slot, lie in different rounds and are restarted for the
  slot being walked. `MaxLag = 2`:
  the timer task is at most two ticks behind; `MaxIdle = 1`: ticks without an active
  timer move the tick but not the position, and the sum with a period must stay below
  half the range (`TimerAssumption`; in the code 2^31 ticks).
* Two models, in builds with one HAL module: every place where a creation can fail
  comes before and after the other model (section 5 for the build with both).
* Two cores (module `Smp` and `SmpSched`), two callers for remote calls, from the
  same core and from different ones. Three tasks for the scheduler: two on one core,
  one on the other; suspension with windows for interrupts; yields and suspension with time
  slices, where the two of one core are peers; and every call but yields on the port that does
  not switch on interrupt exit. Tasks keep the core main pins them to: `SetAffinity`
  is taken in no run, since what a task that moves does is deviation 6.
* Three protection entries of which one is the kernel's, addresses of 16 bytes,
  regions that overlap, of four bytes, and of a size that is not a power of two, and kernel
  code at a base that is not aligned to its size, as linker symbols may be. Any entry is
  locked at any time, also one of mode TOR above entries that are set later. (`NAPOT` of four
  bytes is left out: section 5.)
* Arrays of up to four values with ties in magnitude and both signs.
* Two direct callers and the task of the client: one works while two are in line.

### Fairness

Code inside the kernel runs to its end (weak fairness of its steps: it executes
with interrupts disabled on the only core). The timer interrupt stays pending
until it is taken, so it is strongly fair, as interrupts are enabled again and again.
A task in the few instructions before its `os_sched()` gets through them
although ticks come in between. For the mutex, a mutex that can be unlocked again and again
is unlocked in the end, by whoever holds it, and a task gets through its call's
`os_sched()` and return (`CallGoesOn`); the first is an assumption on the application, both are named in
`FairMutexSpec`. No fairness is assumed of `take`, `give` or
`delay`. For the timers, ticks come and the timer task, which is created with a
priority above the application's, goes on (weak fairness of both); nothing is assumed
of those who start and stop timers. For the cores, each core and each handler goes on
(weak fairness), and a caller inside a send goes on although handlers interrupt it
again and again (strong fairness of its two steps). That is an assumption on the application,
too: `os_sched` has strict priorities, and a task that waits in `os_smp_call_on_cpu`
only yields (os_smp.c:656-659), which hands over to its peers. A less urgent caller of the same
core, overtaken between the slot and the interrupt, then never rings, and both
are stuck. `CallsAreRun` holds where callers of one core are peers, or the
urgent ones block now and then.

## 4. Proofs

TLC evaluates the assumptions named below on every run that uses the module.

**Tasks** (`TasksProofs`), for any set of tasks, number of priorities, size of the
table, wrap of the tick and of the counts, any set of builds and any use of the task
interface:

* `TypesHold`: `TypeOK` always holds.
* `OneTaskRuns`: `SoleRunning` always holds, also in the builds where the current task
  may be READY (section 5, deviation 2).

The inductive invariant is `TasksInv`: `Safe(k)` and the type of `pc`. `Safe` adds to
the two properties what they rest on. Before the first switch there is no current task,
and from then on the current task is a control block; otherwise `os_sched` would read
and write the state of NULL. Inside the tick handler the index of the scan is at
least 1. `Safe` is a predicate on the record of the kernel's structures and not on
the state, so that the functions of the kernel, which are operators on that
record, each have a lemma that they keep it (`ReadyAddSafe`, `CallSchedSafe`,
`ScanSafe`, ...), and a handler composed of functions follows from theirs. The switch is
the one place where a task becomes RUNNING; `SwitchToSafe` shows that at that moment
nobody else is. `HighestIsTask` needs that a set of priorities that is not empty has
a least element (`LeastNatural`). The assumption is `SchedAssumption`, the weakest
under which the constants make sense. Types and `SoleRunning` do not depend on sound
lists, which is why they survive the deviations that damage lists.

**Lists** (the first part of `TasksProofs`), for any lists and tasks. `IsChain(s, l, n, q)` says that list
`l` holds `q[1]`, ..., `q[n]` in this order, and `Chained(s, l, S)` that it holds the
tasks of `S` in some order. `LinksAgree(s, x)` says that every list is a chain of
exactly the tasks that belong on it by their state, priority and object, task `x`
excepted, which is on none, and that the bitmap is exact. Each operator of `TaskList` has a
lemma for chains (`AppendChains`, `RemoveChains`, `PopIsRemove`, ...) and each
function of the kernel one for `LinksAgree`, which takes `LinksAgree(s, t)` to
`LinksAgree(r, NULL)` or back: between taking a task off a list and putting it on another the
handlers write its state, and `x` names it meanwhile. `WellFormed` and `Members`, in
which the runs state soundness, follow a walk along the links; `WalkMeetsTheChain`
shows that the walk along a chain is the chain. The assumption is `ListAssumption`:
finitely many tasks, fewer than the count of a list can tell, and ready lists that are no
wait lists.

**Ready lists** (`ReadyProofs`): `ListsHold`, that is
`ASSUME SoundBuilds PROVE TasksSpec => []ListsAgree`, for any tasks, priorities and calls
of the task interface. The inductive invariant is `TasksInv` with `Sound(k)`, which
adds to `LinksAgree(k, NULL)` what handlers rely on without looking:

* `Stands`: the idle task is on no list though it is READY; its priority and its stack
  guard are never written; nobody is BLOCKED in applications that stop other tasks.
* `CurRuns`: where calls mask interrupts, the current task is RUNNING whenever it or a
  tick handler executes. `os_sched` and the end of a time slice list the current task
  without asking whether it is listed.
* `Leaves`: when `os_sched` looks for the next task, a current task that is READY is not the
  head of its list. Otherwise it would find the current task, leave it where it is,
  and it would execute READY: this is deviation 2 of section 5, and the reason why
  `os_task_yield` asks whether its list is empty before it appends its caller.

`SoundBuilds` speaks of builds with time slices only: calls mask interrupts, the port
switches on interrupt exit, `os_sched_lock` is not used, no stack overflows, and
no task has the priority of idle. Each part excludes a way in which the end of a slice
lists a task that is listed already or that sleeps (section 5). In builds without time
slices nothing is assumed: there the lists survive tasks that execute READY, smashed
stacks, and calls with interrupts enabled.

**Delays** (`SleepProofs`): `SleepersWakeOnTime`, that is
`ASSUME SoundBuilds, ShortDelays PROVE TasksSpec => WakesOnTime`, an action property. The
tick handler wakes a sleeper whose tick is not in the *future*, so that it wakes it
at its tick only if no sleeper's tick is in the past when the handler starts. That is
`Early`: of every sleeper in the table, between one tick and half the range of the
counter are left. The handler advances the tick, and while it scans, those it has not
come to yet may have none left (`Ahead`). `AheadIsEarly` closes the circle at the end
of the scan, and `ReachedIsNow` is the arithmetic: of the ticks a sleeper may ask
for, the wrapping comparison takes the present one and no later one for past.
`ShortDelays` bounds delays by half the range of the counter (2^31 ticks in the
code); a longer one counts as past, and its sleeper is woken by the next tick.
Sleepers that are not in the table are never woken (deviation 3), so the theorem holds of them too.

**Blocking calls** (`WaitProofs`): what the four objects share. The hypothesis of all
theorems about them is `BlockingBuilds`: calls mask interrupts, and applications do not
stop other tasks, lock the scheduler or overrun a stack (and `SoundBuilds`, above). These are
the masked builds of `MCSignals`, `MCExchange` and `MCMutex`. With windows a tick or an
interrupt handler can wake a task before its `os_sched()`, and the task that executes is READY
and listed (deviation 2); that sound wait lists survive this is left to TLC. Three predicates
say what a step does to those who wait, whatever it does otherwise. `Quiet(r, s, x)`:
nobody but `x` starts or ends to wait, and the wait lists keep their order. It holds
of every function of the kernel and of the whole task interface. `Arrives`: one task goes
to the end of one list. `Departs`: one task leaves its list, wherever it stands in it, which
is what `os_sched_wake_task` does for a give as for a timeout. `IpcInv(S)` is `Safe` and
`Sound` of the kernel, with `CallsStand` (who is BLOCKED is inside a call that
blocks, and who is inside one lives) and `WaitsOn(k, S)` (the BLOCKED wait for the objects of `S`).

**IPC objects** (`IpcProofs`), for any tasks, timeouts, sizes and contents:
`SemaphoresSound`, `QueuesSound`, `EventsSound`, `AnswersRight` and `MutexesSound`. Each object adds to
`IpcInv` what its own fields say of those who wait: `SemInv` (units and waiters exclude
each other), `QueueInv` (a waiting receiver means an empty ring, a waiting sender a full
one), `EventInv` (no BLOCKED request is satisfied). From these and the sound lists
follow `SemSound`, `QueueSound` and `EventSound`. The loops of `os_sem_reset` and
`os_event_set` wake any number of tasks in one critical section; the model writes them as
functions of the turn, and `Turns` follows such a function turn by turn
(`OneDismissed`, `OneLookedAt`), by taking the first turn after which the claim fails.
`os_event_set` reads the link of the next task before it unlinks the present one: the
proof keeps that link as the next of those not looked at yet. `MutexInv` is about what callers
know: `Exact(t, m)` adds to what task `t` was told the hand-off it has not heard of yet
(`Due`), and the sum is what owner and nesting count say. `MutexesSound` assumes
`~Inherit`, since inheritance damages the ready lists (deviation 4), and `FewHolds`, since
the nesting count has 8 bits.

**Deadlines** (`WaitProofs` for the kernel, `IpcProofs` for the objects): a wait times out
at its deadline and at no other tick (`SemaphoresTimeOut`, `EventsTimeOut`,
`QueuesTimeOut`, `MutexesTimeOut`, each
`ASSUME BlockingBuilds, ShortTimes PROVE ... => TimesOutOnTime`), and when the tick handler
has ended no deadline that has come is left behind (`SemaphoresLeaveNobody`,
`EventsLeaveNobody`, `QueuesLeaveNobody`, `MutexesLeaveNobody`, with `Room` in addition and
`=> []NobodyOverstays`). Those about mutexes keep `FewHolds` and `~Inherit`. The invariant
`Clocked` is added to the one of the object. `AheadCalls` is to deadlines what `Ahead` is to
the ticks of sleepers, and `TickStartPrompt` and `TickScanPrompt` follow the handler through
its scan in the same way. Since the handler sees only the tasks in the table, `Entered`
says which those are: the ones that were created, and each once, which is also why there is
room for the next (`RoomForOne`, by counting). All other steps fall under three lemmas:
`StepPrompt` for the kernel and the task interface, `BlockPrompt` for a call that starts to
wait, and `EasePrompt` for any step that moves no tick, no entry of the table and no
deadline of those who go on waiting, and ends no wait by a timeout (`Eases`); gives, sends, unlocks and the loops of
reset and set are such steps. `ShortTimes` is the bound of `ShortDelays` for timeouts other than
`OS_WAIT_FOREVER`: a longer one counts as past, and its call times out at the next tick.
`Room` says that the table has an entry for every task; without it the second statement is
false (deviation 3). A deadline that falls on tick 0 is no deadline in the code
(os_ipc.c:138), and the statements say nothing of it.

**Promises** (`PromiseProofs`): `SemaphoresCount` and `QueuesDeliver`, that is
`ASSUME BlockingBuilds PROVE SemSpec => CountsAndServesInOrder` and the same for
`QueueSpec` and `DeliversInOrder`. Every step of `Sem` and `Queue` is a step of
`CountingSem` or `BoundedFifo` under the mapping, or stutters. Most of the proof is
about what the mapping hides. The wait lists are mapped to sequences by a walk along the
links: by `ChainIsLine` that sequence is the chain of the proofs above, so that `Arrives` is `Append`,
`Departs` of the first is `Tail`, and a timeout removes from the middle. The ring is
mapped to the sequence from its read index: `PushAppends` and `PopIsTail`, for any
capacity and place of the wrap. `FifoInv` adds to `QueueInv` that indices and count
agree (`Consistent`) and which calls can be answered with what (`FifoCalls`).

**Memory pools** (`MemoryProofs`), for every number and size of blocks and every set
of clients: `PoolStaysSound`, `FreeAcceptsExactlyWhatIsHeld`. The inductive invariant
`PoolInv` is the conjunction of the type invariant, `HeldByOne` and `PoolExact`. None
of the parts is inductive alone: a block is handed out twice only if the free list
holds a held block, and the list stays free of held blocks only because
`os_mem_pool_free` walks it before it accepts a pointer. That walk follows words which
clients may overwrite, so the proof needs the list (`IsFreeList`) as an explicit
sequence: `WalkMeetsTheList` shows that the closure computed along the words is the set
of that sequence, and from it follows that a pointer is accepted exactly if a client
holds it. One step lemma per operation: `AllocKeepsInv`, `FreeKeepsInv`, `UseKeepsInv`.
The assumption is `PoolAssumption`.

**Heap** (`MemoryProofs`), for every size of the arena, of the header and of the
smallest block, every set of callers and of requests: `BlocksTileTheArena`,
`FreeBlocksAreParted`, `HeldBlocksKeepTheirPlace`. The inductive invariant `HeapInv`
is the conjunction of the tiling, of the absence of free neighbours, and of holders
that hold exactly the used blocks. The tiling is stated without a walk along the list:
every block ends where another begins or at the end of the arena, back links are the
inverse of the links, and no block begins inside another. The last part
is what makes it inductive: when a block is cut, the new header must not fall on
another, and when two are joined, the header that goes must have been the next one.
Cutting a block and joining two are operators on the function of headers, and a
lemma each says what they keep; malloc cuts at most once, free joins at most
twice, and `os_realloc` is composed of both. That a free joins *both* neighbours is
exactly what keeps free blocks apart. The assumption is `HeapAssumption`.

The accounts of the heap are the fourth theorem, `HeapAccountsAddUp`, that is
`ASSUME RequestsFit PROVE HeapSpec => []HeapAccounts`. `HeapStats` says that
`current_used_bytes` is the sum of the sizes of the used blocks, and each operation adds or
takes away exactly one block or the difference of two sizes (`SumAdds`). The sum is a
fold, and what a fold is over every finite set is an induction, here in the form of the
smallest set for which it fails (`SmallestSet`, `SumUnfolds`, `SumsAgree`). `RequestsFit` says that
no request wraps when it is aligned. Without it the statement is false: os_mem.c:262 wraps
for sizes within `Align - 1` of the largest, and the block is smaller than what was asked (section 5).
The requests of `MCServices` fit.

**Protection** (`MemoryProofs`), for any number of entries, regions, contexts and setup of
the kernel: `LockedStay`, an action property. Every operation that writes
a register tests the lock bit first, the loop of a context switch included, so that the proof
goes through the operations one by one and needs nothing of the state but its types (`PmpTypeOK`).
What the processor ignores of a write (`Fixed`) is about other entries than the locked one.

**Cores** (`ServiceProofs`), for any number of cores and callers: `CallsAreExecutedOnce`.
The invariant `SmpInv` is types, `OnePlace` and `Executions`. `OnePlace`: a call that
was placed in a core's slot is about to be marked by its sender, or pending at the
core, or with the core's handler, and in one of these places only, because the
handler takes all pending reasons in one exchange and a second mark of a reason that is
pending changes nothing. `Executions` counts: a call in one of these places was not
executed yet and one in none of them exactly once. The first alone does not give the
second, nor the other way round.

**Scheduler of several cores** (`ServiceProofs`): `PinnedTasksRunAlone`, that is
`ASSUME Pinned PROVE SmpSchedSpec => []SoleExecution`, for any number of cores and
tasks. `SmpSchedInv` adds to the types: the frame of a task that is not executed is its
own stack (`OwnFrames`); whatever a core executes, has chosen or is leaving is a task
pinned to it, or its idle task (`AtHome`); the number of the core and the current task
read before the lock are still right when they are used (`ReadsRight`). Without `Pinned` the
statement is false, which is what the run `smp_switch` shows.

`ListsAgreeWhenPinned`, that is `ASSUME Pinned, NoSlices PROVE SmpSchedSpec => []SmpListsAgree`,
is about what cores do to each other's tasks. `ListsInv` adds to `SmpSchedInv` that no
task is linked twice (`Once`), that exactly the READY ones are linked, and that only
current tasks are RUNNING. `os_task_suspend` and `os_task_delay` unlink a READY task and
no other, and `os_sched` links the task it leaves only if that is RUNNING still: a task that was
suspended, woken or resumed from another core in between is READY or SUSPENDED by
then. The end of a time slice has no such test (os_sched.c:577 writes the state and links
the current task). A current task that another core suspended and resumed before that tick is
linked already, and the tick links it again; hence `NoSlices`. With slices the lists are only
model-checked, among peers, in a build whose calls mask interrupts and neither resume nor delay
anybody.

**Timers** (`ServiceProofs`), for any timers, slots, periods and callers, also those who
call while a timer's list is detached: `ActiveTimersAreCounted`, that is, types hold
and `g_timer_count` is the number of active timers. The invariant `TimerInv`
speaks of types, the count and the flags, and adds that a callback that is under way is
some timer's (`FiresInCallback`): start, stop and the end of a callback test the flag
before they move the count, and no step relies on where a timer is listed, which is why
it holds even where `FiresOnTime` does not. `IsFiniteSet(Timer)` in `TimerAssumption`
is what makes the count a number.

**AI registry** (`ServiceProofs`), for any models: `EverythingIsReleasedOnce`, that is
`ASSUME OneModule PROVE AiSpec => []ReferencesBalance`, where `OneModule` says that
builds have at most one HAL module. The invariant `AiInv` adds that what is created next is
not there yet (`NextIsNew`) and what fields and locals may hold in each phase
(`AiTypeOK`); with both modules the static one is a local while the inline allocator is
created, and the statement is false (section 5).

**Federated client** (`ServiceProofs`), for any number of callers: `StateTellsRight`. The
look at the state before the mutex is taken protects nothing, and a task that was told to stop goes
on; what keeps rounds and updates apart is the mutex alone. The invariant makes its line
explicit: everybody who works or waits stands in it once, and whoever works is first
(`LineForLock`). The state (`StateOf`) follows from who is first:
rounds and updates write it as owners of the mutex and are back at IDLE before they release
it. The one other writer is `fl_client_init`, which makes a new mutex, too; it
finds an empty line, because direct callers are free then and there is no task yet. Nothing
is assumed.

Only model-checked: all liveness properties, since the prover knows neither fairness nor
ENABLED; the builds with windows of the IPC objects; the lists of several cores with
time slices; where active timers are listed and when they fire (`ActiveCountExact`
beyond the count, `FiresOnTime`), which depends on sequences of a hashed slot; that the
table of regions decides as the processor does (`CheckTellsTheHardware`: powers of two, on which
the prover has no facts); the selection of top-k (`KeepsTheGreatest`: a multiset is kept by a
partition, an induction over the array).

## 5. Deviations

Six runs show where the code does not do what its comments, configuration or tests
say. Each is a `violation` run, quoted in `PROJECT.json`.

1. `tasks_urgent`: `os_sched` compares the ready tasks with one another but not with
   the one that executes (os_sched.c:861). Called by a task that goes on running, it
   hands the processor to a less urgent task, and at every tick even to idle.
2. `tasks_window`: a tick between the critical section of `os_task_delay` and its
   `os_sched()` may wake the task; `os_sched` then finds the current task at the head
   of the ready list and returns, and it executes READY and listed.
3. `tasks_table`: `g_task_table` never loses an entry. After `OS_CFG_TASK_MAX`
   creations in all, a new task is created but never scanned: its delays and timed
   waits do not end.
4. `mutex_inherit`: priority inheritance writes the priority of a READY owner and
   leaves it on the list of its old one.
5. `timers_callback`: the list of a slot is detached before its callbacks run
   (os_timer.c:94). A callback that stops another timer of the slot cannot find it, and
   since `active` is not looked at before a callback (lines 99-110), it runs all
   the same.
6. `smp_switch`: `os_sched` releases the scheduler's lock (os_sched.c:891) before the
   context of the task it left is saved (line 893). A task that may run on any core is
   already listed, and another core may execute on its stack.

Further behaviour met while modelling, excluded from the passing runs by a bound or
a build and not kept as runs of their own:

*One core.*

* Where interrupt exit does not switch, a task whose slice ends twice is appended to
  its list twice (os_sched.c:578); so is one whose slice ends while `os_sched_lock` is
  held.
* A preempted task goes to the END of its list and loses the rest of its slice to its
  peers (os_sched.c:872).
* A deadline that wraps to tick 0 means "no deadline" (os_ipc.c:138).
* `nest_count` is 8 bits wide and wraps (os_ipc.c:237).
* `os_mutex_unlock` restores the priority remembered at the lock, whatever
  `os_task_set_prio` did since (os_ipc.c:288).
* A give by an interrupt handler in the window of a take leaves the taker on the
  ready list while it executes; its next wait damages both lists (os_ipc.c:144).
* Suspending or deleting a BLOCKED task leaves it on its wait list (os_sched.c:659).

*Timers.* The timer task takes its spinlock with interrupts enabled (os_timer.c:156);
a more urgent task or a handler that starts a timer meanwhile spins for ever. After
2^31 ticks without an active timer the position is so far behind that timers fire early.

*Heap.* A request within 8 bytes of the largest size wraps to 0 in `OS_ALIGN_UP`
(os_mem.c:262), and a block of no bytes is handed out.

*Cores.* The lock of a call slot is taken with interrupts enabled (os_smp.c:653): a
handler that calls the same core spins. `startup.S` (lines 68-80) addresses
`_hart_ready` in steps of 8 bytes on rv64, `os_smp.c` (25, 349) declares it with
4. The balancer works on `local_ready`, which nothing fills (os_sched.c:490). The
interrupts STOP and HALT are handled but never sent.

*Scheduler of several cores.* Slices with unmasked calls, or with a delay or a resume that makes
a task READY while it is the current one of a core, list that task twice (os_sched.c:577-578). Every core's tick advances `g_tick_count`, so
delays end early. No interrupt is sent when a task becomes ready for another core.
`os_task_create` lists a task for any core before `os_task_set_affinity` can pin
it. The wake-ups of `os_ipc.c` change ready lists under the lock of their object only.
`hal_board_bind_demo_tasks` (hal_board.c:131) pins the tasks it starts, which is the
setting of the passing run and of the theorem; README.md:47 and :112 of the
repository call SMP staged.

*Protection.* A NAPOT region of 4 bytes is accepted (os_pmp.h:261-263) but its
encoding covers the whole space. Entry 3 of `setup_kernel`, TOR, matches nothing. The
lock bit is read before the lock is taken (os_pmp.c:248, 339). A context switch leaves
further regions of the earlier task in place. Initialising again with locked entries
shrinks the count. Neither the alignment of a base is checked (os_pmp.c:253; linker
symbols are passed as they are, 418-432), nor whether the entry above is locked in mode TOR
(248): the processor then keeps the old address register, the table has the new region, and
`os_pmp_check_access` differs from the processor. `CheckTellsTheHardware` is about addresses
that only `Faithful` entries claim; without either condition of `Faithful` TLC finds the difference
in the same instance.

*Federated client.* The task does not end. `stack_init` makes the entry of a task its return
address (os_sched.c:389), and `os_context_switch` returns there (context.S:59-75). When
`fl_async_task` leaves its loop (fl_client.c:254-268), it is entered again with
whatever is in the argument register: it reads `running` through that, and may go on
with rounds after stop and deinit. A second start, or an init, then overwrites the control block
or the memory of a live task, which the model excludes. So the delay of 200 ticks in
`fl_client_stop` (300) waits for nothing, and no property says that a stopped task has ended.
The second of two callers of stop returns at once. Gradients
are never computed (fl_client.c:42). A refused round hands uninitialised
statistics to its callback.

*Compression.* An empty input yields one value. With 8 bits, QSGD casts 255 to
`int8_t`.

*AI runtime.* In a build with both HAL modules, `static_hal_module` is a local variable
while the inline allocator and module are created; when one of these fails
(ai_model_registry.c:350, 363) the function returns without releasing it (with
`HalModes = {{"static", "inline"}}` TLC shows it). Models that fail to load leave
gaps in `models`, but `ai_model_find_by_name` (457-464) searches `models[0..count-1]`:
it may find a model that failed and miss one that was loaded. A second
`ai_runtime_init` without an `ai_runtime_deinit` forgets every object (213).

## 6. Not modelled

* **AI runtime** (`ai/src`): lookup of models by name, their count and statistics,
  and the trace of allocations, which only record. The registry has no lock and IREE
  is compiled without synchronisation, so the model has one task that uses it, as
  in `apps/`. `ai_runtime.c` is not built (`ai/CMakeLists.txt` builds
  `ai_model_registry.c` instead) and its models have no operations (`num_ops` is
  always 0), so an invocation does nothing. The static-direct and descriptor
  paths are calls on data without state of their own.
* **Micro-kernels, model weights**: arithmetic without control; weights and generated
  headers are almost all of the repository's lines.
* **Several cores**: creation and deletion of tasks at run time, `os_task_set_prio`,
  the scheduler lock, wake-ups by IPC objects, load balancing and its migration (which act
  on lists nothing fills).
* **Compression** other than top-k: floating-point arithmetic.
* Interrupt nesting above one level; argument checks that return before any state is
  read; the saving of registers and start-up code; drivers and the C library.

## 7. Plan

1. The table of models with its gaps, and the lookup by name over it.
2. IPC objects on several cores: the ready lists under two locks.
3. Proofs: the lists of the timer wheel; the IPC objects in builds with windows, which needs an
   invariant that allows a task that executes to be READY and listed.
