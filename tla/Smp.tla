----------------------------------- MODULE Smp -----------------------------------
(***************************************************************************)
(* Several cores (multicore/src/os_smp.c, OS_CFG_SMP_EN with run-time IPIs):*)
(* the start of the secondary cores, interrupts from core to core, and     *)
(* functions called on another core.  The steps of different cores and of  *)
(* the callers on one core interleave; a core's handler runs with its      *)
(* interrupts disabled, so that its callers stand still meanwhile.         *)
(***************************************************************************)
EXTENDS Integers, FiniteSets

CONSTANTS
  Cpu,          \* OS_CFG_CPU_COUNT cores
  BootCpu,
  Caller,       \* the tasks and interrupt handlers that call other cores
  NoCaller      \* the null function

ASSUME SmpAssumption ==
  BootCpu \in Cpu /\ NoCaller \notin Caller

VARIABLES
  home,         \* the core each caller runs on
  stage,        \* how far each core came
  cpu_ready, cpu_online, scheduler_release,  \* g_cpu_ready_mask, ...
  ipi_pending,  \* g_ipi_pending
  msip,         \* the software interrupt bit of each core in the CLINT
  call,         \* g_smp_call: whose function it is, and done
  handler,      \* what each core's os_ipi_handler is about to do
  caller,       \* what each caller is about to do
  executed      \* how often the last call of a caller to a core was executed

bootvars == <<home, stage, cpu_ready, cpu_online, scheduler_release>>
smpvars == <<home, stage, cpu_ready, cpu_online, scheduler_release, ipi_pending, msip, call,
             handler, caller, executed>>

Secondary == Cpu \ {BootCpu}
Reason == {"reschedule", "call"}
Free == [at |-> "free", cpu |-> BootCpu, reason |-> "call", wait |-> FALSE]

\* os_smp_init
SmpInit ==
  /\ home \in [Caller -> Cpu]
  /\ stage = [i \in Cpu |-> IF i = BootCpu THEN "starting" ELSE "off"]
  /\ cpu_ready = {} /\ cpu_online = {BootCpu} /\ scheduler_release = {}
  /\ ipi_pending = [i \in Cpu |-> {}]
  /\ msip = [i \in Cpu |-> FALSE]
  /\ call = [i \in Cpu |-> [func |-> NoCaller, done |-> TRUE]]
  /\ handler = [i \in Cpu |-> "none"]
  /\ caller = [c \in Caller |-> Free]
  /\ executed = [c \in Caller |-> [i \in Cpu |-> 1]]

-----------------------------------------------------------------------------
(* The start.                                                              *)

\* os_smp_start_cpus, for one core
StartCpu(i) ==
  /\ stage[BootCpu] = "starting"
  /\ i \in Secondary \ cpu_ready
  /\ cpu_ready' = cpu_ready \cup {i}
  /\ msip' = [msip EXCEPT ![i] = TRUE]
  /\ UNCHANGED <<home, stage, cpu_online, scheduler_release, ipi_pending, call, handler, caller, executed>>

\* os_smp_start_cpus returns when all cores are online, or after its time-out.
EndStart ==
  /\ stage[BootCpu] = "starting" /\ cpu_ready = Secondary
  /\ stage' = [stage EXCEPT ![BootCpu] = "releasing"]
  /\ UNCHANGED <<home, cpu_ready, cpu_online, scheduler_release, ipi_pending, msip, call, handler, caller, executed>>

\* os_smp_release_cpus, for one core; then the boot core starts its scheduler.
ReleaseCpu(i) ==
  /\ stage[BootCpu] = "releasing"
  /\ i \in Secondary \ scheduler_release
  /\ scheduler_release' = scheduler_release \cup {i}
  /\ msip' = [msip EXCEPT ![i] = TRUE]
  /\ UNCHANGED <<home, stage, cpu_ready, cpu_online, ipi_pending, call, handler, caller, executed>>

BootSchedules ==
  /\ stage[BootCpu] = "releasing" /\ scheduler_release = Secondary
  /\ stage' = [stage EXCEPT ![BootCpu] = "scheduling"]
  /\ UNCHANGED <<home, cpu_ready, cpu_online, scheduler_release, ipi_pending, msip, call, handler, caller, executed>>

\* os_smp_secondary_start: the interrupts of the core are enabled once it is ready ...
SecondaryReady(i) ==
  /\ stage[i] = "off" /\ i \in cpu_ready
  /\ stage' = [stage EXCEPT ![i] = "ready"]
  /\ UNCHANGED <<home, cpu_ready, cpu_online, scheduler_release, ipi_pending, msip, call, handler, caller, executed>>

\* ... it is marked as online ...
SecondaryOnline(i) ==
  /\ stage[i] = "ready" /\ handler[i] = "none"
  /\ stage' = [stage EXCEPT ![i] = "online"]
  /\ cpu_online' = cpu_online \cup {i}
  /\ UNCHANGED <<home, cpu_ready, scheduler_release, ipi_pending, msip, call, handler, caller, executed>>

\* ... and starts its scheduler when it is released.
SecondarySchedules(i) ==
  /\ stage[i] = "online" /\ handler[i] = "none" /\ i \in scheduler_release
  /\ stage' = [stage EXCEPT ![i] = "scheduling"]
  /\ UNCHANGED <<home, cpu_ready, cpu_online, scheduler_release, ipi_pending, msip, call, handler, caller, executed>>

-----------------------------------------------------------------------------
(* Calls.                                                                  *)

\* A caller moves while its core is not inside the handler.
Moves(c) == stage[home[c]] = "scheduling" /\ handler[home[c]] = "none"

\* os_smp_call_on_cpu: the slot of the core is taken, under its lock, once it is done
\* with the call before.
CallOnCpu(c, i, wait) ==
  /\ Moves(c) /\ caller[c].at = "free"
  /\ i \in cpu_online \ {home[c]}
  /\ call[i].done
  /\ call' = [call EXCEPT ![i] = [func |-> c, done |-> FALSE]]
  /\ executed' = [executed EXCEPT ![c][i] = 0]
  /\ caller' = [caller EXCEPT ![c] = [at |-> "mark", cpu |-> i, reason |-> "call", wait |-> wait]]
  /\ UNCHANGED <<bootvars, ipi_pending, msip, handler>>

\* os_ipi_send or os_ipi_broadcast, to ask a core to schedule
Reschedule(c, i) ==
  /\ Moves(c) /\ caller[c].at = "free"
  /\ i \in Cpu \ {home[c]}
  /\ caller' = [caller EXCEPT ![c] = [at |-> "mark", cpu |-> i, reason |-> "reschedule", wait |-> FALSE]]
  /\ UNCHANGED <<bootvars, ipi_pending, msip, call, handler, executed>>

\* Mutation: a reason is dropped while another one is pending.
MutPended(i, reason) == [ipi_pending EXCEPT ![i] = IF @ = {} THEN {reason} ELSE @]

\* The pending reasons and one more.
Pended(i, reason) == [ipi_pending EXCEPT ![i] = @ \cup {reason}]

\* os_ipi_send: the reason is added to the pending ones ...
IpiMark(c) ==
  /\ Moves(c) /\ caller[c].at = "mark"
  /\ ipi_pending' = Pended(caller[c].cpu, caller[c].reason)
  /\ caller' = [caller EXCEPT ![c].at = "ring"]
  /\ UNCHANGED <<bootvars, msip, call, handler, executed>>

\* ... and the interrupt raised.
IpiRing(c) ==
  /\ Moves(c) /\ caller[c].at = "ring"
  /\ msip' = [msip EXCEPT ![caller[c].cpu] = TRUE]
  /\ caller' = [caller EXCEPT ![c] = IF @.wait THEN [@ EXCEPT !.at = "await"] ELSE Free]
  /\ UNCHANGED <<bootvars, ipi_pending, call, handler, executed>>

\* os_smp_call_on_cpu returns to a caller that waits for completion.
CallReturns(c) ==
  /\ Moves(c) /\ caller[c].at = "await"
  /\ call[caller[c].cpu].done
  /\ caller' = [caller EXCEPT ![c] = Free]
  /\ UNCHANGED <<bootvars, ipi_pending, msip, call, handler, executed>>

-----------------------------------------------------------------------------
(* os_ipi_handler.                                                         *)

IpiTaken(i) ==
  /\ stage[i] \in {"ready", "online", "scheduling"}
  /\ handler[i] = "none" /\ msip[i]
  /\ msip' = [msip EXCEPT ![i] = FALSE]
  /\ handler' = [handler EXCEPT ![i] = "exchange"]
  /\ UNCHANGED <<bootvars, ipi_pending, call, caller, executed>>

\* Mutation: reasons stay pending.
MutTaken(i) == ipi_pending

\* The pending reasons once core i exchanged its own for none.
Taken(i) == [ipi_pending EXCEPT ![i] = {}]

IpiExchange(i) ==
  /\ handler[i] = "exchange"
  /\ ipi_pending' = Taken(i)
  /\ handler' = [handler EXCEPT ![i] =
       IF "call" \in ipi_pending[i] /\ call[i].func # NoCaller THEN "execute" ELSE "none"]
  /\ UNCHANGED <<bootvars, msip, call, caller, executed>>

IpiExecute(i) ==
  LET c == call[i].func IN
  /\ handler[i] = "execute"
  /\ executed' = [executed EXCEPT ![c][i] = IF @ < 2 THEN @ + 1 ELSE @]
  /\ handler' = [handler EXCEPT ![i] = "complete"]
  /\ UNCHANGED <<bootvars, ipi_pending, msip, call, caller>>

IpiComplete(i) ==
  /\ handler[i] = "complete"
  /\ call' = [call EXCEPT ![i].done = TRUE]
  /\ handler' = [handler EXCEPT ![i] = "none"]
  /\ UNCHANGED <<bootvars, ipi_pending, msip, caller, executed>>

-----------------------------------------------------------------------------
CallerStep(c) == IpiMark(c) \/ IpiRing(c) \/ CallReturns(c)
CpuStep(i) ==
  \/ SecondaryReady(i) \/ SecondaryOnline(i) \/ SecondarySchedules(i)
  \/ IpiTaken(i) \/ IpiExchange(i) \/ IpiExecute(i) \/ IpiComplete(i)
BootStep == EndStart \/ BootSchedules \/ \E i \in Cpu : StartCpu(i) \/ ReleaseCpu(i)

SmpNext ==
  \/ BootStep
  \/ \E i \in Cpu : CpuStep(i)
  \/ \E c \in Caller :
       \/ CallerStep(c)
       \/ \E i \in Cpu : Reschedule(c, i) \/ \E wait \in BOOLEAN : CallOnCpu(c, i, wait)

\* Cores execute instructions and take interrupts that stay raised; a caller is
\* scheduled again and again, although handlers of its core come in between: callers of
\* one core are peers, or the more urgent ones block in between.
SmpFairness ==
  /\ WF_smpvars(BootStep)
  /\ \A i \in Cpu : WF_smpvars(CpuStep(i))
  /\ \A c \in Caller : SF_smpvars(IpiMark(c) \/ IpiRing(c))

SmpSpec == SmpInit /\ [][SmpNext]_smpvars /\ SmpFairness
-----------------------------------------------------------------------------
(* Properties.                                                             *)

\* Every call is executed once: a call's slot is only taken again, and its caller
\* only told that it completed, after one execution; no interrupt that was merged,
\* raised late or sent for another reason executes it a second time.
CallsRunOnce ==
  /\ \A c \in Caller, i \in Cpu : executed[c][i] <= 1
  /\ \A i \in Cpu, c \in Caller : (call[i].done \/ call[i].func # c) => executed[c][i] = 1

\* Every call is executed at last, also on a core that came online late or that
\* clears its interrupt while the next one is being sent.  It takes a caller that gets
\* the processor again (SmpFairness).  Strict priorities alone do not give it that: a
\* more urgent task of its core that waits for the same slot in os_smp_call_on_cpu only
\* yields to its peers, so that a caller overtaken before it rings never goes on.
CallsAreRun == \A i \in Cpu : ~call[i].done ~> call[i].done
=============================================================================
