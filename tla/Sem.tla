---------------------------------- MODULE Sem ----------------------------------
(***************************************************************************)
(* Counting semaphores: os_sem_* of kernel/src/os_ipc.c, called by tasks   *)
(* and, for os_sem_give, by interrupt handlers.                            *)
(***************************************************************************)
EXTENDS Ipc

CONSTANTS
  sem,                 \* the semaphore, and the name of its wait list
  SemStart, SemMax     \* the arguments of os_sem_init

ASSUME SemAssumption ==
  sem \in WaitList /\ SemMax \in Nat \ {0} /\ SemStart \in 0 .. SemMax

VARIABLE units    \* os_sem_t.count

semvars == <<k, pc, units>>

\* os_sem_init, by main
SemInit == KernelInit /\ units = SemStart

\* os_sem_take: a unit, or with OS_NO_WAIT an answer at once, or a wait.
SemTake(c, timeout) ==
  /\ "take" \in k.build.ops /\ Runs(c)
  /\ \/ /\ units > 0
        /\ units' = units - 1
        /\ UNCHANGED vars
     \/ /\ units = 0 /\ timeout # NoWait
        /\ Block(k, c, sem, timeout)
        /\ UNCHANGED units

\* A unit is added below the ceiling.
Add(n) == IF n < SemMax THEN n + 1 ELSE n

\* Mutation: the unit is counted although it was handed to a waiter.
MutUnitsGiven == Add(units)

\* os_sem_give up to its os_sched(): the kernel, and the units, it leaves.  The
\* longest waiting task gets the unit, and a unit above the maximum is refused.
Given == IF k.head[sem] = NULL THEN k ELSE HandOff(k, sem, "EOK")
UnitsGiven == IF k.head[sem] = NULL THEN Add(units) ELSE units

SemGive(c) ==
  /\ "give" \in k.build.ops /\ Runs(c)
  /\ units' = UnitsGiven
  /\ IF Given = k THEN UNCHANGED vars ELSE ThenSched(c, Given)

\* os_sem_give by an interrupt handler
IsrGive ==
  /\ units' = UnitsGiven
  /\ Interrupt(IF Given = k THEN k ELSE SchedFromIrq(Given))

\* Mutation: only the first waiter is dismissed.
MutDismissed == HandOff(k, sem, "ERROR")

\* The loop of os_sem_reset: every waiter is woken with OS_ERROR.
Dismissed ==
  LET after[n \in 0 .. TaskCount] ==
        IF n = 0 THEN k
        ELSE LET before == after[n - 1]
             IN IF before.head[sem] = NULL THEN before ELSE HandOff(before, sem, "ERROR")
  IN after[TaskCount]

\* os_sem_reset
SemReset(c, n) ==
  /\ "reset" \in k.build.ops /\ Runs(c)
  /\ units' = n
  /\ IF k.head[sem] = NULL THEN UNCHANGED vars ELSE ThenSched(c, Dismissed)

\* The call of a task that had to wait returns.
SemReturn(c) ==
  /\ Returns(c)
  /\ pc' = [pc EXCEPT ![c] = "run"]
  /\ UNCHANGED <<k, units>>

SemStep(c) ==
  \/ \E timeout \in Timeouts : SemTake(c, timeout)
  \/ SemGive(c)
  \/ \E n \in 0 .. SemMax : SemReset(c, n)
  \/ SemReturn(c)

SemNext ==
  \/ TasksNext /\ UNCHANGED units
  \/ \E c \in Task : EnterBlocked(c) /\ UNCHANGED units
  \/ \E c \in Task : SemStep(c)
  \/ IsrGive

SemSpec == SemInit /\ [][SemNext]_semvars

\* Fairness of the kernel, as in Tasks: a call that blocks gets to its os_sched().
FairSemSpec ==
  SemSpec /\ KernelFairness /\ \A c \in Task : SF_vars(EnterBlocked(c))
-----------------------------------------------------------------------------
(* Properties.                                                             *)

SemTypeOK ==
  /\ k \in KernelType
  /\ pc \in [Tcb -> CallPlaces]
  /\ units \in 0 .. SemMax

\* No lost wake-up: nobody waits for a semaphore that has units, whatever
\* timeouts, gives from interrupts and resets come between the wait and the give.
NobodyWaitsForUnits == units > 0 => k.head[sem] = NULL

\* The same with what it rests on: types, and tasks that move between ready lists
\* and the wait list, which share their links, without damage to either.
SemSound == SemTypeOK /\ ListsSound /\ ReadyListedOnce /\ WaitersBlocked /\ NobodyWaitsForUnits

\* The semaphore implements CountingSem: units are neither lost nor handed out
\* twice, waiters are served in the order they came, and the code a take returns
\* tells what happened (EOK if and only if it got a unit).  Where no task takes, the
\* calls that block are on other objects.
Counting == INSTANCE CountingSem
  WITH Client <- Task, Max <- SemMax, Start <- SemStart, units <- units,
       line <- Waiting(sem), outcome <- [t \in Task |-> IF "take" \in k.build.ops THEN Outcome(t) ELSE "idle"]

CountsAndServesInOrder == Counting!Spec
=============================================================================
