--------------------------------- MODULE Mutex ---------------------------------
(***************************************************************************)
(* Recursive mutexes with ownership hand-off and priority inheritance:     *)
(* os_mutex_* of kernel/src/os_ipc.c.                                      *)
(***************************************************************************)
EXTENDS Ipc

CONSTANTS
  Mutex,      \* the mutexes, and the names of their wait lists
  Inherit,    \* OS_CFG_MUTEX_PRIO_INHERIT
  NestMod,    \* nest_count wraps at this value (2^8 in the code)
  HoldMax     \* bound on how often a task holds a mutex

ASSUME MutexAssumption ==
  /\ Mutex \subseteq WaitList /\ Inherit \in BOOLEAN
  /\ NestMod \in Nat \ {0, 1} /\ HoldMax \in Nat

VARIABLES
  mx,      \* the fields of each os_mutex_t; its wait list has its name
  holds,   \* what the callers know: how often each task holds each mutex
  asked    \* the mutex of the os_mutex_lock a task is blocked in

mxvars == <<k, pc, mx, holds, asked>>

\* os_mutex_init, by main
MutexInit ==
  /\ KernelInit
  /\ mx = [m \in Mutex |-> [locked |-> FALSE, nest |-> 0, owner |-> NULL, original |-> 0]]
  /\ holds = [t \in Task |-> [m \in Mutex |-> 0]]
  /\ asked = [t \in Task |-> NULL]

\* Mutex m passes to task t.
OwnedBy(m, t) ==
  [mx EXCEPT ![m] = [locked |-> TRUE, nest |-> 1, owner |-> t, original |-> k.prio[t]]]

\* Task c is told that it holds m once more.
Gains(c, m) == holds' = [holds EXCEPT ![c][m] = @ + 1]

\* The owner's priority is raised to the waiter's; a READY owner stays on the
\* list of its old priority.
Inherited(c, m) ==
  IF Inherit /\ k.prio[c] < k.prio[mx[m].owner]
  THEN [k EXCEPT !.prio[mx[m].owner] = k.prio[c]] ELSE k

\* os_mutex_lock
MutexLock(c, m, timeout) ==
  /\ "mlock" \in k.build.ops /\ Runs(c) /\ holds[c][m] < HoldMax
  /\ \/ /\ ~mx[m].locked
        /\ mx' = OwnedBy(m, c) /\ Gains(c, m)
        /\ UNCHANGED <<k, pc, asked>>
     \/ /\ mx[m].locked /\ mx[m].owner = c
        /\ mx' = [mx EXCEPT ![m].nest = (@ + 1) % NestMod] /\ Gains(c, m)
        /\ UNCHANGED <<k, pc, asked>>
     \/ /\ mx[m].locked /\ mx[m].owner # c /\ timeout # NoWait
        /\ Block(Inherited(c, m), c, m, timeout)
        /\ asked' = [asked EXCEPT ![c] = m]
        /\ UNCHANGED <<mx, holds>>

\* The call of a task that had to wait for the mutex returns.
MutexReturn(c) ==
  /\ Returns(c)
  /\ pc' = [pc EXCEPT ![c] = "run"]
  /\ asked' = [asked EXCEPT ![c] = NULL]
  /\ IF k.result[c] = "EOK" THEN Gains(c, asked[c]) ELSE UNCHANGED holds
  /\ UNCHANGED <<k, mx>>

Restored(c, m) == IF Inherit THEN [k EXCEPT !.prio[c] = mx[m].original] ELSE k

\* Mutation: the mutex is freed and the waiter woken to compete for it.
MutPassed(m) == [mx EXCEPT ![m].locked = FALSE, ![m].owner = NULL]

\* The mutex after its last unlock: it passes to the longest waiting task.
Passed(m) ==
  IF k.head[m] # NULL THEN OwnedBy(m, k.head[m])
  ELSE [mx EXCEPT ![m].locked = FALSE, ![m].owner = NULL, ![m].nest = 0]

\* os_mutex_unlock by the owner (any other task is refused with OS_EPERM).
MutexUnlock(c, m) ==
  /\ "munlock" \in k.build.ops /\ Runs(c) /\ mx[m].owner = c
  /\ holds' = [holds EXCEPT ![c][m] = IF @ > 0 THEN @ - 1 ELSE 0]
  /\ IF (mx[m].nest - 1) % NestMod > 0
     THEN mx' = [mx EXCEPT ![m].nest = (@ - 1) % NestMod] /\ UNCHANGED vars
     ELSE /\ mx' = Passed(m)
          /\ IF k.head[m] = NULL THEN k' = Restored(c, m) /\ UNCHANGED pc
             ELSE ThenSched(c, HandOff(Restored(c, m), m, "EOK"))
  /\ UNCHANGED asked

MutexStep(c) ==
  \/ \E m \in Mutex : \/ \E timeout \in Timeouts : MutexLock(c, m, timeout)
                      \/ MutexUnlock(c, m)
  \/ MutexReturn(c)

MutexNext ==
  \/ (TasksNext \/ \E c \in Task : EnterBlocked(c)) /\ UNCHANGED <<mx, holds, asked>>
  \/ \E c \in Task : MutexStep(c)

MutexSpec == MutexInit /\ [][MutexNext]_mxvars

\* A call goes on after its critical section: its os_sched(), and its return.
CallGoesOn(c) == (EnterBlocked(c) /\ UNCHANGED <<mx, holds, asked>>) \/ MutexReturn(c)

\* Fairness of the kernel, and of the callers: whoever holds a mutex gives it back
\* when it runs again and again, and a call returns.
FairMutexSpec ==
  /\ MutexSpec /\ KernelFairness
  /\ \A c \in Task : SF_mxvars(CallGoesOn(c))
  /\ \A m \in Mutex : SF_mxvars(\E c \in Task : MutexUnlock(c, m))
-----------------------------------------------------------------------------
(* Properties.                                                             *)

MutexTypeOK ==
  /\ k \in KernelType
  /\ pc \in [Tcb -> CallPlaces]
  /\ mx \in [Mutex -> [locked : BOOLEAN, nest : 0 .. NestMod - 1,
                       owner : Task \cup {NULL}, original : Prio]]
  /\ holds \in [Task -> [Mutex -> 0 .. HoldMax]]
  /\ asked \in [Task -> Mutex \cup {NULL}]

\* Mutual exclusion as the callers see it: the tasks that were told they hold a
\* mutex are its owner and nobody else, as often as the nesting count says, also
\* when the mutex was handed to a task that has not returned from its lock yet
\* or that timed out at the same tick.
OwnershipExact ==
  \A m \in Mutex, t \in Task :
    LET due == IF asked[t] = m /\ Outcome(t) = "EOK" THEN 1 ELSE 0
    IN holds[t][m] + due = IF mx[m].locked /\ mx[m].owner = t THEN mx[m].nest ELSE 0

\* A mutex nobody holds has no waiters: unlock and timeout never strand one.
FreeMutexHasNoWaiters == \A m \in Mutex : ~mx[m].locked => k.head[m] = NULL

\* Both, with what they rest on: types, and wait lists that hold the waiters.
MutexSound == MutexTypeOK /\ WaitersBlocked /\ OwnershipExact /\ FreeMutexHasNoWaiters

\* A task that waits for a mutex without a deadline becomes its owner, as long as
\* owners give it back: the hand-off passes nobody over.
WaitersGetTheMutex ==
  \A t \in Task, m \in Mutex :
    k.state[t] = "BLOCKED" /\ k.wait[t] = m /\ k.deadline[t] = 0 ~> mx[m].owner = t
=============================================================================
