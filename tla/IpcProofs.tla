------------------------------- MODULE IpcProofs -------------------------------
(***************************************************************************)
(* Proofs about semaphores, message queues, event flags and mutexes: that  *)
(* nobody waits for what is there, and that waits end at their deadlines,  *)
(* for any tasks, timeouts, contents and sizes.                            *)
(* Each object has an inductive invariant: IpcInv (WaitProofs) and         *)
(* what the fields of the object say of those who wait for it.  The loops  *)
(* of os_sem_reset and os_event_set, which wake any number of tasks, are   *)
(* followed turn by turn.                                                  *)
(***************************************************************************)
EXTENDS Sem, Queue, Event, Mutex, WaitProofs

-----------------------------------------------------------------------------
(* The loops of os_sem_reset and os_event_set.                             *)

DismissOne(s) == IF s.head[sem] = NULL THEN s ELSE HandOff(s, sem, "ERROR")

LookAtOne(s) == IF s.task = NULL THEN s ELSE Turn(s)

OneTurn(loop, s) == IF loop = "reset" THEN DismissOne(s) ELSE LookAtOne(s)

\* f[i] is what the first i turns of the loop leave of start.
Turns(f, m, loop, start) ==
  f = [i \in 0 .. m |-> IF i = 0 THEN start ELSE OneTurn(loop, f[i - 1])]

LEMMA TurnsGoOn ==
  ASSUME NEW loop, NEW start, NEW m \in Nat, NEW f, Turns(f, m, loop, start)
  PROVE  \E g : Turns(g, m + 1, loop, start)
<1> DEFINE last == OneTurn(loop, f[m])
           g == [i \in 0 .. m + 1 |-> IF i = m + 1 THEN last ELSE f[i]]
<1>1. \A i \in 0 .. m : f[i] = IF i = 0 THEN start ELSE OneTurn(loop, f[i - 1])
  BY DEF Turns
<1>2. last = OneTurn(loop, f[m])
  OBVIOUS
<1> HIDE DEF last
<1>3. ASSUME NEW i \in 0 .. m + 1
      PROVE  g[i] = IF i = 0 THEN start ELSE OneTurn(loop, g[i - 1])
  <2>1. CASE i = m + 1
    <3>1. g[i] = last /\ i - 1 = m /\ g[i - 1] = f[m] /\ i # 0
      BY <2>1
    <3> QED
      BY <1>2, <3>1
  <2>2. CASE i # m + 1
    <3>1. i \in 0 .. m /\ g[i] = f[i]
      BY <2>2
    <3>2. i # 0 => g[i - 1] = f[i - 1]
      BY <3>1
    <3> QED
      BY <1>1, <3>1, <3>2
  <2> QED
    BY <2>1, <2>2
<1>4. g = [i \in 0 .. m + 1 |-> g[i]]
  OBVIOUS
<1> HIDE DEF g
<1>5. g = [i \in 0 .. m + 1 |-> IF i = 0 THEN start ELSE OneTurn(loop, g[i - 1])]
  BY <1>3, <1>4
<1> QED
  BY <1>5 DEF Turns

LEMMA TurnsExist ==
  ASSUME NEW loop, NEW start
  PROVE  \A m \in Nat : \E f : Turns(f, m, loop, start)
<1> DEFINE Bad == { m \in Nat : ~ \E f : Turns(f, m, loop, start) }
<1>1. 0 \notin Bad
  <2> DEFINE f == [i \in 0 .. 0 |-> start]
  <2>1. f = [i \in 0 .. 0 |-> IF i = 0 THEN start ELSE OneTurn(loop, f[i - 1])]
    OBVIOUS
  <2> HIDE DEF f
  <2> QED
    BY <2>1 DEF Turns
<1>2. ASSUME Bad # {} PROVE FALSE
  <2>1. Bad \in SUBSET Nat
    OBVIOUS
  <2>2. PICK m \in Bad : \A j \in Bad : m <= j
    <3> HIDE DEF Bad
    <3> QED
      BY <1>2, <2>1, LeastNatural
  <2>3. m \in Nat /\ m # 0 /\ m - 1 \in Nat /\ m - 1 \notin Bad
    <3>1. m \in Nat /\ m # 0
      BY <1>1
    <3>2. m - 1 \in Nat /\ ~(m <= m - 1)
      BY <3>1
    <3> QED
      BY <2>2, <3>1, <3>2
  <2>4. PICK f : Turns(f, m - 1, loop, start)
    BY <2>3
  <2>5. \E g : Turns(g, (m - 1) + 1, loop, start)
    BY <2>3, <2>4, TurnsGoOn
  <2>6. (m - 1) + 1 = m
    BY <2>3
  <2> QED
    BY <2>5, <2>6
<1> QED
  BY <1>2

LEMMA DismissedTurns ==
  ASSUME NEW m, m = TaskCount, m \in Nat
  PROVE  \E f : Turns(f, m, "reset", k) /\ Dismissed = f[m]
<1> DEFINE after == CHOOSE f : Turns(f, m, "reset", k)
<1>1. Turns(after, m, "reset", k)
  BY TurnsExist
<1>2. Dismissed = after[m]
  BY DEF Dismissed, Turns, DismissOne, OneTurn
<1> QED
  BY <1>1, <1>2

\* What the loop leaves after any number of turns: waiters that were told OS_ERROR,
\* and the others as they were.
Dismisses(s) ==
  /\ Safe(s) /\ Fit(s) /\ s.at = "task" /\ s.cur = k.cur /\ s.state[s.cur] = "RUNNING"
  /\ s.build = k.build /\ Eases(s, k)
  /\ \A u \in Task :
       /\ s.state[u] = "BLOCKED" => k.state[u] = "BLOCKED" /\ s.wait[u] = k.wait[u]
       /\ Lives(k, u) => Lives(s, u)
       /\ s.result[u] = IF k.state[u] = "BLOCKED" /\ s.state[u] # "BLOCKED" THEN "ERROR"
                                                                            ELSE k.result[u]

\* i waiters have gone, or all.
Gone(s, i) ==
  \E n \in Nat : \E w \in [1 .. n -> Tcb] : IsChain(s, sem, n, w) /\ (n = 0 \/ n + i <= TaskCount)

LEMMA OneDismissed ==
  ASSUME NEW s, Dismisses(s), NEW i \in Nat, Gone(s, i), NEW r, r = DismissOne(s)
  PROVE  Dismisses(r) /\ Gone(r, i + 1)
<1>1. PICK n \in Nat : \E w \in [1 .. n -> Tcb] :
                         IsChain(s, sem, n, w) /\ (n = 0 \/ n + i <= TaskCount)
  BY DEF Gone
<1>2. PICK w \in [1 .. n -> Tcb] : IsChain(s, sem, n, w) /\ (n = 0 \/ n + i <= TaskCount)
  BY <1>1
<1>3. s.head[sem] = NULL <=> n = 0
  <2>1. n # 0 => w[1] \in Tcb
    OBVIOUS
  <2> QED
    BY <1>2, <2>1, IdleApart DEF IsChain
<1>4. CASE n = 0
  <2>1. r = s
    BY <1>3, <1>4 DEF DismissOne
  <2> QED
    BY <1>2, <1>4, <2>1 DEF Gone
<1>5. CASE n # 0
  <2> DEFINE t == s.head[sem]
  <2>1. /\ Safe(s) /\ Fit(s) /\ sem \in WaitList /\ t = s.head[sem] /\ t # NULL
        /\ "ERROR" \in Results /\ r = HandOff(s, sem, "ERROR")
    BY <1>3, <1>5, SemAssumption DEF Dismisses, DismissOne, Results
  <2> HIDE DEF t
  <2>2. /\ t \in Task /\ s.state[t] = "BLOCKED" /\ s.wait[t] = sem
        /\ Safe(r) /\ Fit(r) /\ r.at = s.at /\ r.cur = s.cur /\ r.build = s.build
        /\ r.state = [s.state EXCEPT ![t] = "READY"] /\ Departs(r, s, t, "ERROR") /\ Eases(r, s)
    BY <2>1, HandOffDeparts
  <2>3. s.state \in [Tcb -> States] /\ s.cur \in Tcb /\ t \in Tcb
    BY <2>2, IdleApart DEF Dismisses, Safe, KernelType
  <2>4. r.state[t] = "READY" /\ r.state[r.cur] = "RUNNING"
    BY <2>2, <2>3 DEF Dismisses
  <2>5. Dismisses(r)
    <3>1. ASSUME NEW u \in Task
          PROVE  /\ r.state[u] = "BLOCKED" => k.state[u] = "BLOCKED" /\ r.wait[u] = k.wait[u]
                 /\ Lives(k, u) => Lives(r, u)
                 /\ r.result[u] = IF k.state[u] = "BLOCKED" /\ r.state[u] # "BLOCKED"
                                  THEN "ERROR" ELSE k.result[u]
      <4>1. CASE u = t
        BY <2>2, <2>4, <4>1 DEF Dismisses, Departs
      <4>2. CASE u # t
        BY <2>2, <4>2 DEF Dismisses, Departs, SameCalls
      <4> QED
        BY <4>1, <4>2
    <3>2. Eases(r, k)
      BY <2>2, EasesTwice DEF Dismisses
    <3> QED
      BY <2>2, <2>4, <3>1, <3>2 DEF Dismisses
  <2>6. PICK j \in 1 .. n : IsChain(r, sem, n - 1, Closed(w, n, j))
    BY <1>2, <2>1, <2>2 DEF Departs
  <2>7. n - 1 \in Nat /\ Closed(w, n, j) \in [1 .. n - 1 -> Tcb]
    BY <1>5 DEF Closed
  <2>8. TaskCount \in Nat
    BY <1>2, ChainBound DEF IsChain, TaskCount
  <2>9. (n - 1) + (i + 1) <= TaskCount
    BY <1>2, <1>5, <2>8
  <2> HIDE DEF Closed
  <2>10. Gone(r, i + 1)
    BY <2>6, <2>7, <2>9 DEF Gone
  <2> QED
    BY <2>5, <2>10
<1> QED
  BY <1>4, <1>5

\* The loop dismisses everybody who waits for the semaphore.
LEMMA AllDismissed ==
  ASSUME BlockingBuilds, NEW S, IpcInv(S), k.at = "task"
  PROVE  Dismisses(Dismissed) /\ Dismissed.head[sem] = NULL
<1>1. Safe(k) /\ Fit(k) /\ k \in KernelType /\ k.state[k.cur] = "RUNNING"
  BY RunsTells
<1>2. Dismisses(k)
  BY <1>1, EasesSelf DEF Dismisses
<1>3. Gone(k, 0) /\ TaskCount \in Nat
  <2>1. sem \in List /\ Chained(k, sem, On(k, sem, NULL))
    BY <1>1, SemAssumption, ListsNameTasks DEF Fit, LinksAgree
  <2>2. PICK n \in Nat : \E w \in [1 .. n -> Tcb] : IsChain(k, sem, n, w)
    BY <2>1 DEF Chained
  <2>3. PICK w \in [1 .. n -> Tcb] : IsChain(k, sem, n, w)
    BY <2>2
  <2>4. n <= TaskCount /\ TaskCount \in Nat
    BY <2>3, ChainBound DEF IsChain, TaskCount
  <2>5. n + 0 <= TaskCount
    BY <2>4
  <2> QED
    BY <2>3, <2>4, <2>5 DEF Gone
<1> DEFINE m == TaskCount
<1>4. m = TaskCount /\ m \in Nat
  BY <1>3
<1> HIDE DEF m
<1>5. PICK f : Turns(f, m, "reset", k) /\ Dismissed = f[m]
  BY <1>4, DismissedTurns
<1>6. \A i \in 0 .. m : f[i] = IF i = 0 THEN k ELSE DismissOne(f[i - 1])
  BY <1>4, <1>5 DEF Turns, OneTurn
<1> DEFINE Bad == { i \in 0 .. m : ~(Dismisses(f[i]) /\ Gone(f[i], i)) }
<1>7. ASSUME Bad # {} PROVE FALSE
  <2>1. Bad \in SUBSET Nat
    OBVIOUS
  <2>2. PICK i \in Bad : \A j \in Bad : i <= j
    <3> HIDE DEF Bad
    <3> QED
      BY <1>7, <2>1, LeastNatural
  <2>3. i \in 0 .. m /\ i # 0
    <3>1. 0 \in 0 .. m /\ f[0] = k
      BY <1>4, <1>6
    <3> QED
      BY <1>2, <1>3, <3>1
  <2>4. i - 1 \in 0 .. m /\ i - 1 \in Nat /\ ~(i <= i - 1) /\ (i - 1) + 1 = i
    BY <1>4, <2>3
  <2>5. Dismisses(f[i - 1]) /\ Gone(f[i - 1], i - 1)
    BY <2>2, <2>4
  <2>6. f[i] = DismissOne(f[i - 1])
    BY <1>6, <2>3
  <2>7. Dismisses(f[i]) /\ Gone(f[i], (i - 1) + 1)
    BY <2>4, <2>5, <2>6, OneDismissed
  <2> QED
    BY <2>3, <2>4, <2>7
<1>8. Dismisses(f[m]) /\ Gone(f[m], m)
  <2>1. m \in 0 .. m
    BY <1>4
  <2> QED
    BY <1>7, <2>1
<1>9. f[m].head[sem] = NULL
  <2>1. PICK n \in Nat : \E w \in [1 .. n -> Tcb] :
                           IsChain(f[m], sem, n, w) /\ (n = 0 \/ n + m <= m)
    BY <1>4, <1>8 DEF Gone
  <2>2. n = 0
    BY <1>4, <2>1
  <2> QED
    BY <2>1, <2>2 DEF IsChain
<1> QED
  BY <1>5, <1>8, <1>9

-----------------------------------------------------------------------------
(* Semaphores.                                                             *)

\* The inductive invariant: nobody is blocked while there are units, or in
\* applications that take none.
SemInv ==
  /\ IpcInv({sem})
  /\ units \in 0 .. SemMax
  /\ units > 0 \/ "take" \notin k.build.ops => \A t \in Task : k.state[t] # "BLOCKED"

LEMMA SemInvInit == SemInit => SemInv
<1> SUFFICES ASSUME SemInit PROVE SemInv
  OBVIOUS
<1>1. IpcInv({sem}) /\ \A t \in Task : k.state[t] = "INIT"
  BY InitIpc, InitIdle DEF SemInit
<1> QED
  BY <1>1, SemAssumption DEF SemInit, SemInv

LEMMA SemInvMeans == SemInv => SemSound
<1> SUFFICES ASSUME SemInv PROVE SemSound
  OBVIOUS
<1>1. Sound(k) /\ Fit(k) /\ k \in KernelType /\ WaitersBlocked /\ ListsAgree
  BY SoundWaiters, AgreeingListsAgree DEF SemInv, IpcInv, Safe, Sound
<1>2. NobodyWaitsForUnits
  BY <1>1, EmptyLine, SemAssumption DEF NobodyWaitsForUnits, SemInv
<1> QED
  BY <1>1, <1>2 DEF SemSound, SemTypeOK, ListsAgree, SemInv, IpcInv

\* Nobody starts to wait, and the units are what they were.
LEMMA SemInvStays ==
  ASSUME SemInv, IpcInv({sem})', NoneBlocks(k', k, NULL), k'.build = k.build,
         units' \in 0 .. SemMax,
         units' > 0 => units > 0 \/ \A t \in Task : k'.state[t] # "BLOCKED"
  PROVE  SemInv'
  BY IdleApart DEF SemInv, NoneBlocks

LEMMA SemTakeKeeps ==
  ASSUME BlockingBuilds, SemInv, NEW c \in Task, NEW timeout \in Timeouts, SemTake(c, timeout)
  PROVE  SemInv'
<1>1. CASE units > 0 /\ units' = units - 1 /\ UNCHANGED vars
  <2>1. units' \in 0 .. SemMax
    BY <1>1, SemAssumption DEF SemInv
  <2> QED
    BY <1>1, <2>1, SemInvStays
       DEF SemInv, vars, IpcInv, CallsStand, InBlockingCall, NoneBlocks
<1>2. CASE units = 0 /\ Block(k, c, sem, timeout) /\ UNCHANGED units
  <2>1. IpcInv({sem}) /\ {sem} \in SUBSET WaitList /\ Runs(c) /\ "take" \in k.build.ops
    BY SemAssumption DEF SemInv, SemTake
  <2>2. /\ IpcInv({sem})'
        /\ \E r : /\ Safe(r) /\ Fit(r) /\ Arrives(r, k, c, sem) /\ Quiet(k', r, NULL)
                  /\ r.deadline[c] = Deadline(timeout) /\ r.result[c] = "ETIMEOUT"
    BY <1>2, <2>1, BlockKeeps
  <2>3. k'.build = k.build
    BY <2>2 DEF Arrives, Quiet, SameCalls
  <2> QED
    BY <1>2, <2>1, <2>2, <2>3 DEF SemInv
<1> QED
  BY <1>1, <1>2 DEF SemTake

\* os_sem_give, by a task or by an interrupt handler.
LEMMA SemGiveKeeps ==
  ASSUME BlockingBuilds, SemInv, (\E c \in Task : SemGive(c)) \/ IsrGive
  PROVE  SemInv'
<1>1. /\ IpcInv({sem}) /\ {sem} \in SUBSET WaitList /\ sem \in WaitList /\ k.at = "task"
      /\ "EOK" \in Results
  BY SemAssumption DEF SemInv, SemGive, IsrGive, Runs, Interrupt, Results
<1>2. Fit(k) /\ Safe(k) /\ k.state[k.cur] = "RUNNING"
  BY <1>1, RunsTells
<1>3. CASE k.head[sem] = NULL
  <2>1. Given = k /\ units' = Add(units) /\ units' \in 0 .. SemMax
    BY <1>3, SemAssumption DEF Given, UnitsGiven, Add, SemGive, IsrGive, SemInv
  <2>2. \A t \in Task : k.state[t] # "BLOCKED"
    BY <1>1, <1>2, <1>3, EmptyLine DEF IpcInv, WaitsOn
  <2>3. CASE UNCHANGED vars
    BY <2>1, <2>2, <2>3
       DEF SemInv, vars, IpcInv, CallsStand, InBlockingCall
  <2>4. CASE Interrupt(k)
    <3>1. NoneBlocks(k, k, NULL)
      BY DEF NoneBlocks
    <3>2. IpcInv({sem})' /\ Quiet(k', k, NULL) /\ NoneBlocks(k', k, NULL)
      BY <1>1, <1>2, <2>4, <3>1, WakingKeeps
    <3>3. k'.build = k.build /\ \A t \in Task : k'.state[t] # "BLOCKED"
      BY <2>2, <3>2, IdleApart DEF Quiet, SameCalls, NoneBlocks
    <3> QED
      BY <2>1, <3>2, <3>3, SemInvStays
  <2> QED
    BY <2>1, <2>3, <2>4 DEF SemGive, IsrGive
<1>4. CASE k.head[sem] # NULL
  <2> DEFINE t == k.head[sem]
             s == HandOff(k, sem, "EOK")
  <2>1. t = k.head[sem] /\ s = HandOff(k, sem, "EOK") /\ t # NULL
    BY <1>4
  <2>2. Given = s /\ units' = units
    BY <1>4 DEF Given, UnitsGiven, SemGive, IsrGive
  <2> HIDE DEF t, s
  <2>3. /\ t \in Task /\ k.state[t] = "BLOCKED" /\ k.wait[t] = sem
        /\ Safe(s) /\ Fit(s) /\ s.at = "task" /\ s.cur = k.cur /\ s.state[s.cur] = "RUNNING"
        /\ s # k /\ NoneBlocks(s, k, NULL) /\ \A u \in Task : Lives(k, u) => Lives(s, u)
        /\ Departs(s, k, t, "EOK")
    BY <1>1, <2>1, GivenKeeps
  <2>4. (\E c \in Task : ThenSched(c, s)) \/ Interrupt(SchedFromIrq(s))
    BY <2>2, <2>3 DEF SemGive, IsrGive
  <2>5. IpcInv({sem})' /\ Quiet(k', s, NULL) /\ NoneBlocks(k', k, NULL)
    BY <1>1, <2>3, <2>4, WakingKeeps
  <2>6. k'.build = k.build
    BY <2>3, <2>5 DEF Quiet, Departs, SameCalls
  <2> QED
    BY <2>2, <2>5, <2>6, SemInvStays DEF SemInv
<1> QED
  BY <1>3, <1>4

LEMMA SemResetKeeps ==
  ASSUME BlockingBuilds, SemInv, NEW c \in Task, NEW n \in 0 .. SemMax, SemReset(c, n)
  PROVE  SemInv'
<1>1. /\ IpcInv({sem}) /\ {sem} \in SUBSET WaitList /\ sem \in WaitList /\ k.at = "task"
      /\ units' = n
  BY SemAssumption DEF SemInv, SemReset, Runs
<1>2. Fit(k) /\ Safe(k) /\ k.state[k.cur] = "RUNNING"
  BY <1>1, RunsTells
<1>3. CASE k.head[sem] = NULL
  <2>1. \A t \in Task : k.state[t] # "BLOCKED"
    BY <1>1, <1>2, <1>3, EmptyLine DEF IpcInv, WaitsOn
  <2> QED
    BY <1>1, <1>3, <2>1
       DEF SemReset, SemInv, vars, IpcInv, CallsStand, InBlockingCall
<1>4. CASE k.head[sem] # NULL
  <2> DEFINE s == Dismissed
  <2>1. Dismisses(s) /\ s.head[sem] = NULL
    BY <1>1, AllDismissed
  <2>2. ThenSched(c, s)
    BY <1>4 DEF SemReset
  <2> HIDE DEF s
  <2>3. NoneBlocks(s, k, NULL) /\ \A u \in Task : Lives(k, u) => Lives(s, u)
    BY <2>1 DEF Dismisses, NoneBlocks
  <2>4. IpcInv({sem})' /\ Quiet(k', s, NULL) /\ NoneBlocks(k', k, NULL)
    BY <1>1, <2>1, <2>2, <2>3, WakingKeeps DEF Dismisses
  <2>5. \A t \in Task : s.state[t] # "BLOCKED"
    <3>1. \A t \in Task : s.state[t] = "BLOCKED" => s.wait[t] = sem
      BY <1>1, <2>1 DEF Dismisses, IpcInv, WaitsOn
    <3> QED
      BY <1>1, <2>1, <3>1, EmptyLine DEF Dismisses
  <2>6. k'.build = k.build /\ \A t \in Task : k'.state[t] # "BLOCKED"
    BY <2>1, <2>4, <2>5, IdleApart DEF Dismisses, Quiet, SameCalls
  <2> QED
    BY <1>1, <2>4, <2>6, SemInvStays
<1> QED
  BY <1>3, <1>4

LEMMA SemInvStep == ASSUME BlockingBuilds, SemInv, [SemNext]_semvars PROVE SemInv'
<1>1. IpcInv({sem}) /\ {sem} \in SUBSET WaitList
  BY SemAssumption DEF SemInv
<1>2. CASE ([TasksNext]_vars \/ \E c \in Task : EnterBlocked(c)) /\ UNCHANGED units
  <2>1. IpcInv({sem})' /\ NoneBlocks(k', k, NULL) /\ k'.build = k.build
    <3>1. CASE [TasksNext]_vars
      BY <1>1, <3>1, StepKeeps, StepDeparts DEF Quiet, Departs, SameCalls
    <3>2. CASE \E c \in Task : EnterBlocked(c)
      BY <1>1, <3>2, EnterKeeps, QuietBlocksNone DEF Quiet, SameCalls
    <3> QED
      BY <1>2, <3>1, <3>2
  <2> QED
    BY <1>2, <2>1, SemInvStays DEF SemInv
<1>3. ASSUME NEW c \in Task, SemReturn(c) PROVE SemInv'
  BY <1>1, <1>3, ReturnKeeps DEF SemReturn, SemInv
<1> QED
  BY <1>2, <1>3, SemTakeKeeps, SemGiveKeeps, SemResetKeeps DEF SemNext, SemStep, semvars, vars

LEMMA SemInvariant == ASSUME BlockingBuilds PROVE SemSpec => []SemInv
  BY SemInvInit, SemInvStep, PTL DEF SemSpec

\* No wake-up is lost: nobody waits for a semaphore that has units, whatever timeouts,
\* gives by interrupt handlers and resets come in between, and the wait list, which
\* shares its links with the ready lists, holds exactly the blocked tasks.
THEOREM SemaphoresSound == ASSUME BlockingBuilds PROVE SemSpec => []SemSound
  BY SemInvariant, SemInvMeans, PTL

-----------------------------------------------------------------------------
(* Message queues.                                                         *)

QueueLists == {send_wait, recv_wait}

\* Nobody is blocked in l while cond is false.
OnlyWhile(s, l, cond) == \A t \in Task : s.state[t] = "BLOCKED" /\ s.wait[t] = l => cond

QueueInv ==
  /\ IpcInv(QueueLists)
  /\ q \in RingType(Msg \cup {NULL}) /\ parcel \in [Task -> Msg \cup {NULL}]
  /\ OnlyWhile(k, recv_wait, q.count = 0)
  /\ OnlyWhile(k, send_wait, q.count = Capacity)

LEMMA EmptyRingTypes == EmptyRing(NULL) \in RingType(Msg \cup {NULL}) /\ EmptyRing(NULL).count = 0
  BY RingAssumption DEF EmptyRing, RingType, Slot

LEMMA PushTypes ==
  ASSUME NEW T, NEW r \in RingType(T), NEW m \in T, r.count < Capacity
  PROVE  Push(r, m) \in RingType(T) /\ Push(r, m).count = r.count + 1
<1> DEFINE next == (r.tail + 1) % Capacity
           more == r.count + 1
           filled == [r.buffer EXCEPT ![r.tail] = m]
<1>1. next \in Slot /\ more \in 0 .. Capacity
  BY RingAssumption DEF RingType, Slot
<1>2. filled \in [Slot -> T]
  BY DEF RingType
<1>3. Push(r, m) = [r EXCEPT !.buffer = filled, !.tail = next, !.count = more]
  BY DEF Push, RingType
<1>4. more = r.count + 1
  OBVIOUS
<1> HIDE DEF next, more, filled
<1>5. [r EXCEPT !.buffer = filled, !.tail = next, !.count = more] \in RingType(T)
      /\ [r EXCEPT !.buffer = filled, !.tail = next, !.count = more].count = more
  BY <1>1, <1>2 DEF RingType
<1> QED
  BY <1>3, <1>4, <1>5

LEMMA PopTypes ==
  ASSUME NEW T, NEW r \in RingType(T), r.count > 0
  PROVE  Pop(r) \in RingType(T) /\ Pop(r).count = r.count - 1 /\ Oldest(r) \in T
<1>1. (r.head + 1) % Capacity \in Slot /\ r.count - 1 \in 0 .. Capacity
  BY RingAssumption DEF RingType, Slot
<1> DEFINE next == (r.head + 1) % Capacity
<1>2. Pop(r) = [r EXCEPT !.head = next, !.count = @ - 1]
  BY DEF Pop
<1>3. next \in Slot
  BY <1>1
<1> HIDE DEF next
<1> QED
  BY <1>1, <1>2, <1>3 DEF RingType, Oldest

LEMMA QueueInvInit == QueueInit => QueueInv
<1> SUFFICES ASSUME QueueInit PROVE QueueInv
  OBVIOUS
<1>1. IpcInv(QueueLists) /\ \A t \in Task : k.state[t] = "INIT"
  BY InitIpc, InitIdle DEF QueueInit
<1> QED
  BY <1>1, EmptyRingTypes DEF QueueInit, QueueInv, OnlyWhile

LEMMA QueueInvMeans == QueueInv => QueueSound
<1> SUFFICES ASSUME QueueInv PROVE QueueSound
  OBVIOUS
<1>1. Sound(k) /\ Fit(k) /\ k \in KernelType /\ WaitersBlocked
  BY SoundWaiters DEF QueueInv, IpcInv, Safe, Sound
<1>2. NobodyWaitsForTheQueue
  BY <1>1, EmptyLine, QueueAssumption DEF NobodyWaitsForTheQueue, QueueInv, OnlyWhile
<1> QED
  BY <1>1, <1>2 DEF QueueSound, QueueTypeOK, QueueInv, IpcInv

\* A call of a task or of an interrupt handler that wakes the first waiter of list l.
LEMMA WakeKeeps ==
  ASSUME BlockingBuilds, NEW S \in SUBSET WaitList, IpcInv(S), k.at = "task",
         NEW l \in WaitList, k.head[l] # NULL, NEW result \in Results,
         \/ \E c \in Task : ThenSched(c, HandOff(k, l, result))
         \/ Interrupt(SchedFromIrq(HandOff(k, l, result)))
  PROVE  /\ IpcInv(S)' /\ NoneBlocks(k', k, NULL) /\ k.head[l] \in Task
         /\ k.state[k.head[l]] = "BLOCKED" /\ k.wait[k.head[l]] = l
<1> DEFINE t == k.head[l]
           s == HandOff(k, l, result)
<1>1. t = k.head[l] /\ s = HandOff(k, l, result) /\ t # NULL
  OBVIOUS
<1> HIDE DEF t, s
<1>2. /\ t \in Task /\ k.state[t] = "BLOCKED" /\ k.wait[t] = l
      /\ Safe(s) /\ Fit(s) /\ s.at = "task" /\ s.cur = k.cur /\ s.state[s.cur] = "RUNNING"
      /\ s # k /\ NoneBlocks(s, k, NULL) /\ \A u \in Task : Lives(k, u) => Lives(s, u)
      /\ Departs(s, k, t, result)
  BY <1>1, GivenKeeps
<1>3. (\E c \in Task : ThenSched(c, s)) \/ Interrupt(SchedFromIrq(s))
  BY <1>1
<1>4. IpcInv(S)' /\ NoneBlocks(k', k, NULL)
  BY <1>2, <1>3, WakingKeeps
<1> QED
  BY <1>1, <1>2, <1>4

LEMMA QueueInvStays ==
  ASSUME NEW l, NEW cond, NEW x, NoneBlocks(k', k, x), OnlyWhile(k, l, cond),
         x \in Task => k'.wait[x] # l
  PROVE  OnlyWhile(k', l, cond)
  BY DEF NoneBlocks, OnlyWhile

\* os_queue_send
LEMMA QueueSendKeeps ==
  ASSUME BlockingBuilds, QueueInv, NEW c \in Task, NEW m \in Msg, NEW timeout \in Timeouts,
         QueueSend(c, m, timeout)
  PROVE  QueueInv'
<1>1. /\ IpcInv(QueueLists) /\ QueueLists \in SUBSET WaitList /\ Runs(c) /\ k.at = "task"
      /\ send_wait \in QueueLists /\ recv_wait \in WaitList /\ send_wait # recv_wait
      /\ "EOK" \in Results
  BY QueueAssumption DEF QueueInv, QueueLists, QueueSend, Runs, Results
<1>2. Fit(k)
  BY <1>1, RunsTells
<1>3. CASE SendToWaiter(c, m)
  <2>1. k.head[recv_wait] # NULL /\ ThenSched(c, HandOff(k, recv_wait, "EOK"))
    BY <1>3 DEF SendToWaiter
  <2>2. IpcInv(QueueLists)' /\ NoneBlocks(k', k, NULL)
    BY <1>1, <2>1, WakeKeeps
  <2>3. parcel' \in [Task -> Msg \cup {NULL}]
    BY <1>3 DEF SendToWaiter, QueueInv
  <2> QED
    BY <1>3, <2>2, <2>3, IdleApart, QueueInvStays DEF SendToWaiter, QueueInv
<1>4. CASE SendBuffered(c, m)
  <2>1. \A t \in Task : k.state[t] = "BLOCKED" => k.wait[t] # recv_wait /\ k.wait[t] # send_wait
    <3>1. q.count < Capacity /\ q.count # Capacity
      BY <1>4, RingAssumption DEF SendBuffered, QueueInv, RingType
    <3>2. k.head[recv_wait] = NULL
      BY <1>4 DEF SendBuffered
    <3> QED
      BY <1>1, <1>2, <3>1, <3>2, EmptyLine DEF QueueInv, OnlyWhile
  <2>2. q' \in RingType(Msg \cup {NULL}) /\ parcel' \in [Task -> Msg \cup {NULL}]
    BY <1>4, PushTypes DEF SendBuffered, QueueInv
  <2>3. UNCHANGED vars
    BY <1>4 DEF SendBuffered
  <2> QED
    BY <2>1, <2>2, <2>3
       DEF QueueInv, OnlyWhile, vars, IpcInv, CallsStand, InBlockingCall
<1>5. CASE SendBlocked(c, m, timeout)
  <2>1. Block(k, c, send_wait, timeout)
    BY <1>5 DEF SendBlocked
  <2>2. /\ IpcInv(QueueLists)' /\ NoneBlocks(k', k, c)
        /\ k'.state[c] = "BLOCKED" /\ k'.wait[c] = send_wait
    BY <1>1, <2>1, BlockKeeps
  <2>3. OnlyWhile(k', recv_wait, q.count = 0)
    BY <1>1, <2>2, QueueInvStays DEF QueueInv
  <2>4. OnlyWhile(k', send_wait, q.count = Capacity)
    BY <1>5 DEF SendBlocked, OnlyWhile
  <2>5. parcel' \in [Task -> Msg \cup {NULL}]
    BY <1>5 DEF SendBlocked, QueueInv
  <2> QED
    BY <1>5, <2>2, <2>3, <2>4, <2>5 DEF SendBlocked, QueueInv
<1> QED
  BY <1>3, <1>4, <1>5 DEF QueueSend

LEMMA IsrSendKeeps ==
  ASSUME BlockingBuilds, QueueInv, NEW m \in Msg, IsrSend(m)
  PROVE  QueueInv'
<1>1. /\ IpcInv(QueueLists) /\ QueueLists \in SUBSET WaitList /\ k.at = "task"
      /\ recv_wait \in WaitList /\ "EOK" \in Results
  BY QueueAssumption DEF QueueInv, QueueLists, IsrSend, Interrupt, Results
<1>2. Fit(k) /\ Safe(k) /\ k.state[k.cur] = "RUNNING"
  BY <1>1, RunsTells
<1>3. CASE k.head[recv_wait] # NULL
  <2>1. Interrupt(SchedFromIrq(HandOff(k, recv_wait, "EOK")))
    BY <1>3 DEF IsrSend
  <2>2. IpcInv(QueueLists)' /\ NoneBlocks(k', k, NULL)
    BY <1>1, <1>3, <2>1, WakeKeeps
  <2>3. parcel' \in [Task -> Msg \cup {NULL}]
    BY <1>3 DEF IsrSend, QueueInv
  <2> QED
    BY <1>3, <2>2, <2>3, IdleApart, QueueInvStays DEF IsrSend, QueueInv
<1>4. CASE k.head[recv_wait] = NULL
  <2>1. q.count < Capacity /\ q.count # Capacity
    BY <1>4, RingAssumption DEF IsrSend, QueueInv, RingType
  <2>2. \A t \in Task : k.state[t] = "BLOCKED" => k.wait[t] # recv_wait /\ k.wait[t] # send_wait
    BY <1>1, <1>2, <1>4, <2>1, EmptyLine DEF QueueInv, OnlyWhile
  <2>3. q' \in RingType(Msg \cup {NULL}) /\ UNCHANGED parcel
    BY <1>4, PushTypes DEF IsrSend, QueueInv
  <2>4. Interrupt(k) /\ NoneBlocks(k, k, NULL)
    BY <1>4 DEF IsrSend, NoneBlocks
  <2>5. IpcInv(QueueLists)' /\ NoneBlocks(k', k, NULL)
    BY <1>1, <1>2, <2>4, WakingKeeps
  <2>6. OnlyWhile(k', recv_wait, q'.count = 0) /\ OnlyWhile(k', send_wait, q'.count = Capacity)
    BY <2>2, <2>5, IdleApart DEF NoneBlocks, OnlyWhile
  <2> QED
    BY <2>3, <2>5, <2>6 DEF QueueInv
<1> QED
  BY <1>3, <1>4

\* os_queue_recv
LEMMA QueueRecvKeeps ==
  ASSUME BlockingBuilds, QueueInv, NEW c \in Task, NEW timeout \in Timeouts, QueueRecv(c, timeout)
  PROVE  QueueInv'
<1>1. /\ IpcInv(QueueLists) /\ QueueLists \in SUBSET WaitList /\ Runs(c) /\ k.at = "task"
      /\ send_wait \in WaitList /\ recv_wait \in QueueLists /\ send_wait # recv_wait
      /\ "EOK" \in Results
  BY QueueAssumption DEF QueueInv, QueueLists, QueueRecv, Runs, Results
<1>2. Fit(k) /\ q.count \in 0 .. Capacity /\ Capacity \in Nat \ {0}
  BY <1>1, RunsTells, RingAssumption DEF QueueInv, RingType
<1>3. CASE q.count > 0
  <2>1. \A t \in Task : k.state[t] = "BLOCKED" => k.wait[t] # recv_wait
    BY <1>3 DEF QueueInv, OnlyWhile
  <2>2. parcel' = [parcel EXCEPT ![c] = Oldest(q)] /\ q' = Refilled
    BY <1>3 DEF QueueRecv
  <2>3. /\ Pop(q) \in RingType(Msg \cup {NULL}) /\ Pop(q).count = q.count - 1
        /\ Oldest(q) \in Msg \cup {NULL}
    BY <1>3, PopTypes DEF QueueInv
  <2>4. parcel' \in [Task -> Msg \cup {NULL}]
    BY <2>2, <2>3 DEF QueueInv
  <2>5. CASE k.head[send_wait] = NULL
    <3>1. \A t \in Task : k.state[t] = "BLOCKED" => k.wait[t] # send_wait
      BY <1>1, <1>2, <2>5, EmptyLine
    <3>2. UNCHANGED vars /\ q' = Pop(q)
      BY <1>3, <2>2, <2>5 DEF QueueRecv, Refilled
    <3> QED
      BY <2>1, <2>3, <2>4, <3>1, <3>2
         DEF QueueInv, OnlyWhile, vars, IpcInv, CallsStand, InBlockingCall
  <2>6. CASE k.head[send_wait] # NULL
    <3>1. ThenSched(c, HandOff(k, send_wait, "EOK"))
      BY <1>3, <2>6 DEF QueueRecv
    <3>2. /\ IpcInv(QueueLists)' /\ NoneBlocks(k', k, NULL) /\ k.head[send_wait] \in Task
      BY <1>1, <2>6, <3>1, WakeKeeps
    <3>3. parcel[k.head[send_wait]] \in Msg \cup {NULL}
      BY <3>2 DEF QueueInv
    <3>4. q' \in RingType(Msg \cup {NULL}) /\ q'.count = q.count
      <4>1. q' = Push(Pop(q), parcel[k.head[send_wait]])
        BY <2>2, <2>6 DEF Refilled
      <4>2. Pop(q).count < Capacity
        BY <1>2, <2>3
      <4>3. q' \in RingType(Msg \cup {NULL}) /\ q'.count = Pop(q).count + 1
        BY <2>3, <3>3, <4>1, <4>2, PushTypes
      <4> QED
        BY <1>2, <2>3, <4>3
    <3>5. OnlyWhile(k', recv_wait, q'.count = 0) /\ OnlyWhile(k', send_wait, q'.count = Capacity)
      BY <3>2, <3>4, IdleApart, QueueInvStays DEF QueueInv
    <3> QED
      BY <2>4, <3>2, <3>4, <3>5 DEF QueueInv
  <2> QED
    BY <2>5, <2>6
<1>4. CASE q.count = 0 /\ Block(k, c, recv_wait, timeout) /\ UNCHANGED <<q, parcel>>
  <2>1. /\ IpcInv(QueueLists)' /\ NoneBlocks(k', k, c)
        /\ k'.state[c] = "BLOCKED" /\ k'.wait[c] = recv_wait
    BY <1>1, <1>4, BlockKeeps
  <2>2. OnlyWhile(k', send_wait, q.count = Capacity)
    BY <1>1, <2>1, QueueInvStays DEF QueueInv
  <2>3. OnlyWhile(k', recv_wait, q.count = 0)
    BY <1>4 DEF OnlyWhile
  <2> QED
    BY <1>4, <2>1, <2>2, <2>3 DEF QueueInv
<1> QED
  BY <1>3, <1>4 DEF QueueRecv

LEMMA QueueInvStep == ASSUME BlockingBuilds, QueueInv, [QueueNext]_queuevars PROVE QueueInv'
<1>1. IpcInv(QueueLists) /\ QueueLists \in SUBSET WaitList
  BY QueueAssumption DEF QueueInv, QueueLists
<1>2. CASE ([TasksNext]_vars \/ \E c \in Task : EnterBlocked(c)) /\ UNCHANGED <<q, parcel>>
  <2>1. IpcInv(QueueLists)' /\ NoneBlocks(k', k, NULL)
    <3>1. CASE [TasksNext]_vars
      BY <1>1, <3>1, StepKeeps
    <3>2. CASE \E c \in Task : EnterBlocked(c)
      BY <1>1, <3>2, EnterKeeps, QuietBlocksNone DEF Quiet
    <3> QED
      BY <1>2, <3>1, <3>2
  <2> QED
    BY <1>2, <2>1, IdleApart, QueueInvStays DEF QueueInv
<1>3. ASSUME NEW c \in Task, QueueReturn(c) PROVE QueueInv'
  BY <1>1, <1>3, ReturnKeeps DEF QueueReturn, QueueInv, OnlyWhile
<1>4. Sender \subseteq Task /\ Receiver \subseteq Task
  BY QueueAssumption
<1> QED
  BY <1>2, <1>3, <1>4, QueueSendKeeps, IsrSendKeeps, QueueRecvKeeps
     DEF QueueNext, QueueStep, queuevars, vars

LEMMA QueueInvariant == ASSUME BlockingBuilds PROVE QueueSpec => []QueueInv
  BY QueueInvInit, QueueInvStep, PTL DEF QueueSpec

\* Nobody waits for what is there: no receiver while the queue holds a message and no
\* sender while it has room, whatever timeouts and sends by interrupt handlers come in
\* between, and the two wait lists hold exactly the blocked tasks.
THEOREM QueuesSound == ASSUME BlockingBuilds PROVE QueueSpec => []QueueSound
  BY QueueInvariant, QueueInvMeans, PTL

-----------------------------------------------------------------------------
(* Event flags: the loop of os_event_set.                                  *)

LEMMA LoopTurns ==
  ASSUME NEW set, NEW m, m = TaskCount, m \in Nat
  PROVE  \E f : Turns(f, m, "set", LoopStart(set)) /\ LoopEnd(set) = f[m]
<1> DEFINE after == CHOOSE f : Turns(f, m, "set", LoopStart(set))
<1>1. Turns(after, m, "set", LoopStart(set))
  BY TurnsExist
<1>2. LoopEnd(set) = after[m]
  BY DEF LoopEnd, Turns, LookAtOne, OneTurn
<1> QED
  BY <1>1, <1>2

\* What is not satisfied is not with fewer flags.
LEMMA FewerSatisfyLess ==
  ASSUME NEW f, NEW g, g \subseteq f, NEW r, ~Satisfied(f, r)
  PROVE  ~Satisfied(g, r)
  BY DEF Satisfied

LEMMA RequestAsks ==
  ASSUME NEW r \in Request
  PROVE  r.flags # {}
  BY DEF Request

\* The answer to a request: some of its flags, or all.
Answers(r, told) == told # {} /\ told \subseteq r.flags /\ (r.all => told = r.flags)

\* Task t waited when the loop began and does no more.
LeftBy(s, t) == k.state[t] = "BLOCKED" /\ s.k.state[t] # "BLOCKED"

\* What the loop leaves after any number of turns.
LooksAfter(s) ==
  /\ s = [k |-> s.k, flags |-> s.flags, want |-> s.want, seen |-> s.seen, task |-> s.task]
  /\ Safe(s.k) /\ Fit(s.k) /\ s.k.at = "task" /\ s.k.cur = k.cur
  /\ s.k.state[s.k.cur] = "RUNNING" /\ s.k.build = k.build /\ Eases(s.k, k)
  /\ s.flags \in SUBSET Bit /\ s.seen \in [Task -> SUBSET Bit]
  /\ s.want \in [Task -> Request \cup {NoRequest}]
  /\ \A u \in Task :
       /\ Lives(k, u) => Lives(s.k, u)
       /\ s.k.state[u] = "BLOCKED" => /\ k.state[u] = "BLOCKED" /\ s.k.wait[u] = k.wait[u]
                                      /\ s.want[u] = want[u]

\* Who has left was told what it sought for, and flags it cleared are gone.
ToldRight(s) ==
  \A t \in Task : LeftBy(s, t) =>
    /\ Answers(want[t], s.seen[t])
    /\ want[t].clear =>
         /\ s.seen[t] \cap s.flags = {}
         /\ \A u \in Task \ {t} : LeftBy(s, u) /\ want[u].clear => s.seen[t] \cap s.seen[u] = {}

\* The loop has come to place p of the list of those who still wait.
StandsAt(s, n, w, p) ==
  /\ IsChain(s.k, event, n, w)
  /\ s.task = IF p = n + 1 THEN NULL ELSE w[p]
  /\ \A j \in 1 .. n : j < p => ~Satisfied(s.flags, s.want[w[j]])

\* i tasks were looked at, or all.
LookedAt(s, i) ==
  \E n \in Nat : \E w \in [1 .. n -> Tcb] : \E p \in 1 .. n + 1 :
    StandsAt(s, n, w, p) /\ (p = n + 1 \/ (n + 1 - p) + i <= TaskCount)

\* One turn.
LEMMA OneLookedAt ==
  ASSUME NEW s, LooksAfter(s), ToldRight(s), NEW i \in Nat, LookedAt(s, i),
         \A t \in Task : k.state[t] = "BLOCKED" => k.wait[t] = event /\ want[t] \in Request,
         NEW r, r = LookAtOne(s)
  PROVE  LooksAfter(r) /\ ToldRight(r) /\ LookedAt(r, i + 1)
<1>1. PICK n \in Nat : \E w \in [1 .. n -> Tcb] : \E p \in 1 .. n + 1 :
        StandsAt(s, n, w, p) /\ (p = n + 1 \/ (n + 1 - p) + i <= TaskCount)
  BY DEF LookedAt
<1>2. PICK w \in [1 .. n -> Tcb] : \E p \in 1 .. n + 1 :
        StandsAt(s, n, w, p) /\ (p = n + 1 \/ (n + 1 - p) + i <= TaskCount)
  BY <1>1
<1>3. PICK p \in 1 .. n + 1 :
        StandsAt(s, n, w, p) /\ (p = n + 1 \/ (n + 1 - p) + i <= TaskCount)
  BY <1>2
<1>4. CASE p = n + 1
  <2>1. r = s
    BY <1>3, <1>4 DEF LookAtOne, StandsAt
  <2> QED
    BY <1>3, <1>4, <2>1 DEF LookedAt
<1>5. CASE p # n + 1
  <2> DEFINE t == s.task
             x == s.k.next[t]
             sought == s.want[t]
  <2>1. p \in 1 .. n /\ t = w[p] /\ t \in Tcb /\ t # NULL /\ r = Turn(s)
    <3>1. p \in 1 .. n
      BY <1>5
    <3>2. t = w[p] /\ t \in Tcb
      BY <1>3, <1>5, <3>1 DEF StandsAt
    <3> QED
      BY <3>1, <3>2, IdleApart DEF LookAtOne
  <2>2. t \in Task /\ s.k.state[t] = "BLOCKED" /\ s.k.wait[t] = event
    <3>1. s.k \in KernelType /\ event \in List /\ event \notin Prio
          /\ Chained(s.k, event, On(s.k, event, NULL))
      BY EventAssumption, ListsNameTasks, ListAssumption DEF LooksAfter, Fit, LinksAgree
    <3>2. On(s.k, event, NULL) = { w[j] : j \in 1 .. n }
      BY <1>3, <3>1, ChainIsOn DEF StandsAt
    <3> QED
      BY <2>1, <3>1, <3>2 DEF On
  <2>3. sought = want[t] /\ sought \in Request /\ k.state[t] = "BLOCKED"
    BY <2>2 DEF LooksAfter
  <2>4. x = IF p + 1 = n + 1 THEN NULL ELSE w[p + 1]
    BY <1>3, <2>1 DEF StandsAt, IsChain
  <2>5. \A a, b \in 1 .. n : w[a] = w[b] => a = b
    BY <1>3 DEF StandsAt, IsChain
  <2>6. TaskCount \in Nat
    BY <2>5, ChainBound DEF TaskCount
  <2>7. t = s.task /\ x = s.k.next[t] /\ sought = s.want[t]
    OBVIOUS
  <2> HIDE DEF t, x, sought
  <2>8. CASE ~Satisfied(s.flags, sought)
    <3>1. r = [s EXCEPT !.task = x]
      BY <2>1, <2>7, <2>8 DEF Turn
    <3>2. /\ r = [k |-> r.k, flags |-> r.flags, want |-> r.want, seen |-> r.seen, task |-> r.task]
          /\ r.k = s.k /\ r.flags = s.flags /\ r.want = s.want /\ r.seen = s.seen /\ r.task = x
      BY <3>1 DEF LooksAfter
    <3>3. LooksAfter(r) /\ ToldRight(r)
      <4>1. LooksAfter(r)
        BY <3>2 DEF LooksAfter
      <4>2. ToldRight(r)
        BY <3>2 DEF ToldRight, LeftBy
      <4> QED
        BY <4>1, <4>2
    <3>4. p + 1 \in 1 .. n + 1 /\ StandsAt(r, n, w, p + 1)
      <4>1. \A j \in 1 .. n : j < p + 1 => ~Satisfied(r.flags, r.want[w[j]])
        <5> SUFFICES ASSUME NEW j \in 1 .. n, j < p + 1 PROVE ~Satisfied(r.flags, r.want[w[j]])
          OBVIOUS
        <5>1. CASE j = p
          BY <2>1, <2>7, <2>8, <3>2, <5>1
        <5>2. CASE j # p
          <6>1. j < p
            BY <2>1, <5>2
          <6> QED
            BY <1>3, <3>2, <6>1 DEF StandsAt
        <5> QED
          BY <5>1, <5>2
      <4> QED
        BY <1>3, <2>1, <2>4, <3>2, <4>1 DEF StandsAt
    <3>5. p + 1 = n + 1 \/ (n + 1 - (p + 1)) + (i + 1) <= TaskCount
      BY <1>3, <1>5, <2>1, <2>6
    <3> QED
      BY <3>3, <3>4, <3>5 DEF LookedAt
  <2>9. CASE Satisfied(s.flags, sought)
    <3> DEFINE told == Actual(s.flags, sought)
               o == Woken(s.k, t)
    <3>1. /\ r.k = o /\ r.flags = Left(s.flags, sought) /\ r.want = [s.want EXCEPT ![t] = NoRequest]
          /\ r.seen = [s.seen EXCEPT ![t] = told] /\ r.task = x
          /\ r = [k |-> r.k, flags |-> r.flags, want |-> r.want, seen |-> r.seen, task |-> r.task]
      BY <2>1, <2>7, <2>9 DEF Turn
    <3>2. told \subseteq s.flags /\ r.flags \subseteq s.flags
          /\ (sought.clear => told \cap r.flags = {}) /\ Answers(sought, told)
      <4>1. sought.flags # {}
        BY <2>3, RequestAsks
      <4> QED
        BY <2>9, <3>1, <4>1 DEF Left, Actual, Satisfied, Answers
    <3>3. told = Actual(s.flags, sought) /\ o = Woken(s.k, t)
      OBVIOUS
    <3> HIDE DEF told, o
    <3>4. /\ Fit(o) /\ o.at = s.k.at /\ o.cur = s.k.cur /\ o.build = s.k.build
          /\ o.state = [s.k.state EXCEPT ![t] = "READY"] /\ Departs(o, s.k, t, "EOK")
          /\ Still(o, s.k)
      <4>1. event # NULL /\ "EOK" \in Results
        BY EventAssumption, ListsNameTasks, SchedAssumption DEF Results
      <4>2. o = Wake(ListRemove(s.k, event, t), t, "EOK")
        BY <3>3 DEF Woken
      <4>3. Fit(s.k) /\ t \in Task /\ s.k.state[t] = "BLOCKED" /\ s.k.wait[t] = event
        BY <2>2 DEF LooksAfter
      <4>4. o = Wake(ListRemove(s.k, s.k.wait[t], t), t, "EOK")
        BY <4>2, <4>3
      <4> QED
        BY <4>1, <4>3, <4>4, WakeDeparts
    <3>5. s.k \in KernelType /\ s.k.cur \in Tcb
      BY DEF LooksAfter, Safe
    <3>6. o.state[t] = "READY" /\ o.state[o.cur] = "RUNNING"
          /\ \A u \in Task \ {t} : o.state[u] = s.k.state[u]
      BY <2>1, <2>2, <3>4, <3>5, IdleApart DEF LooksAfter, KernelType
    <3>7. Safe(o)
      <4>1. \A u \in Tcb : o.state[u] = "RUNNING" => s.k.state[u] = "RUNNING"
        BY <2>1, <3>4, <3>5 DEF KernelType
      <4> QED
        BY <3>4, <4>1 DEF LooksAfter, Safe, Fit
    <3>8. LooksAfter(r)
      <4>1. r.flags \in SUBSET Bit /\ r.seen \in [Task -> SUBSET Bit]
        <5>1. s.flags \in SUBSET Bit /\ s.seen \in [Task -> SUBSET Bit]
          BY DEF LooksAfter
        <5>2. r.flags \in SUBSET Bit /\ told \in SUBSET Bit
          BY <3>2, <5>1
        <5> QED
          BY <3>1, <5>1, <5>2
      <4>2. r.want \in [Task -> Request \cup {NoRequest}]
        <5> DEFINE requests == Request \cup {NoRequest}
        <5>1. s.want \in [Task -> requests] /\ NoRequest \in requests
          BY DEF LooksAfter
        <5> HIDE DEF requests
        <5>2. [s.want EXCEPT ![t] = NoRequest] \in [Task -> requests]
          BY <5>1
        <5> QED
          BY <3>1, <5>2 DEF requests
      <4>3. ASSUME NEW u \in Task
            PROVE  /\ Lives(k, u) => Lives(o, u)
                   /\ o.state[u] = "BLOCKED" => /\ k.state[u] = "BLOCKED" /\ o.wait[u] = k.wait[u]
                                                /\ r.want[u] = want[u]
        <5>1. CASE u = t
          BY <3>4, <3>6, <5>1 DEF Departs
        <5>2. CASE u # t
          BY <3>1, <3>4, <5>2 DEF Departs, SameCalls, LooksAfter
        <5> QED
          BY <5>1, <5>2
      <4>4. Eases(o, k)
        <5>1. Eases(o, s.k)
          BY <2>2, <3>4, DepartsEases
        <5> QED
          BY <5>1, EasesTwice DEF LooksAfter
      <4> QED
        BY <3>1, <3>4, <3>6, <3>7, <4>1, <4>2, <4>3, <4>4 DEF LooksAfter
    <3>9. \A u \in Task : LeftBy(r, u) <=> u = t \/ LeftBy(s, u)
      BY <2>2, <2>3, <3>1, <3>6 DEF LeftBy
    <3>10. r.seen[t] = told /\ \A u \in Task \ {t} : r.seen[u] = s.seen[u]
      BY <2>2, <3>1 DEF LooksAfter
    <3>11. ~LeftBy(s, t)
      BY <2>2 DEF LeftBy
    <3>12. ToldRight(r)
      <4>1. ASSUME NEW a \in Task, LeftBy(r, a)
            PROVE  /\ Answers(want[a], r.seen[a])
                   /\ want[a].clear => r.seen[a] \cap r.flags = {}
        <5>1. CASE a = t
          BY <2>3, <3>2, <3>10, <5>1
        <5>2. CASE a # t
          BY <3>2, <3>9, <3>10, <4>1, <5>2 DEF ToldRight
        <5> QED
          BY <5>1, <5>2
      <4>2. ASSUME NEW a \in Task, LeftBy(r, a), want[a].clear,
                   NEW b \in Task \ {a}, LeftBy(r, b), want[b].clear
            PROVE  r.seen[a] \cap r.seen[b] = {}
        <5>1. \A u \in Task : u # t /\ LeftBy(r, u) /\ want[u].clear => r.seen[u] \cap told = {}
          BY <3>2, <3>9, <3>10 DEF ToldRight
        <5>2. CASE a = t \/ b = t
          BY <3>10, <4>2, <5>1, <5>2
        <5>3. CASE a # t /\ b # t
          BY <3>9, <3>10, <4>2, <5>3 DEF ToldRight
        <5> QED
          BY <5>2, <5>3
      <4> QED
        BY <4>1, <4>2 DEF ToldRight
    <3>13. PICK j \in 1 .. n : w[j] = t /\ IsChain(o, event, n - 1, Closed(w, n, j))
      BY <1>3, <2>2, <3>4, EventAssumption DEF Departs, StandsAt
    <3> DEFINE v == Closed(w, n, p)
    <3>14. j = p
      BY <2>1, <2>5, <3>13
    <3>15. /\ n - 1 \in Nat /\ v \in [1 .. n - 1 -> Tcb] /\ p \in 1 .. (n - 1) + 1
           /\ \A a \in 1 .. n - 1 : v[a] = IF a < p THEN w[a] ELSE w[a + 1]
      BY <2>1 DEF Closed
    <3>16. IsChain(o, event, n - 1, v)
      BY <3>13, <3>14
    <3> HIDE DEF v
    <3>17. StandsAt(r, n - 1, v, p)
      <4>1. x = IF p = (n - 1) + 1 THEN NULL ELSE v[p]
        BY <2>1, <2>4, <3>15
      <4>2. ASSUME NEW a \in 1 .. n - 1, a < p PROVE ~Satisfied(r.flags, r.want[v[a]])
        <5>1. v[a] = w[a] /\ a \in 1 .. n /\ a # p
          BY <2>1, <3>15, <4>2
        <5>2. ~Satisfied(s.flags, s.want[w[a]]) /\ w[a] # t
          BY <1>3, <2>1, <2>5, <4>2, <5>1 DEF StandsAt
        <5>3. r.want[w[a]] = s.want[w[a]]
          BY <3>1, <5>2 DEF LooksAfter
        <5> QED
          BY <3>2, <5>1, <5>2, <5>3, FewerSatisfyLess
      <4> QED
        BY <3>1, <3>16, <4>1, <4>2 DEF StandsAt
    <3>18. p = (n - 1) + 1 \/ ((n - 1) + 1 - p) + (i + 1) <= TaskCount
      BY <1>3, <1>5, <2>1, <2>6
    <3> QED
      BY <3>8, <3>12, <3>15, <3>17, <3>18 DEF LookedAt
  <2> QED
    BY <2>8, <2>9
<1> QED
  BY <1>4, <1>5

-----------------------------------------------------------------------------
(* Event flags: the invariant.                                             *)

\* Nobody is blocked whose request is satisfied.
EventInv ==
  /\ IpcInv({event})
  /\ flags \in SUBSET Bit /\ seen \in [Task -> SUBSET Bit]
  /\ want \in [Task -> Request \cup {NoRequest}]
  /\ \A t \in Task : k.state[t] = "BLOCKED" => want[t] \in Request /\ ~Satisfied(flags, want[t])

\* The whole loop: those whom it leaves blocked are not satisfied.
LEMMA AllLookedAt ==
  ASSUME BlockingBuilds, EventInv, k.at = "task", NEW set \in Sets, NEW e, e = LoopEnd(set)
  PROVE  /\ LooksAfter(e) /\ ToldRight(e)
         /\ \A t \in Task : e.k.state[t] = "BLOCKED" => ~Satisfied(e.flags, e.want[t])
<1>1. /\ Safe(k) /\ Fit(k) /\ k \in KernelType /\ k.state[k.cur] = "RUNNING"
      /\ event \in List /\ event \notin Prio /\ event # NULL
  BY RunsTells, EventAssumption, ListsNameTasks, ListAssumption, SchedAssumption DEF EventInv
<1>2. \A t \in Task : k.state[t] = "BLOCKED" => k.wait[t] = event /\ want[t] \in Request
  BY DEF EventInv, IpcInv, WaitsOn
<1> DEFINE start == LoopStart(set)
<1>3. /\ start = [k |-> start.k, flags |-> start.flags, want |-> start.want,
                  seen |-> start.seen, task |-> start.task]
      /\ start.k = k /\ start.flags = flags \cup set /\ start.want = want /\ start.seen = seen
      /\ start.task = k.head[event] /\ start = LoopStart(set)
  BY DEF LoopStart
<1> HIDE DEF start
<1>4. LooksAfter(start) /\ ToldRight(start)
  <2>1. flags \cup set \in SUBSET Bit
    BY EventAssumption DEF EventInv
  <2> QED
    BY <1>1, <1>3, <2>1, EasesSelf DEF LooksAfter, ToldRight, LeftBy, EventInv
<1>5. LookedAt(start, 0) /\ TaskCount \in Nat
  <2>1. PICK n \in Nat : \E w \in [1 .. n -> Tcb] : IsChain(k, event, n, w)
    BY <1>1 DEF Fit, LinksAgree, Chained
  <2>2. PICK w \in [1 .. n -> Tcb] : IsChain(k, event, n, w)
    BY <2>1
  <2>3. n <= TaskCount /\ TaskCount \in Nat
    BY <2>2, ChainBound DEF IsChain, TaskCount
  <2>4. 1 \in 1 .. n + 1 /\ (n + 1 - 1) + 0 <= TaskCount /\ (1 = n + 1 <=> n = 0)
    BY <2>3
  <2>5. StandsAt(start, n, w, 1)
    <3>1. k.head[event] = IF n = 0 THEN NULL ELSE w[1]
      BY <2>2 DEF IsChain
    <3>2. \A j \in 1 .. n : ~(j < 1)
      OBVIOUS
    <3> QED
      BY <1>3, <2>2, <2>4, <3>1, <3>2 DEF StandsAt
  <2> QED
    BY <2>3, <2>4, <2>5 DEF LookedAt
<1> DEFINE m == TaskCount
<1>6. m = TaskCount /\ m \in Nat
  BY <1>5
<1> HIDE DEF m
<1>7. PICK f : Turns(f, m, "set", start) /\ e = f[m]
  BY <1>3, <1>6, LoopTurns
<1>8. \A i \in 0 .. m : f[i] = IF i = 0 THEN start ELSE LookAtOne(f[i - 1])
  BY <1>6, <1>7 DEF Turns, OneTurn
<1> DEFINE Good(i) == LooksAfter(f[i]) /\ ToldRight(f[i]) /\ LookedAt(f[i], i)
           Bad == { i \in 0 .. m : ~Good(i) }
<1>9. ASSUME Bad # {} PROVE FALSE
  <2>1. Bad \in SUBSET Nat
    OBVIOUS
  <2>2. PICK i \in Bad : \A j \in Bad : i <= j
    <3> HIDE DEF Bad
    <3> QED
      BY <1>9, <2>1, LeastNatural
  <2>3. i \in 0 .. m /\ i # 0
    <3>1. 0 \in 0 .. m /\ f[0] = start
      BY <1>6, <1>8
    <3> QED
      BY <1>4, <1>5, <3>1
  <2>4. i - 1 \in 0 .. m /\ i - 1 \in Nat /\ ~(i <= i - 1) /\ (i - 1) + 1 = i
    BY <1>6, <2>3
  <2>5. Good(i - 1)
    BY <2>2, <2>4
  <2>6. f[i] = LookAtOne(f[i - 1])
    BY <1>8, <2>3
  <2>7. LooksAfter(f[i]) /\ ToldRight(f[i]) /\ LookedAt(f[i], (i - 1) + 1)
    BY <1>2, <2>4, <2>5, <2>6, OneLookedAt
  <2> QED
    BY <2>3, <2>4, <2>7
<1>10. LooksAfter(e) /\ ToldRight(e) /\ LookedAt(e, m)
  <2>1. m \in 0 .. m
    BY <1>6
  <2> QED
    BY <1>7, <1>9, <2>1
<1>11. PICK n \in Nat : \E w \in [1 .. n -> Tcb] : \E p \in 1 .. n + 1 :
         StandsAt(e, n, w, p) /\ (p = n + 1 \/ (n + 1 - p) + m <= m)
  BY <1>6, <1>10 DEF LookedAt
<1>12. PICK w \in [1 .. n -> Tcb] : \E p \in 1 .. n + 1 :
         StandsAt(e, n, w, p) /\ (p = n + 1 \/ (n + 1 - p) + m <= m)
  BY <1>11
<1>13. StandsAt(e, n, w, n + 1)
  BY <1>6, <1>12
<1>14. ASSUME NEW t \in Task, e.k.state[t] = "BLOCKED" PROVE ~Satisfied(e.flags, e.want[t])
  <2>1. e.k.wait[t] = event
    BY <1>2, <1>10, <1>14 DEF LooksAfter
  <2>2. t \in On(e.k, event, NULL)
    BY <1>1, <1>14, <2>1, IdleApart DEF On
  <2>3. On(e.k, event, NULL) = { w[j] : j \in 1 .. n }
    <3>1. e.k \in KernelType /\ Chained(e.k, event, On(e.k, event, NULL))
      BY <1>1, <1>10 DEF LooksAfter, Fit, LinksAgree
    <3>2. IsChain(e.k, event, n, w)
      BY <1>13 DEF StandsAt
    <3> QED
      BY <1>1, <3>1, <3>2, ChainIsOn
  <2>4. PICK j \in 1 .. n : w[j] = t
    BY <2>2, <2>3
  <2>5. j < n + 1
    BY <2>4
  <2> QED
    BY <1>13, <2>4, <2>5 DEF StandsAt
<1> QED
  BY <1>10, <1>14

-----------------------------------------------------------------------------
(* Event flags: the steps.                                                 *)

\* The step that AnswersFitRequests is about.
Answered ==
  LET woken == { t \in Task : k.wait[t] = event /\ Outcome(t) = "waiting" /\ Outcome(t)' = "EOK" }
  IN \A t \in woken :
       /\ seen'[t] # {} /\ seen'[t] \subseteq want[t].flags
       /\ want[t].all => seen'[t] = want[t].flags
       /\ \A u \in woken : ClearedFlagsGoToOne(t, u)

\* Who was told "EOK" waited, and does no more.
LEMMA WokenLeft ==
  ASSUME NEW t \in Task, Outcome(t) = "waiting", Outcome(t)' = "EOK", k.result[t] \in Results
  PROVE  k.state[t] = "BLOCKED" /\ k'.state[t] # "BLOCKED" /\ k'.result[t] = "EOK"
  BY DEF Outcome, InBlockingCall, Results

\* A step after which nobody else's wait has ended, unless it timed out.
LEMMA NobodyAnswered ==
  ASSUME k \in KernelType, \A t \in Task : k.state[t] = "BLOCKED" =>
           k'.state[t] = "BLOCKED" \/ k'.result[t] # "EOK"
  PROVE  Answered
<1>1. \A t \in Task : ~(Outcome(t) = "waiting" /\ Outcome(t)' = "EOK")
  BY IdleApart, WokenLeft DEF KernelType
<1> QED
  BY <1>1 DEF Answered

LEMMA EventInvInit == EventInit => EventInv
<1> SUFFICES ASSUME EventInit PROVE EventInv
  OBVIOUS
<1>1. IpcInv({event}) /\ \A t \in Task : k.state[t] = "INIT"
  BY InitIpc, InitIdle DEF EventInit
<1>2. want \in [Task -> Request \cup {NoRequest}] /\ seen \in [Task -> SUBSET Bit]
  <2> DEFINE requests == Request \cup {NoRequest}
  <2>1. NoRequest \in requests
    OBVIOUS
  <2> HIDE DEF requests
  <2>2. want \in [Task -> requests]
    BY <2>1 DEF EventInit
  <2> QED
    BY <2>2 DEF requests, EventInit
<1> QED
  BY <1>1, <1>2 DEF EventInit, EventInv

LEMMA EventInvMeans == EventInv => EventSound
<1> SUFFICES ASSUME EventInv PROVE EventSound
  OBVIOUS
<1>1. Sound(k) /\ k \in KernelType /\ WaitersBlocked
  BY SoundWaiters DEF EventInv, IpcInv, Safe
<1> QED
  BY <1>1 DEF EventSound, EventTypeOK, NobodyWaitsForSetFlags, EventInv, IpcInv

\* The call of a task or of an interrupt handler that sets flags, with a loop that
\* ended as e.
LEMMA SettingKeeps ==
  ASSUME BlockingBuilds, EventInv, k.at = "task", NEW set \in Sets, NEW e, e = LoopEnd(set),
         Flagged(e),
         \/ \E c \in Task : ThenSched(c, e.k)
         \/ Interrupt(e.k)
         \/ Interrupt(SchedFromIrq(e.k))
         \/ e.k = k /\ UNCHANGED vars
  PROVE  EventInv' /\ Answered
<1>1. /\ IpcInv({event}) /\ {event} \in SUBSET WaitList /\ k \in KernelType
  BY EventAssumption, RunsTells DEF EventInv
<1>2. /\ LooksAfter(e) /\ ToldRight(e)
      /\ \A t \in Task : e.k.state[t] = "BLOCKED" => ~Satisfied(e.flags, e.want[t])
  BY AllLookedAt
<1>3. NoneBlocks(e.k, k, NULL) /\ \A t \in Task : Lives(k, t) => Lives(e.k, t)
  BY <1>2 DEF LooksAfter, NoneBlocks
<1>4. IpcInv({event})' /\ SameCalls(k', e.k, NULL)
  <2>1. CASE e.k = k /\ UNCHANGED vars
    BY <1>1, <2>1 DEF vars, IpcInv, CallsStand, InBlockingCall, SameCalls
  <2>2. CASE (\E c \in Task : ThenSched(c, e.k)) \/ Interrupt(e.k) \/ Interrupt(SchedFromIrq(e.k))
    <3>1. Safe(e.k) /\ Fit(e.k) /\ e.k.at = "task" /\ e.k.state[e.k.cur] = "RUNNING"
      BY <1>2 DEF LooksAfter
    <3>2. IpcInv({event})' /\ Quiet(k', e.k, NULL)
      BY <1>1, <1>3, <2>2, <3>1, WakingKeeps
    <3> QED
      BY <3>2 DEF Quiet
  <2> QED
    BY <2>1, <2>2
<1>5. \A t \in Task : k'.state[t] = "BLOCKED" <=> e.k.state[t] = "BLOCKED"
  BY <1>4, IdleApart DEF SameCalls
<1>6. flags' = e.flags /\ want' = e.want /\ seen' = e.seen
  BY DEF Flagged
<1>7. EventInv'
  <2>1. \A t \in Task : k'.state[t] = "BLOCKED" => want'[t] \in Request /\ ~Satisfied(flags', want'[t])
    BY <1>2, <1>5, <1>6 DEF LooksAfter, EventInv
  <2>2. flags' \in SUBSET Bit /\ seen' \in [Task -> SUBSET Bit]
        /\ want' \in [Task -> Request \cup {NoRequest}]
    BY <1>2, <1>6 DEF LooksAfter
  <2> QED
    BY <1>4, <2>1, <2>2 DEF EventInv
<1>8. ASSUME NEW t \in Task, Outcome(t) = "waiting", Outcome(t)' = "EOK" PROVE LeftBy(e, t)
  BY <1>1, <1>5, <1>8, IdleApart, WokenLeft DEF LeftBy, KernelType
<1>9. Answered
  <2>1. ASSUME NEW t \in Task, LeftBy(e, t)
        PROVE  /\ seen'[t] # {} /\ seen'[t] \subseteq want[t].flags
               /\ want[t].all => seen'[t] = want[t].flags
               /\ \A u \in Task : LeftBy(e, u) => ClearedFlagsGoToOne(t, u)
    BY <1>2, <1>6, <2>1 DEF ToldRight, Answers, ClearedFlagsGoToOne
  <2> QED
    BY <1>8, <2>1 DEF Answered
<1> QED
  BY <1>7, <1>9

\* os_event_wait
LEMMA EventWaitKeeps ==
  ASSUME BlockingBuilds, EventInv, NEW c \in Task, NEW r \in Requests, NEW timeout \in Timeouts,
         EventWait(c, r, timeout)
  PROVE  EventInv' /\ Answered
<1>1. /\ IpcInv({event}) /\ {event} \in SUBSET WaitList /\ event \in {event} /\ Runs(c)
      /\ k.at = "task" /\ r \in Request
  BY EventAssumption DEF EventInv, EventWait, Runs
<1>2. k \in KernelType /\ k.state[k.cur] = "RUNNING" /\ k.cur = c
  BY <1>1, RunsTells DEF Runs
<1>3. Actual(flags, r) \in SUBSET Bit /\ Left(flags, r) \subseteq flags
      /\ Left(flags, r) \in SUBSET Bit
  BY DEF Actual, Left, EventInv
<1>4. CASE /\ UNCHANGED <<k, pc, want>> /\ flags' \in {flags, Left(flags, r)}
           /\ seen' \in { [seen EXCEPT ![c] = Actual(flags, r)], [seen EXCEPT ![c] = {}] }
  <2>1. flags' \in SUBSET Bit /\ flags' \subseteq flags
    BY <1>3, <1>4 DEF EventInv
  <2>2. seen' \in [Task -> SUBSET Bit]
    BY <1>3, <1>4 DEF EventInv
  <2>3. IpcInv({event})'
    BY <1>1, <1>4 DEF IpcInv, CallsStand, InBlockingCall
  <2>4. \A t \in Task : k'.state[t] = "BLOCKED" => want'[t] \in Request /\ ~Satisfied(flags', want'[t])
    BY <1>4, <2>1, FewerSatisfyLess DEF EventInv
  <2>5. EventInv'
    BY <1>4, <2>1, <2>2, <2>3, <2>4 DEF EventInv
  <2>6. Answered
    BY <1>2, <1>4, NobodyAnswered
  <2> QED
    BY <2>5, <2>6
<1>5. CASE /\ ~Satisfied(flags, r) /\ Block(k, c, event, timeout)
           /\ want' = [want EXCEPT ![c] = r] /\ UNCHANGED <<flags, seen>>
  <2>1. /\ IpcInv({event})' /\ NoneBlocks(k', k, c)
        /\ \E o : Arrives(o, k, c, event) /\ Quiet(k', o, NULL)
    BY <1>1, <1>5, BlockKeeps
  <2>2. PICK o : Arrives(o, k, c, event) /\ Quiet(k', o, NULL)
    BY <2>1
  <2>3. \A t \in Task : k.state[t] = "BLOCKED" => k'.state[t] = "BLOCKED"
    BY <1>2, <2>2, IdleApart DEF Arrives, Quiet, SameCalls
  <2>4. want' \in [Task -> Request \cup {NoRequest}]
    <3> DEFINE requests == Request \cup {NoRequest}
    <3>1. want \in [Task -> requests] /\ r \in requests
      BY <1>1 DEF EventInv
    <3> HIDE DEF requests
    <3>2. want' \in [Task -> requests]
      BY <1>5, <3>1
    <3> QED
      BY <3>2 DEF requests
  <2>5. ASSUME NEW t \in Task, k'.state[t] = "BLOCKED"
        PROVE  want'[t] \in Request /\ ~Satisfied(flags', want'[t])
    <3>1. CASE t = c
      <4>1. want'[t] = r
        BY <1>5, <3>1 DEF EventInv
      <4> QED
        BY <1>1, <1>5, <4>1
    <3>2. CASE t # c
      <4>1. want'[t] = want[t]
        BY <1>5, <3>2 DEF EventInv
      <4> QED
        BY <1>5, <2>1, <2>5, <3>2, <4>1 DEF NoneBlocks, EventInv
    <3> QED
      BY <3>1, <3>2
  <2>6. EventInv'
    BY <1>5, <2>1, <2>4, <2>5 DEF EventInv
  <2>7. Answered
    BY <1>2, <2>3, NobodyAnswered
  <2> QED
    BY <2>6, <2>7
<1> QED
  BY <1>4, <1>5 DEF EventWait

\* os_event_set by a task and by an interrupt handler.
LEMMA EventSetKeeps ==
  ASSUME BlockingBuilds, EventInv, NEW set \in Sets,
         (\E c \in Task : EventSet(c, set)) \/ IsrSet(set)
  PROVE  EventInv' /\ Answered
<1> DEFINE e == LoopEnd(set)
<1>1. e = LoopEnd(set)
  OBVIOUS
<1>2. k.at = "task" /\ Flagged(e)
      /\ \/ \E c \in Task : ThenSched(c, e.k)
         \/ Interrupt(e.k)
         \/ Interrupt(SchedFromIrq(e.k))
         \/ e.k = k /\ UNCHANGED vars
  BY DEF EventSet, IsrSet, Runs, Interrupt
<1> HIDE DEF e
<1> QED
  BY <1>1, <1>2, SettingKeeps

\* os_event_clear
LEMMA EventClearKeeps ==
  ASSUME BlockingBuilds, EventInv, NEW c \in Task, NEW set \in Sets, EventClear(c, set)
  PROVE  EventInv' /\ Answered
<1>1. UNCHANGED <<k, pc, want, seen>> /\ flags' \subseteq flags /\ k \in KernelType
  BY RunsTells DEF EventClear, EventInv, Runs
<1>2. \A t \in Task : k'.state[t] = "BLOCKED" => want'[t] \in Request /\ ~Satisfied(flags', want'[t])
  BY <1>1, FewerSatisfyLess DEF EventInv
<1>3. flags' \in SUBSET Bit
  BY <1>1 DEF EventInv
<1>4. EventInv'
  BY <1>1, <1>2, <1>3 DEF EventInv, IpcInv, CallsStand, InBlockingCall
<1>5. Answered
  BY <1>1, NobodyAnswered
<1> QED
  BY <1>4, <1>5

\* A step of the kernel, of the task interface or into os_sched: a wait may time out,
\* and then the request is forgotten.
LEMMA ForgettingKeeps ==
  ASSUME BlockingBuilds, EventInv, TasksNext \/ \E c \in Task : EnterBlocked(c),
         Forgotten, UNCHANGED <<flags, seen>>
  PROVE  EventInv' /\ Answered
<1>1. IpcInv({event}) /\ {event} \in SUBSET WaitList /\ event # NULL /\ k \in KernelType
  BY EventAssumption, ListsNameTasks, SchedAssumption DEF EventInv, IpcInv, Safe
<1>2. IpcInv({event})' /\ NoneBlocks(k', k, NULL)
      /\ \A t \in Task : k.state[t] = "BLOCKED" => k'.state[t] = "BLOCKED" \/ k'.result[t] # "EOK"
  <2>1. CASE TasksNext
    <3>1. IpcInv({event})' /\ NoneBlocks(k', k, NULL)
      BY <1>1, <2>1, StepKeeps
    <3>2. Quiet(k', k, NULL) \/ \E t \in Task : Departs(k', k, t, "ETIMEOUT")
      BY <1>1, <2>1, StepDeparts
    <3> QED
      BY <3>1, <3>2, IdleApart DEF Quiet, Departs, SameCalls
  <2>2. CASE \E c \in Task : EnterBlocked(c)
    BY <1>1, <2>2, EnterKeeps, QuietBlocksNone, IdleApart DEF Quiet, SameCalls
  <2> QED
    BY <2>1, <2>2
<1>3. want' \in [Task -> Request \cup {NoRequest}]
  <2>1. \A t \in Task : want[t] \in Request \cup {NoRequest}
    BY DEF EventInv
  <2>2. \A t \in Task : (IF k.wait[t] # NULL /\ k'.wait[t] = NULL THEN NoRequest ELSE want[t])
                          \in Request \cup {NoRequest}
    BY <2>1
  <2> QED
    BY <2>2 DEF Forgotten
<1>4. ASSUME NEW t \in Task, k'.state[t] = "BLOCKED"
      PROVE  want'[t] \in Request /\ ~Satisfied(flags', want'[t])
  <2>1. k.state[t] = "BLOCKED" /\ k'.wait[t] = event
    BY <1>1, <1>2, <1>4, IdleApart DEF NoneBlocks, IpcInv, WaitsOn
  <2>2. want'[t] = want[t]
    BY <1>1, <2>1 DEF Forgotten
  <2> QED
    BY <2>1, <2>2 DEF EventInv
<1>5. EventInv'
  BY <1>2, <1>3, <1>4 DEF EventInv
<1>6. Answered
  BY <1>1, <1>2, NobodyAnswered
<1> QED
  BY <1>5, <1>6

LEMMA EventInvStep ==
  ASSUME BlockingBuilds, EventInv, [EventNext]_evvars PROVE EventInv' /\ [Answered]_evvars
<1>1. ASSUME NEW c \in Task, EventReturn(c) PROVE EventInv' /\ Answered
  <2>1. IpcInv({event})' /\ k \in KernelType
    BY <1>1, ReturnKeeps DEF EventReturn, EventInv, IpcInv, Safe
  <2>2. EventInv'
    BY <1>1, <2>1 DEF EventReturn, EventInv
  <2>3. Answered
    BY <1>1, <2>1, NobodyAnswered DEF EventReturn
  <2> QED
    BY <2>2, <2>3
<1>2. CASE UNCHANGED evvars
  BY <1>2 DEF evvars, EventInv, IpcInv, CallsStand, InBlockingCall
<1>3. CASE EventNext
  BY <1>1, <1>3, ForgettingKeeps, EventWaitKeeps, EventSetKeeps, EventClearKeeps
     DEF EventNext, EventStep
<1> QED
  BY <1>2, <1>3

LEMMA EventInvariant == ASSUME BlockingBuilds PROVE EventSpec => []EventInv
  BY EventInvInit, EventInvStep, PTL DEF EventSpec

\* No missed event: nobody goes on waiting for flags that are set, although the loop of
\* os_event_set unlinks the tasks it wakes in the middle of its scan and the flags they
\* clear are gone for those behind them, and the wait list holds exactly the blocked tasks.
THEOREM EventsSound == ASSUME BlockingBuilds PROVE EventSpec => []EventSound
  BY EventInvariant, EventInvMeans, PTL

\* A task is woken with what it sought for, and of the tasks one os_event_set wakes two
\* that clear their flags share none of them.
THEOREM AnswersRight == ASSUME BlockingBuilds PROVE EventSpec => AnswersFitRequests
<1>1. EventInv /\ [EventNext]_evvars => [Answered]_evvars
  BY EventInvStep
<1> QED
  BY <1>1, EventInvariant, PTL DEF EventSpec, AnswersFitRequests, Answered

-----------------------------------------------------------------------------
(* Mutexes, in builds without priority inheritance.                        *)

\* Nesting stays below where its counter wraps.
FewHolds == HoldMax > 0 /\ HoldMax < NestMod

MutexType == [locked : BOOLEAN, nest : 0 .. NestMod - 1, owner : Task \cup {NULL}, original : Prio]

\* Task t was handed mutex m and has not returned from its lock yet.
Due(t, m) ==
  asked[t] = m /\ InBlockingCall(t) /\ k.state[t] # "BLOCKED" /\ k.result[t] = "EOK"

\* What a task was told and what it is due is what the mutex says, and only a task
\* that does not hold a mutex waits for it.
Exact(t, m) ==
  /\ asked[t] = m => holds[t][m] = 0
  /\ holds[t][m] + (IF Due(t, m) THEN 1 ELSE 0)
       = IF mx[m].locked /\ mx[m].owner = t THEN mx[m].nest ELSE 0

MutexTypes ==
  /\ mx \in [Mutex -> MutexType] /\ holds \in [Task -> [Mutex -> 0 .. HoldMax]]
  /\ asked \in [Task -> Mutex \cup {NULL}]

\* A locked mutex is held by its owner, and a free one has none.
OwnersHold ==
  \A m \in Mutex : IF mx[m].locked THEN mx[m].nest > 0 /\ mx[m].owner \in Task
                                   ELSE mx[m].owner = NULL

\* The inductive invariant: a call that blocks has asked for the mutex its task waits
\* for, and that mutex is locked.
MutexInv ==
  /\ IpcInv(Mutex) /\ MutexTypes /\ OwnersHold
  /\ \A t \in Task : /\ asked[t] = NULL <=> ~InBlockingCall(t)
                     /\ k.state[t] = "BLOCKED" => asked[t] = k.wait[t] /\ mx[k.wait[t]].locked
  /\ \A t \in Task, m \in Mutex : Exact(t, m)

LEMMA MutexLists == Mutex \in SUBSET WaitList /\ NULL \notin Mutex /\ \A m \in Mutex : m \in WaitList
  BY MutexAssumption, ListsNameTasks, SchedAssumption

LEMMA MutexInvInit == ASSUME FewHolds PROVE MutexInit => MutexInv
<1> SUFFICES ASSUME MutexInit PROVE MutexInv
  OBVIOUS
<1>1. IpcInv(Mutex) /\ \A t \in Task : k.state[t] = "INIT" /\ ~InBlockingCall(t)
  BY InitIpc, InitIdle, IdleApart DEF MutexInit, InBlockingCall, KernelInit
<1>2. NestMod \in Nat \ {0, 1} /\ HoldMax \in Nat /\ 0 \in Prio
  BY MutexAssumption, SchedAssumption DEF Prio
<1> DEFINE free == [locked |-> FALSE, nest |-> 0, owner |-> NULL, original |-> 0]
<1>3. free \in MutexType /\ ~free.locked /\ free.owner = NULL
  BY <1>2 DEF MutexType
<1>4. mx = [m \in Mutex |-> free]
  BY DEF MutexInit
<1> HIDE DEF free
<1>5. MutexTypes /\ OwnersHold
  <2>1. mx \in [Mutex -> MutexType] /\ OwnersHold
    BY <1>3, <1>4 DEF OwnersHold
  <2>2. [m \in Mutex |-> 0] \in [Mutex -> 0 .. HoldMax]
    BY <1>2
  <2>3. holds \in [Task -> [Mutex -> 0 .. HoldMax]]
    BY <2>2 DEF MutexInit
  <2> QED
    BY <2>1, <2>3 DEF MutexInit, MutexTypes
<1>6. ASSUME NEW t \in Task, NEW m \in Mutex PROVE Exact(t, m)
  <2>1. holds[t][m] = 0 /\ ~Due(t, m)
    BY <1>1 DEF MutexInit, Due
  <2> QED
    BY <1>3, <1>4, <2>1 DEF Exact
<1>7. \A t \in Task : asked[t] = NULL /\ ~InBlockingCall(t) /\ k.state[t] # "BLOCKED"
  BY <1>1 DEF MutexInit
<1> QED
  BY <1>1, <1>5, <1>6, <1>7 DEF MutexInv

LEMMA MutexInvMeans == MutexInv => MutexSound
<1> SUFFICES ASSUME MutexInv PROVE MutexSound
  OBVIOUS
<1>1. Sound(k) /\ Fit(k) /\ k \in KernelType /\ WaitersBlocked /\ pc \in [Tcb -> CallPlaces]
  BY SoundWaiters DEF MutexInv, IpcInv, Safe, Sound
<1>2. MutexTypeOK
  BY <1>1 DEF MutexTypeOK, MutexInv, MutexTypes, MutexType
<1>3. FreeMutexHasNoWaiters
  BY <1>1, EmptyLine, MutexLists DEF FreeMutexHasNoWaiters, MutexInv
<1>4. OwnershipExact
  <2> SUFFICES ASSUME NEW m \in Mutex, NEW t \in Task
               PROVE  holds[t][m] + (IF asked[t] = m /\ Outcome(t) = "EOK" THEN 1 ELSE 0)
                        = IF mx[m].locked /\ mx[m].owner = t THEN mx[m].nest ELSE 0
    BY DEF OwnershipExact
  <2>1. asked[t] = m /\ Outcome(t) = "EOK" <=> Due(t, m)
    BY DEF Outcome, Due
  <2> QED
    BY <2>1 DEF MutexInv, Exact
<1> QED
  BY <1>1, <1>2, <1>3, <1>4 DEF MutexSound

\* A step of the kernel, of the task interface or into os_sched.
LEMMA MutexStays ==
  ASSUME BlockingBuilds, MutexInv, [TasksNext]_vars \/ \E c \in Task : EnterBlocked(c),
         UNCHANGED <<mx, holds, asked>>
  PROVE  MutexInv'
<1>1. IpcInv(Mutex) /\ Mutex \in SUBSET WaitList
  BY MutexLists DEF MutexInv
<1>2. /\ IpcInv(Mutex)' /\ NoneBlocks(k', k, NULL)
      /\ \A t \in Task : InBlockingCall(t)' = InBlockingCall(t)
      /\ \A t \in Task : /\ k'.state[t] = "BLOCKED" /\ k.state[t] = "BLOCKED"
                         \/ /\ k'.state[t] # "BLOCKED" /\ k.state[t] # "BLOCKED"
                            /\ k'.result[t] = k.result[t]
                         \/ /\ k'.state[t] # "BLOCKED" /\ k.state[t] = "BLOCKED"
                            /\ k'.result[t] # "EOK"
  <2>1. CASE [TasksNext]_vars
    <3>1. IpcInv(Mutex)' /\ NoneBlocks(k', k, NULL)
      BY <1>1, <2>1, StepKeeps
    <3>2. \A t \in Task : InBlockingCall(t)' = InBlockingCall(t)
      BY <1>1, <2>1, StepPlaces
    <3>3. \/ Quiet(k', k, NULL)
          \/ \E t \in Task : k.state[t] = "BLOCKED" /\ Departs(k', k, t, "ETIMEOUT")
      BY <1>1, <2>1, StepDeparts
    <3> QED
      BY <3>1, <3>2, <3>3, IdleApart DEF Quiet, Departs, SameCalls
  <2>2. CASE \E c \in Task : EnterBlocked(c)
    BY <1>1, <2>2, EnterKeeps, QuietBlocksNone, IdleApart DEF Quiet, SameCalls
  <2> QED
    BY <2>1, <2>2
<1>3. ASSUME NEW t \in Task, NEW m \in Mutex PROVE Exact(t, m)'
  <2>1. Due(t, m)' = Due(t, m)
    BY <1>2 DEF Due
  <2> QED
    BY <2>1 DEF Exact, MutexInv
<1>4. MutexTypes' /\ OwnersHold'
  BY DEF MutexTypes, OwnersHold, MutexInv
<1>5. ASSUME NEW t \in Task
      PROVE  /\ asked'[t] = NULL <=> ~InBlockingCall(t)'
             /\ k'.state[t] = "BLOCKED" => asked'[t] = k'.wait[t] /\ mx'[k'.wait[t]].locked
  BY <1>2, IdleApart DEF MutexInv, NoneBlocks
<1> QED
  BY <1>2, <1>3, <1>4, <1>5 DEF MutexInv

\* A mutex is written.
LEMMA MutexWritten ==
  ASSUME mx \in [Mutex -> MutexType], NEW m \in Mutex, NEW v \in MutexType,
         mx' = [mx EXCEPT ![m] = v]
  PROVE  /\ mx' \in [Mutex -> MutexType] /\ mx'[m] = v
         /\ \A n \in Mutex : n # m => mx'[n] = mx[n]
  OBVIOUS

LEMMA GainsTells ==
  ASSUME holds \in [Task -> [Mutex -> 0 .. HoldMax]], NEW c \in Task, NEW m \in Mutex,
         NEW n \in 0 .. HoldMax, holds' = [holds EXCEPT ![c][m] = n]
  PROVE  /\ holds' \in [Task -> [Mutex -> 0 .. HoldMax]] /\ holds'[c][m] = n
         /\ \A t \in Task, o \in Mutex : t # c \/ o # m => holds'[t][o] = holds[t][o]
<1> DEFINE new == [holds[c] EXCEPT ![m] = n]
<1>1. new \in [Mutex -> 0 .. HoldMax] /\ new[m] = n /\ \A o \in Mutex : o # m => new[o] = holds[c][o]
  OBVIOUS
<1>2. holds' = [holds EXCEPT ![c] = new]
  OBVIOUS
<1> HIDE DEF new
<1> QED
  BY <1>1, <1>2

\* The mutex and the caller that a running task's call is about.
LEMMA CallerTells ==
  ASSUME BlockingBuilds, MutexInv, NEW c \in Task, k.at = "task", k.cur = c, pc[c] \in {"run"}
  PROVE  /\ k.state[c] = "RUNNING" /\ ~InBlockingCall(c) /\ asked[c] = NULL
         /\ \A m \in Mutex : ~Due(c, m)
<1>1. k.state[c] = "RUNNING"
  BY RunsTells DEF MutexInv
<1>2. ~InBlockingCall(c)
  BY DEF InBlockingCall
<1>3. asked[c] = NULL
  BY <1>2 DEF MutexInv
<1> QED
  BY <1>1, <1>2, <1>3 DEF Due

LEMMA MutexFacts ==
  /\ NestMod \in Nat \ {0, 1} /\ HoldMax \in Nat /\ Inherit \in BOOLEAN /\ PrioMax \in Nat \ {0}
  /\ (FewHolds => 1 \in 0 .. NestMod - 1)
  BY MutexAssumption, SchedAssumption

LEMMA OwnedFits ==
  ASSUME FewHolds, k \in KernelType, NEW t \in Task,
         NEW v, v = [locked |-> TRUE, nest |-> 1, owner |-> t, original |-> k.prio[t]]
  PROVE  v \in MutexType /\ v.locked /\ v.nest = 1 /\ v.owner = t
<1>1. k.prio[t] \in Prio
  BY IdleApart DEF KernelType
<1> QED
  BY <1>1, MutexFacts DEF MutexType

\* os_mutex_lock of a mutex that is free or the caller's.
LEMMA LockGainsKeeps ==
  ASSUME BlockingBuilds, FewHolds, MutexInv, NEW c \in Task, NEW m \in Mutex, Runs(c),
         holds[c][m] < HoldMax, UNCHANGED <<k, pc, asked>>, Gains(c, m),
         \/ ~mx[m].locked /\ mx' = OwnedBy(m, c)
         \/ /\ mx[m].locked /\ mx[m].owner = c
            /\ mx' = [mx EXCEPT ![m].nest = (@ + 1) % NestMod]
  PROVE  MutexInv'
<1>1. /\ k \in KernelType /\ MutexTypes /\ holds[c][m] \in 0 .. HoldMax /\ mx[m] \in MutexType
      /\ \A t \in Task, n \in Mutex : Due(t, n)' = Due(t, n) /\ Exact(t, n)
  BY RunsTells DEF MutexInv, MutexTypes, Runs, Due, InBlockingCall
<1>2. ~Due(c, m) /\ asked[c] # m
  BY CallerTells, MutexLists DEF Runs
<1> DEFINE held == holds[c][m] + 1
<1>3. held \in 0 .. HoldMax /\ held = holds[c][m] + 1 /\ held <= NestMod - 1
  BY <1>1, MutexFacts DEF FewHolds
<1> HIDE DEF held
<1>4. /\ holds' \in [Task -> [Mutex -> 0 .. HoldMax]] /\ holds'[c][m] = held
      /\ \A t \in Task, n \in Mutex : t # c \/ n # m => holds'[t][n] = holds[t][n]
  <2>1. holds' = [holds EXCEPT ![c][m] = held]
    BY <1>3 DEF Gains
  <2> QED
    BY <1>1, <1>3, <2>1, GainsTells DEF MutexTypes
<1>5. \E v \in MutexType : /\ mx' = [mx EXCEPT ![m] = v]
                           /\ v.locked /\ v.owner = c /\ v.nest = held /\ v.nest > 0
  <2>1. CASE ~mx[m].locked /\ mx' = OwnedBy(m, c)
    <3> DEFINE v == [locked |-> TRUE, nest |-> 1, owner |-> c, original |-> k.prio[c]]
    <3>1. v \in MutexType /\ v.locked /\ v.nest = 1 /\ v.owner = c
      BY <1>1, OwnedFits
    <3>2. mx' = [mx EXCEPT ![m] = v]
      BY <2>1 DEF OwnedBy
    <3>3. held = 1
      BY <1>1, <1>2, <1>3, <2>1 DEF Exact
    <3>4. v.nest = held /\ v.nest > 0
      BY <3>1, <3>3
    <3> HIDE DEF v
    <3> QED
      BY <3>1, <3>2, <3>4
  <2>2. CASE /\ mx[m].locked /\ mx[m].owner = c
             /\ mx' = [mx EXCEPT ![m].nest = (@ + 1) % NestMod]
    <3>1. holds[c][m] = mx[m].nest
      BY <1>1, <1>2, <2>2 DEF Exact
    <3>2. (mx[m].nest + 1) % NestMod = held
      BY <1>1, <1>3, <3>1, MutexFacts
    <3> DEFINE v == [mx[m] EXCEPT !.nest = held]
    <3>3. v \in MutexType /\ v.locked /\ v.nest = held /\ v.owner = c
      BY <1>1, <1>3, <2>2, MutexFacts DEF MutexType
    <3>4. mx' = [mx EXCEPT ![m] = v]
      BY <2>2, <3>2
    <3>5. v.nest > 0
      BY <1>1, <1>3, <3>3, MutexFacts
    <3> HIDE DEF v
    <3> QED
      BY <3>3, <3>4, <3>5
  <2> QED
    BY <2>1, <2>2
<1>6. PICK v \in MutexType : /\ mx' = [mx EXCEPT ![m] = v]
                             /\ v.locked /\ v.owner = c /\ v.nest = held /\ v.nest > 0
  BY <1>5
<1>7. /\ mx' \in [Mutex -> MutexType] /\ mx'[m] = v
      /\ \A n \in Mutex : n # m => mx'[n] = mx[n]
  BY <1>1, <1>6, MutexWritten DEF MutexTypes
<1>8. MutexTypes' /\ OwnersHold'
  BY <1>4, <1>6, <1>7 DEF MutexTypes, OwnersHold, MutexInv
<1>9. ASSUME NEW t \in Task, NEW n \in Mutex PROVE Exact(t, n)'
  <2>1. CASE n # m
    BY <1>1, <1>4, <1>7, <2>1 DEF Exact
  <2>2. CASE n = m /\ t = c
    BY <1>1, <1>2, <1>3, <1>4, <1>6, <1>7, <2>2 DEF Exact
  <2>3. CASE n = m /\ t # c
    <3>1. (IF mx[m].locked /\ mx[m].owner = t THEN mx[m].nest ELSE 0) = 0
      BY <2>3
    <3>2. (IF mx'[m].locked /\ mx'[m].owner = t THEN mx'[m].nest ELSE 0) = 0
      BY <1>6, <1>7, <2>3
    <3> QED
      BY <1>1, <1>4, <2>3, <3>1, <3>2 DEF Exact
  <2> QED
    BY <2>1, <2>2, <2>3
<1>10. \A t \in Task : k.state[t] = "BLOCKED" => k.wait[t] \in Mutex /\ mx'[k.wait[t]].locked
  BY <1>6, <1>7 DEF MutexInv, IpcInv, WaitsOn
<1>11. IpcInv(Mutex)' /\ \A t \in Task : InBlockingCall(t)' = InBlockingCall(t)
  BY DEF MutexInv, IpcInv, CallsStand, InBlockingCall
<1> QED
  BY <1>8, <1>9, <1>10, <1>11 DEF MutexInv

\* os_mutex_lock of a mutex that another task holds.
LEMMA LockWaitsKeeps ==
  ASSUME BlockingBuilds, MutexInv, NEW c \in Task, NEW m \in Mutex, NEW timeout \in Timeouts,
         Runs(c), mx[m].locked, mx[m].owner # c, Block(k, c, m, timeout), asked' = [asked EXCEPT ![c] = m],
         UNCHANGED <<mx, holds>>
  PROVE  MutexInv'
<1>1. IpcInv(Mutex) /\ Mutex \in SUBSET WaitList /\ MutexTypes /\ k.cur = c
  BY MutexLists DEF MutexInv, Runs
<1>2. k.state[c] = "RUNNING" /\ asked[c] = NULL /\ \A n \in Mutex : ~Due(c, n)
  BY CallerTells DEF Runs
<1>3. /\ IpcInv(Mutex)' /\ NoneBlocks(k', k, c) /\ k'.state[c] = "BLOCKED" /\ k'.wait[c] = m
      /\ pc' = [pc EXCEPT ![c] = "back"]
      /\ \E r : Arrives(r, k, c, m) /\ Quiet(k', r, NULL)
  BY <1>1, BlockKeeps
<1>4. /\ InBlockingCall(c)' /\ \A t \in Task \ {c} : InBlockingCall(t)' = InBlockingCall(t)
  <2>1. pc'[c] = "back" /\ \A t \in Task \ {c} : pc'[t] = pc[t]
    BY <1>1, <1>3, IdleApart DEF IpcInv
  <2> QED
    BY <2>1 DEF InBlockingCall
<1>5. \A t \in Task \ {c} : /\ k'.result[t] = k.result[t]
                            /\ k'.state[t] = "BLOCKED" <=> k.state[t] = "BLOCKED"
  BY <1>3, IdleApart DEF Arrives, Quiet, SameCalls
<1>6. asked' \in [Task -> Mutex \cup {NULL}] /\ asked'[c] = m
      /\ \A t \in Task \ {c} : asked'[t] = asked[t]
  BY <1>1 DEF MutexTypes
<1>7. \A t \in Task, n \in Mutex : Due(t, n)' = Due(t, n)
  BY <1>2, <1>3, <1>4, <1>5, <1>6 DEF Due
<1>8. ASSUME NEW t \in Task, NEW n \in Mutex PROVE Exact(t, n)'
  <2>1. asked'[t] = n => holds[t][n] = 0
    <3>1. CASE t = c
      <4>1. Exact(c, m) /\ ~Due(c, m) /\ holds[c][m] \in Nat
        BY <1>1, <1>2, MutexFacts DEF MutexInv, MutexTypes
      <4> QED
        BY <1>6, <3>1, <4>1 DEF Exact
    <3>2. CASE t # c
      BY <1>6, <3>2 DEF Exact, MutexInv
    <3> QED
      BY <3>1, <3>2
  <2> QED
    BY <1>7, <2>1 DEF Exact, MutexInv
<1>9. MutexTypes' /\ OwnersHold'
  BY <1>6 DEF MutexTypes, OwnersHold, MutexInv
<1>10. ASSUME NEW t \in Task
       PROVE  /\ asked'[t] = NULL <=> ~InBlockingCall(t)'
              /\ k'.state[t] = "BLOCKED" => asked'[t] = k'.wait[t] /\ mx'[k'.wait[t]].locked
  <2>1. CASE t = c
    BY <1>3, <1>4, <1>6, <2>1, MutexLists
  <2>2. CASE t # c
    BY <1>3, <1>4, <1>5, <1>6, <2>2 DEF NoneBlocks, MutexInv
  <2> QED
    BY <2>1, <2>2
<1> QED
  BY <1>3, <1>8, <1>9, <1>10 DEF MutexInv

\* os_mutex_lock
LEMMA MutexLockKeeps ==
  ASSUME BlockingBuilds, FewHolds, ~Inherit, MutexInv, NEW c \in Task, NEW m \in Mutex,
         NEW timeout \in Timeouts, MutexLock(c, m, timeout)
  PROVE  MutexInv'
<1>1. Inherited(c, m) = k
  BY DEF Inherited
<1> QED
  BY <1>1, LockGainsKeeps, LockWaitsKeeps DEF MutexLock

\* The return of a lock that had to wait.
LEMMA MutexReturnKeeps ==
  ASSUME BlockingBuilds, FewHolds, MutexInv, NEW c \in Task, MutexReturn(c)
  PROVE  MutexInv'
<1>1. IpcInv(Mutex)' /\ k.state[c] = "RUNNING" /\ MutexTypes /\ InBlockingCall(c)
  BY ReturnKeeps DEF MutexReturn, MutexInv, Returns, InBlockingCall
<1> DEFINE m == asked[c]
<1>2. m \in Mutex /\ m = asked[c]
  BY <1>1 DEF MutexInv, MutexTypes
<1> HIDE DEF m
<1>3. /\ ~InBlockingCall(c)' /\ \A t \in Task \ {c} : InBlockingCall(t)' = InBlockingCall(t)
  <2>1. pc'[c] = "run" /\ \A t \in Task \ {c} : pc'[t] = pc[t]
    BY IdleApart DEF MutexReturn, MutexInv, IpcInv
  <2> QED
    BY <2>1 DEF InBlockingCall
<1>4. asked' \in [Task -> Mutex \cup {NULL}] /\ asked'[c] = NULL
      /\ \A t \in Task \ {c} : asked'[t] = asked[t]
  BY <1>1 DEF MutexReturn, MutexTypes
<1>5. /\ \A n \in Mutex : ~Due(c, n)' /\ (n # m => ~Due(c, n))
      /\ \A t \in Task \ {c}, n \in Mutex : Due(t, n)' = Due(t, n)
      /\ Due(c, m) <=> k.result[c] = "EOK"
  BY <1>1, <1>2, <1>3, <1>4, MutexLists DEF Due, MutexReturn
<1>6. /\ holds' \in [Task -> [Mutex -> 0 .. HoldMax]]
      /\ holds'[c][m] = holds[c][m] + (IF Due(c, m) THEN 1 ELSE 0)
      /\ \A t \in Task, n \in Mutex : t # c \/ n # m => holds'[t][n] = holds[t][n]
  <2>1. CASE ~Due(c, m)
    BY <1>1, <1>2, <1>5, <2>1 DEF MutexReturn, MutexTypes
  <2>2. CASE Due(c, m)
    <3> DEFINE held == holds[c][m] + 1
    <3>1. Exact(c, m) /\ OwnersHold /\ holds[c][m] \in 0 .. HoldMax /\ mx[m] \in MutexType
      BY <1>1, <1>2 DEF MutexInv, MutexTypes
    <3>2. held \in 0 .. HoldMax
      BY <1>2, <3>1, MutexFacts DEF Exact, FewHolds
    <3>3. holds' = [holds EXCEPT ![c][m] = held]
      BY <1>2, <1>5, <2>2 DEF MutexReturn, Gains
    <3>4. held = holds[c][m] + (IF Due(c, m) THEN 1 ELSE 0)
      BY <2>2
    <3> HIDE DEF held
    <3>5. /\ holds' \in [Task -> [Mutex -> 0 .. HoldMax]] /\ holds'[c][m] = held
          /\ \A t \in Task, n \in Mutex : t # c \/ n # m => holds'[t][n] = holds[t][n]
      BY <1>1, <1>2, <3>2, <3>3, GainsTells DEF MutexTypes
    <3> QED
      BY <3>4, <3>5
  <2> QED
    BY <2>1, <2>2
<1>7. MutexTypes' /\ OwnersHold'
  BY <1>1, <1>4, <1>6 DEF MutexReturn, MutexTypes, OwnersHold, MutexInv
<1>8. ASSUME NEW t \in Task, NEW n \in Mutex PROVE Exact(t, n)'
  <2>1. Exact(t, n) /\ mx' = mx /\ holds[t][n] \in 0 .. HoldMax
    BY <1>1 DEF MutexReturn, MutexInv, MutexTypes
  <2>2. asked'[t] = n => holds'[t][n] = 0
    BY <1>4, <1>6, <2>1, MutexLists DEF Exact
  <2>3. holds'[t][n] + (IF Due(t, n)' THEN 1 ELSE 0) = holds[t][n] + (IF Due(t, n) THEN 1 ELSE 0)
    <3>1. CASE t = c /\ n = m
      BY <1>5, <1>6, <2>1, <3>1, MutexFacts
    <3>2. CASE t # c \/ n # m
      BY <1>5, <1>6, <3>2
    <3> QED
      BY <3>1, <3>2
  <2> QED
    BY <2>1, <2>2, <2>3 DEF Exact
<1>9. ASSUME NEW t \in Task
      PROVE  /\ asked'[t] = NULL <=> ~InBlockingCall(t)'
             /\ k'.state[t] = "BLOCKED" => asked'[t] = k'.wait[t] /\ mx'[k'.wait[t]].locked
  <2>1. k' = k /\ mx' = mx
    BY DEF MutexReturn
  <2>2. CASE t = c
    BY <1>1, <1>3, <1>4, <2>1, <2>2
  <2>3. CASE t # c
    BY <1>3, <1>4, <2>1, <2>3 DEF MutexInv
  <2> QED
    BY <2>2, <2>3
<1> QED
  BY <1>1, <1>7, <1>8, <1>9 DEF MutexInv

\* os_mutex_unlock
LEMMA MutexUnlockKeeps ==
  ASSUME BlockingBuilds, FewHolds, ~Inherit, MutexInv, NEW c \in Task, NEW m \in Mutex,
         MutexUnlock(c, m)
  PROVE  MutexInv'
<1>1. /\ IpcInv(Mutex) /\ Mutex \in SUBSET WaitList /\ MutexTypes /\ OwnersHold /\ k.at = "task"
      /\ mx[m] \in MutexType /\ mx[m].owner = c /\ c # NULL /\ m \in WaitList /\ Runs(c)
  BY MutexLists, IdleApart DEF MutexInv, MutexTypes, MutexUnlock, Runs
<1>2. k \in KernelType /\ k.state[c] = "RUNNING" /\ ~Due(c, m) /\ Restored(c, m) = k /\ Fit(k)
      /\ asked[c] = NULL
  BY <1>1, CallerTells, RunsTells DEF Runs, Restored
<1>3. mx[m].locked /\ mx[m].nest \in 1 .. NestMod - 1 /\ holds[c][m] = mx[m].nest
  <2>1. mx[m].locked /\ mx[m].nest > 0 /\ mx[m].nest \in 0 .. NestMod - 1
    BY <1>1 DEF OwnersHold, MutexType
  <2>2. holds[c][m] \in 0 .. HoldMax /\ Exact(c, m)
    BY <1>1 DEF MutexTypes, MutexInv
  <2> QED
    BY <1>1, <1>2, <2>1, <2>2, MutexFacts DEF Exact
<1> DEFINE held == mx[m].nest - 1
<1>4. held \in 0 .. NestMod - 1 /\ held \in 0 .. HoldMax /\ held % NestMod = held
      /\ held = mx[m].nest - 1
  <2>1. holds[c][m] \in 0 .. HoldMax
    BY <1>1 DEF MutexTypes
  <2> QED
    BY <1>3, <2>1, MutexFacts
<1> HIDE DEF held
<1>5. /\ holds' \in [Task -> [Mutex -> 0 .. HoldMax]] /\ holds'[c][m] = held
      /\ \A t \in Task, n \in Mutex : t # c \/ n # m => holds'[t][n] = holds[t][n]
  <2>1. holds' = [holds EXCEPT ![c][m] = IF holds[c][m] > 0 THEN holds[c][m] - 1 ELSE 0]
    BY <1>1 DEF MutexUnlock, MutexTypes
  <2>2. (IF holds[c][m] > 0 THEN holds[c][m] - 1 ELSE 0) = held
    BY <1>3, <1>4, MutexFacts
  <2>3. holds' = [holds EXCEPT ![c][m] = held]
    BY <2>1, <2>2
  <2> QED
    BY <1>1, <1>4, <2>3, GainsTells DEF MutexTypes
<1>6. asked' = asked /\ asked \in [Task -> Mutex \cup {NULL}]
  BY <1>1 DEF MutexUnlock, MutexTypes
<1>7. CASE held > 0
  <2>1. UNCHANGED vars /\ mx' = [mx EXCEPT ![m].nest = held]
    BY <1>4, <1>7 DEF MutexUnlock
  <2> DEFINE v == [mx[m] EXCEPT !.nest = held]
  <2>2. v \in MutexType /\ v.locked /\ v.nest = held /\ v.owner = c
    BY <1>1, <1>3, <1>4 DEF MutexType
  <2>3. mx' = [mx EXCEPT ![m] = v]
    BY <2>1
  <2> HIDE DEF v
  <2>4. mx' \in [Mutex -> MutexType] /\ mx'[m] = v /\ \A n \in Mutex : n # m => mx'[n] = mx[n]
    BY <1>1, <2>2, <2>3, MutexWritten DEF MutexTypes
  <2>5. IpcInv(Mutex)' /\ \A t \in Task : InBlockingCall(t)' = InBlockingCall(t)
    BY <1>1, <2>1 DEF vars, IpcInv, CallsStand, InBlockingCall
  <2>6. MutexTypes' /\ OwnersHold'
    BY SMTT(30), <1>1, <1>5, <1>6, <1>7, <2>2, <2>4 DEF MutexTypes, OwnersHold
  <2>7. ASSUME NEW t \in Task, NEW n \in Mutex PROVE Exact(t, n)'
    <3>1. Due(t, n)' = Due(t, n) /\ Exact(t, n)
      BY <1>6, <2>1 DEF Due, InBlockingCall, vars, MutexInv
    <3>2. CASE n # m
      BY <1>5, <1>6, <2>4, <3>1, <3>2 DEF Exact
    <3>3. CASE n = m /\ t = c
      BY <1>2, <1>4, <1>5, <1>6, <2>2, <2>4, <3>1, <3>3, MutexLists DEF Exact
    <3>4. CASE n = m /\ t # c
      BY <1>1, <1>5, <1>6, <2>2, <2>4, <3>1, <3>4 DEF Exact
    <3> QED
      BY <3>2, <3>3, <3>4
  <2>8. \A t \in Task : k.state[t] = "BLOCKED" => k.wait[t] \in Mutex /\ mx'[k.wait[t]].locked
    BY <2>2, <2>4 DEF MutexInv, IpcInv, WaitsOn
  <2> QED
    BY <1>6, <2>1, <2>5, <2>6, <2>7, <2>8 DEF MutexInv, vars
<1>8. CASE held = 0
  <2>1. /\ mx' = Passed(m)
        /\ IF k.head[m] = NULL THEN UNCHANGED vars ELSE ThenSched(c, HandOff(k, m, "EOK"))
    BY <1>2, <1>4, <1>8 DEF MutexUnlock, vars
  <2>2. \A t \in Task : /\ t # c => ~(mx[m].locked /\ mx[m].owner = t)
                        /\ holds'[t][m] = IF t = c THEN 0 ELSE holds[t][m]
    BY <1>1, <1>5, <1>8
  <2>3. CASE k.head[m] = NULL
    <3> DEFINE v == [mx[m] EXCEPT !.locked = FALSE, !.owner = NULL, !.nest = 0]
    <3>1. v \in MutexType /\ ~v.locked /\ v.owner = NULL
      <4>1. 0 \in 0 .. NestMod - 1
        BY MutexFacts
      <4> QED
        BY <1>1, <4>1 DEF MutexType
    <3>2. mx' = [mx EXCEPT ![m] = v]
      BY <2>1, <2>3 DEF Passed
    <3> HIDE DEF v
    <3>3. mx' \in [Mutex -> MutexType] /\ mx'[m] = v /\ \A n \in Mutex : n # m => mx'[n] = mx[n]
      BY <1>1, <3>1, <3>2, MutexWritten DEF MutexTypes
    <3>4. UNCHANGED vars /\ IpcInv(Mutex)' /\ \A t \in Task : InBlockingCall(t)' = InBlockingCall(t)
      BY <1>1, <2>1, <2>3 DEF vars, IpcInv, CallsStand, InBlockingCall
    <3>5. MutexTypes' /\ OwnersHold'
      BY <1>1, <1>5, <1>6, <3>1, <3>3 DEF MutexTypes, OwnersHold
    <3>6. ASSUME NEW t \in Task, NEW n \in Mutex PROVE Exact(t, n)'
      <4>1. Due(t, n)' = Due(t, n) /\ Exact(t, n)
        BY <1>6, <3>4 DEF Due, InBlockingCall, vars, MutexInv
      <4>2. CASE n # m
        BY <1>5, <1>6, <3>3, <4>1, <4>2 DEF Exact
      <4>3. CASE n = m /\ t = c
        BY <1>2, <1>6, <2>2, <3>1, <3>3, <4>1, <4>3 DEF Exact
      <4>4. CASE n = m /\ t # c
        BY <1>6, <2>2, <3>1, <3>3, <4>1, <4>4 DEF Exact
      <4> QED
        BY <4>2, <4>3, <4>4
    <3>7. \A t \in Task : k.state[t] = "BLOCKED" => k.wait[t] # m
      BY <1>1, <1>2, <2>3, EmptyLine
    <3>8. \A t \in Task : k.state[t] = "BLOCKED" => k.wait[t] \in Mutex /\ mx'[k.wait[t]].locked
      BY <3>3, <3>7 DEF MutexInv, IpcInv, WaitsOn
    <3> QED
      BY <1>6, <3>4, <3>5, <3>6, <3>8 DEF MutexInv, vars
  <2>4. CASE k.head[m] # NULL
    <3> PICK x : x = k.head[m]
      OBVIOUS
    <3> DEFINE s == HandOff(k, m, "EOK")
    <3>1. x = k.head[m] /\ x # NULL /\ s = HandOff(k, m, "EOK") /\ "EOK" \in Results
      BY <2>4 DEF Results
    <3>2. ThenSched(c, s) /\ mx' = OwnedBy(m, x)
      BY <2>1, <2>4 DEF Passed
    <3> HIDE DEF s
    <3>3. /\ x \in Task /\ k.state[x] = "BLOCKED" /\ k.wait[x] = m
          /\ Safe(s) /\ Fit(s) /\ s.at = "task" /\ s.cur = k.cur /\ s.state[s.cur] = "RUNNING"
          /\ s # k /\ NoneBlocks(s, k, NULL) /\ \A u \in Task : Lives(k, u) => Lives(s, u)
          /\ Departs(s, k, x, "EOK")
      BY <1>1, <3>1, GivenKeeps
    <3>4. IpcInv(Mutex)' /\ UNCHANGED pc /\ Quiet(k', s, NULL) /\ NoneBlocks(k', k, NULL)
      BY <1>1, <3>2, <3>3, WakingKeeps
    <3>5. /\ k'.state[x] # "BLOCKED" /\ k'.result[x] = "EOK"
          /\ \A u \in Task \ {x} : /\ k'.state[u] = "BLOCKED" <=> k.state[u] = "BLOCKED"
                                   /\ k'.result[u] = k.result[u]
      BY <3>3, <3>4, IdleApart DEF Quiet, Departs, SameCalls
    <3> DEFINE v == [locked |-> TRUE, nest |-> 1, owner |-> x, original |-> k.prio[x]]
    <3>6. v \in MutexType /\ v.locked /\ v.nest = 1 /\ v.owner = x
      BY <1>2, <3>3, OwnedFits
    <3>7. mx' = [mx EXCEPT ![m] = v]
      BY <3>2 DEF OwnedBy
    <3> HIDE DEF v
    <3>8. mx' \in [Mutex -> MutexType] /\ mx'[m] = v /\ \A n \in Mutex : n # m => mx'[n] = mx[n]
      BY <1>1, <3>6, <3>7, MutexWritten DEF MutexTypes
    <3>9. MutexTypes' /\ OwnersHold'
      BY SMTT(30), <1>1, <1>5, <1>6, <3>3, <3>6, <3>8 DEF MutexTypes, OwnersHold
    <3>10. \A t \in Task : InBlockingCall(t)' = InBlockingCall(t)
      BY <3>4 DEF InBlockingCall
    <3>11. asked[x] = m /\ holds[x][m] = 0 /\ x # c /\ InBlockingCall(x) /\ c # x
      BY <1>2, <3>3 DEF MutexInv, IpcInv, CallsStand, Exact
    <3>12. ASSUME NEW t \in Task, NEW n \in Mutex PROVE Exact(t, n)'
      <4>1. Exact(t, n)
        BY DEF MutexInv
      <4>2. t # x => Due(t, n)' = Due(t, n)
        BY <1>6, <3>5, <3>10 DEF Due
      <4>3. CASE t = x /\ n = m
        <5>1. Due(x, m)' /\ holds'[x][m] = 0
          BY <1>6, <2>2, <3>3, <3>5, <3>10, <3>11 DEF Due
        <5> QED
          BY <3>6, <3>8, <4>3, <5>1 DEF Exact
      <4>4. CASE t = x /\ n # m
        <5>1. ~Due(x, n)' /\ ~Due(x, n)
          BY <1>6, <3>11, <4>4 DEF Due
        <5> QED
          BY <1>5, <1>6, <3>8, <4>1, <4>4, <5>1 DEF Exact
      <4>5. CASE t # x /\ n # m
        BY <1>5, <1>6, <3>8, <4>1, <4>2, <4>5 DEF Exact
      <4>6. CASE t # x /\ n = m /\ t # c
        BY <1>6, <2>2, <3>6, <3>8, <4>1, <4>2, <4>6 DEF Exact
      <4>7. CASE n = m /\ t = c
        BY <1>2, <1>6, <2>2, <3>6, <3>8, <3>11, <4>1, <4>2, <4>7 DEF Exact
      <4> QED
        BY <4>3, <4>4, <4>5, <4>6, <4>7
    <3>13. ASSUME NEW t \in Task
           PROVE  /\ asked'[t] = NULL <=> ~InBlockingCall(t)'
                  /\ k'.state[t] = "BLOCKED" => asked'[t] = k'.wait[t] /\ mx'[k'.wait[t]].locked
      <4>1. asked'[t] = NULL <=> ~InBlockingCall(t)'
        BY <1>6, <3>10 DEF MutexInv
      <4>2. ASSUME k'.state[t] = "BLOCKED" PROVE asked'[t] = k'.wait[t] /\ mx'[k'.wait[t]].locked
        <5>1. k.state[t] = "BLOCKED" /\ k'.wait[t] = k.wait[t]
          BY <3>4, <4>2, IdleApart DEF NoneBlocks
        <5>2. asked[t] = k.wait[t] /\ mx[k.wait[t]].locked /\ k.wait[t] \in Mutex
          BY <5>1 DEF MutexInv, IpcInv, WaitsOn
        <5> QED
          BY <1>6, <3>6, <3>8, <5>1, <5>2
      <4> QED
        BY <4>1, <4>2
    <3> QED
      BY <3>4, <3>9, <3>12, <3>13 DEF MutexInv
  <2> QED
    BY <2>3, <2>4
<1>9. held > 0 \/ held = 0
  <2>1. held \in 0 .. HoldMax /\ HoldMax \in Nat
    BY <1>4, MutexFacts
  <2> QED
    BY <2>1
<1> QED
  BY <1>7, <1>8, <1>9

LEMMA MutexInvStep ==
  ASSUME BlockingBuilds, FewHolds, ~Inherit, MutexInv, [MutexNext]_mxvars PROVE MutexInv'
<1>1. CASE UNCHANGED mxvars
  BY <1>1, MutexStays DEF mxvars, vars
<1>2. CASE MutexNext
  BY <1>2, MutexStays, MutexLockKeeps, MutexReturnKeeps, MutexUnlockKeeps
     DEF MutexNext, MutexStep
<1> QED
  BY <1>1, <1>2

\* A mutex has one holder, as its callers see it: what each task was told, or will be when
\* its lock returns, is what owner and nest_count say, through hand-offs to tasks that have
\* not run yet and timeouts; a free mutex has no waiters.  Without priority inheritance,
\* which leaves a READY owner on the list of its old priority.
THEOREM MutexesSound ==
  ASSUME BlockingBuilds, FewHolds, ~Inherit PROVE MutexSpec => []MutexSound
<1>1. MutexSpec => []MutexInv
  BY MutexInvInit, MutexInvStep, PTL DEF MutexSpec
<1> QED
  BY <1>1, MutexInvMeans, PTL

-----------------------------------------------------------------------------
(* Deadlines: Clocked (WaitProofs) is kept by the calls of every object.   *)

\* A call that wakes.
LEMMA WakingPrompt ==
  ASSUME BlockingBuilds, NEW S \in SUBSET WaitList, IpcInv(S), k.at = "task", Clocked(k),
         NEW s, Safe(s), Fit(s), s.at = "task", s.state[s.cur] = "RUNNING",
         NoneBlocks(s, k, NULL), \A t \in Task : Lives(k, t) => Lives(s, t), Eases(s, k),
         \/ \E c \in Task : ThenSched(c, s)
         \/ Interrupt(s)
         \/ Interrupt(SchedFromIrq(s))
  PROVE  Clocked(k') /\ InTime
<1>1. Eases(k', s)
  BY WakingKeeps
<1>2. Eases(k', k)
  BY <1>1, EasesTwice
<1> QED
  BY <1>2, EasePrompt

LEMMA HandOffPrompt ==
  ASSUME BlockingBuilds, NEW S \in SUBSET WaitList, IpcInv(S), k.at = "task", Clocked(k),
         NEW l \in WaitList, k.head[l] # NULL,
         \/ \E c \in Task : ThenSched(c, HandOff(k, l, "EOK"))
         \/ Interrupt(SchedFromIrq(HandOff(k, l, "EOK")))
  PROVE  Clocked(k') /\ InTime
<1> DEFINE t == k.head[l]
           s == HandOff(k, l, "EOK")
<1>1. t = k.head[l] /\ s = HandOff(k, l, "EOK") /\ t # NULL /\ "EOK" \in Results
  BY DEF Results
<1>2. (\E c \in Task : ThenSched(c, s)) \/ Interrupt(SchedFromIrq(s))
  BY <1>1
<1> HIDE DEF t, s
<1>3. /\ Safe(s) /\ Fit(s) /\ s.at = "task" /\ s.state[s.cur] = "RUNNING"
      /\ NoneBlocks(s, k, NULL) /\ \A u \in Task : Lives(k, u) => Lives(s, u)
      /\ Eases(s, k)
  BY <1>1, GivenKeeps
<1> QED
  BY <1>2, <1>3, WakingPrompt

\* What all objects share: steps of the kernel, of the task interface and into os_sched,
\* an interrupt handler that wakes nobody, and the return of a call.
LEMMA OtherPrompt ==
  ASSUME BlockingBuilds, ShortTimes, NEW S \in SUBSET WaitList, IpcInv(S), Clocked(k),
         \/ [TasksNext]_vars
         \/ \E c \in Task : EnterBlocked(c)
         \/ Interrupt(k)
         \/ \E c \in Task : Returns(c) /\ UNCHANGED k
  PROVE  Clocked(k') /\ InTime
<1>1. CASE [TasksNext]_vars
  BY <1>1, StepPrompt DEF ShortTimes
<1>2. CASE \E c \in Task : EnterBlocked(c)
  <2>1. k.at = "task" /\ Eases(k', k)
    BY <1>2, EnterKeeps DEF EnterBlocked
  <2> QED
    BY <2>1, EasePrompt
<1>3. CASE Interrupt(k)
  <2>1. k.at = "task"
    BY <1>3 DEF Interrupt
  <2>2. Safe(k) /\ Fit(k) /\ k.state[k.cur] = "RUNNING"
    BY <2>1, RunsTells
  <2>3. NoneBlocks(k, k, NULL) /\ Eases(k, k)
    BY EasesSelf DEF NoneBlocks
  <2> QED
    BY <1>3, <2>1, <2>2, <2>3, WakingPrompt
<1>4. CASE \E c \in Task : Returns(c) /\ UNCHANGED k
  <2>1. k.at = "task" /\ k' = k
    BY <1>4 DEF Returns
  <2>2. Eases(k', k)
    BY <2>1, EasesSelf
  <2> QED
    BY <2>1, <2>2, EasePrompt
<1> QED
  BY <1>1, <1>2, <1>3, <1>4

LEMMA SemPrompt ==
  ASSUME BlockingBuilds, ShortTimes, SemInv, Clocked(k), [SemNext]_semvars
  PROVE  Clocked(k') /\ InTime
<1>1. /\ IpcInv({sem}) /\ {sem} \in SUBSET WaitList /\ sem \in WaitList /\ sem \in {sem}
  BY SemAssumption DEF SemInv
<1>2. CASE \/ [TasksNext]_vars
           \/ \E c \in Task : EnterBlocked(c)
           \/ Interrupt(k)
           \/ \E c \in Task : Returns(c) /\ UNCHANGED k
  BY <1>1, <1>2, OtherPrompt
<1>3. ASSUME NEW c \in Task, NEW timeout \in Timeouts, SemTake(c, timeout)
      PROVE  UNCHANGED vars \/ (Clocked(k') /\ InTime)
  BY <1>1, <1>3, BlockPrompt DEF SemTake
<1>4. ASSUME (\E c \in Task : SemGive(c)) \/ IsrGive
      PROVE  UNCHANGED vars \/ Interrupt(k) \/ (Clocked(k') /\ InTime)
  <2>1. k.at = "task"
    BY <1>4 DEF SemGive, IsrGive, Runs, Interrupt
  <2>2. CASE k.head[sem] # NULL
    <3>1. Given = HandOff(k, sem, "EOK") /\ k # Given
      BY <1>1, <2>1, <2>2, GivenKeeps DEF Given, Results
    <3>2. \/ \E c \in Task : ThenSched(c, HandOff(k, sem, "EOK"))
          \/ Interrupt(SchedFromIrq(HandOff(k, sem, "EOK")))
      BY <1>4, <3>1 DEF SemGive, IsrGive
    <3> QED
      BY <1>1, <2>1, <2>2, <3>2, HandOffPrompt
  <2>3. CASE k.head[sem] = NULL
    BY <1>4, <2>3 DEF SemGive, IsrGive, Given
  <2> QED
    BY <2>2, <2>3
<1>5. ASSUME NEW c \in Task, NEW n \in 0 .. SemMax, SemReset(c, n)
      PROVE  UNCHANGED vars \/ (Clocked(k') /\ InTime)
  <2> DEFINE s == Dismissed
  <2>1. k.at = "task" /\ (UNCHANGED vars \/ ThenSched(c, s))
    BY <1>5 DEF SemReset, Runs
  <2>2. Dismisses(s)
    BY <1>1, <2>1, AllDismissed
  <2> HIDE DEF s
  <2>3. /\ Safe(s) /\ Fit(s) /\ s.at = "task" /\ s.state[s.cur] = "RUNNING"
        /\ NoneBlocks(s, k, NULL) /\ \A u \in Task : Lives(k, u) => Lives(s, u)
        /\ Eases(s, k)
    BY <2>2 DEF Dismisses, NoneBlocks
  <2> QED
    BY <1>1, <2>1, <2>3, WakingPrompt
<1>6. ASSUME UNCHANGED vars PROVE Clocked(k') /\ InTime
  BY <1>2, <1>6
<1> QED
  BY <1>2, <1>3, <1>4, <1>5, <1>6 DEF SemNext, SemStep, SemReturn, semvars, vars

\* A task that waits for a semaphore and is given none is told so at its deadline, not
\* earlier and not later, whatever is given, reset and timed out in between.
THEOREM SemaphoresTimeOut == ASSUME BlockingBuilds, ShortTimes PROVE SemSpec => TimesOutOnTime
<1> DEFINE Inv == SemInv /\ Clocked(k)
           OnTime == \A t \in Task : Outcome(t) = "waiting" /\ Outcome(t)' = "ETIMEOUT"
                                       => k.tick = k.deadline[t]
<1>1. SemInit => Inv
  BY SemInvInit, InitClocked DEF SemInit
<1>2. Inv /\ [SemNext]_semvars => Inv' /\ OnTime
  BY SemInvStep, SemPrompt, TimedOutLeft DEF SemInv, IpcInv, Safe
<1> HIDE DEF Inv, OnTime
<1>3. SemSpec => [][OnTime]_vars
  BY <1>1, <1>2, PTL DEF SemSpec
<1> QED
  BY <1>3 DEF TimesOutOnTime, OnTime

\* The tick handler leaves nobody waiting whose deadline has come.
THEOREM SemaphoresLeaveNobody ==
  ASSUME BlockingBuilds, ShortTimes, Room PROVE SemSpec => []NobodyOverstays
<1> DEFINE Inv == SemInv /\ Clocked(k)
<1>1. SemInit => Inv
  BY SemInvInit, InitClocked DEF SemInit
<1>2. Inv /\ [SemNext]_semvars => Inv'
  BY SemInvStep, SemPrompt
<1>3. Inv => NobodyOverstays
  BY ClockedMeans DEF SemInv, ShortTimes, ShortDelays
<1> HIDE DEF Inv
<1> QED
  BY <1>1, <1>2, <1>3, PTL DEF SemSpec

LEMMA EventPrompt ==
  ASSUME BlockingBuilds, ShortTimes, EventInv, Clocked(k), [EventNext]_evvars
  PROVE  Clocked(k') /\ InTime
<1>1. IpcInv({event}) /\ {event} \in SUBSET WaitList /\ event \in {event}
  BY EventAssumption DEF EventInv
<1>2. CASE \/ [TasksNext]_vars
           \/ \E c \in Task : EnterBlocked(c)
           \/ \E c \in Task : Returns(c) /\ UNCHANGED k
  BY <1>1, <1>2, OtherPrompt
<1>3. ASSUME NEW c \in Task, NEW r \in Requests, NEW timeout \in Timeouts, EventWait(c, r, timeout)
      PROVE  UNCHANGED vars \/ (Clocked(k') /\ InTime)
  <2>1. Runs(c) /\ (UNCHANGED vars \/ (timeout # NoWait /\ Block(k, c, event, timeout)))
    BY <1>3 DEF EventWait, vars
  <2> QED
    BY <1>1, <2>1, BlockPrompt
<1>4. ASSUME NEW set \in Sets, (\E c \in Task : EventSet(c, set)) \/ IsrSet(set)
      PROVE  UNCHANGED vars \/ (Clocked(k') /\ InTime)
  <2> DEFINE e == LoopEnd(set)
             s == e.k
  <2>1. k.at = "task"
    BY <1>4 DEF EventSet, IsrSet, Runs, Interrupt
  <2>2. \/ UNCHANGED vars
        \/ \E c \in Task : ThenSched(c, s)
        \/ Interrupt(s)
        \/ Interrupt(SchedFromIrq(s))
    BY <1>4 DEF EventSet, IsrSet
  <2>3. e = LoopEnd(set) /\ s = e.k
    OBVIOUS
  <2> HIDE DEF e, s
  <2>4. LooksAfter(e)
    BY <1>1, <2>1, <2>3, AllLookedAt
  <2>5. /\ Safe(s) /\ Fit(s) /\ s.at = "task" /\ s.state[s.cur] = "RUNNING"
        /\ NoneBlocks(s, k, NULL) /\ \A t \in Task : Lives(k, t) => Lives(s, t)
        /\ Eases(s, k)
    BY <2>3, <2>4 DEF LooksAfter, NoneBlocks
  <2> QED
    BY <1>1, <2>1, <2>2, <2>5, WakingPrompt
<1>5. ASSUME UNCHANGED vars PROVE Clocked(k') /\ InTime
  BY <1>2, <1>5
<1> QED
  BY <1>2, <1>3, <1>4, <1>5 DEF EventNext, EventStep, EventClear, EventReturn, evvars, vars

LEMMA QueuePrompt ==
  ASSUME BlockingBuilds, ShortTimes, QueueInv, Clocked(k), [QueueNext]_queuevars
  PROVE  Clocked(k') /\ InTime
<1>1. /\ IpcInv(QueueLists) /\ QueueLists \in SUBSET WaitList
      /\ send_wait \in QueueLists /\ recv_wait \in QueueLists
      /\ send_wait \in WaitList /\ recv_wait \in WaitList
      /\ Sender \subseteq Task /\ Receiver \subseteq Task
  BY QueueAssumption DEF QueueInv, QueueLists
<1>2. CASE \/ [TasksNext]_vars
           \/ \E c \in Task : EnterBlocked(c)
           \/ Interrupt(k)
           \/ \E c \in Task : Returns(c) /\ UNCHANGED k
  BY <1>1, <1>2, OtherPrompt
<1>3. ASSUME NEW l \in QueueLists, k.head[l] # NULL, k.at = "task",
             \/ \E c \in Task : ThenSched(c, HandOff(k, l, "EOK"))
             \/ Interrupt(SchedFromIrq(HandOff(k, l, "EOK")))
      PROVE  Clocked(k') /\ InTime
  BY <1>1, <1>3, HandOffPrompt
<1>4. ASSUME NEW c \in Task, Runs(c), NEW l \in QueueLists, NEW timeout \in Timeouts,
             timeout # NoWait, Block(k, c, l, timeout)
      PROVE  Clocked(k') /\ InTime
  BY <1>1, <1>4, BlockPrompt
<1>5. ASSUME NEW c \in Task, NEW m \in Msg, NEW timeout \in Timeouts, QueueSend(c, m, timeout)
      PROVE  UNCHANGED vars \/ (Clocked(k') /\ InTime)
  BY <1>1, <1>3, <1>4, <1>5
     DEF QueueSend, SendToWaiter, SendBuffered, SendBlocked, Runs
<1>6. ASSUME NEW m \in Msg, IsrSend(m)
      PROVE  Interrupt(k) \/ (Clocked(k') /\ InTime)
  <2>1. k.at = "task"
    BY <1>6 DEF IsrSend, Interrupt
  <2> QED
    BY <1>1, <1>3, <1>6, <2>1 DEF IsrSend
<1>7. ASSUME NEW c \in Task, NEW timeout \in Timeouts, QueueRecv(c, timeout)
      PROVE  UNCHANGED vars \/ (Clocked(k') /\ InTime)
  BY <1>1, <1>3, <1>4, <1>7 DEF QueueRecv, Runs
<1>8. ASSUME UNCHANGED vars PROVE Clocked(k') /\ InTime
  BY <1>2, <1>8
<1> QED
  BY <1>1, <1>2, <1>5, <1>6, <1>7, <1>8 DEF QueueNext, QueueStep, QueueReturn, queuevars, vars

LEMMA MutexPrompt ==
  ASSUME BlockingBuilds, ShortTimes, ~Inherit, MutexInv, Clocked(k), [MutexNext]_mxvars
  PROVE  Clocked(k') /\ InTime
<1>1. IpcInv(Mutex) /\ Mutex \in SUBSET WaitList /\ \A m \in Mutex : m \in WaitList
  BY MutexLists DEF MutexInv
<1>2. CASE \/ [TasksNext]_vars
           \/ \E c \in Task : EnterBlocked(c)
           \/ \E c \in Task : Returns(c) /\ UNCHANGED k
  BY <1>1, <1>2, OtherPrompt
<1>3. ASSUME NEW c \in Task, NEW m \in Mutex, NEW timeout \in Timeouts, MutexLock(c, m, timeout)
      PROVE  UNCHANGED vars \/ (Clocked(k') /\ InTime)
  <2>1. /\ Runs(c) /\ Inherited(c, m) = k
        /\ UNCHANGED vars \/ (timeout # NoWait /\ Block(Inherited(c, m), c, m, timeout))
    BY <1>3 DEF MutexLock, Inherited, vars
  <2> QED
    BY <1>1, <2>1, BlockPrompt
<1>4. ASSUME NEW c \in Task, NEW m \in Mutex, MutexUnlock(c, m)
      PROVE  UNCHANGED vars \/ (Clocked(k') /\ InTime)
  <2>1. k.at = "task" /\ Restored(c, m) = k
    BY <1>4 DEF MutexUnlock, Restored, Runs
  <2>2. UNCHANGED vars \/ (k.head[m] # NULL /\ ThenSched(c, HandOff(k, m, "EOK")))
    BY <1>4, <2>1 DEF MutexUnlock, vars
  <2> QED
    BY <1>1, <2>1, <2>2, HandOffPrompt
<1>5. ASSUME UNCHANGED vars PROVE Clocked(k') /\ InTime
  BY <1>2, <1>5
<1> QED
  BY <1>2, <1>3, <1>4, <1>5 DEF MutexNext, MutexStep, MutexReturn, mxvars, vars

\* A task that waits for flags that do not come is told so at its deadline and at no other
\* tick, also when the scans of os_event_set passed it over again and again.
THEOREM EventsTimeOut ==
  ASSUME BlockingBuilds, ShortTimes PROVE EventSpec => TimesOutOnTime
<1> DEFINE Inv == EventInv /\ Clocked(k)
           OnTime == \A t \in Task : Outcome(t) = "waiting" /\ Outcome(t)' = "ETIMEOUT"
                                       => k.tick = k.deadline[t]
<1>1. EventInit => Inv
  BY EventInvInit, InitClocked DEF EventInit
<1>2. Inv /\ [EventNext]_evvars => Inv' /\ OnTime
  BY EventInvStep, EventPrompt, TimedOutLeft DEF EventInv, IpcInv, Safe
<1> HIDE DEF Inv, OnTime
<1>3. EventSpec => [][OnTime]_vars
  BY <1>1, <1>2, PTL DEF EventSpec
<1> QED
  BY <1>3 DEF TimesOutOnTime, OnTime

\* ... and no deadline goes by while it waits.
THEOREM EventsLeaveNobody ==
  ASSUME BlockingBuilds, ShortTimes, Room PROVE EventSpec => []NobodyOverstays
<1> DEFINE Inv == EventInv /\ Clocked(k)
<1>1. EventInit => Inv
  BY EventInvInit, InitClocked DEF EventInit
<1>2. Inv /\ [EventNext]_evvars => Inv'
  BY EventInvStep, EventPrompt
<1>3. Inv => NobodyOverstays
  BY ClockedMeans DEF EventInv, ShortTimes, ShortDelays
<1> HIDE DEF Inv
<1> QED
  BY <1>1, <1>2, <1>3, PTL DEF EventSpec

\* A send to a full queue, or a receive from an empty one, times out at its deadline.
THEOREM QueuesTimeOut ==
  ASSUME BlockingBuilds, ShortTimes PROVE QueueSpec => TimesOutOnTime
<1> DEFINE Inv == QueueInv /\ Clocked(k)
           OnTime == \A t \in Task : Outcome(t) = "waiting" /\ Outcome(t)' = "ETIMEOUT"
                                       => k.tick = k.deadline[t]
<1>1. QueueInit => Inv
  BY QueueInvInit, InitClocked DEF QueueInit
<1>2. Inv /\ [QueueNext]_queuevars => Inv' /\ OnTime
  BY QueueInvStep, QueuePrompt, TimedOutLeft DEF QueueInv, IpcInv, Safe
<1> HIDE DEF Inv, OnTime
<1>3. QueueSpec => [][OnTime]_vars
  BY <1>1, <1>2, PTL DEF QueueSpec
<1> QED
  BY <1>3 DEF TimesOutOnTime, OnTime

\* ... and no deadline goes by on either of the two wait lists of a queue.
THEOREM QueuesLeaveNobody ==
  ASSUME BlockingBuilds, ShortTimes, Room PROVE QueueSpec => []NobodyOverstays
<1> DEFINE Inv == QueueInv /\ Clocked(k)
<1>1. QueueInit => Inv
  BY QueueInvInit, InitClocked DEF QueueInit
<1>2. Inv /\ [QueueNext]_queuevars => Inv'
  BY QueueInvStep, QueuePrompt
<1>3. Inv => NobodyOverstays
  BY ClockedMeans DEF QueueInv, ShortTimes, ShortDelays
<1> HIDE DEF Inv
<1> QED
  BY <1>1, <1>2, <1>3, PTL DEF QueueSpec

\* A lock of a mutex that its owner keeps times out at its deadline, in builds without
\* priority inheritance.
THEOREM MutexesTimeOut ==
  ASSUME BlockingBuilds, ShortTimes, FewHolds, ~Inherit PROVE MutexSpec => TimesOutOnTime
<1> DEFINE Inv == MutexInv /\ Clocked(k)
           OnTime == \A t \in Task : Outcome(t) = "waiting" /\ Outcome(t)' = "ETIMEOUT"
                                       => k.tick = k.deadline[t]
<1>1. MutexInit => Inv
  BY MutexInvInit, InitClocked DEF MutexInit
<1>2. Inv /\ [MutexNext]_mxvars => Inv' /\ OnTime
  BY MutexInvStep, MutexPrompt, TimedOutLeft DEF MutexInv, IpcInv, Safe
<1> HIDE DEF Inv, OnTime
<1>3. MutexSpec => [][OnTime]_vars
  BY <1>1, <1>2, PTL DEF MutexSpec
<1> QED
  BY <1>3 DEF TimesOutOnTime, OnTime

\* ... and no deadline goes by while the owner keeps it.
THEOREM MutexesLeaveNobody ==
  ASSUME BlockingBuilds, ShortTimes, Room, FewHolds, ~Inherit PROVE MutexSpec => []NobodyOverstays
<1> DEFINE Inv == MutexInv /\ Clocked(k)
<1>1. MutexInit => Inv
  BY MutexInvInit, InitClocked DEF MutexInit
<1>2. Inv /\ [MutexNext]_mxvars => Inv'
  BY MutexInvStep, MutexPrompt
<1>3. Inv => NobodyOverstays
  BY ClockedMeans DEF MutexInv, ShortTimes, ShortDelays
<1> HIDE DEF Inv
<1> QED
  BY <1>1, <1>2, <1>3, PTL DEF MutexSpec
=============================================================================
