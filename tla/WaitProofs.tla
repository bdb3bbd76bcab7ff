------------------------------- MODULE WaitProofs -------------------------------
(***************************************************************************)
(* Proofs about what the blocking calls of module Ipc share.  Quiet says   *)
(* that nobody starts or ends to wait and that the wait lists keep their   *)
(* order: it holds of every step of the kernel and of the task interface,  *)
(* except that a tick may time one task out.  Arrives and Departs say what *)
(* a call that blocks and one that wakes do to the lists.  IpcInv is what  *)
(* an invariant of any object stands on: the lists agree, who is BLOCKED   *)
(* is inside a call that blocks, and waits for an object.                  *)
(*                                                                         *)
(* All of it is about applications that call the kernel with interrupts    *)
(* masked (BlockingBuilds).  Otherwise a tick or an interrupt handler can  *)
(* wake a task between its critical section and its os_sched(), and the    *)
(* task that executes is READY and listed.                                 *)
(***************************************************************************)
EXTENDS Ipc, SleepProofs

Lives(s, t) == s.state[t] \notin {"INIT", "TERMINATED"}

\* What the calls that wait depend on, of every task but x.
SameCalls(r, s, x) ==
  /\ r.build = s.build
  /\ \A u \in Task \ {x} :
       /\ r.state[u] = "BLOCKED" <=> s.state[u] = "BLOCKED"
       /\ Lives(s, u) => Lives(r, u)
       /\ r.result[u] = s.result[u]
       /\ s.state[u] = "BLOCKED" => r.wait[u] = s.wait[u] /\ r.deadline[u] = s.deadline[u]

\* The wait lists, and the links of those on them, x excepted.
SameLines(r, s, x) ==
  /\ \A l \in WaitList : r.head[l] = s.head[l] /\ r.tail[l] = s.tail[l] /\ r.count[l] = s.count[l]
  /\ \A u \in Task \ {x} :
       s.state[u] = "BLOCKED" => r.next[u] = s.next[u] /\ r.prev[u] = s.prev[u]

\* Nobody starts or ends to wait, x excepted.
Quiet(r, s, x) == SameCalls(r, s, x) /\ SameLines(r, s, x)

LEMMA QuietTwice ==
  ASSUME NEW s, NEW r, NEW o, NEW x, Quiet(r, s, x), Quiet(o, r, x)
  PROVE  Quiet(o, s, x)
<1>1. SameCalls(o, s, x)
  BY DEF Quiet, SameCalls
<1>2. SameLines(o, s, x)
  BY DEF Quiet, SameCalls, SameLines
<1> QED
  BY <1>1, <1>2 DEF Quiet

\* A task that does not wait is no exception.
LEMMA QuietForAll ==
  ASSUME NEW s, NEW r, NEW x, Quiet(r, s, x),
         x \in Task => /\ s.state[x] # "BLOCKED" /\ r.state[x] # "BLOCKED"
                       /\ Lives(s, x) => Lives(r, x)
                       /\ r.result[x] = s.result[x]
  PROVE  Quiet(r, s, NULL)
<1>1. SameCalls(r, s, NULL)
  BY DEF Quiet, SameCalls
<1>2. SameLines(r, s, NULL)
  BY DEF Quiet, SameLines
<1> QED
  BY <1>1, <1>2 DEF Quiet

LEMMA QuietForMost ==
  ASSUME NEW s, NEW r, NEW x, Quiet(r, s, NULL)
  PROVE  Quiet(r, s, x)
<1>1. NULL \notin Task
  BY IdleApart
<1> QED
  BY <1>1 DEF Quiet, SameCalls, SameLines

\* Waits may have ended, though none timed out, none began, and none was put off.
Eases(r, s) ==
  /\ Still(r, s)
  /\ \A u \in Task :
       /\ Lives(s, u) => Lives(r, u)
       /\ r.state[u] = "BLOCKED" => s.state[u] = "BLOCKED" /\ r.deadline[u] = s.deadline[u]
       /\ IF s.state[u] = "BLOCKED" /\ r.state[u] # "BLOCKED" THEN r.result[u] # "ETIMEOUT"
                                                             ELSE r.result[u] = s.result[u]

LEMMA EasesTwice ==
  ASSUME NEW s, NEW r, NEW o, Eases(r, s), Eases(o, r)
  PROVE  Eases(o, s)
<1>1. Still(o, s)
  BY StillTwice DEF Eases
<1> QED
  BY <1>1 DEF Eases

LEMMA QuietEases ==
  ASSUME NEW s, NEW r, Quiet(r, s, NULL), Still(r, s)
  PROVE  Eases(r, s)
  BY IdleApart DEF Quiet, SameCalls, Eases

LEMMA EasesSelf == ASSUME NEW s PROVE Eases(s, s)
  BY DEF Eases, Still, SameEntries

\* A field that no call that waits depends on is written.
LEMMA OtherQuiet ==
  ASSUME NEW s, NEW r, SameLinks(r, s), r.state = s.state, r.build = s.build,
         r.result = s.result, r.wait = s.wait, r.deadline = s.deadline
  PROVE  Quiet(r, s, NULL)
BY DEF Quiet, SameCalls, SameLines, SameLinks, Lives

-----------------------------------------------------------------------------
(* The functions of the kernel.                                            *)

\* The last task of a ready list does not wait.
TailsReady(s) == \A p \in Prio : s.tail[p] = NULL \/ s.state[s.tail[p]] # "BLOCKED"

LEMMA ReadyTails ==
  ASSUME NEW s, NEW x, LinksAgree(s, x)
  PROVE  TailsReady(s)
<1> SUFFICES ASSUME NEW p \in Prio, s.tail[p] # NULL
             PROVE  s.state[s.tail[p]] # "BLOCKED"
  BY DEF TailsReady
<1>1. Chained(s, p, On(s, p, x))
  BY ListsNameTasks DEF LinksAgree
<1>2. s.tail[p] \in On(s, p, x)
  BY <1>1, ChainEnds
<1> QED
  BY <1>2 DEF On

LEMMA ReadyAddQuiet ==
  ASSUME NEW s \in KernelType, NEW t \in Tcb, TailsReady(s), NEW r, r = ReadyAdd(s, t)
  PROVE  Quiet(r, s, t)
<1> DEFINE p == s.prio[t]
           a == ListAppend(s, p, t)
           last == s.tail[p]
<1>1. p = s.prio[t] /\ a = ListAppend(s, p, t) /\ last = s.tail[p]
  OBVIOUS
<1> HIDE DEF p, a, last
<1>2. /\ p \in Prio /\ p \in List
      /\ r \in KernelType /\ SameData(r, s) /\ r.state = [s.state EXCEPT ![t] = "READY"]
      /\ a \in KernelType /\ SameRest(a, s)
      /\ SameLinks(r, a) /\ r.bitmap = s.bitmap \cup {p}
  BY <1>1, ReadyAddFields
<1>3. /\ \A u \in Tcb :
           /\ a.next[u] = IF u = last THEN t ELSE IF u = t THEN NULL ELSE s.next[u]
           /\ a.prev[u] = IF u = t THEN last ELSE s.prev[u]
      /\ \A m \in List : m # p =>
           a.head[m] = s.head[m] /\ a.tail[m] = s.tail[m] /\ a.count[m] = s.count[m]
  <2>1. p \in List /\ a = ListAppend(s, p, t) /\ last = s.tail[p]
    BY <1>1, <1>2
  <2> QED
    BY <2>1, AppendFields
<1>5. last = NULL \/ s.state[last] # "BLOCKED"
  BY <1>1, <1>2 DEF TailsReady
<1>6. s.state \in [Tcb -> States]
  BY DEF KernelType
<1>7. SameCalls(r, s, t)
  <2>1. \A u \in Task \ {t} : r.state[u] = s.state[u]
    BY <1>2, <1>6, IdleApart
  <2>2. r.build = s.build /\ r.result = s.result /\ r.wait = s.wait /\ r.deadline = s.deadline
    BY <1>2 DEF SameData
  <2> QED
    BY <2>1, <2>2 DEF SameCalls, Lives
<1>8. SameLines(r, s, t)
  <2>1. ASSUME NEW l \in WaitList
        PROVE  r.head[l] = s.head[l] /\ r.tail[l] = s.tail[l] /\ r.count[l] = s.count[l]
    <3>1. l \in List /\ l # p
      BY <1>2, ListAssumption, ListsNameTasks
    <3> QED
      BY <1>2, <1>3, <3>1 DEF SameLinks
  <2>2. ASSUME NEW u \in Task \ {t}, s.state[u] = "BLOCKED"
        PROVE  r.next[u] = s.next[u] /\ r.prev[u] = s.prev[u]
    <3>1. u \in Tcb /\ u # last /\ u # t
      BY <1>5, <2>2, IdleApart
    <3> QED
      BY <1>2, <1>3, <3>1 DEF SameLinks
  <2> QED
    BY <2>1, <2>2 DEF SameLines
<1> QED
  BY <1>7, <1>8 DEF Quiet

\* ... of a task that is not waiting
LEMMA ReadyAddAllQuiet ==
  ASSUME NEW s \in KernelType, NEW t \in Tcb, TailsReady(s), s.state[t] # "BLOCKED",
         NEW r, r = ReadyAdd(s, t)
  PROVE  Quiet(r, s, NULL)
<1>1. Quiet(r, s, t)
  BY ReadyAddQuiet
<1>2. r.state = [s.state EXCEPT ![t] = "READY"] /\ SameData(r, s) /\ s.state \in [Tcb -> States]
  <2>1. r.state = [s.state EXCEPT ![t] = "READY"] /\ SameData(r, s)
    BY ReadyAddFields
  <2>2. s.state \in [Tcb -> States]
    BY DEF KernelType
  <2> QED
    BY <2>1, <2>2
<1>3. r.state[t] = "READY" /\ r.result = s.result
  BY <1>2 DEF SameData
<1> QED
  BY <1>1, <1>3, QuietForAll DEF Lives

LEMMA ReadyRemoveQuiet ==
  ASSUME NEW s \in KernelType, LinksAgree(s, NULL), NEW t \in Task, s.state[t] = "READY",
         NEW r, r = ReadyRemove(s, t)
  PROVE  Quiet(r, s, NULL)
<1> DEFINE l == s.prio[t]
           a == ListRemove(s, l, t)
           p == s.prev[t]
           n == s.next[t]
<1>1. l = s.prio[t] /\ a = ListRemove(s, l, t) /\ p = s.prev[t] /\ n = s.next[t] /\ t \in Tcb
  BY IdleApart
<1> HIDE DEF l, a, p, n
<1>2. /\ l \in Prio /\ l \in List
      /\ r \in KernelType /\ SameRest(r, s)
      /\ a \in KernelType /\ SameRest(a, s)
      /\ SameLinks(r, a)
  BY <1>1, ReadyRemoveFields
<1>3. /\ \A u \in Tcb :
           /\ a.next[u] = IF u = t THEN NULL ELSE IF u = p THEN n ELSE s.next[u]
           /\ a.prev[u] = IF u = t THEN NULL ELSE IF u = n THEN p ELSE s.prev[u]
      /\ \A m \in List : m # l =>
           a.head[m] = s.head[m] /\ a.tail[m] = s.tail[m] /\ a.count[m] = s.count[m]
  BY <1>1, <1>2, RemoveFields
<1>4. n \in On(s, l, NULL) \cup {NULL} /\ p \in On(s, l, NULL) \cup {NULL}
  <2>1. Chained(s, l, On(s, l, NULL)) /\ t \in On(s, l, NULL)
    BY <1>1, <1>2, IdleApart DEF LinksAgree, On
  <2> QED
    BY <1>1, <2>1, ChainNeighbours
<1>5. \A u \in Task : s.state[u] = "BLOCKED" => u # t /\ u # p /\ u # n
  BY <1>2, <1>4, IdleApart DEF On
<1>6. SameCalls(r, s, NULL)
  BY <1>2 DEF SameCalls, SameRest, SameData, Lives
<1>7. SameLines(r, s, NULL)
  <2>1. ASSUME NEW m \in WaitList
        PROVE  r.head[m] = s.head[m] /\ r.tail[m] = s.tail[m] /\ r.count[m] = s.count[m]
    <3>1. m \in List /\ m # l
      BY <1>2, ListAssumption, ListsNameTasks
    <3> QED
      BY <1>2, <1>3, <3>1 DEF SameLinks
  <2>2. ASSUME NEW u \in Task, s.state[u] = "BLOCKED"
        PROVE  r.next[u] = s.next[u] /\ r.prev[u] = s.prev[u]
    <3>1. u \in Tcb /\ u # t /\ u # p /\ u # n
      BY <1>5, <2>2, IdleApart
    <3> QED
      BY <1>2, <1>3, <3>1 DEF SameLinks
  <2> QED
    BY <2>1, <2>2 DEF SameLines
<1> QED
  BY <1>6, <1>7 DEF Quiet

\* A task that is not waiting is taken off its list.
LEMMA UnlistQuiet ==
  ASSUME NEW s, Fit(s), NEW t \in Task, NEW r, r = IF s.state[t] = "READY" THEN ReadyRemove(s, t) ELSE s
  PROVE  Quiet(r, s, NULL)
<1>1. s \in KernelType /\ LinksAgree(s, NULL) /\ Quiet(s, s, NULL)
  BY OtherQuiet DEF Fit, SameLinks
<1> QED
  BY <1>1, ReadyRemoveQuiet

LEMMA GiveQuiet ==
  ASSUME NEW s \in KernelType, NEW t \in Tcb, t \in Task => s.state[t] # "BLOCKED",
         NEW r, r = Give(s, t)
  PROVE  Quiet(r, s, NULL)
<1>1. Gives(r, s, t)
  BY GiveFields
<1>2. SameLinks(r, s) /\ r.build = s.build /\ r.wait = s.wait
      /\ \A u \in Tcb : r.state[u] = IF u = t THEN "RUNNING" ELSE s.state[u]
  BY <1>1 DEF Gives, SameLists
<1>3. r.result = s.result /\ r.deadline = s.deadline
  BY DEF Give, KernelType
<1>4. SameCalls(r, s, NULL)
  BY <1>2, <1>3, IdleApart DEF SameCalls, Lives
<1>5. SameLines(r, s, NULL)
  BY <1>2 DEF SameLines, SameLinks
<1> QED
  BY <1>4, <1>5 DEF Quiet

\* os_sched, called by a task whose stack is sound
LEMMA CallSchedQuiet ==
  ASSUME NEW s \in KernelType, s.guard[s.cur]
  PROVE  Quiet(CallSched(s), s, NULL)
<1> DEFINE late == [s EXCEPT !.pend = TRUE]
           entered == [s EXCEPT !.pend = FALSE, !.at = "sched"]
<1>1. CallSched(s) \in {s, late, entered}
  BY DEF CallSched
<1>2. /\ SameLinks(late, s) /\ late.state = s.state /\ late.build = s.build
      /\ late.result = s.result /\ late.wait = s.wait /\ late.deadline = s.deadline
  BY DEF KernelType, SameLinks
<1>3. /\ SameLinks(entered, s) /\ entered.state = s.state /\ entered.build = s.build
      /\ entered.result = s.result /\ entered.wait = s.wait /\ entered.deadline = s.deadline
  BY DEF KernelType, SameLinks
<1> HIDE DEF late, entered
<1>4. Quiet(s, s, NULL) /\ Quiet(late, s, NULL) /\ Quiet(entered, s, NULL)
  BY <1>2, <1>3, OtherQuiet DEF SameLinks
<1> QED
  BY <1>1, <1>4

LEMMA ThenSchedQuiet ==
  ASSUME NEW c \in Task, NEW s \in KernelType, s.guard[s.cur], Quiet(s, k, NULL), ThenSched(c, s)
  PROVE  Quiet(k', k, NULL)
<1>1. k' = s \/ k' = CallSched(s)
  BY DEF ThenSched
<1>2. Quiet(CallSched(s), s, NULL)
  BY CallSchedQuiet
<1> QED
  BY <1>1, <1>2, QuietTwice

LEMMA SwitchToQuiet ==
  ASSUME NEW s, Safe(s), Fit(s), s.cur \in Tcb, NEW t, t = Highest(s), t # s.cur,
         NEW w, w = SwitchTo(s, t)
  PROVE  Quiet(w, s, NULL)
<1> DEFINE c == s.cur
           r == IF t = Idle THEN s ELSE ReadyRemove(s, t)
           back == [r EXCEPT !.state[Idle] = "READY"]
           o == IF r.state[c] # "RUNNING" THEN r
                ELSE IF c = Idle THEN back ELSE ReadyAdd(r, c)
<1>1. /\ t \in Tcb /\ (t # Idle => t \in Task /\ s.state[t] = "READY")
      /\ r \in KernelType /\ LinksAgree(r, t) /\ SameRest(r, s) /\ c \in Tcb /\ c # t
  BY TakeHighest
<1>2. w = Give(o, t)
  BY DEF SwitchTo, Give
<1>3. Quiet(r, s, NULL)
  <2>1. Quiet(s, s, NULL)
    BY OtherQuiet DEF SameLinks
  <2>2. s \in KernelType /\ LinksAgree(s, NULL)
    BY DEF Fit
  <2> QED
    BY <1>1, <2>1, <2>2, ReadyRemoveQuiet
<1> HIDE DEF r, c
<1>4. o \in KernelType /\ Quiet(o, r, NULL)
  <2>1. CASE r.state[c] # "RUNNING"
    BY <1>1, <2>1, OtherQuiet DEF SameLinks
  <2>2. CASE r.state[c] = "RUNNING" /\ c = Idle
    <3>1. "READY" \in States /\ o = back
      BY <2>2 DEF States
    <3>2. /\ back \in KernelType /\ SameData(back, r) /\ back.state = [r.state EXCEPT ![Idle] = "READY"]
          /\ back.next = r.next /\ back.prev = r.prev /\ back.head = r.head /\ back.tail = r.tail
          /\ back.count = r.count
      BY <1>1, <3>1, IdleApart, PutState
    <3> HIDE DEF back
    <3>3. r.state \in [Tcb -> States]
      BY <1>1 DEF KernelType
    <3>4. \A u \in Task : back.state[u] = r.state[u]
      BY <3>2, <3>3, IdleApart
    <3>5. Quiet(back, r, NULL)
      BY <3>2, <3>4 DEF Quiet, SameCalls, SameLines, SameData, Lives
    <3> HIDE DEF o
    <3> QED
      BY <3>1, <3>2, <3>5
  <2>3. CASE r.state[c] = "RUNNING" /\ c # Idle
    <3>1. o = ReadyAdd(r, c) /\ c \in Tcb
      BY <1>1, <2>3
    <3> HIDE DEF o
    <3>2. o \in KernelType
      BY <1>1, <3>1, ReadyAddKeeps
    <3>3. r.state[c] # "BLOCKED" /\ r \in KernelType /\ TailsReady(r)
      BY <1>1, <2>3, ReadyTails
    <3>4. Quiet(o, r, NULL)
      BY <3>1, <3>3, ReadyAddAllQuiet
    <3> QED
      BY <3>2, <3>4
  <2> QED
    BY <2>1, <2>2, <2>3
<1> HIDE DEF o
<1>5. t \in Task => o.state[t] # "BLOCKED"
  BY <1>1, <1>3, <1>4, IdleApart DEF Quiet, SameCalls, SameRest
<1>6. Quiet(w, o, NULL)
  BY <1>1, <1>2, <1>4, <1>5, GiveQuiet
<1> QED
  BY <1>3, <1>4, <1>6, QuietTwice

\* The time slice of the current task.
LEMMA SliceQuiet ==
  ASSUME SoundBuilds, NEW s, Safe(s), Fit(s), s.at = "tick", CurRuns(s), NEW r, r = SliceTick(s)
  PROVE  Quiet(r, s, NULL)
<1> DEFINE c == s.cur
           less == [s EXCEPT !.slice[c] = s.slice[c] - 1]
           full == [s EXCEPT !.slice[c] = SliceTicks]
<1>1. /\ s \in KernelType /\ c \in Tcb /\ Quiet(s, s, NULL) /\ SliceTicks \in 0 .. SliceTicks
      /\ TailsReady(s)
  BY SchedAssumption, OtherQuiet, ReadyTails DEF Safe, Fit, SameLinks
<1>2. s.build.slices => s.state[c] = "RUNNING"
  BY DEF SoundBuilds, Fit, Stands, Habits, CurRuns
<1>3. Quiet(less, s, NULL)
  <2>1. /\ SameLinks(less, s) /\ less.state = s.state /\ less.build = s.build
        /\ less.result = s.result /\ less.wait = s.wait /\ less.deadline = s.deadline
    BY <1>1 DEF KernelType, SameLinks
  <2> HIDE DEF less
  <2> QED
    BY <2>1, OtherQuiet
<1>4. Quiet(full, s, NULL) /\ full \in KernelType /\ full.state = s.state /\ TailsReady(full)
  <2>1. /\ SameLinks(full, s) /\ full.state = s.state /\ full.build = s.build
        /\ full.result = s.result /\ full.wait = s.wait /\ full.deadline = s.deadline
        /\ full \in KernelType
    BY <1>1 DEF KernelType, SameLinks
  <2> HIDE DEF full
  <2> QED
    BY <1>1, <2>1, OtherQuiet DEF TailsReady, SameLinks
<1>5. \/ r \in {s, less, full}
      \/ s.build.slices /\ r = ReadyAdd(full, c)
  BY DEF SliceTick
<1> HIDE DEF c, less, full
<1>6. ASSUME s.build.slices, r = ReadyAdd(full, c) PROVE Quiet(r, s, NULL)
  <2>1. Quiet(r, full, NULL)
    BY <1>1, <1>2, <1>4, <1>6, ReadyAddAllQuiet
  <2> QED
    BY <1>4, <2>1, QuietTwice
<1> QED
  BY <1>1, <1>3, <1>4, <1>5, <1>6

\* os_task_create
LEMMA CreatedQuiet ==
  ASSUME NEW s, Fit(s), NEW t \in Task, s.state[t] \in {"INIT", "TERMINATED"},
         NEW p \in Prio, NEW r, r = Created(s, t, p)
  PROVE  Quiet(r, s, NULL)
<1> DEFINE a == [s EXCEPT !.next[t] = NULL, !.prev[t] = NULL, !.prio[t] = p]
           b == [a EXCEPT !.base[t] = p, !.slice[t] = SliceTicks, !.wait[t] = NULL]
           entries == IF Len(s.table) < TaskMax THEN Append(s.table, t) ELSE s.table
           o == [b EXCEPT !.deadline[t] = 0, !.guard[t] = TRUE, !.table = entries]
<1>1. /\ s \in KernelType /\ t \in Tcb /\ SliceTicks \in 0 .. SliceTicks /\ 0 \in Tick
      /\ TailsReady(s)
  BY SchedAssumption, IdleApart, ReadyTails DEF Tick, Fit
<1>2. r = ReadyAdd(o, t) /\ entries \in Seq(Tcb)
  BY <1>1 DEF Created, KernelType
<1> HIDE DEF entries
<1>3. /\ a \in KernelType /\ a.head = s.head /\ a.tail = s.tail /\ a.count = s.count
      /\ a.state = s.state /\ a.build = s.build /\ a.result = s.result /\ a.wait = s.wait
      /\ a.deadline = s.deadline
      /\ \A u \in Tcb \ {t} : a.next[u] = s.next[u] /\ a.prev[u] = s.prev[u]
  BY <1>1 DEF KernelType, Link
<1> HIDE DEF a
<1>4. /\ b \in KernelType /\ SameLinks(b, a)
      /\ b.state = a.state /\ b.build = a.build /\ b.result = a.result
      /\ b.deadline = a.deadline
      /\ \A u \in Tcb \ {t} : b.wait[u] = a.wait[u]
  BY <1>1, <1>3 DEF KernelType, SameLinks
<1> HIDE DEF b
<1>5. /\ o \in KernelType /\ SameLinks(o, b)
      /\ o.state = b.state /\ o.build = b.build /\ o.result = b.result
      /\ o.wait = b.wait
      /\ \A u \in Tcb \ {t} : o.deadline[u] = b.deadline[u]
  BY <1>1, <1>2, <1>4 DEF KernelType, SameLinks
<1> HIDE DEF o
<1>6. o.state = s.state /\ o.tail = s.tail
  BY <1>3, <1>4, <1>5 DEF SameLinks
<1>7. Quiet(o, s, NULL)
  <2>1. SameCalls(o, s, NULL)
    <3>1. ASSUME NEW u \in Task, s.state[u] = "BLOCKED"
          PROVE  o.wait[u] = s.wait[u] /\ o.deadline[u] = s.deadline[u]
      <4>1. u \in Tcb \ {t}
        BY <3>1, IdleApart
      <4> QED
        BY <1>3, <1>4, <1>5, <4>1
    <3> QED
      BY <1>3, <1>4, <1>5, <1>6, <3>1 DEF SameCalls, Lives
  <2>2. SameLines(o, s, NULL)
    <3>1. ASSUME NEW u \in Task, s.state[u] = "BLOCKED"
          PROVE  o.next[u] = s.next[u] /\ o.prev[u] = s.prev[u]
      <4>1. u \in Tcb \ {t}
        BY <3>1, IdleApart
      <4> QED
        BY <1>3, <1>4, <1>5, <4>1 DEF SameLinks
    <3> QED
      BY <1>3, <1>4, <1>5, <3>1 DEF SameLines, SameLinks
  <2> QED
    BY <2>1, <2>2 DEF Quiet
<1>8. Quiet(r, o, NULL)
  <2>1. TailsReady(o) /\ o.state[t] # "BLOCKED"
    BY <1>1, <1>6 DEF TailsReady
  <2> QED
    BY <1>1, <1>2, <1>5, <2>1, ReadyAddAllQuiet
<1> QED
  BY <1>7, <1>8, QuietTwice

-----------------------------------------------------------------------------
(* The steps of applications that may block.                               *)

\* Where the calls that wait may be made.
Waits(s) == Safe(s) /\ Sound(s) /\ MayBlock(s.build)

LEMMA FitTells ==
  ASSUME NEW s, Fit(s), MayBlock(s.build)
  PROVE  /\ s \in KernelType /\ LinksAgree(s, NULL) /\ Stands(s) /\ TailsReady(s)
         /\ \A t \in Tcb : s.guard[t]
         /\ s.lock = 0 /\ s.build.masked
         /\ {"lock", "overflow", "delete", "suspend"} \cap s.build.ops = {}
         /\ Quiet(s, s, NULL)
<1>1. s \in KernelType /\ LinksAgree(s, NULL) /\ Stands(s)
  BY DEF Fit
<1>2. \A t \in Tcb : s.guard[t]
  BY <1>1 DEF Stands, Habits, MayBlock, Tcb
<1>3. Quiet(s, s, NULL)
  BY OtherQuiet DEF SameLinks
<1> QED
  BY <1>1, <1>2, <1>3, ReadyTails DEF Stands, Habits, MayBlock, Calm

LEMMA CreateQuiet ==
  ASSUME SoundBuilds, Waits(k), NEW c \in Task, NEW t \in Task, NEW p \in CreatePrio[t],
         MainCreate(t, p) \/ TaskCreate(c, t, p)
  PROVE  Quiet(k', k, NULL)
<1> DEFINE s == Created(k, t, p)
<1>1. /\ k.state[t] \in {"INIT", "TERMINATED"} /\ p \in Prio /\ Safe(k) /\ Fit(k)
      /\ s = Created(k, t, p) /\ MayBlock(k.build)
  BY SchedAssumption DEF MainCreate, TaskCreate, Reusable, Waits, Sound
<1>2. k' = s \/ (k' = CallSched(s) /\ k.cur \in Tcb)
  BY <1>1, FitTells, IdleApart DEF MainCreate, TaskCreate, Runs
<1> HIDE DEF s
<1>3. Quiet(s, k, NULL)
  BY <1>1, CreatedQuiet
<1>4. /\ Fit(s) /\ s.at = k.at /\ s.cur = k.cur /\ s.build = k.build
      /\ s.state = [k.state EXCEPT ![t] = "READY"]
  BY <1>1, CreatedFit
<1>5. ASSUME k.cur \in Tcb PROVE Quiet(CallSched(s), s, NULL)
  <2>1. s \in KernelType /\ s.guard[s.cur]
    BY <1>1, <1>4, <1>5, FitTells
  <2> QED
    BY <2>1, CallSchedQuiet
<1> QED
  BY <1>2, <1>3, <1>5, QuietTwice

\* The call of a task whose critical section has made s.
LEMMA CallQuiet ==
  ASSUME Waits(k), NEW c \in Task, NEW s \in KernelType, s.guard = k.guard, s.cur = k.cur,
         k.cur \in Tcb, Quiet(s, k, NULL), ThenSched(c, s)
  PROVE  Quiet(k', k, NULL)
<1>1. Fit(k) /\ MayBlock(k.build)
  BY DEF Waits, Sound
<1>2. s.guard[s.cur]
  BY <1>1, FitTells
<1> QED
  BY <1>2, ThenSchedQuiet

\* A task that is not waiting goes to sleep.
LEMMA StateQuiet ==
  ASSUME NEW s \in KernelType, NEW t \in Task, s.state[t] # "BLOCKED", NEW r,
         SameLinks(r, s), SameData(r, s), r.state = [s.state EXCEPT ![t] = "SLEEPING"]
  PROVE  Quiet(r, s, NULL)
<1>1. \A u \in Task : r.state[u] = IF u = t THEN "SLEEPING" ELSE s.state[u]
  BY IdleApart DEF KernelType
<1>2. SameCalls(r, s, NULL)
  BY <1>1 DEF SameCalls, SameData, Lives
<1>3. SameLines(r, s, NULL)
  BY DEF SameLines, SameLinks
<1> QED
  BY <1>2, <1>3 DEF Quiet

LEMMA DelayQuiet ==
  ASSUME Waits(k), NEW c \in Task, NEW ticks \in Delays, TaskDelay(c, ticks)
  PROVE  Quiet(k', k, NULL)
<1> DEFINE u == IF k.state[c] = "READY" THEN ReadyRemove(k, c) ELSE k
           due == (k.tick + ticks) % TickMod
           w == [u EXCEPT !.wake[c] = due]
           s == [w EXCEPT !.state[c] = "SLEEPING"]
<1>1. /\ Safe(k) /\ Fit(k) /\ k.state[c] = "RUNNING" /\ k.cur = c /\ c \in Tcb /\ k \in KernelType
      /\ "SLEEPING" \in States /\ k.tick \in Tick /\ ticks \in Nat
  BY IdleApart, SchedAssumption
     DEF Waits, Sound, MayBlock, CurRuns, Runs, TaskDelay, Safe, Fit, KernelType, States
<1>2. due \in Tick
  <2>1. \A n \in Nat : n % TickMod \in 0 .. TickMod - 1
    BY SchedAssumption
  <2> QED
    BY <1>1, <2>1, SchedAssumption DEF Tick
<1>3. u = k
  BY <1>1
<1>4. Delayed(k, c, ticks) = [k EXCEPT !.wake[c] = due, !.state[c] = "SLEEPING"]
  BY <1>1 DEF Delayed
<1>5. ThenSched(c, Delayed(k, c, ticks))
  BY DEF TaskDelay
<1> HIDE DEF u, due
<1>6. /\ w \in KernelType /\ SameLinks(w, k) /\ w.state = k.state /\ w.build = k.build
      /\ w.result = k.result /\ w.wait = k.wait /\ w.deadline = k.deadline
      /\ w.guard = k.guard /\ w.cur = k.cur
  <2> DEFINE wakes == [k.wake EXCEPT ![c] = due]
  <2>1. w = [k EXCEPT !.wake = wakes]
    BY <1>3
  <2>2. wakes \in [Tcb -> Tick]
    BY <1>1, <1>2 DEF KernelType
  <2> HIDE DEF wakes, w
  <2> QED
    BY <1>1, <2>1, <2>2 DEF KernelType, SameLinks
<1>7. Delayed(k, c, ticks) = s
  BY <1>3, <1>4, <1>1 DEF KernelType
<1> HIDE DEF w
<1>8. /\ s \in KernelType /\ SameData(s, w) /\ s.state = [w.state EXCEPT ![c] = "SLEEPING"]
      /\ s.next = w.next /\ s.prev = w.prev /\ s.head = w.head /\ s.tail = w.tail
      /\ s.count = w.count /\ s.bitmap = w.bitmap
  BY <1>1, <1>6, PutState
<1> HIDE DEF s
<1>9. Quiet(w, k, NULL)
  BY <1>6, OtherQuiet
<1>10. Quiet(s, w, NULL)
  <2>1. SameLinks(s, w) /\ w.state[c] # "BLOCKED"
    BY <1>1, <1>6, <1>8 DEF SameLinks
  <2> QED
    BY <1>6, <1>8, <2>1, StateQuiet
<1>11. s.guard = k.guard /\ s.cur = k.cur /\ k.cur \in Tcb
  BY <1>1, <1>6, <1>8 DEF SameData
<1>12. Quiet(s, k, NULL)
  BY <1>9, <1>10, QuietTwice
<1> QED
  BY <1>5, <1>7, <1>8, <1>11, <1>12, CallQuiet

LEMMA ResumeQuiet ==
  ASSUME Waits(k), NEW c \in Task, NEW t \in Task, TaskResume(c, t)
  PROVE  Quiet(k', k, NULL)
<1> DEFINE s == Resumed(k, t)
<1>1. /\ k \in KernelType /\ TailsReady(k) /\ Quiet(k, k, NULL) /\ k.cur \in Tcb /\ t \in Tcb
      /\ ThenSched(c, s) /\ s = Resumed(k, t)
  BY IdleApart, FitTells DEF Waits, Sound, TaskResume, Runs
<1> HIDE DEF s
<1>2. CASE s = k
  BY <1>1, <1>2, CallQuiet
<1>3. CASE s = ReadyAdd(k, t) /\ k.state[t] # "BLOCKED"
  <2>1. Quiet(s, k, NULL)
    BY <1>1, <1>3, ReadyAddAllQuiet
  <2>2. s \in KernelType /\ SameData(s, k)
    <3>1. k \in KernelType /\ t \in Tcb /\ s = ReadyAdd(k, t)
      BY <1>1, <1>3
    <3> QED
      BY <3>1, ReadyAddFields
  <2>3. s.guard = k.guard /\ s.cur = k.cur
    BY <2>2 DEF SameData
  <2> QED
    BY <1>1, <2>1, <2>2, <2>3, CallQuiet
<1> QED
  BY <1>1, <1>2, <1>3 DEF Resumed

LEMMA YieldQuiet ==
  ASSUME Waits(k), NEW c \in Task, TaskYield(c)
  PROVE  Quiet(k', k, NULL)
<1> DEFINE s == ReadyAdd(k, c)
<1>1. /\ k \in KernelType /\ TailsReady(k) /\ Quiet(k, k, NULL) /\ k.cur \in Tcb /\ c \in Tcb
      /\ k' = k \/ (ThenSched(c, s) /\ k.state[c] = "RUNNING")
      /\ s = ReadyAdd(k, c)
  BY IdleApart, FitTells DEF Waits, Sound, TaskYield, Runs, vars
<1> HIDE DEF s
<1>2. ASSUME ThenSched(c, s), k.state[c] = "RUNNING" PROVE Quiet(k', k, NULL)
  <2>1. Quiet(s, k, NULL)
    BY <1>1, <1>2, ReadyAddAllQuiet
  <2>2. s \in KernelType /\ SameData(s, k)
    BY <1>1, ReadyAddFields
  <2>3. s.guard = k.guard /\ s.cur = k.cur
    BY <2>2 DEF SameData
  <2> QED
    BY <1>1, <1>2, <2>1, <2>2, <2>3, CallQuiet
<1> QED
  BY <1>1, <1>2

LEMMA SetPrioQuiet ==
  ASSUME Waits(k), NEW c \in Task, NEW t \in Task, NEW p \in CreatePrio[t], TaskSetPrio(c, t, p)
  PROVE  Quiet(k', k, NULL)
<1> DEFINE s == RePrio(k, t, p)
           off == IF k.state[t] = "READY" THEN ReadyRemove(k, t) ELSE k
           v == IF k.prio[t] = k.base[t] \/ p < k.prio[t] THEN p ELSE off.prio[t]
           set == [off EXCEPT !.prio[t] = v, !.base[t] = p]
<1>1. /\ Fit(k) /\ k \in KernelType /\ LinksAgree(k, NULL) /\ TailsReady(k) /\ Quiet(k, k, NULL)
      /\ k.cur \in Tcb /\ t \in Tcb /\ p \in Prio
      /\ k' = k \/ ThenSched(c, s)
      /\ off = IF k.state[t] = "READY" THEN ReadyRemove(k, t) ELSE k
      /\ k.prio[t] \in Prio
  <2>1. /\ Fit(k) /\ k \in KernelType /\ LinksAgree(k, NULL) /\ TailsReady(k) /\ Quiet(k, k, NULL)
    BY FitTells DEF Waits, Sound
  <2>2. k' = k \/ ThenSched(c, s)
    BY DEF TaskSetPrio, vars
  <2>3. k.cur \in Tcb /\ t \in Tcb /\ p \in Prio
    BY IdleApart, SchedAssumption DEF TaskSetPrio, Runs
  <2>4. k.prio[t] \in Prio
    BY <2>1, <2>3 DEF KernelType
  <2> QED
    BY <2>1, <2>2, <2>3, <2>4
<1>2. s = IF k.state[t] = "READY" THEN ReadyAdd(set, t) ELSE set
  BY DEF RePrio
<1> HIDE DEF off, s
<1>3. off \in KernelType /\ SameRest(off, k) /\ Quiet(off, k, NULL) /\ TailsReady(off)
  <2>1. Quiet(off, k, NULL)
    BY <1>1, UnlistQuiet
  <2>2. CASE k.state[t] = "READY"
    BY <1>1, <2>1, <2>2, UnlistFit, ReadyTails
  <2>3. CASE k.state[t] # "READY"
    BY <1>1, <2>1, <2>3 DEF SameRest, SameData
  <2> QED
    BY <2>2, <2>3
<1>4. off.state = k.state /\ off.prio = k.prio /\ off.guard = k.guard /\ off.cur = k.cur
  BY <1>3 DEF SameRest, SameData
<1>5. v \in Prio
  BY <1>1, <1>4
<1> HIDE DEF v
<1>6. /\ set \in KernelType /\ SameLinks(set, off) /\ set.state = off.state /\ set.wait = off.wait
      /\ set.build = off.build /\ set.guard = off.guard /\ set.cur = off.cur
      /\ set.result = off.result /\ set.deadline = off.deadline
  <2>1. set \in KernelType
    <3> DEFINE prio == [off.prio EXCEPT ![t] = v]
               base == [off.base EXCEPT ![t] = p]
    <3>1. set = [off EXCEPT !.prio = prio, !.base = base]
      OBVIOUS
    <3>2. prio \in [Tcb -> Prio] /\ base \in [Tcb -> Prio]
      BY <1>1, <1>3, <1>5 DEF KernelType
    <3> HIDE DEF prio, base, set
    <3> QED
      BY <1>3, <3>1, <3>2 DEF KernelType
  <2>2. /\ SameLinks(set, off) /\ set.state = off.state /\ set.wait = off.wait
        /\ set.build = off.build /\ set.guard = off.guard /\ set.cur = off.cur
        /\ set.result = off.result /\ set.deadline = off.deadline
    BY <1>3 DEF KernelType, SameLinks
  <2> QED
    BY <2>1, <2>2
<1> HIDE DEF set
<1>7. Quiet(set, off, NULL) /\ TailsReady(set)
  BY <1>3, <1>6, OtherQuiet DEF TailsReady, SameLinks
<1>8. s \in KernelType /\ s.guard = k.guard /\ s.cur = k.cur /\ Quiet(s, set, NULL)
  <2>1. CASE k.state[t] = "READY"
    <3>1. s = ReadyAdd(set, t) /\ set.state[t] # "BLOCKED"
      BY <1>2, <1>4, <1>6, <2>1
    <3>2. s \in KernelType /\ SameData(s, set)
      BY <1>1, <1>6, <3>1, ReadyAddFields
    <3>3. Quiet(s, set, NULL)
      BY <1>1, <1>6, <1>7, <3>1, ReadyAddAllQuiet
    <3> QED
      BY <1>4, <1>6, <3>2, <3>3 DEF SameData
  <2>2. CASE k.state[t] # "READY"
    BY <1>2, <1>4, <1>6, <2>2, OtherQuiet DEF SameLinks
  <2> QED
    BY <2>1, <2>2
<1>9. Quiet(s, k, NULL)
  BY <1>3, <1>7, <1>8, QuietTwice
<1> QED
  BY <1>1, <1>8, <1>9, CallQuiet

LEMMA TaskStepQuiet ==
  ASSUME SoundBuilds, Waits(k), NEW c \in Task, TaskStep(c)
  PROVE  Quiet(k', k, NULL)
<1>1. {"lock", "overflow", "delete", "suspend"} \cap k.build.ops = {}
  BY FitTells DEF Waits, Sound
<1>2. CASE EnterSched(c)
  <2>1. k \in KernelType /\ k.guard[k.cur] /\ k' = CallSched(k)
    BY <1>2, FitTells, IdleApart DEF Waits, Sound, EnterSched
  <2> QED
    BY <2>1, CallSchedQuiet
<1>3. ~SchedLock(c) /\ ~SchedUnlock(c) /\ ~Overflow(c)
  BY <1>1 DEF SchedLock, SchedUnlock, Overflow
<1>4. ASSUME NEW t \in Task PROVE ~TaskDelete(c, t) /\ ~TaskSuspend(c, t)
  BY <1>1 DEF TaskDelete, TaskSuspend
<1> QED
  BY <1>2, <1>3, <1>4, CreateQuiet, ResumeQuiet, SetPrioQuiet, YieldQuiet, DelayQuiet
     DEF TaskStep

\* os_irq_exit
LEMMA IrqExitQuiet ==
  ASSUME NEW s, Fit(s), MayBlock(s.build), s.cur \in Tcb
  PROVE  Quiet(IrqExit(s), s, NULL)
<1> DEFINE out == [s EXCEPT !.at = "task"]
<1>1. s \in KernelType /\ s.guard[s.cur]
  BY FitTells
<1>2. /\ out \in KernelType /\ SameLinks(out, s) /\ out.state = s.state /\ out.build = s.build
      /\ out.result = s.result /\ out.wait = s.wait /\ out.deadline = s.deadline
      /\ out.guard = s.guard /\ out.cur = s.cur
  BY <1>1 DEF KernelType, Sections, SameLinks
<1>3. IrqExit(s) \in {out, CallSched(out)}
  BY DEF IrqExit
<1> HIDE DEF out
<1>4. Quiet(out, s, NULL)
  BY <1>2, OtherQuiet
<1>5. Quiet(CallSched(out), out, NULL)
  BY <1>1, <1>2, CallSchedQuiet
<1> QED
  BY <1>3, <1>4, <1>5, QuietTwice

LEMMA StartFirstQuiet ==
  ASSUME Waits(k), StartFirst
  PROVE  Quiet(k', k, NULL)
<1> DEFINE t == Highest(k)
           s == IF t = Idle THEN k ELSE ReadyRemove(k, t)
           o == Give(s, t)
           r == [o EXCEPT !.running = TRUE]
           end == [r EXCEPT !.at = "task"]
<1>1. /\ Fit(k) /\ k \in KernelType /\ LinksAgree(k, NULL) /\ Quiet(k, k, NULL)
      /\ t = Highest(k) /\ s = (IF t = Idle THEN k ELSE ReadyRemove(k, t)) /\ o = Give(s, t)
  BY FitTells DEF Waits, Sound
<1>2. k' = [s EXCEPT !.state[t] = "RUNNING", !.cur = t, !.running = TRUE, !.at = "task"]
  BY DEF StartFirst
<1> HIDE DEF t, s
<1>3. /\ t \in Tcb /\ (t # Idle => t \in Task /\ k.state[t] = "READY" /\ k.head[k.prio[t]] = t)
      /\ s \in KernelType /\ LinksAgree(s, t) /\ SameRest(s, k) /\ Stands(s)
  BY <1>1, TakeHighest
<1>4. k' = end
  BY <1>2, <1>3 DEF Give, KernelType
<1>5. Quiet(s, k, NULL)
  BY <1>1, <1>3, ReadyRemoveQuiet
<1>6. Quiet(o, s, NULL) /\ o \in KernelType
  <2>1. t \in Task => s.state[t] # "BLOCKED"
    BY <1>3, IdleApart DEF SameRest
  <2>2. Gives(o, s, t)
    BY <1>1, <1>3, GiveFields
  <2> QED
    BY <1>1, <1>3, <2>1, <2>2, GiveQuiet DEF Gives
<1> HIDE DEF o
<1>7. /\ SameLinks(r, o) /\ r.state = o.state /\ r.build = o.build /\ r \in KernelType
      /\ r.result = o.result /\ r.wait = o.wait /\ r.deadline = o.deadline
  BY <1>6 DEF KernelType, SameLinks
<1> HIDE DEF r
<1>8. /\ SameLinks(end, r) /\ end.state = r.state /\ end.build = r.build
      /\ end.result = r.result /\ end.wait = r.wait /\ end.deadline = r.deadline
  BY <1>7 DEF KernelType, SameLinks
<1> HIDE DEF end
<1>9. Quiet(r, o, NULL) /\ Quiet(end, r, NULL)
  BY <1>7, <1>8, OtherQuiet
<1> QED
  BY <1>4, <1>5, <1>6, <1>9, QuietTwice

LEMMA SwitchQuiet ==
  ASSUME Waits(k), Switch
  PROVE  Quiet(k', k, NULL)
<1> DEFINE t == Highest(k)
           s == IF t = k.cur THEN k ELSE SwitchTo(k, t)
           end == [s EXCEPT !.at = "task"]
<1>1. /\ Safe(k) /\ Fit(k) /\ Quiet(k, k, NULL) /\ k.cur \in Tcb /\ k' = end
      /\ t = Highest(k) /\ s = IF t = k.cur THEN k ELSE SwitchTo(k, t)
  BY FitTells DEF Waits, Sound, Safe, Switch
<1> HIDE DEF t, s
<1>2. Quiet(s, k, NULL) /\ s \in KernelType
  <2>1. CASE t = k.cur
    BY <1>1, <2>1 DEF Fit
  <2>2. CASE t # k.cur
    <3>1. s = SwitchTo(k, t)
      BY <1>1, <2>2
    <3>2. Fit(s) /\ s.state[s.cur] = "RUNNING"
      BY <1>1, <2>2, <3>1, SwitchToFit
    <3>3. Quiet(s, k, NULL)
      BY <1>1, <2>2, <3>1, SwitchToQuiet
    <3> QED
      BY <3>2, <3>3 DEF Fit
  <2> QED
    BY <2>1, <2>2
<1>3. /\ SameLinks(end, s) /\ end.state = s.state /\ end.build = s.build
      /\ end.result = s.result /\ end.wait = s.wait /\ end.deadline = s.deadline
  BY <1>2 DEF KernelType, SameLinks
<1> HIDE DEF end
<1>4. Quiet(end, s, NULL)
  BY <1>3, OtherQuiet
<1> QED
  BY <1>1, <1>2, <1>4, QuietTwice

LEMMA TickEndQuiet ==
  ASSUME SoundBuilds, Waits(k), TickEnd
  PROVE  Quiet(k', k, NULL)
<1> DEFINE s == SliceTick(k)
           back == [s EXCEPT !.i = 0]
           noted == [s EXCEPT !.i = 0, !.pend = s.running \/ s.pend]
<1>1. /\ Safe(k) /\ Fit(k) /\ CurRuns(k) /\ k.at = "tick" /\ MayBlock(k.build)
      /\ s = SliceTick(k) /\ k' = IrqExit(SchedFromIrq(back))
  BY DEF Waits, Sound, TickEnd
<1> HIDE DEF s
<1>2. /\ Fit(s) /\ s.at = "tick" /\ s.build = k.build /\ s.running = k.running /\ Leaves(s)
      /\ ~k.build.slices => s = k
  BY <1>1, SliceFit
<1>3. Safe(s) /\ Quiet(s, k, NULL)
  BY <1>1, SliceSafe, SliceQuiet
<1>4. s \in KernelType /\ (s.running \/ s.pend) \in BOOLEAN /\ s.cur \in Tcb /\ 0 \in Nat
  BY <1>2, <1>3 DEF Safe, KernelType
<1>5. k' = IrqExit(noted)
  BY <1>1, <1>4 DEF SchedFromIrq, KernelType
<1>6. /\ noted \in KernelType /\ SameLists(noted, s) /\ noted.state = s.state /\ noted.wait = s.wait
      /\ noted.prio = s.prio /\ noted.build = s.build /\ noted.guard = s.guard /\ noted.cur = s.cur
      /\ noted.lock = s.lock /\ noted.at = s.at /\ noted.running = s.running
      /\ noted.result = s.result /\ noted.deadline = s.deadline
  BY <1>4 DEF KernelType, SameLists, SameLinks
<1> HIDE DEF noted
<1>7. Fit(noted)
  BY <1>2, <1>6, OtherFit
<1>8. Quiet(noted, s, NULL)
  BY <1>6, OtherQuiet DEF SameLists
<1>9. Quiet(k', noted, NULL)
  BY <1>1, <1>2, <1>4, <1>5, <1>6, <1>7, IrqExitQuiet
<1> QED
  BY <1>3, <1>8, <1>9, QuietTwice

LEMMA KernelQuiet ==
  ASSUME SoundBuilds, Waits(k), KernelStep, ~TickScan
  PROVE  Quiet(k', k, NULL)
<1>1. k \in KernelType /\ \A t \in Tcb : k.guard[t]
  BY FitTells DEF Waits, Sound
<1>2. ASSUME NEW t \in Task, NEW p \in CreatePrio[t], MainCreate(t, p) PROVE Quiet(k', k, NULL)
  BY <1>2, CreateQuiet
<1>3. CASE KernelStart
  <2> DEFINE r == [k EXCEPT !.at = "start"]
  <2>1. k' = r
    BY <1>3 DEF KernelStart
  <2>2. /\ SameLinks(r, k) /\ r.state = k.state /\ r.build = k.build
        /\ r.result = k.result /\ r.wait = k.wait /\ r.deadline = k.deadline
    BY <1>1 DEF KernelType, SameLinks
  <2> HIDE DEF r
  <2> QED
    BY <2>1, <2>2, OtherQuiet
<1>4. CASE SkipOverflowed
  <2>1. Highest(k) \in Tcb
    BY <1>1, HighestIsTask
  <2> QED
    BY <1>1, <1>4, <2>1 DEF SkipOverflowed
<1>5. CASE IdleSched
  BY <1>1, <1>5, IdleApart, CallSchedQuiet DEF IdleSched, Runs
<1>6. CASE TickStart
  <2> DEFINE now == (k.tick + 1) % TickMod
             r == [k EXCEPT !.tick = now, !.at = "tick", !.i = 1]
  <2>1. k' = r
    BY <1>6 DEF TickStart
  <2> HIDE DEF now
  <2>2. /\ SameLinks(r, k) /\ r.state = k.state /\ r.build = k.build
        /\ r.result = k.result /\ r.wait = k.wait /\ r.deadline = k.deadline
    BY <1>1 DEF KernelType, SameLinks
  <2> HIDE DEF r
  <2> QED
    BY <2>1, <2>2, OtherQuiet
<1> QED
  BY <1>2, <1>3, <1>4, <1>5, <1>6, StartFirstQuiet, SwitchQuiet, TickEndQuiet DEF KernelStep

-----------------------------------------------------------------------------
(* Waiters leave.                                                          *)

\* Task t, which is blocked in s, is not in r and is told result: its list is closed up,
\* and every other wait list and waiter stays as it is.
Departs(r, s, t, result) ==
  /\ SameCalls(r, s, t)
  /\ r.state[t] # "BLOCKED" /\ Lives(r, t) /\ r.result[t] = result
  /\ \A l \in WaitList : \A n \in Nat : \A w \in [1 .. n -> Tcb] :
       IsChain(s, l, n, w) =>
         IF l = s.wait[t] THEN \E j \in 1 .. n : w[j] = t /\ IsChain(r, l, n - 1, Closed(w, n, j))
                          ELSE IsChain(r, l, n, w)

\* The order of a list is one.
LEMMA ChainIsOn ==
  ASSUME NEW s \in KernelType, NEW l \in List, NEW S, Chained(s, l, S),
         NEW n \in Nat, NEW w \in [1 .. n -> Tcb], IsChain(s, l, n, w)
  PROVE  S = { w[i] : i \in 1 .. n }
<1>1. PICK m \in Nat :
        \E v \in [1 .. m -> Tcb] : IsChain(s, l, m, v) /\ S = { v[i] : i \in 1 .. m }
  BY DEF Chained
<1>2. PICK v \in [1 .. m -> Tcb] : IsChain(s, l, m, v) /\ S = { v[i] : i \in 1 .. m }
  BY <1>1
<1>3. m = n
  BY <1>2 DEF IsChain
<1>4. /\ Walk(s, l, n) = [i \in 1 .. n |-> IF i <= n THEN w[i] ELSE NULL]
      /\ Walk(s, l, n) = [i \in 1 .. n |-> IF i <= n THEN v[i] ELSE NULL]
  BY <1>2, <1>3, WalkMeetsTheChain
<1>5. \A i \in 1 .. n : w[i] = v[i]
  <2> TAKE i \in 1 .. n
  <2>1. /\ [u \in 1 .. n |-> IF u <= n THEN w[u] ELSE NULL][i] = w[i]
        /\ [u \in 1 .. n |-> IF u <= n THEN v[u] ELSE NULL][i] = v[i]
    OBVIOUS
  <2> QED
    BY <1>4, <2>1
<1> QED
  BY <1>2, <1>3, <1>5

\* A wait list whose tasks keep their links keeps its order.
LEMMA LineStays ==
  ASSUME NEW s, NEW r, NEW x, SameLines(r, s, x), NEW l \in WaitList,
         NEW n \in Nat, NEW w \in [1 .. n -> Tcb], IsChain(s, l, n, w),
         \A i \in 1 .. n : w[i] \in Task \ {x} /\ s.state[w[i]] = "BLOCKED"
  PROVE  IsChain(r, l, n, w)
<1>1. \A i \in 1 .. n : r.next[w[i]] = s.next[w[i]] /\ r.prev[w[i]] = s.prev[w[i]]
  BY DEF SameLines
<1>2. r.head[l] = s.head[l] /\ r.tail[l] = s.tail[l] /\ r.count[l] = s.count[l]
  BY DEF SameLines
<1> QED
  BY <1>1, <1>2 DEF IsChain

\* os_sched_wake_task of a task that is taken off its wait list.
LEMMA WakeDeparts ==
  ASSUME NEW s, Fit(s), NEW t \in Task, s.state[t] = "BLOCKED", NEW l, l = s.wait[t], l # NULL,
         NEW result \in Results, NEW r, r = Wake(ListRemove(s, l, t), t, result)
  PROVE  /\ Fit(r) /\ r.at = s.at /\ r.cur = s.cur /\ r.build = s.build
         /\ r.state = [s.state EXCEPT ![t] = "READY"] /\ Departs(r, s, t, result)
         /\ Still(r, s)
<1> DEFINE o == ListRemove(s, l, t)
           told == [o EXCEPT !.result[t] = result, !.wait[t] = NULL, !.deadline[t] = 0]
           p == s.prev[t]
           x == s.next[t]
<1>1. /\ s \in KernelType /\ LinksAgree(s, NULL) /\ Stands(s) /\ t \in Tcb /\ l \in WaitList
      /\ l \in List /\ 0 \in Tick /\ o = ListRemove(s, l, t) /\ p = s.prev[t] /\ x = s.next[t]
  <2>1. s \in KernelType /\ LinksAgree(s, NULL) /\ Stands(s) /\ t \in Tcb
    BY IdleApart DEF Fit
  <2>2. l \in WaitList
    BY <2>1 DEF KernelType
  <2> QED
    BY <2>1, <2>2, ListsNameTasks, SchedAssumption DEF Tick
<1>2. r = ReadyAdd(told, t)
  BY DEF Wake
<1> HIDE DEF o, p, x
<1>3. o \in KernelType /\ LinksAgree(o, t) /\ SameRest(o, s)
  BY <1>1, WaitRemoveAgrees
<1>4. o.state = s.state /\ o.at = s.at /\ o.cur = s.cur /\ o.build = s.build
  BY <1>3 DEF SameRest, SameData
<1>5. /\ Fit(r) /\ r.state = [s.state EXCEPT ![t] = "READY"] /\ r.at = s.at
      /\ r.cur = s.cur /\ r.build = s.build
  <2>1. Stands(o) /\ o.state[t] # "INIT" /\ r = Wake(o, t, result)
    BY <1>1, <1>3, <1>4, StandsStay DEF SameRest, SameData
  <2>2. /\ Fit(r) /\ r.state = [o.state EXCEPT ![t] = "READY"] /\ r.at = o.at
        /\ r.cur = o.cur /\ r.build = o.build
    BY <1>3, <2>1, WakeFit
  <2> QED
    BY <1>4, <2>2
<1>6. /\ told \in KernelType /\ SameLinks(told, o) /\ told.state = s.state /\ told.build = s.build
      /\ told.result[t] = result /\ told.tick = o.tick /\ told.wake = o.wake /\ told.table = o.table
      /\ \A u \in Tcb \ {t} : told.result[u] = s.result[u] /\ told.wait[u] = s.wait[u]
                              /\ told.deadline[u] = s.deadline[u]
  <2>1. /\ told \in KernelType /\ SameLinks(told, o) /\ told.state = o.state
        /\ told.build = o.build /\ told.result[t] = result
        /\ told.tick = o.tick /\ told.wake = o.wake /\ told.table = o.table
        /\ \A u \in Tcb \ {t} : told.result[u] = o.result[u] /\ told.wait[u] = o.wait[u]
                                /\ told.deadline[u] = o.deadline[u]
    <3> DEFINE rs == [o.result EXCEPT ![t] = result]
               ws == [o.wait EXCEPT ![t] = NULL]
               ds == [o.deadline EXCEPT ![t] = 0]
    <3>1. told = [o EXCEPT !.result = rs, !.wait = ws, !.deadline = ds]
      OBVIOUS
    <3>2. /\ rs \in [Tcb -> Results] /\ ws \in [Tcb -> WaitList \cup {NULL}]
          /\ ds \in [Tcb -> Tick] /\ rs[t] = result
          /\ \A u \in Tcb \ {t} : rs[u] = o.result[u] /\ ws[u] = o.wait[u] /\ ds[u] = o.deadline[u]
      <4>1. /\ o.result \in [Tcb -> Results] /\ o.wait \in [Tcb -> WaitList \cup {NULL}]
            /\ o.deadline \in [Tcb -> Tick] /\ t \in Tcb /\ 0 \in Tick
        BY <1>1, <1>3 DEF KernelType
      <4>2. rs \in [Tcb -> Results] /\ rs[t] = result /\ \A u \in Tcb \ {t} : rs[u] = o.result[u]
        BY <4>1
      <4>3. ws \in [Tcb -> WaitList \cup {NULL}] /\ \A u \in Tcb \ {t} : ws[u] = o.wait[u]
        BY <4>1
      <4>4. ds \in [Tcb -> Tick] /\ \A u \in Tcb \ {t} : ds[u] = o.deadline[u]
        BY <4>1
      <4> QED
        BY <4>2, <4>3, <4>4
    <3> HIDE DEF rs, ws, ds, told
    <3>3. /\ told \in KernelType /\ told.result = rs /\ told.wait = ws /\ told.deadline = ds
      BY <1>3, <3>1, <3>2 DEF KernelType
    <3>4. /\ SameLinks(told, o) /\ told.state = o.state /\ told.build = o.build
          /\ told.tick = o.tick /\ told.wake = o.wake /\ told.table = o.table
      BY <1>3, <3>1 DEF KernelType, SameLinks
    <3> QED
      BY <3>2, <3>3, <3>4
  <2> HIDE DEF told
  <2> QED
    BY <1>3, <2>1 DEF SameRest, SameData
<1> HIDE DEF told
<1>7. Quiet(r, told, t) /\ SameData(r, told)
  <2>1. TailsReady(told)
    <3>1. TailsReady(o)
      BY <1>3, ReadyTails
    <3> QED
      BY <1>4, <1>6, <3>1 DEF TailsReady, SameLinks
  <2> QED
    BY <1>1, <1>2, <1>6, <2>1, ReadyAddQuiet, ReadyAddFields
<1>8. SameCalls(r, s, t)
  <2>1. SameCalls(told, s, t)
    BY <1>6, IdleApart DEF SameCalls, Lives
  <2>2. SameCalls(r, told, t)
    BY <1>7 DEF Quiet
  <2> QED
    BY <2>1, <2>2 DEF SameCalls
<1>9. r.result[t] = result
  BY <1>6, <1>7 DEF SameData
<1>10. /\ \A u \in Tcb :
           /\ o.next[u] = IF u = t THEN NULL ELSE IF u = p THEN x ELSE s.next[u]
           /\ o.prev[u] = IF u = t THEN NULL ELSE IF u = x THEN p ELSE s.prev[u]
       /\ \A m \in List : m # l =>
           o.head[m] = s.head[m] /\ o.tail[m] = s.tail[m] /\ o.count[m] = s.count[m]
  BY <1>1, RemoveFields
<1>11. p \in On(s, l, NULL) \cup {NULL} /\ x \in On(s, l, NULL) \cup {NULL}
  <2>1. Chained(s, l, On(s, l, NULL)) /\ t \in On(s, l, NULL)
    BY <1>1, IdleApart, ListAssumption DEF LinksAgree, On
  <2> QED
    BY <1>1, <2>1, ChainNeighbours
<1>12. ASSUME NEW m \in WaitList, NEW n \in Nat, NEW w \in [1 .. n -> Tcb], IsChain(s, m, n, w)
       PROVE  IF m = l THEN \E j \in 1 .. n : w[j] = t /\ IsChain(r, m, n - 1, Closed(w, n, j))
                       ELSE IsChain(r, m, n, w)
  <2>1. m \in List /\ m \notin Prio /\ On(s, m, NULL) = { w[i] : i \in 1 .. n }
    <3>1. m \in List /\ m \notin Prio
      BY ListsNameTasks, ListAssumption
    <3>2. Chained(s, m, On(s, m, NULL))
      BY <1>1, <3>1 DEF LinksAgree
    <3> QED
      BY <1>1, <1>12, <3>1, <3>2, ChainIsOn
  <2>2. \A i \in 1 .. n : w[i] \in Task /\ s.state[w[i]] = "BLOCKED" /\ s.wait[w[i]] = m
    BY <2>1 DEF On
  <2>3. SameLines(r, o, t)
    <3>1. SameLines(r, told, t)
      BY <1>7 DEF Quiet
    <3>2. /\ told.state = o.state /\ told.next = o.next /\ told.prev = o.prev
          /\ told.head = o.head /\ told.tail = o.tail /\ told.count = o.count
      BY <1>4, <1>6 DEF SameLinks
    <3> HIDE DEF told
    <3> QED
      BY <3>1, <3>2 DEF SameLines
  <2>4. CASE m = l
    <3>1. t \in On(s, m, NULL)
      BY <1>1, <2>1, <2>4, IdleApart DEF On
    <3>2. PICK j \in 1 .. n : w[j] = t
      BY <2>1, <3>1
    <3> DEFINE v == Closed(w, n, j)
    <3>3. n - 1 \in Nat /\ v \in [1 .. n - 1 -> Tcb] /\ IsChain(o, l, n - 1, v)
      <4>1. IsChain(s, l, n, w) /\ t = w[j]
        BY <1>12, <2>4, <3>2
      <4>2. v = Closed(w, n, j)
        OBVIOUS
      <4> HIDE DEF v
      <4> QED
        BY <1>1, <4>1, <4>2, RemoveCloses
    <3>4. \A i \in 1 .. n - 1 : v[i] \in Task \ {t} /\ o.state[v[i]] = "BLOCKED"
      <4> TAKE i \in 1 .. n - 1
      <4>1. \A a, b \in 1 .. n : w[a] = w[b] => a = b
        BY <1>12 DEF IsChain
      <4>2. PICK a \in 1 .. n : a # j /\ v[i] = w[a]
        <5>1. CASE i < j
          BY <5>1 DEF Closed
        <5>2. CASE ~(i < j)
          BY <5>2 DEF Closed
        <5> QED
          BY <5>1, <5>2
      <4> QED
        BY <1>4, <2>2, <3>2, <4>1, <4>2
    <3> HIDE DEF v
    <3>5. IsChain(r, l, n - 1, v)
      BY <1>1, <2>3, <3>3, <3>4, LineStays
    <3> QED
      BY <2>4, <3>2, <3>5 DEF v
  <2>5. CASE m # l
    <3>1. On(s, l, NULL) \cap On(s, m, NULL) = {}
      BY <1>1, <2>1, <2>5, OnOneList
    <3>2. \A i \in 1 .. n : w[i] # t /\ w[i] # p /\ w[i] # x
      BY <1>1, <1>11, <2>1, <2>2, <2>5, <3>1, IdleApart
    <3>3. IsChain(o, m, n, w)
      <4>1. \A i \in 1 .. n : o.next[w[i]] = s.next[w[i]] /\ o.prev[w[i]] = s.prev[w[i]]
        BY <1>10, <3>2
      <4>2. o.head[m] = s.head[m] /\ o.tail[m] = s.tail[m] /\ o.count[m] = s.count[m]
        BY <1>10, <2>1, <2>5
      <4> QED
        BY <1>12, <4>1, <4>2 DEF IsChain
    <3>4. \A i \in 1 .. n : w[i] \in Task \ {t} /\ o.state[w[i]] = "BLOCKED"
      BY <1>4, <2>2, <3>2
    <3>5. IsChain(r, m, n, w)
      BY <2>3, <3>3, <3>4, LineStays
    <3> QED
      BY <2>5, <3>5
  <2> QED
    BY <2>4, <2>5
<1>13. Departs(r, s, t, result)
  <2>1. s.state \in [Tcb -> States]
    BY <1>1 DEF KernelType
  <2>2. r.state[t] = "READY"
    BY <1>1, <1>5, <2>1
  <2> QED
    BY <1>8, <1>9, <1>12, <2>2 DEF Departs, Lives
<1>14. Still(r, s)
  <2>1. Still(o, s) /\ Still(told, o)
    BY <1>3, <1>4, <1>6, RestStill DEF Still, SameEntries
  <2>2. Still(r, told)
    BY <1>1, <1>2, <1>6, ReadyAddStill
  <2> QED
    BY <2>1, <2>2, StillTwice
<1> QED
  BY <1>5, <1>13, <1>14

\* Wait lists keep their order while nobody starts or ends to wait.
LEMMA LinesStay ==
  ASSUME NEW s, Fit(s), NEW r, Quiet(r, s, NULL), NEW l \in WaitList,
         NEW n \in Nat, NEW w \in [1 .. n -> Tcb], IsChain(s, l, n, w)
  PROVE  IsChain(r, l, n, w)
<1>1. s \in KernelType /\ l \in List /\ l \notin Prio /\ Chained(s, l, On(s, l, NULL))
  BY ListsNameTasks, ListAssumption DEF Fit, LinksAgree
<1>2. On(s, l, NULL) = { w[i] : i \in 1 .. n }
  BY <1>1, ChainIsOn
<1>3. \A i \in 1 .. n : w[i] \in Task \ {NULL} /\ s.state[w[i]] = "BLOCKED"
  BY <1>1, <1>2 DEF On
<1>4. SameLines(r, s, NULL)
  BY DEF Quiet
<1> QED
  BY <1>3, <1>4, LineStays

LEMMA DepartsThen ==
  ASSUME NEW s, NEW o, NEW r, NEW t \in Task, NEW result,
         Departs(o, s, t, result), Fit(o), Quiet(r, o, NULL)
  PROVE  Departs(r, s, t, result)
<1>1. SameCalls(r, o, NULL) /\ t # NULL
  BY IdleApart DEF Quiet
<1>2. SameCalls(r, s, t)
  BY <1>1, IdleApart DEF Departs, SameCalls
<1>3. r.state[t] # "BLOCKED" /\ Lives(r, t) /\ r.result[t] = result
  BY <1>1 DEF Departs, SameCalls
<1>4. ASSUME NEW l \in WaitList, NEW n \in Nat, NEW w \in [1 .. n -> Tcb], IsChain(s, l, n, w)
      PROVE  IF l = s.wait[t]
             THEN \E j \in 1 .. n : w[j] = t /\ IsChain(r, l, n - 1, Closed(w, n, j))
             ELSE IsChain(r, l, n, w)
  <2>1. CASE l = s.wait[t]
    <3>1. PICK j \in 1 .. n : w[j] = t /\ IsChain(o, l, n - 1, Closed(w, n, j))
      BY <1>4, <2>1 DEF Departs
    <3>2. n - 1 \in Nat /\ Closed(w, n, j) \in [1 .. n - 1 -> Tcb]
      BY DEF Closed
    <3>3. IsChain(r, l, n - 1, Closed(w, n, j))
      BY <3>1, <3>2, LinesStay
    <3> QED
      BY <2>1, <3>1, <3>3
  <2>2. CASE l # s.wait[t]
    <3>1. IsChain(o, l, n, w)
      BY <1>4, <2>2 DEF Departs
    <3> QED
      BY <2>2, <3>1, LinesStay
  <2> QED
    BY <2>1, <2>2
<1> QED
  BY <1>2, <1>3, <1>4 DEF Departs

\* A wake-up keeps what every function of the kernel keeps.
LEMMA WakeSafe ==
  ASSUME NEW s, Safe(s), NEW t \in Tcb, NEW result \in Results
  PROVE  Safe(Wake(s, t, result))
<1> DEFINE told == [s EXCEPT !.result[t] = result, !.wait[t] = NULL, !.deadline[t] = 0]
<1>1. s \in KernelType /\ 0 \in Tick
  BY SchedAssumption DEF Safe, Tick
<1>2. Wake(s, t, result) = ReadyAdd(told, t)
  BY DEF Wake
<1>3. told \in KernelType
  <2> DEFINE rs == [s.result EXCEPT ![t] = result]
             ws == [s.wait EXCEPT ![t] = NULL]
             ds == [s.deadline EXCEPT ![t] = 0]
  <2>1. told = [s EXCEPT !.result = rs, !.wait = ws, !.deadline = ds]
    OBVIOUS
  <2>2. /\ rs \in [Tcb -> Results] /\ ws \in [Tcb -> WaitList \cup {NULL}]
        /\ ds \in [Tcb -> Tick]
    BY <1>1 DEF KernelType
  <2> HIDE DEF rs, ws, ds, told
  <2> QED
    BY <1>1, <2>1, <2>2 DEF KernelType
<1>4. told.state = s.state /\ told.cur = s.cur /\ told.at = s.at /\ told.i = s.i
  BY <1>1 DEF KernelType
<1> HIDE DEF told
<1>5. Safe(told)
  BY <1>3, <1>4 DEF Safe
<1> QED
  BY <1>2, <1>5, ReadyAddSafe

LEMMA DepartsEases ==
  ASSUME NEW s, NEW r, NEW t \in Task, NEW result, Departs(r, s, t, result), Still(r, s),
         s.state[t] = "BLOCKED", result # "ETIMEOUT"
  PROVE  Eases(r, s)
  BY DEF Departs, SameCalls, Eases

\* A waiter at the head of its list is handed what it waits for.
LEMMA HandOffDeparts ==
  ASSUME NEW s, Safe(s), Fit(s), NEW l \in WaitList, NEW t, t = s.head[l], t # NULL,
         NEW result \in Results, NEW r, r = HandOff(s, l, result)
  PROVE  /\ t \in Task /\ s.state[t] = "BLOCKED" /\ s.wait[t] = l
         /\ Safe(r) /\ Fit(r) /\ r.at = s.at /\ r.cur = s.cur /\ r.build = s.build
         /\ r.state = [s.state EXCEPT ![t] = "READY"] /\ Departs(r, s, t, result)
         /\ result # "ETIMEOUT" => Eases(r, s)
<1>1. s \in KernelType /\ l \in List /\ l \notin Prio /\ Chained(s, l, On(s, l, NULL))
  BY ListsNameTasks, ListAssumption DEF Fit, LinksAgree
<1>2. t \in On(s, l, NULL) /\ s.prev[s.head[l]] = NULL
  BY <1>1, ChainEnds
<1>3. t \in Task /\ s.state[t] = "BLOCKED" /\ s.wait[t] = l /\ t \in Tcb /\ l # NULL
  BY <1>1, <1>2, IdleApart, SchedAssumption DEF On
<1> DEFINE o == ListRemove(s, l, t)
<1>4. r = Wake(o, t, result)
  BY <1>1, <1>2, PopIsRemove DEF HandOff
<1>5. Safe(r)
  <2>1. o \in KernelType /\ SameTasks(o, s) /\ o.state = s.state
    BY <1>1, <1>3, RemoveKeeps
  <2> HIDE DEF o
  <2>2. Safe(o)
    BY <2>1 DEF Safe, SameTasks
  <2> QED
    BY <1>3, <1>4, <2>2, WakeSafe
<1>6. /\ Fit(r) /\ r.at = s.at /\ r.cur = s.cur /\ r.build = s.build
      /\ r.state = [s.state EXCEPT ![t] = "READY"] /\ Departs(r, s, t, result) /\ Still(r, s)
  BY <1>3, <1>4, WakeDeparts
<1>7. result # "ETIMEOUT" => Eases(r, s)
  BY <1>3, <1>6, DepartsEases
<1> QED
  BY <1>3, <1>5, <1>6, <1>7

\* One turn of the tick handler's scan.
LEMMA ScanDeparts ==
  ASSUME Waits(k), \A t \in Task : k.state[t] = "BLOCKED" => k.wait[t] \in WaitList, TickScan
  PROVE  LET t == k.table[k.i]
         IN IF k.state[t] = "BLOCKED" /\ k.deadline[t] # 0 /\ Reached(k.tick, k.deadline[t])
            THEN t \in Task /\ Departs(k', k, t, "ETIMEOUT")
            ELSE Quiet(k', k, NULL)
<1> DEFINE t == k.table[k.i]
           s == ScanTask(k, t)
           after == s.i + 1
           r == [s EXCEPT !.i = after]
<1>1. /\ k \in KernelType /\ Safe(k) /\ Fit(k) /\ k.at = "tick" /\ k' = r
      /\ s = ScanTask(k, t) /\ TailsReady(k) /\ Quiet(k, k, NULL)
      /\ k.state[Idle] \in {"READY", "RUNNING"}
  BY FitTells DEF Waits, Sound, Fit, TickScan, Stands
<1>2. t \in Tcb /\ t = k.table[k.i]
  <2>1. k.i \in Nat /\ k.i >= 1 /\ k.i <= Len(k.table) /\ k.table \in Seq(Tcb)
    BY <1>1 DEF TickScan, Safe, KernelType
  <2> QED
    BY <2>1
<1> HIDE DEF t, s
<1>3. Fit(s)
  BY <1>1, <1>2, ScanFit
<1>4. Quiet(r, s, NULL)
  <2> HIDE DEF after
  <2>1. /\ SameLinks(r, s) /\ r.state = s.state /\ r.build = s.build /\ r.result = s.result
        /\ r.wait = s.wait /\ r.deadline = s.deadline
    BY <1>3 DEF Fit, KernelType, SameLinks
  <2> HIDE DEF r
  <2> QED
    BY <2>1, OtherQuiet
<1> HIDE DEF r
<1>5. CASE k.state[t] = "SLEEPING" /\ s = ReadyAdd(k, t)
  <2>1. Quiet(s, k, NULL)
    BY <1>1, <1>2, <1>5, ReadyAddAllQuiet
  <2> QED
    BY <1>1, <1>2, <1>4, <1>5, <2>1, QuietTwice
<1>6. CASE /\ k.state[t] = "BLOCKED" /\ k.deadline[t] # 0 /\ Reached(k.tick, k.deadline[t])
           /\ s = TimeoutWake(k, t)
  <2>1. t \in Task /\ k.wait[t] \in WaitList /\ k.wait[t] # NULL /\ "ETIMEOUT" \in Results
    <3>1. t \in Task
      BY <1>1, <1>2, <1>6 DEF Tcb
    <3> QED
      BY <1>6, <3>1, ListsNameTasks, SchedAssumption DEF Results
  <2>2. s = Wake(ListRemove(k, k.wait[t], t), t, "ETIMEOUT")
    BY <1>6, <2>1 DEF TimeoutWake
  <2>3. Departs(s, k, t, "ETIMEOUT")
    <3>1. Fit(k) /\ k.state[t] = "BLOCKED"
      BY <1>1, <1>6
    <3> QED
      BY <2>1, <2>2, <3>1, WakeDeparts
  <2>4. Departs(k', k, t, "ETIMEOUT")
    BY <1>1, <1>3, <1>4, <2>1, <2>3, DepartsThen
  <2> QED
    BY <1>2, <1>6, <2>1, <2>4
<1>7. CASE s = k /\ ~(k.state[t] = "BLOCKED" /\ k.deadline[t] # 0 /\ Reached(k.tick, k.deadline[t]))
  BY <1>1, <1>2, <1>4, <1>7
<1> QED
  BY <1>1, <1>5, <1>6, <1>7 DEF ScanTask

-----------------------------------------------------------------------------
(* What every step keeps.                                                  *)

\* Applications whose tasks may block: calls mask interrupts, nobody locks the
\* scheduler, overruns its stack, or stops another task.
BlockingBuilds == SoundBuilds /\ \A build \in Builds : MayBlock(build)

\* Blocked tasks wait for the objects of S.
WaitsOn(s, S) == \A t \in Task : s.state[t] = "BLOCKED" => s.wait[t] \in S

\* Who is blocked is in a call that blocks, and who is in such a call lives.
CallsStand ==
  \A t \in Task : /\ InBlockingCall(t) => Lives(k, t)
                  /\ k.state[t] = "BLOCKED" => InBlockingCall(t)

IpcInv(S) ==
  Safe(k) /\ Sound(k) /\ pc \in [Tcb -> CallPlaces] /\ CallsStand /\ WaitsOn(k, S)

\* Nobody starts to wait, x excepted, and who waits waits for what he waited for.
NoneBlocks(r, s, x) ==
  \A t \in Task \ {x} : r.state[t] = "BLOCKED" => s.state[t] = "BLOCKED" /\ r.wait[t] = s.wait[t]

LEMMA QuietBlocksNone ==
  ASSUME NEW r, NEW s, NEW x, SameCalls(r, s, x)
  PROVE  NoneBlocks(r, s, x)
  BY DEF SameCalls, NoneBlocks

LEMMA DepartsBlocksNone ==
  ASSUME NEW r, NEW s, NEW t, NEW result, Departs(r, s, t, result)
  PROVE  NoneBlocks(r, s, NULL)
  BY DEF Departs, SameCalls, NoneBlocks

LEMMA NoneBlocksMore ==
  ASSUME NEW r, NEW s, NEW S, WaitsOn(s, S), NoneBlocks(r, s, NULL)
  PROVE  WaitsOn(r, S)
  BY IdleApart DEF NoneBlocks, WaitsOn

\* Calls that wait may be made, always.
LEMMA InvWaits ==
  ASSUME BlockingBuilds, NEW S, IpcInv(S)
  PROVE  Waits(k)
  BY DEF BlockingBuilds, IpcInv, Waits, Sound, Fit, Stands, Habits

\* A step of the kernel or of the task interface: the tick may end the wait of a task.
LEMMA StepDeparts ==
  ASSUME BlockingBuilds, NEW S \in SUBSET WaitList, IpcInv(S), [TasksNext]_vars
  PROVE  \/ Quiet(k', k, NULL)
         \/ \E t \in Task : /\ k.state[t] = "BLOCKED" /\ k.deadline[t] # 0
                            /\ Reached(k.tick, k.deadline[t])
                            /\ Departs(k', k, t, "ETIMEOUT")
<1>1. Waits(k) /\ SoundBuilds
  BY InvWaits DEF BlockingBuilds
<1>2. \A t \in Task : k.state[t] = "BLOCKED" => k.wait[t] \in WaitList
  BY DEF IpcInv, WaitsOn
<1>3. CASE UNCHANGED vars
  BY <1>1, <1>3, FitTells DEF Waits, Sound, vars
<1>4. CASE TickScan
  BY <1>1, <1>2, <1>4, ScanDeparts
<1>5. CASE KernelStep /\ ~TickScan
  BY <1>1, <1>5, KernelQuiet
<1>6. ASSUME NEW c \in Task, TaskStep(c) PROVE Quiet(k', k, NULL)
  BY <1>1, <1>6, TaskStepQuiet
<1> QED
  BY <1>3, <1>4, <1>5, <1>6 DEF TasksNext

\* No call that blocks begins or ends there.
LEMMA StepPlaces ==
  ASSUME BlockingBuilds, NEW S \in SUBSET WaitList, IpcInv(S), [TasksNext]_vars
  PROVE  \A t \in Task : InBlockingCall(t)' = InBlockingCall(t)
<1>1. k.build.masked /\ pc \in [Tcb -> CallPlaces]
  BY InvWaits, FitTells DEF Waits, Sound, IpcInv
<1>2. CASE UNCHANGED pc
  BY <1>2 DEF InBlockingCall
<1>3. ASSUME NEW c, NEW s, ThenSched(c, s) PROVE UNCHANGED pc
  BY <1>1, <1>3 DEF ThenSched
<1>4. CASE KernelStep
  BY <1>2, <1>4 DEF KernelStep, MainCreate, KernelStart, StartFirst, SkipOverflowed, Switch,
                    IdleSched, TickStart, TickScan, TickEnd
<1>5. ASSUME NEW c \in Task, EnterSched(c) PROVE \A t \in Task : InBlockingCall(t)' = InBlockingCall(t)
  BY <1>1, <1>5, IdleApart DEF EnterSched, InBlockingCall
<1>6. ASSUME NEW c \in Task, NEW t \in Task, NEW p \in CreatePrio[t], TaskCreate(c, t, p)
      PROVE  \A u \in Task : InBlockingCall(u)' = InBlockingCall(u)
  <2>1. ~InBlockingCall(t)
    BY <1>6 DEF TaskCreate, Reusable, IpcInv, CallsStand, Lives
  <2>2. pc' = [pc EXCEPT ![t] = "run"]
    BY <1>1, <1>6 DEF TaskCreate
  <2> QED
    BY <1>1, <2>1, <2>2, IdleApart DEF InBlockingCall
<1>7. ASSUME NEW c \in Task, NEW t \in Task,
             TaskDelete(c, t) \/ TaskSuspend(c, t) \/ TaskResume(c, t)
      PROVE  UNCHANGED pc
  BY <1>3, <1>7 DEF TaskDelete, TaskSuspend, TaskResume, StopTask
<1>8. ASSUME NEW c \in Task, NEW t \in Task, NEW p \in CreatePrio[t], TaskSetPrio(c, t, p)
      PROVE  UNCHANGED pc
  BY <1>3, <1>8 DEF TaskSetPrio, vars
<1>9. ASSUME NEW c \in Task, TaskYield(c) \/ \E ticks \in Delays : TaskDelay(c, ticks)
      PROVE  UNCHANGED pc
  BY <1>3, <1>9 DEF TaskYield, TaskDelay, vars
<1>10. ASSUME NEW c \in Task, SchedLock(c) \/ SchedUnlock(c) \/ Overflow(c)
      PROVE  UNCHANGED pc
  BY <1>3, <1>10 DEF SchedLock, SchedUnlock, Overflow
<1> QED
  BY <1>2, <1>4, <1>5, <1>6, <1>7, <1>8, <1>9, <1>10 DEF TasksNext, TaskStep, vars

\* Calls go on as they stood, x's excepted.
LEMMA CallsStay ==
  ASSUME CallsStand, NEW x, SameCalls(k', k, x),
         \A t \in Task \ {x} : InBlockingCall(t)' = InBlockingCall(t),
         x \in Task => Lives(k', x) /\ (k'.state[x] = "BLOCKED" => InBlockingCall(x)')
  PROVE  CallsStand'
  BY DEF CallsStand, SameCalls, Lives

LEMMA StepKeeps ==
  ASSUME BlockingBuilds, NEW S \in SUBSET WaitList, IpcInv(S), [TasksNext]_vars
  PROVE  IpcInv(S)' /\ NoneBlocks(k', k, NULL)
<1>1. Safe(k') /\ Sound(k')
  BY StepSound DEF BlockingBuilds, IpcInv
<1>2. pc' \in [Tcb -> CallPlaces]
  <2>1. {"run", "call"} \subseteq CallPlaces /\ pc \in [Tcb -> CallPlaces]
    BY DEF CallPlaces, IpcInv
  <2> HIDE DEF CallPlaces
  <2> QED
    BY <2>1, PlacesStay
<1>3. NoneBlocks(k', k, NULL)
  BY StepDeparts, QuietBlocksNone, DepartsBlocksNone DEF Quiet
<1>4. WaitsOn(k', S)
  BY <1>3, NoneBlocksMore DEF IpcInv
<1>5. CallsStand'
  BY StepDeparts, StepPlaces, CallsStay, IdleApart DEF IpcInv, Departs, Quiet
<1> QED
  BY <1>1, <1>2, <1>3, <1>4, <1>5 DEF IpcInv

\* The critical section of a call has made s, and the call goes on with os_sched().
LEMMA CallKeeps ==
  ASSUME BlockingBuilds, NEW s, Safe(s), Fit(s), s.at = "task",
         s.state[s.cur] \in {"RUNNING", "BLOCKED"}, NEW r, r = CallSched(s)
  PROVE  Safe(r) /\ Sound(r) /\ Quiet(r, s, NULL) /\ Eases(r, s)
<1>1. s \in KernelType /\ s.guard[s.cur]
  BY FitTells DEF BlockingBuilds, Safe, Fit, Stands, Habits
<1>2. Leaves(s)
  BY DEF Leaves
<1>3. Safe(r) /\ Sound(r)
  BY <1>1, <1>2, CallSchedSafe, CallSchedSound
<1>4. Quiet(r, s, NULL) /\ Still(r, s)
  BY <1>1, CallSchedQuiet, CallSchedStill
<1> QED
  BY <1>3, <1>4, QuietEases

\* An interrupt handler has made s, and the interrupt ends.
LEMMA IrqKeeps ==
  ASSUME BlockingBuilds, NEW s, Safe(s), Fit(s), s.at = "task",
         s.state[s.cur] = "RUNNING", NEW r, r \in {IrqExit(s), IrqExit(SchedFromIrq(s))}
  PROVE  Safe(r) /\ Sound(r) /\ Quiet(r, s, NULL) /\ Eases(r, s)
<1> DEFINE noted == [s EXCEPT !.pend = s.running \/ s.pend]
<1>1. s \in KernelType /\ SchedFromIrq(s) = noted
  BY DEF Safe, SchedFromIrq
<1>2. Safe(noted) /\ Fit(noted) /\ Quiet(noted, s, NULL) /\ Eases(noted, s) /\ noted.at = "task"
      /\ noted.state[noted.cur] = "RUNNING"
  <2>1. /\ noted \in KernelType /\ SameLists(noted, s) /\ noted.state = s.state
        /\ noted.wait = s.wait /\ noted.prio = s.prio /\ noted.build = s.build
        /\ noted.guard = s.guard /\ noted.cur = s.cur /\ noted.lock = s.lock /\ noted.at = s.at
        /\ noted.running = s.running /\ noted.result = s.result /\ noted.deadline = s.deadline
        /\ noted.i = s.i /\ noted.tick = s.tick /\ noted.table = s.table /\ noted.wake = s.wake
    <3>1. (s.running \/ s.pend) \in BOOLEAN
      OBVIOUS
    <3> QED
      BY <1>1, <3>1 DEF KernelType, SameLists, SameLinks
  <2> HIDE DEF noted
  <2>2. Fit(noted)
    BY <2>1, OtherFit
  <2>3. Quiet(noted, s, NULL) /\ Still(noted, s)
    BY <2>1, OtherQuiet DEF SameLists, Still, SameEntries
  <2> QED
    BY <2>1, <2>2, <2>3, QuietEases DEF Safe
<1> HIDE DEF noted
<1>3. ASSUME NEW o, Safe(o), Fit(o), o.at = "task", o.state[o.cur] = "RUNNING"
      PROVE  /\ Safe(IrqExit(o)) /\ Sound(IrqExit(o)) /\ Quiet(IrqExit(o), o, NULL)
             /\ Eases(IrqExit(o), o)
  <2>1. o = [o EXCEPT !.at = "task"]
    BY <1>3 DEF Safe, KernelType
  <2>2. IrqExit(o) \in {o, CallSched(o)}
    BY <2>1 DEF IrqExit
  <2>3. Sound(o) /\ Quiet(o, o, NULL) /\ Eases(o, o)
    BY <1>3, OtherQuiet, EasesSelf DEF Sound, CurRuns, SameLinks
  <2> QED
    BY <1>3, <2>2, <2>3, CallKeeps
<1> QED
  BY <1>1, <1>2, <1>3, QuietTwice, EasesTwice

\* The os_sched() of a call that waits.
LEMMA EnterKeeps ==
  ASSUME BlockingBuilds, NEW S \in SUBSET WaitList, IpcInv(S), NEW c \in Task, EnterBlocked(c)
  PROVE  /\ IpcInv(S)' /\ Quiet(k', k, NULL) /\ Eases(k', k)
         /\ \A t \in Task : InBlockingCall(t)' = InBlockingCall(t)
<1>1. Safe(k) /\ Sound(k) /\ Fit(k) /\ k.state[k.cur] = "RUNNING" /\ k.at = "task"
  BY DEF IpcInv, Sound, CurRuns, EnterBlocked, BlockingBuilds, MayBlock, Fit, Stands, Habits
<1>2. Safe(k') /\ Sound(k') /\ Quiet(k', k, NULL) /\ Eases(k', k)
  BY <1>1, CallKeeps DEF EnterBlocked
<1>3. pc' \in [Tcb -> CallPlaces]
  BY DEF EnterBlocked, IpcInv, CallPlaces
<1>4. WaitsOn(k', S)
  BY <1>2, QuietBlocksNone, NoneBlocksMore DEF IpcInv, Quiet
<1>5. \A t \in Task : InBlockingCall(t)' = InBlockingCall(t)
  BY IdleApart DEF EnterBlocked, IpcInv, InBlockingCall
<1>6. CallsStand'
  BY <1>2, <1>5, CallsStay, IdleApart DEF IpcInv, Quiet
<1> QED
  BY <1>2, <1>3, <1>4, <1>5, <1>6 DEF IpcInv

-----------------------------------------------------------------------------
(* A task starts to wait.                                                  *)

\* Task t, which is not on any list in s, waits behind the others of list l in r.
Arrives(r, s, t, l) ==
  /\ SameCalls(r, s, t)
  /\ r.state[t] = "BLOCKED" /\ r.wait[t] = l
  /\ \A m \in WaitList : \A n \in Nat : \A w \in [1 .. n -> Tcb] :
       IsChain(s, m, n, w) =>
         IF m = l THEN IsChain(r, l, n + 1, Longer(w, n, t)) ELSE IsChain(r, m, n, w)

\* The critical section of a call that blocks.
LEMMA BlockedArrives ==
  ASSUME BlockingBuilds, Safe(k), Sound(k), NEW c \in Task, k.at = "task", k.cur = c,
         NEW l \in WaitList, NEW timeout \in Timeouts, NEW r, r = Blocked(k, c, l, timeout)
  PROVE  /\ Safe(r) /\ Fit(r) /\ r.at = "task" /\ r.cur = c /\ Arrives(r, k, c, l)
         /\ r.deadline[c] = Deadline(timeout) /\ r.result[c] = "ETIMEOUT" /\ Still(r, k)
<1> DEFINE x == [k EXCEPT !.wait[c] = l, !.deadline[c] = Deadline(timeout),
                          !.result[c] = "ETIMEOUT", !.state[c] = "BLOCKED"]
<1>1. /\ k \in KernelType /\ Fit(k) /\ LinksAgree(k, NULL) /\ Stands(k) /\ c \in Tcb
      /\ l \in List /\ l \notin Prio /\ k.state[c] = "RUNNING" /\ c # Idle
  BY ListsNameTasks, ListAssumption, IdleApart
     DEF Sound, Fit, CurRuns, BlockingBuilds, MayBlock, Stands, Habits
<1>2. Deadline(timeout) \in Tick
  <2>1. timeout \in Tick /\ TickMod \in Nat \ {0} /\ k.tick \in Tick
    BY <1>1, IpcAssumption, SchedAssumption DEF KernelType
  <2> QED
    BY <2>1 DEF Deadline, Tick
<1>3. r = WaitAppend(x, l, c)
  BY DEF Blocked
<1>4. /\ x \in KernelType /\ SameLists(x, k) /\ x.wait[c] = l /\ x.state[c] = "BLOCKED"
      /\ x.deadline[c] = Deadline(timeout) /\ x.result[c] = "ETIMEOUT"
      /\ \A u \in Tcb \ {c} : /\ x.state[u] = k.state[u] /\ x.wait[u] = k.wait[u]
                              /\ x.deadline[u] = k.deadline[u] /\ x.result[u] = k.result[u]
      /\ x.prio = k.prio /\ x.build = k.build /\ x.running = k.running /\ x.guard = k.guard
      /\ x.cur = k.cur /\ x.lock = k.lock /\ x.at = k.at /\ x.i = k.i
      /\ x.tick = k.tick /\ x.table = k.table /\ x.wake = k.wake
  <2> DEFINE d == Deadline(timeout)
             ws == [k.wait EXCEPT ![c] = l]
             ds == [k.deadline EXCEPT ![c] = d]
             rs == [k.result EXCEPT ![c] = "ETIMEOUT"]
             ss == [k.state EXCEPT ![c] = "BLOCKED"]
  <2> HIDE DEF d
  <2>1. x = [k EXCEPT !.wait = ws, !.deadline = ds, !.result = rs, !.state = ss]
    BY DEF d
  <2>2. /\ ws \in [Tcb -> WaitList \cup {NULL}] /\ ds \in [Tcb -> Tick]
        /\ rs \in [Tcb -> Results] /\ ss \in [Tcb -> States]
        /\ ws[c] = l /\ ds[c] = d /\ rs[c] = "ETIMEOUT" /\ ss[c] = "BLOCKED"
        /\ \A u \in Tcb \ {c} : /\ ss[u] = k.state[u] /\ ws[u] = k.wait[u]
                                /\ ds[u] = k.deadline[u] /\ rs[u] = k.result[u]
    BY <1>1, <1>2 DEF KernelType, Results, States, d
  <2> HIDE DEF ws, ds, rs, ss, x
  <2>3. x \in KernelType /\ x.wait = ws /\ x.deadline = ds /\ x.result = rs /\ x.state = ss
    BY <1>1, <2>1, <2>2 DEF KernelType
  <2>4. /\ SameLists(x, k) /\ x.prio = k.prio /\ x.build = k.build /\ x.running = k.running
        /\ x.guard = k.guard /\ x.cur = k.cur /\ x.lock = k.lock /\ x.at = k.at /\ x.i = k.i
        /\ x.tick = k.tick /\ x.table = k.table /\ x.wake = k.wake
    BY <1>1, <2>1 DEF KernelType, SameLists, SameLinks
  <2> QED
    BY <2>2, <2>3, <2>4 DEF d
<1> HIDE DEF x
<1>5. LinksAgree(x, c)
  <2>1. LinksAgree(k, c)
    BY <1>1, OffTheLists
  <2>2. \A u \in Task \ {c} : /\ x.next[u] = k.next[u] /\ x.prev[u] = k.prev[u]
                              /\ x.state[u] = k.state[u] /\ x.prio[u] = k.prio[u]
                              /\ x.wait[u] = k.wait[u]
    BY <1>4, IdleApart DEF SameLists, SameLinks
  <2> QED
    BY <1>4, <2>1, <2>2, LinksStay DEF SameLists, SameLinks
<1>6. r \in KernelType /\ LinksAgree(r, NULL) /\ SameRest(r, x)
  BY <1>3, <1>4, <1>5, WaitAppendAgrees
<1>7. /\ r.state[c] = "BLOCKED" /\ r.wait[c] = l
      /\ r.deadline[c] = Deadline(timeout) /\ r.result[c] = "ETIMEOUT"
      /\ \A u \in Tcb \ {c} : /\ r.state[u] = k.state[u] /\ r.wait[u] = k.wait[u]
                              /\ r.deadline[u] = k.deadline[u] /\ r.result[u] = k.result[u]
      /\ r.prio = k.prio /\ r.build = k.build /\ r.running = k.running /\ r.guard = k.guard
      /\ r.cur = k.cur /\ r.lock = k.lock /\ r.at = k.at /\ r.i = k.i
  BY <1>4, <1>6 DEF SameRest, SameData
<1>8. Safe(r)
  <2>1. \A t \in Tcb : r.state[t] = "RUNNING" => r.cur = t
    BY <1>7 DEF Safe
  <2> QED
    BY <1>6, <1>7, <2>1 DEF Safe
<1>9. Fit(r)
  <2>1. MayBlock(r.build)
    BY <1>1, <1>7 DEF BlockingBuilds, Stands, Habits
  <2>2. r.build.slices => \A t \in Task : r.state[t] # "INIT" => r.prio[t] # PrioMax - 1
    BY <1>1, <1>7, IdleApart DEF Stands, Habits
  <2>3. r.state[Idle] = k.state[Idle]
    BY <1>1, <1>7, IdleApart
  <2> QED
    BY <1>1, <1>6, <1>7, <2>1, <2>2, <2>3 DEF Fit, Stands, Habits
<1>10. SameCalls(r, k, c)
  BY <1>7, IdleApart DEF SameCalls, Lives
<1>11. ASSUME NEW m \in WaitList, NEW n \in Nat, NEW w \in [1 .. n -> Tcb], IsChain(k, m, n, w)
       PROVE  IF m = l THEN IsChain(r, l, n + 1, Longer(w, n, c)) ELSE IsChain(r, m, n, w)
  <2>1. m \in List /\ m \notin Prio /\ On(k, m, NULL) = { w[i] : i \in 1 .. n }
    <3>1. m \in List /\ m \notin Prio
      BY ListsNameTasks, ListAssumption
    <3>2. Chained(k, m, On(k, m, NULL))
      BY <1>1, <3>1 DEF LinksAgree
    <3> QED
      BY <1>1, <1>11, <3>1, <3>2, ChainIsOn
  <2>2. \A i \in 1 .. n : w[i] # c
    BY <1>1, <2>1 DEF On
  <2>3. IsChain(x, m, n, w)
    BY <1>4, <1>11, <2>1 DEF IsChain, SameLists, SameLinks
  <2>4. x.tail[l] # c
    <3>1. Chained(x, l, On(x, l, c)) /\ c \notin On(x, l, c)
      BY <1>1, <1>5 DEF LinksAgree, On
    <3> QED
      BY <1>1, <3>1, ChainEnds, ListsNameTasks
  <2>5. r = ListAppend(x, l, c)
    BY <1>1, <1>3, <1>4, <2>4, WaitAppendIsAppend
  <2>6. CASE m = l
    BY <1>1, <1>4, <2>2, <2>3, <2>5, <2>6, AppendLengthens
  <2>7. CASE m # l
    <3> DEFINE last == x.tail[l]
    <3>1. last = x.tail[l]
      OBVIOUS
    <3> HIDE DEF last
    <3>2. /\ \A u \in Tcb :
               /\ r.next[u] = IF u = last THEN c ELSE IF u = c THEN NULL ELSE x.next[u]
               /\ r.prev[u] = IF u = c THEN last ELSE x.prev[u]
          /\ \A o \in List : o # l =>
               r.head[o] = x.head[o] /\ r.tail[o] = x.tail[o] /\ r.count[o] = x.count[o]
      BY <1>1, <1>4, <2>5, <3>1, AppendFields
    <3>3. \A i \in 1 .. n : w[i] # last
      <4>1. Chained(k, l, On(k, l, NULL)) /\ On(k, l, NULL) \cap On(k, m, NULL) = {}
        BY <1>1, <2>1, <2>7, OnOneList DEF LinksAgree
      <4>2. last \in On(k, l, NULL) \cup {NULL}
        BY <1>1, <1>4, <3>1, <4>1, ChainEnds DEF SameLists, SameLinks
      <4> QED
        BY <2>1, <4>1, <4>2, ListsNameTasks
    <3>4. \A i \in 1 .. n : r.next[w[i]] = x.next[w[i]] /\ r.prev[w[i]] = x.prev[w[i]]
      BY <2>2, <3>2, <3>3
    <3>5. r.head[m] = x.head[m] /\ r.tail[m] = x.tail[m] /\ r.count[m] = x.count[m]
      BY <2>1, <2>7, <3>2
    <3> QED
      BY <2>3, <2>7, <3>4, <3>5 DEF IsChain
  <2> QED
    BY <2>6, <2>7
<1>12. Still(r, k)
  <2>1. Still(x, k)
    BY <1>1, <1>4, IdleApart DEF Still, SameEntries
  <2>2. Still(r, x)
    BY <1>6, RestStill
  <2> QED
    BY <2>1, <2>2, StillTwice
<1> QED
  BY <1>1, <1>6, <1>7, <1>8, <1>9, <1>10, <1>11, <1>12 DEF Arrives

\* ... and the call as a whole, with interrupts masked.
LEMMA BlockKeeps ==
  ASSUME BlockingBuilds, NEW S \in SUBSET WaitList, IpcInv(S), NEW c \in Task, Runs(c),
         NEW l \in S, NEW timeout \in Timeouts, Block(k, c, l, timeout)
  PROVE  /\ IpcInv(S)' /\ NoneBlocks(k', k, c) /\ k'.state[c] = "BLOCKED" /\ k'.wait[c] = l
         /\ pc' = [pc EXCEPT ![c] = "back"]
         /\ \E r : /\ Safe(r) /\ Fit(r) /\ Arrives(r, k, c, l) /\ Quiet(k', r, NULL)
                   /\ r.deadline[c] = Deadline(timeout) /\ r.result[c] = "ETIMEOUT"
                   /\ Still(r, k) /\ Eases(k', r)
<1> DEFINE r == Blocked(k, c, l, timeout)
<1>1. Safe(k) /\ Sound(k) /\ k.at = "task" /\ k.cur = c /\ l \in WaitList
  BY DEF IpcInv, Runs
<1>2. /\ Safe(r) /\ Fit(r) /\ r.at = "task" /\ r.cur = c /\ Arrives(r, k, c, l)
      /\ r.deadline[c] = Deadline(timeout) /\ r.result[c] = "ETIMEOUT" /\ Still(r, k)
  BY <1>1, BlockedArrives
<1>3. k.build.masked
  BY InvWaits, FitTells DEF Waits, Sound
<1>4. k' = CallSched(r) /\ pc' = [pc EXCEPT ![c] = "back"]
  BY <1>3 DEF Block
<1> HIDE DEF r
<1>5. Safe(k') /\ Sound(k') /\ Quiet(k', r, NULL) /\ Eases(k', r)
  BY <1>2, <1>4, CallKeeps DEF Arrives
<1>6. NoneBlocks(r, k, c)
  BY <1>2, QuietBlocksNone DEF Arrives
<1>7. NoneBlocks(k', r, NULL)
  BY <1>5, QuietBlocksNone DEF Quiet
<1>8. NoneBlocks(k', k, c)
  BY <1>6, <1>7, IdleApart DEF NoneBlocks
<1>9. k'.state[c] = "BLOCKED" /\ k'.wait[c] = l /\ WaitsOn(k', S)
  <2>1. k'.state[c] = "BLOCKED" /\ k'.wait[c] = l
    BY <1>2, <1>5, IdleApart DEF Quiet, SameCalls, Arrives
  <2> QED
    BY <1>8, <2>1 DEF NoneBlocks, WaitsOn, IpcInv
<1>10. pc' \in [Tcb -> CallPlaces]
  BY <1>4 DEF IpcInv, CallPlaces
<1>11. CallsStand'
  <2>1. SameCalls(k', k, c)
    BY <1>2, <1>5, IdleApart DEF SameCalls, Arrives, Quiet
  <2>2. Lives(k', c)
    BY <1>2, <1>5, IdleApart DEF SameCalls, Arrives, Quiet, Lives
  <2>3. InBlockingCall(c)' /\ \A t \in Task \ {c} : InBlockingCall(t)' = InBlockingCall(t)
    BY <1>4, IdleApart DEF IpcInv, InBlockingCall
  <2> QED
    BY <2>1, <2>2, <2>3, CallsStay DEF IpcInv
<1> QED
  BY <1>2, <1>4, <1>5, <1>8, <1>9, <1>10, <1>11 DEF IpcInv

-----------------------------------------------------------------------------
(* Calls that end waits.                                                   *)

\* Where a task executes.
LEMMA RunsTells ==
  ASSUME BlockingBuilds, NEW S, IpcInv(S), k.at = "task"
  PROVE  /\ Safe(k) /\ Sound(k) /\ Fit(k) /\ k \in KernelType /\ k.cur \in Tcb
         /\ k.state[k.cur] = "RUNNING" /\ k.build.masked /\ Waits(k)
<1>1. Waits(k) /\ Safe(k) /\ Sound(k) /\ Fit(k)
  BY InvWaits DEF IpcInv, Sound
<1>2. k \in KernelType /\ k.build.masked
  BY <1>1, FitTells DEF Waits
<1>3. k.cur \in Tcb /\ k.state[k.cur] = "RUNNING"
  BY <1>1 DEF Safe, Sound, CurRuns, Waits, MayBlock
<1> QED
  BY <1>1, <1>2, <1>3

\* The call of a task or of an interrupt handler, the critical section of which has
\* made s: s may have ended waits.
LEMMA WakingKeeps ==
  ASSUME BlockingBuilds, NEW S \in SUBSET WaitList, IpcInv(S), k.at = "task",
         NEW s, Safe(s), Fit(s), s.at = "task", s.state[s.cur] = "RUNNING",
         NoneBlocks(s, k, NULL), \A t \in Task : Lives(k, t) => Lives(s, t),
         \/ \E c \in Task : ThenSched(c, s)
         \/ Interrupt(s)
         \/ Interrupt(SchedFromIrq(s))
  PROVE  /\ IpcInv(S)' /\ UNCHANGED pc /\ Quiet(k', s, NULL) /\ NoneBlocks(k', k, NULL)
         /\ Eases(k', s)
<1>1. k.build.masked
  BY RunsTells
<1>2. UNCHANGED pc
  BY <1>1 DEF ThenSched, Interrupt
<1>3. Safe(k') /\ Sound(k') /\ Quiet(k', s, NULL) /\ Eases(k', s)
  <2>1. k' = CallSched(s) \/ k' \in {IrqExit(s), IrqExit(SchedFromIrq(s))}
    BY <1>1 DEF ThenSched, Interrupt
  <2> QED
    BY <2>1, CallKeeps, IrqKeeps
<1>4. NoneBlocks(k', k, NULL)
  <2>1. NoneBlocks(k', s, NULL)
    BY <1>3, QuietBlocksNone DEF Quiet
  <2> QED
    BY <2>1 DEF NoneBlocks
<1>5. WaitsOn(k', S)
  BY <1>4, NoneBlocksMore DEF IpcInv
<1>6. CallsStand'
  <2>1. \A t \in Task : Lives(k, t) => Lives(k', t)
    BY <1>3, IdleApart DEF Quiet, SameCalls
  <2> QED
    BY <1>2, <1>4, <2>1, IdleApart DEF CallsStand, InBlockingCall, NoneBlocks, IpcInv
<1> QED
  BY <1>2, <1>3, <1>4, <1>5, <1>6 DEF IpcInv

\* A waiter is handed what it waits for: what the call makes of the kernel.
LEMMA GivenKeeps ==
  ASSUME BlockingBuilds, NEW S \in SUBSET WaitList, IpcInv(S), k.at = "task",
         NEW l \in WaitList, NEW t, t = k.head[l], t # NULL,
         NEW result \in Results, NEW s, s = HandOff(k, l, result)
  PROVE  /\ t \in Task /\ k.state[t] = "BLOCKED" /\ k.wait[t] = l
         /\ Safe(s) /\ Fit(s) /\ s.at = "task" /\ s.cur = k.cur /\ s.state[s.cur] = "RUNNING"
         /\ s # k /\ NoneBlocks(s, k, NULL) /\ \A u \in Task : Lives(k, u) => Lives(s, u)
         /\ Departs(s, k, t, result) /\ (result # "ETIMEOUT" => Eases(s, k))
<1>1. Safe(k) /\ Fit(k) /\ k \in KernelType /\ k.cur \in Tcb /\ k.state[k.cur] = "RUNNING"
  BY RunsTells
<1>2. /\ t \in Task /\ k.state[t] = "BLOCKED" /\ k.wait[t] = l
      /\ Safe(s) /\ Fit(s) /\ s.at = "task" /\ s.cur = k.cur
      /\ s.state = [k.state EXCEPT ![t] = "READY"] /\ Departs(s, k, t, result)
      /\ result # "ETIMEOUT" => Eases(s, k)
  BY <1>1, HandOffDeparts
<1>3. k.state \in [Tcb -> States] /\ t \in Tcb
  BY <1>1, <1>2, IdleApart DEF KernelType
<1>4. s.state[t] = "READY" /\ s.state[k.cur] = "RUNNING"
  BY <1>1, <1>2, <1>3
<1>5. \A u \in Task : Lives(k, u) => Lives(s, u)
  BY <1>2, <1>3, IdleApart DEF Lives
<1> QED
  BY <1>2, <1>4, <1>5, DepartsBlocksNone

-----------------------------------------------------------------------------
(* Nobody waits on an empty list.                                          *)

LEMMA EmptyLine ==
  ASSUME NEW s, Fit(s), NEW l \in WaitList
  PROVE  s.head[l] = NULL <=> \A t \in Task : s.state[t] = "BLOCKED" => s.wait[t] # l
<1>1. l \in List /\ l \notin Prio /\ Chained(s, l, On(s, l, NULL))
  BY ListsNameTasks, ListAssumption DEF Fit, LinksAgree
<1>2. On(s, l, NULL) = {} <=> s.head[l] = NULL
  BY <1>1, ChainEnds
<1> QED
  BY <1>1, <1>2, IdleApart DEF On

\* The return of a call that blocked.
LEMMA ReturnKeeps ==
  ASSUME BlockingBuilds, NEW S, IpcInv(S), NEW c \in Task, Returns(c),
         pc' = [pc EXCEPT ![c] = "run"], UNCHANGED k
  PROVE  IpcInv(S)' /\ k.state[c] = "RUNNING"
<1>1. k.state[c] = "RUNNING"
  BY RunsTells DEF Returns
<1> QED
  BY <1>1, IdleApart DEF IpcInv, CallPlaces, CallsStand, InBlockingCall, Lives

-----------------------------------------------------------------------------
(* What readers of the wait lists find.                                    *)

LEMMA SoundWaiters == Sound(k) => WaitersBlocked
<1> SUFFICES ASSUME Sound(k), NEW l \in WaitList
             PROVE  Members(k, l, TaskCount) = { t \in Task : k.state[t] = "BLOCKED" /\ k.wait[t] = l }
  BY DEF WaitersBlocked
<1>1. k \in KernelType /\ l \in List /\ l \notin Prio /\ Chained(k, l, On(k, l, NULL))
  BY ListsNameTasks, ListAssumption DEF Sound, Fit, LinksAgree
<1>2. Members(k, l, TaskCount) = On(k, l, NULL)
  BY <1>1, MembersTell DEF TaskCount
<1>3. On(k, l, NULL) = { t \in Task : k.state[t] = "BLOCKED" /\ k.wait[t] = l }
  BY <1>1, IdleApart DEF On
<1> QED
  BY <1>2, <1>3

LEMMA InitIdle == KernelInit => \A t \in Task : k.state[t] = "INIT"
<1> SUFFICES ASSUME KernelInit, NEW t \in Task PROVE k.state[t] = "INIT"
  OBVIOUS
<1>1. k.state = [u \in Tcb |-> IF u = Idle THEN "READY" ELSE "INIT"]
  BY DEF KernelInit
<1> QED
  BY <1>1, IdleApart

LEMMA InitIpc == ASSUME NEW S, KernelInit PROVE IpcInv(S)
<1>1. Safe(k) /\ Sound(k) /\ \A t \in Task : k.state[t] = "INIT"
  BY InitSafe, InitSound, InitIdle DEF TasksInv
<1>2. pc \in [Tcb -> CallPlaces] /\ \A t \in Task : ~InBlockingCall(t)
  BY IdleApart DEF KernelInit, CallPlaces, InBlockingCall
<1> QED
  BY <1>1, <1>2 DEF IpcInv, CallsStand, WaitsOn

-----------------------------------------------------------------------------
(* Deadlines.  The scan of the tick handler treats them like the ticks of  *)
(* sleepers, and so do these proofs: Early and Ahead of SleepProofs, for   *)
(* the deadlines of calls.                                                 *)

\* Timeouts of at most half the range of the tick counter, or none: a longer one counts
\* as past.
ShortTimes ==
  ShortDelays /\ \A timeout \in Timeouts \ {Forever} : timeout <= TickMod - TickMod \div 2

\* The ticks a call with a deadline may still wait, if the tick handler scans its task.
Timed(s, t) == s.state[t] = "BLOCKED" /\ s.deadline[t] # 0 /\ InTable(s, t)
TimeLeft(s, t) == (s.deadline[t] - s.tick) % TickMod

\* No deadline has come, ...
EarlyCalls(s) == \A t \in Task : Timed(s, t) => TimeLeft(s, t) \in 1 .. TickMod - TickMod \div 2

\* ... except, during the scan, those it has yet to come to.
AheadCalls(s) ==
  \A t \in Task : Timed(s, t) => /\ TimeLeft(s, t) \in 0 .. TickMod - TickMod \div 2
                                 /\ TimeLeft(s, t) = 0 => Unscanned(s, t)

\* A table for all tasks, and the tasks in it: those that were created, and each once.
Room == Cardinality(Tcb) <= TaskMax

Entered(s) ==
  /\ \A t \in Task : s.state[t] # "TERMINATED" /\ (s.state[t] # "INIT" <=> InTable(s, t))
  /\ \A i, j \in 1 .. Len(s.table) : s.table[i] = s.table[j] => i = j

\* The invariant, to be added to IpcInv.
Clocked(s) == Ahead(s) /\ AheadCalls(s) /\ (Room => Entered(s))

\* A step ends no wait by a timeout but at the tick that is its deadline.
InTime ==
  \A t \in Task : k.state[t] = "BLOCKED" /\ k'.state[t] # "BLOCKED" /\ k'.result[t] = "ETIMEOUT"
                    => k.tick = k.deadline[t]

LEMMA EarlyCallsAhead == ASSUME NEW s, EarlyCalls(s) PROVE AheadCalls(s)
  BY DEF EarlyCalls, AheadCalls

LEMMA AheadCallsEarly ==
  ASSUME NEW s \in KernelType, AheadCalls(s), s.at # "tick" \/ s.i > Len(s.table)
  PROVE  EarlyCalls(s)
<1> SUFFICES ASSUME NEW t \in Task, Timed(s, t), TimeLeft(s, t) = 0 PROVE FALSE
  BY SchedAssumption DEF EarlyCalls, AheadCalls
<1>1. Unscanned(s, t) /\ s.i \in Nat /\ Len(s.table) \in Nat
  BY DEF AheadCalls, KernelType
<1>2. PICK j \in 1 .. Len(s.table) : s.table[j] = t
  BY DEF Timed, InTable
<1> QED
  BY <1>1, <1>2 DEF Unscanned

LEMMA EarlyCallsStay ==
  ASSUME NEW s, NEW r, EarlyCalls(s), r.tick = s.tick,
         \A t \in Task : Timed(r, t) => Timed(s, t) /\ r.deadline[t] = s.deadline[t]
  PROVE  EarlyCalls(r)
  BY DEF EarlyCalls, TimeLeft

\* The task that was not there before is the only one that is new in the table.
LEMMA EntersOne ==
  ASSUME NEW s \in KernelType, NEW r, NEW t \in Task, Enters(r, s, t)
  PROVE  /\ \A u \in Task \ {t} : InTable(r, u) <=> InTable(s, u)
         /\ Len(s.table) < TaskMax => /\ InTable(r, t) /\ Len(r.table) = Len(s.table) + 1
                                      /\ r.table[Len(s.table) + 1] = t
                                      /\ \A i \in 1 .. Len(s.table) : r.table[i] = s.table[i]
<1>1. s.table \in Seq(Tcb) /\ Len(s.table) \in Nat /\ t \in Tcb
  BY IdleApart DEF KernelType
<1>2. CASE Len(s.table) < TaskMax
  <2> DEFINE n == Len(s.table)
             new == Append(s.table, t)
  <2>1. /\ Len(new) = n + 1 /\ new[n + 1] = t /\ \A i \in 1 .. n : new[i] = s.table[i]
    BY <1>1
  <2>2. r.table = new /\ n \in Nat
    BY <1>1, <1>2 DEF Enters
  <2>3. 1 .. Len(new) = (1 .. n) \cup {n + 1}
    BY <1>1, <2>1
  <2> HIDE DEF new
  <2>4. InTable(r, t)
    BY <2>1, <2>2, <2>3 DEF InTable
  <2>5. \A u \in Task \ {t} : InTable(r, u) <=> InTable(s, u)
    BY <2>1, <2>2, <2>3 DEF InTable
  <2> QED
    BY <2>1, <2>2, <2>4, <2>5
<1>3. CASE ~(Len(s.table) < TaskMax)
  <2>1. r.table = s.table
    BY <1>3 DEF Enters
  <2> QED
    BY <1>3, <2>1 DEF InTable
<1> QED
  BY <1>2, <1>3

\* A table with an entry for every task but t has room for it.
LEMMA RoomForOne ==
  ASSUME Room, NEW s \in KernelType, Entered(s), NEW t \in Task, ~InTable(s, t)
  PROVE  Len(s.table) < TaskMax
<1> DEFINE n == Len(s.table)
           others == Tcb \ {t}
           f == [i \in 1 .. n |-> s.table[i]]
<1>1. s.table \in Seq(Tcb) /\ n \in Nat /\ t \in Tcb
  BY IdleApart DEF KernelType
<1>2. IsFiniteSet(Tcb) /\ IsFiniteSet(others) /\ Cardinality(others) = Cardinality(Tcb) - 1
      /\ Cardinality(Tcb) \in Nat
  <2>1. IsFiniteSet(Tcb)
    BY ListAssumption, FS_AddElement DEF Tcb
  <2> QED
    BY <1>1, <2>1, FS_RemoveElement, FS_CardinalityType
<1>3. f \in Injection(1 .. n, others)
  <2>1. \A i \in 1 .. n : s.table[i] \in others
    BY <1>1 DEF InTable
  <2>2. \A i, j \in 1 .. n : s.table[i] = s.table[j] => i = j
    BY DEF Entered
  <2> QED
    BY <2>1, <2>2 DEF Injection, IsInjective
<1>4. IsFiniteSet(1 .. n) /\ Cardinality(1 .. n) = n
  BY <1>1, FS_Interval
<1> HIDE DEF others, f
<1>5. Cardinality(1 .. n) <= Cardinality(others)
  BY <1>2, <1>3, FS_Injection
<1> QED
  BY <1>1, <1>2, <1>4, <1>5, SchedAssumption DEF Room

LEMMA EnteredStays ==
  ASSUME NEW s, NEW r, Entered(s), r.table = s.table,
         \A t \in Task : /\ r.state[t] = "INIT" <=> s.state[t] = "INIT"
                         /\ Lives(s, t) => Lives(r, t)
  PROVE  Entered(r)
  BY DEF Entered, InTable, Lives

LEMMA EnteredGrows ==
  ASSUME Room, NEW s \in KernelType, NEW r, Entered(s), NEW t \in Task, Enters(r, s, t),
         \A u \in Task : Lives(s, u) => Lives(r, u)
  PROVE  Entered(r)
<1>1. s.state[t] = "INIT" /\ ~InTable(s, t) /\ r.state[t] = "READY"
  BY DEF Enters, Entered
<1> DEFINE n == Len(s.table)
<1>2. n < TaskMax /\ n \in Nat
  <2>1. n < TaskMax
    BY <1>1, RoomForOne
  <2> QED
    BY <2>1 DEF KernelType
<1>3. /\ InTable(r, t) /\ Len(r.table) = n + 1 /\ r.table[n + 1] = t
      /\ \A i \in 1 .. n : r.table[i] = s.table[i]
      /\ \A u \in Task \ {t} : InTable(r, u) <=> InTable(s, u)
  BY <1>2, EntersOne
<1>4. ASSUME NEW u \in Task
      PROVE  r.state[u] # "TERMINATED" /\ (r.state[u] # "INIT" <=> InTable(r, u))
  BY <1>1, <1>3 DEF Enters, Entered, Lives
<1>5. \A i \in 1 .. n : s.table[i] # t
  BY <1>1 DEF InTable
<1>6. ASSUME NEW i \in 1 .. n + 1, NEW j \in 1 .. n + 1, r.table[i] = r.table[j] PROVE i = j
  <2>1. (i \in 1 .. n \/ i = n + 1) /\ (j \in 1 .. n \/ j = n + 1)
    BY <1>2
  <2>2. \A a, b \in 1 .. n : s.table[a] = s.table[b] => a = b
    BY DEF Entered
  <2> HIDE DEF n
  <2> QED
    BY <1>3, <1>5, <1>6, <2>1, <2>2
<1> QED
  BY <1>3, <1>4, <1>6 DEF Entered

\* The steps of the tick handler, and the others.
LEMMA TickStartPrompt ==
  ASSUME TickMod > 1, k \in KernelType, AheadCalls(k), TickStart
  PROVE  AheadCalls(k') /\ InTime /\ k'.table = k.table /\ k'.state = k.state
<1> DEFINE now == (k.tick + 1) % TickMod
           r == [k EXCEPT !.tick = now, !.at = "tick", !.i = 1]
<1>1. EarlyCalls(k) /\ k' = r /\ k.tick \in Tick
  <2>1. k.at # "tick" /\ k' = r
    BY DEF TickStart
  <2> HIDE DEF r
  <2> QED
    BY <2>1, AheadCallsEarly DEF KernelType
<1>2. now = (k.tick + 1) % TickMod
  OBVIOUS
<1> HIDE DEF now
<1>3. /\ r.state = k.state /\ r.deadline = k.deadline /\ r.table = k.table /\ r.tick = now
      /\ r.at = "tick" /\ r.i = 1
  BY DEF KernelType
<1> HIDE DEF r
<1>4. ASSUME NEW t \in Task, Timed(r, t)
      PROVE  TimeLeft(r, t) \in 0 .. TickMod - TickMod \div 2
  <2>1. Timed(k, t)
    BY <1>3, <1>4 DEF Timed, InTable
  <2>2. k.deadline[t] \in Tick
    BY IdleApart DEF KernelType
  <2>3. (k.deadline[t] - k.tick) % TickMod \in 1 .. TickMod - TickMod \div 2
    BY <1>1, <2>1 DEF EarlyCalls, TimeLeft
  <2>4. (k.deadline[t] - now) % TickMod \in 0 .. TickMod - TickMod \div 2
    BY <1>1, <1>2, <2>2, <2>3, TickPasses
  <2> QED
    BY <1>3, <2>4 DEF TimeLeft
<1>5. \A t \in Task : Unscanned(r, t)
  BY <1>3 DEF Unscanned
<1> QED
  BY <1>1, <1>3, <1>4, <1>5 DEF AheadCalls, InTime

LEMMA TickScanPrompt ==
  ASSUME TickMod > 1, Waits(k), \A t \in Task : k.state[t] = "BLOCKED" => k.wait[t] \in WaitList,
         AheadCalls(k), TickScan
  PROVE  AheadCalls(k') /\ InTime
<1> DEFINE x == k.table[k.i]
           s == ScanTask(k, x)
           r == [s EXCEPT !.i = s.i + 1]
<1>1. k \in KernelType /\ Fit(k)
  BY DEF Waits, Sound, Fit
<1>2. /\ k.at = "tick" /\ k.i \in 1 .. Len(k.table) /\ k.tick \in Tick /\ k' = r
      /\ x = k.table[k.i] /\ s = ScanTask(k, x)
  <2>1. k.at = "tick" /\ k.i <= Len(k.table) /\ k.i >= 1 /\ k' = r
    BY DEF TickScan, Waits, Safe
  <2> HIDE DEF r
  <2> QED
    BY <1>1, <2>1 DEF KernelType
<1>3. x \in Tcb
  BY <1>1, <1>2 DEF KernelType
<1> HIDE DEF x, s
<1>4. s \in KernelType /\ s.tick = k.tick /\ s.table = k.table /\ s.at = k.at /\ s.i = k.i
  BY <1>1, <1>2, <1>3, ScanFields
<1>5. r.tick = k.tick /\ r.table = k.table /\ r.at = "tick" /\ r.i = k.i + 1
  BY <1>2, <1>4 DEF KernelType
<1>6. IF k.state[x] = "BLOCKED" /\ k.deadline[x] # 0 /\ Reached(k.tick, k.deadline[x])
      THEN x \in Task /\ Departs(r, k, x, "ETIMEOUT") ELSE Quiet(r, k, NULL)
  BY <1>2, ScanDeparts
<1> HIDE DEF r
<1>7. InTable(k, x) /\ \A t \in Task : InTable(r, t) <=> InTable(k, t)
  BY <1>2, <1>5 DEF InTable
<1>8. ASSUME NEW t \in Task, Timed(k, t)
      PROVE  /\ Reached(k.tick, k.deadline[t]) => k.tick = k.deadline[t]
             /\ TimeLeft(k, t) = 0 => Reached(k.tick, k.deadline[t])
  <2>1. k.deadline[t] \in Tick
    BY <1>1, IdleApart DEF KernelType
  <2>2. (k.deadline[t] - k.tick) % TickMod \in 0 .. TickMod - TickMod \div 2
    BY <1>8 DEF AheadCalls, TimeLeft
  <2> QED
    BY <1>2, <2>1, <2>2, ReachedIsNow DEF TimeLeft
<1>9. ASSUME NEW t \in Task, r.state[t] = "BLOCKED"
      PROVE  /\ k.state[t] = "BLOCKED" /\ r.deadline[t] = k.deadline[t]
             /\ t = x => k.deadline[t] = 0 \/ ~Reached(k.tick, k.deadline[t])
  BY <1>6, <1>9, IdleApart DEF Departs, Quiet, SameCalls
<1>10. InTime
  <2>1. ASSUME NEW t \in Task, k.state[t] = "BLOCKED", r.state[t] # "BLOCKED"
        PROVE  k.tick = k.deadline[t]
    <3>1. t = x /\ k.deadline[t] # 0 /\ Reached(k.tick, k.deadline[t])
      BY <1>6, <2>1, IdleApart DEF Departs, Quiet, SameCalls
    <3> QED
      BY <1>7, <1>8, <2>1, <3>1 DEF Timed
  <2> QED
    BY <1>2, <2>1 DEF InTime
<1>11. ASSUME NEW t \in Task, Timed(r, t)
       PROVE  /\ TimeLeft(r, t) \in 0 .. TickMod - TickMod \div 2
              /\ TimeLeft(r, t) = 0 => Unscanned(r, t)
  <2>1. Timed(k, t) /\ TimeLeft(r, t) = TimeLeft(k, t)
    BY <1>5, <1>7, <1>9, <1>11 DEF Timed, TimeLeft
  <2>2. TimeLeft(k, t) \in 0 .. TickMod - TickMod \div 2 /\ (TimeLeft(k, t) = 0 => Unscanned(k, t))
    BY <2>1 DEF AheadCalls
  <2>3. TimeLeft(k, t) = 0 => t # x
    BY <1>8, <1>9, <1>11, <2>1 DEF Timed
  <2>4. TimeLeft(k, t) = 0 => \A j \in 1 .. Len(k.table) : k.table[j] = t => j >= k.i /\ j # k.i
    BY <1>2, <2>2, <2>3 DEF Unscanned
  <2>5. TimeLeft(k, t) = 0 => Unscanned(r, t)
    BY <1>2, <1>5, <2>4 DEF Unscanned
  <2> QED
    BY <2>1, <2>2, <2>5
<1> QED
  BY <1>2, <1>10, <1>11 DEF AheadCalls

LEMMA QuietPrompt ==
  ASSUME k \in KernelType, AheadCalls(k), k.at # "tick" \/ k.i > Len(k.table), Quiet(k', k, NULL),
         SameEntries(k', k) \/ \E t \in Task : Enters(k', k, t)
  PROVE  AheadCalls(k') /\ InTime
<1>1. EarlyCalls(k)
  BY AheadCallsEarly
<1>2. \A t \in Task : /\ k'.state[t] = "BLOCKED" <=> k.state[t] = "BLOCKED"
                      /\ k.state[t] = "BLOCKED" => k'.deadline[t] = k.deadline[t]
  BY IdleApart DEF Quiet, SameCalls
<1>3. k'.tick = k.tick
  BY DEF SameEntries, Enters
<1>4. ASSUME NEW u \in Task, k.state[u] = "BLOCKED", InTable(k', u) PROVE InTable(k, u)
  <2>1. ASSUME NEW t \in Task, Enters(k', k, t) PROVE InTable(k, u)
    <3>1. u # t
      BY <1>4, <2>1 DEF Enters
    <3> QED
      BY <1>4, <2>1, <3>1, EntersOne
  <2> QED
    BY <1>4, <2>1 DEF SameEntries, InTable
<1>5. EarlyCalls(k')
  BY <1>1, <1>2, <1>3, <1>4, EarlyCallsStay DEF Timed
<1> QED
  BY <1>2, <1>5, EarlyCallsAhead DEF InTime

\* A step of the kernel or of the task interface.
LEMMA StepPrompt ==
  ASSUME BlockingBuilds, ShortDelays, NEW S \in SUBSET WaitList, IpcInv(S), Clocked(k),
         [TasksNext]_vars
  PROVE  Clocked(k') /\ InTime
<1>1. /\ SoundBuilds /\ Waits(k) /\ Safe(k) /\ Sound(k) /\ k \in KernelType /\ Calm(k.build)
      /\ TickMod > 1
  BY InvWaits, FitTells DEF BlockingBuilds, Waits, Sound, MayBlock, ShortDelays
<1>2. \A t \in Task : k.state[t] = "BLOCKED" => k.wait[t] \in WaitList
  BY DEF IpcInv, WaitsOn
<1>3. Ahead(k') /\ (SameEntries(k', k) \/ TickStart \/ \E t \in Task : Enters(k', k, t))
  BY <1>1, StepTimely DEF Timely, Clocked
<1>4. \A t \in Task : Lives(k, t) => Lives(k', t)
  BY StepDeparts, IdleApart DEF Quiet, Departs, SameCalls
<1>5. Room => Entered(k')
  <2>1. CASE SameEntries(k', k)
    BY <1>4, <2>1, EnteredStays DEF SameEntries, Clocked
  <2>2. CASE TickStart
    BY <1>1, <1>4, <2>2, TickStartPrompt, EnteredStays DEF Clocked
  <2>3. ASSUME NEW t \in Task, Enters(k', k, t) PROVE Room => Entered(k')
    BY <1>1, <1>4, <2>3, EnteredGrows DEF Clocked
  <2> QED
    BY <1>3, <2>1, <2>2, <2>3
<1>6. AheadCalls(k') /\ InTime
  <2>1. CASE TickStart
    BY <1>1, <2>1, TickStartPrompt DEF Clocked
  <2>2. CASE TickScan
    BY <1>1, <1>2, <2>2, TickScanPrompt DEF Clocked
  <2>3. CASE UNCHANGED vars
    BY <2>3 DEF vars, InTime, Clocked
  <2>4. CASE TasksNext /\ ~TickStart /\ ~TickScan
    <3>1. k.at # "tick" \/ k.i > Len(k.table)
      <4>1. ASSUME NEW c \in Task, TaskStep(c) PROVE k.at = "task"
        BY <4>1 DEF TaskStep, EnterSched, TaskCreate, TaskDelete, TaskSuspend, TaskResume,
                    TaskSetPrio, TaskYield, TaskDelay, SchedLock, SchedUnlock, Overflow, Runs
      <4> QED
        BY <2>4, <4>1 DEF TasksNext, KernelStep, MainCreate, KernelStart, StartFirst,
                          SkipOverflowed, Switch, IdleSched, Runs, TickEnd
    <3>2. Quiet(k', k, NULL)
      BY <1>1, <2>4, KernelQuiet, TaskStepQuiet DEF TasksNext
    <3> QED
      BY <1>1, <1>3, <2>4, <3>1, <3>2, QuietPrompt DEF Clocked
  <2> QED
    BY <2>1, <2>2, <2>3, <2>4
<1> QED
  BY <1>3, <1>5, <1>6 DEF Clocked

\* A call that ends waits, or none.
LEMMA EasePrompt ==
  ASSUME NEW S, IpcInv(S), k.at = "task", Clocked(k), Eases(k', k)
  PROVE  Clocked(k') /\ InTime
<1>1. Safe(k) /\ k \in KernelType /\ Still(k', k)
  BY DEF IpcInv, Safe, Eases
<1>2. Ahead(k')
  <2>1. Early(k)
    BY <1>1, AwakeIsEarly DEF Clocked
  <2> QED
    BY <1>1, <2>1, StillEarly, EarlyIsAhead
<1>3. AheadCalls(k')
  <2>1. EarlyCalls(k)
    BY <1>1, AheadCallsEarly DEF Clocked
  <2>2. EarlyCalls(k')
    BY <1>1, <2>1, EarlyCallsStay DEF Eases, Still, SameEntries, Timed, InTable
  <2> QED
    BY <2>2, EarlyCallsAhead
<1>4. Room => Entered(k')
  BY EnteredStays DEF Clocked, Eases, Still, SameEntries
<1> QED
  BY <1>2, <1>3, <1>4 DEF Clocked, InTime, Eases

\* What is left of a timeout just asked for is the timeout.
LEMMA DeadlineIsLeft ==
  ASSUME ShortTimes, NEW timeout \in Timeouts, timeout # NoWait, k.tick \in Tick,
         Deadline(timeout) # 0
  PROVE  (Deadline(timeout) - k.tick) % TickMod \in 1 .. TickMod - TickMod \div 2
<1> DEFINE half == TickMod - TickMod \div 2
           now == k.tick
           end == Deadline(timeout)
<1>1. TickMod \in Nat /\ now \in 0 .. TickMod - 1 /\ timeout \in 1 .. TickMod - 1
  BY SchedAssumption, IpcAssumption DEF Tick, NoWait
<1>2. timeout <= half /\ end = (now + timeout) % TickMod
  BY DEF ShortTimes, Deadline
<1> HIDE DEF end, half, now
<1>3. end = IF now + timeout >= TickMod THEN now + timeout - TickMod ELSE now + timeout
  BY <1>1, <1>2
<1>4. end \in Tick /\ now \in Tick
  BY <1>1, <1>3 DEF Tick
<1>5. (end - now) % TickMod = IF end >= now THEN end - now ELSE end - now + TickMod
  BY <1>4, TicksApart
<1>6. (end - now) % TickMod = timeout
  BY <1>1, <1>3, <1>5
<1>7. half \in Int
  BY <1>1 DEF half
<1>8. timeout \in 1 .. half
  BY <1>1, <1>2, <1>7
<1> QED
  BY <1>6, <1>8 DEF end, half, now

\* A call that blocks.
LEMMA BlockPrompt ==
  ASSUME BlockingBuilds, ShortTimes, NEW S \in SUBSET WaitList, IpcInv(S), Clocked(k),
         NEW c \in Task, Runs(c), NEW l \in S, NEW timeout \in Timeouts, timeout # NoWait,
         Block(k, c, l, timeout)
  PROVE  Clocked(k') /\ InTime
<1>1. PICK r : /\ Safe(r) /\ Fit(r) /\ Arrives(r, k, c, l) /\ Quiet(k', r, NULL)
               /\ r.deadline[c] = Deadline(timeout) /\ r.result[c] = "ETIMEOUT"
               /\ Still(r, k) /\ Eases(k', r)
  BY BlockKeeps
<1>2. Safe(k) /\ k \in KernelType /\ k.at = "task" /\ k.cur = c /\ k.state[c] = "RUNNING"
  BY RunsTells DEF Runs
<1>3. Still(k', k)
  BY <1>1, StillTwice DEF Eases
<1>4. \A t \in Task \ {c} : /\ k'.state[t] = "BLOCKED" <=> k.state[t] = "BLOCKED"
                            /\ k.state[t] = "BLOCKED" => k'.deadline[t] = k.deadline[t]
  BY <1>1, IdleApart DEF Arrives, Quiet, SameCalls
<1>5. k'.deadline[c] = Deadline(timeout)
  BY <1>1, IdleApart DEF Arrives, Quiet, SameCalls
<1>6. Ahead(k')
  <2>1. Early(k)
    BY <1>2, AwakeIsEarly DEF Clocked
  <2> QED
    BY <1>3, <2>1, StillEarly, EarlyIsAhead
<1>7. AheadCalls(k')
  <2>1. EarlyCalls(k) /\ k.tick \in Tick
    BY <1>2, AheadCallsEarly DEF Clocked, KernelType
  <2>2. ASSUME NEW t \in Task, Timed(k', t)
        PROVE  TimeLeft(k', t) \in 1 .. TickMod - TickMod \div 2
    <3>1. CASE t = c
      BY <1>3, <1>5, <2>1, <2>2, <3>1, DeadlineIsLeft DEF Timed, TimeLeft, Still, SameEntries
    <3>2. CASE t # c
      <4>1. Timed(k, t) /\ TimeLeft(k', t) = TimeLeft(k, t)
        BY <1>3, <1>4, <2>2, <3>2 DEF Timed, TimeLeft, Still, SameEntries, InTable
      <4> QED
        BY <2>1, <4>1 DEF EarlyCalls
    <3> QED
      BY <3>1, <3>2
  <2> QED
    BY <2>2, EarlyCallsAhead DEF EarlyCalls
<1>8. Room => Entered(k')
  <2>1. \A t \in Task : Lives(k, t) => Lives(k', t)
    BY <1>1, IdleApart DEF Arrives, Quiet, SameCalls, Lives
  <2> QED
    BY <1>3, <2>1, EnteredStays DEF Clocked, Still, SameEntries
<1>9. InTime
  BY <1>2, <1>4 DEF InTime
<1> QED
  BY <1>6, <1>7, <1>8, <1>9 DEF Clocked

LEMMA InitClocked == KernelInit => Clocked(k)
<1> SUFFICES ASSUME KernelInit PROVE Clocked(k)
  OBVIOUS
<1>1. Ahead(k) /\ \A t \in Task : k.state[t] = "INIT"
  BY InitAhead, InitIdle
<1>2. k.table = <<Idle>>
  BY DEF KernelInit
<1>3. Entered(k)
  BY <1>1, <1>2, IdleApart DEF Entered, InTable
<1> QED
  BY <1>1, <1>3 DEF Clocked, AheadCalls, Timed

\* What the invariant says to those who wait: no deadline that has come is left behind.
LEMMA ClockedMeans ==
  ASSUME TickMod > 1, Room, NEW S, IpcInv(S), Clocked(k)
  PROVE  NobodyOverstays
<1> SUFFICES ASSUME k.at \in {"task", "sched"}, NEW t \in Task, k.state[t] = "BLOCKED",
                    k.deadline[t] # 0, Reached(k.tick, k.deadline[t])
             PROVE  FALSE
  BY DEF NobodyOverstays
<1>1. k \in KernelType /\ k.tick \in Tick /\ k.deadline[t] \in Tick
  BY IdleApart DEF IpcInv, Safe, KernelType
<1>2. Timed(k, t)
  BY DEF Clocked, Entered, Timed
<1>3. TimeLeft(k, t) \in 1 .. TickMod - TickMod \div 2
  BY <1>1, <1>2, AheadCallsEarly DEF Clocked, EarlyCalls
<1>4. k.tick = k.deadline[t] /\ TickMod \in Nat
  <2>1. (k.deadline[t] - k.tick) % TickMod \in 0 .. TickMod - TickMod \div 2
    BY <1>3, SchedAssumption DEF TimeLeft
  <2> QED
    BY <1>1, <2>1, ReachedIsNow, SchedAssumption
<1>5. (k.deadline[t] - k.tick) % TickMod = 0
  <2>1. k.tick \in Int /\ k.deadline[t] - k.tick = 0
    BY <1>1, <1>4, SchedAssumption DEF Tick
  <2> QED
    BY <1>4, <2>1, TickMod > 1
<1> QED
  BY <1>3, <1>5 DEF TimeLeft

\* ... and to a task whose call times out: that is at its deadline.
LEMMA TimedOutLeft ==
  ASSUME InTime, k \in KernelType
  PROVE  \A t \in Task : Outcome(t) = "waiting" /\ Outcome(t)' = "ETIMEOUT" => k.tick = k.deadline[t]
<1> SUFFICES ASSUME NEW t \in Task, Outcome(t) = "waiting", Outcome(t)' = "ETIMEOUT"
             PROVE  k.tick = k.deadline[t]
  OBVIOUS
<1>1. k.result[t] \in Results
  BY IdleApart DEF KernelType
<1>2. k.state[t] = "BLOCKED"
  BY <1>1 DEF Outcome, Results
<1>3. k'.state[t] # "BLOCKED" /\ k'.result[t] = "ETIMEOUT"
  BY DEF Outcome
<1> QED
  BY <1>2, <1>3 DEF InTime
=============================================================================
