------------------------------ MODULE ReadyProofs ------------------------------
(***************************************************************************)
(* Proof that the ready lists, the wait lists, the bitmap and the states   *)
(* of the tasks agree whenever anybody can look, for any tasks,            *)
(* priorities and calls of module Tasks.  TasksProofs says what a single   *)
(* operator does to lists that agree with the states of all tasks but one; *)
(* here each handler, which takes a task off its list, writes its state    *)
(* and puts it on another, is shown to restore the agreement.  For that    *)
(* the handlers need more of the tasks themselves: the current task is on  *)
(* no list while it executes, and idle never is.                           *)
(***************************************************************************)
EXTENDS TasksProofs

\* Applications whose current task is RUNNING whenever it executes: calls mask
\* interrupts, the scheduler is never locked, no stack overflows, and with time slices
\* the port switches on interrupt exit.
Calm(build) ==
  /\ build.masked /\ {"lock", "overflow"} \cap build.ops = {}
  /\ build.slices => build.exits

\* Applications that may block: they stop no other task.
MayBlock(build) == Calm(build) /\ {"delete", "suspend"} \cap build.ops = {}

\* What the lists rest on, of the tasks themselves: guards and locks in calm
\* applications, who is blocked, and that no task shares the priority of idle where
\* time slices would queue idle.
Habits(s) ==
  /\ s.build \in Builds
  /\ s.at \notin {"boot", "start"} => s.running
  /\ s.guard[Idle] /\ s.prio[Idle] = PrioMax - 1
  /\ Calm(s.build) => s.lock = 0 /\ \A t \in Task : s.guard[t]
  /\ s.build.slices => \A t \in Task : s.state[t] # "INIT" => s.prio[t] # PrioMax - 1
  /\ ~MayBlock(s.build) => \A t \in Task : s.state[t] # "BLOCKED"

\* ... and the idle task is READY or RUNNING, though never queued.
Stands(s) == Habits(s) /\ s.state[Idle] = IF s.cur = Idle THEN "RUNNING" ELSE "READY"

Fit(s) == s \in KernelType /\ LinksAgree(s, NULL) /\ Stands(s)

\* The current task is RUNNING while it or a tick handler executes, and if it is
\* READY when os_sched looks for the next one, it is not the head of its list.
CurRuns(s) == Calm(s.build) => s.state[s.cur] = "RUNNING"

Leaves(s) ==
  Calm(s.build) /\ s.cur # Idle /\ s.state[s.cur] = "READY" => s.head[s.prio[s.cur]] # s.cur

Sound(s) ==
  /\ Fit(s)
  /\ s.at \in {"task", "tick"} => CurRuns(s)
  /\ s.at = "sched" => Leaves(s)

-----------------------------------------------------------------------------
(* Steps that change one thing.                                            *)

LEMMA IdleApart == Idle \in Tcb /\ Idle \notin Task /\ NULL \notin Tcb /\ \A t \in Task : t \in Tcb
  BY ListsNameTasks, SchedAssumption

\* A step that leaves idle, guards and priorities alone.
LEMMA StandsStay ==
  ASSUME NEW s, NEW r, Stands(s),
         r.build = s.build, r.running = s.running, r.at = s.at, r.guard = s.guard,
         r.prio = s.prio, r.cur = s.cur, r.lock = s.lock,
         \A u \in Tcb : \/ r.state[u] = s.state[u]
                        \/ /\ u \in Task /\ r.state[u] # "BLOCKED"
                           /\ s.state[u] # "INIT" \/ (s.build.slices => s.prio[u] # PrioMax - 1)
  PROVE  Stands(r)
<1>1. r.state[Idle] = s.state[Idle]
  BY IdleApart
<1>2. s.build.slices => \A t \in Task : r.state[t] # "INIT" => r.prio[t] # PrioMax - 1
  BY IdleApart DEF Stands, Habits
<1>3. ~MayBlock(s.build) => \A t \in Task : r.state[t] # "BLOCKED"
  BY IdleApart DEF Stands, Habits
<1> QED
  BY <1>1, <1>2, <1>3 DEF Stands, Habits

\* task_ready_add
LEMMA ReadyAddFit ==
  ASSUME NEW s \in KernelType, NEW t \in Task, LinksAgree(s, t), Stands(s),
         s.state[t] # "INIT" \/ (s.build.slices => s.prio[t] # PrioMax - 1),
         NEW r, r = ReadyAdd(s, t)
  PROVE  Fit(r) /\ SameData(r, s) /\ r.state = [s.state EXCEPT ![t] = "READY"]
<1>1. /\ r \in KernelType /\ LinksAgree(r, NULL) /\ SameData(r, s)
      /\ r.state = [s.state EXCEPT ![t] = "READY"]
  BY ReadyAddAgrees
<1>2. \A u \in Tcb : r.state[u] = s.state[u] \/ (u = t /\ r.state[u] = "READY")
  BY <1>1, IdleApart DEF KernelType
<1>3. Stands(r)
  <2>1. \A u \in Tcb : \/ r.state[u] = s.state[u]
                       \/ /\ u \in Task /\ r.state[u] # "BLOCKED"
                          /\ s.state[u] # "INIT" \/ (s.build.slices => s.prio[u] # PrioMax - 1)
    BY <1>2
  <2>2. /\ r.build = s.build /\ r.running = s.running /\ r.at = s.at /\ r.guard = s.guard
        /\ r.prio = s.prio /\ r.cur = s.cur /\ r.lock = s.lock
    BY <1>1 DEF SameData
  <2> QED
    BY <2>1, <2>2, StandsStay
<1> QED
  BY <1>1, <1>3 DEF Fit

\* A task that is not waiting is taken off its list.
LEMMA UnlistFit ==
  ASSUME NEW s, Fit(s), NEW t \in Task, s.state[t] # "BLOCKED",
         NEW r, r = IF s.state[t] = "READY" THEN ReadyRemove(s, t) ELSE s
  PROVE  r \in KernelType /\ LinksAgree(r, t) /\ SameRest(r, s) /\ Stands(r)
<1>1. s \in KernelType /\ LinksAgree(s, NULL) /\ Stands(s)
  BY DEF Fit
<1>2. CASE s.state[t] = "READY"
  <2>1. r \in KernelType /\ LinksAgree(r, t) /\ SameRest(r, s)
    BY <1>1, <1>2, ReadyRemoveAgrees
  <2>2. Stands(r)
    BY <1>1, <2>1, StandsStay DEF SameRest, SameData
  <2> QED
    BY <2>1, <2>2
<1>3. CASE s.state[t] # "READY"
  BY <1>1, <1>3, OffTheLists DEF SameRest, SameData
<1> QED
  BY <1>2, <1>3

\* A task that is on no list stops, goes to sleep or ends.
LEMMA StopFit ==
  ASSUME NEW s \in KernelType, NEW t \in Task, LinksAgree(s, t), Stands(s),
         s.state[t] # "INIT" \/ (s.build.slices => s.prio[t] # PrioMax - 1),
         NEW v \in {"TERMINATED", "SUSPENDED", "SLEEPING"},
         NEW r \in KernelType, SameLists(r, s), SameData(r, s),
         r.state = [s.state EXCEPT ![t] = v]
  PROVE  Fit(r)
<1>1. \A u \in Tcb : r.state[u] = IF u = t THEN v ELSE s.state[u]
  BY IdleApart DEF KernelType
<1>2. Stands(r)
  <2>1. \A u \in Tcb : \/ r.state[u] = s.state[u]
                       \/ /\ u \in Task /\ r.state[u] # "BLOCKED"
                          /\ s.state[u] # "INIT" \/ (s.build.slices => s.prio[u] # PrioMax - 1)
    BY <1>1
  <2> QED
    BY <2>1, StandsStay DEF SameData
<1>3. LinksAgree(r, t)
  <2>1. \A u \in Task \ {t} : /\ r.next[u] = s.next[u] /\ r.prev[u] = s.prev[u]
                              /\ r.state[u] = s.state[u] /\ r.prio[u] = s.prio[u]
                              /\ r.wait[u] = s.wait[u]
    BY <1>1, IdleApart DEF SameLists, SameLinks, SameData
  <2> QED
    BY <2>1, LinksStay DEF SameLists, SameLinks
<1>4. LinksAgree(r, NULL)
  BY <1>1, <1>3, IdleApart, OffTheLists
<1> QED
  BY <1>2, <1>4 DEF Fit

\* A field that the lists do not depend on is written.
LEMMA OtherFit ==
  ASSUME NEW s, Fit(s), NEW r \in KernelType, SameLists(r, s),
         r.state = s.state, r.wait = s.wait, r.prio = s.prio,
         r.build = s.build, r.running = s.running, r.guard = s.guard, r.cur = s.cur,
         r.lock = s.lock, r.at = s.at \/ {r.at, s.at} \cap {"boot", "start"} = {}
  PROVE  Fit(r)
<1>1. LinksAgree(r, NULL)
  BY LinksStay DEF SameLists, SameLinks, Fit
<1>2. Stands(r)
  BY DEF Fit, Stands, Habits
<1> QED
  BY <1>1, <1>2 DEF Fit

\* task_stack_guard_fail, of a task that has left its list.
LEMMA GuardFailFit ==
  ASSUME NEW s \in KernelType, NEW t \in Task, LinksAgree(s, t), Stands(s), s.state[t] # "INIT"
  PROVE  Fit(GuardFail(s, t)) /\ GuardFail(s, t).at = s.at /\ GuardFail(s, t).build = s.build
<1> DEFINE a == [s EXCEPT !.state[t] = "TERMINATED"]
           b == [a EXCEPT !.next[t] = NULL]
           c == [b EXCEPT !.prev[t] = NULL]
<1>1. GuardFail(s, t) = c
  BY DEF GuardFail, KernelType
<1>2. "TERMINATED" \in States /\ t \in Tcb /\ NULL \in Link
  BY IdleApart DEF States, Link
<1>3. /\ a \in KernelType /\ SameData(a, s) /\ SameLists(a, s)
      /\ a.state = [s.state EXCEPT ![t] = "TERMINATED"]
  BY <1>2, PutState DEF SameLists, SameLinks
<1> HIDE DEF a
<1>4. Fit(a)
  BY <1>3, StopFit
<1>5. /\ b \in KernelType /\ SameRest(b, a) /\ b.bitmap = a.bitmap
      /\ b.next = [a.next EXCEPT ![t] = NULL]
      /\ b.prev = a.prev /\ b.head = a.head /\ b.tail = a.tail /\ b.count = a.count
  BY <1>2, <1>3, PutNext
<1> HIDE DEF b
<1>6. /\ c \in KernelType /\ SameRest(c, b) /\ c.bitmap = b.bitmap
      /\ c.prev = [b.prev EXCEPT ![t] = NULL]
      /\ c.next = b.next /\ c.head = b.head /\ c.tail = b.tail /\ c.count = b.count
  BY <1>2, <1>5, PutPrev
<1> HIDE DEF c
<1>7. a.state[t] = "TERMINATED" /\ SameRest(c, a)
  <2>1. s.state \in [Tcb -> States]
    BY DEF KernelType
  <2>2. SameRest(c, a)
    BY <1>5, <1>6, SameTwice
  <2> QED
    BY <1>2, <1>3, <2>1, <2>2
<1>8. LinksAgree(a, t)
  BY <1>4, <1>7, OffTheLists DEF Fit
<1>9. LinksAgree(c, t)
  <2>1. \A u \in Task \ {t} : /\ c.next[u] = a.next[u] /\ c.prev[u] = a.prev[u]
                              /\ c.state[u] = a.state[u] /\ c.prio[u] = a.prio[u]
                              /\ c.wait[u] = a.wait[u]
    <3>1. \A u \in Tcb \ {t} : c.next[u] = a.next[u] /\ c.prev[u] = a.prev[u]
      BY <1>3, <1>5, <1>6 DEF KernelType
    <3> QED
      BY <1>7, <3>1, IdleApart DEF SameRest, SameData
  <2>2. /\ c.head = a.head /\ c.tail = a.tail /\ c.count = a.count
        /\ c.bitmap = a.bitmap
    BY <1>5, <1>6
  <2> QED
    BY <1>8, <2>1, <2>2, LinksStay
<1>10. LinksAgree(c, NULL)
  BY <1>7, <1>9, OffTheLists DEF SameRest
<1>11. Stands(c)
  BY <1>4, <1>7, StandsStay DEF Fit, SameRest, SameData
<1> QED
  BY <1>1, <1>3, <1>6, <1>7, <1>10, <1>11 DEF Fit, SameRest, SameData

-----------------------------------------------------------------------------
(* The scheduler.                                                          *)

\* os_sched up to the search.
LEMMA CallSchedSound ==
  ASSUME NEW s, Safe(s), Fit(s), s.at = "task", Leaves(s)
  PROVE  Sound(CallSched(s))
<1> DEFINE late == [s EXCEPT !.pend = TRUE]
           entered == [s EXCEPT !.pend = FALSE, !.at = "sched"]
<1>1. s \in KernelType /\ LinksAgree(s, NULL) /\ Stands(s) /\ s.cur \in Tcb /\ s.running
  BY DEF Safe, Fit, Stands, Habits
<1>2. CallSched(s) = IF s.lock > 0 THEN late
                     ELSE IF s.state[s.cur] = "RUNNING" /\ ~s.guard[s.cur]
                          THEN GuardFail(entered, s.cur) ELSE entered
  BY <1>1 DEF CallSched
<1>3. ASSUME s.lock > 0 PROVE Sound(late)
  <2>1. late \in KernelType /\ late.at = "task" /\ late.lock = s.lock
    BY <1>1 DEF KernelType
  <2>2. SameLists(late, s) /\ late.state = s.state
    BY <1>1 DEF KernelType, SameLists, SameLinks
  <2>3. /\ late.wait = s.wait /\ late.prio = s.prio /\ late.build = s.build
        /\ late.running = s.running /\ late.guard = s.guard /\ late.cur = s.cur
    BY <1>1 DEF KernelType
  <2> HIDE DEF late
  <2>4. Fit(late)
    BY <2>1, <2>2, <2>3, OtherFit
  <2>5. ~Calm(late.build)
    BY <1>1, <1>3, <2>3, SchedAssumption DEF Stands, Habits
  <2> QED
    BY <2>1, <2>4, <2>5 DEF Sound, CurRuns
<1>4. Fit(entered) /\ entered.at = "sched"
  <2>1. entered \in KernelType /\ entered.at = "sched" /\ entered.lock = s.lock
    BY <1>1 DEF KernelType, Sections
  <2>2. SameLists(entered, s) /\ entered.state = s.state
    BY <1>1 DEF KernelType, SameLists, SameLinks
  <2>3. /\ entered.wait = s.wait /\ entered.prio = s.prio /\ entered.build = s.build
        /\ entered.running = s.running /\ entered.guard = s.guard /\ entered.cur = s.cur
    BY <1>1 DEF KernelType
  <2> HIDE DEF entered
  <2> QED
    BY <2>1, <2>2, <2>3, OtherFit
<1>5. /\ entered.build = s.build /\ entered.state = s.state /\ entered.cur = s.cur
      /\ entered.head = s.head /\ entered.prio = s.prio /\ entered.guard = s.guard
  BY <1>1 DEF KernelType
<1> HIDE DEF entered, late
<1>6. Sound(entered)
  BY <1>4, <1>5 DEF Sound, Leaves
<1>7. ASSUME s.state[s.cur] = "RUNNING", ~s.guard[s.cur] PROVE Sound(GuardFail(entered, s.cur))
  <2> DEFINE r == GuardFail(entered, s.cur)
  <2>1. s.cur \in Task /\ ~Calm(s.build)
    BY <1>1, <1>7, IdleApart DEF Stands, Habits, Tcb
  <2>2. LinksAgree(entered, s.cur) /\ entered \in KernelType /\ Stands(entered)
    BY <1>4, <1>5, <1>7, OffTheLists DEF Fit
  <2>3. Fit(r) /\ r.at = "sched" /\ r.build = s.build
    BY <1>4, <1>5, <1>7, <2>1, <2>2, GuardFailFit
  <2> HIDE DEF r
  <2>4. Sound(r)
    BY <2>1, <2>3 DEF Sound, Leaves
  <2> QED
    BY <2>4 DEF r
<1> QED
  BY <1>2, <1>3, <1>6, <1>7

\* The end of a call whose critical section has made s.
LEMMA ThenSchedSound ==
  ASSUME NEW c \in Task, NEW s, Safe(s), Fit(s), s.at = "task", s.build = k.build, Leaves(s),
         ThenSched(c, s)
  PROVE  Sound(k')
<1>1. CASE k.build.masked
  BY <1>1, CallSchedSound DEF ThenSched
<1>2. CASE ~k.build.masked
  <2>1. k' = s /\ ~Calm(s.build)
    BY <1>2 DEF ThenSched, Calm
  <2> QED
    BY <2>1 DEF Sound, CurRuns
<1> QED
  BY <1>1, <1>2

\* Applications with time slices leave the priority of the idle task to it, mask
\* interrupts around their calls, and so on: otherwise the tick handler lists a task
\* that is listed or that sleeps, and the links break.
SoundBuilds ==
  \A build \in Builds : build.slices =>
    /\ Calm(build)
    /\ \A t \in Task : CreatePrio[t] \subseteq 0 .. PrioMax - 2

\* os_task_create
LEMMA CreatedFit ==
  ASSUME SoundBuilds, NEW s, Fit(s), NEW t \in Task, s.state[t] \in {"INIT", "TERMINATED"},
         NEW p \in CreatePrio[t], NEW r, r = Created(s, t, p)
  PROVE  /\ Fit(r) /\ r.at = s.at /\ r.cur = s.cur /\ r.build = s.build
         /\ r.state = [s.state EXCEPT ![t] = "READY"]
<1> DEFINE a == [s EXCEPT !.next[t] = NULL, !.prev[t] = NULL, !.prio[t] = p]
           b == [a EXCEPT !.base[t] = p, !.slice[t] = SliceTicks, !.wait[t] = NULL]
           entries == IF Len(s.table) < TaskMax THEN Append(s.table, t) ELSE s.table
           o == [b EXCEPT !.deadline[t] = 0, !.guard[t] = TRUE, !.table = entries]
<1>1. /\ s \in KernelType /\ LinksAgree(s, NULL) /\ Stands(s)
      /\ t \in Tcb /\ p \in Prio /\ SliceTicks \in 0 .. SliceTicks /\ 0 \in Tick
      /\ entries \in Seq(Tcb)
  <2>1. s \in KernelType /\ LinksAgree(s, NULL) /\ Stands(s) /\ t \in Tcb
    BY IdleApart DEF Fit
  <2>2. p \in Prio /\ SliceTicks \in 0 .. SliceTicks /\ 0 \in Tick
    BY SchedAssumption DEF Tick
  <2>3. entries \in Seq(Tcb)
    BY <2>1 DEF KernelType
  <2> QED
    BY <2>1, <2>2, <2>3
<1>2. r = ReadyAdd(o, t)
  BY <1>1 DEF Created, KernelType
<1> HIDE DEF entries
<1>3. a \in KernelType
  <2> DEFINE next == [s.next EXCEPT ![t] = NULL]
             prev == [s.prev EXCEPT ![t] = NULL]
             prio == [s.prio EXCEPT ![t] = p]
  <2>1. a = [s EXCEPT !.next = next, !.prev = prev, !.prio = prio]
    BY <1>1 DEF KernelType
  <2>2. next \in [Tcb -> Link] /\ prev \in [Tcb -> Link] /\ prio \in [Tcb -> Prio]
    BY <1>1 DEF KernelType, Link
  <2> HIDE DEF next, prev, prio, a
  <2> QED
    BY <1>1, <2>1, <2>2 DEF KernelType
<1>4. /\ a \in KernelType
      /\ \A u \in Tcb \ {t} : a.next[u] = s.next[u] /\ a.prev[u] = s.prev[u] /\ a.prio[u] = s.prio[u]
      /\ a.prio[t] = p
      /\ a.head = s.head /\ a.tail = s.tail /\ a.count = s.count /\ a.bitmap = s.bitmap
      /\ a.state = s.state /\ a.wait = s.wait /\ a.guard = s.guard /\ a.cur = s.cur
      /\ a.at = s.at /\ a.i = s.i /\ a.running = s.running /\ a.lock = s.lock /\ a.build = s.build
  <2>1. /\ \A u \in Tcb \ {t} : a.next[u] = s.next[u] /\ a.prev[u] = s.prev[u] /\ a.prio[u] = s.prio[u]
        /\ a.prio[t] = p
    BY <1>1 DEF KernelType
  <2>2. /\ a.head = s.head /\ a.tail = s.tail /\ a.count = s.count /\ a.bitmap = s.bitmap
        /\ a.state = s.state /\ a.wait = s.wait /\ a.guard = s.guard /\ a.cur = s.cur
        /\ a.at = s.at /\ a.i = s.i /\ a.running = s.running /\ a.lock = s.lock /\ a.build = s.build
    BY <1>1 DEF KernelType
  <2> QED
    BY <1>3, <2>1, <2>2
<1> HIDE DEF a
<1>5. b \in KernelType
  <2> DEFINE base == [a.base EXCEPT ![t] = p]
             slice == [a.slice EXCEPT ![t] = SliceTicks]
             wait == [a.wait EXCEPT ![t] = NULL]
  <2>1. b = [a EXCEPT !.base = base, !.slice = slice, !.wait = wait]
    BY <1>4 DEF KernelType
  <2>2. base \in [Tcb -> Prio] /\ slice \in [Tcb -> 0 .. SliceTicks] /\ wait \in [Tcb -> WaitList \cup {NULL}]
    BY <1>1, <1>4 DEF KernelType
  <2> HIDE DEF base, slice, wait, b
  <2> QED
    BY <1>4, <2>1, <2>2 DEF KernelType
<1>6. /\ b \in KernelType
      /\ \A u \in Tcb \ {t} : b.wait[u] = a.wait[u]
      /\ b.next = a.next /\ b.prev = a.prev /\ b.prio = a.prio
      /\ b.head = a.head /\ b.tail = a.tail /\ b.count = a.count /\ b.bitmap = a.bitmap
      /\ b.state = a.state /\ b.guard = a.guard /\ b.cur = a.cur
      /\ b.at = a.at /\ b.i = a.i /\ b.running = a.running /\ b.lock = a.lock /\ b.build = a.build
  <2>1. \A u \in Tcb \ {t} : b.wait[u] = a.wait[u]
    BY <1>4 DEF KernelType
  <2>2. /\ b.next = a.next /\ b.prev = a.prev /\ b.prio = a.prio
        /\ b.head = a.head /\ b.tail = a.tail /\ b.count = a.count /\ b.bitmap = a.bitmap
        /\ b.state = a.state /\ b.guard = a.guard /\ b.cur = a.cur
        /\ b.at = a.at /\ b.i = a.i /\ b.running = a.running /\ b.lock = a.lock /\ b.build = a.build
    BY <1>4 DEF KernelType
  <2> QED
    BY <1>5, <2>1, <2>2
<1> HIDE DEF b
<1>7. /\ o \in KernelType
      /\ \A u \in Tcb : b.guard[u] => o.guard[u]
      /\ o.next = b.next /\ o.prev = b.prev /\ o.prio = b.prio /\ o.wait = b.wait
      /\ o.head = b.head /\ o.tail = b.tail /\ o.count = b.count /\ o.bitmap = b.bitmap
      /\ o.state = b.state /\ o.cur = b.cur
      /\ o.at = b.at /\ o.i = b.i /\ o.running = b.running /\ o.lock = b.lock /\ o.build = b.build
  BY <1>1, <1>6 DEF KernelType
<1> HIDE DEF o
<1>8. /\ \A u \in Task \ {t} : /\ o.next[u] = s.next[u] /\ o.prev[u] = s.prev[u]
                               /\ o.state[u] = s.state[u] /\ o.prio[u] = s.prio[u]
                               /\ o.wait[u] = s.wait[u]
      /\ o.head = s.head /\ o.tail = s.tail /\ o.count = s.count /\ o.bitmap = s.bitmap
  BY <1>4, <1>6, <1>7, IdleApart
<1>9. LinksAgree(o, t)
  <2>1. LinksAgree(s, t)
    BY <1>1, OffTheLists
  <2> QED
    BY <1>8, <2>1, LinksStay
<1>10. s.build.slices => p # PrioMax - 1
  <2>1. s.build \in Builds /\ PrioMax \in Nat
    BY <1>1, SchedAssumption DEF Stands, Habits
  <2> QED
    BY <2>1 DEF SoundBuilds
<1>11. /\ o.build = s.build /\ o.running = s.running /\ o.at = s.at /\ o.cur = s.cur
       /\ o.lock = s.lock /\ o.state = s.state
       /\ \A u \in Tcb \ {t} : o.prio[u] = s.prio[u]
       /\ o.prio[t] = p /\ (\A u \in Tcb : s.guard[u] => o.guard[u])
  BY <1>4, <1>6, <1>7
<1>12. Stands(o)
  <2>1. o.guard[Idle] /\ o.prio[Idle] = PrioMax - 1
    BY <1>1, <1>11, IdleApart DEF Stands, Habits
  <2>2. Calm(o.build) => o.lock = 0 /\ \A u \in Task : o.guard[u]
    BY <1>1, <1>11, IdleApart DEF Stands, Habits
  <2>3. o.build.slices => \A u \in Task : o.state[u] # "INIT" => o.prio[u] # PrioMax - 1
    BY <1>1, <1>10, <1>11, IdleApart DEF Stands, Habits
  <2> QED
    BY <1>1, <1>11, <2>1, <2>2, <2>3 DEF Stands, Habits
<1>13. Fit(r) /\ SameData(r, o) /\ r.state = [o.state EXCEPT ![t] = "READY"]
  BY <1>2, <1>7, <1>9, <1>10, <1>11, <1>12, ReadyAddFit
<1> QED
  BY <1>11, <1>13 DEF SameData, SameTasks, Fit, KernelType

\* A task is given the processor.
Give(s, t) == [s EXCEPT !.state[t] = "RUNNING", !.cur = t]

Gives(r, s, t) ==
  /\ r \in KernelType /\ SameLists(r, s) /\ r.cur = t
  /\ \A u \in Tcb : r.state[u] = IF u = t THEN "RUNNING" ELSE s.state[u]
  /\ r.prio = s.prio /\ r.wait = s.wait /\ r.build = s.build /\ r.running = s.running
  /\ r.guard = s.guard /\ r.lock = s.lock /\ r.at = s.at

LEMMA GiveFields ==
  ASSUME NEW s \in KernelType, NEW t \in Tcb
  PROVE  Gives(Give(s, t), s, t)
<1> DEFINE o == [s EXCEPT !.cur = t]
           v == [o EXCEPT !.state[t] = "RUNNING"]
<1>1. o \in KernelType /\ o.cur = t /\ SameLists(o, s) /\ o.state = s.state
  BY DEF KernelType, SameLists, SameLinks, Link
<1>2. /\ o.prio = s.prio /\ o.wait = s.wait /\ o.build = s.build /\ o.running = s.running
      /\ o.guard = s.guard /\ o.lock = s.lock /\ o.at = s.at
  BY DEF KernelType
<1>3. Give(s, t) = v
  BY DEF Give, KernelType
<1> HIDE DEF o
<1>4. "RUNNING" \in States
  BY DEF States
<1>5. /\ v \in KernelType /\ SameData(v, o) /\ v.state = [o.state EXCEPT ![t] = "RUNNING"]
      /\ v.next = o.next /\ v.prev = o.prev /\ v.head = o.head /\ v.tail = o.tail
      /\ v.count = o.count /\ v.bitmap = o.bitmap
  BY <1>1, <1>4, PutState
<1> HIDE DEF v
<1>6. s.state \in [Tcb -> States]
  BY DEF KernelType
<1>7. \A u \in Tcb : v.state[u] = IF u = t THEN "RUNNING" ELSE s.state[u]
  BY <1>1, <1>5, <1>6
<1> QED
  BY <1>1, <1>2, <1>3, <1>5, <1>7 DEF SameData, SameLists, SameLinks, Gives

\* A task that is on no list is given the processor, while idle is READY.
LEMMA RunFit ==
  ASSUME NEW s \in KernelType, NEW t \in Tcb, LinksAgree(s, t), Habits(s),
         s.state[Idle] = "READY", t # Idle => s.state[t] # "INIT", NEW r, r = Give(s, t)
  PROVE  Fit(r) /\ r.state[r.cur] = "RUNNING"
<1>1. /\ r \in KernelType /\ SameLists(r, s) /\ r.cur = t
      /\ \A u \in Tcb : r.state[u] = IF u = t THEN "RUNNING" ELSE s.state[u]
      /\ r.prio = s.prio /\ r.wait = s.wait /\ r.build = s.build /\ r.running = s.running
      /\ r.guard = s.guard /\ r.lock = s.lock /\ r.at = s.at
  BY GiveFields DEF Gives
<1>2. LinksAgree(r, NULL)
  <2>1. \A u \in Task \ {t} : /\ r.next[u] = s.next[u] /\ r.prev[u] = s.prev[u]
                              /\ r.state[u] = s.state[u] /\ r.prio[u] = s.prio[u]
                              /\ r.wait[u] = s.wait[u]
    BY <1>1, IdleApart DEF SameLists, SameLinks
  <2>2. LinksAgree(r, t)
    BY <1>1, <2>1, LinksStay DEF SameLists, SameLinks
  <2> QED
    BY <1>1, <2>2, OffTheLists
<1>3. r.state[Idle] = IF r.cur = Idle THEN "RUNNING" ELSE "READY"
  BY <1>1, IdleApart
<1>4. Habits(r)
  BY <1>1, IdleApart DEF Habits
<1> QED
  BY <1>1, <1>2, <1>3, <1>4 DEF Fit, Stands

\* sched_highest_ready finds a listed task, which is taken off, or idle.
LEMMA TakeHighest ==
  ASSUME NEW s, Fit(s), NEW t, t = Highest(s),
         NEW r, r = IF t = Idle THEN s ELSE ReadyRemove(s, t)
  PROVE  /\ t \in Tcb /\ (t # Idle => t \in Task /\ s.state[t] = "READY" /\ s.head[s.prio[t]] = t)
         /\ r \in KernelType /\ LinksAgree(r, t) /\ SameRest(r, s) /\ Stands(r)
<1>1. s \in KernelType /\ LinksAgree(s, NULL) /\ Stands(s)
  BY DEF Fit
<1>2. CASE t = Idle
  BY <1>1, <1>2, IdleApart, OffTheLists DEF SameRest, SameData
<1>3. CASE t # Idle
  <2>1. t \in Task /\ s.state[t] = "READY" /\ s.head[s.prio[t]] = t
    BY <1>1, <1>3, HighestIsListed
  <2>2. r \in KernelType /\ LinksAgree(r, t) /\ SameRest(r, s) /\ Stands(r)
    BY <1>3, <2>1, UnlistFit
  <2> QED
    BY <2>1, <2>2, IdleApart
<1> QED
  BY <1>2, <1>3

\* The switch to the task found.
LEMMA SwitchToFit ==
  ASSUME NEW s, Safe(s), Fit(s), s.cur \in Tcb, NEW t, t = Highest(s), t # s.cur,
         NEW w, w = SwitchTo(s, t)
  PROVE  Fit(w) /\ w.state[w.cur] = "RUNNING"
<1> DEFINE c == s.cur
           r == IF t = Idle THEN s ELSE ReadyRemove(s, t)
<1>1. /\ t \in Tcb /\ (t # Idle => t \in Task /\ s.state[t] = "READY")
      /\ r \in KernelType /\ LinksAgree(r, t) /\ SameRest(r, s) /\ Stands(r)
      /\ c \in Tcb /\ c # t
  BY TakeHighest
<1>2. w = Give(IF r.state[c] # "RUNNING" THEN r
               ELSE IF c = Idle THEN [r EXCEPT !.state[Idle] = "READY"]
               ELSE ReadyAdd(r, c), t)
  BY DEF SwitchTo, Give
<1>3. r.cur = c /\ r.state = s.state
  BY <1>1 DEF SameRest, SameData
<1> HIDE DEF c, r
<1>4. CASE r.state[c] # "RUNNING"
  <2>1. w = Give(r, t) /\ r.state[Idle] = "READY" /\ Habits(r)
    BY <1>1, <1>2, <1>3, <1>4 DEF Stands
  <2> QED
    BY <1>1, <1>3, <2>1, RunFit
<1>5. CASE r.state[c] = "RUNNING" /\ c = Idle
  <2> DEFINE q == [r EXCEPT !.state[Idle] = "READY"]
  <2>1. w = Give(q, t) /\ "READY" \in States
    BY <1>2, <1>5 DEF States
  <2>2. /\ q \in KernelType /\ SameData(q, r) /\ q.state = [r.state EXCEPT ![Idle] = "READY"]
        /\ q.next = r.next /\ q.prev = r.prev /\ q.head = r.head /\ q.tail = r.tail
        /\ q.count = r.count /\ q.bitmap = r.bitmap
    BY <1>1, <2>1, IdleApart, PutState
  <2> HIDE DEF q
  <2>3. \A u \in Tcb : q.state[u] = IF u = Idle THEN "READY" ELSE r.state[u]
    BY <1>1, <2>2 DEF KernelType
  <2>4. LinksAgree(q, t)
    <3>1. \A u \in Task \ {t} : /\ q.next[u] = r.next[u] /\ q.prev[u] = r.prev[u]
                                /\ q.state[u] = r.state[u] /\ q.prio[u] = r.prio[u]
                                /\ q.wait[u] = r.wait[u]
      BY <2>2, <2>3, IdleApart DEF SameData
    <3>2. q.head = r.head /\ q.tail = r.tail /\ q.count = r.count /\ q.bitmap = r.bitmap
      BY <2>2
    <3> QED
      BY <1>1, <3>1, <3>2, LinksStay
  <2>5. Habits(q)
    <3>1. /\ q.build = r.build /\ q.at = r.at /\ q.running = r.running /\ q.guard = r.guard
          /\ q.prio = r.prio /\ q.lock = r.lock
      BY <2>2 DEF SameData
    <3>2. \A u \in Task : q.state[u] = r.state[u]
      BY <2>3, IdleApart
    <3>3. Habits(r)
      BY <1>1 DEF Stands
    <3> QED
      BY <3>1, <3>2, <3>3 DEF Habits
  <2>6. q.state[Idle] = "READY" /\ (t # Idle => q.state[t] # "INIT")
    BY <1>1, <1>3, <2>3, IdleApart
  <2> QED
    BY <1>1, <2>1, <2>2, <2>4, <2>5, <2>6, RunFit
<1>6. CASE r.state[c] = "RUNNING" /\ c # Idle
  <2> DEFINE o == Give(r, t)
             a == ReadyAdd(r, c)
             b == ReadyAdd(o, c)
  <2>1. c \in Task /\ w = Give(a, t) /\ r.state[Idle] = "READY" /\ Habits(r)
    BY <1>1, <1>2, <1>3, <1>6 DEF Tcb, Stands
  <2>2. Fit(o)
    BY <1>1, <1>3, <2>1, RunFit
  <2>3. o = Give(r, t) /\ a = ReadyAdd(r, c) /\ b = ReadyAdd(o, c)
    OBVIOUS
  <2> HIDE DEF o, a, b
  <2>4. /\ o \in KernelType /\ SameLists(o, r) /\ o.cur = t
        /\ \A u \in Tcb : o.state[u] = IF u = t THEN "RUNNING" ELSE r.state[u]
        /\ o.prio = r.prio /\ o.wait = r.wait /\ o.build = r.build /\ o.running = r.running
        /\ o.guard = r.guard /\ o.lock = r.lock /\ o.at = r.at
    <3>1. Gives(o, r, t)
      BY <1>1, <2>3, GiveFields
    <3> QED
      BY <3>1 DEF Gives
  <2>5. LinksAgree(o, c)
    BY <1>1, <1>6, <2>2, <2>4, OffTheLists DEF Fit
  <2>6. Fit(b) /\ SameData(b, o) /\ b.state = [o.state EXCEPT ![c] = "READY"]
    <3>1. o \in KernelType /\ Stands(o) /\ o.state[c] # "INIT"
      BY <1>1, <1>6, <2>2, <2>4 DEF Fit
    <3> QED
      BY <2>1, <2>3, <2>5, <3>1, ReadyAddFit
  <2>7. /\ a \in KernelType /\ a.prio = r.prio /\ a.at = r.at /\ a.running = r.running
        /\ a.state = [r.state EXCEPT ![c] = "READY"]
        /\ a.wait = r.wait /\ a.build = r.build /\ a.guard = r.guard /\ a.lock = r.lock
    <3>1. a \in KernelType /\ SameData(a, r) /\ a.state = [r.state EXCEPT ![c] = "READY"]
      BY <1>1, <2>3, ReadyAddFields
    <3> QED
      BY <3>1 DEF SameData
  <2>8. /\ \A u \in Tcb : a.next[u] = b.next[u] /\ a.prev[u] = b.prev[u]
        /\ \A l \in List : a.head[l] = b.head[l] /\ a.tail[l] = b.tail[l] /\ a.count[l] = b.count[l]
        /\ a.bitmap = b.bitmap
    BY <1>1, <2>4, <2>3, ReadyAddTwice DEF SameLists, SameLinks
  <2>9. /\ w \in KernelType /\ SameLists(w, a) /\ w.cur = t
        /\ \A u \in Tcb : w.state[u] = IF u = t THEN "RUNNING" ELSE a.state[u]
        /\ w.prio = a.prio /\ w.wait = a.wait /\ w.build = a.build /\ w.running = a.running
        /\ w.guard = a.guard /\ w.lock = a.lock /\ w.at = a.at
    <3>1. Gives(w, a, t)
      BY <1>1, <2>1, <2>7, GiveFields
    <3> QED
      BY <3>1 DEF Gives
  <2>10. /\ \A u \in Tcb : w.state[u] = b.state[u]
         /\ b.cur = t /\ b.prio = r.prio /\ b.wait = r.wait /\ b.build = r.build
         /\ b.running = r.running /\ b.guard = r.guard /\ b.lock = r.lock /\ b.at = r.at
    <3>1. r.state \in [Tcb -> States] /\ o.state \in [Tcb -> States]
      BY <1>1, <2>4 DEF KernelType
    <3> QED
      BY <1>1, <2>4, <2>6, <2>7, <2>9, <3>1 DEF SameData
  <2>11. LinksAgree(w, NULL)
    <3>1. \A u \in Task \ {NULL} : /\ w.next[u] = b.next[u] /\ w.prev[u] = b.prev[u]
                                   /\ w.state[u] = b.state[u] /\ w.prio[u] = b.prio[u]
                                   /\ w.wait[u] = b.wait[u]
      BY <2>7, <2>8, <2>9, <2>10, IdleApart DEF SameLists, SameLinks
    <3>2. \A l \in List : w.head[l] = b.head[l] /\ w.tail[l] = b.tail[l] /\ w.count[l] = b.count[l]
      BY <2>8, <2>9 DEF SameLists, SameLinks
    <3>3. w.bitmap = b.bitmap /\ LinksAgree(b, NULL)
      BY <2>6, <2>8, <2>9 DEF SameLists, SameLinks, Fit
    <3> QED
      BY <3>1, <3>2, <3>3, LinksStay
  <2>12. Stands(w)
    <3>1. Stands(b)
      BY <2>6 DEF Fit
    <3> QED
      BY <2>7, <2>9, <2>10, <3>1, StandsStay
  <2>13. w.state[t] = "RUNNING"
    BY <1>1, <2>9
  <2> QED
    BY <2>9, <2>11, <2>12, <2>13 DEF Fit
<1> QED
  BY <1>4, <1>5, <1>6

\* os_sched_wake_task, of a task that has left its list.
LEMMA WakeFit ==
  ASSUME NEW s \in KernelType, NEW t \in Task, LinksAgree(s, t), Stands(s), s.state[t] # "INIT",
         NEW result \in Results, NEW r, r = Wake(s, t, result)
  PROVE  /\ Fit(r) /\ r.state = [s.state EXCEPT ![t] = "READY"] /\ r.at = s.at
         /\ r.cur = s.cur /\ r.build = s.build
<1> DEFINE q == [s EXCEPT !.result[t] = result, !.wait[t] = NULL, !.deadline[t] = 0]
<1>1. r = ReadyAdd(q, t) /\ t \in Tcb /\ 0 \in Tick
  BY IdleApart, SchedAssumption DEF Wake, Tick
<1>2. /\ q \in KernelType /\ SameLists(q, s) /\ q.state = s.state
      /\ \A u \in Tcb \ {t} : q.wait[u] = s.wait[u]
  BY <1>1 DEF KernelType, SameLists, SameLinks
<1>3. /\ q.prio = s.prio /\ q.build = s.build /\ q.running = s.running
      /\ q.guard = s.guard /\ q.lock = s.lock /\ q.at = s.at /\ q.cur = s.cur
  BY <1>1 DEF KernelType
<1> HIDE DEF q
<1>4. LinksAgree(q, t)
  <2>1. \A u \in Task \ {t} : /\ q.next[u] = s.next[u] /\ q.prev[u] = s.prev[u]
                              /\ q.state[u] = s.state[u] /\ q.prio[u] = s.prio[u]
                              /\ q.wait[u] = s.wait[u]
    BY <1>2, <1>3, IdleApart DEF SameLists, SameLinks
  <2> QED
    BY <1>2, <2>1, LinksStay DEF SameLists, SameLinks
<1>5. Stands(q)
  BY <1>2, <1>3, StandsStay
<1>6. Fit(r) /\ SameData(r, q) /\ r.state = [q.state EXCEPT ![t] = "READY"]
  BY <1>1, <1>2, <1>4, <1>5, ReadyAddFit
<1> QED
  BY <1>2, <1>3, <1>6 DEF SameData

\* One turn of the tick handler's scan.
LEMMA ScanFit ==
  ASSUME NEW s, Fit(s), NEW t \in Tcb, NEW r, r = ScanTask(s, t)
  PROVE  /\ Fit(r) /\ r.at = s.at /\ r.cur = s.cur /\ r.build = s.build
         /\ s.cur \in Tcb /\ s.state[s.cur] = "RUNNING" => r.state[s.cur] = "RUNNING"
<1>1. s \in KernelType /\ LinksAgree(s, NULL) /\ Stands(s) /\ s.state \in [Tcb -> States]
  BY DEF Fit, KernelType
<1>2. CASE s.state[t] = "SLEEPING" /\ Reached(s.tick, s.wake[t])
  <2>1. r = ReadyAdd(s, t) /\ t \in Task
    BY <1>1, <1>2 DEF ScanTask, Stands, Tcb
  <2>2. LinksAgree(s, t)
    BY <1>1, <1>2, OffTheLists
  <2>3. Fit(r) /\ SameData(r, s) /\ r.state = [s.state EXCEPT ![t] = "READY"]
    BY <1>1, <1>2, <2>1, <2>2, ReadyAddFit
  <2>4. r.at = s.at /\ r.cur = s.cur /\ r.build = s.build
    BY <2>3 DEF SameData
  <2>5. \A u \in Tcb : s.state[u] = "RUNNING" => r.state[u] = "RUNNING"
    BY <1>1, <1>2, <2>3
  <2> QED
    BY <2>3, <2>4, <2>5
<1>3. CASE s.state[t] = "BLOCKED" /\ r = TimeoutWake(s, t)
  <2> DEFINE q == IF s.wait[t] = NULL THEN s ELSE ListRemove(s, s.wait[t], t)
  <2>1. r = Wake(q, t, "ETIMEOUT") /\ t \in Task /\ "ETIMEOUT" \in Results
    BY <1>1, <1>3 DEF TimeoutWake, Stands, Tcb, Results
  <2>2. q \in KernelType /\ LinksAgree(q, t) /\ SameRest(q, s)
    <3>1. CASE s.wait[t] = NULL
      BY <1>1, <1>3, <3>1, OffTheLists DEF SameRest, SameData
    <3>2. CASE s.wait[t] # NULL
      BY <1>1, <1>3, <2>1, <3>2, WaitRemoveAgrees
    <3> QED
      BY <3>1, <3>2
  <2> HIDE DEF q
  <2>3. Stands(q)
    BY <1>1, <2>2, StandsStay DEF SameRest, SameData
  <2>4. q.state = s.state /\ q.at = s.at /\ q.cur = s.cur /\ q.build = s.build
    BY <2>2 DEF SameRest, SameData
  <2>5. /\ Fit(r) /\ r.state = [q.state EXCEPT ![t] = "READY"] /\ r.at = q.at
        /\ r.cur = q.cur /\ r.build = q.build
    BY <1>3, <2>1, <2>2, <2>3, <2>4, WakeFit
  <2>6. \A u \in Tcb : s.state[u] = "RUNNING" => r.state[u] = "RUNNING"
    BY <1>1, <1>3, <2>4, <2>5
  <2> QED
    BY <2>4, <2>5, <2>6
<1>4. CASE r = s
  BY <1>4
<1> QED
  BY <1>2, <1>3, <1>4 DEF ScanTask

\* A task made READY while others of its priority are does not head its list.
LEMMA BehindOthers ==
  ASSUME NEW s \in KernelType, NEW t \in Task, LinksAgree(s, t), NEW p, s.prio[t] = p,
         On(s, p, t) # {}, NEW r, r = ReadyAdd(s, t)
  PROVE  r.head[p] # t
<1>1. /\ r.state = [s.state EXCEPT ![t] = "READY"]
      /\ On(s, s.prio[t], t) # {} => r.head[s.prio[t]] # t
  BY ReadyAddAgrees
<1> QED
  BY <1>1

\* The time slice of the current task, which is RUNNING.
LEMMA SliceFit ==
  ASSUME SoundBuilds, NEW s, Safe(s), Fit(s), s.at = "tick", CurRuns(s),
         NEW r, r = SliceTick(s)
  PROVE  /\ Fit(r) /\ r.at = "tick" /\ r.build = s.build /\ r.running = s.running /\ Leaves(r)
         /\ ~s.build.slices => r = s
<1> DEFINE c == s.cur
           p == s.prio[c]
           less == [s EXCEPT !.slice[c] = s.slice[c] - 1]
           full == [s EXCEPT !.slice[c] = SliceTicks]
<1>1. /\ s \in KernelType /\ LinksAgree(s, NULL) /\ Stands(s)
      /\ c \in Tcb /\ s.slice[c] \in 0 .. SliceTicks /\ SliceTicks \in 0 .. SliceTicks
      /\ c = s.cur /\ p = s.prio[c]
  BY SchedAssumption DEF Safe, Fit, KernelType
<1>2. CASE ~s.build.slices \/ s.slice[c] = 0
  BY <1>2 DEF SliceTick, Leaves, CurRuns
<1>3. CASE s.build.slices /\ s.slice[c] > 1
  <2>1. r = less /\ s.slice[c] - 1 \in 0 .. SliceTicks
    BY <1>1, <1>3, SchedAssumption DEF SliceTick
  <2>2. /\ less \in KernelType /\ SameLists(less, s) /\ less.state = s.state
        /\ less.wait = s.wait /\ less.prio = s.prio /\ less.build = s.build
        /\ less.running = s.running /\ less.guard = s.guard /\ less.cur = s.cur
        /\ less.lock = s.lock /\ less.at = s.at
    BY <1>1, <2>1 DEF KernelType, SameLists, SameLinks
  <2> HIDE DEF less
  <2>3. Fit(less)
    BY <2>2, OtherFit
  <2> QED
    BY <1>3, <2>1, <2>2, <2>3 DEF Leaves, CurRuns
<1>4. CASE s.build.slices /\ ~(s.slice[c] > 1) /\ s.slice[c] # 0
  <2>1. r = IF s.count[p] > 0 THEN ReadyAdd(full, c) ELSE full
    BY <1>4 DEF SliceTick
  <2>2. /\ full \in KernelType /\ SameLists(full, s) /\ full.state = s.state
        /\ full.wait = s.wait /\ full.prio = s.prio /\ full.build = s.build
        /\ full.running = s.running /\ full.guard = s.guard /\ full.cur = s.cur
        /\ full.lock = s.lock /\ full.at = s.at
    BY <1>1 DEF KernelType, SameLists, SameLinks
  <2> HIDE DEF full
  <2>3. Fit(full)
    BY <2>2, OtherFit
  <2>4. CASE s.count[p] > 0
    <3>1. p \in Prio /\ p \in List
      BY <1>1, ListsNameTasks DEF KernelType
    <3>2. Chained(s, p, On(s, p, NULL)) /\ On(s, p, NULL) # {}
      <4>1. Chained(s, p, On(s, p, NULL))
        BY <1>1, <3>1 DEF LinksAgree
      <4> QED
        BY <2>4, <4>1, ChainEnds
    <3>3. c \in Task
      <4>1. ASSUME c = Idle PROVE FALSE
        <5>1. PICK u \in On(s, p, NULL) : TRUE
          BY <3>2
        <5>2. u \in Task /\ s.state[u] = "READY" /\ s.prio[u] = PrioMax - 1
          BY <1>1, <3>1, <4>1, <5>1 DEF On, Stands, Habits
        <5> QED
          BY <1>1, <1>4, <5>2 DEF Stands, Habits
      <4> QED
        BY <1>1, <4>1 DEF Tcb
    <3>4. s.state[c] = "RUNNING"
      BY <1>1, <1>4 DEF SoundBuilds, Stands, Habits, CurRuns
    <3>5. LinksAgree(full, c) /\ Stands(full) /\ r = ReadyAdd(full, c)
      BY <2>1, <2>2, <2>3, <2>4, <3>4, OffTheLists DEF Fit
    <3>6. Fit(r) /\ SameData(r, full)
      BY <2>2, <3>3, <3>4, <3>5, ReadyAddFit
    <3>7. On(full, p, c) # {}
      <4>1. On(full, p, c) = On(s, p, NULL)
        BY <1>1, <2>2, <3>1, <3>4, IdleApart DEF On
      <4> QED
        BY <3>2, <4>1
    <3>8. r.head[p] # c
      <4>1. full.prio[c] = p /\ On(full, full.prio[c], c) # {}
        BY <1>1, <2>2, <3>7
      <4>2. full \in KernelType
        BY <2>2
      <4> HIDE DEF c, p
      <4>3. r.head[p] # c
        BY <3>3, <3>5, <4>1, <4>2, BehindOthers
      <4> QED
        BY <4>3
    <3>9. /\ r.at = "tick" /\ r.build = s.build /\ r.running = s.running /\ r.cur = c
          /\ r.prio[c] = p
      BY <1>1, <2>2, <3>6 DEF SameData
    <3> QED
      BY <1>4, <3>6, <3>8, <3>9 DEF Leaves
  <2>5. CASE ~(s.count[p] > 0)
    BY <1>4, <2>1, <2>2, <2>3, <2>5 DEF Leaves, CurRuns
  <2> QED
    BY <2>4, <2>5
<1> QED
  BY <1>1, <1>2, <1>3, <1>4

-----------------------------------------------------------------------------
(* Start-up.                                                               *)

\* A list whose fields say that it is empty.
LEMMA EmptyChained ==
  ASSUME NEW s, NEW l, s.head[l] = NULL, s.tail[l] = NULL, s.count[l] = 0
  PROVE  Chained(s, l, {})
<1> DEFINE q == [i \in 1 .. 0 |-> Idle]
<1>1. q \in [1 .. 0 -> Tcb] /\ 0 \in Nat /\ 1 .. 0 = {}
  BY IdleApart
<1>2. IsChain(s, l, 0, q) /\ {} = { q[i] : i \in 1 .. 0 }
  BY <1>1 DEF IsChain
<1> HIDE DEF q
<1> QED
  BY <1>1, <1>2 DEF Chained

LEMMA InitSound == KernelInit => Sound(k)
<1> SUFFICES ASSUME KernelInit PROVE Sound(k)
  OBVIOUS
<1>1. k \in KernelType
  BY InitSafe DEF TasksInv, Safe
<1>2. /\ \A l \in List : k.head[l] = NULL /\ k.tail[l] = NULL /\ k.count[l] = 0
      /\ k.bitmap = {} /\ k.cur = NULL /\ k.lock = 0 /\ k.at = "boot"
  BY DEF KernelInit
<1>3. /\ k.build \in Builds
      /\ \A t \in Tcb : k.guard[t] /\ k.state[t] = IF t = Idle THEN "READY" ELSE "INIT"
      /\ k.prio[Idle] = PrioMax - 1
  BY IdleApart DEF KernelInit
<1>4. \A l \in List : On(k, l, NULL) = {}
  BY <1>3, IdleApart DEF On
<1>5. LinksAgree(k, NULL)
  BY <1>2, <1>4, EmptyChained, ListsNameTasks DEF LinksAgree
<1>6. Stands(k)
  BY <1>2, <1>3, IdleApart DEF Stands, Habits
<1> QED
  BY <1>1, <1>2, <1>5, <1>6 DEF Sound, Fit

-----------------------------------------------------------------------------
(* The steps of the kernel.                                                *)

\* os_kernel_start
LEMMA KernelStartSound ==
  ASSUME Safe(k), Sound(k), KernelStart
  PROVE  Sound(k')
<1> DEFINE r == [k EXCEPT !.at = "start"]
<1>1. /\ k \in KernelType /\ LinksAgree(k, NULL) /\ Stands(k) /\ k' = r
  BY DEF Sound, Fit, KernelStart
<1>2. /\ r \in KernelType /\ SameLists(r, k) /\ r.state = k.state /\ r.wait = k.wait
      /\ r.prio = k.prio /\ r.build = k.build /\ r.guard = k.guard /\ r.cur = k.cur
      /\ r.lock = k.lock /\ r.at = "start"
  BY <1>1 DEF KernelType, Sections, SameLists, SameLinks
<1> HIDE DEF r
<1>3. LinksAgree(r, NULL)
  BY <1>1, <1>2, LinksStay DEF SameLists, SameLinks
<1>4. Stands(r)
  BY <1>1, <1>2 DEF Stands, Habits
<1> QED
  BY <1>1, <1>2, <1>3, <1>4 DEF Sound, Fit

LEMMA StartFirstSound ==
  ASSUME Safe(k), Sound(k), StartFirst
  PROVE  Sound(k')
<1> DEFINE t == Highest(k)
           s == IF t = Idle THEN k ELSE ReadyRemove(k, t)
           o == Give(s, t)
           r == [o EXCEPT !.running = TRUE]
           q == [r EXCEPT !.at = "task"]
<1>1. /\ Fit(k) /\ Stands(k) /\ k.cur = NULL /\ t = Highest(k)
      /\ s = (IF t = Idle THEN k ELSE ReadyRemove(k, t)) /\ o = Give(s, t)
  BY DEF Sound, Fit, Safe, StartFirst
<1>2. k' = [s EXCEPT !.state[t] = "RUNNING", !.cur = t, !.running = TRUE, !.at = "task"]
  BY DEF StartFirst
<1> HIDE DEF t, s
<1>3. /\ t \in Tcb /\ (t # Idle => t \in Task /\ k.state[t] = "READY")
      /\ s \in KernelType /\ LinksAgree(s, t) /\ SameRest(s, k) /\ Stands(s)
  BY <1>1, TakeHighest
<1>4. k' = q
  BY <1>2, <1>3 DEF Give, KernelType
<1>5. s.state = k.state /\ s.cur = k.cur
  BY <1>3 DEF SameRest, SameData
<1>6. s.state[Idle] = "READY" /\ Habits(s) /\ (t # Idle => s.state[t] # "INIT")
  BY <1>1, <1>3, <1>5, IdleApart DEF Stands
<1> HIDE DEF o
<1>7. Fit(o) /\ o.state[o.cur] = "RUNNING"
  BY <1>1, <1>3, <1>6, RunFit
<1>8. /\ r \in KernelType /\ SameLists(r, o) /\ r.state = o.state /\ r.wait = o.wait
      /\ r.prio = o.prio /\ r.build = o.build /\ r.guard = o.guard /\ r.cur = o.cur
      /\ r.lock = o.lock /\ r.at = o.at /\ r.running
  BY <1>7 DEF Fit, KernelType, SameLists, SameLinks
<1> HIDE DEF r
<1>9. /\ q \in KernelType /\ SameLists(q, r) /\ q.state = r.state /\ q.wait = r.wait
      /\ q.prio = r.prio /\ q.build = r.build /\ q.guard = r.guard /\ q.cur = r.cur
      /\ q.lock = r.lock /\ q.at = "task" /\ q.running
  BY <1>8 DEF KernelType, Sections, SameLists, SameLinks
<1> HIDE DEF q
<1>10. SameLists(q, o)
  BY <1>8, <1>9 DEF SameLists, SameLinks
<1>11. LinksAgree(q, NULL)
  BY <1>7, <1>8, <1>9, <1>10, LinksStay DEF SameLists, SameLinks, Fit
<1>12. Stands(q)
  BY <1>7, <1>8, <1>9 DEF Stands, Habits, Fit
<1> QED
  BY <1>4, <1>7, <1>8, <1>9, <1>11, <1>12 DEF Sound, Fit, CurRuns

LEMMA SkipSound ==
  ASSUME Safe(k), Sound(k), SkipOverflowed
  PROVE  Sound(k')
<1> DEFINE t == Highest(k)
           s == ReadyRemove(k, t)
<1>1. /\ Fit(k) /\ Stands(k) /\ t = Highest(k) /\ t # Idle /\ ~k.guard[t]
      /\ s = (IF t = Idle THEN k ELSE ReadyRemove(k, t)) /\ k' = GuardFail(s, t)
      /\ k.at \in {"start", "sched"}
  BY DEF Sound, Fit, SkipOverflowed
<1> HIDE DEF t, s
<1>2. /\ t \in Task /\ k.state[t] = "READY"
      /\ s \in KernelType /\ LinksAgree(s, t) /\ SameRest(s, k) /\ Stands(s)
  BY <1>1, TakeHighest
<1>3. s.state = k.state /\ s.at = k.at /\ s.build = k.build
  BY <1>2 DEF SameRest, SameData
<1>4. Fit(k') /\ k'.at = k.at /\ k'.build = k.build
  BY <1>1, <1>2, <1>3, GuardFailFit
<1>5. ~Calm(k.build)
  BY <1>1, <1>2 DEF Stands, Habits
<1> QED
  BY <1>1, <1>4, <1>5 DEF Sound, Leaves

LEMMA SwitchSound ==
  ASSUME Safe(k), Sound(k), Switch
  PROVE  Sound(k')
<1> DEFINE t == Highest(k)
           s == IF t = k.cur THEN k ELSE SwitchTo(k, t)
           r == [s EXCEPT !.at = "task"]
<1>1. /\ Safe(k) /\ Fit(k) /\ k \in KernelType /\ LinksAgree(k, NULL) /\ Stands(k) /\ Leaves(k)
      /\ k.cur \in Tcb /\ k.at = "sched" /\ t = Highest(k) /\ k' = r
      /\ s = IF t = k.cur THEN k ELSE SwitchTo(k, t)
  BY DEF Sound, Fit, Safe, Switch
<1> HIDE DEF t, s
<1>2. Fit(s) /\ CurRuns(s) /\ s.at = "sched"
  <2>1. CASE t = k.cur
    <3>1. ASSUME Calm(k.build) PROVE k.state[k.cur] = "RUNNING"
      <4>1. CASE k.cur = Idle
        BY <1>1, <4>1 DEF Stands
      <4>2. CASE k.cur # Idle
        <5>1. k.state[k.cur] = "READY" /\ k.head[k.prio[k.cur]] = k.cur
          <6>1. t # Idle
            BY <2>1, <4>2
          <6>2. k.state[t] = "READY" /\ k.head[k.prio[t]] = t
            BY <1>1, <6>1, HighestIsListed
          <6> QED
            BY <2>1, <6>2
        <5> QED
          BY <1>1, <3>1, <4>2, <5>1 DEF Leaves
      <4> QED
        BY <4>1, <4>2
    <3> QED
      BY <1>1, <2>1, <3>1 DEF CurRuns
  <2>2. CASE t # k.cur
    <3>1. s = SwitchTo(k, t)
      BY <1>1, <2>2
    <3>2. Fit(s) /\ s.state[s.cur] = "RUNNING"
      BY <1>1, <2>2, <3>1, SwitchToFit
    <3>3. s.at = "sched"
      <4>1. t \in Tcb
        BY <1>1, HighestIsTask
      <4> QED
        BY <1>1, <3>1, <4>1, SwitchToSafe
    <3> QED
      BY <3>2, <3>3 DEF CurRuns
  <2> QED
    BY <2>1, <2>2
<1>3. /\ r \in KernelType /\ SameLists(r, s) /\ r.state = s.state /\ r.wait = s.wait
      /\ r.prio = s.prio /\ r.build = s.build /\ r.guard = s.guard /\ r.cur = s.cur
      /\ r.lock = s.lock /\ r.at = "task" /\ r.running = s.running
  BY <1>2 DEF Fit, KernelType, Sections, SameLists, SameLinks
<1> HIDE DEF r
<1>4. Fit(r)
  BY <1>2, <1>3, OtherFit
<1> QED
  BY <1>1, <1>2, <1>3, <1>4 DEF Sound, CurRuns

\* os_sched called from a task that is current.
LEMMA EnterSound ==
  ASSUME Safe(k), Sound(k), k.at = "task"
  PROVE  Sound(CallSched(k))
<1>1. Fit(k) /\ Leaves(k)
  BY DEF Sound, Leaves, CurRuns
<1> QED
  BY <1>1, CallSchedSound

LEMMA TickStartSound ==
  ASSUME Safe(k), Sound(k), TickStart
  PROVE  Sound(k')
<1> DEFINE now == (k.tick + 1) % TickMod
           r == [k EXCEPT !.tick = now, !.at = "tick", !.i = 1]
<1>1. k \in KernelType /\ Fit(k) /\ CurRuns(k) /\ k.at = "task" /\ k' = r
  BY DEF Sound, Fit, TickStart
<1>2. now \in Tick
  <2>1. k.tick \in Tick
    BY <1>1 DEF KernelType
  <2> QED
    BY <2>1, SchedAssumption DEF Tick
<1> HIDE DEF now
<1>3. /\ r \in KernelType /\ SameLists(r, k) /\ r.state = k.state /\ r.wait = k.wait
      /\ r.prio = k.prio /\ r.build = k.build /\ r.guard = k.guard /\ r.cur = k.cur
      /\ r.lock = k.lock /\ r.at = "tick" /\ r.running = k.running
  BY <1>1, <1>2 DEF KernelType, Sections, SameLists, SameLinks
<1> HIDE DEF r
<1>4. Fit(r)
  BY <1>1, <1>3, OtherFit
<1> QED
  BY <1>1, <1>3, <1>4 DEF Sound, CurRuns

LEMMA TickScanSound ==
  ASSUME Safe(k), Sound(k), TickScan
  PROVE  Sound(k')
<1> DEFINE t == k.table[k.i]
           s == ScanTask(k, t)
           r == [s EXCEPT !.i = s.i + 1]
<1>1. /\ k \in KernelType /\ Safe(k) /\ Fit(k) /\ CurRuns(k) /\ k.at = "tick" /\ k' = r
      /\ s = ScanTask(k, t) /\ k.cur \in Tcb
  BY DEF Sound, Fit, TickScan, Safe
<1>2. t \in Tcb
  <2>1. k.i \in Nat /\ k.i >= 1 /\ k.i <= Len(k.table) /\ k.table \in Seq(Tcb)
    BY <1>1 DEF TickScan, Safe, KernelType
  <2> QED
    BY <2>1
<1> HIDE DEF t, s
<1>3. /\ Fit(s) /\ s.at = k.at /\ s.cur = k.cur /\ s.build = k.build
      /\ k.cur \in Tcb /\ k.state[k.cur] = "RUNNING" => s.state[k.cur] = "RUNNING"
  BY <1>1, <1>2, ScanFit
<1>4. /\ r \in KernelType /\ SameLists(r, s) /\ r.state = s.state /\ r.wait = s.wait
      /\ r.prio = s.prio /\ r.build = s.build /\ r.guard = s.guard /\ r.cur = s.cur
      /\ r.lock = s.lock /\ r.at = "tick" /\ r.running = s.running
  <2> DEFINE after == s.i + 1
  <2>1. s \in KernelType /\ after \in Nat /\ s.at = "tick" /\ r = [s EXCEPT !.i = after]
    BY <1>1, <1>3 DEF Fit, KernelType
  <2>2. r \in KernelType
    <3> HIDE DEF after, r
    <3> QED
      BY <2>1 DEF KernelType
  <2>3. SameLists(r, s)
    BY <2>1 DEF KernelType, SameLists, SameLinks
  <2>4. /\ r.state = s.state /\ r.wait = s.wait
        /\ r.prio = s.prio /\ r.build = s.build /\ r.guard = s.guard /\ r.cur = s.cur
        /\ r.lock = s.lock /\ r.at = s.at /\ r.running = s.running
    <3>1. s \in KernelType
      BY <2>1
    <3> QED
      BY <3>1 DEF KernelType
  <2> QED
    BY <2>1, <2>2, <2>3, <2>4
<1> HIDE DEF r
<1>5. Fit(r)
  BY <1>1, <1>3, <1>4, OtherFit
<1> QED
  BY <1>1, <1>3, <1>4, <1>5 DEF Sound, CurRuns

LEMMA TickEndSound ==
  ASSUME SoundBuilds, Safe(k), Sound(k), TickEnd
  PROVE  Sound(k')
<1> DEFINE s == SliceTick(k)
           back == [s EXCEPT !.i = 0]
           noted == [s EXCEPT !.i = 0, !.pend = s.running \/ s.pend]
           out == [noted EXCEPT !.at = "task"]
<1>1. /\ k \in KernelType /\ Safe(k) /\ Fit(k) /\ CurRuns(k) /\ k.at = "tick"
      /\ s = SliceTick(k) /\ k' = IrqExit(SchedFromIrq(back))
  BY DEF Sound, Fit, TickEnd, Safe
<1> HIDE DEF s
<1>2. /\ Fit(s) /\ s.at = "tick" /\ s.build = k.build /\ s.running = k.running /\ Leaves(s)
      /\ ~k.build.slices => s = k
  BY <1>1, SliceFit
<1>3. Safe(s)
  BY <1>1, SliceSafe
<1>4. s \in KernelType /\ (s.running \/ s.pend) \in BOOLEAN /\ s.running
  BY <1>2, <1>3 DEF Safe, KernelType, Fit, Stands, Habits
<1>5. k' = IrqExit(noted)
  BY <1>1, <1>4 DEF SchedFromIrq, KernelType
<1>6. /\ out \in KernelType /\ SameLists(out, s) /\ out.state = s.state /\ out.wait = s.wait
      /\ out.prio = s.prio /\ out.build = s.build /\ out.guard = s.guard /\ out.cur = s.cur
      /\ out.lock = s.lock /\ out.at = "task" /\ out.running = s.running /\ out.head = s.head
      /\ out.pend
  BY <1>4 DEF KernelType, Sections, SameLists, SameLinks
<1>7. IrqExit(noted) = IF out.lock = 0 /\ out.pend /\ out.build.exits THEN CallSched(out) ELSE out
  BY DEF IrqExit
<1> HIDE DEF noted, out
<1>8. Safe(out) /\ Fit(out) /\ Leaves(out)
  <2>1. Safe(out)
    BY <1>2, <1>3, <1>6 DEF Safe
  <2>2. Fit(out)
    BY <1>2, <1>6, OtherFit
  <2> QED
    BY <1>2, <1>6, <2>1, <2>2 DEF Leaves
<1>9. CASE out.lock = 0 /\ out.pend /\ out.build.exits
  BY <1>5, <1>6, <1>7, <1>8, <1>9, CallSchedSound
<1>10. CASE ~(out.lock = 0 /\ out.pend /\ out.build.exits)
  <2>1. ASSUME Calm(out.build) PROVE out.state[out.cur] = "RUNNING"
    <3>1. ~out.build.exits
      BY <1>6, <1>8, <1>10, <2>1 DEF Fit, Stands, Habits
    <3>2. s = k
      BY <1>2, <1>6, <2>1, <3>1 DEF Calm
    <3> QED
      BY <1>1, <1>6, <2>1, <3>2 DEF CurRuns
  <2> QED
    BY <1>5, <1>6, <1>7, <1>8, <1>10, <2>1 DEF Sound, CurRuns
<1> QED
  BY <1>9, <1>10

\* os_task_create by main, before the kernel runs.
LEMMA MainCreateSound ==
  ASSUME SoundBuilds, Safe(k), Sound(k), NEW t \in Task, NEW p \in CreatePrio[t], MainCreate(t, p)
  PROVE  Sound(k')
<1> DEFINE s == Created(k, t, p)
<1>1. /\ Fit(k) /\ k.at = "boot" /\ k.state[t] \in {"INIT", "TERMINATED"}
      /\ s = Created(k, t, p) /\ k' = s
  BY DEF Sound, MainCreate, Reusable
<1> HIDE DEF s
<1>2. /\ Fit(s) /\ s.at = k.at /\ s.cur = k.cur /\ s.build = k.build
      /\ s.state = [k.state EXCEPT ![t] = "READY"]
  BY <1>1, CreatedFit
<1> QED
  BY <1>1, <1>2 DEF Sound

LEMMA KernelStepSound ==
  ASSUME SoundBuilds, Safe(k), Sound(k), KernelStep
  PROVE  Sound(k')
<1>1. CASE IdleSched
  BY <1>1, EnterSound DEF IdleSched, Runs
<1> QED
  BY <1>1, MainCreateSound, KernelStartSound, StartFirstSound, SkipSound, SwitchSound,
     TickStartSound, TickScanSound, TickEndSound DEF KernelStep

-----------------------------------------------------------------------------
(* The steps of tasks.                                                     *)

\* A step of an application that is not calm, in a field of its own.
LEMMA LooseFit ==
  ASSUME NEW s, Fit(s), ~Calm(s.build), NEW r \in KernelType, SameLists(r, s),
         r.state = s.state, r.wait = s.wait, r.prio = s.prio,
         r.build = s.build, r.running = s.running, r.guard[Idle], r.cur = s.cur, r.at = s.at
  PROVE  Fit(r)
<1>1. LinksAgree(r, NULL)
  BY LinksStay DEF SameLists, SameLinks, Fit
<1>2. Stands(r)
  BY DEF Fit, Stands, Habits
<1> QED
  BY <1>1, <1>2 DEF Fit

LEMMA TaskCreateSound ==
  ASSUME SoundBuilds, Safe(k), Sound(k), NEW c \in Task, NEW t \in Task, NEW p \in CreatePrio[t],
         TaskCreate(c, t, p)
  PROVE  Sound(k')
<1> DEFINE s == Created(k, t, p)
<1>1. /\ Safe(k) /\ Fit(k) /\ CurRuns(k) /\ k.at = "task" /\ k.cur # t /\ t \in Tcb /\ p \in Prio
      /\ k.state[t] \in {"INIT", "TERMINATED"} /\ s = Created(k, t, p) /\ k.cur \in Tcb
      /\ k.state \in [Tcb -> States]
  BY IdleApart, SchedAssumption
     DEF Sound, TaskCreate, Reusable, Runs, Safe, KernelType
<1>2. k' = IF k.build.masked THEN CallSched(s) ELSE s
  BY DEF TaskCreate
<1>3. Safe(s)
  BY <1>1, CreatedSafe
<1> HIDE DEF s
<1>4. /\ Fit(s) /\ s.at = k.at /\ s.cur = k.cur /\ s.build = k.build
      /\ s.state = [k.state EXCEPT ![t] = "READY"]
  BY <1>1, CreatedFit
<1>5. s.state[s.cur] = k.state[k.cur]
  BY <1>1, <1>4
<1>6. CurRuns(s) /\ Leaves(s)
  BY <1>1, <1>4, <1>5 DEF CurRuns, Leaves
<1>7. Sound(CallSched(s))
  BY <1>1, <1>3, <1>4, <1>6, CallSchedSound
<1>8. Sound(s)
  BY <1>1, <1>4, <1>6 DEF Sound
<1> QED
  BY <1>2, <1>7, <1>8

\* os_task_delete and os_task_suspend
LEMMA StopTaskSound ==
  ASSUME Safe(k), Sound(k), NEW c \in Task, NEW t \in Task, Runs(c), Live(t),
         NEW v \in {"TERMINATED", "SUSPENDED"}, ~MayBlock(k.build), StopTask(c, t, v)
  PROVE  Sound(k')
<1> DEFINE u == IF k.state[t] = "READY" THEN ReadyRemove(k, t) ELSE k
           s == [u EXCEPT !.state[t] = v]
<1>1. /\ Safe(k) /\ Fit(k) /\ CurRuns(k) /\ k.at = "task" /\ k.cur = c /\ t \in Tcb
      /\ k.state[t] # "INIT" /\ k.state[t] # "BLOCKED" /\ v \in States /\ v # "READY"
      /\ u = (IF k.state[t] = "READY" THEN ReadyRemove(k, t) ELSE k)
  BY IdleApart DEF Sound, Runs, Live, Fit, Stands, Habits, States
<1>2. s = Stopped(k, t, v) /\ IF t = c THEN ThenSched(c, s) ELSE k' = s
  BY DEF StopTask, Stopped
<1>3. Safe(s)
  BY <1>1, <1>2, StoppedSafe
<1> HIDE DEF u
<1>4. u \in KernelType /\ LinksAgree(u, t) /\ SameRest(u, k) /\ Stands(u)
  BY <1>1, UnlistFit
<1>5. /\ s \in KernelType /\ SameData(s, u) /\ s.state = [u.state EXCEPT ![t] = v]
      /\ s.next = u.next /\ s.prev = u.prev /\ s.head = u.head /\ s.tail = u.tail
      /\ s.count = u.count /\ s.bitmap = u.bitmap
  BY <1>1, <1>4, PutState
<1> HIDE DEF s
<1>6. u.state = k.state /\ u.state \in [Tcb -> States]
  BY <1>4 DEF SameRest, KernelType
<1>7. Fit(s)
  <2>1. SameLists(s, u) /\ u.state[t] # "INIT" /\ v \in {"TERMINATED", "SUSPENDED", "SLEEPING"}
    BY <1>1, <1>5, <1>6 DEF SameLists, SameLinks
  <2> QED
    BY <1>4, <1>5, <2>1, StopFit
<1>8. s.at = k.at /\ s.cur = k.cur /\ s.build = k.build
  BY <1>4, <1>5 DEF SameRest, SameData
<1>9. CASE t = c
  <2>1. s.state[s.cur] # "READY"
    BY <1>1, <1>5, <1>6, <1>8, <1>9
  <2>2. Leaves(s)
    BY <2>1 DEF Leaves
  <2> QED
    BY <1>1, <1>2, <1>3, <1>7, <1>8, <1>9, <2>2, ThenSchedSound
<1>10. CASE t # c
  <2>1. s.state[s.cur] = k.state[k.cur]
    BY <1>1, <1>5, <1>6, <1>8, <1>10, IdleApart
  <2>2. CurRuns(s)
    BY <1>1, <1>8, <2>1 DEF CurRuns
  <2> QED
    BY <1>1, <1>2, <1>7, <1>8, <1>10, <2>2 DEF Sound
<1> QED
  BY <1>9, <1>10

LEMMA ResumeSound ==
  ASSUME Safe(k), Sound(k), NEW c \in Task, NEW t \in Task, TaskResume(c, t)
  PROVE  Sound(k')
<1> DEFINE r == ReadyAdd(k, t)
           s == Resumed(k, t)
<1>1. /\ Safe(k) /\ Fit(k) /\ CurRuns(k) /\ k.at = "task" /\ k.cur = c /\ t \in Tcb /\ c \in Tcb
      /\ k \in KernelType /\ LinksAgree(k, NULL) /\ Stands(k) /\ r = ReadyAdd(k, t)
      /\ s = (IF k.state[t] = "SUSPENDED" THEN r ELSE k) /\ ThenSched(c, s)
  BY IdleApart DEF Sound, Runs, TaskResume, Fit, Safe, Resumed
<1> HIDE DEF r, s
<1>2. CASE k.state[t] = "SUSPENDED"
  <2>1. LinksAgree(k, t)
    BY <1>1, <1>2, OffTheLists
  <2>2. Fit(r) /\ SameData(r, k) /\ r.state = [k.state EXCEPT ![t] = "READY"]
    BY <1>1, <1>2, <2>1, ReadyAddFit
  <2>3. r.at = k.at /\ r.cur = k.cur /\ r.build = k.build
    BY <2>2 DEF SameData
  <2>4. Safe(r)
    BY <1>1, ReadyAddSafe
  <2>5. k.state \in [Tcb -> States]
    BY <1>1 DEF KernelType
  <2>6. Leaves(r)
    BY <1>1, <1>2, <2>2, <2>3, <2>5 DEF Leaves, CurRuns
  <2> QED
    BY <1>1, <1>2, <2>2, <2>3, <2>4, <2>6, ThenSchedSound
<1>3. CASE k.state[t] # "SUSPENDED"
  <2>1. Leaves(k)
    BY <1>1 DEF CurRuns, Leaves
  <2> QED
    BY <1>1, <1>3, <2>1, ThenSchedSound
<1> QED
  BY <1>2, <1>3

LEMMA YieldSound ==
  ASSUME Safe(k), Sound(k), NEW c \in Task, TaskYield(c)
  PROVE  Sound(k')
<1> DEFINE p == k.prio[c]
           r == ReadyAdd(k, c)
<1>1. /\ Safe(k) /\ Fit(k) /\ k.at = "task" /\ k.cur = c /\ c \in Tcb /\ p = k.prio[c]
      /\ k \in KernelType /\ LinksAgree(k, NULL) /\ Stands(k) /\ r = ReadyAdd(k, c)
  BY IdleApart DEF Sound, Runs, TaskYield, Fit, Safe
<1>2. CASE UNCHANGED vars
  BY <1>2 DEF vars
<1>3. CASE k.state[c] = "RUNNING" /\ k.count[p] > 0 /\ ThenSched(c, r)
  <2>1. p \in Prio /\ p \in List /\ k.state \in [Tcb -> States]
    BY <1>1, ListsNameTasks DEF KernelType
  <2> HIDE DEF p, r
  <2>2. LinksAgree(k, c)
    BY <1>1, <1>3, OffTheLists
  <2>3. On(k, p, c) # {}
    <3>1. Chained(k, p, On(k, p, c))
      BY <2>1, <2>2 DEF LinksAgree
    <3> QED
      BY <1>3, <3>1, ChainEnds
  <2>4. Fit(r) /\ SameData(r, k) /\ r.state = [k.state EXCEPT ![c] = "READY"]
    BY <1>1, <1>3, <2>2, ReadyAddFit
  <2>5. r.head[p] # c
    BY <1>1, <2>2, <2>3, BehindOthers
  <2>6. r.at = k.at /\ r.cur = k.cur /\ r.build = k.build /\ r.prio = k.prio
    BY <2>4 DEF SameData
  <2>7. Safe(r)
    BY <1>1, ReadyAddSafe
  <2>8. Leaves(r)
    BY <1>1, <2>5, <2>6 DEF Leaves
  <2> QED
    BY <1>1, <1>3, <2>4, <2>6, <2>7, <2>8, ThenSchedSound
<1> QED
  BY <1>2, <1>3 DEF TaskYield

LEMMA DelaySound ==
  ASSUME SoundBuilds, Safe(k), Sound(k), NEW c \in Task, NEW ticks \in Delays, TaskDelay(c, ticks)
  PROVE  Sound(k')
<1> DEFINE u == IF k.state[c] = "READY" THEN ReadyRemove(k, c) ELSE k
           due == (k.tick + ticks) % TickMod
           w == [u EXCEPT !.wake[c] = due]
           s == [w EXCEPT !.state[c] = "SLEEPING"]
<1>1. /\ Safe(k) /\ Fit(k) /\ CurRuns(k) /\ k.at = "task" /\ k.cur = c /\ c \in Tcb /\ k \in KernelType
      /\ u = (IF k.state[c] = "READY" THEN ReadyRemove(k, c) ELSE k) /\ "SLEEPING" \in States
      /\ k.tick \in Tick /\ ticks \in Nat
  BY IdleApart, SchedAssumption
     DEF Sound, Runs, TaskDelay, Safe, Fit, KernelType, States
<1>2. due \in Tick
  <2>1. \A n \in Nat : n % TickMod \in 0 .. TickMod - 1
    BY SchedAssumption
  <2> QED
    BY <1>1, <2>1, SchedAssumption DEF Tick
<1>3. Delayed(k, c, ticks) = [u EXCEPT !.wake[c] = due, !.state[c] = "SLEEPING"]
  BY DEF Delayed
<1>4. ThenSched(c, Delayed(k, c, ticks)) /\ Safe(Delayed(k, c, ticks))
  BY <1>1, DelayedSafe DEF TaskDelay
<1> HIDE DEF u, due
<1>5. k.state[c] # "BLOCKED" /\ (k.state[c] # "INIT" \/ (k.build.slices => k.prio[c] # PrioMax - 1))
  <2>1. k.build \in Builds /\ (~MayBlock(k.build) => k.state[c] # "BLOCKED")
    BY <1>1 DEF Fit, Stands, Habits
  <2> QED
    BY <1>1, <2>1 DEF CurRuns, MayBlock, SoundBuilds
<1>6. u \in KernelType /\ LinksAgree(u, c) /\ SameRest(u, k) /\ Stands(u)
  BY <1>1, <1>5, UnlistFit
<1>7. /\ w \in KernelType /\ SameLists(w, u) /\ w.state = u.state /\ w.wait = u.wait
      /\ w.prio = u.prio /\ w.build = u.build /\ w.guard = u.guard /\ w.cur = u.cur
      /\ w.lock = u.lock /\ w.at = u.at /\ w.running = u.running
  <2>1. w \in KernelType
    <3> DEFINE wake == [u.wake EXCEPT ![c] = due]
    <3>1. w = [u EXCEPT !.wake = wake]
      OBVIOUS
    <3>2. wake \in [Tcb -> Tick]
      BY <1>1, <1>2, <1>6 DEF KernelType
    <3> HIDE DEF wake, w
    <3> QED
      BY <1>6, <3>1, <3>2 DEF KernelType
  <2>2. SameLists(w, u)
    BY <1>6 DEF KernelType, SameLists, SameLinks
  <2>3. /\ w.state = u.state /\ w.wait = u.wait
        /\ w.prio = u.prio /\ w.build = u.build /\ w.guard = u.guard /\ w.cur = u.cur
        /\ w.lock = u.lock /\ w.at = u.at /\ w.running = u.running
    BY <1>6 DEF KernelType
  <2> QED
    BY <2>1, <2>2, <2>3
<1>8. Delayed(k, c, ticks) = s
  BY <1>3, <1>6 DEF KernelType
<1> HIDE DEF w
<1>9. LinksAgree(w, c)
  BY <1>6, <1>7, LinksStay DEF SameLists, SameLinks
<1>10. Stands(w)
  BY <1>6, <1>7 DEF Stands, Habits
<1>11. /\ s \in KernelType /\ SameData(s, w) /\ s.state = [w.state EXCEPT ![c] = "SLEEPING"]
       /\ s.next = w.next /\ s.prev = w.prev /\ s.head = w.head /\ s.tail = w.tail
       /\ s.count = w.count /\ s.bitmap = w.bitmap
  BY <1>1, <1>7, PutState
<1> HIDE DEF s
<1>12. /\ w.state = k.state /\ w.prio = k.prio /\ w.build = k.build /\ w.at = k.at /\ w.cur = k.cur
       /\ k.state \in [Tcb -> States]
  <2>1. k.state \in [Tcb -> States]
    BY <1>1 DEF KernelType
  <2> QED
    BY <1>6, <1>7, <2>1 DEF SameRest, SameData
<1>13. Fit(s)
  <2>1. SameLists(s, w)
    BY <1>11 DEF SameLists, SameLinks
  <2>2. w.state[c] # "INIT" \/ (w.build.slices => w.prio[c] # PrioMax - 1)
    BY <1>5, <1>12
  <2> QED
    BY <1>7, <1>9, <1>10, <1>11, <2>1, <2>2, StopFit
<1>14. s.at = "task" /\ s.build = k.build /\ s.cur = c /\ s.state[c] = "SLEEPING"
  BY <1>1, <1>11, <1>12 DEF SameData
<1>15. Leaves(s)
  BY <1>14 DEF Leaves
<1> QED
  BY <1>4, <1>8, <1>13, <1>14, <1>15, ThenSchedSound

\* os_task_set_prio: a READY task moves to the list of its new priority, any other
\* keeps its links.
LEMMA RePrioFit ==
  ASSUME SoundBuilds, NEW s, Fit(s), NEW t \in Task, s.state[t] # "INIT",
         NEW p \in CreatePrio[t], NEW r, r = RePrio(s, t, p)
  PROVE  /\ Fit(r) /\ r.at = s.at /\ r.cur = s.cur /\ r.build = s.build
         /\ \A u \in Tcb : r.state[u] = s.state[u]
<1> DEFINE off == IF s.state[t] = "READY" THEN ReadyRemove(s, t) ELSE s
           v == IF s.prio[t] = s.base[t] \/ p < s.prio[t] THEN p ELSE off.prio[t]
           set == [off EXCEPT !.prio[t] = v, !.base[t] = p]
<1>1. /\ s \in KernelType /\ LinksAgree(s, NULL) /\ Stands(s) /\ t \in Tcb /\ p \in Prio
      /\ off = (IF s.state[t] = "READY" THEN ReadyRemove(s, t) ELSE s)
      /\ s.state \in [Tcb -> States] /\ s.prio \in [Tcb -> Prio]
  BY IdleApart, SchedAssumption DEF Fit, KernelType
<1>2. r = IF s.state[t] = "READY" THEN ReadyAdd(set, t) ELSE set
  BY DEF RePrio
<1> HIDE DEF off
<1>3. off \in KernelType /\ SameRest(off, s) /\ Stands(off)
  <2>1. CASE s.state[t] = "BLOCKED"
    BY <1>1, <2>1 DEF SameRest, SameData
  <2>2. CASE s.state[t] # "BLOCKED"
    BY <1>1, <2>2, UnlistFit
  <2> QED
    BY <2>1, <2>2
<1>4. /\ off.state = s.state /\ off.prio = s.prio /\ off.wait = s.wait /\ off.build = s.build
      /\ off.at = s.at /\ off.cur = s.cur
  BY <1>3 DEF SameRest, SameData
<1>5. v \in Prio /\ v \in {p, s.prio[t]}
  BY <1>1, <1>4
<1> HIDE DEF v
<1>6. /\ set \in KernelType /\ SameLists(set, off) /\ set.state = off.state /\ set.wait = off.wait
      /\ set.build = off.build /\ set.guard = off.guard /\ set.cur = off.cur
      /\ set.lock = off.lock /\ set.at = off.at /\ set.running = off.running
      /\ set.prio = [off.prio EXCEPT ![t] = v]
  <2>1. set \in KernelType
    <3> DEFINE prio == [off.prio EXCEPT ![t] = v]
               base == [off.base EXCEPT ![t] = p]
    <3>1. set = [off EXCEPT !.prio = prio, !.base = base]
      OBVIOUS
    <3>2. prio \in [Tcb -> Prio] /\ base \in [Tcb -> Prio]
      BY <1>1, <1>3, <1>5 DEF KernelType
    <3> HIDE DEF prio, base, set
    <3> QED
      BY <1>3, <3>1, <3>2 DEF KernelType
  <2>2. SameLists(set, off)
    BY <1>3 DEF KernelType, SameLists, SameLinks
  <2>3. /\ set.state = off.state /\ set.wait = off.wait
        /\ set.build = off.build /\ set.guard = off.guard /\ set.cur = off.cur
        /\ set.lock = off.lock /\ set.at = off.at /\ set.running = off.running
        /\ set.prio = [off.prio EXCEPT ![t] = v]
    BY <1>3 DEF KernelType
  <2> QED
    BY <2>1, <2>2, <2>3
<1> HIDE DEF set
<1>7. \A u \in Tcb : set.prio[u] = IF u = t THEN v ELSE s.prio[u]
  BY <1>1, <1>4, <1>6
<1>8. Stands(set)
  <2>1. s.build.slices => v # PrioMax - 1
    <3>1. s.build \in Builds /\ PrioMax \in Nat
      BY <1>1, SchedAssumption DEF Stands, Habits
    <3>2. s.build.slices => s.prio[t] # PrioMax - 1
      BY <1>1 DEF Stands, Habits
    <3> QED
      BY <1>5, <3>1, <3>2 DEF SoundBuilds
  <2>2. set.prio[Idle] = PrioMax - 1
    BY <1>1, <1>7, IdleApart DEF Stands, Habits
  <2>3. set.build.slices => \A u \in Task : set.state[u] # "INIT" => set.prio[u] # PrioMax - 1
    BY <1>1, <1>4, <1>6, <1>7, <2>1, IdleApart DEF Stands, Habits
  <2> QED
    BY <1>3, <1>6, <2>2, <2>3 DEF Stands, Habits
<1>9. CASE s.state[t] = "READY"
  <2>1. LinksAgree(off, t)
    BY <1>1, <1>9, UnlistFit DEF Fit
  <2>2. \A u \in Task \ {t} : /\ set.next[u] = off.next[u] /\ set.prev[u] = off.prev[u]
                              /\ set.state[u] = off.state[u] /\ set.prio[u] = off.prio[u]
                              /\ set.wait[u] = off.wait[u]
    BY <1>4, <1>6, <1>7, IdleApart DEF SameLists, SameLinks
  <2>3. LinksAgree(set, t)
    <3>1. /\ set.head = off.head /\ set.tail = off.tail /\ set.count = off.count
          /\ set.bitmap = off.bitmap
      BY <1>6 DEF SameLists, SameLinks
    <3> QED
      BY <2>1, <2>2, <3>1, LinksStay
  <2>4. set.state[t] # "INIT" /\ r = ReadyAdd(set, t)
    BY <1>2, <1>4, <1>6, <1>9
  <2>5. Fit(r) /\ SameData(r, set) /\ r.state = [set.state EXCEPT ![t] = "READY"]
    BY <1>6, <1>8, <2>3, <2>4, ReadyAddFit
  <2>6. r.at = s.at /\ r.cur = s.cur /\ r.build = s.build
    BY <1>4, <1>6, <2>5 DEF SameData
  <2>7. \A u \in Tcb : r.state[u] = s.state[u]
    BY <1>1, <1>4, <1>6, <1>9, <2>5
  <2> QED
    BY <2>5, <2>6, <2>7
<1>10. CASE s.state[t] # "READY"
  <2>1. off = s /\ r = set
    BY <1>1, <1>2, <1>10
  <2>2. \A l \in List : On(set, l, NULL) = On(s, l, NULL)
    BY <1>4, <1>6, <1>7, <1>10, IdleApart DEF On
  <2>3. \A l \in List : Chained(set, l, On(s, l, NULL))
    BY <1>1, <1>6, <2>1, ChainStays DEF LinksAgree, SameLists, SameLinks
  <2>4. set.bitmap = s.bitmap
    BY <1>6, <2>1 DEF SameLists
  <2>5. LinksAgree(set, NULL)
    BY <1>1, <2>2, <2>3, <2>4, ListsNameTasks DEF LinksAgree
  <2> QED
    BY <1>4, <1>6, <1>8, <2>1, <2>5 DEF Fit
<1> QED
  BY <1>9, <1>10

LEMMA SetPrioSound ==
  ASSUME SoundBuilds, Safe(k), Sound(k), NEW c \in Task, NEW t \in Task,
         NEW p \in CreatePrio[t], TaskSetPrio(c, t, p)
  PROVE  Sound(k')
<1> DEFINE s == RePrio(k, t, p)
<1>1. /\ Safe(k) /\ Fit(k) /\ CurRuns(k) /\ k.at = "task" /\ k.cur = c /\ c \in Tcb /\ t \in Tcb
      /\ k.state[t] # "INIT" /\ p \in Prio /\ s = RePrio(k, t, p)
  <2>1. p \in Prio
    BY SchedAssumption
  <2> QED
    BY <2>1, IdleApart DEF Sound, Runs, Live, TaskSetPrio
<1>2. CASE UNCHANGED vars
  BY <1>2 DEF vars
<1>3. CASE ThenSched(c, s)
  <2>1. Safe(s)
    BY <1>1, RePrioSafe
  <2> HIDE DEF s
  <2>2. /\ Fit(s) /\ s.at = k.at /\ s.cur = k.cur /\ s.build = k.build
        /\ \A u \in Tcb : s.state[u] = k.state[u]
    BY <1>1, RePrioFit
  <2>3. Leaves(s)
    BY <1>1, <2>2 DEF Leaves, CurRuns
  <2> QED
    BY <1>1, <1>3, <2>1, <2>2, <2>3, ThenSchedSound
<1> QED
  BY <1>2, <1>3 DEF TaskSetPrio

\* os_sched_lock, os_sched_unlock, and a smashed guard.
LEMMA LooseSound ==
  ASSUME Safe(k), Sound(k), NEW c \in Task, SchedLock(c) \/ SchedUnlock(c) \/ Overflow(c)
  PROVE  Sound(k')
<1>1. /\ Safe(k) /\ Fit(k) /\ k \in KernelType /\ k.at = "task" /\ k.cur = c /\ c \in Tcb /\ c # Idle
      /\ ~Calm(k.build) /\ k.guard[Idle] /\ k.lock \in 0 .. LockMax /\ LockMax \in Nat
  BY IdleApart, SchedAssumption
     DEF Sound, Runs, SchedLock, SchedUnlock, Overflow, Calm, Safe, Fit, Stands, Habits,
         KernelType
<1>2. ASSUME NEW v \in 0 .. LockMax, NEW s, s = [k EXCEPT !.lock = v]
      PROVE  Safe(s) /\ Fit(s) /\ Sound(s) /\ s.at = "task" /\ s.build = k.build /\ Leaves(s)
  <2>1. /\ s \in KernelType /\ SameLists(s, k) /\ s.state = k.state /\ s.wait = k.wait
        /\ s.prio = k.prio /\ s.build = k.build /\ s.guard = k.guard /\ s.cur = k.cur
        /\ s.at = "task" /\ s.running = k.running
    BY <1>1, <1>2 DEF KernelType, SameLists, SameLinks
  <2>2. Safe(s)
    BY <1>1, <2>1 DEF Safe
  <2>3. Fit(s)
    BY <1>1, <2>1, LooseFit
  <2> QED
    BY <1>1, <2>1, <2>2, <2>3 DEF Sound, CurRuns, Leaves
<1>3. CASE SchedLock(c)
  <2>1. k.lock + 1 \in 0 .. LockMax /\ k' = [k EXCEPT !.lock = k.lock + 1]
    BY <1>1, <1>3 DEF SchedLock
  <2> QED
    BY <1>2, <2>1
<1>4. CASE SchedUnlock(c)
  <2> DEFINE s == [k EXCEPT !.lock = k.lock - 1]
  <2>1. k.lock - 1 \in 0 .. LockMax /\ (ThenSched(c, s) \/ k' = s) /\ s = [k EXCEPT !.lock = k.lock - 1]
    BY <1>1, <1>4 DEF SchedUnlock
  <2> HIDE DEF s
  <2>2. Safe(s) /\ Fit(s) /\ Sound(s) /\ s.at = "task" /\ s.build = k.build /\ Leaves(s)
    BY <1>2, <2>1
  <2> QED
    BY <2>1, <2>2, ThenSchedSound
<1>5. CASE Overflow(c)
  <2> DEFINE g == [k.guard EXCEPT ![c] = FALSE]
             s == [k EXCEPT !.guard = g]
  <2>1. k' = s
    BY <1>1, <1>5 DEF Overflow, KernelType
  <2>2. g \in [Tcb -> BOOLEAN] /\ g[Idle]
    BY <1>1, IdleApart DEF KernelType
  <2> HIDE DEF g
  <2>3. /\ s \in KernelType /\ SameLists(s, k) /\ s.state = k.state /\ s.wait = k.wait
        /\ s.prio = k.prio /\ s.build = k.build /\ s.guard[Idle] /\ s.cur = k.cur
        /\ s.at = "task" /\ s.running = k.running
    BY <1>1, <2>2 DEF KernelType, SameLists, SameLinks
  <2> HIDE DEF s
  <2>4. Fit(s)
    BY <1>1, <2>3, LooseFit
  <2> QED
    BY <1>1, <2>1, <2>3, <2>4 DEF Sound, CurRuns
<1> QED
  BY <1>3, <1>4, <1>5

LEMMA TaskStepSound ==
  ASSUME SoundBuilds, Safe(k), Sound(k), NEW c \in Task, TaskStep(c)
  PROVE  Sound(k')
<1>1. CASE EnterSched(c)
  BY <1>1, EnterSound DEF EnterSched
<1>2. ASSUME NEW t \in Task, TaskDelete(c, t) PROVE Sound(k')
  BY <1>2, StopTaskSound DEF TaskDelete, MayBlock
<1>3. ASSUME NEW t \in Task, TaskSuspend(c, t) PROVE Sound(k')
  BY <1>3, StopTaskSound DEF TaskSuspend, MayBlock
<1> QED
  BY <1>1, <1>2, <1>3, TaskCreateSound, ResumeSound, SetPrioSound, YieldSound, DelaySound,
     LooseSound DEF TaskStep

-----------------------------------------------------------------------------

\* Sound lists stay so, whatever places of their calls tasks are in.
LEMMA StepSound ==
  ASSUME SoundBuilds, Safe(k), Sound(k), [TasksNext]_vars
  PROVE  Safe(k') /\ Sound(k')
<1>1. CASE UNCHANGED vars
  BY <1>1 DEF vars
<1>2. CASE KernelStep
  BY <1>2, KernelStepSafe, KernelStepSound
<1>3. ASSUME NEW c \in Task, TaskStep(c) PROVE Safe(k') /\ Sound(k')
  BY <1>3, TaskStepSafe, TaskStepSound
<1> QED
  BY <1>1, <1>2, <1>3 DEF TasksNext

LEMMA ListsInvariant == ASSUME SoundBuilds PROVE TasksSpec => [](TasksInv /\ Sound(k))
<1>1. TasksInv /\ Sound(k) /\ [TasksNext]_vars => Sound(k)'
  BY StepSound DEF TasksInv
<1> QED
  BY <1>1, InitSound, TasksInvariant, PTL DEF TasksSpec

\* What a reader of the lists finds when they agree with the tasks.
LEMMA AgreeingListsAgree == Sound(k) => ListsAgree
<1> SUFFICES ASSUME Sound(k) PROVE ListsAgree
  OBVIOUS
<1>1. k \in KernelType /\ LinksAgree(k, NULL) /\ \A l \in List : Chained(k, l, On(k, l, NULL))
  BY DEF Sound, Fit, LinksAgree
<1>2. ListsSound
  BY <1>1, ChainWellFormed DEF ListsSound, TaskCount
<1>3. ASSUME NEW p \in Prio
      PROVE  Members(k, p, TaskCount) = { t \in Task : k.state[t] = "READY" /\ k.prio[t] = p }
  <2>1. Members(k, p, TaskCount) = On(k, p, NULL)
    BY <1>1, ListsNameTasks, MembersTell DEF TaskCount
  <2>2. On(k, p, NULL) = { t \in Task : k.state[t] = "READY" /\ k.prio[t] = p }
    BY IdleApart DEF On
  <2> QED
    BY <2>1, <2>2
<1>4. BitmapExact
  <2>1. \A p \in Prio : On(k, p, NULL) = {} <=> k.head[p] = NULL
    BY <1>1, ListsNameTasks, ChainEnds
  <2> QED
    BY <1>1, <2>1 DEF LinksAgree, BitmapExact
<1> QED
  BY <1>2, <1>3, <1>4 DEF ListsAgree, ReadyListedOnce

\* The ready and wait lists, the bitmap and the states of the tasks agree at every point
\* where anybody can look: every list is a chain of as many tasks as its count, each
\* READY task is on the list of its priority and no other is, and the bitmap names the
\* lists that are not empty.
THEOREM ListsHold == ASSUME SoundBuilds PROVE TasksSpec => []ListsAgree
  BY ListsInvariant, AgreeingListsAgree, PTL
=============================================================================
