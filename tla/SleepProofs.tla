------------------------------ MODULE SleepProofs ------------------------------
(***************************************************************************)
(* Proof that a delayed task of module Tasks becomes READY by the tick it  *)
(* asked for and at no other, for any tasks, calls and wrap of the tick    *)
(* counter, as long as delays stay below half its range.                   *)
(*                                                                         *)
(* The tick handler wakes whoever's tick is not in the future, so that it  *)
(* wakes at the right tick only if nobody's tick is in the past when it    *)
(* starts.  That is Early, which a handler breaks by advancing the tick    *)
(* and restores by scanning the table to its end; Ahead says what holds    *)
(* meanwhile.  The scan may not miss a task, and no other handler runs     *)
(* before it ends: both need the lists to be sound (ReadyProofs).          *)
(***************************************************************************)
EXTENDS ReadyProofs

\* Delays of at most half the range of the tick counter: a longer one counts as past.
ShortDelays == TickMod > 1 /\ \A ticks \in Delays : ticks <= TickMod - TickMod \div 2

\* The ticks a sleeping task still has to wait, if the tick handler scans it at all.
InTable(s, t) == \E j \in 1 .. Len(s.table) : s.table[j] = t
Sleeper(s, t) == s.state[t] = "SLEEPING" /\ InTable(s, t)
TicksLeft(s, t) == (s.wake[t] - s.tick) % TickMod

\* Nobody sleeps whose tick has come, ...
Early(s) == \A t \in Task : Sleeper(s, t) => TicksLeft(s, t) \in 1 .. TickMod - TickMod \div 2

\* ... except, during the scan, those it has yet to come to.
Unscanned(s, t) == s.at = "tick" /\ \A j \in 1 .. Len(s.table) : s.table[j] = t => j >= s.i

Ahead(s) ==
  \A t \in Task : Sleeper(s, t) => /\ TicksLeft(s, t) \in 0 .. TickMod - TickMod \div 2
                                   /\ TicksLeft(s, t) = 0 => Unscanned(s, t)

\* The tick and the table stay, and nobody is created.
SameEntries(r, s) ==
  /\ r.tick = s.tick /\ r.table = s.table
  /\ \A t \in Task : r.state[t] = "INIT" <=> s.state[t] = "INIT"

\* ... and no task falls asleep or ends its sleep.
Still(r, s) ==
  /\ SameEntries(r, s) /\ r.wake = s.wake
  /\ \A t \in Task : r.state[t] = "SLEEPING" <=> s.state[t] = "SLEEPING"

\* Task t is created, and entered if there is room for it.
Enters(r, s, t) ==
  /\ r.tick = s.tick
  /\ r.table = IF Len(s.table) < TaskMax THEN Append(s.table, t) ELSE s.table
  /\ s.state[t] \in {"INIT", "TERMINATED"} /\ r.state[t] = "READY"
  /\ \A u \in Task \ {t} : r.state[u] = "INIT" <=> s.state[u] = "INIT"

LEMMA EarlyIsAhead == ASSUME NEW s, Early(s) PROVE Ahead(s)
  BY DEF Early, Ahead

LEMMA AheadIsEarly ==
  ASSUME NEW s, Ahead(s), s.at # "tick" \/ s.i > Len(s.table), Len(s.table) \in Nat, s.i \in Nat
  PROVE  Early(s)
<1> SUFFICES ASSUME NEW t \in Task, Sleeper(s, t), TicksLeft(s, t) = 0 PROVE FALSE
  BY SchedAssumption DEF Early, Ahead
<1>1. Unscanned(s, t)
  BY DEF Ahead
<1>2. PICK j \in 1 .. Len(s.table) : s.table[j] = t
  BY DEF Sleeper, InTable
<1> QED
  BY <1>1, <1>2 DEF Unscanned

LEMMA EarlyStays ==
  ASSUME NEW s, NEW r, Early(s), r.tick = s.tick,
         \A t \in Task : Sleeper(r, t) => Sleeper(s, t) /\ r.wake[t] = s.wake[t]
  PROVE  Early(r)
  BY DEF Early, TicksLeft

LEMMA StillEarly ==
  ASSUME NEW s, NEW r, Early(s), Still(r, s)
  PROVE  Early(r)
  BY EarlyStays DEF SameEntries, Still, Sleeper, InTable

LEMMA StillTwice ==
  ASSUME NEW s, NEW r, NEW q, Still(r, s), Still(q, r)
  PROVE  Still(q, s)
  BY DEF SameEntries, Still

-----------------------------------------------------------------------------
(* The functions of the kernel.                                            *)

LEMMA ReadyAddStill ==
  ASSUME NEW s \in KernelType, NEW t \in Tcb, s.state[t] \notin {"SLEEPING", "INIT"}, NEW r, r = ReadyAdd(s, t)
  PROVE  Still(r, s)
<1>1. SameData(r, s) /\ r.state = [s.state EXCEPT ![t] = "READY"]
  BY ReadyAddFields
<1>2. s.state \in [Tcb -> States]
  BY DEF KernelType
<1>3. \A u \in Task : /\ r.state[u] = "SLEEPING" <=> s.state[u] = "SLEEPING"
                      /\ r.state[u] = "INIT" <=> s.state[u] = "INIT"
  BY <1>1, <1>2, IdleApart
<1> QED
  BY <1>1, <1>3 DEF SameEntries, Still, SameData

LEMMA RestStill ==
  ASSUME NEW s, NEW r, SameRest(r, s)
  PROVE  Still(r, s)
  BY DEF SameEntries, Still, SameRest, SameData

LEMMA GuardFailStill ==
  ASSUME NEW s \in KernelType, NEW t \in Tcb, s.state[t] \notin {"SLEEPING", "INIT"}
  PROVE  Still(GuardFail(s, t), s)
<1> DEFINE a == [s EXCEPT !.state[t] = "TERMINATED"]
           c == [a EXCEPT !.next[t] = NULL, !.prev[t] = NULL]
<1>1. GuardFail(s, t) = c
  BY DEF GuardFail, KernelType
<1>2. "TERMINATED" \in States
  BY DEF States
<1>3. a \in KernelType /\ SameData(a, s) /\ a.state = [s.state EXCEPT ![t] = "TERMINATED"]
  BY <1>2, PutState
<1> HIDE DEF a
<1>4. c.state = a.state /\ c.tick = a.tick /\ c.wake = a.wake /\ c.table = a.table
  BY <1>3 DEF KernelType
<1> HIDE DEF c
<1>5. s.state \in [Tcb -> States]
  BY DEF KernelType
<1>6. \A u \in Task : /\ c.state[u] = "SLEEPING" <=> s.state[u] = "SLEEPING"
                      /\ c.state[u] = "INIT" <=> s.state[u] = "INIT"
  BY <1>3, <1>4, <1>5, IdleApart
<1> QED
  BY <1>1, <1>3, <1>4, <1>6 DEF SameEntries, Still, SameData

LEMMA CallSchedStill ==
  ASSUME NEW s, Safe(s), s.at = "task"
  PROVE  Still(CallSched(s), s)
<1> DEFINE late == [s EXCEPT !.pend = TRUE]
           entered == [s EXCEPT !.pend = FALSE, !.at = "sched"]
<1>1. s \in KernelType /\ s.cur \in Tcb
  BY DEF Safe
<1>2. Still(late, s) /\ Still(s, s)
  BY <1>1 DEF KernelType, SameEntries, Still
<1>3. Still(entered, s) /\ entered \in KernelType /\ entered.state = s.state
  BY <1>1 DEF KernelType, SameEntries, Still, Sections
<1>4. CallSched(s) \in {s, late, entered}
      \/ (s.state[s.cur] = "RUNNING" /\ CallSched(s) = GuardFail(entered, s.cur))
  BY DEF CallSched
<1> HIDE DEF late, entered
<1>5. ASSUME s.state[s.cur] = "RUNNING" PROVE Still(GuardFail(entered, s.cur), s)
  <2>1. Still(GuardFail(entered, s.cur), entered)
    BY <1>1, <1>3, <1>5, GuardFailStill
  <2> QED
    BY <1>3, <2>1, StillTwice
<1> QED
  BY <1>2, <1>3, <1>4, <1>5

LEMMA GiveStill ==
  ASSUME NEW s \in KernelType, NEW t \in Tcb, t \in Task => s.state[t] \notin {"SLEEPING", "INIT"}
  PROVE  Still(Give(s, t), s)
<1> DEFINE o == [s EXCEPT !.cur = t]
           v == [o EXCEPT !.state[t] = "RUNNING"]
<1>1. /\ o \in KernelType /\ o.state = s.state /\ o.tick = s.tick /\ o.wake = s.wake
      /\ o.table = s.table
  BY DEF KernelType, Link
<1>2. Give(s, t) = v
  BY DEF Give, KernelType
<1> HIDE DEF o
<1>3. "RUNNING" \in States
  BY DEF States
<1>4. v \in KernelType /\ SameData(v, o) /\ v.state = [o.state EXCEPT ![t] = "RUNNING"]
  BY <1>1, <1>3, PutState
<1> HIDE DEF v
<1>5. s.state \in [Tcb -> States]
  BY DEF KernelType
<1>6. \A u \in Task : /\ v.state[u] = "SLEEPING" <=> s.state[u] = "SLEEPING"
                      /\ v.state[u] = "INIT" <=> s.state[u] = "INIT"
  BY <1>1, <1>4, <1>5, IdleApart
<1> QED
  BY <1>1, <1>2, <1>4, <1>6 DEF SameEntries, Still, SameData

LEMMA SwitchToStill ==
  ASSUME NEW s, Safe(s), Fit(s), s.cur \in Tcb, NEW t, t = Highest(s), NEW w, w = SwitchTo(s, t)
  PROVE  Still(w, s)
<1> DEFINE c == s.cur
           r == IF t = Idle THEN s ELSE ReadyRemove(s, t)
           back == [r EXCEPT !.state[Idle] = "READY"]
           q == IF r.state[c] # "RUNNING" THEN r
                ELSE IF c = Idle THEN back ELSE ReadyAdd(r, c)
<1>1. /\ t \in Tcb /\ (t # Idle => t \in Task /\ s.state[t] = "READY")
      /\ r \in KernelType /\ SameRest(r, s) /\ c \in Tcb
  BY TakeHighest
<1>2. w = Give(q, t)
  BY DEF SwitchTo, Give
<1>3. Still(r, s)
  BY <1>1, RestStill
<1> HIDE DEF r, c
<1>4. q \in KernelType /\ Still(q, r)
  <2>1. CASE r.state[c] # "RUNNING"
    BY <1>1, <2>1 DEF SameEntries, Still
  <2>2. CASE r.state[c] = "RUNNING" /\ c = Idle
    <3>1. "READY" \in States /\ q = back
      BY <2>2 DEF States
    <3>2. back \in KernelType /\ SameData(back, r) /\ back.state = [r.state EXCEPT ![Idle] = "READY"]
      BY <1>1, <3>1, IdleApart, PutState
    <3> HIDE DEF back
    <3>3. r.state \in [Tcb -> States]
      BY <1>1 DEF KernelType
    <3>4. \A u \in Task : /\ back.state[u] = "SLEEPING" <=> r.state[u] = "SLEEPING"
                          /\ back.state[u] = "INIT" <=> r.state[u] = "INIT"
      BY <3>2, <3>3, IdleApart
    <3>5. Still(back, r)
      BY <3>2, <3>4 DEF SameEntries, Still, SameData
    <3> HIDE DEF q
    <3> QED
      BY <3>1, <3>2, <3>5
  <2>3. CASE r.state[c] = "RUNNING" /\ c # Idle
    <3>1. q = ReadyAdd(r, c)
      BY <2>3
    <3> HIDE DEF q
    <3>2. q \in KernelType
      BY <1>1, <3>1, ReadyAddKeeps
    <3>3. Still(q, r)
      BY <1>1, <2>3, <3>1, ReadyAddStill
    <3> QED
      BY <3>2, <3>3
  <2> QED
    BY <2>1, <2>2, <2>3
<1> HIDE DEF q
<1>5. t \in Task => q.state[t] \notin {"SLEEPING", "INIT"}
  BY <1>1, <1>3, <1>4, IdleApart DEF SameEntries, Still
<1>6. Still(w, q)
  BY <1>1, <1>2, <1>4, <1>5, GiveStill
<1> QED
  BY <1>3, <1>4, <1>6, StillTwice

LEMMA SliceStill ==
  ASSUME SoundBuilds, NEW s, Safe(s), Fit(s), s.at = "tick", CurRuns(s),
         NEW r, r = SliceTick(s)
  PROVE  Still(r, s)
<1> DEFINE c == s.cur
           less == [s EXCEPT !.slice[c] = s.slice[c] - 1]
           full == [s EXCEPT !.slice[c] = SliceTicks]
<1>1. s \in KernelType /\ c \in Tcb /\ Still(s, s) /\ SliceTicks \in 0 .. SliceTicks
  BY SchedAssumption DEF Safe, Fit, SameEntries, Still
<1>2. s.build.slices => s.state[c] = "RUNNING"
  BY DEF SoundBuilds, Fit, Stands, Habits, CurRuns
<1>3. Still(less, s)
  BY <1>1 DEF KernelType, SameEntries, Still
<1>4. Still(full, s) /\ full \in KernelType /\ full.state = s.state
  BY <1>1 DEF KernelType, SameEntries, Still
<1>5. \/ r \in {s, less, full}
      \/ s.build.slices /\ r = ReadyAdd(full, c)
  BY DEF SliceTick
<1> HIDE DEF c, less, full
<1>6. ASSUME s.build.slices, r = ReadyAdd(full, c) PROVE Still(r, s)
  <2>1. Still(r, full)
    BY <1>1, <1>2, <1>4, <1>6, ReadyAddStill
  <2> QED
    BY <1>4, <2>1, StillTwice
<1> QED
  BY <1>1, <1>3, <1>4, <1>5, <1>6

\* os_task_create writes neither ticks nor entries of other tasks.
LEMMA CreatedTable ==
  ASSUME NEW s \in KernelType, NEW t \in Tcb, NEW p \in Prio, NEW r, r = Created(s, t, p)
  PROVE  /\ r.tick = s.tick /\ r.wake = s.wake
         /\ r.table = IF Len(s.table) < TaskMax THEN Append(s.table, t) ELSE s.table
<1> DEFINE a == [s EXCEPT !.next[t] = NULL, !.prev[t] = NULL, !.prio[t] = p]
           b == [a EXCEPT !.base[t] = p, !.slice[t] = SliceTicks, !.wait[t] = NULL]
           entries == IF Len(s.table) < TaskMax THEN Append(s.table, t) ELSE s.table
           o == [b EXCEPT !.deadline[t] = 0, !.guard[t] = TRUE, !.table = entries]
<1>1. SliceTicks \in 0 .. SliceTicks /\ 0 \in Tick /\ entries \in Seq(Tcb)
  BY SchedAssumption DEF Tick, KernelType
<1>2. r = ReadyAdd(o, t)
  BY DEF Created, KernelType
<1>3. entries = IF Len(s.table) < TaskMax THEN Append(s.table, t) ELSE s.table
  OBVIOUS
<1> HIDE DEF entries
<1>4. a \in KernelType /\ a.tick = s.tick /\ a.wake = s.wake
  BY DEF KernelType, Link
<1> HIDE DEF a
<1>5. b \in KernelType /\ b.tick = a.tick /\ b.wake = a.wake
  BY <1>1, <1>4 DEF KernelType
<1> HIDE DEF b
<1>6. o \in KernelType /\ o.tick = b.tick /\ o.wake = b.wake /\ o.table = entries
  BY <1>1, <1>5 DEF KernelType
<1> HIDE DEF o
<1>7. SameData(r, o)
  BY <1>2, <1>6, ReadyAddFields
<1> QED
  BY <1>3, <1>4, <1>5, <1>6, <1>7 DEF SameData

\* A waking task's tick is now, nobody is woken in any other way, and in calm
\* applications only the tick handler advances the tick and only a new task is entered.
Timely ==
  /\ Ahead(k')
  /\ \A t \in Task : k.state[t] = "SLEEPING" /\ k'.state[t] = "READY" => k.tick = k.wake[t]
  /\ Calm(k.build) => SameEntries(k', k) \/ TickStart \/ \E t \in Task : Enters(k', k, t)

LEMMA StillTimely ==
  ASSUME Early(k), Still(k', k)
  PROVE  Timely
<1>1. Ahead(k')
  BY StillEarly, EarlyIsAhead
<1> QED
  BY <1>1 DEF Timely, SameEntries, Still

\* os_sched makes no task READY, and it is only the current one that it may end.
LEMMA CallSchedListsNone ==
  ASSUME NEW s, Safe(s), s.at = "task"
  PROVE  \A t \in Task : /\ CallSched(s).state[t] = "READY" => s.state[t] = "READY"
                         /\ t # s.cur => CallSched(s).state[t] = s.state[t]
<1> DEFINE late == [s EXCEPT !.pend = TRUE]
           entered == [s EXCEPT !.pend = FALSE, !.at = "sched"]
           a == [entered EXCEPT !.state[s.cur] = "TERMINATED"]
           g == [a EXCEPT !.next[s.cur] = NULL, !.prev[s.cur] = NULL]
<1>1. s \in KernelType /\ s.cur \in Tcb
  BY DEF Safe
<1>2. late.state = s.state
  BY <1>1 DEF KernelType
<1>3. entered \in KernelType /\ entered.state = s.state
  BY <1>1 DEF KernelType, Sections
<1>4. CallSched(s) \in {s, late, entered, GuardFail(entered, s.cur)}
  BY DEF CallSched
<1> HIDE DEF late, entered
<1>5. GuardFail(entered, s.cur) = g
  BY <1>1, <1>3 DEF GuardFail, KernelType
<1>6. "TERMINATED" \in States
  BY DEF States
<1>7. a \in KernelType /\ SameData(a, entered) /\ a.state = [entered.state EXCEPT ![s.cur] = "TERMINATED"]
  BY <1>1, <1>3, <1>6, PutState
<1> HIDE DEF a
<1>8. g.state = a.state
  BY <1>7 DEF KernelType
<1> HIDE DEF g
<1>9. entered.state \in [Tcb -> States]
  BY <1>3 DEF KernelType
<1>10. \A t \in Task : /\ g.state[t] = "READY" => s.state[t] = "READY"
                       /\ t # s.cur => g.state[t] = s.state[t]
  BY <1>1, <1>3, <1>7, <1>8, <1>9, IdleApart
<1>11. CallSched(s).state \in {s.state, g.state}
  BY <1>2, <1>3, <1>4, <1>5
<1>12. CASE CallSched(s).state = s.state
  BY <1>12
<1>13. CASE CallSched(s).state = g.state
  BY <1>10, <1>13
<1> QED
  BY <1>11, <1>12, <1>13

\* The end of a call whose critical section has made s.
LEMMA ThenSchedTimely ==
  ASSUME NEW c \in Task, NEW s, Safe(s), Early(s), s.at = "task",
         Calm(k.build) => SameEntries(s, k),
         \A t \in Task : k.state[t] = "SLEEPING" => s.state[t] # "READY",
         ThenSched(c, s)
  PROVE  Timely
<1>1. k' = s \/ k' = CallSched(s)
  BY DEF ThenSched
<1>2. CASE k' = s
  BY <1>2, EarlyIsAhead DEF Timely
<1>3. CASE k' = CallSched(s)
  <2>1. Still(k', s) /\ (Calm(k.build) => SameEntries(k', k))
    BY <1>3, CallSchedStill DEF Still, SameEntries
  <2>2. Ahead(k')
    BY <2>1, StillEarly, EarlyIsAhead
  <2>3. \A t \in Task : k'.state[t] = "READY" => s.state[t] = "READY"
    BY <1>3, CallSchedListsNone
  <2> QED
    BY <2>1, <2>2, <2>3 DEF Timely
<1> QED
  BY <1>1, <1>2, <1>3

\* ... when no task fell asleep or ended its sleep in it.
LEMMA ThenSchedStill ==
  ASSUME NEW c \in Task, NEW s, Safe(s), Early(k), Still(s, k), s.at = "task", ThenSched(c, s)
  PROVE  Timely
<1>1. Early(s)
  BY StillEarly
<1>2. SameEntries(s, k) /\ \A t \in Task : k.state[t] = "SLEEPING" => s.state[t] # "READY"
  BY DEF Still
<1> QED
  BY <1>1, <1>2, ThenSchedTimely

-----------------------------------------------------------------------------
(* The steps of the kernel.                                                *)

\* Outside the scan every sleeper's tick is still to come.
LEMMA AwakeIsEarly ==
  ASSUME Safe(k), Ahead(k), k.at # "tick" \/ k.i > Len(k.table)
  PROVE  Early(k)
<1>1. k \in KernelType
  BY DEF Safe
<1>2. Len(k.table) \in Nat /\ k.i \in Nat
  BY <1>1 DEF KernelType
<1> QED
  BY <1>2, AheadIsEarly

\* os_task_create
LEMMA CreatedEarly ==
  ASSUME SoundBuilds, NEW s, Fit(s), Early(s), NEW t \in Task,
         s.state[t] \in {"INIT", "TERMINATED"}, NEW p \in CreatePrio[t],
         NEW r, r = Created(s, t, p)
  PROVE  /\ Early(r) /\ r.at = s.at /\ r.cur = s.cur /\ Enters(r, s, t)
         /\ \A u \in Task : s.state[u] = "SLEEPING" => r.state[u] # "READY"
<1>1. s \in KernelType /\ t \in Tcb /\ p \in Prio /\ s.state \in [Tcb -> States]
  BY IdleApart, SchedAssumption DEF Fit, KernelType
<1>2. /\ Fit(r) /\ r.at = s.at /\ r.cur = s.cur /\ r.build = s.build
      /\ r.state = [s.state EXCEPT ![t] = "READY"]
  BY CreatedFit
<1>3. /\ r.tick = s.tick /\ r.wake = s.wake
      /\ r.table = IF Len(s.table) < TaskMax THEN Append(s.table, t) ELSE s.table
  BY <1>1, CreatedTable
<1>4. ASSUME NEW u \in Task, Sleeper(r, u) PROVE Sleeper(s, u)
  <2>1. u # t /\ s.state[u] = "SLEEPING"
    BY <1>1, <1>2, <1>4, IdleApart DEF Sleeper
  <2>2. PICK j \in 1 .. Len(r.table) : r.table[j] = u
    BY <1>4 DEF Sleeper, InTable
  <2>3. s.table \in Seq(Tcb)
    BY <1>1 DEF KernelType
  <2>4. j \in 1 .. Len(s.table) /\ s.table[j] = u
    BY <1>1, <1>3, <2>1, <2>2, <2>3
  <2> QED
    BY <2>1, <2>4 DEF Sleeper, InTable
<1>5. Early(r)
  BY <1>3, <1>4, EarlyStays
<1>6. \A u \in Task : r.state[u] = IF u = t THEN "READY" ELSE s.state[u]
  BY <1>1, <1>2, IdleApart
<1> QED
  BY <1>2, <1>3, <1>5, <1>6 DEF Enters

LEMMA KernelStartTimely ==
  ASSUME Safe(k), Sound(k), Ahead(k), KernelStart
  PROVE  Timely
<1>1. Early(k) /\ k \in KernelType
  BY AwakeIsEarly DEF KernelStart, Sound, Fit
<1>2. Still(k', k)
  BY <1>1 DEF KernelStart, KernelType, SameEntries, Still
<1> QED
  BY <1>1, <1>2, StillTimely

LEMMA StartFirstTimely ==
  ASSUME Safe(k), Sound(k), Ahead(k), StartFirst
  PROVE  Timely
<1> DEFINE t == Highest(k)
           s == IF t = Idle THEN k ELSE ReadyRemove(k, t)
           o == Give(s, t)
           r == [o EXCEPT !.running = TRUE, !.at = "task"]
<1>1. /\ Fit(k) /\ t = Highest(k) /\ Early(k)
      /\ s = (IF t = Idle THEN k ELSE ReadyRemove(k, t)) /\ o = Give(s, t)
  BY AwakeIsEarly DEF Sound, StartFirst
<1>2. k' = [s EXCEPT !.state[t] = "RUNNING", !.cur = t, !.running = TRUE, !.at = "task"]
  BY DEF StartFirst
<1> HIDE DEF t, s
<1>3. /\ t \in Tcb /\ (t # Idle => t \in Task /\ k.state[t] = "READY")
      /\ s \in KernelType /\ SameRest(s, k)
  BY <1>1, TakeHighest
<1>4. k' = r
  BY <1>2, <1>3 DEF Give, KernelType
<1> HIDE DEF o
<1>5. s.state = k.state
  BY <1>3 DEF SameRest, SameData
<1>6. Still(s, k) /\ Still(o, s)
  BY <1>1, <1>3, <1>5, RestStill, GiveStill, IdleApart
<1>7. o \in KernelType
  <2>1. Gives(o, s, t)
    BY <1>1, <1>3, GiveFields
  <2> QED
    BY <2>1 DEF Gives
<1>8. Still(r, o)
  BY <1>7 DEF KernelType, SameEntries, Still
<1> HIDE DEF r
<1>9. Still(r, k)
  BY <1>6, <1>8, StillTwice
<1> QED
  BY <1>1, <1>4, <1>9, StillTimely

LEMMA SkipTimely ==
  ASSUME Safe(k), Sound(k), Ahead(k), SkipOverflowed
  PROVE  Timely
<1> DEFINE t == Highest(k)
           s == ReadyRemove(k, t)
<1>1. /\ Fit(k) /\ Early(k) /\ t = Highest(k) /\ t # Idle
      /\ s = (IF t = Idle THEN k ELSE ReadyRemove(k, t)) /\ k' = GuardFail(s, t)
  BY AwakeIsEarly DEF Sound, SkipOverflowed
<1> HIDE DEF t, s
<1>2. t \in Tcb /\ k.state[t] = "READY" /\ s \in KernelType /\ SameRest(s, k)
  BY <1>1, TakeHighest
<1>3. Still(s, k) /\ s.state[t] \notin {"SLEEPING", "INIT"}
  BY <1>2, RestStill DEF SameRest, SameData
<1>4. Still(k', s)
  BY <1>1, <1>2, <1>3, GuardFailStill
<1>5. Still(k', k)
  BY <1>3, <1>4, StillTwice
<1> QED
  BY <1>1, <1>5, StillTimely

LEMMA SwitchTimely ==
  ASSUME Safe(k), Sound(k), Ahead(k), Switch
  PROVE  Timely
<1> DEFINE t == Highest(k)
           s == IF t = k.cur THEN k ELSE SwitchTo(k, t)
           r == [s EXCEPT !.at = "task"]
<1>1. /\ Safe(k) /\ Fit(k) /\ Early(k) /\ k \in KernelType /\ k.cur \in Tcb
      /\ t = Highest(k) /\ k' = r /\ s = IF t = k.cur THEN k ELSE SwitchTo(k, t)
  BY AwakeIsEarly DEF Sound, Fit, Safe, Switch
<1> HIDE DEF t, s
<1>2. s \in KernelType /\ Still(s, k)
  <2>1. CASE t = k.cur
    BY <1>1, <2>1 DEF SameEntries, Still
  <2>2. CASE t # k.cur
    <3>1. s = SwitchTo(k, t)
      BY <1>1, <2>2
    <3>2. Fit(s)
      BY <1>1, <2>2, <3>1, SwitchToFit
    <3>3. Still(s, k)
      BY <1>1, <3>1, SwitchToStill
    <3> QED
      BY <3>2, <3>3 DEF Fit
  <2> QED
    BY <2>1, <2>2
<1>3. Still(r, s)
  BY <1>2 DEF KernelType, SameEntries, Still
<1> HIDE DEF r
<1>4. Still(r, k)
  BY <1>2, <1>3, StillTwice
<1> QED
  BY <1>1, <1>4, StillTimely

\* os_sched called from a task that is current.
LEMMA EnterTimely ==
  ASSUME Safe(k), Ahead(k), k.at = "task", k' = CallSched(k)
  PROVE  Timely
<1>1. Safe(k) /\ Early(k)
  BY AwakeIsEarly
<1>2. Still(k', k)
  BY <1>1, CallSchedStill
<1> QED
  BY <1>1, <1>2, StillTimely

\* From one value of the tick counter to another.
LEMMA TicksApart ==
  ASSUME NEW a \in Tick, NEW b \in Tick
  PROVE  (a - b) % TickMod = IF a >= b THEN a - b ELSE a - b + TickMod
BY SchedAssumption DEF Tick

\* A tick brings every sleeper one tick nearer to the one it asked for.
LEMMA TickPasses ==
  ASSUME TickMod > 1, NEW wake \in Tick, NEW now \in Tick,
         (wake - now) % TickMod \in 1 .. TickMod - TickMod \div 2,
         NEW next, next = (now + 1) % TickMod
  PROVE  (wake - next) % TickMod \in 0 .. TickMod - TickMod \div 2
<1>1. TickMod \in Nat /\ wake \in 0 .. TickMod - 1 /\ now \in 0 .. TickMod - 1
  BY SchedAssumption DEF Tick
<1>2. next = IF now + 1 = TickMod THEN 0 ELSE now + 1
  BY <1>1
<1>3. (wake - now) % TickMod = IF wake >= now THEN wake - now ELSE wake - now + TickMod
  BY TicksApart
<1>4. next \in 0 .. TickMod - 1
  BY <1>1, <1>2
<1>5. TickMod \div 2 \in 0 .. TickMod
  BY <1>1
<1>6. (wake - next) % TickMod = IF wake >= next THEN wake - next ELSE wake - next + TickMod
  BY <1>4, TicksApart DEF Tick
<1>7. (wake - next) % TickMod = ((wake - now) % TickMod) - 1
  BY <1>1, <1>2, <1>3, <1>6, TickMod > 1
<1> QED
  BY <1>1, <1>5, <1>7

LEMMA TickStartTimely ==
  ASSUME TickMod > 1, Safe(k), Ahead(k), TickStart
  PROVE  Timely
<1> DEFINE now == (k.tick + 1) % TickMod
           r == [k EXCEPT !.tick = now, !.at = "tick", !.i = 1]
<1>1. k \in KernelType /\ Early(k) /\ k' = r /\ k.tick \in Tick
  BY AwakeIsEarly DEF Safe, TickStart, KernelType
<1>2. now = (k.tick + 1) % TickMod
  OBVIOUS
<1> HIDE DEF now
<1>3. /\ r.state = k.state /\ r.wake = k.wake /\ r.table = k.table /\ r.tick = now
      /\ r.at = "tick" /\ r.i = 1
  BY <1>1 DEF KernelType
<1> HIDE DEF r
<1>4. ASSUME NEW t \in Task, Sleeper(r, t)
      PROVE  TicksLeft(r, t) \in 0 .. TickMod - TickMod \div 2
  <2>1. Sleeper(k, t)
    BY <1>3, <1>4 DEF Sleeper, InTable
  <2>2. k.wake[t] \in Tick
    BY <1>1, IdleApart DEF KernelType
  <2>3. (k.wake[t] - k.tick) % TickMod \in 1 .. TickMod - TickMod \div 2
    BY <1>1, <2>1 DEF Early, TicksLeft
  <2>4. (k.wake[t] - now) % TickMod \in 0 .. TickMod - TickMod \div 2
    BY <1>1, <1>2, <2>2, <2>3, TickPasses
  <2>5. TicksLeft(r, t) = (k.wake[t] - now) % TickMod
    BY <1>3 DEF TicksLeft
  <2> QED
    BY <2>4, <2>5
<1>5. \A t \in Task : Unscanned(r, t)
  BY <1>3 DEF Unscanned
<1> QED
  BY <1>1, <1>3, <1>4, <1>5 DEF Timely, Ahead

\* What the handler compares: of the ticks a sleeper may ask for, it takes the one that
\* is now and no later one for past.
LEMMA ReachedIsNow ==
  ASSUME TickMod > 1, NEW wake \in Tick, NEW now \in Tick,
         (wake - now) % TickMod \in 0 .. TickMod - TickMod \div 2
  PROVE  /\ Reached(now, wake) => now = wake
         /\ (wake - now) % TickMod = 0 => Reached(now, wake)
<1>1. TickMod \in Nat /\ wake \in 0 .. TickMod - 1 /\ now \in 0 .. TickMod - 1
  BY SchedAssumption DEF Tick
<1>2. (now - wake) % TickMod = IF now >= wake THEN now - wake ELSE now - wake + TickMod
  BY TicksApart
<1>3. (wake - now) % TickMod = IF wake >= now THEN wake - now ELSE wake - now + TickMod
  BY TicksApart
<1>4. TickMod \div 2 \in 1 .. TickMod
  BY <1>1, TickMod > 1
<1> QED
  BY <1>1, <1>2, <1>3, <1>4 DEF Reached

\* One turn of the scan changes the state of the task it is at, and no tick.
LEMMA ScanFields ==
  ASSUME NEW s, Fit(s), NEW t \in Tcb, NEW r, r = ScanTask(s, t)
  PROVE  /\ r \in KernelType /\ r.tick = s.tick /\ r.wake = s.wake /\ r.table = s.table
         /\ r.at = s.at /\ r.i = s.i
         /\ \A u \in Tcb : u # t => r.state[u] = s.state[u]
         /\ s.state[t] = "SLEEPING" => r.state[t] = IF Reached(s.tick, s.wake[t]) THEN "READY" ELSE "SLEEPING"
         /\ s.state[t] # "SLEEPING" => r.state[t] # "SLEEPING"
         /\ r.state[t] = "INIT" <=> s.state[t] = "INIT"
<1>1. s \in KernelType /\ LinksAgree(s, NULL) /\ Stands(s) /\ s.state \in [Tcb -> States]
  BY DEF Fit, KernelType
<1>2. CASE s.state[t] = "SLEEPING" /\ Reached(s.tick, s.wake[t])
  <2>1. r = ReadyAdd(s, t)
    BY <1>2 DEF ScanTask
  <2>2. r \in KernelType /\ SameData(r, s) /\ r.state = [s.state EXCEPT ![t] = "READY"]
    BY <1>1, <2>1, ReadyAddFields, ReadyAddKeeps
  <2> QED
    BY <1>1, <1>2, <2>2 DEF SameData
<1>3. CASE s.state[t] = "BLOCKED" /\ r = TimeoutWake(s, t)
  <2> DEFINE q == IF s.wait[t] = NULL THEN s ELSE ListRemove(s, s.wait[t], t)
             o == [q EXCEPT !.result[t] = "ETIMEOUT", !.wait[t] = NULL, !.deadline[t] = 0]
  <2>1. r = Wake(q, t, "ETIMEOUT") /\ t \in Task /\ "ETIMEOUT" \in Results /\ 0 \in Tick
    BY <1>1, <1>3, SchedAssumption DEF TimeoutWake, Stands, Tcb, Results, Tick
  <2>2. q \in KernelType /\ SameRest(q, s)
    <3>1. CASE s.wait[t] = NULL
      BY <1>1, <3>1 DEF SameRest, SameData
    <3>2. CASE s.wait[t] # NULL
      BY <1>1, <1>3, <2>1, <3>2, WaitRemoveAgrees
    <3> QED
      BY <3>1, <3>2
  <2> HIDE DEF q
  <2>3. r = ReadyAdd(o, t)
    BY <2>1 DEF Wake
  <2>4. /\ o \in KernelType /\ o.tick = q.tick /\ o.wake = q.wake /\ o.table = q.table
        /\ o.state = q.state /\ o.at = q.at /\ o.i = q.i
    BY <2>1, <2>2 DEF KernelType
  <2> HIDE DEF o
  <2>5. SameData(r, o) /\ r.state = [o.state EXCEPT ![t] = "READY"]
    BY <2>3, <2>4, ReadyAddFields
  <2>6. r \in KernelType
    BY <2>3, <2>4, ReadyAddKeeps
  <2>7. q.state = s.state /\ q.tick = s.tick /\ q.wake = s.wake /\ q.table = s.table
        /\ q.at = s.at /\ q.i = s.i
    BY <2>2 DEF SameRest, SameData
  <2>8. r.state = [s.state EXCEPT ![t] = "READY"]
    BY <2>4, <2>5, <2>7
  <2> QED
    BY <1>1, <1>3, <2>4, <2>5, <2>7, <2>8, <2>6 DEF SameData
<1>4. CASE r = s /\ ~(s.state[t] = "SLEEPING" /\ Reached(s.tick, s.wake[t]))
  BY <1>1, <1>4
<1> QED
  BY <1>2, <1>3, <1>4 DEF ScanTask

LEMMA TickScanTimely ==
  ASSUME TickMod > 1, Safe(k), Sound(k), Ahead(k), TickScan
  PROVE  Timely
<1> DEFINE t == k.table[k.i]
           s == ScanTask(k, t)
           r == [s EXCEPT !.i = s.i + 1]
<1>1. /\ k \in KernelType /\ Fit(k) /\ k.at = "tick" /\ k' = r /\ k.i \in 1 .. Len(k.table)
      /\ s = ScanTask(k, t) /\ t = k.table[k.i] /\ k.tick \in Tick
  <2>1. Safe(k) /\ Fit(k) /\ k \in KernelType /\ k.at = "tick" /\ k.i <= Len(k.table) /\ k.i >= 1
    BY DEF Sound, Fit, TickScan, Safe
  <2>2. k' = r
    BY DEF TickScan
  <2> HIDE DEF r
  <2> QED
    BY <2>1, <2>2 DEF KernelType
<1>2. t \in Tcb
  BY <1>1 DEF KernelType
<1> HIDE DEF t, s
<1>3. /\ s \in KernelType /\ s.tick = k.tick /\ s.wake = k.wake /\ s.table = k.table
      /\ s.at = k.at /\ s.i = k.i
      /\ \A u \in Tcb : u # t => s.state[u] = k.state[u]
      /\ k.state[t] = "SLEEPING" => s.state[t] = IF Reached(k.tick, k.wake[t]) THEN "READY" ELSE "SLEEPING"
      /\ k.state[t] # "SLEEPING" => s.state[t] # "SLEEPING"
      /\ s.state[t] = "INIT" <=> k.state[t] = "INIT"
  <2>1. Fit(k) /\ s = ScanTask(k, t)
    BY <1>1
  <2> QED
    BY <1>2, <2>1, ScanFields
<1>4. /\ r.tick = k.tick /\ r.wake = k.wake /\ r.table = k.table /\ r.at = "tick" /\ r.i = k.i + 1
      /\ r.state = s.state
  BY <1>1, <1>3 DEF KernelType
<1> HIDE DEF r
<1>5. InTable(k, t)
  BY <1>1 DEF InTable
<1>6. ASSUME NEW u \in Task, k.state[u] = "SLEEPING", r.state[u] = "READY"
      PROVE  k.tick = k.wake[u]
  <2>1. u = t /\ Reached(k.tick, k.wake[u])
    BY <1>3, <1>4, <1>6, IdleApart
  <2>2. Sleeper(k, u) /\ k.wake[u] \in Tick
    BY <1>1, <1>5, <1>6, <2>1, IdleApart DEF Sleeper, KernelType
  <2>3. (k.wake[u] - k.tick) % TickMod \in 0 .. TickMod - TickMod \div 2
    BY <2>2 DEF Ahead, TicksLeft
  <2> QED
    BY <1>1, <2>1, <2>2, <2>3, ReachedIsNow
<1>7. ASSUME NEW u \in Task, Sleeper(r, u)
      PROVE  /\ TicksLeft(r, u) \in 0 .. TickMod - TickMod \div 2
             /\ TicksLeft(r, u) = 0 => Unscanned(r, u)
  <2>1. Sleeper(k, u)
    BY <1>3, <1>4, <1>7, IdleApart DEF Sleeper, InTable
  <2>2. TicksLeft(k, u) \in 0 .. TickMod - TickMod \div 2 /\ (TicksLeft(k, u) = 0 => Unscanned(k, u))
    BY <2>1 DEF Ahead
  <2>3. TicksLeft(r, u) = TicksLeft(k, u)
    BY <1>4 DEF TicksLeft
  <2>4. ASSUME TicksLeft(k, u) = 0, u = t PROVE FALSE
    <3>1. k.wake[u] \in Tick /\ (k.wake[u] - k.tick) % TickMod = 0
      BY <1>1, <2>4, IdleApart DEF KernelType, TicksLeft
    <3>2. Reached(k.tick, k.wake[u])
      BY <1>1, <2>2, <3>1, ReachedIsNow DEF TicksLeft
    <3>3. r.state[u] = "READY"
      BY <1>3, <1>4, <2>1, <2>4, <3>2 DEF Sleeper
    <3> QED
      BY <1>7, <3>3 DEF Sleeper
  <2>5. ASSUME TicksLeft(k, u) = 0 PROVE Unscanned(r, u)
    <3>1. \A j \in 1 .. Len(k.table) : k.table[j] = u => j >= k.i /\ j # k.i
      BY <1>1, <2>2, <2>4, <2>5 DEF Unscanned
    <3> QED
      BY <1>1, <1>4, <3>1 DEF Unscanned
  <2> QED
    BY <2>2, <2>3, <2>5
<1>8. SameEntries(r, k)
  BY <1>3, <1>4, IdleApart DEF SameEntries
<1> QED
  BY <1>1, <1>6, <1>7, <1>8 DEF Timely, Ahead

LEMMA TickEndTimely ==
  ASSUME SoundBuilds, Safe(k), Sound(k), Ahead(k), TickEnd
  PROVE  Timely
<1> DEFINE s == SliceTick(k)
           back == [s EXCEPT !.i = 0]
           noted == [s EXCEPT !.i = 0, !.pend = s.running \/ s.pend]
           out == [noted EXCEPT !.at = "task"]
<1>1. /\ k \in KernelType /\ Safe(k) /\ Fit(k) /\ CurRuns(k) /\ k.at = "tick" /\ Early(k)
      /\ s = SliceTick(k) /\ k' = IrqExit(SchedFromIrq(back))
  BY AwakeIsEarly DEF Sound, Fit, TickEnd, Safe
<1> HIDE DEF s
<1>2. Safe(s) /\ s.at = "tick" /\ Still(s, k)
  BY <1>1, SliceSafe, SliceStill, SliceFit
<1>3. s \in KernelType /\ (s.running \/ s.pend) \in BOOLEAN
  BY <1>2 DEF Safe, KernelType
<1>4. k' = IrqExit(noted)
  BY <1>1, <1>3 DEF SchedFromIrq, KernelType
<1>5. /\ out \in KernelType /\ out.state = s.state /\ out.cur = s.cur /\ out.at = "task"
      /\ Still(out, s)
  <2>1. /\ noted \in KernelType /\ noted.state = s.state /\ noted.cur = s.cur /\ Still(noted, s)
    BY <1>3 DEF KernelType, SameEntries, Still
  <2> HIDE DEF noted
  <2>2. /\ out \in KernelType /\ out.state = noted.state /\ out.cur = noted.cur /\ out.at = "task"
    BY <2>1 DEF KernelType, Sections
  <2>3. Still(out, noted)
    BY <2>1 DEF KernelType, SameEntries, Still
  <2> QED
    BY <2>1, <2>2, <2>3, StillTwice
<1>6. IrqExit(noted) \in {out, CallSched(out)}
  BY DEF IrqExit
<1> HIDE DEF noted, out
<1>7. Safe(out)
  BY <1>2, <1>5 DEF Safe
<1>8. Still(out, k) /\ Still(CallSched(out), out)
  BY <1>2, <1>5, <1>7, CallSchedStill, StillTwice
<1>9. Still(CallSched(out), k)
  BY <1>8, StillTwice
<1>10. Still(k', k)
  BY <1>4, <1>6, <1>8, <1>9
<1> QED
  BY <1>1, <1>10, StillTimely

LEMMA KernelStepTimely ==
  ASSUME SoundBuilds, ShortDelays, Safe(k), Sound(k), Ahead(k), KernelStep
  PROVE  Timely
<1>1. CASE IdleSched
  BY <1>1, EnterTimely DEF IdleSched, Runs
<1>2. ASSUME NEW t \in Task, NEW p \in CreatePrio[t], MainCreate(t, p) PROVE Timely
  <2> DEFINE s == Created(k, t, p)
  <2>1. /\ Fit(k) /\ Early(k) /\ k.state[t] \in {"INIT", "TERMINATED"} /\ k' = s
        /\ s = Created(k, t, p)
    BY <1>2, AwakeIsEarly DEF Sound, MainCreate, Reusable
  <2> HIDE DEF s
  <2>2. Early(s) /\ Enters(s, k, t) /\ \A u \in Task : k.state[u] = "SLEEPING" => s.state[u] # "READY"
    BY <2>1, CreatedEarly
  <2> QED
    BY <2>1, <2>2, EarlyIsAhead DEF Timely
<1> QED
  BY <1>1, <1>2, KernelStartTimely, StartFirstTimely, SkipTimely, SwitchTimely,
     TickStartTimely, TickScanTimely, TickEndTimely DEF KernelStep, ShortDelays

-----------------------------------------------------------------------------
(* The steps of tasks.                                                     *)

LEMMA TaskCreateTimely ==
  ASSUME SoundBuilds, Safe(k), Sound(k), Ahead(k), NEW c \in Task, NEW t \in Task,
         NEW p \in CreatePrio[t], TaskCreate(c, t, p)
  PROVE  Timely
<1> DEFINE s == Created(k, t, p)
<1>1. /\ Safe(k) /\ Fit(k) /\ Early(k) /\ k.at = "task" /\ k.cur # t /\ t \in Tcb /\ p \in Prio
      /\ k.state[t] \in {"INIT", "TERMINATED"} /\ s = Created(k, t, p)
  <2>1. t \in Tcb /\ p \in Prio
    BY IdleApart, SchedAssumption
  <2> QED
    BY <2>1, AwakeIsEarly DEF Sound, TaskCreate, Reusable, Runs
<1>2. k' = CallSched(s) \/ k' = s
  BY DEF TaskCreate
<1>3. Safe(s)
  BY <1>1, CreatedSafe
<1> HIDE DEF s
<1>4. /\ Early(s) /\ s.at = k.at /\ s.cur = k.cur /\ Enters(s, k, t)
      /\ \A u \in Task : k.state[u] = "SLEEPING" => s.state[u] # "READY"
  BY <1>1, CreatedEarly
<1>5. CASE k' = s
  BY <1>4, <1>5, EarlyIsAhead DEF Timely
<1>6. CASE k' = CallSched(s)
  <2>1. Still(k', s)
    BY <1>1, <1>3, <1>4, <1>6, CallSchedStill
  <2>2. Ahead(k')
    BY <1>4, <2>1, StillEarly, EarlyIsAhead
  <2>3. \A u \in Task : k'.state[u] = "READY" => s.state[u] = "READY"
    BY <1>1, <1>3, <1>4, <1>6, CallSchedListsNone
  <2>4. k'.state[t] = s.state[t]
    BY <1>1, <1>3, <1>4, <1>6, CallSchedListsNone
  <2>5. Enters(k', k, t)
    BY <1>4, <2>1, <2>4 DEF Enters, Still, SameEntries
  <2> QED
    BY <1>4, <2>2, <2>3, <2>5 DEF Timely
<1> QED
  BY <1>2, <1>5, <1>6

\* os_task_delete and os_task_suspend
LEMMA StopTaskTimely ==
  ASSUME Safe(k), Sound(k), Ahead(k), NEW c \in Task, NEW t \in Task, Runs(c), Live(t),
         NEW v \in {"TERMINATED", "SUSPENDED"}, StopTask(c, t, v)
  PROVE  Timely
<1> DEFINE u == IF k.state[t] = "READY" THEN ReadyRemove(k, t) ELSE k
           s == [u EXCEPT !.state[t] = v]
<1>1. /\ Safe(k) /\ k \in KernelType /\ Early(k) /\ k.at = "task" /\ t \in Tcb /\ v \in States
      /\ u = (IF k.state[t] = "READY" THEN ReadyRemove(k, t) ELSE k)
  BY IdleApart, AwakeIsEarly DEF Runs, Safe, States
<1>2. s = Stopped(k, t, v) /\ IF t = c THEN ThenSched(c, s) ELSE k' = s
  BY DEF StopTask, Stopped
<1>3. Safe(s) /\ s.at = "task"
  <2> HIDE DEF s
  <2> QED
    BY <1>1, <1>2, StoppedSafe
<1>4. u \in KernelType /\ u.state = k.state /\ u.tick = k.tick /\ u.wake = k.wake /\ u.table = k.table
  <2>1. CASE k.state[t] = "READY"
    <3>1. u = ReadyRemove(k, t)
      BY <1>1, <2>1
    <3> HIDE DEF u
    <3>2. u \in KernelType /\ SameRest(u, k)
      BY <1>1, <3>1, ReadyRemoveFields
    <3> QED
      BY <3>2 DEF SameRest, SameData
  <2>2. CASE k.state[t] # "READY"
    BY <1>1, <2>2
  <2> QED
    BY <2>1, <2>2
<1> HIDE DEF u
<1>5. s \in KernelType /\ SameData(s, u) /\ s.state = [u.state EXCEPT ![t] = v]
  BY <1>1, <1>4, PutState
<1> HIDE DEF s
<1>6. k.state \in [Tcb -> States]
  BY <1>1 DEF KernelType
<1>7. \A x \in Task : s.state[x] = IF x = t THEN v ELSE k.state[x]
  BY <1>4, <1>5, <1>6, IdleApart
<1>8. s.tick = k.tick /\ s.wake = k.wake /\ s.table = k.table
  BY <1>4, <1>5 DEF SameData
<1>9. Early(s)
  <2>1. \A x \in Task : Sleeper(s, x) => Sleeper(k, x)
    BY <1>7, <1>8 DEF Sleeper, InTable
  <2> QED
    BY <1>1, <1>8, <2>1, EarlyStays
<1>10. \A x \in Task : k.state[x] = "SLEEPING" => s.state[x] # "READY"
  BY <1>7
<1>11. SameEntries(s, k)
  BY <1>7, <1>8 DEF SameEntries, Live
<1>12. CASE t = c
  BY <1>2, <1>3, <1>9, <1>10, <1>11, <1>12, ThenSchedTimely
<1>13. CASE t # c
  BY <1>2, <1>9, <1>10, <1>11, <1>13, EarlyIsAhead DEF Timely
<1> QED
  BY <1>12, <1>13

LEMMA ResumeTimely ==
  ASSUME Safe(k), Sound(k), Ahead(k), NEW c \in Task, NEW t \in Task, TaskResume(c, t)
  PROVE  Timely
<1> DEFINE s == Resumed(k, t)
<1>1. /\ Safe(k) /\ k \in KernelType /\ Early(k) /\ k.at = "task" /\ t \in Tcb /\ ThenSched(c, s)
      /\ s = (IF k.state[t] = "SUSPENDED" THEN ReadyAdd(k, t) ELSE k)
  BY IdleApart, AwakeIsEarly DEF Runs, TaskResume, Safe, Resumed
<1> HIDE DEF s
<1>2. CASE k.state[t] = "SUSPENDED"
  <2>1. Still(s, k)
    BY <1>1, <1>2, ReadyAddStill
  <2>2. Safe(s) /\ s.at = "task"
    BY <1>1, <1>2, ReadyAddSafe, ReadyAddKeeps DEF SameTasks
  <2> QED
    BY <1>1, <2>1, <2>2, ThenSchedStill
<1>3. CASE k.state[t] # "SUSPENDED"
  <2>1. s = k /\ Still(k, k)
    BY <1>1, <1>3 DEF SameEntries, Still
  <2> QED
    BY <1>1, <2>1, ThenSchedStill
<1> QED
  BY <1>2, <1>3

LEMMA SameTimely ==
  ASSUME Safe(k), Ahead(k), UNCHANGED vars
  PROVE  Timely
  BY DEF Timely, SameEntries, vars

LEMMA YieldTimely ==
  ASSUME Safe(k), Sound(k), Ahead(k), NEW c \in Task, TaskYield(c)
  PROVE  Timely
<1>1. /\ Safe(k) /\ k \in KernelType /\ Early(k) /\ k.at = "task" /\ c \in Tcb
  BY IdleApart, AwakeIsEarly DEF Runs, TaskYield, Safe
<1>2. CASE UNCHANGED vars
  BY <1>2, SameTimely
<1>3. CASE k.state[c] = "RUNNING" /\ ThenSched(c, ReadyAdd(k, c))
  <2> DEFINE s == ReadyAdd(k, c)
  <2>1. s = ReadyAdd(k, c)
    OBVIOUS
  <2> HIDE DEF s
  <2>2. Still(s, k)
    BY <1>1, <1>3, <2>1, ReadyAddStill
  <2>3. Safe(s) /\ s.at = "task"
    BY <1>1, <2>1, ReadyAddSafe, ReadyAddKeeps DEF SameTasks
  <2> QED
    BY <1>1, <1>3, <2>1, <2>2, <2>3, ThenSchedStill
<1> QED
  BY <1>2, <1>3 DEF TaskYield

\* What is left of a delay just asked for is the delay.
LEMMA DelayIsLeft ==
  ASSUME ShortDelays, NEW now \in Tick, NEW ticks \in Delays, ticks > 0,
         NEW wake, wake = (now + ticks) % TickMod
  PROVE  wake \in Tick /\ (wake - now) % TickMod \in 1 .. TickMod - TickMod \div 2
<1>1. /\ TickMod \in Nat /\ TickMod > 1 /\ now \in 0 .. TickMod - 1 /\ ticks \in Nat
      /\ ticks <= TickMod - TickMod \div 2
  BY SchedAssumption DEF Tick, ShortDelays
<1>2. TickMod \div 2 \in 1 .. TickMod
  BY <1>1
<1>3. ticks \in 0 .. TickMod - 1
  BY <1>1, <1>2
<1>4. wake = IF now + ticks >= TickMod THEN now + ticks - TickMod ELSE now + ticks
  BY <1>1, <1>3
<1>5. wake \in 0 .. TickMod - 1
  BY <1>1, <1>3, <1>4
<1>6. (wake - now) % TickMod = IF wake >= now THEN wake - now ELSE wake - now + TickMod
  BY <1>1, <1>5
<1>7. (wake - now) % TickMod = ticks
  BY <1>1, <1>3, <1>4, <1>6
<1> QED
  BY <1>1, <1>2, <1>5, <1>7 DEF Tick

LEMMA DelayTimely ==
  ASSUME ShortDelays, Safe(k), Sound(k), Ahead(k), NEW c \in Task, NEW ticks \in Delays,
         TaskDelay(c, ticks)
  PROVE  Timely
<1> DEFINE u == IF k.state[c] = "READY" THEN ReadyRemove(k, c) ELSE k
           due == (k.tick + ticks) % TickMod
           w == [u EXCEPT !.wake[c] = due]
           s == [w EXCEPT !.state[c] = "SLEEPING"]
<1>1. /\ Safe(k) /\ Early(k) /\ k.at = "task" /\ c \in Tcb /\ k \in KernelType
      /\ u = (IF k.state[c] = "READY" THEN ReadyRemove(k, c) ELSE k) /\ "SLEEPING" \in States
      /\ ticks \in Nat /\ ticks > 0
  BY IdleApart, SchedAssumption, AwakeIsEarly DEF Runs, TaskDelay, Safe, States
<1>2. /\ k.tick \in Tick /\ k.state \in [Tcb -> States] /\ k.wake \in [Tcb -> Tick]
  BY <1>1 DEF KernelType
<1>3. due \in Tick /\ (due - k.tick) % TickMod \in 1 .. TickMod - TickMod \div 2
  BY <1>1, <1>2, DelayIsLeft
<1>4. Delayed(k, c, ticks) = [u EXCEPT !.wake[c] = due, !.state[c] = "SLEEPING"]
  BY DEF Delayed
<1>5. ThenSched(c, Delayed(k, c, ticks)) /\ Safe(Delayed(k, c, ticks)) /\ Delayed(k, c, ticks).at = "task"
  BY <1>1, DelayedSafe DEF TaskDelay
<1> HIDE DEF due
<1>6. u \in KernelType /\ u.state = k.state /\ u.tick = k.tick /\ u.wake = k.wake /\ u.table = k.table
  <2>1. CASE k.state[c] = "READY"
    <3>1. u = ReadyRemove(k, c)
      BY <1>1, <2>1
    <3> HIDE DEF u
    <3>2. u \in KernelType /\ SameRest(u, k)
      BY <1>1, <3>1, ReadyRemoveFields
    <3> QED
      BY <3>2 DEF SameRest, SameData
  <2>2. CASE k.state[c] # "READY"
    BY <1>1, <2>2
  <2> QED
    BY <2>1, <2>2
<1> HIDE DEF u
<1>7. /\ w \in KernelType /\ w.wake = [k.wake EXCEPT ![c] = due]
      /\ w.state = k.state /\ w.tick = k.tick /\ w.table = k.table
  <2> DEFINE wake == [u.wake EXCEPT ![c] = due]
  <2>1. w = [u EXCEPT !.wake = wake]
    BY <1>6 DEF KernelType
  <2>2. wake \in [Tcb -> Tick] /\ wake = [k.wake EXCEPT ![c] = due]
    BY <1>2, <1>3, <1>6
  <2> HIDE DEF wake, w
  <2> QED
    BY <1>6, <2>1, <2>2 DEF KernelType
<1>8. Delayed(k, c, ticks) = s
  BY <1>4, <1>6 DEF KernelType
<1> HIDE DEF w
<1>9. s \in KernelType /\ SameData(s, w) /\ s.state = [w.state EXCEPT ![c] = "SLEEPING"]
  BY <1>1, <1>7, PutState
<1> HIDE DEF s
<1>10. \A x \in Task : s.state[x] = IF x = c THEN "SLEEPING" ELSE k.state[x]
  BY <1>2, <1>7, <1>9, IdleApart
<1>11. s.tick = k.tick /\ s.table = k.table /\ s.wake = [k.wake EXCEPT ![c] = due]
  BY <1>7, <1>9 DEF SameData
<1>12. Early(s)
  <2> SUFFICES ASSUME NEW x \in Task, Sleeper(s, x)
               PROVE  TicksLeft(s, x) \in 1 .. TickMod - TickMod \div 2
    BY DEF Early
  <2>1. CASE x = c
    <3>1. TicksLeft(s, x) = (due - k.tick) % TickMod
      BY <1>1, <1>2, <1>11, <2>1 DEF TicksLeft
    <3> QED
      BY <1>3, <3>1
  <2>2. CASE x # c
    <3>1. Sleeper(k, x)
      BY <1>10, <1>11, <2>2 DEF Sleeper, InTable
    <3>2. s.wake[x] = k.wake[x]
      BY <1>2, <1>11, <2>2, IdleApart
    <3> QED
      BY <1>1, <1>11, <3>1, <3>2 DEF Early, TicksLeft
  <2> QED
    BY <2>1, <2>2
<1>13. \A x \in Task : k.state[x] = "SLEEPING" => s.state[x] # "READY"
  BY <1>10
<1>14. Calm(k.build) => SameEntries(s, k)
  BY <1>1, <1>10, <1>11 DEF SameEntries, Sound, CurRuns, TaskDelay, Runs
<1> QED
  BY <1>5, <1>8, <1>12, <1>13, <1>14, ThenSchedTimely

LEMMA SetPrioTimely ==
  ASSUME SoundBuilds, Safe(k), Sound(k), Ahead(k), NEW c \in Task, NEW t \in Task,
         NEW p \in CreatePrio[t], TaskSetPrio(c, t, p)
  PROVE  Timely
<1> DEFINE off == IF k.state[t] = "READY" THEN ReadyRemove(k, t) ELSE k
           v == IF k.prio[t] = k.base[t] \/ p < k.prio[t] THEN p ELSE off.prio[t]
           prio == [off.prio EXCEPT ![t] = v]
           base == [off.base EXCEPT ![t] = p]
           set == [off EXCEPT !.prio = prio, !.base = base]
           s == RePrio(k, t, p)
<1>1. /\ Safe(k) /\ k \in KernelType /\ Fit(k) /\ Early(k) /\ k.at = "task" /\ t \in Tcb
      /\ k.state[t] # "INIT" /\ s = RePrio(k, t, p)
      /\ off = (IF k.state[t] = "READY" THEN ReadyRemove(k, t) ELSE k)
  BY IdleApart, AwakeIsEarly DEF Runs, Live, TaskSetPrio, Safe, Sound
<1>2. p \in Prio
  BY SchedAssumption
<1>3. CASE UNCHANGED vars
  BY <1>3, SameTimely
<1>4. CASE ThenSched(c, s)
  <2>1. s = IF k.state[t] = "READY" THEN ReadyAdd(set, t) ELSE set
    BY <1>1 DEF RePrio
  <2> HIDE DEF off, s
  <2>2. off \in KernelType /\ SameRest(off, k)
    <3>1. CASE k.state[t] = "READY"
      <4>1. off = ReadyRemove(k, t)
        BY <1>1, <3>1
      <4> QED
        BY <1>1, <4>1, ReadyRemoveFields
    <3>2. CASE k.state[t] # "READY"
      BY <1>1, <3>2 DEF SameRest, SameData
    <3> QED
      BY <3>1, <3>2
  <2>3. off.prio \in [Tcb -> Prio] /\ off.base \in [Tcb -> Prio] /\ v \in Prio
    BY <1>1, <1>2, <2>2 DEF KernelType
  <2> HIDE DEF v
  <2>4. prio \in [Tcb -> Prio] /\ base \in [Tcb -> Prio]
    BY <1>1, <1>2, <2>3
  <2> HIDE DEF prio, base
  <2>5. set \in KernelType
    BY <2>2, <2>4 DEF KernelType
  <2>6. Still(set, off)
    BY <2>2 DEF KernelType, SameEntries, Still
  <2>7. set.state = off.state
    BY <2>2 DEF KernelType
  <2> HIDE DEF set
  <2>8. Still(set, k) /\ set.state = k.state
    BY <2>2, <2>6, <2>7, RestStill, StillTwice DEF SameRest
  <2>9. Still(s, set)
    <3>1. CASE k.state[t] = "READY"
      BY <1>1, <2>1, <2>5, <2>8, <3>1, ReadyAddStill
    <3>2. CASE k.state[t] # "READY"
      BY <2>1, <3>2 DEF SameEntries, Still
    <3> QED
      BY <3>1, <3>2
  <2>10. Still(s, k)
    BY <2>8, <2>9, StillTwice
  <2>11. Safe(s) /\ s.at = "task"
    BY <1>1, <1>2, RePrioSafe
  <2> QED
    BY <1>1, <1>4, <2>10, <2>11, ThenSchedStill
<1> QED
  BY <1>3, <1>4 DEF TaskSetPrio

\* os_sched_lock, os_sched_unlock, and a smashed guard.
LEMMA LooseTimely ==
  ASSUME Safe(k), Sound(k), Ahead(k), NEW c \in Task, SchedLock(c) \/ SchedUnlock(c) \/ Overflow(c)
  PROVE  Timely
<1>1. Safe(k) /\ Early(k) /\ k \in KernelType /\ k.at = "task" /\ k.lock \in 0 .. LockMax /\ c \in Tcb
  <2>1. Safe(k) /\ Early(k) /\ k.at = "task"
    BY AwakeIsEarly DEF Runs, SchedLock, SchedUnlock, Overflow
  <2> QED
    BY <2>1, IdleApart DEF Safe, KernelType
<1>2. CASE SchedLock(c)
  <2>1. Still(k', k)
    BY <1>1, <1>2 DEF SchedLock, KernelType, SameEntries, Still
  <2> QED
    BY <1>1, <2>1, StillTimely
<1>3. CASE SchedUnlock(c)
  <2> DEFINE n == k.lock - 1
             s == [k EXCEPT !.lock = n]
  <2>1. n \in 0 .. LockMax /\ (ThenSched(c, s) \/ k' = s)
    BY <1>1, <1>3, SchedAssumption DEF SchedUnlock
  <2> HIDE DEF n
  <2>2. Safe(s)
    BY <1>1, <2>1, SetFieldSafe
  <2>3. Still(s, k) /\ s.at = "task"
    BY <1>1 DEF KernelType, SameEntries, Still
  <2> HIDE DEF s
  <2>4. CASE ThenSched(c, s)
    BY <1>1, <2>2, <2>3, <2>4, ThenSchedStill
  <2>5. CASE k' = s
    BY <1>1, <2>3, <2>5, StillTimely
  <2> QED
    BY <2>1, <2>4, <2>5
<1>4. CASE Overflow(c)
  <2>1. Still(k', k)
    BY <1>1, <1>4 DEF Overflow, KernelType, SameEntries, Still
  <2> QED
    BY <1>1, <2>1, StillTimely
<1> QED
  BY <1>2, <1>3, <1>4

LEMMA TaskStepTimely ==
  ASSUME SoundBuilds, ShortDelays, Safe(k), Sound(k), Ahead(k), NEW c \in Task, TaskStep(c)
  PROVE  Timely
<1>1. CASE EnterSched(c)
  BY <1>1, EnterTimely DEF EnterSched
<1>2. ASSUME NEW t \in Task, TaskDelete(c, t) PROVE Timely
  BY <1>2, StopTaskTimely DEF TaskDelete
<1>3. ASSUME NEW t \in Task, TaskSuspend(c, t) PROVE Timely
  BY <1>3, StopTaskTimely DEF TaskSuspend
<1> QED
  BY <1>1, <1>2, <1>3, TaskCreateTimely, ResumeTimely, SetPrioTimely, YieldTimely, DelayTimely,
     LooseTimely DEF TaskStep

-----------------------------------------------------------------------------

LEMMA InitAhead == KernelInit => Ahead(k)
<1> SUFFICES ASSUME KernelInit PROVE Ahead(k)
  OBVIOUS
<1>1. \A t \in Task : k.state[t] = "INIT"
  BY IdleApart DEF KernelInit
<1> QED
  BY <1>1 DEF Ahead, Sleeper

LEMMA StepTimely ==
  ASSUME SoundBuilds, ShortDelays, Safe(k), Sound(k), Ahead(k), [TasksNext]_vars
  PROVE  Timely
<1>1. CASE UNCHANGED vars
  BY <1>1, SameTimely
<1>2. CASE KernelStep
  BY <1>2, KernelStepTimely
<1>3. ASSUME NEW c \in Task, TaskStep(c) PROVE Timely
  BY <1>3, TaskStepTimely
<1> QED
  BY <1>1, <1>2, <1>3 DEF TasksNext

\* A delayed task is made READY by the tick it asked for, neither earlier nor later,
\* whatever other tasks call and wherever the counter of ticks wraps, as long as delays
\* are no longer than half its range.
THEOREM SleepersWakeOnTime == ASSUME SoundBuilds, ShortDelays PROVE TasksSpec => WakesOnTime
<1> DEFINE Punctual == \A t \in Task : k.state[t] = "SLEEPING" /\ k'.state[t] = "READY"
                                         => k.tick = k.wake[t]
<1>1. TasksInv /\ Sound(k) /\ Ahead(k) /\ [TasksNext]_vars => Ahead(k)' /\ Punctual
  BY StepTimely DEF Timely, TasksInv
<1>2. TasksInv /\ Sound(k) /\ Ahead(k) /\ [TasksNext]_vars => [Punctual]_vars
  BY <1>1
<1>3. TasksInv /\ Sound(k) /\ Ahead(k) /\ [TasksNext]_vars => Ahead(k)'
  BY <1>1
<1>4. KernelInit => Ahead(k)
  BY InitAhead
<1>5. TasksSpec => [](TasksInv /\ Sound(k))
  BY ListsInvariant
<1> QED
  BY <1>2, <1>3, <1>4, <1>5, PTL DEF TasksSpec, WakesOnTime
================================================================================
