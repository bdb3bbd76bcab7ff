------------------------------- MODULE TimerWheel -------------------------------
(***************************************************************************)
(* Software timers (kernel/src/os_timer.c): a wheel of slots, each a       *)
(* singly linked list of timers, a tick handler that wakes the timer task, *)
(* and the timer task, which walks the slots up to the current tick and    *)
(* runs the callbacks of expired timers without the lock.  Everything else *)
(* holds the lock, so start, stop and reset come while the timer task is   *)
(* idle or inside a callback; they are calls of the callback or of others. *)
(***************************************************************************)
EXTENDS Integers, FiniteSets

CONSTANTS
  Timer,
  Slots,        \* TIMER_WHEEL_SLOTS
  TickMod,      \* os_tick_t counts modulo TickMod
  Periods,      \* periods in use
  MaxLag,       \* bound: ticks by which the wheel's position may lag behind ...
  MaxIdle,      \* ... and while no timer is active, so that nobody moves it
  MaxWake,      \* the largest count of g_timer_sem
  CallDetached, \* whether calls name timers of the list being walked
  NoTimer       \* the null pointer

Half == TickMod \div 2
TickDiff(s, t) == (s - t) % TickMod
SlotOf(t) == t % Slots

ASSUME TimerAssumption ==
  /\ IsFiniteSet(Timer)
  /\ Slots \in Nat \ {0} /\ TickMod \in Nat \ {0} /\ TickMod % Slots = 0
  /\ MaxIdle \in Nat /\ MaxLag \in Nat /\ MaxIdle < MaxLag /\ MaxWake \in Nat \ {0} /\ NoTimer \notin Timer
  /\ \A p \in Periods : p \in Nat \ {0} /\ p + MaxLag <= Half

VARIABLES
  now,          \* os_tick_get()
  pos,          \* g_timer_wheel_pos
  wheel,        \* the first timer of each slot
  next,         \* timer->next
  timer,        \* the rest of each os_timer_t
  timer_count,  \* g_timer_count
  wakeups,      \* the count of g_timer_sem
  task          \* the timer task

timervars == <<now, pos, wheel, next, timer, timer_count, wakeups, task>>

\* os_timer_subsys_init, and os_timer_init of each timer
TimerInit ==
  /\ now = 0 /\ pos = 0
  /\ wheel = [s \in 0 .. Slots - 1 |-> NoTimer]
  /\ next = [t \in Timer |-> NoTimer]
  /\ timer \in [Timer -> [period : Periods, remaining : {0}, periodic : BOOLEAN, active : {FALSE}]]
  /\ timer_count = 0 /\ wakeups = 0
  /\ task = [at |-> "waiting", until |-> 0, rest |-> NoTimer, fires |-> NoTimer]

\* The timers met on the list that begins with head, up to and including t.
Met(head, t) ==
  { x \in Timer : \A S \in SUBSET Timer :
      head \in S /\ (\A y \in S \ {t} : next[y] \in S \cup {NoTimer}) => x \in S }

\* The slots whose lists t is on, and the timers still to be walked.
SlotsWith(t) == { s \in 0 .. Slots - 1 : wheel[s] # NoTimer /\ t \in Met(wheel[s], t) }
Detached == IF task.rest = NoTimer THEN {} ELSE Met(task.rest, NoTimer)

\* timer_wheel_remove: the wheel and the links without t, which is unlinked from the
\* first list it is found on.
WheelWithout(t) ==
  [s \in 0 .. Slots - 1 |->
    IF s \in SlotsWith(t) /\ (\A r \in SlotsWith(t) : s <= r) /\ wheel[s] = t THEN next[t] ELSE wheel[s]]
NextWithout(t) ==
  [x \in Timer |->
    IF \E s \in SlotsWith(t) : /\ \A r \in SlotsWith(t) : s <= r
                              /\ x \in Met(wheel[s], t) \ {t} /\ next[x] = t
    THEN next[t]
    ELSE IF x = t /\ SlotsWith(t) # {} THEN NoTimer
    ELSE next[x]]

\* timer_wheel_insert of t into wheel w with links n
Inserted(w, n, t, expire) ==
  /\ wheel' = [w EXCEPT ![SlotOf(expire)] = t]
  /\ next' = [n EXCEPT ![t] = w[SlotOf(expire)]]

Callable(t) ==
  /\ task.at \in {"waiting", "callback"}
  /\ CallDetached \/ t \notin Detached

\* Mutation: an active timer is counted again.
MutOneMore(t) == timer_count + 1

\* g_timer_count once t is active.
OneMore(t) == IF timer[t].active THEN timer_count ELSE timer_count + 1

\* Mutation: the first timer of a slot is not found there.
MutRestarted(t, period) ==
  LET expire == (now + period) % TickMod
      w == IF timer[t].active THEN wheel ELSE WheelWithout(t)
      n == IF timer[t].active THEN next ELSE NextWithout(t)
  IN /\ Inserted(w, n, t, expire)
     /\ timer' = [timer EXCEPT ![t].period = period, ![t].remaining = expire, ![t].active = TRUE]
     /\ timer_count' = OneMore(t)

\* What start and reset have in common.
Restarted(t, period) ==
  LET expire == (now + period) % TickMod
      w == IF timer[t].active THEN WheelWithout(t) ELSE wheel
      n == IF timer[t].active THEN NextWithout(t) ELSE next
  IN /\ Inserted(w, n, t, expire)
     /\ timer' = [timer EXCEPT ![t].period = period, ![t].remaining = expire, ![t].active = TRUE]
     /\ timer_count' = OneMore(t)

\* os_timer_start, os_timer_reset, os_timer_stop
TimerStart(t) ==
  /\ Callable(t)
  /\ Restarted(t, timer[t].period)
  /\ UNCHANGED <<now, pos, wakeups, task>>

TimerReset(t, period) ==
  /\ Callable(t)
  /\ Restarted(t, IF period > 0 THEN period ELSE timer[t].period)
  /\ UNCHANGED <<now, pos, wakeups, task>>

TimerStop(t) ==
  /\ Callable(t)
  /\ timer[t].active
  /\ wheel' = WheelWithout(t) /\ next' = NextWithout(t)
  /\ timer' = [timer EXCEPT ![t].active = FALSE]
  /\ timer_count' = timer_count - 1
  /\ UNCHANGED <<now, pos, wakeups, task>>

\* Mutation: the tick handler never wakes the timer task a second time.
MutTicked == IF wakeups < MaxWake /\ now = pos THEN wakeups + 1 ELSE wakeups

\* The count of g_timer_sem once os_timer_tick gave it.
Ticked == IF timer_count > 0 /\ wakeups < MaxWake THEN wakeups + 1 ELSE wakeups

\* The tick handler's os_timer_tick, at any time.
TimerTick ==
  /\ TickDiff(now, pos) < IF timer_count > 0 THEN MaxLag ELSE MaxIdle
  /\ now' = (now + 1) % TickMod
  /\ wakeups' = Ticked
  /\ UNCHANGED <<pos, wheel, next, timer, timer_count, task>>

\* timer_task_entry: the wait ends, the lock is taken and the tick is read.
TaskWakes ==
  /\ task.at = "waiting" /\ wakeups > 0
  /\ wakeups' = wakeups - 1
  /\ task' = [task EXCEPT !.at = "walking", !.until = now]
  /\ UNCHANGED <<now, pos, wheel, next, timer, timer_count>>

\* timer_process_until: the list of the next slot is detached ...
NextSlot ==
  /\ task.at = "walking" /\ task.rest = NoTimer /\ pos # task.until
  /\ LET p == (pos + 1) % TickMod IN
     /\ pos' = p
     /\ task' = [task EXCEPT !.rest = wheel[SlotOf(p)]]
     /\ wheel' = [wheel EXCEPT ![SlotOf(p)] = NoTimer]
  /\ UNCHANGED <<now, next, timer, timer_count, wakeups>>

\* ... or all slots are done.
TaskWaits ==
  /\ task.at = "walking" /\ task.rest = NoTimer /\ pos = task.until
  /\ task' = [task EXCEPT !.at = "waiting", !.until = 0]
  /\ UNCHANGED <<now, pos, wheel, next, timer, timer_count, wakeups>>

\* timer_process_slot: whether t expired at the position of the wheel.
Expired(t) == TickDiff(pos, timer[t].remaining) < Half

\* timer_process_slot: the callback of an expired timer begins ...
CallbackBegins ==
  LET t == task.rest IN
  /\ task.at = "walking" /\ t # NoTimer
  /\ Expired(t)
  /\ next' = [next EXCEPT ![t] = NoTimer]
  /\ task' = [task EXCEPT !.at = "callback", !.fires = t, !.rest = next[t]]
  /\ UNCHANGED <<now, pos, wheel, timer, timer_count, wakeups>>

\* ... or a timer of a later round goes back to its slot.
PutBack ==
  LET t == task.rest IN
  /\ task.at = "walking" /\ t # NoTimer
  /\ ~Expired(t)
  /\ Inserted(wheel, next, t, pos)
  /\ task' = [task EXCEPT !.rest = next[t]]
  /\ UNCHANGED <<now, pos, timer, timer_count, wakeups>>

\* When a periodic timer expires next.
Rearm(t) == (pos + timer[t].period) % TickMod

\* timer_process_slot after the callback: a timer that was stopped or restarted
\* meanwhile is left alone, a periodic one is inserted again, another one ends.
CallbackEnds ==
  LET t == task.fires
      Untouched == timer[t].active /\ timer[t].remaining = pos
  IN
  /\ task.at = "callback"
  /\ task' = [task EXCEPT !.at = "walking", !.fires = NoTimer]
  /\ \/ /\ ~Untouched
        /\ UNCHANGED <<wheel, next, timer, timer_count>>
     \/ /\ Untouched /\ timer[t].periodic
        /\ Inserted(wheel, next, t, Rearm(t))
        /\ timer' = [timer EXCEPT ![t].remaining = Rearm(t)]
        /\ UNCHANGED timer_count
     \/ /\ Untouched /\ ~timer[t].periodic
        /\ timer' = [timer EXCEPT ![t].active = FALSE]
        /\ timer_count' = timer_count - 1
        /\ UNCHANGED <<wheel, next>>
  /\ UNCHANGED <<now, pos, wakeups>>

TimerTask == TaskWakes \/ NextSlot \/ TaskWaits \/ CallbackBegins \/ PutBack \/ CallbackEnds

TimerNext ==
  \/ TimerTick
  \/ TimerTask
  \/ \E t \in Timer :
       \/ TimerStart(t)
       \/ TimerStop(t)
       \/ \E p \in Periods \cup {0} : TimerReset(t, p)

\* The timer interrupt is taken, and the timer task is among the most urgent
\* tasks: it gets on when it can, and callbacks return.
TimerFairness == WF_timervars(TimerTick) /\ WF_timervars(TimerTask)

TimerSpec == TimerInit /\ [][TimerNext]_timervars /\ TimerFairness
-----------------------------------------------------------------------------
(* Properties.                                                             *)

TimerTypeOK ==
  /\ now \in 0 .. TickMod - 1 /\ pos \in 0 .. TickMod - 1
  /\ wheel \in [0 .. Slots - 1 -> Timer \cup {NoTimer}]
  /\ next \in [Timer -> Timer \cup {NoTimer}]
  /\ timer \in [Timer -> [period : Periods, remaining : 0 .. TickMod - 1,
                          periodic : BOOLEAN, active : BOOLEAN]]
  /\ timer_count \in 0 .. Cardinality(Timer) /\ wakeups \in 0 .. MaxWake
  /\ task \in [at : {"waiting", "walking", "callback"}, until : 0 .. TickMod - 1,
               rest : Timer \cup {NoTimer}, fires : Timer \cup {NoTimer}]

Active == { t \in Timer : timer[t].active }

\* g_timer_count, by which the tick handler decides whether to wake the timer task,
\* is the number of active timers ...
CountExact == timer_count = Cardinality(Active)

\* ... and each of them waits on the list of its expiry, on the list being walked, or
\* has its callback running.
ActiveCountExact ==
  /\ TimerTypeOK
  /\ CountExact
  /\ \A t \in Timer : timer[t].active =>
       \/ SlotsWith(t) = {SlotOf(timer[t].remaining)}
       \/ t \in Detached /\ SlotsWith(t) = {}
       \/ t = task.fires /\ timer[t].remaining = pos

\* A callback begins only for an active timer and at the position of its very
\* expiry: neither a round of the wheel early or late nor, after a start that
\* replaced an earlier one, at the tick of the earlier one.  Where CallDetached is FALSE,
\* no call names a timer of the list being walked; what such a call does is the subject
\* of StoppedTimersStaySilent.
FiresOnTime ==
  [][task'.at = "callback" /\ task.at # "callback" =>
       timer[task'.fires].active /\ timer[task'.fires].remaining = pos]_timervars

\* A timer that was stopped does not fire (os_timer_stop: "Stop a timer").
StoppedTimersStaySilent ==
  [][task'.at = "callback" /\ task.at # "callback" => timer[task'.fires].active]_timervars

\* A started timer fires at last, unless it is stopped: one that stays active and
\* does not fire any more is restarted again and again, for another tick each time.
ActiveTimersFire ==
  \A t \in Timer :
    <>[](timer[t].active /\ task.fires # t)
      => []<><<timer'[t].remaining # timer[t].remaining>>_timervars
=============================================================================
