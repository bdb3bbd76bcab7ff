--------------------------------- MODULE Event ---------------------------------
(***************************************************************************)
(* Event flags: os_event_* of kernel/src/os_ipc.c, called by tasks and, for *)
(* os_event_set, by interrupt handlers.  Flags are a set of bits.          *)
(***************************************************************************)
EXTENDS Ipc

CONSTANTS
  event,     \* the event object, and the name of its wait list
  Bit,       \* the bits of the flag word that are used
  Sets,      \* the arguments of os_event_set and os_event_clear
  Requests   \* the flags and options of os_event_wait

\* flags waited for, and the options OS_EVENT_WAIT_ALL and OS_EVENT_CLEAR_ON_EXIT
Request == [flags : (SUBSET Bit) \ {{}}, all : BOOLEAN, clear : BOOLEAN]

ASSUME EventAssumption ==
  event \in WaitList /\ Sets \subseteq SUBSET Bit /\ Requests \subseteq Request

VARIABLES
  flags,   \* os_event_t.flags
  want,    \* pending_flags and pending_options of each waiting task
  seen     \* *actual: the flags each caller is told

evvars == <<k, pc, flags, want, seen>>

NoRequest == [flags |-> {}, all |-> FALSE, clear |-> FALSE]

\* os_event_init, by main
EventInit ==
  /\ KernelInit /\ flags = {}
  /\ want = [t \in Task |-> NoRequest] /\ seen = [t \in Task |-> {}]

\* Mutation: OS_EVENT_WAIT_ALL is not looked at.
MutSatisfied(f, r) == f \cap r.flags # {}

\* os_event_wait_satisfied on flags f, and the flags it reports.
Satisfied(f, r) == IF r.all THEN r.flags \subseteq f ELSE f \cap r.flags # {}
Actual(f, r) == f \cap r.flags
Left(f, r) == IF r.clear THEN f \ Actual(f, r) ELSE f

\* os_event_wait: an answer at once (also when it is no and the timeout is
\* OS_NO_WAIT), or a wait.
EventWait(c, r, timeout) ==
  /\ "wait" \in k.build.ops /\ Runs(c)
  /\ \/ /\ Satisfied(flags, r)
        /\ seen' = [seen EXCEPT ![c] = Actual(flags, r)]
        /\ flags' = Left(flags, r)
        /\ UNCHANGED <<k, pc, want>>
     \/ /\ ~Satisfied(flags, r) /\ timeout = NoWait
        /\ seen' = [seen EXCEPT ![c] = {}]
        /\ UNCHANGED <<k, pc, flags, want>>
     \/ /\ ~Satisfied(flags, r) /\ timeout # NoWait
        /\ Block(k, c, event, timeout)
        /\ want' = [want EXCEPT ![c] = r]
        /\ UNCHANGED <<flags, seen>>

\* The state of the loop of os_event_set: the kernel, the three variables, and
\* the next waiter to look at.
LoopStart(set) ==
  [k |-> k, flags |-> flags \cup set, want |-> want, seen |-> seen, task |-> k.head[event]]

\* A satisfied waiter leaves the list and is woken.
Woken(s, t) == Wake(ListRemove(s, event, t), t, "EOK")

\* Mutation: the flags a waiter clears are cleared when the loop is over.
MutTurn(s) ==
  LET t == s.task
  IN IF ~Satisfied(s.flags, s.want[t]) THEN [s EXCEPT !.task = s.k.next[t]]
     ELSE [k |-> Woken(s.k, t), flags |-> s.flags, want |-> [s.want EXCEPT ![t] = NoRequest],
           seen |-> [s.seen EXCEPT ![t] = Actual(s.flags, s.want[t])],
           task |-> s.k.next[t]]

\* Mutation: the next waiter is read after the wake-up has relinked the task.
MutTurnNext(s) ==
  LET t == s.task
      after == Woken(s.k, t)
  IN IF ~Satisfied(s.flags, s.want[t]) THEN [s EXCEPT !.task = s.k.next[t]]
     ELSE [k |-> after, flags |-> Left(s.flags, s.want[t]),
           want |-> [s.want EXCEPT ![t] = NoRequest],
           seen |-> [s.seen EXCEPT ![t] = Actual(s.flags, s.want[t])],
           task |-> after.next[t]]

\* One turn: a satisfied waiter is unlinked, told its flags, may clear them for
\* those behind it, and is woken.
Turn(s) ==
  LET t == s.task
  IN IF ~Satisfied(s.flags, s.want[t]) THEN [s EXCEPT !.task = s.k.next[t]]
     ELSE [k |-> Woken(s.k, t), flags |-> Left(s.flags, s.want[t]),
           want |-> [s.want EXCEPT ![t] = NoRequest],
           seen |-> [s.seen EXCEPT ![t] = Actual(s.flags, s.want[t])],
           task |-> s.k.next[t]]

LoopEnd(set) ==
  LET after[n \in 0 .. TaskCount] ==
        IF n = 0 THEN LoopStart(set)
        ELSE LET before == after[n - 1]
             IN IF before.task = NULL THEN before ELSE Turn(before)
  IN after[TaskCount]

\* What a loop that ended as e leaves of the event.
Flagged(e) == flags' = e.flags /\ want' = e.want /\ seen' = e.seen

\* os_event_set
EventSet(c, set) ==
  /\ "set" \in k.build.ops /\ Runs(c)
  /\ LET e == LoopEnd(set)
     IN Flagged(e) /\ IF e.k = k THEN UNCHANGED vars ELSE ThenSched(c, e.k)

\* os_event_set by an interrupt handler
IsrSet(set) ==
  LET e == LoopEnd(set)
  IN Flagged(e) /\ Interrupt(IF e.k = k THEN k ELSE SchedFromIrq(e.k))

\* os_event_clear
EventClear(c, set) ==
  /\ "clear" \in k.build.ops /\ Runs(c)
  /\ flags' = flags \ set
  /\ UNCHANGED <<k, pc, want, seen>>

\* The call of a task that had to wait returns.
EventReturn(c) ==
  /\ Returns(c)
  /\ pc' = [pc EXCEPT ![c] = "run"]
  /\ UNCHANGED <<k, flags, want, seen>>

EventStep(c) ==
  \/ \E r \in Requests, timeout \in Timeouts : EventWait(c, r, timeout)
  \/ \E set \in Sets : EventSet(c, set) \/ EventClear(c, set)
  \/ EventReturn(c)

\* A waiter that times out forgets its request like one that is woken.
Forgotten ==
  want' = [t \in Task |-> IF k.wait[t] # NULL /\ k'.wait[t] = NULL THEN NoRequest ELSE want[t]]

EventNext ==
  \/ (TasksNext \/ \E c \in Task : EnterBlocked(c)) /\ Forgotten /\ UNCHANGED <<flags, seen>>
  \/ \E c \in Task : EventStep(c)
  \/ \E set \in Sets : IsrSet(set)

EventSpec == EventInit /\ [][EventNext]_evvars
-----------------------------------------------------------------------------
(* Properties.                                                             *)

EventTypeOK ==
  /\ k \in KernelType
  /\ pc \in [Tcb -> CallPlaces]
  /\ flags \in SUBSET Bit
  /\ want \in [Task -> Request \cup {NoRequest}]
  /\ seen \in [Task -> SUBSET Bit]

\* No missed event: no task goes on waiting for flags that are set, although
\* waiters before it in the same scan were unlinked or cleared flags.
NobodyWaitsForSetFlags ==
  \A t \in Task : k.state[t] = "BLOCKED" => ~Satisfied(flags, want[t])

\* The same with what it rests on: types, and a wait list that holds the waiters
\* after any of them was unlinked in the middle of the scan.
EventSound == EventTypeOK /\ WaitersBlocked /\ NobodyWaitsForSetFlags

\* A flag that a waiter clears on exit is delivered to that waiter alone: of the
\* tasks one os_event_set wakes, two that clear share no flag (t and u were woken).
ClearedFlagsGoToOne(t, u) ==
  t # u /\ want[t].clear /\ want[u].clear => seen'[t] \cap seen'[u] = {}

\* A task is woken with what it asked for, some of its flags or, if it asked for all,
\* all of them, and with nothing that went to another task.
AnswersFitRequests ==
  [][ LET woken == { t \in Task : k.wait[t] = event /\ Outcome(t) = "waiting" /\ Outcome(t)' = "EOK" }
      IN \A t \in woken :
           /\ seen'[t] # {} /\ seen'[t] \subseteq want[t].flags
           /\ want[t].all => seen'[t] = want[t].flags
           /\ \A u \in woken : ClearedFlagsGoToOne(t, u) ]_evvars
=============================================================================
