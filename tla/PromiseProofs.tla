----------------------------- MODULE PromiseProofs -----------------------------
(***************************************************************************)
(* Proofs that semaphores and message queues do what CountingSem and       *)
(* BoundedFifo promise, over which no lists, links or indices can be seen. *)
(* A step of the kernel leaves the lines of waiters as they are, or lets   *)
(* one waiter time out; a call lets one leave or one arrive.               *)
(***************************************************************************)
EXTENDS IpcProofs

-----------------------------------------------------------------------------
(* Lists as lines.                                                         *)

Line(s, l) == [j \in 1 .. s.count[l] |-> Walk(s, l, TaskCount)[j]]

LEMMA FunctionsAreLines ==
  ASSUME NEW T, NEW n \in Nat, NEW w \in [1 .. n -> T]
  PROVE  w \in Seq(T) /\ Len(w) = n
OBVIOUS

LEMMA LongerIsAppend ==
  ASSUME NEW T, NEW n \in Nat, NEW w \in [1 .. n -> T], NEW t \in T
  PROVE  Longer(w, n, t) = Append(w, t)
<1>1. w \in Seq(T) /\ Len(w) = n
  BY FunctionsAreLines
<1>2. /\ Append(w, t) \in Seq(T) /\ Len(Append(w, t)) = n + 1
      /\ \A i \in 1 .. n + 1 : Append(w, t)[i] = IF i = n + 1 THEN t ELSE w[i]
  BY <1>1
<1>3. /\ Longer(w, n, t) \in [1 .. n + 1 -> T]
      /\ \A i \in 1 .. n + 1 : Longer(w, n, t)[i] = IF i = n + 1 THEN t ELSE w[i]
  BY DEF Longer
<1>4. Longer(w, n, t) \in Seq(T) /\ Len(Longer(w, n, t)) = n + 1
  BY <1>3, FunctionsAreLines
<1> QED
  BY <1>2, <1>3, <1>4, SeqEqual

LEMMA ClosedIsTail ==
  ASSUME NEW T, NEW n \in Nat, n # 0, NEW w \in [1 .. n -> T]
  PROVE  Closed(w, n, 1) = Tail(w) /\ Head(w) = w[1] /\ w # << >>
<1>1. w \in Seq(T) /\ Len(w) = n /\ w # << >>
  BY FunctionsAreLines
<1>2. /\ Tail(w) \in Seq(T) /\ Len(Tail(w)) = n - 1
      /\ \A i \in 1 .. n - 1 : Tail(w)[i] = w[i + 1]
  BY <1>1, HeadTailProperties
<1>3. /\ Closed(w, n, 1) \in [1 .. n - 1 -> T]
      /\ \A i \in 1 .. n - 1 : Closed(w, n, 1)[i] = w[i + 1]
  BY DEF Closed
<1>4. Closed(w, n, 1) \in Seq(T) /\ Len(Closed(w, n, 1)) = n - 1
  BY <1>3, FunctionsAreLines
<1> QED
  BY <1>1, <1>2, <1>3, <1>4, SeqEqual

\* A chain is the line its links tell.
LEMMA ChainIsLine ==
  ASSUME NEW s, Fit(s), NEW l \in WaitList, NEW n \in Nat, NEW w \in [1 .. n -> Tcb],
         IsChain(s, l, n, w)
  PROVE  Line(s, l) = w /\ Len(w) = n /\ n = s.count[l]
<1>1. s \in KernelType /\ l \in List
  BY ListsNameTasks DEF Fit
<1>2. n <= TaskCount /\ TaskCount \in Nat /\ s.count[l] = n
  BY ChainBound DEF IsChain, TaskCount
<1> DEFINE m == TaskCount
<1>3. Walk(s, l, m) = [i \in 1 .. m |-> IF i <= n THEN w[i] ELSE NULL]
  BY <1>1, <1>2, WalkMeetsTheChain
<1>4. \A j \in 1 .. n : Walk(s, l, m)[j] = w[j]
  BY <1>2, <1>3
<1>5. Line(s, l) = [j \in 1 .. n |-> Walk(s, l, m)[j]]
  BY <1>2 DEF Line
<1>6. Line(s, l) = [j \in 1 .. n |-> w[j]]
  BY <1>4, <1>5
<1> QED
  BY <1>2, <1>6, FunctionsAreLines

\* The line of a wait list: those who are blocked there, each once.
LEMMA LineTells ==
  ASSUME NEW s, Fit(s), NEW l \in WaitList, NEW line, line = Line(s, l)
  PROVE  /\ \E n \in Nat : line \in [1 .. n -> Tcb] /\ IsChain(s, l, n, line)
         /\ line \in Seq(Task)
         /\ \A i, j \in 1 .. Len(line) : line[i] = line[j] => i = j
         /\ \A t \in Task : s.state[t] = "BLOCKED" /\ s.wait[t] = l
                              <=> \E i \in 1 .. Len(line) : line[i] = t
         /\ s.head[l] = NULL <=> line = << >>
         /\ line # << >> => s.head[l] = Head(line) /\ Len(line) > 0 /\ s.head[l] = line[1]
<1>1. s \in KernelType /\ l \in List /\ l \notin Prio /\ Chained(s, l, On(s, l, NULL))
  BY ListsNameTasks, ListAssumption DEF Fit, LinksAgree
<1>2. PICK n \in Nat : \E w \in [1 .. n -> Tcb] :
                         IsChain(s, l, n, w) /\ On(s, l, NULL) = { w[i] : i \in 1 .. n }
  BY <1>1 DEF Chained
<1>3. PICK w \in [1 .. n -> Tcb] :
             IsChain(s, l, n, w) /\ On(s, l, NULL) = { w[i] : i \in 1 .. n }
  BY <1>2
<1>4. line = w /\ Len(w) = n
  BY <1>3, ChainIsLine
<1>5. On(s, l, NULL) = { t \in Task : s.state[t] = "BLOCKED" /\ s.wait[t] = l }
  BY <1>1, IdleApart DEF On
<1>6. w \in [1 .. n -> Task]
  BY <1>3, <1>5
<1>7. line \in Seq(Task)
  BY <1>4, <1>6, FunctionsAreLines
<1>8. \A i, j \in 1 .. Len(line) : line[i] = line[j] => i = j
  BY <1>3, <1>4 DEF IsChain
<1>9. \A t \in Task : s.state[t] = "BLOCKED" /\ s.wait[t] = l
                        <=> \E i \in 1 .. Len(line) : line[i] = t
  BY <1>3, <1>4, <1>5
<1>10. CASE n = 0
  <2>1. line = << >> /\ s.head[l] = NULL
    BY <1>3, <1>4, <1>10 DEF IsChain
  <2> QED
    BY <1>3, <1>4, <1>7, <1>8, <1>9, <2>1
<1>11. CASE n # 0
  <2>1. s.head[l] = w[1] /\ w[1] \in Task
    BY <1>3, <1>6, <1>11 DEF IsChain
  <2>2. line # << >> /\ Head(line) = line[1] /\ Len(line) > 0
    BY <1>4, <1>11, ClosedIsTail
  <2> QED
    BY <1>3, <1>4, <1>7, <1>8, <1>9, <2>1, <2>2, IdleApart
<1> QED
  BY <1>10, <1>11

LEMMA LineStaysPut ==
  ASSUME NEW s, Fit(s), NEW r, Fit(r), Quiet(r, s, NULL), NEW l \in WaitList
  PROVE  Line(r, l) = Line(s, l)
<1>1. PICK n \in Nat : Line(s, l) \in [1 .. n -> Tcb] /\ IsChain(s, l, n, Line(s, l))
  BY LineTells
<1>2. IsChain(r, l, n, Line(s, l))
  BY <1>1, LinesStay
<1> QED
  BY <1>1, <1>2, ChainIsLine

LEMMA LineDeparts ==
  ASSUME NEW s, Fit(s), NEW r, Fit(r), NEW t \in Task, NEW result, Departs(r, s, t, result),
         NEW l \in WaitList, NEW line, line = Line(s, l)
  PROVE  IF l = s.wait[t]
         THEN \E j \in 1 .. Len(line) : line[j] = t /\ Line(r, l) = Closed(line, Len(line), j)
         ELSE Line(r, l) = line
<1>1. PICK n \in Nat : line \in [1 .. n -> Tcb] /\ IsChain(s, l, n, line)
  BY LineTells
<1>2. Len(line) = n
  BY <1>1, FunctionsAreLines
<1>3. CASE l = s.wait[t]
  <2>1. PICK j \in 1 .. n : line[j] = t /\ IsChain(r, l, n - 1, Closed(line, n, j))
    BY <1>1, <1>3 DEF Departs
  <2>2. n - 1 \in Nat /\ Closed(line, n, j) \in [1 .. n - 1 -> Tcb]
    BY <1>1 DEF Closed
  <2>3. Line(r, l) = Closed(line, n, j)
    BY <2>1, <2>2, ChainIsLine
  <2> QED
    BY <1>2, <1>3, <2>1, <2>3
<1>4. CASE l # s.wait[t]
  <2>1. IsChain(r, l, n, line)
    BY <1>1, <1>4 DEF Departs
  <2> QED
    BY <1>1, <1>4, <2>1, ChainIsLine
<1> QED
  BY <1>3, <1>4

\* The first of the line is the one who leaves.
LEMMA FirstDeparts ==
  ASSUME NEW s, Fit(s), NEW r, Fit(r), NEW result, NEW l \in WaitList, s.head[l] # NULL,
         NEW t \in Task, t = s.head[l], s.wait[t] = l, Departs(r, s, t, result)
  PROVE  Line(r, l) = Tail(Line(s, l))
<1> DEFINE line == Line(s, l)
<1>1. line = Line(s, l)
  OBVIOUS
<1>2. PICK n \in Nat : line \in [1 .. n -> Tcb] /\ IsChain(s, l, n, line)
  BY LineTells
<1>3. /\ \A i, j \in 1 .. Len(line) : line[i] = line[j] => i = j
      /\ Len(line) > 0 /\ t = line[1] /\ Len(line) = n
  BY <1>2, LineTells, FunctionsAreLines
<1>4. PICK j \in 1 .. Len(line) : line[j] = t /\ Line(r, l) = Closed(line, Len(line), j)
  BY LineDeparts
<1> HIDE DEF line
<1>5. j = 1
  BY <1>3, <1>4
<1>6. n # 0 /\ Line(r, l) = Closed(line, n, 1)
  BY <1>3, <1>4, <1>5
<1>7. Closed(line, n, 1) = Tail(line)
  BY <1>2, <1>6, ClosedIsTail
<1> QED
  BY <1>1, <1>6, <1>7

LEMMA LineArrives ==
  ASSUME NEW s, Fit(s), NEW r, Fit(r), NEW t \in Task, NEW l \in WaitList, Arrives(r, s, t, l),
         NEW m \in WaitList
  PROVE  Line(r, m) = IF m = l THEN Append(Line(s, m), t) ELSE Line(s, m)
<1> DEFINE line == Line(s, m)
<1>1. PICK n \in Nat : line \in [1 .. n -> Tcb] /\ IsChain(s, m, n, line)
  BY LineTells
<1>2. t \in Tcb /\ line = Line(s, m)
  BY IdleApart
<1> HIDE DEF line
<1>3. CASE m = l
  <2>1. IsChain(r, m, n + 1, Longer(line, n, t))
    BY <1>1, <1>3 DEF Arrives
  <2>2. n + 1 \in Nat /\ Longer(line, n, t) \in [1 .. n + 1 -> Tcb]
    BY <1>1, <1>2 DEF Longer
  <2>3. Line(r, m) = Longer(line, n, t)
    BY <2>1, <2>2, ChainIsLine
  <2>4. Longer(line, n, t) = Append(line, t)
    BY <1>1, <1>2, LongerIsAppend
  <2> QED
    BY <1>2, <1>3, <2>3, <2>4
<1>4. CASE m # l
  <2>1. IsChain(r, m, n, line)
    BY <1>1, <1>4 DEF Arrives
  <2>2. Line(r, m) = line
    BY <1>1, <2>1, ChainIsLine
  <2> QED
    BY <1>2, <1>4, <2>2
<1> QED
  BY <1>3, <1>4

-----------------------------------------------------------------------------
(* What becomes of calls.                                                  *)

LEMMA OutcomesStay ==
  ASSUME SameCalls(k', k, NULL), \A t \in Task : InBlockingCall(t)' = InBlockingCall(t)
  PROVE  \A t \in Task : Outcome(t)' = Outcome(t)
<1> SUFFICES ASSUME NEW t \in Task PROVE Outcome(t)' = Outcome(t)
  OBVIOUS
<1>1. /\ k'.state[t] = "BLOCKED" <=> k.state[t] = "BLOCKED"
      /\ k'.result[t] = k.result[t] /\ InBlockingCall(t)' = InBlockingCall(t)
  BY IdleApart DEF SameCalls
<1> QED
  BY <1>1 DEF Outcome

LEMMA OutcomeOfDeparture ==
  ASSUME NEW t \in Task, NEW result, Departs(k', k, t, result), InBlockingCall(t),
         \A u \in Task : InBlockingCall(u)' = InBlockingCall(u)
  PROVE  \A u \in Task : Outcome(u)' = IF u = t THEN result ELSE Outcome(u)
<1>1. Outcome(t)' = result
  BY DEF Departs, Outcome
<1>2. ASSUME NEW u \in Task \ {t} PROVE Outcome(u)' = Outcome(u)
  <2>1. /\ k'.state[u] = "BLOCKED" <=> k.state[u] = "BLOCKED"
        /\ k'.result[u] = k.result[u] /\ InBlockingCall(u)' = InBlockingCall(u)
    BY DEF Departs, SameCalls
  <2> QED
    BY <2>1 DEF Outcome
<1> QED
  BY <1>1, <1>2

\* A call that blocks.
LEMMA OutcomeOfArrival ==
  ASSUME NEW c \in Task, NEW S, IpcInv(S), SameCalls(k', k, c), k'.state[c] = "BLOCKED",
         pc' = [pc EXCEPT ![c] = "back"]
  PROVE  \A u \in Task : Outcome(u)' = IF u = c THEN "waiting" ELSE Outcome(u)
<1>1. InBlockingCall(c)' /\ \A u \in Task \ {c} : InBlockingCall(u)' = InBlockingCall(u)
  BY IdleApart DEF IpcInv, InBlockingCall
<1>2. Outcome(c)' = "waiting"
  BY <1>1 DEF Outcome
<1>3. ASSUME NEW u \in Task \ {c} PROVE Outcome(u)' = Outcome(u)
  <2>1. /\ k'.state[u] = "BLOCKED" <=> k.state[u] = "BLOCKED"
        /\ k'.result[u] = k.result[u] /\ InBlockingCall(u)' = InBlockingCall(u)
    BY <1>1, <1>3 DEF SameCalls
  <2> QED
    BY <2>1 DEF Outcome
<1> QED
  BY <1>2, <1>3

\* The return of a call that blocked.
LEMMA OutcomeOfReturn ==
  ASSUME BlockingBuilds, NEW c \in Task, NEW S, IpcInv(S), Returns(c), UNCHANGED k,
         pc' = [pc EXCEPT ![c] = "run"]
  PROVE  /\ Outcome(c) \in Results
         /\ \A u \in Task : Outcome(u)' = IF u = c THEN "idle" ELSE Outcome(u)
<1>1. k.state[c] = "RUNNING" /\ k \in KernelType /\ InBlockingCall(c)
  BY ReturnKeeps, RunsTells DEF Returns, InBlockingCall
<1>2. ~InBlockingCall(c)' /\ \A u \in Task \ {c} : InBlockingCall(u)' = InBlockingCall(u)
  BY IdleApart DEF IpcInv, InBlockingCall
<1>3. Outcome(c) = k.result[c] /\ k.result[c] \in Results
  BY <1>1, IdleApart DEF Outcome, KernelType
<1>4. Outcome(c)' = "idle" /\ \A u \in Task \ {c} : Outcome(u)' = Outcome(u)
  BY <1>2 DEF Outcome
<1> QED
  BY <1>3, <1>4

-----------------------------------------------------------------------------
(* Semaphores.                                                             *)

\* What the mapping at the end of module Sem makes of the waiters.
SemLine == Waiting(sem)
SemOutcome == [t \in Task |-> IF "take" \in k.build.ops THEN Outcome(t) ELSE "idle"]

LEMMA SemLineTells == SemLine = Line(k, sem) /\ SemLine' = Line(k', sem)
  BY DEF SemLine, Waiting, Line

\* A step that leaves the waiters and their calls alone.
LEMMA SemWaitersStay ==
  ASSUME SemInv, SemInv', Quiet(k', k, NULL),
         \A t \in Task : InBlockingCall(t)' = InBlockingCall(t)
  PROVE  SemLine' = SemLine /\ SemOutcome' = SemOutcome
<1>1. Fit(k) /\ Fit(k')
  BY DEF SemInv, IpcInv, Sound
<1>2. SemLine' = SemLine
  BY <1>1, SemLineTells, LineStaysPut, SemAssumption
<1>3. \A t \in Task : Outcome(t)' = Outcome(t)
  BY OutcomesStay DEF Quiet
<1>4. k'.build = k.build
  BY DEF Quiet, SameCalls
<1> QED
  BY <1>2, <1>3, <1>4 DEF SemOutcome

\* One of the waiters leaves.
LEMMA SemWaiterLeaves ==
  ASSUME SemInv, SemInv', NEW t \in Task, k.state[t] = "BLOCKED",
         NEW result, Departs(k', k, t, result),
         \A u \in Task : InBlockingCall(u)' = InBlockingCall(u)
  PROVE  /\ \E j \in 1 .. Len(SemLine) :
              SemLine[j] = t /\ SemLine' = Closed(SemLine, Len(SemLine), j)
         /\ k.head[sem] = t => SemLine # << >> /\ Head(SemLine) = t /\ SemLine' = Tail(SemLine)
         /\ SemOutcome' = [SemOutcome EXCEPT ![t] = result]
<1>1. Fit(k) /\ Fit(k') /\ k.wait[t] = sem /\ "take" \in k.build.ops /\ sem \in WaitList
      /\ InBlockingCall(t)
  BY SemAssumption DEF SemInv, IpcInv, Sound, WaitsOn, CallsStand
<1>2. \E j \in 1 .. Len(SemLine) :
        SemLine[j] = t /\ SemLine' = Closed(SemLine, Len(SemLine), j)
  BY <1>1, SemLineTells, LineDeparts
<1>3. k.head[sem] = t => SemLine # << >> /\ Head(SemLine) = t /\ SemLine' = Tail(SemLine)
  <2>1. ASSUME k.head[sem] = t PROVE k.head[sem] # NULL
    BY <2>1, IdleApart
  <2>2. ASSUME k.head[sem] = t PROVE SemLine # << >> /\ Head(SemLine) = t
    BY <1>1, <2>1, <2>2, SemLineTells, LineTells
  <2>3. ASSUME k.head[sem] = t PROVE Line(k', sem) = Tail(Line(k, sem))
    BY <1>1, <2>1, <2>3, FirstDeparts
  <2> QED
    BY <2>2, <2>3, SemLineTells
<1>4. \A u \in Task : Outcome(u)' = IF u = t THEN result ELSE Outcome(u)
  BY <1>1, OutcomeOfDeparture
<1>5. k'.build = k.build
  BY DEF Departs, SameCalls
<1> QED
  BY <1>1, <1>2, <1>3, <1>4, <1>5 DEF SemOutcome

SemPromised == [Counting!Next]_(Counting!cvars)

LEMMA SemStays ==
  ASSUME units' = units, SemLine' = SemLine, SemOutcome' = SemOutcome
  PROVE  SemPromised
  BY DEF SemPromised, Counting!cvars, SemLine, SemOutcome

\* Steps of the kernel and of the task interface: a waiter may time out.
LEMMA TasksPromised ==
  ASSUME BlockingBuilds, SemInv, SemInv', [TasksNext]_vars, UNCHANGED units
  PROVE  SemPromised
<1>1. IpcInv({sem}) /\ {sem} \in SUBSET WaitList
  BY SemAssumption DEF SemInv
<1>2. \A t \in Task : InBlockingCall(t)' = InBlockingCall(t)
  BY <1>1, StepPlaces
<1>3. CASE Quiet(k', k, NULL)
  BY <1>2, <1>3, SemWaitersStay, SemStays
<1>4. ASSUME NEW t \in Task, k.state[t] = "BLOCKED", Departs(k', k, t, "ETIMEOUT")
      PROVE  SemPromised
  <2>1. /\ \E j \in 1 .. Len(SemLine) :
             SemLine[j] = t /\ SemLine' = Closed(SemLine, Len(SemLine), j)
        /\ SemOutcome' = [SemOutcome EXCEPT ![t] = "ETIMEOUT"]
    BY <1>2, <1>4, SemWaiterLeaves
  <2>2. Counting!Timeout(t)
    BY <2>1 DEF Counting!Timeout, Counting!Without, Closed, SemLine, SemOutcome
  <2> QED
    BY <2>2 DEF SemPromised, Counting!Next
<1> QED
  BY <1>1, <1>3, <1>4, StepDeparts

\* os_sem_take
LEMMA TakePromised ==
  ASSUME BlockingBuilds, SemInv, SemInv', NEW c \in Task, NEW timeout \in Timeouts,
         SemTake(c, timeout)
  PROVE  SemPromised
<1>1. CASE units > 0 /\ units' = units - 1 /\ UNCHANGED vars
  <2>1. SemLine' = SemLine /\ SemOutcome' = SemOutcome
    BY <1>1 DEF vars, SemLine, SemOutcome, Waiting, Outcome, InBlockingCall
  <2>2. Counting!Take
    BY <1>1, <2>1 DEF Counting!Take, SemLine, SemOutcome
  <2> QED
    BY <2>2 DEF SemPromised, Counting!Next
<1>2. CASE units = 0 /\ Block(k, c, sem, timeout) /\ UNCHANGED units
  <2>1. IpcInv({sem}) /\ {sem} \in SUBSET WaitList /\ sem \in WaitList /\ Runs(c)
        /\ "take" \in k.build.ops
    BY SemAssumption DEF SemInv, SemTake
  <2>2. PICK r : Safe(r) /\ Fit(r) /\ Arrives(r, k, c, sem) /\ Quiet(k', r, NULL)
    BY <1>2, <2>1, BlockKeeps
  <2>3. k'.state[c] = "BLOCKED" /\ pc' = [pc EXCEPT ![c] = "back"]
    BY <1>2, <2>1, BlockKeeps
  <2>4. SameCalls(k', k, c) /\ k'.build = k.build
    BY <2>2, IdleApart DEF SameCalls, Arrives, Quiet
  <2>5. SemLine' = Append(SemLine, c)
    <3>1. Fit(k) /\ Fit(k')
      BY DEF SemInv, IpcInv, Sound
    <3>2. Line(r, sem) = Append(Line(k, sem), c)
      BY <2>1, <2>2, <3>1, LineArrives
    <3>3. Line(k', sem) = Line(r, sem)
      BY <2>1, <2>2, <3>1, LineStaysPut
    <3> QED
      BY <3>2, <3>3, SemLineTells
  <2>6. \A u \in Task : Outcome(u)' = IF u = c THEN "waiting" ELSE Outcome(u)
    BY <2>1, <2>3, <2>4, OutcomeOfArrival
  <2>7. SemOutcome[c] = "idle" /\ SemOutcome' = [SemOutcome EXCEPT ![c] = "waiting"]
    BY <2>1, <2>4, <2>6 DEF SemOutcome, Outcome, Runs, InBlockingCall
  <2>8. Counting!Wait(c)
    BY <1>2, <2>5, <2>7 DEF Counting!Wait, SemLine, SemOutcome
  <2> QED
    BY <2>8 DEF SemPromised, Counting!Next
<1> QED
  BY <1>1, <1>2 DEF SemTake

\* The first waiter leaves in a call that has made s of the kernel.
LEMMA FirstLeaves ==
  ASSUME SemInv, SemInv', NEW t, t = k.head[sem], t \in Task, k.state[t] = "BLOCKED",
         NEW s, NEW result, Departs(s, k, t, result), Fit(s), Quiet(k', s, NULL), UNCHANGED pc
  PROVE  /\ SemLine # << >> /\ Head(SemLine) = t /\ SemLine' = Tail(SemLine)
         /\ SemOutcome' = [SemOutcome EXCEPT ![t] = result]
<1>1. Departs(k', k, t, result)
  BY DepartsThen
<1>2. \A u \in Task : InBlockingCall(u)' = InBlockingCall(u)
  BY DEF InBlockingCall
<1> QED
  BY <1>1, <1>2, SemWaiterLeaves

\* os_sem_give, by a task or by an interrupt handler
LEMMA GivePromised ==
  ASSUME BlockingBuilds, SemInv, SemInv', (\E c \in Task : SemGive(c)) \/ IsrGive
  PROVE  SemPromised
<1>1. /\ IpcInv({sem}) /\ {sem} \in SUBSET WaitList /\ sem \in WaitList /\ k.at = "task"
      /\ "EOK" \in Results
  BY SemAssumption DEF SemInv, SemGive, IsrGive, Runs, Interrupt, Results
<1>2. Fit(k) /\ Safe(k) /\ k.state[k.cur] = "RUNNING"
  BY <1>1, RunsTells
<1>3. CASE k.head[sem] = NULL
  <2>1. Given = k /\ units' = Add(units)
    BY <1>3 DEF Given, UnitsGiven, SemGive, IsrGive
  <2>2. UNCHANGED vars \/ Interrupt(k)
    BY <2>1 DEF SemGive, IsrGive
  <2>3. SemLine = << >>
    BY <1>1, <1>2, <1>3, LineTells, SemLineTells
  <2>4. SemLine' = SemLine /\ SemOutcome' = SemOutcome
    <3>1. CASE UNCHANGED vars
      BY <3>1 DEF vars, SemLine, SemOutcome, Waiting, Outcome, InBlockingCall
    <3>2. CASE Interrupt(k)
      <4>1. NoneBlocks(k, k, NULL)
        BY DEF NoneBlocks
      <4>2. Quiet(k', k, NULL) /\ UNCHANGED pc
        BY <1>1, <1>2, <3>2, <4>1, WakingKeeps
      <4> QED
        BY <4>2, SemWaitersStay DEF InBlockingCall
    <3> QED
      BY <2>2, <3>1, <3>2
  <2>5. CASE units < SemMax
    <3>1. Counting!Give
      BY <2>1, <2>3, <2>4, <2>5 DEF Counting!Give, Add, SemLine, SemOutcome
    <3> QED
      BY <3>1 DEF SemPromised, Counting!Next
  <2>6. CASE ~(units < SemMax)
    BY <2>1, <2>4, <2>6, SemStays DEF Add
  <2> QED
    BY <2>5, <2>6
<1>4. CASE k.head[sem] # NULL
  <2> DEFINE t == k.head[sem]
             s == HandOff(k, sem, "EOK")
  <2>1. t = k.head[sem] /\ s = HandOff(k, sem, "EOK") /\ t # NULL
    BY <1>4
  <2>2. Given = s /\ units' = units
    BY <1>4 DEF Given, UnitsGiven, SemGive, IsrGive
  <2> HIDE DEF t, s
  <2>3. /\ t \in Task /\ k.state[t] = "BLOCKED" /\ k.wait[t] = sem
        /\ Safe(s) /\ Fit(s) /\ s.at = "task" /\ s.cur = k.cur /\ s.state[s.cur] = "RUNNING"
        /\ s # k /\ NoneBlocks(s, k, NULL) /\ \A u \in Task : Lives(k, u) => Lives(s, u)
        /\ Departs(s, k, t, "EOK")
    BY <1>1, <2>1, GivenKeeps
  <2>4. (\E c \in Task : ThenSched(c, s)) \/ Interrupt(SchedFromIrq(s))
    BY <2>2, <2>3 DEF SemGive, IsrGive
  <2>5. Quiet(k', s, NULL) /\ UNCHANGED pc
    BY <1>1, <2>3, <2>4, WakingKeeps
  <2>6. /\ SemLine # << >> /\ Head(SemLine) = t /\ SemLine' = Tail(SemLine)
        /\ SemOutcome' = [SemOutcome EXCEPT ![t] = "EOK"]
    BY <2>1, <2>3, <2>5, FirstLeaves
  <2>7. Counting!Give
    BY <2>2, <2>6 DEF Counting!Give, SemLine, SemOutcome
  <2> QED
    BY <2>7 DEF SemPromised, Counting!Next
<1> QED
  BY <1>3, <1>4

\* os_sem_reset
LEMMA ResetPromised ==
  ASSUME BlockingBuilds, SemInv, SemInv', NEW c \in Task, NEW n \in 0 .. SemMax, SemReset(c, n)
  PROVE  SemPromised
<1>1. /\ IpcInv({sem}) /\ {sem} \in SUBSET WaitList /\ sem \in WaitList /\ k.at = "task"
      /\ units' = n /\ Fit(k) /\ Fit(k')
  BY SemAssumption DEF SemInv, SemReset, Runs, IpcInv, Sound
<1>2. \A t \in Task : k.state[t] = "BLOCKED" <=> Counting!InLine(t)
  <2>1. \A t \in Task : k.state[t] = "BLOCKED" => k.wait[t] = sem
    BY <1>1 DEF IpcInv, WaitsOn
  <2> QED
    BY <1>1, <2>1, LineTells, SemLineTells DEF Counting!InLine, SemLine
<1>3. CASE k.head[sem] = NULL
  <2>1. UNCHANGED vars /\ SemLine = << >>
    BY <1>1, <1>3, LineTells, SemLineTells DEF SemReset
  <2>2. SemLine' = SemLine /\ SemOutcome' = SemOutcome
    BY <2>1 DEF vars, SemLine, SemOutcome, Waiting, Outcome, InBlockingCall
  <2>3. \A t \in Task : ~Counting!InLine(t)
    BY <2>1 DEF Counting!InLine, SemLine
  <2>4. SemOutcome' = [t \in Task |-> IF Counting!InLine(t) THEN "ERROR" ELSE SemOutcome[t]]
    BY <2>2, <2>3 DEF SemOutcome
  <2>5. Counting!Reset(n)
    BY <1>1, <2>1, <2>2, <2>4 DEF Counting!Reset, SemLine, SemOutcome
  <2> QED
    BY <2>5 DEF SemPromised, Counting!Next
<1>4. CASE k.head[sem] # NULL
  <2> DEFINE s == Dismissed
  <2>1. Dismisses(s) /\ s.head[sem] = NULL
    BY <1>1, AllDismissed
  <2>2. ThenSched(c, s)
    BY <1>4 DEF SemReset
  <2> HIDE DEF s
  <2>3. NoneBlocks(s, k, NULL) /\ \A u \in Task : Lives(k, u) => Lives(s, u)
    BY <2>1 DEF Dismisses, NoneBlocks
  <2>4. Quiet(k', s, NULL) /\ UNCHANGED pc
    BY <1>1, <2>1, <2>2, <2>3, WakingKeeps DEF Dismisses
  <2>5. SemLine' = << >>
    <3>1. Line(s, sem) = << >> /\ Fit(s)
      BY <1>1, <2>1, LineTells DEF Dismisses
    <3>2. Line(k', sem) = Line(s, sem)
      BY <1>1, <2>4, <3>1, LineStaysPut
    <3> QED
      BY <3>1, <3>2, SemLineTells
  <2>6. \A t \in Task : s.state[t] # "BLOCKED"
    <3>1. \A t \in Task : s.state[t] = "BLOCKED" => s.wait[t] = sem
      BY <1>1, <2>1 DEF Dismisses, IpcInv, WaitsOn
    <3> QED
      BY <1>1, <2>1, <3>1, EmptyLine DEF Dismisses
  <2>7. \A t \in Task : /\ k'.state[t] # "BLOCKED"
                        /\ k'.result[t] = IF k.state[t] = "BLOCKED" THEN "ERROR" ELSE k.result[t]
    BY <2>1, <2>4, <2>6, IdleApart DEF Dismisses, Quiet, SameCalls
  <2>8. "take" \in k.build.ops /\ k'.build = k.build
    <3>1. k.build = k'.build
      BY <2>1, <2>4 DEF Dismisses, Quiet, SameCalls
    <3>2. \E t \in Task : k.state[t] = "BLOCKED"
      BY <1>1, <1>4, EmptyLine
    <3> QED
      BY <3>1, <3>2 DEF SemInv
  <2>9. \A t \in Task : Outcome(t)' = IF Counting!InLine(t) THEN "ERROR" ELSE Outcome(t)
    <3> TAKE t \in Task
    <3>1. InBlockingCall(t)' = InBlockingCall(t)
      BY <2>4 DEF InBlockingCall
    <3>2. k.state[t] = "BLOCKED" => InBlockingCall(t)
      BY <1>1 DEF IpcInv, CallsStand
    <3> QED
      BY <1>2, <2>7, <3>1, <3>2 DEF Outcome
  <2>10. SemOutcome' = [t \in Task |-> IF Counting!InLine(t) THEN "ERROR" ELSE SemOutcome[t]]
    BY <2>8, <2>9 DEF SemOutcome
  <2>11. Counting!Reset(n)
    BY <1>1, <2>5, <2>10 DEF Counting!Reset, SemLine, SemOutcome
  <2> QED
    BY <2>11 DEF SemPromised, Counting!Next
<1> QED
  BY <1>3, <1>4

\* The return of a take that had to wait.
LEMMA ReturnPromised ==
  ASSUME BlockingBuilds, SemInv, NEW c \in Task, SemReturn(c)
  PROVE  SemPromised
<1>1. IpcInv({sem}) /\ Returns(c) /\ UNCHANGED <<k, units>> /\ pc' = [pc EXCEPT ![c] = "run"]
  BY DEF SemInv, SemReturn
<1>2. /\ Outcome(c) \in Results
      /\ \A u \in Task : Outcome(u)' = IF u = c THEN "idle" ELSE Outcome(u)
  BY <1>1, OutcomeOfReturn
<1>3. SemLine' = SemLine
  BY <1>1, SemLineTells
<1>4. CASE "take" \in k.build.ops
  <2>1. SemOutcome[c] \in Results /\ SemOutcome' = [SemOutcome EXCEPT ![c] = "idle"]
    BY <1>1, <1>2, <1>4 DEF SemOutcome
  <2>2. Counting!Return(c)
    BY <1>1, <1>3, <2>1 DEF Counting!Return, SemLine, SemOutcome, Results
  <2> QED
    BY <2>2 DEF SemPromised, Counting!Next
<1>5. CASE "take" \notin k.build.ops
  BY <1>1, <1>3, <1>5, SemStays DEF SemOutcome
<1> QED
  BY <1>4, <1>5

LEMMA SemInitPromised == ASSUME SemInit PROVE Counting!Init
<1>1. IpcInv({sem}) /\ \A t \in Task : k.state[t] = "INIT"
  BY InitIpc, InitIdle DEF SemInit
<1>2. Fit(k) /\ sem \in WaitList
  BY <1>1, SemAssumption DEF IpcInv, Sound
<1>3. SemLine = << >>
  BY <1>1, <1>2, EmptyLine, LineTells, SemLineTells
<1>4. SemOutcome = [t \in Task |-> "idle"]
  <2>1. \A t \in Task : ~InBlockingCall(t)
    BY IdleApart DEF SemInit, KernelInit, InBlockingCall
  <2> QED
    BY <2>1 DEF SemOutcome, Outcome
<1> QED
  BY <1>3, <1>4 DEF SemInit, Counting!Init, SemLine, SemOutcome

LEMMA SemStepPromised ==
  ASSUME BlockingBuilds, SemInv, SemInv', [SemNext]_semvars
  PROVE  SemPromised
<1>1. CASE [TasksNext]_vars /\ UNCHANGED units
  BY <1>1, TasksPromised
<1>2. ASSUME NEW c \in Task, EnterBlocked(c), UNCHANGED units
      PROVE  SemPromised
  <2>1. IpcInv({sem}) /\ {sem} \in SUBSET WaitList
    BY SemAssumption DEF SemInv
  <2>2. Quiet(k', k, NULL)
    BY <1>2, <2>1, EnterKeeps
  <2>3. \A t \in Task : InBlockingCall(t)' = InBlockingCall(t)
    BY <1>2, <2>1, IdleApart DEF EnterBlocked, IpcInv, InBlockingCall
  <2> QED
    BY <1>2, <2>2, <2>3, SemWaitersStay, SemStays
<1> QED
  BY <1>1, <1>2, TakePromised, GivePromised, ResetPromised, ReturnPromised
     DEF SemNext, SemStep, semvars, vars

\* A semaphore implements CountingSem: over sound lists, timeouts, gives by interrupt
\* handlers and resets, units are neither lost nor handed out twice, waiters are
\* served in the order they came, and the answer of a take tells what happened.
THEOREM SemaphoresCount == ASSUME BlockingBuilds PROVE SemSpec => CountsAndServesInOrder
<1>1. SemInit => Counting!Init
  BY SemInitPromised
<1>2. SemInv /\ SemInv' /\ [SemNext]_semvars => [Counting!Next]_(Counting!cvars)
  BY SemStepPromised DEF SemPromised
<1> QED
  BY <1>1, <1>2, SemInvariant, PTL DEF SemSpec, CountsAndServesInOrder, Counting!Spec

-----------------------------------------------------------------------------
(* The ring as a sequence.                                                 *)

\* The index that is b slots after slot a.
LEMMA SlotAfter ==
  ASSUME NEW a \in 0 .. Capacity - 1, NEW b \in 0 .. Capacity
  PROVE  /\ (a + b) % Capacity = IF a + b < Capacity THEN a + b ELSE a + b - Capacity
         /\ (a + b) % Capacity \in Slot
<1>1. Capacity \in Nat /\ Capacity > 0
  BY RingAssumption
<1> QED
  BY <1>1 DEF Slot

LEMMA NextSlot ==
  ASSUME NEW a \in 0 .. Capacity - 1, NEW b \in 0 .. Capacity - 1,
         NEW c, c = (a + b) % Capacity
  PROVE  (c + 1) % Capacity = (a + (b + 1)) % Capacity
<1>1. Capacity \in Nat /\ 1 \in 0 .. Capacity /\ b \in 0 .. Capacity /\ b + 1 \in 0 .. Capacity
  BY RingAssumption
<1>2. /\ c = IF a + b < Capacity THEN a + b ELSE a + b - Capacity
      /\ c \in 0 .. Capacity - 1
  BY <1>1, SlotAfter DEF Slot
<1>3. (c + 1) % Capacity = IF c + 1 < Capacity THEN c + 1 ELSE c + 1 - Capacity
  BY <1>1, <1>2, SlotAfter
<1>4. (a + (b + 1)) % Capacity
        = IF a + (b + 1) < Capacity THEN a + (b + 1) ELSE a + (b + 1) - Capacity
  BY <1>1, SlotAfter
<1>5. CASE a + b + 1 < Capacity
  BY <1>1, <1>2, <1>3, <1>4, <1>5
<1>6. CASE a + b + 1 >= Capacity
  BY <1>1, <1>2, <1>3, <1>4, <1>6
<1> QED
  BY <1>1, <1>5, <1>6

LEMMA ContentsTypes ==
  ASSUME NEW T, NEW r \in RingType(T)
  PROVE  Contents(r) \in [1 .. r.count -> T] /\ r.count \in 0 .. Capacity
<1>1. /\ r.head \in 0 .. Capacity - 1 /\ r.count \in 0 .. Capacity /\ r.buffer \in [Slot -> T]
      /\ Capacity \in Nat
  BY RingAssumption DEF RingType, Slot
<1>2. ASSUME NEW j \in 1 .. r.count PROVE r.buffer[(r.head + j - 1) % Capacity] \in T
  <2>1. j - 1 \in 0 .. Capacity /\ r.head + j - 1 = r.head + (j - 1)
    BY <1>1
  <2> QED
    BY <1>1, <2>1, SlotAfter
<1> QED
  BY <1>1, <1>2 DEF Contents

LEMMA PushAppends ==
  ASSUME NEW T, NEW r \in RingType(T), Consistent(r), NEW m \in T, r.count < Capacity
  PROVE  /\ Consistent(Push(r, m)) /\ Contents(Push(r, m)) = Append(Contents(r), m)
         /\ Push(r, m).count = r.count + 1 /\ Push(r, m) \in RingType(T)
<1> DEFINE o == Push(r, m)
<1>1. o \in RingType(T) /\ o.count = r.count + 1
  BY PushTypes
<1>2. /\ o.head = r.head /\ o.tail = (r.tail + 1) % Capacity
      /\ o.buffer = [r.buffer EXCEPT ![r.tail] = m]
  BY DEF Push, RingType
<1> HIDE DEF o
<1>3. /\ r.head \in 0 .. Capacity - 1 /\ r.count \in 0 .. Capacity - 1 /\ Capacity \in Nat
      /\ r.tail \in 0 .. Capacity - 1 /\ r.tail = (r.head + r.count) % Capacity
      /\ r.buffer \in [Slot -> T] /\ 1 \in 0 .. Capacity
  BY RingAssumption DEF RingType, Slot, Consistent
<1>4. r.tail = IF r.head + r.count < Capacity THEN r.head + r.count
                                              ELSE r.head + r.count - Capacity
  <2>1. r.count \in 0 .. Capacity
    BY <1>3
  <2> QED
    BY <1>3, <2>1, SlotAfter
<1>5. Consistent(o)
  <2>1. (r.tail + 1) % Capacity = (r.head + (r.count + 1)) % Capacity
    BY <1>3, NextSlot
  <2> QED
    BY <1>1, <1>2, <2>1 DEF Consistent
<1>6. \A j \in 1 .. r.count + 1 :
        o.buffer[(r.head + j - 1) % Capacity]
          = IF j = r.count + 1 THEN m ELSE r.buffer[(r.head + j - 1) % Capacity]
  <2> TAKE j \in 1 .. r.count + 1
  <2> DEFINE i == (r.head + j - 1) % Capacity
  <2>1. j - 1 \in 0 .. Capacity /\ r.head + j - 1 = r.head + (j - 1)
    BY <1>3
  <2>2. /\ i = IF r.head + (j - 1) < Capacity THEN r.head + (j - 1)
                                              ELSE r.head + (j - 1) - Capacity
        /\ i \in Slot
    BY <1>3, <2>1, SlotAfter
  <2> HIDE DEF i
  <2>3. i = r.tail <=> j = r.count + 1
    BY <1>3, <1>4, <2>1, <2>2
  <2>4. o.buffer[i] = IF i = r.tail THEN m ELSE r.buffer[i]
    BY <1>2, <1>3, <2>2
  <2> QED
    BY <2>3, <2>4 DEF i
<1>7. Contents(o) = Append(Contents(r), m)
  <2> DEFINE w == Contents(r)
             v == Contents(o)
  <2>1. w \in [1 .. r.count -> T] /\ v \in [1 .. r.count + 1 -> T]
    BY <1>1, ContentsTypes
  <2>2. \A j \in 1 .. r.count + 1 : v[j] = IF j = r.count + 1 THEN m ELSE w[j]
    <3> TAKE j \in 1 .. r.count + 1
    <3>1. v[j] = o.buffer[(r.head + j - 1) % Capacity]
      BY <1>1, <1>2 DEF Contents
    <3>2. j # r.count + 1 => j \in 1 .. r.count
      BY <1>3
    <3>3. j # r.count + 1 => w[j] = r.buffer[(r.head + j - 1) % Capacity]
      BY <3>2 DEF Contents
    <3> QED
      BY <1>6, <3>1, <3>3
  <2> HIDE DEF w, v
  <2>3. v = Longer(w, r.count, m)
    BY <1>3, <2>1, <2>2 DEF Longer
  <2>4. Longer(w, r.count, m) = Append(w, m)
    <3>1. r.count \in Nat
      BY <1>3
    <3> QED
      BY <2>1, <3>1, LongerIsAppend
  <2> QED
    BY <2>3, <2>4 DEF w, v
<1> QED
  BY <1>1, <1>5, <1>7 DEF o

LEMMA PopIsTail ==
  ASSUME NEW T, NEW r \in RingType(T), Consistent(r), r.count > 0
  PROVE  /\ Consistent(Pop(r)) /\ Contents(Pop(r)) = Tail(Contents(r))
         /\ Contents(r) # << >> /\ Oldest(r) = Head(Contents(r))
         /\ Pop(r).count = r.count - 1 /\ Pop(r) \in RingType(T)
<1> DEFINE o == Pop(r)
<1>1. o \in RingType(T) /\ o.count = r.count - 1
  BY PopTypes
<1>2. o.head = (r.head + 1) % Capacity /\ o.tail = r.tail /\ o.buffer = r.buffer
  BY DEF Pop, RingType
<1> HIDE DEF o
<1>3. /\ r.head \in 0 .. Capacity - 1 /\ r.count \in 1 .. Capacity /\ Capacity \in Nat
      /\ r.tail = (r.head + r.count) % Capacity /\ r.buffer \in [Slot -> T]
      /\ 1 \in 0 .. Capacity
  BY RingAssumption DEF RingType, Slot, Consistent
<1>4. /\ o.head = IF r.head + 1 < Capacity THEN r.head + 1 ELSE r.head + 1 - Capacity
      /\ o.head \in 0 .. Capacity - 1
  BY <1>2, <1>3, SlotAfter DEF Slot
<1>5. ASSUME NEW j \in 0 .. r.count - 1
      PROVE  (o.head + j) % Capacity = (r.head + (j + 1)) % Capacity
  <2>1. j \in 0 .. Capacity /\ j + 1 \in 0 .. Capacity
    BY <1>3
  <2>2. (o.head + j) % Capacity = IF o.head + j < Capacity THEN o.head + j
                                                           ELSE o.head + j - Capacity
    BY <1>4, <2>1, SlotAfter
  <2>3. (r.head + (j + 1)) % Capacity
          = IF r.head + (j + 1) < Capacity THEN r.head + (j + 1) ELSE r.head + (j + 1) - Capacity
    BY <1>3, <2>1, SlotAfter
  <2> QED
    BY <1>3, <1>4, <2>1, <2>2, <2>3
<1>6. Consistent(o)
  <2>1. r.count - 1 \in 0 .. r.count - 1 /\ (r.count - 1) + 1 = r.count
    BY <1>3
  <2>2. (o.head + (r.count - 1)) % Capacity = (r.head + r.count) % Capacity
    BY <1>5, <2>1
  <2> QED
    BY <1>1, <1>2, <1>3, <2>2 DEF Consistent
<1> DEFINE w == Contents(r)
           v == Contents(o)
<1>7. w \in [1 .. r.count -> T] /\ v \in [1 .. r.count - 1 -> T]
  BY <1>1, ContentsTypes
<1>8. ASSUME NEW j \in 1 .. r.count - 1 PROVE v[j] = w[j + 1]
  <2>1. j - 1 \in 0 .. r.count - 1 /\ (j - 1) + 1 = j /\ j + 1 \in 1 .. r.count
        /\ o.head + j - 1 = o.head + (j - 1) /\ r.head + (j + 1) - 1 = r.head + j
    BY <1>3, <1>4
  <2>2. (o.head + (j - 1)) % Capacity = (r.head + j) % Capacity
    BY <1>5, <2>1
  <2>3. v[j] = o.buffer[(o.head + j - 1) % Capacity]
    BY <1>1 DEF Contents
  <2>4. w[j + 1] = r.buffer[(r.head + (j + 1) - 1) % Capacity]
    BY <2>1 DEF Contents
  <2> QED
    BY <1>2, <2>1, <2>2, <2>3, <2>4
<1>9. w[1] = Oldest(r)
  <2>1. w[1] = r.buffer[(r.head + 1 - 1) % Capacity]
    BY <1>3 DEF Contents
  <2>2. r.head + 1 - 1 = r.head + 0 /\ 0 \in 0 .. Capacity
    BY <1>3
  <2>3. (r.head + 0) % Capacity = r.head
    BY <1>3, <2>2, SlotAfter
  <2> QED
    BY <2>1, <2>2, <2>3 DEF Oldest
<1> HIDE DEF w, v
<1>10. v = Closed(w, r.count, 1)
  BY <1>3, <1>7, <1>8 DEF Closed
<1>11. Closed(w, r.count, 1) = Tail(w) /\ Head(w) = w[1] /\ w # << >>
  <2>1. r.count \in Nat /\ r.count # 0
    BY <1>3
  <2> QED
    BY <1>7, <2>1, ClosedIsTail
<1> QED
  BY <1>1, <1>6, <1>9, <1>10, <1>11 DEF o, w, v

-----------------------------------------------------------------------------
(* Message queues.                                                         *)

\* What the mapping at the end of module Queue makes of the waiters.
Offers == Waiting(send_wait)
Takers == Waiting(recv_wait)
Transfers(s) == {"send", "recv"} \cap s.build.ops # {}
FifoOutcome == [t \in Task |-> IF Transfers(k) THEN Outcome(t) ELSE "idle"]

\* Who does not use the queue does not wait, and no wait was dismissed.
FifoCalls(s) ==
  /\ Transfers(s) \/ \A t \in Task : s.state[t] # "BLOCKED"
  /\ \A t \in Task : s.result[t] # "ERROR"

FifoInv == QueueInv /\ Consistent(q) /\ FifoCalls(k)

FifoPromised == [Fifo!Next]_(Fifo!fvars)

LEMMA FifoLinesTell ==
  /\ Offers = Line(k, send_wait) /\ Offers' = Line(k', send_wait)
  /\ Takers = Line(k, recv_wait) /\ Takers' = Line(k', recv_wait)
  BY DEF Offers, Takers, Waiting, Line

LEMMA FifoFacts ==
  ASSUME BlockingBuilds, QueueInv
  PROVE  /\ Fit(k) /\ send_wait \in WaitList /\ recv_wait \in WaitList /\ send_wait # recv_wait
         /\ IpcInv(QueueLists) /\ QueueLists \in SUBSET WaitList /\ "EOK" \in Results
         /\ send_wait \in QueueLists /\ recv_wait \in QueueLists
         /\ \A t \in Task : k.state[t] = "BLOCKED" =>
              (k.wait[t] = send_wait \/ k.wait[t] = recv_wait) /\ InBlockingCall(t)
         /\ k.head[send_wait] = NULL <=> Offers = << >>
         /\ k.head[recv_wait] = NULL <=> Takers = << >>
<1>1. /\ IpcInv(QueueLists) /\ Fit(k)
      /\ send_wait \in WaitList /\ recv_wait \in WaitList /\ send_wait # recv_wait
  BY QueueAssumption DEF QueueInv, IpcInv, Sound
<1>2. /\ k.head[send_wait] = NULL <=> Offers = << >>
      /\ k.head[recv_wait] = NULL <=> Takers = << >>
  BY <1>1, LineTells, FifoLinesTell
<1> QED
  BY <1>1, <1>2 DEF IpcInv, WaitsOn, CallsStand, QueueLists, Results

\* A step that leaves the waiters and their calls alone, ...
LEMMA FifoWaitersStay ==
  ASSUME BlockingBuilds, FifoInv, QueueInv', Quiet(k', k, NULL),
         \A t \in Task : InBlockingCall(t)' = InBlockingCall(t)
  PROVE  Offers' = Offers /\ Takers' = Takers /\ FifoOutcome' = FifoOutcome /\ FifoCalls(k')
<1>1. /\ Fit(k) /\ Fit(k')
      /\ send_wait \in WaitList /\ recv_wait \in WaitList
  BY FifoFacts DEF FifoInv, QueueInv, IpcInv, Sound
<1>2. Offers' = Offers /\ Takers' = Takers
  BY <1>1, FifoLinesTell, LineStaysPut
<1>3. \A t \in Task : Outcome(t)' = Outcome(t)
  BY OutcomesStay DEF Quiet
<1>4. /\ k'.build = k.build
      /\ \A t \in Task : /\ k'.state[t] = "BLOCKED" <=> k.state[t] = "BLOCKED"
                         /\ k'.result[t] = k.result[t]
  BY IdleApart DEF Quiet, SameCalls
<1> QED
  BY <1>2, <1>3, <1>4 DEF FifoOutcome, FifoInv, FifoCalls, Transfers

\* ... one by which a waiter leaves, ...
LEMMA FifoWaiterLeaves ==
  ASSUME BlockingBuilds, FifoInv, QueueInv', NEW t \in Task, k.state[t] = "BLOCKED",
         NEW result, result # "ERROR", Departs(k', k, t, result),
         \A u \in Task : InBlockingCall(u)' = InBlockingCall(u)
  PROVE  /\ k.wait[t] = send_wait =>
              /\ \E j \in 1 .. Len(Offers) : /\ Offers[j] = t
                                             /\ Offers' = Closed(Offers, Len(Offers), j)
              /\ Takers' = Takers
              /\ k.head[send_wait] = t => Head(Offers) = t /\ Offers' = Tail(Offers)
         /\ k.wait[t] = recv_wait =>
              /\ \E j \in 1 .. Len(Takers) : /\ Takers[j] = t
                                             /\ Takers' = Closed(Takers, Len(Takers), j)
              /\ Offers' = Offers
              /\ k.head[recv_wait] = t => Head(Takers) = t /\ Takers' = Tail(Takers)
         /\ FifoOutcome[t] = "waiting"
         /\ FifoOutcome' = [FifoOutcome EXCEPT ![t] = result]
         /\ FifoCalls(k')
<1>1. /\ Fit(k) /\ Fit(k') /\ InBlockingCall(t) /\ Transfers(k)
      /\ send_wait \in WaitList /\ recv_wait \in WaitList /\ send_wait # recv_wait
  BY FifoFacts DEF FifoInv, FifoCalls, QueueInv, IpcInv, Sound
<1>2. ASSUME NEW l \in WaitList, k.head[l] = t, k.wait[t] = l
      PROVE  Head(Line(k, l)) = t /\ Line(k', l) = Tail(Line(k, l))
  <2>1. k.head[l] # NULL
    BY <1>2, IdleApart
  <2>2. Head(Line(k, l)) = t
    BY <1>1, <1>2, <2>1, LineTells
  <2>3. Line(k', l) = Tail(Line(k, l))
    BY <1>1, <1>2, <2>1, FirstDeparts
  <2> QED
    BY <2>2, <2>3
<1>3. /\ FifoOutcome[t] = "waiting" /\ FifoOutcome' = [FifoOutcome EXCEPT ![t] = result]
      /\ FifoCalls(k')
  <2>1. \A u \in Task : Outcome(u)' = IF u = t THEN result ELSE Outcome(u)
    BY <1>1, OutcomeOfDeparture
  <2>2. /\ k'.build = k.build /\ k'.result[t] = result
        /\ \A u \in Task \ {t} : k'.result[u] = k.result[u]
    BY DEF Departs, SameCalls
  <2>3. Outcome(t) = "waiting"
    BY <1>1 DEF Outcome
  <2> QED
    BY <1>1, <2>1, <2>2, <2>3 DEF FifoOutcome, FifoCalls, FifoInv, Transfers
<1>4. CASE k.wait[t] = send_wait
  <2>1. /\ \E j \in 1 .. Len(Offers) : Offers[j] = t /\ Offers' = Closed(Offers, Len(Offers), j)
        /\ Takers' = Takers
    BY <1>1, <1>4, FifoLinesTell, LineDeparts
  <2> QED
    BY <1>1, <1>2, <1>3, <1>4, <2>1, FifoLinesTell
<1>5. CASE k.wait[t] = recv_wait
  <2>1. /\ \E j \in 1 .. Len(Takers) : Takers[j] = t /\ Takers' = Closed(Takers, Len(Takers), j)
        /\ Offers' = Offers
    BY <1>1, <1>5, FifoLinesTell, LineDeparts
  <2> QED
    BY <1>1, <1>2, <1>3, <1>5, <2>1, FifoLinesTell
<1> QED
  BY <1>1, <1>3, <1>4, <1>5, FifoFacts

\* ... and one by which the caller c joins one of the lines.
LEMMA FifoWaiterArrives ==
  ASSUME BlockingBuilds, FifoInv, QueueInv', NEW c \in Task, Runs(c), Transfers(k),
         NEW l \in QueueLists, NEW timeout \in Timeouts, Block(k, c, l, timeout)
  PROVE  /\ l = send_wait => Offers' = Append(Offers, c) /\ Takers' = Takers
         /\ l = recv_wait => Takers' = Append(Takers, c) /\ Offers' = Offers
         /\ FifoOutcome' = [FifoOutcome EXCEPT ![c] = "waiting"]
         /\ FifoCalls(k')
<1>1. /\ Fit(k) /\ Fit(k') /\ IpcInv(QueueLists) /\ QueueLists \in SUBSET WaitList
      /\ l \in WaitList
      /\ send_wait \in WaitList /\ recv_wait \in WaitList /\ send_wait # recv_wait
  BY FifoFacts DEF FifoInv, QueueInv, IpcInv, Sound
<1>2. PICK r : /\ Safe(r) /\ Fit(r) /\ Arrives(r, k, c, l) /\ Quiet(k', r, NULL)
               /\ r.result[c] = "ETIMEOUT"
  BY <1>1, BlockKeeps
<1>3. k'.state[c] = "BLOCKED" /\ pc' = [pc EXCEPT ![c] = "back"]
  BY <1>1, BlockKeeps
<1>4. SameCalls(k', k, c) /\ k'.build = k.build /\ k'.result[c] = "ETIMEOUT"
  BY <1>2, IdleApart DEF SameCalls, Arrives, Quiet
<1>5. ASSUME NEW m \in WaitList
      PROVE  Line(k', m) = IF m = l THEN Append(Line(k, m), c) ELSE Line(k, m)
  <2>1. Line(r, m) = IF m = l THEN Append(Line(k, m), c) ELSE Line(k, m)
    BY <1>1, <1>2, LineArrives
  <2>2. Line(k', m) = Line(r, m)
    BY <1>1, <1>2, LineStaysPut
  <2> QED
    BY <2>1, <2>2
<1>6. /\ l = send_wait => Offers' = Append(Offers, c) /\ Takers' = Takers
      /\ l = recv_wait => Takers' = Append(Takers, c) /\ Offers' = Offers
  BY <1>1, <1>5, FifoLinesTell
<1>7. \A u \in Task : Outcome(u)' = IF u = c THEN "waiting" ELSE Outcome(u)
  BY <1>1, <1>3, <1>4, OutcomeOfArrival
<1>8. FifoOutcome' = [FifoOutcome EXCEPT ![c] = "waiting"]
  BY <1>4, <1>7 DEF FifoOutcome, Transfers
<1>9. FifoCalls(k')
  <2>1. \A u \in Task \ {c} : k'.result[u] = k.result[u]
    BY <1>4 DEF SameCalls
  <2> QED
    BY <1>4, <2>1 DEF FifoCalls, FifoInv, Transfers
<1> QED
  BY <1>6, <1>8, <1>9

LEMMA FifoStays ==
  ASSUME UNCHANGED <<q, parcel>>, Offers' = Offers, Takers' = Takers, FifoOutcome' = FifoOutcome
  PROVE  FifoPromised
<1>1. Contents(q)' = Contents(q)
  OBVIOUS
<1> QED
  BY <1>1 DEF FifoPromised, Fifo!fvars, Offers, Takers, FifoOutcome, Transfers

\* Steps of the kernel and of the task interface: a waiter may time out.
LEMMA FifoTasksPromised ==
  ASSUME BlockingBuilds, FifoInv, QueueInv', [TasksNext]_vars, UNCHANGED <<q, parcel>>
  PROVE  FifoCalls(k') /\ FifoPromised
<1>1. IpcInv(QueueLists) /\ QueueLists \in SUBSET WaitList
  BY FifoFacts DEF FifoInv
<1>2. \A t \in Task : InBlockingCall(t)' = InBlockingCall(t)
  BY <1>1, StepPlaces
<1>3. CASE Quiet(k', k, NULL)
  BY <1>2, <1>3, FifoWaitersStay, FifoStays
<1>4. ASSUME NEW t \in Task, k.state[t] = "BLOCKED", Departs(k', k, t, "ETIMEOUT")
      PROVE  FifoCalls(k') /\ FifoPromised
  <2>1. k.wait[t] = send_wait \/ k.wait[t] = recv_wait
    BY <1>4, FifoFacts DEF FifoInv
  <2>2. FifoCalls(k') /\ FifoOutcome[t] = "waiting"
        /\ FifoOutcome' = [FifoOutcome EXCEPT ![t] = "ETIMEOUT"]
    BY <1>2, <1>4, FifoWaiterLeaves
  <2>3. Contents(q)' = Contents(q)
    OBVIOUS
  <2>4. CASE k.wait[t] = send_wait
    <3>1. Fifo!Leaves(t, Offers, Offers') /\ Takers' = Takers
      BY <1>2, <1>4, <2>4, FifoWaiterLeaves DEF Fifo!Leaves, Fifo!Without, Closed
    <3>2. Fifo!GiveUp(t)
      BY <2>2, <2>3, <3>1 DEF Fifo!GiveUp, Fifo!Answer, Offers, Takers, FifoOutcome, Transfers
    <3> QED
      BY <2>2, <3>2 DEF FifoPromised, Fifo!Next
  <2>5. CASE k.wait[t] = recv_wait
    <3>1. Fifo!Leaves(t, Takers, Takers') /\ Offers' = Offers
      BY <1>2, <1>4, <2>5, FifoWaiterLeaves DEF Fifo!Leaves, Fifo!Without, Closed
    <3>2. Fifo!GiveUp(t)
      BY <2>2, <2>3, <3>1 DEF Fifo!GiveUp, Fifo!Answer, Offers, Takers, FifoOutcome, Transfers
    <3> QED
      BY <2>2, <3>2 DEF FifoPromised, Fifo!Next
  <2> QED
    BY <2>1, <2>4, <2>5
<1> QED
  BY <1>1, <1>3, <1>4, StepDeparts

\* The first of the line of list l leaves in a call that has made s of the kernel.
LEMMA FifoFirstLeaves ==
  ASSUME BlockingBuilds, FifoInv, QueueInv', k.at = "task",
         NEW l \in QueueLists, NEW t, t = k.head[l], t # NULL,
         \/ \E c \in Task : ThenSched(c, HandOff(k, l, "EOK"))
         \/ Interrupt(SchedFromIrq(HandOff(k, l, "EOK")))
  PROVE  /\ t \in Task
         /\ l = recv_wait => /\ Takers # << >> /\ Head(Takers) = t /\ Takers' = Tail(Takers)
                             /\ Offers' = Offers
         /\ l = send_wait => /\ Offers # << >> /\ Head(Offers) = t /\ Offers' = Tail(Offers)
                             /\ Takers' = Takers
         /\ FifoOutcome' = [FifoOutcome EXCEPT ![t] = "EOK"]
         /\ FifoCalls(k')
<1> DEFINE s == HandOff(k, l, "EOK")
<1>1. s = HandOff(k, l, "EOK")
  OBVIOUS
<1>2. (\E c \in Task : ThenSched(c, s)) \/ Interrupt(SchedFromIrq(s))
  OBVIOUS
<1> HIDE DEF s
<1>3. /\ IpcInv(QueueLists) /\ QueueLists \in SUBSET WaitList /\ l \in WaitList
      /\ "EOK" \in Results
  BY FifoFacts DEF FifoInv
<1>4. /\ t \in Task /\ k.state[t] = "BLOCKED" /\ k.wait[t] = l
      /\ Safe(s) /\ Fit(s) /\ s.at = "task" /\ s.cur = k.cur /\ s.state[s.cur] = "RUNNING"
      /\ s # k /\ NoneBlocks(s, k, NULL) /\ \A u \in Task : Lives(k, u) => Lives(s, u)
      /\ Departs(s, k, t, "EOK")
  BY <1>1, <1>3, GivenKeeps
<1>5. Quiet(k', s, NULL) /\ UNCHANGED pc
  BY <1>2, <1>3, <1>4, WakingKeeps
<1>6. Departs(k', k, t, "EOK")
  BY <1>4, <1>5, DepartsThen
<1>7. \A u \in Task : InBlockingCall(u)' = InBlockingCall(u)
  BY <1>5 DEF InBlockingCall
<1>8. /\ l = recv_wait => Takers # << >>
      /\ l = send_wait => Offers # << >>
  BY FifoFacts DEF FifoInv
<1> QED
  BY <1>4, <1>6, <1>7, <1>8, FifoWaiterLeaves

\* The ring as the sequence of the messages kept.
LEMMA KeptTells ==
  ASSUME QueueInv
  PROVE  /\ Contents(q) \in Seq(Msg \cup {NULL}) /\ Len(Contents(q)) = q.count
         /\ Contents(q) = << >> <=> q.count = 0
         /\ q.count \in 0 .. Capacity /\ Capacity \in Nat
<1>1. /\ q \in RingType(Msg \cup {NULL}) /\ Capacity \in Nat
  BY RingAssumption DEF QueueInv
<1>2. Contents(q) \in [1 .. q.count -> Msg \cup {NULL}] /\ q.count \in 0 .. Capacity
  BY <1>1, ContentsTypes
<1>3. q.count \in Nat
  BY <1>1, <1>2
<1>4. Contents(q) \in Seq(Msg \cup {NULL}) /\ Len(Contents(q)) = q.count
  BY <1>2, <1>3, FunctionsAreLines
<1>5. Contents(q) = << >> <=> q.count = 0
  BY <1>4
<1> QED
  BY <1>1, <1>2, <1>4, <1>5

\* os_queue_send, by a task or by an interrupt handler: a message that is kept, ...
LEMMA KeptPromised ==
  ASSUME BlockingBuilds, FifoInv, QueueInv', NEW c \in Task \cup {NULL}, NEW m \in Msg,
         k.head[recv_wait] = NULL, q.count < Capacity, q' = Push(q, m),
         parcel' = IF c = NULL THEN parcel ELSE [parcel EXCEPT ![c] = m],
         UNCHANGED vars \/ Interrupt(k)
  PROVE  Consistent(q') /\ FifoCalls(k') /\ FifoPromised
<1>1. /\ Consistent(q') /\ Contents(q') = Append(Contents(q), m)
      /\ Len(Contents(q)) < Capacity
  BY PushAppends, KeptTells DEF FifoInv, QueueInv
<1>2. /\ Takers = << >> /\ IpcInv(QueueLists) /\ QueueLists \in SUBSET WaitList
  BY FifoFacts DEF FifoInv
<1>3. Offers' = Offers /\ Takers' = Takers /\ FifoOutcome' = FifoOutcome /\ FifoCalls(k')
  <2>1. CASE UNCHANGED vars
    BY <2>1 DEF vars, Offers, Takers, Waiting, FifoOutcome, Outcome, InBlockingCall, Transfers,
                FifoInv
  <2>2. CASE Interrupt(k)
    <3>1. /\ k.at = "task" /\ Fit(k) /\ Safe(k) /\ k.state[k.cur] = "RUNNING"
      BY <1>2, <2>2, RunsTells DEF Interrupt
    <3>2. NoneBlocks(k, k, NULL)
      BY DEF NoneBlocks
    <3>3. Quiet(k', k, NULL) /\ UNCHANGED pc
      BY <1>2, <2>2, <3>1, <3>2, WakingKeeps
    <3> QED
      BY <3>3, FifoWaitersStay DEF InBlockingCall
  <2> QED
    BY <2>1, <2>2
<1>4. Fifo!Send(c, m)
  BY <1>1, <1>2, <1>3 DEF Fifo!Send, Offers, Takers, FifoOutcome, Transfers
<1> QED
  BY <1>1, <1>3, <1>4 DEF FifoPromised, Fifo!Next

\* ... and one that a waiting receiver takes.
LEMMA HandedPromised ==
  ASSUME BlockingBuilds, FifoInv, QueueInv', NEW c \in Task \cup {NULL}, NEW m \in Msg,
         NEW t, t = k.head[recv_wait], t # NULL, k.at = "task", UNCHANGED q,
         NEW mine, mine = IF c = NULL THEN parcel ELSE [parcel EXCEPT ![c] = m],
         parcel' = [mine EXCEPT ![t] = m],
         \/ \E d \in Task : ThenSched(d, HandOff(k, recv_wait, "EOK"))
         \/ Interrupt(SchedFromIrq(HandOff(k, recv_wait, "EOK")))
  PROVE  FifoCalls(k') /\ FifoPromised
<1>1. recv_wait \in QueueLists
  BY DEF QueueLists
<1>2. /\ Takers # << >> /\ Head(Takers) = t /\ Takers' = Tail(Takers) /\ Offers' = Offers
      /\ FifoOutcome' = [FifoOutcome EXCEPT ![t] = "EOK"]
      /\ FifoCalls(k')
  BY <1>1, FifoFirstLeaves
<1>3. Contents(q)' = Contents(q)
  OBVIOUS
<1>4. Fifo!Send(c, m)
  BY <1>2, <1>3 DEF Fifo!Send, Fifo!Answer, Offers, Takers, FifoOutcome, Transfers
<1> QED
  BY <1>2, <1>4 DEF FifoPromised, Fifo!Next

LEMMA QueueSendPromised ==
  ASSUME BlockingBuilds, FifoInv, QueueInv', NEW c \in Task, NEW m \in Msg,
         NEW timeout \in Timeouts, QueueSend(c, m, timeout)
  PROVE  Consistent(q') /\ FifoCalls(k') /\ FifoPromised
<1>1. c # NULL /\ k.at = "task" /\ Runs(c) /\ Transfers(k) /\ Consistent(q)
  BY IdleApart DEF QueueSend, Runs, Transfers, FifoInv
<1>2. CASE SendToWaiter(c, m)
  <2> DEFINE t == k.head[recv_wait]
             mine == [parcel EXCEPT ![c] = m]
  <2>1. t # NULL /\ ThenSched(c, HandOff(k, recv_wait, "EOK")) /\ UNCHANGED q
    BY <1>2 DEF SendToWaiter
  <2>2. parcel' = [mine EXCEPT ![t] = m]
    BY <1>2 DEF SendToWaiter
  <2>3. t = k.head[recv_wait] /\ mine = IF c = NULL THEN parcel ELSE [parcel EXCEPT ![c] = m]
    BY <1>1
  <2> HIDE DEF t, mine
  <2> QED
    BY <1>1, <2>1, <2>2, <2>3, HandedPromised
<1>3. CASE SendBuffered(c, m)
  BY <1>1, <1>3, KeptPromised DEF SendBuffered
<1>4. CASE SendBlocked(c, m, timeout)
  <2>1. /\ send_wait \in QueueLists /\ Block(k, c, send_wait, timeout) /\ UNCHANGED q
        /\ parcel' = [parcel EXCEPT ![c] = m] /\ Contents(q)' = Contents(q)
    BY <1>4 DEF SendBlocked, QueueLists
  <2>2. /\ Offers' = Append(Offers, c) /\ Takers' = Takers
        /\ FifoOutcome' = [FifoOutcome EXCEPT ![c] = "waiting"]
        /\ FifoCalls(k')
    BY <1>1, <2>1, FifoWaiterArrives
  <2>3. Len(Contents(q)) = Capacity
    BY <1>4, KeptTells DEF SendBlocked, FifoInv
  <2>4. Fifo!Send(c, m)
    BY <1>1, <2>1, <2>2, <2>3 DEF Fifo!Send, Fifo!Answer, Offers, Takers, FifoOutcome, Transfers
  <2> QED
    BY <1>1, <2>1, <2>2, <2>4 DEF FifoPromised, Fifo!Next
<1> QED
  BY <1>2, <1>3, <1>4 DEF QueueSend

LEMMA IsrSendPromised ==
  ASSUME BlockingBuilds, FifoInv, QueueInv', NEW m \in Msg, IsrSend(m)
  PROVE  Consistent(q') /\ FifoCalls(k') /\ FifoPromised
<1>1. CASE k.head[recv_wait] # NULL
  <2> DEFINE t == k.head[recv_wait]
  <2>1. t # NULL /\ Interrupt(SchedFromIrq(HandOff(k, recv_wait, "EOK"))) /\ UNCHANGED q
        /\ parcel' = [parcel EXCEPT ![t] = m] /\ t = k.head[recv_wait]
    BY <1>1 DEF IsrSend
  <2>2. k.at = "task" /\ Consistent(q)
    BY <2>1 DEF Interrupt, FifoInv
  <2> HIDE DEF t
  <2> QED
    BY <2>1, <2>2, HandedPromised
<1>2. CASE k.head[recv_wait] = NULL
  BY <1>2, KeptPromised DEF IsrSend
<1> QED
  BY <1>1, <1>2

\* os_queue_recv
LEMMA QueueRecvPromised ==
  ASSUME BlockingBuilds, FifoInv, QueueInv', NEW c \in Task, NEW timeout \in Timeouts,
         QueueRecv(c, timeout)
  PROVE  Consistent(q') /\ FifoCalls(k') /\ FifoPromised
<1>1. c # NULL /\ k.at = "task" /\ Runs(c) /\ Transfers(k) /\ Consistent(q)
  BY IdleApart DEF QueueRecv, Runs, Transfers, FifoInv
<1>2. CASE q.count > 0
  <2> DEFINE o == Pop(q)
             t == k.head[send_wait]
  <2>1. /\ Consistent(o) /\ Contents(o) = Tail(Contents(q)) /\ o.count = q.count - 1
        /\ o \in RingType(Msg \cup {NULL})
        /\ Contents(q) # << >> /\ Oldest(q) = Head(Contents(q))
    BY <1>1, <1>2, PopIsTail DEF QueueInv, FifoInv
  <2>2. parcel' = [parcel EXCEPT ![c] = Oldest(q)]
    BY <1>2 DEF QueueRecv
  <2>3. q' = IF t = NULL THEN o ELSE Push(o, parcel[t])
    BY <1>2 DEF QueueRecv, Refilled
  <2>4. IF t = NULL THEN UNCHANGED vars ELSE ThenSched(c, HandOff(k, send_wait, "EOK"))
    BY <1>2 DEF QueueRecv
  <2>5. t = k.head[send_wait] /\ (t = NULL <=> Offers = << >>) /\ send_wait \in QueueLists
    BY FifoFacts DEF FifoInv
  <2> HIDE DEF o, t
  <2>6. CASE t = NULL
    <3>1. Offers' = Offers /\ Takers' = Takers /\ FifoOutcome' = FifoOutcome /\ FifoCalls(k')
      BY <2>4, <2>6 DEF vars, Offers, Takers, Waiting, FifoOutcome, Outcome, InBlockingCall,
                        Transfers, FifoInv
    <3>2. Consistent(q') /\ Contents(q)' = Tail(Contents(q))
      BY <2>1, <2>3, <2>6
    <3>3. Fifo!Receive(c)
      BY <2>1, <2>2, <2>5, <2>6, <3>1, <3>2
         DEF Fifo!Receive, Offers, Takers, FifoOutcome, Transfers
    <3> QED
      BY <3>1, <3>2, <3>3 DEF FifoPromised, Fifo!Next
  <2>7. CASE t # NULL
    <3>1. /\ t \in Task /\ Offers # << >> /\ Head(Offers) = t /\ Offers' = Tail(Offers)
          /\ Takers' = Takers /\ FifoOutcome' = [FifoOutcome EXCEPT ![t] = "EOK"]
          /\ FifoCalls(k')
      BY <1>1, <2>4, <2>5, <2>7, FifoFirstLeaves
    <3>2. parcel[t] \in Msg \cup {NULL}
      BY <3>1 DEF QueueInv, FifoInv
    <3>3. o.count < Capacity
      BY <2>1, KeptTells DEF FifoInv
    <3>4. Consistent(q') /\ Contents(q') = Append(Contents(o), parcel[t])
      BY <2>1, <2>3, <2>7, <3>2, <3>3, PushAppends
    <3>5. Contents(q)' = Append(Tail(Contents(q)), parcel[Head(Offers)])
      BY <2>1, <3>1, <3>4
    <3>6. Fifo!Receive(c)
      BY <2>1, <2>2, <3>1, <3>5
         DEF Fifo!Receive, Fifo!Answer, Offers, Takers, FifoOutcome, Transfers
    <3> QED
      BY <3>1, <3>4, <3>6 DEF FifoPromised, Fifo!Next
  <2> QED
    BY <2>6, <2>7
<1>3. CASE q.count = 0 /\ Block(k, c, recv_wait, timeout) /\ UNCHANGED <<q, parcel>>
  <2>1. recv_wait \in QueueLists /\ Contents(q) = << >> /\ Contents(q)' = Contents(q)
    BY <1>3, KeptTells DEF QueueLists, FifoInv
  <2>2. /\ Takers' = Append(Takers, c) /\ Offers' = Offers
        /\ FifoOutcome' = [FifoOutcome EXCEPT ![c] = "waiting"]
        /\ FifoCalls(k')
    BY <1>1, <1>3, <2>1, FifoWaiterArrives
  <2>3. Fifo!Receive(c)
    BY <1>3, <2>1, <2>2 DEF Fifo!Receive, Fifo!Answer, Offers, Takers, FifoOutcome, Transfers
  <2> QED
    BY <1>1, <1>3, <2>2, <2>3 DEF FifoPromised, Fifo!Next
<1> QED
  BY <1>2, <1>3 DEF QueueRecv

\* The return of a call that had to wait.
LEMMA QueueReturnPromised ==
  ASSUME BlockingBuilds, FifoInv, NEW c \in Task, QueueReturn(c)
  PROVE  FifoCalls(k') /\ FifoPromised
<1>1. /\ IpcInv(QueueLists) /\ Returns(c) /\ UNCHANGED <<k, q, parcel>>
      /\ pc' = [pc EXCEPT ![c] = "run"]
  BY DEF FifoInv, QueueInv, QueueReturn
<1>2. /\ Outcome(c) \in Results
      /\ \A u \in Task : Outcome(u)' = IF u = c THEN "idle" ELSE Outcome(u)
  BY <1>1, OutcomeOfReturn
<1>3. Offers' = Offers /\ Takers' = Takers /\ FifoCalls(k') /\ Contents(q)' = Contents(q)
  BY <1>1, FifoLinesTell DEF FifoInv
<1>4. CASE Transfers(k)
  <2>1. Outcome(c) # "ERROR"
    BY DEF Outcome, FifoInv, FifoCalls
  <2>2. FifoOutcome[c] \in {"EOK", "ETIMEOUT"}
        /\ FifoOutcome' = [FifoOutcome EXCEPT ![c] = "idle"]
    BY <1>1, <1>2, <1>4, <2>1 DEF FifoOutcome, Results, Transfers
  <2>3. Fifo!Return(c)
    BY <1>1, <1>3, <2>2 DEF Fifo!Return, Fifo!Answer, Offers, Takers, FifoOutcome, Transfers
  <2> QED
    BY <1>3, <2>3 DEF FifoPromised, Fifo!Next
<1>5. CASE ~Transfers(k)
  BY <1>1, <1>3, <1>5, FifoStays DEF FifoOutcome, Transfers
<1> QED
  BY <1>4, <1>5

LEMMA QueueInitPromised == ASSUME QueueInit PROVE FifoInv /\ Fifo!Init
<1>1. QueueInv /\ IpcInv(QueueLists) /\ KernelInit /\ \A t \in Task : k.state[t] = "INIT"
  BY QueueInvInit, InitIdle DEF QueueInit, QueueInv
<1>2. q.count = 0 /\ Consistent(q)
  BY RingAssumption DEF QueueInit, EmptyRing, Consistent
<1>3. FifoCalls(k)
  BY <1>1, IdleApart DEF KernelInit, FifoCalls
<1>4. Offers = << >> /\ Takers = << >>
  <2>1. Fit(k) /\ send_wait \in WaitList /\ recv_wait \in WaitList
    BY <1>1, QueueAssumption DEF IpcInv, Sound
  <2> QED
    BY <1>1, <2>1, EmptyLine, LineTells, FifoLinesTell
<1>5. FifoOutcome = [t \in Task |-> "idle"]
  <2>1. \A t \in Task : ~InBlockingCall(t)
    BY <1>1, IdleApart DEF KernelInit, InBlockingCall
  <2> QED
    BY <2>1 DEF FifoOutcome, Outcome
<1>6. Contents(q) = << >> /\ parcel = [t \in Task |-> NULL]
  BY <1>1, <1>2, KeptTells DEF QueueInit
<1> QED
  BY <1>1, <1>2, <1>3, <1>4, <1>5, <1>6
     DEF FifoInv, Fifo!Init, Offers, Takers, FifoOutcome, Transfers

LEMMA QueueStepPromised ==
  ASSUME BlockingBuilds, FifoInv, [QueueNext]_queuevars
  PROVE  FifoInv' /\ FifoPromised
<1>1. QueueInv' /\ Consistent(q)
  BY QueueInvStep DEF FifoInv
<1>2. CASE [TasksNext]_vars /\ UNCHANGED <<q, parcel>>
  BY <1>1, <1>2, FifoTasksPromised DEF FifoInv
<1>3. ASSUME NEW c \in Task, EnterBlocked(c), UNCHANGED <<q, parcel>>
      PROVE  FifoInv' /\ FifoPromised
  <2>1. IpcInv(QueueLists) /\ QueueLists \in SUBSET WaitList
    BY FifoFacts DEF FifoInv
  <2>2. Quiet(k', k, NULL) /\ \A t \in Task : InBlockingCall(t)' = InBlockingCall(t)
    BY <1>3, <2>1, EnterKeeps
  <2> QED
    BY <1>1, <1>3, <2>2, FifoWaitersStay, FifoStays DEF FifoInv
<1>4. ASSUME NEW c \in Task, QueueReturn(c) PROVE FifoInv' /\ FifoPromised
  BY <1>1, <1>4, QueueReturnPromised DEF FifoInv, QueueReturn
<1>5. Sender \subseteq Task /\ Receiver \subseteq Task
  BY QueueAssumption
<1> QED
  BY <1>1, <1>2, <1>3, <1>4, <1>5, QueueSendPromised, IsrSendPromised, QueueRecvPromised
     DEF QueueNext, QueueStep, queuevars, vars, FifoInv

\* A queue implements BoundedFifo: over the wrapping indices, the hand-off to a waiting
\* receiver, the refill by a waiting sender, sends by interrupt handlers and timeouts of
\* either, messages are delivered once and in the order they were sent.
THEOREM QueuesDeliver == ASSUME BlockingBuilds PROVE QueueSpec => DeliversInOrder
<1>1. QueueInit => FifoInv /\ Fifo!Init
  BY QueueInitPromised
<1>2. FifoInv /\ [QueueNext]_queuevars => FifoInv' /\ [Fifo!Next]_(Fifo!fvars)
  BY QueueStepPromised DEF FifoPromised
<1> QED
  BY <1>1, <1>2, PTL DEF QueueSpec, DeliversInOrder, Fifo!Spec
=============================================================================
