----------------------------- MODULE ServiceProofs ----------------------------
(***************************************************************************)
(* Proofs about the services beside the scheduler, and about several       *)
(* cores: the software timers of module TimerWheel, the AI runtime of      *)
(* module AiRegistry, the calls of module Smp from core to core, the       *)
(* scheduler of module SmpSched, and the federated-learning client of      *)
(* module FlClient.                                                        *)
(***************************************************************************)
EXTENDS TimerWheel, AiRegistry, Smp, SmpSched, FlClient, FiniteSetTheorems, SequenceTheorems, TLAPS

(* TimerWheel. The count of active timers, which decides whether the tick  *)
(* handler wakes the timer task, is exact, for any number of timers and    *)
(* slots and whatever callbacks and tasks start, stop and reset, those of  *)
(* the list being walked included.                                         *)

\* The count needs to know whose callback runs.
FiresInCallback == task.at = "callback" => task.fires \in Timer

TimerInv == TimerTypeOK /\ CountExact /\ FiresInCallback

Record == [period : Periods, remaining : 0 .. TickMod - 1, periodic : BOOLEAN, active : BOOLEAN]
TaskRecord == [at : {"waiting", "walking", "callback"}, until : 0 .. TickMod - 1,
               rest : Timer \cup {NoTimer}, fires : Timer \cup {NoTimer}]
-----------------------------------------------------------------------------
(* Types.                                                                  *)

\* What the remainder of a tick is.
LEMMA TicksWrap ==
  /\ \A n \in Int : n % TickMod \in 0 .. TickMod - 1
  /\ \A n \in Int : SlotOf(n) \in 0 .. Slots - 1
  BY TimerAssumption DEF SlotOf

\* A timer that leaves the wheel leaves links of the right types.
LEMMA WithoutTypes ==
  ASSUME TimerTypeOK, NEW t \in Timer
  PROVE  /\ WheelWithout(t) \in [0 .. Slots - 1 -> Timer \cup {NoTimer}]
         /\ NextWithout(t) \in [Timer -> Timer \cup {NoTimer}]
  BY DEF TimerTypeOK, WheelWithout, NextWithout

\* ... and so does one that is inserted.
LEMMA InsertedTypes ==
  ASSUME NEW w \in [0 .. Slots - 1 -> Timer \cup {NoTimer}], NEW t \in Timer,
         NEW n \in [Timer -> Timer \cup {NoTimer}], NEW e \in Int, Inserted(w, n, t, e)
  PROVE  /\ wheel' \in [0 .. Slots - 1 -> Timer \cup {NoTimer}]
         /\ next' \in [Timer -> Timer \cup {NoTimer}]
  BY TicksWrap DEF Inserted

\* The number of active timers is between none and all.
LEMMA CountIsBounded ==
  ASSUME CountExact
  PROVE  timer_count \in 0 .. Cardinality(Timer)
<1>1. Active \in SUBSET Timer /\ IsFiniteSet(Timer)
  BY TimerAssumption DEF Active
<1>2. /\ IsFiniteSet(Active) /\ Cardinality(Active) <= Cardinality(Timer)
      /\ Cardinality(Timer) \in Nat
  BY <1>1, FS_Subset, FS_CardinalityType
<1>3. Cardinality(Active) \in Nat
  BY <1>2, FS_CardinalityType
<1> QED BY <1>2, <1>3 DEF CountExact

-----------------------------------------------------------------------------
(* The count.                                                              *)

\* A timer becomes active, or is so already.
LEMMA ActivatedCounts ==
  ASSUME TimerInv, NEW t \in Timer, timer' \in [Timer -> Record],
         timer'[t].active, \A x \in Timer \ {t} : timer'[x].active = timer[x].active,
         timer_count' = OneMore(t)
  PROVE  CountExact'
<1>1. Active' = Active \cup {t}
  BY DEF Active
<1>2. IsFiniteSet(Active)
  BY TimerAssumption, FS_Subset DEF Active
<1>3. Cardinality(Active') = IF t \in Active THEN Cardinality(Active) ELSE Cardinality(Active) + 1
  BY <1>1, <1>2, FS_AddElement
<1> QED BY <1>3 DEF CountExact, TimerInv, OneMore, Active

\* A timer is active no more.
LEMMA DeactivatedCounts ==
  ASSUME TimerInv, NEW t \in Timer, timer[t].active,
         timer' = [timer EXCEPT ![t].active = FALSE], timer_count' = timer_count - 1
  PROVE  CountExact'
<1>1. Active' = Active \ {t} /\ t \in Active
  BY DEF Active, TimerInv, TimerTypeOK
<1>2. IsFiniteSet(Active)
  BY TimerAssumption, FS_Subset DEF Active
<1>3. Cardinality(Active') = Cardinality(Active) - 1
  BY <1>1, <1>2, FS_RemoveElement
<1> QED BY <1>3 DEF CountExact, TimerInv

\* Steps that neither start nor stop a timer.
LEMMA SameActiveCounts ==
  ASSUME TimerInv, timer_count' = timer_count,
         \A x \in Timer : timer'[x].active = timer[x].active
  PROVE  CountExact'
<1>1. Active' = Active
  BY DEF Active
<1> QED BY <1>1 DEF CountExact, TimerInv

-----------------------------------------------------------------------------
(* The steps.                                                              *)

LEMMA TimerInvInit == TimerInit => TimerInv
<1> SUFFICES ASSUME TimerInit PROVE TimerInv
  OBVIOUS
<1>1. Active = {}
  BY DEF TimerInit, Active
<1>2. CountExact
  BY <1>1, FS_EmptySet DEF TimerInit, CountExact
<1>3. 0 \in 0 .. TickMod - 1 /\ 0 \in 0 .. MaxWake
  BY TimerAssumption
<1>4. timer_count \in 0 .. Cardinality(Timer)
  BY <1>2, CountIsBounded
<1>5. timer \in [Timer -> Record]
  BY <1>3 DEF TimerInit, Record
<1>6. TimerTypeOK
  BY <1>3, <1>4, <1>5 DEF TimerInit, TimerTypeOK, Record
<1> QED BY <1>2, <1>6 DEF TimerInv, FiresInCallback, TimerInit

\* os_timer_start and os_timer_reset
LEMMA RestartedKeeps ==
  ASSUME TimerInv, NEW t \in Timer, NEW p \in Periods, Restarted(t, p),
         UNCHANGED <<now, pos, wakeups, task>>
  PROVE  TimerInv'
<1> DEFINE expire == (now + p) % TickMod
           w == IF timer[t].active THEN WheelWithout(t) ELSE wheel
           n == IF timer[t].active THEN NextWithout(t) ELSE next
<1>1. expire \in 0 .. TickMod - 1
  <2>1. now + p \in Int
    BY TimerAssumption DEF TimerInv, TimerTypeOK
  <2> QED BY <2>1, TicksWrap
<1>2. /\ w \in [0 .. Slots - 1 -> Timer \cup {NoTimer}]
      /\ n \in [Timer -> Timer \cup {NoTimer}]
  BY WithoutTypes DEF TimerInv, TimerTypeOK
<1>3. /\ Inserted(w, n, t, expire)
      /\ timer' = [timer EXCEPT ![t].period = p, ![t].remaining = expire, ![t].active = TRUE]
      /\ timer_count' = OneMore(t)
  BY DEF Restarted
<1> HIDE DEF expire, w, n
<1>4. /\ wheel' \in [0 .. Slots - 1 -> Timer \cup {NoTimer}]
      /\ next' \in [Timer -> Timer \cup {NoTimer}]
  BY <1>1, <1>2, <1>3, InsertedTypes
<1>5. /\ timer' \in [Timer -> Record] /\ timer'[t].active
      /\ \A x \in Timer \ {t} : timer'[x].active = timer[x].active
  <2> DEFINE before == timer[t]
             after == [before EXCEPT !.period = p, !.remaining = expire, !.active = TRUE]
  <2>1. timer \in [Timer -> Record]
    BY DEF TimerInv, TimerTypeOK, Record
  <2>2. before \in Record
    BY <2>1
  <2>3. after \in Record /\ after.active
    <3> HIDE DEF before
    <3> QED
      BY <1>1, <2>2 DEF Record
  <2>4. timer' = [timer EXCEPT ![t] = after]
    BY <1>3, <2>1 DEF Record
  <2> HIDE DEF before, after
  <2> QED
    BY <2>1, <2>3, <2>4
<1>6. CountExact'
  BY <1>3, <1>5, ActivatedCounts
<1>7. (timer_count \in 0 .. Cardinality(Timer))'
  BY <1>6, CountIsBounded, PTL
<1> QED
  BY <1>4, <1>5, <1>6, <1>7 DEF TimerInv, TimerTypeOK, Record, FiresInCallback

LEMMA StopKeeps ==
  ASSUME TimerInv, NEW t \in Timer, TimerStop(t)
  PROVE  TimerInv'
<1>1. CountExact'
  BY DeactivatedCounts DEF TimerStop
<1>2. (timer_count \in 0 .. Cardinality(Timer))'
  BY <1>1, CountIsBounded, PTL
<1>3. /\ wheel' \in [0 .. Slots - 1 -> Timer \cup {NoTimer}]
      /\ next' \in [Timer -> Timer \cup {NoTimer}]
  BY WithoutTypes DEF TimerStop, TimerInv
<1>4. timer' \in [Timer -> Record]
  <2> DEFINE after == [timer[t] EXCEPT !.active = FALSE]
  <2>1. timer \in [Timer -> Record]
    BY DEF TimerInv, TimerTypeOK, Record
  <2>2. after \in Record /\ timer' = [timer EXCEPT ![t] = after]
    BY <2>1 DEF TimerStop, Record
  <2> HIDE DEF after
  <2> QED
    BY <2>1, <2>2
<1> QED
  BY <1>1, <1>2, <1>3, <1>4 DEF TimerStop, TimerInv, TimerTypeOK, Record, FiresInCallback

\* os_timer_tick
LEMMA TickKeeps ==
  ASSUME TimerInv, TimerTick
  PROVE  TimerInv'
<1>1. now' \in 0 .. TickMod - 1
  <2>1. now + 1 \in Int
    BY DEF TimerInv, TimerTypeOK
  <2> QED BY <2>1, TicksWrap DEF TimerTick
<1>2. wakeups' \in 0 .. MaxWake
  BY TimerAssumption DEF TimerTick, Ticked, TimerInv, TimerTypeOK
<1> QED
  BY <1>1, <1>2, SameActiveCounts DEF TimerTick, TimerInv, TimerTypeOK, FiresInCallback

\* The timer task takes its semaphore, a slot, or its rest.
LEMMA WalkKeeps ==
  ASSUME TimerInv, TaskWakes \/ NextSlot \/ TaskWaits
  PROVE  TimerInv'
<1> USE DEF TimerInv, TimerTypeOK, FiresInCallback
<1>1. CountExact'
  BY SameActiveCounts DEF TaskWakes, NextSlot, TaskWaits
<1>2. CASE TaskWakes
  <2>1. wakeups' \in 0 .. MaxWake
    <3>1. MaxWake \in Nat
      BY TimerAssumption
    <3>2. wakeups \in 0 .. MaxWake /\ wakeups > 0 /\ wakeups' = wakeups - 1
      BY <1>2 DEF TaskWakes
    <3> HIDE DEF TimerInv, TimerTypeOK, FiresInCallback
    <3> QED BY <3>1, <3>2
  <2>2. task' \in TaskRecord
    BY <1>2 DEF TaskWakes, TaskRecord
  <2> QED BY <1>1, <1>2, <2>1, <2>2 DEF TaskWakes, TaskRecord
<1>3. CASE NextSlot
  <2>1. /\ (pos + 1) % TickMod \in 0 .. TickMod - 1
        /\ SlotOf((pos + 1) % TickMod) \in 0 .. Slots - 1
    <3>1. pos + 1 \in Int
      OBVIOUS
    <3>2. (pos + 1) % TickMod \in 0 .. TickMod - 1
      BY <3>1, TicksWrap
    <3> QED BY <3>2, TicksWrap
  <2> QED BY <1>1, <1>3, <2>1 DEF NextSlot
<1>4. CASE TaskWaits
  <2>1. 0 \in 0 .. TickMod - 1
    BY TimerAssumption
  <2>2. task' \in TaskRecord
    BY <1>4, <2>1 DEF TaskWaits, TaskRecord
  <2> QED BY <1>1, <1>4, <2>2 DEF TaskWaits, TaskRecord
<1> QED BY <1>2, <1>3, <1>4

\* It calls back, or puts a timer of a later round back.
LEMMA SlotKeeps ==
  ASSUME TimerInv, CallbackBegins \/ PutBack
  PROVE  TimerInv'
<1> USE DEF TimerInv, TimerTypeOK, FiresInCallback
<1>1. CountExact'
  BY SameActiveCounts DEF CallbackBegins, PutBack
<1>2. task.rest \in Timer
  BY DEF CallbackBegins, PutBack
<1>3. CASE CallbackBegins
  BY <1>1, <1>2, <1>3 DEF CallbackBegins
<1>4. CASE PutBack
  <2>1. /\ wheel' \in [0 .. Slots - 1 -> Timer \cup {NoTimer}]
        /\ next' \in [Timer -> Timer \cup {NoTimer}]
    BY <1>2, <1>4, InsertedTypes DEF PutBack
  <2> QED BY <1>1, <1>2, <1>4, <2>1 DEF PutBack
<1> QED BY <1>3, <1>4

\* A callback returns: its timer is left alone, inserted again or ended.
LEMMA ReturnKeeps ==
  ASSUME TimerInv, CallbackEnds
  PROVE  TimerInv'
<1> DEFINE t == task.fires
<1>1. t \in Timer /\ task' \in TaskRecord /\ FiresInCallback'
  BY DEF CallbackEnds, TimerInv, TimerTypeOK, FiresInCallback, TaskRecord
<1>2. CASE UNCHANGED <<wheel, next, timer, timer_count>>
  <2>1. CountExact'
    BY <1>2, SameActiveCounts
  <2> QED
    BY <1>1, <1>2, <2>1 DEF CallbackEnds, TimerInv, TimerTypeOK, TaskRecord
<1>3. CASE /\ Inserted(wheel, next, t, Rearm(t))
           /\ timer' = [timer EXCEPT ![t].remaining = Rearm(t)]
           /\ UNCHANGED timer_count
  <2>1. Rearm(t) \in 0 .. TickMod - 1
    <3>1. pos + timer[t].period \in Int
      BY <1>1, TimerAssumption DEF TimerInv, TimerTypeOK
    <3> QED BY <3>1, TicksWrap DEF Rearm
  <2>2. /\ timer' \in [Timer -> Record]
        /\ \A x \in Timer : timer'[x].active = timer[x].active
    BY <1>1, <1>3, <2>1 DEF TimerInv, TimerTypeOK, Record
  <2>3. CountExact'
    BY <1>3, <2>2, SameActiveCounts
  <2>4. /\ wheel' \in [0 .. Slots - 1 -> Timer \cup {NoTimer}]
        /\ next' \in [Timer -> Timer \cup {NoTimer}]
    <3>1. /\ Rearm(t) \in Int
          /\ wheel \in [0 .. Slots - 1 -> Timer \cup {NoTimer}]
          /\ next \in [Timer -> Timer \cup {NoTimer}]
      BY <2>1 DEF TimerInv, TimerTypeOK
    <3> QED BY <1>1, <1>3, <3>1, InsertedTypes
  <2> QED
    BY <1>1, <1>3, <2>2, <2>3, <2>4
       DEF CallbackEnds, TimerInv, TimerTypeOK, TaskRecord, Record
<1>4. CASE /\ timer[t].active
           /\ timer' = [timer EXCEPT ![t].active = FALSE]
           /\ timer_count' = timer_count - 1
           /\ UNCHANGED <<wheel, next>>
  <2>1. CountExact'
    BY <1>1, <1>4, DeactivatedCounts
  <2>2. (timer_count \in 0 .. Cardinality(Timer))'
    BY <2>1, CountIsBounded, PTL
  <2>3. timer' \in [Timer -> Record]
    <3> DEFINE after == [timer[t] EXCEPT !.active = FALSE]
    <3>1. timer \in [Timer -> Record]
      BY DEF TimerInv, TimerTypeOK, Record
    <3>2. after \in Record /\ timer' = [timer EXCEPT ![t] = after]
      BY <1>1, <1>4, <3>1 DEF Record
    <3> HIDE DEF after
    <3> QED
      BY <3>1, <3>2
  <2> QED
    BY <1>1, <1>4, <2>1, <2>2, <2>3
       DEF CallbackEnds, TimerInv, TimerTypeOK, TaskRecord, Record
<1> QED BY <1>2, <1>3, <1>4 DEF CallbackEnds

LEMMA TimerInvStep ==
  ASSUME TimerInv, [TimerNext]_timervars
  PROVE  TimerInv'
<1>1. CASE UNCHANGED timervars
  BY <1>1, SameActiveCounts DEF timervars, TimerInv, TimerTypeOK, FiresInCallback
<1>2. CASE TimerTick
  BY <1>2, TickKeeps
<1>3. CASE TimerTask
  BY <1>3, WalkKeeps, SlotKeeps, ReturnKeeps DEF TimerTask
<1>4. ASSUME NEW t \in Timer, TimerStart(t) PROVE TimerInv'
  <2>1. timer[t].period \in Periods
    BY DEF TimerInv, TimerTypeOK
  <2> QED BY <1>4, <2>1, RestartedKeeps DEF TimerStart
<1>5. ASSUME NEW t \in Timer, NEW p \in Periods \cup {0}, TimerReset(t, p) PROVE TimerInv'
  <2>1. (IF p > 0 THEN p ELSE timer[t].period) \in Periods
    BY TimerAssumption DEF TimerInv, TimerTypeOK
  <2> QED BY <1>5, <2>1, RestartedKeeps DEF TimerReset
<1>6. ASSUME NEW t \in Timer, TimerStop(t) PROVE TimerInv'
  BY <1>6, StopKeeps
<1> QED BY <1>1, <1>2, <1>3, <1>4, <1>5, <1>6 DEF TimerNext

\* g_timer_count is the number of active timers, for any number of timers, and
\* whichever of them callbacks and tasks start, stop and reset at whatever moment.
THEOREM ActiveTimersAreCounted == TimerSpec => [](TimerTypeOK /\ CountExact)
<1>1. TimerInv => TimerTypeOK /\ CountExact
  BY DEF TimerInv
<1> QED BY <1>1, TimerInvInit, TimerInvStep, PTL DEF TimerSpec

-----------------------------------------------------------------------------

(* AiRegistry. The AI runtime releases once whatever it took, for any      *)
(* number of models of any kinds, in a build that has one of the two HAL   *)
(* modules.  The argument: what ai_runtime_init creates next is not there  *)
(* yet, so that no field is overwritten, and while a step can still end in *)
(* ai_registry_release_resources no local variable refers to anything.     *)

\* A build has at most one HAL module.
OneModule == \A h \in HalModes : "static" \notin h \/ "inline" \notin h

Phases == {"down", "types", "loader", "device", "static module", "inline allocator",
           "inline module", "models", "up", "inputs", "outputs"}

\* What the fields refer to while the phase is p.
Created(p) ==
  CASE p = "down" -> {}
    [] p \in {"types", "loader"} -> {"instance"}
    [] p = "device" -> {"instance", "loader"}
    [] p = "static module" -> {"instance", "loader", "device"}
    [] p = "inline allocator" -> {"instance"}
    [] p = "inline module" -> {"instance", "inline allocator"}
    [] OTHER -> field

AiTypeOK ==
  /\ hal \in HalModes
  /\ phase \in Phases
  /\ field \in SUBSET Resource
  /\ local \in SUBSET Temporary
  /\ unloaded \in SUBSET Model

\* Nothing that is created next is there already.
NextIsNew ==
  /\ field = Created(phase)
  /\ phase = "models" => "context" \notin field /\ field \cap unloaded = {}
  /\ phase \notin {"models", "inputs", "outputs"} => local = {}
  /\ phase = "inputs" => "outputs" \notin local
  /\ phase \in {"device", "static module"} => "static" \in hal

Balanced == refs = [o \in Object |-> IF o \in field \cup local THEN 1 ELSE 0]

AiInv == AiTypeOK /\ NextIsNew /\ Balanced
-----------------------------------------------------------------------------

LEMMA AiInvInit == AiInit => AiInv
  BY DEF AiInit, AiInv, AiTypeOK, NextIsNew, Balanced, Phases, Created

\* The invariant says what the property promises.
LEMMA AiInvMeans == AiInv => ReferencesBalance
  BY DEF AiInv, AiTypeOK, NextIsNew, Balanced, Created, ReferencesBalance

\* An object that is new comes into a field.
LEMMA IntoFieldBalances ==
  ASSUME AiInv, NEW o \in Resource, o \notin field, NEW then, IntoField(o, then)
  PROVE  Balanced' /\ field' \in SUBSET Resource
<1>1. o \notin local /\ o \in Object
  BY ObjectsAreApart DEF AiInv, AiTypeOK, Resource, Temporary, Object
<1> QED
  BY <1>1 DEF AiInv, AiTypeOK, Balanced, IntoField, Plus

\* ... or into a local variable.
LEMMA IntoLocalBalances ==
  ASSUME AiInv, NEW o \in Temporary, o \notin local, NEW then, IntoLocal(o, then)
  PROVE  Balanced' /\ local' \in SUBSET Temporary
<1>1. o \notin field /\ o \in Object
  BY ObjectsAreApart DEF AiInv, AiTypeOK, Resource, Temporary, Object
<1> QED
  BY <1>1 DEF AiInv, AiTypeOK, Balanced, IntoLocal, Plus

\* The registry releases everything, if it knows of everything.
LEMMA ReleaseKeepsAiInv ==
  ASSUME AiInv, local = {}, ReleaseResources
  PROVE  AiInv'
<1>1. Balanced'
  BY DEF AiInv, AiTypeOK, Balanced, ReleaseResources, Minus
<1>2. AiTypeOK' /\ NextIsNew'
  BY DEF AiInv, AiTypeOK, NextIsNew, ReleaseResources, Created, Phases
<1> QED BY <1>1, <1>2 DEF AiInv

\* A call gives back what it took.
LEMMA CleanupKeepsAiInv ==
  ASSUME AiInv, phase \in {"inputs", "outputs"}, Cleanup
  PROVE  AiInv'
<1>1. Temporary \cap Resource = {}
  BY ObjectsAreApart DEF Temporary, Resource
<1>2. Balanced'
  BY <1>1 DEF AiInv, AiTypeOK, Balanced, Cleanup, Minus
<1>3. AiTypeOK' /\ NextIsNew'
  BY DEF AiInv, AiTypeOK, NextIsNew, Cleanup, Created, Phases
<1> QED BY <1>2, <1>3 DEF AiInv

\* Steps that create what the registry's fields refer to.
LEMMA FieldStepsKeepAiInv ==
  ASSUME AiInv, CreateInstance \/ CreateLoader \/ CreateDevice \/ CreateInlineAllocator
  PROVE  AiInv'
<1>1. CASE CreateInstance
  <2>1. "instance" \in Resource /\ "instance" \notin field /\ IntoField("instance", "types")
    BY <1>1 DEF CreateInstance, AiInv, NextIsNew, Created, Resource
  <2>2. Balanced' /\ field' \in SUBSET Resource
    BY <2>1, IntoFieldBalances
  <2>3. AiTypeOK' /\ NextIsNew'
    BY <1>1, <2>1, <2>2 DEF CreateInstance, IntoField, AiInv, AiTypeOK, NextIsNew, Created, Phases
  <2> QED BY <2>2, <2>3 DEF AiInv
<1>2. CASE CreateLoader /\ ~ReleaseResources
  <2>1. /\ "loader" \in Resource /\ "loader" \notin field /\ IntoField("loader", "device")
        /\ phase = "loader" /\ "static" \in hal
    BY <1>2 DEF CreateLoader, AiInv, NextIsNew, Created, Resource
  <2>2. Balanced' /\ field' \in SUBSET Resource
    BY <2>1, IntoFieldBalances
  <2>3. AiTypeOK' /\ NextIsNew'
    BY <2>1, <2>2 DEF IntoField, AiInv, AiTypeOK, NextIsNew, Created, Phases
  <2> QED BY <2>2, <2>3 DEF AiInv
<1>3. CASE CreateDevice /\ ~ReleaseResources
  <2>1. /\ "device" \in Resource /\ "device" \notin field /\ IntoField("device", "static module")
        /\ phase = "device"
    BY <1>3 DEF CreateDevice, AiInv, NextIsNew, Created, Resource
  <2>2. Balanced' /\ field' \in SUBSET Resource
    BY <2>1, IntoFieldBalances
  <2>3. AiTypeOK' /\ NextIsNew'
    BY <2>1, <2>2 DEF IntoField, AiInv, AiTypeOK, NextIsNew, Created, Phases
  <2> QED BY <2>2, <2>3 DEF AiInv
<1>4. CASE CreateInlineAllocator /\ ~ReleaseResources
  <2>1. /\ "inline allocator" \in Resource /\ "inline allocator" \notin field
        /\ IntoField("inline allocator", "inline module") /\ phase = "inline allocator"
    BY <1>4 DEF CreateInlineAllocator, AiInv, NextIsNew, Created, Resource
  <2>2. Balanced' /\ field' \in SUBSET Resource
    BY <2>1, IntoFieldBalances
  <2>3. AiTypeOK' /\ NextIsNew'
    BY <2>1, <2>2 DEF IntoField, AiInv, AiTypeOK, NextIsNew, Created, Phases
  <2> QED BY <2>2, <2>3 DEF AiInv
<1>5. CASE ReleaseResources /\ (CreateLoader \/ CreateDevice \/ CreateInlineAllocator)
  <2>1. local = {}
    BY <1>5 DEF CreateLoader, CreateDevice, CreateInlineAllocator, AiInv, NextIsNew
  <2> QED BY <1>5, <2>1, ReleaseKeepsAiInv
<1> QED BY <1>1, <1>2, <1>3, <1>4, <1>5

\* Steps that create what local variables refer to: the modules and the lists.
LEMMA LocalStepsKeepAiInv ==
  ASSUME AiInv, OneModule,
         CreateStaticModule \/ CreateInlineModule \/ CreateInputs \/ CreateOutputs
  PROVE  AiInv'
<1>1. CASE CreateStaticModule /\ ~ReleaseResources
  <2>1. /\ "static module" \in Temporary /\ "static module" \notin local
        /\ IntoLocal("static module", AfterStatic) /\ phase = "static module" /\ "static" \in hal
    BY <1>1 DEF CreateStaticModule, AiInv, NextIsNew, Temporary
  <2>2. AfterStatic = "models"
    <3>1. "inline" \notin hal
      BY <2>1 DEF OneModule, AiInv, AiTypeOK
    <3> QED BY <3>1 DEF AfterStatic, ModelsFor
  <2>3. Balanced' /\ local' \in SUBSET Temporary
    BY <2>1, IntoLocalBalances
  <2>4. "context" \notin field /\ field \cap unloaded = {}
    BY <2>1, ObjectsAreApart DEF AiInv, AiTypeOK, NextIsNew, Created
  <2>5. AiTypeOK' /\ NextIsNew'
    BY <2>1, <2>2, <2>3, <2>4 DEF IntoLocal, AiInv, AiTypeOK, NextIsNew, Created, Phases
  <2> QED BY <2>3, <2>5 DEF AiInv
<1>2. CASE CreateInlineModule /\ ~ReleaseResources
  <2>1. /\ "inline module" \in Temporary /\ "inline module" \notin local
        /\ IntoLocal("inline module", "models") /\ phase = "inline module"
    BY <1>2 DEF CreateInlineModule, AiInv, NextIsNew, Temporary
  <2>2. Balanced' /\ local' \in SUBSET Temporary
    BY <2>1, IntoLocalBalances
  <2>3. "context" \notin field /\ field \cap unloaded = {}
    BY <2>1, ObjectsAreApart DEF AiInv, AiTypeOK, NextIsNew, Created
  <2>4. AiTypeOK' /\ NextIsNew'
    BY <2>1, <2>2, <2>3 DEF IntoLocal, AiInv, AiTypeOK, NextIsNew, Created, Phases
  <2> QED BY <2>2, <2>4 DEF AiInv
<1>3. CASE CreateInputs
  <2>1. /\ "inputs" \in Temporary /\ local = {} /\ IntoLocal("inputs", "inputs") /\ phase = "up"
    BY <1>3 DEF CreateInputs, AiInv, NextIsNew, Temporary
  <2>2. Balanced' /\ local' \in SUBSET Temporary
    BY <2>1, IntoLocalBalances
  <2>3. AiTypeOK' /\ NextIsNew'
    BY <2>1, <2>2 DEF IntoLocal, AiInv, AiTypeOK, NextIsNew, Created, Phases
  <2> QED BY <2>2, <2>3 DEF AiInv
<1>4. CASE CreateOutputs /\ ~Cleanup
  <2>1. /\ "outputs" \in Temporary /\ "outputs" \notin local
        /\ IntoLocal("outputs", "outputs") /\ phase = "inputs"
    BY <1>4 DEF CreateOutputs, AiInv, NextIsNew, Temporary
  <2>2. Balanced' /\ local' \in SUBSET Temporary
    BY <2>1, IntoLocalBalances
  <2>3. AiTypeOK' /\ NextIsNew'
    BY <2>1, <2>2 DEF IntoLocal, AiInv, AiTypeOK, NextIsNew, Created, Phases
  <2> QED BY <2>2, <2>3 DEF AiInv
<1>5. CASE ReleaseResources /\ (CreateStaticModule \/ CreateInlineModule)
  <2>1. local = {}
    BY <1>5 DEF CreateStaticModule, CreateInlineModule, AiInv, NextIsNew
  <2> QED BY <1>5, <2>1, ReleaseKeepsAiInv
<1>6. CASE CreateOutputs /\ Cleanup
  BY <1>6, CleanupKeepsAiInv DEF CreateOutputs
<1> QED BY <1>1, <1>2, <1>3, <1>4, <1>5, <1>6

LEMMA RegisterTypesKeepsAiInv ==
  ASSUME AiInv, RegisterTypes
  PROVE  AiInv'
<1>1. CASE ReleaseResources
  BY <1>1, ReleaseKeepsAiInv DEF RegisterTypes, AiInv, NextIsNew
<1>2. CASE phase' = AfterTypes /\ UNCHANGED <<hal, backend, field, local, refs, unloaded>>
  <2>1. phase = "types" /\ field = {"instance"} /\ local = {}
    BY DEF RegisterTypes, AiInv, NextIsNew, Created
  <2>2. AfterTypes \in {"loader", "inline allocator", "models"}
    BY DEF AfterTypes, AfterStatic
  <2>3. "context" \notin field /\ field \cap unloaded = {}
    BY <2>1, ObjectsAreApart DEF AiInv, AiTypeOK
  <2>4. AiTypeOK' /\ NextIsNew' /\ Balanced'
    BY <1>2, <2>1, <2>2, <2>3 DEF AiInv, AiTypeOK, NextIsNew, Balanced, Created, Phases
  <2> QED BY <2>4 DEF AiInv
<1> QED BY <1>1, <1>2 DEF RegisterTypes

LEMMA LoadModelKeepsAiInv ==
  ASSUME AiInv, NEW m \in Model, LoadModel(m)
  PROVE  AiInv'
<1>1. /\ m \in Resource /\ m \in Object /\ m \notin field /\ m \notin local /\ m # "context"
      /\ phase = "models" /\ "context" \notin field
  BY ObjectsAreApart
     DEF LoadModel, AiInv, AiTypeOK, NextIsNew, Resource, Temporary, Object
<1>2. Balanced'
  BY <1>1 DEF LoadModel, PassesOver, Plus, AiInv, Balanced
<1>3. AiTypeOK' /\ NextIsNew'
  BY <1>1 DEF LoadModel, PassesOver, AiInv, AiTypeOK, NextIsNew, Created
<1> QED BY <1>2, <1>3 DEF AiInv

LEMMA CreateContextKeepsAiInv ==
  ASSUME AiInv, CreateContext
  PROVE  AiInv'
<1>1. /\ phase = "models" /\ "context" \notin field /\ local' = {}
      /\ "context" \in Resource /\ "context" \in Object /\ "context" \notin local
      /\ Temporary \cap Resource = {}
  BY ObjectsAreApart
     DEF CreateContext, AiInv, AiTypeOK, NextIsNew, Resource, Temporary, Object
<1>2. CASE phase' = "up"
  <2>1. Balanced'
    BY <1>1, <1>2 DEF CreateContext, AiInv, AiTypeOK, Balanced
  <2>2. AiTypeOK' /\ NextIsNew'
    BY <1>1, <1>2 DEF CreateContext, AiInv, AiTypeOK, NextIsNew, Created, Phases
  <2> QED BY <2>1, <2>2 DEF AiInv
<1>3. CASE phase' = "down"
  <2>1. Balanced'
    BY <1>1, <1>3 DEF CreateContext, Minus, AiInv, AiTypeOK, Balanced
  <2>2. AiTypeOK' /\ NextIsNew'
    BY <1>1, <1>3 DEF CreateContext, AiInv, AiTypeOK, NextIsNew, Created, Phases
  <2> QED BY <2>1, <2>2 DEF AiInv
<1> QED BY <1>2, <1>3 DEF CreateContext

LEMMA AiInvStep ==
  ASSUME OneModule, AiInv, [AiNext]_aivars
  PROVE  AiInv'
<1>1. CASE UNCHANGED aivars
  BY <1>1 DEF aivars, AiInv, AiTypeOK, NextIsNew, Balanced, Created
<1>2. CASE CreateInstance \/ CreateLoader \/ CreateDevice \/ CreateInlineAllocator
  BY <1>2, FieldStepsKeepAiInv
<1>3. CASE CreateStaticModule \/ CreateInlineModule \/ CreateInputs \/ CreateOutputs
  BY <1>3, LocalStepsKeepAiInv
<1>4. CASE RegisterTypes
  BY <1>4, RegisterTypesKeepsAiInv
<1>5. CASE \E m \in Model : LoadModel(m)
  BY <1>5, LoadModelKeepsAiInv
<1>6. CASE CreateContext
  BY <1>6, CreateContextKeepsAiInv
<1>7. CASE Invoke
  BY <1>7, CleanupKeepsAiInv DEF Invoke
<1>8. CASE RuntimeDeinit
  BY <1>8, ReleaseKeepsAiInv DEF RuntimeDeinit, AiInv, NextIsNew
<1> QED
  BY <1>1, <1>2, <1>3, <1>4, <1>5, <1>6, <1>7, <1>8 DEF AiNext

\* Wherever ai_runtime_init or ai_infer_sync fails, what was taken is released, and
\* once: for any number of models, in a build with at most one HAL module.
THEOREM EverythingIsReleasedOnce ==
  ASSUME OneModule
  PROVE  AiSpec => []ReferencesBalance
<1>1. AiInit => AiInv
  BY AiInvInit
<1>2. AiInv /\ [AiNext]_aivars => AiInv'
  BY AiInvStep
<1>3. AiInv => ReferencesBalance
  BY AiInvMeans
<1> QED BY <1>1, <1>2, <1>3, PTL DEF AiSpec

-----------------------------------------------------------------------------

(* Smp. A call to another core is executed exactly once, for any number of *)
(* cores and callers.  The argument: from the moment its slot is taken, a  *)
(* call is in one place at a time.  Its caller is about to mark it, or it  *)
(* is marked as pending, or the handler of its core has it; and while a    *)
(* slot is done the call is in none of these places.                       *)

SmpTypeOK ==
  /\ home \in [Caller -> Cpu]
  /\ ipi_pending \in [Cpu -> SUBSET Reason]
  /\ call \in [Cpu -> [func : Caller \cup {NoCaller}, done : BOOLEAN]]
  /\ handler \in [Cpu -> {"none", "exchange", "execute", "complete"}]
  /\ caller \in [Caller -> [at : {"free", "mark", "ring", "await"}, cpu : Cpu,
                            reason : Reason, wait : BOOLEAN]]
  /\ executed \in [Caller -> [Cpu -> 0 .. 2]]

\* The three places of a call to core i.
Marks(c, i) == caller[c].at = "mark" /\ caller[c].reason = "call" /\ caller[c].cpu = i
Pending(i) == "call" \in ipi_pending[i]
Serving(i) == handler[i] \in {"execute", "complete"}

\* A call is in one of them at most, and then its slot is not done.
OnePlace ==
  /\ \A c \in Caller, i \in Cpu :
       Marks(c, i) => ~call[i].done /\ call[i].func = c /\ ~Pending(i) /\ ~Serving(i)
  /\ \A i \in Cpu : Pending(i) => ~call[i].done /\ ~Serving(i)
  /\ \A i \in Cpu : Serving(i) => ~call[i].done

\* How often the calls were executed.
Executions ==
  /\ \A i \in Cpu : ~call[i].done =>
       /\ call[i].func \in Caller
       /\ executed[call[i].func][i] = IF handler[i] = "complete" THEN 1 ELSE 0
  /\ \A i \in Cpu, c \in Caller : (call[i].done \/ call[i].func # c) => executed[c][i] = 1

SmpInv == SmpTypeOK /\ OnePlace /\ Executions

\* At the start no call is anywhere.
LEMMA SmpInvInit == SmpInit => SmpInv
  <1> USE SmpAssumption
  <1>1. SmpInit => SmpTypeOK
    BY DEF SmpInit, SmpTypeOK, Free, Reason
  <1>2. SmpInit => OnePlace /\ Executions
    BY DEF SmpInit, OnePlace, Executions, Marks, Pending, Serving, Free
  <1> QED BY <1>1, <1>2 DEF SmpInv

\* The invariant says what the property promises, and where the call is besides.
LEMMA SmpInvMeans == SmpInv => CallsRunOnce
  BY DEF SmpInv, SmpTypeOK, Executions, CallsRunOnce

\* Steps that change nothing the invariant speaks of.
LEMMA SmpInvElsewhere ==
  ASSUME SmpInv, UNCHANGED <<home, ipi_pending, call, handler, caller, executed>>
  PROVE  SmpInv'
  BY DEF SmpInv, SmpTypeOK, OnePlace, Executions, Marks, Pending, Serving

\* A slot is taken: its call is now with the caller, who is about to mark it.
LEMMA SmpInvCallOnCpu ==
  ASSUME SmpInv, NEW c \in Caller, NEW i \in Cpu, NEW waits \in BOOLEAN, CallOnCpu(c, i, waits)
  PROVE  SmpInv'
  <1> USE SmpAssumption DEF SmpInv, CallOnCpu, bootvars
  <1>1. SmpTypeOK'
    BY DEF SmpTypeOK, Reason
  <1>2. OnePlace'
    BY DEF SmpTypeOK, OnePlace, Marks, Pending, Serving
  <1>3. Executions'
    BY DEF SmpTypeOK, OnePlace, Executions, Serving
  <1> QED BY <1>1, <1>2, <1>3

\* A reschedule request, a lone step that marks no call.
LEMMA SmpInvReschedule ==
  ASSUME SmpInv, NEW c \in Caller, NEW i \in Cpu, Reschedule(c, i)
  PROVE  SmpInv'
  <1> USE DEF SmpInv, Reschedule, bootvars
  <1>1. SmpTypeOK'
    BY DEF SmpTypeOK, Reason
  <1>2. OnePlace'
    BY DEF SmpTypeOK, OnePlace, Marks, Pending, Serving
  <1>3. Executions'
    BY DEF Executions
  <1> QED BY <1>1, <1>2, <1>3

\* The pending reasons take over from the caller.
LEMMA SmpInvIpiMark ==
  ASSUME SmpInv, NEW c \in Caller, IpiMark(c)
  PROVE  SmpInv'
  <1> USE DEF SmpInv, IpiMark, Pended, bootvars
  <1>1. SmpTypeOK'
    <2>1. ipi_pending' \in [Cpu -> SUBSET Reason]
      BY DEF SmpTypeOK
    <2>2. caller' \in [Caller -> [at : {"free", "mark", "ring", "await"}, cpu : Cpu,
                                  reason : Reason, wait : BOOLEAN]]
      BY DEF SmpTypeOK
    <2> QED
      BY <2>1, <2>2 DEF SmpTypeOK
  <1>2. ASSUME NEW d \in Caller, NEW i \in Cpu, Marks(d, i)'
        PROVE  Marks(d, i) /\ d # c
    BY <1>2 DEF SmpTypeOK, Marks
  <1>3. ASSUME NEW i \in Cpu, Pending(i)' PROVE Pending(i) \/ Marks(c, i)
    BY <1>3 DEF SmpTypeOK, Pending, Marks
  <1>4. OnePlace'
    <2>1. ASSUME NEW d \in Caller, NEW i \in Cpu, Marks(d, i)'
          PROVE  (~call[i].done /\ call[i].func = d /\ ~Pending(i) /\ ~Serving(i))'
      <3>1. ~call[i].done /\ call[i].func = d /\ ~Pending(i) /\ ~Serving(i) /\ ~Marks(c, i)
        BY <2>1, <1>2 DEF OnePlace
      <3> QED BY <3>1, <1>3 DEF Serving
    <2>2. ASSUME NEW i \in Cpu, Pending(i)' PROVE (~call[i].done /\ ~Serving(i))'
      BY <2>2, <1>3 DEF OnePlace, Serving
    <2>3. ASSUME NEW i \in Cpu, Serving(i)' PROVE (~call[i].done)'
      BY <2>3 DEF OnePlace, Serving
    <2> QED BY <2>1, <2>2, <2>3 DEF OnePlace
  <1>5. Executions'
    BY DEF Executions
  <1> QED BY <1>1, <1>4, <1>5

\* Steps of a caller that leave the slots and their marks alone.
LEMMA SmpInvCallerOnly ==
  ASSUME SmpInv, NEW c \in Caller, IpiRing(c) \/ CallReturns(c)
  PROVE  SmpInv'
  <1> DEFINE CallerType == [at : {"free", "mark", "ring", "await"}, cpu : Cpu,
                            reason : Reason, wait : BOOLEAN]
  <1> USE DEF SmpInv
  <1>1. PICK r \in CallerType : r.at # "mark" /\ caller' = [caller EXCEPT ![c] = r]
    <2>1. Free \in CallerType /\ Free.at # "mark"
      BY SmpAssumption DEF Free, Reason
    <2>2. [caller[c] EXCEPT !.at = "await"] \in CallerType
      BY DEF SmpTypeOK
    <2>3. [caller[c] EXCEPT !.at = "await"].at # "mark"
      BY DEF SmpTypeOK
    <2> QED BY <2>1, <2>2, <2>3 DEF IpiRing, CallReturns
  <1>2. UNCHANGED <<home, ipi_pending, call, handler, executed>>
    BY DEF IpiRing, CallReturns, bootvars
  <1>3. SmpTypeOK'
    BY <1>1, <1>2 DEF SmpTypeOK
  <1>4. ASSUME NEW d \in Caller, NEW i \in Cpu, Marks(d, i)' PROVE Marks(d, i)
    BY <1>1, <1>4 DEF SmpTypeOK, Marks
  <1>5. OnePlace'
    BY <1>2, <1>4 DEF OnePlace, Pending, Serving
  <1>6. Executions'
    BY <1>2 DEF Executions
  <1> QED BY <1>3, <1>5, <1>6

\* The software interrupt is taken: the handler begins.
LEMMA SmpInvIpiTaken ==
  ASSUME SmpInv, NEW i \in Cpu, IpiTaken(i)
  PROVE  SmpInv'
  <1> USE DEF SmpInv, IpiTaken, bootvars
  <1>1. SmpTypeOK'
    BY DEF SmpTypeOK
  <1>2. OnePlace'
    BY DEF SmpTypeOK, OnePlace, Marks, Pending, Serving
  <1>3. Executions'
    BY DEF SmpTypeOK, Executions
  <1> QED BY <1>1, <1>2, <1>3

\* The handler takes over from the pending reasons.
LEMMA SmpInvIpiExchange ==
  ASSUME SmpInv, NEW i \in Cpu, IpiExchange(i)
  PROVE  SmpInv'
  <1> USE DEF SmpInv, IpiExchange, Taken, bootvars
  <1>1. SmpTypeOK'
    BY DEF SmpTypeOK
  <1>2. OnePlace'
    BY DEF SmpTypeOK, OnePlace, Marks, Pending, Serving
  <1>3. Executions'
    BY DEF SmpTypeOK, Executions
  <1> QED BY <1>1, <1>2, <1>3

\* The handler executes the call of its slot, for the first time.
LEMMA SmpInvIpiExecute ==
  ASSUME SmpInv, NEW i \in Cpu, IpiExecute(i)
  PROVE  SmpInv'
  <1> USE DEF SmpInv, IpiExecute, bootvars
  <1>1. ~call[i].done /\ call[i].func \in Caller
    BY DEF OnePlace, Executions, Serving
  <1>2. SmpTypeOK'
    BY <1>1 DEF SmpTypeOK
  <1>3. OnePlace'
    BY <1>1 DEF SmpTypeOK, OnePlace, Marks, Pending, Serving
  <1>4. Executions'
    <2>1. \A j \in Cpu, c \in Caller :
            executed'[c][j] = IF j = i /\ c = call[i].func
                              THEN (IF executed[c][j] < 2 THEN executed[c][j] + 1 ELSE executed[c][j])
                              ELSE executed[c][j]
      BY <1>1 DEF SmpTypeOK
    <2>2. executed[call[i].func][i] = 0
      BY <1>1 DEF Executions
    <2>3. \A j \in Cpu : handler'[j] = IF j = i THEN "complete" ELSE handler[j]
      BY DEF SmpTypeOK
    <2>4. \A j \in Cpu : ~call[j].done =>
             /\ call[j].func \in Caller
             /\ executed'[call[j].func][j] = IF handler'[j] = "complete" THEN 1 ELSE 0
      BY <1>1, <2>1, <2>2, <2>3 DEF Executions
    <2>5. \A j \in Cpu, c \in Caller :
            (call[j].done \/ call[j].func # c) => executed'[c][j] = 1
      BY <1>1, <2>1 DEF Executions
    <2> QED
      BY <2>4, <2>5 DEF Executions
  <1> QED BY <1>2, <1>3, <1>4

\* The slot is done: its call is in no place any more.
LEMMA SmpInvIpiComplete ==
  ASSUME SmpInv, NEW i \in Cpu, IpiComplete(i)
  PROVE  SmpInv'
  <1> USE DEF SmpInv, IpiComplete, bootvars
  <1>1. ~call[i].done
    BY DEF OnePlace, Serving
  <1>2. SmpTypeOK'
    BY DEF SmpTypeOK
  <1>3. OnePlace'
    BY DEF SmpTypeOK, OnePlace, Marks, Pending, Serving
  <1>4. Executions'
    BY <1>1 DEF SmpTypeOK, Executions
  <1> QED BY <1>2, <1>3, <1>4

\* The invariant is inductive: one case for every action.
LEMMA SmpInvStep == SmpInv /\ [SmpNext]_smpvars => SmpInv'
  <1> SUFFICES ASSUME SmpInv, [SmpNext]_smpvars PROVE SmpInv'
    OBVIOUS
  <1>1. CASE UNCHANGED smpvars
    BY <1>1, SmpInvElsewhere DEF smpvars
  <1>2. CASE BootStep
    BY <1>2, SmpInvElsewhere DEF BootStep, EndStart, BootSchedules, StartCpu, ReleaseCpu
  <1>3. ASSUME NEW i \in Cpu, CpuStep(i) PROVE SmpInv'
    <2>1. CASE SecondaryReady(i) \/ SecondaryOnline(i) \/ SecondarySchedules(i)
      BY <2>1, SmpInvElsewhere DEF SecondaryReady, SecondaryOnline, SecondarySchedules
    <2> QED BY <1>3, <2>1, SmpInvIpiTaken, SmpInvIpiExchange, SmpInvIpiExecute, SmpInvIpiComplete
          DEF CpuStep
  <1>4. ASSUME NEW c \in Caller, CallerStep(c) PROVE SmpInv'
    BY <1>4, SmpInvIpiMark, SmpInvCallerOnly DEF CallerStep
  <1>5. ASSUME NEW c \in Caller, NEW i \in Cpu, Reschedule(c, i) PROVE SmpInv'
    BY <1>5, SmpInvReschedule
  <1>6. ASSUME NEW c \in Caller, NEW i \in Cpu, NEW waits \in BOOLEAN, CallOnCpu(c, i, waits)
        PROVE SmpInv'
    BY <1>6, SmpInvCallOnCpu
  <1> QED BY <1>1, <1>2, <1>3, <1>4, <1>5, <1>6 DEF SmpNext

\* A call is executed once, and before its caller is told so or its slot is taken
\* again (os_smp_call_on_cpu, os_ipi_handler), whatever interrupts merge or come late.
THEOREM CallsAreExecutedOnce == SmpSpec => []CallsRunOnce
  <1>1. SmpInit => SmpInv
    BY SmpInvInit
  <1>2. SmpInv /\ [SmpNext]_smpvars => SmpInv'
    BY SmpInvStep
  <1>3. SmpInv => CallsRunOnce
    BY SmpInvMeans
  <1> QED BY <1>1, <1>2, <1>3, PTL DEF SmpSpec

-----------------------------------------------------------------------------

(* SmpSched. Where main pins every task to a core and nobody changes that, *)
(* no two cores execute on one stack, for any number of cores and tasks,   *)
(* any settings, and any calls in between.                                 *)

\* Every task is pinned to one core for ever.
Pinned == Affinities \subseteq Core /\ \A b \in SmpBuilds : "affinity" \notin b.ops

CorePlaces == {"off", "task", "exit", "switch"}
Steps == {"run", "in", "lock", "call", "sched"}

SmpSchedTypeOK ==
  /\ build \in SmpBuilds
  /\ affinity \in [AllTcb -> Core]
  /\ \A c \in Core : affinity[IdleTask(c)] = c
  /\ current \in [Core -> AllTcb \cup {NoTask}]
  /\ stack \in [Core -> AllTcb \cup {NoTask}]
  /\ place \in [Core -> CorePlaces]
  /\ switch \in [Core -> [from : AllTcb \cup {NoTask}, to : AllTcb \cup {NoTask}]]
  /\ step \in [AllTcb -> Steps]
  /\ cpu_read \in [AllTcb -> Core \cup {AnyCore}]
  /\ cur_read \in [AllTcb -> AllTcb \cup {NoTask}]

\* Every saved context lies on the stack of its own task.
OwnFrames == frame = [t \in AllTcb |-> t]

\* A core executes its current task, which is at home there, and before its first
\* switch none; when it is about to switch, from that task to the new current one.
AtHome(c) ==
  /\ stack[c] # NoTask => affinity[stack[c]] = c
  /\ place[c] = "off" => stack[c] = NoTask /\ current[c] = NoTask
  /\ place[c] \in {"task", "exit"} => stack[c] # NoTask /\ current[c] = stack[c]
  /\ place[c] = "switch" =>
       /\ switch[c].to # NoTask /\ switch[c].to = current[c] /\ affinity[switch[c].to] = c
       /\ switch[c].from = stack[c]

\* What a task read of its core is still true, and so is that it is the current one.
ReadsRight ==
  \A t \in AllTcb : /\ step[t] \in {"in", "lock", "sched"} => cpu_read[t] = affinity[t]
                    /\ step[t] = "lock" => cur_read[t] = t

SmpSchedInv ==
  SmpSchedTypeOK /\ OwnFrames /\ (\A c \in Core : AtHome(c)) /\ ReadsRight
-----------------------------------------------------------------------------
\* sched_highest_ready returns a task that is at home on the core it is asked for.
LEMMA HighestIsAtHome ==
  ASSUME SmpSchedInv, NEW c \in Core, NEW t \in HighestOn(c)
  PROVE  t \in AllTcb /\ t # NoTask /\ affinity[t] = c
  <1>1. IdleTask(c) \in AllTcb /\ affinity[IdleTask(c)] = c
    BY DEF SmpSchedInv, SmpSchedTypeOK, AllTcb, Idles
  <1>2. NoTask \notin AllTcb
    BY SmpSchedAssumption
  <1>3. CASE Listed(c) = {}
    BY <1>1, <1>2, <1>3 DEF HighestOn
  <1>4. CASE Listed(c) # {}
    <2>1. t \in AllTcb /\ MayRunOn(t, c)
      BY <1>4 DEF HighestOn, Listed
    <2>2. affinity[t] \in Core /\ AnyCore \notin Core
      BY <2>1, SmpSchedAssumption DEF SmpSchedInv, SmpSchedTypeOK
    <2> QED BY <2>1, <2>2, <1>2 DEF MayRunOn
  <1> QED BY <1>3, <1>4

\* A core that executes a task is told its own number.
LEMMA CoreReadsItself ==
  ASSUME SmpSchedInv, NEW c \in Core, place[c] \in {"task", "exit"}
  PROVE  /\ stack[c] \in AllTcb /\ affinity[stack[c]] = c /\ current[c] = stack[c]
         /\ step[stack[c]] \in {"in", "lock", "sched"} => cpu_read[stack[c]] = c
         /\ step[stack[c]] = "lock" => cur_read[stack[c]] = stack[c]
  <1>1. stack[c] \in AllTcb /\ affinity[stack[c]] = c /\ current[c] = stack[c]
    BY DEF SmpSchedInv, SmpSchedTypeOK, AtHome
  <1> QED BY <1>1 DEF SmpSchedInv, ReadsRight

\* The critical section of os_sched keeps what concerns the cores, as long as the
\* core it was told is the core it runs on.
LEMMA SchedLockedKeeps ==
  ASSUME SmpSchedInv, NEW c \in Core, place[c] \in {"task", "exit"},
         SchedLocked(c, c), UNCHANGED <<affinity, stack>>
  PROVE  /\ current' \in [Core -> AllTcb \cup {NoTask}]
         /\ place' \in [Core -> CorePlaces]
         /\ switch' \in [Core -> [from : AllTcb \cup {NoTask}, to : AllTcb \cup {NoTask}]]
         /\ \A d \in Core : AtHome(d)'
  <1>1. PICK chosen \in HighestOn(c) :
          LET cur == current[c]
          IN IF chosen = cur
             THEN /\ place' = [place EXCEPT ![c] = "task"]
                  /\ UNCHANGED <<tstate, ready, current, switch>>
             ELSE /\ current' = [current EXCEPT ![c] = chosen]
                  /\ switch' = [switch EXCEPT ![c] = [from |-> cur, to |-> chosen]]
                  /\ place' = [place EXCEPT ![c] = "switch"]
    BY DEF SchedLocked
  <1>2. chosen \in AllTcb /\ chosen # NoTask /\ affinity[chosen] = c
    BY HighestIsAtHome
  <1>3. stack[c] \in AllTcb /\ current[c] = stack[c] /\ stack[c] # NoTask /\ affinity[stack[c]] = c
    BY CoreReadsItself, SmpSchedAssumption
  <1>4. CASE chosen = current[c]
    <2>1. place' = [place EXCEPT ![c] = "task"] /\ UNCHANGED <<current, switch>>
      BY <1>1, <1>4
    <2> QED BY <2>1, <1>3 DEF SmpSchedInv, SmpSchedTypeOK, AtHome, CorePlaces
  <1>5. CASE chosen # current[c]
    <2>1. /\ current' = [current EXCEPT ![c] = chosen]
          /\ switch' = [switch EXCEPT ![c] = [from |-> current[c], to |-> chosen]]
          /\ place' = [place EXCEPT ![c] = "switch"]
      BY <1>1, <1>5
    <2>2. /\ current' \in [Core -> AllTcb \cup {NoTask}]
          /\ place' \in [Core -> CorePlaces]
          /\ switch' \in [Core -> [from : AllTcb \cup {NoTask}, to : AllTcb \cup {NoTask}]]
      BY <2>1, <1>2, <1>3 DEF SmpSchedInv, SmpSchedTypeOK, CorePlaces
    <2>3. ASSUME NEW d \in Core PROVE AtHome(d)'
      <3>1. CASE d = c
        BY <3>1, <2>1, <1>2, <1>3 DEF SmpSchedInv, SmpSchedTypeOK, AtHome
      <3>2. CASE d # c
        BY <3>2, <2>1 DEF SmpSchedInv, SmpSchedTypeOK, AtHome
      <3> QED BY <3>1, <3>2
    <2> QED BY <2>2, <2>3
  <1> QED BY <1>4, <1>5
-----------------------------------------------------------------------------
\* The state main leaves to os_kernel_start.
LEMMA SmpSchedInvInit ==
  ASSUME Pinned, SmpSchedInit
  PROVE  SmpSchedInv
  <1>1. affinity \in [AllTcb -> Core] /\ \A c \in Core : affinity[IdleTask(c)] = c
    <2>1. \A t \in AllTcb : affinity[t] \in Core
      BY DEF SmpSchedInit, Pinned, AllTcb, Idles
    <2> QED BY <2>1 DEF SmpSchedInit
  <1>2. SmpSchedTypeOK
    BY <1>1 DEF SmpSchedTypeOK, SmpSchedInit, NoSwitch, CorePlaces, Steps
  <1>3. \A c \in Core : AtHome(c)
    BY DEF SmpSchedInit, AtHome
  <1> QED BY <1>2, <1>3 DEF SmpSchedInv, SmpSchedInit, OwnFrames, ReadsRight

\* os_kernel_start
LEMMA SmpSchedInvStart ==
  ASSUME SmpSchedInv, NEW c \in Core, StartsOn(c)
  PROVE  SmpSchedInv'
  <1>1. PICK first \in HighestOn(c) :
          /\ current' = [current EXCEPT ![c] = first]
          /\ switch' = [switch EXCEPT ![c] = [from |-> NoTask, to |-> first]]
    BY DEF StartsOn
  <1>2. first \in AllTcb /\ first # NoTask /\ affinity[first] = c
    BY HighestIsAtHome
  <1>3. SmpSchedTypeOK'
    BY <1>1, <1>2 DEF SmpSchedInv, SmpSchedTypeOK, StartsOn, CorePlaces
  <1>4. ASSUME NEW d \in Core PROVE AtHome(d)'
    <2>1. CASE d = c
      BY <2>1, <1>1, <1>2 DEF SmpSchedInv, SmpSchedTypeOK, AtHome, StartsOn
    <2>2. CASE d # c
      BY <2>2, <1>1 DEF SmpSchedInv, SmpSchedTypeOK, AtHome, StartsOn
    <2> QED BY <2>1, <2>2
  <1>5. OwnFrames' /\ ReadsRight'
    BY DEF SmpSchedInv, OwnFrames, ReadsRight, StartsOn
  <1> QED BY <1>3, <1>4, <1>5 DEF SmpSchedInv

\* The switch: both contexts are those of tasks at home on the core.
LEMMA SmpSchedInvSwitch ==
  ASSUME SmpSchedInv, NEW c \in Core, SwitchesContext(c)
  PROVE  SmpSchedInv'
  <1>1. /\ switch[c].to \in AllTcb /\ switch[c].to = current[c] /\ affinity[switch[c].to] = c
        /\ switch[c].from = stack[c] /\ stack[c] \in AllTcb \cup {NoTask}
        /\ NoTask \notin AllTcb
    BY SmpSchedAssumption DEF SmpSchedInv, SmpSchedTypeOK, AtHome, SwitchesContext
  <1>2. frame' = frame
    BY <1>1 DEF SmpSchedInv, OwnFrames, SwitchesContext
  <1>3. stack' = [stack EXCEPT ![c] = current[c]]
    BY <1>1, <1>2 DEF SmpSchedInv, OwnFrames, SwitchesContext
  <1>4. SmpSchedTypeOK'
    BY <1>1, <1>3 DEF SmpSchedInv, SmpSchedTypeOK, SwitchesContext, NoSwitch, CorePlaces
  <1>5. ASSUME NEW d \in Core PROVE AtHome(d)'
    <2>1. CASE d = c
      BY <2>1, <1>1, <1>3 DEF SmpSchedInv, SmpSchedTypeOK, AtHome, SwitchesContext
    <2>2. CASE d # c
      BY <2>2, <1>3 DEF SmpSchedInv, SmpSchedTypeOK, AtHome, SwitchesContext
    <2> QED BY <2>1, <2>2
  <1>6. OwnFrames' /\ ReadsRight'
    BY <1>2 DEF SmpSchedInv, OwnFrames, ReadsRight, SwitchesContext
  <1> QED BY <1>4, <1>5, <1>6 DEF SmpSchedInv

\* An interrupt changes states and lists only, up to its exit.
LEMMA SmpSchedInvInterrupt ==
  ASSUME SmpSchedInv, NEW c \in Core, Interrupted(c)
  PROVE  SmpSchedInv'
  <1>1. SmpSchedTypeOK'
    BY DEF SmpSchedInv, SmpSchedTypeOK, Interrupted, CorePlaces
  <1>2. \A d \in Core : AtHome(d)'
    BY DEF SmpSchedInv, SmpSchedTypeOK, AtHome, Interrupted
  <1> QED BY <1>1, <1>2 DEF SmpSchedInv, OwnFrames, ReadsRight, Interrupted

\* os_irq_exit
LEMMA SmpSchedInvExit ==
  ASSUME SmpSchedInv, NEW c \in Core, InterruptExits(c)
  PROVE  SmpSchedInv'
  <1>1. OwnFrames' /\ ReadsRight'
    BY DEF SmpSchedInv, OwnFrames, ReadsRight, InterruptExits
  <1>2. CASE build.exits
    <2>1. SchedLocked(c, c) /\ place[c] = "exit" /\ UNCHANGED <<build, affinity, stack, step, cpu_read, cur_read>>
      BY <1>2 DEF InterruptExits
    <2>2. SmpSchedTypeOK'
      BY <2>1, SchedLockedKeeps DEF SmpSchedInv, SmpSchedTypeOK
    <2>3. \A d \in Core : AtHome(d)'
      BY <2>1, SchedLockedKeeps
    <2> QED BY <1>1, <2>2, <2>3 DEF SmpSchedInv
  <1>3. CASE ~build.exits
    <2>1. SmpSchedTypeOK'
      BY <1>3 DEF SmpSchedInv, SmpSchedTypeOK, InterruptExits, CorePlaces
    <2>2. \A d \in Core : AtHome(d)'
      BY <1>3 DEF SmpSchedInv, SmpSchedTypeOK, AtHome, InterruptExits
    <2> QED BY <1>1, <2>1, <2>2 DEF SmpSchedInv
  <1> QED BY <1>2, <1>3

\* The part of a call before os_sched leaves the cores alone; what it reads of its
\* core is true.
LEMMA SmpSchedInvCall ==
  ASSUME SmpSchedInv, NEW c \in Core, place[c] = "task", InTask, affinity' = affinity,
         NEW s \in {"run", "call"}, GoesTo(c, s),
         UNCHANGED <<cpu_read, cur_read>> \/ Forgets(c)
  PROVE  SmpSchedInv'
  <1>1. stack[c] \in AllTcb
    BY CoreReadsItself
  <1>2. SmpSchedTypeOK'
    BY <1>1 DEF SmpSchedInv, SmpSchedTypeOK, InTask, GoesTo, Forgets, Steps
  <1>3. \A d \in Core : AtHome(d)'
    BY DEF SmpSchedInv, AtHome, InTask
  <1>4. ReadsRight'
    BY <1>1 DEF SmpSchedInv, SmpSchedTypeOK, ReadsRight, GoesTo, Forgets
  <1> QED BY <1>2, <1>3, <1>4 DEF SmpSchedInv, OwnFrames, InTask

LEMMA SmpSchedInvReads ==
  ASSUME SmpSchedInv, NEW c \in Core, ReadsCpu(c)
  PROVE  SmpSchedInv'
  <1>1. /\ stack[c] \in AllTcb /\ affinity[stack[c]] = c
        /\ InTask /\ UNCHANGED <<affinity, cur_read>>
        /\ cpu_read' = [cpu_read EXCEPT ![stack[c]] = c]
    BY CoreReadsItself DEF ReadsCpu, At
  <1>2. PICK s \in {"in", "sched"} : step' = [step EXCEPT ![stack[c]] = s]
    BY DEF ReadsCpu, GoesTo
  <1>3. SmpSchedTypeOK'
    BY <1>1, <1>2 DEF SmpSchedInv, SmpSchedTypeOK, InTask, Steps
  <1>4. \A d \in Core : AtHome(d)'
    BY <1>1 DEF SmpSchedInv, AtHome, InTask
  <1>5. ReadsRight'
    BY <1>1, <1>2 DEF SmpSchedInv, SmpSchedTypeOK, ReadsRight
  <1> QED BY <1>1, <1>3, <1>4, <1>5 DEF SmpSchedInv, OwnFrames, InTask

\* The current task of the core a task runs on is that task.
LEMMA SmpSchedInvReadsCurrent ==
  ASSUME SmpSchedInv, NEW c \in Core, ReadsCurrent(c)
  PROVE  SmpSchedInv'
  <1>1. /\ place[c] = "task" /\ step[stack[c]] = "in"
        /\ InTask /\ UNCHANGED <<affinity, cpu_read>> /\ step' = [step EXCEPT ![stack[c]] = "lock"]
    BY DEF ReadsCurrent, At, GoesTo
  <1>2. stack[c] \in AllTcb /\ current[c] = stack[c] /\ cpu_read[stack[c]] = c
    BY <1>1, CoreReadsItself
  <1>3. cur_read' = [cur_read EXCEPT ![stack[c]] = stack[c]]
    BY <1>2 DEF ReadsCurrent
  <1>4. SmpSchedTypeOK'
    BY <1>1, <1>2, <1>3 DEF SmpSchedInv, SmpSchedTypeOK, InTask, Steps
  <1>5. \A d \in Core : AtHome(d)'
    BY <1>1 DEF SmpSchedInv, AtHome, InTask
  <1>6. ReadsRight'
    BY <1>1, <1>2, <1>3 DEF SmpSchedInv, SmpSchedTypeOK, ReadsRight
  <1> QED BY <1>1, <1>4, <1>5, <1>6 DEF SmpSchedInv, OwnFrames, InTask

\* os_sched, called by a task, finds that it still runs where it looked.
LEMMA SmpSchedInvSched ==
  ASSUME SmpSchedInv, NEW c \in Core, SchedOn(c)
  PROVE  SmpSchedInv'
  <1>1. /\ place[c] = "task" /\ stack[c] \in AllTcb /\ cpu_read[stack[c]] = c
        /\ SchedLocked(c, c)
    BY CoreReadsItself DEF SchedOn, At
  <1>2. /\ UNCHANGED <<build, affinity, frame, stack>>
        /\ step' = [step EXCEPT ![stack[c]] = "run"]
        /\ cpu_read' = [cpu_read EXCEPT ![stack[c]] = AnyCore]
        /\ cur_read' = [cur_read EXCEPT ![stack[c]] = NoTask]
    BY DEF SchedOn, GoesTo, Forgets
  <1>3. SmpSchedTypeOK'
    BY <1>1, <1>2, SchedLockedKeeps DEF SmpSchedInv, SmpSchedTypeOK, Steps
  <1>4. \A d \in Core : AtHome(d)'
    BY <1>1, <1>2, SchedLockedKeeps
  <1>5. OwnFrames' /\ ReadsRight'
    BY <1>1, <1>2 DEF SmpSchedInv, SmpSchedTypeOK, OwnFrames, ReadsRight
  <1> QED BY <1>3, <1>4, <1>5 DEF SmpSchedInv

\* The invariant is inductive.
LEMMA SmpSchedInvStep ==
  ASSUME Pinned, SmpSchedInv, [SmpSchedNext]_schedvars
  PROVE  SmpSchedInv'
  <1>1. CASE UNCHANGED schedvars
    BY <1>1 DEF schedvars, SmpSchedInv, SmpSchedTypeOK, OwnFrames, AtHome, ReadsRight
  <1>2. ASSUME NEW c \in Core, CoreStep(c) PROVE SmpSchedInv'
    <2>1. CASE StartsOn(c) \/ SwitchesContext(c) \/ Interrupted(c) \/ InterruptExits(c)
      BY <2>1, SmpSchedInvStart, SmpSchedInvSwitch, SmpSchedInvInterrupt, SmpSchedInvExit
    <2>2. CASE ReadsCpu(c) \/ ReadsCurrent(c) \/ SchedOn(c)
      BY <2>2, SmpSchedInvReads, SmpSchedInvReadsCurrent, SmpSchedInvSched
    <2>3. CASE YieldOn(c)
      BY <2>3, SmpSchedInvCall DEF YieldOn, At
    <2>4. CASE DelayOn(c)
      BY <2>4, SmpSchedInvCall DEF DelayOn, At
    <2>5. CASE IdleAsks(c)
      BY <2>5, SmpSchedInvCall DEF IdleAsks, At
    <2>6. ASSUME NEW t \in Task, SuspendOn(c, t) \/ ResumeOn(c, t) PROVE SmpSchedInv'
      BY <2>6, SmpSchedInvCall DEF SuspendOn, ResumeOn, At
    <2>7. ASSUME NEW t \in Task, NEW a \in Affinities, SetAffinity(c, t, a) PROVE FALSE
      BY <2>7 DEF SetAffinity, Pinned, SmpSchedInv, SmpSchedTypeOK
    <2> QED BY <1>2, <2>1, <2>2, <2>3, <2>4, <2>5, <2>6, <2>7 DEF CoreStep
  <1> QED BY <1>1, <1>2 DEF SmpSchedNext

\* Where tasks are pinned, no two cores ever execute on one stack, whatever the
\* windows, the time slices, and the calls on tasks of other cores.
THEOREM PinnedTasksRunAlone ==
  ASSUME Pinned
  PROVE  SmpSchedSpec => []SoleExecution
  <1>1. SmpSchedInit => SmpSchedInv
    BY SmpSchedInvInit
  <1>2. SmpSchedInv /\ [SmpSchedNext]_schedvars => SmpSchedInv'
    BY SmpSchedInvStep
  <1>3. SmpSchedInv => SoleExecution
    BY DEF SmpSchedInv, AtHome, SoleExecution
  <1> QED BY <1>1, <1>2, <1>3, PTL DEF SmpSchedSpec
-----------------------------------------------------------------------------

(* Lines: what Head, Tail and Append make of a sequence.                   *)

LEMMA FirstOfLine ==
  ASSUME NEW T, NEW w \in Seq(T), w # << >>
  PROVE  /\ Len(w) \in Nat /\ 1 \in 1 .. Len(w) /\ Head(w) = w[1] /\ w[1] \in T
         /\ Tail(w) \in Seq(T) /\ Len(Tail(w)) = Len(w) - 1
         /\ \A i \in 1 .. Len(w) - 1 : Tail(w)[i] = w[i + 1]
<1>1. Len(w) \in Nat /\ Len(w) > 0
  BY EmptySeq, LenProperties
<1>2. w[1] \in T
  BY <1>1, ElementOfSeq
<1> QED
  BY <1>1, <1>2, HeadTailProperties

LEMMA SomebodyInLine ==
  ASSUME NEW T, NEW w \in Seq(T), NEW i \in 1 .. Len(w)
  PROVE  w # << >>
<1>1. Len(w) # 0
  BY LenProperties
<1> QED
  BY <1>1, EmptySeq

LEMMA NewInLine ==
  ASSUME NEW T, NEW w \in Seq(T), NEW c \in T
  PROVE  /\ Append(w, c) \in Seq(T) /\ Append(w, c) # << >>
         /\ Len(w) \in Nat /\ Len(Append(w, c)) = Len(w) + 1
         /\ \A i \in 1 .. Len(w) + 1 : Append(w, c)[i] = IF i = Len(w) + 1 THEN c ELSE w[i]
BY AppendProperties
-----------------------------------------------------------------------------

(* SmpSched, the ready lists.  Where tasks are pinned and the tick takes   *)
(* no time slices, the cores keep the lists and the current tasks in       *)
(* order, whatever they do to each other's tasks.                          *)

\* The tick takes no time slices (os_sched.c:577 lists the current task without a look
\* at whether another core listed it already).
NoSlices == \A b \in SmpBuilds : ~b.slices

InList(w, t) == \E i \in 1 .. Len(w) : w[i] = t
Once(w) == \A i, j \in 1 .. Len(w) : w[i] = w[j] => i = j

TaskStates == {"READY", "RUNNING", "SLEEPING", "SUSPENDED"}

\* Who is linked is READY, who is RUNNING is current, and who is current is at home;
\* only tasks make calls.
ListsInv ==
  /\ tstate \in [AllTcb -> TaskStates]
  /\ ready \in Seq(Task) /\ Once(ready)
  /\ \A t \in Task : tstate[t] = "READY" <=> InList(ready, t)
  /\ \A t \in AllTcb : tstate[t] = "RUNNING" => \E c \in Core : current[c] = t
  /\ \A c \in Core : current[c] # NoTask => affinity[current[c]] = c
  /\ \A t \in Idles : step[t] \notin {"in", "lock"}

LEMMA PlacesInList ==
  ASSUME ready \in Seq(Task), NEW t
  PROVE  /\ Places(t) = { i \in 1 .. Len(ready) : ready[i] = t }
         /\ Places(t) = {} <=> ~InList(ready, t)
BY DEF Places, InList

LEMMA UnlinkedLeaves ==
  ASSUME ready \in Seq(Task), Once(ready), NEW t
  PROVE  /\ Unlinked(t) \in Seq(Task) /\ Once(Unlinked(t))
         /\ \A u : InList(Unlinked(t), u) <=> InList(ready, u) /\ u # t
<1>1. CASE Places(t) = {}
  <2>1. Unlinked(t) = ready /\ ~InList(ready, t)
    BY <1>1, PlacesInList DEF Unlinked
  <2> QED
    BY <2>1
<1>2. CASE Places(t) # {}
  <2> DEFINE i == CHOOSE i \in Places(t) : TRUE
             w == [j \in 1 .. Len(ready) - 1 |-> IF j < i THEN ready[j] ELSE ready[j + 1]]
  <2>1. i \in Places(t) /\ Unlinked(t) = w
    BY <1>2 DEF Unlinked
  <2> HIDE DEF i
  <2>2. i \in 1 .. Len(ready) /\ ready[i] = t /\ Len(ready) \in Nat
    BY <2>1, PlacesInList
  <2>3. \A j \in 1 .. Len(ready) : ready[j] \in Task
    OBVIOUS
  <2>4. Len(ready) - 1 \in Nat
    BY <2>2
  <2>5. \A j \in 1 .. Len(ready) - 1 : j \in 1 .. Len(ready) /\ j + 1 \in 1 .. Len(ready)
    BY <2>2
  <2>6. w \in [1 .. Len(ready) - 1 -> Task]
    BY <2>3, <2>5
  <2>7. w \in Seq(Task) /\ Len(w) = Len(ready) - 1
    <3>1. w \in Seq(Task)
      BY <2>4, <2>6
    <3>2. DOMAIN w = 1 .. Len(ready) - 1
      OBVIOUS
    <3> HIDE DEF w
    <3> QED
      BY <2>4, <3>1, <3>2, LenProperties
  <2>8. \A j \in 1 .. Len(w) : /\ w[j] = IF j < i THEN ready[j] ELSE ready[j + 1]
                               /\ w[j] # t
    <3>1. \A j \in 1 .. Len(ready) - 1 : w[j] = IF j < i THEN ready[j] ELSE ready[j + 1]
      OBVIOUS
    <3> HIDE DEF w
    <3> QED
      BY <2>2, <2>5, <2>7, <3>1 DEF Once
  <2> HIDE DEF w
  <2>9. Once(w)
    <3> SUFFICES ASSUME NEW j \in 1 .. Len(w), NEW k \in 1 .. Len(w), w[j] = w[k] PROVE j = k
      BY DEF Once
    <3> DEFINE jj == IF j < i THEN j ELSE j + 1
               kk == IF k < i THEN k ELSE k + 1
    <3>1. jj \in 1 .. Len(ready) /\ kk \in 1 .. Len(ready) /\ ready[jj] = ready[kk]
      BY <2>5, <2>7, <2>8
    <3>2. jj = kk
      BY <3>1 DEF Once
    <3> QED
      BY <2>2, <2>7, <3>2
  <2>10. ASSUME NEW u PROVE InList(w, u) <=> InList(ready, u) /\ u # t
    <3>1. ASSUME NEW k \in 1 .. Len(ready), ready[k] = u, u # t PROVE InList(w, u)
      <4>1. k # i
        BY <2>2, <3>1
      <4>2. CASE k < i
        <5>1. k \in 1 .. Len(w) /\ w[k] = ready[k]
          BY <2>2, <2>7, <2>8, <4>2
        <5> QED
          BY <3>1, <5>1 DEF InList
      <4>3. CASE k > i
        <5>1. k - 1 \in 1 .. Len(w) /\ ~(k - 1 < i) /\ (k - 1) + 1 = k
          BY <2>2, <2>7, <4>3
        <5>2. w[k - 1] = ready[k]
          BY <2>8, <5>1
        <5> QED
          BY <3>1, <5>1, <5>2 DEF InList
      <4> QED
        BY <2>2, <4>1, <4>2, <4>3
    <3>2. ASSUME NEW k \in 1 .. Len(w), w[k] = u PROVE InList(ready, u) /\ u # t
      BY <2>5, <2>7, <2>8, <3>2 DEF InList
    <3> QED
      BY <3>1, <3>2 DEF InList
  <2> QED
    BY <2>1, <2>7, <2>9, <2>10
<1> QED
  BY <1>1, <1>2

LEMMA AppendedOnce ==
  ASSUME NEW w \in Seq(Task), Once(w), NEW t \in Task, ~InList(w, t)
  PROVE  /\ Append(w, t) \in Seq(Task) /\ Once(Append(w, t))
         /\ \A u : InList(Append(w, t), u) <=> InList(w, u) \/ u = t
<1> DEFINE v == Append(w, t)
<1>1. /\ v \in Seq(Task) /\ Len(w) \in Nat /\ Len(v) = Len(w) + 1
      /\ \A i \in 1 .. Len(w) + 1 : v[i] = IF i = Len(w) + 1 THEN t ELSE w[i]
  BY NewInLine
<1> HIDE DEF v
<1>2. Len(w) + 1 \in 1 .. Len(v)
  BY <1>1
<1>3. Once(v)
  BY <1>1 DEF Once, InList
<1>4. \A u : InList(v, u) <=> InList(w, u) \/ u = t
  BY <1>1, <1>2 DEF InList
<1> QED
  BY <1>1, <1>3, <1>4 DEF v

LEMMA ConcatOnce ==
  ASSUME NEW w \in Seq(Task), Once(w), NEW v \in Seq(Task), Once(v),
         \A t \in Task : ~(InList(w, t) /\ InList(v, t))
  PROVE  /\ w \o v \in Seq(Task) /\ Once(w \o v)
         /\ \A u : InList(w \o v, u) <=> InList(w, u) \/ InList(v, u)
<1> DEFINE z == w \o v
<1>1. z \in Seq(Task)
  OBVIOUS
<1>2. /\ Len(w) \in Nat /\ Len(v) \in Nat /\ Len(z) = Len(w) + Len(v)
      /\ \A i \in 1 .. Len(w) + Len(v) : z[i] = IF i <= Len(w) THEN w[i] ELSE v[i - Len(w)]
  BY ConcatProperties
<1> HIDE DEF z
<1>3. \A i \in 1 .. Len(w) : i \in 1 .. Len(z) /\ z[i] = w[i] /\ w[i] \in Task
  BY <1>2
<1>4. ASSUME NEW i \in 1 .. Len(v)
      PROVE  Len(w) + i \in 1 .. Len(z) /\ z[Len(w) + i] = v[i] /\ v[i] \in Task
  <2>1. Len(w) + i \in 1 .. Len(z) /\ ~(Len(w) + i <= Len(w)) /\ (Len(w) + i) - Len(w) = i
    BY <1>2
  <2> QED
    BY <1>2, <2>1
<1>5. \A i \in 1 .. Len(z) : i \in 1 .. Len(w) \/ (i - Len(w) \in 1 .. Len(v) /\ z[i] = v[i - Len(w)])
  BY <1>2
<1>6. Once(z)
  <2> SUFFICES ASSUME NEW i \in 1 .. Len(z), NEW j \in 1 .. Len(z), z[i] = z[j] PROVE i = j
    BY DEF Once
  <2>1. CASE i \in 1 .. Len(w) /\ j \in 1 .. Len(w)
    BY <1>3, <2>1 DEF Once
  <2>2. CASE i \notin 1 .. Len(w) /\ j \notin 1 .. Len(w)
    <3>1. i - Len(w) = j - Len(w)
      BY <1>5, <2>2 DEF Once
    <3> QED
      BY <1>2, <3>1
  <2>3. CASE i \in 1 .. Len(w) /\ j \notin 1 .. Len(w)
    BY <1>3, <1>5, <2>3 DEF InList
  <2>4. CASE i \notin 1 .. Len(w) /\ j \in 1 .. Len(w)
    BY <1>3, <1>5, <2>4 DEF InList
  <2> QED
    BY <2>1, <2>2, <2>3, <2>4
<1>7. ASSUME NEW u PROVE InList(z, u) <=> InList(w, u) \/ InList(v, u)
  <2>1. InList(z, u) => InList(w, u) \/ InList(v, u)
    BY <1>3, <1>5 DEF InList
  <2>2. InList(w, u) => InList(z, u)
    BY <1>3 DEF InList
  <2>3. InList(v, u) => InList(z, u)
    BY <1>4 DEF InList
  <2> QED
    BY <2>1, <2>2, <2>3
<1> QED
  BY <1>1, <1>6, <1>7 DEF z


LEMMA IdleAtHome ==
  ASSUME SmpSchedInv, NEW c \in Core, NEW t \in Idles, affinity[t] = c
  PROVE  t = IdleTask(c)
BY DEF SmpSchedInv, SmpSchedTypeOK, Idles

\* Whom sched_highest_ready returns: the idle task of the core, or a linked task.
LEMMA HighestIsListed ==
  ASSUME SmpSchedInv, ListsInv, NEW c \in Core, NEW t \in HighestOn(c)
  PROVE  t = IdleTask(c) \/ (t \in Task /\ InList(ready, t))
<1>1. CASE Listed(c) = {}
  BY <1>1 DEF HighestOn
<1>2. CASE Listed(c) # {}
  <2>1. Places(t) # {}
    BY <1>2 DEF HighestOn, Listed
  <2>2. PICK i \in 1 .. Len(ready) : ready[i] = t
    BY <2>1, PlacesInList DEF ListsInv, InList
  <2>3. ready[i] \in Task
    BY ElementOfSeq DEF ListsInv
  <2> QED
    BY <2>2, <2>3 DEF InList
<1> QED
  BY <1>1, <1>2

LEMMA TcbKinds ==
  /\ Task \subseteq AllTcb /\ Idles \subseteq AllTcb /\ Task \cap Idles = {} /\ NoTask \notin AllTcb
  /\ \A c \in Core : IdleTask(c) \in Idles
  /\ \A t \in AllTcb : t \in Task \/ t \in Idles
  BY SmpSchedAssumption DEF AllTcb, Idles

\* The critical section of os_sched.
LEMMA SchedLockedLists ==
  ASSUME SmpSchedInv, ListsInv, NEW c \in Core, place[c] \in {"task", "exit"},
         SchedLocked(c, c), affinity' = affinity, \A t \in Idles : step'[t] \notin {"in", "lock"}
  PROVE  ListsInv'
<1> DEFINE cur == current[c]
<1>1. cur \in AllTcb /\ cur # NoTask /\ affinity[cur] = c
  BY CoreReadsItself, SmpSchedAssumption
<1>2. PICK chosen \in HighestOn(c) :
        IF chosen = cur
        THEN UNCHANGED <<tstate, ready, current>>
        ELSE /\ ready' = IF StaysReady(cur) /\ cur # IdleTask(c)
                         THEN Append(Unlinked(chosen), cur) ELSE Unlinked(chosen)
             /\ tstate' = [tstate EXCEPT ![cur] = IF StaysReady(cur) THEN "READY" ELSE @,
                                         ![chosen] = "RUNNING"]
             /\ current' = [current EXCEPT ![c] = chosen]
  BY DEF SchedLocked
<1>3. chosen \in AllTcb /\ chosen # NoTask /\ affinity[chosen] = c
  BY HighestIsAtHome
<1>4. chosen = IdleTask(c) \/ (chosen \in Task /\ InList(ready, chosen))
  BY HighestIsListed
<1>5. CASE chosen = cur
  BY <1>2, <1>5 DEF ListsInv
<1>6. CASE chosen # cur
  <2> DEFINE w == Unlinked(chosen)
             stays == StaysReady(cur)
  <2>1. w \in Seq(Task) /\ Once(w) /\ \A u : InList(w, u) <=> InList(ready, u) /\ u # chosen
    BY UnlinkedLeaves DEF ListsInv
  <2>2. ready' = IF stays /\ cur # IdleTask(c) THEN Append(w, cur) ELSE w
    BY <1>2, <1>6
  <2>3. \A t \in AllTcb : tstate'[t] = IF t = chosen THEN "RUNNING"
                                       ELSE IF t = cur /\ stays THEN "READY" ELSE tstate[t]
    BY <1>1, <1>2, <1>3, <1>6 DEF ListsInv
  <2>4. /\ \A d \in Core : current'[d] = IF d = c THEN chosen ELSE current[d]
        /\ tstate' \in [AllTcb -> TaskStates]
    <3>1. \A d \in Core : current'[d] = IF d = c THEN chosen ELSE current[d]
      BY <1>2, <1>6 DEF SmpSchedInv, SmpSchedTypeOK
    <3>2. \A t \in AllTcb : tstate'[t] \in TaskStates
      BY <2>3 DEF ListsInv, TaskStates
    <3>3. DOMAIN tstate = AllTcb
      BY DEF ListsInv
    <3>4. tstate' = [t \in AllTcb |-> tstate'[t]]
      BY <1>2, <1>6, <3>3
    <3> QED
      BY <3>1, <3>2, <3>4
  <2>5. stays <=> tstate[cur] = "RUNNING"
    BY DEF StaysReady
  <2> HIDE DEF w, stays
  <2>6. cur # IdleTask(c) => cur \in Task
    BY <1>1, IdleAtHome, TcbKinds
  <2>7. stays /\ cur \in Task => ~InList(ready, cur) /\ ~InList(w, cur)
    BY <2>1, <2>5 DEF ListsInv
  <2>8. /\ ready' \in Seq(Task) /\ Once(ready')
        /\ \A u : InList(ready', u) <=> (InList(ready, u) /\ u # chosen)
                                         \/ (u = cur /\ stays /\ cur # IdleTask(c))
    <3>1. CASE stays /\ cur # IdleTask(c)
      BY <2>1, <2>2, <2>6, <2>7, <3>1, AppendedOnce
    <3>2. CASE ~(stays /\ cur # IdleTask(c))
      BY <2>1, <2>2, <3>2
    <3> QED
      BY <3>1, <3>2
  <2>9. ASSUME NEW t \in Task PROVE tstate'[t] = "READY" <=> InList(ready', t)
    <3>1. t \in AllTcb /\ t # IdleTask(c) /\ (tstate[t] = "READY" <=> InList(ready, t))
      BY TcbKinds DEF ListsInv
    <3> QED
      BY <1>6, <2>3, <2>5, <2>8, <3>1
  <2>10. ASSUME NEW t \in AllTcb, tstate'[t] = "RUNNING" PROVE \E d \in Core : current'[d] = t
    <3>1. CASE t = chosen
      BY <2>4, <3>1
    <3>2. CASE t # chosen
      <4>1. t # cur /\ tstate[t] = "RUNNING"
        BY <2>3, <2>5, <2>10, <3>2
      <4>2. PICK d \in Core : current[d] = t
        BY <4>1 DEF ListsInv
      <4> QED
        BY <2>4, <4>1, <4>2
    <3> QED
      BY <3>1, <3>2
  <2>11. \A d \in Core : current'[d] # NoTask => affinity'[current'[d]] = d
    BY <1>3, <2>4 DEF ListsInv
  <2> QED
    BY <2>4, <2>8, <2>9, <2>10, <2>11 DEF ListsInv
<1> QED
  BY <1>5, <1>6

\* os_kernel_start
LEMMA StartLists == ASSUME SmpSchedInv, ListsInv, NEW c \in Core, StartsOn(c), current[c] = NoTask
                    PROVE  ListsInv'
<1>1. PICK first \in HighestOn(c) :
        /\ ready' = Unlinked(first) /\ tstate' = [tstate EXCEPT ![first] = "RUNNING"]
        /\ current' = [current EXCEPT ![c] = first]
  BY DEF StartsOn
<1>2. UNCHANGED <<affinity, step>>
  BY DEF StartsOn
<1>3. first \in AllTcb /\ first # NoTask /\ affinity[first] = c
  BY HighestIsAtHome
<1>4. /\ ready' \in Seq(Task) /\ Once(ready')
      /\ \A u : InList(ready', u) <=> InList(ready, u) /\ u # first
  BY <1>1, UnlinkedLeaves DEF ListsInv
<1>5. /\ tstate' \in [AllTcb -> TaskStates]
      /\ \A t \in AllTcb : tstate'[t] = IF t = first THEN "RUNNING" ELSE tstate[t]
      /\ \A d \in Core : current'[d] = IF d = c THEN first ELSE current[d]
  BY <1>1, <1>3 DEF ListsInv, TaskStates, SmpSchedInv, SmpSchedTypeOK
<1>6. \A t \in Task : tstate'[t] = "READY" <=> InList(ready', t)
  BY <1>4, <1>5, TcbKinds DEF ListsInv
<1>7. ASSUME NEW t \in AllTcb, tstate'[t] = "RUNNING" PROVE \E d \in Core : current'[d] = t
  <2>1. CASE t = first
    BY <1>5, <2>1
  <2>2. CASE t # first
    <3>1. tstate[t] = "RUNNING" /\ t # NoTask
      BY <1>5, <1>7, <2>2, TcbKinds
    <3>2. PICK d \in Core : current[d] = t
      BY <3>1 DEF ListsInv
    <3> QED
      BY <1>5, <3>1, <3>2
  <2> QED
    BY <2>1, <2>2
<1>8. \A d \in Core : current'[d] # NoTask => affinity'[current'[d]] = d
  BY <1>2, <1>3, <1>5 DEF ListsInv
<1> QED
  BY <1>2, <1>4, <1>5, <1>6, <1>7, <1>8 DEF ListsInv

\* The tick: delays end.
LEMMA InterruptLists ==
  ASSUME NoSlices, SmpSchedInv, ListsInv, NEW c \in Core, Interrupted(c)
  PROVE  ListsInv'
<1>1. ~build.slices /\ UNCHANGED <<affinity, current, step>>
  BY DEF NoSlices, SmpSchedInv, SmpSchedTypeOK, Interrupted
<1> DEFINE S == { t \in Task : tstate[t] = "SLEEPING" }
<1>2. PICK woken \in Orders(S) :
        /\ tstate' = [t \in AllTcb |-> IF \E i \in DOMAIN woken : woken[i] = t
                                       THEN "READY" ELSE tstate[t]]
        /\ ready' = ready \o woken
  BY <1>1 DEF Interrupted
<1>3. PICK n \in 0 .. Cardinality(S) : woken \in [1 .. n -> S]
  BY DEF Orders
<1>4. woken \in Seq(Task) /\ Len(woken) = n /\ DOMAIN woken = 1 .. Len(woken)
  <2>1. n \in Nat
    BY <1>3
  <2>2. woken \in Seq(Task)
    BY <1>3, <2>1
  <2> QED
    BY <1>3, <2>1, <2>2, LenProperties
<1>5. Once(woken)
  BY <1>4 DEF Orders, Once
<1>6. \A u : InList(woken, u) => u \in Task /\ tstate[u] = "SLEEPING"
  BY <1>3, <1>4 DEF InList
<1>7. \A t \in Task : ~(InList(ready, t) /\ InList(woken, t))
  BY <1>6 DEF ListsInv
<1>8. /\ ready' \in Seq(Task) /\ Once(ready')
      /\ \A u : InList(ready', u) <=> InList(ready, u) \/ InList(woken, u)
  BY <1>2, <1>4, <1>5, <1>7, ConcatOnce DEF ListsInv
<1>9. \A t \in AllTcb : tstate'[t] = IF InList(woken, t) THEN "READY" ELSE tstate[t]
  BY <1>2, <1>4 DEF InList
<1>10. tstate' \in [AllTcb -> TaskStates]
  <2>1. \A t \in AllTcb : tstate'[t] \in TaskStates
    BY <1>9 DEF ListsInv, TaskStates
  <2> QED
    BY <1>2, <2>1
<1>11. \A t \in Task : tstate'[t] = "READY" <=> InList(ready', t)
  BY <1>8, <1>9, TcbKinds DEF ListsInv
<1>12. \A t \in AllTcb : tstate'[t] = "RUNNING" => \E d \in Core : current'[d] = t
  BY <1>1, <1>9 DEF ListsInv
<1> QED
  BY <1>1, <1>8, <1>10, <1>11, <1>12 DEF ListsInv

\* What a call does to one task, and to its link.
LEMMA CallLists ==
  ASSUME SmpSchedInv, ListsInv, NEW t \in AllTcb, NEW s \in TaskStates \ {"RUNNING"},
         tstate' = [tstate EXCEPT ![t] = s],
         \/ s = "READY" /\ t \in Task /\ ~InList(ready, t) /\ ready' = Append(ready, t)
         \/ s # "READY" /\ ready' = RemoveReady(t),
         UNCHANGED <<affinity, current>>, \A u \in Idles : step'[u] \notin {"in", "lock"}
  PROVE  ListsInv'
<1>1. \A u \in AllTcb : tstate'[u] = IF u = t THEN s ELSE tstate[u]
  BY DEF ListsInv
<1>2. tstate' \in [AllTcb -> TaskStates]
  BY DEF ListsInv
<1>3. /\ ready' \in Seq(Task) /\ Once(ready')
      /\ \A u \in Task : InList(ready', u) <=> IF u = t THEN s = "READY" ELSE InList(ready, u)
  <2>1. CASE s = "READY"
    <3>1. t \in Task /\ ~InList(ready, t) /\ ready' = Append(ready, t)
      BY <2>1
    <3>2. /\ ready' \in Seq(Task) /\ Once(ready')
          /\ \A u : InList(ready', u) <=> InList(ready, u) \/ u = t
      BY <3>1, AppendedOnce DEF ListsInv
    <3> QED
      BY <2>1, <3>2
  <2>2. CASE s # "READY" /\ tstate[t] = "READY"
    <3>1. ready' = Unlinked(t)
      BY <2>2 DEF RemoveReady
    <3> QED
      BY <2>2, <3>1, UnlinkedLeaves DEF ListsInv
  <2>3. CASE s # "READY" /\ tstate[t] # "READY"
    BY <2>3 DEF RemoveReady, ListsInv
  <2> QED
    BY <2>1, <2>2, <2>3
<1>4. \A u \in Task : tstate'[u] = "READY" <=> InList(ready', u)
  BY <1>1, <1>3, TcbKinds DEF ListsInv
<1>5. \A u \in AllTcb : tstate'[u] = "RUNNING" => \E d \in Core : current'[d] = u
  BY <1>1 DEF ListsInv
<1> QED
  BY <1>2, <1>3, <1>4, <1>5 DEF ListsInv

\* Steps that leave the lists alone.
LEMMA OtherLists ==
  ASSUME ListsInv, UNCHANGED <<affinity, current, tstate, ready>>, \A u \in Idles : step'[u] \notin {"in", "lock"}
  PROVE  ListsInv'
BY DEF ListsInv

\* Only a task is in a call.
LEMMA StepsOfTasks ==
  ASSUME SmpSchedInv, ListsInv, NEW c \in Core, place[c] = "task", NEW s \in Steps, GoesTo(c, s),
         s \in {"in", "lock"} => stack[c] \in Task
  PROVE  \A u \in Idles : step'[u] \notin {"in", "lock"}
<1>1. stack[c] \in AllTcb /\ step \in [AllTcb -> Steps]
  BY CoreReadsItself DEF SmpSchedInv, SmpSchedTypeOK
<1>2. \A u \in Idles : step'[u] = IF u = stack[c] THEN s ELSE step[u]
  BY <1>1, TcbKinds DEF GoesTo
<1> QED
  BY <1>2, TcbKinds DEF ListsInv

LEMMA YieldLists == ASSUME SmpSchedInv, ListsInv, NEW c \in Core, YieldOn(c) PROVE ListsInv'
<1>1. /\ place[c] = "task" /\ step[stack[c]] = "lock" /\ InTask /\ affinity' = affinity
  BY DEF YieldOn, At
<1>2. /\ stack[c] \in AllTcb /\ cur_read[stack[c]] = stack[c]
  BY <1>1, CoreReadsItself
<1>3. stack[c] \in Task
  BY <1>1, <1>2, TcbKinds DEF ListsInv
<1> DEFINE cur == stack[c]
<1>4. \/ /\ tstate[cur] = "RUNNING" /\ tstate' = [tstate EXCEPT ![cur] = "READY"]
         /\ ready' = Append(ready, cur) /\ GoesTo(c, "call")
      \/ GoesTo(c, "run") /\ UNCHANGED <<tstate, ready>>
  BY <1>2 DEF YieldOn
<1>5. \A u \in Idles : step'[u] \notin {"in", "lock"}
  BY <1>1, <1>4, StepsOfTasks DEF Steps
<1>6. CASE tstate[cur] = "RUNNING" /\ tstate' = [tstate EXCEPT ![cur] = "READY"]
           /\ ready' = Append(ready, cur)
  <2>1. ~InList(ready, cur)
    BY <1>3, <1>6 DEF ListsInv
  <2>2. UNCHANGED <<affinity, current>> /\ "READY" \in TaskStates \ {"RUNNING"}
    BY <1>1 DEF InTask, TaskStates
  <2> QED
    BY <1>2, <1>3, <1>5, <1>6, <2>1, <2>2, CallLists
<1>7. CASE UNCHANGED <<tstate, ready>>
  BY <1>1, <1>5, <1>7, OtherLists DEF InTask
<1> QED
  BY <1>4, <1>6, <1>7

LEMMA DelayLists == ASSUME SmpSchedInv, ListsInv, NEW c \in Core, DelayOn(c) PROVE ListsInv'
<1>1. /\ place[c] = "task" /\ step[stack[c]] = "lock" /\ InTask /\ affinity' = affinity /\ GoesTo(c, "call")
  BY DEF DelayOn, At
<1>2. /\ stack[c] \in AllTcb /\ cur_read[stack[c]] = stack[c]
  BY <1>1, CoreReadsItself
<1>3. ready' = RemoveReady(stack[c]) /\ tstate' = [tstate EXCEPT ![stack[c]] = "SLEEPING"]
  BY <1>2 DEF DelayOn
<1>4. \A u \in Idles : step'[u] \notin {"in", "lock"}
  BY <1>1, StepsOfTasks DEF Steps
<1>5. UNCHANGED <<affinity, current>> /\ "SLEEPING" \in TaskStates \ {"RUNNING"}
  BY <1>1 DEF InTask, TaskStates
<1> QED
  BY <1>2, <1>3, <1>4, <1>5, CallLists

LEMMA SuspendLists ==
  ASSUME SmpSchedInv, ListsInv, NEW c \in Core, NEW t \in Task, SuspendOn(c, t) PROVE ListsInv'
<1>1. /\ place[c] = "task" /\ InTask /\ affinity' = affinity
      /\ ready' = RemoveReady(t) /\ tstate' = [tstate EXCEPT ![t] = "SUSPENDED"]
  BY DEF SuspendOn, At
<1>2. PICK s \in {"call", "run"} : GoesTo(c, s)
  BY DEF SuspendOn
<1>3. \A u \in Idles : step'[u] \notin {"in", "lock"}
  BY <1>1, <1>2, StepsOfTasks DEF Steps
<1>4. UNCHANGED <<affinity, current>> /\ "SUSPENDED" \in TaskStates \ {"RUNNING"} /\ t \in AllTcb
  BY <1>1, TcbKinds DEF InTask, TaskStates
<1> QED
  BY <1>1, <1>3, <1>4, CallLists

LEMMA ResumeLists ==
  ASSUME SmpSchedInv, ListsInv, NEW c \in Core, NEW t \in Task, ResumeOn(c, t) PROVE ListsInv'
<1>1. /\ place[c] = "task" /\ InTask /\ affinity' = affinity /\ GoesTo(c, "call")
  BY DEF ResumeOn, At
<1>2. \A u \in Idles : step'[u] \notin {"in", "lock"}
  BY <1>1, StepsOfTasks DEF Steps
<1>3. UNCHANGED <<affinity, current>> /\ "READY" \in TaskStates \ {"RUNNING"} /\ t \in AllTcb
  BY <1>1, TcbKinds DEF InTask, TaskStates
<1>4. CASE tstate[t] = "SUSPENDED"
  <2>1. ~InList(ready, t) /\ tstate' = [tstate EXCEPT ![t] = "READY"] /\ ready' = Append(ready, t)
    BY <1>4 DEF ListsInv, ResumeOn
  <2> QED
    BY <1>2, <1>3, <2>1, CallLists
<1>5. CASE tstate[t] # "SUSPENDED"
  BY <1>2, <1>3, <1>5, OtherLists DEF ResumeOn
<1> QED
  BY <1>4, <1>5

LEMMA ReadsLists == ASSUME SmpSchedInv, ListsInv, NEW c \in Core, ReadsCpu(c) PROVE ListsInv'
<1>1. /\ place[c] = "task" /\ InTask /\ UNCHANGED <<affinity, tstate, ready>>
      /\ (stack[c] \in Task /\ GoesTo(c, "in")) \/ GoesTo(c, "sched")
  BY DEF ReadsCpu, At
<1>2. \A u \in Idles : step'[u] \notin {"in", "lock"}
  BY <1>1, StepsOfTasks DEF Steps
<1> QED
  BY <1>1, <1>2, OtherLists DEF InTask

LEMMA ReadsCurrentLists == ASSUME SmpSchedInv, ListsInv, NEW c \in Core, ReadsCurrent(c) PROVE ListsInv'
<1>1. /\ place[c] = "task" /\ step[stack[c]] = "in" /\ InTask
      /\ UNCHANGED <<affinity, tstate, ready>> /\ GoesTo(c, "lock")
  BY DEF ReadsCurrent, At
<1>2. stack[c] \in Task
  BY <1>1, CoreReadsItself, TcbKinds DEF ListsInv
<1>3. \A u \in Idles : step'[u] \notin {"in", "lock"}
  BY <1>1, <1>2, StepsOfTasks DEF Steps
<1> QED
  BY <1>1, <1>3, OtherLists DEF InTask

LEMMA AffinityLists ==
  ASSUME Pinned, SmpSchedInv, NEW c \in Core, NEW t \in Task, NEW a \in Affinities
  PROVE  ~SetAffinity(c, t, a)
BY DEF Pinned, SmpSchedInv, SmpSchedTypeOK, SetAffinity

LEMMA IdleLists == ASSUME SmpSchedInv, ListsInv, NEW c \in Core, IdleAsks(c) PROVE ListsInv'
<1>1. place[c] = "task" /\ InTask /\ UNCHANGED <<affinity, tstate, ready>> /\ GoesTo(c, "call")
  BY DEF IdleAsks, At
<1>2. \A u \in Idles : step'[u] \notin {"in", "lock"}
  BY <1>1, StepsOfTasks DEF Steps
<1> QED
  BY <1>1, <1>2, OtherLists DEF InTask

LEMMA SchedLists == ASSUME SmpSchedInv, ListsInv, NEW c \in Core, SchedOn(c) PROVE ListsInv'
<1>1. /\ place[c] = "task" /\ step[stack[c]] = "sched" /\ affinity' = affinity
      /\ SchedLocked(c, cpu_read[stack[c]]) /\ GoesTo(c, "run")
  BY DEF SchedOn, At
<1>2. cpu_read[stack[c]] = c
  BY <1>1, CoreReadsItself
<1>3. \A u \in Idles : step'[u] \notin {"in", "lock"}
  BY <1>1, StepsOfTasks DEF Steps
<1> QED
  BY <1>1, <1>2, <1>3, SchedLockedLists

LEMMA ExitLists == ASSUME SmpSchedInv, ListsInv, NEW c \in Core, InterruptExits(c) PROVE ListsInv'
<1>1. place[c] = "exit" /\ UNCHANGED <<affinity, step>>
  BY DEF InterruptExits
<1>2. \A u \in Idles : step'[u] \notin {"in", "lock"}
  BY <1>1 DEF ListsInv
<1>3. CASE build.exits
  <2>1. SchedLocked(c, c)
    BY <1>3 DEF InterruptExits
  <2> QED
    BY <1>1, <1>2, <2>1, SchedLockedLists
<1>4. CASE ~build.exits
  <2>1. UNCHANGED <<tstate, ready, current>>
    BY <1>4 DEF InterruptExits
  <2> QED
    BY <1>1, <1>2, <2>1, OtherLists
<1> QED
  BY <1>3, <1>4

LEMMA ListsInvStep ==
  ASSUME Pinned, NoSlices, SmpSchedInv, ListsInv, [SmpSchedNext]_schedvars
  PROVE  ListsInv'
<1>1. CASE SmpSchedNext
  <2> SUFFICES ASSUME NEW c \in Core, CoreStep(c) PROVE ListsInv'
    BY <1>1 DEF SmpSchedNext
  <2>1. CASE StartsOn(c)
    <3>1. current[c] = NoTask
      BY <2>1 DEF StartsOn, SmpSchedInv, AtHome
    <3> QED
      BY <2>1, <3>1, StartLists
  <2>2. CASE SwitchesContext(c)
    <3>1. UNCHANGED <<affinity, tstate, ready, current, step>>
      BY <2>2 DEF SwitchesContext
    <3> QED
      BY <3>1 DEF ListsInv
  <2>3. CASE \E t \in Task : SuspendOn(c, t) \/ ResumeOn(c, t) \/ \E a \in Affinities : SetAffinity(c, t, a)
    BY <2>3, SuspendLists, ResumeLists, AffinityLists
  <2> QED
    BY <2>1, <2>2, <2>3, InterruptLists, ExitLists, ReadsLists, ReadsCurrentLists, YieldLists, DelayLists,
       IdleLists, SchedLists DEF CoreStep
<1>2. CASE UNCHANGED schedvars
  BY <1>2 DEF schedvars, ListsInv
<1> QED
  BY <1>1, <1>2

\* main creates every task once, and links it.
LEMMA ListsInvInit == ASSUME Pinned, SmpSchedInit PROVE ListsInv
<1>1. /\ ready \in Orders(Task) /\ Len(ready) = Cardinality(Task)
      /\ tstate = [t \in AllTcb |-> "READY"] /\ step = [t \in AllTcb |-> "run"]
      /\ current = [c \in Core |-> NoTask]
  BY DEF SmpSchedInit
<1>2. PICK n \in 0 .. Cardinality(Task) : ready \in [1 .. n -> Task]
  BY <1>1 DEF Orders
<1>3. IsFiniteSet(Task) /\ Cardinality(Task) \in Nat
  BY SmpSchedAssumption, FS_CardinalityType
<1>4. ready \in Seq(Task) /\ DOMAIN ready = 1 .. Len(ready) /\ Len(ready) \in Nat
  <2>1. n \in Nat
    BY <1>2, <1>3
  <2>2. ready \in Seq(Task)
    BY <1>2, <2>1
  <2> QED
    BY <2>2, LenProperties
<1>5. Once(ready)
  BY <1>1, <1>4 DEF Orders, Once
<1>6. ASSUME NEW t \in Task PROVE InList(ready, t)
  <2> DEFINE k == Len(ready)
             Linked == { ready[i] : i \in 1 .. k }
  <2>1. IsFiniteSet(1 .. k) /\ Cardinality(1 .. k) = k
    <3>1. k \in Nat /\ 1 \in Int /\ k \in Int
      BY <1>4
    <3> HIDE DEF k
    <3>2. IsFiniteSet(1 .. k) /\ Cardinality(1 .. k) = IF 1 > k THEN 0 ELSE k - 1 + 1
      BY <3>1, FS_Interval
    <3> QED
      BY <3>1, <3>2
  <2>2. ready \in Bijection(1 .. k, Linked)
    <3>1. ready \in [1 .. k -> Linked]
      BY <1>4
    <3>2. \A i, j \in 1 .. k : ready[i] = ready[j] => i = j
      BY <1>5 DEF Once
    <3>3. \A u \in Linked : \E i \in 1 .. k : ready[i] = u
      OBVIOUS
    <3> HIDE DEF Linked
    <3> QED
      BY <3>1, <3>2, <3>3 DEF Bijection, Injection, Surjection, IsInjective
  <2>3. Linked \subseteq Task
    BY <1>4, ElementOfSeq
  <2> HIDE DEF Linked, k
  <2>4. IsFiniteSet(Linked) /\ Cardinality(Linked) = k
    <3>1. ExistsBijection(1 .. k, Linked)
      BY <2>2 DEF ExistsBijection
    <3> QED
      BY <2>1, <3>1, FS_Bijection
  <2>5. Linked = Task
    BY <1>1, <1>3, <2>3, <2>4, FS_Subset DEF k
  <2> QED
    BY <2>5 DEF Linked, InList, k
<1>7. tstate \in [AllTcb -> TaskStates] /\ \A t \in AllTcb : tstate[t] = "READY" /\ step[t] = "run"
  BY <1>1 DEF TaskStates
<1> QED
  BY <1>1, <1>4, <1>5, <1>6, <1>7, TcbKinds DEF ListsInv

LEMMA ListsInvMeans == ASSUME SmpSchedInv, ListsInv PROVE SmpListsAgree
<1>1. ASSUME NEW t \in AllTcb
      PROVE  Cardinality(Places(t)) = IF t \in Task /\ tstate[t] = "READY" THEN 1 ELSE 0
  <2>1. Places(t) = { i \in 1 .. Len(ready) : ready[i] = t }
    BY PlacesInList DEF ListsInv
  <2>2. CASE InList(ready, t)
    <3>1. PICK i \in 1 .. Len(ready) : ready[i] = t
      BY <2>2 DEF InList
    <3>2. Places(t) = {i}
      BY <2>1, <3>1 DEF ListsInv, Once
    <3>3. t \in Task
      BY <3>1, ElementOfSeq DEF ListsInv
    <3> QED
      BY <2>2, <3>2, <3>3, FS_Singleton DEF ListsInv
  <2>3. CASE ~InList(ready, t)
    <3>1. Places(t) = {}
      BY <2>1, <2>3 DEF InList
    <3> QED
      BY <2>3, <3>1, FS_EmptySet DEF ListsInv
  <2> QED
    BY <2>2, <2>3
<1>2. \A c \in Core : place[c] \in {"task", "exit"} => stack[c] = current[c]
  BY DEF SmpSchedInv, AtHome
<1>3. \A c, d \in Core : c # d /\ current[c] # NoTask => current[c] # current[d]
  BY DEF ListsInv
<1> QED
  BY <1>1, <1>2, <1>3 DEF ListsInv, SmpListsAgree

\* Where tasks are pinned and nobody's time slice ends, every READY task is linked
\* once, nobody else is, and cores, states and stacks agree (SmpListsAgree), whatever
\* the windows between a look at os_cpu_id(), the lock and the switch.
THEOREM ListsAgreeWhenPinned ==
  ASSUME Pinned, NoSlices
  PROVE  SmpSchedSpec => []SmpListsAgree
<1>1. SmpSchedInit => SmpSchedInv /\ ListsInv
  BY SmpSchedInvInit, ListsInvInit
<1>2. SmpSchedInv /\ ListsInv /\ [SmpSchedNext]_schedvars => (SmpSchedInv /\ ListsInv)'
  BY SmpSchedInvStep, ListsInvStep
<1>3. SmpSchedInv /\ ListsInv => SmpListsAgree
  BY ListsInvMeans
<1> QED
  BY <1>1, <1>2, <1>3, PTL DEF SmpSchedSpec
-----------------------------------------------------------------------------
(* FlClient. The state, which callers read without the lock, tells what    *)
(* the owner of the lock does, for any number of callers, whatever was     *)
(* stopped and although the task never ends.  The argument: rounds and     *)
(* updates have a place each in the line for the lock, and only the first  *)
(* of the line writes the state.                                           *)

InRound == {"train", "compress"}
Working == InRound \cup {"write"}
Lined == Working \cup {"lock", "update"}
WorkerPlaces == InRound \cup {"lock", "none", "top", "check", "pause"}

\* A place that trainer c may be in.
PlacesOf(c) == IF c = Worker THEN WorkerPlaces ELSE Lined \cup {"free"}

FlTypeOK ==
  /\ lock \in Seq(Trainer)
  /\ at \in [Trainer -> Lined \cup WorkerPlaces \cup {"free"}]
  /\ \A c \in Trainer : at[c] \in PlacesOf(c)

\* The lock is held and waited for by those in a round or an update, each once, and
\* only the first of them is at work.
LineForLock ==
  /\ \A i, j \in 1 .. Len(lock) : lock[i] = lock[j] => i = j
  /\ \A c \in Trainer : at[c] \in Lined <=> \E i \in 1 .. Len(lock) : lock[i] = c
  /\ \A i \in 1 .. Len(lock) : at[lock[i]] \in Working => i = 1

\* The state says what the first of the line does.
StateOf(line, places) ==
  IF line = << >> THEN "IDLE"
  ELSE CASE places[line[1]] = "train" -> "TRAINING"
         [] places[line[1]] = "compress" -> "COMPRESSING"
         [] places[line[1]] = "write" -> "UPDATING"
         [] OTHER -> "IDLE"

FlInv == FlTypeOK /\ LineForLock /\ fl_state = StateOf(lock, at)
-----------------------------------------------------------------------------

LEMMA FlInvMeans == FlInv => StateTellsTheWork
<1> SUFFICES ASSUME FlInv PROVE StateTellsTheWork
  OBVIOUS
<1>1. lock \in Seq(Trainer) /\ (lock # << >> => Head(lock) = lock[1] /\ 1 \in 1 .. Len(lock))
  <2>1. lock \in Seq(Trainer)
    BY DEF FlInv, FlTypeOK
  <2> QED
    BY <2>1, FirstOfLine
<1>2. ASSUME NEW c \in Trainer, at[c] \in Working PROVE Head(lock) = c
  <2>1. PICK i \in 1 .. Len(lock) : lock[i] = c
    BY <1>2 DEF FlInv, LineForLock, Lined
  <2>2. i = 1 /\ lock # << >>
    BY <1>1, <1>2, <2>1 DEF FlInv, LineForLock
  <2> QED
    BY <1>1, <2>1, <2>2
<1> QED
  BY <1>1, <1>2 DEF FlInv, StateOf, StateTellsTheWork, Working, InRound

LEMMA FlInvInit == FlInit => FlInv
<1> SUFFICES ASSUME FlInit PROVE FlInv
  OBVIOUS
<1>1. /\ at = [c \in Trainer |-> IF c = Worker THEN "none" ELSE "free"]
      /\ lock = << >> /\ fl_state = "IDLE"
  BY DEF FlInit
<1>2. FlTypeOK
  BY <1>1 DEF FlTypeOK, PlacesOf, WorkerPlaces
<1>3. LineForLock
  BY <1>1 DEF LineForLock, Lined, Working, InRound
<1> QED
  BY <1>1, <1>2, <1>3 DEF FlInv, StateOf

-----------------------------------------------------------------------------
(* How the line changes.                                                   *)

\* Whoever has a place in the line is not elsewhere; at work is only the first.
LEMMA WorkersAreFirst ==
  ASSUME FlTypeOK, LineForLock, NEW c \in Trainer, at[c] \in Working
  PROVE  lock # << >> /\ lock[1] = c
<1>1. PICK i \in 1 .. Len(lock) : lock[i] = c
  BY DEF LineForLock, Lined
<1>2. i = 1
  BY <1>1 DEF LineForLock
<1>3. lock # << >>
  BY <1>1, SomebodyInLine DEF FlTypeOK
<1> QED
  BY <1>1, <1>2, <1>3

LEMMA HeadIsFirst ==
  ASSUME FlTypeOK, LineForLock, NEW c \in Trainer, at[c] \in Lined, Head(lock) = c
  PROVE  lock # << >> /\ lock[1] = c
<1>1. PICK i \in 1 .. Len(lock) : lock[i] = c
  BY DEF LineForLock
<1>2. lock # << >> /\ lock \in Seq(Trainer)
  BY <1>1, SomebodyInLine DEF FlTypeOK
<1> QED
  BY <1>2, FirstOfLine

LEMMA JoinsLine ==
  ASSUME FlTypeOK, LineForLock, NEW c \in Trainer, at[c] \notin Lined,
         NEW p \in {"lock", "update"}, lock' = Append(lock, c), at' = [at EXCEPT ![c] = p]
  PROVE  LineForLock' /\ lock' \in Seq(Trainer) /\ StateOf(lock', at') = StateOf(lock, at)
<1>1. /\ lock \in Seq(Trainer) /\ lock' \in Seq(Trainer) /\ lock' # << >>
      /\ Len(lock) \in Nat /\ Len(lock') = Len(lock) + 1
      /\ \A i \in 1 .. Len(lock') : lock'[i] = IF i = Len(lock) + 1 THEN c ELSE lock[i]
  <2>1. lock \in Seq(Trainer)
    BY DEF FlTypeOK
  <2>2. /\ Append(lock, c) \in Seq(Trainer) /\ Append(lock, c) # << >>
        /\ Len(lock) \in Nat /\ Len(Append(lock, c)) = Len(lock) + 1
        /\ \A i \in 1 .. Len(lock) + 1 :
             Append(lock, c)[i] = IF i = Len(lock) + 1 THEN c ELSE lock[i]
    BY <2>1, NewInLine
  <2> QED
    BY <2>1, <2>2
<1>2. \A i \in 1 .. Len(lock) : lock[i] # c /\ lock[i] \in Trainer
  BY <1>1, ElementOfSeq DEF LineForLock
<1>3. /\ at'[c] = p /\ p \in Lined /\ p \notin Working
      /\ \A d \in Trainer \ {c} : at'[d] = at[d]
  BY DEF FlTypeOK, Lined, Working, InRound
<1>4. LineForLock'
  <2>1. \A i, j \in 1 .. Len(lock') : lock'[i] = lock'[j] => i = j
    BY <1>1, <1>2 DEF LineForLock
  <2>2. ASSUME NEW d \in Trainer
        PROVE  at'[d] \in Lined <=> \E i \in 1 .. Len(lock') : lock'[i] = d
    <3>1. CASE d = c
      <4>1. Len(lock) + 1 \in 1 .. Len(lock')
        BY <1>1
      <4> QED
        BY <1>1, <1>3, <3>1, <4>1
    <3>2. CASE d # c
      BY <1>1, <1>3, <3>2 DEF LineForLock
    <3> QED
      BY <3>1, <3>2
  <2>3. \A i \in 1 .. Len(lock') : at'[lock'[i]] \in Working => i = 1
    BY <1>1, <1>2, <1>3 DEF LineForLock
  <2> QED
    BY <2>1, <2>2, <2>3 DEF LineForLock
<1>5. StateOf(lock', at') = StateOf(lock, at)
  <2>1. CASE lock = << >>
    <3>1. lock'[1] = c
      BY <1>1, <2>1, EmptySeq
    <3> QED
      BY <1>1, <1>3, <2>1, <3>1 DEF StateOf, Working, InRound
  <2>2. CASE lock # << >>
    <3>1. lock'[1] = lock[1] /\ at'[lock[1]] = at[lock[1]]
      BY <1>1, <1>2, <1>3, <2>2, FirstOfLine
    <3> QED
      BY <1>1, <2>2, <3>1 DEF StateOf
  <2> QED
    BY <2>1, <2>2
<1> QED
  BY <1>1, <1>4, <1>5

\* The first of the line goes on with its work.
LEMMA MovesInLine ==
  ASSUME FlTypeOK, LineForLock, lock # << >>, NEW c \in Trainer, lock[1] = c,
         NEW p \in Lined, at' = [at EXCEPT ![c] = p], UNCHANGED lock
  PROVE  LineForLock' /\ at'[lock[1]] = p
<1>1. lock \in Seq(Trainer) /\ 1 \in 1 .. Len(lock)
  <2>1. lock \in Seq(Trainer)
    BY DEF FlTypeOK
  <2> QED
    BY <2>1, FirstOfLine
<1>2. at'[c] = p /\ \A d \in Trainer \ {c} : at'[d] = at[d]
  BY DEF FlTypeOK
<1>3. \A i \in 1 .. Len(lock) : lock[i] \in Trainer
  BY <1>1, ElementOfSeq
<1> QED
  BY <1>1, <1>2, <1>3 DEF LineForLock

\* The first of the line leaves it.
LEMMA LeavesLine ==
  ASSUME FlTypeOK, LineForLock, lock # << >>, NEW c \in Trainer, lock[1] = c,
         NEW p, p \notin Lined, at' = [at EXCEPT ![c] = p], lock' = Tail(lock)
  PROVE  LineForLock' /\ lock' \in Seq(Trainer) /\ StateOf(lock', at') = "IDLE"
<1>1. /\ lock \in Seq(Trainer) /\ 1 \in 1 .. Len(lock) /\ lock' \in Seq(Trainer)
      /\ Len(lock') = Len(lock) - 1 /\ Len(lock) \in Nat
      /\ \A i \in 1 .. Len(lock') : lock'[i] = lock[i + 1]
  <2>1. lock \in Seq(Trainer)
    BY DEF FlTypeOK
  <2> QED
    BY <2>1, FirstOfLine
<1>2. at'[c] = p /\ \A d \in Trainer \ {c} : at'[d] = at[d]
  BY DEF FlTypeOK
<1>3. \A i \in 1 .. Len(lock) : lock[i] \in Trainer
  BY <1>1, ElementOfSeq
<1>4. \A i \in 1 .. Len(lock') : i + 1 \in 1 .. Len(lock) /\ i + 1 # 1 /\ lock'[i] # c
  BY <1>1 DEF LineForLock
<1>5. \A i \in 1 .. Len(lock') : at'[lock'[i]] \notin Working
  BY <1>1, <1>2, <1>3, <1>4 DEF LineForLock
<1>6. LineForLock'
  <2>1. \A i, j \in 1 .. Len(lock') : lock'[i] = lock'[j] => i = j
    BY <1>1, <1>4 DEF LineForLock
  <2>2. ASSUME NEW d \in Trainer
        PROVE  at'[d] \in Lined <=> \E i \in 1 .. Len(lock') : lock'[i] = d
    <3>1. CASE d = c
      BY <1>2, <1>4, <3>1
    <3>2. CASE d # c
      <4>1. (\E i \in 1 .. Len(lock) : lock[i] = d) <=> \E i \in 1 .. Len(lock') : lock'[i] = d
        <5>1. ASSUME NEW i \in 1 .. Len(lock), lock[i] = d
              PROVE  \E j \in 1 .. Len(lock') : lock'[j] = d
          <6>1. i # 1
            BY <3>2, <5>1
          <6>2. i - 1 \in 1 .. Len(lock') /\ (i - 1) + 1 = i
            BY <1>1, <6>1
          <6> QED
            BY <1>1, <5>1, <6>2
        <5> QED
          BY <1>1, <1>4, <5>1
      <4> QED
        BY <1>2, <3>2, <4>1 DEF LineForLock
    <3> QED
      BY <3>1, <3>2
  <2> QED
    BY <1>5, <2>1, <2>2 DEF LineForLock
<1>7. StateOf(lock', at') = "IDLE"
  <2>1. lock' # << >> => at'[lock'[1]] \notin Working
    BY <1>1, <1>5, FirstOfLine
  <2> QED
    BY <2>1 DEF StateOf, Working, InRound
<1> QED
  BY <1>1, <1>6, <1>7

-----------------------------------------------------------------------------
(* The steps.                                                              *)

LEMMA TypesStay ==
  ASSUME FlTypeOK, NEW c \in Trainer, NEW p \in PlacesOf(c), at' = [at EXCEPT ![c] = p]
  PROVE  /\ at' \in [Trainer -> Lined \cup WorkerPlaces \cup {"free"}]
         /\ \A d \in Trainer : at'[d] \in PlacesOf(d)
         /\ at'[c] = p /\ \A d \in Trainer \ {c} : at'[d] = at[d]
<1>1. p \in Lined \cup WorkerPlaces \cup {"free"}
  BY DEF PlacesOf
<1> QED
  BY <1>1 DEF FlTypeOK

\* Steps of a trainer that has no place in the line and gets none.
LEMMA OutOfLine ==
  ASSUME FlInv, NEW c \in Trainer, at[c] \notin Lined, NEW p \in PlacesOf(c), p \notin Lined,
         at' = [at EXCEPT ![c] = p], UNCHANGED <<lock, fl_state>>
  PROVE  FlInv'
<1>1. FlTypeOK /\ LineForLock
  BY DEF FlInv
<1>2. at'[c] = p /\ \A d \in Trainer \ {c} : at'[d] = at[d]
  BY <1>1, TypesStay
<1>3. \A i \in 1 .. Len(lock) : lock[i] \in Trainer /\ lock[i] # c
  BY <1>1, ElementOfSeq DEF FlTypeOK, LineForLock
<1>4. \A i \in 1 .. Len(lock) : at'[lock[i]] = at[lock[i]]
  BY <1>2, <1>3
<1>5. lock # << >> => at'[lock[1]] = at[lock[1]]
  BY <1>1, <1>4, FirstOfLine DEF FlTypeOK
<1>6. LineForLock' /\ StateOf(lock', at') = StateOf(lock, at)
  BY <1>1, <1>2, <1>4, <1>5 DEF LineForLock, StateOf
<1>7. FlTypeOK'
  BY <1>1, TypesStay DEF FlTypeOK
<1> QED
  BY <1>6, <1>7 DEF FlInv

\* Steps that change neither the line nor a place in it.
LEMMA SameLine ==
  ASSUME FlInv, UNCHANGED <<lock, at, fl_state>>
  PROVE  FlInv'
BY DEF FlInv, FlTypeOK, LineForLock, StateOf

\* fl_async_task, entered once or again, and fl_client_start_async
LEMMA TaskKeeps == ASSUME FlInv, TaskTop \/ PauseEnds \/ StartAsync PROVE FlInv'
<1>1. UNCHANGED <<lock, fl_state>> /\ Worker \in Trainer /\ at[Worker] \in {"none", "top", "pause"}
  BY DEF TaskTop, PauseEnds, StartAsync, Trainer
<1>2. at[Worker] \notin Lined
  BY <1>1 DEF Lined, Working, InRound
<1>3. CASE UNCHANGED at
  BY <1>1, <1>3, SameLine
<1>4. ASSUME NEW p \in {"top", "check"}, at' = [at EXCEPT ![Worker] = p] PROVE FlInv'
  <2>1. p \in PlacesOf(Worker) /\ p \notin Lined
    BY DEF PlacesOf, WorkerPlaces, Lined, Working, InRound
  <2> QED
    BY <1>1, <1>2, <1>4, <2>1, OutOfLine
<1> QED
  BY <1>3, <1>4 DEF TaskTop, PauseEnds, StartAsync

\* fl_client_train_round and fl_client_apply_update up to the lock
LEMMA JoinKeeps ==
  ASSUME FlInv, NEW c \in Trainer, at[c] \in {"check", "free"},
         NEW p \in {"lock", "update"}, p \in PlacesOf(c),
         lock' = Append(lock, c), at' = [at EXCEPT ![c] = p], UNCHANGED fl_state
  PROVE  FlInv'
<1>1. FlTypeOK /\ LineForLock /\ at[c] \notin Lined
  BY DEF FlInv, Lined, Working, InRound
<1>2. LineForLock' /\ lock' \in Seq(Trainer) /\ StateOf(lock', at') = StateOf(lock, at)
  BY <1>1, JoinsLine
<1>3. FlTypeOK'
  BY <1>1, <1>2, TypesStay DEF FlTypeOK
<1> QED
  BY <1>2, <1>3 DEF FlInv

\* A trainer whose place in the line stays: the owner of the lock goes on.
LEMMA OwnerGoesOn ==
  ASSUME FlInv, NEW c \in Trainer, lock # << >>, lock[1] = c,
         NEW p \in Working, p \in PlacesOf(c), at' = [at EXCEPT ![c] = p],
         UNCHANGED lock, fl_state' = StateOf(lock, at')
  PROVE  FlInv'
<1>1. FlTypeOK /\ LineForLock /\ p \in Lined
  BY DEF FlInv, Lined
<1>2. LineForLock'
  BY <1>1, MovesInLine
<1>3. FlTypeOK'
  BY <1>1, TypesStay DEF FlTypeOK
<1> QED
  BY <1>2, <1>3 DEF FlInv

LEMMA RoundGoesOn ==
  ASSUME FlInv, NEW c \in Trainer, RoundBegins(c) \/ RoundCompresses(c) \/ UpdateBegins(c)
  PROVE  FlInv'
<1>1. FlTypeOK /\ LineForLock /\ UNCHANGED lock
  BY DEF FlInv, RoundBegins, RoundCompresses, UpdateBegins
<1>2. at[c] \in {"lock", "train", "update"} /\ at[c] \in Lined
  BY DEF RoundBegins, RoundCompresses, UpdateBegins, Updates, Lined, Working, InRound
<1>3. lock # << >> /\ lock[1] = c
  BY <1>1, <1>2, HeadIsFirst, WorkersAreFirst
     DEF RoundBegins, RoundCompresses, UpdateBegins, Updates, Working, InRound
<1>4. c = Worker => at[c] # "update"
  BY <1>1 DEF FlTypeOK, PlacesOf, WorkerPlaces, InRound
<1>5. CASE RoundBegins(c)
  <2>1. "train" \in PlacesOf(c) /\ "train" \in Working
    BY DEF PlacesOf, WorkerPlaces, Lined, Working, InRound
  <2>2. at'[c] = "train"
    BY <1>1, <1>5, <2>1, TypesStay DEF RoundBegins
  <2>3. fl_state' = StateOf(lock, at')
    BY <1>3, <1>5, <2>2 DEF RoundBegins, StateOf
  <2> QED
    BY <1>1, <1>3, <1>5, <2>1, <2>3, OwnerGoesOn DEF RoundBegins
<1>6. CASE RoundCompresses(c)
  <2>1. "compress" \in PlacesOf(c) /\ "compress" \in Working
    BY DEF PlacesOf, WorkerPlaces, Lined, Working, InRound
  <2>2. at'[c] = "compress"
    BY <1>1, <1>6, <2>1, TypesStay DEF RoundCompresses
  <2>3. fl_state' = StateOf(lock, at')
    BY <1>3, <1>6, <2>2 DEF RoundCompresses, StateOf
  <2> QED
    BY <1>1, <1>3, <1>6, <2>1, <2>3, OwnerGoesOn DEF RoundCompresses
<1>7. CASE UpdateBegins(c)
  <2>1. "write" \in PlacesOf(c) /\ "write" \in Working
    BY <1>4, <1>7 DEF PlacesOf, Lined, Working, UpdateBegins, Updates
  <2>2. at'[c] = "write"
    BY <1>1, <1>7, <2>1, TypesStay DEF UpdateBegins
  <2>3. fl_state' = StateOf(lock, at')
    BY <1>3, <1>7, <2>2 DEF UpdateBegins, StateOf
  <2> QED
    BY <1>1, <1>3, <1>7, <2>1, <2>3, OwnerGoesOn DEF UpdateBegins
<1> QED
  BY <1>5, <1>6, <1>7

\* The owner of the lock is through and leaves it to the next.
LEMMA OwnerLeaves ==
  ASSUME FlInv, NEW c \in Trainer, RoundEnds(c) \/ UpdateEnds(c)
  PROVE  FlInv'
<1> DEFINE p == IF c = Worker THEN "pause" ELSE "free"
<1>1. FlTypeOK /\ LineForLock /\ at[c] \in Working /\ lock' = Tail(lock) /\ fl_state' = "IDLE"
  BY DEF FlInv, RoundEnds, UpdateEnds, Working, InRound
<1>2. at' = [at EXCEPT ![c] = p]
  <2>1. UpdateEnds(c) => c # Worker
    BY <1>1 DEF UpdateEnds, FlTypeOK, PlacesOf, WorkerPlaces, InRound
  <2> QED
    BY <2>1 DEF RoundEnds, UpdateEnds, Through
<1>3. p \in PlacesOf(c) /\ p \notin Lined
  BY DEF PlacesOf, WorkerPlaces, Lined, Working, InRound
<1> HIDE DEF p
<1>4. lock # << >> /\ lock[1] = c
  BY <1>1, WorkersAreFirst
<1>5. LineForLock' /\ lock' \in Seq(Trainer) /\ StateOf(lock', at') = "IDLE"
  BY <1>1, <1>2, <1>3, <1>4, LeavesLine
<1>6. FlTypeOK'
  BY <1>1, <1>2, <1>3, <1>5, TypesStay DEF FlTypeOK
<1> QED
  BY <1>1, <1>5, <1>6 DEF FlInv

LEMMA TrainerKeeps ==
  ASSUME FlInv, NEW c \in Trainer, TrainRound(c) \/ ApplyUpdate(c)
  PROVE  FlInv'
<1>1. CASE ApplyUpdate(c)
  <2>1. "update" \in PlacesOf(c)
    BY <1>1 DEF ApplyUpdate, PlacesOf, Lined
  <2> QED
    BY <1>1, <2>1, JoinKeeps DEF ApplyUpdate
<1>2. CASE TrainRound(c)
  <2>1. at[c] \in {"check", "free"} /\ at[c] \notin Lined /\ "lock" \in PlacesOf(c)
    BY <1>2 DEF TrainRound, Lined, Working, InRound, PlacesOf, WorkerPlaces
  <2>2. CASE MayTrain
    BY <1>2, <2>1, <2>2, JoinKeeps DEF TrainRound
  <2>3. CASE ~MayTrain
    <3>1. c = Worker /\ at' = [at EXCEPT ![c] = "pause"] /\ UNCHANGED <<lock, fl_state>>
      BY <1>2, <2>3 DEF TrainRound, Through
    <3>2. "pause" \in PlacesOf(c) /\ "pause" \notin Lined
      BY <3>1 DEF PlacesOf, WorkerPlaces, Lined, Working, InRound
    <3> QED
      BY <2>1, <3>1, <3>2, OutOfLine
  <2> QED
    BY <2>2, <2>3
<1> QED
  BY <1>1, <1>2

\* fl_client_init, with no task and no caller
LEMMA InitAgainKeeps == ASSUME FlInv, InitAgain PROVE FlInv'
<1>1. /\ at[Worker] = "none" /\ (\A c \in Direct : at[c] = "free")
      /\ lock' = << >> /\ fl_state' = "IDLE" /\ UNCHANGED at
  BY DEF InitAgain
<1>2. \A c \in Trainer : at[c] \notin Lined
  BY <1>1 DEF Trainer, Lined, Working, InRound
<1>3. LineForLock'
  BY <1>1, <1>2 DEF LineForLock
<1>4. FlTypeOK'
  BY <1>1 DEF FlInv, FlTypeOK
<1> QED
  BY <1>1, <1>3, <1>4 DEF FlInv, StateOf

LEMMA FlInvStep == ASSUME FlInv, [FlNext]_flvars PROVE FlInv'
<1>1. CASE UNCHANGED flvars
  BY <1>1, SameLine DEF flvars
<1>2. CASE Stop("stop") \/ Stop("deinit") \/ StopReturns \/ Deinit
  BY <1>2, SameLine DEF Stop, StopReturns, Deinit
<1>3. CASE FlNext
  BY <1>2, <1>3, TaskKeeps, TrainerKeeps, RoundGoesOn, OwnerLeaves, InitAgainKeeps DEF FlNext
<1> QED
  BY <1>1, <1>3

\* The state of the client, which callers read without the lock, tells what the owner
\* of the lock does, and no two train or update at once: for any number of callers,
\* and though the task goes on after it was told to stop and the client is gone.
THEOREM StateTellsRight == FlSpec => []StateTellsTheWork
<1>1. FlInv /\ [FlNext]_flvars => FlInv'
  BY FlInvStep
<1>2. FlInv => StateTellsTheWork
  BY FlInvMeans
<1> QED
  BY <1>1, <1>2, FlInvInit, PTL DEF FlSpec
=============================================================================
