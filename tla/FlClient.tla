--------------------------------- MODULE FlClient ---------------------------------
(***************************************************************************)
(* The federated-learning client (federated/src/fl_client.c): rounds of    *)
(* training, one after the other in a task of its own or called directly,  *)
(* updates of the model, and a controller that starts and stops the task.  *)
(* What rounds compute, and how long they take, is left out.               *)
(***************************************************************************)
EXTENDS Integers, Sequences

CONSTANTS
  Worker,       \* fl_async_task
  Direct        \* tasks that train and update directly

ASSUME FlAssumption == Worker \notin Direct

VARIABLES
  fl_state,     \* g_fl_ctx.state
  running, initialized,
  lock,         \* g_fl_ctx.lock: its owner and the waiters behind it
  at,           \* what the task and each caller are about to do
  argument,     \* what fl_async_task was entered with: its context, or junk
  control       \* the controller: free, or inside stop or deinit

flvars == <<fl_state, running, initialized, lock, at, argument, control>>

Trainer == Direct \cup {Worker}

\* fl_client_init
FlInit ==
  /\ fl_state = "IDLE" /\ running = FALSE /\ initialized = TRUE
  /\ lock = << >>
  /\ at = [c \in Trainer |-> IF c = Worker THEN "none" ELSE "free"]
  /\ argument = "context" /\ control = "free"

-----------------------------------------------------------------------------
(* Rounds and updates.                                                     *)

\* fl_async_task looks at ctx->running: the loop goes on, or the function returns.
\* Nothing ends the task then.  The return address of a task is its entry, so that
\* fl_async_task begins again with whatever its argument register holds, and nothing
\* is known of what it reads through that.
TaskTop ==
  /\ at[Worker] = "top"
  /\ \/ /\ argument = "context" => running
        /\ at' = [at EXCEPT ![Worker] = "check"]
        /\ UNCHANGED argument
     \/ /\ argument = "context" => ~running
        /\ argument' = "junk"
        /\ UNCHANGED at
  /\ UNCHANGED <<fl_state, running, initialized, lock, control>>

PauseEnds ==
  /\ at[Worker] = "pause"
  /\ at' = [at EXCEPT ![Worker] = "top"]
  /\ UNCHANGED <<fl_state, running, initialized, lock, argument, control>>

\* fl_client_train_round: the state is read without the lock.
MayTrain == initialized /\ fl_state = "IDLE"

\* Whoever is refused is through, the task with its round.
Through(c) == at' = [at EXCEPT ![c] = IF c = Worker THEN "pause" ELSE "free"]

TrainRound(c) ==
  /\ at[c] = IF c = Worker THEN "check" ELSE "free"
  /\ \/ /\ MayTrain
        /\ lock' = Append(lock, c)
        /\ at' = [at EXCEPT ![c] = "lock"]
     \/ /\ ~MayTrain /\ c = Worker
        /\ Through(c)
        /\ UNCHANGED lock
  /\ UNCHANGED <<fl_state, running, initialized, argument, control>>

RoundBegins(c) ==
  /\ at[c] = "lock" /\ Head(lock) = c
  /\ fl_state' = "TRAINING"
  /\ at' = [at EXCEPT ![c] = "train"]
  /\ UNCHANGED <<running, initialized, lock, argument, control>>

RoundCompresses(c) ==
  /\ at[c] = "train"
  /\ fl_state' = "COMPRESSING"
  /\ at' = [at EXCEPT ![c] = "compress"]
  /\ UNCHANGED <<running, initialized, lock, argument, control>>

RoundEnds(c) ==
  /\ at[c] = "compress"
  /\ fl_state' = "IDLE"
  /\ lock' = Tail(lock)
  /\ Through(c)
  /\ UNCHANGED <<running, initialized, argument, control>>

\* Mutation: the lock is not waited for.
MutUpdates(c) == at[c] = "update"

\* fl_client_apply_update has the lock.
Updates(c) == at[c] = "update" /\ Head(lock) = c

\* fl_client_apply_update (without a look at the state)
ApplyUpdate(c) ==
  /\ at[c] = "free" /\ c # Worker
  /\ lock' = Append(lock, c)
  /\ at' = [at EXCEPT ![c] = "update"]
  /\ UNCHANGED <<fl_state, running, initialized, argument, control>>

UpdateBegins(c) ==
  /\ Updates(c)
  /\ fl_state' = "UPDATING"
  /\ at' = [at EXCEPT ![c] = "write"]
  /\ UNCHANGED <<running, initialized, lock, argument, control>>

UpdateEnds(c) ==
  /\ at[c] = "write"
  /\ fl_state' = "IDLE"
  /\ lock' = Tail(lock)
  /\ at' = [at EXCEPT ![c] = "free"]
  /\ UNCHANGED <<running, initialized, argument, control>>

-----------------------------------------------------------------------------
(* The controller.                                                         *)

\* fl_client_start_async, once: os_task_create of the control block of a task that is
\* still there would spoil the lists of the kernel.
StartAsync ==
  /\ control = "free" /\ initialized /\ ~running /\ at[Worker] = "none"
  /\ running' = TRUE
  /\ at' = [at EXCEPT ![Worker] = "top"]
  /\ UNCHANGED <<fl_state, initialized, lock, argument, control>>

\* fl_client_stop, by itself or as a part of fl_client_deinit.  It waits for some time,
\* not for the task.
Stop(within) ==
  /\ control = "free" /\ running
  /\ running' = FALSE
  /\ control' = within
  /\ UNCHANGED <<fl_state, initialized, lock, at, argument>>

StopReturns ==
  /\ control \in {"stop", "deinit"}
  /\ control' = IF control = "deinit" THEN "free gradients" ELSE "free"
  /\ UNCHANGED <<fl_state, running, initialized, lock, at, argument>>

\* fl_client_deinit behind the stop: the application has no calls of its own under way.
Deinit ==
  /\ control = "free gradients" \/ (control = "free" /\ initialized /\ ~running)
  /\ \A c \in Direct : at[c] = "free"
  /\ initialized' = FALSE /\ control' = "free"
  /\ UNCHANGED <<fl_state, running, lock, at, argument>>

\* fl_client_init once more.  It clears the control block of the task, so only where
\* there is none.
InitAgain ==
  /\ control = "free" /\ ~initialized /\ at[Worker] = "none"
  /\ \A c \in Direct : at[c] = "free"
  /\ initialized' = TRUE /\ fl_state' = "IDLE" /\ running' = FALSE /\ lock' = << >>
  /\ UNCHANGED <<at, argument, control>>

FlNext ==
  \/ TaskTop \/ PauseEnds
  \/ \E c \in Trainer :
       \/ TrainRound(c) \/ RoundBegins(c) \/ RoundCompresses(c) \/ RoundEnds(c)
       \/ ApplyUpdate(c) \/ UpdateBegins(c) \/ UpdateEnds(c)
  \/ StartAsync \/ Stop("stop") \/ Stop("deinit") \/ StopReturns \/ Deinit \/ InitAgain

FlSpec == FlInit /\ [][FlNext]_flvars
-----------------------------------------------------------------------------
(* Properties.                                                             *)

\* The state, which callers read without the lock, tells what the owner of the lock
\* does; so no round begins in another one or in an update, even for a caller whose
\* look at the state was long ago, or for the task, which goes on after it was told
\* to stop and after the client is gone.
StateTellsTheWork ==
  /\ \A c \in Trainer : at[c] \in {"train", "compress", "write"} => Head(lock) = c
  /\ fl_state = IF lock = << >> THEN "IDLE"
                ELSE CASE at[Head(lock)] = "train" -> "TRAINING"
                       [] at[Head(lock)] = "compress" -> "COMPRESSING"
                       [] at[Head(lock)] = "write" -> "UPDATING"
                       [] OTHER -> "IDLE"
=============================================================================
