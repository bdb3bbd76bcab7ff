----------------------------- MODULE CountingSem -----------------------------
(***************************************************************************)
(* What os_sem_t promises: a counting semaphore with a ceiling that serves *)
(* its waiters in the order they came.  A waiter leaves the line with the  *)
(* unit handed to it, with a timeout, or dismissed by a reset, and its     *)
(* call returns exactly what happened to it.                               *)
(***************************************************************************)
EXTENDS Integers, Sequences

CONSTANTS Client, Max, Start

VARIABLES units,     \* units nobody holds
          line,      \* the waiting clients, the first to be served first
          outcome    \* of each client's blocked call

cvars == <<units, line, outcome>>

\* The line when its i-th client has left it.
Without(i) == [j \in 1 .. Len(line) - 1 |-> IF j < i THEN line[j] ELSE line[j + 1]]
InLine(c) == \E i \in 1 .. Len(line) : line[i] = c

Init == units = Start /\ line = <<>> /\ outcome = [c \in Client |-> "idle"]

Take == units > 0 /\ units' = units - 1 /\ UNCHANGED <<line, outcome>>

Wait(c) ==
  /\ units = 0 /\ outcome[c] = "idle"
  /\ line' = Append(line, c)
  /\ outcome' = [outcome EXCEPT ![c] = "waiting"]
  /\ UNCHANGED units

Give ==
  \/ /\ line = <<>> /\ units < Max
     /\ units' = units + 1
     /\ UNCHANGED <<line, outcome>>
  \/ /\ line # <<>>
     /\ line' = Tail(line)
     /\ outcome' = [outcome EXCEPT ![Head(line)] = "EOK"]
     /\ UNCHANGED units

Timeout(c) ==
  /\ \E i \in 1 .. Len(line) : line[i] = c /\ line' = Without(i)
  /\ outcome' = [outcome EXCEPT ![c] = "ETIMEOUT"]
  /\ UNCHANGED units

Reset(n) ==
  /\ units' = n
  /\ line' = <<>>
  /\ outcome' = [c \in Client |-> IF InLine(c) THEN "ERROR" ELSE outcome[c]]

Return(c) ==
  /\ outcome[c] \in {"EOK", "ETIMEOUT", "ERROR"}
  /\ outcome' = [outcome EXCEPT ![c] = "idle"]
  /\ UNCHANGED <<units, line>>

Next ==
  \/ Take \/ Give
  \/ \E n \in 0 .. Max : Reset(n)
  \/ \E c \in Client : Wait(c) \/ Timeout(c) \/ Return(c)

Spec == Init /\ [][Next]_cvars
=============================================================================
