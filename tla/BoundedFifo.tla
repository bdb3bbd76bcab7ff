----------------------------- MODULE BoundedFifo -----------------------------
(***************************************************************************)
(* What os_queue_t promises: messages leave in the order they were sent,   *)
(* each to one receiver.  Up to Capacity of them are kept; further senders *)
(* line up and offer theirs, and receivers line up while there is none.    *)
(* A message whose sender gives up is never delivered.                     *)
(***************************************************************************)
EXTENDS Integers, Sequences

CONSTANTS Client, Msg, Capacity, None

VARIABLES kept,      \* the messages accepted and not yet received
          offers,    \* the senders in line; the message of each is its parcel
          takers,    \* the receivers in line
          parcel,    \* the message each client offers, or received last
          outcome    \* of each client's blocked call

fvars == <<kept, offers, takers, parcel, outcome>>

\* A line when its i-th client has left it, and when c has.
Without(line, i) == [j \in 1 .. Len(line) - 1 |-> IF j < i THEN line[j] ELSE line[j + 1]]
Leaves(c, line, after) == \E i \in 1 .. Len(line) : line[i] = c /\ after = Without(line, i)

Answer(c, answer) == [outcome EXCEPT ![c] = answer]

Init ==
  /\ kept = <<>> /\ offers = <<>> /\ takers = <<>>
  /\ parcel = [c \in Client |-> None] /\ outcome = [c \in Client |-> "idle"]

\* A message comes in from a client c or, if c is None, from outside.
Send(c, m) ==
  LET mine == IF c = None THEN parcel ELSE [parcel EXCEPT ![c] = m]
  IN \/ /\ takers # <<>>
        /\ parcel' = [mine EXCEPT ![Head(takers)] = m]
        /\ outcome' = Answer(Head(takers), "EOK")
        /\ takers' = Tail(takers)
        /\ UNCHANGED <<kept, offers>>
     \/ /\ takers = <<>> /\ Len(kept) < Capacity
        /\ kept' = Append(kept, m)
        /\ parcel' = mine
        /\ UNCHANGED <<offers, takers, outcome>>
     \/ /\ Len(kept) = Capacity /\ c # None
        /\ offers' = Append(offers, c)
        /\ parcel' = mine
        /\ outcome' = Answer(c, "waiting")
        /\ UNCHANGED <<kept, takers>>

\* Receiving makes room for the first offer.
Receive(c) ==
  \/ /\ kept # <<>>
     /\ parcel' = [parcel EXCEPT ![c] = Head(kept)]
     /\ IF offers = <<>>
        THEN kept' = Tail(kept) /\ UNCHANGED <<offers, outcome>>
        ELSE /\ kept' = Append(Tail(kept), parcel[Head(offers)])
             /\ outcome' = Answer(Head(offers), "EOK")
             /\ offers' = Tail(offers)
     /\ UNCHANGED takers
  \/ /\ kept = <<>>
     /\ takers' = Append(takers, c)
     /\ outcome' = Answer(c, "waiting")
     /\ UNCHANGED <<kept, offers, parcel>>

GiveUp(c) ==
  /\ outcome[c] = "waiting"
  /\ \/ Leaves(c, offers, offers') /\ UNCHANGED takers
     \/ Leaves(c, takers, takers') /\ UNCHANGED offers
  /\ outcome' = Answer(c, "ETIMEOUT")
  /\ UNCHANGED <<kept, parcel>>

Return(c) ==
  /\ outcome[c] \in {"EOK", "ETIMEOUT"}
  /\ outcome' = Answer(c, "idle")
  /\ UNCHANGED <<kept, offers, takers, parcel>>

Next ==
  \/ \E c \in Client \cup {None} : \E m \in Msg : Send(c, m)
  \/ \E c \in Client : Receive(c) \/ GiveUp(c) \/ Return(c)

Spec == Init /\ [][Next]_fvars
=============================================================================
