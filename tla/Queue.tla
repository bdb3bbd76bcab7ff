--------------------------------- MODULE Queue ---------------------------------
(***************************************************************************)
(* Message queues: os_queue_* of kernel/src/os_ipc.c, called by tasks and, *)
(* for os_queue_send with OS_NO_WAIT, by interrupt handlers.               *)
(***************************************************************************)
EXTENDS Ipc, Ring

CONSTANTS
  send_wait, recv_wait,   \* the two wait lists of the queue
  Sender, Receiver        \* the tasks that send and those that receive

ASSUME QueueAssumption ==
  /\ {send_wait, recv_wait} \subseteq WaitList /\ send_wait # recv_wait
  /\ NULL \notin Msg /\ Sender \cup Receiver \subseteq Task

VARIABLES
  q,         \* the ring of the os_queue_t
  parcel     \* the message each caller sends, or the buffer it receives into

queuevars == <<k, pc, q, parcel>>

QueueInit ==
  KernelInit /\ q = EmptyRing(NULL) /\ parcel = [t \in Task |-> NULL]

\* os_queue_send when a receiver waits: the message is copied to it and not kept.
SendToWaiter(c, m) ==
  /\ k.head[recv_wait] # NULL
  /\ parcel' = [parcel EXCEPT ![c] = m, ![k.head[recv_wait]] = m]
  /\ ThenSched(c, HandOff(k, recv_wait, "EOK"))
  /\ UNCHANGED q

\* Mutation: the receivers are not looked at.
MutSendBuffered(c, m) ==
  /\ q.count < Capacity
  /\ q' = Push(q, m)
  /\ parcel' = [parcel EXCEPT ![c] = m]
  /\ UNCHANGED vars

\* ... when there is room
SendBuffered(c, m) ==
  /\ k.head[recv_wait] = NULL /\ q.count < Capacity
  /\ q' = Push(q, m)
  /\ parcel' = [parcel EXCEPT ![c] = m]
  /\ UNCHANGED vars

\* ... and when there is none (with OS_NO_WAIT the answer is OS_EFULL).
SendBlocked(c, m, timeout) ==
  /\ k.head[recv_wait] = NULL /\ q.count = Capacity /\ timeout # NoWait
  /\ Block(k, c, send_wait, timeout)
  /\ parcel' = [parcel EXCEPT ![c] = m]
  /\ UNCHANGED q

QueueSend(c, m, timeout) ==
  /\ "send" \in k.build.ops /\ Runs(c)
  /\ SendToWaiter(c, m) \/ SendBuffered(c, m) \/ SendBlocked(c, m, timeout)

\* os_queue_send by an interrupt handler
IsrSend(m) ==
  \/ /\ k.head[recv_wait] # NULL
     /\ parcel' = [parcel EXCEPT ![k.head[recv_wait]] = m]
     /\ Interrupt(SchedFromIrq(HandOff(k, recv_wait, "EOK")))
     /\ UNCHANGED q
  \/ /\ k.head[recv_wait] = NULL /\ q.count < Capacity
     /\ q' = Push(q, m)
     /\ Interrupt(k)
     /\ UNCHANGED parcel

\* The ring after os_queue_recv has taken a message: the first waiting sender's
\* message takes the place it left.
Refilled ==
  IF k.head[send_wait] = NULL THEN Pop(q)
  ELSE Push(Pop(q), parcel[k.head[send_wait]])

\* os_queue_recv: a message, or with OS_NO_WAIT the answer OS_EEMPTY, or a wait.
QueueRecv(c, timeout) ==
  /\ "recv" \in k.build.ops /\ Runs(c)
  /\ \/ /\ q.count > 0
        /\ parcel' = [parcel EXCEPT ![c] = Oldest(q)]
        /\ q' = Refilled
        /\ IF k.head[send_wait] = NULL THEN UNCHANGED vars
           ELSE ThenSched(c, HandOff(k, send_wait, "EOK"))
     \/ /\ q.count = 0 /\ timeout # NoWait
        /\ Block(k, c, recv_wait, timeout)
        /\ UNCHANGED <<q, parcel>>

\* The call of a task that had to wait returns.
QueueReturn(c) ==
  /\ Returns(c)
  /\ pc' = [pc EXCEPT ![c] = "run"]
  /\ UNCHANGED <<k, q, parcel>>

QueueStep(c) ==
  \/ c \in Sender /\ \E m \in Msg, timeout \in Timeouts : QueueSend(c, m, timeout)
  \/ c \in Receiver /\ \E timeout \in Timeouts : QueueRecv(c, timeout)
  \/ QueueReturn(c)

QueueNext ==
  \/ (TasksNext \/ \E c \in Task : EnterBlocked(c)) /\ UNCHANGED <<q, parcel>>
  \/ \E c \in Task : QueueStep(c)
  \/ \E m \in Msg : IsrSend(m)

QueueSpec == QueueInit /\ [][QueueNext]_queuevars
-----------------------------------------------------------------------------
(* Properties.                                                             *)

QueueTypeOK ==
  /\ k \in KernelType
  /\ pc \in [Tcb -> CallPlaces]
  /\ q \in RingType(Msg \cup {NULL})
  /\ parcel \in [Task -> Msg \cup {NULL}]

\* Nobody waits for what is there: no receiver waits while the queue holds a
\* message and no sender while it has room, whatever timeouts come in between.
NobodyWaitsForTheQueue ==
  /\ k.head[recv_wait] # NULL => q.count = 0
  /\ k.head[send_wait] # NULL => q.count = Capacity

\* The same with what it rests on: types, and wait lists that hold the waiters.
QueueSound == QueueTypeOK /\ WaitersBlocked /\ NobodyWaitsForTheQueue

\* The queue implements BoundedFifo: over the wrapping indices, the hand-off to a
\* waiting receiver, the refill by a waiting sender and timeouts of either,
\* messages are delivered once and in the order they were sent.  Where no task
\* sends or receives, the calls that block are on other objects.
Fifo == INSTANCE BoundedFifo
  WITH Client <- Task, None <- NULL, kept <- Contents(q),
       offers <- Waiting(send_wait), takers <- Waiting(recv_wait),
       outcome <- [t \in Task |-> IF {"send", "recv"} \cap k.build.ops # {} THEN Outcome(t)
                                                                   ELSE "idle"]

DeliversInOrder == Fifo!Spec
=============================================================================
