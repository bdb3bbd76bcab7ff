SPECIFICATION MCSpec
CONSTANTS
  a = a
  b = b
  c = c
  x = x
  y = y
  Task = {a, b, c}
  Idle = Idle
  NULL = NULL
  CountMod = 8
  PrioMax = 3
  WaitList = {m, send_wait, recv_wait}
  Mutex = {m}
  send_wait = send_wait
  recv_wait = recv_wait
  TaskMax = 4
  TickMod = 4
  SliceTicks = 2
  Builds <- MCBuilds
  Ops = {"mlock", "munlock", "send", "recv", "isr"}
  CreatePrio <- MCCreatePrio
  Delays = {}
  LockMax = 0
  Timeouts = {0, 2, 3}
  Inherit = FALSE
  NestMod = 8
  HoldMax = 2
  Sender = {b, c}
  Receiver = {a}
  Capacity = 2
  Msg = {x, y}
VIEW MCView
SYMMETRY MCSymmetry
CONSTRAINT MCOrder
INVARIANTS MutexSound QueueSound
PROPERTY DeliversInOrder
