SPECIFICATION MutexSpec
CONSTANTS
  a = a
  b = b
  c = c
  Task = {a, b, c}
  Idle = Idle
  NULL = NULL
  CountMod = 8
  PrioMax = 3
  WaitList = {m}
  Mutex = {m}
  TaskMax = 4
  TickMod = 4
  SliceTicks = 2
  Builds <- MCInherit
  Ops = {"yield", "delay", "mlock", "munlock"}
  CreatePrio <- MCCreatePrio
  Delays = {1}
  LockMax = 0
  Timeouts = {0, 2, 3}
  Inherit = TRUE
  NestMod = 8
  HoldMax = 2
INVARIANT ReadyListedOnce
