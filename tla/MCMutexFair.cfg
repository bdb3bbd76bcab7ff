SPECIFICATION FairMutexSpec
CONSTANTS
  a = a
  b = b
  c = c
  Task = {a, b, c}
  Idle = Idle
  NULL = NULL
  CountMod = 8
  PrioMax = 3
  WaitList = {m}
  Mutex = {m}
  TaskMax = 4
  TickMod = 4
  SliceTicks = 1
  Builds <- MCFair
  Ops = {"yield", "delay", "mlock", "munlock"}
  CreatePrio <- MCEqualPrio
  Delays = {}
  LockMax = 0
  Timeouts = {2, 3}
  Inherit = FALSE
  NestMod = 8
  HoldMax = 1
PROPERTY WaitersGetTheMutex
CONSTRAINT MCOrder
