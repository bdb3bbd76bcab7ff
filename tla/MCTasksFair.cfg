SPECIFICATION FairTasksSpec
CONSTANTS
  a = a
  b = b
  c = c
  Task <- MCTask
  Idle = Idle
  NULL = NULL
  CountMod = 8
  PrioMax = 3
  WaitList = {}
  TaskMax = 4
  TickMod = 2
  SliceTicks = 2
  Builds <- MCFair
  Ops = {"yield", "delay", "setprio", "lock", "suspend", "resume", "create", "delete", "overflow"}
  CreatePrio <- MCCreatePrio
  Delays = {1}
  LockMax = 0
PROPERTIES TopTaskRuns SleepersWake
