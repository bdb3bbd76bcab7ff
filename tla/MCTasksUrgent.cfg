SPECIFICATION TasksSpec
CONSTANTS
  a = a
  b = b
  c = c
  Task <- MCTask
  Idle = Idle
  NULL = NULL
  CountMod = 8
  PrioMax = 3
  WaitList = {}
  TaskMax = 4
  TickMod = 4
  SliceTicks = 2
  Builds <- MCUrgent
  Ops = {"yield", "delay", "setprio", "lock", "suspend", "resume", "create", "delete", "overflow"}
  CreatePrio <- MCCreatePrio
  Delays = {2}
  LockMax = 1
INVARIANT UrgentTaskRuns
