SPECIFICATION MCSpec
CONSTANTS
  a = a
  b = b
  c = c
  x = x
  y = y
  Task = {a, b, c}
  Idle = Idle
  NULL = NULL
  CountMod = 8
  PrioMax = 3
  WaitList = {sem, event}
  sem = sem
  event = event
  TaskMax = 4
  TickMod = 4
  SliceTicks = 2
  Builds <- MCBuilds
  Ops = {"take", "give", "reset", "wait", "set", "clear", "isr"}
  CreatePrio <- MCCreatePrio
  Delays = {}
  LockMax = 0
  Timeouts = {0, 2, 3}
  SemStart = 0
  SemMax = 2
  Bit = {x, y}
  Sets <- MCSets
  Requests <- MCRequests
VIEW MCView
SYMMETRY MCPeers
CONSTRAINT MCOrder
INVARIANTS SemSound EventSound NobodyOverstays
PROPERTIES CountsAndServesInOrder TimesOutOnTime AnswersFitRequests
