SPECIFICATION MCSpec
CONSTANTS
  c1 = c1
  c2 = c2
  task1 = task1
  u1 = u1
  u2 = u2
  t1 = t1
  t2 = t2
  NULL = NULL
  Client = {c1, c2}
  BlockSize = 2
  BlockCount = 3
  Junk = Junk
  User = {u1, u2}
  Align = 2
  Header = 4
  ArenaSize = 25
  SizeMod = 32
  Request = {0, 1, 9}
  Count = {2, 4}
  NoBlock = NoBlock
  Timer = {t1, t2}
  Slots = 2
  TickMod = 8
  Periods = {2}
  MaxLag = 2
  MaxIdle = 1
  MaxWake = 1
  CallDetached = FALSE
  NoTimer = NoTimer
  Cpu = {0, 1}
  BootCpu = 0
  Caller = {c1, c2}
  NoCaller = NoCaller
  Core = {0, 1}
  Task = {t1, t2, task1}
  TaskPrio = {0, 1}
  IdlePrio = 2
  AnyCore = AnyCore
  Affinities = {0, 1}
  NoTask = NoTask
  SmpBuilds <- MCSmpBuilds
  NumEntries = 3
  FirstUser = 1
  AddrMod = 4
  Regions <- MCRegions
  Kernel <- MCKernel
  Access = {"r"}
  Owner = {t1}
  ContextMax = 1
  Value <- MCValue
  Capacity = 4
  Worker = task1
  Direct = {c1, c2}
  Model = {u1, u2}
  HalModes <- MCHalModes
CHECK_DEADLOCK FALSE
INVARIANTS
  PoolSound ReferencesBalance
  HeapTiles NoFreeNeighbours HeapAccounts
  ActiveCountExact CallsRunOnce CheckTellsTheHardware KeepsTheGreatest
  SoleExecution SmpListsAgree StateTellsTheWork
PROPERTIES
  HeldBlocksStay FiresOnTime ActiveTimersFire CallsAreRun LockedRegionsStay
