SPECIFICATION SmpSchedSpec
CONSTANTS
  Core = {0, 1}
  Task = {a, b, c}
  TaskPrio = {0}
  IdlePrio = 1
  AnyCore = AnyCore
  Affinities = {AnyCore}
  NoTask = NoTask
  SmpBuilds <- MCYield
INVARIANT SoleExecution
