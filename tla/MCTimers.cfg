SPECIFICATION TimerSpec
CONSTANTS
  Timer = {t1, t2}
  Slots = 2
  TickMod = 8
  Periods = {1, 2}
  MaxLag = 2
  MaxIdle = 1
  MaxWake = 1
  CallDetached = TRUE
  NoTimer = NoTimer
PROPERTY StoppedTimersStaySilent
