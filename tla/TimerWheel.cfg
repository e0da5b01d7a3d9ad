SPECIFICATION Spec
CONSTANTS
  Tick = 2
  Size = 3
  Start = {6, 7}
  MaxClock = 16
  MaxLevel = 2
  Timers = {t1, t2}
  Delays = {1, 3, 5, 8}
  Intervals = {0, 3}
INVARIANT NotEarlierThanATick
CHECK_DEADLOCK FALSE
