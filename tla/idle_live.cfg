SPECIFICATION IdleFairSpec
CONSTANTS
  c1 = c1  c2 = c2  t1 = t1  t2 = t2  k1 = k1  k2 = k2
  AnyThread = AnyThread  Outside = Outside
  Timers = {c1}
  Threads = {t1, t2}
  Tasks = {k1}
  Pins = {t1}
  Periods = {1, 7}
  Hour = 4
  Start = 0
  MaxTime = 1
  MaxBacks = 0
  Callers = 1
  MaxTimeout = 1
  IntRange = 16
INVARIANTS SleepBounded
PROPERTIES TasksTaken TimersExpire
