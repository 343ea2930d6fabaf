SPECIFICATION IdleSpec
CONSTANTS
  c1 = c1  c2 = c2  t1 = t1  t2 = t2  k1 = k1  k2 = k2
  AnyThread = AnyThread  Outside = Outside
  Timers = {c1, c2}
  Threads = {t1, t2}
  Tasks = {k1}
  Pins = {AnyThread}
  Periods = {1, 3}
  Hour = 4
  Start = 0
  MaxTime = 0
  MaxBacks = 0
  Callers = 1
  MaxTimeout = 2
  IntRange = 16
SYMMETRY IdleSymmetry
INVARIANTS NoOversleep
