SPECIFICATION Spec
CONSTANTS
  c1 = c1  c2 = c2  t1 = t1  t2 = t2
  Timers = {c1, c2}
  Threads = {t1}
  Periods = {1, 2}
  Hour = 1
  Start = 0
  MaxTime = 3
  MaxBacks = 1
  Callers = 1
SYMMETRY TimerSymmetry
INVARIANTS TypeOK Registered FireOrCancel
PROPERTIES NeverEarly
