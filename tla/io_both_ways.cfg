SPECIFICATION Spec
CONSTANTS
  f1 = f1  f2 = f2  f3 = f3  t1 = t1  t2 = t2  None = None
  Fibers = {f1, f2, f3}
  Fds = {2}
  Threads = {t1}
  Uses <- BothWays
  Size = 4
  MaxGen = 1
INVARIANTS NoAbort
