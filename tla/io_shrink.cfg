SPECIFICATION Spec
CONSTANTS
  f1 = f1  f2 = f2  f3 = f3  t1 = t1  t2 = t2  None = None
  Fibers = {f1, f2, f3}
  Fds = {2, 4}
  Threads = {t1}
  Uses <- Growing
  Size = 2
  MaxGen = 2
INVARIANTS CancelFinds
