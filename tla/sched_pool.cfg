SPECIFICATION Spec
CONSTANTS
  t1 = t1  t2 = t2  j1 = j1  j2 = j2  j3 = j3  f1 = f1  f2 = f2  f3 = f3
  AnyThread = AnyThread  None = None  Main = Main  Waker = Waker
  Threads = {t1, t2}
  Root = None
  Jobs = {j1, j2}
  Fibers = {f1, f2}
  Pins = {t1, AnyThread}
  Parkers = {j1, j2}
  Duplicates = FALSE
SYMMETRY PoolSymmetry
INVARIANTS TypeOK OneRunner AssertsHold NoLostFiber Counters
PROPERTIES ImplementsTaskPool
