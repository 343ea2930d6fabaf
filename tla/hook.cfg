SPECIFICATION FairServerSpec
CONSTANTS
  f1 = f1  f2 = f2  f3 = f3  l = l  d = d  None = None
  Fibers = {f1, f2, f3}
  Fds = {l, d}
  Listening = l
  Programs <- HookPrograms
  MaxReadable = 1
INVARIANTS OneWaker TimerGuards FreshCtx ClientsOnce
PROPERTIES ReadyReturns TimedReturns SleepsEnd LoopsEnd
CHECK_DEADLOCK FALSE
