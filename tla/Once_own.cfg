\* Each Once has a function of its own.
CONSTANTS
  o1 = o1
  o2 = o2
  f1 = f1
  f2 = f2
  Threads = {t1, t2}
  Onces = {o1, o2}
  Fns = {f1, f2}
  Passes <- OwnFn
  Nobody = nobody
  MaxCalls = 1
SPECIFICATION Spec
INVARIANT RunsItsOwn
