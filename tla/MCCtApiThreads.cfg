CONSTANTS
  t1 = t1
  t2 = t2
  t3 = t3
  Threads = {t1, t2, t3}
  Ctxs = {c1, c2}
  Ctns = {1, 2}
  Ports = {0, 1, 2}
  Applications <- OwnReaders
  None = None
SPECIFICATION Spec
INVARIANT NoDangling
CHECK_DEADLOCK FALSE
