\* Every kind of wait, with two wake-ups at a time, a signal and timeouts.
CONSTANTS
  t1 = t1
  t2 = t2
  t3 = t3
  w1 = w1
  w2 = w2
  Waiter = {t1, t2, t3}
  Waker = {w1, w2}
  NULL = NULL
  Signalled = {t1}
  Builds <- AllBuilds
SPECIFICATION Spec
INVARIANTS
  TypeOK
  NoLostWakeUp
