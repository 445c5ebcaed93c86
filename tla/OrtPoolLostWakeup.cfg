\* Two calls compete for one session while one of them is cancelled.
CONSTANTS
  Threads = {t1, t2}
  Ids = {i1, i2}
  Cancellers = {c1}
  Runs = {r1, r2, r3}
  MaxSessions = 1
SPECIFICATION Spec
INVARIANTS
  CancelledWaiterIsWoken
