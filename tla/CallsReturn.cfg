\* Two calls compete for one session and nobody cancels; one call, single or batch,
\* against a cancelling thread; two generations against one managing thread.
CONSTANTS
  Threads = {t1, t2}
  FirstThread = t1
  Ids = {i1, i2}
  Cancellers = {c1}
  Runs = {r1, r2, r3}
  MaxSessions = 1
  Calls = {g1, g2}
  Managers = {m1}
SPECIFICATION Spec
CHECK_DEADLOCK FALSE
INVARIANTS CallsLeaveClean
PROPERTIES IdleSessionTaken CancelledCallReturns CancelledEnds
