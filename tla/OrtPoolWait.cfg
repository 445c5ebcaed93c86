\* Three calls compete for at most two sessions; nobody cancels.  A secondary
\* pool creates its second session on demand, which may fail.
CONSTANTS
  Threads = {t1, t2, t3}
  Ids = {i1, i2, i3}
  Cancellers = {}
  Runs = {r1, r2, r3}
  MaxSessions = 2
SPECIFICATION Spec
SYMMETRY Symmetry
INVARIANTS
  NoStrandedWaiter
