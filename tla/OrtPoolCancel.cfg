\* One or two sessions between two calls, one of which may be a batch of two,
\* with two cancellations in flight.
CONSTANTS
  Threads = {t1, t2}
  Ids = {i1, i2}
  Cancellers = {c1, c2}
  Runs = {r1, r2, r3, r4}
  MaxSessions = 2
SPECIFICATION Spec
SYMMETRY Symmetry
INVARIANTS
  TypeOK
  SlotAccounting
  RegistryMatchesCalls
  CancelReachesRun
  NoStrayTermination
  BatchComplete
