\* Two ranks and two resizes without faults; one callback thread with a short TTL, on
\* which nothing here depends; a startup with every fault and one restart of the
\* coordinator.  Generations are bounded and a startup ends.
CONSTANTS
  Workers = {w1, w2}
  Leader = w1
  Initial = 2
  Sizes = {2, 3, 4}
  MaxGen = 2
  MaxQueue = 1
  MaxLate = 1
  Threads = {t1}
  Requests = {r1, r2}
  Leases = {l1, l2}
  NoLease = none
  TTL = 3
  Interval = 1
  CallTime = 1
  MaxRestarts = 1
SPECIFICATION Spec
CHECK_DEADLOCK FALSE
INVARIANTS ServesOnlyWhole
PROPERTIES IdleShrinkCompletes LeasesEnd StartupDecides
