\* Two engine threads, so that a request's callbacks may race, and every control call
\* may fail.  The heartbeat thread polls for resizes before it renews; times are the
\* smallest for which it is in time.
CONSTANTS
  Threads = {t1, t2}
  Requests = {r1, r2}
  Leases = {l1, l2}
  NoLease = none
  TTL = 6
  Interval = 1
  CallTime = 1
  LiveResize = TRUE
  MaxLate = 1
SYMMETRY Symmetry
SPECIFICATION Spec
INVARIANTS TypeOK LeaseOwnedOnce SilentLeakOnlyAtShutdown NoSilentExpiry
PROPERTY AdmissionHoldsLease
