\* The heartbeat is in time for every failure the loop handles, as in LeaseFaults.
CONSTANTS
  Threads = {t1}
  Requests = {r1}
  Leases = {l1, l2}
  NoLease = none
  TTL = 6
  Interval = 1
  CallTime = 1
  LiveResize = TRUE
  MaxLate = 1
SPECIFICATION SpecWithEscape
INVARIANT NoSilentExpiry
