\* Two calls over four buckets with room for none or two secondary pools; two loading
\* threads and two calls that may outlive their model; three adapter instances, two
\* keys, two threads and two addresses, where every host call may fail.
CONSTANTS
  Calls = {c1, c2}
  Loaders = {l1, l2}
  FirstBucket = b1
  EvictBuckets = {b2, b3, b4}
  RaceBucket = s2
  EvictLimits = {1, 3}
  RaceLimits = {2}
  PoolSize = 2
  MaxModels = 2
  Backends = {a1, a2, a3}
  Clients = {k1, k2}
  Threads = {t1, t2}
  Pointers = {p1, p2}
SPECIFICATION Spec
SYMMETRY Symmetry
CHECK_DEADLOCK FALSE
INVARIANTS PoolsAccounted MemoryAccounted
PROPERTIES ReplacesInOrder
