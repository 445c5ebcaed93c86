\* Two ranks and one resize up or down after another, with control calls that fail
\* or arrive late and CUDA calls that fail.  The system may stop: generations are
\* bounded, and a scheduler that lost the coordinator fails closed.
CONSTANTS
  Workers = {w1, w2}
  Leader = w1
  Initial = 2
  Sizes = {2, 3}
  MaxGen = 2
  MaxQueue = 1
  MaxLate = 1
  Faults = TRUE
CHECK_DEADLOCK FALSE
SPECIFICATION Spec
INVARIANTS TypeOK CapacityOrder NoUnmappedAccess StuckOnlyWhenTorn
PROPERTY ResizedOnce ImplementsContract
