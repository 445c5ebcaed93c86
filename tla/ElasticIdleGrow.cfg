\* One resize of an engine that may be idle, no failures.  The system may stop: generations are
\* bounded, and a scheduler that lost the coordinator fails closed.
CONSTANTS
  Workers = {w1, w2}
  Leader = w1
  Initial = 2
  Sizes = {2, 3}
  MaxGen = 1
  MaxQueue = 1
  MaxLate = 1
  Faults = FALSE
CHECK_DEADLOCK FALSE
SPECIFICATION FairSpec
PROPERTY IdleResizeCompletes
