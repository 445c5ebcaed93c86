\* Mapping: five segments, six attempts at a resize, two failing driver calls.  Block
\* pool: two to six blocks, three resizes.  Hook: every build of vLLM, two layers.
\* Control call: up to three pieces and handles, two handles allowed.  Resize message:
\* six one-byte blocks in units of two, at most two segments, operations that count in
\* blocks of one or two bytes.  Registration: up to two
\* ranks on two devices, every configuration, two resizes of a pool meanwhile.  Each part ends.
CONSTANTS
  Units = 5
  Initial = 2
  MaxFaults = 2
  MaxOps = 6
  InitialBlocks = 3
  MaximumBlocks = 6
  MaxResizes = 3
  Layers = {y1, y2}
  Maximum = 4
  Fds = {f1, f2, f3}
  MaxHandles = 2
  MaxPieces = 3
  Ids = {a, b}
  MaxBlocks = 6
  Stride = 1
  Grain = 2
  Alignment = 2
  Offsets = {0, 2, 4}
  Lengths = {1, 2}
  Targets = {2, 3, 4}
  MaxSegments = 2
  Devices = {0, 1}
  Worlds = {1, 2}
  MaxGroups = 2
  Counts = {3, 4}
  MaxChanges = 2
SPECIFICATION Spec
CHECK_DEADLOCK FALSE
INVARIANTS MappingAccounted BlocksAccounted HookIsHarmless HandlesAccounted
INVARIANTS MessagesArePartitions RanksAgree
