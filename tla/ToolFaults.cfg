\* Planner: one or two ranks, every policy and configuration of MCKvSizing, in words up
\* to 255.  Probe: two ranks, every set of kept rules.  Release: one profile of three
\* blocks in parts of two, two builds in one directory, two deaths.  Parity: one ABBA
\* block, two outputs, two faults.  Every step that can fail may.  A command ends.
CONSTANTS
  MaxWord = 255
  Policies <- MCPolicies
  Configs <- MCConfigs
  Worlds = {1, 2}
  ProbeRanks = {r0, r1}
  Leader = r0
  Faults = TRUE
  Profiles = {"cpu"}
  Blocks = 3
  PartBlocks = 2
  MaxBuilds = 2
  MaxDeaths = 2
  Outputs = {1, 2}
  MaxSequence = 4
  MaxFaults = 2
SPECIFICATION Spec
CHECK_DEADLOCK FALSE
INVARIANTS PlanIsSound CertificateIsEarned ReleaseIsOneBuild VerdictIsMeasured
PROPERTIES CommandsEnd
