SPECIFICATION Spec
CONSTANTS
  Revisions = {r1, r2}
  NoRevision = none
  Operators = {hubctl}
  Agent = agent
  Within = 1
  MaxFaults = 0
  MaxCrashes = 0
  Overlap = TRUE
  DirSyncMayFail = FALSE
SYMMETRY Interchangeable
PROPERTY AgentOverrulesOnlyExpired
