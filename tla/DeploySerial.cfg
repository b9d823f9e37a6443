SPECIFICATION Spec
CONSTANTS
  Revisions = {r1, r2, r3}
  NoRevision = none
  Operators = {operator}
  Agent = agent
  Within = 1
  MaxFaults = 2
  MaxCrashes = 1
  Overlap = FALSE
  DirSyncMayFail = FALSE
SYMMETRY Interchangeable
INVARIANT TypeOK
INVARIANT UnconfirmedIsWatched
INVARIANT NetReturnsToAccepted
PROPERTY AgentOverrulesOnlyExpired
