SPECIFICATION FairSpec
CONSTANTS
  Revisions = {r1, r2}
  NoRevision = none
  Operators = {hubctl}
  Agent = agent
  Within = 1
  MaxFaults = 1
  MaxCrashes = 1
  Overlap = TRUE
  DirSyncMayFail = TRUE
INVARIANT SnapshotUnderNet
PROPERTY NetResolves
PROPERTY HostFollows
