SPECIFICATION FairSpec
CONSTANTS
  c1 = c1
  c2 = c2
  rejected = rejected
  Configs = {c1, c2, rejected}
  Accepted = {c1, c2}
  Agents = {agent}
  Off = off
  None = none
  Torn = torn
  MaxFaults = 2
  MaxCrashes = 2
  MaxDeaths = 2
INVARIANT TypeOK
INVARIANT MarkerTruth
INVARIANT ServedAsApplied
PROPERTY Follows
