SPECIFICATION FairSpec
CONSTANTS
  r1 = r1
  r2 = r2
  p1 = p1
  p2 = p2
  k1 = k1
  k2 = k2
  home = home
  office = office
  alice = alice
  bob = bob
  Revisions = {r1, r2}
  Plans = {p1, p2}
  Confs = {k1, k2}
  PlanOf <- MCPlanOf
  ConfOf <- MCConfOf
  Clients = {alice, bob}
  Resolvers = {home, office}
  ResolverOf <- MCResolverOf
  Agents = {agent}
  None = none
  MaxFaults = 2
  MaxCrashes = 1
  MaxOutages = 1
INVARIANT TypeOK
INVARIANT RepopulationOwed
INVARIANT StaleFlowsOwed
INVARIANT ResolverConverged
PROPERTY MisroutingEnds
PROPERTY FlowsSettle
