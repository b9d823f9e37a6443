SPECIFICATION Spec
CONSTANTS
  loop = loop
  spawned = spawned
  shell = shell
  Loop = loop
  Spawned = spawned
  Shells <- MCShells
  Jobs <- MCJobsHere
  Nobody = nobody
  Written <- MCWritten
  MaxOps = 3
  MaxFaults = 1
  Tunnels <- MCTunnels
  Private = {}
  Contained = {}
  Devices <- MCDevices
  LastClient = 6
  Direct = direct
  Anyone = anyone
  Blank = blank
INVARIANTS
  TypeOK
  RevocationHeeded
PROPERTIES
  AtomicEdits
  SentProfileWorks
  RefusedLeavesNoTrace
CHECK_DEADLOCK FALSE
