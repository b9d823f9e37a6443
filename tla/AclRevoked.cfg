CONSTANTS
  Tunnels <- MCTunnels
  Private <- MCPrivate
  Contained <- MCContained
  Devices <- MCDevices
  LastClient = 5
  Direct = Direct
  Anyone = Anyone
  Blank = Blank
  Ingress = Ingress
  Uplink = Uplink
  Local = Local
  Dropped = Dropped
  Loopback = Loopback
  PrivateRange <- MCPrivateRange
  Written <- MCWritten
  Edits <- MCEdits
  MaxEdits = 1
  Endpoint = 100
  Destinations <- MCDestinations
  Services <- MCServices
SPECIFICATION Spec
CHECK_DEADLOCK FALSE
INVARIANT ClientIsolation
