SPECIFICATION FairSpec

CONSTANTS
  a = a
  b = b
  Endpoints <- MCEndpoints
  Peer <- MCPeer
  MaxStarts <- MCStartAgain
  MaxExpiries <- MCExpireOnce
  MaxLosses = 0
  MaxFlight = 1

INVARIANTS
  TypeOK
  WaitsAreTimed
  TimerFindsItsState

PROPERTIES
  BothEstablish
  NotifiedReconnects

CHECK_DEADLOCK FALSE
