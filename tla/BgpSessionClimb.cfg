SPECIFICATION Spec

CONSTANTS
  a = a
  b = b
  Endpoints <- MCEndpoints
  Peer <- MCPeer
  MaxStarts <- MCOnce
  MaxExpiries <- MCNever
  MaxLosses = 1
  MaxFlight = 2

INVARIANTS
  EstablishedIsMutual

PROPERTIES
  ClimbsInStep

CHECK_DEADLOCK FALSE
