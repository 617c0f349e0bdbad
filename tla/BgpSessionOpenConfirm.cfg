SPECIFICATION Spec

CONSTANTS
  a = a
  b = b
  Endpoints <- MCEndpoints
  Peer <- MCPeer
  MaxStarts <- MCOnce
  MaxExpiries <- MCOnce
  MaxLosses = 0
  MaxFlight = 1

PROPERTIES
  OpenConfirmFromOpen

CHECK_DEADLOCK FALSE
