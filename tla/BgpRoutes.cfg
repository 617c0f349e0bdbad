SPECIFICATION Spec

CONSTANTS
  Machines <- MCMachines
  Interfaces <- PairAndTriangle
  Mode <- MCMode
  Subnets = {"p", "q"}
  InitialOwned <- PairAndTriangleOwned
  Priorities <- MCPriorities
  Named <- PairAndTriangleNamed
  Workloads <- PairOrTriangle

INVARIANTS
  TypeOK
  RoutesAreSimpleWalks
  NoFreeTransit
  OriginsAreGenuine
  PrintedByPreference
  NoGhostRoutes

CHECK_DEADLOCK FALSE
