SPECIFICATION Spec

CONSTANTS
  Machines <- MCMachines
  Interfaces <- Row
  Mode <- MCMode
  Subnets = {"p"}
  InitialOwned <- RowOwned
  Priorities = {85}
  Named <- AnyNamed
  Workloads <- RowUsers

INVARIANTS
  NoGhostRoutes

CHECK_DEADLOCK FALSE
