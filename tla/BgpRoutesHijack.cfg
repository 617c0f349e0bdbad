SPECIFICATION Spec

CONSTANTS
  Machines <- MCMachines
  Interfaces <- Row
  Mode <- MCMode
  Subnets = {"p"}
  InitialOwned <- HijackOwned
  Priorities = {85}
  Named <- AnyNamed
  Workloads <- HijackUsers

INVARIANTS
  HijacksAreAnnounced

CHECK_DEADLOCK FALSE
