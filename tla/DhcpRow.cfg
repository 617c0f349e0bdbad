SPECIFICATION FairSpec

CONSTANTS
  s1 = s1
  s2 = s2
  c1 = c1
  c2 = c2
  c3 = c3
  NoMac = NoMac
  Servers = {s1, s2}
  Clients = {c1, c2, c3}
  Neighbours <- Row
  Blocks <- RowBlocks
  Times <- RowTimes
  TimeRange = 16
  Workloads <- RowLoads

INVARIANTS
  TypeOK
  EntriesAreWhole
  LeasesAreRecorded
  LeasesAreExclusive

PROPERTIES
  RequestIsAnswered

CHECK_DEADLOCK FALSE
