SPECIFICATION Spec

CONSTANTS
  a = a
  b = b
  Programs = {a, b}
  Backlog = 1
  Chunk = 3
  LineSize = 3
  Descriptors = 3
  Workloads <- MCWorkloads

INVARIANTS
  LinesAreKept
  NoSessionIsLost
  SocketsAreCounted

CHECK_DEADLOCK FALSE
