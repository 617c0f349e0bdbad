SPECIFICATION FairSpec

CONSTANTS
  main = main
  run = run
  timer = timer
  Main = main
  Run = run
  Timers = {timer}
  Nobody = Nobody
  Interfaces = 2
  Ipu = 2
  HeaderSize = 2
  FrameSize = 3
  CommandSize = 2
  Addresses = {0, 1}
  Original = 0
  Settable = {2}
  CommandLines <- MCCommandLines
  Workloads <- MCWorkloads
  MaxReceived = 1
  MaxResets = 1
  MaxFaults = 1

INVARIANTS
  TypeOK
  StreamsAreWellFormed
  FramesFindTheMachine
  OneMapPerProcess
  AddressesAgree

PROPERTIES
  EventLoopStarts
  SendFrameReturns
  ResetIsRecovered

CHECK_DEADLOCK FALSE
