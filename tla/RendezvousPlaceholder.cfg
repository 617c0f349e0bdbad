SPECIFICATION Spec

CONSTANTS
  s = s
  n1 = n1
  n2 = n2
  c1 = c1
  c2 = c2
  c3 = c3
  c4 = c4
  Server = s
  Nats = {n1, n2}
  Clients = {c1, c2, c3, c4}
  Outside = Outside
  NoIp = NoIp
  BoxIp = BoxIp
  lan <- Lans
  relay <- Relays
  Wired = Wired
  ip <- Named
  Slots = 4
  PortRange = 8
  Step = 2
  Workloads <- Stories

PROPERTIES
  MessagesGoSomewhere

CHECK_DEADLOCK FALSE
