SPECIFICATION Spec
SYMMETRY Symmetric
CHECK_DEADLOCK FALSE
CONSTANTS
  Nodes = {n1, n2}
  VMs = {v1, v2}
  Free = Free
  NoNode = NoNode
  NoProc = NoProc
  SubnetSize = 5
  Gateway = 1
  MaxLive = 2
  Env = {"crash", "restart", "exit", "startfail", "api", "suspend", "move", "recreate"}
  MaxEvents = 2
INVARIANTS
  TypeOK
  OwnedKeepsItsNetwork
PROPERTIES
  NATKeptWhileOwned
  ClaimsHandedOver
