SPECIFICATION Spec
CONSTANTS
  Nodes = {n1, n2}
  NoNode = NoNode
  NoVM = NoVM
  NoPolicy = NoPolicy
  NoProc = NoProc
  Env = {"stale", "crash", "runtime", "node", "delete"}
  MaxEvents = 1
  MaxPid = 2
  Webhook = TRUE
  Ephemeral = FALSE
  Movable = FALSE
  Policy <- RescheduleOnce
INVARIANTS
  OnlyAssignedNodeRuns
  AssignmentIsShared
SYMMETRY NodeSymmetry
CHECK_DEADLOCK FALSE
