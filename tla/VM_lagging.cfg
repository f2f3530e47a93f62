SPECIFICATION Spec
CONSTANTS
  Nodes = {n1}
  NoNode = NoNode
  NoVM = NoVM
  NoPolicy = NoPolicy
  NoProc = NoProc
  Env = {"stale", "api", "startfail", "exit", "timeout", "delete", "suspend"}
  MaxEvents = 2
  MaxPid = 2
  Webhook = TRUE
  Ephemeral = FALSE
  Movable = FALSE
  Policy <- InPlaceTwice
INVARIANTS
  TypeOK
  AcknowledgedIsCleanedUp
  SuspendedHasSnapshot
PROPERTIES
  StopsOnlySnapshotted
CHECK_DEADLOCK FALSE
