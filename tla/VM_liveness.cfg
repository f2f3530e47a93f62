SPECIFICATION FairSpec
CONSTANTS
  Nodes = {n1, n2}
  NoNode = NoNode
  NoVM = NoVM
  NoPolicy = NoPolicy
  NoProc = NoProc
  Env = {"crash", "api", "startfail", "node", "timeout", "delete", "reset"}
  MaxEvents = 3
  MaxPid = 2
  Webhook = FALSE
  Ephemeral = TRUE
  Movable = TRUE
  Policy <- RescheduleOnce
PROPERTIES
  DeletionCompletes
  StartResolves
  NodeLossReschedules
CHECK_DEADLOCK FALSE
