CONSTANTS
  v1 = v1
  v2 = v2
  u1 = u1
  u2 = u2
  u3 = u3
  u4 = u4
  VMs = {v1, v2}
  Users = {u1, u2, u3, u4}
  Groups <- MCGroups
  Nodes = {1, 2}
  None = None
  Live = Live
  Node <- MCNode
  Classes <- MCClasses
  Specs <- MCSpecs
  Profiles <- MCProfiles
  Configs <- MCConfigs
  Definitions <- MCDefinitions
  Requests <- MCRequests
  Env = {"user", "node", "crash", "lag", "start", "vmexit", "attach", "admin"}
  MaxEvents = 2
SPECIFICATION MCSpec
INVARIANTS CapacityKept UnplacedIsRetried AuthorizationFollows GrantOutlivesInterface UplinkKept
CHECK_DEADLOCK FALSE
