SPECIFICATION MCSpec
CHECK_DEADLOCK FALSE
CONSTANTS
  s1 = s1
  s2 = s2
  Sandboxes = {s1, s2}
  None = None
  Live = Live
  Calls = {c1}
  BlockStart = 16
  BlockSize = 16
  SlotSize = 4
  Foreign <- Prefixes
  Specs <- AllSpecs
  MaxUID = 2
  Env = {"api", "crash", "lag", "user", "delete", "config", "foreign", "exit", "expire", "recreate", "call", "rpc", "wedge", "gateway"}
  MaxEvents = 2
INVARIANTS AdmittedGetsVM SandboxSettles RightGuest
PROPERTIES AllocationExact
