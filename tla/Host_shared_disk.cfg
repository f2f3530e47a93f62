SPECIFICATION Spec
SYMMETRY Symmetric
CONSTRAINT InScope
CHECK_DEADLOCK FALSE
CONSTANTS
  VMs = {v1, v2}
  NoProc = NoProc
  Texts = {"10.0.0.0/8", "192.0.2.1/32"}
  Printed <- PrintedBy
  Lists <- DenyLists
  Env = {}
  MaxEvents = 0
INVARIANTS
  DisksIsolated
