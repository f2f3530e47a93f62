SPECIFICATION MCSpec
SYMMETRY Symmetric
CHECK_DEADLOCK FALSE
CONSTANTS
  Nodes = {n1, n2}
  VMs = {v1, v2}
  Addresses = {1, 2}
  None = None
  Live = Live
  ScaleToZero = {}
  CiliumCNI = TRUE
  CiliumIPAM = TRUE
  Env = {"lag", "exit", "suspend", "terminate", "reattach", "crash", "giveup", "api", "kernel", "netdelete"}
  MaxEvents = 2
INVARIANTS
  RegistrationKept
  OverlaySettles
