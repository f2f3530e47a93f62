CONSTANTS
  v1 = v1
  v2 = v2
  VMs = {v1, v2}
  None = None
  Live = Live
  IPs = {1, 2}
  IdleTimeout = 1
  BufSize = 1
  MemoryMiB <- Sizes
  Created <- Times
  WarmPool <- Warm
  Env = {"frame", "api", "rpc", "user", "vmexit", "replace", "crash", "runtime", "lag", "pressure", "manual"}
  MaxEvents = 3
SPECIFICATION MCSpec
INVARIANTS StaysWakeable PressureHolds
PROPERTIES IdleGrace
