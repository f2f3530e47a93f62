CONSTANTS
  VMs = {v1, v2}
  None = None
  Live = Live
  PoolSpecs <- Pools
  MaxDemand = 2
  Env = {"lag", "api", "opcrash", "dial", "rpc", "crash", "vmexit", "startfail", "expire", "restart"}
  MaxEvents = 2
SPECIFICATION MCSpec
INVARIANTS PoolBounded PoolSettles HandedOverOnce RunningMeansWorking
CHECK_DEADLOCK FALSE
SYMMETRY Symmetric
