CONSTANTS
  Parents = {daily, mig}
  Scheduled = {daily}
  Nodes = {n1, n2}
  None = None
  Live = Live
  Retention = 1
  MaxSecond = 2
  Env = {"lag", "move", "vmdelete", "snapfail", "api", "crash", "elect", "byhand", "targetdies"}
  MaxEvents = 2
  MigSnap = mig
  Profiled = {n1, n2}
  CPUModel <- SameCPU
SPECIFICATION MCSpec
INVARIANTS OneExecution SucceededHasArtifact BaseResolves ExecutionsSettle
PROPERTIES SourceOutlives
CHECK_DEADLOCK FALSE
SYMMETRY Symmetric
