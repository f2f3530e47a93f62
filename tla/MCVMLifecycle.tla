--------------------------- MODULE MCVMLifecycle ---------------------------
EXTENDS VMLifecycle, TLC

InPlaceTwice == [mode |-> "in-place", max |-> 2, onExhaustion |-> "cool-down"]
InPlaceOnce == [mode |-> "in-place", max |-> 1, onExhaustion |-> "manual-reset"]
RescheduleOnce == [mode |-> "reschedule", max |-> 1, onExhaustion |-> "manual-reset"]

NodeSymmetry == Permutations(Nodes)
=============================================================================
