SPECIFICATION Spec
CONSTANTS
    Names = {n1}
    Contents = {d1}
    Models = {k1, k2}
    Instances = {i1, i2}
    Requests = {o1}
    MaxRows = 2
    MaxRequests = 2
    MaxChanges = 2
    MaxFaults = 1
    MaxLosses = 1
    MaxCrashes = 1
    QuietSweeps = FALSE
    None = None
SYMMETRY Symmetry
INVARIANTS TypeOK SearchableIsEmbedded SweepReconciles
PROPERTIES StaleWorkerIsFenced
CHECK_DEADLOCK FALSE
