SPECIFICATION Spec
CONSTANTS
    Names = {n1}
    Contents = {d1, d2}
    Models = {k1}
    Instances = {i1}
    Requests = {o1}
    MaxRows = 3
    MaxRequests = 3
    MaxChanges = 0
    MaxFaults = 1
    MaxLosses = 0
    MaxCrashes = 0
    QuietSweeps = FALSE
    None = None
SYMMETRY Symmetry
INVARIANTS ReadyMatchesFile
CHECK_DEADLOCK FALSE
