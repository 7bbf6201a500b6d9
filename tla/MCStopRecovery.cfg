SPECIFICATION Spec
CONSTANTS
    MaxSends = 1
    MaxReloads = 1
    MaxPolls = 2
INVARIANTS PendingIsRecovered
CHECK_DEADLOCK FALSE
