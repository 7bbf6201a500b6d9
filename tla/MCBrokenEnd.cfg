SPECIFICATION Spec
CONSTANTS
    MaxSends = 1
    MaxReloads = 1
    MaxPolls = 2
INVARIANTS RecoversSomething
CHECK_DEADLOCK FALSE
