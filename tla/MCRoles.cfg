SPECIFICATION Spec
CONSTANTS
    Users = {u1, u2, u3, u4}
    Roles = {r1, r2}
    Invitations = {v1}
    Requests = {q1, q2}
    Instances = {i1, i2}
    GlobalSets <- MCGlobalSets
    AgentSets <- MCAgentSets
    DefaultRole = r1
    Founder = u1
    Manager = u2
    PoolSize = 2
    MaxRequests = 3
    MaxFaults = 1
    MaxCrashes = 1
    None = None
SYMMETRY Symmetry
INVARIANTS NothingLeftBehind SomeoneGoesOn
PROPERTIES NobodyExceedsOwnAccess SoleAdmin
CHECK_DEADLOCK FALSE
