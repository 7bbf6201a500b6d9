SPECIFICATION Spec
CONSTANTS
    Conversations = {c1}
    Requests = {q1}
    Texts = {t1, t2}
    Networks = {n1}
    Attempts = {a1, a2}
    Senders = {s1, s2}
    Recoverers = {}
    Finalizer = self
    None = None
    ConcurrencyLimit = 1
    DailyLimit = 2
    MaxVersion = 2
    MaxDay = 0
    Switchable = TRUE
    MaxOutput = 0
    MaxTries = 1
SYMMETRY Symmetry
INVARIANTS RequestsAreIdempotent
PROPERTIES RevokedAcceptsNothing
CHECK_DEADLOCK FALSE
