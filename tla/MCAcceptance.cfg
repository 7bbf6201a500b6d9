SPECIFICATION Spec
CONSTANTS
    Conversations = {c1, c2}
    Requests = {q1, q2}
    Networks = {n1}
    Embeds = {e1}
    Attempts = {a1, a2}
    Transactions = {x1, x2}
    None = None
    ConcurrencyLimit = 1
    DailyLimit = 2
    LeaseTime = 1
    MaxVersion = 2
    MaxTime = 2
SYMMETRY Symmetry
VIEW WithoutPast
INVARIANTS OnlyUpdatesDeadlock AnswersCurrentHistory
PROPERTIES ImplementsAcceptance
