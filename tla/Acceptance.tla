----------------------------- MODULE Acceptance -----------------------------
(***************************************************************************)
(* What the transactions of the conversation repository promise: each of   *)
(* them happens to the tables at once, whatever else is going on.  An      *)
(* attempt is accepted only on the embed, the history and the load that    *)
(* hold at that moment, and only attempts whose lease has lapsed are        *)
(* interrupted.  How locks, row re-checks and rollbacks achieve this is the *)
(* business of AcceptanceTx, which implements this specification.          *)
(***************************************************************************)
EXTENDS Integers, FiniteSets

CONSTANTS
    Conversations,     \* session credentials (conversation ids)
    Requests,          \* request ids chosen by clients
    Networks,          \* network hashes, all of one agent
    Embeds,            \* the embeds of that agent
    Attempts,          \* pool of generation attempt ids
    None,              \* SQL NULL
    ConcurrencyLimit,  \* concurrent generations per network
    DailyLimit         \* accepted attempts per network on the day modelled

VARIABLES
    embed,     \* the embed rows: access version and disabled flag
    issued,    \* the embed and access version a conversation is bound to, or None
    revision,  \* conversation.revision
    tail,      \* conversation.latest_completed_message_id (its attempt)
    row,       \* what an accepted attempt fixes for good
    status,    \* generation_attempt.status, "free" while the id is unused
    lapsed,    \* the attempts whose lease lies in the past
    counter    \* conversation_daily_counter of that day

tables == <<embed, issued, revision, tail, row, status, lapsed, counter>>

Active     == {"accepted", "running"}
RunOutcome == {"completed", "failed"}  \* "failed" stands for every other outcome

Accepted     == {a \in Attempts : status[a] # "free"}
ActiveTurns  == {a \in Accepted : status[a] \in Active}
TurnsOf(c)   == {a \in Accepted : row[a].conv = c}
CallsFrom(n) == {a \in Accepted : row[a].net = n}

Init ==
    /\ embed = [e \in Embeds |-> [version |-> 1, disabled |-> FALSE]]
    /\ issued = [c \in Conversations |-> None]
    /\ revision = [c \in Conversations |-> 0]
    /\ tail = [c \in Conversations |-> None]
    /\ row = [a \in Attempts |-> None]
    /\ status = [a \in Attempts |-> "free"]
    /\ lapsed = {}
    /\ counter = [n \in Networks |-> 0]

Interruptible == ActiveTurns \cap lapsed

\* A request of conversation c from network n becomes attempt a, in the place
\* of the abandoned attempts S.
Accept(c, q, n, e, a, S) ==
    /\ S \subseteq TurnsOf(c) \cup CallsFrom(n)
    /\ ~embed[e].disabled
    /\ issued[c] \in {None, [embed |-> e, version |-> embed[e].version]}
    /\ \A b \in TurnsOf(c) : row[b].req # q
    /\ TurnsOf(c) \cap ActiveTurns \subseteq S
    /\ Cardinality((CallsFrom(n) \cap ActiveTurns) \ S) < ConcurrencyLimit
    /\ counter[n] < DailyLimit
    /\ status[a] = "free"
    /\ row' = [row EXCEPT ![a] = [conv |-> c, req |-> q, net |-> n,
                                  rev |-> revision[c], tail |-> tail[c]]]
    /\ status' = [b \in Attempts |-> IF b = a THEN "accepted"
                                     ELSE IF b \in S THEN "interrupted" ELSE status[b]]
    /\ issued' = [issued EXCEPT ![c] = [embed |-> e, version |-> embed[e].version]]
    /\ counter' = [counter EXCEPT ![n] = @ + 1]
    /\ lapsed' \in {lapsed \ {a}, lapsed \cup {a}}
    /\ UNCHANGED <<embed, revision, tail>>

Interrupt(S) ==
    /\ status' = [b \in Attempts |-> IF b \in S THEN "interrupted" ELSE status[b]]
    /\ UNCHANGED <<embed, issued, revision, tail, row, lapsed, counter>>

Start(a) ==
    /\ status[a] = "accepted"
    /\ status' = [status EXCEPT ![a] = "running"]
    /\ UNCHANGED <<embed, issued, revision, tail, row, lapsed, counter>>

\* Exactly a completed answer extends the history, by one turn.
Finish(a, outcome) ==
    LET c == row[a].conv IN
    /\ status[a] = "running"
    /\ status' = [status EXCEPT ![a] = outcome]
    /\ IF outcome = "completed"
       THEN /\ revision' = [revision EXCEPT ![c] = @ + 1]
            /\ tail' = [tail EXCEPT ![c] = a]
       ELSE UNCHANGED <<revision, tail>>
    /\ UNCHANGED <<embed, issued, row, lapsed, counter>>

\* Leases lapse and are renewed.
PassTime ==
    /\ lapsed' \in SUBSET Attempts
    /\ UNCHANGED <<embed, issued, revision, tail, row, status, counter>>

Revoke(e) ==
    /\ embed' = [embed EXCEPT ![e].version = @ + 1]
    /\ UNCHANGED <<issued, revision, tail, row, status, lapsed, counter>>

Switch(e) ==
    /\ embed' = [embed EXCEPT ![e].disabled = ~@]
    /\ UNCHANGED <<issued, revision, tail, row, status, lapsed, counter>>

Next ==
    \/ \E S \in SUBSET Interruptible : Interrupt(S)
    \/ PassTime
    \/ \E a \in Attempts : Start(a)
    \/ \E a \in Attempts, outcome \in RunOutcome : Finish(a, outcome)
    \/ \E e \in Embeds : Revoke(e) \/ Switch(e)
    \/ \E S \in SUBSET Interruptible, a \in Attempts, c \in Conversations, q \in Requests,
          n \in Networks, e \in Embeds : Accept(c, q, n, e, a, S)

Spec == Init /\ [][Next]_tables
=============================================================================
