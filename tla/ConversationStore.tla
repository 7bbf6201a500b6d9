------------------------- MODULE ConversationStore -------------------------
(***************************************************************************)
(* The conversation tables of apps/api and the statements that change them *)
(* (conversation.repository.ts, usage.repository.ts, and the embed row     *)
(* they are checked against).  Every operator below the tables is one      *)
(* statement or one transaction, so it is one atomic step.                 *)
(*                                                                         *)
(* One embed of one agent is modelled.  A lease is a deadline in database  *)
(* time; live[a] says whether it still lies ahead, and only Lapse makes it *)
(* pass.  Token counts are counted in batches of assistant text.           *)
(***************************************************************************)
EXTENDS Integers, FiniteSets

CONSTANTS
    Conversations,     \* session credentials (conversation ids)
    Requests,          \* request ids chosen by clients
    Texts,             \* user message texts
    Networks,          \* network hashes
    Attempts,          \* pool of generation attempt ids; its size bounds acceptances
    None,              \* SQL NULL for a message id
    ConcurrencyLimit,  \* concurrent generations per network
    DailyLimit,        \* accepted attempts per network and UTC day
    MaxVersion,        \* bound on the embed's access version
    MaxDay,            \* bound on the UTC day
    Switchable,        \* whether operators enable and disable the embed
    MaxOutput          \* bound on the text batches one generation produces

ASSUME LimitsAssumption ==
    /\ ConcurrencyLimit \in Nat \ {0}
    /\ DailyLimit \in Nat \ {0}
    /\ MaxVersion \in Nat \ {0}
    /\ MaxDay \in Nat
    /\ Switchable \in BOOLEAN
    /\ MaxOutput \in Nat

ASSUME NoneAssumption == None \notin Attempts

VARIABLES
    embed,     \* the embed row: access version and disabled flag
    issued,    \* conversation.embed_access_version, 0 while there is no row
    revision,  \* conversation.revision
    tail,      \* conversation.latest_completed_message_id (its attempt)
    row,       \* what an accepted attempt and its user message fix for good
    status,    \* generation_attempt.status, "free" while the id is unused
    live,      \* generation_attempt.lease_expires_at > now()
    cancel,    \* generation_attempt.cancellation_requested_at is set
    invoked,   \* generation_attempt.provider_invoked
    final,     \* generation_attempt.final_outcome, "null" when unset
    staged,    \* generation_attempt.usage_*_tokens, NoTokens when null
    recorded,  \* generation_attempt.usage_recorded_at is set
    reply,     \* outcome of the assistant message
    stored,    \* length of the assistant message's text
    usage,     \* usage_record of the attempt, NoTokens when there is none
    counter,   \* conversation_daily_counter, 0 when there is no row
    today      \* the current UTC day

conversation == <<issued, revision, tail>>
storeVars == <<embed, conversation, row, status, live, cancel, invoked, final, staged,
               recorded, reply, stored, usage, counter, today>>

Active     == {"accepted", "running"}
RunOutcome == {"completed", "failed", "cancelled", "blocked"}
Terminal   == RunOutcome \cup {"interrupted"}
Versions   == 1..MaxVersion
Days       == 0..MaxDay
NoTokens   == -1
Tokens     == Nat
Row        == [conv : Conversations, req : Requests, text : Texts,
               net : Networks, day : Days]

StoreTypeOK ==
    /\ embed \in [version : Versions, disabled : BOOLEAN]
    /\ issued \in [Conversations -> Versions \cup {0}]
    /\ revision \in [Conversations -> Nat]
    /\ tail \in [Conversations -> Attempts \cup {None}]
    /\ status \in [Attempts -> Active \cup Terminal \cup {"free"}]
    /\ row \in [Attempts -> Row \cup {None}]
    /\ live \in [Attempts -> BOOLEAN]
    /\ cancel \in [Attempts -> BOOLEAN]
    /\ invoked \in [Attempts -> BOOLEAN]
    /\ final \in [Attempts -> Terminal \cup {"null"}]
    /\ staged \in [Attempts -> Tokens \cup {NoTokens}]
    /\ recorded \in [Attempts -> BOOLEAN]
    /\ reply \in [Attempts -> Terminal \cup {"null", "streaming"}]
    /\ stored \in [Attempts -> Nat]
    /\ usage \in [Attempts -> Tokens \cup {NoTokens}]
    /\ counter \in [Networks -> [Days -> Nat]]
    /\ today \in Days

StoreInit ==
    /\ embed = [version |-> 1, disabled |-> FALSE]
    /\ issued = [c \in Conversations |-> 0]
    /\ revision = [c \in Conversations |-> 0]
    /\ tail = [c \in Conversations |-> None]
    /\ row = [a \in Attempts |-> None]
    /\ status = [a \in Attempts |-> "free"]
    /\ live = [a \in Attempts |-> FALSE]
    /\ cancel = [a \in Attempts |-> FALSE]
    /\ invoked = [a \in Attempts |-> FALSE]
    /\ final = [a \in Attempts |-> "null"]
    /\ staged = [a \in Attempts |-> NoTokens]
    /\ recorded = [a \in Attempts |-> FALSE]
    /\ reply = [a \in Attempts |-> "null"]
    /\ stored = [a \in Attempts |-> 0]
    /\ usage = [a \in Attempts |-> NoTokens]
    /\ counter = [n \in Networks |-> [d \in Days |-> 0]]
    /\ today = 0

-----------------------------------------------------------------------------
(* What a statement's WHERE clause reads.                                  *)

Accepted      == {a \in Attempts : status[a] # "free"}
TurnsOf(c)    == {a \in Accepted : row[a].conv = c}
CallsFrom(n)  == {a \in Accepted : row[a].net = n}
ActiveTurns   == {a \in Accepted : status[a] \in Active}
Unexpired     == {a \in ActiveTurns : live[a]}
Expired       == ActiveTurns \ Unexpired
CompletedTurns(c) == {a \in TurnsOf(c) : reply[a] = "completed"}
Owns(a)       == a \in Unexpired      \* leaseOwned: the token never changes

\* Mutation: the status and the lease are not fenced on.
OwnsRunning_Unfenced(a) == a \in Accepted

OwnsRunning(a) == Owns(a) /\ status[a] = "running"

\* Mutation: attempts that have not ended are listed too.
Pending_Unfinished(a) == invoked[a] /\ ~recorded[a]

Pending(a)    == invoked[a] /\ final[a] # "null" /\ ~recorded[a]

-----------------------------------------------------------------------------
(* Lease expiry.  Attempts past their deadline become "interrupted", with a *)
(* final outcome only if the provider had been invoked.                     *)

\* Mutation: the final outcome is left unset.
Interrupt_NoOutcome(S) ==
    /\ status' = [a \in Attempts |-> IF a \in S THEN "interrupted" ELSE status[a]]
    /\ reply' = [a \in Attempts |-> IF a \in S THEN "interrupted" ELSE reply[a]]
    /\ UNCHANGED final

Interrupt(S) ==
    /\ status' = [a \in Attempts |-> IF a \in S THEN "interrupted" ELSE status[a]]
    /\ reply' = [a \in Attempts |-> IF a \in S THEN "interrupted" ELSE reply[a]]
    /\ final' = [a \in Attempts |->
                   IF a \in S /\ invoked[a] THEN "interrupted" ELSE final[a]]

\* Mutation: only running attempts are recovered.
RecoverExpiredAttempts_RunningOnly ==
    /\ Interrupt({a \in Expired : status[a] = "running"})
    /\ UNCHANGED <<embed, conversation, row, live, cancel, invoked, staged, recorded,
                   stored, usage, counter, today>>

RecoverExpiredAttempts ==
    /\ Interrupt(Expired)
    /\ UNCHANGED <<embed, conversation, row, live, cancel, invoked, staged, recorded,
                   stored, usage, counter, today>>

Lapse(a) ==
    /\ a \in Unexpired
    /\ live' = [live EXCEPT ![a] = FALSE]
    /\ UNCHANGED <<embed, conversation, row, status, cancel, invoked, final, staged,
                   recorded, reply, stored, usage, counter, today>>

-----------------------------------------------------------------------------
(* acceptGenerationAttempt: one transaction under the conversation's and   *)
(* the network's advisory lock and the embed's row lock.  m is the request: *)
(* its conversation, id, text, network, the access version it was           *)
(* authenticated under and the history state it was prepared from.          *)

\* Mutation: the access version read by the request is trusted.
Admissible_Stale(m) ==
    /\ ~embed.disabled
    /\ issued[m.conv] \in {0, m.version}

Admissible(m) ==
    /\ embed.version = m.version
    /\ ~embed.disabled
    /\ issued[m.conv] \in {0, m.version}

\* Mutation: expired attempts are left for getSession to interrupt.
ExpiredAround_None(m) == {}

ExpiredAround(m) == Expired \cap (TurnsOf(m.conv) \cup CallsFrom(m.net))

\* Mutation: only attempts still in progress count as duplicates.
Answering_Active(m) == {a \in TurnsOf(m.conv) : row[a].req = m.req /\ status[a] \in Active}

Answering(m)     == {a \in TurnsOf(m.conv) : row[a].req = m.req}

\* Mutation: the history state is not compared.
FreshHistory_Any(m) == TRUE

FreshHistory(m)  == revision[m.conv] = m.rev /\ tail[m.conv] = m.tail
Vacant(m)        == TurnsOf(m.conv) \cap Unexpired = {}

\* Mutation: off by one.
UnderCap_OffByOne(m) == Cardinality(CallsFrom(m.net) \cap Unexpired) <= ConcurrencyLimit

UnderCap(m)      == Cardinality(CallsFrom(m.net) \cap Unexpired) < ConcurrencyLimit

\* Mutation: off by one.
UnderAllowance_OffByOne(m) == counter[m.net][today] <= DailyLimit

UnderAllowance(m) == counter[m.net][today] < DailyLimit

AcceptRow(m, a) ==
    /\ status[a] = "free"
    /\ row' = [row EXCEPT ![a] = [conv |-> m.conv, req |-> m.req, text |-> m.text,
                                  net |-> m.net, day |-> today]]
    /\ status' = [b \in Attempts |-> IF b = a THEN "accepted"
                                     ELSE IF b \in ExpiredAround(m) THEN "interrupted"
                                     ELSE status[b]]
    /\ reply' = [b \in Attempts |-> IF b = a THEN "streaming"
                                    ELSE IF b \in ExpiredAround(m) THEN "interrupted"
                                    ELSE reply[b]]
    /\ final' = [b \in Attempts |->
                   IF b \in ExpiredAround(m) /\ invoked[b] THEN "interrupted"
                   ELSE final[b]]
    /\ live' = [live EXCEPT ![a] = TRUE]
    /\ issued' = [issued EXCEPT ![m.conv] = m.version]
    /\ counter' = [counter EXCEPT ![m.net][today] = @ + 1]
    /\ UNCHANGED <<embed, revision, tail, cancel, invoked, staged, recorded, stored,
                   usage, today>>

AcceptDuplicateRow(m) ==
    /\ Interrupt(ExpiredAround(m))
    /\ UNCHANGED <<embed, conversation, row, live, cancel, invoked, staged, recorded,
                   stored, usage, counter, today>>

-----------------------------------------------------------------------------
(* Statements a running generation issues under its lease.                 *)

MarkRunningRow(a) ==
    /\ Owns(a) /\ status[a] = "accepted"
    /\ status' = [status EXCEPT ![a] = "running"]
    /\ UNCHANGED <<embed, conversation, row, live, cancel, invoked, final, staged,
                   recorded, reply, stored, usage, counter, today>>

MarkInvoked(a) ==
    /\ OwnsRunning(a)
    /\ invoked' = [invoked EXCEPT ![a] = TRUE]
    /\ UNCHANGED <<embed, conversation, row, status, live, cancel, final, staged,
                   recorded, reply, stored, usage, counter, today>>

\* The fence of this statement, OwnsRunning, is a subquery on another table
\* than the one updated: under READ COMMITTED it is read from the statement's
\* snapshot and not again when the row's lock is granted, so it is a step of
\* the caller's before this one.
AppendOutput(a, k) ==
    /\ stored' = [stored EXCEPT ![a] = @ + k]
    /\ UNCHANGED <<embed, conversation, row, status, live, cancel, invoked, final,
                   staged, recorded, reply, usage, counter, today>>

\* Mutation: every finalization advances the conversation.
StageFinalization_AlwaysAdvances(a, outcome, tokens) ==
    LET c == row[a].conv IN
    /\ OwnsRunning(a)
    /\ status' = [status EXCEPT ![a] = outcome]
    /\ final' = [final EXCEPT ![a] = outcome]
    /\ staged' = [staged EXCEPT ![a] = tokens]
    /\ reply' = [reply EXCEPT ![a] = outcome]
    /\ revision' = [revision EXCEPT ![c] = @ + 1]
    /\ tail' = [tail EXCEPT ![c] = a]
    /\ UNCHANGED <<embed, issued, row, live, cancel, invoked, recorded, stored, usage,
                   counter, today>>

StageFinalization(a, outcome, tokens) ==
    LET c == row[a].conv IN
    /\ OwnsRunning(a)
    /\ status' = [status EXCEPT ![a] = outcome]
    /\ final' = [final EXCEPT ![a] = outcome]
    /\ staged' = [staged EXCEPT ![a] = tokens]
    /\ reply' = [reply EXCEPT ![a] = outcome]
    /\ IF outcome = "completed"
       THEN /\ revision' = [revision EXCEPT ![c] = @ + 1]
            /\ tail' = [tail EXCEPT ![c] = a]
       ELSE UNCHANGED <<revision, tail>>
    /\ UNCHANGED <<embed, issued, row, live, cancel, invoked, recorded, stored, usage,
                   counter, today>>

-----------------------------------------------------------------------------
(* Cancellation, usage recording and the administrative statements.        *)

RequestCancellation(S) ==
    /\ cancel' = [a \in Attempts |-> cancel[a] \/ a \in S]
    /\ UNCHANGED <<embed, conversation, row, status, live, invoked, final, staged,
                   recorded, reply, stored, usage, counter, today>>

StageRecoveredCandidate(a, tokens) ==
    /\ staged' = IF Pending(a) /\ staged[a] = NoTokens
                 THEN [staged EXCEPT ![a] = tokens] ELSE staged
    /\ UNCHANGED <<embed, conversation, row, status, live, cancel, invoked, final,
                   recorded, reply, stored, usage, counter, today>>

InsertUsage(a, tokens) ==
    /\ usage[a] \in {NoTokens, tokens}
    /\ usage' = [usage EXCEPT ![a] = tokens]
    /\ UNCHANGED <<embed, conversation, row, status, live, cancel, invoked, final,
                   staged, recorded, reply, stored, counter, today>>

MarkUsageRecorded(a, tokens) ==
    /\ recorded' = IF final[a] # "null" /\ staged[a] = tokens
                   THEN [recorded EXCEPT ![a] = TRUE] ELSE recorded
    /\ UNCHANGED <<embed, conversation, row, status, live, cancel, invoked, final,
                   staged, reply, stored, usage, counter, today>>

PruneDailyCounters ==
    /\ counter' = [n \in Networks |->
                     [d \in Days |-> IF d < today THEN 0 ELSE counter[n][d]]]
    /\ UNCHANGED <<embed, conversation, row, status, live, cancel, invoked, final,
                   staged, recorded, reply, stored, usage, today>>

(* rotateEmbedToken, and updateEmbed when it moves the embed to an agent.  *)
RevokeSessions ==
    /\ embed.version < MaxVersion
    /\ embed' = [embed EXCEPT !.version = @ + 1]
    /\ UNCHANGED <<conversation, row, status, live, cancel, invoked, final, staged,
                   recorded, reply, stored, usage, counter, today>>

SetDisabled ==
    /\ Switchable
    /\ embed' = [embed EXCEPT !.disabled = ~@]
    /\ UNCHANGED <<conversation, row, status, live, cancel, invoked, final, staged,
                   recorded, reply, stored, usage, counter, today>>

NextDay ==
    /\ today < MaxDay
    /\ today' = today + 1
    /\ UNCHANGED <<embed, conversation, row, status, live, cancel, invoked, final,
                   staged, recorded, reply, stored, usage, counter>>
=============================================================================
