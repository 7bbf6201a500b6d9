--------------------------- MODULE Conversation ---------------------------
(***************************************************************************)
(* The conversation service (conversation.service.ts) and its poller        *)
(* (conversation.poller.ts) over ConversationStore.                        *)
(*                                                                         *)
(* Three kinds of process share the tables: senders (one HTTP request       *)
(* between reading the embed and being accepted), runners (the in-memory   *)
(* execution of one accepted attempt, on some instance) and recording jobs *)
(* (recordPendingUsage of one attempt, by its own runner -- Finalizer -- or *)
(* by a recoverUsage pass).  Every await of the code that lets another      *)
(* process change the rows it depends on is a boundary between two actions. *)
(***************************************************************************)
EXTENDS ConversationStore

CONSTANTS
    Senders,     \* concurrent requests being admitted
    Recoverers,  \* concurrent recoverUsage passes (one per instance at a time)
    Finalizer,   \* names the recording job a runner does for itself
    MaxTries     \* MAX_HISTORY_ACCEPT_ATTEMPTS

ASSUME ProcessAssumption == MaxTries \in Nat \ {0} /\ Finalizer \notin Recoverers

VARIABLES
    phase,    \* how far each sender is with its request
    request,  \* the request it is admitting, and what it has read for it
    answers,  \* every "accepted" event emitted, with the outcome a duplicate gets
    runner,   \* local state of the execution of each attempt
    prompt,   \* the turns whose messages are in the attempt's prompt
    told,     \* the terminal or error event the attempt's stream carried
    job       \* recording jobs in flight

procVars == <<phase, request, answers, runner, prompt, told, job>>
vars == <<storeVars, procVars>>

Workers == Recoverers \cup {Finalizer}

SenderPhase == {"idle", "embed", "revision", "messages", "ready"}
RunnerPhase == {"none", "start", "marked", "prepare", "invoke", "drain",
                "finalize", "record", "gone"}
Registered  == {"prepare", "invoke", "drain"}

Request == [conv : Conversations, req : Requests, text : Texts, net : Networks,
            version : Versions, known : BOOLEAN, rev : Nat,
            tail : Attempts \cup {None}, hist : SUBSET Attempts, tries : Nat]
Runner == [pc : RunnerPhase, aborted : BOOLEAN, outcome : RunOutcome,
           outputFailed : BOOLEAN, produced : 0..MaxOutput, buffered : Nat,
           write : Nat, seen : BOOLEAN]
Job    == [step : {"none", "stage", "insert", "mark"},
           tokens : Tokens \cup {NoTokens}]
Answer == [conv : Conversations, req : Requests, text : Texts, attempt : Attempts,
           outcome : Terminal \cup {"null"}]

RunAt(p) == [pc |-> p, aborted |-> FALSE, outcome |-> "failed",
             outputFailed |-> FALSE, produced |-> 0, buffered |-> 0,
             write |-> 0, seen |-> FALSE]
NoRun == RunAt("none")
NoJob == [step |-> "none", tokens |-> NoTokens]

TypeOK ==
    /\ StoreTypeOK
    /\ phase \in [Senders -> SenderPhase]
    /\ request \in [Senders -> Request \cup {None}]
    /\ \A s \in Senders : phase[s] # "idle" => request[s] \in Request
    /\ answers \subseteq Answer
    /\ runner \in [Attempts -> Runner]
    /\ prompt \in [Attempts -> SUBSET Attempts]
    /\ told \in [Attempts -> RunOutcome \cup {"null"}]
    /\ job \in [Workers -> [Attempts -> Job]]

Init ==
    /\ StoreInit
    /\ phase = [s \in Senders |-> "idle"]
    /\ request = [s \in Senders |-> None]
    /\ answers = {}
    /\ runner = [a \in Attempts |-> NoRun]
    /\ prompt = [a \in Attempts |-> {}]
    /\ told = [a \in Attempts |-> "null"]
    /\ job = [w \in Workers |-> [a \in Attempts |-> NoJob]]

-----------------------------------------------------------------------------
(* send: from the request to its acceptance.                               *)

Admission == <<answers, runner, prompt, told, job>>

\* getEmbedByToken, and the disabled check on what it returned.
SendBegin(s) ==
    /\ phase[s] = "idle"
    /\ ~embed.disabled
    /\ phase' = [phase EXCEPT ![s] = "embed"]
    /\ \E c \in Conversations, q \in Requests, t \in Texts, n \in Networks :
         request' = [request EXCEPT ![s] =
           [conv |-> c, req |-> q, text |-> t, net |-> n, version |-> embed.version,
            known |-> FALSE, rev |-> 0, tail |-> None, hist |-> {}, tries |-> 0]]
    /\ UNCHANGED <<storeVars, Admission>>

Forget(s) ==            \* send() answers the request and returns
    /\ phase' = [phase EXCEPT ![s] = "idle"]
    /\ request' = [request EXCEPT ![s] = None]

\* findConversationById joins the embed on the access version the session
\* was issued under; a session of another version than the token's is refused.
SendLookup(s) ==
    LET m == request[s]
        found == issued[m.conv] = embed.version
    IN
    /\ phase[s] = "embed"
    /\ \/ /\ found /\ issued[m.conv] # m.version
          /\ Forget(s)
       \/ /\ found /\ issued[m.conv] = m.version
          /\ phase' = [phase EXCEPT ![s] = "revision"]
          /\ request' = [request EXCEPT ![s].known = TRUE]
       \/ /\ ~found
          /\ phase' = [phase EXCEPT ![s] = "ready"]
          /\ UNCHANGED request
    /\ UNCHANGED <<storeVars, Admission>>

\* getHistorySnapshot is two statements of a READ COMMITTED transaction.
ReadRevision(s) ==
    LET c == request[s].conv IN
    /\ phase[s] = "revision"
    /\ phase' = [phase EXCEPT ![s] = "messages"]
    /\ request' = [request EXCEPT ![s].rev = revision[c], ![s].tail = tail[c]]
    /\ UNCHANGED <<storeVars, Admission>>

ReadMessages(s) ==
    /\ phase[s] = "messages"
    /\ phase' = [phase EXCEPT ![s] = "ready"]
    /\ request' = [request EXCEPT ![s].hist = CompletedTurns(request[s].conv)]
    /\ UNCHANGED <<storeVars, Admission>>

\* The prompt is too long, no provider is configured, or the database fails.
SendFails(s) ==
    /\ phase[s] # "idle"
    /\ Forget(s)
    /\ UNCHANGED <<storeVars, Admission>>

AnswerWith(m, a, outcome) == answers' = answers \cup
    {[conv |-> m.conv, req |-> m.req, text |-> m.text, attempt |-> a,
      outcome |-> outcome]}

\* Every check passed: the attempt is inserted and run() is started on it.
AcceptNew(s) ==
    LET m == request[s] IN
    /\ phase[s] = "ready"
    /\ Admissible(m) /\ Answering(m) = {} /\ FreshHistory(m)
    /\ Vacant(m) /\ UnderCap(m) /\ UnderAllowance(m)
    /\ \E a \in Attempts :
         /\ AcceptRow(m, a)
         /\ runner' = [runner EXCEPT ![a] = RunAt("start")]
         /\ prompt' = [prompt EXCEPT ![a] = m.hist]
         /\ AnswerWith(m, a, "null")
    /\ Forget(s)
    /\ UNCHANGED <<told, job>>

\* The request was accepted before: it is answered again, never run again,
\* with its outcome if it has ended (or is found expired just now).
AcceptDuplicate(s) ==
    LET m == request[s]
        Outcome(a) == IF a \in ExpiredAround(m) THEN "interrupted"
                      ELSE IF status[a] \in Active THEN "null" ELSE status[a]
    IN
    /\ phase[s] = "ready"
    /\ Admissible(m)
    /\ \E a \in Answering(m) : row[a].text = m.text /\ AnswerWith(m, a, Outcome(a))
    /\ AcceptDuplicateRow(m)
    /\ Forget(s)
    /\ UNCHANGED <<runner, prompt, told, job>>

\* StaleHistoryRepositoryError: take a new snapshot, MaxTries times in all.
\* The session looked up first is kept, so an unknown one stays unknown.
AcceptStale(s) ==
    LET m == request[s] IN
    /\ phase[s] = "ready"
    /\ Admissible(m) /\ Answering(m) = {} /\ ~FreshHistory(m)
    /\ \/ /\ m.tries + 1 < MaxTries
          /\ phase' = [phase EXCEPT ![s] = IF m.known THEN "revision" ELSE "ready"]
          /\ request' = [request EXCEPT ![s].tries = @ + 1]
       \/ /\ m.tries + 1 >= MaxTries
          /\ Forget(s)
    /\ UNCHANGED <<storeVars, Admission>>

\* Unauthorized, disabled, request conflict, busy, concurrency, allowance:
\* the transaction rolls back.
AcceptRefused(s) ==
    LET m == request[s] IN
    /\ phase[s] = "ready"
    /\ \/ ~Admissible(m)
       \/ \E a \in Answering(m) : row[a].text # m.text
       \/ /\ Answering(m) = {} /\ FreshHistory(m)
          /\ ~(Vacant(m) /\ UnderCap(m) /\ UnderAllowance(m))
    /\ Forget(s)
    /\ UNCHANGED <<storeVars, Admission>>

Send(s) ==
    \/ SendBegin(s) \/ SendLookup(s) \/ ReadRevision(s) \/ ReadMessages(s)
    \/ SendFails(s) \/ AcceptNew(s) \/ AcceptDuplicate(s) \/ AcceptStale(s)
    \/ AcceptRefused(s)

-----------------------------------------------------------------------------
(* run: one generation, from markRunning to the event that ends its stream. *)

Running == <<phase, request, answers, prompt, job>>

\* run() returns or rejects, having emitted event; a write goes on.
Leave(a, event) ==
    /\ runner' = [runner EXCEPT ![a] = [RunAt("gone") EXCEPT
                   !.write = runner[a].write, !.seen = runner[a].seen]]
    /\ told' = [told EXCEPT ![a] = event]

Step(a, to) ==          \* run() moves on to phase `to' with no event
    /\ runner' = [runner EXCEPT ![a].pc = to]
    /\ UNCHANGED told

AbortedOr(a, outcome) == IF runner[a].aborted THEN "cancelled" ELSE outcome

Drain(a, outcome) ==    \* leave the try block with this outcome
    /\ runner' = [runner EXCEPT ![a].pc = "drain", ![a].outcome = outcome]
    /\ UNCHANGED told

MarkRunning(a) ==
    /\ runner[a].pc = "start"
    /\ \/ MarkRunningRow(a) /\ Step(a, "marked")
       \/ /\ ~(Owns(a) /\ status[a] = "accepted")
          /\ Leave(a, "null")
          /\ UNCHANGED storeVars
    /\ UNCHANGED Running

Register(a) ==
    /\ runner[a].pc = "marked"
    /\ Step(a, "prepare")
    /\ UNCHANGED <<storeVars, Running>>

\* Retrieval, the second prepare and the tool connections end in an error,
\* or in throwIfAborted.
PrepareFails(a) ==
    /\ runner[a].pc = "prepare"
    /\ Drain(a, AbortedOr(a, "failed"))
    /\ UNCHANGED <<storeVars, Running>>

\* setAttribution(..., markInvoked): done, lease lost, or done with its
\* reply lost.
Attribute(a) ==
    /\ runner[a].pc = "prepare"
    /\ ~runner[a].aborted
    /\ \/ MarkInvoked(a) /\ Step(a, "invoke")
       \/ MarkInvoked(a) /\ Drain(a, "failed")
       \/ ~OwnsRunning(a) /\ Leave(a, "null") /\ UNCHANGED storeVars
    /\ UNCHANGED Running

ProviderText(a) ==
    /\ runner[a].pc = "invoke"
    /\ runner[a].produced < MaxOutput
    /\ runner' = [runner EXCEPT ![a].produced = @ + 1,
                                ![a].buffered = IF runner[a].outputFailed
                                                THEN @ ELSE @ + 1]
    /\ UNCHANGED <<storeVars, told, Running>>

\* The text completes a blacklisted term; it is counted but never queued.
ProviderBlocked(a) ==
    /\ runner[a].pc = "invoke"
    /\ runner[a].produced < MaxOutput
    /\ runner' = [runner EXCEPT ![a].produced = @ + 1, ![a].aborted = TRUE,
                                ![a].outcome = "blocked", ![a].pc = "drain"]
    /\ UNCHANGED <<storeVars, told, Running>>

ProviderEnds(a) ==
    /\ runner[a].pc = "invoke"
    /\ Drain(a, AbortedOr(a, "completed"))
    /\ UNCHANGED <<storeVars, Running>>

\* The stream throws, times out or stops without a finish event.
ProviderFails(a) ==
    /\ runner[a].pc = "invoke"
    /\ Drain(a, AbortedOr(a, "failed"))
    /\ UNCHANGED <<storeVars, Running>>

\* Mutation: a batch is cut off past the end of the buffer.
Flush_OffByOne(a) ==
    /\ runner[a].pc = "invoke"
    /\ ~runner[a].outputFailed /\ runner[a].write = 0
    /\ \E k \in 1..runner[a].buffered + 1 :
         runner' = [runner EXCEPT ![a].buffered = @ - k, ![a].write = k]
    /\ UNCHANGED <<storeVars, told, Running>>

\* flushOutput: a timer or a full batch takes text from the buffer; the
\* blacklist filter may hold back a tail of it.  One write is in flight.
Flush(a) ==
    /\ runner[a].pc = "invoke"
    /\ ~runner[a].outputFailed /\ runner[a].write = 0
    /\ \E k \in 1..runner[a].buffered :
         runner' = [runner EXCEPT ![a].buffered = @ - k, ![a].write = k]
    /\ UNCHANGED <<storeVars, told, Running>>

\* The statement's snapshot: its fence finds the attempt running.
FlushReads(a) ==
    /\ runner[a].write > 0 /\ ~runner[a].seen
    /\ OwnsRunning(a)
    /\ runner' = [runner EXCEPT ![a].seen = TRUE]
    /\ UNCHANGED <<storeVars, told, Running>>

\* The text is appended.  If the timer's callback waits for a slow write along
\* with the last flush of run(), it takes what is left, and run() goes on
\* while that is still being written (OutputBuffer has the details).
FlushLands(a) ==
    LET r == runner[a] IN
    /\ r.write > 0 /\ r.seen
    /\ AppendOutput(a, r.write)
    /\ \/ runner' = [runner EXCEPT ![a].write = 0, ![a].seen = FALSE]
       \/ /\ r.pc = "drain" /\ r.buffered > 0
          /\ runner' = [runner EXCEPT ![a].write = r.buffered, ![a].seen = FALSE,
                                      ![a].buffered = 0, ![a].pc = "finalize"]
    /\ UNCHANGED <<told, Running>>

\* The append is refused, or throws with or without having been done.  A
\* refusal and an error in the timer's callback stop the output; an error that
\* run() awaits is caught, or rejects run() if the finally block was flushing.
FlushFails(a) ==
    LET r == runner[a]
        Stopped(outcome) == [runner EXCEPT ![a].write = 0, ![a].seen = FALSE,
            ![a].outputFailed = TRUE, ![a].aborted = TRUE, ![a].outcome = outcome]
    IN
    /\ r.write > 0
    /\ UNCHANGED storeVars \/ (r.seen /\ AppendOutput(a, r.write))
    /\ \/ /\ r.pc \in {"invoke", "drain"}
          /\ runner' = Stopped(r.outcome)
          /\ UNCHANGED told
       \/ /\ r.pc = "finalize"
          /\ runner' = Stopped(IF r.outcome = "blocked" THEN "blocked" ELSE "failed")
          /\ UNCHANGED told
       \/ /\ r.pc = "invoke"
          /\ runner' = [runner EXCEPT ![a].write = 0, ![a].seen = FALSE,
                          ![a].pc = "drain", ![a].outcome = AbortedOr(a, "failed")]
          /\ UNCHANGED told
       \/ /\ r.pc = "drain"
          /\ runner' = [runner EXCEPT ![a] = RunAt("gone")]
          /\ UNCHANGED told
    /\ UNCHANGED Running

\* The finally block: the rest of the output is flushed, less what the filter
\* withholds from a blocked answer ...
DrainFlush(a) ==
    LET r == runner[a] IN
    /\ r.pc = "drain"
    /\ ~r.outputFailed /\ r.write = 0
    /\ \E k \in 1..r.buffered :
         /\ k < r.buffered => r.outcome = "blocked"
         /\ runner' = [runner EXCEPT ![a].buffered = 0, ![a].write = k]
    /\ UNCHANGED <<storeVars, told, Running>>

\* Mutation: what is still buffered is never flushed.
DrainDone_NoFlush(a) ==
    /\ runner[a].pc = "drain" /\ runner[a].write = 0
    /\ runner' = [runner EXCEPT ![a].pc = "finalize", ![a].buffered = 0]
    /\ UNCHANGED <<storeVars, told, Running>>

\* ... and the poller is left.
DrainDone(a) ==
    LET r == runner[a] IN
    /\ r.pc = "drain" /\ r.write = 0
    /\ r.buffered = 0 \/ r.outputFailed \/ r.outcome = "blocked"
    /\ runner' = [runner EXCEPT ![a].pc = "finalize", ![a].buffered = 0,
         ![a].outcome = IF r.outputFailed /\ @ # "blocked" THEN "failed" ELSE @]
    /\ UNCHANGED <<storeVars, told, Running>>

\* stageFinalization: done, lease lost, failed, or done with its reply lost.
Finalize(a) ==
    LET Stage == StageFinalization(a, runner[a].outcome, runner[a].produced) IN
    /\ runner[a].pc = "finalize"
    /\ \/ Stage /\ Step(a, "record")
       \/ Stage /\ Leave(a, "failed")
       \/ ~OwnsRunning(a) /\ Leave(a, "null") /\ UNCHANGED storeVars
       \/ Leave(a, "failed") /\ UNCHANGED storeVars
    /\ UNCHANGED Running

\* Mutation: the terminal event is emitted before the usage is recorded.
RecordOwnUsage_TellFirst(a) ==
    /\ runner[a].pc = "record"
    /\ Leave(a, runner[a].outcome)
    /\ UNCHANGED <<storeVars, Running>>

\* listPendingUsageFinalizations(1, id): nothing is pending if the provider
\* was never invoked or another pass has recorded it already; the query may fail.
RecordOwnUsage(a) ==
    /\ runner[a].pc = "record"
    /\ job[Finalizer][a].step = "none"
    /\ \/ /\ Pending(a)
          /\ job' = [job EXCEPT ![Finalizer][a] =
                       [step |-> "insert", tokens |-> staged[a]]]
          /\ UNCHANGED <<runner, told>>
       \/ /\ ~Pending(a)
          /\ Leave(a, runner[a].outcome)
          /\ UNCHANGED job
       \/ /\ Leave(a, "failed")
          /\ UNCHANGED job
    /\ UNCHANGED <<storeVars, phase, request, answers, prompt>>

\* The instance dies, taking the execution and its recording job with it.
RunnerDies(a) ==
    /\ runner[a].pc \notin {"none", "gone"}
    /\ Leave(a, "null")
    /\ job' = [job EXCEPT ![Finalizer][a] = NoJob]
    /\ UNCHANGED <<storeVars, phase, request, answers, prompt>>

Run(a) ==
    \/ MarkRunning(a) \/ Register(a) \/ PrepareFails(a) \/ Attribute(a)
    \/ ProviderText(a) \/ ProviderBlocked(a) \/ ProviderEnds(a) \/ ProviderFails(a)
    \/ Flush(a) \/ FlushReads(a) \/ FlushLands(a) \/ FlushFails(a)
    \/ DrainFlush(a) \/ DrainDone(a) \/ Finalize(a)
    \/ RecordOwnUsage(a) \/ RunnerDies(a)

-----------------------------------------------------------------------------
(* The poller and cancellation.                                            *)

\* Mutation: only attempts missing from the answer are aborted.
Poll_IgnoresCancel(a) ==
    /\ runner[a].pc \in Registered
    /\ ~runner[a].aborted
    /\ ~OwnsRunning(a)
    /\ runner' = [runner EXCEPT ![a].aborted = TRUE]
    /\ UNCHANGED <<storeVars, told, Running>>

\* poll: a registered attempt whose row says cancelled, or that no longer is
\* a running row under a live lease, is aborted.  Both conditions are stable,
\* so reading them and acting on them is one step.
Poll(a) ==
    /\ runner[a].pc \in Registered
    /\ ~runner[a].aborted
    /\ cancel[a] \/ ~OwnsRunning(a)
    /\ runner' = [runner EXCEPT ![a].aborted = TRUE]
    /\ UNCHANGED <<storeVars, told, Running>>

\* cancel: mark the unexpired attempts of the session, or just the one named;
\* the ones that run on this same instance are aborted at once.
Cancel(c) ==
    /\ issued[c] = embed.version
    /\ \E S \in {TurnsOf(c) \cap Unexpired} \cup
                {{a} : a \in TurnsOf(c) \cap Unexpired} :
         /\ S # {}
         /\ RequestCancellation(S)
         /\ \E local \in SUBSET {a \in S : runner[a].pc \in Registered} :
              runner' = [a \in Attempts |->
                IF a \in local THEN [runner[a] EXCEPT !.aborted = TRUE] ELSE runner[a]]
    /\ UNCHANGED <<told, Running>>

-----------------------------------------------------------------------------
(* recoverUsage and recordPendingUsage.                                    *)

Recording == <<phase, request, answers, prompt>>

RecoverUsage(w) ==
    /\ \A a \in Attempts : job[w][a].step = "none"
    /\ PruneDailyCounters
    /\ job' = [job EXCEPT ![w] = [a \in Attempts |->
                 IF ~Pending(a) THEN NoJob
                 ELSE IF staged[a] = NoTokens
                      THEN [step |-> "stage", tokens |-> stored[a]]
                      ELSE [step |-> "insert", tokens |-> staged[a]]]]
    /\ UNCHANGED <<runner, told, Recording>>

StageCandidate(w, a) ==
    /\ job[w][a].step = "stage"
    /\ StageRecoveredCandidate(a, job[w][a].tokens)
    /\ job' = [job EXCEPT ![w][a].step = "insert"]
    /\ UNCHANGED <<runner, told, Recording>>

RecordUsage(w, a) ==
    /\ job[w][a].step = "insert"
    /\ InsertUsage(a, job[w][a].tokens)
    /\ job' = [job EXCEPT ![w][a].step = "mark"]
    /\ UNCHANGED <<runner, told, Recording>>

\* The job is done; a runner then emits its terminal (or error) event.
MarkRecorded(w, a) ==
    /\ job[w][a].step = "mark"
    /\ MarkUsageRecorded(a, job[w][a].tokens)
    /\ job' = [job EXCEPT ![w][a] = NoJob]
    /\ IF w = Finalizer THEN Leave(a, runner[a].outcome)
                        ELSE UNCHANGED <<runner, told>>
    /\ UNCHANGED Recording

\* A database failure, or recordUsage finding a different record: the runner
\* reports a failure, a recovery pass is abandoned.
JobThrows(w, a) ==
    /\ job[w][a].step # "none"
    /\ job' = [job EXCEPT ![w][a] = NoJob]
    /\ IF w = Finalizer THEN Leave(a, "failed") ELSE UNCHANGED <<runner, told>>
    /\ UNCHANGED <<storeVars, Recording>>

JobStep(w, a) ==
    StageCandidate(w, a) \/ RecordUsage(w, a) \/ MarkRecorded(w, a)

-----------------------------------------------------------------------------
(* The environment of the service: clock, leases, getSession, operators.   *)

LeaseLapses(a) == Lapse(a) /\ UNCHANGED procVars

RecoverExpired ==
    /\ Expired # {}
    /\ RecoverExpiredAttempts
    /\ UNCHANGED procVars

Administer == (RevokeSessions \/ SetDisabled) /\ UNCHANGED procVars

DayPasses == NextDay /\ UNCHANGED procVars

Next ==
    \/ \E s \in Senders : Send(s)
    \/ \E a \in Attempts : Run(a) \/ Poll(a) \/ LeaseLapses(a)
    \/ \E c \in Conversations : Cancel(c)
    \/ \E w \in Recoverers : RecoverUsage(w)
    \/ \E w \in Workers, a \in Attempts : JobStep(w, a) \/ JobThrows(w, a)
    \/ RecoverExpired
    \/ Administer
    \/ DayPasses

Spec == Init /\ [][Next]_vars

-----------------------------------------------------------------------------
(* Safety.                                                                 *)

\* A conversation has one turn in progress at a time, whichever instances
\* accept, lose or recover its turns (SessionBusyError; interruption of
\* expired attempts inside acceptGenerationAttempt).
OneActiveTurn ==
    \A a, b \in ActiveTurns : row[a].conv = row[b].conv => a = b

\* Requests of one network never generate more answers at once than the
\* concurrency limit, across its conversations.
NetworkCap ==
    \A n \in Networks : Cardinality(CallsFrom(n) \cap ActiveTurns) <= ConcurrencyLimit

\* The day's counter is exactly the number of attempts accepted that day from
\* the network -- refused, repeated and stale requests consume nothing -- and
\* it never passes the allowance.
AllowanceExact ==
    \A n \in Networks :
        /\ counter[n][today] = Cardinality({a \in CallsFrom(n) : row[a].day = today})
        /\ counter[n][today] <= DailyLimit

\* A request id names one attempt and one text per conversation for ever:
\* whoever repeats it is answered with that turn, and with an outcome only
\* when it has ended, the outcome it keeps.
RequestsAreIdempotent ==
    /\ \A x, y \in answers : x.conv = y.conv /\ x.req = y.req =>
         x.attempt = y.attempt /\ x.text = y.text
    /\ \A x \in answers : x.outcome \in {"null", status[x.attempt]}
    /\ \A a, b \in Accepted :
         row[a].conv = row[b].conv /\ row[a].req = row[b].req => a = b

\* The turn in progress was prompted with exactly the completed turns of its
\* conversation, and the completed ones form a chain: each was prompted with
\* those completed before it.  No answer ever misses, or anticipates, another.
LinearHistory ==
    /\ \A a \in ActiveTurns : prompt[a] = CompletedTurns(row[a].conv)
    /\ \A c \in Conversations : \A a, b \in CompletedTurns(c) :
         a # b => (a \in prompt[b]) # (b \in prompt[a])

\* The revision counts the completed turns and the tail is the last of them,
\* the one prompted with all the others.
RevisionCountsCompleted ==
    \A c \in Conversations :
        /\ revision[c] = Cardinality(CompletedTurns(c))
        /\ CompletedTurns(c) # {} =>
             /\ tail[c] \in CompletedTurns(c)
             /\ prompt[tail[c]] = CompletedTurns(c) \ {tail[c]}

\* Whatever a stream reports other than an error is what is stored, and the
\* usage of the provider call was recorded before it was reported.
SuccessIsRecorded ==
    \A a \in Attempts : told[a] \in {"completed", "cancelled", "blocked"} =>
        /\ status[a] = told[a]
        /\ invoked[a] => recorded[a] /\ usage[a] = staged[a]

\* No client is told of a completed answer before its usage is recorded
\* (docs/specs/2026-09-11-end-user-chat-design.md:151).
UsageBeforeSuccess ==
    /\ \A a \in Attempts : told[a] = "completed" => recorded[a]
    /\ \A x \in answers : x.outcome = "completed" => recorded[x.attempt]

\* Whoever records the usage of an attempt, and however often, the record is of
\* an attempt that has ended and had called the provider, and once it is marked
\* as recorded it is the staged one.  Passes of several instances may disagree
\* about the text of an interrupted answer (see UsageEventuallyRecorded), never
\* about an answer whose runner staged its usage.
UsageOnce ==
    \A a \in Attempts :
        /\ usage[a] # NoTokens =>
             /\ invoked[a] /\ final[a] # "null"
             /\ usage[a] = staged[a] \/ final[a] = "interrupted"
        /\ recorded[a] => usage[a] # NoTokens /\ usage[a] = staged[a]

\* A completed answer's text is all the provider produced, except for what a
\* flush had in flight when the answer was finalized (OutputBuffer shows how).
CompletedTextAccounted ==
    \A a \in Attempts :
        status[a] = "completed" => stored[a] + runner[a].write = staged[a]

\* What has ended stays as it ended, whatever late runner, recovery pass or
\* cancellation touches it: outcome, staged usage and usage record are final,
\* and the text only grows by a write that saw the attempt running before it
\* ended.
EndedIsFinal ==
    [][\A a \in Attempts : status[a] \in Terminal =>
          /\ status'[a] = status[a] /\ reply'[a] = reply[a] /\ final'[a] = final[a]
          /\ stored'[a] = stored[a] \/ runner[a].seen
          /\ staged[a] # NoTokens => staged'[a] = staged[a]
          /\ usage[a] # NoTokens => usage'[a] = usage[a]]_vars

\* Nothing is accepted for a session whose embed access has been revoked, or
\* through a disabled embed, however long ago the request read the embed.
RevokedAcceptsNothing ==
    [][\A a \in Attempts : status[a] = "free" /\ status'[a] # "free" =>
          ~embed.disabled /\ issued'[row'[a].conv] = embed.version]_vars

\* The component implements TurnLog: seen through the tables, each conversation
\* is a serial log of completed turns with at most one turn open on it.
OpenTurn(c) ==
    IF TurnsOf(c) \cap ActiveTurns = {} THEN None
    ELSE CHOOSE a \in TurnsOf(c) \cap ActiveTurns : TRUE

Log == INSTANCE TurnLog WITH
    Turns <- Attempts,
    log   <- [c \in Conversations |-> CompletedTurns(c)],
    open  <- [c \in Conversations |-> OpenTurn(c)],
    basis <- prompt,
    used  <- Accepted

ImplementsTurnLog == Log!LogSpec

-----------------------------------------------------------------------------
(* Liveness.  Instances may die and requests may fail; the processes that   *)
(* live keep taking steps, clients keep asking for their sessions (which    *)
(* runs recovery), and the database does not fail the same statement for ever. *)

OrphanLapses(a) == runner[a].pc \notin Registered /\ LeaseLapses(a)
RunnerProceeds(a) ==
    \/ MarkRunning(a) \/ Register(a) \/ Attribute(a) \/ FlushReads(a)
    \/ FlushLands(a) \/ FlushFails(a) \/ DrainFlush(a) \/ DrainDone(a) \/ Finalize(a) \/ RecordOwnUsage(a)
    \/ runner[a].aborted /\ (PrepareFails(a) \/ ProviderFails(a))

Fairness ==
    /\ \A a \in Attempts :
         /\ WF_vars(RunnerProceeds(a))
         /\ WF_vars(Poll(a))
         /\ WF_vars(OrphanLapses(a))
         /\ WF_vars(runner[a].pc = "gone" /\ LeaseLapses(a))
    /\ WF_vars(RecoverExpired)
    /\ \A w \in Recoverers : WF_vars(RecoverUsage(w))
    /\ \A w \in Workers, a \in Attempts :
         SF_vars(StageCandidate(w, a)) /\ SF_vars(RecordUsage(w, a))
         /\ SF_vars(MarkRecorded(w, a))

FairSpec == Spec /\ Fairness

\* The provider's own time limit ends every call.
ProviderTimesOut == \A a \in Attempts : WF_vars(ProviderFails(a))

\* No attempt occupies its conversation for ever, wherever its runner died,
\* if every provider call ends.
AttemptsEnd == ProviderTimesOut =>
    \A a \in Attempts : status[a] \in Active ~> status[a] \in Terminal

\* A cancellation ends the attempt even if the provider would never stop and
\* the request reached another instance.
CancelTakesEffect ==
    \A a \in Attempts : cancel[a] /\ status[a] \in Active ~> status[a] \in Terminal

\* Usage of a provider call is recorded whatever instance survives -- if their
\* recovery passes do not overlap: of two that read the text of an interrupted
\* answer before and after a late flush, one may stage its count and the other
\* insert its own, which no later pass can reconcile.
UsageEventuallyRecorded == ProviderTimesOut =>
    \A a \in Attempts : invoked[a] ~> recorded[a]
=============================================================================
