---------------------------- MODULE OutputBuffer ----------------------------
(***************************************************************************)
(* How one generation's text gets from the provider to the message row and *)
(* to the client: the blacklist filter (blacklist.ts) and the closures      *)
(* queueOutput and flushOutput of run() (conversation.service.ts).          *)
(*                                                                         *)
(* JavaScript runs one callback at a time, so an action is what happens     *)
(* from one event (provider text, timer, settled write) to the next await,  *)
(* on the local variables kept in the record `run'.  Two callers can be     *)
(* inside flushOutput at once: the main flow of run() and the flush timer.  *)
(* Text is stored as the provider's characters; the filter compares the     *)
(* letters these normalize to, but measures what it holds back in           *)
(* characters.                                                             *)
(***************************************************************************)
EXTENDS Integers, Sequences, FiniteSets, SequencesExt

CONSTANTS
    Chars,     \* alphabet of the provider's text
    Letters,   \* alphabet of normalized text
    Normal,    \* the letters a character decomposes into, in lower case
    Class,     \* canonical combining class of a letter, 0 of a base letter
    Terms,     \* normalized blacklist terms
    BatchSize, \* OUTPUT_BATCH_SIZE
    MaxText,   \* bound on the text the provider produces
    MaxChunk   \* bound on the text of one provider event

ASSUME OutputAssumption ==
    /\ BatchSize \in Nat \ {0} /\ MaxText \in Nat /\ MaxChunk \in Nat \ {0}
    /\ Normal \in [Chars -> Seq(Letters)] /\ Class \in [Letters -> Nat]
    /\ \A t \in Terms : t \in Seq(Letters) /\ t # <<>>
    /\ \E t \in Terms \cup {<<>>} : \A u \in Terms : Len(u) <= Len(t)

VARIABLES
    said,     \* text received from the provider
    run,      \* local variables of run()
    message,  \* text of the assistant message row
    running,  \* the row is running under the lease of this run
    status,   \* the outcome staged, "running" before
    shown,    \* text of the deltas emitted
    told      \* the event that closed the stream, "null" before

vars == <<said, run, message, running, status, shown, told>>

Outcomes == {"completed", "failed", "cancelled", "blocked"}
Callers  == {"main", "timer"}
NoFlight == [by |-> "none", batch |-> <<>>, step |-> "none"]
Flight   == [by : Callers \cup {"none"}, batch : Seq(Chars),
             step : {"none", "sent", "fenced", "applied", "refused"}]

\* at: what the main flow awaits -- the next provider event, the flush of a
\* full batch (for provider text, or for the filter's tail), the last flush,
\* the tool connections' close, the finalization, the usage record.
Suspended == {"queue", "tail", "drain"}
Run == [at : Suspended \cup {"provider", "close", "stage", "tell", "done", "rejected"},
        outcome : Outcomes, pending : Seq(Chars), rest : Seq(Chars),
        buffer : Seq(Chars), timer : {"off", "armed", "stale"}, flight : Flight,
        waiters : Seq(Callers), failed : BOOLEAN, aborted : BOOLEAN]

\* Besides the types: no write, and so no append, exceeds the batch size.
TypeOK ==
    /\ said \in Seq(Chars) /\ message \in Seq(Chars) /\ shown \in Seq(Chars)
    /\ run \in Run
    /\ Len(run.buffer) <= BatchSize /\ Len(run.flight.batch) <= BatchSize
    /\ running \in BOOLEAN
    /\ status \in Outcomes \cup {"running"}
    /\ told \in Outcomes \cup {"null"}

Init ==
    /\ said = <<>> /\ message = <<>> /\ shown = <<>>
    /\ run = [at |-> "provider", outcome |-> "failed", pending |-> <<>>,
              rest |-> <<>>, buffer |-> <<>>, timer |-> "off", flight |-> NoFlight,
              waiters |-> <<>>, failed |-> FALSE, aborted |-> FALSE]
    /\ running = TRUE
    /\ status = "running"
    /\ told = "null"

-----------------------------------------------------------------------------
(* blacklist.ts: normalization and matching.  Normalized text is what the   *)
(* characters decompose into, with the marks on one base letter in the order *)
(* of their classes.  It is described by the units it consists of: <<i, k>>   *)
(* is the k-th letter of the i-th character.                               *)

Units(text) == UNION {{i} \X (1..Len(Normal[text[i]])) : i \in 1..Len(text)}

Letter(text, u) == Normal[text[u[1]]][u[2]]

Earlier(u, v) == u[1] < v[1] \/ (u[1] = v[1] /\ u[2] < v[2])

\* A mark that is written after one of a higher class, on the same base letter,
\* comes before it in normalized text.
Swapped(text, u, v) ==
    /\ Earlier(u, v) /\ Class[Letter(text, u)] > Class[Letter(text, v)]
    /\ \A w \in Units(text) :
         ~Earlier(w, u) /\ ~Earlier(v, w) => Class[Letter(text, w)] > 0

Before(text, u, v) == \/ Earlier(u, v) /\ ~Swapped(text, u, v)
                      \/ Swapped(text, v, u)

\* The normalized text includes the term t as the stretch of the units o.
Occurs(text, t, o) ==
    /\ \A k \in 1..Len(t) : Letter(text, o[k]) = t[k]
    /\ \A j, k \in 1..Len(t) : j < k => Before(text, o[j], o[k])
    /\ \A w \in Units(text) : Before(text, o[1], w) /\ Before(text, w, o[Len(t)])
                               => \E k \in 1..Len(t) : w = o[k]

Matches(text) ==
    \E t \in Terms : \E o \in [1..Len(t) -> Units(text)] : Occurs(text, t, o)

\* Mutation: a character is held back only if it could end a term at once.
LookBack_None == 0

LookBack == LET Lengths == {Len(t) : t \in Terms} IN
    CHOOSE n \in Lengths \cup {0} : \A m \in Lengths : m <= n

-----------------------------------------------------------------------------
(* flushOutput: one write in flight; later callers wait for it.            *)

Nothing(r) == r.buffer = <<>> \/ r.failed    \* flushOutput has nothing to write

StartWrite(r, who) == [r EXCEPT
    !.timer = "off", !.buffer = <<>>,
    !.flight = [by |-> who, batch |-> r.buffer, step |-> "sent"]]

\* Mutation: the buffer is not checked against a write already in flight.
Suspend_NoWait(r, who) == StartWrite(r, who)

Suspend(r, who) == IF r.flight # NoFlight THEN [r EXCEPT !.waiters = Append(@, who)]
                                          ELSE StartWrite(r, who)

FinalFlush(r) ==
    IF r.flight = NoFlight /\ Nothing(r)
    THEN [r EXCEPT !.at = "close", !.timer = "off"]
    ELSE Suspend([r EXCEPT !.at = "drain"], "main")

-----------------------------------------------------------------------------
(* queueOutput: fill the buffer up to a batch; a full one is flushed and    *)
(* awaited, a partial one is left to the timer.                            *)

Queued(r) ==
    LET armed == [r EXCEPT !.timer =
                    IF r.buffer # <<>> /\ @ = "off" THEN "armed" ELSE @]
    IN IF r.at = "tail" THEN FinalFlush(armed) ELSE [armed EXCEPT !.at = "provider"]

QueueRest(r) ==
    LET n == IF Len(r.rest) < BatchSize - Len(r.buffer)
             THEN Len(r.rest) ELSE BatchSize - Len(r.buffer)
        filled == [r EXCEPT !.buffer = @ \o SubSeq(r.rest, 1, n),
                            !.rest = SubSeq(@, n + 1, Len(@))]
    IN IF Len(filled.buffer) >= BatchSize THEN Suspend(filled, "main")
                                          ELSE Queued(filled)

\* Mutation: the filter's tail is forgotten.
Finally_NoTail(r) ==
    FinalFlush([r EXCEPT !.timer = IF @ = "armed" THEN "stale" ELSE @,
                         !.pending = <<>>, !.rest = <<>>])

\* The finally block: stop the timer, queue the filter's tail, flush.
Finally(r) ==
    LET tail == IF r.outcome = "blocked" THEN <<>> ELSE r.pending
        left == [r EXCEPT !.timer = IF @ = "armed" THEN "stale" ELSE @,
                          !.pending = <<>>, !.rest = <<>>]
    IN IF tail = <<>> \/ r.failed THEN FinalFlush(left)
       ELSE QueueRest([left EXCEPT !.at = "tail", !.rest = tail])

\* flushOutput returns to the main flow ...
MainResumes(r) ==
    IF r.at = "drain" THEN [r EXCEPT !.at = "close"]
    ELSE IF ~r.failed THEN QueueRest(r)
    ELSE IF r.at = "tail" THEN FinalFlush(r)
    ELSE [r EXCEPT !.at = "provider", !.rest = <<>>]

\* ... or throws: the catch block, unless the finally block was flushing.
MainThrows(r) ==
    IF r.at = "queue"
    THEN Finally([r EXCEPT !.outcome = IF r.aborted THEN "cancelled" ELSE "failed"])
    ELSE [r EXCEPT !.at = "rejected"]

\* Mutation: only the first of those who wait is resumed.
Wake_First(r) ==
    LET idle == [r EXCEPT !.flight = NoFlight, !.waiters = <<>>]
    IN IF r.waiters # <<>> /\ ~Nothing(idle) THEN StartWrite(idle, Head(r.waiters))
       ELSE IF r.flight.by = "main" THEN MainResumes(idle) ELSE idle

\* The write settled: the first waiter takes what was buffered meanwhile, the
\* others find nothing and return; the main flow goes on after all of them.
Wake(r) ==
    LET idle  == [r EXCEPT !.flight = NoFlight, !.waiters = <<>>]
        takes == r.waiters # <<>> /\ ~Nothing(idle)
        next  == IF takes THEN StartWrite(idle, Head(r.waiters)) ELSE idle
        returned == IF takes THEN Append(Tail(r.waiters), r.flight.by)
                             ELSE Append(r.waiters, r.flight.by)
    IN IF "main" \in ToSet(returned) THEN MainResumes(next) ELSE next

WakeFailed(r) == Wake([r EXCEPT !.failed = TRUE, !.aborted = TRUE])

\* The write threw: so does flushOutput, for its caller and for all who wait.
WakeThrown(r) ==
    LET threw == ToSet(r.waiters) \cup {r.flight.by}
        stops == "timer" \in threw
        idle  == [r EXCEPT !.flight = NoFlight, !.waiters = <<>>,
                           !.failed = @ \/ stops, !.aborted = @ \/ stops]
    IN IF "main" \in threw THEN MainThrows(idle) ELSE idle

-----------------------------------------------------------------------------
(* The events.                                                             *)

\* filter.push, and queueOutput of what it lets through: all but the last
\* LookBack characters.
Push(r, chunk) ==
    LET held  == r.pending \o chunk
        split == IF Len(held) > LookBack THEN Len(held) - LookBack ELSE 0
    IN IF Matches(held)
       THEN Finally([r EXCEPT !.outcome = "blocked", !.aborted = TRUE, !.pending = <<>>])
       ELSE LET passed == [r EXCEPT !.pending = SubSeq(held, split + 1, Len(held))]
            IN IF split = 0 \/ r.failed THEN passed
               ELSE QueueRest([passed EXCEPT !.at = "queue",
                                             !.rest = SubSeq(held, 1, split)])

ProviderText(chunk) ==
    /\ run.at = "provider"
    /\ Len(said) + Len(chunk) <= MaxText
    /\ said' = said \o chunk
    /\ run' = Push(run, chunk)
    /\ UNCHANGED <<message, running, status, shown, told>>

\* The stream finishes, fails, throws or just ends.
ProviderEnds ==
    /\ run.at = "provider"
    /\ \E o \in {"completed", "failed"} :
         run' = Finally([run EXCEPT !.outcome = IF run.aborted THEN "cancelled" ELSE o])
    /\ UNCHANGED <<said, message, running, status, shown, told>>

\* OUTPUT_FLUSH_MS have passed; a former write may still be in flight.
TimerFires ==
    /\ run.timer = "armed"
    /\ run' = IF run.flight = NoFlight /\ Nothing(run)
              THEN [run EXCEPT !.timer = "off"]
              ELSE Suspend([run EXCEPT !.timer = "stale"], "timer")
    /\ UNCHANGED <<said, message, running, status, shown, told>>

\* The poller, or a cancel on this instance.
Abort ==
    /\ run.at \in Suspended \cup {"provider"} /\ ~run.aborted
    /\ run' = [run EXCEPT !.aborted = TRUE]
    /\ UNCHANGED <<said, message, running, status, shown, told>>

\* The lease expires or a recovery ends the attempt.
LoseLease ==
    /\ running
    /\ running' = FALSE
    /\ UNCHANGED <<said, run, message, status, shown, told>>

\* The database takes the snapshot of appendOutput, with the lease and the
\* status it is fenced on; the row it updates is locked, and changed, later.
AppendReads ==
    /\ run.flight.step = "sent"
    /\ run' = [run EXCEPT !.flight.step = IF running THEN "fenced" ELSE "refused"]
    /\ UNCHANGED <<said, message, running, status, shown, told>>

AppendWrites ==
    /\ run.flight.step = "fenced"
    /\ message' = message \o run.flight.batch
    /\ run' = [run EXCEPT !.flight.step = "applied"]
    /\ UNCHANGED <<said, running, status, shown, told>>

\* Mutation: the delta is emitted when the append is refused, too.
Replied_Anyway ==
    /\ \/ run.flight.step = "applied" /\ run' = Wake(run)
       \/ run.flight.step = "refused" /\ run' = WakeFailed(run)
    /\ shown' = shown \o run.flight.batch
    /\ UNCHANGED <<said, message, running, status, told>>

\* Its reply reaches the process: the delta is emitted only now.
Replied ==
    /\ \/ /\ run.flight.step = "applied"
          /\ shown' = shown \o run.flight.batch
          /\ run' = Wake(run)
       \/ /\ run.flight.step = "refused"
          /\ run' = WakeFailed(run)
          /\ UNCHANGED shown
    /\ UNCHANGED <<said, message, running, status, told>>

\* The statement fails, or its reply is lost.
WriteThrows ==
    /\ run.flight # NoFlight
    /\ run' = WakeThrown(run)
    /\ UNCHANGED <<said, message, running, status, shown, told>>

\* connection.close() returns, and the outcome is settled.
Close ==
    /\ run.at = "close"
    /\ run' = [run EXCEPT !.at = "stage", !.outcome =
                 IF run.failed /\ @ # "blocked" THEN "failed" ELSE @]
    /\ UNCHANGED <<said, message, running, status, shown, told>>

\* stageFinalization, its reply or an error.
Stage ==
    /\ run.at = "stage"
    /\ \/ /\ running
          /\ running' = FALSE
          /\ status' = run.outcome
          /\ \/ run' = [run EXCEPT !.at = "tell"] /\ UNCHANGED told
             \/ run' = [run EXCEPT !.at = "done"] /\ told' = "failed"
       \/ /\ ~running
          /\ run' = [run EXCEPT !.at = "done"]
          /\ UNCHANGED <<running, status, told>>
       \/ /\ run' = [run EXCEPT !.at = "done"] /\ told' = "failed"
          /\ UNCHANGED <<running, status>>
    /\ UNCHANGED <<said, message, shown>>

\* The usage is recorded; the terminal event closes the stream.
Tell ==
    /\ run.at = "tell"
    /\ run' = [run EXCEPT !.at = "done"]
    /\ told' = run.outcome
    /\ UNCHANGED <<said, message, running, status, shown>>

Chunks == UNION {[1..n -> Chars] : n \in 1..MaxChunk}

Next ==
    \/ \E chunk \in Chunks : ProviderText(chunk)
    \/ ProviderEnds \/ TimerFires \/ Abort \/ LoseLease
    \/ AppendReads \/ AppendWrites \/ Replied \/ WriteThrows
    \/ Close \/ Stage \/ Tell

\* The event loop runs what is ready, and the database answers every
\* statement or fails it; the provider's time limit ends its stream.
Fairness ==
    /\ WF_vars(AppendReads) /\ WF_vars(AppendWrites) /\ WF_vars(Replied)
    /\ WF_vars(Close) /\ WF_vars(Stage) /\ WF_vars(Tell)
    /\ WF_vars(ProviderEnds)

Spec == Init /\ [][Next]_vars
FairSpec == Spec /\ Fairness

-----------------------------------------------------------------------------
(* Properties.                                                             *)

\* s is t cut short, or t without one stretch of it and cut short.
Skips(s, t) ==
    \E i \in 0..Len(s) : \E j \in i..Len(t) - (Len(s) - i) :
        s = SubSeq(t, 1, i) \o SubSeq(t, j + 1, j + Len(s) - i)

\* The stored text keeps the provider's order, whichever flushes wait for,
\* follow or fail before one another (conversation.service.ts:293).  It has a
\* hole only when the append of a full batch threw, and then the attempt is
\* not completed: the finally block still stores the filter's tail.
TextInOrder ==
    \/ IsPrefix(message, said)
    \/ /\ Skips(message, said)
       /\ run.outcome \in {"failed", "cancelled"} /\ run.at \notin {"provider", "queue"}

\* A client only sees text that a reload would show too, in the same order:
\* deltas are emitted after the append has committed.  They skip stored text
\* only when the reply to an append was lost.
ShownIsStored ==
    \/ IsPrefix(shown, message)
    \/ Skips(shown, message) /\ status # "completed"

\* Normalization leaves the letters where they are: every character has one,
\* and the marks on a base letter come in the order of their classes.
InOrder(text) ==
    /\ \A i \in 1..Len(text) : Normal[text[i]] # <<>>
    /\ \A u, v \in Units(text) : ~Swapped(text, u, v)

\* No blacklisted term of the provider's text is ever stored, however its
\* events cut the term, its characters expand and whatever was emitted before
\* it was recognized -- as long as normalization moves no letter of the text:
\* a mark that would go in front of others may find them released already
\* (the hole of a failed answer, too, may bring two ends together).
TermsNeverStored ==
    IsPrefix(message, said) /\ InOrder(said) => ~Matches(message)

\* A completed answer misses at most one batch, and only one whose write was
\* still in flight, or failed, when the attempt was finalized.
OnlyLateBatchIsMissing ==
    status = "completed" /\ message # said =>
        /\ Len(said) - Len(message) <= BatchSize
        /\ run.failed \/ (run.flight.step \in {"sent", "fenced", "refused"}
                          /\ message \o run.flight.batch = said)

\* Callers that wait for a write in flight are never forgotten: run() reaches
\* its end, or rejects, whatever the writes do.
RunEnds == <>(run.at \in {"done", "rejected"})

\* "Guard chunk-split matches: hold back one longest-word tail since emitted
\* text cannot be recalled" (blacklist.ts:14): a completed answer contains no
\* blacklisted term, whatever normalization does to its text.
CompletedIsClean == status = "completed" => ~Matches(message)

\* Once nothing is in flight, what a completed generation has stored is the
\* text the provider produced
\* (conversation.integration.test.ts:1129).
CompletedIsWhole ==
    told = "completed" /\ run.flight = NoFlight => message = said
=============================================================================
