---------------------------- MODULE AcceptanceTx ----------------------------
(***************************************************************************)
(* The transactions of conversation.repository.ts, statement by statement: *)
(* acceptance, finalization, the recovery of expired attempts and the      *)
(* renewal of leases, with the locks each statement waits for.  The other  *)
(* modules take each of them as one step; this one shows that they may.    *)
(*                                                                         *)
(* The isolation level is PostgreSQL's default, READ COMMITTED.  A         *)
(* statement reads what is committed when it starts.  An UPDATE of several *)
(* rows picks them from that snapshot and locks them one by one, in an     *)
(* order the code does not choose; a row changed in the meantime is checked *)
(* again and stays locked either way.  now() is the start of the           *)
(* transaction, and locks are held to its end.  Its writes become visible  *)
(* with the commit, so they are the effects of the committing step.        *)
(*                                                                         *)
(* A deadline falls between two ticks of the clock: the microsecond in     *)
(* which a lease is neither expired (<) nor unexpired (>) is left out.     *)
(***************************************************************************)
EXTENDS Integers, FiniteSets

CONSTANTS
    Conversations, Requests, Networks, Embeds, Attempts, None,
    ConcurrencyLimit, DailyLimit,
    Transactions,  \* database connections that run one transaction at a time
    LeaseTime,     \* LEASE_MS
    MaxVersion,    \* bound on access versions
    MaxTime        \* bound on database time

ASSUME TransactionAssumption ==
    /\ ConcurrencyLimit \in Nat \ {0}
    /\ DailyLimit \in Nat \ {0}
    /\ LeaseTime \in Nat
    /\ MaxVersion \in Nat \ {0}
    /\ MaxTime \in Nat
    /\ None \notin Attempts

VARIABLES
    \* the committed tables
    embed, issued, revision, tail, row, status, counter,
    lease,     \* generation_attempt.lease_expires_at
    clock,     \* database time
    \* the transactions
    pc,        \* the statement each is at, "idle" when none runs
    call,      \* what it was called with
    start,     \* its now()
    todo,      \* rows its UPDATE has still to lock
    marks,     \* rows its UPDATE has changed
    held       \* the locks it holds

tables == <<embed, issued, revision, tail, row, status, counter, lease>>
transactions == <<pc, call, start, todo, marks, held>>
vars == <<tables, clock, transactions>>

Active     == {"accepted", "running"}
RunOutcome == {"completed", "failed"}  \* "failed" stands for every other outcome
Status     == Active \cup RunOutcome \cup {"interrupted", "free"}
Versions   == 1..MaxVersion
Session    == [embed : Embeds, version : Versions]
Row        == [conv : Conversations, req : Requests, net : Networks,
               rev : Nat, tail : Attempts \cup {None}]

Acceptance   == [kind : {"accept"}, conv : Conversations, req : Requests,
                 net : Networks, embed : Embeds, version : Versions,
                 rev : Nat, tail : Attempts \cup {None}]
Finalization == [kind : {"finalize"}, conv : Conversations, turn : Attempts,
                 outcome : RunOutcome]
Sweep        == [kind : {"sweep"}]
Renewal      == [kind : {"renew"}, owned : SUBSET Attempts]
NoCall       == [kind |-> "none"]

Stage == {"idle", "conversation", "network", "embed", "lookup", "scan", "rows",
          "duplicate", "history", "busy", "cap", "insert",
          "update", "publish"}

ConversationLock(c) == <<"conversation", c>>
NetworkLock(n)      == <<"network", n>>
EmbedLock(e)        == <<"embed", e>>
RowLock(a)          == <<"row", a>>
Locks == {ConversationLock(c) : c \in Conversations} \cup {NetworkLock(n) : n \in Networks}
         \cup {EmbedLock(e) : e \in Embeds} \cup {RowLock(a) : a \in Attempts}

TypeOK ==
    /\ embed \in [Embeds -> [version : Versions, disabled : BOOLEAN]]
    /\ issued \in [Conversations -> Session \cup {None}]
    /\ revision \in [Conversations -> Nat]
    /\ tail \in [Conversations -> Attempts \cup {None}]
    /\ status \in [Attempts -> Status]
    /\ row \in [Attempts -> Row \cup {None}]
    /\ \A a \in Attempts : status[a] # "free" => row[a] \in Row
    /\ counter \in [Networks -> Nat]
    /\ lease \in [Attempts -> Nat]
    /\ clock \in Nat
    /\ pc \in [Transactions -> Stage]
    /\ call \in [Transactions ->
                   Acceptance \cup Finalization \cup Sweep \cup Renewal \cup {NoCall}]
    /\ start \in [Transactions -> Nat]
    /\ todo \in [Transactions -> SUBSET Attempts]
    /\ marks \in [Transactions -> SUBSET Attempts]
    /\ held \in [Transactions -> SUBSET Locks]

Init ==
    /\ embed = [e \in Embeds |-> [version |-> 1, disabled |-> FALSE]]
    /\ issued = [c \in Conversations |-> None]
    /\ revision = [c \in Conversations |-> 0]
    /\ tail = [c \in Conversations |-> None]
    /\ row = [a \in Attempts |-> None]
    /\ status = [a \in Attempts |-> "free"]
    /\ counter = [n \in Networks |-> 0]
    /\ lease = [a \in Attempts |-> 0]
    /\ clock = 0
    /\ pc = [t \in Transactions |-> "idle"]
    /\ call = [t \in Transactions |-> NoCall]
    /\ start = [t \in Transactions |-> 0]
    /\ todo = [t \in Transactions |-> {}]
    /\ marks = [t \in Transactions |-> {}]
    /\ held = [t \in Transactions |-> {}]

Accepted     == {a \in Attempts : status[a] # "free"}
ActiveTurns  == {a \in Accepted : status[a] \in Active}
Running      == {a \in Accepted : status[a] = "running"}
TurnsOf(c)   == {a \in Accepted : row[a].conv = c}
CallsFrom(n) == {a \in Accepted : row[a].net = n}

-----------------------------------------------------------------------------
(* Transactions and locks.                                                 *)

Free(l) == \A u \in Transactions : l \notin held[u]

Begin(t, what, stage) ==
    /\ pc[t] = "idle"
    /\ pc' = [pc EXCEPT ![t] = stage]
    /\ call' = [call EXCEPT ![t] = what]
    /\ start' = [start EXCEPT ![t] = clock]
    /\ UNCHANGED <<tables, clock, todo, marks, held>>

Goto(t, stage) == pc' = [pc EXCEPT ![t] = stage]

\* A statement that reads, and finds what the transaction needs to go on.
Proceed(t, stage) ==
    /\ Goto(t, stage)
    /\ UNCHANGED <<tables, clock, call, start, todo, marks, held>>

\* A statement that waits for a lock and then finds what it needs.
Take(t, l, stage) ==
    /\ Free(l)
    /\ held' = [held EXCEPT ![t] = @ \cup {l}]
    /\ Goto(t, stage)
    /\ UNCHANGED <<tables, clock, call, start, todo, marks>>

End(t) ==
    /\ pc' = [pc EXCEPT ![t] = "idle"]
    /\ call' = [call EXCEPT ![t] = NoCall]
    /\ start' = [start EXCEPT ![t] = 0]
    /\ todo' = [todo EXCEPT ![t] = {}]
    /\ marks' = [marks EXCEPT ![t] = {}]
    /\ held' = [held EXCEPT ![t] = {}]
    /\ UNCHANGED clock

\* A check fails and throws, a finalization finds nothing to do, the connection
\* breaks, the process dies, or the server picks the transaction as the victim
\* of a deadlock: nothing it wrote remains.
Rollback(t) ==
    /\ pc[t] # "idle"
    /\ End(t)
    /\ UNCHANGED tables

-----------------------------------------------------------------------------
(* An UPDATE of several attempts: the interruption of expired ones (those  *)
(* around a request, or all of them) and the renewal of a poller's leases. *)

Selects(t, a) ==
    IF call[t].kind = "renew"
    THEN a \in call[t].owned /\ status[a] = "running" /\ lease[a] >= start[t]
    ELSE /\ status[a] \in Active /\ lease[a] < start[t]
         /\ call[t].kind = "accept" =>
              row[a].conv = call[t].conv \/ row[a].net = call[t].net

Scan(t) ==
    /\ pc[t] = "scan"
    /\ todo' = [todo EXCEPT ![t] = {a \in Attempts : Selects(t, a)}]
    /\ Goto(t, "rows")
    /\ UNCHANGED <<tables, clock, call, start, marks, held>>

\* Mutation: a row is not checked again once its lock is granted.
LockRow_Unchecked(t, a) ==
    /\ pc[t] = "rows" /\ a \in todo[t]
    /\ Free(RowLock(a))
    /\ held' = [held EXCEPT ![t] = @ \cup {RowLock(a)}]
    /\ todo' = [todo EXCEPT ![t] = @ \ {a}]
    /\ marks' = [marks EXCEPT ![t] = @ \cup {a}]
    /\ UNCHANGED <<tables, clock, pc, call, start>>

LockRow(t, a) ==
    /\ pc[t] = "rows" /\ a \in todo[t]
    /\ Free(RowLock(a))
    /\ held' = [held EXCEPT ![t] = @ \cup {RowLock(a)}]
    /\ todo' = [todo EXCEPT ![t] = @ \ {a}]
    /\ marks' = [marks EXCEPT ![t] = IF Selects(t, a) THEN @ \cup {a} ELSE @]
    /\ UNCHANGED <<tables, clock, pc, call, start>>

Updated(t) == pc[t] = "rows" /\ todo[t] = {}

Interrupted(t) == [a \in Attempts |-> IF a \in marks[t] THEN "interrupted" ELSE status[a]]

-----------------------------------------------------------------------------
(* recoverExpiredGenerationAttempts and pollRunningAttempts.               *)

BeginSweep(t) == Begin(t, [kind |-> "sweep"], "scan")

CommitSweep(t) ==
    /\ Updated(t) /\ call[t].kind = "sweep"
    /\ status' = Interrupted(t)
    /\ End(t)
    /\ UNCHANGED <<embed, issued, revision, tail, row, counter, lease>>

\* One poller owns an attempt, and has one statement in flight at a time.  Of
\* the attempts it names, those that have ended make no difference.
BeginRenew(t) ==
    \E O \in SUBSET Running \ {{}} :
      /\ \A u \in Transactions :
           pc[u] # "idle" /\ call[u].kind = "renew" => call[u].owned \cap O = {}
      /\ Begin(t, [kind |-> "renew", owned |-> O], "scan")

CommitRenew(t) ==
    /\ Updated(t) /\ call[t].kind = "renew"
    /\ lease' = [a \in Attempts |->
                   IF a \in marks[t] THEN start[t] + LeaseTime ELSE lease[a]]
    /\ End(t)
    /\ UNCHANGED <<embed, issued, revision, tail, row, status, counter>>
-----------------------------------------------------------------------------
(* acceptGenerationAttempt.                                                *)

\* The embed and the history are read before the transaction begins; others
\* may change them while it waits for its first lock.
BeginAccept(t) ==
    \E c \in Conversations, q \in Requests, n \in Networks, e \in Embeds :
      /\ ~embed[e].disabled
      /\ Begin(t, [kind |-> "accept", conv |-> c, req |-> q, net |-> n, embed |-> e,
                   version |-> embed[e].version, rev |-> revision[c], tail |-> tail[c]],
               "conversation")

\* The order of the statements of stageFinalization.
\* Mutation: the attempt is updated before the conversation is locked.
FinalizeOrder_RowFirst == [first |-> "update", locked |-> "publish", updated |-> "conversation"]

FinalizeOrder == [first |-> "conversation", locked |-> "update", updated |-> "publish"]

\* acquireAcceptanceLocks, and the same lock of a finalization.
LockConversation(t) ==
    /\ pc[t] = "conversation"
    /\ Take(t, ConversationLock(call[t].conv),
            IF call[t].kind = "accept" THEN "network" ELSE FinalizeOrder.locked)

LockNetwork(t) ==
    /\ pc[t] = "network"
    /\ Take(t, NetworkLock(call[t].net), "embed")

\* SELECT ... FOR UPDATE reads the row it has locked.
LockEmbed(t) ==
    /\ pc[t] = "embed"
    /\ embed[call[t].embed] = [version |-> call[t].version, disabled |-> FALSE]
    /\ Take(t, EmbedLock(call[t].embed), "lookup")

Credential(t) == [embed |-> call[t].embed, version |-> call[t].version]

CheckConversation(t) ==
    /\ pc[t] = "lookup"
    /\ issued[call[t].conv] \in {None, Credential(t)}
    /\ Proceed(t, "scan")

InterruptedAround(t) ==
    /\ Updated(t) /\ call[t].kind = "accept"
    /\ Proceed(t, "duplicate")

Answering(t) == {a \in TurnsOf(call[t].conv) : row[a].req = call[t].req}

AnswerDuplicate(t) ==
    /\ pc[t] = "duplicate"
    /\ Answering(t) # {}
    /\ status' = Interrupted(t)
    /\ End(t)
    /\ UNCHANGED <<embed, issued, revision, tail, row, counter, lease>>

CheckDuplicate(t) ==
    /\ pc[t] = "duplicate"
    /\ Answering(t) = {}
    /\ Proceed(t, "history")

\* Mutation: the history is not compared with the one the prompt was made from.
CheckHistory_Any(t) ==
    /\ pc[t] = "history"
    /\ Proceed(t, "busy")

CheckHistory(t) ==
    /\ pc[t] = "history"
    /\ revision[call[t].conv] = call[t].rev
    /\ tail[call[t].conv] = call[t].tail
    /\ Proceed(t, "busy")

\* activeUnexpired, in the eyes of the transaction: what it has interrupted
\* is not active to it.
Unexpired(t) == {a \in ActiveTurns \ marks[t] : lease[a] >= start[t]}

CheckBusy(t) ==
    /\ pc[t] = "busy"
    /\ TurnsOf(call[t].conv) \cap Unexpired(t) = {}
    /\ Proceed(t, "cap")

CheckCap(t) ==
    /\ pc[t] = "cap"
    /\ Cardinality(CallsFrom(call[t].net) \cap Unexpired(t)) < ConcurrencyLimit
    /\ Proceed(t, "insert")

\* The counter is only advanced below the limit, under its row's lock.
CommitAccept(t, a) ==
    LET m == call[t] IN
    /\ pc[t] = "insert"
    /\ counter[m.net] < DailyLimit
    /\ status[a] = "free"
    /\ row' = [row EXCEPT ![a] = [conv |-> m.conv, req |-> m.req, net |-> m.net,
                                  rev |-> m.rev, tail |-> m.tail]]
    /\ status' = [Interrupted(t) EXCEPT ![a] = "accepted"]
    /\ lease' = [lease EXCEPT ![a] = start[t] + LeaseTime]
    /\ issued' = [issued EXCEPT ![m.conv] = Credential(t)]
    /\ counter' = [counter EXCEPT ![m.net] = @ + 1]
    /\ End(t)
    /\ UNCHANGED <<embed, revision, tail>>

-----------------------------------------------------------------------------
(* stageFinalization.                                                      *)

\* The runner gets here after markRunning; the attempt may have been interrupted.
BeginFinalize(t) ==
    \E a \in Accepted, o \in RunOutcome :
      /\ status[a] # "accepted"
      /\ Begin(t, [kind |-> "finalize", conv |-> row[a].conv, turn |-> a, outcome |-> o],
               FinalizeOrder.first)

LockTurn(t) ==
    LET a == call[t].turn IN
    /\ pc[t] = "update"
    /\ status[a] = "running" /\ lease[a] >= start[t]
    /\ Take(t, RowLock(a), FinalizeOrder.updated)

CommitFinalize(t) ==
    LET m == call[t] IN
    /\ pc[t] = "publish"
    /\ status' = [status EXCEPT ![m.turn] = m.outcome]
    /\ IF m.outcome = "completed"
       THEN /\ revision' = [revision EXCEPT ![m.conv] = @ + 1]
            /\ tail' = [tail EXCEPT ![m.conv] = m.turn]
       ELSE UNCHANGED <<revision, tail>>
    /\ End(t)
    /\ UNCHANGED <<embed, issued, row, counter, lease>>

-----------------------------------------------------------------------------
(* Statements of one row that are transactions of their own, and time.     *)

MarkRunning(a) ==
    /\ Free(RowLock(a))
    /\ status[a] = "accepted" /\ lease[a] >= clock
    /\ status' = [status EXCEPT ![a] = "running"]
    /\ UNCHANGED <<embed, issued, revision, tail, row, counter, lease, clock, transactions>>

\* rotateEmbedToken, and updateEmbed when it moves the embed to an agent.
RevokeSessions(e) ==
    /\ Free(EmbedLock(e))
    /\ embed[e].version < MaxVersion
    /\ embed' = [embed EXCEPT ![e].version = @ + 1]
    /\ UNCHANGED <<issued, revision, tail, row, status, counter, lease, clock, transactions>>

SetDisabled(e) ==
    /\ Free(EmbedLock(e))
    /\ embed' = [embed EXCEPT ![e].disabled = ~@]
    /\ UNCHANGED <<issued, revision, tail, row, status, counter, lease, clock, transactions>>

Tick ==
    /\ clock < MaxTime
    /\ clock' = clock + 1
    /\ UNCHANGED <<tables, transactions>>

Accepting(t) ==
    \/ BeginAccept(t) \/ LockNetwork(t) \/ LockEmbed(t) \/ CheckConversation(t)
    \/ InterruptedAround(t) \/ AnswerDuplicate(t) \/ CheckDuplicate(t) \/ CheckHistory(t)
    \/ CheckBusy(t) \/ CheckCap(t)
    \/ \E a \in Attempts : CommitAccept(t, a)

Next ==
    \/ \E t \in Transactions :
         \/ Accepting(t)
         \/ LockConversation(t)
         \/ BeginFinalize(t) \/ LockTurn(t) \/ CommitFinalize(t)
         \/ Scan(t) \/ \E a \in Attempts : LockRow(t, a)
         \/ BeginSweep(t) \/ CommitSweep(t)
         \/ BeginRenew(t) \/ CommitRenew(t)
         \/ Rollback(t)
    \/ \E a \in Attempts : MarkRunning(a)
    \/ \E e \in Embeds : RevokeSessions(e) \/ SetDisabled(e)
    \/ Tick

Spec == Init /\ [][Next]_vars

-----------------------------------------------------------------------------
(* Properties.                                                             *)

Wants(t, l) ==
    \/ pc[t] = "conversation" /\ l = ConversationLock(call[t].conv)
    \/ pc[t] = "network" /\ l = NetworkLock(call[t].net)
    \/ pc[t] = "embed" /\ l = EmbedLock(call[t].embed)
    \/ pc[t] = "update" /\ l = RowLock(call[t].turn)
    \/ pc[t] = "rows" /\ \E a \in todo[t] : l = RowLock(a)

WaitsFor(t, u) == u # t /\ \E l \in held[u] : Wants(t, l)

\* The order in which acceptance takes its locks (conversation, network, embed,
\* then attempts) and finalization takes two of them keeps transactions from
\* waiting for one another in a circle, however many there are.  What is left
\* are the rows of UPDATEs of several attempts, which have no order: a circle
\* has at least two of these in it, and the server breaks it by a rollback.
OnlyUpdatesDeadlock ==
    \A S \in SUBSET Transactions :
      S # {} /\ (\A t \in S : \E u \in S : WaitsFor(t, u)) =>
        \E t, u \in S : t # u /\ pc[t] = "rows" /\ pc[u] = "rows"

\* An attempt in progress answers the history its prompt was made from: no
\* other turn of its conversation was completed since, neither while the
\* acceptance waited for its locks nor while the generation runs.
AnswersCurrentHistory ==
    \A a \in ActiveTurns :
      row[a].rev = revision[row[a].conv] /\ row[a].tail = tail[row[a].conv]

\* Every transaction takes effect at once, at its commit: the embed, the
\* history and the load it found are still what it found, although others
\* committed between its statements, and no attempt is interrupted that is
\* not active or whose lease has not lapsed.
Atomic == INSTANCE Acceptance WITH
    lapsed <- {a \in Attempts : lease[a] < clock}

ImplementsAcceptance == Atomic!Spec
=============================================================================
