# A specification of Talqo

Talqo serves chat assistants ("agents") embedded in web sites. `apps/api` is a
modular monolith over PostgreSQL, of which several instances may run side by
side; `packages/sdk` is the client used by the widget and by integrators. The
modules in this directory model the parts of it whose correctness depends on
interleaving, failure and order, check them with TLC on small instances, and
prove the most important results for all instances with TLAPS.

## 1. Inventory

Paths are relative to `src/apps/api/src` unless they start with `packages/`.

| Component | State | Operations | Talks to | What is hard | Correct means |
|---|---|---|---|---|---|
| conversation (`modules/conversation`) | tables `conversation`, `generation_attempt`, `message`, `conversation_daily_counter`; per instance: running generations, the poller's registrations, one recovery pass | `send`, `run`, `getSession`, `cancel`, `recoverUsage`; poll | embed row (access), usage, knowledge base, MCP, AI provider; instances meet only in the database | several instances; leases; retries and repeated requests; a late runner; flushes, finalization and usage recording that fail half way | one turn at a time, linear history, requests answered once, limits exact, outcomes final, usage recorded once, nothing stuck |
| usage (`modules/usage`) | table `usage_record` | `recordUsage`, normalization | conversation, stats | recorded by a runner and by recovery at once | one record per attempt |
| embed (`modules/embed`) | table `embed`: agent, access version, disabled | create, update, rotate token, disable, delete | conversation | changes race requests in flight | revoked sessions start nothing |
| knowledge base (`modules/knowledge-base`) | files on disk, `agent_file`, `agent_file_chunk`; one ingestion worker (advisory lock) | upload, rename, delete, retry, search; claim, convert, embed, complete, requeue, fail, recover, reconcile | AI provider (embedding model), Docling | disk and rows change in two steps; model changed in mid-batch; worker restarts | what search returns belongs to a file that exists, under the current model; every file ends indexed or failed |
| roles (`modules/roles`) | roles, assignments, per-agent access, invitations; per instance: the queue of access changes, the connection pool | create/update/delete roles, assign, reset, remove, leave, invite, redeem, bootstrap | identity | checks and writes under one advisory lock, taken on a connection of the pool the change itself needs; compensation after failures; bootstrap without the lock | nobody changes access beyond their own; one administrator; nothing half-made is left; no standstill |
| identity (`modules/identity`) | users, sessions; in memory: credential limiter | login, session lookup, password rotation | roles | login and rotation interleave | a rotated password leaves no old session |
| AI provider (`modules/ai-provider`) | one configuration row with a revision; credential vault | save, discover, prepare operations | external providers | concurrent administrators | no lost update; an operation uses one configuration |
| MCP (`modules/mcp`) | server rows with a revision and a tool snapshot | create, update, disable, open tools | tool servers, conversation | discovery outlives the save it belongs to | a snapshot describes the stored endpoint |
| agent, stats, HTTP infrastructure, database | rows; none; none; none | CRUD; aggregates; routing; migrations | | little | |
| output buffer and blacklist (`run()` in `conversation.service.ts`, `blacklist.ts`) | locals of one execution: what the filter holds back, the buffer, the write in flight, the timer, who waits | `push`/`finish`, `queueOutput`, `flushOutput` | the message row, the client's stream | the main flow and the timer inside `flushOutput` at once; writes that are slow, refused or fail | stored and shown text is the provider's, in order, without a blacklisted term |
| SDK chat client (`packages/sdk/src/chat-client.ts`) | credential, pending message, active generation; its record in the browser's storage | initialize, send, cancel, new chat, recovery polling, dispose | API over SSE and HTTP | page loads, cut streams, recovery polls and cancellations racing answers | a message is accepted once and can be recovered; a former chat stays gone; the client never stays busy |
| SDK transport and storage, widget, web, ui, docs, e2e, shared | presentation and plumbing | | | | |

`PROJECT.json` lists every component with its sources and status, and under
`hazards` the places where this code is hard to test, each with the properties
aimed at it.

## 2. Plan

1. **ConversationStore, Conversation** -- the tables, and the senders, runners,
   poller and recovery passes over them. *Done.*
2. **TurnLog** -- the abstract specification: a conversation is a serial log of
   turns. Conversation implements it. *Done, checked and proved.*
3. **KnowledgeBase** -- files, rows and the ingestion worker. *Done, checked and
   proved; removal of an agent with its directory is left.*
4. **OutputBuffer** -- the filter, `queueOutput`, `flushOutput` and the timer at
   the level of characters; what Conversation takes as counts. *Done, checked and
   proved.*
5. **ChatClient** -- the SDK's state machine against a slow and unreliable
   server. *Done, checked and proved.*
6. **Roles** -- accounts, roles, invitations and the access lock. *Done, checked and
   proved.*
7. Proofs of the safety properties the runs check. *Done, except for `SomeoneGoesOn`
   of Roles, which is about ENABLED; its part without is proved.*
8. **Acceptance**, **AcceptanceTx** -- acceptance, finalization, expiry recovery, lease
   renewal and embed administration lock by lock: which deadlocks there are, and that
   the transactions are as atomic as step 1 takes them to be. *Done, checked and proved.*
9. Left: **IdentitySessions** (sign-in against rotation of a
   password), **ConfigRevision** (AI provider, MCP), **UsageNormalization**,
   **CredentialLimiter**.

## 3. The conversation component

### ConversationStore: the tables

One variable per column that matters, as a function of the attempt or the
conversation; an attempt's two messages are its `row` (what the user message and
the attempt fix for good), `reply` (outcome of the assistant message) and
`stored` (how much text it has). Every operator is one SQL statement or one
transaction and so one atomic step:

| Definition | Code (`conversation.repository.ts` unless noted) |
|---|---|
| `Admissible`, `ExpiredAround`, `Answering`, `FreshHistory`, `Vacant`, `UnderCap`, `UnderAllowance`, `AcceptRow`, `AcceptDuplicateRow` | `acceptGenerationAttempt`, its checks in order and its writes |
| `MarkRunningRow`, `MarkInvoked`, `AppendOutput`, `StageFinalization` | the statements fenced by the lease |
| `Interrupt`, `RecoverExpiredAttempts` | `interruptExpiredGenerationAttempts`, `recoverExpiredGenerationAttempts` |
| `RequestCancellation` | `requestCancellation` |
| `StageRecoveredCandidate`, `InsertUsage`, `MarkUsageRecorded`, `PruneDailyCounters` | usage finalization; `recordUsage` in `usage.repository.ts` |
| `RevokeSessions`, `SetDisabled` | `embed.repository.ts` |
| `Lapse`, `NextDay` | the database clock |

Why the transactions are atomic: acceptance takes the conversation's and the
network's transaction-scoped advisory locks and the embed's row lock before it
reads anything it decides on; finalization and the leased statements lock the
attempt's row and re-evaluate their condition on it. That this is enough is what
`AcceptanceTx` checks and proves, below.

Abstractions. A lease is a deadline: `live` says whether it still lies ahead;
`Lapse` can happen whenever the lease lives (a renewal is its not happening).
PostgreSQL's `now()` is the transaction's start, so a condition on it may be
older than the statement; that only delays what `Lapse` allows at any time. Token
counts are numbers of text batches produced; text is the number of batches
stored. One embed of one agent is modelled. `conversation.updated_at`, attribution
of provider and model and the order of messages within a conversation's list are
left out. Deletion of an agent or embed, which cascades to all these rows (and for
which `recordPendingUsage` ignores a foreign key violation), is not modelled.

### Conversation: the processes

* **Senders** -- one HTTP request each: `SendBegin` (embed read), `SendLookup`
  (session read), `ReadRevision`, `ReadMessages` (the two statements of
  `getHistorySnapshot`), then exactly one of `AcceptNew`, `AcceptDuplicate`,
  `AcceptStale` (up to `MaxTries`), `AcceptRefused`, or `SendFails` anywhere.
* **Runners** -- `run()` of an accepted attempt: `MarkRunning`, `Register`,
  `PrepareFails` / `Attribute`, the provider's text, end, failure or blocked text,
  the writes of its output (`Flush`, `FlushReads`,
  `FlushLands`, `FlushFails`: an append is sent, checks the lease, writes, and may
  do so after its sender stopped waiting), the `finally` block `DrainFlush` and
  `DrainDone`, `Finalize`, `RecordOwnUsage`. A statement whose reply is lost (committed, then an error)
  is modelled where the code would act on it. `RunnerDies` kills one execution at
  any point: an instance crash is all of its executions dying.
* **Poller and cancel** -- `Poll` aborts a registered attempt that is cancelled
  or lost; both conditions are stable, so reading them and acting is one step.
  `Cancel` marks the rows and aborts any subset that runs on the same instance.
* **Recording jobs** -- `recordPendingUsage`, step by step, by the runner itself
  (`Finalizer`) or by a `recoverUsage` pass (`Recoverers`). A pass starts with
  pruning the counters. Several `Recoverers` are passes of several instances, or jobs that
  outlive a pass whose `Promise.all` was rejected by another job; `two_recoveries` shows
  what goes wrong between them (section 9). The batch size and the minimum
  interval between passes are not modelled.
* **Environment** -- lease expiry, `getSession`'s expiry recovery, operators
  disabling the embed and revoking sessions, midnight.

### What the runs check

All runs instantiate `MCConversation`. None may deadlock in an interesting way --
every pool of attempts is finite and the system stops when it is used up -- so
`CHECK_DEADLOCK FALSE`.

| Run | Instance | Shows |
|---|---|---|
| contention | 2 conversations of one network, 2 requests, 2 attempts, 1 sender, 2 tries, cap 1, allowance 1, 2 days | `OneActiveTurn`, `LinearHistory`, `RevisionCountsCompleted`, `NetworkCap`, `AllowanceExact`, and that the component implements `TurnLog` |
| access | 2 senders with the same request id, 2 texts, 2 attempts, 2 access versions, switchable embed | `RequestsAreIdempotent`, `RevokedAcceptsNothing` |
| recovery | 1 attempt, 2 batches of text, 1 recoverer and the runner, `FairSpec` | `TypeOK`, `SuccessIsRecorded`, `UsageOnce`, `CompletedTextAccounted`, `EndedIsFinal`, `CancelTakesEffect`, `AttemptsEnd`, `UsageEventuallyRecorded` |
| two_recoveries | 1 attempt, 1 batch, 2 recoverers and the runner, `FairSpec` | a violation of `UsageEventuallyRecorded` (section 9) |

Bounds. Two attempts are the smallest instance in which a turn can
start, complete or be recovered between any two steps of a request (`contention`: its
sender meets runners, recoveries and midnight; two senders meet each other in `access`); two
batches allow a partial flush followed by a failing one, and a write still in
flight when the attempt is finalized; the runner and one
recoverer, restarted any number of times, are two recorders of one attempt. `Attempts` bounds acceptances,
`MaxVersion`, `MaxDay` and `MaxOutput` bound counters, all of them constants.
`contention` identifies states that differ only in what clients were
told (`VIEW WithoutEvents`): nothing in that run reads it. It has no recovery pass, so
no counter is pruned in it; that pruning never touches the counter `AllowanceExact` is
about is part of the theorem (section 8). `UsageOnce` says what recording leaves, whoever records: the record belongs to an
attempt that has ended and had called the provider, it is the staged count unless the
attempt was interrupted, and always once it is marked as recorded; `EndedIsFinal` adds
that neither changes again. `MaxTries` is 2 where
the code tries three times: the third try meets the same cases as the second.

### AcceptanceTx: the same transactions, statement by statement

`AcceptanceTx` takes acceptance, finalization, the recovery of expired attempts and the
renewal of leases apart: one action per statement, in the order of the code, with
the locks it waits for. A transaction of `Transactions` is at a statement (`pc`), was called
with something (`call`), has a `now()` (`start`), rows its UPDATE has yet to lock (`todo`),
rows it has changed (`marks`) and locks (`held`). Its writes are the effects of its commit.

| Definition | Code (`conversation.repository.ts` unless noted) |
|---|---|
| `BeginAccept` | the reads of `send` before the transaction (`conversation.service.ts`) |
| `LockConversation`, `LockNetwork`, `LockEmbed` | `acquireAcceptanceLocks`, `SELECT ... FOR UPDATE` of the embed; finalization's lock of the conversation |
| `CheckConversation`, `CheckDuplicate`, `AnswerDuplicate`, `CheckHistory`, `CheckBusy`, `CheckCap`, `CommitAccept` | the checks of `acceptGenerationAttempt`, each a statement of its own, and its writes |
| `Selects`, `Scan`, `LockRow`, `Interrupted` | an UPDATE of several attempts: `interruptExpiredGenerationAttempts`, and the renewal in `pollRunningAttempts` |
| `BeginSweep`, `CommitSweep`; `BeginRenew`, `CommitRenew` | `recoverExpiredGenerationAttempts`; a poller's renewal |
| `BeginFinalize`, `LockTurn`, `CommitFinalize` | `stageFinalization` |
| `MarkRunning`, `RevokeSessions`, `SetDisabled` | statements of one row (`embed.repository.ts` for the last two) |
| `Rollback` | a check that throws, a lost connection, a crash, the victim of a deadlock |

The isolation is READ COMMITTED, which the code does not change: a statement sees what
is committed when it starts, an UPDATE picks its rows from that and locks them one by one,
in an order nothing in the code fixes, and checks a row again that has changed meanwhile.
`Acceptance` is the abstract specification: the same tables, with each transaction as one
action, and of the leases only which have lapsed. `ImplementsAcceptance` is the refinement:
every transaction is one step of `Acceptance`, at its commit.

| Run | Instance | Shows |
|---|---|---|
| acceptance | 2 connections, 2 conversations, 2 requests, 1 network, 1 embed with 2 access versions, 2 attempts, cap 1, allowance 2, leases of 1 of 2 ticks | `OnlyUpdatesDeadlock`, `AnswersCurrentHistory`, `ImplementsAcceptance` |

Bounds. Two connections are two of any kind of transaction at once, the least that can
wait for one another; longer circles are covered by the theorem (section 8). Two attempts are a
conversation's expired turn with its successor, or turns of two conversations that count against
the same network; two rows are what two UPDATEs can lock in opposite orders. A lease of one
tick in two lapses, is renewed, and lapses again. The
system never stops: a connection can always begin or roll back, so deadlock is checked.
`VIEW WithoutPast` (`MCAcceptanceTx`) leaves out the lease, the network and the prompted
history of attempts that have ended; no statement reads them -- each selects active
attempts first -- and no property of the run does.

`OnlyUpdatesDeadlock`. The comment at `conversation.repository.ts:85` says that a "fixed
identity-before-network order prevents deadlocks". It does, among the locks of
conversations and networks, and the embed's row and the attempt that finalization updates fit into the
same order. What has no order are the rows of an UPDATE of several attempts: two
acceptances of different conversations and networks touch different rows, but a sweep of all
expired attempts and an acceptance, two sweeps, or two acceptances that share
expired attempts of conversation and network can lock two rows in opposite orders. PostgreSQL
breaks the circle by rolling one back, which the caller meets as a failed statement.

Left out. Message, counter and foreign-key locks: they are taken after all of these, or under the lock of
the attempt or the conversation they belong to. The single-row statements that do not change what is
modelled (attribution, cancellation marks, usage) hold nothing while they wait. A deadline equal to
`now()` to the microsecond, at which a lease is neither expired (`<`) nor unexpired (`>`).
The counter of one day. The outcomes other than "completed" are one, "failed". A renewal names
attempts that are running; those that have ended make no difference to it.

### Fairness

`FairSpec` assumes: a runner that lives keeps taking steps, one of which may be
failing or dying (`RunnerProceeds`); the poller keeps polling; the lease of an attempt nobody
renews passes; some client asks for its session (which interrupts what has
expired) or sends (which runs a recovery pass); the statements of a recording
job do not fail for ever (strong fairness: a job may be restarted infinitely often before it
succeeds). The provider is not assumed to stop: `CancelTakesEffect` holds without it.
`AttemptsEnd` and `UsageEventuallyRecorded` assume in their statement that every
provider call ends (`ProviderTimesOut`), which the time limit passed to `prepare`
enforces. Nothing is assumed of senders.

## 4. The knowledge base

### KnowledgeBase: files, rows and the worker

The uploaded files of one agent. `disk` is its directory; `file` and `chunks` are
the rows of `agent_file`, in the order of their creation, and what their chunks
were made from and with which model. Three kinds of actor share them:

* **Requests** -- `upload`, `rename`, `deleteFile` and `retryEmbedding`, each in
  the steps between which others may act: the directory first (`UploadPut`,
  `RenameCopy` and `RenameUnlink`, `DeleteUnlink`, the check of `RetryCheck`), the
  row second, compensations after a failed row step (`UploadUndo`, `RenameUndo`,
  `RenameUndoUnlink`). A row statement may throw having taken effect or not.
* **The startup sweep** of the worker that got the advisory lock: `Recover`,
  `reconcileDanglingRows` (`ListRows`, `StatFile`, `StatsDone`, `PurgeRow`),
  `recoverUploads` (`ListDirectory`, `ScanFiles`, `RecoverUpload`), one file or
  one statement at a time.
* **The polling loop** and `processPendingFiles`: `Poll` prepares the model,
  `ReindexChanged`, then `TestClaim`/`Claim`, `Convert`, `Embed`, `Check` and one
  of `Commit`, `Requeue`, `Fail` for each file, until none is pending.

The lock belongs to one reserved connection, the statements run on others. So
`LoseConnection` frees the lock while the worker that held it goes on to the next
test of its connection: with two instances, an old worker and its successor work
at once. `Crash` kills a process with its worker and its requests.
`SaveConfiguration` changes the embedding model or makes it unusable.

A row's generation number is represented by what it decides, whether a job still
is the row's current one: `claim` names the worker whose job carries the row's
generation, and every statement that increments it names nobody. A worker has one
job at a time, so this loses nothing.

Abstractions: all texts of one file are converted and embedded in one step each;
file writes, copies and unlinks succeed or find the file (not) there; the
statements of one `Promise.all` are over before the sweep ends. Docling and the
provider may fail at any time.

| Run | Instance | Shows |
|---|---|---|
| kb_fence | 2 instances, 1 file name, 2 requests one at a time, 2 models changed twice, 1 failing statement, 1 lost connection, 1 crash | `TypeOK`, `SearchableIsEmbedded`, `StaleWorkerIsFenced`, `SweepReconciles` |
| kb_settles | 2 names, 2 contents, 4 requests one at a time, 1 lost connection, 1 crash, `FairSpec` | `ReadyMatchesUntilCrash`, `FilesSettle` |
| kb_model_change | 1 name, 2 models | a violation of `ModelChangeReembeds` (section 9) |

Bounds. Two models and two changes allow a job to be given back after its row was
claimed under a second model. Two instances are an old and a new holder of the
lock. `MaxRows` is the number of rows the requests and one sweep can insert, so
it never keeps a row out. `MaxRequests`, `MaxChanges`, `MaxFaults`,
`MaxLosses` and `MaxCrashes` are budgets, which keep the instances finite.

Assumptions. `QuietSweeps` restricts `kb_settles`: no request is accepted while a worker sweeps and no sweep starts
while a request is in progress. The code does not enforce this. The sweep acts on
names it read earlier, so a rename in the middle of it can lose its row; without
the assumption `FilesSettle` fails even for one request at a time. `kb_settles`
also takes requests one at a time; section 9 says what happens otherwise.
It has no failing statements: a file whose claim was committed but not answered,
or whose failure could not be recorded, stays in processing until a worker next
acquires the lock (`recover` runs only then, and `retry` takes failed rows only).
`ReadyMatchesUntilCrash` is `ReadyMatchesFile` up to the first crash: a crash
between the two steps of a deletion leaves a ready row without its file, which an
upload may adopt before the next sweep (section 9). Setting `QuietSweeps`
to `FALSE` in `MCKbSettles.cfg` shows what rests on it.

Fairness. `FairSpec`: a request that was accepted goes on, and a worker goes on --
to the next step of its loop, or by the loop of `index.ts` to another attempt at
the lock. Nothing makes conversion or embedding succeed.

## 5. The output of a generation

`OutputBuffer` is `run()` between the provider and the message row, at the level
of characters: the filter of `blacklist.ts` (`Push`, `Matches`, the `LookBack` it
withholds), `queueOutput` (`QueueRest`, `Queued`), `flushOutput` (`Suspend`,
`StartWrite`, `Wake`) and the `finally` block (`Finally`, `FinalFlush`). An action
is what runs from one event to the next `await`: `ProviderText`, `ProviderEnds`,
`TimerFires`, the steps of an append (`AppendReads`, `AppendWrites`, `Replied` or
`WriteThrows`), `Abort`, `LoseLease`, `Close`, `Stage`, `Tell`. The main flow and
the timer can both be inside `flushOutput`; when a write settles, the first of
those that wait for it takes what was buffered meanwhile and the others return, all in the
same step (`Wake`); when it throws, it throws for all of them (`WakeThrown`). An
append is three steps, because the lease is checked when the statement reads the
row and the row is finalized by another. Conversation's `Flush`, `FlushReads`,
`FlushLands`, `FlushFails`, `DrainFlush` and `DrainDone` are the same thing in counts.

| Run | Instance | Shows |
|---|---|---|
| output | 4 characters that normalize to 3 letters, terms of 2 and 3 letters, batches of 2, up to 5 characters in events of up to 3, `FairSpec` | `TextInOrder`, `ShownIsStored`, `TermsNeverStored`, `OnlyLateBatchIsMissing`, `RunEnds` |
| late_flush | 2 characters that normalize to themselves, batches of 4, up to 5 characters | a violation of `CompletedIsWhole` (section 9) |

Text and its normalization. The text that is buffered, stored and shown consists of
characters; what the filter compares is what these become under
`normalize("NFD").toLowerCase()`. `Normal` gives the letters a character decomposes into,
`Class` their canonical combining classes, and the marks on one base letter are put in the
order of their classes, across characters (`Swapped`, `Before`). `Matches` looks for a
term in the normalized text; `LookBack` is the length of the longest normalized term and
`Push` cuts with it in characters, as the code does. That is enough as long as
normalization moves no letter of the text (`InOrder`: each character has a letter,
marks come in the order of their classes), however characters expand; `TermsNeverStored`
says so, and section 9 what happens otherwise. Not modelled: a character is one code
unit and normalizes by itself, so surrogate pairs and the final sigma are left out.

Bounds. Events longer than a batch, over a text of two batches and a half, meet every
position of a batch's end within an event and every cut of the terms. The batch
size is the parameter that stands for 1024. The alphabet is the smallest in which
normalization matters: e, two marks of different classes, and the composed e with one of them.

Fairness: the database answers every statement or fails it, the event loop runs what
is ready, the provider's stream ends (its time limit). The timer need not fire.

## 6. The chat client

`ChatClient` is the object `createChatClient` returns, its record in the browser's
storage and the server as far as the client can tell it apart: which messages it
accepted, in which session, and which one is running. The asynchronous functions
are records whose `at` says what they await: `send` (`SendMessage`, `Dispatch`,
`Accepted`, `Rejected`, `Terminal`, `StreamEnds`, `SendFails`), `cancel` (`Stop`, `Undispatched`,
`CancelConfirmed`, `CancelFails`), `poll` (`PollWakes`, `PollConfirms`, `PollLoads`,
`PollRejected`, `PollFails`), initialization (`Initialize`, `InitializeFails`,
`InitializeAgain`, `SessionLoads`), and `StartNewChat`. A send is not over with its terminal
event: it still reads the stream to its end (`send.at = "ending"`), and the user may act, or
the stream break, before that. `Reload` loses the memory
and keeps the storage. A request stays in `inflight` until the server handles it --
in any order, after its sender gave up, or never.

| Run | Instance | Shows |
|---|---|---|
| chat | 2 messages, 1 reload, 2 polls, `FairSpec` | `SentOnce`, `AcceptedIsRecoverable`, `NewChatIsClean`, `BusyHasOwner`, `CancelledNotResent`, `EverythingSettles` |

Bounds. With two messages a second one can meet whatever the first left behind --
its stream, its cancellation, its poll, its turn on the server -- in the same or in a new
session. Two polls are one that may be followed by another and the last one
(`MAX_RECOVERY_POLLS` only sets how many). One reload meets every state once.

Abstractions. An abort rejects the pending `await` before any other callback runs.
Storage is as quick as `localStorage`, except the first write of a send, whose
overtaking by a cancellation the code provides for. Request ids are never reused;
the upper half of `Ids` is there for a resubmission that would invent one. A new chat
starts only while the client offers it (`chat-client.ts:150`); `startNewChat` itself
(572-600) would let a caller start one during an initialization.

Fairness: timers fire, requests are answered or fail, a generation ends. Nothing
makes the user act.

`BusyHasOwner` has two exceptions, which are what the code does. A recovery whose last
poll is used up while a cancellation is under way that then fails is shown as
"recovery" with nothing polling (`poll.at = "spent"`). And between a terminal event
and the end of its stream a new chat finds nothing to cancel (578) and drops the credential;
if the stream then breaks, the client is set to "recovery" (467) without a session to
poll for (213): `credential = 0`, see `MCBrokenEnd.cfg` in section 9.

## 7. Roles and accounts

`Roles` holds the rows of users, roles, grants, memberships and invitations, and the
requests over them. A request `Arrive`s at an instance and is `queued` in
`accessChanges`; `Reserve` takes a connection of the pool, `Lock` the advisory lock;
`Check` is everything the operation reads and decides (`Found`, and `Authorized` for the
ceilings of `managementPermissions`, `requireHeld` and `requireScopedAuthority`), `Write` its
transaction, `Refused` its errors (a name that is taken, a user who is gone since the check:
an undone setup removes an account without the lock), `Unlock` releases both. Redeeming an invitation is its own chain --
`ClaimInvitation`, `ValidateInvitation`, `CreateMember`, `AssignInvitationRoles` --
with the compensations `DropMember` and `UnclaimInvitation`. `BootstrapAdmin`,
`CreateFounder`, `InsertPermissionGrant`, `UndoFounder` run without the lock; the
unique index on the administrator's grant decides between two of them. `Fail` makes the
statement of a step throw and goes where the catch blocks lead (`Catch`); `Crash`
ends an instance with its requests and, with its connection, the lock.

| Run | Instance | Shows |
|---|---|---|
| roles | any 3 requests, 2 at a time on 2 instances, 4 users, 2 roles, 1 invitation, pools of 2, 1 failing statement, 1 crash; a deployment found empty or already staffed | `NothingLeftBehind`, `SomeoneGoesOn`, `NobodyExceedsOwnAccess`, `SoleAdmin` |

Bounds. Two requests at a time are enough to meet a change between any two steps
of another; a third comes after the two or replaces the first. A pool of two is the
smallest in which one connection may be reserved and one is left for the statements
of its holder -- the code's pool is larger, and its margin is what a wrong queue would eat.
The permissions asked for (`MCGlobalSets`, `MCAgentSets`) contain one that the manager
holds, one that only the administrator holds, and one on an agent.

Assumptions. Permissions on agents are those on one agent. Whether a name is taken is
left open. Nobody signs in to an account whose creation is still under way. Statements of
the lock itself do not fail. `NothingLeftBehind` is about runs without failing
statements and crashes: a process that dies between claiming an invitation and
attaching the roles leaves the invitation spent or a user without roles, and a
compensation that fails itself does too; no code repairs that.
`assignInvitationRoles` has a branch for an invitation that is gone meanwhile
(`roles.repository.ts:119-125`, `roles.service.ts:166-168`); what deletes invitations takes the access
lock, which the redeeming request holds, so the branch cannot be reached and is left out.
A statement that fails has no effect: a grant of a setup that is committed but whose reply
is lost would make the setup delete the administrator it has just made
(`roles.service.ts:97-105`).

`SomeoneGoesOn` is deadlock freedom stated for requests: as long as one is unanswered
some request has a step to take. Since no request repeats a step, each one ends.

## 8. Proofs

TLAPS checks the theorems below for every value of the constants that satisfies the
assumptions the modules name: `LimitsAssumption`, `NoneAssumption` and
`ProcessAssumption` for Conversation, `BoundsAssumption`, `NoneIsNoValue` and
`NoneIsNoRecord` for KnowledgeBase, `OutputAssumption` for OutputBuffer, `ChatAssumption`
for ChatClient, `RolesAssumption` and `NoneAssumption` for Roles, `TransactionAssumption` for
AcceptanceTx. They say that bounds are
numbers, that `None` is none of the values it stands beside, that characters normalize to
sequences of letters with a class each, and of the blacklist that no
term is empty and one of them is the longest, as in any finite list.

**Conversation**

* `ConversationProofs`: **TypeCorrect**, `Spec => []TypeOK`. `TypeOK` is inductive
  by itself; one lemma per group of statements of the store and one per kind of
  process. It is more than typing where numbers are concerned: no flush takes
  more than the buffer holds.
  In its second part: **SerialTurns** (`OneActiveTurn`), **HistoryIsLinear**
  (`LinearHistory`) and **ServiceImplementsTurnLog** (`ImplementsTurnLog`).
  The inductive invariant `TurnInv` adds to those: the attempt's columns agree
  (`RowsAgree`), prompts hold completed turns only (`PromptsCompleted`), a
  conversation at revision 0 has none (`ZeroRevision`), and -- the heart of it --
  `SnapshotSound`: a snapshot whose revision is still current holds exactly the
  completed turns, although its messages were read in a later statement. Every
  step is first classified by what it does to the turns (nothing, mark one running,
  interrupt some, end one, accept one); each class then preserves each conjunct
  and maps to a step of `TurnLog` or a stutter.
* `UsageProofs`: **UsageRecordedOnce** (`UsageOnce`), **ReportedIsRecorded**
  (`SuccessIsRecorded`), **CompletedTextIsWhole** (`CompletedTextAccounted`) and
  **EndedStaysEnded** (the action property `EndedIsFinal`). `UsageInv` is a statement about
  each attempt by itself: outcome and staged count are stored together (`EndingSound`), a
  recording job that has read them carries that count, whichever pass it belongs to
  (`JobSound`), stored, flying and buffered text add up to what the provider produced
  as long as the outcome can still become "completed" (`RunSound`), and what a stream
  reported is recorded (`ToldSound`). For an interrupted attempt jobs may carry
  different counts, which is why `UsageOnce` allows for it and why `two_recoveries`
  finds what it finds.
* `AdmissionProofs`: **RevisionsCount** (`RevisionCountsCompleted`), **CapHolds**
  (`NetworkCap`), **AllowanceIsExact** (`AllowanceExact`), **RequestsNameOneTurn**
  (`RequestsAreIdempotent`) and **RevocationIsImmediate** (`RevokedAcceptsNothing`). They
  build on `TurnInv` and `UsageInv`. Counting needs that the set of accepted attempts
  is finite: it starts empty and grows by one at an acceptance and at no other step.
  Pruning and midnight leave today's counter alone, so the allowance is exact on every
  day. `RequestInv`: an answer agrees with a row, rows are final, and a row is added
  only where no row of its conversation has the request id.

**The transactions**

* `AcceptanceTxProofs`: **TransactionTypes** (`TypeOK`), **DeadlocksAreOfUpdates**
  (`OnlyUpdatesDeadlock`), **TransactionsAreAtomic** (`ImplementsAcceptance`),
  **HistoryIsCurrent** (`AnswersCurrentHistory`) and **LimitsHold** (one turn in progress, one
  attempt for a request, the cap of a network), for any number of connections. The inductive
  invariant `Inv` says of each transaction what it may rely on at its next statement (`Sound`): which
  kind of call it is (`StageOK`); that it holds exactly the locks it has passed (`HoldsOK`); that the rows it
  has marked are still as it chose them, and that an acceptance which has looked for expired
  attempts around it has missed none (`RowsOK`); and that each check it has passed would pass
  again (`ChecksOK`). Two facts make that inductive. What a step of others may do to the tables
  is bounded by the locks they held (`Respects`: it adds attempts only where it holds the conversation's and the
  network's lock, ends nothing whose row is locked, changes no embed that is locked, and never brings an
  attempt back or a deadline forward), so soundness survives it (`OthersKept`). And a lock has one
  holder (`Exclusive`). Renewals need a fact of their own, because they move a deadline by writing
  `start + LeaseTime`: an attempt is renewed by one poller at a time (`RenewalsApart`), and nothing
  else puts its deadline further off, so a renewal that waited for its rows does not bring one forward.
  With `Inv`, a commit is the step of `Acceptance` of the same name, since all its guards
  still hold; every other step leaves the tables alone. Deadlocks follow from `HoldsOK` alone: a
  transaction that waits for a conversation waits for one that is further, and so on to the rows, which
  only multi-row UPDATEs wait for and hold (`WaitsForLater`). The last two theorems are proved of
  the steps of `Acceptance` (`AtomicKeeps`) and hold of the transactions because they implement it.

**The knowledge base**

* `KnowledgeBaseProofs`: **TypeCorrect**, **SearchIsConsistent**
  (`SearchableIsEmbedded`) and **FencedWorkers** (`StaleWorkerIsFenced`). The
  inductive invariant `IInv` adds that a present row has a name (`NamedRow`) and
  that a worker holds what its step needs (`Equipped`: a model from `Poll` on, a
  name to convert, a content to embed and commit) -- without it a commit could
  store chunks of nothing. `SearchableIsEmbedded` is part of it. The fence rests
  on `OnlyClaimSettles`: of all statements, only the one of the claim itself can
  make a file in progress ready or failed.
  **SweepIsComplete** (`SweepReconciles`): `SweepInv` says, for each step of a sweep during which
  no request and no other sweep has written so far (`calm`), what it has established about the names with a
  file (`Stored`) and those with a row (`Listed`): those not yet looked at, found
  missing or not yet enqueued are the only ones on which the two may differ (`Swept`).
  Workers elsewhere, crashed ones and lock holders that lost their connection change no
  name (`SameNames`), so the result outlives the sweep until the next request or sweep.
  **ReadyIsFresh** (`ReadyMatchesUntilCrash`), under the assumptions of run `kb_settles`:
  one request at a time, none during a sweep, no failing statement, no crash yet -- but for
  any number of names, contents, models, instances, configuration changes and lost
  connections. `FreshInv` has four parts: how far the directory is ahead of the rows at
  each step of the request (`Ahead`); which bytes belong to a row whose file is being
  moved (`Bytes`), and that a ready row was made from these (`ReadySound`); that a job which
  is still its row's current one works on its row's bytes (`JobSound`) -- a row that is
  renamed, deleted or requeued takes the claim back, which is why an outdated job cannot
  commit; and that a sweep finds nothing to do (`Restful`). Without those assumptions the
  property fails: `MCKbAdopted.cfg` of section 9 shows what a statement
  that fails or loses its reply leaves behind.

**Roles and accounts**

* `RolesProofs`: **RolesTypeCorrect**, **AdministratorIsFinal** (`SoleAdmin`),
  **AccessIsBounded** (`NobodyExceedsOwnAccess`) and **NothingIsLeftBehind**
  (`NothingLeftBehind`). `LockInv` first: of all requests past the lock's acquisition there is one,
  and it is the lock's holder; each is in its instance's queue, and heads it once it has
  a connection. With that, what a check established is still so when the statement runs
  (`CheckSound`), although setups run outside the lock: a setup grants access only where
  there is no administrator, and then nobody holds a role, so no check has passed
  (`AccessSound`); and it removes only the account it made, which is nobody's operator
  and has sent no invitation (`NewSound`). `NothingLeftBehind` follows from naming, for
  every account and invitation that is half-way, the request that is at it and the step
  it is at (`LeftSound`, `UseSound`).
  **SomeoneWaitsForNobody** is what can be said of `SomeoneGoesOn` without ENABLED: as long as a
  request is unanswered, one of them waits for nothing (`NoStandstill`) -- neither for its
  turn, nor the lock, nor a connection. A queue holds live changes of its own instance, each
  once (`LineSound`), so its head is there to go on; only the head has reserved a connection,
  so an instance whose pool has two always has one for the statements of the lock's holder
  (`PoolSuffices`).

**The output of a generation**

* `OutputProofs`: **OutputTypeCorrect**, **StoredInOrder** (`TextInOrder`),
  **ShownWasStored** (`ShownIsStored`), **BlacklistHolds** (`TermsNeverStored`) and
  **CompletedMissesOnlyLateBatch** (`OnlyLateBatchIsMissing`). The argument is one of
  conservation: text that is not stored yet is in the write in flight, the buffer, the
  rest of the batch being queued or the filter's look-back, in this order (`Kept`), and
  `message \o Kept(run)` is what the provider said until a write fails (`TextSound`).
  That needs to know which buffers may hold text at which step, that the main flow is in
  flight or waits at most once, and that a failed output writes no more (`Shape`): without it
  two flushes could take the buffer in turn and store it in the other order. When the
  provider fails, an abort cuts in or a write throws, what was being queued is dropped and the look-back
  still written, so the stored text has one hole, which `Skipped` describes by three texts
  and their concatenations; shown text is treated in the same way (`SeenSound`). For the
  blacklist: where normalization moves no letter (`InOrder`, which passes to every part of a
  text: `SliceInOrder`), a term occurs as consecutive letters, and as each character
  has a letter, it spans no more characters than the longest term has letters
  (`OccursSpan`). One that is complete only with a new event ends in it, so it begins
  within the look-back and the filter sees all of it (`MatchesHeld`, from `PendingSound`: the
  look-back is the end of what was said, as long as a term can be). Each helper of the code
  (`Suspend`, `QueueRest`, `Push`, `Finally`, `Wake`, `WakeThrown`, ...) has a lemma that says
  what becomes of the shape and of the text; the steps follow from these.

**The chat client**

* `ChatClientProofs`: **ChatTypeCorrect**, **MessagesSentOnce** (`SentOnce`),
  **AcceptedStaysRecoverable** (`AcceptedIsRecoverable`), **FormerChatStaysGone**
  (`NewChatIsClean`), **BusyClientHasOwner** (`BusyHasOwner`) and
  **CancelledStaysUnsent** (the action property `CancelledNotResent`). The inductive
  invariant `ChatInv` has a part for each concern. Who may act at a time: no poll runs
  while a send does, a cancellation before acceptance lets neither run, one after it may
  outlive what it interrupted (`SendSound`, `CancelSound`, `WorkSound`). Whom each call in
  flight belongs to: at most one for each, besides those given up (`CallSound`). What is
  stored is what is in memory, unless the page has just been loaded (`MemorySound`). A
  message has one session, whoever carries it -- a call, the send, the memory or the
  storage (`OneSession`) -- and a session is known to nobody but the send that created it
  until that has been answered (`FreshSound`), which is what lets a rejected or
  undispatched first message drop it. What was cancelled before acceptance has no copy
  left (`DropSound`). And a client without a session is idle, but for the broken stream of
  `BusyHasOwner`'s second exception (`LostSound`); between terminal event and stream end a
  send owns nothing but that stream. Steps that end what the client does (`StopsWork`), continue a recovery
  (`PollGoesOn`), forget (`Forgetful`) or answer a call (`Handles`) are each proved once
  and used by all the actions of the kind.

Model-checked only is what the prover cannot reach: the liveness properties
(`CancelTakesEffect`, `AttemptsEnd`, `UsageEventuallyRecorded`, `FilesSettle`, `RunEnds`,
`EverythingSettles`) and `SomeoneGoesOn`, which is about ENABLED: that the step of a request
which waits for nothing has an outcome in every state is what TLC adds to
**SomeoneWaitsForNobody**.

## 9. Findings and known limitations

Runs that show a disagreement between the code and what the repository says of it:

* `kb_model_change` -- `docs/specs/2026-09-26-agent-file-embedding-design.md:25`: "A
  change automatically queues existing files for re-embedding." A change in the middle of
  a batch does not: the batch keeps its model, and requeues and claims the same
  file for ever, calling the provider each time.
* `late_flush` -- `conversation.integration.test.ts:1129` asserts that after the
  terminal event the stored text is everything the provider produced. `flushOutput`
  returns when, after waiting for another write, it finds the buffer empty
  (`conversation.service.ts:264-267`), although the timer, which waited for the same write
  and resumed first, is writing the last batch just then. The attempt is finalized, the
  append is refused, and a completed answer lacks its last batch. `OnlyLateBatchIsMissing`
  says that this is all that can be missing.
* `two_recoveries` -- `docs/specs/2026-09-11-end-user-chat-design.md:151`: "interrupted
  finalization must be recoverable without double counting." Two passes of two instances that
  list an interrupted attempt before and after its last write lands estimate different
  counts; one stages its own, the other inserts its own (`conversation.service.ts:181-207`),
  and every later pass throws `UsageConflictError` on the attempt. As `send` and `getSession`
  await a pass, every later request fails with it.

Further disagreements, each with a configuration that finds its counterexample:

* `MCExposure.cfg` (`MCConversation`, `UsageBeforeSuccess`) --
  `docs/specs/2026-09-11-end-user-chat-design.md:151`: "Idempotent usage recording must
  finish before exposing successful finalization." The runner keeps it
  (`SuccessIsRecorded`), but a *repeated* request is answered from the attempt's
  status alone (`conversation.service.ts:578`) and can be told "completed" in between.
  The usage is still recorded in the end, overlapping passes aside
  (`UsageEventuallyRecorded`).
* `MCKbAdopted.cfg` (`MCKnowledgeBase`, `ReadyMatchesFile`) -- line 23 of the embedding
  design: "generation checks prevent old results from overwriting new work." `enqueue`
  adopts an existing row without touching its generation, status or chunks, so a row that
  outlived its file -- after a reply lost by an upload, or a deletion whose row statement
  failed -- passes old chunks off as those of the new file.
* `MCKbLost.cfg` (`MCKnowledgeBase`, `FilesSettle` with two requests at a time) -- line 9:
  "Every uploaded file is converted and chunked". An upload that overlaps a deletion of
  the same name loses its row to it; until a worker next starts, the file is listed as
  pending and nothing converts it.
* `MCStopRecovery.cfg` (`MCChatClient`, `PendingIsRecovered`) --
  `packages/sdk/src/chat-client.ts:344` refuses a message because
  "The pending message must be recovered before sending another message". Stopping the
  response while such a message is being recovered aborts the recovery and keeps it
  pending (`cancelResponse` drops it only for a send of this page, line 505): nothing
  recovers it and nothing can be sent until the page is loaded again.
* `MCLateCancel.cfg` (`MCChatClient`, `CancelSparesLaterSend`) -- `chat-client.ts:544`
  keeps the state of "a concurrent transition" when a cancellation settles. A
  cancellation confirmed after its answer had already ended stops the message sent since.
* `MCBrokenEnd.cfg` (`MCChatClient`, `RecoversSomething`) -- the client calls "recovery" what it is
  recovering (`chat-client.ts:172`). After a terminal event (432-441) the send still awaits the
  stream's end. A new chat in between skips the cancellation, as nothing is generating (578), and
  clears the credential; a stream that then breaks sets "recovery" (467-469), and
  `beginSessionRecoveryPolling` returns for want of a session (213).
* `MCReordered.cfg` (`MCOutputBuffer`, `CompletedIsClean`) -- `blacklist.ts:14`: "Guard chunk-split
  matches: hold back one longest-word tail since emitted text cannot be recalled". The tail
  is as long as the longest *normalized* term (line 4) but cut in raw characters (30-33). With the
  term e + U+0323, the events "e U+0301 U+0301" and "U+0323" release the e before the dot
  arrives that normalization puts next to it, and the answer is stored and completed.

Also seen while modelling: a hole in a *failed* answer, left by an append that threw and was
awaited by `queueOutput`, may join two ends into a blacklisted term (`TermsNeverStored`
excludes it by `IsPrefix`); and a cancellation that reaches the server before the message it cancels, in a
session that exists, is confirmed although the message is accepted afterwards.

## 10. Not modelled

HTTP and SSE framing, validation and error texts; session token signatures; sign-in and
sessions; tool calls; retrieval (its failure is part of `PrepareFails` or has no effect);
the poller's timer; a storage of the browser that fails; the removal of an agent with all
that hangs from it (rows by cascade, its upload directory); everything listed as
`not_modelled` in `PROJECT.json`, with the plan above for the parts that have
behaviour worth modelling. The web application, the UI package, the documentation site and
the generated API clients are presentation: they keep no state that another part relies on.
