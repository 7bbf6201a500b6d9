--------------------------- MODULE KnowledgeBase ---------------------------
(***************************************************************************)
(* Uploaded files of one agent: the bytes on disk, the rows of agent_file   *)
(* and agent_file_chunk, the operators' requests that change both in two    *)
(* steps, and the ingestion worker of each instance                        *)
(* (knowledge-base.service.ts, .repository.ts and .worker.ts).              *)
(*                                                                         *)
(* A row's generation number is represented by what it decides: claim names *)
(* the worker whose job still carries it.  Claiming names the worker, and   *)
(* every statement that increments the generation names nobody.             *)
(***************************************************************************)
EXTENDS Integers, FiniteSets

CONSTANTS
    Names,       \* file names
    Contents,    \* bytes a file may have
    Models,      \* fingerprints of embedding configurations
    Instances,   \* API processes, each with its ingestion worker
    Requests,    \* concurrent operator requests
    MaxRows,     \* bound on the rows ever inserted
    MaxRequests, \* bound on operator requests
    MaxChanges,  \* bound on configuration changes
    MaxFaults,   \* bound on failing database statements
    MaxLosses,   \* bound on lost connections of a worker
    MaxCrashes,  \* bound on process deaths
    QuietSweeps, \* assume that requests and startup sweeps never overlap
    None

ASSUME BoundsAssumption ==
    /\ MaxRows \in Nat /\ MaxRequests \in Nat /\ MaxChanges \in Nat
    /\ MaxFaults \in Nat /\ MaxLosses \in Nat /\ MaxCrashes \in Nat
    /\ QuietSweeps \in BOOLEAN

ASSUME NoneIsNoValue == None \notin Names \cup Contents \cup Models \cup Instances

VARIABLES
    disk,     \* content of each name in the agent's directory, or None
    file,     \* the rows of agent_file, by the order of their creation
    chunks,   \* what a row's chunks were made from, and with which model
    config,   \* the embedding configuration in force, None if unusable
    lock,     \* holder of the worker's advisory lock
    request,  \* the step each operator request has reached
    worker,   \* the step each instance's worker has reached
    calm,     \* history: nobody else wrote since this worker's sweep began
    left      \* what remains of the bounds

vars == <<disk, file, chunks, config, lock, request, worker, calm, left>>

Rows    == 1..MaxRows
Present == {"pending", "processing", "ready", "failed"}
Row     == [name : Names \cup {None}, status : Present \cup {"unused", "deleted"},
            model : Models \cup {None}, claim : Instances \cup {None}]
Chunks  == [content : Contents, model : Models]
Request == [kind : {"upload", "rename", "delete", "retry"}, name : Names, to : Names,
            step : {"row", "unlink", "undo", "undoUnlink"}, at : Instances]
Sweeping == {"recover", "list", "stat", "purge", "scan", "enqueue"}
Working  == {"convert", "embed", "check", "commit", "requeue", "fail"}
Worker  == [pc : {"off", "poll", "reindex", "claim", "claiming"} \cup Sweeping \cup Working,
            row : Rows \cup {0}, name : Names \cup {None}, model : Models \cup {None},
            content : Contents \cup {None}, todo : SUBSET Names, found : SUBSET Names]
Bounds  == [requests : 0..MaxRequests, changes : 0..MaxChanges,
            faults : 0..MaxFaults, losses : 0..MaxLosses, crashes : 0..MaxCrashes]

ASSUME NoneIsNoRecord == None \notin Chunks \cup Request

Idle == [pc |-> "off", row |-> 0, name |-> None, model |-> None, content |-> None,
         todo |-> {}, found |-> {}]

TypeOK ==
    /\ disk \in [Names -> Contents \cup {None}]
    /\ file \in [Rows -> Row]
    /\ chunks \in [Rows -> Chunks \cup {None}]
    /\ config \in Models \cup {None}
    /\ lock \in Instances \cup {None}
    /\ request \in [Requests -> Request \cup {None}]
    /\ worker \in [Instances -> Worker]
    /\ calm \in [Instances -> BOOLEAN]
    /\ left \in Bounds

Init ==
    /\ disk = [n \in Names |-> None]
    /\ file = [r \in Rows |-> [name |-> None, status |-> "unused", model |-> None,
                               claim |-> None]]
    /\ chunks = [r \in Rows |-> None]
    /\ config \in Models
    /\ lock = None
    /\ request = [o \in Requests |-> None]
    /\ worker = [i \in Instances |-> Idle]
    /\ calm = [i \in Instances |-> FALSE]
    /\ left = [requests |-> MaxRequests, changes |-> MaxChanges,
               faults |-> MaxFaults, losses |-> MaxLosses, crashes |-> MaxCrashes]

Spend(bound) == left[bound] > 0 /\ left' = [left EXCEPT ![bound] = @ - 1]

-----------------------------------------------------------------------------
(* The statements of the repository.                                       *)

RowsWith(s)  == {r \in Rows : file[r].status = s}
RowsNamed(n) == {r \in Rows : file[r].status \in Present /\ file[r].name = n}

Requeued(S) == [r \in Rows |-> IF r \in S
    THEN [file[r] EXCEPT !.status = "pending", !.claim = None] ELSE file[r]]

Oldest(S) == {r \in S : \A q \in S : r <= q}

Enqueue(n) ==      \* the insertion does nothing on conflict
    \/ RowsNamed(n) # {} /\ UNCHANGED file
    \/ /\ RowsNamed(n) = {}
       /\ \E r \in Oldest(RowsWith("unused")) :
            file' = [file EXCEPT ![r] = [name |-> n, status |-> "pending",
                                          model |-> None, claim |-> None]]

\* Mutation: a file in progress keeps its row.
RemoveRow_Idle(n) ==
    LET S == RowsNamed(n) \ RowsWith("processing") IN
    /\ file' = [r \in Rows |-> IF r \in S
                  THEN [file[r] EXCEPT !.status = "deleted", !.name = None,
                         !.model = None, !.claim = None] ELSE file[r]]
    /\ chunks' = [r \in Rows |-> IF r \in S THEN None ELSE chunks[r]]

RemoveRow(n) ==      \* the chunks go with their row
    /\ file' = [r \in Rows |-> IF r \in RowsNamed(n)
                  THEN [file[r] EXCEPT !.status = "deleted", !.name = None,
                         !.model = None, !.claim = None] ELSE file[r]]
    /\ chunks' = [r \in Rows |-> IF r \in RowsNamed(n) THEN None ELSE chunks[r]]

\* Mutation: a file in progress is renamed without being given back.
RenameRow_KeepsStatus(n, m) ==
    /\ RowsNamed(n) = {} \/ RowsNamed(m) = {}
    /\ file' = [r \in Rows |-> IF r \in RowsNamed(n)
                  THEN [file[r] EXCEPT !.name = m, !.claim = None] ELSE file[r]]

RenameRow(n, m) ==      \* (agent, name) is unique
    /\ RowsNamed(n) = {} \/ RowsNamed(m) = {}
    /\ file' = [r \in Rows |-> IF r \in RowsNamed(n)
                  THEN [file[r] EXCEPT !.name = m, !.claim = None,
                          !.status = IF @ = "processing" THEN "pending" ELSE @]
                  ELSE file[r]]

\* Mutation: the generation is not compared.
Claimed_AnyGeneration(i) ==
    /\ worker[i].row \in Rows
    /\ file[worker[i].row].status = "processing"

Claimed(i) ==      \* the job's row is still processing under its generation
    /\ worker[i].row \in Rows
    /\ file[worker[i].row].status = "processing"
    /\ file[worker[i].row].claim = i

\* A ready row keeps its chunks until their replacement is complete.
ReindexRows(model) == file' = Requeued({r \in RowsWith("ready") \cup RowsWith("failed") :
                                          file[r].model # model})

ClaimRow(i, r) == file' = [file EXCEPT ![r].status = "processing", ![r].claim = i,
                                       ![r].model = worker[i].model]

CompleteRow(i) ==
    LET w == worker[i] IN
    IF Claimed(i)
    THEN /\ file' = [file EXCEPT ![w.row].status = "ready", ![w.row].model = w.model]
         /\ chunks' = [chunks EXCEPT ![w.row] = [content |-> w.content, model |-> w.model]]
    ELSE UNCHANGED <<file, chunks>>

\* Mutation: a file that has chunks is shown as it was before the claim.
RequeueRow_AsItWas(i) ==
    file' = IF ~Claimed(i) THEN file
            ELSE [file EXCEPT ![worker[i].row].status =
                    IF chunks[worker[i].row] = None THEN "pending" ELSE "ready"]

RequeueRow(i) ==      \* the generation does not change
    file' = IF Claimed(i) THEN [file EXCEPT ![worker[i].row].status = "pending"] ELSE file

FailRow(i) ==
    file' = IF Claimed(i) THEN [file EXCEPT ![worker[i].row].status = "failed"] ELSE file

-----------------------------------------------------------------------------
(* Operator requests.  upload, rename and deleteFile change the directory   *)
(* first and the row second.                                               *)

Accept(o, i, kind, n, m, step) ==
    /\ request[o] = None
    /\ Spend("requests")
    /\ request' = [request EXCEPT ![o] =
         [kind |-> kind, name |-> n, to |-> m, step |-> step, at |-> i]]

At(o, kind, step) == request[o] # None /\ request[o].kind = kind /\ request[o].step = step
Goto(o, step)     == request' = [request EXCEPT ![o].step = step]
Answer(o)         == request' = [request EXCEPT ![o] = None]
KeepBounds        == UNCHANGED left

\* A write is followed by a stat, which throws when the file is gone again.
Unstored(o, n) == disk[n] = None /\ Answer(o) /\ KeepBounds

UploadPut(o, i) == \E n \in Names, d \in Contents :
    /\ disk[n] = None
    /\ Accept(o, i, "upload", n, n, "row")
    /\ disk' = [disk EXCEPT ![n] = d]
    /\ UNCHANGED <<file, chunks>>

UploadRow(o) ==
    /\ At(o, "upload", "row")
    /\ \/ Enqueue(request[o].name) /\ Answer(o) /\ KeepBounds
       \/ /\ Spend("faults") /\ Goto(o, "undo")
          /\ Enqueue(request[o].name) \/ UNCHANGED file
       \/ Unstored(o, request[o].name) /\ UNCHANGED file
    /\ UNCHANGED <<disk, chunks>>

\* The compensation removes whatever is stored under the name now.
UploadUndo(o) ==
    /\ At(o, "upload", "undo")
    /\ disk' = [disk EXCEPT ![request[o].name] = None]
    /\ Answer(o)
    /\ UNCHANGED <<file, chunks, left>>

DeleteUnlink(o, i) == \E n \in Names :
    /\ Accept(o, i, "delete", n, n, "row")
    /\ disk' = [disk EXCEPT ![n] = None]
    /\ UNCHANGED <<file, chunks>>

DeleteRow(o) ==
    /\ At(o, "delete", "row")
    /\ \/ RemoveRow(request[o].name) /\ KeepBounds
       \/ /\ Spend("faults")
          /\ RemoveRow(request[o].name) \/ UNCHANGED <<file, chunks>>
    /\ Answer(o)
    /\ UNCHANGED disk

\* Renaming a file is a copy that never overwrites, then an unlink.
RenameCopy(o, i) == \E n, m \in Names :
    /\ disk[n] # None /\ disk[m] = None
    /\ Accept(o, i, "rename", n, m, "unlink")
    /\ disk' = [disk EXCEPT ![m] = disk[n]]
    /\ UNCHANGED <<file, chunks>>

RenameUnlink(o) ==
    LET n == request[o].name IN
    /\ At(o, "rename", "unlink")
    /\ \/ disk[n] # None /\ Goto(o, "row")
       \/ disk[n] = None /\ Answer(o)      \* ENOENT: the copy stays
    /\ disk' = [disk EXCEPT ![n] = None]
    /\ UNCHANGED <<file, chunks, left>>

RenameFileRow(o) ==
    LET n == request[o].name  m == request[o].to IN
    /\ At(o, "rename", "row")
    /\ \/ RenameRow(n, m) /\ Answer(o) /\ KeepBounds
       \/ /\ RowsNamed(n) # {} /\ RowsNamed(m) # {}
          /\ Goto(o, "undo") /\ UNCHANGED file /\ KeepBounds
       \/ /\ Spend("faults") /\ Goto(o, "undo")
          /\ RenameRow(n, m) \/ UNCHANGED file
       \/ Unstored(o, m) /\ UNCHANGED file
    /\ UNCHANGED <<disk, chunks>>

RenameUndo(o) ==
    LET n == request[o].name  m == request[o].to IN
    /\ At(o, "rename", "undo")
    /\ \/ /\ disk[m] # None /\ disk[n] = None
          /\ disk' = [disk EXCEPT ![n] = disk[m]]
          /\ Goto(o, "undoUnlink")
       \/ /\ disk[m] = None \/ disk[n] # None
          /\ Answer(o) /\ UNCHANGED disk
    /\ UNCHANGED <<file, chunks, left>>

RenameUndoUnlink(o) ==
    /\ At(o, "rename", "undoUnlink")
    /\ disk' = [disk EXCEPT ![request[o].to] = None]
    /\ Answer(o)
    /\ UNCHANGED <<file, chunks, left>>

RetryCheck(o, i) == \E n \in Names :
    /\ disk[n] # None
    /\ Accept(o, i, "retry", n, n, "row")
    /\ UNCHANGED <<disk, file, chunks>>

RetryRow(o) ==
    /\ At(o, "retry", "row")
    /\ \/ /\ file' = Requeued({r \in RowsNamed(request[o].name) :
                                 file[r].status = "failed"})
          /\ KeepBounds
       \/ Spend("faults") /\ UNCHANGED file
    /\ Answer(o)
    /\ UNCHANGED <<disk, chunks>>

Begin(o) ==
    /\ QuietSweeps => \A i \in Instances : worker[i].pc \notin Sweeping
    /\ \E i \in Instances :
         UploadPut(o, i) \/ DeleteUnlink(o, i) \/ RenameCopy(o, i) \/ RetryCheck(o, i)

Proceed(o) ==
    \/ UploadRow(o) \/ UploadUndo(o) \/ DeleteRow(o)
    \/ RenameUnlink(o) \/ RenameFileRow(o) \/ RenameUndo(o) \/ RenameUndoUnlink(o)
    \/ RetryRow(o)

Operating == /\ calm' = [i \in Instances |-> FALSE]
             /\ UNCHANGED <<config, lock, worker>>

-----------------------------------------------------------------------------
(* runIngestion: the startup sweep of the worker that gets the lock.       *)

Move(i, pc) == worker' = [worker EXCEPT ![i].pc = pc]
Stop(i)     == worker' = [worker EXCEPT ![i] = Idle]      \* runIngestion throws
Released(i) == IF lock = i THEN None ELSE lock            \* ... finally unlocks
Sweeps(i)   == calm' = [j \in Instances |-> j = i /\ calm[i]]
KeepCalm    == UNCHANGED calm
KeepFiles   == UNCHANGED <<disk, file, chunks>>

Acquire(i) ==
    /\ worker[i].pc = "off"
    /\ lock = None
    /\ QuietSweeps => \A o \in Requests : request[o] = None
    /\ lock' = i
    /\ Move(i, "recover")
    /\ KeepFiles /\ KeepCalm /\ KeepBounds

Recover(i) ==
    /\ worker[i].pc = "recover"
    /\ file' = Requeued(RowsWith("processing"))
    /\ Move(i, "list")
    /\ calm' = [j \in Instances |-> j = i]
    /\ UNCHANGED <<disk, chunks, lock, left>>

\* reconcileDanglingRows: list the rows, stat each file, remove what is missing.
ListRows(i) ==
    /\ worker[i].pc = "list"
    /\ worker' = [worker EXCEPT ![i].pc = "stat", ![i].found = {},
         ![i].todo = {n \in Names : RowsNamed(n) # {}}]
    /\ Sweeps(i) /\ KeepFiles /\ UNCHANGED <<lock, left>>

StatFile(i) == \E n \in worker[i].todo :
    /\ worker[i].pc = "stat"
    /\ worker' = [worker EXCEPT ![i].todo = @ \ {n},
         ![i].found = IF disk[n] = None THEN @ \cup {n} ELSE @]
    /\ Sweeps(i) /\ KeepFiles /\ UNCHANGED <<lock, left>>

StatsDone(i) ==
    /\ worker[i].pc = "stat" /\ worker[i].todo = {}
    /\ worker' = [worker EXCEPT ![i].pc = "purge", ![i].todo = worker[i].found]
    /\ Sweeps(i) /\ KeepFiles /\ UNCHANGED <<lock, left>>

PurgeRow(i) == \E n \in worker[i].todo :
    /\ worker[i].pc = "purge"
    /\ RemoveRow(n)
    /\ worker' = [worker EXCEPT ![i].todo = @ \ {n}]
    /\ Sweeps(i) /\ UNCHANGED <<disk, lock, left>>

\* recoverUploads: list the directory, stat each file, give each a row.  A file
\* that is gone by then ends the sweep with an exception.
ListDirectory(i) ==
    /\ worker[i].pc = "purge" /\ worker[i].todo = {}
    /\ worker' = [worker EXCEPT ![i].pc = "scan", ![i].todo = {n \in Names : disk[n] # None}]
    /\ Sweeps(i) /\ KeepFiles /\ UNCHANGED <<lock, left>>

ScanFiles(i) ==
    /\ worker[i].pc = "scan"
    /\ IF \E n \in worker[i].todo : disk[n] = None
       THEN Stop(i) /\ lock' = Released(i)
       ELSE Move(i, "enqueue") /\ UNCHANGED lock
    /\ Sweeps(i) /\ KeepFiles /\ UNCHANGED left

\* Mutation: only files that have a row already are given one.
RecoverUpload_Known(i) == \E n \in worker[i].todo :
    /\ worker[i].pc = "enqueue"
    /\ worker' = [worker EXCEPT ![i].todo = @ \ {n}]
    /\ Sweeps(i) /\ KeepFiles /\ UNCHANGED <<lock, left>>

RecoverUpload(i) == \E n \in worker[i].todo :
    /\ worker[i].pc = "enqueue"
    /\ Enqueue(n)
    /\ worker' = [worker EXCEPT ![i].todo = @ \ {n}]
    /\ Sweeps(i) /\ UNCHANGED <<disk, chunks, lock, left>>

SweepDone(i) ==
    /\ worker[i].pc = "enqueue" /\ worker[i].todo = {}
    /\ Move(i, "poll")
    /\ Sweeps(i) /\ KeepFiles /\ UNCHANGED <<lock, left>>

Sweep(i) ==
    \/ Recover(i) \/ ListRows(i) \/ StatFile(i) \/ StatsDone(i) \/ PurgeRow(i)
    \/ ListDirectory(i) \/ ScanFiles(i) \/ RecoverUpload(i) \/ SweepDone(i)

-----------------------------------------------------------------------------
(* The polling loop and processPendingFiles.  The connection that holds the *)
(* lock is tested before claiming, embedding and completing; the statements *)
(* themselves use other connections and may run after it is lost.          *)

Polling == KeepCalm /\ UNCHANGED <<disk, left>>

Poll(i) ==
    /\ worker[i].pc = "poll" /\ lock = i
    /\ config # None
    /\ worker' = [worker EXCEPT ![i].pc = "reindex", ![i].model = config]
    /\ Polling /\ UNCHANGED <<file, chunks, lock>>

ReindexChanged(i) ==
    /\ worker[i].pc = "reindex"
    /\ ReindexRows(worker[i].model)
    /\ Move(i, "claim")
    /\ Polling /\ UNCHANGED <<chunks, lock>>

TestClaim(i) ==
    /\ worker[i].pc = "claim" /\ lock = i
    /\ Move(i, "claiming")
    /\ Polling /\ UNCHANGED <<file, chunks, lock>>

\* The oldest pending file; the batch ends when there is none.
Claim(i) ==
    /\ worker[i].pc = "claiming"
    /\ \/ \E r \in Oldest(RowsWith("pending")) :
            /\ ClaimRow(i, r)
            /\ worker' = [worker EXCEPT ![i].pc = "convert", ![i].row = r,
                                        ![i].name = file[r].name]
       \/ RowsWith("pending") = {} /\ Move(i, "poll") /\ UNCHANGED file
    /\ Polling /\ UNCHANGED <<chunks, lock>>

\* Mutation: a missing file is converted to nothing instead of failing.
Convert_Missing(i) ==
    /\ worker[i].pc = "convert"
    /\ worker' = [worker EXCEPT ![i].pc = "embed", ![i].content = disk[worker[i].name]]
    /\ Polling /\ UNCHANGED <<file, chunks, lock>>

\* Docling may fail or find no text; the file may be gone.
Convert(i) ==
    /\ worker[i].pc = "convert"
    /\ \/ /\ disk[worker[i].name] # None
          /\ worker' = [worker EXCEPT ![i].pc = "embed",
                                      ![i].content = disk[worker[i].name]]
       \/ Move(i, "fail")
    /\ Polling /\ UNCHANGED <<file, chunks, lock>>

Embed(i) ==
    /\ worker[i].pc = "embed"
    /\ \/ lock = i /\ Move(i, "check")
       \/ Move(i, "fail")
    /\ Polling /\ UNCHANGED <<file, chunks, lock>>

\* complete: a lost connection fails the file; a changed configuration, or
\* an unusable one, gives it back.
Check(i) ==
    /\ worker[i].pc = "check"
    /\ Move(i, IF lock # i THEN "fail"
               ELSE IF config = worker[i].model THEN "commit" ELSE "requeue")
    /\ Polling /\ UNCHANGED <<file, chunks, lock>>

NextJob(i) == worker' = [worker EXCEPT ![i].pc = "claim", ![i].row = 0,
                                       ![i].name = None, ![i].content = None]

Commit(i) ==
    /\ worker[i].pc = "commit"
    /\ CompleteRow(i)
    /\ NextJob(i)
    /\ Polling /\ UNCHANGED lock

Requeue(i) ==
    /\ worker[i].pc = "requeue"
    /\ RequeueRow(i)
    /\ NextJob(i)
    /\ Polling /\ UNCHANGED <<chunks, lock>>

Fail(i) ==
    /\ worker[i].pc = "fail"
    /\ FailRow(i)
    /\ NextJob(i)
    /\ Polling /\ UNCHANGED <<chunks, lock>>

Ingest(i) ==
    \/ Poll(i) \/ ReindexChanged(i) \/ TestClaim(i) \/ Claim(i) \/ Convert(i)
    \/ Embed(i) \/ Check(i) \/ Commit(i) \/ Requeue(i) \/ Fail(i)

\* A lost connection ends the loop at its next test between jobs.
Quit(i) ==
    /\ worker[i].pc \in {"poll", "claim"} /\ lock # i
    /\ Stop(i)
    /\ KeepFiles /\ KeepCalm /\ UNCHANGED <<lock, left>>

\* The statement at which worker i stands.
Statement(i) ==
    LET pc == worker[i].pc IN
    \/ pc = "reindex" /\ ReindexRows(worker[i].model) /\ UNCHANGED chunks
    \/ pc = "claiming" /\ UNCHANGED chunks
       /\ \E r \in Oldest(RowsWith("pending")) : ClaimRow(i, r)
    \/ pc = "commit" /\ CompleteRow(i)
    \/ pc = "requeue" /\ RequeueRow(i) /\ UNCHANGED chunks
    \/ pc = "fail" /\ FailRow(i) /\ UNCHANGED chunks

\* A statement throws, having taken effect or not.  That ends the sweep, fails
\* the job, or -- when reindexChanged, claim or fail itself throws -- the batch.
StatementFails(i) ==
    /\ Spend("faults")
    /\ Statement(i) \/ UNCHANGED <<file, chunks>>
    /\ \/ worker[i].pc \in Sweeping /\ Stop(i) /\ lock' = Released(i)
       \/ /\ worker[i].pc \in {"check", "commit", "requeue"}
          /\ Move(i, "fail") /\ UNCHANGED lock
       \/ /\ worker[i].pc \in {"reindex", "claiming", "fail"}
          /\ worker' = [worker EXCEPT ![i].pc = "poll", ![i].row = 0,
                                      ![i].name = None, ![i].content = None]
          /\ UNCHANGED lock
    /\ KeepCalm /\ UNCHANGED disk

Work(i) == (Acquire(i) \/ Sweep(i) \/ Ingest(i) \/ Quit(i)) /\ UNCHANGED <<config, request>>

-----------------------------------------------------------------------------
(* The environment.                                                        *)

LoseConnection(i) ==
    /\ lock = i
    /\ Spend("losses")
    /\ lock' = None
    /\ KeepFiles /\ KeepCalm /\ UNCHANGED <<config, request, worker>>

\* The process dies with its worker and its requests.
Crash(i) ==
    /\ Spend("crashes")
    /\ worker' = [worker EXCEPT ![i] = Idle]
    /\ lock' = Released(i)
    /\ request' = [o \in Requests |-> IF request[o] # None /\ request[o].at = i
                                      THEN None ELSE request[o]]
    /\ KeepFiles /\ KeepCalm /\ UNCHANGED config

SaveConfiguration ==
    /\ Spend("changes")
    /\ config' \in Models \cup {None}
    /\ KeepFiles /\ KeepCalm /\ UNCHANGED <<lock, request, worker>>

Next ==
    \/ \E o \in Requests : (Begin(o) \/ Proceed(o)) /\ Operating
    \/ \E i \in Instances : Work(i) \/ LoseConnection(i) \/ Crash(i)
    \/ \E i \in Instances : StatementFails(i) /\ UNCHANGED <<config, request>>
    \/ SaveConfiguration

Spec == Init /\ [][Next]_vars

-----------------------------------------------------------------------------
(* Properties.                                                             *)

\* What search can return for a model was embedded with that model: a ready
\* row has chunks, and its model_key, which search compares, is theirs.
SearchableIsEmbedded == \A r \in RowsWith("ready") :
    chunks[r] # None /\ chunks[r].model = file[r].model

\* While the holder of the lock works on its claim, only it settles the file:
\* what a worker that lost the lock had in hand cannot end it.
StaleWorkerIsFenced == [][\A i \in Instances :
    LET r == worker[i].row IN
    /\ lock = i /\ worker[i].pc \in Working /\ Claimed(i)
    /\ file'[r].status \in {"ready", "failed"}
    => worker'[i] # worker[i]]_vars

\* Whatever crashes and failures left behind, an undisturbed startup sweep
\* leaves a row for every file and a file for every row.
SweepReconciles == \A i \in Instances :
    calm[i] /\ lock = i /\ worker[i].pc \notin Sweeping =>
        \A n \in Names : disk[n] # None <=> RowsNamed(n) # {}

\* A ready file was made from the bytes stored under its name.
ReadyMatchesFile == \A r \in RowsWith("ready") :
    disk[file[r].name] \in {None, chunks[r].content}

\* Requests that come one at a time never make a file pass for another: until
\* a process dies between their steps, a ready file was made from its bytes.
ReadyMatchesUntilCrash == left.crashes = MaxCrashes => ReadyMatchesFile

-----------------------------------------------------------------------------
(* Liveness.  Requests and workers keep taking steps.                      *)

Fairness ==
    /\ \A o \in Requests : WF_vars(Proceed(o) /\ Operating)
    /\ \A i \in Instances : WF_vars(Work(i))

FairSpec == Spec /\ Fairness

Settled(n) == \E r \in RowsNamed(n) : file[r].status \in {"ready", "failed"}

\* Every stored file is eventually indexed or shown as failed.
FilesSettle == \A n \in Names : disk[n] # None ~> disk[n] = None \/ Settled(n)

\* When the configuration changes, every file is embedded again under it.
ModelChangeReembeds == \A r \in Rows, k \in Models :
    file[r].status \in Present /\ config = k ~>
        \/ file[r].status \in {"failed", "deleted"}
        \/ file[r].status = "ready" /\ file[r].model = k
        \/ config # k
=============================================================================
