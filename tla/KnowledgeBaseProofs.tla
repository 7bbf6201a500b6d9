------------------------ MODULE KnowledgeBaseProofs ------------------------
(* Proofs about KnowledgeBase, for every value of its constants. *)
EXTENDS KnowledgeBase, TLAPS

USE BoundsAssumption, NoneIsNoValue, NoneIsNoRecord

-----------------------------------------------------------------------------
(* The inductive invariant: beside its types, a row that is present has a   *)
(* name, and a worker has what the step it has reached needs.              *)

Modelled   == {"reindex", "claim", "claiming"} \cup Working

NamedRow(r) == file[r].status \in Present => file[r].name \in Names

Equipped(w) ==
    /\ w.pc \in Modelled => w.model \in Models
    /\ w.pc = "convert" => w.name \in Names
    /\ w.pc \in {"embed", "check", "commit"} => w.content \in Contents

RowsOK ==
    /\ file \in [Rows -> Row]
    /\ chunks \in [Rows -> Chunks \cup {None}]
    /\ \A r \in Rows : NamedRow(r)
    /\ SearchableIsEmbedded

WorkersOK ==
    /\ worker \in [Instances -> Worker]
    /\ \A i \in Instances : Equipped(worker[i])

RestOK ==
    /\ disk \in [Names -> Contents \cup {None}]
    /\ config \in Models \cup {None}
    /\ lock \in Instances \cup {None}
    /\ request \in [Requests -> Request \cup {None}]
    /\ calm \in [Instances -> BOOLEAN]
    /\ left \in Bounds

IInv == RowsOK /\ WorkersOK /\ RestOK

-----------------------------------------------------------------------------
(* Statements on rows.                                                     *)

USE DEF Rows, Present

\* Requeueing any set of present rows keeps the rows well typed.
LEMMA RequeuedRows ==
    ASSUME RowsOK, NEW S \in SUBSET {r \in Rows : file[r].status \in Present},
           file' = Requeued(S), chunks' = chunks
    PROVE  RowsOK'
<1> DEFINE q(r) == [file[r] EXCEPT !.status = "pending", !.claim = None]
<1>1. ASSUME NEW r \in Rows
      PROVE  q(r) \in Row /\ q(r).status = "pending" /\ q(r).name = file[r].name
  <2>1. file[r] \in Row
    BY DEF RowsOK
  <2>2. QED
    BY <2>1 DEF Row
<1>2. file' = [r \in Rows |-> IF r \in S THEN q(r) ELSE file[r]]
  BY DEF Requeued
<1> HIDE DEF q
<1>3. file' \in [Rows -> Row] /\ \A r \in Rows : NamedRow(r)'
  BY <1>1, <1>2 DEF RowsOK, NamedRow
<1>4. SearchableIsEmbedded'
  BY <1>1, <1>2 DEF RowsOK, SearchableIsEmbedded, RowsWith
<1>5. QED
  BY <1>3, <1>4 DEF RowsOK

\* So does inserting a row.
LEMMA EnqueueRows ==
    ASSUME RowsOK, NEW n \in Names, Enqueue(n), chunks' = chunks
    PROVE  RowsOK'
<1> DEFINE q == [name |-> n, status |-> "pending", model |-> None, claim |-> None]
<1>1. q \in Row /\ q.status = "pending" /\ q.name = n
  BY DEF Row
<1>2. file' = file \/ \E s \in Rows : file' = [file EXCEPT ![s] = q]
  BY DEF Enqueue, Oldest, RowsWith
<1> HIDE DEF q
<1>3. file' \in [Rows -> Row] /\ \A r \in Rows : NamedRow(r)'
  BY <1>1, <1>2 DEF RowsOK, NamedRow
<1>4. SearchableIsEmbedded'
  BY <1>1, <1>2 DEF RowsOK, SearchableIsEmbedded, RowsWith
<1>5. QED
  BY <1>3, <1>4 DEF RowsOK

\* So does deleting the row of a name.
LEMMA RemoveRows ==
    ASSUME RowsOK, NEW n \in Names, RemoveRow(n)
    PROVE  RowsOK'
BY ZenonT(40)
   DEF RowsOK, RemoveRow, RowsNamed, Row, NamedRow, SearchableIsEmbedded, RowsWith

\* So does renaming it.
LEMMA RenameRows ==
    ASSUME RowsOK, NEW n \in Names, NEW m \in Names, RenameRow(n, m), chunks' = chunks
    PROVE  RowsOK'
<1> DEFINE q(r) == [file[r] EXCEPT !.name = m, !.claim = None,
                      !.status = IF @ = "processing" THEN "pending" ELSE @]
<1>1. ASSUME NEW r \in Rows
      PROVE  /\ q(r) \in Row /\ q(r).name = m /\ q(r).model = file[r].model
             /\ q(r).status = "ready" => file[r].status = "ready"
  BY ZenonT(40) DEF RowsOK, Row
<1>2. \E S \in SUBSET Rows : file' = [r \in Rows |-> IF r \in S THEN q(r) ELSE file[r]]
  <2>1. RowsNamed(n) \in SUBSET Rows
    BY DEF RowsNamed
  <2>2. QED
    BY <2>1 DEF RenameRow
<1> HIDE DEF q
<1>3. file' \in [Rows -> Row] /\ \A r \in Rows : NamedRow(r)'
  BY <1>1, <1>2 DEF RowsOK, NamedRow
<1>4. SearchableIsEmbedded'
  BY <1>1, <1>2 DEF RowsOK, SearchableIsEmbedded, RowsWith
<1>5. QED
  BY <1>3, <1>4 DEF RowsOK

\* So do the statements of a worker that has what they need.
LEMMA WorkerRows ==
    ASSUME RowsOK, WorkersOK, NEW i \in Instances
    PROVE  /\ \A r \in RowsWith("pending") :
                worker[i].pc = "claiming" /\ ClaimRow(i, r) /\ chunks' = chunks => RowsOK'
           /\ worker[i].pc = "commit" /\ CompleteRow(i) => RowsOK'
           /\ RequeueRow(i) /\ chunks' = chunks => RowsOK'
           /\ FailRow(i) /\ chunks' = chunks => RowsOK'
<1> DEFINE w == worker[i]
<1>1. w \in Worker /\ Equipped(w)
  BY DEF WorkersOK
<1>2. ASSUME NEW r \in RowsWith("pending"), w.pc = "claiming", ClaimRow(i, r), chunks' = chunks
      PROVE  RowsOK'
  <2>1. w.model \in Models
    BY <1>1, <1>2 DEF Equipped, Modelled
  <2> DEFINE q == [file[r] EXCEPT !.status = "processing", !.claim = i, !.model = w.model]
  <2>2. q \in Row /\ q.status = "processing" /\ q.name = file[r].name
    BY <2>1 DEF RowsOK, Row, RowsWith
  <2>3. file' = [file EXCEPT ![r] = q]
    BY <1>2 DEF ClaimRow, RowsOK, RowsWith
  <2> HIDE DEF q
  <2>4. file' \in [Rows -> Row] /\ \A s \in Rows : NamedRow(s)'
    BY <2>2, <2>3 DEF RowsOK, NamedRow, RowsWith
  <2>5. SearchableIsEmbedded'
    BY <1>2, <2>2, <2>3 DEF RowsOK, SearchableIsEmbedded, RowsWith
  <2>6. QED
    BY <1>2, <2>4, <2>5 DEF RowsOK
<1>3. ASSUME w.pc = "commit", CompleteRow(i) PROVE RowsOK'
  <2>1. CASE Claimed(i)
    <3>1. w.model \in Models /\ w.content \in Contents /\ w.row \in Rows
      BY <1>1, <1>3, <2>1 DEF Equipped, Modelled, Working, Claimed
    <3> DEFINE c == [content |-> w.content, model |-> w.model]
    <3>2. c \in Chunks /\ c # None /\ c.model = w.model
      BY <3>1 DEF Chunks
    <3>3. /\ file' = [file EXCEPT ![w.row].status = "ready", ![w.row].model = w.model]
          /\ chunks' = [chunks EXCEPT ![w.row] = c]
      BY <1>3, <2>1 DEF CompleteRow
    <3> HIDE DEF c
    <3> DEFINE q == [file[w.row] EXCEPT !.status = "ready", !.model = w.model]
    <3>4. /\ q \in Row /\ q.status = "ready" /\ q.model = w.model
          /\ q.name = file[w.row].name /\ file[w.row].status = "processing"
      BY <2>1, <3>1, ZenonT(40) DEF RowsOK, Row, Claimed
    <3>5. file' = [file EXCEPT ![w.row] = q]
      BY <3>1, <3>3 DEF RowsOK
    <3> HIDE DEF q
    <3>6. file' \in [Rows -> Row] /\ \A r \in Rows : NamedRow(r)'
      BY <3>1, <3>4, <3>5 DEF RowsOK, NamedRow
    <3>7. chunks' \in [Rows -> Chunks \cup {None}]
      BY <3>1, <3>2, <3>3 DEF RowsOK
    <3>8. SearchableIsEmbedded'
      BY <3>1, <3>2, <3>3, <3>4, <3>5 DEF RowsOK, SearchableIsEmbedded, RowsWith
    <3>9. QED
      BY <3>6, <3>7, <3>8 DEF RowsOK
  <2>2. CASE ~Claimed(i)
    BY <1>3, <2>2 DEF RowsOK, CompleteRow, NamedRow, SearchableIsEmbedded, RowsWith
  <2>3. QED
    BY <2>1, <2>2
<1>4. ASSUME RequeueRow(i), chunks' = chunks PROVE RowsOK'
  BY SMTT(30), <1>4 DEF RowsOK, RequeueRow, Claimed, Row, NamedRow, SearchableIsEmbedded, RowsWith
<1>5. ASSUME FailRow(i), chunks' = chunks PROVE RowsOK'
  BY SMTT(30), <1>5 DEF RowsOK, FailRow, Claimed, Row, NamedRow, SearchableIsEmbedded, RowsWith
<1>6. QED
  BY <1>2, <1>3, <1>4, <1>5

\* And a statement that does nothing.
LEMMA SameRows ==
    ASSUME RowsOK, file' = file, chunks' = chunks
    PROVE  RowsOK'
BY DEF RowsOK, NamedRow, SearchableIsEmbedded, RowsWith

-----------------------------------------------------------------------------
(* Operator requests.                                                      *)

\* Spending from a bound leaves the bounds well typed.
LEMMA SpendBounds ==
    ASSUME RestOK, NEW b \in {"requests", "changes", "faults", "losses", "crashes"}, Spend(b)
    PROVE  left' \in Bounds
BY DEF RestOK, Bounds, Spend

\* Moving a request on, or answering it, leaves the requests well typed.
LEMMA RequestSteps ==
    ASSUME RestOK, NEW o \in Requests
    PROVE  /\ Answer(o) => request' \in [Requests -> Request \cup {None}]
           /\ \A s \in {"row", "unlink", "undo", "undoUnlink"} :
                request[o] # None /\ Goto(o, s)
                => request' \in [Requests -> Request \cup {None}]
<1>1. Answer(o) => request' \in [Requests -> Request \cup {None}]
  BY DEF RestOK, Answer
<1>2. ASSUME NEW s \in {"row", "unlink", "undo", "undoUnlink"}, request[o] # None, Goto(o, s)
      PROVE  request' \in [Requests -> Request \cup {None}]
  <2> DEFINE q == [request[o] EXCEPT !.step = s]
  <2>1. request[o] \in Request
    BY <1>2 DEF RestOK
  <2>2. q \in Request
    BY <2>1 DEF Request
  <2>3. request' = [request EXCEPT ![o] = q]
    BY <1>2 DEF Goto, RestOK
  <2> HIDE DEF q
  <2>4. QED
    BY <2>2, <2>3 DEF RestOK
<1>3. QED
  BY <1>1, <1>2

\* Accepting a request.
LEMMA AcceptSteps ==
    ASSUME IInv, NEW o \in Requests, Begin(o), Operating
    PROVE  IInv'
<1>1. ASSUME NEW i \in Instances, NEW n \in Names, NEW m \in Names,
             NEW k \in {"upload", "rename", "delete", "retry"},
             NEW s \in {"row", "unlink"}, Accept(o, i, k, n, m, s),
             disk' \in [Names -> Contents \cup {None}], UNCHANGED <<file, chunks>>
      PROVE  IInv'
  <2>1. RowsOK'
    BY <1>1, SameRows DEF IInv
  <2>2. WorkersOK'
    BY DEF IInv, WorkersOK, Operating, Equipped, Modelled
  <2>3. left' \in Bounds
    BY <1>1, SpendBounds DEF IInv, Accept
  <2>4. request' \in [Requests -> Request \cup {None}]
    BY <1>1 DEF IInv, RestOK, Accept, Request
  <2>5. QED
    BY <1>1, <2>1, <2>2, <2>3, <2>4 DEF IInv, RestOK, Operating
<1>2. PICK i \in Instances :
        UploadPut(o, i) \/ DeleteUnlink(o, i) \/ RenameCopy(o, i) \/ RetryCheck(o, i)
  BY DEF Begin
<1>3. CASE UploadPut(o, i)
  BY <1>1, <1>3 DEF UploadPut, IInv, RestOK
<1>4. CASE DeleteUnlink(o, i)
  BY <1>1, <1>4 DEF DeleteUnlink, IInv, RestOK
<1>5. CASE RenameCopy(o, i)
  BY <1>1, <1>5 DEF RenameCopy, IInv, RestOK
<1>6. CASE RetryCheck(o, i)
  BY <1>1, <1>6 DEF RetryCheck, IInv, RestOK
<1>7. QED
  BY <1>2, <1>3, <1>4, <1>5, <1>6

\* A request that goes on.
LEMMA ProceedSteps ==
    ASSUME IInv, NEW o \in Requests, Proceed(o), Operating
    PROVE  IInv'
<1> DEFINE n == request[o].name  m == request[o].to
<1>1. ASSUME request[o] # None PROVE n \in Names /\ m \in Names
  BY <1>1 DEF IInv, RestOK, Request
<1>2. request[o] # None
  BY DEF Proceed, At, UploadRow, UploadUndo, DeleteRow, RenameUnlink, RenameFileRow,
         RenameUndo, RenameUndoUnlink, RetryRow
<1>3. WorkersOK'
  BY DEF IInv, WorkersOK, Operating, Equipped, Modelled
<1>4. ASSUME left' \in Bounds, disk' \in [Names -> Contents \cup {None}], RowsOK',
             \/ Answer(o)
             \/ \E s \in {"row", "unlink", "undo", "undoUnlink"} : Goto(o, s)
      PROVE  IInv'
  BY <1>2, <1>3, <1>4, RequestSteps DEF IInv, RestOK, Operating
<1>5. UNCHANGED left \/ Spend("faults") => left' \in Bounds
  BY SpendBounds DEF IInv, RestOK
<1>6. UNCHANGED <<file, chunks>> => RowsOK'
  BY SameRows DEF IInv
<1>7. disk' = disk => disk' \in [Names -> Contents \cup {None}]
  BY DEF IInv, RestOK
<1>8. CASE UploadRow(o)
  <2>1. Enqueue(n) /\ chunks' = chunks => RowsOK'
    BY <1>1, <1>2, EnqueueRows DEF IInv
  <2>2. QED
    BY <1>4, <1>5, <1>6, <1>7, <1>8, <2>1 DEF UploadRow, KeepBounds, Unstored
<1>9. CASE UploadUndo(o)
  <2>1. disk' \in [Names -> Contents \cup {None}]
    BY <1>9 DEF UploadUndo, IInv, RestOK
  <2>2. QED
    BY <1>4, <1>5, <1>6, <1>9, <2>1 DEF UploadUndo
<1>10. CASE DeleteRow(o)
  <2>1. RemoveRow(n) => RowsOK'
    BY <1>1, <1>2, RemoveRows DEF IInv
  <2>2. QED
    BY <1>4, <1>5, <1>6, <1>7, <1>10, <2>1 DEF DeleteRow, KeepBounds
<1>11. CASE RenameUnlink(o)
  <2>1. disk' \in [Names -> Contents \cup {None}]
    BY <1>11 DEF RenameUnlink, IInv, RestOK
  <2>2. QED
    BY <1>4, <1>5, <1>6, <1>11, <2>1 DEF RenameUnlink
<1>12. CASE RenameFileRow(o)
  <2>1. RenameRow(n, m) /\ chunks' = chunks => RowsOK'
    BY <1>1, <1>2, RenameRows DEF IInv
  <2>2. QED
    BY <1>4, <1>5, <1>6, <1>7, <1>12, <2>1 DEF RenameFileRow, KeepBounds, Unstored
<1>13. CASE RenameUndo(o)
  <2>1. disk' \in [Names -> Contents \cup {None}]
    BY <1>1, <1>2, <1>13 DEF RenameUndo, IInv, RestOK
  <2>2. QED
    BY <1>4, <1>5, <1>6, <1>13, <2>1 DEF RenameUndo
<1>14. CASE RenameUndoUnlink(o)
  <2>1. disk' \in [Names -> Contents \cup {None}]
    BY <1>14 DEF RenameUndoUnlink, IInv, RestOK
  <2>2. QED
    BY <1>4, <1>5, <1>6, <1>14, <2>1 DEF RenameUndoUnlink
<1>15. CASE RetryRow(o)
  <2> DEFINE S == {r \in RowsNamed(n) : file[r].status = "failed"}
  <2>1. S \in SUBSET {r \in Rows : file[r].status \in Present}
    BY DEF RowsNamed
  <2>2. file' = Requeued(S) /\ chunks' = chunks => RowsOK'
    BY <2>1, RequeuedRows DEF IInv
  <2>3. QED
    BY <1>4, <1>5, <1>6, <1>7, <1>15, <2>2 DEF RetryRow, KeepBounds
<1>16. QED
  BY <1>8, <1>9, <1>10, <1>11, <1>12, <1>13, <1>14, <1>15 DEF Proceed

-----------------------------------------------------------------------------
(* Steps of a worker.                                                      *)

Steps == {"off", "poll", "reindex", "claim", "claiming"} \cup Sweeping \cup Working

\* Giving one worker another state that is equipped for its step.
LEMMA ReplaceWorker ==
    ASSUME WorkersOK, NEW i \in Instances, NEW w \in Worker, Equipped(w),
           worker' = [worker EXCEPT ![i] = w]
    PROVE  WorkersOK'
BY DEF WorkersOK

\* Moving one worker to a step for which it is equipped.
LEMMA MoveWorker ==
    ASSUME WorkersOK, NEW i \in Instances, NEW pc \in Steps, Move(i, pc),
           pc \in Modelled => worker[i].model \in Models,
           pc # "convert",
           pc \in {"embed", "check", "commit"} => worker[i].content \in Contents
    PROVE  WorkersOK'
<1> DEFINE w == [worker[i] EXCEPT !.pc = pc]
<1>1. worker[i] \in Worker
  BY DEF WorkersOK
<1>2. w \in Worker /\ w.pc = pc /\ w.model = worker[i].model /\ w.content = worker[i].content
  BY <1>1 DEF Worker, Steps
<1>3. worker' = [worker EXCEPT ![i] = w]
  BY DEF Move, WorkersOK
<1> HIDE DEF w
<1>4. Equipped(w)
  BY <1>2 DEF Equipped
<1>5. QED
  BY <1>2, <1>3, <1>4, ReplaceWorker

\* Stopping one worker.
LEMMA StopWorker ==
    ASSUME WorkersOK, NEW i \in Instances, Stop(i)
    PROVE  WorkersOK'
<1>1. Idle \in Worker
  BY DEF Idle, Worker, Rows
<1>2. Equipped(Idle)
  BY DEF Idle, Equipped, Modelled, Working
<1>3. QED
  BY <1>1, <1>2, ReplaceWorker DEF Stop

\* The state a worker takes with it to the next claim.
LEMMA NextJobWorker ==
    ASSUME WorkersOK, NEW i \in Instances, worker[i].pc \in Modelled, NextJob(i)
    PROVE  WorkersOK'
<1> DEFINE w == [worker[i] EXCEPT !.pc = "claim", !.row = 0, !.name = None, !.content = None]
<1>1. worker[i] \in Worker /\ worker[i].model \in Models
  BY DEF WorkersOK, Equipped
<1>2. w \in Worker /\ w.pc = "claim" /\ w.model = worker[i].model
  BY <1>1 DEF Worker
<1>3. worker' = [worker EXCEPT ![i] = w]
  BY DEF NextJob, WorkersOK
<1> HIDE DEF w
<1>4. QED
  BY <1>1, <1>2, <1>3, ReplaceWorker DEF Equipped

\* What is left to show of a step that leaves requests and configuration alone.
LEMMA RestUnchanged ==
    ASSUME RestOK, UNCHANGED <<disk, config, request>>,
           lock' \in Instances \cup {None}, calm' \in [Instances -> BOOLEAN],
           left' \in Bounds
    PROVE  RestOK'
BY DEF RestOK

\* The startup sweep: rows are requeued, removed and inserted, and the worker
\* goes through its steps with sets of names.
LEMMA SweepSteps ==
    ASSUME IInv, NEW i \in Instances, Sweep(i), UNCHANGED <<config, request>>
    PROVE  IInv'
<1> USE DEF Steps, Sweeping, Modelled, Working
<1>1. worker[i] \in Worker /\ WorkersOK /\ RowsOK /\ RestOK
  BY DEF IInv, WorkersOK
<1>2. calm' \in [Instances -> BOOLEAN]
  BY <1>1 DEF Sweep, Recover, ListRows, StatFile, StatsDone, PurgeRow, ListDirectory,
             ScanFiles, RecoverUpload, SweepDone, Sweeps, RestOK
<1>3. RestOK'
  BY <1>1, <1>2, RestUnchanged
  DEF Sweep, Recover, ListRows, StatFile, StatsDone, PurgeRow, ListDirectory,
      ScanFiles, RecoverUpload, SweepDone, KeepFiles, Released, RestOK
<1>4. KeepFiles => RowsOK'
  BY <1>1, SameRows DEF KeepFiles
<1>5. CASE Recover(i)
  <2>1. RowsOK'
    BY <1>1, <1>5, RequeuedRows DEF Recover, RowsWith
  <2>2. WorkersOK'
    BY <1>1, <1>5, MoveWorker DEF Recover
  <2>3. QED
    BY <1>3, <2>1, <2>2 DEF IInv
<1>6. ASSUME NEW w \in Worker, w.pc \in Sweeping, RowsOK', worker' = [worker EXCEPT ![i] = w]
      PROVE  IInv'
  BY <1>1, <1>3, <1>6, ReplaceWorker DEF IInv, Equipped
<1>7. ASSUME NEW pc \in Sweeping, NEW S \in SUBSET Names, NEW T \in SUBSET Names,
             RowsOK',
             worker' = [worker EXCEPT ![i].pc = pc, ![i].todo = S, ![i].found = T]
      PROVE  IInv'
  <2> DEFINE w == [worker[i] EXCEPT !.pc = pc, !.todo = S, !.found = T]
  <2>1. w \in Worker /\ w.pc = pc
    BY <1>1 DEF Worker
  <2>2. worker' = [worker EXCEPT ![i] = w]
    BY <1>1, <1>7 DEF WorkersOK
  <2> HIDE DEF w
  <2>3. QED
    BY <1>6, <1>7, <2>1, <2>2
<1>8. worker[i].todo \in SUBSET Names /\ worker[i].found \in SUBSET Names
  BY <1>1 DEF Worker
<1>9. CASE ListRows(i)
  <2> DEFINE S == {n \in Names : RowsNamed(n) # {}}
  <2>1. worker' = [worker EXCEPT ![i].pc = "stat", ![i].todo = S, ![i].found = {}]
    <3>1. /\ worker[i] \in Worker
          /\ worker' = [worker EXCEPT
               ![i] = [worker[i] EXCEPT !.pc = "stat", !.found = {}, !.todo = S]]
      BY <1>1, <1>9 DEF ListRows, WorkersOK
    <3> HIDE DEF S
    <3>2. [worker[i] EXCEPT !.pc = "stat", !.found = {}, !.todo = S]
            = [worker[i] EXCEPT !.pc = "stat", !.todo = S, !.found = {}]
      BY <3>1 DEF Worker
    <3>3. QED
      BY <3>1, <3>2
  <2>2. S \in SUBSET Names /\ {} \in SUBSET Names /\ "stat" \in Sweeping
    OBVIOUS
  <2>3. RowsOK'
    BY <1>4, <1>9 DEF ListRows
  <2> HIDE DEF S
  <2>4. QED
    BY <1>7, <2>1, <2>2, <2>3
<1>10. CASE StatFile(i)
  <2>1. PICK n \in worker[i].todo :
          /\ worker[i].pc = "stat"
          /\ worker' = [worker EXCEPT ![i].todo = @ \ {n},
               ![i].found = IF disk[n] = None THEN @ \cup {n} ELSE @]
    BY <1>10 DEF StatFile
  <2> DEFINE S == worker[i].todo \ {n}
             T == IF disk[n] = None THEN worker[i].found \cup {n} ELSE worker[i].found
  <2>2. worker' = [worker EXCEPT ![i].pc = "stat", ![i].todo = S, ![i].found = T]
    BY <1>1, <2>1, ZenonT(40) DEF WorkersOK, Worker
  <2>3. S \in SUBSET Names /\ T \in SUBSET Names
    BY <1>8
  <2> HIDE DEF S, T
  <2>4. QED
    BY <1>4, <1>7, <1>10, <2>2, <2>3 DEF StatFile
<1>11. CASE StatsDone(i)
  <2>1. worker' = [worker EXCEPT ![i].pc = "purge", ![i].todo = worker[i].found,
                                ![i].found = worker[i].found]
    BY <1>1, <1>11 DEF StatsDone, WorkersOK, Worker
  <2>2. QED
    BY <1>4, <1>7, <1>8, <1>11, <2>1 DEF StatsDone
<1>12. CASE PurgeRow(i)
  <2>1. PICK n \in worker[i].todo :
          /\ worker[i].pc = "purge" /\ RemoveRow(n)
          /\ worker' = [worker EXCEPT ![i].todo = @ \ {n}]
    BY <1>12 DEF PurgeRow
  <2>2. RowsOK'
    BY <1>1, <1>8, <2>1, RemoveRows
  <2> DEFINE S == worker[i].todo \ {n}
  <2>3. worker' = [worker EXCEPT ![i].pc = "purge", ![i].todo = S,
                                ![i].found = worker[i].found]
    BY <1>1, <2>1 DEF WorkersOK, Worker
  <2>4. S \in SUBSET Names
    BY <1>8
  <2> HIDE DEF S
  <2>5. QED
    BY <1>7, <1>8, <2>2, <2>3, <2>4
<1>13. CASE ListDirectory(i)
  <2> DEFINE S == {n \in Names : disk[n] # None}
  <2>1. worker' = [worker EXCEPT ![i].pc = "scan", ![i].todo = S,
                                ![i].found = worker[i].found]
    <3>1. /\ worker[i] \in Worker
          /\ worker' = [worker EXCEPT ![i] = [worker[i] EXCEPT !.pc = "scan", !.todo = S]]
      BY <1>1, <1>13 DEF ListDirectory, WorkersOK
    <3> HIDE DEF S
    <3>2. [worker[i] EXCEPT !.pc = "scan", !.todo = S]
            = [worker[i] EXCEPT !.pc = "scan", !.todo = S, !.found = worker[i].found]
      BY <3>1 DEF Worker
    <3>3. QED
      BY <3>1, <3>2
  <2>2. S \in SUBSET Names
    OBVIOUS
  <2> HIDE DEF S
  <2>3. QED
    BY <1>4, <1>7, <1>8, <1>13, <2>1, <2>2 DEF ListDirectory
<1>14. CASE ScanFiles(i)
  <2>1. WorkersOK'
    BY <1>1, <1>14, StopWorker, MoveWorker DEF ScanFiles
  <2>2. QED
    BY <1>3, <1>4, <1>14, <2>1 DEF ScanFiles, IInv
<1>15. CASE RecoverUpload(i)
  <2>1. PICK n \in worker[i].todo :
          /\ worker[i].pc = "enqueue" /\ Enqueue(n) /\ chunks' = chunks
          /\ worker' = [worker EXCEPT ![i].todo = @ \ {n}]
    BY <1>15 DEF RecoverUpload
  <2>2. RowsOK'
    BY <1>1, <1>8, <2>1, EnqueueRows
  <2> DEFINE S == worker[i].todo \ {n}
  <2>3. worker' = [worker EXCEPT ![i].pc = "enqueue", ![i].todo = S,
                                ![i].found = worker[i].found]
    BY <1>1, <2>1 DEF WorkersOK, Worker
  <2>4. S \in SUBSET Names
    BY <1>8
  <2> HIDE DEF S
  <2>5. QED
    BY <1>7, <1>8, <2>2, <2>3, <2>4
<1>16. CASE SweepDone(i)
  <2>1. WorkersOK'
    BY <1>1, <1>16, MoveWorker DEF SweepDone
  <2>2. QED
    BY <1>3, <1>4, <1>16, <2>1 DEF SweepDone, IInv
<1>17. QED
  BY <1>5, <1>9, <1>10, <1>11, <1>12, <1>13, <1>14, <1>15, <1>16 DEF Sweep

\* Such a step changes rows and workers only.
LEMMA PollingSteps ==
    ASSUME IInv, NEW i \in Instances, Polling, UNCHANGED <<config, request, lock>>,
           RowsOK', WorkersOK'
    PROVE  IInv'
BY RestUnchanged DEF IInv, Polling, KeepCalm, RestOK

\* The polling loop and processPendingFiles: what a job needs at each step, its
\* worker got at an earlier one.
LEMMA IngestSteps ==
    ASSUME IInv, NEW i \in Instances, Ingest(i), UNCHANGED <<config, request>>
    PROVE  IInv'
<1> USE DEF Steps, Modelled, Working
<1> DEFINE w == worker[i]
<1>1. w \in Worker /\ Equipped(w) /\ WorkersOK /\ RowsOK /\ RestOK
  BY DEF IInv, WorkersOK
<1>2. w.pc \in Modelled => w.model \in Models
  BY <1>1 DEF Equipped
<1>3. UNCHANGED <<file, chunks>> => RowsOK'
  BY <1>1, SameRows
<1>4. CASE Poll(i)
  <2> DEFINE v == [w EXCEPT !.pc = "reindex", !.model = config]
  <2>1. v \in Worker /\ v.pc = "reindex" /\ v.model \in Models
    BY <1>1, <1>4 DEF Poll, Worker, RestOK
  <2>2. worker' = [worker EXCEPT ![i] = v]
    BY <1>1, <1>4 DEF Poll, WorkersOK
  <2> HIDE DEF v
  <2>3. WorkersOK'
    BY <1>1, <2>1, <2>2, ReplaceWorker DEF Equipped
  <2>4. QED
    BY <1>3, <1>4, <2>3, PollingSteps DEF Poll
<1>5. CASE ReindexChanged(i)
  <2>1. RowsOK'
    BY <1>1, <1>5, RequeuedRows DEF ReindexChanged, ReindexRows, RowsWith
  <2>2. WorkersOK'
    BY <1>1, <1>2, <1>5, MoveWorker DEF ReindexChanged
  <2>3. QED
    BY <1>5, <2>1, <2>2, PollingSteps DEF ReindexChanged
<1>6. CASE TestClaim(i)
  <2>1. WorkersOK'
    BY <1>1, <1>2, <1>6, MoveWorker DEF TestClaim
  <2>2. QED
    BY <1>3, <1>6, <2>1, PollingSteps DEF TestClaim
<1>7. CASE Claim(i)
  <2>1. ASSUME NEW r \in Oldest(RowsWith("pending")), ClaimRow(i, r),
               worker' = [worker EXCEPT ![i].pc = "convert", ![i].row = r,
                                        ![i].name = file[r].name]
        PROVE  IInv'
    <3>1. r \in RowsWith("pending") /\ r \in Rows /\ file[r].name \in Names
      BY <1>1 DEF Oldest, RowsWith, RowsOK, NamedRow
    <3>2. RowsOK'
      BY <1>1, <1>7, <2>1, <3>1, WorkerRows DEF Claim
    <3> DEFINE v == [w EXCEPT !.pc = "convert", !.row = r, !.name = file[r].name]
    <3>3. /\ v \in Worker /\ v.pc = "convert" /\ v.name = file[r].name
          /\ v.model = w.model
      BY <1>1, <3>1 DEF Worker
    <3>4. w.model \in Models
      BY <1>2, <1>7 DEF Claim
    <3>5. worker' = [worker EXCEPT ![i] = v]
      BY <1>1, <2>1 DEF WorkersOK
    <3> HIDE DEF v
    <3>6. WorkersOK'
      BY <1>1, <3>1, <3>3, <3>4, <3>5, ReplaceWorker DEF Equipped
    <3>7. QED
      BY <1>7, <3>2, <3>6, PollingSteps DEF Claim
  <2>2. ASSUME Move(i, "poll"), UNCHANGED file PROVE IInv'
    <3>1. WorkersOK'
      BY <1>1, <2>2, MoveWorker
    <3>2. QED
      BY <1>3, <1>7, <2>2, <3>1, PollingSteps DEF Claim
  <2>3. QED
    BY <1>7, <2>1, <2>2 DEF Claim
<1>8. CASE Convert(i)
  <2>1. ASSUME disk[w.name] # None,
               worker' = [worker EXCEPT ![i].pc = "embed", ![i].content = disk[w.name]]
        PROVE  WorkersOK'
    <3>1. w.name \in Names /\ w.model \in Models
      BY <1>1, <1>2, <1>8 DEF Convert, Equipped
    <3>2. disk[w.name] \in Contents
      BY <1>1, <2>1, <3>1 DEF RestOK
    <3> DEFINE v == [w EXCEPT !.pc = "embed", !.content = disk[w.name]]
    <3>3. v \in Worker /\ v.pc = "embed" /\ v.content \in Contents /\ v.model = w.model
      BY <1>1, <3>2 DEF Worker
    <3>4. worker' = [worker EXCEPT ![i] = v]
      BY <1>1, <2>1 DEF WorkersOK
    <3> HIDE DEF v
    <3>5. QED
      BY <1>1, <3>1, <3>3, <3>4, ReplaceWorker DEF Equipped
  <2>2. WorkersOK'
    BY <1>1, <1>2, <1>8, <2>1, MoveWorker DEF Convert
  <2>3. QED
    BY <1>3, <1>8, <2>2, PollingSteps DEF Convert
<1>9. CASE Embed(i)
  <2>1. w.content \in Contents
    BY <1>1, <1>9 DEF Embed, Equipped
  <2>2. WorkersOK'
    BY <1>1, <1>2, <1>9, <2>1, MoveWorker DEF Embed
  <2>3. QED
    BY <1>3, <1>9, <2>2, PollingSteps DEF Embed
<1>10. CASE Check(i)
  <2>1. w.content \in Contents
    BY <1>1, <1>10 DEF Check, Equipped
  <2>2. \E pc \in {"fail", "commit", "requeue"} : Move(i, pc)
    BY <1>10 DEF Check
  <2>3. WorkersOK'
    BY <1>1, <1>2, <1>10, <2>1, <2>2, MoveWorker DEF Check
  <2>4. QED
    BY <1>3, <1>10, <2>3, PollingSteps DEF Check
<1>11. CASE Commit(i)
  <2>1. RowsOK' /\ WorkersOK'
    BY <1>1, <1>11, WorkerRows, NextJobWorker DEF Commit
  <2>2. QED
    BY <1>11, <2>1, PollingSteps DEF Commit
<1>12. CASE Requeue(i)
  <2>1. RowsOK' /\ WorkersOK'
    BY <1>1, <1>12, WorkerRows, NextJobWorker DEF Requeue
  <2>2. QED
    BY <1>12, <2>1, PollingSteps DEF Requeue
<1>13. CASE Fail(i)
  <2>1. RowsOK' /\ WorkersOK'
    BY <1>1, <1>13, WorkerRows, NextJobWorker DEF Fail
  <2>2. QED
    BY <1>13, <2>1, PollingSteps DEF Fail
<1>14. QED
  BY <1>4, <1>5, <1>6, <1>7, <1>8, <1>9, <1>10, <1>11, <1>12, <1>13 DEF Ingest

\* A statement of a worker that throws, having taken effect or not.
LEMMA FailureSteps ==
    ASSUME IInv, NEW i \in Instances, StatementFails(i), UNCHANGED <<config, request>>
    PROVE  IInv'
<1> USE DEF Steps, Modelled, Working, Sweeping
<1> DEFINE w == worker[i]
<1>1. w \in Worker /\ Equipped(w) /\ WorkersOK /\ RowsOK /\ RestOK
  BY DEF IInv, WorkersOK
<1>2. w.pc \in Modelled => w.model \in Models
  BY <1>1 DEF Equipped
<1>3. RowsOK'
  <2>1. UNCHANGED <<file, chunks>> => RowsOK'
    BY <1>1, SameRows
  <2>2. ASSUME w.pc = "reindex", ReindexRows(w.model), UNCHANGED chunks PROVE RowsOK'
    BY <1>1, <2>2, RequeuedRows DEF ReindexRows, RowsWith
  <2>3. ASSUME w.pc = "claiming", UNCHANGED chunks,
               NEW r \in Oldest(RowsWith("pending")), ClaimRow(i, r)
        PROVE  RowsOK'
    <3>1. r \in RowsWith("pending")
      BY DEF Oldest
    <3>2. QED
      BY <1>1, <2>3, <3>1, WorkerRows
  <2>4. ASSUME \/ w.pc = "commit" /\ CompleteRow(i)
               \/ RequeueRow(i) /\ UNCHANGED chunks
               \/ FailRow(i) /\ UNCHANGED chunks
        PROVE  RowsOK'
    BY <1>1, <2>4, WorkerRows
  <2>5. QED
    BY <2>1, <2>2, <2>3, <2>4 DEF StatementFails, Statement
<1>4. WorkersOK'
  <2>1. ASSUME w.pc \in {"reindex", "claiming", "fail"},
               worker' = [worker EXCEPT ![i].pc = "poll", ![i].row = 0,
                                        ![i].name = None, ![i].content = None]
        PROVE  WorkersOK'
    <3> DEFINE v == [w EXCEPT !.pc = "poll", !.row = 0, !.name = None, !.content = None]
    <3>1. v \in Worker /\ v.pc = "poll"
      BY <1>1 DEF Worker
    <3>2. worker' = [worker EXCEPT ![i] = v]
      BY <1>1, <2>1 DEF WorkersOK
    <3> HIDE DEF v
    <3>3. QED
      BY <1>1, <3>1, <3>2, ReplaceWorker DEF Equipped
  <2>2. ASSUME w.pc \in {"check", "commit", "requeue"}, Move(i, "fail") PROVE WorkersOK'
    BY <1>1, <1>2, <2>2, MoveWorker
  <2>3. QED
    BY <1>1, <2>1, <2>2, StopWorker DEF StatementFails
<1>5. RestOK'
  <2>1. left' \in Bounds
    BY <1>1, SpendBounds DEF StatementFails
  <2>2. lock' \in Instances \cup {None}
    BY <1>1 DEF StatementFails, Released, RestOK
  <2>3. QED
    BY <1>1, <2>1, <2>2, RestUnchanged DEF StatementFails, KeepCalm, RestOK
<1>6. QED
  BY <1>3, <1>4, <1>5 DEF IInv

\* Acquiring the lock and leaving the loop.
LEMMA LoopSteps ==
    ASSUME IInv, NEW i \in Instances, Acquire(i) \/ Quit(i), UNCHANGED <<config, request>>
    PROVE  IInv'
<1>1. RowsOK'
  BY SameRows DEF IInv, Acquire, Quit, KeepFiles
<1>2. WorkersOK'
  BY MoveWorker, StopWorker DEF IInv, Acquire, Quit, Steps, Modelled, Sweeping, Working
<1>3. RestOK'
  BY RestUnchanged DEF IInv, Acquire, Quit, KeepFiles, KeepCalm, KeepBounds, RestOK
<1>4. QED
  BY <1>1, <1>2, <1>3 DEF IInv

\* What happens to a worker: its connection is lost, its process dies, the
\* configuration changes.
LEMMA EnvironmentSteps ==
    ASSUME IInv,
           \/ \E i \in Instances : LoseConnection(i) \/ Crash(i)
           \/ SaveConfiguration
    PROVE  IInv'
<1>1. RowsOK'
  BY SameRows DEF IInv, LoseConnection, Crash, SaveConfiguration, KeepFiles
<1>2. left' \in Bounds
  BY SpendBounds DEF IInv, LoseConnection, Crash, SaveConfiguration
<1>3. UNCHANGED worker => WorkersOK'
  BY DEF IInv, WorkersOK, Equipped
<1>4. CASE \E i \in Instances : LoseConnection(i)
  BY <1>1, <1>2, <1>3, <1>4 DEF LoseConnection, IInv, RestOK, KeepFiles, KeepCalm
<1>5. ASSUME NEW i \in Instances, Crash(i) PROVE IInv'
  <2>1. WorkersOK'
    BY <1>5, StopWorker DEF Crash, Stop, IInv
  <2>2. request' \in [Requests -> Request \cup {None}]
    BY <1>5 DEF Crash, IInv, RestOK
  <2>3. lock' \in Instances \cup {None}
    BY <1>5 DEF Crash, Released, IInv, RestOK
  <2>4. QED
    BY <1>1, <1>2, <1>5, <2>1, <2>2, <2>3 DEF Crash, IInv, RestOK, KeepFiles, KeepCalm
<1>6. CASE SaveConfiguration
  BY <1>1, <1>2, <1>3, <1>6 DEF SaveConfiguration, IInv, RestOK, KeepFiles, KeepCalm
<1>7. QED
  BY <1>4, <1>5, <1>6

-----------------------------------------------------------------------------
(* The theorems.                                                           *)

\* The invariant holds in the initial states.
LEMMA InitInvariant ==
    ASSUME Init
    PROVE  IInv
<1>1. RowsOK
  BY DEF Init, RowsOK, Row, NamedRow, SearchableIsEmbedded, RowsWith
<1>2. WorkersOK
  BY DEF Init, WorkersOK, Idle, Worker, Equipped, Modelled, Working
<1>3. RestOK
  BY DEF Init, RestOK, Bounds
<1>4. QED
  BY <1>1, <1>2, <1>3 DEF IInv

\* Every step preserves it.
LEMMA NextInvariant ==
    ASSUME IInv, [Next]_vars
    PROVE  IInv'
<1>1. CASE \E o \in Requests : (Begin(o) \/ Proceed(o)) /\ Operating
  BY <1>1, AcceptSteps, ProceedSteps
<1>2. CASE \E i \in Instances : Work(i)
  BY <1>2, SweepSteps, IngestSteps, LoopSteps DEF Work
<1>3. CASE \E i \in Instances : LoseConnection(i) \/ Crash(i)
  BY <1>3, EnvironmentSteps
<1>4. CASE \E i \in Instances : StatementFails(i) /\ UNCHANGED <<config, request>>
  BY <1>4, FailureSteps
<1>5. CASE SaveConfiguration
  BY <1>5, EnvironmentSteps
<1>6. CASE UNCHANGED vars
  <2>1. RowsOK'
    BY <1>6, SameRows DEF IInv, vars
  <2>2. WorkersOK' /\ RestOK'
    BY <1>6 DEF IInv, WorkersOK, Equipped, RestOK, vars
  <2>3. QED
    BY <2>1, <2>2 DEF IInv
<1>7. QED
  BY <1>1, <1>2, <1>3, <1>4, <1>5, <1>6 DEF Next

\* So it holds always.
LEMMA Invariant == Spec => []IInv
  BY InitInvariant, NextInvariant, PTL DEF Spec

\* Every reachable state has its declared types; in particular no chunks are
\* ever stored without the content and the model they were made with.
THEOREM TypeCorrect == Spec => []TypeOK
<1>1. IInv => TypeOK
  BY DEF IInv, RowsOK, WorkersOK, RestOK, TypeOK
<1>2. QED
  BY <1>1, Invariant, PTL

\* Whatever fails, is renamed, requeued or embedded by a worker that lost its
\* lock, a file that search may return has chunks of its recorded model.
THEOREM SearchIsConsistent == Spec => []SearchableIsEmbedded
<1>1. IInv => SearchableIsEmbedded
  BY DEF IInv, RowsOK
<1>2. QED
  BY <1>1, Invariant, PTL

-----------------------------------------------------------------------------
(* The fence.                                                              *)

\* A file in progress is settled by no statement but the one of its claim.
LEMMA OnlyClaimSettles ==
    ASSUME RowsOK, NEW i \in Instances, NEW r \in Rows,
           file[r].status = "processing", file[r].claim = i
    PROVE  /\ UNCHANGED file => file'[r].status = "processing"
           /\ \A n : Enqueue(n) => file'[r].status = "processing"
           /\ \A n : RemoveRow(n) => file'[r].status \in {"processing", "deleted"}
           /\ \A n, m : RenameRow(n, m) => file'[r].status \in {"processing", "pending"}
           /\ \A S : file' = Requeued(S) => file'[r].status \in {"processing", "pending"}
           /\ \A j \in Instances, q \in RowsWith("pending") :
                ClaimRow(j, q) => file'[r].status = "processing"
           /\ \A j \in Instances : CompleteRow(j) \/ RequeueRow(j) \/ FailRow(j)
                => j = i \/ file'[r].status = "processing"
<1>1. file \in [Rows -> Row] /\ file[r] \in Row
  BY DEF RowsOK
<1>2. \A n : Enqueue(n) => file'[r].status = "processing"
  BY <1>1 DEF Enqueue, Oldest, RowsWith
<1>3. ASSUME NEW n, RemoveRow(n) PROVE file'[r].status \in {"processing", "deleted"}
  <2>1. \/ file'[r] = file[r]
        \/ file'[r] = [file[r] EXCEPT !.status = "deleted", !.name = None,
                         !.model = None, !.claim = None]
    BY <1>3 DEF RemoveRow
  <2>2. QED
    BY <1>1, <2>1 DEF Row
<1>4. ASSUME NEW n, NEW m, RenameRow(n, m)
      PROVE  file'[r].status \in {"processing", "pending"}
  <2>1. \/ file'[r] = file[r]
        \/ file'[r] = [file[r] EXCEPT !.name = m, !.claim = None, !.status = "pending"]
    BY <1>4 DEF RenameRow
  <2>2. QED
    BY <1>1, <2>1 DEF Row
<1>5. ASSUME NEW S, file' = Requeued(S)
      PROVE  file'[r].status \in {"processing", "pending"}
  <2>1. \/ file'[r] = file[r]
        \/ file'[r] = [file[r] EXCEPT !.status = "pending", !.claim = None]
    BY <1>5 DEF Requeued
  <2>2. QED
    BY <1>1, <2>1 DEF Row
<1>6. \A j \in Instances, q \in RowsWith("pending") :
        ClaimRow(j, q) => file'[r].status = "processing"
  BY <1>1 DEF ClaimRow, RowsWith
<1>7. ASSUME NEW j \in Instances, CompleteRow(j) \/ RequeueRow(j) \/ FailRow(j), j # i
      PROVE  file'[r].status = "processing"
  <2>1. file' = file \/ worker[j].row # r
    BY <1>7 DEF CompleteRow, RequeueRow, FailRow, Claimed
  <2>2. QED
    BY <1>1, <1>7, <2>1 DEF CompleteRow, RequeueRow, FailRow
<1>8. QED
  BY <1>2, <1>3, <1>4, <1>5, <1>6, <1>7

\* The old results of a worker that lost its lock never overwrite the new work
\* of its holder: only the holder's own step settles the file of its claim.
THEOREM FencedWorkers == Spec => StaleWorkerIsFenced
<1> DEFINE Fenced(i) ==
      LET r == worker[i].row IN
      /\ lock = i /\ worker[i].pc \in Working /\ Claimed(i)
      /\ file'[r].status \in {"ready", "failed"}
      => worker'[i] # worker[i]
<1>1. ASSUME IInv, Next, NEW i \in Instances PROVE Fenced(i)
  <2> DEFINE r == worker[i].row  settled == file'[r].status \in {"ready", "failed"}
  <2> SUFFICES ASSUME worker[i].pc \in Working, Claimed(i), settled
               PROVE  worker'[i] # worker[i]
    OBVIOUS
  <2>1. r \in Rows /\ file[r].status = "processing" /\ file[r].claim = i /\ RowsOK
    BY <1>1 DEF Claimed, IInv
  <2>2. worker[i] \in Worker /\ worker \in [Instances -> Worker]
    BY <1>1 DEF IInv, WorkersOK
  <2>3. file' # file
    BY <2>1, OnlyClaimSettles
  <2>4. ASSUME NEW o \in Requests, Begin(o) \/ Proceed(o) PROVE FALSE
    <3>1. CASE Begin(o)
      BY <2>3, <3>1 DEF Begin, UploadPut, DeleteUnlink, RenameCopy, RetryCheck
    <3>2. CASE Proceed(o)
      <4>1. UploadRow(o) => FALSE
        BY <2>1, <2>3, OnlyClaimSettles DEF UploadRow
      <4>2. DeleteRow(o) => FALSE
        BY <2>1, <2>3, OnlyClaimSettles DEF DeleteRow
      <4>3. RenameFileRow(o) => FALSE
        BY <2>1, <2>3, OnlyClaimSettles DEF RenameFileRow
      <4>4. RetryRow(o) => FALSE
        BY <2>1, <2>3, OnlyClaimSettles DEF RetryRow
      <4>5. QED
        BY <2>3, <3>2, <4>1, <4>2, <4>3, <4>4
        DEF Proceed, UploadUndo, RenameUnlink, RenameUndo, RenameUndoUnlink
    <3>3. QED
      BY <2>4, <3>1, <3>2
  <2>5. ASSUME NEW j \in Instances, Acquire(j) \/ Quit(j) \/ LoseConnection(j) \/ Crash(j)
        PROVE  FALSE
    BY <2>3, <2>5 DEF Acquire, Quit, LoseConnection, Crash, KeepFiles
  <2>6. ASSUME NEW j \in Instances, Sweep(j) PROVE FALSE
    <3>1. Recover(j) => FALSE
      BY <2>1, OnlyClaimSettles DEF Recover
    <3>2. PurgeRow(j) => FALSE
      BY <2>1, OnlyClaimSettles DEF PurgeRow
    <3>3. RecoverUpload(j) => FALSE
      BY <2>1, OnlyClaimSettles DEF RecoverUpload
    <3>4. QED
      BY <2>3, <2>6, <3>1, <3>2, <3>3
      DEF Sweep, ListRows, StatFile, StatsDone, ListDirectory, ScanFiles, SweepDone, KeepFiles
  <2>7. ASSUME NEW j \in Instances, Ingest(j) PROVE worker'[i] # worker[i]
    <3>1. ReindexChanged(j) => FALSE
      BY <2>1, OnlyClaimSettles DEF ReindexChanged, ReindexRows
    <3>2. Claim(j) => FALSE
      BY <2>1, <2>3, OnlyClaimSettles DEF Claim, Oldest
    <3>3. ASSUME Commit(j) \/ Requeue(j) \/ Fail(j) PROVE worker'[i] # worker[i]
      <4>1. j = i
        BY <2>1, <3>3, OnlyClaimSettles DEF Commit, Requeue, Fail
      <4>2. worker[i].pc # "claim" /\ worker'[i].pc = "claim"
        BY <2>2, <3>3, <4>1 DEF Commit, Requeue, Fail, NextJob, Worker
      <4>3. QED
        BY <4>2
    <3>4. QED
      BY <2>3, <2>7, <3>1, <3>2, <3>3 DEF Ingest, Poll, TestClaim, Convert, Embed, Check
  <2>8. ASSUME NEW j \in Instances, StatementFails(j) PROVE worker'[i] # worker[i]
    <3>1. Statement(j)
      BY <2>3, <2>8 DEF StatementFails
    <3>2. ~(worker[j].pc = "reindex" /\ ReindexRows(worker[j].model))
      BY <2>1, OnlyClaimSettles DEF ReindexRows
    <3>3. \A q \in Oldest(RowsWith("pending")) : ~ClaimRow(j, q)
      BY <2>1, OnlyClaimSettles DEF Oldest
    <3>4. /\ worker[j].pc \in {"commit", "requeue", "fail"}
          /\ CompleteRow(j) \/ RequeueRow(j) \/ FailRow(j)
      BY <3>1, <3>2, <3>3 DEF Statement
    <3>5. j = i
      BY <2>1, <3>4, OnlyClaimSettles
    <3>6. worker'[i].pc # worker[i].pc
      BY <2>2, <2>8, <3>4, <3>5 DEF StatementFails, Move, Stop, Worker, Sweeping
    <3>7. QED
      BY <3>6
  <2>9. ~SaveConfiguration
    BY <2>3 DEF SaveConfiguration, KeepFiles
  <2>10. QED
    BY <1>1, <2>4, <2>5, <2>6, <2>7, <2>8, <2>9 DEF Next, Work
<1>2. ASSUME IInv, [Next]_vars PROVE [\A i \in Instances : Fenced(i)]_vars
  BY <1>1, <1>2
<1>3. QED
  BY <1>2, Invariant, PTL DEF Spec, StaleWorkerIsFenced

-----------------------------------------------------------------------------
(* What statements and workers leave alone.                                *)

\* No row appears, goes or gets another name.
SameNames == \A r \in Rows :
    /\ file'[r].name = file[r].name
    /\ file'[r].status \in Present <=> file[r].status \in Present

\* No row becomes ready, and the chunks of ready rows stay.
NoneReady == \A r \in Rows :
    file'[r].status = "ready" => file[r].status = "ready" /\ chunks'[r] = chunks[r]

\* A worker's job does not become its row's current one.
Holds(i, r)   == file[r].status = "processing" /\ file[r].claim = i
NoneHeld(i)   == \A r \in Rows : Holds(i, r)' => Holds(i, r)
Others(i)     == \A j \in Instances \ {i} : worker'[j] = worker[j]

\* Which of these hold of each statement on the rows.
LEMMA StatementKeeps ==
    ASSUME RowsOK, NEW i \in Instances
    PROVE  /\ UNCHANGED <<file, chunks>>
                => SameNames /\ NoneReady /\ \A j \in Instances : NoneHeld(j)
           /\ \A S \in SUBSET {r \in Rows : file[r].status \in Present} :
                file' = Requeued(S) /\ chunks' = chunks
                => SameNames /\ NoneReady /\ \A j \in Instances : NoneHeld(j)
           /\ \A r \in RowsWith("pending") : ClaimRow(i, r) /\ chunks' = chunks
                => SameNames /\ NoneReady /\ \A j \in Instances \ {i} : NoneHeld(j)
           /\ (RequeueRow(i) \/ FailRow(i)) /\ chunks' = chunks
                => SameNames /\ NoneReady /\ \A j \in Instances : NoneHeld(j)
           /\ CompleteRow(i)
                => /\ SameNames /\ \A j \in Instances : NoneHeld(j)
                   /\ NoneReady \/ Claimed(i)
                   /\ \A r \in Rows \ {worker[i].row} :
                        file'[r] = file[r] /\ chunks'[r] = chunks[r]
<1>1. file \in [Rows -> Row] /\ \A r \in Rows : file[r] \in Row
  BY DEF RowsOK
<1>2. UNCHANGED <<file, chunks>>
        => SameNames /\ NoneReady /\ \A j \in Instances : NoneHeld(j)
  BY DEF SameNames, NoneReady, NoneHeld, Holds
<1>3. ASSUME NEW S \in SUBSET {r \in Rows : file[r].status \in Present},
             file' = Requeued(S), chunks' = chunks
      PROVE  SameNames /\ NoneReady /\ \A j \in Instances : NoneHeld(j)
  <2>1. ASSUME NEW r \in Rows
        PROVE  \/ file'[r] = file[r]
               \/ /\ file[r].status \in Present /\ file'[r].status = "pending"
                  /\ file'[r].name = file[r].name
    BY <1>1, <1>3 DEF Requeued, Row
  <2>2. QED
    BY <1>3, <2>1 DEF SameNames, NoneReady, NoneHeld, Holds
<1>4. ASSUME NEW r \in RowsWith("pending"), ClaimRow(i, r), chunks' = chunks
      PROVE  SameNames /\ NoneReady /\ \A j \in Instances \ {i} : NoneHeld(j)
  <2>1. r \in Rows /\ file[r].status = "pending"
    BY DEF RowsWith
  <2>2. /\ \A q \in Rows \ {r} : file'[q] = file[q]
        /\ file'[r].status = "processing" /\ file'[r].claim = i
        /\ file'[r].name = file[r].name
    BY <1>1, <1>4, <2>1 DEF ClaimRow, Row
  <2>3. QED
    BY <1>4, <2>1, <2>2 DEF SameNames, NoneReady, NoneHeld, Holds
<1>5. ASSUME RequeueRow(i) \/ FailRow(i), chunks' = chunks
      PROVE  SameNames /\ NoneReady /\ \A j \in Instances : NoneHeld(j)
  <2>1. CASE Claimed(i)
    <3> DEFINE r == worker[i].row
    <3>1. /\ r \in Rows /\ file[r].status = "processing"
          /\ \A q \in Rows \ {r} : file'[q] = file[q]
          /\ file'[r].status \in {"pending", "failed"} /\ file'[r].name = file[r].name
      BY <1>1, <1>5, <2>1 DEF RequeueRow, FailRow, Claimed, Row
    <3>2. QED
      BY <1>5, <3>1 DEF SameNames, NoneReady, NoneHeld, Holds
  <2>2. CASE ~Claimed(i)
    BY <1>2, <1>5, <2>2 DEF RequeueRow, FailRow
  <2>3. QED
    BY <2>1, <2>2
<1>6. ASSUME CompleteRow(i)
      PROVE  /\ SameNames /\ \A j \in Instances : NoneHeld(j)
             /\ NoneReady \/ Claimed(i)
             /\ \A r \in Rows \ {worker[i].row} :
                  file'[r] = file[r] /\ chunks'[r] = chunks[r]
  <2>1. CASE Claimed(i)
    <3> DEFINE r == worker[i].row
    <3>1. /\ r \in Rows /\ file[r].status = "processing"
          /\ \A q \in Rows \ {r} : file'[q] = file[q] /\ chunks'[q] = chunks[q]
          /\ file'[r].status = "ready" /\ file'[r].name = file[r].name
      BY <1>1, <1>6, <2>1 DEF CompleteRow, Claimed, Row, RowsOK
    <3>2. QED
      BY <2>1, <3>1 DEF SameNames, NoneHeld, Holds
  <2>2. CASE ~Claimed(i)
    BY <1>2, <1>6, <2>2 DEF CompleteRow
  <2>3. QED
    BY <2>1, <2>2
<1>7. QED
  BY <1>2, <1>3, <1>4, <1>5, <1>6

Stored == {n \in Names : disk[n] # None}
Listed == {n \in Names : RowsNamed(n) # {}}

\* Where no row changes its name, the same names are listed.
LEMMA ListedKept ==
    ASSUME SameNames
    PROVE  Listed' = Listed
<1>1. \A n \in Names : RowsNamed(n)' = RowsNamed(n)
  BY DEF SameNames, RowsNamed
<1>2. QED
  BY <1>1 DEF Listed

\* What a worker's moves change.
LEMMA WorkerMoves ==
    ASSUME WorkersOK, NEW i \in Instances
    PROVE  /\ \A pc : Move(i, pc) => /\ Others(i) /\ worker'[i].pc = pc
                                     /\ worker'[i].row = worker[i].row
                                     /\ worker'[i].name = worker[i].name
                                     /\ worker'[i].content = worker[i].content
                                     /\ worker'[i].todo = worker[i].todo
           /\ Stop(i) => Others(i) /\ worker'[i].pc = "off"
           /\ NextJob(i) => Others(i) /\ worker'[i].pc = "claim"
<1>1. worker \in [Instances -> Worker] /\ worker[i] \in Worker
  BY DEF WorkersOK
<1>2. \A pc : Move(i, pc) => /\ Others(i) /\ worker'[i].pc = pc
                             /\ worker'[i].row = worker[i].row
                             /\ worker'[i].name = worker[i].name
                             /\ worker'[i].content = worker[i].content
                             /\ worker'[i].todo = worker[i].todo
  BY <1>1 DEF Move, Others, Worker
<1>3. Stop(i) => Others(i) /\ worker'[i].pc = "off"
  BY <1>1 DEF Stop, Others, Idle
<1>4. NextJob(i) => Others(i) /\ worker'[i].pc = "claim"
  BY <1>1 DEF NextJob, Others, Worker
<1>5. QED
  BY <1>2, <1>3, <1>4

\* Removing the row of a name takes that name from the list.
LEMMA RemoveUnlists ==
    ASSUME RowsOK, NEW n \in Names, RemoveRow(n)
    PROVE  /\ Listed' = Listed \ {n}
           /\ \A r \in Rows : \/ file'[r] = file[r] /\ chunks'[r] = chunks[r]
                                 /\ r \notin RowsNamed(n)
                              \/ r \in RowsNamed(n) /\ file'[r].status = "deleted"
<1>1. \A r \in Rows : file[r] \in Row
  BY DEF RowsOK
<1>2. ASSUME NEW r \in Rows
      PROVE  \/ file'[r] = file[r] /\ chunks'[r] = chunks[r] /\ r \notin RowsNamed(n)
             \/ r \in RowsNamed(n) /\ file'[r].status = "deleted"
  BY <1>1 DEF RemoveRow, Row
<1>3. ASSUME NEW m \in Names PROVE RowsNamed(m)' = IF m = n THEN {} ELSE RowsNamed(m)
  BY <1>2 DEF RowsNamed
<1>4. QED
  BY <1>2, <1>3 DEF Listed

\* Inserting a row lists its name; the row is pending.
LEMMA EnqueueLists ==
    ASSUME RowsOK, NEW n \in Names, Enqueue(n)
    PROVE  /\ Listed' = Listed \cup {n}
           /\ n \in Listed => file' = file
           /\ \A r \in Rows : file'[r] = file[r] \/ file'[r].status = "pending"
<1>1. CASE RowsNamed(n) # {} /\ UNCHANGED file
  BY <1>1 DEF Listed, RowsNamed
<1>2. ASSUME RowsNamed(n) = {}, NEW r \in Rows, file[r].status = "unused",
             file' = [file EXCEPT ![r] = [name |-> n, status |-> "pending",
                                           model |-> None, claim |-> None]]
      PROVE  /\ Listed' = Listed \cup {n} /\ n \notin Listed
             /\ \A q \in Rows : file'[q] = file[q] \/ file'[q].status = "pending"
  <2>1. /\ \A q \in Rows \ {r} : file'[q] = file[q]
        /\ file'[r].name = n /\ file'[r].status = "pending"
    BY <1>2 DEF RowsOK
  <2>2. ASSUME NEW m \in Names
        PROVE  RowsNamed(m)' = IF m = n THEN {r} ELSE RowsNamed(m)
    BY <1>2, <2>1 DEF RowsNamed
  <2>3. QED
    BY <1>2, <2>1, <2>2 DEF Listed
<1>3. QED
  BY <1>1, <1>2 DEF Enqueue, Oldest, RowsWith

-----------------------------------------------------------------------------
(* What the startup sweep leaves.                                          *)

\* What an undisturbed sweep has established at the step it has reached.
Swept(w) ==
    /\ w.pc = "stat" => /\ w.found \cap Stored = {}
                        /\ Listed \ Stored \subseteq w.todo \cup w.found
    /\ w.pc = "purge" => /\ w.todo \cap Stored = {}
                         /\ Listed \ Stored \subseteq w.todo
    /\ w.pc = "scan" => Listed \subseteq Stored /\ w.todo = Stored
    /\ w.pc = "enqueue" => /\ Listed \subseteq Stored /\ w.todo \subseteq Stored
                           /\ Stored \ Listed \subseteq w.todo
    /\ w.pc \notin Sweeping \cup {"off"} => Listed = Stored

SweepInv == \A i \in Instances :
    /\ lock = i => worker[i].pc # "off"
    /\ calm[i] => Swept(worker[i])

\* A step of the sweep.
LEMMA SweepKeepsSwept ==
    ASSUME IInv, SweepInv, NEW i \in Instances, Sweep(i)
    PROVE  SweepInv'
<1> DEFINE w == worker[i]
<1>1. /\ worker \in [Instances -> Worker] /\ w \in Worker /\ WorkersOK /\ RowsOK
      /\ None \notin Instances /\ w.todo \subseteq Names /\ w.found \subseteq Names
      /\ calm \in [Instances -> BOOLEAN]
  BY DEF IInv, WorkersOK, RestOK, Worker
<1>2. /\ disk' = disk /\ Stored' = Stored
      /\ \A j \in Instances \ {i} : calm'[j] = FALSE
      /\ w.pc # "recover" => calm'[i] = calm[i]
  BY <1>1 DEF Sweep, Recover, ListRows, StatFile, StatsDone, PurgeRow, ListDirectory,
              ScanFiles, RecoverUpload, SweepDone, Sweeps, KeepFiles, Stored
<1>3. ASSUME Others(i), worker'[i].pc # "off", lock' = lock,
             calm'[i] => Swept(worker[i])'
      PROVE  SweepInv'
  BY <1>2, <1>3 DEF SweepInv, Others
<1>4. calm[i] => Swept(w)
  BY DEF SweepInv
<1>5. UNCHANGED file => Listed' = Listed
  BY DEF Listed, RowsNamed
<1>6. CASE Recover(i)
  <2>1. Others(i) /\ worker'[i].pc = "list" /\ lock' = lock
    BY <1>1, <1>6, WorkerMoves DEF Recover
  <2>2. QED
    BY <1>3, <2>1 DEF Swept, Sweeping
<1>7. CASE ListRows(i)
  <2>1. /\ Others(i) /\ worker'[i].pc = "stat" /\ lock' = lock /\ Listed' = Listed
        /\ worker'[i].found = {} /\ worker'[i].todo = Listed
    BY <1>1, <1>5, <1>7 DEF ListRows, Others, Worker, Listed, KeepFiles
  <2>2. QED
    BY <1>2, <1>3, <2>1 DEF Swept, Sweeping
<1>8. CASE StatFile(i)
  <2>1. PICK n \in w.todo :
          worker' = [worker EXCEPT ![i].todo = @ \ {n},
                       ![i].found = IF disk[n] = None THEN @ \cup {n} ELSE @]
    BY <1>8 DEF StatFile
  <2>2. /\ Others(i) /\ worker'[i].pc = "stat" /\ lock' = lock /\ Listed' = Listed
        /\ worker'[i].found = IF disk[n] = None THEN w.found \cup {n} ELSE w.found
        /\ worker'[i].todo = w.todo \ {n} /\ w.pc = "stat" /\ calm'[i] = calm[i]
    BY <1>1, <1>2, <1>5, <1>8, <2>1 DEF StatFile, Others, Worker, KeepFiles
  <2>3. n \in Stored <=> disk[n] # None
    BY <1>1 DEF Stored
  <2>4. calm'[i] => Swept(worker[i])'
    <3>1. SUFFICES ASSUME calm'[i]
                   PROVE  /\ worker'[i].found \cap Stored = {}
                          /\ Listed \ Stored \subseteq worker'[i].todo \cup worker'[i].found
      BY <1>2, <2>2 DEF Swept, Sweeping
    <3>2. w.found \cap Stored = {} /\ Listed \ Stored \subseteq w.todo \cup w.found
      BY <1>4, <2>2, <3>1 DEF Swept
    <3>3. QED
      BY <2>2, <2>3, <3>2
  <2>5. QED
    BY <1>3, <2>2, <2>4
<1>9. CASE StatsDone(i)
  <2>1. /\ Others(i) /\ worker'[i].pc = "purge" /\ lock' = lock /\ Listed' = Listed
        /\ worker'[i].todo = w.found /\ w.pc = "stat" /\ w.todo = {}
        /\ calm'[i] = calm[i]
    BY <1>1, <1>2, <1>5, <1>9 DEF StatsDone, Others, Worker, KeepFiles
  <2>2. QED
    BY <1>2, <1>3, <1>4, <2>1 DEF Swept, Sweeping
<1>10. CASE PurgeRow(i)
  <2>1. PICK n \in w.todo : RemoveRow(n) /\ worker' = [worker EXCEPT ![i].todo = @ \ {n}]
    BY <1>10 DEF PurgeRow
  <2>2. /\ Others(i) /\ worker'[i].pc = "purge" /\ lock' = lock
        /\ worker'[i].todo = w.todo \ {n} /\ w.pc = "purge" /\ calm'[i] = calm[i]
    BY <1>1, <1>2, <1>10, <2>1 DEF PurgeRow, Others, Worker
  <2>3. Listed' = Listed \ {n}
    BY <1>1, <2>1, RemoveUnlists
  <2>4. QED
    BY <1>2, <1>3, <1>4, <2>2, <2>3 DEF Swept, Sweeping
<1>11. CASE ListDirectory(i)
  <2>1. /\ Others(i) /\ worker'[i].pc = "scan" /\ lock' = lock /\ Listed' = Listed
        /\ worker'[i].todo = Stored /\ w.pc = "purge" /\ w.todo = {}
        /\ calm'[i] = calm[i]
    BY <1>1, <1>2, <1>5, <1>11 DEF ListDirectory, Others, Worker, KeepFiles, Stored
  <2>2. QED
    BY <1>2, <1>3, <1>4, <2>1 DEF Swept, Sweeping
<1>12. CASE ScanFiles(i)
  <2>1. w.pc = "scan" /\ Listed' = Listed /\ calm'[i] = calm[i]
    BY <1>2, <1>5, <1>12 DEF ScanFiles, KeepFiles
  <2>2. CASE Stop(i) /\ lock' = Released(i)
    <3>1. Others(i) /\ worker'[i].pc = "off"
      BY <1>1, <2>2, WorkerMoves
    <3>2. Swept(worker[i])'
      BY <3>1 DEF Swept, Sweeping
    <3>3. lock' # i /\ \A j \in Instances \ {i} : lock' = j => lock = j
      BY <1>1, <2>2 DEF Released
    <3>4. QED
      BY <1>2, <3>1, <3>2, <3>3 DEF SweepInv, Others
  <2>3. CASE Move(i, "enqueue") /\ UNCHANGED lock
    <3>1. Others(i) /\ worker'[i].pc = "enqueue" /\ worker'[i].todo = w.todo
      BY <1>1, <2>3, WorkerMoves
    <3>2. QED
      BY <1>2, <1>3, <1>4, <2>1, <2>3, <3>1 DEF Swept, Sweeping
  <2>4. QED
    BY <1>12, <2>2, <2>3 DEF ScanFiles
<1>13. CASE RecoverUpload(i)
  <2>1. PICK n \in w.todo : Enqueue(n) /\ worker' = [worker EXCEPT ![i].todo = @ \ {n}]
    BY <1>13 DEF RecoverUpload
  <2>2. /\ Others(i) /\ worker'[i].pc = "enqueue" /\ lock' = lock
        /\ worker'[i].todo = w.todo \ {n} /\ w.pc = "enqueue" /\ calm'[i] = calm[i]
    BY <1>1, <1>2, <1>13, <2>1 DEF RecoverUpload, Others, Worker
  <2>3. Listed' = Listed \cup {n}
    BY <1>1, <2>1, EnqueueLists
  <2>4. QED
    BY <1>2, <1>3, <1>4, <2>2, <2>3 DEF Swept, Sweeping
<1>14. CASE SweepDone(i)
  <2>1. /\ Others(i) /\ worker'[i].pc = "poll" /\ lock' = lock /\ Listed' = Listed
        /\ w.pc = "enqueue" /\ w.todo = {} /\ calm'[i] = calm[i]
    BY <1>1, <1>2, <1>5, <1>14, WorkerMoves DEF SweepDone, KeepFiles
  <2>2. QED
    BY <1>2, <1>3, <1>4, <2>1 DEF Swept, Sweeping
<1>15. QED
  BY <1>6, <1>7, <1>8, <1>9, <1>10, <1>11, <1>12, <1>13, <1>14 DEF Sweep

\* A step of the loop, or one that ends or begins it, keeps the names.
LEMMA LoopKeepsNames ==
    ASSUME IInv, NEW i \in Instances, Ingest(i) \/ Acquire(i) \/ Quit(i) \/ StatementFails(i)
    PROVE  /\ SameNames /\ Others(i) /\ disk' = disk /\ calm' = calm
           /\ \/ worker'[i].pc \in {"off", "recover"}
              \/ worker'[i].pc \notin Sweeping /\ worker[i].pc \notin Sweeping \cup {"off"}
           /\ worker'[i].pc = "off" => lock' # i
           /\ \A j \in Instances \ {i} : lock' = j => lock = j
<1> DEFINE w == worker[i]
<1>1. /\ worker \in [Instances -> Worker] /\ w \in Worker /\ WorkersOK /\ RowsOK
      /\ None \notin Instances
  BY DEF IInv, WorkersOK
<1>2. UNCHANGED <<file, chunks>> => SameNames
  BY <1>1, StatementKeeps
<1>3. ReindexRows(w.model) /\ chunks' = chunks => SameNames
  BY <1>1, StatementKeeps DEF ReindexRows, RowsWith
<1>4. \A r \in Oldest(RowsWith("pending")) : ClaimRow(i, r) /\ chunks' = chunks => SameNames
  BY <1>1, StatementKeeps DEF Oldest
<1>5. (RequeueRow(i) \/ FailRow(i)) /\ chunks' = chunks => SameNames
  BY <1>1, StatementKeeps
<1>6. CompleteRow(i) => SameNames
  BY <1>1, StatementKeeps
<1>7. CASE Ingest(i)
  <2>1. disk' = disk /\ calm' = calm /\ lock' = lock
    BY <1>7 DEF Ingest, Poll, ReindexChanged, TestClaim, Claim, Convert, Embed, Check,
                Commit, Requeue, Fail, Polling, KeepCalm
  <2>2. SameNames
    <3>1. CASE Poll(i) \/ TestClaim(i) \/ Convert(i) \/ Embed(i) \/ Check(i)
      BY <1>2, <3>1 DEF Poll, TestClaim, Convert, Embed, Check
    <3>2. CASE ReindexChanged(i)
      BY <1>3, <3>2 DEF ReindexChanged
    <3>3. CASE Claim(i)
      BY <1>2, <1>4, <3>3 DEF Claim
    <3>4. CASE Commit(i)
      BY <1>6, <3>4 DEF Commit
    <3>5. CASE Requeue(i) \/ Fail(i)
      BY <1>5, <3>5 DEF Requeue, Fail
    <3>6. QED
      BY <1>7, <3>1, <3>2, <3>3, <3>4, <3>5 DEF Ingest
  <2>3. /\ Others(i) /\ w.pc \in {"poll"} \cup Modelled
        /\ worker'[i].pc \in {"poll"} \cup Modelled
    <3>1. CASE Poll(i)
      BY <1>1, <3>1 DEF Poll, Others, Worker, Modelled
    <3>2. CASE Claim(i)
      <4>1. ASSUME NEW r, worker' = [worker EXCEPT ![i].pc = "convert", ![i].row = r,
                                                   ![i].name = file[r].name]
            PROVE  Others(i) /\ worker'[i].pc = "convert"
        BY <1>1, <4>1 DEF Others, Worker
      <4>2. Move(i, "poll") => Others(i) /\ worker'[i].pc = "poll"
        BY <1>1, WorkerMoves
      <4>3. QED
        BY <3>2, <4>1, <4>2 DEF Claim, Modelled, Working
    <3>3. CASE Convert(i)
      <4>1. worker' = [worker EXCEPT ![i].pc = "embed", ![i].content = disk[w.name]]
              => Others(i) /\ worker'[i].pc = "embed"
        BY <1>1 DEF Others, Worker
      <4>2. Move(i, "fail") => Others(i) /\ worker'[i].pc = "fail"
        BY <1>1, WorkerMoves
      <4>3. QED
        BY <3>3, <4>1, <4>2 DEF Convert, Modelled, Working
    <3>4. CASE ReindexChanged(i) \/ TestClaim(i) \/ Embed(i) \/ Check(i)
      <4>1. \E pc \in Modelled : Move(i, pc)
        BY <3>4 DEF ReindexChanged, TestClaim, Embed, Check, Modelled, Working
      <4>2. w.pc \in Modelled
        BY <3>4 DEF ReindexChanged, TestClaim, Embed, Check, Modelled, Working
      <4>3. QED
        BY <1>1, <4>1, <4>2, WorkerMoves
    <3>5. CASE Commit(i) \/ Requeue(i) \/ Fail(i)
      <4>1. NextJob(i) /\ w.pc \in Modelled
        BY <3>5 DEF Commit, Requeue, Fail, Modelled, Working
      <4>2. QED
        BY <1>1, <4>1, WorkerMoves DEF Modelled
    <3>6. QED
      BY <1>7, <3>1, <3>2, <3>3, <3>4, <3>5 DEF Ingest
  <2>4. \A pc \in {"poll"} \cup Modelled : pc \notin Sweeping \cup {"off"}
    BY DEF Modelled, Working, Sweeping
  <2>5. QED
    BY <2>1, <2>2, <2>3, <2>4
<1>8. CASE Acquire(i)
  <2>1. Others(i) /\ worker'[i].pc = "recover"
    BY <1>1, <1>8, WorkerMoves DEF Acquire
  <2>2. QED
    BY <1>2, <1>8, <2>1 DEF Acquire, KeepFiles, KeepCalm
<1>9. CASE Quit(i)
  <2>1. Others(i) /\ worker'[i].pc = "off"
    BY <1>1, <1>9, WorkerMoves DEF Quit
  <2>2. QED
    BY <1>2, <1>9, <2>1 DEF Quit, KeepFiles, KeepCalm
<1>10. CASE StatementFails(i)
  <2>1. SameNames /\ disk' = disk /\ calm' = calm
    BY <1>2, <1>3, <1>4, <1>5, <1>6, <1>10 DEF StatementFails, Statement, KeepCalm
  <2>2. CASE w.pc \in Sweeping /\ Stop(i) /\ lock' = Released(i)
    <3>1. Others(i) /\ worker'[i].pc = "off"
      BY <1>1, <2>2, WorkerMoves
    <3>2. lock' # i /\ \A j \in Instances \ {i} : lock' = j => lock = j
      BY <1>1, <2>2 DEF Released
    <3>3. QED
      BY <2>1, <3>1, <3>2
  <2>3. CASE w.pc \in {"check", "commit", "requeue"} /\ Move(i, "fail") /\ UNCHANGED lock
    <3>1. Others(i) /\ worker'[i].pc = "fail"
      BY <1>1, <2>3, WorkerMoves
    <3>2. QED
      BY <2>1, <2>3, <3>1 DEF Sweeping
  <2>4. CASE /\ w.pc \in {"reindex", "claiming", "fail"}
             /\ worker' = [worker EXCEPT ![i].pc = "poll", ![i].row = 0,
                                         ![i].name = None, ![i].content = None]
             /\ UNCHANGED lock
    <3>1. Others(i) /\ worker'[i].pc = "poll"
      BY <1>1, <2>4 DEF Others, Worker
    <3>2. QED
      BY <2>1, <2>4, <3>1 DEF Sweeping
  <2>5. QED
    BY <1>10, <2>2, <2>3, <2>4 DEF StatementFails
<1>11. QED
  BY <1>7, <1>8, <1>9, <1>10

\* So what an undisturbed sweep left holds on.
LEMMA SweepInvStep ==
    ASSUME IInv, SweepInv, [Next]_vars
    PROVE  SweepInv'
<1>1. CASE \E o \in Requests : (Begin(o) \/ Proceed(o)) /\ Operating
  BY <1>1 DEF SweepInv, Operating
<1>2. ASSUME NEW i \in Instances, Sweep(i) PROVE SweepInv'
  BY <1>2, SweepKeepsSwept
<1>3. ASSUME NEW i \in Instances, Ingest(i) \/ Acquire(i) \/ Quit(i) \/ StatementFails(i)
      PROVE  SweepInv'
  <2>1. /\ SameNames /\ Others(i) /\ disk' = disk /\ calm' = calm
        /\ \/ worker'[i].pc \in {"off", "recover"}
           \/ worker'[i].pc \notin Sweeping /\ worker[i].pc \notin Sweeping \cup {"off"}
        /\ worker'[i].pc = "off" => lock' # i
        /\ \A j \in Instances \ {i} : lock' = j => lock = j
    BY <1>3, LoopKeepsNames
  <2>2. Listed' = Listed /\ Stored' = Stored
    BY <2>1, ListedKept DEF Stored
  <2>3. ASSUME NEW j \in Instances \ {i} PROVE calm'[j] => Swept(worker[j])'
    BY <2>1, <2>2 DEF SweepInv, Swept, Others
  <2>4. calm'[i] => Swept(worker[i])'
    BY <2>1, <2>2 DEF SweepInv, Swept, Sweeping
  <2>5. QED
    BY <2>1, <2>3, <2>4 DEF SweepInv, Others
<1>4. ASSUME UNCHANGED <<disk, file, calm>>, NEW i \in Instances, Others(i),
             worker'[i] = worker[i] \/ (worker'[i].pc = "off" /\ lock' # i),
             \A j \in Instances : lock' = j => lock = j
      PROVE  SweepInv'
  <2>1. Listed' = Listed /\ Stored' = Stored
    BY <1>4 DEF Listed, RowsNamed, Stored
  <2>2. QED
    BY <1>4, <2>1 DEF SweepInv, Swept, Sweeping, Others
<1>5. ASSUME NEW i \in Instances, LoseConnection(i) PROVE SweepInv'
  BY <1>4, <1>5 DEF LoseConnection, KeepFiles, KeepCalm, Others
<1>6. ASSUME NEW i \in Instances, Crash(i) PROVE SweepInv'
  <2>1. Others(i) /\ worker'[i].pc = "off"
    BY <1>6, WorkerMoves DEF Crash, Stop, IInv
  <2>2. lock' # i /\ \A j \in Instances : lock' = j => lock = j
    BY <1>6 DEF Crash, Released
  <2>3. QED
    BY <1>4, <1>6, <2>1, <2>2 DEF Crash, KeepFiles, KeepCalm
<1>7. CASE SaveConfiguration \/ UNCHANGED vars
  <2>1. UNCHANGED <<disk, file, calm, worker, lock>>
    BY <1>7 DEF SaveConfiguration, KeepFiles, KeepCalm, vars
  <2>2. Listed' = Listed /\ Stored' = Stored
    BY <2>1 DEF Listed, RowsNamed, Stored
  <2>3. QED
    BY <2>1, <2>2 DEF SweepInv, Swept
<1>8. QED
  BY <1>1, <1>2, <1>3, <1>5, <1>6, <1>7 DEF Next, Work

\* After an undisturbed startup sweep every file has a row and every row a file,
\* whatever crashes, failed statements and lost connections there were before.
THEOREM SweepIsComplete == Spec => []SweepReconciles
<1>1. Init => SweepInv
  BY DEF Init, SweepInv
<1>2. IInv /\ SweepInv /\ [Next]_vars => SweepInv'
  BY SweepInvStep
<1>3. SweepInv => SweepReconciles
  <2> SUFFICES ASSUME SweepInv, NEW i \in Instances, calm[i], lock = i,
                      worker[i].pc \notin Sweeping
               PROVE  \A n \in Names : disk[n] # None <=> RowsNamed(n) # {}
    BY DEF SweepReconciles
  <2>1. Listed = Stored
    BY DEF SweepInv, Swept
  <2>2. QED
    BY <2>1 DEF Listed, Stored
<1>4. QED
  BY <1>1, <1>2, <1>3, Invariant, PTL DEF Spec

-----------------------------------------------------------------------------
(* One request at a time, quiet sweeps and no failing statements.          *)

\* The bytes that belong to a row of this name: a rename that has moved them and
\* has yet to rename the row left them under the new name.
Bytes(o, n) == IF At(o, "rename", "row") /\ request[o].name = n
               THEN disk[request[o].to] ELSE disk[n]

\* How far the directory is ahead of the rows.
Ahead(o) ==
    LET q == request[o] IN
    \/ request[o] = None /\ Stored = Listed
    \/ At(o, "retry", "row") /\ Stored = Listed
    \/ At(o, "upload", "row") /\ q.name \notin Listed /\ Stored = Listed \cup {q.name}
    \/ At(o, "delete", "row") /\ Stored = Listed \ {q.name}
    \/ /\ At(o, "rename", "unlink") /\ q.name \in Listed /\ q.to \notin Listed
       /\ Stored = Listed \cup {q.to} /\ disk[q.to] = disk[q.name]
    \/ /\ At(o, "rename", "row") /\ q.name \in Listed /\ q.to \notin Listed
       /\ Stored = (Listed \ {q.name}) \cup {q.to}

\* A sweep finds nothing to do.
Restful(o, w) == w.pc \in Sweeping =>
    /\ request[o] = None
    /\ w.pc = "stat" => w.found = {} /\ w.todo \subseteq Listed
    /\ w.pc = "purge" => w.todo = {}
    /\ w.pc \in {"scan", "enqueue"} => w.todo \subseteq Stored

\* A job that is still its row's current one works on the row's bytes.
Job == {"convert", "embed", "check", "commit"}
JobSound(o, i) == worker[i].pc \in Job /\ Claimed(i) =>
    /\ worker[i].name = file[worker[i].row].name
    /\ worker[i].pc # "convert" => Bytes(o, worker[i].name) \in {None, worker[i].content}

ReadySound(o, r) ==
    file[r].status = "ready" => Bytes(o, file[r].name) \in {None, chunks[r].content}

FreshSound(o) ==
    /\ Ahead(o)
    /\ \A i \in Instances : Restful(o, worker[i]) /\ JobSound(o, i)
    /\ \A r \in Rows : ReadySound(o, r)

\* A worker's step that leaves the directory and the names of the rows alone.
LEMMA WorkerKeepsFresh ==
    ASSUME NEW o \in Requests, NEW i \in Instances, FreshSound(o),
           SameNames, Others(i), UNCHANGED <<disk, request>>,
           \A j \in Instances \ {i} : NoneHeld(j),
           Restful(o, worker[i])', JobSound(o, i)',
           \/ NoneReady
           \/ \A r \in Rows : \/ file'[r] = file[r] /\ chunks'[r] = chunks[r]
                             \/ ReadySound(o, r)'
    PROVE  FreshSound(o)'
<1>1. Stored' = Stored /\ Listed' = Listed
  BY ListedKept DEF Stored
<1>2. \A n : Bytes(o, n)' = Bytes(o, n)
  BY DEF Bytes, At
<1>3. Ahead(o)'
  BY <1>1 DEF FreshSound, Ahead, At
<1>4. ASSUME NEW j \in Instances \ {i} PROVE Restful(o, worker[j])' /\ JobSound(o, j)'
  <2>1. worker'[j] = worker[j]
    BY DEF Others
  <2>2. Restful(o, worker[j])'
    BY <1>1, <2>1 DEF FreshSound, Restful
  <2>3. Claimed(j)' => Claimed(j) /\ file'[worker[j].row].name = file[worker[j].row].name
    BY <2>1 DEF Claimed, NoneHeld, Holds, SameNames
  <2>4. JobSound(o, j)'
    BY <1>2, <2>1, <2>3 DEF FreshSound, JobSound
  <2>5. QED
    BY <2>2, <2>4
<1>5. ASSUME NEW r \in Rows PROVE ReadySound(o, r)'
  <2>1. file'[r].name = file[r].name /\ ReadySound(o, r)
    BY DEF SameNames, FreshSound
  <2>2. CASE NoneReady
    BY <1>2, <2>1, <2>2 DEF ReadySound, NoneReady
  <2>3. CASE file'[r] = file[r] /\ chunks'[r] = chunks[r]
    BY <1>2, <2>1, <2>3 DEF ReadySound
  <2>4. QED
    BY <2>2, <2>3
<1>6. QED
  BY <1>3, <1>4, <1>5 DEF FreshSound

\* A sweep finds every file listed and every row's file there.
LEMMA SweepKeepsFresh ==
    ASSUME IInv, NEW o \in Requests, NEW i \in Instances, FreshSound(o), Sweep(i),
           request' = request
    PROVE  FreshSound(o)'
<1> DEFINE w == worker[i]
<1>1. /\ worker \in [Instances -> Worker] /\ w \in Worker /\ WorkersOK /\ RowsOK
      /\ w.todo \subseteq Names /\ w.found \subseteq Names
  BY DEF IInv, WorkersOK, Worker
<1>2. w.pc \in Sweeping /\ Restful(o, w)
  BY DEF Sweep, Recover, ListRows, StatFile, StatsDone, PurgeRow, ListDirectory,
         ScanFiles, RecoverUpload, SweepDone, Sweeping, FreshSound
<1>3. request[o] = None /\ Stored = Listed
  BY <1>2 DEF Restful, FreshSound, Ahead, At
<1>4. \A n \in Names : n \in Stored <=> disk[n] # None
  BY DEF Stored
<1>5. ASSUME disk' = disk, SameNames, NoneReady, \A j \in Instances : NoneHeld(j),
             Others(i), worker'[i].pc \in Sweeping \cup {"off", "poll"},
             worker'[i].pc = "stat" => worker'[i].found = {} /\ worker'[i].todo \subseteq Listed,
             worker'[i].pc = "purge" => worker'[i].todo = {},
             worker'[i].pc \in {"scan", "enqueue"} => worker'[i].todo \subseteq Stored
      PROVE  FreshSound(o)'
  <2>1. Stored' = Stored /\ Listed' = Listed
    BY <1>5, ListedKept DEF Stored
  <2>2. Restful(o, worker[i])'
    BY <1>3, <1>5, <2>1 DEF Restful
  <2>3. JobSound(o, i)'
    BY <1>5 DEF JobSound, Job, Sweeping
  <2>4. QED
    BY <1>5, <2>2, <2>3, WorkerKeepsFresh
<1>6. UNCHANGED <<file, chunks>>
        => SameNames /\ NoneReady /\ \A j \in Instances : NoneHeld(j)
  BY <1>1, StatementKeeps
<1>7. CASE Recover(i)
  <2>1. Others(i) /\ worker'[i].pc = "list"
    BY <1>1, <1>7, WorkerMoves DEF Recover
  <2>2. SameNames /\ NoneReady /\ \A j \in Instances : NoneHeld(j)
    BY <1>1, <1>7, StatementKeeps DEF Recover, RowsWith
  <2>3. QED
    BY <1>5, <1>7, <2>1, <2>2 DEF Recover, Sweeping
<1>8. CASE ListRows(i)
  <2>1. /\ Others(i) /\ worker'[i].pc = "stat"
        /\ worker'[i].found = {} /\ worker'[i].todo = Listed
    BY <1>1, <1>8 DEF ListRows, Others, Worker, Listed
  <2>2. QED
    BY <1>5, <1>6, <1>8, <2>1 DEF ListRows, KeepFiles, Sweeping
<1>9. CASE StatFile(i)
  <2>1. PICK n \in w.todo :
          worker' = [worker EXCEPT ![i].todo = @ \ {n},
                       ![i].found = IF disk[n] = None THEN @ \cup {n} ELSE @]
    BY <1>9 DEF StatFile
  <2>2. w.pc = "stat" /\ w.found = {} /\ w.todo \subseteq Listed
    BY <1>2, <1>9 DEF StatFile, Restful, Sweeping
  <2>3. disk[n] # None
    BY <1>1, <1>3, <1>4, <2>2
  <2>4. /\ Others(i) /\ worker'[i].pc = "stat" /\ worker'[i].found = {}
        /\ worker'[i].todo = w.todo \ {n}
    BY <1>1, <2>1, <2>2, <2>3 DEF Others, Worker
  <2>5. QED
    BY <1>5, <1>6, <1>9, <2>2, <2>4 DEF StatFile, KeepFiles, Sweeping
<1>10. CASE StatsDone(i)
  <2>1. Others(i) /\ worker'[i].pc = "purge" /\ worker'[i].todo = {}
    BY <1>1, <1>2, <1>10 DEF StatsDone, Others, Worker, Restful, Sweeping
  <2>2. QED
    BY <1>5, <1>6, <1>10, <2>1 DEF StatsDone, KeepFiles, Sweeping
<1>11. CASE PurgeRow(i)
  BY <1>2, <1>11 DEF PurgeRow, Restful, Sweeping
<1>12. CASE ListDirectory(i)
  <2>1. Others(i) /\ worker'[i].pc = "scan" /\ worker'[i].todo = Stored
    BY <1>1, <1>12 DEF ListDirectory, Others, Worker, Stored
  <2>2. QED
    BY <1>5, <1>6, <1>12, <2>1 DEF ListDirectory, KeepFiles, Sweeping
<1>13. CASE ScanFiles(i)
  <2>1. w.pc = "scan" /\ w.todo \subseteq Stored
    BY <1>2, <1>13 DEF ScanFiles, Restful, Sweeping
  <2>2. /\ Others(i) /\ worker'[i].pc \in {"off", "enqueue"}
        /\ worker'[i].pc = "enqueue" => worker'[i].todo = w.todo
    BY <1>1, <1>13, WorkerMoves DEF ScanFiles
  <2>3. QED
    BY <1>5, <1>6, <1>13, <2>1, <2>2 DEF ScanFiles, KeepFiles, Sweeping
<1>14. CASE RecoverUpload(i)
  <2>1. PICK n \in w.todo : Enqueue(n) /\ worker' = [worker EXCEPT ![i].todo = @ \ {n}]
    BY <1>14 DEF RecoverUpload
  <2>2. w.pc = "enqueue" /\ w.todo \subseteq Stored
    BY <1>2, <1>14 DEF RecoverUpload, Restful, Sweeping
  <2>3. file' = file
    BY <1>1, <1>3, <2>1, <2>2, EnqueueLists
  <2>4. /\ Others(i) /\ worker'[i].pc = "enqueue"
        /\ worker'[i].todo = w.todo \ {n}
    BY <1>1, <2>1, <2>2 DEF Others, Worker
  <2>5. QED
    BY <1>5, <1>6, <1>14, <2>2, <2>3, <2>4 DEF RecoverUpload, Sweeping
<1>15. CASE SweepDone(i)
  <2>1. Others(i) /\ worker'[i].pc = "poll"
    BY <1>1, <1>15, WorkerMoves DEF SweepDone
  <2>2. QED
    BY <1>5, <1>6, <1>15, <2>1 DEF SweepDone, KeepFiles, Sweeping
<1>16. QED
  BY <1>7, <1>8, <1>9, <1>10, <1>11, <1>12, <1>13, <1>14, <1>15 DEF Sweep

\* A job reads its row's bytes, and only what it read of them makes a row ready.
LEMMA LoopKeepsFresh ==
    ASSUME IInv, NEW o \in Requests, NEW i \in Instances, FreshSound(o),
           Ingest(i) \/ Acquire(i) \/ Quit(i), request' = request,
           Acquire(i) => request[o] = None
    PROVE  FreshSound(o)'
<1> DEFINE w == worker[i]
<1>1. /\ worker \in [Instances -> Worker] /\ w \in Worker /\ WorkersOK /\ RowsOK
      /\ Equipped(w) /\ JobSound(o, i)
  BY DEF IInv, WorkersOK, FreshSound
<1>2. SameNames /\ Others(i) /\ disk' = disk
  BY LoopKeepsNames
<1>3. ASSUME NoneReady, \A j \in Instances \ {i} : NoneHeld(j),
             Restful(o, worker[i])', JobSound(o, i)'
      PROVE  FreshSound(o)'
  BY <1>2, <1>3, WorkerKeepsFresh
<1>4. UNCHANGED <<file, chunks>> => NoneReady /\ \A j \in Instances : NoneHeld(j)
  BY <1>1, StatementKeeps
<1>5. worker'[i].pc \notin Sweeping => Restful(o, worker[i])'
  BY DEF Restful
<1>6. worker'[i].pc \notin Job => JobSound(o, i)'
  BY DEF JobSound
<1>7. \A n : Bytes(o, n)' = Bytes(o, n)
  BY <1>2 DEF Bytes, At
<1>8. CASE Poll(i) \/ TestClaim(i)
  <2>1. worker'[i].pc \in {"reindex", "claiming"}
    BY <1>1, <1>8, WorkerMoves DEF Poll, TestClaim, Worker
  <2>2. QED
    BY <1>3, <1>4, <1>5, <1>6, <1>8, <2>1 DEF Poll, TestClaim, Sweeping, Job
<1>9. CASE ReindexChanged(i)
  <2>1. worker'[i].pc = "claim"
    BY <1>1, <1>9, WorkerMoves DEF ReindexChanged
  <2>2. NoneReady /\ \A j \in Instances : NoneHeld(j)
    BY <1>1, <1>9, StatementKeeps DEF ReindexChanged, ReindexRows, RowsWith
  <2>3. QED
    BY <1>3, <1>5, <1>6, <2>1, <2>2 DEF Sweeping, Job
<1>10. CASE Claim(i)
  <2>1. CASE RowsWith("pending") = {} /\ Move(i, "poll") /\ UNCHANGED file
    <3>1. worker'[i].pc = "poll"
      BY <1>1, <2>1, WorkerMoves
    <3>2. QED
      BY <1>3, <1>4, <1>5, <1>6, <1>10, <2>1, <3>1 DEF Claim, Sweeping, Job
  <2>2. ASSUME NEW r \in Oldest(RowsWith("pending")), ClaimRow(i, r),
               worker' = [worker EXCEPT ![i].pc = "convert", ![i].row = r,
                                        ![i].name = file[r].name]
        PROVE  FreshSound(o)'
    <3>1. r \in RowsWith("pending") /\ r \in Rows
      BY DEF Oldest, RowsWith
    <3>2. NoneReady /\ \A j \in Instances \ {i} : NoneHeld(j)
      BY <1>1, <1>10, <2>2, <3>1, StatementKeeps DEF Claim
    <3>3. /\ worker'[i].pc = "convert" /\ worker'[i].row = r
          /\ worker'[i].name = file[r].name
      BY <1>1, <2>2 DEF Worker
    <3>4. file'[r].name = file[r].name
      BY <1>2, <3>1 DEF SameNames
    <3>5. JobSound(o, i)'
      BY <3>3, <3>4 DEF JobSound
    <3>6. QED
      BY <1>3, <1>5, <3>2, <3>3, <3>5 DEF Sweeping
  <2>3. QED
    BY <1>10, <2>1, <2>2 DEF Claim
<1>11. ASSUME UNCHANGED <<file, chunks>>, worker'[i].row = w.row, worker'[i].name = w.name,
              w.pc \in Job, worker'[i].pc \in Job \ {"convert"},
              Claimed(i) => Bytes(o, w.name) \in {None, worker'[i].content}
       PROVE  FreshSound(o)'
  <2>1. Claimed(i)' => Claimed(i)
    BY <1>11 DEF Claimed
  <2>2. JobSound(o, i)'
    BY <1>1, <1>7, <1>11, <2>1 DEF JobSound
  <2>3. QED
    BY <1>3, <1>4, <1>5, <1>11, <2>2 DEF Sweeping, Job
<1>12. CASE Convert(i)
  <2>1. CASE Move(i, "fail")
    <3>1. worker'[i].pc = "fail"
      BY <1>1, <2>1, WorkerMoves
    <3>2. QED
      BY <1>3, <1>4, <1>5, <1>6, <1>12, <3>1 DEF Convert, Sweeping, Job
  <2>2. CASE /\ disk[w.name] # None
             /\ worker' = [worker EXCEPT ![i].pc = "embed", ![i].content = disk[w.name]]
    <3>1. /\ worker'[i].pc = "embed" /\ worker'[i].content = disk[w.name]
          /\ worker'[i].row = w.row /\ worker'[i].name = w.name /\ w.pc = "convert"
      BY <1>1, <1>12, <2>2 DEF Convert, Worker
    <3>2. w.name \in Stored
      BY <1>1, <2>2, <3>1 DEF Equipped, Stored
    <3>3. At(o, "rename", "row") => request[o].name \notin Stored
      BY DEF FreshSound, Ahead, At
    <3>4. Bytes(o, w.name) = disk[w.name]
      BY <3>2, <3>3 DEF Bytes
    <3>5. QED
      BY <1>11, <1>12, <3>1, <3>4 DEF Convert, Job
  <2>3. QED
    BY <1>12, <2>1, <2>2 DEF Convert
<1>13. CASE Embed(i) \/ Check(i)
  <2>1. PICK pc \in {"check", "commit", "requeue", "fail"} : Move(i, pc)
    BY <1>13 DEF Embed, Check
  <2>2. /\ worker'[i].pc = pc /\ worker'[i].row = w.row /\ worker'[i].name = w.name
        /\ worker'[i].content = w.content
    BY <1>1, <2>1, WorkerMoves
  <2>3. UNCHANGED <<file, chunks>> /\ w.pc \in {"embed", "check"}
    BY <1>13 DEF Embed, Check
  <2>4. CASE pc \in {"requeue", "fail"}
    BY <1>3, <1>4, <1>5, <1>6, <2>2, <2>3, <2>4 DEF Sweeping, Job
  <2>5. CASE pc \in {"check", "commit"}
    BY <1>1, <1>11, <2>2, <2>3, <2>5 DEF JobSound, Job
  <2>6. QED
    BY <2>1, <2>4, <2>5
<1>14. CASE Requeue(i) \/ Fail(i)
  <2>1. worker'[i].pc = "claim"
    BY <1>1, <1>14, WorkerMoves DEF Requeue, Fail
  <2>2. NoneReady /\ \A j \in Instances : NoneHeld(j)
    BY <1>1, <1>14, StatementKeeps DEF Requeue, Fail
  <2>3. QED
    BY <1>3, <1>5, <1>6, <2>1, <2>2 DEF Sweeping, Job
<1>15. CASE Commit(i)
  <2>1. worker'[i].pc = "claim" /\ w.pc = "commit" /\ CompleteRow(i)
    BY <1>1, <1>15, WorkerMoves DEF Commit
  <2>2. /\ \A j \in Instances : NoneHeld(j)
        /\ NoneReady \/ Claimed(i)
        /\ \A r \in Rows \ {w.row} :
             file'[r] = file[r] /\ chunks'[r] = chunks[r]
    BY <1>1, <2>1, StatementKeeps
  <2>3. Restful(o, worker[i])' /\ JobSound(o, i)'
    BY <1>5, <1>6, <2>1 DEF Sweeping, Job
  <2>4. CASE NoneReady
    BY <1>3, <2>2, <2>3, <2>4
  <2>5. CASE Claimed(i) /\ \A r \in Rows \ {w.row} : file'[r] = file[r] /\ chunks'[r] = chunks[r]
    <3>1. /\ w.row \in Rows /\ w.name = file[w.row].name
          /\ Bytes(o, w.name) \in {None, w.content}
      BY <1>1, <2>1, <2>5 DEF JobSound, Job, Claimed
    <3>2. PICK q \in Rows : q = w.row
      BY <3>1
    <3>3. file'[q].name = w.name /\ chunks'[q].content = w.content
      BY <1>1, <1>2, <2>1, <2>5, <3>1, <3>2 DEF CompleteRow, RowsOK, SameNames
    <3>4. ReadySound(o, q)'
      BY <1>7, <3>1, <3>3 DEF ReadySound
    <3>5. \A r \in Rows : \/ file'[r] = file[r] /\ chunks'[r] = chunks[r]
                         \/ ReadySound(o, r)'
      BY <2>5, <3>2, <3>4
    <3>6. QED
      BY <1>2, <2>2, <2>3, <3>5, WorkerKeepsFresh
  <2>6. QED
    BY <2>2, <2>4, <2>5
<1>16. CASE Acquire(i)
  <2>1. worker'[i].pc = "recover" /\ UNCHANGED <<file, chunks>>
    BY <1>1, <1>16, WorkerMoves DEF Acquire, KeepFiles
  <2>2. request'[o] = None
    BY <1>16
  <2>3. Restful(o, worker[i])' /\ JobSound(o, i)'
    BY <1>6, <2>1, <2>2 DEF Restful, Job
  <2>4. QED
    BY <1>3, <1>4, <2>1, <2>3
<1>17. CASE Quit(i)
  <2>1. worker'[i].pc = "off" /\ UNCHANGED <<file, chunks>>
    BY <1>1, <1>17, WorkerMoves DEF Quit, KeepFiles
  <2>2. QED
    BY <1>3, <1>4, <1>5, <1>6, <2>1 DEF Sweeping, Job
<1>18. QED
  BY <1>8, <1>9, <1>10, <1>12, <1>13, <1>14, <1>15, <1>16, <1>17 DEF Ingest

\* A request's step on the rows and the directory: a row that is ready or in
\* progress was so before, and its bytes are the same or gone.
ByteStep(o) == \A r \in Rows :
    /\ file'[r].status = "ready" =>
         /\ file[r].status = "ready" /\ chunks'[r] = chunks[r]
         /\ Bytes(o, file[r].name)' \in {None, Bytes(o, file[r].name)}
    /\ file'[r].status = "processing" =>
         /\ file[r].status = "processing" /\ file'[r].claim = file[r].claim
         /\ file'[r].name = file[r].name
         /\ Bytes(o, file[r].name)' \in {None, Bytes(o, file[r].name)}

\* Such a step keeps what is ready or in progress fresh.
LEMMA RequestKeepsFresh ==
    ASSUME NEW o \in Requests, FreshSound(o), Operating, Ahead(o)', ByteStep(o),
           \A i \in Instances : worker[i].pc \notin Sweeping
    PROVE  FreshSound(o)'
<1>1. worker' = worker
  BY DEF Operating
<1>2. ASSUME NEW i \in Instances PROVE Restful(o, worker[i])' /\ JobSound(o, i)'
  <2>1. Restful(o, worker[i])'
    BY <1>1 DEF Restful
  <2>2. SUFFICES ASSUME worker'[i].pc \in Job, Claimed(i)'
                 PROVE  /\ worker'[i].name = file'[worker'[i].row].name
                        /\ worker'[i].pc # "convert"
                             => Bytes(o, worker[i].name)' \in {None, worker'[i].content}
    BY <2>1 DEF JobSound
  <2>3. PICK r \in Rows : /\ r = worker[i].row
                          /\ file'[r].status = "processing" /\ file'[r].claim = i
    BY <1>1, <2>2 DEF Claimed
  <2>4. /\ file[r].status = "processing" /\ file[r].claim = i
        /\ file'[r].name = file[r].name
        /\ Bytes(o, file[r].name)' \in {None, Bytes(o, file[r].name)}
    BY <2>3 DEF ByteStep
  <2>5. /\ worker[i].name = file[r].name
        /\ worker[i].pc # "convert" => Bytes(o, file[r].name) \in {None, worker[i].content}
    BY <1>1, <2>2, <2>3, <2>4 DEF FreshSound, JobSound, Claimed
  <2>6. Bytes(o, worker[i].name)' = Bytes(o, file[r].name)'
    BY <1>1, <2>4, <2>5
  <2>7. QED
    BY <1>1, <2>3, <2>4, <2>5, <2>6
<1>3. ASSUME NEW r \in Rows PROVE ReadySound(o, r)'
  BY DEF ByteStep, FreshSound, ReadySound
<1>4. QED
  BY <1>2, <1>3 DEF FreshSound

\* A row that is present has its name listed.
LEMMA PresentIsListed ==
    ASSUME RowsOK, NEW r \in Rows, file[r].status \in Present
    PROVE  file[r].name \in Names /\ file[r].name \in Listed
BY DEF RowsOK, NamedRow, Listed, RowsNamed

\* A request is accepted: the directory moves ahead of the rows.
LEMMA BeginKeepsFresh ==
    ASSUME IInv, NEW o \in Requests, FreshSound(o), QuietSweeps, Begin(o), Operating
    PROVE  FreshSound(o)'
<1>1. PICK i \in Instances :
        UploadPut(o, i) \/ DeleteUnlink(o, i) \/ RenameCopy(o, i) \/ RetryCheck(o, i)
  BY DEF Begin
<1>2. /\ RowsOK /\ disk \in [Names -> Contents \cup {None}]
      /\ request \in [Requests -> Request \cup {None}]
  BY DEF IInv, RestOK
<1>3. /\ request[o] = None /\ Stored = Listed /\ UNCHANGED <<file, chunks>>
      /\ \A j \in Instances : worker[j].pc \notin Sweeping
  BY <1>1 DEF Begin, UploadPut, DeleteUnlink, RenameCopy, RetryCheck, Accept, FreshSound,
              Ahead, At
<1>4. Listed' = Listed /\ \A n \in Names : Bytes(o, n) = disk[n]
  BY <1>3 DEF Listed, RowsNamed, Bytes, At
<1>5. ASSUME NEW k \in {"upload", "rename", "delete", "retry"}, NEW s \in {"row", "unlink"},
             NEW n \in Names, NEW m \in Names, Accept(o, i, k, n, m, s)
      PROVE  /\ request'[o] # None /\ request'[o].kind = k /\ request'[o].step = s
             /\ request'[o].name = n /\ request'[o].to = m
  <2> DEFINE q == [kind |-> k, name |-> n, to |-> m, step |-> s, at |-> i]
  <2>1. q \in Request /\ q.kind = k /\ q.step = s /\ q.name = n /\ q.to = m
    BY DEF Request
  <2>2. q # None
    BY <2>1
  <2>3. request'[o] = q
    BY <1>2, <1>5 DEF Accept
  <2>4. QED
    BY <2>1, <2>2, <2>3
<1>6. ASSUME Ahead(o)', \A n \in Listed : Bytes(o, n)' \in {None, disk[n]}
      PROVE  FreshSound(o)'
  <2>1. ByteStep(o)
    <3>1. ASSUME NEW r \in Rows, file'[r].status \in {"ready", "processing"}
          PROVE  Bytes(o, file[r].name)' \in {None, Bytes(o, file[r].name)}
      <4>1. file[r].name \in Names /\ file[r].name \in Listed /\ file'[r] = file[r]
        BY <1>2, <1>3, <3>1, PresentIsListed
      <4>2. PICK n \in Listed : n = file[r].name /\ n \in Names
        BY <4>1
      <4>3. Bytes(o, file[r].name)' = Bytes(o, n)'
        BY <4>1, <4>2
      <4>4. QED
        BY <1>4, <1>6, <4>2, <4>3
    <3>2. QED
      BY <1>3, <3>1 DEF ByteStep
  <2>2. QED
    BY <1>3, <1>6, <2>1, RequestKeepsFresh
<1>7. CASE UploadPut(o, i)
  <2>1. PICK n \in Names, d \in Contents :
          disk[n] = None /\ Accept(o, i, "upload", n, n, "row") /\ disk' = [disk EXCEPT ![n] = d]
    BY <1>7 DEF UploadPut
  <2>2. n \notin Stored /\ Stored' = Stored \cup {n}
    BY <1>2, <2>1 DEF Stored
  <2>3. At(o, "upload", "row")' /\ request'[o].name = n
    BY <1>5, <2>1 DEF At
  <2>4. Ahead(o)'
    BY <1>3, <1>4, <2>2, <2>3 DEF Ahead
  <2>5. \A x \in Listed : Bytes(o, x)' = disk[x]
    BY <1>2, <1>3, <2>1, <2>2, <2>3 DEF Bytes, At, Listed
  <2>6. QED
    BY <1>6, <2>4, <2>5
<1>8. CASE DeleteUnlink(o, i)
  <2>1. PICK n \in Names :
          Accept(o, i, "delete", n, n, "row") /\ disk' = [disk EXCEPT ![n] = None]
    BY <1>8 DEF DeleteUnlink
  <2>2. Stored' = Stored \ {n}
    BY <1>2, <2>1 DEF Stored
  <2>3. At(o, "delete", "row")' /\ request'[o].name = n
    BY <1>5, <2>1 DEF At
  <2>4. Ahead(o)'
    BY <1>3, <1>4, <2>2, <2>3 DEF Ahead
  <2>5. \A x \in Listed : Bytes(o, x)' \in {None, disk[x]}
    BY <1>2, <2>1, <2>3 DEF Bytes, At, Listed
  <2>6. QED
    BY <1>6, <2>4, <2>5
<1>9. CASE RenameCopy(o, i)
  <2>1. PICK n, m \in Names :
          /\ disk[n] # None /\ disk[m] = None
          /\ Accept(o, i, "rename", n, m, "unlink") /\ disk' = [disk EXCEPT ![m] = disk[n]]
    BY <1>9 DEF RenameCopy
  <2>2. n \in Stored /\ m \notin Stored /\ Stored' = Stored \cup {m}
    BY <1>2, <2>1 DEF Stored
  <2>3. At(o, "rename", "unlink")' /\ request'[o].name = n /\ request'[o].to = m
    BY <1>5, <2>1 DEF At
  <2>4. Ahead(o)'
    BY <1>2, <1>3, <1>4, <2>1, <2>2, <2>3 DEF Ahead
  <2>5. \A x \in Listed : Bytes(o, x)' = disk[x]
    BY <1>2, <1>3, <2>1, <2>2, <2>3 DEF Bytes, At, Listed
  <2>6. QED
    BY <1>6, <2>4, <2>5
<1>10. CASE RetryCheck(o, i)
  <2>1. PICK n \in Names : Accept(o, i, "retry", n, n, "row") /\ disk' = disk
    BY <1>10 DEF RetryCheck
  <2>2. Stored' = Stored
    BY <2>1 DEF Stored
  <2>3. At(o, "retry", "row")'
    BY <1>5, <2>1 DEF At
  <2>4. Ahead(o)'
    BY <1>3, <1>4, <2>2, <2>3 DEF Ahead
  <2>5. \A x \in Listed : Bytes(o, x)' = disk[x]
    BY <2>1, <2>3 DEF Bytes, At
  <2>6. QED
    BY <1>6, <2>4, <2>5
<1>11. QED
  BY <1>1, <1>7, <1>8, <1>9, <1>10

\* Renaming a row replaces its name in the list and gives back a file in progress.
LEMMA RenameLists ==
    ASSUME RowsOK, NEW n \in Names, NEW m \in Names, RenameRow(n, m),
           n \in Listed, m \notin Listed
    PROVE  /\ Listed' = (Listed \ {n}) \cup {m}
           /\ \A r \in Rows :
                \/ file'[r] = file[r] /\ r \notin RowsNamed(n)
                \/ /\ r \in RowsNamed(n) /\ file'[r].name = m
                   /\ file'[r].status # "processing"
                   /\ file'[r].status = "ready" => file[r].status = "ready"
<1>1. \A r \in Rows : file[r] \in Row
  BY DEF RowsOK
<1>2. ASSUME NEW r \in Rows
      PROVE  \/ file'[r] = file[r] /\ r \notin RowsNamed(n)
             \/ /\ r \in RowsNamed(n) /\ file'[r].name = m
                /\ file'[r].status \in Present \ {"processing"}
                /\ file'[r].status = "ready" => file[r].status = "ready"
  <2>1. CASE r \in RowsNamed(n)
    <3> DEFINE q == [file[r] EXCEPT !.name = m, !.claim = None,
                      !.status = IF @ = "processing" THEN "pending" ELSE @]
    <3>1. file'[r] = q /\ file[r].status \in Present
      BY <2>1 DEF RenameRow, RowsNamed
    <3>2. /\ q.name = m
          /\ q.status = IF file[r].status = "processing" THEN "pending" ELSE file[r].status
      BY <1>1 DEF Row
    <3> HIDE DEF q
    <3>3. QED
      BY <2>1, <3>1, <3>2
  <2>2. CASE r \notin RowsNamed(n)
    BY <2>2 DEF RenameRow
  <2>3. QED
    BY <2>1, <2>2
<1>3. RowsNamed(m) = {} /\ RowsNamed(n) # {} /\ n # m
  BY DEF Listed
<1>4. RowsNamed(m)' = RowsNamed(n) /\ RowsNamed(n)' = {}
  <2>1. RowsNamed(m)' = RowsNamed(n)
    BY <1>2, <1>3 DEF RowsNamed
  <2>2. RowsNamed(n)' = {}
    BY <1>2, <1>3 DEF RowsNamed
  <2>3. QED
    BY <2>1, <2>2
<1>5. \A x \in Names \ {n, m} : RowsNamed(x)' = RowsNamed(x)
  BY <1>2 DEF RowsNamed
<1>6. QED
  BY <1>2, <1>3, <1>4, <1>5 DEF Listed

\* A request goes on: the rows catch up with the directory.
LEMMA ProceedKeepsFresh ==
    ASSUME IInv, NEW o \in Requests, FreshSound(o), MaxFaults = 0, Proceed(o), Operating
    PROVE  FreshSound(o)'
<1> DEFINE q == request[o]  n == q.name  m == q.to
<1>1. /\ RowsOK /\ disk \in [Names -> Contents \cup {None}]
      /\ request \in [Requests -> Request \cup {None}]
  BY DEF IInv, RestOK
<1>2. q # None /\ q \in Request /\ n \in Names /\ m \in Names
  <2>1. q # None
    BY DEF Proceed, At, UploadRow, UploadUndo, DeleteRow, RenameUnlink, RenameFileRow,
           RenameUndo, RenameUndoUnlink, RetryRow
  <2>2. QED
    BY <1>1, <2>1 DEF Request
<1>3. \A i \in Instances : worker[i].pc \notin Sweeping
  BY <1>2 DEF FreshSound, Restful
<1>4. ~Spend("faults")
  BY DEF Spend, IInv, RestOK, Bounds
<1>5. Answer(o) => request'[o] = None
  BY <1>1 DEF Answer
<1>6. \A x \in Names : x \in Stored <=> disk[x] # None
  BY DEF Stored
<1>7. ASSUME NEW r \in Rows, file[r].status \in Present
      PROVE  \E x \in Listed : x = file[r].name /\ x \in Names
  BY <1>1, <1>7, PresentIsListed
<1>8. ASSUME disk' = disk, Answer(o), Listed' = Stored, q.kind # "rename",
             \A r \in Rows : \/ file'[r] = file[r] /\ chunks'[r] = chunks[r]
                             \/ file'[r].status \notin {"ready", "processing"}
      PROVE  FreshSound(o)'
  <2>1. Stored' = Stored
    BY <1>8 DEF Stored
  <2>2. Ahead(o)'
    BY <1>5, <1>8, <2>1 DEF Ahead
  <2>3. \A x : Bytes(o, x)' = disk[x] /\ Bytes(o, x) = disk[x]
    BY <1>5, <1>8 DEF Bytes, At
  <2>4. ByteStep(o)
    <3>1. ASSUME NEW r \in Rows, file'[r] = file[r]
          PROVE  Bytes(o, file[r].name)' = Bytes(o, file[r].name)
      BY <2>3, <3>1
    <3>2. QED
      BY <1>8, <3>1 DEF ByteStep
  <2>5. QED
    BY <1>3, <2>2, <2>4, RequestKeepsFresh
<1> HIDE DEF n, m
<1>9. CASE UploadRow(o)
  <2>1. At(o, "upload", "row") /\ n \notin Listed /\ Stored = Listed \cup {n}
    BY <1>9 DEF UploadRow, FreshSound, Ahead, At, n
  <2>2. disk[n] # None
    BY <1>2, <1>6, <2>1
  <2>3. Enqueue(n) /\ Answer(o) /\ UNCHANGED <<disk, chunks>>
    BY <1>4, <1>9, <2>2 DEF UploadRow, Unstored, n
  <2>4. QED
    BY <1>1, <1>2, <1>8, <2>1, <2>3, EnqueueLists DEF At
<1>10. CASE DeleteRow(o)
  <2>1. At(o, "delete", "row") /\ Stored = Listed \ {n}
    BY <1>10 DEF DeleteRow, FreshSound, Ahead, At, n
  <2>2. RemoveRow(n) /\ Answer(o) /\ UNCHANGED disk
    BY <1>4, <1>10 DEF DeleteRow, n
  <2>3. /\ Listed' = Listed \ {n}
        /\ \A r \in Rows : \/ file'[r] = file[r] /\ chunks'[r] = chunks[r]
                           \/ file'[r].status = "deleted"
    BY <1>1, <1>2, <2>2, RemoveUnlists
  <2>4. QED
    BY <1>8, <2>1, <2>2, <2>3 DEF At
<1>11. CASE RetryRow(o)
  <2> DEFINE S == {r \in RowsNamed(n) : file[r].status = "failed"}
  <2>1. At(o, "retry", "row") /\ Stored = Listed
    BY <1>11 DEF RetryRow, FreshSound, Ahead, At
  <2>2. file' = Requeued(S) /\ Answer(o) /\ UNCHANGED <<disk, chunks>>
    BY <1>4, <1>11 DEF RetryRow, n
  <2>3. S \in SUBSET {r \in Rows : file[r].status \in Present}
    BY DEF RowsNamed
  <2> HIDE DEF S
  <2>4. ASSUME NEW r \in Rows
        PROVE  \/ file'[r] = file[r]
               \/ /\ file[r].status \in Present /\ file'[r].status = "pending"
                  /\ file'[r].name = file[r].name
    <3>1. file[r] \in Row /\ (r \in S => file[r].status \in Present)
      BY <1>1, <2>3 DEF RowsOK
    <3>2. file'[r] = IF r \in S THEN [file[r] EXCEPT !.status = "pending", !.claim = None]
                     ELSE file[r]
      BY <2>2 DEF Requeued
    <3>3. QED
      BY <3>1, <3>2 DEF Row
  <2>5. SameNames
    BY <2>4 DEF SameNames
  <2>6. Listed' = Listed
    BY <2>5, ListedKept
  <2>7. QED
    BY <1>8, <2>1, <2>2, <2>4, <2>6 DEF At
<1>12. CASE RenameUnlink(o)
  <2>1. /\ At(o, "rename", "unlink") /\ n \in Listed /\ m \notin Listed
        /\ Stored = Listed \cup {m} /\ disk[m] = disk[n]
    BY <1>12 DEF RenameUnlink, FreshSound, Ahead, At, n, m
  <2>2. disk[n] # None
    BY <1>2, <1>6, <2>1
  <2>3. Goto(o, "row") /\ disk' = [disk EXCEPT ![n] = None] /\ UNCHANGED <<file, chunks>>
    BY <1>12, <2>2 DEF RenameUnlink, n
  <2>4. At(o, "rename", "row")' /\ request'[o].name = n /\ request'[o].to = m
    <3> DEFINE w == [request[o] EXCEPT !.step = "row"]
    <3>1. /\ w \in Request /\ w.step = "row" /\ w.kind = "rename" /\ w.name = n /\ w.to = m
      BY <1>2, <2>1 DEF Request, At, n, m
    <3>2. request'[o] = w
      BY <1>1, <2>3 DEF Goto
    <3> HIDE DEF w
    <3>3. w # None
      BY <3>1
    <3>4. QED
      BY <3>1, <3>2, <3>3 DEF At
  <2>5. Stored' = Stored \ {n} /\ Listed' = Listed
    BY <1>1, <1>2, <2>3 DEF Stored, Listed, RowsNamed
  <2>6. Ahead(o)'
    BY <2>1, <2>4, <2>5 DEF Ahead
  <2>7. \A x \in Listed : Bytes(o, x)' = Bytes(o, x)
    <3>1. \A x : Bytes(o, x) = disk[x]
      BY <2>1 DEF Bytes, At
    <3>2. \A x \in Listed : Bytes(o, x)' = IF x = n THEN disk'[m] ELSE disk'[x]
      BY <2>4 DEF Bytes
    <3>3. disk'[m] = disk[n] /\ \A x \in Listed : x # n => disk'[x] = disk[x]
      BY <1>1, <1>2, <2>1, <2>3 DEF Listed
    <3>4. QED
      BY <3>1, <3>2, <3>3
  <2>8. ByteStep(o)
    <3>1. ASSUME NEW r \in Rows, file[r].status \in Present
          PROVE  Bytes(o, file[r].name)' = Bytes(o, file[r].name)
      <4>1. PICK x \in Listed : x = file[r].name
        BY <1>7, <3>1
      <4>2. Bytes(o, file[r].name)' = Bytes(o, x)'
        BY <2>3, <4>1
      <4>3. QED
        BY <2>7, <4>1, <4>2
    <3>2. QED
      BY <2>3, <3>1 DEF ByteStep
  <2>9. QED
    BY <1>3, <2>6, <2>8, RequestKeepsFresh
<1>13. CASE RenameFileRow(o)
  <2>1. /\ At(o, "rename", "row") /\ n \in Listed /\ m \notin Listed
        /\ Stored = (Listed \ {n}) \cup {m}
    BY <1>13 DEF RenameFileRow, FreshSound, Ahead, At, n, m
  <2>2. disk[m] # None /\ RowsNamed(m) = {}
    BY <1>2, <1>6, <2>1 DEF Listed
  <2>3. RenameRow(n, m) /\ Answer(o) /\ UNCHANGED <<disk, chunks>>
    BY <1>4, <1>13, <2>2 DEF RenameFileRow, Unstored, n, m
  <2>4. /\ Listed' = (Listed \ {n}) \cup {m}
        /\ \A r \in Rows :
             \/ file'[r] = file[r] /\ r \notin RowsNamed(n)
             \/ /\ r \in RowsNamed(n) /\ file'[r].name = m
                /\ file'[r].status # "processing"
                /\ file'[r].status = "ready" => file[r].status = "ready"
    BY <1>1, <1>2, <2>1, <2>3, RenameLists
  <2>5. Stored' = Stored /\ request'[o] = None
    BY <1>5, <2>3 DEF Stored
  <2>6. Ahead(o)'
    BY <2>1, <2>4, <2>5 DEF Ahead
  <2>7. /\ \A x : Bytes(o, x)' = disk[x]
        /\ \A x : Bytes(o, x) = IF x = n THEN disk[m] ELSE disk[x]
    BY <2>1, <2>3, <2>5 DEF Bytes, At, n, m
  <2>8. ByteStep(o)
    <3>1. ASSUME NEW r \in Rows, file'[r] = file[r], r \notin RowsNamed(n),
                 file[r].status \in Present
          PROVE  Bytes(o, file[r].name)' = Bytes(o, file[r].name)
      <4>1. file[r].name # n
        BY <3>1 DEF RowsNamed
      <4>2. Bytes(o, file[r].name)' = disk[file[r].name]
        BY <2>7, <3>1
      <4>3. QED
        BY <2>7, <4>1, <4>2
    <3>2. ASSUME NEW r \in Rows, r \in RowsNamed(n), file'[r].name = m
          PROVE  Bytes(o, file[r].name)' = Bytes(o, file[r].name)
      <4>1. file[r].name = n
        BY <3>2 DEF RowsNamed
      <4>2. Bytes(o, file[r].name)' = disk[m]
        BY <2>7, <3>2
      <4>3. QED
        BY <2>7, <4>1, <4>2
    <3>3. QED
      BY <2>3, <2>4, <3>1, <3>2 DEF ByteStep
  <2>9. QED
    BY <1>3, <2>6, <2>8, RequestKeepsFresh
<1>14. ~(UploadUndo(o) \/ RenameUndo(o) \/ RenameUndoUnlink(o))
  BY DEF UploadUndo, RenameUndo, RenameUndoUnlink, FreshSound, Ahead, At
<1>15. QED
  BY <1>9, <1>10, <1>11, <1>12, <1>13, <1>14 DEF Proceed

\* The invariant: until the first crash.
FreshInv(o) == left.crashes = MaxCrashes => FreshSound(o)

\* Every step keeps it.
LEMMA FreshInvStep ==
    ASSUME NEW o \in Requests, Requests = {o}, QuietSweeps, MaxFaults = 0,
           IInv, FreshInv(o), [Next]_vars
    PROVE  FreshInv(o)'
<1>1. left \in Bounds /\ left.crashes \in 0..MaxCrashes /\ left.faults = 0
  BY DEF IInv, RestOK, Bounds
<1>2. \A b \in {"requests", "changes", "losses"} : Spend(b) => left'.crashes = left.crashes
  BY <1>1 DEF Spend, Bounds
<1>3. ~Spend("faults")
  BY <1>1 DEF Spend
<1>4. CASE Begin(o) /\ Operating
  <2>1. left'.crashes = left.crashes
    BY <1>2, <1>4 DEF Begin, UploadPut, DeleteUnlink, RenameCopy, RetryCheck, Accept
  <2>2. QED
    BY <1>4, <2>1, BeginKeepsFresh DEF FreshInv
<1>5. CASE Proceed(o) /\ Operating
  <2>1. left' = left
    BY <1>3, <1>5 DEF Proceed, UploadRow, UploadUndo, DeleteRow, RenameUnlink, RenameFileRow,
                      RenameUndo, RenameUndoUnlink, RetryRow, KeepBounds, Unstored
  <2>2. QED
    BY <1>5, <2>1, ProceedKeepsFresh DEF FreshInv
<1>6. ASSUME NEW i \in Instances, Work(i) PROVE FreshInv(o)'
  <2>1. request' = request /\ (Acquire(i) => request[o] = None)
    BY <1>6 DEF Work, Acquire
  <2>2. left' = left
    BY <1>6 DEF Work, Acquire, KeepBounds, Quit, Sweep, Recover, ListRows, StatFile,
                StatsDone, PurgeRow, ListDirectory, ScanFiles, RecoverUpload, SweepDone,
                Ingest, Poll, ReindexChanged, TestClaim, Claim, Convert, Embed, Check,
                Commit, Requeue, Fail, Polling
  <2>3. QED
    BY <1>6, <2>1, <2>2, SweepKeepsFresh, LoopKeepsFresh DEF Work, FreshInv
<1>7. ASSUME UNCHANGED <<disk, file, chunks, request, worker>>, left'.crashes = left.crashes
      PROVE  FreshInv(o)'
  <2>1. Stored' = Stored /\ Listed' = Listed /\ \A n : Bytes(o, n)' = Bytes(o, n)
    BY <1>7 DEF Stored, Listed, RowsNamed, Bytes, At
  <2>2. \A i \in Instances : Claimed(i)' = Claimed(i)
    BY <1>7 DEF Claimed
  <2>3. FreshSound(o) => FreshSound(o)'
    <3> SUFFICES ASSUME FreshSound(o) PROVE FreshSound(o)'
      OBVIOUS
    <3>1. Ahead(o)'
      BY <1>7, <2>1 DEF FreshSound, Ahead, At
    <3>2. \A i \in Instances : Restful(o, worker[i])' /\ JobSound(o, i)'
      BY <1>7, <2>1, <2>2 DEF FreshSound, Restful, JobSound
    <3>3. \A r \in Rows : ReadySound(o, r)'
      BY <1>7, <2>1 DEF FreshSound, ReadySound
    <3>4. QED
      BY <3>1, <3>2, <3>3 DEF FreshSound
  <2>4. QED
    BY <1>7, <2>3 DEF FreshInv
<1>8. ASSUME NEW i \in Instances, LoseConnection(i) PROVE FreshInv(o)'
  BY <1>2, <1>7, <1>8 DEF LoseConnection, KeepFiles
<1>9. ASSUME NEW i \in Instances, Crash(i) PROVE FreshInv(o)'
  <2>1. left' = [left EXCEPT !["crashes"] = @ - 1]
    BY <1>9 DEF Crash, Spend
  <2>2. left'.crashes = left.crashes - 1
    BY <1>1, <2>1 DEF Bounds
  <2>3. QED
    BY <1>1, <2>2 DEF FreshInv
<1>10. CASE SaveConfiguration
  BY <1>2, <1>7, <1>10 DEF SaveConfiguration, KeepFiles
<1>11. ~\E i \in Instances : StatementFails(i)
  BY <1>3 DEF StatementFails
<1>12. CASE UNCHANGED vars
  BY <1>7, <1>12 DEF vars
<1>13. QED
  BY <1>4, <1>5, <1>6, <1>8, <1>9, <1>10, <1>11, <1>12 DEF Next

\* Where requests come one at a time, do not meet a startup sweep and no statement
\* fails, a ready file was made from the bytes under its name until the first crash,
\* whatever is renamed, deleted, uploaded anew or requeued while workers, old and
\* new holders of the lock, convert and embed.
THEOREM ReadyIsFresh ==
    ASSUME NEW o, Requests = {o}, QuietSweeps, MaxFaults = 0
    PROVE  Spec => []ReadyMatchesUntilCrash
<1>1. Init => FreshInv(o)
  <2> SUFFICES ASSUME Init PROVE FreshSound(o)
    BY DEF FreshInv
  <2>1. \A r \in Rows : file[r].status = "unused"
    BY DEF Init
  <2>2. request[o] = None /\ Stored = {} /\ Listed = {}
    BY <2>1 DEF Init, Stored, Listed, RowsNamed
  <2>3. \A i \in Instances : worker[i].pc = "off"
    BY DEF Init, Idle
  <2>4. QED
    BY <2>1, <2>2, <2>3 DEF FreshSound, Ahead, Restful, JobSound, ReadySound, Sweeping, Job
<1>2. IInv /\ FreshInv(o) /\ [Next]_vars => FreshInv(o)'
  BY FreshInvStep
<1>3. IInv /\ FreshInv(o) => ReadyMatchesUntilCrash
  <2> SUFFICES ASSUME IInv, FreshSound(o), NEW r \in Rows, file[r].status = "ready"
               PROVE  disk[file[r].name] \in {None, chunks[r].content}
    BY DEF FreshInv, ReadyMatchesUntilCrash, ReadyMatchesFile, RowsWith
  <2>1. Bytes(o, file[r].name) \in {None, chunks[r].content} /\ file[r].name \in Names
    BY DEF FreshSound, ReadySound, IInv, RowsOK, NamedRow
  <2>2. CASE At(o, "rename", "row") /\ request[o].name = file[r].name
    BY <2>1, <2>2 DEF FreshSound, Ahead, At, Stored
  <2>3. CASE ~(At(o, "rename", "row") /\ request[o].name = file[r].name)
    BY <2>1, <2>3 DEF Bytes
  <2>4. QED
    BY <2>2, <2>3
<1>4. QED
  BY <1>1, <1>2, <1>3, Invariant, PTL DEF Spec
=============================================================================
