------------------------ MODULE ConversationProofs ------------------------
(* Proofs about Conversation, for every value of its constants: its types, the
   turns of its conversations, and that it implements TurnLog. *)
EXTENDS Conversation, TLAPS

USE LimitsAssumption, NoneAssumption, ProcessAssumption

-----------------------------------------------------------------------------
(* Type correctness, first of each repository statement.                   *)

USE DEF conversation, Active, RunOutcome, Terminal, Versions, Days, NoTokens, Tokens, Row

\* Interrupting any set of attempts keeps the columns it writes well typed.
LEMMA InterruptType ==
    ASSUME StoreTypeOK, NEW S, Interrupt(S)
    PROVE  /\ status' \in [Attempts -> Active \cup Terminal \cup {"free"}]
           /\ reply' \in [Attempts -> Terminal \cup {"null", "streaming"}]
           /\ final' \in [Attempts -> Terminal \cup {"null"}]
BY DEF StoreTypeOK, Interrupt

\* The statements that take no request keep the tables well typed.
LEMMA StatementType ==
    ASSUME StoreTypeOK, NEW a \in Attempts
    PROVE  /\ RecoverExpiredAttempts => StoreTypeOK'
           /\ Lapse(a) => StoreTypeOK'
           /\ MarkRunningRow(a) => StoreTypeOK'
           /\ MarkInvoked(a) => StoreTypeOK'
           /\ \A k \in Nat : AppendOutput(a, k) => StoreTypeOK'
           /\ \A S : RequestCancellation(S) => StoreTypeOK'
           /\ \A t \in Tokens \cup {NoTokens} :
                /\ StageRecoveredCandidate(a, t) => StoreTypeOK'
                /\ InsertUsage(a, t) => StoreTypeOK'
                /\ MarkUsageRecorded(a, t) => StoreTypeOK'
           /\ PruneDailyCounters => StoreTypeOK'
<1> USE DEF StoreTypeOK
<1>1. RecoverExpiredAttempts => StoreTypeOK'
  BY InterruptType DEF RecoverExpiredAttempts
<1>2. Lapse(a) => StoreTypeOK'
  BY DEF Lapse
<1>3. MarkRunningRow(a) => StoreTypeOK'
  BY DEF MarkRunningRow
<1>4. MarkInvoked(a) => StoreTypeOK'
  BY DEF MarkInvoked
<1>5. ASSUME NEW k \in Nat, AppendOutput(a, k) PROVE StoreTypeOK'
  <2>1. stored[a] + k \in Nat
    OBVIOUS
  <2>2. QED
    BY <1>5, <2>1 DEF AppendOutput
<1>6. ASSUME NEW S, RequestCancellation(S) PROVE StoreTypeOK'
  BY <1>6 DEF RequestCancellation
<1>7. ASSUME NEW t \in Tokens \cup {NoTokens}
      PROVE  /\ StageRecoveredCandidate(a, t) => StoreTypeOK'
             /\ InsertUsage(a, t) => StoreTypeOK'
             /\ MarkUsageRecorded(a, t) => StoreTypeOK'
  <2>1. ASSUME StageRecoveredCandidate(a, t) PROVE StoreTypeOK'
    BY <2>1 DEF StageRecoveredCandidate
  <2>2. ASSUME InsertUsage(a, t) PROVE StoreTypeOK'
    BY <2>2 DEF InsertUsage
  <2>3. ASSUME MarkUsageRecorded(a, t) PROVE StoreTypeOK'
    BY <2>3 DEF MarkUsageRecorded
  <2>4. QED
    BY <2>1, <2>2, <2>3
<1>8. PruneDailyCounters => StoreTypeOK'
  BY DEF PruneDailyCounters
<1>9. QED
  BY <1>1, <1>2, <1>3, <1>4, <1>5, <1>6, <1>7, <1>8

\* So do acceptance and finalization.
LEMMA TransactionType ==
    ASSUME StoreTypeOK, NEW a \in Attempts
    PROVE  /\ \A m \in Request : AcceptRow(m, a) => StoreTypeOK'
           /\ \A m \in Request : AcceptDuplicateRow(m) => StoreTypeOK'
           /\ \A o \in RunOutcome, t \in Tokens :
                StageFinalization(a, o, t) => StoreTypeOK'
<1>1. ASSUME NEW m \in Request, AcceptRow(m, a) PROVE StoreTypeOK'
  <2> DEFINE n == m.net  c == m.conv
  <2>1. c \in Conversations /\ n \in Networks /\ m.version \in Versions
    BY DEF Request
  <2>2. row' \in [Attempts -> Row \cup {None}]
    BY <1>1 DEF AcceptRow, StoreTypeOK, Request
  <2>3. /\ status' \in [Attempts -> Active \cup Terminal \cup {"free"}]
        /\ reply' \in [Attempts -> Terminal \cup {"null", "streaming"}]
        /\ final' \in [Attempts -> Terminal \cup {"null"}]
        /\ live' \in [Attempts -> BOOLEAN]
    BY <1>1 DEF AcceptRow, StoreTypeOK
  <2>4. issued' \in [Conversations -> Versions \cup {0}]
    BY <1>1, <2>1 DEF AcceptRow, StoreTypeOK
  <2>5. counter' \in [Networks -> [Days -> Nat]]
    <3>1. counter[n][today] + 1 \in Nat
      BY <2>1 DEF StoreTypeOK
    <3>2. QED
      BY <1>1, <2>1, <3>1 DEF AcceptRow, StoreTypeOK
  <2>6. QED
    BY <1>1, <2>2, <2>3, <2>4, <2>5 DEF AcceptRow, StoreTypeOK
<1>2. ASSUME NEW m \in Request, AcceptDuplicateRow(m) PROVE StoreTypeOK'
  BY <1>2, InterruptType DEF AcceptDuplicateRow, StoreTypeOK
<1>3. ASSUME NEW o \in RunOutcome, NEW t \in Tokens, StageFinalization(a, o, t)
      PROVE  StoreTypeOK'
  <2> DEFINE c == row[a].conv
  <2>1. /\ revision' \in [Conversations -> Nat]
        /\ tail' \in [Conversations -> Attempts \cup {None}]
    <3>1. c \in Conversations => revision[c] + 1 \in Nat
      BY DEF StoreTypeOK
    <3>2. CASE o = "completed"
      <4>1. /\ revision' = [revision EXCEPT ![c] = revision[c] + 1]
            /\ tail' = [tail EXCEPT ![c] = a]
        BY <1>3, <3>2 DEF StageFinalization
      <4>2. QED
        BY <3>1, <4>1 DEF StoreTypeOK
    <3>3. CASE o # "completed"
      BY <1>3, <3>3 DEF StageFinalization, StoreTypeOK
    <3>4. QED
      BY <3>2, <3>3
  <2>2. QED
    BY <1>3, <2>1 DEF StageFinalization, StoreTypeOK
<1>4. QED
  BY <1>1, <1>2, <1>3

\* And so do the operators' statements and the calendar.
LEMMA AdministrationType ==
    ASSUME StoreTypeOK
    PROVE  /\ RevokeSessions => StoreTypeOK'
           /\ SetDisabled => StoreTypeOK'
           /\ NextDay => StoreTypeOK'
<1>1. RevokeSessions => StoreTypeOK'
  <2>1. embed.version < MaxVersion => embed.version + 1 \in Versions
    BY DEF StoreTypeOK
  <2>2. QED
    BY <2>1 DEF RevokeSessions, StoreTypeOK
<1>2. SetDisabled => StoreTypeOK'
  BY DEF SetDisabled, StoreTypeOK
<1>3. NextDay => StoreTypeOK'
  BY DEF NextDay, StoreTypeOK
<1>4. QED
  BY <1>1, <1>2, <1>3

-----------------------------------------------------------------------------
(* Type correctness of the three kinds of process.                         *)

\* Admitting a request keeps every variable well typed.
LEMMA SendType ==
    ASSUME TypeOK, NEW s \in Senders, Send(s)
    PROVE  TypeOK'
<1> USE DEF TypeOK, Admission
<1> DEFINE m == request[s]
<1>1. ASSUME SendBegin(s) PROVE TypeOK'
  <2>1. PICK c \in Conversations, q \in Requests, t \in Texts, n \in Networks :
           request' = [request EXCEPT ![s] =
             [conv |-> c, req |-> q, text |-> t, net |-> n, version |-> embed.version,
              known |-> FALSE, rev |-> 0, tail |-> None, hist |-> {}, tries |-> 0]]
    BY <1>1 DEF SendBegin
  <2>2. request'[s] \in Request
    BY <2>1 DEF Request, StoreTypeOK
  <2>3. QED
    BY <1>1, <2>1, <2>2 DEF SendBegin, SenderPhase, StoreTypeOK, storeVars
<1>2. ASSUME SendLookup(s) PROVE TypeOK'
  <2>1. m \in Request
    BY <1>2 DEF SendLookup
  <2>2. CASE Forget(s)
    BY <1>2, <2>2 DEF SendLookup, Forget, SenderPhase, StoreTypeOK, storeVars
  <2>3. CASE request' = [request EXCEPT ![s].known = TRUE]
    <3>1. request'[s] \in Request
      BY <2>1, <2>3 DEF Request
    <3>2. QED
      BY <1>2, <2>3, <3>1, ZenonT(40)
         DEF SendLookup, Forget, SenderPhase, StoreTypeOK, storeVars
  <2>4. CASE UNCHANGED request
    BY <1>2, <2>1, <2>4, ZenonT(40)
       DEF SendLookup, Forget, SenderPhase, StoreTypeOK, storeVars
  <2>5. QED
    BY <1>2, <2>2, <2>3, <2>4 DEF SendLookup
<1>3. ASSUME ReadRevision(s) PROVE TypeOK'
  <2>1. m \in Request
    BY <1>3 DEF ReadRevision
  <2>2. m.conv \in Conversations
    BY <2>1 DEF Request
  <2>3. request'[s] \in Request
    BY <1>3, <2>1, <2>2 DEF ReadRevision, Request, StoreTypeOK
  <2>4. QED
    BY <1>3, <2>3 DEF ReadRevision, SenderPhase, StoreTypeOK, storeVars
<1>4. ASSUME ReadMessages(s) PROVE TypeOK'
  <2>1. m \in Request
    BY <1>4 DEF ReadMessages
  <2>2. CompletedTurns(m.conv) \in SUBSET Attempts
    BY DEF CompletedTurns, TurnsOf, Accepted
  <2>3. request'[s] \in Request
    BY <1>4, <2>1, <2>2 DEF ReadMessages, Request
  <2>4. QED
    BY <1>4, <2>3 DEF ReadMessages, SenderPhase, StoreTypeOK, storeVars
<1>5. ASSUME SendFails(s) \/ AcceptRefused(s) PROVE TypeOK'
  BY <1>5, ZenonT(40)
     DEF SendFails, AcceptRefused, Forget, SenderPhase, StoreTypeOK, storeVars
<1>6. ASSUME AcceptNew(s) PROVE TypeOK'
  <2>1. m \in Request
    BY <1>6 DEF AcceptNew
  <2>2. PICK a \in Attempts :
          /\ AcceptRow(m, a)
          /\ runner' = [runner EXCEPT ![a] = RunAt("start")]
          /\ prompt' = [prompt EXCEPT ![a] = m.hist]
          /\ AnswerWith(m, a, "null")
    BY <1>6 DEF AcceptNew
  <2>3. StoreTypeOK'
    BY <2>1, <2>2, TransactionType
  <2>4. RunAt("start") \in Runner
    BY DEF RunAt, Runner, RunnerPhase
  <2>5. m.hist \in SUBSET Attempts
    BY <2>1 DEF Request
  <2>6. answers' \subseteq Answer
    BY <2>1, <2>2 DEF AnswerWith, Answer, Request
  <2>7. QED
    BY <1>6, <2>2, <2>3, <2>4, <2>5, <2>6 DEF AcceptNew, Forget, SenderPhase
<1>7. ASSUME AcceptDuplicate(s) PROVE TypeOK'
  <2>1. m \in Request
    BY <1>7 DEF AcceptDuplicate
  <2>2. StoreTypeOK'
    <3>1. PICK a \in Answering(m) : row[a].text = m.text
      BY <1>7 DEF AcceptDuplicate
    <3>4. a \in Attempts
      BY DEF Answering, TurnsOf, Accepted
    <3>2. AcceptDuplicateRow(m)
      BY <1>7 DEF AcceptDuplicate
    <3>3. QED
      BY <2>1, <3>4, <3>2, TransactionType
  <2>3. answers' \subseteq Answer
    <3> DEFINE out(a) == IF a \in ExpiredAround(m) THEN "interrupted"
                         ELSE IF status[a] \in Active THEN "null" ELSE status[a]
    <3>1. PICK a \in Answering(m) : AnswerWith(m, a, out(a))
      BY <1>7 DEF AcceptDuplicate
    <3>2. a \in Attempts /\ status[a] # "free"
      BY DEF Answering, TurnsOf, Accepted
    <3>3. out(a) \in Terminal \cup {"null"}
      BY <3>2 DEF StoreTypeOK
    <3> HIDE DEF out
    <3>4. QED
      BY <2>1, <3>1, <3>2, <3>3 DEF AnswerWith, Answer, Request
  <2>4. QED
    BY <1>7, <2>2, <2>3 DEF AcceptDuplicate, Forget, SenderPhase
<1>8. ASSUME AcceptStale(s) PROVE TypeOK'
  <2>1. m \in Request
    BY <1>8 DEF AcceptStale
  <2>2. CASE Forget(s)
    BY <1>8, <2>2 DEF AcceptStale, Forget, SenderPhase, StoreTypeOK, storeVars
  <2>3. CASE request' = [request EXCEPT ![s].tries = @ + 1]
    <3>1. m.tries + 1 \in Nat
      BY <2>1 DEF Request
    <3>2. request'[s] \in Request
      BY <2>1, <2>3, <3>1 DEF Request
    <3>3. QED
      BY <1>8, <2>3, <3>2, ZenonT(40)
         DEF AcceptStale, Forget, SenderPhase, StoreTypeOK, storeVars
  <2>4. QED
    BY <1>8, <2>2, <2>3 DEF AcceptStale
<1>9. QED
  BY <1>1, <1>2, <1>3, <1>4, <1>5, <1>6, <1>7, <1>8 DEF Send

\* Leaving run() and moving it to another phase are well typed.
LEMMA LeaveType ==
    ASSUME TypeOK, NEW a \in Attempts
    PROVE  /\ \A e \in RunOutcome \cup {"null"} : Leave(a, e) =>
                /\ runner' \in [Attempts -> Runner]
                /\ told' \in [Attempts -> RunOutcome \cup {"null"}]
           /\ \A p \in RunnerPhase : Step(a, p) =>
                /\ runner' \in [Attempts -> Runner]
                /\ told' \in [Attempts -> RunOutcome \cup {"null"}]
           /\ \A o \in RunOutcome : Drain(a, o) =>
                /\ runner' \in [Attempts -> Runner]
                /\ told' \in [Attempts -> RunOutcome \cup {"null"}]
<1>2. runner[a] \in Runner
  BY DEF TypeOK
<1>1. [RunAt("gone") EXCEPT !.write = runner[a].write, !.seen = runner[a].seen] \in Runner
  <2>1. RunAt("gone") \in Runner
    BY DEF RunAt, Runner, RunnerPhase
  <2>2. runner[a].write \in Nat /\ runner[a].seen \in BOOLEAN
    BY <1>2 DEF Runner
  <2> DEFINE gone == RunAt("gone")
  <2> HIDE DEF gone
  <2>3. [gone EXCEPT !.write = runner[a].write, !.seen = runner[a].seen] \in Runner
    BY <2>1, <2>2 DEF Runner, gone
  <2>4. QED
    BY <2>3 DEF gone
<1>3. ASSUME NEW e \in RunOutcome \cup {"null"}, Leave(a, e)
      PROVE  /\ runner' \in [Attempts -> Runner]
             /\ told' \in [Attempts -> RunOutcome \cup {"null"}]
  BY <1>1, <1>3 DEF Leave, TypeOK
<1>4. ASSUME NEW p \in RunnerPhase, Step(a, p)
      PROVE  /\ runner' \in [Attempts -> Runner]
             /\ told' \in [Attempts -> RunOutcome \cup {"null"}]
  <2>1. [runner[a] EXCEPT !.pc = p] \in Runner
    BY <1>2 DEF Runner
  <2>2. runner' = [runner EXCEPT ![a] = [runner[a] EXCEPT !.pc = p]]
    BY <1>4 DEF Step, TypeOK
  <2>3. QED
    BY <1>4, <2>1, <2>2 DEF Step, TypeOK
<1>5. ASSUME NEW o \in RunOutcome, Drain(a, o)
      PROVE  /\ runner' \in [Attempts -> Runner]
             /\ told' \in [Attempts -> RunOutcome \cup {"null"}]
  <2>1. [runner[a] EXCEPT !.pc = "drain", !.outcome = o] \in Runner
    BY <1>2 DEF Runner, RunnerPhase
  <2>2. runner' = [runner EXCEPT ![a] = [runner[a] EXCEPT !.pc = "drain", !.outcome = o]]
    BY <1>5 DEF Drain, TypeOK
  <2>3. QED
    BY <1>5, <2>1, <2>2 DEF Drain, TypeOK
<1>6. QED
  BY <1>3, <1>4, <1>5

\* A step of a running generation keeps every variable well typed.
LEMMA RunType ==
    ASSUME TypeOK, NEW a \in Attempts, Run(a)
    PROVE  TypeOK'
<1> DEFINE r == runner[a]
<1> DEFINE RunnerOK == /\ runner' \in [Attempts -> Runner]
                       /\ told' \in [Attempts -> RunOutcome \cup {"null"}]
<1>1. StoreTypeOK /\ r \in Runner /\ r.outcome \in RunOutcome /\ r.produced \in Nat
      /\ r.buffered \in Nat /\ r.write \in Nat /\ r.seen \in BOOLEAN
  BY DEF TypeOK, Runner
<1>2. ASSUME StoreTypeOK', RunnerOK, UNCHANGED <<phase, request, answers, prompt>>,
             job' \in [Workers -> [Attempts -> Job]]
      PROVE  TypeOK'
  BY <1>2 DEF TypeOK
<1>3. UNCHANGED storeVars => StoreTypeOK'
  BY <1>1 DEF StoreTypeOK, storeVars
<1>4. UNCHANGED job => job' \in [Workers -> [Attempts -> Job]]
  BY DEF TypeOK
<1>5. \A o \in RunOutcome : AbortedOr(a, o) \in RunOutcome
  BY DEF AbortedOr
<1>6. ASSUME NEW to \in Runner, runner' = [runner EXCEPT ![a] = to], UNCHANGED told
      PROVE  RunnerOK
  BY <1>6 DEF TypeOK
<1>7. CASE MarkRunning(a)
  <2>1. StoreTypeOK'
    BY <1>1, <1>3, <1>7, StatementType DEF MarkRunning
  <2>2. RunnerOK
    BY <1>7, LeaveType DEF MarkRunning, RunnerPhase
  <2>3. QED
    BY <1>2, <1>4, <1>7, <2>1, <2>2 DEF MarkRunning, Running
<1>8. CASE Register(a)
  <2>1. RunnerOK
    BY <1>8, LeaveType DEF Register, RunnerPhase
  <2>2. QED
    BY <1>2, <1>3, <1>4, <1>8, <2>1 DEF Register, Running
<1>9. CASE PrepareFails(a) \/ ProviderFails(a)
  <2>1. RunnerOK
    BY <1>5, <1>9, LeaveType DEF PrepareFails, ProviderFails
  <2>2. QED
    BY <1>2, <1>3, <1>4, <1>9, <2>1 DEF PrepareFails, ProviderFails, Running
<1>10. CASE ProviderEnds(a)
  <2>1. RunnerOK
    BY <1>5, <1>10, LeaveType DEF ProviderEnds
  <2>2. QED
    BY <1>2, <1>3, <1>4, <1>10, <2>1 DEF ProviderEnds, Running
<1>11. CASE Attribute(a)
  <2>1. StoreTypeOK'
    BY <1>1, <1>3, <1>11, StatementType DEF Attribute
  <2>2. RunnerOK
    BY <1>11, LeaveType DEF Attribute, RunnerPhase
  <2>3. QED
    BY <1>2, <1>4, <1>11, <2>1, <2>2 DEF Attribute, Running
<1>12. CASE ProviderText(a)
  <2> DEFINE b == IF r.outputFailed THEN r.buffered ELSE r.buffered + 1
  <2>1. r.produced + 1 \in 0..MaxOutput /\ b \in Nat
    BY <1>1, <1>12 DEF ProviderText
  <2>2. [r EXCEPT !.produced = r.produced + 1, !.buffered = b] \in Runner
    BY <1>1, <2>1 DEF Runner
  <2>3. runner' = [runner EXCEPT ![a] = [r EXCEPT !.produced = r.produced + 1,
                                                  !.buffered = b]]
    BY <1>12 DEF ProviderText, TypeOK
  <2>4. RunnerOK
    BY <1>6, <1>12, <2>2, <2>3 DEF ProviderText
  <2>5. QED
    BY <1>2, <1>3, <1>4, <1>12, <2>4 DEF ProviderText, Running
<1>13. CASE ProviderBlocked(a)
  <2>1. r.produced + 1 \in 0..MaxOutput
    BY <1>1, <1>13 DEF ProviderBlocked, Runner
  <2>2. [r EXCEPT !.produced = r.produced + 1, !.aborted = TRUE,
                  !.outcome = "blocked", !.pc = "drain"] \in Runner
    BY <1>1, <2>1 DEF Runner, RunnerPhase
  <2>3. runner' = [runner EXCEPT ![a] =
          [r EXCEPT !.produced = r.produced + 1, !.aborted = TRUE,
                    !.outcome = "blocked", !.pc = "drain"]]
    BY <1>13 DEF ProviderBlocked, TypeOK
  <2>4. RunnerOK
    BY <1>6, <1>13, <2>2, <2>3 DEF ProviderBlocked
  <2>5. QED
    BY <1>2, <1>3, <1>4, <1>13, <2>4 DEF ProviderBlocked, Running
<1>14. CASE Flush(a)
  <2>1. PICK k \in 1..r.buffered :
          runner' = [runner EXCEPT ![a].buffered = @ - k, ![a].write = k]
    BY <1>14 DEF Flush
  <2>2. k \in Nat /\ r.buffered - k \in Nat
    BY <1>1
  <2>3. [r EXCEPT !.buffered = r.buffered - k, !.write = k] \in Runner
    BY <1>1, <2>2 DEF Runner
  <2>4. runner' = [runner EXCEPT ![a] = [r EXCEPT !.buffered = r.buffered - k, !.write = k]]
    BY <2>1 DEF TypeOK
  <2>5. RunnerOK
    BY <1>6, <1>14, <2>3, <2>4 DEF Flush
  <2>6. QED
    BY <1>2, <1>3, <1>4, <1>14, <2>5 DEF Flush, Running
<1>15. CASE FlushReads(a)
  <2>1. [r EXCEPT !.seen = TRUE] \in Runner
    BY <1>1 DEF Runner
  <2>2. runner' = [runner EXCEPT ![a] = [r EXCEPT !.seen = TRUE]]
    BY <1>15 DEF FlushReads, TypeOK
  <2>3. RunnerOK
    BY <1>6, <1>15, <2>1, <2>2 DEF FlushReads
  <2>4. QED
    BY <1>2, <1>3, <1>4, <1>15, <2>3 DEF FlushReads, Running
<1>16. CASE FlushLands(a)
  <2> DEFINE rest == [r EXCEPT !.write = r.buffered, !.seen = FALSE, !.buffered = 0,
                               !.pc = "finalize"]
             done == [r EXCEPT !.write = 0, !.seen = FALSE]
  <2>1. rest \in Runner /\ done \in Runner
    BY <1>1 DEF Runner, RunnerPhase
  <2>2. runner' = [runner EXCEPT ![a] = done] \/ runner' = [runner EXCEPT ![a] = rest]
    BY <1>16 DEF FlushLands, TypeOK
  <2>3. RunnerOK
    BY <1>6, <1>16, <2>1, <2>2 DEF FlushLands
  <2>4. StoreTypeOK'
    BY <1>1, <1>16, StatementType DEF FlushLands
  <2>5. QED
    BY <1>2, <1>4, <1>16, <2>3, <2>4 DEF FlushLands, Running
<1>20. CASE FlushFails(a)
  <2> DEFINE stopped(o) == [r EXCEPT !.write = 0, !.seen = FALSE, !.outputFailed = TRUE,
                                     !.aborted = TRUE, !.outcome = o]
             thrown(o) == [r EXCEPT !.write = 0, !.seen = FALSE, !.pc = "drain",
                                    !.outcome = o]
  <2>1. ASSUME NEW o \in RunOutcome PROVE stopped(o) \in Runner /\ thrown(o) \in Runner
    BY <1>1, <2>1 DEF Runner, RunnerPhase
  <2>2. \/ \E o \in RunOutcome : /\ \/ runner' = [runner EXCEPT ![a] = stopped(o)]
                                    \/ runner' = [runner EXCEPT ![a] = thrown(o)]
                                 /\ UNCHANGED told
        \/ runner' = [runner EXCEPT ![a] = RunAt("gone")] /\ UNCHANGED told
    <3> DEFINE late == IF r.outcome = "blocked" THEN "blocked" ELSE "failed"
               awaited == AbortedOr(a, "failed")
    <3>1. late \in RunOutcome /\ awaited \in RunOutcome
      BY <1>5
    <3>2. \/ runner' = [runner EXCEPT ![a] = stopped(r.outcome)] /\ UNCHANGED told
          \/ runner' = [runner EXCEPT ![a] = stopped(late)] /\ UNCHANGED told
          \/ runner' = [runner EXCEPT ![a] = thrown(awaited)] /\ UNCHANGED told
          \/ runner' = [runner EXCEPT ![a] = RunAt("gone")] /\ UNCHANGED told
      BY <1>20 DEF FlushFails, TypeOK
    <3> HIDE DEF late, awaited
    <3>3. QED
      BY <1>1, <3>1, <3>2
  <2> HIDE DEF stopped, thrown
  <2>5. RunAt("gone") \in Runner
    BY DEF RunAt, Runner, RunnerPhase
  <2>3. RunnerOK
    BY <1>6, <2>1, <2>2, <2>5
  <2>4. StoreTypeOK'
    BY <1>1, <1>3, <1>20, StatementType DEF FlushFails
  <2>6. QED
    BY <1>2, <1>4, <1>20, <2>3, <2>4 DEF FlushFails, Running
<1>21. CASE DrainFlush(a)
  <2>1. PICK k \in 1..r.buffered : runner' = [runner EXCEPT ![a].buffered = 0, ![a].write = k]
    BY <1>21 DEF DrainFlush
  <2>6. k \in Nat
    BY <1>1
  <2>2. [r EXCEPT !.buffered = 0, !.write = k] \in Runner
    BY <1>1, <2>6 DEF Runner
  <2>3. runner' = [runner EXCEPT ![a] = [r EXCEPT !.buffered = 0, !.write = k]]
    BY <2>1 DEF TypeOK
  <2>4. RunnerOK
    BY <1>6, <1>21, <2>2, <2>3 DEF DrainFlush
  <2>5. QED
    BY <1>2, <1>3, <1>4, <1>21, <2>4 DEF DrainFlush, Running
<1>22. CASE DrainDone(a)
  <2> DEFINE o == IF r.outputFailed /\ r.outcome # "blocked" THEN "failed" ELSE r.outcome
  <2>1. o \in RunOutcome
    BY <1>1
  <2>2. runner' = [runner EXCEPT ![a] =
                     [r EXCEPT !.pc = "finalize", !.buffered = 0, !.outcome = o]]
    BY <1>22 DEF DrainDone, TypeOK
  <2> HIDE DEF o
  <2>3. [r EXCEPT !.pc = "finalize", !.buffered = 0, !.outcome = o] \in Runner
    BY <1>1, <2>1 DEF Runner, RunnerPhase
  <2>4. RunnerOK
    BY <1>6, <1>22, <2>2, <2>3 DEF DrainDone
  <2>5. QED
    BY <1>2, <1>3, <1>4, <1>22, <2>4 DEF DrainDone, Running
<1>17. CASE Finalize(a)
  <2>1. StoreTypeOK'
    BY <1>1, <1>3, <1>17, TransactionType DEF Finalize
  <2>2. RunnerOK
    BY <1>17, LeaveType DEF Finalize, RunnerPhase
  <2>3. QED
    BY <1>2, <1>4, <1>17, <2>1, <2>2 DEF Finalize, Running
<1>18. CASE RecordOwnUsage(a)
  <2>1. RunnerOK
    BY <1>1, <1>18, LeaveType DEF RecordOwnUsage, TypeOK
  <2>2. job' \in [Workers -> [Attempts -> Job]]
    <3>1. [step |-> "insert", tokens |-> staged[a]] \in Job
      BY <1>1 DEF StoreTypeOK, Job
    <3>2. CASE UNCHANGED job
      BY <1>4, <3>2
    <3>3. CASE job' = [job EXCEPT ![Finalizer][a] =
                         [step |-> "insert", tokens |-> staged[a]]]
      BY <3>1, <3>3 DEF TypeOK
    <3>4. QED
      BY <1>18, <3>2, <3>3 DEF RecordOwnUsage
  <2>3. QED
    BY <1>2, <1>3, <1>18, <2>1, <2>2 DEF RecordOwnUsage
<1>19. CASE RunnerDies(a)
  <2>1. RunnerOK
    BY <1>19, LeaveType DEF RunnerDies
  <2>2. job' \in [Workers -> [Attempts -> Job]]
    <3>1. NoJob \in Job
      BY DEF NoJob, Job
    <3>2. QED
      BY <1>19, <3>1 DEF RunnerDies, TypeOK
  <2>3. QED
    BY <1>2, <1>3, <1>19, <2>1, <2>2 DEF RunnerDies
<1>23. QED
  BY <1>7, <1>8, <1>9, <1>10, <1>11, <1>12, <1>13, <1>14, <1>15, <1>16, <1>17,
     <1>18, <1>19, <1>20, <1>21, <1>22 DEF Run

\* The poller and cancel only raise flags.
LEMMA AbortType ==
    ASSUME TypeOK
    PROVE  /\ \A a \in Attempts : Poll(a) => TypeOK'
           /\ \A c \in Conversations : Cancel(c) => TypeOK'
<1>1. \A a \in Attempts : [runner[a] EXCEPT !.aborted = TRUE] \in Runner
  <2> SUFFICES ASSUME NEW a \in Attempts
               PROVE  [runner[a] EXCEPT !.aborted = TRUE] \in Runner
    OBVIOUS
  <2>1. runner[a] \in Runner
    BY DEF TypeOK
  <2>2. QED
    BY <2>1 DEF Runner
<1>2. ASSUME NEW a \in Attempts, Poll(a) PROVE TypeOK'
  <2>1. runner' = [runner EXCEPT ![a] = [runner[a] EXCEPT !.aborted = TRUE]]
    BY <1>2 DEF Poll, TypeOK
  <2>2. runner' \in [Attempts -> Runner]
    BY <1>1, <2>1 DEF TypeOK
  <2>3. QED
    BY <1>2, <2>2 DEF Poll, Running, TypeOK, StoreTypeOK, storeVars
<1>3. ASSUME NEW c \in Conversations, Cancel(c) PROVE TypeOK'
  <2> DEFINE abort(T) == [a \in Attempts |->
               IF a \in T THEN [runner[a] EXCEPT !.aborted = TRUE] ELSE runner[a]]
  <2>1. PICK S \in {TurnsOf(c) \cap Unexpired} \cup {{a} : a \in TurnsOf(c) \cap Unexpired} :
          /\ S # {}
          /\ RequestCancellation(S)
          /\ \E local \in SUBSET {a \in S : runner[a].pc \in Registered} :
               runner' = abort(local)
    BY <1>3 DEF Cancel
  <2>5. PICK a \in Attempts : TRUE
    BY <2>1 DEF TurnsOf, Accepted
  <2>6. PICK local : runner' = abort(local)
    BY <2>1
  <2>2. StoreTypeOK'
    BY <2>1, <2>5, StatementType DEF TypeOK
  <2>3. runner' \in [Attempts -> Runner]
    BY <1>1, <2>6 DEF TypeOK
  <2>4. QED
    BY <1>3, <2>2, <2>3 DEF Cancel, Running, TypeOK
<1>4. QED
  BY <1>2, <1>3

\* Usage recording, by whichever worker, keeps every variable well typed.
LEMMA JobType ==
    ASSUME TypeOK, NEW w \in Workers
    PROVE  /\ w \in Recoverers /\ RecoverUsage(w) => TypeOK'
           /\ \A a \in Attempts : JobStep(w, a) \/ JobThrows(w, a) => TypeOK'
<1> DEFINE JobsOK == job' \in [Workers -> [Attempts -> Job]]
<1>1. NoJob \in Job
  BY DEF NoJob, Job
<1>2. ASSUME RecoverUsage(w) PROVE TypeOK'
  <2>1. StoreTypeOK'
    <3>1. PruneDailyCounters => StoreTypeOK'
      BY DEF PruneDailyCounters, StoreTypeOK, TypeOK
    <3>2. QED
      BY <1>2, <3>1 DEF RecoverUsage
  <2> DEFINE j(a) == IF ~Pending(a) THEN NoJob
                     ELSE IF staged[a] = NoTokens
                          THEN [step |-> "stage", tokens |-> stored[a]]
                          ELSE [step |-> "insert", tokens |-> staged[a]]
  <2>2. \A a \in Attempts : j(a) \in Job
    BY <1>1 DEF Job, TypeOK, StoreTypeOK
  <2>3. job' = [job EXCEPT ![w] = [a \in Attempts |-> j(a)]]
    BY <1>2 DEF RecoverUsage
  <2> HIDE DEF j
  <2>4. JobsOK
    BY <2>2, <2>3 DEF TypeOK
  <2>5. QED
    BY <1>2, <2>1, <2>4 DEF RecoverUsage, Recording, TypeOK
<1>3. ASSUME NEW a \in Attempts, JobStep(w, a) \/ JobThrows(w, a) PROVE TypeOK'
  <2>1. job[w][a] \in Job /\ runner[a].outcome \in RunOutcome
    BY DEF TypeOK, Runner
  <2>2. ASSUME NEW x \in Job, job' = [job EXCEPT ![w][a] = x] PROVE JobsOK
    BY <2>2 DEF TypeOK
  <2>3. ASSUME NEW p \in {"insert", "mark"}, job' = [job EXCEPT ![w][a].step = p]
        PROVE  JobsOK
    <3>1. [job[w][a] EXCEPT !.step = p] \in Job
      BY <2>1 DEF Job
    <3>2. job' = [job EXCEPT ![w][a] = [job[w][a] EXCEPT !.step = p]]
      BY <2>3 DEF TypeOK
    <3>3. QED
      BY <2>2, <3>1, <3>2
  <2>4. job[w][a].tokens \in Tokens \cup {NoTokens}
    BY <2>1 DEF Job
  <2>5. CASE StageCandidate(w, a)
    <3>1. StoreTypeOK'
      BY <2>4, <2>5, StatementType DEF StageCandidate, TypeOK
    <3>2. JobsOK
      BY <2>3, <2>5 DEF StageCandidate
    <3>3. QED
      BY <2>5, <3>1, <3>2 DEF StageCandidate, Recording, TypeOK
  <2>6. CASE RecordUsage(w, a)
    <3>1. StoreTypeOK'
      BY <2>4, <2>6, StatementType DEF RecordUsage, TypeOK
    <3>2. JobsOK
      BY <2>3, <2>6 DEF RecordUsage
    <3>3. QED
      BY <2>6, <3>1, <3>2 DEF RecordUsage, Recording, TypeOK
  <2>7. CASE MarkRecorded(w, a)
    <3>1. StoreTypeOK'
      BY <2>4, <2>7, StatementType DEF MarkRecorded, TypeOK
    <3>2. JobsOK
      BY <1>1, <2>2, <2>7 DEF MarkRecorded
    <3>3. /\ runner' \in [Attempts -> Runner]
          /\ told' \in [Attempts -> RunOutcome \cup {"null"}]
      <4>1. CASE w = Finalizer
        BY <2>1, <2>7, <4>1, LeaveType DEF MarkRecorded
      <4>2. CASE w # Finalizer
        BY <2>7, <4>2 DEF MarkRecorded, TypeOK
      <4>3. QED
        BY <4>1, <4>2
    <3>4. QED
      BY <2>7, <3>1, <3>2, <3>3 DEF MarkRecorded, Recording, TypeOK
  <2>8. CASE JobThrows(w, a)
    <3>1. JobsOK
      BY <1>1, <2>2, <2>8 DEF JobThrows
    <3>2. /\ runner' \in [Attempts -> Runner]
          /\ told' \in [Attempts -> RunOutcome \cup {"null"}]
      <4>1. CASE w = Finalizer
        BY <2>8, <4>1, LeaveType DEF JobThrows
      <4>2. CASE w # Finalizer
        BY <2>8, <4>2 DEF JobThrows, TypeOK
      <4>3. QED
        BY <4>1, <4>2
    <3>3. QED
      BY <2>8, <3>1, <3>2 DEF JobThrows, Recording, TypeOK, StoreTypeOK, storeVars
  <2>9. QED
    BY <1>3, <2>5, <2>6, <2>7, <2>8 DEF JobStep
<1>4. QED
  BY <1>2, <1>3

\* The empty tables and idle processes are well typed.
LEMMA TypeInit == Init => TypeOK
BY DEF Init, StoreInit, TypeOK, StoreTypeOK, SenderPhase, RunAt, NoRun, Runner,
       RunnerPhase, NoJob, Job

\* TypeOK is inductive.
LEMMA TypeStep == TypeOK /\ [Next]_vars => TypeOK'
<1> SUFFICES ASSUME TypeOK, [Next]_vars PROVE TypeOK'
  OBVIOUS
<1>1. Recoverers \subseteq Workers
  BY DEF Workers
<1>2. ASSUME StoreTypeOK', UNCHANGED procVars PROVE TypeOK'
  BY <1>2 DEF TypeOK, procVars
<1>3. ASSUME NEW s \in Senders, Send(s) PROVE TypeOK'
  BY <1>3, SendType
<1>4. ASSUME NEW a \in Attempts, Run(a) \/ Poll(a) \/ LeaseLapses(a) PROVE TypeOK'
  <2>1. LeaseLapses(a) => TypeOK'
    BY <1>2, StatementType DEF LeaseLapses, TypeOK
  <2>2. QED
    BY <1>4, <2>1, RunType, AbortType
<1>5. ASSUME NEW c \in Conversations, Cancel(c) PROVE TypeOK'
  BY <1>5, AbortType
<1>6. ASSUME NEW w \in Recoverers, RecoverUsage(w) PROVE TypeOK'
  BY <1>1, <1>6, JobType
<1>7. ASSUME NEW w \in Workers, NEW a \in Attempts, JobStep(w, a) \/ JobThrows(w, a)
      PROVE  TypeOK'
  BY <1>7, JobType
<1>8. CASE RecoverExpired
  <2>1. PICK a \in Attempts : TRUE
    BY <1>8 DEF RecoverExpired, Expired, ActiveTurns, Accepted
  <2>2. StoreTypeOK'
    BY <1>8, <2>1, StatementType DEF RecoverExpired, TypeOK
  <2>3. QED
    BY <1>2, <1>8, <2>2 DEF RecoverExpired
<1>9. CASE Administer
  BY <1>2, <1>9, AdministrationType DEF Administer, TypeOK
<1>10. CASE DayPasses
  BY <1>2, <1>10, AdministrationType DEF DayPasses, TypeOK
<1>11. CASE UNCHANGED vars
  BY <1>2, <1>11 DEF vars, storeVars, procVars, TypeOK, StoreTypeOK
<1>12. QED
  BY <1>3, <1>4, <1>5, <1>6, <1>7, <1>8, <1>9, <1>10, <1>11 DEF Next

\* Every variable keeps its type, whatever interleaving of requests,
\* generations, recovery passes and lease expiries the instances go through.
THEOREM TypeCorrect == Spec => []TypeOK
BY TypeInit, TypeStep, PTL DEF Spec

-----------------------------------------------------------------------------
(***************************************************************************)
(* Conversation keeps every conversation a serial log and implements       *)
(* TurnLog, for every value of its constants.                              *)
(*                                                                         *)
(* The argument: a conversation has one turn in progress at a time, so what *)
(* is completed changes only when that turn completes, and the revision     *)
(* moves with it.  A request whose snapshot still carries the conversation's*)
(* revision has therefore read exactly the completed turns, although it     *)
(* read the revision first and the messages later.                         *)
(***************************************************************************)

USE DEF Active, RunOutcome, Terminal, conversation, storeVars

-----------------------------------------------------------------------------
(* What a step does to the turns.                                          *)

TurnsSame == UNCHANGED <<row, status, reply, prompt, revision, tail>>

TurnsInterrupted == \E S \in SUBSET ActiveTurns :
    /\ Interrupt(S)
    /\ UNCHANGED <<row, prompt, revision, tail>>

TurnMarked == \E a \in ActiveTurns :
    /\ status' = [status EXCEPT ![a] = "running"]
    /\ UNCHANGED <<row, reply, prompt, revision, tail>>

TurnEnds == \E a \in ActiveTurns, o \in RunOutcome :
    /\ status' = [status EXCEPT ![a] = o]
    /\ reply' = [reply EXCEPT ![a] = o]
    /\ revision' = IF o = "completed"
                   THEN [revision EXCEPT ![row[a].conv] = @ + 1] ELSE revision
    /\ tail' = IF o = "completed" THEN [tail EXCEPT ![row[a].conv] = a] ELSE tail
    /\ UNCHANGED <<row, prompt>>

\* Every step other than an acceptance does one of these four things.
LEMMA RunOnTurns ==
    ASSUME TypeOK, NEW a \in Attempts, Run(a)
    PROVE  TurnsSame \/ TurnMarked \/ TurnEnds
<1> USE DEF Running
<1>1. \A o \in RunOutcome : \A t :
        StageFinalization(a, o, t) /\ UNCHANGED prompt => TurnEnds
  <2> SUFFICES ASSUME NEW o \in RunOutcome, NEW t,
                      StageFinalization(a, o, t), UNCHANGED prompt
               PROVE  TurnEnds
    OBVIOUS
  <2>1. a \in ActiveTurns
    BY DEF StageFinalization, OwnsRunning, Owns, Unexpired
  <2>2. QED
    BY <2>1 DEF StageFinalization, TurnEnds, TypeOK, StoreTypeOK
<1>2. runner[a].outcome \in RunOutcome
  BY DEF TypeOK, Runner
<1>3. Finalize(a) => TurnsSame \/ TurnEnds
  BY <1>1, <1>2 DEF Finalize, TurnsSame
<1>4. MarkRunning(a) => TurnsSame \/ TurnMarked
  BY DEF MarkRunning, MarkRunningRow, Owns, Unexpired, TurnsSame, TurnMarked
<1>5. Register(a) \/ PrepareFails(a) \/ Attribute(a) => TurnsSame
  BY DEF Register, PrepareFails, Attribute, MarkInvoked, TurnsSame
<1>6. ProviderText(a) \/ ProviderBlocked(a) \/ ProviderEnds(a) \/ ProviderFails(a)
        => TurnsSame
  BY DEF ProviderText, ProviderBlocked, ProviderEnds, ProviderFails, TurnsSame
<1>7. Flush(a) \/ FlushReads(a) \/ FlushLands(a) \/ FlushFails(a) \/ DrainFlush(a)
        \/ DrainDone(a) => TurnsSame
  BY DEF Flush, FlushReads, FlushLands, FlushFails, DrainFlush, DrainDone, AppendOutput,
     TurnsSame
<1>8. RecordOwnUsage(a) \/ RunnerDies(a) => TurnsSame
  BY DEF RecordOwnUsage, RunnerDies, TurnsSame
<1>9. QED
  BY <1>3, <1>4, <1>5, <1>6, <1>7, <1>8 DEF Run

\* The same of all processes that are not senders; those leave requests alone.
LEMMA OtherOnTurns ==
    ASSUME TypeOK, [Next]_vars, ~ \E s \in Senders : Send(s)
    PROVE  /\ TurnsSame \/ TurnMarked \/ TurnEnds \/ TurnsInterrupted
           /\ UNCHANGED <<phase, request>>
<1>1. ASSUME NEW a \in Attempts, Run(a) PROVE UNCHANGED <<phase, request>>
  BY <1>1 DEF Run, Running, MarkRunning, Register, PrepareFails, Attribute, ProviderText,
       ProviderBlocked, ProviderEnds, ProviderFails, Flush, FlushReads, FlushLands,
       FlushFails, DrainFlush, DrainDone, Finalize, RecordOwnUsage, RunnerDies
<1>2. ASSUME NEW a \in Attempts, Poll(a) \/ LeaseLapses(a)
      PROVE  TurnsSame /\ UNCHANGED <<phase, request>>
  BY <1>2 DEF Poll, LeaseLapses, Lapse, Running, TurnsSame, procVars
<1>3. ASSUME NEW c \in Conversations, Cancel(c)
      PROVE  TurnsSame /\ UNCHANGED <<phase, request>>
  BY <1>3 DEF Cancel, RequestCancellation, Running, TurnsSame
<1>4. ASSUME NEW w \in Recoverers, RecoverUsage(w)
      PROVE  TurnsSame /\ UNCHANGED <<phase, request>>
  BY <1>4 DEF RecoverUsage, PruneDailyCounters, Recording, TurnsSame
<1>5. ASSUME NEW w \in Workers, NEW a \in Attempts, JobStep(w, a) \/ JobThrows(w, a)
      PROVE  TurnsSame /\ UNCHANGED <<phase, request>>
  BY <1>5 DEF JobStep, StageCandidate, RecordUsage, MarkRecorded, JobThrows,
       StageRecoveredCandidate, InsertUsage, MarkUsageRecorded, Recording, TurnsSame
<1>6. RecoverExpired => TurnsInterrupted /\ UNCHANGED <<phase, request>>
  <2>1. Expired \in SUBSET ActiveTurns
    BY DEF Expired
  <2>2. QED
    BY <2>1 DEF RecoverExpired, RecoverExpiredAttempts, TurnsInterrupted,
         procVars
<1>7. Administer \/ DayPasses => TurnsSame /\ UNCHANGED <<phase, request>>
  BY DEF Administer, DayPasses, RevokeSessions, SetDisabled, NextDay,
       procVars, TurnsSame
<1>8. UNCHANGED vars => TurnsSame /\ UNCHANGED <<phase, request>>
  BY DEF vars, procVars, TurnsSame
<1>9. QED
  BY <1>1, <1>2, <1>3, <1>4, <1>5, <1>6, <1>7, <1>8, RunOnTurns DEF Next

\* Of the senders' steps only an acceptance touches the turns; AcceptDuplicate
\* may interrupt expired ones on its way.
LEMMA SendOnTurns ==
    ASSUME TypeOK, NEW s \in Senders, Send(s)
    PROVE  TurnsSame \/ TurnsInterrupted \/ AcceptNew(s)
<1> USE DEF Admission
<1>1. AcceptDuplicate(s) => TurnsInterrupted
  <2>1. ExpiredAround(request[s]) \in SUBSET ActiveTurns
    BY DEF ExpiredAround, Expired
  <2>2. QED
    BY <2>1 DEF AcceptDuplicate, AcceptDuplicateRow, TurnsInterrupted
<1>2. SendBegin(s) \/ SendLookup(s) \/ ReadRevision(s) \/ ReadMessages(s) => TurnsSame
  BY DEF SendBegin, SendLookup, ReadRevision, ReadMessages, TurnsSame
<1>3. SendFails(s) \/ AcceptStale(s) \/ AcceptRefused(s) => TurnsSame
  BY DEF SendFails, AcceptStale, AcceptRefused, TurnsSame
<1>4. QED
  BY <1>1, <1>2, <1>3 DEF Send

-----------------------------------------------------------------------------
(* The inductive invariant.                                                *)

\* An attempt in use has its row, and its message streams while it is active.
RowsAgree == \A a \in Attempts :
    /\ status[a] # "free" => row[a] \in Row
    /\ status[a] = "free" => reply[a] = "null"
    /\ status[a] \in Active => reply[a] = "streaming"

\* Prompts hold completed turns of their own conversation only.
PromptsCompleted == \A a \in Accepted : prompt[a] \subseteq CompletedTurns(row[a].conv)

\* A conversation nobody completed a turn of is still at revision 0.
ZeroRevision == \A c \in Conversations : revision[c] = 0 => CompletedTurns(c) = {}

\* A snapshot of the current revision holds exactly the completed turns.
SnapshotSound == \A s \in Senders :
    LET m == request[s] IN
    /\ phase[s] = "embed" => m.rev = 0 /\ m.hist = {}
    /\ phase[s] \in {"messages", "ready"} => m.rev <= revision[m.conv]
    /\ phase[s] = "ready" /\ m.rev = revision[m.conv] =>
         m.hist = CompletedTurns(m.conv)

PromptCurrent == \A a \in ActiveTurns : prompt[a] = CompletedTurns(row[a].conv)

Chained == \A c \in Conversations : \A a, b \in CompletedTurns(c) :
    a # b => (a \in prompt[b]) # (b \in prompt[a])

TurnInv ==
    /\ TypeOK /\ RowsAgree /\ OneActiveTurn /\ PromptCurrent /\ Chained
    /\ PromptsCompleted /\ ZeroRevision /\ SnapshotSound

-----------------------------------------------------------------------------
(* How the steps change the views of the turns.                            *)

\* No turn completes unless it ends, and none becomes active unless accepted.
LEMMA NothingCompletes ==
    ASSUME TypeOK, RowsAgree, TurnsSame \/ TurnMarked \/ TurnsInterrupted
    PROVE  /\ RowsAgree'
           /\ Accepted' = Accepted
           /\ ActiveTurns' \subseteq ActiveTurns
           /\ \A c : CompletedTurns(c)' = CompletedTurns(c)
           /\ UNCHANGED <<row, prompt, revision, tail>>
<1> USE DEF Accepted, ActiveTurns, CompletedTurns, TurnsOf, RowsAgree, TypeOK, StoreTypeOK
<1>1. CASE TurnsSame
  BY <1>1 DEF TurnsSame
<1>2. CASE TurnMarked
  <2>1. PICK x \in ActiveTurns : /\ status' = [status EXCEPT ![x] = "running"]
                                 /\ UNCHANGED <<row, reply, prompt, revision, tail>>
    BY <1>2 DEF TurnMarked
  <2>2. Accepted' = Accepted /\ ActiveTurns' = ActiveTurns
    BY <2>1
  <2>3. QED
    BY <2>1, <2>2
<1>3. CASE TurnsInterrupted
  <2>1. PICK S \in SUBSET ActiveTurns : Interrupt(S) /\ UNCHANGED <<row, prompt, revision, tail>>
    BY <1>3 DEF TurnsInterrupted
  <2>2. /\ Accepted' = Accepted
        /\ ActiveTurns' \subseteq ActiveTurns
    BY <2>1 DEF Interrupt
  <2>3. \A a \in Attempts : reply'[a] = "completed" <=> reply[a] = "completed"
    BY <2>1 DEF Interrupt
  <2>4. \A c : CompletedTurns(c)' = CompletedTurns(c)
    BY <2>1, <2>2, <2>3
  <2>5. RowsAgree'
    BY <2>1 DEF Interrupt
  <2>6. QED
    BY <2>1, <2>2, <2>4, <2>5
<1>4. QED
  BY <1>1, <1>2, <1>3

\* A turn that ends leaves the active ones; if it completed, its conversation
\* has it and a new revision, and nothing else changes.
LEMMA EndingTurn ==
    ASSUME TypeOK, RowsAgree, NEW a \in ActiveTurns, NEW o \in RunOutcome,
           status' = [status EXCEPT ![a] = o], reply' = [reply EXCEPT ![a] = o],
           revision' = IF o = "completed"
                       THEN [revision EXCEPT ![row[a].conv] = @ + 1] ELSE revision,
           UNCHANGED <<row, prompt>>
    PROVE  /\ RowsAgree'
           /\ Accepted' = Accepted
           /\ ActiveTurns' = ActiveTurns \ {a}
           /\ a \notin CompletedTurns(row[a].conv)
           /\ \A c : CompletedTurns(c)' =
                IF o = "completed" /\ c = row[a].conv
                THEN CompletedTurns(c) \cup {a} ELSE CompletedTurns(c)
<1> USE DEF Accepted, ActiveTurns, CompletedTurns, TurnsOf, RowsAgree, TypeOK, StoreTypeOK
<1>1. Accepted' = Accepted /\ ActiveTurns' = ActiveTurns \ {a}
  OBVIOUS
<1>2. \A b \in Attempts : reply'[b] = IF b = a THEN o ELSE reply[b]
  OBVIOUS
<1>3. reply[a] = "streaming"
  OBVIOUS
<1>4. \A c : CompletedTurns(c)' =
        IF o = "completed" /\ c = row[a].conv
        THEN CompletedTurns(c) \cup {a} ELSE CompletedTurns(c)
  BY <1>1, <1>2, <1>3
<1>5. RowsAgree'
  BY <1>2
<1>6. QED
  BY <1>1, <1>3, <1>4, <1>5

\* An accepted turn becomes the active one of its conversation; expired turns
\* are interrupted on the way, nothing completes.
LEMMA AcceptedTurn ==
    ASSUME TypeOK, RowsAgree, NEW m \in Request, NEW a \in Attempts, AcceptRow(m, a)
    PROVE  /\ RowsAgree'
           /\ Accepted' = Accepted \cup {a}
           /\ a \notin Accepted
           /\ ActiveTurns' = (ActiveTurns \ ExpiredAround(m)) \cup {a}
           /\ \A b \in Accepted : row'[b] = row[b]
           /\ row'[a].conv = m.conv
           /\ \A c : CompletedTurns(c)' = CompletedTurns(c)
           /\ UNCHANGED <<revision, tail>>
<1> USE DEF Accepted, ActiveTurns, CompletedTurns, TurnsOf, RowsAgree, TypeOK, StoreTypeOK
<1>1. a \notin Accepted /\ UNCHANGED <<revision, tail>> /\ Accepted' = Accepted \cup {a}
  BY DEF AcceptRow, ExpiredAround, Expired
<1>2. row'[a] \in Row /\ row'[a].conv = m.conv /\ \A b \in Accepted : row'[b] = row[b]
  BY DEF AcceptRow, Request, Row
<1>3. ActiveTurns' = (ActiveTurns \ ExpiredAround(m)) \cup {a}
  BY DEF AcceptRow
<1>4. ExpiredAround(m) \subseteq ActiveTurns
  BY DEF ExpiredAround, Expired
<1>5. \A b \in Attempts : reply'[b] = "completed" <=> reply[b] = "completed"
  BY <1>4 DEF AcceptRow
<1>6. \A c : CompletedTurns(c)' = CompletedTurns(c)
  BY <1>1, <1>2, <1>5
<1>7. RowsAgree'
  BY <1>1, <1>2, <1>4 DEF AcceptRow
<1>8. QED
  BY <1>1, <1>2, <1>3, <1>6, <1>7

-----------------------------------------------------------------------------
(* Each conjunct of the invariant through each kind of step.               *)

LogInv == OneActiveTurn /\ PromptCurrent /\ Chained /\ PromptsCompleted /\ ZeroRevision

\* A step after which nothing more is completed or active keeps the log's part
\* of the invariant.
LEMMA NothingCompletesInv ==
    ASSUME TurnInv, TurnsSame \/ TurnMarked \/ TurnsInterrupted
    PROVE  LogInv' /\ RowsAgree'
<1>1. /\ RowsAgree'
      /\ Accepted' = Accepted
      /\ ActiveTurns' \subseteq ActiveTurns
      /\ \A c : CompletedTurns(c)' = CompletedTurns(c)
      /\ UNCHANGED <<row, prompt, revision>>
  BY NothingCompletes DEF TurnInv
<1>2. OneActiveTurn'
  BY <1>1 DEF TurnInv, OneActiveTurn
<1>3. PromptCurrent'
  BY <1>1 DEF TurnInv, PromptCurrent
<1>4. Chained'
  BY <1>1 DEF TurnInv, Chained
<1>5. PromptsCompleted'
  BY <1>1 DEF TurnInv, PromptsCompleted
<1>6. ZeroRevision'
  BY <1>1 DEF TurnInv, ZeroRevision
<1>7. QED
  BY <1>1, <1>2, <1>3, <1>4, <1>5, <1>6 DEF LogInv

\* So does a turn that ends: its prompt was current, so completing it extends
\* the chain.
LEMMA TurnEndsInv ==
    ASSUME TurnInv, TurnEnds, UNCHANGED <<phase, request>>
    PROVE  LogInv' /\ RowsAgree' /\ SnapshotSound'
<1>1. PICK a \in ActiveTurns, o \in RunOutcome :
        /\ status' = [status EXCEPT ![a] = o]
        /\ reply' = [reply EXCEPT ![a] = o]
        /\ revision' = IF o = "completed"
                       THEN [revision EXCEPT ![row[a].conv] = @ + 1] ELSE revision
        /\ UNCHANGED <<row, prompt>>
  BY DEF TurnEnds
<1> DEFINE c == row[a].conv
<1>2. /\ RowsAgree'
      /\ Accepted' = Accepted
      /\ ActiveTurns' = ActiveTurns \ {a}
      /\ a \notin CompletedTurns(c)
      /\ \A d : CompletedTurns(d)' = IF o = "completed" /\ d = c
                                   THEN CompletedTurns(d) \cup {a} ELSE CompletedTurns(d)
  BY <1>1, EndingTurn DEF TurnInv
<1>3. /\ a \in Accepted /\ prompt[a] = CompletedTurns(c)
      /\ \A b \in ActiveTurns : b # a => row[b].conv # c
      /\ c \in Conversations
  BY DEF TurnInv, PromptCurrent, OneActiveTurn, ActiveTurns, RowsAgree, Accepted, Row
<1>4. OneActiveTurn'
  BY <1>1, <1>2 DEF TurnInv, OneActiveTurn
<1>5. PromptCurrent'
  BY <1>1, <1>2, <1>3 DEF TurnInv, PromptCurrent
<1>6. \A b \in CompletedTurns(c) : b \in Accepted /\ row[b].conv = c
  BY DEF CompletedTurns, TurnsOf
<1>7. Chained'
  <2> SUFFICES ASSUME NEW d \in Conversations, NEW x \in CompletedTurns(d)',
                      NEW y \in CompletedTurns(d)', x # y
               PROVE  (x \in prompt[y]) # (y \in prompt[x])
    BY <1>1 DEF Chained
  <2>1. CASE x \in CompletedTurns(d) /\ y \in CompletedTurns(d)
    BY <2>1 DEF TurnInv, Chained
  <2>2. \A b \in CompletedTurns(c) : b \in prompt[a] /\ a \notin prompt[b]
    BY <1>2, <1>3, <1>6 DEF TurnInv, PromptsCompleted
  <2>3. CASE x = a /\ d = c /\ y \in CompletedTurns(c)
    BY <2>2, <2>3
  <2>4. CASE y = a /\ d = c /\ x \in CompletedTurns(c)
    BY <2>2, <2>4
  <2>5. QED
    BY <1>2, <2>1, <2>3, <2>4
<1>8. PromptsCompleted'
  BY <1>1, <1>2 DEF TurnInv, PromptsCompleted
<1>9. \A d \in Conversations : /\ revision[d] \in Nat
                              /\ revision'[d] = IF o = "completed" /\ d = c
                                                THEN revision[d] + 1 ELSE revision[d]
  BY <1>1, <1>3 DEF TurnInv, TypeOK, StoreTypeOK
<1>10. ZeroRevision'
  BY <1>2, <1>9 DEF TurnInv, ZeroRevision
<1>11. SnapshotSound'
  <2> SUFFICES ASSUME NEW s \in Senders, phase[s] # "idle"
               PROVE  LET m == request[s] IN
                      /\ phase[s] = "embed" => m.rev = 0 /\ m.hist = {}
                      /\ phase[s] \in {"messages", "ready"} => m.rev <= revision'[m.conv]
                      /\ phase[s] = "ready" /\ m.rev = revision'[m.conv] =>
                           m.hist = CompletedTurns(m.conv)'
    BY DEF SnapshotSound
  <2> DEFINE m == request[s]
  <2>1. m.conv \in Conversations /\ m.rev \in Nat
    BY DEF TurnInv, TypeOK, Request
  <2>2. /\ phase[s] = "embed" => m.rev = 0 /\ m.hist = {}
        /\ phase[s] \in {"messages", "ready"} => m.rev <= revision[m.conv]
        /\ phase[s] = "ready" /\ m.rev = revision[m.conv] =>
             m.hist = CompletedTurns(m.conv)
    BY DEF TurnInv, SnapshotSound
  <2>3. CASE o = "completed" /\ m.conv = c
    BY <1>9, <2>1, <2>2, <2>3
  <2>4. CASE ~(o = "completed" /\ m.conv = c)
    BY <1>2, <1>9, <2>1, <2>2, <2>4
  <2>5. QED
    BY <2>3, <2>4
<1>12. QED
  BY <1>2, <1>4, <1>5, <1>7, <1>8, <1>10, <1>11 DEF LogInv

\* The step that matters: everything is checked again under the locks, and the
\* snapshot's revision still being current makes its messages current.
LEMMA AcceptNewInv ==
    ASSUME TurnInv, NEW s \in Senders, AcceptNew(s)
    PROVE  LogInv' /\ RowsAgree' /\ SnapshotSound'
<1> DEFINE m == request[s]
<1>1. m \in Request /\ phase[s] = "ready"
  BY DEF AcceptNew, TurnInv, TypeOK
<1>2. PICK a \in Attempts : AcceptRow(m, a) /\ prompt' = [prompt EXCEPT ![a] = m.hist]
  BY DEF AcceptNew
<1>3. /\ RowsAgree'
      /\ Accepted' = Accepted \cup {a}
      /\ a \notin Accepted
      /\ ActiveTurns' = (ActiveTurns \ ExpiredAround(m)) \cup {a}
      /\ \A b \in Accepted : row'[b] = row[b]
      /\ row'[a].conv = m.conv
      /\ \A c : CompletedTurns(c)' = CompletedTurns(c)
      /\ UNCHANGED revision
  BY <1>1, <1>2, AcceptedTurn DEF TurnInv
<1>4. m.hist = CompletedTurns(m.conv)
  BY <1>1 DEF AcceptNew, FreshHistory, TurnInv, SnapshotSound
<1>5. /\ prompt'[a] = m.hist
      /\ \A b \in Accepted : prompt'[b] = prompt[b]
  BY <1>2, <1>3 DEF TurnInv, TypeOK, Accepted
<1>6. \A b \in ActiveTurns \ ExpiredAround(m) : b \in Accepted /\ row[b].conv # m.conv
  BY DEF AcceptNew, Vacant, ExpiredAround, Expired, ActiveTurns, TurnsOf
<1>7. OneActiveTurn'
  BY <1>3, <1>6 DEF TurnInv, OneActiveTurn
<1>8. PromptCurrent'
  BY <1>3, <1>4, <1>5, <1>6 DEF TurnInv, PromptCurrent
<1>9. \A c : CompletedTurns(c) \subseteq Accepted
  BY DEF CompletedTurns, TurnsOf
<1>10. Chained'
  BY <1>3, <1>5, <1>9 DEF TurnInv, Chained
<1>11. PromptsCompleted'
  BY <1>3, <1>4, <1>5 DEF TurnInv, PromptsCompleted
<1>12. ZeroRevision'
  BY <1>3 DEF TurnInv, ZeroRevision
<1>13. SnapshotSound'
  BY <1>3 DEF AcceptNew, Forget, TurnInv, SnapshotSound, TypeOK
<1>14. QED
  BY <1>3, <1>7, <1>8, <1>10, <1>11, <1>12, <1>13 DEF LogInv

\* A sender that is not accepted moves its own snapshot only.
LEMMA SendSnapshot ==
    ASSUME TurnInv, NEW s \in Senders, Send(s), ~AcceptNew(s)
    PROVE  SnapshotSound'
<1> DEFINE m == request[s]
           Sound(p, r) == /\ p = "embed" => r.rev = 0 /\ r.hist = {}
                          /\ p \in {"messages", "ready"} => r.rev <= revision[r.conv]
                          /\ p = "ready" /\ r.rev = revision[r.conv] =>
                               r.hist = CompletedTurns(r.conv)
<1>1. /\ \A c : CompletedTurns(c)' = CompletedTurns(c)
      /\ UNCHANGED revision
  BY SendOnTurns, NothingCompletes DEF TurnInv
<1>2. \A x \in Senders : Sound(phase[x], request[x])
  BY DEF TurnInv, SnapshotSound
<1>3. phase[s] # "idle" =>
        m \in Request /\ m.conv \in Conversations /\ revision[m.conv] \in Nat
  BY DEF TurnInv, TypeOK, StoreTypeOK, Request
<1>4. ASSUME Sound(phase'[s], request'[s]),
             \A x \in Senders \ {s} : phase'[x] = phase[x] /\ request'[x] = request[x]
      PROVE  SnapshotSound'
  BY <1>1, <1>2, <1>4 DEF SnapshotSound
<1>5. phase \in [Senders -> SenderPhase] /\ request \in [Senders -> Request \cup {None}]
  BY DEF TurnInv, TypeOK
<1> DEFINE Others == \A x \in Senders \ {s} :
                       phase'[x] = phase[x] /\ request'[x] = request[x]
<1>6. CASE Forget(s)
  <2>1. phase'[s] = "idle" /\ Others
    BY <1>5, <1>6 DEF Forget
  <2>2. QED
    BY <1>4, <2>1
<1>7. CASE SendBegin(s)
  <2>1. phase'[s] = "embed" /\ request'[s].rev = 0 /\ request'[s].hist = {} /\ Others
    BY <1>5, <1>7 DEF SendBegin
  <2>2. QED
    BY <1>4, <2>1
<1>8. CASE SendLookup(s)
  <2>1. CASE Forget(s)
    BY <1>6, <2>1
  <2>2. CASE phase' = [phase EXCEPT ![s] = "revision"]
             /\ request' = [request EXCEPT ![s].known = TRUE]
    <3>1. PICK r : request' = [request EXCEPT ![s] = r]
      BY <2>2
    <3>2. phase'[s] = "revision" /\ Others
      <4>1. phase' = [phase EXCEPT ![s] = "revision"]
        BY <2>2
      <4>2. QED
        BY <1>5, <3>1, <4>1
    <3>3. QED
      BY <1>4, <3>2
  <2>3. CASE phase' = [phase EXCEPT ![s] = "ready"] /\ UNCHANGED request
    <3>1. m.rev = 0 /\ m.hist = {} /\ phase[s] # "idle"
      BY <1>2, <1>8 DEF SendLookup
    <3>2. Sound("ready", m)
      BY <1>3, <3>1 DEF TurnInv, ZeroRevision
    <3>3. phase'[s] = "ready" /\ request'[s] = m /\ Others
      BY <1>5, <2>3
    <3>4. QED
      BY <1>4, <3>2, <3>3
  <2>4. QED
    BY <1>8, <2>1, <2>2, <2>3 DEF SendLookup
<1>9. CASE ReadRevision(s)
  <2>1. m \in Request /\ revision[m.conv] \in Nat
    BY <1>3, <1>9 DEF ReadRevision
  <2>2. request' = [request EXCEPT ![s] = [m EXCEPT !.rev = revision[m.conv],
                                                    !.tail = tail[m.conv]]]
    BY <1>5, <1>9, <2>1 DEF ReadRevision
  <2>3. PICK r : r = [m EXCEPT !.rev = revision[m.conv], !.tail = tail[m.conv]]
    OBVIOUS
  <2>4. r.rev = revision[m.conv] /\ r.conv = m.conv
    BY <2>1, <2>3 DEF Request
  <2>5. phase'[s] = "messages" /\ request'[s] = r /\ Others
    <3>1. request' = [request EXCEPT ![s] = r]
      BY <2>2, <2>3
    <3>2. phase' = [phase EXCEPT ![s] = "messages"]
      BY <1>9 DEF ReadRevision
    <3>3. QED
      BY <1>5, <3>1, <3>2
  <2>6. QED
    BY <1>4, <2>1, <2>4, <2>5
<1>10. CASE ReadMessages(s)
  <2>1. m \in Request /\ phase[s] = "messages"
    BY <1>3, <1>10 DEF ReadMessages
  <2> DEFINE h == CompletedTurns(m.conv)
  <2>2. request' = [request EXCEPT ![s] = [m EXCEPT !.hist = h]]
    BY <1>5, <1>10 DEF ReadMessages
  <2> HIDE DEF h
  <2>3. PICK r : r = [m EXCEPT !.hist = h]
    OBVIOUS
  <2>4. r.rev = m.rev /\ r.conv = m.conv /\ r.hist = h
    BY <2>1, <2>3 DEF Request
  <2>5. phase'[s] = "ready" /\ request'[s] = r /\ Others
    <3>1. request' = [request EXCEPT ![s] = r]
      BY <2>2, <2>3
    <3>2. phase' = [phase EXCEPT ![s] = "ready"]
      BY <1>10 DEF ReadMessages
    <3>3. QED
      BY <1>5, <3>1, <3>2
  <2>6. Sound("ready", r)
    BY <1>2, <2>1, <2>4 DEF h
  <2>7. QED
    BY <1>4, <2>5, <2>6
<1>11. CASE AcceptStale(s)
  <2>1. CASE Forget(s)
    BY <1>6, <2>1
  <2>2. CASE /\ phase' = [phase EXCEPT ![s] = IF m.known THEN "revision" ELSE "ready"]
             /\ request' = [request EXCEPT ![s].tries = @ + 1]
    <3>1. m \in Request /\ phase[s] = "ready"
      BY <1>3, <1>11 DEF AcceptStale
    <3>2. request' = [request EXCEPT ![s] = [m EXCEPT !.tries = m.tries + 1]]
      BY <1>5, <2>2, <3>1
    <3>3. PICK r : r = [m EXCEPT !.tries = m.tries + 1]
      OBVIOUS
    <3>4. r.rev = m.rev /\ r.conv = m.conv /\ r.hist = m.hist
      BY <3>1, <3>3 DEF Request
    <3>5. phase'[s] \in {"revision", "ready"} /\ request'[s] = r /\ Others
      <4>1. request' = [request EXCEPT ![s] = r]
        BY <3>2, <3>3
      <4>2. phase' = [phase EXCEPT ![s] = IF m.known THEN "revision" ELSE "ready"]
        BY <2>2
      <4>3. QED
        BY <1>5, <4>1, <4>2
    <3>6. QED
      BY <1>2, <1>4, <3>1, <3>4, <3>5
  <2>3. QED
    BY <1>11, <2>1, <2>2 DEF AcceptStale
<1>12. QED
  BY <1>6, <1>7, <1>8, <1>9, <1>10, <1>11
     DEF Send, SendFails, AcceptDuplicate, AcceptRefused

\* TurnInv is inductive.
LEMMA TurnStep == TurnInv /\ [Next]_vars => TurnInv'
<1> SUFFICES ASSUME TurnInv, [Next]_vars PROVE TurnInv'
  OBVIOUS
<1>1. TypeOK /\ TypeOK'
  BY TypeStep DEF TurnInv
<1>2. ASSUME NEW s \in Senders, AcceptNew(s) PROVE TurnInv'
  BY <1>1, <1>2, AcceptNewInv DEF TurnInv, LogInv
<1>3. ASSUME NEW s \in Senders, Send(s), ~AcceptNew(s) PROVE TurnInv'
  <2>1. SnapshotSound'
    BY <1>3, SendSnapshot
  <2>2. LogInv' /\ RowsAgree'
    BY <1>1, <1>3, SendOnTurns, NothingCompletesInv
  <2>3. QED
    BY <1>1, <2>1, <2>2 DEF TurnInv, LogInv
<1>4. CASE ~ \E s \in Senders : Send(s)
  <2>1. /\ TurnsSame \/ TurnMarked \/ TurnEnds \/ TurnsInterrupted
        /\ UNCHANGED <<phase, request>>
    BY <1>1, <1>4, OtherOnTurns
  <2>2. CASE TurnEnds
    BY <1>1, <2>1, <2>2, TurnEndsInv DEF TurnInv, LogInv
  <2>3. CASE TurnsSame \/ TurnMarked \/ TurnsInterrupted
    <3>1. LogInv' /\ RowsAgree'
      BY <2>3, NothingCompletesInv
    <3>2. /\ \A c : CompletedTurns(c)' = CompletedTurns(c)
          /\ UNCHANGED revision
      BY <1>1, <2>3, NothingCompletes DEF TurnInv
    <3>3. SnapshotSound'
      BY <2>1, <3>2 DEF TurnInv, SnapshotSound
    <3>4. QED
      BY <1>1, <3>1, <3>3 DEF TurnInv, LogInv
  <2>4. QED
    BY <2>1, <2>2, <2>3
<1>5. QED
  BY <1>2, <1>3, <1>4 DEF Send

\* The invariant holds of the empty tables.
LEMMA TurnInit == Init => TurnInv
<1> SUFFICES ASSUME Init PROVE TurnInv
  OBVIOUS
<1>1. TypeOK
  BY TypeInit
<1>2. Accepted = {} /\ \A c : CompletedTurns(c) = {}
  BY DEF Init, StoreInit, Accepted, CompletedTurns, TurnsOf
<1>3. ActiveTurns = {}
  BY <1>2 DEF ActiveTurns
<1>4. OneActiveTurn /\ PromptCurrent /\ PromptsCompleted
  BY <1>2, <1>3 DEF OneActiveTurn, PromptCurrent, PromptsCompleted
<1>5. Chained /\ ZeroRevision
  BY <1>2 DEF Chained, ZeroRevision
<1>6. RowsAgree
  BY DEF Init, StoreInit, RowsAgree
<1>7. SnapshotSound
  BY DEF Init, SnapshotSound
<1>8. QED
  BY <1>1, <1>4, <1>5, <1>6, <1>7 DEF TurnInv

\* TurnInv holds throughout; the theorems below are read off it.
LEMMA TurnInvariant == Spec => []TurnInv
BY TurnInit, TurnStep, PTL DEF Spec

\* A conversation has at most one turn in progress, whichever instances
\* accept, run, lose and recover its turns.
THEOREM SerialTurns == Spec => []OneActiveTurn
<1>1. TurnInv => OneActiveTurn
  BY DEF TurnInv
<1>2. QED
  BY <1>1, TurnInvariant, PTL

\* The turn in progress was prompted with exactly the completed turns of its
\* conversation, and each completed turn with exactly its predecessors,
\* although the snapshot is read by two statements outside the acceptance.
THEOREM HistoryIsLinear == Spec => []LinearHistory
<1>1. TurnInv => LinearHistory
  BY DEF TurnInv, PromptCurrent, Chained, LinearHistory
<1>2. QED
  BY <1>1, TurnInvariant, PTL

-----------------------------------------------------------------------------
(* Conversation implements TurnLog.                                        *)

\* With one active turn per conversation, CHOOSE has no choice.
LEMMA OpenTurnIs ==
    OneActiveTurn => \A c, x : OpenTurn(c) = x <=>
        \/ x = None /\ \A a \in ActiveTurns : row[a].conv # c
        \/ x \in ActiveTurns /\ row[x].conv = c
<1> SUFFICES ASSUME OneActiveTurn, NEW c, NEW x
             PROVE  OpenTurn(c) = x <=>
                      \/ x = None /\ \A a \in ActiveTurns : row[a].conv # c
                      \/ x \in ActiveTurns /\ row[x].conv = c
  OBVIOUS
<1> DEFINE S == TurnsOf(c) \cap ActiveTurns
<1>1. \A a : a \in S <=> a \in ActiveTurns /\ row[a].conv = c
  BY DEF TurnsOf, ActiveTurns
<1>2. None \notin ActiveTurns
  BY NoneAssumption DEF ActiveTurns, Accepted
<1>3. CASE S = {}
  BY <1>1, <1>3 DEF OpenTurn
<1>4. CASE S # {}
  <2>1. PICK a : a \in S
    BY <1>4
  <2>2. S = {a}
    BY <1>1, <2>1 DEF OneActiveTurn
  <2>3. (CHOOSE t \in S : TRUE) = a
    BY <2>2
  <2>4. OpenTurn(c) = a
    BY <1>4, <2>3 DEF OpenTurn
  <2>5. QED
    BY <1>1, <1>2, <2>1, <2>2, <2>4
<1>5. QED
  BY <1>3, <1>4

\* The same of the next state.
LEMMA OpenTurnIsNext ==
    OneActiveTurn' => \A c, x : OpenTurn(c)' = x <=>
        \/ x = None /\ \A a \in ActiveTurns' : row'[a].conv # c
        \/ x \in ActiveTurns' /\ row'[x].conv = c
<1> SUFFICES ASSUME OneActiveTurn', NEW c, NEW x
             PROVE  OpenTurn(c)' = x <=>
                      \/ x = None /\ \A a \in ActiveTurns' : row'[a].conv # c
                      \/ x \in ActiveTurns' /\ row'[x].conv = c
  OBVIOUS
<1> DEFINE S == (TurnsOf(c) \cap ActiveTurns)'
<1>1. \A a : a \in S <=> a \in ActiveTurns' /\ row'[a].conv = c
  BY DEF TurnsOf, ActiveTurns
<1>2. None \notin ActiveTurns'
  BY NoneAssumption DEF ActiveTurns, Accepted
<1>3. CASE S = {}
  BY <1>1, <1>3 DEF OpenTurn
<1>4. CASE S # {}
  <2>1. PICK a : a \in S
    BY <1>4
  <2>2. S = {a}
    BY <1>1, <2>1 DEF OneActiveTurn
  <2>3. (CHOOSE t \in S : TRUE) = a
    BY <2>2
  <2>4. OpenTurn(c)' = a
    BY <1>4, <2>3 DEF OpenTurn
  <2>5. QED
    BY <1>1, <1>2, <2>1, <2>2, <2>4
<1>5. QED
  BY <1>3, <1>4

\* Nothing completing maps to giving up the turns that are no longer active.
LEMMA GiveUpStep ==
    ASSUME TurnInv, TurnInv', UNCHANGED prompt, Accepted' = Accepted,
           ActiveTurns' \subseteq ActiveTurns, UNCHANGED row,
           \A c : CompletedTurns(c)' = CompletedTurns(c)
    PROVE  Log!LogNext
<1> DEFINE C == {c \in Conversations : OpenTurn(c)' # OpenTurn(c)}
<1>1. \A c \in C : OpenTurn(c)' = None
  <2> SUFFICES ASSUME NEW c \in C, OpenTurn(c)' # None PROVE FALSE
    OBVIOUS
  <2> DEFINE x == OpenTurn(c)'
  <2>1. x \in ActiveTurns' /\ row'[x].conv = c
    BY OpenTurnIsNext DEF TurnInv
  <2>2. x \in ActiveTurns /\ row[x].conv = c
    BY <2>1
  <2>3. OpenTurn(c) = x
    BY <2>2, OpenTurnIs DEF TurnInv
  <2>4. QED
    BY <2>3
<1>2. Log!GiveUp(C)
  BY <1>1 DEF Log!GiveUp
<1>3. C \in SUBSET Conversations
  OBVIOUS
<1>4. QED
  BY <1>2, <1>3 DEF Log!LogNext

\* A turn that completes extends its conversation's log.
LEMMA CompleteStep ==
    ASSUME TurnInv, TurnInv', NEW a \in ActiveTurns,
           ActiveTurns' = ActiveTurns \ {a}, Accepted' = Accepted,
           UNCHANGED <<row, prompt>>,
           \A c : CompletedTurns(c)' = IF c = row[a].conv
                                     THEN CompletedTurns(c) \cup {a}
                                     ELSE CompletedTurns(c)
    PROVE  Log!LogNext
<1> DEFINE c == row[a].conv
<1>1. c \in Conversations
  BY DEF TurnInv, RowsAgree, ActiveTurns, Accepted, Row
<1>2. OpenTurn(c) = a /\ a # None
  BY OpenTurnIs, NoneAssumption DEF TurnInv, ActiveTurns, Accepted
<1>3. OpenTurn(c)' = None
  BY OpenTurnIsNext DEF TurnInv, OneActiveTurn
<1>4. \A d \in Conversations \ {c} : OpenTurn(d)' = OpenTurn(d)
  <2> SUFFICES ASSUME NEW d \in Conversations \ {c} PROVE OpenTurn(d)' = OpenTurn(d)
    OBVIOUS
  <2> DEFINE x == OpenTurn(d)
  <2>1. \/ x = None /\ \A b \in ActiveTurns : row[b].conv # d
        \/ x \in ActiveTurns /\ row[x].conv = d
    BY OpenTurnIs DEF TurnInv
  <2>2. \/ x = None /\ \A b \in ActiveTurns' : row'[b].conv # d
        \/ x \in ActiveTurns' /\ row'[x].conv = d
    BY <2>1
  <2>3. QED
    BY <2>2, OpenTurnIsNext DEF TurnInv
<1>5. Log!Complete(c)
  <2> DEFINE f == [d \in Conversations |-> OpenTurn(d)]
             g == [d \in Conversations |-> CompletedTurns(d)]
  <2>1. f[c] = a /\ g[c] = CompletedTurns(c)
    BY <1>1, <1>2
  <2>2. f' = [f EXCEPT ![c] = None]
    BY <1>3, <1>4
  <2>3. g' = [g EXCEPT ![c] = g[c] \cup {a}]
    BY <2>1
  <2>4. f[c] # None
    BY <1>2, <2>1
  <2>5. g' = [g EXCEPT ![c] = g[c] \cup {f[c]}]
    BY <2>1, <2>3
  <2> HIDE DEF f, g
  <2>6. QED
    BY <2>2, <2>4, <2>5 DEF Log!Complete, f, g
<1>6. QED
  BY <1>1, <1>5 DEF Log!LogNext

\* An acceptance opens a turn on the log as it stands.
LEMMA BeginStep ==
    ASSUME TurnInv, TurnInv', NEW s \in Senders, AcceptNew(s)
    PROVE  Log!LogNext
<1> DEFINE m == request[s]
<1>1. m \in Request /\ phase[s] = "ready"
  BY DEF AcceptNew, TurnInv, TypeOK
<1>2. PICK a \in Attempts : AcceptRow(m, a) /\ prompt' = [prompt EXCEPT ![a] = m.hist]
  BY DEF AcceptNew
<1>3. /\ Accepted' = Accepted \cup {a}
      /\ a \notin Accepted
      /\ ActiveTurns' = (ActiveTurns \ ExpiredAround(m)) \cup {a}
      /\ \A b \in Accepted : row'[b] = row[b]
      /\ row'[a].conv = m.conv
      /\ \A c : CompletedTurns(c)' = CompletedTurns(c)
  BY <1>1, <1>2, AcceptedTurn DEF TurnInv
<1>k. PICK k : k = m.conv
  OBVIOUS
<1>4. m.hist = CompletedTurns(k) /\ k \in Conversations
  BY <1>k, <1>1 DEF AcceptNew, FreshHistory, TurnInv, SnapshotSound, Request
<1>5. /\ \A b \in ActiveTurns : b \in Accepted
      /\ \A b \in ActiveTurns : row[b].conv = k => b \in ExpiredAround(m)
  BY <1>k DEF AcceptNew, Vacant, ExpiredAround, Expired, ActiveTurns, TurnsOf
<1> DEFINE C == {c \in Conversations :
                   \E b \in ActiveTurns \cap ExpiredAround(m) : row[b].conv = c}
<1>6. OpenTurn(k) = None \/ k \in C
  BY <1>4, <1>5, OpenTurnIs DEF TurnInv
<1>7. OpenTurn(k)' = a
  <2>1. a \in ActiveTurns' /\ row'[a].conv = k
    BY <1>k, <1>3
  <2>2. OneActiveTurn'
    BY DEF TurnInv
  <2>3. QED
    BY <2>1, <2>2, OpenTurnIsNext
<1>8. \A c \in Conversations \ {k} :
        OpenTurn(c)' = IF c \in C THEN None ELSE OpenTurn(c)
  <2> SUFFICES ASSUME NEW c \in Conversations \ {k}
               PROVE  OpenTurn(c)' = IF c \in C THEN None ELSE OpenTurn(c)
    OBVIOUS
  <2>1. CASE c \in C
    <3>1. \A b \in ActiveTurns' : row'[b].conv # c
      BY <1>k, <1>3, <1>5, <2>1 DEF TurnInv, OneActiveTurn
    <3>2. QED
      BY <2>1, <3>1, OpenTurnIsNext DEF TurnInv
  <2>2. CASE c \notin C
    <3> DEFINE x == OpenTurn(c)
    <3>1. \/ x = None /\ \A b \in ActiveTurns : row[b].conv # c
          \/ x \in ActiveTurns /\ row[x].conv = c
      BY OpenTurnIs DEF TurnInv
    <3>2. \/ x = None /\ \A b \in ActiveTurns' : row'[b].conv # c
          \/ x \in ActiveTurns' /\ row'[x].conv = c
      BY <1>k, <1>3, <1>5, <2>2, <3>1
    <3>3. QED
      BY <2>2, <3>2, OpenTurnIsNext DEF TurnInv
  <2>3. QED
    BY <2>1, <2>2
<1>9. Log!Begin(k, a, C)
  <2> DEFINE f == [c \in Conversations |-> OpenTurn(c)]
             g == [c \in Conversations |-> CompletedTurns(c)]
  <2>1. g' = g /\ g[k] = CompletedTurns(k)
    BY <1>3, <1>4
  <2>2. f[k] = None \/ k \in C
    BY <1>4, <1>6
  <2>3. f' = [d \in Conversations |-> IF d = k THEN a
                                      ELSE IF d \in C THEN None ELSE f[d]]
    BY <1>7, <1>8
  <2>4. prompt' = [prompt EXCEPT ![a] = g[k]]
    BY <1>2, <1>4, <2>1
  <2>5. QED
    BY <1>3, <2>1, <2>2, <2>3, <2>4 DEF Log!Begin
<1>10. QED
  BY <1>4, <1>9 DEF Log!LogNext

\* Every step of the service is a step of TurnLog or leaves its view alone.
LEMMA LogStep == TurnInv /\ TurnInv' /\ [Next]_vars => [Log!LogNext]_(Log!logVars)
<1> SUFFICES ASSUME TurnInv, TurnInv', [Next]_vars PROVE Log!LogNext
  OBVIOUS
<1>1. ASSUME NEW s \in Senders, AcceptNew(s) PROVE Log!LogNext
  BY <1>1, BeginStep
<1>2. CASE TurnsSame \/ TurnMarked \/ TurnsInterrupted
  BY <1>2, NothingCompletes, GiveUpStep DEF TurnInv
<1>3. CASE TurnEnds
  <2>1. PICK a \in ActiveTurns, o \in RunOutcome :
          /\ status' = [status EXCEPT ![a] = o]
          /\ reply' = [reply EXCEPT ![a] = o]
          /\ revision' = IF o = "completed"
                         THEN [revision EXCEPT ![row[a].conv] = @ + 1] ELSE revision
          /\ UNCHANGED <<row, prompt>>
    BY <1>3 DEF TurnEnds
  <2>2. /\ Accepted' = Accepted
        /\ ActiveTurns' = ActiveTurns \ {a}
        /\ \A c : CompletedTurns(c)' = IF o = "completed" /\ c = row[a].conv
                                      THEN CompletedTurns(c) \cup {a}
                                      ELSE CompletedTurns(c)
    BY <2>1, EndingTurn DEF TurnInv
  <2>3. CASE o = "completed"
    BY <2>1, <2>2, <2>3, CompleteStep
  <2>4. CASE o # "completed"
    BY <2>1, <2>2, <2>4, GiveUpStep
  <2>5. QED
    BY <2>3, <2>4
<1>4. QED
  BY <1>1, <1>2, <1>3, SendOnTurns, OtherOnTurns DEF TurnInv

\* Seen through its tables, the service is the serial log TurnLog specifies:
\* the initial states agree and every step is one of TurnLog's or a stutter.
THEOREM ServiceImplementsTurnLog == Spec => ImplementsTurnLog
<1>1. Init => Log!LogInit
  <2> SUFFICES ASSUME Init PROVE Log!LogInit
    OBVIOUS
  <2>1. Accepted = {} /\ \A c : CompletedTurns(c) = {}
    BY DEF Init, StoreInit, Accepted, CompletedTurns, TurnsOf
  <2>2. \A c : OpenTurn(c) = None
    BY <2>1 DEF OpenTurn, TurnsOf, ActiveTurns
  <2>3. QED
    BY <2>1, <2>2 DEF Init, Log!LogInit
<1>2. QED
  BY <1>1, LogStep, TurnInvariant, PTL DEF Spec, ImplementsTurnLog, Log!LogSpec
=============================================================================
