--------------------------- MODULE AdmissionProofs ---------------------------
(***************************************************************************)
(* What admission promises, for every value of the constants: the counts    *)
(* the conversation tables keep are the ones they stand for -- the revision *)
(* of a conversation, the calls a network has in progress, the attempts it  *)
(* was charged for today -- a request id means one turn for ever, and a     *)
(* revoked session means none at all.                                      *)
(*                                                                         *)
(* The counts are of attempts accepted so far, a set that grows by one      *)
(* attempt at an acceptance and at no other step; it is finite, whatever    *)
(* the pool of attempt ids is, because it started empty.  Every "accepted"  *)
(* event agrees with a row of the table, rows never change once they are    *)
(* accepted, a row is only added when no row of its conversation has its    *)
(* request id, and an outcome is only told of an attempt that has ended.    *)
(***************************************************************************)
EXTENDS UsageProofs, FiniteSetTheorems

USE LimitsAssumption, NoneAssumption, ProcessAssumption
USE DEF Active, RunOutcome, Terminal, Days, conversation, storeVars, Running, Recording

-----------------------------------------------------------------------------
(* What a step does to the counters and to the embed.                      *)

CountersSame == UNCHANGED <<counter, today>>

\* Only an acceptance, a recovery pass and midnight touch the daily counters.
LEMMA RunOnCounters ==
    ASSUME NEW a \in Attempts, Run(a)
    PROVE  CountersSame
<1>1. Register(a) \/ PrepareFails(a) \/ Attribute(a) \/ MarkRunning(a) => CountersSame
  BY DEF Register, PrepareFails, Attribute, MarkInvoked, MarkRunning, MarkRunningRow,
     CountersSame
<1>2. ProviderText(a) \/ ProviderBlocked(a) \/ ProviderEnds(a) \/ ProviderFails(a)
        => CountersSame
  BY DEF ProviderText, ProviderBlocked, ProviderEnds, ProviderFails, CountersSame
<1>3. Flush(a) \/ FlushReads(a) \/ FlushLands(a) \/ FlushFails(a) \/ DrainFlush(a)
        \/ DrainDone(a) => CountersSame
  BY DEF Flush, FlushReads, FlushLands, FlushFails, DrainFlush, DrainDone, AppendOutput,
     CountersSame
<1>4. Finalize(a) => CountersSame
  BY DEF Finalize, StageFinalization, CountersSame
<1>5. RecordOwnUsage(a) \/ RunnerDies(a) => CountersSame
  BY DEF RecordOwnUsage, RunnerDies, CountersSame
<1>6. QED
  BY <1>1, <1>2, <1>3, <1>4, <1>5 DEF Run

\* The same of every step that is not an acceptance.
LEMMA OnCounters ==
    ASSUME [Next]_vars, \A s \in Senders : ~AcceptNew(s)
    PROVE  CountersSame \/ (PruneDailyCounters /\ today' = today) \/ NextDay
<1>1. ASSUME NEW s \in Senders, Send(s) PROVE CountersSame
  BY <1>1 DEF Send, SendBegin, SendLookup, ReadRevision, ReadMessages, SendFails,
       AcceptDuplicate, AcceptDuplicateRow, AcceptStale, AcceptRefused, CountersSame
<1>2. ASSUME NEW a \in Attempts, Run(a) \/ Poll(a) \/ LeaseLapses(a) PROVE CountersSame
  BY <1>2, RunOnCounters DEF Poll, LeaseLapses, Lapse, CountersSame
<1>3. ASSUME NEW c \in Conversations, Cancel(c) PROVE CountersSame
  BY <1>3 DEF Cancel, RequestCancellation, CountersSame
<1>4. ASSUME NEW w \in Recoverers, RecoverUsage(w)
      PROVE  PruneDailyCounters /\ today' = today
  BY <1>4 DEF RecoverUsage, PruneDailyCounters
<1>5. ASSUME NEW w \in Workers, NEW a \in Attempts, JobStep(w, a) \/ JobThrows(w, a)
      PROVE  CountersSame
  BY <1>5 DEF JobStep, StageCandidate, RecordUsage, MarkRecorded, JobThrows,
       StageRecoveredCandidate, InsertUsage, MarkUsageRecorded, CountersSame
<1>6. RecoverExpired \/ Administer \/ UNCHANGED vars => CountersSame
  BY DEF RecoverExpired, RecoverExpiredAttempts, Administer, RevokeSessions, SetDisabled,
     vars, CountersSame
<1>7. DayPasses => NextDay
  BY DEF DayPasses
<1>8. QED
  BY <1>1, <1>2, <1>3, <1>4, <1>5, <1>6, <1>7 DEF Next

\* A step that is not an acceptance accepts nothing, changes no row, and makes
\* no attempt active.
LEMMA NothingAccepted ==
    ASSUME TypeOK, RowsAgree, [Next]_vars, \A s \in Senders : ~AcceptNew(s)
    PROVE  Accepted' = Accepted /\ UNCHANGED row /\ ActiveTurns' \subseteq ActiveTurns
<1>1. CASE TurnsSame \/ TurnMarked \/ TurnsInterrupted
  BY <1>1, NothingCompletes
<1>2. CASE TurnEnds
  <2>1. PICK a \in ActiveTurns, o \in RunOutcome :
          /\ status' = [status EXCEPT ![a] = o]
          /\ reply' = [reply EXCEPT ![a] = o]
          /\ revision' = IF o = "completed"
                         THEN [revision EXCEPT ![row[a].conv] = @ + 1] ELSE revision
          /\ UNCHANGED <<row, prompt>>
    BY <1>2 DEF TurnEnds
  <2>2. QED
    BY <2>1, EndingTurn
<1>3. QED
  BY <1>1, <1>2, SendOnTurns, OtherOnTurns

-----------------------------------------------------------------------------
(* The revision counts the completed turns.                                *)

CountInv == TurnInv /\ IsFiniteSet(Accepted) /\ RevisionCountsCompleted

\* A turn that completes is the next one its conversation counts, and it was
\* prompted with all those counted before.
LEMMA EndingCounted ==
    ASSUME CountInv, TurnEnds
    PROVE  RevisionCountsCompleted'
<1>1. PICK a \in ActiveTurns, o \in RunOutcome :
        /\ status' = [status EXCEPT ![a] = o]
        /\ reply' = [reply EXCEPT ![a] = o]
        /\ revision' = IF o = "completed"
                       THEN [revision EXCEPT ![row[a].conv] = @ + 1] ELSE revision
        /\ tail' = IF o = "completed" THEN [tail EXCEPT ![row[a].conv] = a] ELSE tail
        /\ UNCHANGED <<row, prompt>>
  BY DEF TurnEnds
<1> DEFINE c == row[a].conv
<1>2. /\ a \notin CompletedTurns(c)
      /\ \A d : CompletedTurns(d)' = IF o = "completed" /\ d = c
                                   THEN CompletedTurns(d) \cup {a} ELSE CompletedTurns(d)
  BY <1>1, EndingTurn DEF CountInv, TurnInv
<1>3. prompt[a] = CompletedTurns(c) /\ c \in Conversations
  BY DEF CountInv, TurnInv, PromptCurrent, ActiveTurns, RowsAgree, Accepted, Row
<1> SUFFICES ASSUME NEW d \in Conversations
             PROVE  /\ revision'[d] = Cardinality(CompletedTurns(d)')
                    /\ CompletedTurns(d)' # {} =>
                         /\ tail'[d] \in CompletedTurns(d)'
                         /\ prompt'[tail'[d]] = CompletedTurns(d)' \ {tail'[d]}
  BY DEF RevisionCountsCompleted
<1>4. /\ revision[d] = Cardinality(CompletedTurns(d))
      /\ CompletedTurns(d) # {} => /\ tail[d] \in CompletedTurns(d)
                                   /\ prompt[tail[d]] = CompletedTurns(d) \ {tail[d]}
  BY DEF CountInv, RevisionCountsCompleted
<1>5. CASE o = "completed" /\ d = c
  <2>1. IsFiniteSet(CompletedTurns(c))
    <3>1. CompletedTurns(c) \in SUBSET Accepted
      BY DEF CompletedTurns, TurnsOf
    <3>2. QED
      BY <3>1, FS_Subset DEF CountInv
  <2>2. Cardinality(CompletedTurns(c) \cup {a}) = Cardinality(CompletedTurns(c)) + 1
    BY <1>2, <2>1, FS_AddElement
  <2>3. revision'[d] = revision[d] + 1 /\ tail'[d] = a
    BY <1>1, <1>5 DEF CountInv, TurnInv, TypeOK, StoreTypeOK
  <2>4. QED
    BY <1>1, <1>2, <1>3, <1>4, <1>5, <2>2, <2>3
<1>6. CASE ~(o = "completed" /\ d = c)
  <2>1. revision'[d] = revision[d] /\ tail'[d] = tail[d]
    BY <1>1, <1>3, <1>6 DEF CountInv, TurnInv, TypeOK, StoreTypeOK
  <2>2. QED
    BY <1>1, <1>2, <1>4, <1>6, <2>1
<1>7. QED
  BY <1>5, <1>6

\* An acceptance adds one attempt, no other step adds any.
LEMMA AcceptedGrows ==
    ASSUME TurnInv, IsFiniteSet(Accepted), [Next]_vars
    PROVE  IsFiniteSet(Accepted')
<1>1. CASE \A s \in Senders : ~AcceptNew(s)
  BY <1>1, NothingAccepted DEF TurnInv
<1>2. ASSUME NEW s \in Senders, AcceptNew(s) PROVE IsFiniteSet(Accepted')
  <2>1. request[s] \in Request
    BY <1>2 DEF AcceptNew, TurnInv, TypeOK
  <2>2. PICK a \in Attempts : AcceptRow(request[s], a)
    BY <1>2 DEF AcceptNew
  <2>3. Accepted' = Accepted \cup {a}
    BY <2>1, <2>2, AcceptedTurn DEF TurnInv
  <2>4. QED
    BY <2>3, FS_AddElement
<1>3. QED
  BY <1>1, <1>2

\* The revision of a conversation is the number of its completed turns and its
\* tail is the last of them, so that equal revisions are equal histories.
THEOREM RevisionsCount == Spec => []RevisionCountsCompleted
<1>1. Init => CountInv
  <2> SUFFICES ASSUME Init PROVE CountInv
    OBVIOUS
  <2>1. Accepted = {} /\ \A c : CompletedTurns(c) = {}
    BY DEF Init, StoreInit, Accepted, CompletedTurns, TurnsOf
  <2>2. RevisionCountsCompleted
    BY <2>1, FS_EmptySet DEF Init, StoreInit, RevisionCountsCompleted
  <2>3. QED
    BY <2>1, <2>2, TurnInit, FS_EmptySet DEF CountInv
<1>2. CountInv /\ [Next]_vars => CountInv'
  <2> SUFFICES ASSUME CountInv, [Next]_vars PROVE CountInv'
    OBVIOUS
  <2>1. TurnInv' /\ IsFiniteSet(Accepted')
    BY TurnStep, AcceptedGrows DEF CountInv
  <2>2. ASSUME NEW s \in Senders, AcceptNew(s) PROVE RevisionCountsCompleted'
    <3> DEFINE m == request[s]
    <3>1. m \in Request
      BY <2>2 DEF AcceptNew, CountInv, TurnInv, TypeOK
    <3>2. PICK a \in Attempts : AcceptRow(m, a) /\ prompt' = [prompt EXCEPT ![a] = m.hist]
      BY <2>2 DEF AcceptNew
    <3>3. /\ a \notin Accepted
          /\ \A c : CompletedTurns(c)' = CompletedTurns(c)
          /\ UNCHANGED <<revision, tail>>
      BY <3>1, <3>2, AcceptedTurn DEF CountInv, TurnInv
    <3>4. \A c : CompletedTurns(c) \subseteq Accepted
      BY DEF CompletedTurns, TurnsOf
    <3>5. \A b \in Accepted : prompt'[b] = prompt[b]
      BY <3>2, <3>3 DEF CountInv, TurnInv, TypeOK, Accepted
    <3>6. QED
      BY <3>3, <3>4, <3>5 DEF CountInv, RevisionCountsCompleted
  <2>3. CASE TurnsSame \/ TurnMarked \/ TurnsInterrupted
    <3>1. /\ \A c : CompletedTurns(c)' = CompletedTurns(c)
          /\ UNCHANGED <<prompt, revision, tail>>
      BY <2>3, NothingCompletes DEF CountInv, TurnInv
    <3>2. QED
      BY <2>1, <3>1 DEF CountInv, RevisionCountsCompleted
  <2>4. CASE TurnEnds
    BY <2>1, <2>4, EndingCounted DEF CountInv
  <2>5. RevisionCountsCompleted'
    BY <2>2, <2>3, <2>4, SendOnTurns, OtherOnTurns DEF CountInv, TurnInv
  <2>6. QED
    BY <2>1, <2>5 DEF CountInv
<1>3. CountInv => RevisionCountsCompleted
  BY DEF CountInv
<1>4. QED
  BY <1>1, <1>2, <1>3, PTL DEF Spec

-----------------------------------------------------------------------------
(* The concurrency limit and the daily allowance.                          *)

\* No row is dated later than today and the coming days are not counted yet.
FutureUncounted ==
    /\ \A a \in Accepted : row[a].day <= today
    /\ \A n \in Networks : \A d \in Days : d > today => counter[n][d] = 0

LimitsInv ==
    /\ TurnInv /\ IsFiniteSet(Accepted)
    /\ NetworkCap /\ FutureUncounted /\ AllowanceExact

\* What a network is charged for on a day.
ChargedOn(n, d) == {a \in CallsFrom(n) : row[a].day = d}

\* Attempts that are not accepted leave the networks' calls as they are.
LEMMA CallsSame ==
    ASSUME Accepted' = Accepted, UNCHANGED row
    PROVE  /\ \A n : CallsFrom(n)' = CallsFrom(n)
           /\ \A n, d : ChargedOn(n, d)' = ChargedOn(n, d)
BY DEF CallsFrom, ChargedOn

\* The calls and charges of every network are finite.
LEMMA CallsFinite ==
    ASSUME IsFiniteSet(Accepted), NEW n
    PROVE  /\ \A S \in SUBSET CallsFrom(n) : IsFiniteSet(S)
           /\ \A S \in SUBSET CallsFrom(n) : \A T \in SUBSET S :
                Cardinality(T) <= Cardinality(S)
           /\ \A S \in SUBSET CallsFrom(n) : Cardinality(S) \in Nat
<1>1. \A S \in SUBSET CallsFrom(n) : S \in SUBSET Accepted
  BY DEF CallsFrom
<1>2. \A S \in SUBSET CallsFrom(n) : IsFiniteSet(S)
  BY <1>1, FS_Subset
<1>3. QED
  BY <1>2, FS_Subset, FS_CardinalityType

\* Steps that accept nothing can only free places under the limit, charge
\* nobody, and start a day with nothing counted.
LEMMA NothingAcceptedInv ==
    ASSUME LimitsInv, [Next]_vars, \A s \in Senders : ~AcceptNew(s)
    PROVE  NetworkCap' /\ FutureUncounted' /\ AllowanceExact'
<1>1. Accepted' = Accepted /\ UNCHANGED row /\ ActiveTurns' \subseteq ActiveTurns
  BY NothingAccepted DEF LimitsInv, TurnInv
<1>2. /\ \A n : CallsFrom(n)' = CallsFrom(n)
      /\ \A n, d : ChargedOn(n, d)' = ChargedOn(n, d)
  BY <1>1, CallsSame
<1>3. NetworkCap'
  <2> SUFFICES ASSUME NEW n \in Networks
               PROVE  Cardinality(CallsFrom(n)' \cap ActiveTurns') <= ConcurrencyLimit
    BY DEF NetworkCap
  <2> DEFINE before == CallsFrom(n) \cap ActiveTurns
             after  == CallsFrom(n)' \cap ActiveTurns'
  <2>1. after \in SUBSET before /\ before \in SUBSET CallsFrom(n)
    BY <1>1, <1>2
  <2>2. Cardinality(after) <= Cardinality(before)
        /\ Cardinality(after) \in Nat /\ Cardinality(before) \in Nat
    BY <2>1, CallsFinite DEF LimitsInv
  <2>3. Cardinality(before) <= ConcurrencyLimit
    BY DEF LimitsInv, NetworkCap
  <2>4. QED
    BY <2>2, <2>3
<1>4. \A n \in Networks, d \in Days : counter[n][d] \in Nat
  BY DEF LimitsInv, TurnInv, TypeOK, StoreTypeOK
<1>5. today \in Days /\ \A n \in Networks :
        /\ counter[n][today] = Cardinality(ChargedOn(n, today))
        /\ counter[n][today] <= DailyLimit
  BY DEF LimitsInv, AllowanceExact, ChargedOn, TurnInv, TypeOK, StoreTypeOK
<1>6. CASE UNCHANGED today
           /\ \A n \in Networks, d \in Days : d >= today => counter'[n][d] = counter[n][d]
  <2>1. AllowanceExact'
    <3>1. \A n \in Networks : /\ counter'[n][today] = Cardinality(ChargedOn(n, today)')
                              /\ counter'[n][today] <= DailyLimit
      BY <1>2, <1>5, <1>6
    <3>2. QED
      BY <1>6, <3>1 DEF AllowanceExact, ChargedOn
  <2>2. FutureUncounted'
    BY <1>1, <1>5, <1>6 DEF LimitsInv, FutureUncounted
  <2>3. QED
    BY <1>3, <2>1, <2>2
<1>7. CASE NextDay
  <2>1. today' = today + 1 /\ today' \in Days /\ UNCHANGED counter
    BY <1>5, <1>7 DEF NextDay
  <2>2. \A n \in Networks : counter[n][today'] = 0
    BY <1>5, <2>1 DEF LimitsInv, FutureUncounted
  <2>3. \A n : {a \in CallsFrom(n)' : row'[a].day = today'} = {}
    <3>1. \A a \in Accepted : row[a].day # today'
      <4> SUFFICES ASSUME NEW a \in Accepted PROVE row[a].day # today + 1
        BY <2>1
      <4>1. row[a] \in Row
        BY DEF LimitsInv, TurnInv, RowsAgree, Accepted
      <4>2. row[a].day \in Int /\ row[a].day <= today
        BY <4>1 DEF LimitsInv, FutureUncounted, Row
      <4>3. QED
        BY <1>5, <4>2
    <3>2. QED
      BY <1>1, <1>2, <3>1 DEF CallsFrom
  <2>4. AllowanceExact'
    <3> SUFFICES ASSUME NEW n \in Networks
                 PROVE  /\ counter'[n][today'] =
                             Cardinality({a \in CallsFrom(n)' : row'[a].day = today'})
                        /\ counter'[n][today'] <= DailyLimit
      BY DEF AllowanceExact
    <3>1. Cardinality({a \in CallsFrom(n)' : row'[a].day = today'}) = 0
      BY <2>3, FS_EmptySet
    <3>2. counter'[n][today'] = 0
      BY <2>1, <2>2
    <3>3. QED
      BY <3>1, <3>2
  <2>5. FutureUncounted'
    <3>1. \A a \in Accepted : row[a].day <= today'
      <4> SUFFICES ASSUME NEW a \in Accepted PROVE row[a].day <= today + 1
        BY <2>1
      <4>1. row[a] \in Row
        BY DEF LimitsInv, TurnInv, RowsAgree, Accepted
      <4>2. row[a].day \in Int /\ row[a].day <= today
        BY <4>1 DEF LimitsInv, FutureUncounted, Row
      <4>3. QED
        BY <1>5, <4>2
    <3>2. QED
      BY <1>1, <1>5, <2>1, <3>1 DEF LimitsInv, FutureUncounted
  <2>6. QED
    BY <1>3, <2>4, <2>5
<1>8. CountersSame => <1>6!1
  BY DEF CountersSame
<1>9. PruneDailyCounters /\ today' = today => <1>6!1
  BY <1>5 DEF PruneDailyCounters
<1>10. QED
  BY <1>6, <1>7, <1>8, <1>9, OnCounters

\* An acceptance takes one place under the limit, and finds one because its
\* network's expired calls are interrupted in the same transaction; it is
\* charged once, to the day on which it happens.
LEMMA AcceptNewLimits ==
    ASSUME LimitsInv, NEW s \in Senders, AcceptNew(s)
    PROVE  NetworkCap' /\ FutureUncounted' /\ AllowanceExact'
<1> DEFINE m == request[s]
<1>1. m \in Request /\ m.net \in Networks
  BY DEF AcceptNew, LimitsInv, TurnInv, TypeOK, Request
<1>2. PICK a \in Attempts : AcceptRow(m, a)
  BY DEF AcceptNew
<1>3. /\ Accepted' = Accepted \cup {a}
      /\ a \notin Accepted
      /\ ActiveTurns' = (ActiveTurns \ ExpiredAround(m)) \cup {a}
      /\ \A b \in Accepted : row'[b] = row[b]
  BY <1>1, <1>2, AcceptedTurn DEF LimitsInv, TurnInv
<1>4. /\ row'[a].net = m.net /\ row'[a].day = today
      /\ counter' = [counter EXCEPT ![m.net][today] = @ + 1]
      /\ UNCHANGED today
  BY <1>2 DEF AcceptRow, LimitsInv, TurnInv, TypeOK, StoreTypeOK
<1>5. /\ today \in Days
      /\ counter \in [Networks -> [Days -> Nat]]
      /\ \A n \in Networks : /\ counter[n][today] = Cardinality(ChargedOn(n, today))
                             /\ counter[n][today] <= DailyLimit
  BY DEF LimitsInv, AllowanceExact, ChargedOn, TurnInv, TypeOK, StoreTypeOK
<1>6. /\ \A n \in Networks, d \in Days : n # m.net \/ d # today =>
                                           counter'[n][d] = counter[n][d]
      /\ counter'[m.net][today] = counter[m.net][today] + 1
  BY <1>1, <1>4, <1>5
<1>7. \A n : CallsFrom(n)' = IF n = m.net THEN CallsFrom(n) \cup {a} ELSE CallsFrom(n)
  BY <1>3, <1>4 DEF CallsFrom
<1>8. \A n : a \notin CallsFrom(n) /\ CallsFrom(n) \subseteq Accepted
  BY <1>3 DEF CallsFrom
<1>9. NetworkCap'
  <2> SUFFICES ASSUME NEW n \in Networks
               PROVE  Cardinality(CallsFrom(n)' \cap ActiveTurns') <= ConcurrencyLimit
    BY DEF NetworkCap
  <2> DEFINE before == CallsFrom(n) \cap ActiveTurns
             kept   == CallsFrom(n) \cap Unexpired
             after  == CallsFrom(n)' \cap ActiveTurns'
  <2>1. CASE n = m.net
    <3>1. after = kept \cup {a} /\ a \notin kept
      BY <1>3, <1>7, <1>8, <2>1 DEF ExpiredAround, Expired, Unexpired
    <3>2. IsFiniteSet(kept) /\ Cardinality(kept) \in Nat
      BY CallsFinite DEF LimitsInv
    <3>3. Cardinality(kept) < ConcurrencyLimit
      BY <2>1 DEF AcceptNew, UnderCap
    <3>4. Cardinality(after) = Cardinality(kept) + 1
      BY <3>1, <3>2, FS_AddElement
    <3>5. QED
      BY <3>2, <3>3, <3>4
  <2>2. CASE n # m.net
    <3>1. after \in SUBSET before /\ before \in SUBSET CallsFrom(n)
      BY <1>3, <1>7, <1>8, <2>2
    <3>2. /\ Cardinality(after) <= Cardinality(before)
          /\ Cardinality(after) \in Nat /\ Cardinality(before) \in Nat
      BY <3>1, CallsFinite DEF LimitsInv
    <3>3. Cardinality(before) <= ConcurrencyLimit
      BY DEF LimitsInv, NetworkCap
    <3>4. QED
      BY <3>2, <3>3
  <2>3. QED
    BY <2>1, <2>2
<1>10. AllowanceExact'
  <2> SUFFICES ASSUME NEW n \in Networks
               PROVE  /\ counter'[n][today'] =
                           Cardinality({b \in CallsFrom(n)' : row'[b].day = today'})
                      /\ counter'[n][today'] <= DailyLimit
    BY DEF AllowanceExact
  <2> DEFINE after == {b \in CallsFrom(n)' : row'[b].day = today'}
  <2>1. CASE n = m.net
    <3>1. after = ChargedOn(n, today) \cup {a} /\ a \notin ChargedOn(n, today)
      BY <1>3, <1>4, <1>7, <1>8, <2>1 DEF ChargedOn
    <3>2. ChargedOn(n, today) \in SUBSET CallsFrom(n)
      BY DEF ChargedOn
    <3>3. IsFiniteSet(ChargedOn(n, today))
      BY <3>2, CallsFinite DEF LimitsInv
    <3>4. Cardinality(after) = Cardinality(ChargedOn(n, today)) + 1
      BY <3>1, <3>3, FS_AddElement
    <3>5. counter[n][today] < DailyLimit /\ counter[n][today] \in Nat
      BY <1>5, <2>1 DEF AcceptNew, UnderAllowance
    <3>6. QED
      BY <1>4, <1>5, <1>6, <2>1, <3>4, <3>5
  <2>2. CASE n # m.net
    <3>1. after = ChargedOn(n, today)
      BY <1>3, <1>4, <1>7, <1>8, <2>2 DEF ChargedOn
    <3>2. QED
      BY <1>4, <1>5, <1>6, <2>2, <3>1
  <2>3. QED
    BY <2>1, <2>2
<1>11. FutureUncounted'
  <2>1. \A b \in Accepted' : row'[b].day <= today'
    BY <1>3, <1>4, <1>5, SMTT(30) DEF LimitsInv, FutureUncounted
  <2>2. ASSUME NEW n \in Networks, NEW d \in Days, d > today' PROVE counter'[n][d] = 0
    <3>1. today \in Int /\ d \in Int /\ d > today
      BY <1>4, <1>5, <2>2
    <3>2. counter'[n][d] = counter[n][d]
      BY <1>6, <3>1
    <3>3. QED
      BY <3>1, <3>2 DEF LimitsInv, FutureUncounted
  <2>3. QED
    BY <2>1, <2>2 DEF FutureUncounted
<1>12. QED
  BY <1>9, <1>10, <1>11

\* LimitsInv holds throughout.
LEMMA LimitsInvariant == Spec => []LimitsInv
<1>1. Init => LimitsInv
  <2> SUFFICES ASSUME Init PROVE LimitsInv
    OBVIOUS
  <2>1. Accepted = {}
    BY DEF Init, StoreInit, Accepted
  <2>2. \A n : CallsFrom(n) = {}
    BY <2>1 DEF CallsFrom
  <2>3. NetworkCap
    <3>1. \A n : Cardinality(CallsFrom(n) \cap ActiveTurns) = 0
      BY <2>2, FS_EmptySet
    <3>2. QED
      BY <3>1 DEF NetworkCap
  <2>4. FutureUncounted
    BY <2>1 DEF Init, StoreInit, FutureUncounted
  <2>5. AllowanceExact
    <3> SUFFICES ASSUME NEW n \in Networks
                 PROVE  /\ counter[n][today] =
                             Cardinality({a \in CallsFrom(n) : row[a].day = today})
                        /\ counter[n][today] <= DailyLimit
      BY DEF AllowanceExact
    <3>1. {a \in CallsFrom(n) : row[a].day = today} = {}
      BY <2>2
    <3>2. Cardinality({a \in CallsFrom(n) : row[a].day = today}) = 0
      BY <3>1, FS_EmptySet
    <3>3. counter[n][today] = 0
      BY DEF Init, StoreInit
    <3>4. QED
      BY <3>2, <3>3
  <2>6. QED
    BY <2>1, <2>3, <2>4, <2>5, TurnInit, FS_EmptySet DEF LimitsInv
<1>2. LimitsInv /\ [Next]_vars => LimitsInv'
  <2> SUFFICES ASSUME LimitsInv, [Next]_vars PROVE LimitsInv'
    OBVIOUS
  <2>1. TurnInv' /\ IsFiniteSet(Accepted')
    BY TurnStep, AcceptedGrows DEF LimitsInv
  <2>2. NetworkCap' /\ FutureUncounted' /\ AllowanceExact'
    BY AcceptNewLimits, NothingAcceptedInv
  <2>3. QED
    BY <2>1, <2>2 DEF LimitsInv
<1>3. QED
  BY <1>1, <1>2, PTL DEF Spec

\* A network never has more generations in progress than the limit, whatever
\* conversations they belong to and whichever of them were lost.
THEOREM CapHolds == Spec => []NetworkCap
<1>1. LimitsInv => NetworkCap
  BY DEF LimitsInv
<1>2. QED
  BY <1>1, LimitsInvariant, PTL

\* Today's counter of a network is the number of attempts accepted from it
\* today, whatever was refused, repeated, retried or pruned, and it stays
\* within the allowance.
THEOREM AllowanceIsExact == Spec => []AllowanceExact
<1>1. LimitsInv => AllowanceExact
  BY DEF LimitsInv
<1>2. QED
  BY <1>1, LimitsInvariant, PTL

-----------------------------------------------------------------------------
(* Requests are idempotent.                                                *)

\* An answer speaks of an accepted attempt whose row is the request's, and of
\* its outcome only if that is final.
AnswersHold == \A x \in answers :
    LET a == x.attempt IN
    /\ a \in Accepted
    /\ row[a].conv = x.conv /\ row[a].req = x.req /\ row[a].text = x.text
    /\ x.outcome # "null" => status[a] = x.outcome

OneTurnPerRequest == \A a, b \in Accepted :
    row[a].conv = row[b].conv /\ row[a].req = row[b].req => a = b

RequestInv == TurnInv /\ AnswersHold /\ OneTurnPerRequest

\* Only the two answers a sender gives itself are "accepted" events.
LEMMA OnlySendersAnswer ==
    ASSUME [Next]_vars, \A s \in Senders : ~AcceptNew(s) /\ ~AcceptDuplicate(s)
    PROVE  UNCHANGED answers
<1>1. ASSUME NEW s \in Senders, Send(s) PROVE UNCHANGED answers
  BY <1>1 DEF Send, SendBegin, SendLookup, ReadRevision, ReadMessages, SendFails,
       AcceptStale, AcceptRefused, Admission
<1>2. ASSUME NEW a \in Attempts, Run(a) PROVE UNCHANGED answers
  BY <1>2 DEF Run, MarkRunning, Register, PrepareFails, Attribute, ProviderText,
       ProviderBlocked, ProviderEnds, ProviderFails, Flush, FlushReads, FlushLands,
       FlushFails, DrainFlush, DrainDone, Finalize, RecordOwnUsage, RunnerDies
<1>3. ASSUME NEW a \in Attempts, Poll(a) \/ LeaseLapses(a) PROVE UNCHANGED answers
  BY <1>3 DEF Poll, LeaseLapses, procVars
<1>4. ASSUME NEW c \in Conversations, Cancel(c) PROVE UNCHANGED answers
  BY <1>4 DEF Cancel
<1>5. ASSUME NEW w \in Recoverers, RecoverUsage(w) PROVE UNCHANGED answers
  BY <1>5 DEF RecoverUsage
<1>6. ASSUME NEW w \in Workers, NEW a \in Attempts, JobStep(w, a) \/ JobThrows(w, a)
      PROVE  UNCHANGED answers
  BY <1>6 DEF JobStep, StageCandidate, RecordUsage, MarkRecorded, JobThrows
<1>7. RecoverExpired \/ Administer \/ DayPasses \/ UNCHANGED vars => UNCHANGED answers
  BY DEF RecoverExpired, Administer, DayPasses, vars, procVars
<1>8. QED
  BY <1>1, <1>2, <1>3, <1>4, <1>5, <1>6, <1>7 DEF Next

\* What has ended keeps its status.
LEMMA EndedStatus ==
    ASSUME TypeOK, [Next]_vars
    PROVE  \A a \in Attempts : status[a] \in Terminal => status'[a] = status[a]
<1>1. CASE Next
  BY <1>1, EndedKept DEF Kept
<1>2. CASE UNCHANGED vars
  BY <1>2 DEF vars
<1>3. QED
  BY <1>1, <1>2

\* The answers given before stay true as long as their rows do.
LEMMA OldAnswersHold ==
    ASSUME RequestInv, [Next]_vars, Accepted \subseteq Accepted',
           \A a \in Accepted : row'[a] = row[a], NEW x \in answers
    PROVE  /\ x.attempt \in Accepted'
           /\ row'[x.attempt].conv = x.conv /\ row'[x.attempt].req = x.req
           /\ row'[x.attempt].text = x.text
           /\ x.outcome # "null" => status'[x.attempt] = x.outcome
<1>1. x.outcome \in Terminal \cup {"null"} /\ x.attempt \in Attempts
  BY DEF RequestInv, TurnInv, TypeOK, Answer
<1>2. x.outcome # "null" => status'[x.attempt] = x.outcome
  BY <1>1, EndedStatus DEF RequestInv, TurnInv, AnswersHold
<1>3. QED
  BY <1>2 DEF RequestInv, AnswersHold

\* RequestInv is inductive: an acceptance found no row with its request id, and
\* a repetition is answered from the row it found.
LEMMA RequestStep == RequestInv /\ [Next]_vars => RequestInv'
<1> SUFFICES ASSUME RequestInv, [Next]_vars PROVE AnswersHold' /\ OneTurnPerRequest'
  BY TurnStep DEF RequestInv
<1>1. TypeOK /\ RowsAgree
  BY DEF RequestInv, TurnInv
<1>2. ASSUME NEW s \in Senders, AcceptNew(s) PROVE AnswersHold' /\ OneTurnPerRequest'
  <2> DEFINE m == request[s]
  <2>1. m \in Request
    BY <1>1, <1>2 DEF AcceptNew, TypeOK
  <2>2. PICK a \in Attempts : AcceptRow(m, a) /\ AnswerWith(m, a, "null")
    BY <1>2 DEF AcceptNew
  <2>3. /\ Accepted' = Accepted \cup {a} /\ a \notin Accepted
        /\ \A b \in Accepted : row'[b] = row[b]
    BY <1>1, <2>1, <2>2, AcceptedTurn
  <2>4. row'[a].conv = m.conv /\ row'[a].req = m.req /\ row'[a].text = m.text
    BY <1>1, <2>2 DEF AcceptRow, TypeOK, StoreTypeOK
  <2>5. AnswersHold'
    <3> SUFFICES ASSUME NEW x \in answers'
                 PROVE  /\ x.attempt \in Accepted'
                        /\ row'[x.attempt].conv = x.conv /\ row'[x.attempt].req = x.req
                        /\ row'[x.attempt].text = x.text
                        /\ x.outcome # "null" => status'[x.attempt] = x.outcome
      BY DEF AnswersHold
    <3>1. CASE x \in answers
      BY <2>3, <3>1, OldAnswersHold
    <3>2. CASE x \notin answers
      BY <2>2, <2>3, <2>4, <3>2 DEF AnswerWith
    <3>3. QED
      BY <3>1, <3>2
  <2>6. \A b \in Accepted : row[b].conv = m.conv => row[b].req # m.req
    BY <1>2 DEF AcceptNew, Answering, TurnsOf
  <2>7. OneTurnPerRequest'
    BY <2>3, <2>4, <2>6 DEF RequestInv, OneTurnPerRequest
  <2>8. QED
    BY <2>5, <2>7
<1>3. CASE \A s \in Senders : ~AcceptNew(s)
  <2>1. Accepted' = Accepted /\ UNCHANGED row
    BY <1>1, <1>3, NothingAccepted
  <2>2. OneTurnPerRequest'
    BY <2>1 DEF RequestInv, OneTurnPerRequest
  <2>3. ASSUME NEW s \in Senders, AcceptDuplicate(s) PROVE AnswersHold'
    <3> DEFINE m == request[s]
               Outcome(a) == IF a \in ExpiredAround(m) THEN "interrupted"
                             ELSE IF status[a] \in Active THEN "null" ELSE status[a]
    <3>1. PICK a \in Answering(m) : row[a].text = m.text /\ AnswerWith(m, a, Outcome(a))
      BY <2>3 DEF AcceptDuplicate
    <3>2. /\ a \in Accepted /\ row[a].conv = m.conv /\ row[a].req = m.req
          /\ row[a].text = m.text
      BY <3>1 DEF Answering, TurnsOf
    <3>3. Outcome(a) # "null" => status'[a] = Outcome(a)
      BY <2>3, <3>2 DEF AcceptDuplicate, AcceptDuplicateRow, Interrupt, Accepted
    <3>4. answers' = answers \cup {[conv |-> m.conv, req |-> m.req, text |-> m.text,
                                    attempt |-> a, outcome |-> Outcome(a)]}
      BY <3>1 DEF AnswerWith
    <3> HIDE DEF Outcome
    <3> SUFFICES ASSUME NEW x \in answers'
                 PROVE  /\ x.attempt \in Accepted'
                        /\ row'[x.attempt].conv = x.conv /\ row'[x.attempt].req = x.req
                        /\ row'[x.attempt].text = x.text
                        /\ x.outcome # "null" => status'[x.attempt] = x.outcome
      BY DEF AnswersHold
    <3>5. CASE x \in answers
      BY <2>1, <3>5, OldAnswersHold
    <3>6. CASE x \notin answers
      BY <2>1, <3>2, <3>3, <3>4, <3>6
    <3>7. QED
      BY <3>5, <3>6
  <2>4. CASE \A s \in Senders : ~AcceptDuplicate(s)
    <3>1. UNCHANGED answers
      BY <1>3, <2>4, OnlySendersAnswer
    <3>2. QED
      BY <2>1, <2>2, <3>1, OldAnswersHold DEF AnswersHold
  <2>5. QED
    BY <2>2, <2>3, <2>4
<1>4. QED
  BY <1>2, <1>3

\* A request id names one attempt and one text per conversation for ever, and
\* whoever repeats it is told the outcome the attempt keeps, or none.
THEOREM RequestsNameOneTurn == Spec => []RequestsAreIdempotent
<1>1. Init => RequestInv
  <2> SUFFICES ASSUME Init PROVE RequestInv
    OBVIOUS
  <2>1. answers = {} /\ Accepted = {}
    BY DEF Init, StoreInit, Accepted
  <2>2. QED
    BY <2>1, TurnInit DEF RequestInv, AnswersHold, OneTurnPerRequest
<1>2. RequestInv => RequestsAreIdempotent
  BY DEF RequestInv, AnswersHold, OneTurnPerRequest, RequestsAreIdempotent
<1>3. QED
  BY <1>1, <1>2, RequestStep, PTL DEF Spec

-----------------------------------------------------------------------------
(* Revocation.                                                             *)

\* Whatever a request read of the embed before, it is accepted only for the
\* access version that is current when it is, through an enabled embed.
THEOREM RevocationIsImmediate == Spec => RevokedAcceptsNothing
<1>1. TurnInv /\ [Next]_vars =>
        [\A a \in Attempts : status[a] = "free" /\ status'[a] # "free" =>
           ~embed.disabled /\ issued'[row'[a].conv] = embed.version]_vars
  <2> SUFFICES ASSUME TurnInv, [Next]_vars, NEW a \in Attempts,
                      status[a] = "free", status'[a] # "free"
               PROVE  ~embed.disabled /\ issued'[row'[a].conv] = embed.version
    OBVIOUS
  <2>1. TypeOK /\ RowsAgree /\ a \notin Accepted /\ a \in Accepted'
    BY DEF TurnInv, Accepted
  <2>2. PICK s \in Senders : AcceptNew(s)
    BY <2>1, NothingAccepted
  <2> DEFINE m == request[s]
  <2>3. m \in Request
    BY <2>1, <2>2 DEF AcceptNew, TypeOK
  <2>4. PICK b \in Attempts : AcceptRow(m, b)
    BY <2>2 DEF AcceptNew
  <2>5. a = b /\ row'[a].conv = m.conv
    BY <2>1, <2>3, <2>4, AcceptedTurn
  <2>6. m.conv \in Conversations /\ issued'[m.conv] = m.version
    BY <2>1, <2>3, <2>4 DEF AcceptRow, Request, TypeOK, StoreTypeOK
  <2>7. ~embed.disabled /\ embed.version = m.version
    BY <2>2 DEF AcceptNew, Admissible
  <2>8. QED
    BY <2>5, <2>6, <2>7
<1>2. QED
  BY <1>1, TurnInvariant, PTL DEF Spec, RevokedAcceptsNothing
=============================================================================
