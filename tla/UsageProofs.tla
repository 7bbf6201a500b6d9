----------------------------- MODULE UsageProofs -----------------------------
(***************************************************************************)
(* What has ended is final, its usage is recorded once and before its stream *)
(* says so, and a completed answer's text is accounted for: for every       *)
(* number of instances, recovery passes and attempts.                      *)
(*                                                                         *)
(* The argument is about one attempt at a time.  Its runner stores outcome  *)
(* and token count in one statement under a fence that only one ending can  *)
(* pass; from then on every recording job that has read them carries that   *)
(* count, whichever pass it belongs to.  The text the runner still holds    *)
(* and the text it has stored add up to what the provider produced as long  *)
(* as its outcome may become "completed".                                  *)
(***************************************************************************)
EXTENDS ConversationProofs

USE LimitsAssumption, NoneAssumption, ProcessAssumption
USE DEF Active, RunOutcome, Terminal, Days, NoTokens, Tokens, conversation, storeVars,
        Running, Recording

-----------------------------------------------------------------------------
(* The inductive invariant, attempt by attempt.                            *)

\* Outcome and staged count come together, unless the attempt was interrupted;
\* a record of an attempt that was not is the staged one.
EndingSound(a) ==
    /\ status[a] \in Active \cup {"free"} => final[a] = "null" /\ staged[a] = NoTokens
    /\ final[a] # "null" => status[a] = final[a]
    /\ status[a] \in RunOutcome => final[a] # "null" /\ staged[a] # NoTokens
    /\ usage[a] # NoTokens =>
         /\ invoked[a] /\ final[a] # "null" /\ staged[a] # NoTokens
         /\ usage[a] = staged[a] \/ final[a] = "interrupted"
    /\ recorded[a] => usage[a] # NoTokens /\ usage[a] = staged[a]

\* A job carries the staged count, unless it computed one for an interrupted
\* attempt itself; the runner's own job belongs to an outcome it has stored.
JobSound(w, a) ==
    LET j == job[w][a] IN
    j.step # "none" =>
      /\ invoked[a] /\ final[a] # "null" /\ j.tokens # NoTokens
      /\ j.step = "stage" => final[a] = "interrupted"
      /\ j.step # "stage" => staged[a] # NoTokens
      /\ final[a] # "interrupted" => j.tokens = staged[a]
      /\ j.step = "mark" => usage[a] = j.tokens
      /\ w = Finalizer => runner[a].pc = "record"

\* What is stored, in flight and buffered adds up to what was produced.
TextAddsUp(a) == stored[a] + runner[a].write + runner[a].buffered = runner[a].produced

\* No output is lost track of before the outcome is stored.
RunSound(a) ==
    LET r == runner[a] IN
    /\ status[a] = "free" => r.pc = "none"
    /\ r.pc \in {"none", "start", "marked", "prepare"} =>
         ~r.outputFailed /\ r.produced = 0 /\ TextAddsUp(a)
    /\ r.outputFailed => r.write = 0
    /\ r.pc = "invoke" /\ ~r.outputFailed => TextAddsUp(a)
    /\ r.pc = "drain" /\ ~r.outputFailed /\ r.outcome = "completed" => TextAddsUp(a)
    /\ r.pc = "finalize" /\ r.outcome = "completed" => TextAddsUp(a) /\ r.buffered = 0
    /\ r.pc = "record" => status[a] = r.outcome
    /\ status[a] \in RunOutcome => r.pc \in {"record", "gone"}
    /\ status[a] = "completed" => stored[a] + r.write = staged[a]

\* What the stream reported is stored and recorded.
ToldSound(a) ==
    told[a] \in {"completed", "cancelled", "blocked"} =>
      /\ status[a] = told[a]
      /\ invoked[a] => recorded[a] /\ usage[a] = staged[a]

AttemptSound(a) ==
    /\ EndingSound(a) /\ RunSound(a) /\ ToldSound(a)
    /\ \A w \in Workers : JobSound(w, a)

UsageInv == TypeOK /\ \A a \in Attempts : AttemptSound(a)
-----------------------------------------------------------------------------
(* Steps that concern other attempts, or interrupt this one.               *)

\* Nothing the invariant says of attempt a changes.
Same(a) ==
    /\ status'[a] = status[a] /\ final'[a] = final[a] /\ staged'[a] = staged[a]
    /\ usage'[a] = usage[a] /\ recorded'[a] = recorded[a] /\ invoked'[a] = invoked[a]
    /\ stored'[a] = stored[a] /\ told'[a] = told[a] /\ runner'[a] = runner[a]
    /\ \A w \in Workers : job'[w][a] = job[w][a]

\* An attempt nothing happens to stays sound.
LEMMA Untouched ==
    ASSUME NEW a \in Attempts, AttemptSound(a), Same(a)
    PROVE  AttemptSound(a)'
<1>1. EndingSound(a)'
  BY DEF AttemptSound, Same, EndingSound
<1>2. RunSound(a)'
  BY DEF AttemptSound, Same, RunSound, TextAddsUp
<1>3. ToldSound(a)'
  BY DEF AttemptSound, Same, ToldSound
<1>4. \A w \in Workers : JobSound(w, a)'
  BY DEF AttemptSound, Same, JobSound
<1>5. QED
  BY <1>1, <1>2, <1>3, <1>4 DEF AttemptSound

\* An active attempt may be interrupted at any point: nothing of it has been
\* staged, recorded or reported.
LEMMA Interrupted ==
    ASSUME TypeOK, NEW a \in Attempts, AttemptSound(a), status[a] \in Active,
           status'[a] = "interrupted",
           final'[a] = IF invoked[a] THEN "interrupted" ELSE final[a],
           runner'[a] = runner[a],
           UNCHANGED <<staged, usage, recorded, invoked, stored, told, job>>
    PROVE  AttemptSound(a)'
<1>1. final[a] = "null" /\ staged[a] = NoTokens /\ usage[a] = NoTokens /\ ~recorded[a]
  BY DEF AttemptSound, EndingSound
<1>2. EndingSound(a)'
  BY <1>1 DEF EndingSound
<1>3. runner[a].outcome \in RunOutcome
  BY DEF TypeOK, Runner
<1>4. RunSound(a)'
  BY <1>3 DEF AttemptSound, RunSound, TextAddsUp
<1>5. ToldSound(a)'
  BY DEF AttemptSound, ToldSound
<1>6. \A w \in Workers : JobSound(w, a)'
  BY <1>1 DEF AttemptSound, JobSound
<1>7. QED
  BY <1>2, <1>4, <1>5, <1>6 DEF AttemptSound

\* Interrupting some active attempts keeps every attempt sound.
LEMMA InterruptSound ==
    ASSUME UsageInv, NEW S \in SUBSET ActiveTurns, Interrupt(S),
           UNCHANGED <<staged, usage, recorded, invoked, stored, told, runner, job>>
    PROVE  \A a \in Attempts : AttemptSound(a)'
<1> SUFFICES ASSUME NEW a \in Attempts PROVE AttemptSound(a)'
  OBVIOUS
<1>1. TypeOK /\ AttemptSound(a)
  BY DEF UsageInv
<1>2. CASE a \in S
  <2>1. status[a] \in Active
    BY <1>2 DEF ActiveTurns
  <2>2. /\ status'[a] = "interrupted"
        /\ final'[a] = IF invoked[a] THEN "interrupted" ELSE final[a]
    BY <1>2 DEF Interrupt
  <2>3. QED
    BY <1>1, <2>1, <2>2, Interrupted
<1>3. CASE a \notin S
  <2>1. Same(a)
    BY <1>3 DEF Interrupt, Same
  <2>2. QED
    BY <1>1, <2>1, Untouched
<1>4. QED
  BY <1>2, <1>3

-----------------------------------------------------------------------------
(* Senders.                                                                *)

\* Admission starts attempts and interrupts expired ones, and that is all.
LEMMA SendSound ==
    ASSUME UsageInv, NEW s \in Senders, Send(s)
    PROVE  \A a \in Attempts : AttemptSound(a)'
<1> DEFINE m == request[s]
<1> USE DEF Admission
<1>1. CASE SendBegin(s) \/ SendLookup(s) \/ ReadRevision(s) \/ ReadMessages(s)
           \/ SendFails(s) \/ AcceptStale(s) \/ AcceptRefused(s)
  <2>1. \A a \in Attempts : Same(a)
    BY <1>1 DEF SendBegin, SendLookup, ReadRevision, ReadMessages, SendFails,
         AcceptStale, AcceptRefused, Same
  <2>2. QED
    BY <2>1, Untouched DEF UsageInv
<1>2. CASE AcceptDuplicate(s)
  <2>1. ExpiredAround(m) \in SUBSET ActiveTurns
    BY DEF ExpiredAround, Expired
  <2>2. QED
    BY <1>2, <2>1, InterruptSound DEF AcceptDuplicate, AcceptDuplicateRow
<1>3. CASE AcceptNew(s)
  <2>1. PICK a \in Attempts : AcceptRow(m, a) /\ runner' = [runner EXCEPT ![a] = RunAt("start")]
    BY <1>3 DEF AcceptNew
  <2> SUFFICES ASSUME NEW b \in Attempts PROVE AttemptSound(b)'
    OBVIOUS
  <2>2. TypeOK /\ AttemptSound(b)
    BY DEF UsageInv
  <2>3. UNCHANGED <<staged, usage, recorded, invoked, stored, told, job>>
    BY <1>3, <2>1 DEF AcceptNew, AcceptRow
  <2>4. CASE b = a
    <3>1. /\ status[a] = "free" /\ status'[a] = "accepted"
          /\ final'[a] = final[a]
      BY <2>1 DEF AcceptRow, ExpiredAround, Expired, ActiveTurns
    <3>2. runner'[a] = RunAt("start")
      BY <2>1, <2>2 DEF TypeOK
    <3>3. final[a] = "null" /\ staged[a] = NoTokens /\ usage[a] = NoTokens /\ ~recorded[a]
      BY <2>2, <2>4, <3>1 DEF AttemptSound, EndingSound
    <3>4. EndingSound(a)'
      BY <2>3, <3>1, <3>3 DEF EndingSound
    <3>5. stored[a] = 0
      <4>1. runner[a].pc = "none" /\ runner[a].produced = 0 /\ TextAddsUp(a)
        BY <2>2, <2>4, <3>1 DEF AttemptSound, RunSound
      <4>2. stored[a] \in Nat /\ runner[a].write \in Nat /\ runner[a].buffered \in Nat
        BY <2>2 DEF TypeOK, StoreTypeOK, Runner
      <4>3. \A x, y, z \in Nat : x + y + z = 0 => x = 0
        OBVIOUS
      <4>4. QED
        BY <4>1, <4>2, <4>3 DEF TextAddsUp
    <3>6. RunSound(a)'
      BY <2>3, <3>1, <3>2, <3>5 DEF RunSound, TextAddsUp, RunAt
    <3>7. ToldSound(a)'
      BY <2>2, <2>3, <2>4, <3>1 DEF AttemptSound, ToldSound
    <3>8. \A w \in Workers : JobSound(w, a)'
      BY <2>2, <2>3, <2>4, <3>1, <3>3 DEF AttemptSound, JobSound
    <3>9. QED
      BY <2>4, <3>4, <3>6, <3>7, <3>8 DEF AttemptSound
  <2>5. CASE b # a
    <3>1. runner'[b] = runner[b]
      BY <2>1, <2>2, <2>5 DEF TypeOK
    <3>2. CASE b \in ExpiredAround(m)
      <4>1. /\ status[b] \in Active /\ status'[b] = "interrupted"
            /\ final'[b] = IF invoked[b] THEN "interrupted" ELSE final[b]
        BY <2>1, <2>5, <3>2 DEF AcceptRow, ExpiredAround, Expired, ActiveTurns
      <4>2. QED
        BY <2>2, <2>3, <3>1, <4>1, Interrupted
    <3>3. CASE b \notin ExpiredAround(m)
      <4>1. Same(b)
        BY <2>1, <2>3, <2>5, <3>1, <3>3 DEF AcceptRow, Same
      <4>2. QED
        BY <2>2, <4>1, Untouched
    <3>4. QED
      BY <3>2, <3>3
  <2>6. QED
    BY <2>4, <2>5
<1>4. QED
  BY <1>1, <1>2, <1>3 DEF Send

-----------------------------------------------------------------------------
(* Runners.                                                                *)

\* What one runner does concerns its own attempt only.
LEMMA RunFrame ==
    ASSUME TypeOK, NEW a \in Attempts, NEW b \in Attempts \ {a}, Run(a)
    PROVE  Same(b)
<1> USE DEF TypeOK, StoreTypeOK, Same
<1>1. CASE MarkRunning(a)
  BY <1>1 DEF MarkRunning, MarkRunningRow, Step, Leave
<1>2. CASE Register(a) \/ PrepareFails(a) \/ ProviderEnds(a) \/ ProviderFails(a)
  BY <1>2 DEF Register, PrepareFails, ProviderEnds, ProviderFails, Step, Drain
<1>3. CASE Attribute(a)
  BY <1>3 DEF Attribute, MarkInvoked, Step, Drain, Leave
<1>4. CASE ProviderText(a) \/ ProviderBlocked(a) \/ Flush(a) \/ FlushReads(a)
           \/ DrainFlush(a) \/ DrainDone(a)
  BY <1>4, ZenonT(40)
     DEF ProviderText, ProviderBlocked, Flush, FlushReads, DrainFlush, DrainDone
<1>5. CASE FlushLands(a)
  BY <1>5 DEF FlushLands, AppendOutput
<1>6. CASE FlushFails(a)
  BY <1>6 DEF FlushFails, AppendOutput
<1>7. CASE Finalize(a)
  BY <1>7 DEF Finalize, StageFinalization, Step, Leave
<1>8. CASE RecordOwnUsage(a)
  BY <1>8 DEF RecordOwnUsage, Leave
<1>9. CASE RunnerDies(a)
  BY <1>9 DEF RunnerDies, Leave
<1>10. QED
  BY <1>1, <1>2, <1>3, <1>4, <1>5, <1>6, <1>7, <1>8, <1>9 DEF Run

\* A runner that goes on, touching no more of its attempt's row than the text,
\* needs its own account of the output only.
LEMMA OutputSound ==
    ASSUME NEW a \in Attempts, AttemptSound(a), RunSound(a)',
           status'[a] = status[a], final'[a] = final[a], staged'[a] = staged[a],
           usage'[a] = usage[a], recorded'[a] = recorded[a], invoked'[a] = invoked[a],
           told'[a] = told[a], job' = job,
           runner[a].pc = "record" => runner'[a].pc = "record"
    PROVE  AttemptSound(a)'
<1>1. EndingSound(a)'
  BY DEF AttemptSound, EndingSound
<1>2. ToldSound(a)'
  BY DEF AttemptSound, ToldSound
<1>3. \A w \in Workers : JobSound(w, a)'
  BY DEF AttemptSound, JobSound
<1>4. QED
  BY <1>1, <1>2, <1>3 DEF AttemptSound

\* A runner may leave at any point, with an error or without a word, if its own
\* recording job goes with it; what it left in flight is still accounted for.
LEMMA LeaveSound ==
    ASSUME TypeOK, NEW a \in Attempts, AttemptSound(a), runner[a].pc # "none",
           NEW e \in RunOutcome \cup {"null"}, Leave(a, e),
           e \in {"completed", "cancelled", "blocked"} =>
             status[a] = e /\ (invoked[a] => recorded[a]),
           status'[a] = status[a], final'[a] = final[a], staged'[a] = staged[a],
           usage'[a] = usage[a], recorded'[a] = recorded[a], invoked'[a] = invoked[a],
           stored'[a] = stored[a],
           \A w \in Workers : job'[w][a] = job[w][a] \/ job'[w][a].step = "none",
           job'[Finalizer][a].step = "none"
    PROVE  AttemptSound(a)'
<1>1. EndingSound(a)'
  BY DEF AttemptSound, EndingSound
<1>2. /\ runner'[a] = [RunAt("gone") EXCEPT !.write = runner[a].write,
                                            !.seen = runner[a].seen]
      /\ told'[a] = e
  BY DEF Leave, TypeOK
<1>3. /\ runner'[a].pc = "gone" /\ ~runner'[a].outputFailed
      /\ runner'[a].write = runner[a].write
  BY <1>2 DEF RunAt
<1>4. RunSound(a)'
  BY <1>3 DEF AttemptSound, RunSound
<1>5. ToldSound(a)'
  BY <1>2 DEF AttemptSound, ToldSound, EndingSound
<1>6. \A w \in Workers : JobSound(w, a)'
  BY DEF AttemptSound, JobSound
<1>7. QED
  BY <1>1, <1>4, <1>5, <1>6 DEF AttemptSound

\* The steps from the start of run() to the provider call.
LEMMA PrepareSound ==
    ASSUME TypeOK, NEW a \in Attempts, AttemptSound(a),
           MarkRunning(a) \/ Register(a) \/ PrepareFails(a) \/ Attribute(a)
    PROVE  AttemptSound(a)'
<1> DEFINE r == runner[a]
<1>1. /\ r \in Runner /\ r.outcome \in RunOutcome
      /\ \A o \in RunOutcome : AbortedOr(a, o) \in RunOutcome
  BY DEF TypeOK, Runner, AbortedOr
<1>2. job[Finalizer][a].step = "none" \/ r.pc = "record"
  BY DEF AttemptSound, JobSound, Workers
<1>3. ASSUME Leave(a, "null"), UNCHANGED <<storeVars, job>>, r.pc \in {"start", "prepare"}
      PROVE  AttemptSound(a)'
  BY <1>2, <1>3, LeaveSound
<1>4. CASE MarkRunning(a)
  <2>1. CASE MarkRunningRow(a) /\ Step(a, "marked")
    <3>1. /\ r.pc = "start" /\ runner'[a] = [r EXCEPT !.pc = "marked"]
          /\ status[a] = "accepted" /\ status'[a] = "running"
          /\ UNCHANGED <<final, staged, usage, recorded, invoked, stored, told, job>>
      BY <1>4, <2>1 DEF MarkRunning, MarkRunningRow, Step, TypeOK, StoreTypeOK
    <3>2. EndingSound(a)'
      BY <3>1 DEF AttemptSound, EndingSound
    <3>3. RunSound(a)'
      BY <1>1, <3>1 DEF AttemptSound, RunSound, TextAddsUp, Runner
    <3>4. ToldSound(a)'
      BY <3>1 DEF AttemptSound, ToldSound
    <3>5. \A w \in Workers : JobSound(w, a)'
      BY <3>1 DEF AttemptSound, JobSound, EndingSound
    <3>6. QED
      BY <3>2, <3>3, <3>4, <3>5 DEF AttemptSound
  <2>2. CASE Leave(a, "null") /\ UNCHANGED storeVars
    BY <1>3, <1>4, <2>2 DEF MarkRunning
  <2>3. QED
    BY <1>4, <2>1, <2>2 DEF MarkRunning
<1>5. CASE Register(a)
  <2>1. r.pc = "marked" /\ runner'[a] = [r EXCEPT !.pc = "prepare"]
    BY <1>5 DEF Register, Step, TypeOK
  <2>2. RunSound(a)'
    BY <1>1, <1>5, <2>1 DEF Register, AttemptSound, RunSound, TextAddsUp, Runner
  <2>3. QED
    BY <1>5, <2>1, <2>2, OutputSound DEF Register, Step
<1>6. CASE PrepareFails(a)
  <2> DEFINE o == AbortedOr(a, "failed")
  <2>1. /\ r.pc = "prepare" /\ o # "completed"
        /\ runner'[a] = [r EXCEPT !.pc = "drain", !.outcome = o]
    BY <1>6 DEF PrepareFails, Drain, TypeOK, AbortedOr
  <2> HIDE DEF o
  <2>2. RunSound(a)'
    BY <1>1, <1>6, <2>1 DEF PrepareFails, AttemptSound, RunSound, TextAddsUp, Runner
  <2>3. QED
    BY <1>6, <2>1, <2>2, OutputSound DEF PrepareFails, Drain
<1>7. CASE Attribute(a)
  <2>1. CASE MarkInvoked(a) /\ (Step(a, "invoke") \/ Drain(a, "failed"))
    <3>1. /\ r.pc = "prepare" /\ status[a] = "running"
          /\ invoked'[a] = TRUE
          /\ UNCHANGED <<status, final, staged, usage, recorded, stored, told, job>>
      BY <1>7, <2>1 DEF Attribute, MarkInvoked, OwnsRunning, Step, Drain, TypeOK, StoreTypeOK
    <3>2. \/ runner'[a] = [r EXCEPT !.pc = "invoke"]
          \/ runner'[a] = [r EXCEPT !.pc = "drain", !.outcome = "failed"]
      BY <2>1 DEF Step, Drain, TypeOK
    <3>3. EndingSound(a)'
      BY <3>1 DEF AttemptSound, EndingSound
    <3>4. RunSound(a)'
      BY <1>1, <3>1, <3>2 DEF AttemptSound, RunSound, TextAddsUp, Runner
    <3>5. ToldSound(a)'
      BY <3>1 DEF AttemptSound, ToldSound
    <3>6. \A w \in Workers : JobSound(w, a)'
      BY <3>1 DEF AttemptSound, JobSound, EndingSound
    <3>7. QED
      BY <3>3, <3>4, <3>5, <3>6 DEF AttemptSound
  <2>2. CASE Leave(a, "null") /\ UNCHANGED storeVars
    BY <1>3, <1>7, <2>2 DEF Attribute
  <2>3. QED
    BY <1>7, <2>1, <2>2 DEF Attribute
<1>8. QED
  BY <1>4, <1>5, <1>6, <1>7

\* While the provider answers, every piece of text is queued, in flight or
\* stored, until the output is given up.
LEMMA StreamSound ==
    ASSUME TypeOK, NEW a \in Attempts, AttemptSound(a),
           \/ ProviderText(a) \/ ProviderBlocked(a) \/ ProviderEnds(a) \/ ProviderFails(a)
           \/ Flush(a) \/ FlushReads(a)
    PROVE  AttemptSound(a)'
<1> DEFINE r == runner[a]
<1>1. /\ r \in Runner /\ r.produced \in Nat /\ r.buffered \in Nat /\ r.write \in Nat
      /\ stored[a] \in Nat
  BY LimitsAssumption DEF TypeOK, StoreTypeOK, Runner
<1>2. CASE ProviderText(a)
  <2> DEFINE q == IF r.outputFailed THEN r.buffered ELSE r.buffered + 1
  <2>1. r.pc = "invoke" /\ runner'[a] = [r EXCEPT !.produced = r.produced + 1, !.buffered = q]
    BY <1>2 DEF ProviderText, TypeOK
  <2>2. /\ runner'[a].pc = "invoke" /\ runner'[a].outputFailed = r.outputFailed
        /\ runner'[a].write = r.write /\ runner'[a].produced = r.produced + 1
        /\ ~r.outputFailed => runner'[a].buffered = r.buffered + 1
    BY <1>1, <2>1 DEF Runner
  <2>3. ~r.outputFailed => TextAddsUp(a)'
    BY <1>1, <1>2, <2>1, <2>2 DEF ProviderText, storeVars, AttemptSound, RunSound, TextAddsUp
  <2>4. RunSound(a)'
    BY <1>2, <2>1, <2>2, <2>3 DEF ProviderText, AttemptSound, RunSound
  <2>5. QED
    BY <1>2, <2>1, <2>4, OutputSound DEF ProviderText
<1>3. CASE ProviderBlocked(a)
  <2>1. r.pc = "invoke" /\ runner'[a] =
          [r EXCEPT !.produced = r.produced + 1, !.aborted = TRUE, !.outcome = "blocked",
                    !.pc = "drain"]
    BY <1>3 DEF ProviderBlocked, TypeOK
  <2>2. /\ runner'[a].pc = "drain" /\ runner'[a].outcome = "blocked"
        /\ runner'[a].write = r.write /\ runner'[a].outputFailed = r.outputFailed
    BY <1>1, <2>1 DEF Runner
  <2>3. RunSound(a)'
    BY <1>3, <2>1, <2>2 DEF ProviderBlocked, AttemptSound, RunSound
  <2>4. QED
    BY <1>3, <2>1, <2>3, OutputSound DEF ProviderBlocked
<1>4. CASE ProviderEnds(a) \/ ProviderFails(a)
  <2>1. PICK o \in {AbortedOr(a, "completed"), AbortedOr(a, "failed")} :
          r.pc = "invoke" /\ runner'[a] = [r EXCEPT !.pc = "drain", !.outcome = o]
    BY <1>4 DEF ProviderEnds, ProviderFails, Drain, TypeOK
  <2>2. RunSound(a)'
    BY <1>1, <1>4, <2>1 DEF ProviderEnds, ProviderFails, AttemptSound, RunSound, TextAddsUp,
         Runner
  <2>3. QED
    BY <1>4, <2>1, <2>2, OutputSound DEF ProviderEnds, ProviderFails, Drain
<1>5. CASE Flush(a)
  <2>1. PICK k \in 1..r.buffered :
          runner'[a] = [r EXCEPT !.buffered = r.buffered - k, !.write = k]
    BY <1>5 DEF Flush, TypeOK
  <2>2. /\ r.pc = "invoke" /\ ~r.outputFailed /\ r.write = 0
        /\ runner'[a].pc = "invoke" /\ ~runner'[a].outputFailed
        /\ runner'[a].write = k /\ runner'[a].buffered = r.buffered - k
        /\ runner'[a].produced = r.produced
    BY <1>1, <1>5, <2>1 DEF Flush, Runner
  <2>3. TextAddsUp(a)'
    <3>1. stored[a] + 0 + r.buffered = r.produced /\ k \in Nat
      BY <1>1, <2>2 DEF AttemptSound, RunSound, TextAddsUp
    <3>2. stored[a] + k + (r.buffered - k) = r.produced
      BY <1>1, <3>1
    <3>3. QED
      BY <1>5, <2>2, <3>2 DEF Flush, TextAddsUp
  <2>4. RunSound(a)'
    BY <1>5, <2>2, <2>3 DEF Flush, AttemptSound, RunSound
  <2>5. QED
    BY <1>5, <2>2, <2>4, OutputSound DEF Flush
<1>6. CASE FlushReads(a)
  <2>1. runner'[a] = [r EXCEPT !.seen = TRUE]
    BY <1>6 DEF FlushReads, TypeOK
  <2>2. RunSound(a)'
    BY <1>1, <1>6, <2>1 DEF FlushReads, AttemptSound, RunSound, TextAddsUp, Runner
  <2>3. QED
    BY <1>1, <1>6, <2>1, <2>2, OutputSound DEF FlushReads, Runner
<1>7. QED
  BY <1>2, <1>3, <1>4, <1>5, <1>6

\* A write that lands moves its text into the row; one that fails ends every
\* claim on the output, and an answer that goes on without it is not completed.
LEMMA FlushSound ==
    ASSUME TypeOK, NEW a \in Attempts, AttemptSound(a),
           FlushLands(a) \/ FlushFails(a) \/ DrainFlush(a) \/ DrainDone(a)
    PROVE  AttemptSound(a)'
<1> DEFINE r == runner[a]
<1>1. /\ r \in Runner /\ r.produced \in Nat /\ r.buffered \in Nat /\ r.write \in Nat
      /\ stored[a] \in Nat /\ r.outcome \in RunOutcome
  BY LimitsAssumption DEF TypeOK, StoreTypeOK, Runner
<1> DEFINE RowSame ==
      /\ UNCHANGED <<status, final, staged, usage, recorded, invoked, told, job>>
<1>2. CASE FlushLands(a)
  <2>1. /\ RowSame /\ stored'[a] = stored[a] + r.write
        /\ r.write > 0 /\ ~r.outputFailed
    BY <1>1, <1>2 DEF FlushLands, AppendOutput, AttemptSound, RunSound, TypeOK, StoreTypeOK
  <2>2. CASE runner' = [runner EXCEPT ![a].write = 0, ![a].seen = FALSE]
    <3>1. runner'[a] = [r EXCEPT !.write = 0, !.seen = FALSE]
      BY <2>2 DEF TypeOK
    <3>2. /\ runner'[a].pc = r.pc /\ runner'[a].outcome = r.outcome
          /\ ~runner'[a].outputFailed /\ runner'[a].write = 0
          /\ runner'[a].buffered = r.buffered /\ runner'[a].produced = r.produced
      BY <1>1, <2>1, <3>1 DEF Runner
    <3>3. TextAddsUp(a) => TextAddsUp(a)'
      BY <1>1, <2>1, <3>2 DEF TextAddsUp
    <3>4. stored'[a] + runner'[a].write = stored[a] + r.write
      BY <1>1, <2>1, <3>2
    <3>5. RunSound(a)'
      BY <2>1, <3>2, <3>3, <3>4 DEF AttemptSound, RunSound
    <3>6. QED
      BY <2>1, <3>2, <3>5, OutputSound
  <2>3. CASE /\ r.pc = "drain" /\ r.buffered > 0
             /\ runner' = [runner EXCEPT ![a].write = r.buffered, ![a].seen = FALSE,
                                         ![a].buffered = 0, ![a].pc = "finalize"]
    <3>1. runner'[a] = [r EXCEPT !.write = r.buffered, !.seen = FALSE, !.buffered = 0,
                                !.pc = "finalize"]
      BY <2>3 DEF TypeOK
    <3>2. /\ runner'[a].pc = "finalize" /\ runner'[a].outcome = r.outcome
          /\ ~runner'[a].outputFailed /\ runner'[a].write = r.buffered
          /\ runner'[a].buffered = 0 /\ runner'[a].produced = r.produced
      BY <1>1, <2>1, <3>1 DEF Runner
    <3>3. TextAddsUp(a) => TextAddsUp(a)'
      BY <1>1, <2>1, <3>2 DEF TextAddsUp
    <3>4. r.outcome = "completed" => TextAddsUp(a)
      BY <2>1, <2>3 DEF AttemptSound, RunSound
    <3>5. status[a] \notin RunOutcome \cup {"free"}
      BY <2>3 DEF AttemptSound, RunSound
    <3>6. RunSound(a)'
      BY <2>1, <3>2, <3>3, <3>4, <3>5 DEF RunSound
    <3>7. QED
      BY <2>1, <2>3, <3>6, OutputSound
  <2>4. QED
    BY <1>2, <2>2, <2>3 DEF FlushLands
<1>3. CASE FlushFails(a)
  <2>1. RowSame /\ r.write > 0
    BY <1>3 DEF FlushFails, AppendOutput
  <2>2. r.pc \in {"invoke", "drain", "finalize"}
    BY <1>3 DEF FlushFails
  <2>3. status[a] \notin RunOutcome \cup {"free"}
    BY <2>2 DEF AttemptSound, RunSound
  <2>4. \/ runner'[a].pc = "invoke" /\ runner'[a].outputFailed
        \/ runner'[a].pc = "drain" /\ (runner'[a].outputFailed \/ runner'[a].outcome # "completed")
        \/ runner'[a].pc = "finalize" /\ runner'[a].outcome # "completed"
        \/ runner'[a].pc = "gone"
    <3> DEFINE stopped(o) == [r EXCEPT !.write = 0, !.seen = FALSE, !.outputFailed = TRUE,
                                       !.aborted = TRUE, !.outcome = o]
               thrown(o) == [r EXCEPT !.write = 0, !.seen = FALSE, !.pc = "drain",
                                      !.outcome = o]
    <3>1. \/ r.pc \in {"invoke", "drain"} /\ runner'[a] = stopped(r.outcome)
          \/ /\ r.pc = "finalize"
             /\ runner'[a] = stopped(IF r.outcome = "blocked" THEN "blocked" ELSE "failed")
          \/ runner'[a] = thrown(AbortedOr(a, "failed"))
          \/ runner'[a] = RunAt("gone")
      BY <1>3 DEF FlushFails, TypeOK
    <3>2. \A o : /\ stopped(o).pc = r.pc /\ stopped(o).outputFailed /\ stopped(o).outcome = o
                 /\ thrown(o).pc = "drain" /\ thrown(o).outcome = o
      BY <1>1 DEF Runner
    <3> HIDE DEF stopped, thrown
    <3>3. AbortedOr(a, "failed") # "completed"
      BY DEF AbortedOr
    <3>4. QED
      BY <3>1, <3>2, <3>3 DEF RunAt
  <2>5. runner'[a].write = 0
    BY <1>1, <1>3 DEF FlushFails, TypeOK, Runner, RunAt
  <2>6. RunSound(a)'
    BY <2>1, <2>3, <2>4, <2>5 DEF RunSound
  <2>7. QED
    BY <2>1, <2>2, <2>6, OutputSound
<1>4. CASE DrainFlush(a)
  <2>1. PICK k \in 1..r.buffered :
          /\ k < r.buffered => r.outcome = "blocked"
          /\ runner'[a] = [r EXCEPT !.buffered = 0, !.write = k]
    BY <1>4 DEF DrainFlush, TypeOK
  <2>2. /\ r.pc = "drain" /\ ~r.outputFailed /\ r.write = 0
        /\ runner'[a].pc = "drain" /\ ~runner'[a].outputFailed
        /\ runner'[a].outcome = r.outcome /\ runner'[a].produced = r.produced
        /\ runner'[a].write = k /\ runner'[a].buffered = 0
    BY <1>1, <1>4, <2>1 DEF DrainFlush, Runner
  <2>3. r.outcome = "completed" => TextAddsUp(a)'
    <3>1. r.outcome = "completed" => k = r.buffered /\ stored[a] + 0 + k = r.produced
      BY <1>1, <2>1, <2>2 DEF AttemptSound, RunSound, TextAddsUp
    <3>2. stored[a] + k + 0 = stored[a] + 0 + k
      BY <1>1
    <3>3. QED
      BY <1>4, <2>2, <3>1, <3>2 DEF DrainFlush, TextAddsUp
  <2>4. RunSound(a)'
    BY <1>4, <2>2, <2>3 DEF DrainFlush, AttemptSound, RunSound
  <2>5. QED
    BY <1>4, <2>2, <2>4, OutputSound DEF DrainFlush
<1>5. CASE DrainDone(a)
  <2> DEFINE o == IF r.outputFailed /\ r.outcome # "blocked" THEN "failed" ELSE r.outcome
  <2>1. runner'[a] = [r EXCEPT !.pc = "finalize", !.buffered = 0, !.outcome = o]
    BY <1>5 DEF DrainDone, TypeOK
  <2>6. o = "completed" => r.outcome = "completed" /\ ~r.outputFailed
    OBVIOUS
  <2> HIDE DEF o
  <2>2. /\ r.pc = "drain" /\ r.write = 0
        /\ runner'[a].pc = "finalize" /\ runner'[a].outcome = o
        /\ runner'[a].produced = r.produced
        /\ runner'[a].write = 0 /\ runner'[a].buffered = 0
    BY <1>1, <1>5, <2>1, ZenonT(40) DEF DrainDone, Runner
  <2>3. o = "completed" => TextAddsUp(a)'
    <3>1. o = "completed" => r.outcome = "completed" /\ ~r.outputFailed
      BY <2>6
    <3>2. o = "completed" => r.buffered = 0
      BY <1>5, <3>1 DEF DrainDone
    <3>3. o = "completed" => stored[a] + 0 + 0 = r.produced
      BY <2>2, <3>1, <3>2 DEF AttemptSound, RunSound, TextAddsUp
    <3>4. QED
      BY <1>5, <2>2, <3>3 DEF DrainDone, TextAddsUp
  <2>4. RunSound(a)'
    BY <1>5, <2>2, <2>3 DEF DrainDone, AttemptSound, RunSound
  <2>5. QED
    BY <1>5, <2>2, <2>4, OutputSound DEF DrainDone
<1>6. QED
  BY <1>2, <1>3, <1>4, <1>5

\* The outcome is stored with the count of all that was produced, behind a fence
\* no other ending has passed; the runner reports it once its usage is recorded,
\* and whoever dies or fails reports no outcome.
LEMMA EndSound ==
    ASSUME TypeOK, NEW a \in Attempts, AttemptSound(a),
           Finalize(a) \/ RecordOwnUsage(a) \/ RunnerDies(a)
    PROVE  AttemptSound(a)'
<1> DEFINE r == runner[a]
<1>1. /\ r \in Runner /\ r.outcome \in RunOutcome /\ r.produced \in Nat
      /\ r.outcome \notin Active \cup {"free", "null", "interrupted"}
  BY LimitsAssumption DEF TypeOK, Runner
<1>2. Finalizer \in Workers
  BY DEF Workers
<1>3. job[Finalizer][a].step = "none" \/ r.pc = "record"
  BY <1>2 DEF AttemptSound, JobSound
<1>4. ASSUME NEW e \in {"failed", "null"}, Leave(a, e), UNCHANGED <<storeVars, job>>,
             job[Finalizer][a].step = "none", r.pc # "none"
      PROVE  AttemptSound(a)'
  BY <1>4, LeaveSound
<1>5. CASE Finalize(a)
  <2>1. r.pc = "finalize"
    BY <1>5 DEF Finalize
  <2>2. CASE /\ StageFinalization(a, r.outcome, r.produced)
             /\ Step(a, "record") \/ Leave(a, "failed")
    <3>1. /\ status[a] = "running" /\ status'[a] = r.outcome /\ final'[a] = r.outcome
          /\ staged'[a] = r.produced
          /\ UNCHANGED <<usage, recorded, invoked, stored>>
      BY <2>2 DEF StageFinalization, OwnsRunning, TypeOK, StoreTypeOK
    <3>2. UNCHANGED job
      BY <1>5 DEF Finalize
    <3>3. final[a] = "null" /\ usage[a] = NoTokens /\ ~recorded[a]
      BY <3>1 DEF AttemptSound, EndingSound
    <3>4. EndingSound(a)'
      BY <1>1, <3>1, <3>3 DEF EndingSound
    <3>5. r.outcome = "completed" => stored[a] + r.write = r.produced
      <4>1. r.outcome = "completed" => stored[a] + r.write + 0 = r.produced
        BY <2>1 DEF AttemptSound, RunSound, TextAddsUp
      <4>2. stored[a] \in Nat /\ r.write \in Nat
        BY <1>1 DEF TypeOK, StoreTypeOK, Runner
      <4>3. stored[a] + r.write + 0 = stored[a] + r.write
        BY <4>2
      <4>4. QED
        BY <4>1, <4>3
    <3>6. RunSound(a)'
      <4>1. CASE Step(a, "record")
        <5>1. runner'[a] = [r EXCEPT !.pc = "record"]
          BY <4>1 DEF Step, TypeOK
        <5>2. /\ runner'[a].pc = "record" /\ runner'[a].outcome = r.outcome
              /\ runner'[a].write = r.write /\ runner'[a].outputFailed = r.outputFailed
          BY <1>1, <5>1 DEF Runner
        <5>3. r.outputFailed => r.write = 0
          BY DEF AttemptSound, RunSound
        <5>4. QED
          BY <1>1, <3>1, <3>5, <5>2, <5>3 DEF RunSound
      <4>2. CASE Leave(a, "failed")
        <5>1. /\ runner'[a].pc = "gone" /\ ~runner'[a].outputFailed
              /\ runner'[a].write = r.write
          BY <4>2 DEF Leave, RunAt, TypeOK
        <5>2. QED
          BY <1>1, <3>1, <3>5, <5>1 DEF RunSound
      <4>3. QED
        BY <2>2, <4>1, <4>2
    <3>7. ToldSound(a)'
      <4>1. told'[a] = "failed" \/ told'[a] = told[a]
        BY <2>2 DEF Step, Leave, TypeOK
      <4>2. QED
        BY <3>1, <4>1 DEF AttemptSound, ToldSound
    <3>8. \A w \in Workers : JobSound(w, a)'
      BY <3>2, <3>3 DEF AttemptSound, JobSound
    <3>9. QED
      BY <3>4, <3>6, <3>7, <3>8 DEF AttemptSound
  <2>3. CASE UNCHANGED storeVars /\ (Leave(a, "null") \/ Leave(a, "failed"))
    BY <1>3, <1>4, <1>5, <2>1, <2>3 DEF Finalize
  <2>4. QED
    BY <1>5, <2>2, <2>3 DEF Finalize
<1>6. CASE RecordOwnUsage(a)
  <2>1. /\ r.pc = "record" /\ job[Finalizer][a].step = "none" /\ status[a] = r.outcome
        /\ final[a] = r.outcome /\ staged[a] # NoTokens
        /\ UNCHANGED storeVars
    BY <1>1, <1>6 DEF RecordOwnUsage, AttemptSound, RunSound, EndingSound
  <2>2. CASE /\ Pending(a) /\ UNCHANGED <<runner, told>>
             /\ job' = [job EXCEPT ![Finalizer][a] =
                          [step |-> "insert", tokens |-> staged[a]]]
    <3>1. invoked[a] /\ final[a] # "null"
      BY <2>2 DEF Pending
    <3>2. /\ job'[Finalizer][a] = [step |-> "insert", tokens |-> staged[a]]
          /\ \A w \in Workers \ {Finalizer} : job'[w][a] = job[w][a]
      BY <1>2, <2>2 DEF TypeOK
    <3>3. JobSound(Finalizer, a)'
      BY <2>1, <2>2, <3>1, <3>2 DEF JobSound
    <3>4. \A w \in Workers \ {Finalizer} : JobSound(w, a)'
      BY <2>1, <2>2, <3>2 DEF AttemptSound, JobSound
    <3>5. EndingSound(a)' /\ RunSound(a)' /\ ToldSound(a)'
      BY <2>1, <2>2 DEF AttemptSound, EndingSound, RunSound, TextAddsUp, ToldSound
    <3>6. QED
      BY <3>3, <3>4, <3>5 DEF AttemptSound
  <2>3. CASE ~Pending(a) /\ Leave(a, r.outcome) /\ UNCHANGED job
    <3>1. invoked[a] => recorded[a]
      BY <1>1, <2>1, <2>3 DEF Pending, TypeOK, StoreTypeOK
    <3>2. QED
      BY <1>1, <2>1, <2>3, <3>1, LeaveSound
  <2>4. CASE Leave(a, "failed") /\ UNCHANGED job
    BY <1>4, <2>1, <2>4
  <2>5. QED
    BY <1>6, <2>2, <2>3, <2>4 DEF RecordOwnUsage
<1>7. CASE RunnerDies(a)
  <2>1. /\ r.pc # "none" /\ Leave(a, "null") /\ UNCHANGED storeVars
        /\ job' = [job EXCEPT ![Finalizer][a] = NoJob]
    BY <1>7 DEF RunnerDies
  <2>2. /\ \A w \in Workers : job'[w][a] = job[w][a] \/ job'[w][a].step = "none"
        /\ job'[Finalizer][a].step = "none"
    BY <1>2, <2>1 DEF TypeOK, NoJob
  <2>3. QED
    BY <2>1, <2>2, LeaveSound
<1>8. QED
  BY <1>5, <1>6, <1>7

\* A step of any runner keeps every attempt sound.
LEMMA RunSoundStep ==
    ASSUME UsageInv, NEW a \in Attempts, Run(a)
    PROVE  \A b \in Attempts : AttemptSound(b)'
<1>1. AttemptSound(a)'
  BY PrepareSound, StreamSound, FlushSound, EndSound DEF UsageInv, Run
<1>2. ASSUME NEW b \in Attempts \ {a} PROVE AttemptSound(b)'
  BY <1>2, RunFrame, Untouched DEF UsageInv
<1>3. QED
  BY <1>1, <1>2

-----------------------------------------------------------------------------
(* The poller, cancellation and the recording jobs.                        *)

\* Raising abort flags changes no attempt's account.
LEMMA AbortSound ==
    ASSUME UsageInv,
           (\E a \in Attempts : Poll(a)) \/ (\E c \in Conversations : Cancel(c))
    PROVE  \A b \in Attempts : AttemptSound(b)'
<1>1. /\ UNCHANGED <<status, final, staged, usage, recorded, invoked, stored, told, job>>
      /\ \A b \in Attempts : \/ runner'[b] = runner[b]
                             \/ runner'[b] = [runner[b] EXCEPT !.aborted = TRUE]
  <2>1. ASSUME NEW a \in Attempts, Poll(a) PROVE <1>1!:
    BY <2>1 DEF Poll, UsageInv, TypeOK
  <2>2. ASSUME NEW c \in Conversations, Cancel(c) PROVE <1>1!:
    BY <2>2 DEF Cancel, RequestCancellation
  <2>3. QED
    BY <2>1, <2>2
<1> SUFFICES ASSUME NEW b \in Attempts PROVE AttemptSound(b)'
  OBVIOUS
<1>2. runner[b] \in Runner /\ AttemptSound(b)
  BY DEF UsageInv, TypeOK
<1>3. /\ runner'[b].pc = runner[b].pc /\ runner'[b].outcome = runner[b].outcome
      /\ runner'[b].outputFailed = runner[b].outputFailed
      /\ runner'[b].produced = runner[b].produced
      /\ runner'[b].buffered = runner[b].buffered /\ runner'[b].write = runner[b].write
  BY <1>1, <1>2 DEF Runner
<1>4. RunSound(b)'
  BY <1>1, <1>2, <1>3 DEF AttemptSound, RunSound, TextAddsUp
<1>5. QED
  BY <1>1, <1>2, <1>3, <1>4, OutputSound

\* A recovery pass lists attempts that have ended; one without a staged count
\* was interrupted, and the pass computes a count for it.
LEMMA RecoverSound ==
    ASSUME UsageInv, NEW w \in Recoverers, RecoverUsage(w)
    PROVE  \A b \in Attempts : AttemptSound(b)'
<1> SUFFICES ASSUME NEW b \in Attempts PROVE AttemptSound(b)'
  OBVIOUS
<1>1. TypeOK /\ AttemptSound(b) /\ w \in Workers /\ w # Finalizer
  BY DEF UsageInv, Workers
<1>2. /\ UNCHANGED <<status, final, staged, usage, recorded, invoked, stored, runner, told>>
      /\ \A v \in Workers \ {w} : job'[v] = job[v]
      /\ job'[w][b] = IF ~Pending(b) THEN NoJob
                      ELSE IF staged[b] = NoTokens
                           THEN [step |-> "stage", tokens |-> stored[b]]
                           ELSE [step |-> "insert", tokens |-> staged[b]]
  BY <1>1 DEF RecoverUsage, PruneDailyCounters, TypeOK
<1>3. EndingSound(b)' /\ RunSound(b)' /\ ToldSound(b)'
  BY <1>1, <1>2 DEF AttemptSound, EndingSound, RunSound, TextAddsUp, ToldSound
<1>4. \A v \in Workers \ {w} : JobSound(v, b)'
  BY <1>1, <1>2 DEF AttemptSound, JobSound
<1>5. JobSound(w, b)'
  <2>1. CASE ~Pending(b)
    BY <1>2, <2>1 DEF JobSound, NoJob
  <2>2. CASE Pending(b) /\ staged[b] = NoTokens
    <3>1. invoked[b] /\ final[b] # "null"
      BY <2>2 DEF Pending
    <3>2. final[b] = "interrupted"
      <4>1. status[b] = final[b] /\ status[b] \notin RunOutcome
        BY <1>1, <2>2, <3>1 DEF AttemptSound, EndingSound
      <4>2. final[b] \in Terminal \cup {"null"}
        BY <1>1 DEF TypeOK, StoreTypeOK
      <4>3. QED
        BY <3>1, <4>1, <4>2
    <3>3. job'[w][b].step = "stage" /\ job'[w][b].tokens = stored[b]
      BY <1>2, <2>2
    <3>4. stored[b] \in Nat
      BY <1>1 DEF TypeOK, StoreTypeOK
    <3>5. QED
      BY <1>1, <1>2, <3>1, <3>2, <3>3, <3>4 DEF JobSound
  <2>3. CASE Pending(b) /\ staged[b] # NoTokens
    <3>1. job'[w][b].step = "insert" /\ job'[w][b].tokens = staged[b]
      BY <1>2, <2>3
    <3>2. QED
      BY <1>1, <1>2, <2>3, <3>1 DEF JobSound, Pending
  <2>4. QED
    BY <2>1, <2>2, <2>3
<1>6. QED
  BY <1>3, <1>4, <1>5 DEF AttemptSound

\* A step of a recording job concerns one attempt.
LEMMA JobFrame ==
    ASSUME TypeOK, NEW w \in Workers, NEW a \in Attempts, NEW b \in Attempts \ {a},
           JobStep(w, a) \/ JobThrows(w, a)
    PROVE  Same(b)
<1> USE DEF TypeOK, StoreTypeOK, Same
<1>1. CASE StageCandidate(w, a)
  BY <1>1 DEF StageCandidate, StageRecoveredCandidate
<1>2. CASE RecordUsage(w, a)
  BY <1>2 DEF RecordUsage, InsertUsage
<1>3. CASE MarkRecorded(w, a)
  BY <1>3 DEF MarkRecorded, MarkUsageRecorded, Leave
<1>4. CASE JobThrows(w, a)
  BY <1>4 DEF JobThrows, Leave
<1>5. QED
  BY <1>1, <1>2, <1>3, <1>4 DEF JobStep

\* Staging fills a count that is missing, and nobody else's.
LEMMA StageSound ==
    ASSUME TypeOK, NEW w \in Workers, NEW a \in Attempts, AttemptSound(a),
           StageCandidate(w, a)
    PROVE  AttemptSound(a)'
<1> DEFINE t == job[w][a].tokens
<1>1. /\ job[w][a].step = "stage" /\ job[w][a] \in Job
      /\ job'[w][a] = [job[w][a] EXCEPT !.step = "insert"]
      /\ \A v \in Workers \ {w} : job'[v] = job[v]
      /\ staged' = IF Pending(a) /\ staged[a] = NoTokens
                   THEN [staged EXCEPT ![a] = t] ELSE staged
      /\ UNCHANGED <<status, final, usage, recorded, invoked, stored, runner, told>>
  BY DEF StageCandidate, StageRecoveredCandidate, TypeOK
<1>2. /\ invoked[a] /\ final[a] = "interrupted" /\ t # NoTokens
      /\ status[a] = "interrupted" /\ (w = Finalizer => runner[a].pc = "record")
  BY <1>1 DEF AttemptSound, JobSound, EndingSound
<1>3. staged[a] # NoTokens => staged'[a] = staged[a]
  BY <1>1
<1>4. staged'[a] # NoTokens
  <2>1. CASE staged[a] # NoTokens
    BY <1>3, <2>1
  <2>2. CASE staged[a] = NoTokens
    <3>1. ~recorded[a]
      BY <2>2 DEF AttemptSound, EndingSound
    <3>2. staged'[a] = t
      BY <1>1, <1>2, <2>2, <3>1 DEF Pending, TypeOK, StoreTypeOK
    <3>3. QED
      BY <1>2, <3>2
  <2>3. QED
    BY <2>1, <2>2
<1>5. usage[a] # NoTokens => staged[a] # NoTokens
  BY DEF AttemptSound, EndingSound
<1>6. EndingSound(a)'
  BY <1>1, <1>2, <1>3, <1>4, <1>5 DEF AttemptSound, EndingSound
<1>7. RunSound(a)'
  BY <1>1, <1>2 DEF AttemptSound, RunSound, TextAddsUp
<1>8. ToldSound(a)'
  BY <1>1, <1>2 DEF AttemptSound, ToldSound
<1>9. ASSUME NEW v \in Workers PROVE JobSound(v, a)'
  <2>1. CASE v = w
    <3>1. job'[w][a].step = "insert" /\ job'[w][a].tokens = t
      BY <1>1 DEF Job
    <3>2. QED
      BY <1>1, <1>2, <1>4, <2>1, <3>1 DEF JobSound
  <2>2. CASE v # w
    BY <1>1, <1>2, <1>3, <2>2 DEF AttemptSound, JobSound
  <2>3. QED
    BY <2>1, <2>2
<1>10. QED
  BY <1>6, <1>7, <1>8, <1>9 DEF AttemptSound

\* Recording inserts the job's count if there is no record, and agrees with the
\* record there is.
LEMMA RecordSound ==
    ASSUME TypeOK, NEW w \in Workers, NEW a \in Attempts, AttemptSound(a),
           RecordUsage(w, a)
    PROVE  AttemptSound(a)'
<1> DEFINE t == job[w][a].tokens
<1>1. /\ job[w][a].step = "insert" /\ job[w][a] \in Job
      /\ job'[w][a] = [job[w][a] EXCEPT !.step = "mark"]
      /\ \A v \in Workers \ {w} : job'[v] = job[v]
      /\ usage[a] \in {NoTokens, t} /\ usage'[a] = t
      /\ UNCHANGED <<status, final, staged, recorded, invoked, stored, runner, told>>
  <2>1. /\ job[w][a].step = "insert" /\ job' = [job EXCEPT ![w][a].step = "mark"]
        /\ InsertUsage(a, t)
        /\ UNCHANGED <<runner, told>>
    BY DEF RecordUsage
  <2>2. /\ usage[a] \in {NoTokens, t} /\ usage'[a] = t
        /\ UNCHANGED <<status, final, staged, recorded, invoked, stored>>
    BY <2>1 DEF InsertUsage, TypeOK, StoreTypeOK
  <2>3. /\ job[w][a] \in Job /\ job'[w][a] = [job[w][a] EXCEPT !.step = "mark"]
        /\ \A v \in Workers \ {w} : job'[v] = job[v]
    BY <2>1 DEF TypeOK
  <2>4. QED
    BY <2>1, <2>2, <2>3
<1>2. JobSound(w, a) /\ EndingSound(a)
  BY DEF AttemptSound
<1>3. EndingSound(a)'
  BY <1>1, <1>2 DEF EndingSound, JobSound
<1>4. RunSound(a)'
  BY <1>1 DEF AttemptSound, RunSound, TextAddsUp
<1>5. ToldSound(a)'
  BY <1>1, <1>2 DEF AttemptSound, ToldSound, EndingSound
<1>6. ASSUME NEW v \in Workers PROVE JobSound(v, a)'
  <2>1. CASE v = w
    <3>1. job'[w][a].step = "mark" /\ job'[w][a].tokens = t
      BY <1>1 DEF Job
    <3>2. QED
      BY <1>1, <1>2, <2>1, <3>1 DEF JobSound
  <2>2. CASE v # w
    <3>1. job[v][a].step = "mark" => usage[a] = job[v][a].tokens /\ usage[a] # NoTokens
      BY DEF AttemptSound, JobSound
    <3>2. QED
      BY <1>1, <2>2, <3>1 DEF AttemptSound, JobSound
  <2>3. QED
    BY <2>1, <2>2
<1>7. QED
  BY <1>3, <1>4, <1>5, <1>6 DEF AttemptSound

\* The attempt is marked recorded by a job whose count is the staged one; its
\* runner then reports the outcome it stored.
LEMMA MarkSound ==
    ASSUME TypeOK, NEW w \in Workers, NEW a \in Attempts, AttemptSound(a),
           MarkRecorded(w, a)
    PROVE  AttemptSound(a)'
<1> DEFINE t == job[w][a].tokens
           o == runner[a].outcome
<1>1. /\ job[w][a].step = "mark"
      /\ job'[w][a] = NoJob
      /\ \A v \in Workers \ {w} : job'[v] = job[v]
      /\ recorded'[a] = (recorded[a] \/ (final[a] # "null" /\ staged[a] = t))
      /\ UNCHANGED <<status, final, staged, usage, invoked, stored>>
  BY DEF MarkRecorded, MarkUsageRecorded, TypeOK, StoreTypeOK
<1>2. /\ invoked[a] /\ final[a] # "null" /\ usage[a] = t /\ t # NoTokens
      /\ final[a] # "interrupted" => t = staged[a]
      /\ w = Finalizer => runner[a].pc = "record"
  BY <1>1 DEF AttemptSound, JobSound
<1>3. EndingSound(a)'
  BY <1>1, <1>2 DEF AttemptSound, EndingSound
<1>4. ASSUME NEW v \in Workers, runner'[a] = runner[a] \/ w = Finalizer
      PROVE  JobSound(v, a)'
  <2>1. CASE v = w
    BY <1>1, <2>1 DEF JobSound, NoJob
  <2>2. CASE v # w
    BY <1>1, <1>4, <2>2 DEF AttemptSound, JobSound
  <2>3. QED
    BY <2>1, <2>2
<1>5. CASE w # Finalizer
  <2>1. UNCHANGED <<runner, told>>
    BY <1>5 DEF MarkRecorded
  <2>2. RunSound(a)'
    BY <1>1, <2>1 DEF AttemptSound, RunSound, TextAddsUp
  <2>3. ToldSound(a)'
    BY <1>1, <2>1 DEF AttemptSound, ToldSound
  <2>4. QED
    BY <1>3, <1>4, <2>1, <2>2, <2>3 DEF AttemptSound
<1>6. CASE w = Finalizer
  <2>1. Leave(a, o)
    BY <1>6 DEF MarkRecorded
  <2>2. /\ runner[a].pc = "record" /\ status[a] = o /\ o \in RunOutcome
        /\ final[a] = o
    BY <1>2, <1>6 DEF AttemptSound, RunSound, EndingSound, TypeOK, Runner
  <2>3. recorded'[a] /\ usage'[a] = staged'[a]
    BY <1>1, <1>2, <2>2
  <2>4. /\ runner'[a].pc = "gone" /\ ~runner'[a].outputFailed
        /\ runner'[a].write = runner[a].write /\ told'[a] = o
    BY <2>1 DEF Leave, RunAt, TypeOK
  <2>5. RunSound(a)'
    BY <1>1, <2>2, <2>4 DEF AttemptSound, RunSound
  <2>6. ToldSound(a)'
    BY <1>1, <2>2, <2>3, <2>4 DEF ToldSound
  <2>7. QED
    BY <1>3, <1>4, <1>6, <2>5, <2>6 DEF AttemptSound
<1>7. QED
  BY <1>5, <1>6

\* A job may give up at any step; a runner's own takes the runner with it.
LEMMA ThrowSound ==
    ASSUME TypeOK, NEW w \in Workers, NEW a \in Attempts, AttemptSound(a),
           JobThrows(w, a)
    PROVE  AttemptSound(a)'
<1>1. /\ job[w][a].step # "none"
      /\ job'[w][a] = NoJob /\ \A v \in Workers \ {w} : job'[v] = job[v]
      /\ UNCHANGED storeVars
  BY DEF JobThrows, TypeOK
<1>2. \A v \in Workers : job'[v][a] = job[v][a] \/ job'[v][a].step = "none"
  BY <1>1 DEF NoJob
<1>3. CASE w = Finalizer
  <2>1. Leave(a, "failed") /\ runner[a].pc = "record"
    BY <1>1, <1>3 DEF JobThrows, AttemptSound, JobSound
  <2>2. job'[Finalizer][a].step = "none"
    BY <1>1, <1>3 DEF NoJob
  <2>3. QED
    BY <1>1, <1>2, <2>1, <2>2, LeaveSound
<1>4. CASE w # Finalizer
  <2>1. UNCHANGED <<runner, told>>
    BY <1>4 DEF JobThrows
  <2>2. EndingSound(a)' /\ RunSound(a)' /\ ToldSound(a)'
    BY <1>1, <2>1 DEF AttemptSound, EndingSound, RunSound, TextAddsUp, ToldSound
  <2>3. \A v \in Workers : JobSound(v, a)'
    BY <1>1, <1>2, <2>1 DEF AttemptSound, JobSound
  <2>4. QED
    BY <2>2, <2>3 DEF AttemptSound
<1>5. QED
  BY <1>3, <1>4

\* A step of any recording job keeps every attempt sound.
LEMMA JobSoundStep ==
    ASSUME UsageInv, NEW w \in Workers, NEW a \in Attempts,
           JobStep(w, a) \/ JobThrows(w, a)
    PROVE  \A b \in Attempts : AttemptSound(b)'
<1>1. AttemptSound(a)'
  BY StageSound, RecordSound, MarkSound, ThrowSound DEF UsageInv, JobStep
<1>2. ASSUME NEW b \in Attempts \ {a} PROVE AttemptSound(b)'
  BY <1>2, JobFrame, Untouched DEF UsageInv
<1>3. QED
  BY <1>1, <1>2

-----------------------------------------------------------------------------
(* The invariant and what it says.                                         *)

\* Nothing has happened to a free attempt.
LEMMA UsageInit == Init => UsageInv
<1> SUFFICES ASSUME Init, NEW a \in Attempts PROVE AttemptSound(a)
  BY TypeInit DEF UsageInv
<1>1. /\ status[a] = "free" /\ final[a] = "null" /\ staged[a] = NoTokens
      /\ usage[a] = NoTokens /\ ~recorded[a] /\ stored[a] = 0 /\ told[a] = "null"
      /\ runner[a] = NoRun /\ \A w \in Workers : job[w][a] = NoJob
  BY DEF Init, StoreInit
<1>2. EndingSound(a) /\ ToldSound(a) /\ \A w \in Workers : JobSound(w, a)
  BY <1>1 DEF EndingSound, ToldSound, JobSound, NoJob
<1>3. RunSound(a)
  BY <1>1 DEF RunSound, TextAddsUp, NoRun, RunAt
<1>4. QED
  BY <1>2, <1>3 DEF AttemptSound

\* UsageInv is inductive.
LEMMA UsageStep == UsageInv /\ [Next]_vars => UsageInv'
<1> SUFFICES ASSUME UsageInv, [Next]_vars PROVE \A b \in Attempts : AttemptSound(b)'
  BY TypeStep DEF UsageInv
<1>1. ASSUME NEW s \in Senders, Send(s) PROVE \A b \in Attempts : AttemptSound(b)'
  BY <1>1, SendSound
<1>2. ASSUME NEW a \in Attempts, Run(a) \/ Poll(a) PROVE \A b \in Attempts : AttemptSound(b)'
  BY <1>2, RunSoundStep, AbortSound
<1>3. ASSUME NEW c \in Conversations, Cancel(c) PROVE \A b \in Attempts : AttemptSound(b)'
  BY <1>3, AbortSound
<1>4. ASSUME NEW w \in Recoverers, RecoverUsage(w) PROVE \A b \in Attempts : AttemptSound(b)'
  BY <1>4, RecoverSound
<1>5. ASSUME NEW w \in Workers, NEW a \in Attempts, JobStep(w, a) \/ JobThrows(w, a)
      PROVE  \A b \in Attempts : AttemptSound(b)'
  BY <1>5, JobSoundStep
<1>6. CASE RecoverExpired
  <2>1. Expired \in SUBSET ActiveTurns
    BY DEF Expired
  <2>2. QED
    BY <1>6, <2>1, InterruptSound DEF RecoverExpired, RecoverExpiredAttempts, procVars
<1>7. CASE Administer \/ DayPasses \/ (\E a \in Attempts : LeaseLapses(a)) \/ UNCHANGED vars
  <2>1. \A b \in Attempts : Same(b)
    BY <1>7 DEF Administer, RevokeSessions, SetDisabled, DayPasses, NextDay, LeaseLapses,
         Lapse, vars, procVars, Same
  <2>2. QED
    BY <2>1, Untouched DEF UsageInv
<1>8. QED
  BY <1>1, <1>2, <1>3, <1>4, <1>5, <1>6, <1>7 DEF Next

\* UsageInv holds throughout.
LEMMA UsageInvariant == Spec => []UsageInv
BY UsageInit, UsageStep, PTL DEF Spec

\* Usage is recorded for attempts that have ended and had called the provider,
\* and once it is marked as recorded it is the staged one, however many passes
\* of however many instances record it.
THEOREM UsageRecordedOnce == Spec => []UsageOnce
<1>1. UsageInv => UsageOnce
  BY DEF UsageInv, AttemptSound, EndingSound, UsageOnce
<1>2. QED
  BY <1>1, UsageInvariant, PTL

\* What a stream reports other than an error is the outcome stored, and the
\* usage was recorded before.
THEOREM ReportedIsRecorded == Spec => []SuccessIsRecorded
<1>1. UsageInv => SuccessIsRecorded
  BY DEF UsageInv, AttemptSound, ToldSound, SuccessIsRecorded
<1>2. QED
  BY <1>1, UsageInvariant, PTL

\* A completed answer is the provider's whole text, or misses only the write
\* that was in flight when it was finalized.
THEOREM CompletedTextIsWhole == Spec => []CompletedTextAccounted
<1>1. UsageInv => CompletedTextAccounted
  BY DEF UsageInv, AttemptSound, RunSound, CompletedTextAccounted
<1>2. QED
  BY <1>1, UsageInvariant, PTL

-----------------------------------------------------------------------------
(* What has ended is final.                                                *)

\* A step leaves the ended attempt a as it ended.
Kept(a) ==
    /\ status'[a] = status[a] /\ reply'[a] = reply[a] /\ final'[a] = final[a]
    /\ stored'[a] = stored[a] \/ runner[a].seen
    /\ staged[a] # NoTokens => staged'[a] = staged[a]
    /\ usage[a] # NoTokens => usage'[a] = usage[a]

\* Acceptance and its interruptions pass by attempts that have ended.
LEMMA SendKeeps ==
    ASSUME TypeOK, NEW s \in Senders, Send(s), NEW a \in Attempts, status[a] \in Terminal
    PROVE  Kept(a)
<1>1. a \notin Expired /\ status[a] # "free"
  BY DEF Expired, ActiveTurns
<1>2. CASE SendBegin(s) \/ SendLookup(s) \/ ReadRevision(s) \/ ReadMessages(s)
           \/ SendFails(s) \/ AcceptStale(s) \/ AcceptRefused(s)
  BY <1>2 DEF SendBegin, SendLookup, ReadRevision, ReadMessages, SendFails,
       AcceptStale, AcceptRefused, Kept
<1>3. CASE AcceptDuplicate(s)
  BY <1>1, <1>3 DEF AcceptDuplicate, AcceptDuplicateRow, Interrupt, ExpiredAround, Kept
<1>4. CASE AcceptNew(s)
  <2>1. PICK b \in Attempts : AcceptRow(request[s], b)
    BY <1>4 DEF AcceptNew
  <2>2. QED
    BY <1>1, <2>1 DEF AcceptRow, ExpiredAround, Kept
<1>5. QED
  BY <1>2, <1>3, <1>4 DEF Send

\* A late runner can only land the text a write had read the fence for.
LEMMA RunKeeps ==
    ASSUME TypeOK, NEW b \in Attempts, Run(b), NEW a \in Attempts, status[a] \in Terminal
    PROVE  Kept(a)
<1> USE DEF TypeOK, StoreTypeOK, Kept
<1>1. CASE MarkRunning(b)
  BY <1>1 DEF MarkRunning, MarkRunningRow
<1>2. CASE Register(b) \/ PrepareFails(b) \/ ProviderText(b) \/ ProviderBlocked(b)
           \/ ProviderEnds(b) \/ ProviderFails(b) \/ Flush(b) \/ FlushReads(b)
           \/ DrainFlush(b) \/ DrainDone(b) \/ RecordOwnUsage(b) \/ RunnerDies(b)
  BY <1>2 DEF Register, PrepareFails, ProviderText, ProviderBlocked, ProviderEnds,
       ProviderFails, Flush, FlushReads, DrainFlush, DrainDone, RecordOwnUsage, RunnerDies
<1>3. CASE Attribute(b)
  BY <1>3 DEF Attribute, MarkInvoked
<1>4. CASE FlushLands(b) \/ FlushFails(b)
  BY <1>4 DEF FlushLands, FlushFails, AppendOutput
<1>5. CASE Finalize(b)
  <2>1. CASE StageFinalization(b, runner[b].outcome, runner[b].produced)
    <3>1. status[b] = "running"
      BY <2>1 DEF StageFinalization, OwnsRunning
    <3>2. a # b
      BY <3>1
    <3>3. QED
      BY <2>1, <3>2 DEF StageFinalization
  <2>2. CASE UNCHANGED storeVars
    BY <2>2
  <2>3. QED
    BY <1>5, <2>1, <2>2 DEF Finalize
<1>6. QED
  BY <1>1, <1>2, <1>3, <1>4, <1>5 DEF Run

\* Recording fills counts that are missing and repeats the ones that are there.
LEMMA JobKeeps ==
    ASSUME TypeOK, NEW w \in Workers, NEW b \in Attempts, JobStep(w, b) \/ JobThrows(w, b),
           NEW a \in Attempts, status[a] \in Terminal
    PROVE  Kept(a)
<1> USE DEF TypeOK, StoreTypeOK, Kept
<1>1. CASE StageCandidate(w, b)
  BY <1>1 DEF StageCandidate, StageRecoveredCandidate
<1>2. CASE RecordUsage(w, b)
  BY <1>2 DEF RecordUsage, InsertUsage
<1>3. CASE MarkRecorded(w, b) \/ JobThrows(w, b)
  BY <1>3 DEF MarkRecorded, MarkUsageRecorded, JobThrows
<1>4. QED
  BY <1>1, <1>2, <1>3 DEF JobStep

\* So does every other step.
LEMMA EndedKept ==
    ASSUME TypeOK, Next, NEW a \in Attempts, status[a] \in Terminal
    PROVE  Kept(a)
<1>1. a \notin Expired
  BY DEF Expired, ActiveTurns
<1>2. ASSUME NEW s \in Senders, Send(s) PROVE Kept(a)
  BY <1>2, SendKeeps
<1>3. ASSUME NEW b \in Attempts, Run(b) PROVE Kept(a)
  BY <1>3, RunKeeps
<1>4. ASSUME NEW b \in Attempts, Poll(b) \/ LeaseLapses(b) PROVE Kept(a)
  BY <1>4 DEF Poll, LeaseLapses, Lapse, Kept
<1>5. ASSUME NEW c \in Conversations, Cancel(c) PROVE Kept(a)
  BY <1>5 DEF Cancel, RequestCancellation, Kept
<1>6. ASSUME NEW w \in Recoverers, RecoverUsage(w) PROVE Kept(a)
  BY <1>6 DEF RecoverUsage, PruneDailyCounters, Kept
<1>7. ASSUME NEW w \in Workers, NEW b \in Attempts, JobStep(w, b) \/ JobThrows(w, b)
      PROVE  Kept(a)
  BY <1>7, JobKeeps
<1>8. CASE RecoverExpired
  BY <1>1, <1>8 DEF RecoverExpired, RecoverExpiredAttempts, Interrupt, Kept
<1>9. CASE Administer \/ DayPasses
  BY <1>9 DEF Administer, RevokeSessions, SetDisabled, DayPasses, NextDay, Kept
<1>10. QED
  BY <1>2, <1>3, <1>4, <1>5, <1>6, <1>7, <1>8, <1>9 DEF Next

\* An attempt that has ended keeps its outcome, its staged count and its usage
\* record, and its text grows only by a write that saw it running.
THEOREM EndedStaysEnded == Spec => EndedIsFinal
<1>1. TypeOK /\ [Next]_vars =>
        [\A a \in Attempts : status[a] \in Terminal =>
          /\ status'[a] = status[a] /\ reply'[a] = reply[a] /\ final'[a] = final[a]
          /\ stored'[a] = stored[a] \/ runner[a].seen
          /\ staged[a] # NoTokens => staged'[a] = staged[a]
          /\ usage[a] # NoTokens => usage'[a] = usage[a]]_vars
  BY EndedKept DEF Kept
<1>2. QED
  BY <1>1, TypeCorrect, PTL DEF Spec, EndedIsFinal
=============================================================================
