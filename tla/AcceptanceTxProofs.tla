------------------------- MODULE AcceptanceTxProofs -------------------------
(***************************************************************************)
(* Proofs about AcceptanceTx: its types, the locks its transactions hold   *)
(* and wait for, what each of them may rely on until it commits, and that  *)
(* it implements Acceptance.                                               *)
(***************************************************************************)
EXTENDS AcceptanceTx, FiniteSetTheorems, TLAPS

Calls == Acceptance \cup Finalization \cup Sweep \cup Renewal \cup {NoCall}

Tables ==
    /\ embed \in [Embeds -> [version : Versions, disabled : BOOLEAN]]
    /\ issued \in [Conversations -> Session \cup {None}]
    /\ revision \in [Conversations -> Nat]
    /\ tail \in [Conversations -> Attempts \cup {None}]
    /\ status \in [Attempts -> Status]
    /\ row \in [Attempts -> Row \cup {None}]
    /\ \A a \in Attempts : status[a] # "free" => row[a] \in Row
    /\ counter \in [Networks -> Nat]
    /\ lease \in [Attempts -> Nat]

Processes ==
    /\ pc \in [Transactions -> Stage]
    /\ call \in [Transactions -> Calls]
    /\ start \in [Transactions -> Nat]
    /\ todo \in [Transactions -> SUBSET Attempts]
    /\ marks \in [Transactions -> SUBSET Attempts]
    /\ held \in [Transactions -> SUBSET Locks]

\* The type invariant is that of the tables, the clock and the transactions.
LEMMA TypeParts == TypeOK <=> Tables /\ clock \in Nat /\ Processes
  BY Zenon DEF TypeOK, Tables, Processes, Calls

\* What a call is, told by its kind.
LEMMA CallKinds ==
    ASSUME NEW x \in Calls
    PROVE  /\ x.kind \in {"accept", "finalize", "sweep", "renew", "none"}
           /\ x.kind = "accept" => x \in Acceptance
           /\ x.kind = "finalize" => x \in Finalization
           /\ x.kind = "renew" => x \in Renewal
  BY DEF Calls, Acceptance, Finalization, Sweep, Renewal, NoCall

\* Locks are told apart by what they protect.
LEMMA LockNames ==
    /\ \A c \in Conversations : ConversationLock(c) \in Locks
    /\ \A n \in Networks : NetworkLock(n) \in Locks
    /\ \A e \in Embeds : EmbedLock(e) \in Locks
    /\ \A a \in Attempts : RowLock(a) \in Locks
  BY DEF Locks

\* The same in terms of the constructors alone.
LEMMA LocksDiffer ==
    /\ \A x, y : ConversationLock(x) = ConversationLock(y) => x = y
    /\ \A x, y : NetworkLock(x) = NetworkLock(y) => x = y
    /\ \A x, y : EmbedLock(x) = EmbedLock(y) => x = y
    /\ \A x, y : RowLock(x) = RowLock(y) => x = y
    /\ \A x, y : ConversationLock(x) # NetworkLock(y) /\ ConversationLock(x) # EmbedLock(y)
    /\ \A x, y : ConversationLock(x) # RowLock(y) /\ NetworkLock(x) # EmbedLock(y)
    /\ \A x, y : NetworkLock(x) # RowLock(y) /\ EmbedLock(x) # RowLock(y)
  BY DEF ConversationLock, NetworkLock, EmbedLock, RowLock

-----------------------------------------------------------------------------
(* The invariant: what a transaction may rely on at each of its statements. *)

Deciding == {"duplicate", "history", "busy", "cap", "insert"}

\* The part of the transaction that is behind it.
Around(t)           == pc[t] \in {"scan", "rows"} /\ call[t] \in Acceptance
PastEmbed(t)        == pc[t] \in Deciding \cup {"lookup"} \/ Around(t)
PastNetwork(t)      == pc[t] = "embed" \/ PastEmbed(t)
PastConversation(t) == pc[t] \in {"network", "update", "publish"} \/ PastNetwork(t)
Searched(t)         == pc[t] \in Deciding \/ (pc[t] = "rows" /\ call[t] \in Acceptance)

StageOK(t) ==
    /\ start[t] <= clock
    /\ pc[t] \in Deciding \cup {"network", "embed", "lookup"} => call[t] \in Acceptance
    /\ pc[t] = "conversation" => call[t] \in Acceptance \cup Finalization
    /\ pc[t] \in {"update", "publish"} => call[t] \in Finalization
    /\ pc[t] \in {"scan", "rows"} => call[t] \in Acceptance \cup Sweep \cup Renewal
    /\ pc[t] = "idle" => call[t] = NoCall
    /\ pc[t] \notin Deciding \cup {"rows"} => marks[t] = {}
    /\ pc[t] # "rows" => todo[t] = {}

\* It holds the locks it has waited for, and no others.
HoldsOK(t) ==
    /\ PastConversation(t) => ConversationLock(call[t].conv) \in held[t]
    /\ PastNetwork(t) => NetworkLock(call[t].net) \in held[t]
    /\ PastEmbed(t) => EmbedLock(call[t].embed) \in held[t]
    /\ \A a \in marks[t] : RowLock(a) \in held[t]
    /\ pc[t] = "publish" => RowLock(call[t].turn) \in held[t]
    /\ \A c \in Conversations : ConversationLock(c) \in held[t] => PastConversation(t)
    /\ \A n \in Networks : NetworkLock(n) \in held[t] => PastNetwork(t)
    /\ \A e \in Embeds : EmbedLock(e) \in held[t] => PastEmbed(t)
    /\ \A a \in Attempts : RowLock(a) \in held[t] => pc[t] \in Deciding \cup {"rows", "publish"}

\* The rows it has marked are still as it found them, and after an acceptance
\* has chosen its rows there are no further ones to choose.
RowsOK(t) ==
    /\ \A a \in marks[t] : Selects(t, a)
    /\ Searched(t) => \A a \in Attempts : Selects(t, a) => a \in todo[t] \cup marks[t]
    /\ call[t] \in Finalization => /\ status[call[t].turn] # "free"
                                   /\ row[call[t].turn].conv = call[t].conv
    /\ pc[t] = "publish" => status[call[t].turn] = "running"
    /\ call[t] \in Renewal => \A a \in call[t].owned :
         status[a] # "free" /\ lease[a] <= start[t] + LeaseTime

\* What it has checked still holds.
ChecksOK(t) ==
    /\ PastEmbed(t) =>
         embed[call[t].embed] = [version |-> call[t].version, disabled |-> FALSE]
    /\ PastEmbed(t) /\ pc[t] # "lookup" => issued[call[t].conv] \in {None, Credential(t)}
    /\ pc[t] \in {"history", "busy", "cap", "insert"} => Answering(t) = {}
    /\ pc[t] \in {"busy", "cap", "insert"} =>
         revision[call[t].conv] = call[t].rev /\ tail[call[t].conv] = call[t].tail
    /\ pc[t] \in {"cap", "insert"} => TurnsOf(call[t].conv) \cap ActiveTurns \subseteq marks[t]
    /\ pc[t] = "insert" =>
         Cardinality((CallsFrom(call[t].net) \cap ActiveTurns) \ marks[t]) < ConcurrencyLimit

Sound(t) == StageOK(t) /\ HoldsOK(t) /\ RowsOK(t) /\ ChecksOK(t)

\* A lock has one holder, an attempt one renewal, and a lease one length.
Exclusive == \A t, u \in Transactions : t # u => held[t] \cap held[u] = {}
RenewalsApart ==
    \A t, u \in Transactions :
      t # u /\ call[t] \in Renewal /\ call[u] \in Renewal => call[t].owned \cap call[u].owned = {}
LeasesBounded == \A a \in Attempts : lease[a] <= clock + LeaseTime

Inv ==
    /\ Tables /\ clock \in Nat /\ Processes
    /\ IsFiniteSet(Accepted)
    /\ Exclusive /\ RenewalsApart /\ LeasesBounded
    /\ \A t \in Transactions : Sound(t)

-----------------------------------------------------------------------------
(* A step of others leaves a transaction what it relies on.                *)

\* What the step does to the tables, seen by a transaction u that is not part of
\* it: attempts are only added where u holds no lock, nothing ended goes on,
\* deadlines are only put off, and what u has locked stays as it is.
Respects(u) ==
    /\ clock' >= clock
    /\ \A a \in Attempts : status[a] # "free" =>
         row'[a] = row[a] /\ status'[a] # "free" /\ lease'[a] >= lease[a]
    /\ \A a \in Attempts : status[a] # "free" /\ status'[a] \in Active => status[a] \in Active
    /\ \A a \in Attempts : status[a] = "free" /\ status'[a] # "free" =>
         /\ ConversationLock(row'[a].conv) \notin held[u]
         /\ NetworkLock(row'[a].net) \notin held[u]
    /\ \A a \in Attempts : RowLock(a) \in held[u] /\ status[a] # "free" =>
         status'[a] = status[a] /\ lease'[a] = lease[a]
    /\ \A e \in Embeds : EmbedLock(e) \in held[u] => embed'[e] = embed[e]
    /\ \A c \in Conversations : ConversationLock(c) \in held[u] =>
         revision'[c] = revision[c] /\ tail'[c] = tail[c] /\ issued'[c] = issued[c]
    /\ call[u] \in Renewal => \A a \in call[u].owned : lease'[a] = lease[a]

Untouched(u) ==
    /\ pc'[u] = pc[u] /\ call'[u] = call[u] /\ start'[u] = start[u]
    /\ todo'[u] = todo[u] /\ marks'[u] = marks[u] /\ held'[u] = held[u]

\* What a step of others leaves: the stage and the locks of u.
LEMMA LocksKept ==
    ASSUME NEW u \in Transactions, StageOK(u), HoldsOK(u), Respects(u), Untouched(u),
           clock \in Nat, clock' \in Nat, Processes
    PROVE  StageOK(u)' /\ HoldsOK(u)'
<1>1. StageOK(u)'
  <2>1. start[u] \in Nat
    BY DEF Processes
  <2>2. start'[u] <= clock'
    BY <2>1 DEF StageOK, Respects, Untouched
  <2>. QED  BY <2>2 DEF StageOK, Untouched
<1>2. /\ Around(u)' <=> Around(u)
      /\ PastEmbed(u)' <=> PastEmbed(u)
      /\ PastNetwork(u)' <=> PastNetwork(u)
      /\ PastConversation(u)' <=> PastConversation(u)
  BY DEF Around, PastEmbed, PastNetwork, PastConversation, Untouched
<1>3. HoldsOK(u)'
  BY <1>2 DEF HoldsOK, Untouched
<1>. QED  BY <1>1, <1>3

\* What an attempt u holds the row of, or has to do with, is still there.
LEMMA SelectsKept ==
    ASSUME NEW u \in Transactions, HoldsOK(u), StageOK(u), Respects(u), Untouched(u),
           Tables, Processes, Tables', NEW a \in Attempts, RowLock(a) \in held[u],
           Selects(u, a)
    PROVE  Selects(u, a)'
<1>1. status[a] # "free"
  BY DEF Selects, Active
<1>2. /\ call'[u] = call[u] /\ start'[u] = start[u]
      /\ status'[a] = status[a] /\ lease'[a] = lease[a]
  BY <1>1 DEF Respects, Untouched
<1>3. row'[a] = row[a]
  BY <1>1 DEF Respects
<1>. QED  BY <1>2, <1>3 DEF Selects

\* No further row comes to be chosen by an acceptance that has chosen.
LEMMA NothingSelected ==
    ASSUME NEW u \in Transactions, HoldsOK(u), StageOK(u), Respects(u), Untouched(u),
           Tables, Processes, Tables', Searched(u), NEW a \in Attempts, Selects(u, a)'
    PROVE  Selects(u, a)
<1>1. call[u] \in Acceptance /\ call'[u] = call[u] /\ start'[u] = start[u]
  BY DEF StageOK, Searched, Untouched
<1>2. PastConversation(u) /\ PastNetwork(u)
  BY <1>1 DEF Searched, PastConversation, PastNetwork, PastEmbed, Around
<1>3. /\ ConversationLock(call[u].conv) \in held[u]
      /\ NetworkLock(call[u].net) \in held[u]
  BY <1>2 DEF HoldsOK
<1>4. call[u].kind = "accept" /\ start[u] \in Nat
  BY <1>1 DEF Acceptance, Processes
<1>5. /\ status'[a] \in Active /\ lease'[a] < start[u]
      /\ row'[a].conv = call[u].conv \/ row'[a].net = call[u].net
  BY <1>1, <1>4 DEF Selects
<1>6. status'[a] # "free"
  BY <1>5 DEF Active
<1>7. status[a] # "free"
  BY <1>3, <1>5, <1>6 DEF Respects
<1>8. status[a] \in Active /\ row'[a] = row[a] /\ lease'[a] >= lease[a]
  BY <1>5, <1>7 DEF Respects
<1>9. lease[a] < start[u]
  BY <1>4, <1>5, <1>8 DEF Tables
<1>. QED  BY <1>4, <1>5, <1>8, <1>9 DEF Selects

\* Its rows stay as it found them.
LEMMA RowsKept ==
    ASSUME NEW u \in Transactions, Sound(u), Respects(u), Untouched(u),
           Tables, Processes, Tables'
    PROVE  RowsOK(u)'
<1>1. StageOK(u) /\ HoldsOK(u) /\ RowsOK(u)
  BY DEF Sound
<1>2. \A a \in marks'[u] : Selects(u, a)'
  <2> TAKE a \in marks'[u]
  <2>1. a \in marks[u] /\ a \in Attempts
    BY DEF Untouched, Processes
  <2>2. RowLock(a) \in held[u] /\ Selects(u, a)
    BY <1>1, <2>1 DEF HoldsOK, RowsOK
  <2>. QED  BY <1>1, <2>1, <2>2, SelectsKept
<1>3. Searched(u)' <=> Searched(u)
  BY DEF Searched, Untouched
<1>4. Searched(u)' => \A a \in Attempts : Selects(u, a)' => a \in todo'[u] \cup marks'[u]
  BY <1>1, <1>3, NothingSelected DEF RowsOK, Untouched
<1>5. call'[u] \in Finalization =>
        /\ status'[call'[u].turn] # "free"
        /\ row'[call'[u].turn].conv = call'[u].conv
  BY <1>1 DEF RowsOK, Untouched, Respects, Finalization
<1>6. pc'[u] = "publish" => status'[call'[u].turn] = "running"
  <2>. SUFFICES ASSUME pc'[u] = "publish"  PROVE status'[call'[u].turn] = "running"
    OBVIOUS
  <2>1. pc[u] = "publish" /\ call'[u] = call[u]
    BY DEF Untouched
  <2>2. call[u] \in Finalization /\ RowLock(call[u].turn) \in held[u]
    BY <1>1, <2>1 DEF StageOK, HoldsOK
  <2>3. call[u].turn \in Attempts
    BY <2>2 DEF Finalization
  <2>. QED  BY <1>1, <2>1, <2>2, <2>3 DEF RowsOK, Respects
<1>7. call'[u] \in Renewal => \A a \in call'[u].owned :
        status'[a] # "free" /\ lease'[a] <= start'[u] + LeaseTime
  <2>. SUFFICES ASSUME call'[u] \in Renewal, NEW a \in call'[u].owned
                PROVE  status'[a] # "free" /\ lease'[a] <= start'[u] + LeaseTime
    OBVIOUS
  <2>1. call[u] \in Renewal /\ a \in call[u].owned /\ start'[u] = start[u]
    BY DEF Untouched
  <2>2. a \in Attempts
    BY <2>1 DEF Renewal
  <2>3. status[a] # "free" /\ lease[a] <= start[u] + LeaseTime /\ lease'[a] = lease[a]
    BY <1>1, <2>1 DEF RowsOK, Respects
  <2>. QED  BY <2>1, <2>2, <2>3 DEF Respects
<1>. QED  BY <1>2, <1>4, <1>5, <1>6, <1>7 DEF RowsOK

\* The turns of a conversation, and the calls from a network, only get fewer
\* under its lock.
LEMMA FewerTurns ==
    ASSUME NEW u \in Transactions, Respects(u), NEW c, NEW n
    PROVE  /\ ConversationLock(c) \in held[u] =>
                /\ TurnsOf(c)' \subseteq TurnsOf(c)
                /\ TurnsOf(c)' \cap ActiveTurns' \subseteq TurnsOf(c) \cap ActiveTurns
           /\ NetworkLock(n) \in held[u] =>
                CallsFrom(n)' \cap ActiveTurns' \subseteq CallsFrom(n) \cap ActiveTurns
           /\ \A a \in Accepted : row'[a] = row[a]
<1>1. \A a \in Accepted : row'[a] = row[a] /\ (status'[a] \in Active => a \in ActiveTurns)
  BY DEF Respects, Accepted, ActiveTurns
<1>2. ASSUME ConversationLock(c) \in held[u], NEW a \in TurnsOf(c)'
      PROVE  a \in TurnsOf(c)
  <2>1. a \in Attempts /\ status'[a] # "free" /\ row'[a].conv = c
    BY <1>2 DEF TurnsOf, Accepted
  <2>2. a \in Accepted
    BY <1>2, <2>1 DEF Respects, Accepted
  <2>. QED  BY <1>1, <2>1, <2>2 DEF TurnsOf
<1>3. ASSUME NetworkLock(n) \in held[u], NEW a \in CallsFrom(n)'
      PROVE  a \in CallsFrom(n)
  <2>1. a \in Attempts /\ status'[a] # "free" /\ row'[a].net = n
    BY <1>3 DEF CallsFrom, Accepted
  <2>2. a \in Accepted
    BY <1>3, <2>1 DEF Respects, Accepted
  <2>. QED  BY <1>1, <2>1, <2>2 DEF CallsFrom
<1>4. \A a \in Accepted : a \in ActiveTurns' => a \in ActiveTurns
  BY <1>1 DEF ActiveTurns
<1>5. TurnsOf(c) \subseteq Accepted /\ CallsFrom(n) \subseteq Accepted
  BY DEF TurnsOf, CallsFrom
<1>. QED  BY <1>1, <1>2, <1>3, <1>4, <1>5

\* What it has checked still holds.
LEMMA ChecksKept ==
    ASSUME NEW u \in Transactions, Sound(u), Respects(u), Untouched(u),
           Tables, Processes, Tables', IsFiniteSet(Accepted)
    PROVE  ChecksOK(u)'
<1>1. StageOK(u) /\ HoldsOK(u) /\ ChecksOK(u)
  BY DEF Sound
<1>2. CASE ~PastEmbed(u)
  <2>1. ~PastEmbed(u)'
    BY <1>2 DEF PastEmbed, Around, Untouched
  <2>. QED  BY <2>1 DEF ChecksOK, PastEmbed, Deciding
<1>3. CASE PastEmbed(u)
  <2>. DEFINE m == call[u]
  <2>1. m \in Acceptance /\ call'[u] = m /\ pc'[u] = pc[u] /\ marks'[u] = marks[u]
    BY <1>1, <1>3 DEF StageOK, PastEmbed, Around, Untouched
  <2>2. /\ m.conv \in Conversations /\ m.net \in Networks /\ m.embed \in Embeds
        /\ ConversationLock(m.conv) \in held[u]
        /\ NetworkLock(m.net) \in held[u]
        /\ EmbedLock(m.embed) \in held[u]
    BY <1>1, <1>3, <2>1 DEF HoldsOK, PastNetwork, PastConversation, Acceptance
  <2>3. /\ embed'[m.embed] = embed[m.embed]
        /\ revision'[m.conv] = revision[m.conv] /\ tail'[m.conv] = tail[m.conv]
        /\ issued'[m.conv] = issued[m.conv]
    BY <2>2 DEF Respects
  <2>4. /\ TurnsOf(m.conv)' \subseteq TurnsOf(m.conv)
        /\ TurnsOf(m.conv)' \cap ActiveTurns' \subseteq TurnsOf(m.conv) \cap ActiveTurns
        /\ CallsFrom(m.net)' \cap ActiveTurns' \subseteq CallsFrom(m.net) \cap ActiveTurns
        /\ \A a \in Accepted : row'[a] = row[a]
    BY <2>1, <2>2, FewerTurns
  <2>5. pc[u] \in {"history", "busy", "cap", "insert"} => Answering(u)' = {}
    <3>1. TurnsOf(m.conv) \subseteq Accepted
      BY DEF TurnsOf
    <3>. QED  BY <1>1, <2>1, <2>4, <3>1 DEF ChecksOK, Answering
  <2>6. pc[u] \in {"cap", "insert"} =>
          TurnsOf(m.conv)' \cap ActiveTurns' \subseteq marks[u]
    BY <1>1, <2>4 DEF ChecksOK
  <2>7. pc[u] = "insert" =>
          Cardinality((CallsFrom(m.net)' \cap ActiveTurns') \ marks[u]) < ConcurrencyLimit
    <3>. DEFINE X == (CallsFrom(m.net) \cap ActiveTurns) \ marks[u]
                Y == (CallsFrom(m.net)' \cap ActiveTurns') \ marks[u]
    <3>1. X \subseteq Accepted /\ Y \subseteq X
      BY <2>4 DEF CallsFrom
    <3>2. IsFiniteSet(X)
      BY <3>1, FS_Subset
    <3>3. IsFiniteSet(Y) /\ Cardinality(Y) <= Cardinality(X)
      BY <3>1, <3>2, FS_Subset
    <3>4. Cardinality(X) \in Nat /\ Cardinality(Y) \in Nat
      BY <3>2, <3>3, FS_CardinalityType
    <3>5. pc[u] = "insert" => Cardinality(X) < ConcurrencyLimit
      BY <1>1 DEF ChecksOK
    <3>. HIDE DEF X, Y
    <3>6. pc[u] = "insert" => Cardinality(Y) < ConcurrencyLimit
      BY <3>3, <3>4, <3>5, TransactionAssumption
    <3>. QED  BY <3>6 DEF Y
  <2>8. issued[m.conv] \in {None, Credential(u)} => issued'[m.conv] \in {None, Credential(u)'}
    BY <2>1, <2>3 DEF Credential
  <2>9. PastEmbed(u) /\ PastEmbed(u)'
    BY <1>3, <2>1 DEF PastEmbed, Around
  <2>. QED
    BY <1>1, <2>1, <2>3, <2>5, <2>6, <2>7, <2>8, <2>9 DEF ChecksOK
<1>. QED  BY <1>2, <1>3

\* A transaction no step of others disturbs stays sound.
LEMMA OthersKept ==
    ASSUME NEW u \in Transactions, Inv, Respects(u), Untouched(u), Tables',
           clock' \in Nat
    PROVE  Sound(u)'
<1>1. Sound(u) /\ Tables /\ Processes /\ clock \in Nat /\ IsFiniteSet(Accepted)
  BY DEF Inv
<1>2. StageOK(u)' /\ HoldsOK(u)'
  BY <1>1, LocksKept DEF Sound
<1>3. RowsOK(u)'
  BY <1>1, RowsKept
<1>4. ChecksOK(u)'
  BY <1>1, ChecksKept
<1>. QED  BY <1>2, <1>3, <1>4 DEF Sound

-----------------------------------------------------------------------------
(* The three shapes a step has: of one transaction that leaves the tables  *)
(* alone, of one that ends, and of the tables alone.                       *)

\* A transaction that holds nothing and runs nothing is sound.
LEMMA IdleIsSound ==
    ASSUME NEW t \in Transactions, Inv, End(t), clock' \in Nat
    PROVE  Sound(t)'
<1>1. Processes
  BY DEF Inv
<1>2. /\ pc'[t] = "idle" /\ call'[t] = NoCall /\ start'[t] = 0
      /\ todo'[t] = {} /\ marks'[t] = {} /\ held'[t] = {}
  BY <1>1 DEF End, Processes
<1>3. NoCall \notin Acceptance \cup Finalization \cup Renewal
  BY DEF NoCall, Acceptance, Finalization, Renewal
<1>4. ~PastEmbed(t)' /\ ~PastNetwork(t)' /\ ~PastConversation(t)' /\ ~Searched(t)'
  BY <1>2 DEF PastEmbed, PastNetwork, PastConversation, Searched, Around, Deciding
<1>5. StageOK(t)'
  BY <1>2 DEF StageOK, Deciding
<1>6. HoldsOK(t)'
  BY <1>2, <1>4 DEF HoldsOK
<1>7. RowsOK(t)'
  BY <1>2, <1>3, <1>4 DEF RowsOK
<1>8. ChecksOK(t)'
  BY <1>2, <1>4 DEF ChecksOK, Deciding
<1>. QED  BY <1>5, <1>6, <1>7, <1>8 DEF Sound

\* Where the tables and the time stay, nobody is disturbed.
LEMMA QuietRespects ==
    ASSUME Tables, clock \in Nat, UNCHANGED <<tables, clock>>, NEW u \in Transactions
    PROVE  Respects(u)
  BY DEF Tables, tables, Respects

\* A step of transaction t that leaves the tables alone.
LEMMA LocalStep ==
    ASSUME Inv, NEW t \in Transactions, UNCHANGED <<tables, clock>>, Processes',
           \A u \in Transactions : u # t => Untouched(u),
           Sound(t)', Exclusive', RenewalsApart'
    PROVE  Inv'
<1>1. Tables' /\ clock' \in Nat /\ IsFiniteSet(Accepted)' /\ LeasesBounded'
  BY DEF Inv, Tables, tables, Accepted, LeasesBounded
<1>2. \A u \in Transactions : u # t => Sound(u)'
  <2> TAKE u \in Transactions
  <2>1. Respects(u)
    BY QuietRespects DEF Inv
  <2>. QED  BY <1>1, <2>1, OthersKept
<1>. QED  BY <1>1, <1>2 DEF Inv

\* A step with which transaction t ends.
LEMMA EndStep ==
    ASSUME Inv, NEW t \in Transactions, End(t), Tables',
           \A u \in Transactions : u # t => Respects(u),
           IsFiniteSet(Accepted)', LeasesBounded'
    PROVE  Inv'
<1>1. Processes /\ clock \in Nat
  BY DEF Inv
<1>2. clock' \in Nat /\ clock' = clock
  BY <1>1 DEF End
<1>3. Processes'
  BY <1>1 DEF Processes, End, Calls, Stage
<1>4. \A u \in Transactions : u # t => Untouched(u)
  BY <1>1 DEF Processes, End, Untouched
<1>5. \A u \in Transactions : u # t => Sound(u)'
  BY <1>2, <1>4, OthersKept
<1>6. Sound(t)'
  BY <1>2, IdleIsSound
<1>7. held'[t] = {} /\ call'[t] = NoCall /\ NoCall \notin Renewal
  BY <1>1 DEF End, Processes, NoCall, Renewal
<1>8. Exclusive'
  BY <1>4, <1>7 DEF Inv, Exclusive, Untouched
<1>9. RenewalsApart'
  BY <1>4, <1>7 DEF Inv, RenewalsApart, Untouched
<1>. QED  BY <1>2, <1>3, <1>5, <1>6, <1>8, <1>9 DEF Inv

\* A step of the tables or the clock that is no part of a transaction.
LEMMA OutsideStep ==
    ASSUME Inv, UNCHANGED transactions, Tables', clock' \in Nat,
           \A u \in Transactions : Respects(u),
           IsFiniteSet(Accepted)', LeasesBounded'
    PROVE  Inv'
<1>1. Processes' /\ Exclusive' /\ RenewalsApart'
  BY DEF Inv, Processes, Exclusive, RenewalsApart, transactions
<1>2. \A u \in Transactions : Sound(u)'
  BY OthersKept DEF Untouched, transactions
<1>. QED  BY <1>1, <1>2 DEF Inv

-----------------------------------------------------------------------------
(* The steps with which a transaction ends.                                *)

\* What a sound transaction is about to change is its own to change.
LEMMA MarksAreOwn ==
    ASSUME Inv, NEW t \in Transactions, NEW a \in marks[t]
    PROVE  /\ a \in Attempts /\ Selects(t, a)
           /\ status[a] \in Active /\ status[a] # "free"
           /\ \A u \in Transactions : u # t => RowLock(a) \notin held[u]
<1>1. HoldsOK(t) /\ RowsOK(t) /\ Exclusive /\ Processes
  BY DEF Inv, Sound
<1>2. a \in Attempts /\ Selects(t, a) /\ RowLock(a) \in held[t]
  BY <1>1 DEF HoldsOK, RowsOK, Processes
<1>3. status[a] \in Active
  BY <1>2 DEF Selects, Active
<1>. QED  BY <1>1, <1>2, <1>3 DEF Exclusive, Active

\* A rollback.
LEMMA RollbackStep ==
    ASSUME Inv, NEW t \in Transactions, Rollback(t)
    PROVE  Inv'
<1>1. End(t) /\ UNCHANGED tables /\ clock' = clock
  BY DEF Rollback, End
<1>2. Tables' /\ IsFiniteSet(Accepted)' /\ LeasesBounded'
  BY <1>1 DEF Inv, Tables, tables, Accepted, LeasesBounded
<1>3. \A u \in Transactions : u # t => Respects(u)
  BY <1>1, QuietRespects DEF Inv
<1>. QED  BY <1>1, <1>2, <1>3, EndStep

\* The end of a sweep, and of an acceptance that finds its request answered.
LEMMA InterruptStep ==
    ASSUME Inv, NEW t \in Transactions, End(t), status' = Interrupted(t),
           UNCHANGED <<embed, issued, revision, tail, row, counter, lease>>
    PROVE  Inv'
<1>1. Tables /\ clock \in Nat /\ clock' = clock /\ Processes
  BY DEF Inv, End
<1>2. \A a \in marks[t] : a \in Attempts /\ status[a] \in Active /\ status[a] # "free"
                          /\ \A u \in Transactions : u # t => RowLock(a) \notin held[u]
  BY MarksAreOwn
<1>3. \A a \in Attempts : status'[a] = IF a \in marks[t] THEN "interrupted" ELSE status[a]
  BY DEF Interrupted
<1>4. status' \in [Attempts -> Status]
  BY <1>1 DEF Interrupted, Tables, Status
<1>5. Tables'
  <2>1. \A a \in Attempts : status'[a] # "free" => status[a] # "free"
    BY <1>2, <1>3
  <2>. QED  BY <1>1, <1>4, <2>1 DEF Tables
<1>6. \A u \in Transactions : u # t => Respects(u)
  BY <1>1, <1>2, <1>3 DEF Respects, Tables, Active
<1>7. IsFiniteSet(Accepted)'
  <2>1. Accepted' \subseteq Accepted
    BY <1>2, <1>3 DEF Accepted
  <2>. QED  BY <2>1, FS_Subset DEF Inv
<1>8. LeasesBounded'
  BY <1>1 DEF Inv, LeasesBounded
<1>. QED  BY <1>5, <1>6, <1>7, <1>8, EndStep

\* The renewal of leases.
LEMMA CommitRenewStep ==
    ASSUME Inv, NEW t \in Transactions, CommitRenew(t)
    PROVE  Inv'
<1>1. /\ Tables /\ clock \in Nat /\ clock' = clock /\ Processes
      /\ End(t) /\ call[t].kind = "renew"
      /\ UNCHANGED <<embed, issued, revision, tail, row, status, counter>>
  BY DEF Inv, End, CommitRenew
<1>2. call[t] \in Renewal /\ start[t] \in Nat /\ start[t] <= clock
  BY <1>1, CallKinds DEF Processes, Inv, Sound, StageOK
<1>3. \A a \in marks[t] :
        /\ a \in Attempts /\ a \in call[t].owned
        /\ \A u \in Transactions : u # t => RowLock(a) \notin held[u]
        /\ lease[a] <= start[t] + LeaseTime
  BY <1>1, <1>2, MarksAreOwn DEF Selects, Inv, Sound, RowsOK
<1>4. \A a \in Attempts : lease'[a] = IF a \in marks[t] THEN start[t] + LeaseTime ELSE lease[a]
  BY DEF CommitRenew
<1>5. lease' \in [Attempts -> Nat] /\ \A a \in Attempts : lease[a] \in Nat
  BY <1>1, <1>2, TransactionAssumption DEF CommitRenew, Tables
<1>6. Tables'
  BY <1>1, <1>5 DEF Tables
<1>7. \A a \in Attempts : lease'[a] >= lease[a]
  BY <1>2, <1>3, <1>4, <1>5, TransactionAssumption
<1>8. \A u \in Transactions : u # t => Respects(u)
  <2> SUFFICES ASSUME NEW u \in Transactions, u # t  PROVE Respects(u)
    OBVIOUS
  <2>1. call[u] \in Renewal => \A a \in call[u].owned : lease'[a] = lease[a]
    <3>1. call[u] \in Renewal => call[t].owned \cap call[u].owned = {}
      BY <1>2 DEF Inv, RenewalsApart
    <3>2. call[u] \in Renewal => call[u].owned \subseteq Attempts
      BY DEF Renewal
    <3>. QED  BY <1>3, <1>4, <3>1, <3>2
  <2>2. \A a \in Attempts : RowLock(a) \in held[u] => lease'[a] = lease[a]
    BY <1>3, <1>4
  <2>. QED  BY <1>1, <1>7, <2>1, <2>2 DEF Respects
<1>9. IsFiniteSet(Accepted)' /\ LeasesBounded'
  <2>1. IsFiniteSet(Accepted)'
    BY <1>1 DEF Inv, Accepted
  <2>2. LeasesBounded'
    BY <1>1, <1>2, <1>4, <1>5, TransactionAssumption DEF Inv, LeasesBounded
  <2>. QED  BY <2>1, <2>2
<1>. QED  BY <1>1, <1>6, <1>8, <1>9, EndStep

\* The commit of an acceptance.
LEMMA CommitAcceptStep ==
    ASSUME Inv, NEW t \in Transactions, NEW a \in Attempts, CommitAccept(t, a)
    PROVE  Inv'
<1>. DEFINE m == call[t]
<1>1. /\ Tables /\ clock \in Nat /\ clock' = clock /\ Processes /\ Exclusive
      /\ End(t) /\ pc[t] = "insert" /\ status[a] = "free" /\ a \notin marks[t]
      /\ UNCHANGED <<embed, revision, tail>>
  <2>1. a \notin marks[t]
    BY MarksAreOwn DEF CommitAccept
  <2>. QED  BY <2>1 DEF Inv, End, CommitAccept
<1>2. /\ m \in Acceptance /\ start[t] \in Nat /\ start[t] <= clock
      /\ ConversationLock(m.conv) \in held[t] /\ NetworkLock(m.net) \in held[t]
  <2>1. Sound(t)
    BY DEF Inv
  <2>2. PastConversation(t) /\ PastNetwork(t)
    BY <1>1 DEF PastConversation, PastNetwork, PastEmbed, Deciding
  <2>. QED  BY <1>1, <2>1, <2>2 DEF Sound, StageOK, HoldsOK, Deciding, Processes
<1>3. /\ m.conv \in Conversations /\ m.req \in Requests /\ m.net \in Networks
      /\ m.embed \in Embeds /\ m.version \in Versions /\ m.rev \in Nat
      /\ m.tail \in Attempts \cup {None}
  BY <1>2 DEF Acceptance
<1>4. \A u \in Transactions : u # t =>
        ConversationLock(m.conv) \notin held[u] /\ NetworkLock(m.net) \notin held[u]
  BY <1>1, <1>2 DEF Exclusive
<1>5. \A b \in marks[t] : b \in Attempts /\ status[b] \in Active /\ status[b] # "free"
                          /\ \A u \in Transactions : u # t => RowLock(b) \notin held[u]
  BY MarksAreOwn
<1>6. \A b \in Attempts : status'[b] = IF b = a THEN "accepted"
                                       ELSE IF b \in marks[t] THEN "interrupted" ELSE status[b]
  BY DEF CommitAccept, Interrupted
<1>7. status' \in [Attempts -> Status]
  BY <1>1 DEF CommitAccept, Interrupted, Tables, Status, Active
<1>8. /\ row' = [row EXCEPT ![a] = [conv |-> m.conv, req |-> m.req, net |-> m.net,
                                    rev |-> m.rev, tail |-> m.tail]]
      /\ lease' = [lease EXCEPT ![a] = start[t] + LeaseTime]
      /\ issued' = [issued EXCEPT ![m.conv] = Credential(t)]
      /\ counter' = [counter EXCEPT ![m.net] = @ + 1]
  BY DEF CommitAccept
<1>9. row'[a] \in Row /\ row'[a].conv = m.conv /\ row'[a].net = m.net
  BY <1>1, <1>3, <1>8 DEF Tables, Row
<1>10. \A b \in Attempts : b # a => row'[b] = row[b] /\ lease'[b] = lease[b]
  BY <1>1, <1>8 DEF Tables
<1>11. Credential(t) \in Session
  BY <1>3 DEF Credential, Session
<1>12. Tables'
  <2>1. row' \in [Attempts -> Row \cup {None}]
    BY <1>1, <1>8, <1>9 DEF Tables
  <2>2. issued' \in [Conversations -> Session \cup {None}] /\ counter' \in [Networks -> Nat]
    BY <1>1, <1>3, <1>8, <1>11 DEF Tables
  <2>3. lease' \in [Attempts -> Nat]
    BY <1>1, <1>2, <1>8, TransactionAssumption DEF Tables
  <2>4. \A b \in Attempts : status'[b] # "free" => row'[b] \in Row
    BY <1>1, <1>5, <1>6, <1>9, <1>10 DEF Tables
  <2>5. /\ embed' \in [Embeds -> [version : Versions, disabled : BOOLEAN]]
        /\ revision' \in [Conversations -> Nat]
        /\ tail' \in [Conversations -> Attempts \cup {None}]
    BY <1>1 DEF Tables
  <2>. QED  BY <1>7, <2>1, <2>2, <2>3, <2>4, <2>5 DEF Tables
<1>13. \A u \in Transactions : u # t => Respects(u)
  <2> SUFFICES ASSUME NEW u \in Transactions, u # t  PROVE Respects(u)
    OBVIOUS
  <2>1. \A b \in Attempts : status[b] # "free" =>
          row'[b] = row[b] /\ status'[b] # "free" /\ lease'[b] >= lease[b]
    BY <1>1, <1>5, <1>6, <1>10 DEF Tables
  <2>2. \A b \in Attempts : status[b] # "free" /\ status'[b] \in Active => status[b] \in Active
    BY <1>1, <1>6 DEF Active
  <2>3. \A b \in Attempts : status[b] = "free" /\ status'[b] # "free" =>
          /\ ConversationLock(row'[b].conv) \notin held[u]
          /\ NetworkLock(row'[b].net) \notin held[u]
    BY <1>4, <1>5, <1>6, <1>9
  <2>4. \A b \in Attempts : RowLock(b) \in held[u] /\ status[b] # "free" =>
          status'[b] = status[b] /\ lease'[b] = lease[b]
    BY <1>1, <1>5, <1>6, <1>10
  <2>5. \A c \in Conversations : ConversationLock(c) \in held[u] =>
          revision'[c] = revision[c] /\ tail'[c] = tail[c] /\ issued'[c] = issued[c]
    BY <1>1, <1>4, <1>8 DEF Tables
  <2>6. call[u] \in Renewal => \A b \in call[u].owned : lease'[b] = lease[b]
    <3>1. call[u] \in Renewal => \A b \in call[u].owned : status[b] # "free" /\ b \in Attempts
      BY DEF Inv, Sound, RowsOK, Renewal
    <3>. QED  BY <1>1, <1>10, <3>1
  <2>. QED  BY <1>1, <2>1, <2>2, <2>3, <2>4, <2>5, <2>6 DEF Respects
<1>14. IsFiniteSet(Accepted)'
  <2>1. Accepted' \subseteq Accepted \cup {a}
    BY <1>5, <1>6 DEF Accepted
  <2>2. IsFiniteSet(Accepted \cup {a})
    BY FS_AddElement DEF Inv
  <2>. QED  BY <2>1, <2>2, FS_Subset
<1>15. LeasesBounded'
  BY <1>1, <1>2, <1>8, <1>10, TransactionAssumption DEF Inv, LeasesBounded, Tables
<1>. QED  BY <1>1, <1>12, <1>13, <1>14, <1>15, EndStep

\* The commit of a finalization.
LEMMA CommitFinalizeStep ==
    ASSUME Inv, NEW t \in Transactions, CommitFinalize(t)
    PROVE  Inv'
<1>. DEFINE m == call[t]
<1>1. /\ Tables /\ clock \in Nat /\ clock' = clock /\ Processes /\ Exclusive
      /\ End(t) /\ pc[t] = "publish"
      /\ UNCHANGED <<embed, issued, row, counter, lease>>
  BY DEF Inv, End, CommitFinalize
<1>2. /\ m \in Finalization /\ ConversationLock(m.conv) \in held[t]
      /\ RowLock(m.turn) \in held[t]
      /\ status[m.turn] = "running"
  <2>1. Sound(t) /\ PastConversation(t)
    BY <1>1 DEF Inv, PastConversation
  <2>. QED  BY <1>1, <2>1 DEF Sound, StageOK, HoldsOK, RowsOK
<1>3. m.conv \in Conversations /\ m.turn \in Attempts /\ m.outcome \in RunOutcome
  BY <1>2 DEF Finalization
<1>4. \A u \in Transactions : u # t =>
        ConversationLock(m.conv) \notin held[u] /\ RowLock(m.turn) \notin held[u]
  BY <1>1, <1>2 DEF Exclusive
<1>5. /\ status' = [status EXCEPT ![m.turn] = m.outcome]
      /\ \A c \in Conversations : c # m.conv => revision'[c] = revision[c] /\ tail'[c] = tail[c]
      /\ revision' \in [Conversations -> Nat]
      /\ tail' \in [Conversations -> Attempts \cup {None}]
  BY <1>1, <1>3 DEF CommitFinalize, Tables
<1>6. m.outcome \notin Active /\ m.outcome # "free" /\ m.outcome \in Status
  BY <1>3 DEF RunOutcome, Active, Status
<1>7. \A a \in Attempts : status'[a] = IF a = m.turn THEN m.outcome ELSE status[a]
  BY <1>1, <1>5 DEF Tables
<1>8. Tables'
  <2>1. status' \in [Attempts -> Status]
    BY <1>1, <1>5, <1>6 DEF Tables
  <2>2. \A a \in Attempts : status'[a] # "free" => row'[a] \in Row
    BY <1>1, <1>2, <1>3, <1>7 DEF Tables
  <2>. QED  BY <1>1, <1>5, <2>1, <2>2 DEF Tables
<1>9. \A u \in Transactions : u # t => Respects(u)
  <2> SUFFICES ASSUME NEW u \in Transactions, u # t  PROVE Respects(u)
    OBVIOUS
  <2>1. \A a \in Attempts : status[a] # "free" =>
          row'[a] = row[a] /\ status'[a] # "free" /\ lease'[a] >= lease[a]
    BY <1>1, <1>6, <1>7 DEF Tables
  <2>2. \A a \in Attempts : status[a] = "free" => status'[a] = "free"
    BY <1>2, <1>7
  <2>3. \A a \in Attempts : status[a] # "free" /\ status'[a] \in Active => status[a] \in Active
    BY <1>6, <1>7
  <2>4. \A a \in Attempts : RowLock(a) \in held[u] /\ status[a] # "free" =>
          status'[a] = status[a] /\ lease'[a] = lease[a]
    BY <1>1, <1>4, <1>7
  <2>. QED  BY <1>1, <1>4, <1>5, <2>1, <2>2, <2>3, <2>4 DEF Respects
<1>10. IsFiniteSet(Accepted)' /\ LeasesBounded'
  <2>1. Accepted' \subseteq Accepted
    BY <1>2, <1>7 DEF Accepted
  <2>2. LeasesBounded'
    BY <1>1 DEF Inv, LeasesBounded
  <2>. QED  BY <2>1, <2>2, FS_Subset DEF Inv
<1>. QED  BY <1>1, <1>8, <1>9, <1>10, EndStep

-----------------------------------------------------------------------------
(* The steps that are no part of a longer transaction.                     *)

\* An attempt is marked running, whoever else runs.
LEMMA MarkRunningStep ==
    ASSUME Inv, NEW a \in Attempts, MarkRunning(a)
    PROVE  Inv'
<1>1. /\ Tables /\ clock \in Nat /\ clock' = clock
      /\ status[a] = "accepted" /\ Free(RowLock(a))
      /\ UNCHANGED <<embed, issued, revision, tail, row, counter, lease>>
      /\ UNCHANGED transactions
  BY DEF Inv, MarkRunning
<1>2. \A b \in Attempts : status'[b] = IF b = a THEN "running" ELSE status[b]
  BY <1>1 DEF MarkRunning, Tables
<1>3. Tables'
  <2>1. status' \in [Attempts -> Status]
    BY <1>1 DEF MarkRunning, Tables, Status, Active
  <2>2. \A b \in Attempts : status'[b] # "free" => row'[b] \in Row
    BY <1>1, <1>2 DEF Tables
  <2>. QED  BY <1>1, <2>1, <2>2 DEF Tables
<1>4. \A u \in Transactions : Respects(u)
  BY <1>1, <1>2 DEF Respects, Tables, Free, Active
<1>5. IsFiniteSet(Accepted)' /\ LeasesBounded'
  <2>1. Accepted' = Accepted
    BY <1>1, <1>2 DEF Accepted
  <2>. QED  BY <1>1, <2>1 DEF Inv, LeasesBounded
<1>. QED  BY <1>1, <1>3, <1>4, <1>5, OutsideStep

\* An operator changes an embed that no acceptance has locked.
LEMMA EmbedStep ==
    ASSUME Inv, NEW e \in Embeds, Free(EmbedLock(e)),
           embed' \in [Embeds -> [version : Versions, disabled : BOOLEAN]],
           \A d \in Embeds : d # e => embed'[d] = embed[d],
           UNCHANGED <<issued, revision, tail, row, status, counter, lease, clock, transactions>>
    PROVE  Inv'
<1>1. Tables' /\ clock' \in Nat
  BY DEF Inv, Tables
<1>2. \A u \in Transactions : Respects(u)
  BY DEF Inv, Respects, Tables, Free
<1>3. IsFiniteSet(Accepted)' /\ LeasesBounded'
  BY DEF Inv, Accepted, LeasesBounded
<1>. QED  BY <1>1, <1>2, <1>3, OutsideStep

\* Both administrative statements are of that kind.
LEMMA AdministrationStep ==
    ASSUME Inv, NEW e \in Embeds, RevokeSessions(e) \/ SetDisabled(e)
    PROVE  Inv'
<1>1. CASE RevokeSessions(e)
  <2>1. embed[e].version + 1 \in Versions
    BY <1>1, TransactionAssumption DEF RevokeSessions, Versions, Inv, Tables
  <2>2. embed' \in [Embeds -> [version : Versions, disabled : BOOLEAN]]
    BY <1>1, <2>1 DEF RevokeSessions, Inv, Tables
  <2>3. \A d \in Embeds : d # e => embed'[d] = embed[d]
    BY <1>1 DEF RevokeSessions, Inv, Tables
  <2>. QED  BY <1>1, <2>2, <2>3, EmbedStep DEF RevokeSessions
<1>2. CASE SetDisabled(e)
  <2>2. embed' \in [Embeds -> [version : Versions, disabled : BOOLEAN]]
    BY <1>2 DEF SetDisabled, Inv, Tables
  <2>3. \A d \in Embeds : d # e => embed'[d] = embed[d]
    BY <1>2 DEF SetDisabled, Inv, Tables
  <2>. QED  BY <1>2, <2>2, <2>3, EmbedStep DEF SetDisabled
<1>. QED  BY <1>1, <1>2

\* Time passes.
LEMMA TickStep ==
    ASSUME Inv, Tick
    PROVE  Inv'
<1>1. /\ Tables /\ clock \in Nat /\ clock' = clock + 1
      /\ UNCHANGED <<tables, transactions>>
  BY DEF Inv, Tick
<1>2. Tables' /\ clock' \in Nat
  BY <1>1 DEF Tables, tables
<1>3. \A u \in Transactions : Respects(u)
  BY <1>1 DEF Respects, Tables, tables
<1>4. IsFiniteSet(Accepted)' /\ LeasesBounded'
  BY <1>1, TransactionAssumption DEF Inv, Accepted, LeasesBounded, Tables, tables
<1>. QED  BY <1>1, <1>2, <1>3, <1>4, OutsideStep

-----------------------------------------------------------------------------
(* The steps of a transaction that leave the tables alone.                 *)

\* No call is of two kinds.
LEMMA KindsDiffer ==
    /\ \A x \in Acceptance : x.kind = "accept" /\ x \notin Finalization \cup Sweep \cup Renewal
    /\ \A x \in Finalization : x.kind = "finalize" /\ x \notin Sweep \cup Renewal
    /\ \A x \in Sweep : x.kind = "sweep" /\ x \notin Renewal
    /\ \A x \in Renewal : x.kind = "renew"
    /\ NoCall \notin Acceptance \cup Finalization \cup Sweep \cup Renewal
  BY DEF Acceptance, Finalization, Sweep, Renewal, NoCall

\* An idle transaction holds no lock.
LEMMA IdleHoldsNothing ==
    ASSUME Inv, NEW t \in Transactions, pc[t] = "idle"
    PROVE  held[t] = {} /\ todo[t] = {} /\ marks[t] = {}
<1>1. StageOK(t) /\ HoldsOK(t) /\ held[t] \subseteq Locks
  BY DEF Inv, Sound, Processes
<1>2. ~PastConversation(t) /\ ~PastNetwork(t) /\ ~PastEmbed(t)
  BY DEF PastConversation, PastNetwork, PastEmbed, Around, Deciding
<1>3. held[t] = {}
  BY <1>1, <1>2 DEF HoldsOK, Locks, Deciding
<1>. QED  BY <1>1, <1>3 DEF StageOK, Deciding

\* A transaction begins: with what its call says of the tables, it is sound.
LEMMA BeginStep ==
    ASSUME Inv, NEW t \in Transactions, NEW what \in Calls, NEW stage,
           Begin(t, what, stage),
           \/ stage = "conversation" /\ what \in Acceptance \cup Finalization
           \/ stage = "scan" /\ what \in Sweep \cup Renewal,
           what \in Finalization => status[what.turn] # "free" /\ row[what.turn].conv = what.conv,
           what \in Renewal =>
             /\ \A a \in what.owned : status[a] # "free" /\ lease[a] <= clock + LeaseTime
             /\ \A u \in Transactions \ {t} :
                  call[u] \in Renewal => call[u].owned \cap what.owned = {}
    PROVE  Inv'
<1>1. /\ Processes /\ clock \in Nat /\ Exclusive /\ RenewalsApart
      /\ pc[t] = "idle" /\ UNCHANGED <<tables, clock, todo, marks, held>>
  BY DEF Inv, Begin
<1>2. /\ pc'[t] = stage /\ call'[t] = what /\ start'[t] = clock
      /\ todo'[t] = {} /\ marks'[t] = {} /\ held'[t] = {}
  BY <1>1, IdleHoldsNothing DEF Begin, Processes
<1>3. Processes'
  BY <1>1 DEF Begin, Processes, Stage
<1>4. \A u \in Transactions : u # t => Untouched(u)
  BY <1>1 DEF Begin, Processes, Untouched
<1>5. ~PastConversation(t)' /\ ~PastNetwork(t)' /\ ~PastEmbed(t)' /\ ~Searched(t)'
  BY <1>2, KindsDiffer DEF PastConversation, PastNetwork, PastEmbed, Around, Searched, Deciding
<1>6. StageOK(t)'
  BY <1>1, <1>2 DEF StageOK, Deciding
<1>7. HoldsOK(t)'
  BY <1>2, <1>5 DEF HoldsOK
<1>8. RowsOK(t)'
  BY <1>1, <1>2, <1>5, KindsDiffer DEF RowsOK, tables
<1>9. ChecksOK(t)'
  BY <1>2, <1>5 DEF ChecksOK
<1>10. Exclusive'
  BY <1>1 DEF Exclusive
<1>11. RenewalsApart'
  BY <1>1, <1>2, <1>4 DEF RenewalsApart, Untouched
<1>. QED  BY <1>1, <1>3, <1>4, <1>6, <1>7, <1>8, <1>9, <1>10, <1>11, LocalStep DEF Sound

\* The transactions that begin.
LEMMA Beginnings ==
    ASSUME Inv, NEW t \in Transactions,
           BeginAccept(t) \/ BeginFinalize(t) \/ BeginSweep(t) \/ BeginRenew(t)
    PROVE  Inv'
<1>1. Tables /\ clock \in Nat /\ Processes /\ LeasesBounded
  BY DEF Inv
<1>2. CASE BeginAccept(t)
  <2>1. PICK c \in Conversations, q \in Requests, n \in Networks, e \in Embeds :
          Begin(t, [kind |-> "accept", conv |-> c, req |-> q, net |-> n, embed |-> e,
                    version |-> embed[e].version, rev |-> revision[c], tail |-> tail[c]],
                "conversation")
    BY <1>2 DEF BeginAccept
  <2>. DEFINE what == [kind |-> "accept", conv |-> c, req |-> q, net |-> n, embed |-> e,
                       version |-> embed[e].version, rev |-> revision[c], tail |-> tail[c]]
  <2>2. what \in Acceptance
    BY <1>1 DEF Acceptance, Tables
  <2>. HIDE DEF what
  <2>3. Begin(t, what, "conversation")
    BY <2>1 DEF what
  <2>. QED  BY <2>2, <2>3, BeginStep, KindsDiffer DEF Calls
<1>3. CASE BeginFinalize(t)
  <2>1. PICK a \in Accepted, o \in RunOutcome :
          Begin(t, [kind |-> "finalize", conv |-> row[a].conv, turn |-> a, outcome |-> o],
                "conversation")
    BY <1>3 DEF BeginFinalize, FinalizeOrder
  <2>. DEFINE what == [kind |-> "finalize", conv |-> row[a].conv, turn |-> a, outcome |-> o]
  <2>2. a \in Attempts /\ status[a] # "free"
    BY DEF Accepted
  <2>3. what \in Finalization /\ what.turn = a /\ what.conv = row[a].conv
    BY <1>1, <2>2 DEF Finalization, Tables, Row
  <2>. HIDE DEF what
  <2>4. Begin(t, what, "conversation")
    BY <2>1 DEF what
  <2>. QED  BY <2>2, <2>3, <2>4, BeginStep, KindsDiffer DEF Calls
<1>4. CASE BeginSweep(t)
  <2>. DEFINE what == [kind |-> "sweep"]
  <2>1. what \in Sweep
    BY DEF Sweep
  <2>. HIDE DEF what
  <2>2. Begin(t, what, "scan")
    BY <1>4 DEF BeginSweep, what
  <2>. QED  BY <2>1, <2>2, BeginStep, KindsDiffer DEF Calls
<1>5. CASE BeginRenew(t)
  <2>1. PICK O \in SUBSET Running \ {{}} :
          /\ \A u \in Transactions :
               pc[u] # "idle" /\ call[u].kind = "renew" => call[u].owned \cap O = {}
          /\ Begin(t, [kind |-> "renew", owned |-> O], "scan")
    BY <1>5 DEF BeginRenew
  <2>. DEFINE what == [kind |-> "renew", owned |-> O]
  <2>2. \A a \in O : a \in Attempts /\ status[a] # "free"
    BY DEF Running, Accepted
  <2>3. what \in Renewal /\ what.owned = O
    BY <2>2 DEF Renewal
  <2>4. \A u \in Transactions : call[u] \in Renewal => call[u].owned \cap O = {}
    <3> SUFFICES ASSUME NEW u \in Transactions, call[u] \in Renewal
                 PROVE  call[u].owned \cap O = {}
      OBVIOUS
    <3>1. StageOK(u)
      BY DEF Inv, Sound
    <3>2. pc[u] # "idle" /\ call[u].kind = "renew"
      BY <3>1, KindsDiffer DEF StageOK
    <3>. QED  BY <2>1, <3>2
  <2>. HIDE DEF what
  <2>5. Begin(t, what, "scan")
    BY <2>1 DEF what
  <2>6. \A a \in what.owned : status[a] # "free" /\ lease[a] <= clock + LeaseTime
    BY <1>1, <2>2, <2>3 DEF LeasesBounded
  <2>7. what \notin Finalization /\ what \in Calls
    BY <2>3, KindsDiffer DEF Calls
  <2>. QED  BY <2>3, <2>4, <2>5, <2>6, <2>7, BeginStep
<1>. QED  BY <1>2, <1>3, <1>4, <1>5

\* A step that takes no lock changes nothing but what its transaction is at.
LEMMA ProceedFacts ==
    ASSUME Inv, NEW t \in Transactions, NEW stage \in Stage, Proceed(t, stage)
    PROVE  /\ Processes' /\ Exclusive' /\ RenewalsApart'
           /\ \A u \in Transactions : u # t => Untouched(u)
           /\ UNCHANGED <<tables, clock, call, start, todo, marks, held>>
           /\ pc'[t] = stage
<1>1. Processes /\ Exclusive /\ RenewalsApart
  BY DEF Inv
<1>2. UNCHANGED <<tables, clock, call, start, todo, marks, held>> /\ pc' = [pc EXCEPT ![t] = stage]
  BY DEF Proceed, Goto
<1>3. pc'[t] = stage /\ \A u \in Transactions : u # t => pc'[u] = pc[u]
  BY <1>1, <1>2 DEF Processes
<1>4. Processes'
  BY <1>1, <1>2 DEF Processes
<1>5. Exclusive' /\ RenewalsApart'
  BY <1>1, <1>2 DEF Exclusive, RenewalsApart
<1>. QED  BY <1>2, <1>3, <1>4, <1>5 DEF Untouched

\* An acceptance that has its locks goes on: what it has found out by now is
\* what the next statement relies on.
LEMMA DecideStep ==
    ASSUME Inv, NEW t \in Transactions, NEW stage \in Deciding \cup {"scan"},
           Proceed(t, stage), call[t] \in Acceptance, todo[t] = {},
           IF stage = "scan" THEN pc[t] = "lookup" ELSE Searched(t),
           issued[call[t].conv] \in {None, Credential(t)},
           stage \in {"history", "busy", "cap", "insert"} => Answering(t) = {},
           stage \in {"busy", "cap", "insert"} =>
             revision[call[t].conv] = call[t].rev /\ tail[call[t].conv] = call[t].tail,
           stage \in {"cap", "insert"} =>
             TurnsOf(call[t].conv) \cap ActiveTurns \subseteq marks[t],
           stage = "insert" =>
             Cardinality((CallsFrom(call[t].net) \cap ActiveTurns) \ marks[t]) < ConcurrencyLimit
    PROVE  Inv'
<1>1. /\ Processes' /\ Exclusive' /\ RenewalsApart'
      /\ \A u \in Transactions : u # t => Untouched(u)
      /\ UNCHANGED <<tables, clock, call, start, todo, marks, held>>
      /\ pc'[t] = stage
  BY ProceedFacts DEF Stage, Deciding
<1>2. StageOK(t) /\ HoldsOK(t) /\ RowsOK(t) /\ ChecksOK(t)
  BY DEF Inv, Sound
<1>3. /\ PastEmbed(t) /\ PastNetwork(t) /\ PastConversation(t)
      /\ PastEmbed(t)' /\ PastNetwork(t)' /\ PastConversation(t)'
  BY <1>1 DEF PastEmbed, PastNetwork, PastConversation, Around, Searched
<1>4. StageOK(t)'
  BY <1>1, <1>2, KindsDiffer DEF StageOK, Deciding
<1>5. HoldsOK(t)'
  <2>1. \A a \in Attempts : RowLock(a) \in held[t] => stage \in Deciding
    BY <1>2 DEF HoldsOK, Deciding
  <2>. QED  BY <1>1, <1>2, <1>3, <2>1 DEF HoldsOK, Deciding
<1>6. RowsOK(t)'
  <2>1. \A a : Selects(t, a)' <=> Selects(t, a)
    BY <1>1 DEF Selects, tables
  <2>2. Searched(t)' => Searched(t)
    BY <1>1 DEF Searched, Deciding
  <2>3. /\ \A a \in marks'[t] : Selects(t, a)'
        /\ Searched(t)' => \A a \in Attempts : Selects(t, a)' => a \in todo'[t] \cup marks'[t]
    BY <1>1, <1>2, <2>1, <2>2 DEF RowsOK
  <2>. QED  BY <1>1, <2>3, KindsDiffer DEF RowsOK, Deciding
<1>7. ChecksOK(t)'
  <2>1. /\ Answering(t)' = Answering(t) /\ Credential(t)' = Credential(t)
        /\ TurnsOf(call[t].conv)' = TurnsOf(call[t].conv)
        /\ CallsFrom(call[t].net)' = CallsFrom(call[t].net)
        /\ ActiveTurns' = ActiveTurns
    BY <1>1 DEF Answering, Credential, TurnsOf, CallsFrom, ActiveTurns, Accepted, tables
  <2>2. /\ embed' = embed /\ issued' = issued /\ revision' = revision /\ tail' = tail
        /\ call' = call /\ marks' = marks
    BY <1>1 DEF tables
  <2>3. embed[call[t].embed] = [version |-> call[t].version, disabled |-> FALSE]
    BY <1>2, <1>3 DEF ChecksOK
  <2>. QED  BY <1>1, <2>1, <2>2, <2>3 DEF ChecksOK
<1>. QED  BY <1>1, <1>4, <1>5, <1>6, <1>7, LocalStep DEF Sound

\* Each of the checks of an acceptance.
LEMMA Checks ==
    ASSUME Inv, NEW t \in Transactions,
           \/ CheckConversation(t) \/ InterruptedAround(t) \/ CheckDuplicate(t)
           \/ CheckHistory(t) \/ CheckBusy(t) \/ CheckCap(t)
    PROVE  Inv'
<1>1. /\ StageOK(t) /\ RowsOK(t) /\ ChecksOK(t) /\ start[t] \in Nat /\ Tables
      /\ marks[t] \subseteq Attempts
  BY DEF Inv, Sound, Processes
<1>2. CASE CheckConversation(t)
  <2>1. pc[t] = "lookup" /\ call[t] \in Acceptance /\ todo[t] = {}
    BY <1>1, <1>2 DEF CheckConversation, StageOK
  <2>. QED  BY <1>2, <2>1, DecideStep DEF CheckConversation
<1>3. CASE InterruptedAround(t)
  <2>1. call[t] \in Acceptance /\ todo[t] = {} /\ pc[t] = "rows"
    BY <1>1, <1>3, KindsDiffer DEF InterruptedAround, Updated, StageOK
  <2>2. Searched(t) /\ issued[call[t].conv] \in {None, Credential(t)}
    BY <1>1, <2>1 DEF Searched, ChecksOK, PastEmbed, Around
  <2>. QED  BY <1>3, <2>1, <2>2, DecideStep DEF InterruptedAround, Deciding
<1>4. ASSUME pc[t] \in Deciding
      PROVE  /\ call[t] \in Acceptance /\ todo[t] = {} /\ Searched(t)
             /\ issued[call[t].conv] \in {None, Credential(t)}
  <2>1. call[t] \in Acceptance /\ todo[t] = {}
    BY <1>1, <1>4 DEF StageOK, Deciding
  <2>2. PastEmbed(t) /\ Searched(t) /\ pc[t] # "lookup"
    BY <1>4 DEF PastEmbed, Searched, Deciding
  <2>. QED  BY <1>1, <2>1, <2>2 DEF ChecksOK
<1>5. CASE CheckDuplicate(t)
  <2>1. pc[t] \in Deciding
    BY <1>5 DEF CheckDuplicate, Deciding
  <2>. QED  BY <1>4, <1>5, <2>1, DecideStep DEF CheckDuplicate, Deciding
<1>6. CASE CheckHistory(t)
  <2>1. pc[t] = "history" /\ pc[t] \in Deciding
    BY <1>6 DEF CheckHistory, Deciding
  <2>2. Answering(t) = {}
    BY <1>1, <2>1 DEF ChecksOK
  <2>. QED  BY <1>4, <1>6, <2>1, <2>2, DecideStep DEF CheckHistory, Deciding
<1>7. ASSUME pc[t] \in Deciding
      PROVE  /\ TurnsOf(call[t].conv) \cap (ActiveTurns \ marks[t]) \subseteq Unexpired(t)
             /\ CallsFrom(call[t].net) \cap (ActiveTurns \ marks[t]) \subseteq Unexpired(t)
  <2> SUFFICES ASSUME NEW a \in TurnsOf(call[t].conv) \cup CallsFrom(call[t].net),
                      a \in ActiveTurns, a \notin marks[t]
               PROVE  lease[a] >= start[t]
    BY DEF Unexpired
  <2>1. a \in Attempts /\ status[a] \in Active
    BY DEF ActiveTurns, Accepted
  <2>2. row[a].conv = call[t].conv \/ row[a].net = call[t].net
    BY DEF TurnsOf, CallsFrom
  <2>3. ~Selects(t, a)
    BY <1>1, <1>4, <1>7, <2>1 DEF RowsOK
  <2>4. call[t].kind = "accept"
    BY <1>4, <1>7, KindsDiffer
  <2>. QED  BY <1>1, <2>1, <2>2, <2>3, <2>4 DEF Selects, Tables
<1>8. CASE CheckBusy(t)
  <2>1. pc[t] = "busy" /\ pc[t] \in Deciding /\ TurnsOf(call[t].conv) \cap Unexpired(t) = {}
    BY <1>8 DEF CheckBusy, Deciding
  <2>2. TurnsOf(call[t].conv) \cap ActiveTurns \subseteq marks[t]
    BY <1>7, <2>1
  <2>3. /\ Answering(t) = {}
        /\ revision[call[t].conv] = call[t].rev /\ tail[call[t].conv] = call[t].tail
    BY <1>1, <2>1 DEF ChecksOK
  <2>. QED  BY <1>4, <1>8, <2>1, <2>2, <2>3, DecideStep DEF CheckBusy, Deciding
<1>9. CASE CheckCap(t)
  <2>1. /\ pc[t] = "cap" /\ pc[t] \in Deciding
        /\ Cardinality(CallsFrom(call[t].net) \cap Unexpired(t)) < ConcurrencyLimit
    BY <1>9 DEF CheckCap, Deciding
  <2>2. (CallsFrom(call[t].net) \cap ActiveTurns) \ marks[t] = CallsFrom(call[t].net) \cap Unexpired(t)
    <3>1. Unexpired(t) \subseteq ActiveTurns \ marks[t]
      BY DEF Unexpired
    <3>. QED  BY <1>7, <2>1, <3>1
  <2>3. /\ Answering(t) = {}
        /\ revision[call[t].conv] = call[t].rev /\ tail[call[t].conv] = call[t].tail
        /\ TurnsOf(call[t].conv) \cap ActiveTurns \subseteq marks[t]
    BY <1>1, <2>1 DEF ChecksOK
  <2>4. Cardinality((CallsFrom(call[t].net) \cap ActiveTurns) \ marks[t]) < ConcurrencyLimit
    BY <2>1, <2>2
  <2>. QED  BY <1>4, <1>9, <2>1, <2>3, <2>4, DecideStep DEF CheckCap, Deciding
<1>. QED  BY <1>2, <1>3, <1>5, <1>6, <1>8, <1>9

\* A step that takes a lock nobody holds.
LEMMA TakeFacts ==
    ASSUME Inv, NEW t \in Transactions, NEW l \in Locks, NEW stage \in Stage, Take(t, l, stage)
    PROVE  /\ Processes' /\ Exclusive' /\ RenewalsApart'
           /\ \A u \in Transactions : u # t => Untouched(u)
           /\ UNCHANGED <<tables, clock, call, start, todo, marks>>
           /\ pc'[t] = stage /\ held'[t] = held[t] \cup {l}
<1>1. Processes /\ Exclusive /\ RenewalsApart
  BY DEF Inv
<1>2. /\ UNCHANGED <<tables, clock, call, start, todo, marks>>
      /\ pc' = [pc EXCEPT ![t] = stage] /\ held' = [held EXCEPT ![t] = @ \cup {l}]
      /\ \A u \in Transactions : l \notin held[u]
  BY DEF Take, Goto, Free
<1>3. /\ pc'[t] = stage /\ held'[t] = held[t] \cup {l}
      /\ \A u \in Transactions : u # t => pc'[u] = pc[u] /\ held'[u] = held[u]
  BY <1>1, <1>2 DEF Processes
<1>4. Processes'
  BY <1>1, <1>2 DEF Processes
<1>5. RenewalsApart'
  BY <1>1, <1>2 DEF RenewalsApart
<1>6. Exclusive'
  BY <1>1, <1>2, <1>3 DEF Exclusive
<1>. QED  BY <1>2, <1>3, <1>4, <1>5, <1>6 DEF Untouched

\* Before a transaction has rows, a lock it takes leaves it sound if the stage
\* it reaches is right.
LEMMA TakeStep ==
    ASSUME Inv, NEW t \in Transactions, NEW l \in Locks,
           NEW stage \in {"network", "embed", "lookup", "update", "publish"},
           Take(t, l, stage), pc[t] \in {"conversation", "network", "embed", "update"},
           stage = "publish" => status[call[t].turn] = "running",
           IF stage \in {"update", "publish"} THEN call[t] \in Finalization
                                              ELSE call[t] \in Acceptance,
           HoldsOK(t)', ChecksOK(t)'
    PROVE  Inv'
<1>1. /\ Processes' /\ Exclusive' /\ RenewalsApart'
      /\ \A u \in Transactions : u # t => Untouched(u)
      /\ UNCHANGED <<tables, clock, call, start, todo, marks>>
      /\ pc'[t] = stage
  BY TakeFacts DEF Stage
<1>2. StageOK(t) /\ RowsOK(t)
  BY DEF Inv, Sound
<1>3. marks[t] = {} /\ todo[t] = {}
  BY <1>2 DEF StageOK, Deciding
<1>4. StageOK(t)'
  BY <1>1, <1>2, <1>3 DEF StageOK, Deciding
<1>5. RowsOK(t)'
  <2>1. ~Searched(t)' /\ marks'[t] = {}
    BY <1>1, <1>3 DEF Searched, Deciding
  <2>2. call[t] \notin Renewal /\ status' = status /\ row' = row /\ call' = call
    BY <1>1, KindsDiffer DEF tables
  <2>. QED  BY <1>1, <1>2, <2>1, <2>2 DEF RowsOK
<1>. QED  BY <1>1, <1>4, <1>5, LocalStep DEF Sound

\* The locks an acceptance and a finalization take before they touch a row.
LEMMA Locking ==
    ASSUME Inv, NEW t \in Transactions,
           LockConversation(t) \/ LockNetwork(t) \/ LockEmbed(t) \/ LockTurn(t)
    PROVE  Inv'
<1>1. StageOK(t) /\ HoldsOK(t)
  BY DEF Inv, Sound
<1>2. CASE LockConversation(t)
  <2>. DEFINE c == call[t].conv
              l == ConversationLock(c)
              stage == IF call[t].kind = "accept" THEN "network" ELSE "update"
  <2>1. /\ pc[t] = "conversation" /\ Take(t, l, stage)
        /\ call[t] \in Acceptance \cup Finalization
    BY <1>1, <1>2 DEF LockConversation, FinalizeOrder, StageOK
  <2>2. c \in Conversations /\ l \in Locks
    BY <2>1, LockNames DEF Acceptance, Finalization
  <2>3. IF stage = "update" THEN call[t] \in Finalization ELSE call[t] \in Acceptance
    BY <2>1, KindsDiffer
  <2>. HIDE DEF l
  <2>4. pc'[t] = stage /\ held'[t] = held[t] \cup {l} /\ UNCHANGED <<call, marks>>
    BY <2>1, <2>2, TakeFacts DEF Stage
  <2>5. /\ PastConversation(t)' /\ ~PastNetwork(t)' /\ ~PastEmbed(t)'
        /\ ~PastConversation(t) /\ ~PastNetwork(t) /\ ~PastEmbed(t) /\ marks[t] = {}
    BY <1>1, <2>1, <2>4
    DEF PastConversation, PastNetwork, PastEmbed, Around, Deciding, StageOK
  <2>6. HoldsOK(t)'
    <3>1. /\ \A n : NetworkLock(n) # l
          /\ \A e : EmbedLock(e) # l
          /\ \A a : RowLock(a) # l
      BY LocksDiffer DEF l
    <3>2. ConversationLock(call'[t].conv) \in held'[t]
      BY <2>4 DEF l
    <3>. QED  BY <1>1, <2>1, <2>4, <2>5, <3>1, <3>2 DEF HoldsOK, Deciding
  <2>7. ChecksOK(t)'
    BY <2>4, <2>5 DEF ChecksOK
  <2>. QED  BY <2>1, <2>2, <2>3, <2>6, <2>7, TakeStep
<1>3. CASE LockNetwork(t)
  <2>. DEFINE l == NetworkLock(call[t].net)
  <2>1. pc[t] = "network" /\ Take(t, l, "embed") /\ call[t] \in Acceptance
    BY <1>1, <1>3 DEF LockNetwork, StageOK
  <2>2. l \in Locks
    BY <2>1, LockNames DEF Acceptance
  <2>. HIDE DEF l
  <2>3. pc'[t] = "embed" /\ held'[t] = held[t] \cup {l} /\ UNCHANGED <<call, marks>>
    BY <2>1, <2>2, TakeFacts DEF Stage
  <2>4. /\ PastConversation(t)' /\ PastNetwork(t)' /\ ~PastEmbed(t)'
        /\ PastConversation(t) /\ ~PastNetwork(t) /\ ~PastEmbed(t) /\ marks[t] = {}
    BY <1>1, <2>1, <2>3
    DEF PastConversation, PastNetwork, PastEmbed, Around, Deciding, StageOK
  <2>5. HoldsOK(t)'
    <3>1. /\ \A e : EmbedLock(e) # l
          /\ \A a : RowLock(a) # l
      BY LocksDiffer DEF l
    <3>2. NetworkLock(call'[t].net) \in held'[t]
      BY <2>3 DEF l
    <3>. QED  BY <1>1, <2>1, <2>3, <2>4, <3>1, <3>2 DEF HoldsOK, Deciding
  <2>6. ChecksOK(t)'
    BY <2>3, <2>4 DEF ChecksOK
  <2>. QED  BY <2>1, <2>2, <2>5, <2>6, TakeStep
<1>4. CASE LockEmbed(t)
  <2>. DEFINE l == EmbedLock(call[t].embed)
  <2>1. /\ pc[t] = "embed" /\ Take(t, l, "lookup") /\ call[t] \in Acceptance
        /\ embed[call[t].embed] = [version |-> call[t].version, disabled |-> FALSE]
    BY <1>1, <1>4 DEF LockEmbed, StageOK
  <2>2. l \in Locks
    BY <2>1, LockNames DEF Acceptance
  <2>. HIDE DEF l
  <2>3. /\ pc'[t] = "lookup" /\ held'[t] = held[t] \cup {l}
        /\ UNCHANGED <<tables, call, marks>>
    BY <2>1, <2>2, TakeFacts DEF Stage
  <2>4. /\ PastConversation(t)' /\ PastNetwork(t)' /\ PastEmbed(t)'
        /\ PastConversation(t) /\ PastNetwork(t) /\ ~PastEmbed(t) /\ marks[t] = {}
    BY <1>1, <2>1, <2>3
    DEF PastConversation, PastNetwork, PastEmbed, Around, Deciding, StageOK
  <2>5. HoldsOK(t)'
    <3>1. \A a : RowLock(a) # l
      BY LocksDiffer DEF l
    <3>2. EmbedLock(call'[t].embed) \in held'[t]
      BY <2>3 DEF l
    <3>. QED  BY <1>1, <2>1, <2>3, <2>4, <3>1, <3>2 DEF HoldsOK, Deciding
  <2>6. ChecksOK(t)'
    BY <2>1, <2>3, <2>4 DEF ChecksOK, tables
  <2>. QED  BY <2>1, <2>2, <2>5, <2>6, TakeStep
<1>5. CASE LockTurn(t)
  <2>. DEFINE l == RowLock(call[t].turn)
  <2>1. /\ pc[t] = "update" /\ Take(t, l, "publish") /\ call[t] \in Finalization
        /\ status[call[t].turn] = "running"
    BY <1>1, <1>5 DEF LockTurn, FinalizeOrder, StageOK
  <2>2. l \in Locks
    BY <2>1, LockNames DEF Finalization
  <2>. HIDE DEF l
  <2>3. pc'[t] = "publish" /\ held'[t] = held[t] \cup {l} /\ UNCHANGED <<call, marks>>
    BY <2>1, <2>2, TakeFacts DEF Stage
  <2>4. /\ PastConversation(t)' /\ ~PastNetwork(t)' /\ ~PastEmbed(t)'
        /\ PastConversation(t) /\ ~PastNetwork(t) /\ ~PastEmbed(t) /\ marks[t] = {}
    BY <1>1, <2>1, <2>3
    DEF PastConversation, PastNetwork, PastEmbed, Around, Deciding, StageOK
  <2>5. HoldsOK(t)'
    <3>1. /\ \A n : NetworkLock(n) # l
          /\ \A e : EmbedLock(e) # l
      BY LocksDiffer DEF l
    <3>2. RowLock(call'[t].turn) \in held'[t]
      BY <2>3 DEF l
    <3>. QED  BY <1>1, <2>1, <2>3, <2>4, <3>1, <3>2 DEF HoldsOK, Deciding
  <2>6. ChecksOK(t)'
    BY <2>3, <2>4 DEF ChecksOK
  <2>. QED  BY <2>1, <2>2, <2>5, <2>6, TakeStep
<1>. QED  BY <1>2, <1>3, <1>4, <1>5

\* A transaction among its rows: those it has chosen, locked and marked.
LEMMA RowsStep ==
    ASSUME Inv, NEW t \in Transactions, pc[t] \in {"scan", "rows"}, pc'[t] = "rows",
           Processes', Exclusive', \A u \in Transactions : u # t => Untouched(u),
           UNCHANGED <<tables, clock, call, start>>,
           held[t] \subseteq held'[t],
           \A l \in held'[t] \ held[t] : \E a \in Attempts : l = RowLock(a),
           \A a \in marks'[t] : Selects(t, a) /\ RowLock(a) \in held'[t],
           \A a \in Attempts : Selects(t, a) /\ call[t] \in Acceptance
                                 => a \in todo'[t] \cup marks'[t]
    PROVE  Inv'
<1>1. StageOK(t) /\ HoldsOK(t) /\ RowsOK(t) /\ ChecksOK(t) /\ RenewalsApart
  BY DEF Inv, Sound
<1>2. /\ Around(t)' <=> Around(t)
      /\ PastEmbed(t)' <=> PastEmbed(t)
      /\ PastNetwork(t)' <=> PastNetwork(t)
      /\ PastConversation(t)' <=> PastConversation(t)
  BY DEF Around, PastEmbed, PastNetwork, PastConversation, Deciding
<1>3. StageOK(t)'
  BY <1>1 DEF StageOK, Deciding
<1>4. HoldsOK(t)'
  <2>1. /\ \A c : ConversationLock(c) \in held'[t] => ConversationLock(c) \in held[t]
        /\ \A n : NetworkLock(n) \in held'[t] => NetworkLock(n) \in held[t]
        /\ \A e : EmbedLock(e) \in held'[t] => EmbedLock(e) \in held[t]
    BY LocksDiffer
  <2>2. \A a \in marks'[t] : RowLock(a) \in held'[t]
    OBVIOUS
  <2>. QED  BY <1>1, <1>2, <2>1, <2>2 DEF HoldsOK
<1>5. RowsOK(t)'
  <2>1. \A a : Selects(t, a)' <=> Selects(t, a)
    BY DEF Selects, tables
  <2>2. Searched(t)' => call[t] \in Acceptance
    BY DEF Searched, Deciding
  <2>3. /\ \A a \in marks'[t] : Selects(t, a)'
        /\ Searched(t)' => \A a \in Attempts : Selects(t, a)' => a \in todo'[t] \cup marks'[t]
    BY <2>1, <2>2
  <2>4. call' = call /\ start' = start /\ status' = status /\ row' = row /\ lease' = lease
    BY DEF tables
  <2>. QED  BY <1>1, <2>3, <2>4 DEF RowsOK
<1>6. ChecksOK(t)'
  <2>1. call' = call /\ embed' = embed /\ issued' = issued /\ Credential(t)' = Credential(t)
    BY DEF tables, Credential
  <2>. QED  BY <1>1, <1>2, <2>1 DEF ChecksOK
<1>7. RenewalsApart'
  BY <1>1 DEF RenewalsApart
<1>. QED  BY <1>3, <1>4, <1>5, <1>6, <1>7, LocalStep DEF Sound

\* An UPDATE picks its rows and locks them one by one.
LEMMA Choosing ==
    ASSUME Inv, NEW t \in Transactions, Scan(t) \/ \E a \in Attempts : LockRow(t, a)
    PROVE  Inv'
<1>1. /\ Processes /\ Exclusive /\ StageOK(t) /\ HoldsOK(t) /\ RowsOK(t)
      /\ held[t] \subseteq Locks
  BY DEF Inv, Sound, Processes
<1>2. CASE Scan(t)
  <2>1. /\ pc[t] = "scan" /\ pc' = [pc EXCEPT ![t] = "rows"]
        /\ todo' = [todo EXCEPT ![t] = {a \in Attempts : Selects(t, a)}]
        /\ UNCHANGED <<tables, clock, call, start, marks, held>>
    BY <1>2 DEF Scan, Goto
  <2>2. /\ pc'[t] = "rows" /\ todo'[t] = {a \in Attempts : Selects(t, a)}
        /\ \A u \in Transactions : u # t => Untouched(u)
    BY <1>1, <2>1 DEF Processes, Untouched
  <2>3. Processes'
    BY <1>1, <2>1 DEF Processes, Stage
  <2>4. marks'[t] = {}
    BY <1>1, <2>1 DEF StageOK, Deciding
  <2>5. Exclusive' /\ held' = held
    BY <1>1, <2>1 DEF Exclusive
  <2>. QED  BY <2>1, <2>2, <2>3, <2>4, <2>5, RowsStep
<1>3. ASSUME NEW a \in Attempts, LockRow(t, a)
      PROVE  Inv'
  <2>1. /\ pc[t] = "rows" /\ \A u \in Transactions : RowLock(a) \notin held[u]
        /\ held' = [held EXCEPT ![t] = @ \cup {RowLock(a)}]
        /\ todo' = [todo EXCEPT ![t] = @ \ {a}]
        /\ marks' = [marks EXCEPT ![t] = IF Selects(t, a) THEN @ \cup {a} ELSE @]
        /\ UNCHANGED <<tables, clock, pc, call, start>>
    BY <1>3 DEF LockRow, Free
  <2>2. /\ held'[t] = held[t] \cup {RowLock(a)} /\ todo'[t] = todo[t] \ {a}
        /\ marks'[t] = IF Selects(t, a) THEN marks[t] \cup {a} ELSE marks[t]
        /\ \A u \in Transactions : u # t => Untouched(u)
    BY <1>1, <2>1 DEF Processes, Untouched
  <2>3. Processes'
    <3>1. RowLock(a) \in Locks
      BY LockNames
    <3>2. held' \in [Transactions -> SUBSET Locks]
      BY <1>1, <2>1, <3>1 DEF Processes
    <3>3. todo' \in [Transactions -> SUBSET Attempts]
      BY <1>1, <2>1 DEF Processes
    <3>4. marks' \in [Transactions -> SUBSET Attempts]
      BY <1>1, <2>1 DEF Processes
    <3>. QED  BY <1>1, <2>1, <3>2, <3>3, <3>4 DEF Processes
  <2>4. \A b \in marks'[t] : Selects(t, b) /\ RowLock(b) \in held'[t]
    BY <1>1, <2>2 DEF RowsOK, HoldsOK
  <2>5. \A b \in Attempts : Selects(t, b) /\ call[t] \in Acceptance
                              => b \in todo'[t] \cup marks'[t]
    BY <1>1, <2>1, <2>2 DEF RowsOK, Searched
  <2>6. Exclusive'
    BY <1>1, <2>1, <2>2 DEF Exclusive, Untouched
  <2>7. \A l \in held'[t] \ held[t] : \E b \in Attempts : l = RowLock(b)
    BY <2>2
  <2>. QED  BY <2>1, <2>2, <2>3, <2>4, <2>5, <2>6, <2>7, RowsStep
<1>. QED  BY <1>2, <1>3

-----------------------------------------------------------------------------
(* The invariant of the specification.                                     *)

\* It holds at the start.
LEMMA InitInv == Init => Inv
<1>. SUFFICES ASSUME Init  PROVE Inv
  OBVIOUS
<1>1. Tables
  BY TransactionAssumption DEF Init, Tables, Status, Active, Versions
<1>2. clock \in Nat /\ clock = 0
  BY DEF Init
<1>3. Processes
  BY DEF Init, Processes, Stage, Calls
<1>4. Accepted = {}
  BY DEF Init, Accepted
<1>5. IsFiniteSet(Accepted)
  BY <1>4, FS_EmptySet
<1>6. \A t \in Transactions :
        /\ pc[t] = "idle" /\ call[t] = NoCall /\ start[t] = 0
        /\ todo[t] = {} /\ marks[t] = {} /\ held[t] = {}
  BY DEF Init
<1>7. Exclusive /\ RenewalsApart
  BY <1>6, KindsDiffer DEF Exclusive, RenewalsApart
<1>8. LeasesBounded
  BY TransactionAssumption DEF Init, LeasesBounded
<1>9. \A t \in Transactions : Sound(t)
  <2> TAKE t \in Transactions
  <2>1. ~PastEmbed(t) /\ ~PastNetwork(t) /\ ~PastConversation(t) /\ ~Searched(t)
    BY <1>6 DEF PastEmbed, PastNetwork, PastConversation, Searched, Around, Deciding
  <2>2. StageOK(t)
    BY <1>2, <1>6 DEF StageOK, Deciding
  <2>3. HoldsOK(t)
    BY <1>6, <2>1 DEF HoldsOK
  <2>4. RowsOK(t)
    BY <1>6, <2>1, KindsDiffer DEF RowsOK
  <2>5. ChecksOK(t)
    BY <1>6, <2>1 DEF ChecksOK
  <2>. QED  BY <2>2, <2>3, <2>4, <2>5 DEF Sound
<1>. QED  BY <1>1, <1>2, <1>3, <1>5, <1>7, <1>8, <1>9 DEF Inv

\* A step of a transaction that is no commit and no rollback.
Quietly(t) ==
    \/ BeginAccept(t) \/ BeginFinalize(t) \/ BeginSweep(t) \/ BeginRenew(t)
    \/ LockConversation(t) \/ LockNetwork(t) \/ LockEmbed(t) \/ LockTurn(t)
    \/ CheckConversation(t) \/ InterruptedAround(t) \/ CheckDuplicate(t)
    \/ CheckHistory(t) \/ CheckBusy(t) \/ CheckCap(t)
    \/ Scan(t) \/ \E a \in Attempts : LockRow(t, a)

\* The steps by what they do to the tables.
LEMMA NextSteps ==
    Next => \/ \E t \in Transactions :
                 \/ Quietly(t) \/ Rollback(t)
                 \/ AnswerDuplicate(t) \/ CommitSweep(t) \/ CommitRenew(t) \/ CommitFinalize(t)
                 \/ \E a \in Attempts : CommitAccept(t, a)
            \/ \E a \in Attempts : MarkRunning(a)
            \/ \E e \in Embeds : RevokeSessions(e) \/ SetDisabled(e)
            \/ Tick
  BY Zenon DEF Next, Accepting, Quietly

\* It is kept by every step.
LEMMA NextInv == Inv /\ [Next]_vars => Inv'
<1>. SUFFICES ASSUME Inv, [Next]_vars  PROVE Inv'
  OBVIOUS
<1>1. CASE UNCHANGED vars
  <2>1. UNCHANGED transactions /\ UNCHANGED <<tables, clock>>
    BY <1>1 DEF vars
  <2>2. \A u \in Transactions : Respects(u)
    BY <2>1, QuietRespects DEF Inv
  <2>3. Tables' /\ clock' \in Nat /\ IsFiniteSet(Accepted)' /\ LeasesBounded'
    BY <2>1 DEF Inv, Tables, tables, Accepted, LeasesBounded
  <2>. QED  BY <2>1, <2>2, <2>3, OutsideStep
<1>2. ASSUME NEW t \in Transactions, Quietly(t)
      PROVE  Inv'
  BY <1>2, Beginnings, Locking, Checks, Choosing DEF Quietly
<1>3. ASSUME NEW t \in Transactions, Rollback(t)
      PROVE  Inv'
  BY <1>3, RollbackStep
<1>4. ASSUME NEW t \in Transactions, AnswerDuplicate(t) \/ CommitSweep(t)
      PROVE  Inv'
  BY <1>4, InterruptStep DEF AnswerDuplicate, CommitSweep
<1>5. ASSUME NEW t \in Transactions, CommitRenew(t)
      PROVE  Inv'
  BY <1>5, CommitRenewStep
<1>6. ASSUME NEW t \in Transactions, CommitFinalize(t)
      PROVE  Inv'
  BY <1>6, CommitFinalizeStep
<1>7. ASSUME NEW t \in Transactions, NEW a \in Attempts, CommitAccept(t, a)
      PROVE  Inv'
  BY <1>7, CommitAcceptStep
<1>8. ASSUME NEW a \in Attempts, MarkRunning(a)
      PROVE  Inv'
  BY <1>8, MarkRunningStep
<1>9. ASSUME NEW e \in Embeds, RevokeSessions(e) \/ SetDisabled(e)
      PROVE  Inv'
  BY <1>9, AdministrationStep
<1>10. ASSUME Tick
       PROVE  Inv'
  BY <1>10, TickStep
<1>. QED  BY <1>1, <1>2, <1>3, <1>4, <1>5, <1>6, <1>7, <1>8, <1>9, <1>10, NextSteps

\* Whatever the interleaving, a transaction may rely on what it has found out.
LEMMA Reliance == Spec => []Inv
<1>. QED  BY InitInv, NextInv, PTL DEF Spec

\* The types of the tables and of the transactions.
THEOREM TransactionTypes == Spec => []TypeOK
<1>1. Inv => TypeOK
  BY TypeParts DEF Inv
<1>. QED  BY <1>1, Reliance, PTL

-----------------------------------------------------------------------------
(* Deadlock: a transaction waits only for one that is further in the order *)
(* conversation, network, embed or finalized attempt, rows.                *)

Waiting(t) == pc[t] \in {"conversation", "network", "embed", "update", "rows"}

\* Only a transaction at one of these statements waits.
LEMMA WhoWaits ==
    ASSUME NEW t, NEW u, WaitsFor(t, u)
    PROVE  Waiting(t) /\ t # u
  BY DEF WaitsFor, Wants, Waiting

\* If the one it waits for waits too, then for a later lock.
LEMMA WaitsForLater ==
    ASSUME Inv, NEW t \in Transactions, NEW u \in Transactions, WaitsFor(t, u), Waiting(u)
    PROVE  /\ pc[t] \in {"embed", "update", "rows"} => pc[u] = "rows"
           /\ pc[t] = "network" => pc[u] \in {"embed", "rows"}
           /\ pc[t] = "conversation" => pc[u] \in {"network", "embed", "update", "rows"}
<1>1. PICK l \in held[u] : Wants(t, l)
  BY DEF WaitsFor
<1>2. /\ HoldsOK(u) /\ StageOK(t) /\ todo[t] \subseteq Attempts
  BY DEF Inv, Sound, Processes
<1>3. pc[u] \notin Deciding \cup {"publish", "lookup", "scan"}
  BY DEF Waiting, Deciding
<1>4. CASE pc[t] \in {"update", "rows"}
  <2>1. \E a \in Attempts : l = RowLock(a)
    BY <1>1, <1>2, <1>4 DEF Wants, StageOK, Finalization
  <2>. QED  BY <1>2, <1>3, <1>4, <2>1 DEF HoldsOK
<1>5. CASE pc[t] = "embed"
  <2>1. l = EmbedLock(call[t].embed) /\ call[t].embed \in Embeds
    BY <1>1, <1>2, <1>5 DEF Wants, StageOK, Acceptance
  <2>2. PastEmbed(u)
    BY <1>2, <2>1 DEF HoldsOK
  <2>. QED  BY <1>3, <1>5, <2>2 DEF PastEmbed, Around
<1>6. CASE pc[t] = "network"
  <2>1. l = NetworkLock(call[t].net) /\ call[t].net \in Networks
    BY <1>1, <1>2, <1>6 DEF Wants, StageOK, Acceptance
  <2>2. PastNetwork(u)
    BY <1>2, <2>1 DEF HoldsOK
  <2>. QED  BY <1>3, <1>6, <2>2 DEF PastNetwork, PastEmbed, Around
<1>7. CASE pc[t] = "conversation"
  <2>1. l = ConversationLock(call[t].conv) /\ call[t].conv \in Conversations
    BY <1>1, <1>2, <1>7 DEF Wants, StageOK, Acceptance, Finalization
  <2>2. PastConversation(u)
    BY <1>2, <2>1 DEF HoldsOK
  <2>. QED  BY <1>3, <1>7, <2>2 DEF PastConversation, PastNetwork, PastEmbed, Around
<1>8. Waiting(t)
  BY WhoWaits
<1>. QED  BY <1>4, <1>5, <1>6, <1>7, <1>8 DEF Waiting

\* However many transactions wait for one another in a circle, two of them
\* update several attempts: acceptance, finalization, the recovery of expired
\* attempts and the administration of embeds do not deadlock through the locks
\* of conversations, networks and embeds.
THEOREM DeadlocksAreOfUpdates == Spec => []OnlyUpdatesDeadlock
<1>1. Inv => OnlyUpdatesDeadlock
  <2>. SUFFICES ASSUME Inv, NEW S \in SUBSET Transactions, S # {},
                       \A t \in S : \E u \in S : WaitsFor(t, u)
                PROVE  \E t, u \in S : t # u /\ pc[t] = "rows" /\ pc[u] = "rows"
    BY DEF OnlyUpdatesDeadlock
  <2>1. \A t \in S : \E u \in S : WaitsFor(t, u) /\ Waiting(t) /\ Waiting(u) /\ t # u
    BY WhoWaits
  <2>2. \A t \in S : \E u \in S :
          /\ t # u
          /\ pc[t] \in {"embed", "update", "rows"} => pc[u] = "rows"
          /\ pc[t] = "network" => pc[u] \in {"embed", "rows"}
          /\ pc[t] = "conversation" => pc[u] \in {"network", "embed", "update", "rows"}
          /\ pc[t] \in {"conversation", "network", "embed", "update", "rows"}
    BY <2>1, WaitsForLater DEF Waiting
  <2>3. \E t \in S : pc[t] \in {"network", "embed", "update", "rows"}
    BY <2>2
  <2>4. \E t \in S : pc[t] \in {"embed", "update", "rows"}
    BY <2>2, <2>3
  <2>5. \E t \in S : pc[t] = "rows"
    BY <2>2, <2>4
  <2>. QED  BY <2>2, <2>5
<1>. QED  BY <1>1, Reliance, PTL

-----------------------------------------------------------------------------
(* Refinement: a transaction is one step of Acceptance, at its commit.     *)

Lapsed == {a \in Attempts : lease[a] < clock}

\* The terms of Acceptance are those of AcceptanceTx.
LEMMA SameTerms ==
    /\ \A c : Atomic!TurnsOf(c) = TurnsOf(c)
    /\ \A n : Atomic!CallsFrom(n) = CallsFrom(n)
    /\ Atomic!ActiveTurns = ActiveTurns
    /\ Atomic!Interruptible = ActiveTurns \cap Lapsed
    /\ \A Y : Atomic!Cardinality(Y) = Cardinality(Y)
<1>1. \A Y : Atomic!Cardinality(Y) = Cardinality(Y)
  BY DEF Atomic!Cardinality, Cardinality
<1>2. /\ \A c : Atomic!TurnsOf(c) = TurnsOf(c)
      /\ \A n : Atomic!CallsFrom(n) = CallsFrom(n)
      /\ Atomic!ActiveTurns = ActiveTurns
      /\ Atomic!Interruptible = ActiveTurns \cap Lapsed
  BY DEF Atomic!TurnsOf, Atomic!CallsFrom, Atomic!ActiveTurns, Atomic!Accepted, Atomic!Active,
         Atomic!Interruptible, TurnsOf, CallsFrom, ActiveTurns, Accepted, Active, Lapsed
<1>. QED  BY <1>1, <1>2

\* What a transaction has marked may be interrupted, and is in its reach.
LEMMA MarksAreInterruptible ==
    ASSUME Inv, NEW t \in Transactions, call[t] \in Acceptance \cup Sweep
    PROVE  /\ marks[t] \in SUBSET (ActiveTurns \cap Lapsed)
           /\ call[t] \in Acceptance =>
                marks[t] \subseteq TurnsOf(call[t].conv) \cup CallsFrom(call[t].net)
<1>1. /\ RowsOK(t) /\ marks[t] \subseteq Attempts /\ start[t] \in Nat /\ clock \in Nat
      /\ start[t] <= clock /\ lease \in [Attempts -> Nat]
  BY DEF Inv, Sound, Processes, StageOK, Tables
<1>2. call[t].kind # "renew" /\ (call[t] \in Acceptance => call[t].kind = "accept")
  BY KindsDiffer
<1>3. \A a \in marks[t] :
        /\ a \in Attempts /\ status[a] \in Active /\ lease[a] < clock
        /\ call[t] \in Acceptance => row[a].conv = call[t].conv \/ row[a].net = call[t].net
  <2> TAKE a \in marks[t]
  <2>1. /\ status[a] \in Active /\ lease[a] < start[t] /\ a \in Attempts
        /\ call[t] \in Acceptance => row[a].conv = call[t].conv \/ row[a].net = call[t].net
    BY <1>1, <1>2 DEF RowsOK, Selects
  <2>2. lease[a] < clock
    BY <1>1, <2>1
  <2>. QED  BY <2>1, <2>2
<1>4. \A a \in marks[t] : a \in Accepted
  BY <1>3 DEF Accepted, Active
<1>. QED  BY <1>3, <1>4 DEF ActiveTurns, Lapsed, TurnsOf, CallsFrom

\* The initial states agree.
LEMMA InitMaps == Init => Atomic!Init
<1>. SUFFICES ASSUME Init  PROVE Atomic!Init
  OBVIOUS
<1>1. {a \in Attempts : lease[a] < clock} = {}
  BY DEF Init
<1>. QED  BY <1>1 DEF Init, Atomic!Init

\* A sweep, and an acceptance that finds its request answered.
LEMMA InterruptMaps ==
    ASSUME Inv, NEW t \in Transactions, AnswerDuplicate(t) \/ CommitSweep(t)
    PROVE  Atomic!Next
<1>1. StageOK(t)
  BY DEF Inv, Sound
<1>2. call[t] \in Acceptance \cup Sweep
  BY <1>1, KindsDiffer DEF AnswerDuplicate, CommitSweep, Updated, StageOK, Deciding
<1>3. marks[t] \in SUBSET (ActiveTurns \cap Lapsed)
  BY <1>2, MarksAreInterruptible
<1>4. Atomic!Interrupt(marks[t])
  BY DEF AnswerDuplicate, CommitSweep, End, Interrupted, Atomic!Interrupt
<1>. QED  BY <1>3, <1>4, SameTerms DEF Atomic!Next

\* An acceptance: the embed, the conversation, the history and the load it
\* found are those of the moment it commits.
LEMMA AcceptMaps ==
    ASSUME Inv, NEW t \in Transactions, NEW a \in Attempts, CommitAccept(t, a)
    PROVE  Atomic!Next
<1>. DEFINE m == call[t]
            S == marks[t]
<1>1. /\ pc[t] = "insert" /\ counter[m.net] < DailyLimit /\ status[a] = "free"
      /\ row' = [row EXCEPT ![a] = [conv |-> m.conv, req |-> m.req, net |-> m.net,
                                    rev |-> m.rev, tail |-> m.tail]]
      /\ status' = [Interrupted(t) EXCEPT ![a] = "accepted"]
      /\ lease' = [lease EXCEPT ![a] = start[t] + LeaseTime]
      /\ issued' = [issued EXCEPT ![m.conv] = Credential(t)]
      /\ counter' = [counter EXCEPT ![m.net] = @ + 1]
      /\ clock' = clock /\ UNCHANGED <<embed, revision, tail>>
  BY DEF CommitAccept, End
<1>2. StageOK(t) /\ ChecksOK(t) /\ PastEmbed(t) /\ lease \in [Attempts -> Nat]
  BY <1>1 DEF Inv, Sound, Tables, PastEmbed, Deciding
<1>3. /\ m \in Acceptance
      /\ m.conv \in Conversations /\ m.req \in Requests /\ m.net \in Networks
      /\ m.embed \in Embeds
  BY <1>1, <1>2 DEF StageOK, Deciding, Acceptance
<1>4. /\ S \in SUBSET (ActiveTurns \cap Lapsed)
      /\ S \subseteq TurnsOf(m.conv) \cup CallsFrom(m.net)
  BY <1>3, MarksAreInterruptible
<1>5. /\ embed[m.embed] = [version |-> m.version, disabled |-> FALSE]
      /\ issued[m.conv] \in {None, Credential(t)}
      /\ Answering(t) = {}
      /\ revision[m.conv] = m.rev /\ tail[m.conv] = m.tail
      /\ TurnsOf(m.conv) \cap ActiveTurns \subseteq S
      /\ Cardinality((CallsFrom(m.net) \cap ActiveTurns) \ S) < ConcurrencyLimit
  BY <1>1, <1>2 DEF ChecksOK
<1>6. /\ embed[m.embed].version = m.version /\ ~embed[m.embed].disabled
      /\ Credential(t) = [embed |-> m.embed, version |-> embed[m.embed].version]
  BY <1>5 DEF Credential
<1>7. status' = [b \in Attempts |-> IF b = a THEN "accepted"
                                    ELSE IF b \in S THEN "interrupted" ELSE status[b]]
  BY <1>1 DEF Interrupted
<1>8. \A b \in TurnsOf(m.conv) : row[b].req # m.req
  BY <1>5 DEF Answering
<1>9. Lapsed' \in {Lapsed \ {a}, Lapsed \cup {a}}
  <2>1. \A b \in Attempts \ {a} : lease'[b] = lease[b]
    BY <1>1, <1>2
  <2>2. \A b \in Attempts \ {a} : b \in Lapsed' <=> b \in Lapsed
    BY <1>1, <2>1 DEF Lapsed
  <2>3. Lapsed \subseteq Attempts /\ Lapsed' \subseteq Attempts
    BY DEF Lapsed
  <2>4. CASE a \in Lapsed'
    <3>1. Lapsed' = Lapsed \cup {a}
      BY <2>2, <2>3, <2>4
    <3>. QED  BY <3>1
  <2>5. CASE a \notin Lapsed'
    <3>1. Lapsed' = Lapsed \ {a}
      BY <2>2, <2>3, <2>5
    <3>. QED  BY <3>1
  <2>. QED  BY <2>4, <2>5
<1>10. {b \in Attempts : lease'[b] < clock'} = Lapsed' /\ {b \in Attempts : lease[b] < clock} = Lapsed
  BY DEF Lapsed
<1>11. PICK c \in Conversations, q \in Requests, n \in Networks, e \in Embeds,
            X \in SUBSET (ActiveTurns \cap Lapsed) :
         m.conv = c /\ m.req = q /\ m.net = n /\ m.embed = e /\ S = X
  BY <1>3, <1>4
<1>12. Atomic!Accept(c, q, n, e, a, X)
  <2>1. /\ X \subseteq TurnsOf(c) \cup CallsFrom(n)
        /\ TurnsOf(c) \cap ActiveTurns \subseteq X
        /\ Cardinality((CallsFrom(n) \cap ActiveTurns) \ X) < ConcurrencyLimit
        /\ ~embed[e].disabled
        /\ issued[c] \in {None, [embed |-> e, version |-> embed[e].version]}
        /\ counter[n] < DailyLimit /\ status[a] = "free"
    BY <1>1, <1>4, <1>5, <1>6, <1>11
  <2>2. /\ row' = [row EXCEPT ![a] = [conv |-> c, req |-> q, net |-> n,
                                      rev |-> revision[c], tail |-> tail[c]]]
        /\ issued' = [issued EXCEPT ![c] = [embed |-> e, version |-> embed[e].version]]
        /\ counter' = [counter EXCEPT ![n] = @ + 1]
        /\ UNCHANGED <<embed, revision, tail>>
    BY <1>1, <1>5, <1>6, <1>11
  <2>3. /\ status' = [b \in Attempts |-> IF b = a THEN "accepted"
                                         ELSE IF b \in X THEN "interrupted" ELSE status[b]]
        /\ \A b \in TurnsOf(c) : row[b].req # q
    BY <1>7, <1>8, <1>11
  <2>4. {b \in Attempts : lease'[b] < clock'}
          \in {{b \in Attempts : lease[b] < clock} \ {a}, {b \in Attempts : lease[b] < clock} \cup {a}}
    BY <1>9, <1>10
  <2>5. /\ X \subseteq Atomic!TurnsOf(c) \cup Atomic!CallsFrom(n)
        /\ \A b \in Atomic!TurnsOf(c) : row[b].req # q
        /\ Atomic!TurnsOf(c) \cap Atomic!ActiveTurns \subseteq X
        /\ Cardinality((Atomic!CallsFrom(n) \cap Atomic!ActiveTurns) \ X) < ConcurrencyLimit
    BY <2>1, <2>3, SameTerms
  <2>. QED  BY <2>1, <2>2, <2>3, <2>4, <2>5, SameTerms DEF Atomic!Accept
<1>13. X \in SUBSET Atomic!Interruptible
  BY <1>11, SameTerms
<1>. QED  BY <1>12, <1>13 DEF Atomic!Next

\* A finalization.
LEMMA FinishMaps ==
    ASSUME Inv, NEW t \in Transactions, CommitFinalize(t)
    PROVE  Atomic!Next
<1>. DEFINE m == call[t]
<1>1. /\ pc[t] = "publish" /\ status' = [status EXCEPT ![m.turn] = m.outcome]
      /\ IF m.outcome = "completed"
         THEN /\ revision' = [revision EXCEPT ![m.conv] = @ + 1]
              /\ tail' = [tail EXCEPT ![m.conv] = m.turn]
         ELSE UNCHANGED <<revision, tail>>
      /\ UNCHANGED <<embed, issued, row, counter, lease, clock>>
  BY DEF CommitFinalize, End
<1>2. StageOK(t) /\ RowsOK(t)
  BY DEF Inv, Sound
<1>3. /\ m.turn \in Attempts /\ m.outcome \in RunOutcome
      /\ status[m.turn] = "running" /\ row[m.turn].conv = m.conv
  BY <1>1, <1>2 DEF StageOK, RowsOK, Finalization
<1>4. {b \in Attempts : lease'[b] < clock'} = {b \in Attempts : lease[b] < clock}
  BY <1>1
<1>. HIDE DEF m
<1>5. Atomic!Finish(m.turn, m.outcome)
  BY <1>1, <1>3, <1>4 DEF Atomic!Finish
<1>. QED  BY <1>3, <1>5 DEF Atomic!Next, Atomic!RunOutcome, RunOutcome

\* Time passes, and leases are renewed.
LEMMA TimeMaps ==
    ASSUME Tick \/ \E t \in Transactions : CommitRenew(t)
    PROVE  Atomic!Next
<1>1. UNCHANGED <<embed, issued, revision, tail, row, status, counter>>
  BY DEF Tick, tables, CommitRenew
<1>2. {b \in Attempts : lease'[b] < clock'} \in SUBSET Attempts
  OBVIOUS
<1>3. Atomic!PassTime
  BY <1>1, <1>2 DEF Atomic!PassTime
<1>. QED  BY <1>3 DEF Atomic!Next

\* The statements of one row.
LEMMA RowMaps ==
    ASSUME \/ \E a \in Attempts : MarkRunning(a)
           \/ \E e \in Embeds : RevokeSessions(e) \/ SetDisabled(e)
    PROVE  Atomic!Next
<1>1. {b \in Attempts : lease'[b] < clock'} = {b \in Attempts : lease[b] < clock}
  BY DEF MarkRunning, RevokeSessions, SetDisabled
<1>2. ASSUME NEW a \in Attempts, MarkRunning(a)
      PROVE  Atomic!Next
  <2>1. Atomic!Start(a)
    BY <1>1, <1>2 DEF MarkRunning, Atomic!Start
  <2>. QED  BY <2>1 DEF Atomic!Next
<1>3. ASSUME NEW e \in Embeds, RevokeSessions(e)
      PROVE  Atomic!Next
  <2>1. Atomic!Revoke(e)
    BY <1>1, <1>3 DEF RevokeSessions, Atomic!Revoke
  <2>. QED  BY <2>1 DEF Atomic!Next
<1>4. ASSUME NEW e \in Embeds, SetDisabled(e)
      PROVE  Atomic!Next
  <2>1. Atomic!Switch(e)
    BY <1>1, <1>4 DEF SetDisabled, Atomic!Switch
  <2>. QED  BY <2>1 DEF Atomic!Next
<1>. QED  BY <1>2, <1>3, <1>4

\* Where the tables and the time stay, the abstract specification stutters.
LEMMA StutterMaps ==
    ASSUME UNCHANGED <<tables, clock>>
    PROVE  UNCHANGED Atomic!tables
<1>1. UNCHANGED <<embed, issued, revision, tail, row, status, counter, lease, clock>>
  BY DEF tables
<1>2. {b \in Attempts : lease'[b] < clock'} = {b \in Attempts : lease[b] < clock}
  BY <1>1
<1>. QED  BY <1>1, <1>2 DEF Atomic!tables

\* A transaction that only looks, waits, locks or is rolled back.
LEMMA QuietSteps ==
    ASSUME NEW t \in Transactions, Quietly(t) \/ Rollback(t)
    PROVE  UNCHANGED <<tables, clock>>
<1>1. CASE BeginAccept(t) \/ BeginFinalize(t) \/ BeginSweep(t) \/ BeginRenew(t)
  BY <1>1 DEF BeginAccept, BeginFinalize, BeginSweep, BeginRenew, Begin
<1>2. CASE LockConversation(t) \/ LockNetwork(t) \/ LockEmbed(t) \/ LockTurn(t)
  BY <1>2 DEF LockConversation, LockNetwork, LockEmbed, LockTurn, Take
<1>3. CASE \/ CheckConversation(t) \/ InterruptedAround(t) \/ CheckDuplicate(t)
           \/ CheckHistory(t) \/ CheckBusy(t) \/ CheckCap(t)
  BY <1>3 DEF CheckConversation, InterruptedAround, CheckDuplicate, CheckHistory, CheckBusy,
              CheckCap, Proceed
<1>4. CASE Scan(t) \/ \E a \in Attempts : LockRow(t, a)
  BY <1>4 DEF Scan, LockRow
<1>5. CASE Rollback(t)
  BY <1>5 DEF Rollback, End
<1>. QED  BY <1>1, <1>2, <1>3, <1>4, <1>5 DEF Quietly

\* Every step of the transactions is a step of Acceptance or a stutter.
LEMMA NextMaps == Inv /\ [Next]_vars => [Atomic!Next]_(Atomic!tables)
<1>. SUFFICES ASSUME Inv, [Next]_vars  PROVE Atomic!Next \/ UNCHANGED Atomic!tables
  OBVIOUS
<1>1. CASE UNCHANGED vars
  <2>1. UNCHANGED <<tables, clock>>
    BY <1>1 DEF vars
  <2>. QED  BY <2>1, StutterMaps
<1>2. ASSUME NEW t \in Transactions, Quietly(t) \/ Rollback(t)
      PROVE  UNCHANGED Atomic!tables
  BY <1>2, QuietSteps, StutterMaps
<1>3. ASSUME NEW t \in Transactions, AnswerDuplicate(t) \/ CommitSweep(t)
      PROVE  Atomic!Next
  BY <1>3, InterruptMaps
<1>4. ASSUME NEW t \in Transactions, CommitRenew(t)
      PROVE  Atomic!Next
  BY <1>4, TimeMaps
<1>5. ASSUME NEW t \in Transactions, CommitFinalize(t)
      PROVE  Atomic!Next
  BY <1>5, FinishMaps
<1>6. ASSUME NEW t \in Transactions, NEW a \in Attempts, CommitAccept(t, a)
      PROVE  Atomic!Next
  BY <1>6, AcceptMaps
<1>7. ASSUME \/ \E a \in Attempts : MarkRunning(a)
             \/ \E e \in Embeds : RevokeSessions(e) \/ SetDisabled(e)
      PROVE  Atomic!Next
  BY <1>7, RowMaps
<1>8. ASSUME Tick
      PROVE  Atomic!Next
  BY <1>8, TimeMaps
<1>. QED  BY <1>1, <1>2, <1>3, <1>4, <1>5, <1>6, <1>7, <1>8, NextSteps

\* The transactions of the conversation repository take effect at once, each at
\* its commit, whatever runs at the same time.
THEOREM TransactionsAreAtomic == Spec => ImplementsAcceptance
<1>. QED  BY InitMaps, NextMaps, Reliance, PTL DEF Spec, ImplementsAcceptance, Atomic!Spec

-----------------------------------------------------------------------------
(* What the atomic transactions keep, and so the interleaved ones.         *)

\* A conversation has one turn in progress.
OneTurnAtATime ==
    \A a, b \in ActiveTurns : row[a].conv = row[b].conv => a = b

\* A request of a conversation has one attempt.
AnsweredOnce ==
    \A a, b \in Accepted : row[a].conv = row[b].conv /\ row[a].req = row[b].req => a = b

\* A network has no more turns in progress than it may have.
NetworksWithinLimit ==
    \A n \in Networks : Cardinality(CallsFrom(n) \cap ActiveTurns) <= ConcurrencyLimit

Kept == AnswersCurrentHistory /\ OneTurnAtATime /\ AnsweredOnce /\ NetworksWithinLimit

\* Where turns only end, and the history of those that go on stays, nothing is lost.
LEMMA EndsKeep ==
    ASSUME Tables, IsFiniteSet(Accepted), Kept, row' = row, Accepted' = Accepted,
           ActiveTurns' \subseteq ActiveTurns,
           \A b \in ActiveTurns' : /\ revision'[row[b].conv] = revision[row[b].conv]
                                   /\ tail'[row[b].conv] = tail[row[b].conv]
    PROVE  Kept'
<1>1. AnswersCurrentHistory'
  BY DEF Kept, AnswersCurrentHistory
<1>2. OneTurnAtATime' /\ AnsweredOnce'
  BY DEF Kept, OneTurnAtATime, AnsweredOnce
<1>3. NetworksWithinLimit'
  <2> SUFFICES ASSUME NEW n \in Networks
               PROVE  Cardinality(CallsFrom(n)' \cap ActiveTurns') <= ConcurrencyLimit
    BY DEF NetworksWithinLimit
  <2>. DEFINE X == CallsFrom(n) \cap ActiveTurns
              Y == CallsFrom(n)' \cap ActiveTurns'
  <2>1. X \subseteq Accepted /\ Y \subseteq X
    BY DEF CallsFrom
  <2>2. IsFiniteSet(X)
    BY <2>1, FS_Subset
  <2>3. IsFiniteSet(Y) /\ Cardinality(Y) <= Cardinality(X)
    BY <2>1, <2>2, FS_Subset
  <2>4. Cardinality(X) \in Nat /\ Cardinality(Y) \in Nat
    BY <2>2, <2>3, FS_CardinalityType
  <2>5. Cardinality(X) <= ConcurrencyLimit
    BY DEF Kept, NetworksWithinLimit
  <2>. HIDE DEF X, Y
  <2>6. Cardinality(Y) <= ConcurrencyLimit
    BY <2>3, <2>4, <2>5, TransactionAssumption
  <2>. QED  BY <2>6 DEF Y
<1>. QED  BY <1>1, <1>2, <1>3 DEF Kept

\* Interruptions, starts and finished turns keep it.
LEMMA TurnsKeep ==
    ASSUME Tables, IsFiniteSet(Accepted), Kept,
           \/ \E S \in SUBSET Atomic!Interruptible : Atomic!Interrupt(S)
           \/ \E a \in Attempts : Atomic!Start(a)
           \/ \E a \in Attempts, outcome \in Atomic!RunOutcome : Atomic!Finish(a, outcome)
    PROVE  Kept'
<1>1. ASSUME NEW S \in SUBSET Atomic!Interruptible, Atomic!Interrupt(S)
      PROVE  Kept'
  <2>1. /\ status' = [b \in Attempts |-> IF b \in S THEN "interrupted" ELSE status[b]]
        /\ UNCHANGED <<revision, tail, row>>
    BY <1>1 DEF Atomic!Interrupt
  <2>2. S \subseteq ActiveTurns
    BY SameTerms
  <2>3. Accepted' = Accepted /\ ActiveTurns' \subseteq ActiveTurns
    BY <2>1, <2>2 DEF Accepted, ActiveTurns, Active
  <2>. QED  BY <2>1, <2>3, EndsKeep
<1>2. ASSUME NEW a \in Attempts, Atomic!Start(a)
      PROVE  Kept'
  <2>1. /\ status[a] = "accepted" /\ status' = [status EXCEPT ![a] = "running"]
        /\ UNCHANGED <<revision, tail, row>>
    BY <1>2 DEF Atomic!Start
  <2>2. Accepted' = Accepted /\ ActiveTurns' \subseteq ActiveTurns
    BY <2>1 DEF Accepted, ActiveTurns, Active, Tables
  <2>. QED  BY <2>1, <2>2, EndsKeep
<1>3. ASSUME NEW a \in Attempts, NEW outcome \in Atomic!RunOutcome, Atomic!Finish(a, outcome)
      PROVE  Kept'
  <2>. DEFINE c == row[a].conv
  <2>1. /\ status[a] = "running" /\ status' = [status EXCEPT ![a] = outcome]
        /\ \A d \in Conversations : d # c => revision'[d] = revision[d] /\ tail'[d] = tail[d]
        /\ row' = row /\ outcome \in {"completed", "failed"}
    <3>1. \/ UNCHANGED <<revision, tail>>
          \/ /\ revision' = [revision EXCEPT ![c] = @ + 1]
             /\ tail' = [tail EXCEPT ![c] = a]
      BY <1>3 DEF Atomic!Finish
    <3>2. \A d \in Conversations : d # c => revision'[d] = revision[d] /\ tail'[d] = tail[d]
      BY <3>1 DEF Tables
    <3>. QED  BY <1>3, <3>2 DEF Atomic!Finish, Atomic!RunOutcome
  <2>2. /\ Accepted' = Accepted /\ ActiveTurns' = ActiveTurns \ {a} /\ a \in ActiveTurns
    BY <2>1 DEF Accepted, ActiveTurns, Active, Tables
  <2>3. \A b \in ActiveTurns' : row[b].conv # c /\ row[b].conv \in Conversations
    <3> TAKE b \in ActiveTurns'
    <3>1. b \in ActiveTurns /\ b # a
      BY <2>2
    <3>2. row[b] \in Row
      BY <3>1 DEF ActiveTurns, Accepted, Tables
    <3>. QED  BY <2>2, <3>1, <3>2 DEF Kept, OneTurnAtATime, Row
  <2>. QED  BY <2>1, <2>2, <2>3, EndsKeep
<1>. QED  BY <1>1, <1>2, <1>3

\* An acceptance keeps it.
LEMMA AcceptKeeps ==
    ASSUME Tables, IsFiniteSet(Accepted), Kept,
           NEW S \in SUBSET ActiveTurns, NEW a \in Attempts, NEW c \in Conversations,
           NEW q \in Requests, NEW n \in Networks, NEW e \in Embeds,
           Atomic!Accept(c, q, n, e, a, S)
    PROVE  Kept'
<1>1. /\ \A b \in TurnsOf(c) : row[b].req # q
      /\ TurnsOf(c) \cap ActiveTurns \subseteq S
      /\ Cardinality((CallsFrom(n) \cap ActiveTurns) \ S) < ConcurrencyLimit
      /\ status[a] = "free"
      /\ row' = [row EXCEPT ![a] = [conv |-> c, req |-> q, net |-> n,
                                    rev |-> revision[c], tail |-> tail[c]]]
      /\ status' = [b \in Attempts |-> IF b = a THEN "accepted"
                                       ELSE IF b \in S THEN "interrupted" ELSE status[b]]
      /\ UNCHANGED <<revision, tail>>
  BY SameTerms DEF Atomic!Accept
<1>2. /\ Accepted' = Accepted \cup {a} /\ a \notin Accepted
      /\ ActiveTurns' = (ActiveTurns \ S) \cup {a} /\ a \notin ActiveTurns
  BY <1>1 DEF Accepted, ActiveTurns, Active
<1>3. /\ row'[a].conv = c /\ row'[a].req = q /\ row'[a].net = n
      /\ row'[a].rev = revision[c] /\ row'[a].tail = tail[c]
      /\ \A b \in Accepted : row'[b] = row[b]
  BY <1>1, <1>2 DEF Tables, Accepted
<1>4. ActiveTurns \subseteq Accepted
  BY DEF ActiveTurns
<1>5. \A b \in ActiveTurns \ S : row[b].conv # c
  BY <1>1, <1>4 DEF TurnsOf
<1>6. AnswersCurrentHistory'
  BY <1>1, <1>2, <1>3, <1>4 DEF Kept, AnswersCurrentHistory
<1>7. OneTurnAtATime'
  BY <1>2, <1>3, <1>4, <1>5 DEF Kept, OneTurnAtATime
<1>8. AnsweredOnce'
  <2>1. \A b \in Accepted : row[b].conv # c \/ row[b].req # q
    BY <1>1 DEF TurnsOf
  <2>. QED  BY <1>2, <1>3, <2>1 DEF Kept, AnsweredOnce
<1>9. NetworksWithinLimit'
  <2> SUFFICES ASSUME NEW k \in Networks
               PROVE  Cardinality(CallsFrom(k)' \cap ActiveTurns') <= ConcurrencyLimit
    BY DEF NetworksWithinLimit
  <2>. DEFINE X == CallsFrom(k) \cap ActiveTurns
              W == (CallsFrom(n) \cap ActiveTurns) \ S
              Y == CallsFrom(k)' \cap ActiveTurns'
  <2>1. /\ X \subseteq Accepted /\ W \subseteq Accepted /\ a \notin W
        /\ k = n => Y \subseteq W \cup {a}
        /\ k # n => Y \subseteq X
    BY <1>2, <1>3, <1>4 DEF CallsFrom
  <2>2. IsFiniteSet(X) /\ IsFiniteSet(W)
    BY <2>1, FS_Subset
  <2>3. IsFiniteSet(W \cup {a}) /\ Cardinality(W \cup {a}) = Cardinality(W) + 1
    BY <2>1, <2>2, FS_AddElement
  <2>4. /\ IsFiniteSet(Y)
        /\ k = n => Cardinality(Y) <= Cardinality(W \cup {a})
        /\ k # n => Cardinality(Y) <= Cardinality(X)
    BY <2>1, <2>2, <2>3, FS_Subset
  <2>5. Cardinality(X) \in Nat /\ Cardinality(Y) \in Nat /\ Cardinality(W) \in Nat
    BY <2>2, <2>4, FS_CardinalityType
  <2>6. Cardinality(X) <= ConcurrencyLimit /\ Cardinality(W) < ConcurrencyLimit
    BY <1>1 DEF Kept, NetworksWithinLimit
  <2>. HIDE DEF X, W, Y
  <2>7. Cardinality(Y) <= ConcurrencyLimit
    BY <2>3, <2>4, <2>5, <2>6, TransactionAssumption
  <2>. QED  BY <2>7 DEF Y
<1>. QED  BY <1>6, <1>7, <1>8, <1>9 DEF Kept

\* Every step of the atomic transactions keeps it.
LEMMA AtomicKeeps ==
    ASSUME Tables, IsFiniteSet(Accepted), Kept, [Atomic!Next]_(Atomic!tables)
    PROVE  Kept'
<1>1. CASE UNCHANGED <<revision, tail, row, status>>
  <2>1. Accepted' = Accepted /\ ActiveTurns' = ActiveTurns
    BY <1>1 DEF Accepted, ActiveTurns
  <2>. QED  BY <1>1, <2>1, EndsKeep
<1>2. CASE \/ \E S \in SUBSET Atomic!Interruptible : Atomic!Interrupt(S)
           \/ \E a \in Attempts : Atomic!Start(a)
           \/ \E a \in Attempts, outcome \in Atomic!RunOutcome : Atomic!Finish(a, outcome)
  BY <1>2, TurnsKeep
<1>3. ASSUME NEW S \in SUBSET Atomic!Interruptible, NEW a \in Attempts,
             NEW c \in Conversations, NEW q \in Requests, NEW n \in Networks, NEW e \in Embeds,
             Atomic!Accept(c, q, n, e, a, S)
      PROVE  Kept'
  <2>1. S \in SUBSET ActiveTurns
    BY SameTerms
  <2>. QED  BY <1>3, <2>1, AcceptKeeps
<1>4. CASE Atomic!PassTime \/ \E e \in Embeds : Atomic!Revoke(e) \/ Atomic!Switch(e)
  BY <1>1, <1>4 DEF Atomic!PassTime, Atomic!Revoke, Atomic!Switch
<1>5. CASE UNCHANGED Atomic!tables
  BY <1>1, <1>5 DEF Atomic!tables
<1>. QED  BY <1>2, <1>3, <1>4, <1>5 DEF Atomic!Next

\* At the start nothing is accepted.
LEMMA InitKept == Init => Kept
<1>. SUFFICES ASSUME Init  PROVE Kept
  OBVIOUS
<1>1. Accepted = {}
  BY DEF Init, Accepted
<1>2. ActiveTurns = {}
  BY <1>1 DEF ActiveTurns
<1>3. AnswersCurrentHistory /\ OneTurnAtATime /\ AnsweredOnce
  BY <1>1, <1>2 DEF AnswersCurrentHistory, OneTurnAtATime, AnsweredOnce
<1>4. NetworksWithinLimit
  <2>1. \A n : CallsFrom(n) \cap ActiveTurns = {}
    BY <1>2
  <2>2. Cardinality({}) = 0
    BY FS_EmptySet
  <2>. QED  BY <2>1, <2>2, TransactionAssumption DEF NetworksWithinLimit
<1>. QED  BY <1>3, <1>4 DEF Kept

\* However the statements of acceptances, finalizations, interruptions and
\* renewals are interleaved.
LEMMA KeptAlways == Spec => []Kept
<1>1. Inv /\ Kept /\ [Next]_vars => Kept'
  <2>1. Inv => Tables /\ IsFiniteSet(Accepted)
    BY DEF Inv
  <2>. QED  BY <2>1, NextMaps, AtomicKeeps
<1>. QED  BY <1>1, InitKept, Reliance, PTL DEF Spec

\* An attempt in progress answers the history its prompt was made from, although
\* that history is read before the transaction waits for its first lock.
THEOREM HistoryIsCurrent == Spec => []AnswersCurrentHistory
<1>1. Kept => AnswersCurrentHistory
  BY DEF Kept
<1>. QED  BY <1>1, KeptAlways, PTL

\* Each of the limits an acceptance checks holds of the committed tables, however
\* many acceptances check them at the same time: one turn in progress for each
\* conversation, one attempt for each request, and the cap of each network.
THEOREM LimitsHold == Spec => [](OneTurnAtATime /\ AnsweredOnce /\ NetworksWithinLimit)
<1>1. Kept => OneTurnAtATime /\ AnsweredOnce /\ NetworksWithinLimit
  BY DEF Kept
<1>. QED  BY <1>1, KeptAlways, PTL

=============================================================================
