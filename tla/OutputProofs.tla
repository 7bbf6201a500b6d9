--------------------------- MODULE OutputProofs ---------------------------
(***************************************************************************)
(* Proofs about OutputBuffer: types and batch sizes, the order of the       *)
(* stored text, what clients are shown, the blacklist, and what a completed *)
(* answer may miss.                                                        *)
(*                                                                         *)
(* The argument is one of conservation.  Text that has passed the filter    *)
(* but is not stored yet is in the write in flight, the buffer, the rest of *)
(* the batch being queued or the filter's look-back: message \o Kept(run)   *)
(* is what the provider said, until a write fails.                          *)
(*                                                                         *)
(* For the blacklist it is one of spans.  Where normalization moves no       *)
(* letter, an occurrence of a term is a stretch of consecutive letters, and  *)
(* as every character has one it spans no more characters than the term has  *)
(* letters: one that ends after the text filtered so far lies in what the    *)
(* filter still holds back and the new chunk.                              *)
(***************************************************************************)
EXTENDS OutputBuffer, SequenceTheorems, FiniteSetTheorems, TLAPS

Text == Seq(Chars)

\* s begins t; s is t without one stretch; s begins t without one stretch.
Pre(s, t)     == \E u \in Text : t = s \o u
Cut(s, t)     == \E a, b, c \in Text : t = a \o (b \o c) /\ s = a \o c
Skipped(s, t) == \E u \in Text : Cut(s \o u, t)

-----------------------------------------------------------------------------
(* The buffers.                                                            *)

Flying(f) == IF f.step \in {"sent", "fenced", "refused"} THEN f.batch ELSE <<>>
Late(f)   == IF f.step = "applied" THEN f.batch ELSE <<>>
Kept(r)   == Flying(r.flight) \o (r.buffer \o (r.rest \o r.pending))

Waits(r)   == "main" \in ToSet(r.waiters)
Going(r)   == r.at \in {"provider", "queue"}
Stopped(r) == r.failed \/ r.at = "rejected"
Whole(r)   == Going(r) \/ r.outcome = "completed"

Typed(r) ==
    /\ r \in Run
    /\ Len(r.buffer) <= BatchSize /\ Len(r.flight.batch) <= BatchSize

\* A write in flight has a caller; nobody waits for nothing; a failed output
\* writes nothing more.
Base(r) ==
    /\ Typed(r)
    /\ r.flight = NoFlight \/ (r.flight.by \in Callers /\ r.flight.step # "none")
    /\ r.waiters # <<>> => r.flight # NoFlight
    /\ r.failed => r.flight = NoFlight

\* The main flow runs: it is neither in flight nor waits.
MainRuns(r) == Base(r) /\ r.flight.by # "main" /\ ~Waits(r)

\* It waits at most once, and not for its own write; it awaits a flush exactly
\* when it is one of the two.
MainOnce(r) ==
    /\ r.flight.by = "main" => r.buffer = <<>> /\ ~Waits(r)
    /\ \A i, j \in DOMAIN r.waiters :
         r.waiters[i] = "main" /\ r.waiters[j] = "main" => i = j
    /\ r.at \in Suspended <=> (r.flight.by = "main" \/ Waits(r))

\* Which buffers may hold text where.
Placed(r) ==
    /\ r.rest # <<>> => r.at \in {"queue", "tail", "rejected"} \/ r.failed
    /\ r.pending # <<>> => Going(r)
    /\ r.at \in {"close", "stage", "tell", "done"} => r.failed \/ r.buffer = <<>>
    /\ r.at = "rejected" => r.failed \/ (r.flight = NoFlight /\ r.buffer = <<>>)
    /\ Going(r) => r.outcome = "failed"

Shape(r) == Base(r) /\ MainOnce(r) /\ Placed(r)

-----------------------------------------------------------------------------
(* The texts.                                                              *)

\* What is stored, in the row m, or can still be.
HeldOf(m, r) == IF Stopped(r) THEN m ELSE m \o Kept(r)
Held == HeldOf(message, run)

TextSound ==
    /\ ~Stopped(run) /\ Whole(run) => Held = said
    /\ Whole(run) \/ run.outcome = "blocked" => Pre(Held, said)
    /\ Skipped(Held, said)

\* The look-back is the end of what was said, as long as a term can be.
PendingSound ==
    Going(run) =>
        /\ Len(run.pending) = IF Len(said) < LookBack THEN Len(said) ELSE LookBack
        /\ \E p \in Text : said = p \o run.pending

\* Nothing that is or can still be stored has a term, if no letter moves.
FilterSound == InOrder(said) =>
    IF run.outcome = "blocked" THEN ~Matches(Held) ELSE ~Matches(said)

\* What is shown, or will be once a reply arrives.
SeenOf(d, r) == d \o Late(r.flight)
Seen == SeenOf(shown, run)

SeenSound ==
    /\ Whole(run) \/ run.outcome = "blocked" => Pre(Seen, message)
    /\ ~Stopped(run) /\ (Whole(run) \/ run.outcome = "blocked") => Seen = message
    /\ ~Stopped(run) => Cut(Seen, message)
    /\ Skipped(Seen, message)

LateSound ==
    run.at \in {"stage", "tell", "done"} /\ run.outcome = "completed" /\ run.failed
        => Len(said) - Len(message) <= BatchSize

StatusSound == status # "running" => run.at \in {"tell", "done"} /\ status = run.outcome

OutputInv ==
    /\ TypeOK /\ Shape(run)
    /\ TextSound /\ PendingSound /\ FilterSound
    /\ SeenSound /\ LateSound /\ StatusSound

-----------------------------------------------------------------------------
(* Texts: concatenation, and the three relations.                          *)

\* Concatenation stays in Text, associates, and has the empty text as unit.
LEMMA TextCat ==
  ASSUME NEW s \in Text, NEW t \in Text
  PROVE  /\ s \o t \in Text /\ Len(s \o t) = Len(s) + Len(t)
         /\ s \o <<>> = s /\ <<>> \o s = s /\ <<>> \in Text
  BY ConcatProperties, ConcatEmptySeq, EmptySeq DEF Text

\* Concatenation is associative.
LEMMA TextAssoc ==
  ASSUME NEW s \in Text, NEW t \in Text, NEW u \in Text
  PROVE  (s \o t) \o u = s \o (t \o u)
  BY ConcatAssociative DEF Text

\* A text cut at n is its two parts one after the other.
LEMMA TextSplit ==
  ASSUME NEW s \in Text, NEW n \in 0..Len(s)
  PROVE  /\ SubSeq(s, 1, n) \in Text /\ Len(SubSeq(s, 1, n)) = n
         /\ SubSeq(s, n + 1, Len(s)) \in Text
         /\ Len(SubSeq(s, n + 1, Len(s))) = Len(s) - n
         /\ SubSeq(s, 1, n) \o SubSeq(s, n + 1, Len(s)) = s
<1>1. Len(s) \in Nat /\ \A i \in 1..Len(s) : s[i] \in Chars
  BY LenProperties, ElementOfSeq DEF Text
<1>2. /\ SubSeq(s, 1, n) \in Text /\ Len(SubSeq(s, 1, n)) = n
      /\ SubSeq(s, n + 1, Len(s)) \in Text
      /\ Len(SubSeq(s, n + 1, Len(s))) = Len(s) - n
  <2>1. n \in Int /\ 1 \in Int /\ n + 1 \in Int /\ Len(s) \in Int /\ n <= Len(s) /\ 0 <= n
    BY <1>1
  <2>2. (\A i \in 1..n : s[i] \in Chars) /\ (\A i \in (n + 1)..Len(s) : s[i] \in Chars)
    BY <1>1
  <2>3. SubSeq(s, 1, n) \in Seq(Chars) /\ Len(SubSeq(s, 1, n)) = IF 1 <= n THEN n - 1 + 1 ELSE 0
    BY <2>1, <2>2, SubSeqProperties
  <2>4. /\ SubSeq(s, n + 1, Len(s)) \in Seq(Chars)
        /\ Len(SubSeq(s, n + 1, Len(s))) =
             IF n + 1 <= Len(s) THEN Len(s) - (n + 1) + 1 ELSE 0
    BY <2>1, <2>2, SubSeqProperties
  <2>5. QED
    BY <2>1, <2>3, <2>4 DEF Text
<1>3. SubSeq(s, 1, n) \o SubSeq(s, n + 1, Len(s)) = SubSeq(s, 1, Len(s))
  <2>1. 1 \in 1..Len(s)+1 /\ n \in 1-1..Len(s) /\ Len(s) \in n..Len(s)
    BY <1>1
  <2>2. QED
    BY <2>1, ConcatAdjacentSubSeq DEF Text
<1>4. QED
  BY <1>2, <1>3, SubSeqFull DEF Text

\* The elements of a concatenation.
LEMMA TextElements ==
  ASSUME NEW s \in Text, NEW t \in Text, NEW i \in 1..Len(s) + Len(t)
  PROVE  (s \o t)[i] = IF i <= Len(s) THEN s[i] ELSE t[i - Len(s)]
  BY ConcatProperties DEF Text

\* What begins a text is its SubSeq of that length.
LEMMA PreSubSeq ==
  ASSUME NEW s \in Text, NEW t \in Text
  PROVE  SubSeq(s \o t, 1, Len(s)) = s
<1> DEFINE u == SubSeq(s \o t, 1, Len(s))
<1>1. s \o t \in Text /\ Len(s) \in 0..Len(s \o t) /\ Len(s) \in Nat /\ Len(t) \in Nat
  BY TextCat, LenProperties DEF Text
<1>2. u \in Text /\ Len(u) = Len(s)
  BY <1>1, TextSplit
<1>3. ASSUME NEW i \in 1..Len(s) PROVE u[i] = s[i]
  <2>1. \A j \in 1..Len(s) : (s \o t)[j] \in Chars
    BY <1>1, ElementOfSeq, LenProperties DEF Text
  <2>2. u[i] = (s \o t)[1 + i - 1]
    BY <1>1, <2>1, SubSeqProperties
  <2>3. QED
    BY <1>1, <2>2, TextElements
<1>4. QED
  <2> HIDE DEF u
  <2>1. Len(u) = Len(s) /\ u \in Seq(Chars) /\ s \in Seq(Chars)
    BY <1>2 DEF Text
  <2>2. u = s
    BY <1>3, <2>1, SeqEqual
  <2>3. QED
    BY <2>2 DEF u

\* Pre gives the community modules' IsPrefix, and is no longer than its text.
LEMMA PreIsPrefix ==
  ASSUME NEW s \in Text, NEW t, Pre(s, t)
  PROVE  t \in Text /\ IsPrefix(s, t) /\ Len(s) <= Len(t)
<1>1. PICK u \in Text : t = s \o u
  BY DEF Pre
<1>2. /\ t \in Text /\ Len(t) = Len(s) + Len(u) /\ Len(u) \in Nat /\ Len(s) \in Nat
      /\ SubSeq(t, 1, Len(s)) = s /\ SubSeq(s, 1, Len(s)) = s
  BY <1>1, TextCat, PreSubSeq, LenProperties, SubSeqFull DEF Text
<1>3. QED
  BY <1>2 DEF IsPrefix

\* IsPrefix of two texts gives Pre.
LEMMA PrefixIsPre ==
  ASSUME NEW s \in Text, NEW t \in Text, IsPrefix(s, t)
  PROVE  Pre(s, t)
<1>1. Len(s) \in 0..Len(t) /\ SubSeq(t, 1, Len(s)) = s
  BY LenProperties, SubSeqFull DEF IsPrefix, Text
<1>2. QED
  BY <1>1, TextSplit DEF Pre

\* Every text begins itself.
LEMMA PreRefl == ASSUME NEW s \in Text PROVE Pre(s, s)
  BY TextCat DEF Pre

\* A text begins what extends it.
LEMMA PreCat == ASSUME NEW s \in Text, NEW t \in Text PROVE Pre(s, s \o t)
  BY DEF Pre

\* Beginning a text is transitive.
LEMMA PreTrans ==
  ASSUME NEW s \in Text, NEW t, NEW u, Pre(s, t), Pre(t, u)
  PROVE  Pre(s, u)
<1>1. PICK p \in Text : t = s \o p
  BY DEF Pre
<1>2. PICK q \in Text : u = t \o q
  BY DEF Pre
<1>3. u = s \o (p \o q) /\ p \o q \in Text
  BY <1>1, <1>2, TextAssoc, TextCat
<1>4. QED
  BY <1>3 DEF Pre

\* Nothing cut out is a cut too: the stretch is empty.
LEMMA CutRefl == ASSUME NEW s \in Text PROVE Cut(s, s)
<1>1. <<>> \in Text /\ s = s \o (<<>> \o <<>>) /\ s = s \o <<>>
  BY TextCat
<1>2. QED
  BY <1>1 DEF Cut

\* A cut text skips: nothing is missing at the end.
LEMMA CutSkips == ASSUME NEW s \in Text, NEW t, Cut(s, t) PROVE Skipped(s, t)
  BY TextCat DEF Skipped

\* What begins a text skips: the hole is empty.
LEMMA PreSkips == ASSUME NEW s \in Text, NEW t, Pre(s, t) PROVE Skipped(s, t)
<1>1. PICK u \in Text : t = s \o u
  BY DEF Pre
<1>2. QED
  BY <1>1, CutRefl, TextCat DEF Skipped

\* The beginning of a text with a hole has at most that hole.
LEMMA SkipsTrans ==
  ASSUME NEW s \in Text, NEW t, NEW u, Pre(s, t), Skipped(t, u)
  PROVE  Skipped(s, u)
<1>1. PICK p \in Text : t = s \o p
  BY DEF Pre
<1>2. PICK q \in Text : Cut(t \o q, u)
  BY DEF Skipped
<1>3. t \o q = s \o (p \o q) /\ p \o q \in Text
  BY <1>1, TextAssoc, TextCat
<1>4. QED
  BY <1>2, <1>3 DEF Skipped

\* The stored text and what is shown of it grow alike.
LEMMA CutGrows ==
  ASSUME NEW s \in Text, NEW t, NEW u \in Text, Cut(s, t)
  PROVE  Cut(s \o u, t \o u)
<1>1. PICK a, b, c \in Text : t = a \o (b \o c) /\ s = a \o c
  BY DEF Cut
<1>2. b \o c \in Text /\ c \o u \in Text
  BY TextCat
<1>3. (b \o c) \o u = b \o (c \o u) /\ (a \o c) \o u = a \o (c \o u)
  BY SMTT(30), TextAssoc
<1>4. (a \o (b \o c)) \o u = a \o ((b \o c) \o u)
  BY ZenonT(40), <1>2, TextAssoc
<1>5. t \o u = a \o (b \o (c \o u)) /\ s \o u = a \o (c \o u)
  BY <1>1, <1>3, <1>4
<1>6. QED
  BY <1>2, <1>5 DEF Cut

\* The hole in the specification's terms.
LEMMA SkippedSkips ==
  ASSUME NEW s \in Text, NEW t, Skipped(s, t)
  PROVE  Skips(s, t)
<1>1. PICK u, a, b, c \in Text : t = a \o (b \o c) /\ s \o u = a \o c
  BY DEF Skipped, Cut
<1>2. /\ Len(s) \in Nat /\ Len(u) \in Nat /\ Len(a) \in Nat
      /\ Len(b) \in Nat /\ Len(c) \in Nat
  BY LenProperties DEF Text
<1>3. /\ b \o c \in Text /\ a \o b \in Text /\ t \in Text /\ s \o u \in Text
      /\ Len(t) = Len(a) + Len(b) + Len(c) /\ Len(s) + Len(u) = Len(a) + Len(c)
  <2>1. b \o c \in Text /\ Len(b \o c) = Len(b) + Len(c) /\ a \o b \in Text
    BY TextCat
  <2>2. t \in Text /\ Len(t) = Len(a) + Len(b \o c)
    BY <1>1, <2>1, TextCat
  <2>3. s \o u \in Text /\ Len(s \o u) = Len(s) + Len(u)
    BY TextCat
  <2>4. Len(a \o c) = Len(a) + Len(c)
    BY TextCat
  <2>5. QED
    BY <1>1, <1>2, <2>1, <2>2, <2>3, <2>4
<1>4. CASE Len(s) <= Len(a)
  <2>1. SubSeq(t, 1, Len(s)) = s
    <3>1. \A k \in 1..Len(s) : t[k] = s[k]
      <4>1. TAKE k \in 1..Len(s)
      <4>2. t[k] = a[k] /\ (s \o u)[k] = s[k] /\ (a \o c)[k] = a[k]
        BY <1>1, <1>2, <1>3, <1>4, TextElements, TextCat
      <4>3. QED
        BY <1>1, <4>2
    <3>2. Len(s) \in 0..Len(t)
      BY <1>2, <1>3, <1>4
    <3>3. SubSeq(t, 1, Len(s)) \in Text /\ Len(SubSeq(t, 1, Len(s))) = Len(s)
      BY <1>3, <3>2, TextSplit
    <3>4. \A k \in 1..Len(s) : t[k] \in Chars
      BY <3>1, ElementOfSeq DEF Text
    <3>5. \A k \in 1..Len(s) : SubSeq(t, 1, Len(s))[k] = t[1 + k - 1]
      BY <1>2, <3>4, SubSeqProperties
    <3>6. \A k \in 1..Len(s) : SubSeq(t, 1, Len(s))[k] = s[k]
      BY <1>2, <3>1, <3>5
    <3>7. QED
      BY <3>3, <3>6, SeqEqual DEF Text
  <2>2. SubSeq(t, Len(s) + 1, Len(s) + Len(s) - Len(s)) = <<>>
    BY <1>2, SubSeqEmpty
  <2>3. s = SubSeq(t, 1, Len(s)) \o SubSeq(t, Len(s) + 1, Len(s) + Len(s) - Len(s))
    BY <2>1, <2>2, TextCat
  <2>4. Len(s) \in 0..Len(s) /\ Len(s) \in Len(s)..Len(t) - (Len(s) - Len(s))
    BY <1>2, <1>3, <1>4
  <2>5. QED
    BY <2>3, <2>4 DEF Skips
<1>5. CASE Len(s) > Len(a)
  <2> DEFINE i == Len(a)
             j == Len(a) + Len(b)
             n == Len(s) - i
  <2>1. i \in 0..Len(s) /\ j \in i..Len(t) - (Len(s) - i) /\ n \in Nat /\ n <= Len(c)
    BY <1>2, <1>3, <1>5
  <2>2. SubSeq(t, 1, i) = a
    BY <1>1, <1>3, PreSubSeq
  <2> DEFINE v == SubSeq(t, j + 1, j + n)
  <2>3. \A k \in 1..n : t[j + k] = c[k]
    <3>1. TAKE k \in 1..n
    <3>2. t[j + k] = (b \o c)[Len(b) + k]
      BY SMTT(30), <1>1, <1>2, <1>3, <2>1, TextElements, TextCat
    <3>3. (b \o c)[Len(b) + k] = c[k]
      BY <1>2, <2>1, TextElements
    <3>4. QED
      BY <3>2, <3>3
  <2>4. \A k \in 1..n : s[i + k] = c[k]
    <3>1. TAKE k \in 1..n
    <3>2. (s \o u)[i + k] = s[i + k]
      BY <1>2, <2>1, TextElements
    <3>3. (a \o c)[i + k] = c[k]
      BY <1>2, <2>1, TextElements
    <3>4. QED
      BY <1>1, <3>2, <3>3
  <2>5. \A k \in j + 1..j + n : t[k] \in Chars
    BY <1>2, <1>3, <2>1, ElementOfSeq DEF Text
  <2>6. v \in Text /\ Len(v) = n /\ \A k \in 1..n : v[k] = t[j + k]
    <3>1. j + 1 \in Int /\ j + n \in Int
      BY <1>2, <2>1
    <3>2. /\ v \in Seq(Chars)
          /\ Len(v) = IF j + 1 <= j + n THEN j + n - (j + 1) + 1 ELSE 0
          /\ \A k \in 1..j + n - (j + 1) + 1 : v[k] = t[j + 1 + k - 1]
      BY <2>5, <3>1, SubSeqProperties
    <3>3. QED
      BY <1>2, <2>1, <3>2 DEF Text
  <2>7. s = a \o v
    <3> HIDE DEF v
    <3>1. a \o v \in Text /\ Len(a \o v) = Len(s)
      BY <1>2, <2>1, <2>6, TextCat
    <3>2. ASSUME NEW k \in 1..Len(s) PROVE s[k] = (a \o v)[k]
      <4>1. CASE k <= Len(a)
        BY <1>1, <1>2, <1>3, <1>5, <2>6, <4>1, TextElements
      <4>2. CASE k > Len(a)
        <5>1. k - i \in 1..n /\ i + (k - i) = k
          BY <1>2, <1>5, <4>2
        <5>2. s[k] = c[k - i] /\ v[k - i] = c[k - i]
          BY <2>3, <2>4, <2>6, <5>1
        <5>3. (a \o v)[k] = v[k - i]
          BY <1>2, <2>1, <2>6, <4>2, TextElements
        <5>4. QED
          BY <5>2, <5>3
      <4>3. k <= Len(a) \/ k > Len(a)
        BY <1>2
      <4>4. QED
        BY <4>1, <4>2, <4>3
    <3>3. QED
      BY <3>1, <3>2, SeqEqual DEF Text
  <2>8. j + n = j + Len(s) - i
    BY <1>2
  <2>9. s = SubSeq(t, 1, i) \o SubSeq(t, j + 1, j + Len(s) - i)
    BY <2>2, <2>7, <2>8
  <2> HIDE DEF i, j
  <2>10. QED
    BY <2>1, <2>9 DEF Skips
<1>6. QED
  BY <1>2, <1>4, <1>5

-----------------------------------------------------------------------------
(* The filter.                                                             *)

\* There is a longest term, and the look-back is its length.
LEMMA LookBackIsLongest ==
  /\ LookBack \in Nat
  /\ \A t \in Terms : Len(t) \in Nat \ {0} /\ Len(t) <= LookBack
<1> DEFINE Lengths == {Len(t) : t \in Terms}
<1>1. \A t \in Terms : Len(t) \in Nat \ {0}
  BY OutputAssumption, EmptySeq
<1>2. \E n \in Lengths \cup {0} : \A m \in Lengths : m <= n
  <2>1. PICK t \in Terms \cup {<<>>} : \A u \in Terms : Len(u) <= Len(t)
    BY OutputAssumption
  <2>2. Len(t) \in Lengths \cup {0}
    BY <2>1, EmptySeq
  <2>3. QED
    BY <2>1, <2>2
<1>3. LookBack \in Lengths \cup {0} /\ \A m \in Lengths : m <= LookBack
  BY <1>2 DEF LookBack
<1>4. QED
  BY <1>1, <1>3

\* A unit, moved by a number of characters.
Moved(u, d) == <<u[1] + d, u[2]>>

\* The text s is the part of t after its first d characters, or begins that part.
SliceOf(s, t, d) == d + Len(s) <= Len(t) /\ \A i \in 1..Len(s) : t[d + i] = s[i]

\* The units of a text.
LEMMA UnitsAre ==
  ASSUME NEW s \in Text
  PROVE  /\ Len(s) \in Nat
         /\ \A u \in Units(s) : /\ u = <<u[1], u[2]>> /\ u[1] \in 1..Len(s)
                                /\ u[2] \in 1..Len(Normal[s[u[1]]]) /\ u[2] \in Nat
                                /\ Class[Letter(s, u)] \in Nat
         /\ \A i \in 1..Len(s) : \A k \in 1..Len(Normal[s[i]]) : <<i, k>> \in Units(s)
<1>1. Len(s) \in Nat /\ \A i \in 1..Len(s) : s[i] \in Chars
  BY LenProperties, ElementOfSeq DEF Text
<1>2. \A i \in 1..Len(s) : Normal[s[i]] \in Seq(Letters)
  BY <1>1, OutputAssumption
<1>3. ASSUME NEW u \in Units(s)
      PROVE  /\ u = <<u[1], u[2]>> /\ u[1] \in 1..Len(s)
             /\ u[2] \in 1..Len(Normal[s[u[1]]]) /\ u[2] \in Nat
             /\ Class[Letter(s, u)] \in Nat
  <2>1. PICK i \in 1..Len(s) : u \in {i} \X (1..Len(Normal[s[i]]))
    BY DEF Units
  <2>2. u = <<u[1], u[2]>> /\ u[1] = i /\ u[2] \in 1..Len(Normal[s[i]])
    BY <2>1
  <2>3. Len(Normal[s[i]]) \in Nat /\ Normal[s[i]][u[2]] \in Letters
    BY <1>2, <2>2, LenProperties, ElementOfSeq
  <2>4. QED
    BY <2>2, <2>3, OutputAssumption DEF Letter
<1>4. \A i \in 1..Len(s) : \A k \in 1..Len(Normal[s[i]]) : <<i, k>> \in Units(s)
  BY DEF Units
<1>5. QED
  BY <1>1, <1>3, <1>4

\* The units of a slice are units of the text, and it has all of them in its bounds.
LEMMA SliceUnits ==
  ASSUME NEW s \in Text, NEW t \in Text, NEW d \in Nat, SliceOf(s, t, d)
  PROVE  /\ \A u \in Units(s) : Moved(u, d) \in Units(t) /\ Letter(t, Moved(u, d)) = Letter(s, u)
         /\ \A u \in Units(t) : d < u[1] /\ u[1] <= d + Len(s) =>
              \E v \in Units(s) : u = Moved(v, d) /\ Letter(t, u) = Letter(s, v)
<1>1. Len(s) \in Nat /\ Len(t) \in Nat /\ d + Len(s) <= Len(t)
  BY UnitsAre DEF SliceOf
<1>2. ASSUME NEW u \in Units(s)
      PROVE  Moved(u, d) \in Units(t) /\ Letter(t, Moved(u, d)) = Letter(s, u)
  <2>1. u[1] \in 1..Len(s) /\ u[2] \in 1..Len(Normal[s[u[1]]])
    BY UnitsAre
  <2>2. u[1] + d \in 1..Len(t) /\ t[u[1] + d] = s[u[1]]
    BY <1>1, <2>1 DEF SliceOf
  <2>3. <<u[1] + d, u[2]>> \in Units(t)
    BY <2>1, <2>2, UnitsAre
  <2>4. QED
    BY <2>2, <2>3 DEF Moved, Letter
<1>3. ASSUME NEW u \in Units(t), d < u[1], u[1] <= d + Len(s)
      PROVE  \E v \in Units(s) : u = Moved(v, d) /\ Letter(t, u) = Letter(s, v)
  <2>1. /\ u = <<u[1], u[2]>> /\ u[1] \in 1..Len(t) /\ u[2] \in 1..Len(Normal[t[u[1]]])
    BY UnitsAre
  <2>2. u[1] - d \in 1..Len(s) /\ t[u[1]] = s[u[1] - d] /\ (u[1] - d) + d = u[1]
    BY <1>1, <1>3, <2>1 DEF SliceOf
  <2> DEFINE v == <<u[1] - d, u[2]>>
  <2>3. v \in Units(s)
    BY <2>1, <2>2, UnitsAre
  <2>4. u = Moved(v, d)
    BY <2>1, <2>2 DEF Moved
  <2>5. Letter(t, u) = Letter(s, v)
    BY <2>2 DEF Letter
  <2>6. QED
    BY <2>3, <2>4, <2>5
<1>4. QED
  BY <1>2, <1>3

\* Moving units does not change which is earlier.
LEMMA MovedEarlier ==
  ASSUME NEW s \in Text, NEW d \in Nat
  PROVE  \A u, v \in Units(s) : Earlier(Moved(u, d), Moved(v, d)) <=> Earlier(u, v)
<1>1. \A u \in Units(s) : u[1] \in Nat /\ u[2] \in Nat
  BY UnitsAre
<1>2. QED
  BY <1>1 DEF Earlier, Moved

\* Where normalization moves no letter of a text it moves none of a slice of it.
LEMMA SliceInOrder ==
  ASSUME NEW s \in Text, NEW t \in Text, NEW d \in Nat, SliceOf(s, t, d), InOrder(t)
  PROVE  InOrder(s)
<1>1. Len(s) \in Nat /\ Len(t) \in Nat /\ d + Len(s) <= Len(t)
  BY UnitsAre DEF SliceOf
<1>2. \A i \in 1..Len(s) : Normal[s[i]] # <<>>
  <2>1. \A i \in 1..Len(s) : d + i \in 1..Len(t) /\ t[d + i] = s[i]
    BY <1>1 DEF SliceOf
  <2>2. QED
    BY <2>1 DEF InOrder
<1>3. ASSUME NEW u \in Units(s), NEW v \in Units(s), Swapped(s, u, v) PROVE FALSE
  <2> DEFINE mu == Moved(u, d)
             mv == Moved(v, d)
  <2>1. /\ mu \in Units(t) /\ mv \in Units(t)
        /\ Letter(t, mu) = Letter(s, u) /\ Letter(t, mv) = Letter(s, v)
    BY SliceUnits
  <2>2. Earlier(mu, mv) /\ Class[Letter(t, mu)] > Class[Letter(t, mv)]
    BY <1>3, <2>1, MovedEarlier DEF Swapped
  <2>3. ASSUME NEW w \in Units(t), ~Earlier(w, mu), ~Earlier(mv, w)
        PROVE  Class[Letter(t, w)] > 0
    <3>1. u[1] \in 1..Len(s) /\ v[1] \in 1..Len(s) /\ w[1] \in 1..Len(t)
      BY UnitsAre
    <3>2. d < w[1] /\ w[1] <= d + Len(s)
      BY <1>1, <2>3, <3>1 DEF Earlier, Moved
    <3>3. PICK x \in Units(s) : w = Moved(x, d) /\ Letter(t, w) = Letter(s, x)
      BY <3>2, SliceUnits
    <3>4. ~Earlier(x, u) /\ ~Earlier(v, x)
      BY <2>3, <3>3, MovedEarlier
    <3>5. QED
      BY <1>3, <3>3, <3>4 DEF Swapped
  <2>4. Swapped(t, mu, mv)
    BY <2>2, <2>3 DEF Swapped
  <2>5. QED
    BY <2>1, <2>4 DEF InOrder
<1>4. QED
  BY <1>2, <1>3 DEF InOrder

\* Where normalization moves no letter, its order is that of the text.
LEMMA InOrderBefore ==
  ASSUME NEW s, InOrder(s)
  PROVE  \A u, v \in Units(s) : Before(s, u, v) <=> Earlier(u, v)
BY DEF InOrder, Before

\* An occurrence in a slice is one in the text, and the other way round.
LEMMA OccursInSlice ==
  ASSUME NEW s \in Text, NEW t \in Text, NEW d \in Nat, SliceOf(s, t, d), InOrder(t),
         NEW w \in Terms, NEW o \in [1..Len(w) -> Units(s)], NEW p \in [1..Len(w) -> Units(t)],
         \A k \in 1..Len(w) : p[k] = Moved(o[k], d)
  PROVE  Occurs(s, w, o) <=> Occurs(t, w, p)
<1>1. Len(w) \in Nat \ {0} /\ 1 \in 1..Len(w) /\ Len(w) \in 1..Len(w)
  BY LookBackIsLongest
<1>2. InOrder(s) /\ Len(s) \in Nat /\ Len(t) \in Nat
  BY SliceInOrder, UnitsAre
<1>3. \A k \in 1..Len(w) : Letter(t, p[k]) = Letter(s, o[k])
  BY SliceUnits
<1>4. \A j, k \in 1..Len(w) : Before(t, p[j], p[k]) <=> Before(s, o[j], o[k])
  BY <1>2, InOrderBefore, MovedEarlier
<1> DEFINE Full(x, q) == \A u \in Units(x) :
             Before(x, q[1], u) /\ Before(x, u, q[Len(w)]) => \E k \in 1..Len(w) : u = q[k]
<1>5. ASSUME Full(t, p) PROVE Full(s, o)
  <2> SUFFICES ASSUME NEW u \in Units(s), Before(s, o[1], u), Before(s, u, o[Len(w)])
               PROVE  \E k \in 1..Len(w) : u = o[k]
    OBVIOUS
  <2>1. Moved(u, d) \in Units(t)
    BY SliceUnits
  <2>2. Before(t, p[1], Moved(u, d)) /\ Before(t, Moved(u, d), p[Len(w)])
    BY <1>1, <1>2, <2>1, InOrderBefore, MovedEarlier
  <2>3. PICK k \in 1..Len(w) : Moved(u, d) = p[k]
    BY <1>5, <2>1, <2>2
  <2>4. /\ u = <<u[1], u[2]>> /\ u[1] \in 1..Len(s)
        /\ o[k] = <<o[k][1], o[k][2]>> /\ o[k][1] \in 1..Len(s)
    BY UnitsAre
  <2>5. u[1] + d = o[k][1] + d /\ u[2] = o[k][2]
    BY <2>3 DEF Moved
  <2>6. u[1] = o[k][1]
    BY <1>2, <2>4, <2>5
  <2>7. QED
    BY <2>4, <2>5, <2>6
<1>6. ASSUME Full(s, o) PROVE Full(t, p)
  <2> SUFFICES ASSUME NEW u \in Units(t), Before(t, p[1], u), Before(t, u, p[Len(w)])
               PROVE  \E k \in 1..Len(w) : u = p[k]
    OBVIOUS
  <2>1. Earlier(p[1], u) /\ Earlier(u, p[Len(w)])
    BY <1>1, InOrderBefore
  <2>2. /\ o[1][1] \in 1..Len(s) /\ o[Len(w)][1] \in 1..Len(s) /\ u[1] \in 1..Len(t)
        /\ p[1][1] = o[1][1] + d /\ p[Len(w)][1] = o[Len(w)][1] + d
    BY <1>1, UnitsAre DEF Moved
  <2>3. d < u[1] /\ u[1] <= d + Len(s)
    BY <1>2, <2>1, <2>2 DEF Earlier
  <2>4. PICK v \in Units(s) : u = Moved(v, d)
    BY <2>3, SliceUnits
  <2>5. Earlier(o[1], v) /\ Earlier(v, o[Len(w)])
    BY <1>1, <2>1, <2>4, MovedEarlier
  <2>6. PICK k \in 1..Len(w) : v = o[k]
    BY <1>1, <1>2, <1>6, <2>5, InOrderBefore
  <2>7. QED
    BY <2>4, <2>6
<1>7. QED
  BY <1>3, <1>4, <1>5, <1>6 DEF Occurs

\* What begins a text without a term has none, where no letter moves.
LEMMA MatchesPre ==
  ASSUME NEW s \in Text, NEW t, Pre(s, t), InOrder(t)
  PROVE  InOrder(s) /\ (Matches(s) => Matches(t))
<1>1. PICK u \in Text : t = s \o u
  BY DEF Pre
<1>2. t \in Text /\ SliceOf(s, t, 0)
  <2>1. t \in Text /\ Len(t) = Len(s) + Len(u) /\ Len(s) \in Nat /\ Len(u) \in Nat
    BY <1>1, TextCat, LenProperties DEF Text
  <2>2. \A i \in 1..Len(s) : t[0 + i] = s[i]
    BY <1>1, <2>1, TextElements
  <2>3. QED
    BY <2>1, <2>2 DEF SliceOf
<1>3. InOrder(s)
  BY <1>2, SliceInOrder
<1>4. ASSUME Matches(s) PROVE Matches(t)
  <2>1. PICK w \in Terms : \E o \in [1..Len(w) -> Units(s)] : Occurs(s, w, o)
    BY <1>4 DEF Matches
  <2>2. PICK o \in [1..Len(w) -> Units(s)] : Occurs(s, w, o)
    BY <2>1
  <2> DEFINE p == [k \in 1..Len(w) |-> Moved(o[k], 0)]
  <2>3. p \in [1..Len(w) -> Units(t)]
    BY <1>2, SliceUnits
  <2>4. Occurs(t, w, p)
    BY <1>2, <2>2, <2>3, OccursInSlice
  <2>5. QED
    BY <2>3, <2>4 DEF Matches
<1>5. QED
  BY <1>3, <1>4

\* An occurrence within the bounds of a slice is one in the slice.
LEMMA MatchesSlice ==
  ASSUME NEW s \in Text, NEW t \in Text, NEW d \in Nat, SliceOf(s, t, d), InOrder(t),
         NEW w \in Terms, NEW o \in [1..Len(w) -> Units(t)], Occurs(t, w, o),
         d < o[1][1], o[Len(w)][1] <= d + Len(s)
  PROVE  Matches(s)
<1>1. Len(w) \in Nat \ {0} /\ 1 \in 1..Len(w) /\ Len(w) \in 1..Len(w)
  BY LookBackIsLongest
<1>2. ASSUME NEW k \in 1..Len(w) PROVE \E v \in Units(s) : o[k] = Moved(v, d)
  <2>1. 1 < k => Earlier(o[1], o[k])
    BY <1>1, InOrderBefore DEF Occurs
  <2>2. k < Len(w) => Earlier(o[k], o[Len(w)])
    BY <1>1, InOrderBefore DEF Occurs
  <2>3. o[1][1] \in Nat /\ o[k][1] \in Nat /\ o[Len(w)][1] \in Nat /\ Len(s) \in Nat
    BY <1>1, UnitsAre
  <2>4. o[1][1] <= o[k][1] /\ o[k][1] <= o[Len(w)][1]
    BY <1>1, <2>1, <2>2, <2>3 DEF Earlier
  <2>5. d < o[k][1] /\ o[k][1] <= d + Len(s) /\ o[k] \in Units(t)
    BY <2>3, <2>4
  <2>6. QED
    BY <2>5, SliceUnits
<1> DEFINE p == [k \in 1..Len(w) |-> CHOOSE v \in Units(s) : o[k] = Moved(v, d)]
<1>3. p \in [1..Len(w) -> Units(s)] /\ \A k \in 1..Len(w) : o[k] = Moved(p[k], d)
  BY <1>2
<1>4. Occurs(s, w, p)
  BY <1>3, OccursInSlice
<1>5. QED
  BY <1>3, <1>4 DEF Matches

\* Where every character has a letter, an occurrence of a term spans no more characters
\* than the term has letters.
LEMMA OccursSpan ==
  ASSUME NEW t \in Text, InOrder(t),
         NEW w \in Terms, NEW o \in [1..Len(w) -> Units(t)], Occurs(t, w, o)
  PROVE  o[Len(w)][1] - o[1][1] < Len(w)
<1> DEFINE n == Len(w)
           f == [k \in 1..n |-> o[k][1]]
           T == {f[k] : k \in 1..n}
           a == o[1][1]
           b == o[n][1]
<1>1. n \in Nat \ {0} /\ 1 \in 1..n /\ n \in 1..n
  BY LookBackIsLongest
<1>2. a \in 1..Len(t) /\ b \in 1..Len(t) /\ Len(t) \in Nat
  BY <1>1, UnitsAre
<1>3. ASSUME NEW i \in a..b PROVE i \in T
  <2>1. CASE i = a \/ i = b
    BY <1>1, <2>1
  <2>2. CASE a < i /\ i < b
    <3>1. i \in 1..Len(t)
      BY <1>2
    <3>2. <<i, 1>> \in Units(t)
      <4>1. Normal[t[i]] \in Seq(Letters) /\ Normal[t[i]] # <<>>
        BY <3>1, ElementOfSeq, OutputAssumption DEF InOrder, Text
      <4>2. 1 \in 1..Len(Normal[t[i]])
        BY <4>1, EmptySeq, LenProperties
      <4>3. QED
        BY <3>1, <4>2, UnitsAre
    <3>3. Earlier(o[1], <<i, 1>>) /\ Earlier(<<i, 1>>, o[n])
      BY <2>2 DEF Earlier
    <3>4. PICK k \in 1..n : <<i, 1>> = o[k]
      BY <1>1, <3>2, <3>3, InOrderBefore DEF Occurs
    <3>5. f[k] = i
      BY <3>4
    <3>6. QED
      BY <3>5
  <2>3. QED
    BY <1>2, <2>1, <2>2
<1>4. IsFiniteSet(T) /\ Cardinality(T) <= n
  <2>1. f \in Surjection(1..n, T)
    BY DEF Surjection
  <2>2. IsFiniteSet(1..n) /\ Cardinality(1..n) = n
    BY <1>1, FS_Interval
  <2> HIDE DEF f, T
  <2>3. QED
    BY <2>1, <2>2, FS_Surjection
<1> HIDE DEF f, T
<1>5. Cardinality(a..b) = (IF a > b THEN 0 ELSE b - a + 1) /\ IsFiniteSet(a..b)
  <2>1. a \in Int /\ b \in Int
    BY <1>2
  <2> HIDE DEF a, b
  <2>2. QED
    BY <2>1, FS_Interval
<1> HIDE DEF a, b
<1>6. Cardinality(a..b) <= Cardinality(T) /\ Cardinality(T) \in Nat
  BY <1>3, <1>4, FS_Subset, FS_CardinalityType
<1>7. b - a < n
  BY <1>1, <1>2, <1>4, <1>5, <1>6
<1>8. QED
  BY <1>7 DEF a, b

\* A term in a text of which the look-back q is held was there before the last chunk, or
\* is in the look-back and the chunk: one that ends in the chunk begins no earlier than
\* the look-back does, which has as many characters as the term has letters.
LEMMA MatchesHeld ==
  ASSUME NEW p \in Text, NEW q \in Text, NEW chunk \in Text,
         Len(q) = IF Len(p \o q) < LookBack THEN Len(p \o q) ELSE LookBack,
         InOrder((p \o q) \o chunk), Matches((p \o q) \o chunk)
  PROVE  Matches(p \o q) \/ Matches(q \o chunk)
<1> DEFINE s == p \o q
           t == s \o chunk
           r == q \o chunk
<1>1. /\ s \in Text /\ Len(s) = Len(p) + Len(q) /\ r \in Text /\ Len(r) = Len(q) + Len(chunk)
      /\ t \in Text /\ Len(t) = Len(s) + Len(chunk) /\ t = p \o r
      /\ Len(p) \in Nat /\ Len(q) \in Nat /\ Len(chunk) \in Nat
  <2>1. s \in Text /\ Len(s) = Len(p) + Len(q) /\ r \in Text /\ Len(r) = Len(q) + Len(chunk)
    BY TextCat
  <2>2. t = p \o r
    BY TextAssoc
  <2> HIDE DEF s
  <2>3. t \in Text /\ Len(t) = Len(s) + Len(chunk)
    BY <2>1, TextCat
  <2>4. Len(p) \in Nat /\ Len(q) \in Nat /\ Len(chunk) \in Nat
    BY LenProperties DEF Text
  <2>5. QED
    BY <2>1, <2>2, <2>3, <2>4
<1>2. InOrder(t) /\ Matches(t)
  OBVIOUS
<1>3. SliceOf(s, t, 0)
  <2> HIDE DEF s
  <2>1. \A i \in 1..Len(s) : t[0 + i] = s[i]
    BY <1>1, TextElements
  <2>2. QED
    BY <1>1, <2>1 DEF SliceOf
<1>4. SliceOf(r, t, Len(p))
  <2> HIDE DEF r, t, s
  <2>1. \A i \in 1..Len(r) : t[Len(p) + i] = r[i]
    BY <1>1, TextElements
  <2>2. QED
    BY <1>1, <2>1 DEF SliceOf
<1>5. Len(q) = IF Len(s) < LookBack THEN Len(s) ELSE LookBack
  OBVIOUS
<1> SUFFICES Matches(s) \/ Matches(r)
  OBVIOUS
<1> HIDE DEF s, t, r
<1>6. PICK w \in Terms : \E o \in [1..Len(w) -> Units(t)] : Occurs(t, w, o)
  BY <1>2 DEF Matches
<1>7. PICK o \in [1..Len(w) -> Units(t)] : Occurs(t, w, o)
  BY <1>6
<1>8. /\ Len(w) \in Nat \ {0} /\ Len(w) <= LookBack /\ LookBack \in Nat
      /\ o[1][1] \in 1..Len(t) /\ o[Len(w)][1] \in 1..Len(t)
  <2>1. Len(w) \in Nat \ {0} /\ Len(w) <= LookBack /\ LookBack \in Nat
    BY LookBackIsLongest
  <2>2. o[1] \in Units(t) /\ o[Len(w)] \in Units(t)
    BY <2>1
  <2>3. QED
    BY <1>1, <2>1, <2>2, UnitsAre
<1>9. CASE o[Len(w)][1] <= Len(s)
  <2>1. 0 < o[1][1] /\ o[Len(w)][1] <= 0 + Len(s)
    BY <1>1, <1>8, <1>9
  <2>2. QED
    BY <1>1, <1>2, <1>3, <1>7, <2>1, MatchesSlice
<1>10. CASE o[Len(w)][1] > Len(s)
  <2>1. o[Len(w)][1] - o[1][1] < Len(w)
    BY <1>1, <1>2, <1>7, OccursSpan
  <2>2. Len(p) < o[1][1] /\ o[Len(w)][1] <= Len(p) + Len(r)
    BY <1>1, <1>5, <1>8, <1>10, <2>1
  <2>3. QED
    BY <1>1, <1>2, <1>4, <1>7, <2>2, MatchesSlice
<1>11. QED
  BY <1>1, <1>8, <1>9, <1>10

-----------------------------------------------------------------------------
(* The steps of flushOutput and queueOutput on the buffers.                *)

\* s has the same text to give, and the same fate, as r.
Keeps(r, s) ==
    /\ s.outcome = r.outcome /\ s.failed = r.failed /\ s.pending = r.pending
    /\ Late(s.flight) = Late(r.flight)
    /\ ~r.failed => Kept(s) = Kept(r)

\* Keeping the text is transitive.
LEMMA KeepsTrans ==
  ASSUME NEW r, NEW s, NEW t, Keeps(r, s), Keeps(s, t)
  PROVE  Keeps(r, t)
  BY DEF Keeps

\* The fields of a typed record.
LEMMA RunFields ==
  ASSUME NEW r \in Run
  PROVE  /\ r.buffer \in Text /\ r.rest \in Text /\ r.pending \in Text
         /\ r.flight \in Flight /\ r.flight.batch \in Text
         /\ Flying(r.flight) \in Text /\ Late(r.flight) \in Text
         /\ r.waiters \in Seq(Callers) /\ r.failed \in BOOLEAN
         /\ r.outcome \in Outcomes
  BY EmptySeq DEF Run, Flight, Text, Flying, Late

\* What is kept is a text.
LEMMA KeptTyped == ASSUME NEW r \in Run PROVE Kept(r) \in Text
  BY RunFields, TextCat DEF Kept

\* No write in flight: no caller, no batch, no step.
LEMMA NoFlightIdle ==
  /\ NoFlight \in Flight /\ Flying(NoFlight) = <<>> /\ Late(NoFlight) = <<>>
  /\ NoFlight.by = "none" /\ NoFlight.batch = <<>> /\ NoFlight.step = "none"
  /\ Len(<<>>) = 0
  BY EmptySeq DEF NoFlight, Flight, Flying, Late

\* A write starts with what is buffered.
LEMMA StartKeeps ==
  ASSUME NEW r, NEW who \in Callers, Base(r), ~r.failed, r.flight = NoFlight
  PROVE  LET s == StartWrite(r, who) IN
         /\ Base(s) /\ Keeps(r, s) /\ s.at = r.at /\ s.rest = r.rest
         /\ s.flight.by = who /\ s.buffer = <<>> /\ s.waiters = <<>>
<1> DEFINE s == StartWrite(r, who)
<1>1. r \in Run /\ Len(r.buffer) <= BatchSize /\ r.waiters = <<>>
  BY DEF Base, Typed
<1>2. /\ s \in Run /\ s.at = r.at /\ s.rest = r.rest /\ s.pending = r.pending
      /\ s.flight.by = who /\ s.flight.batch = r.buffer /\ s.flight.step = "sent"
      /\ s.buffer = <<>> /\ s.waiters = r.waiters
      /\ s.outcome = r.outcome /\ s.failed = r.failed
  BY <1>1, EmptySeq DEF StartWrite, Run, Flight
<1> HIDE DEF s
<1>3. Flying(s.flight) = r.buffer /\ Late(s.flight) = <<>>
  BY <1>2 DEF Flying, Late
<1>4. Kept(s) = Kept(r)
  <2>1. r.buffer \in Text /\ r.rest \o r.pending \in Text
    BY <1>1, RunFields, TextCat
  <2>2. Kept(r) = r.buffer \o (r.rest \o r.pending)
    BY <2>1, NoFlightIdle, TextCat DEF Kept
  <2>3. Kept(s) = r.buffer \o (r.rest \o r.pending)
    BY <1>2, <1>3, <2>1, TextCat DEF Kept
  <2>4. QED
    BY <2>2, <2>3
<1>5. Keeps(r, s)
  BY <1>2, <1>3, <1>4, NoFlightIdle DEF Keeps
<1>6. Base(s)
  BY <1>1, <1>2, NoFlightIdle, OutputAssumption DEF Base, Typed
<1>7. QED
  BY <1>1, <1>2, <1>5, <1>6 DEF s

\* Or the caller waits for the write in flight.
LEMMA WaitKeeps ==
  ASSUME NEW r, NEW who \in Callers, Base(r), r.flight # NoFlight
  PROVE  LET s == [r EXCEPT !.waiters = Append(@, who)] IN
         /\ Base(s) /\ Keeps(r, s) /\ s.at = r.at /\ s.rest = r.rest
         /\ s.flight = r.flight /\ s.buffer = r.buffer
         /\ s.waiters = Append(r.waiters, who)
<1> DEFINE s == [r EXCEPT !.waiters = Append(@, who)]
<1>1. r \in Run
  BY DEF Base, Typed
<1>2. Append(r.waiters, who) \in Seq(Callers)
  BY <1>1, RunFields, AppendProperties
<1>3. /\ s \in Run /\ s.at = r.at /\ s.rest = r.rest /\ s.pending = r.pending
      /\ s.flight = r.flight /\ s.buffer = r.buffer
      /\ s.waiters = Append(r.waiters, who)
      /\ s.outcome = r.outcome /\ s.failed = r.failed
  BY <1>1, <1>2 DEF Run
<1> HIDE DEF s
<1>4. Base(s) /\ Keeps(r, s)
  BY <1>3 DEF Base, Typed, Keeps, Kept
<1>5. QED
  BY <1>3, <1>4 DEF s

\* Who waits after one more does.
LEMMA WaitersAppend ==
  ASSUME NEW w \in Seq(Callers), NEW who \in Callers
  PROVE  /\ ToSet(Append(w, who)) = ToSet(w) \cup {who}
         /\ \A i \in DOMAIN Append(w, who) :
              \/ i \in DOMAIN w /\ Append(w, who)[i] = w[i]
              \/ i = Len(w) + 1 /\ Append(w, who)[i] = who
<1>1. /\ Append(w, who) \in Seq(Callers) /\ Len(Append(w, who)) = Len(w) + 1
      /\ \A i \in 1..Len(w) : Append(w, who)[i] = w[i]
      /\ Append(w, who)[Len(w) + 1] = who
  BY AppendProperties
<1>2. /\ Len(w) \in Nat /\ DOMAIN w = 1..Len(w)
      /\ DOMAIN Append(w, who) = 1..Len(w) + 1
  BY <1>1, LenProperties
<1>3. \A i \in DOMAIN Append(w, who) :
        \/ i \in DOMAIN w /\ Append(w, who)[i] = w[i]
        \/ i = Len(w) + 1 /\ Append(w, who)[i] = who
  BY <1>1, <1>2
<1>4. ToSet(Append(w, who)) = ToSet(w) \cup {who}
  <2>1. \A i \in DOMAIN w : i \in DOMAIN Append(w, who) /\ Append(w, who)[i] = w[i]
    BY <1>1, <1>2
  <2>2. Len(w) + 1 \in DOMAIN Append(w, who)
    BY <1>2
  <2>3. QED
    BY <1>1, <1>3, <2>1, <2>2 DEF ToSet
<1>5. QED
  BY <1>3, <1>4

\* The main flow suspends in flushOutput.
LEMMA SuspendKeeps ==
  ASSUME NEW r, MainRuns(r), ~r.failed
  PROVE  LET s == Suspend(r, "main") IN
         /\ Base(s) /\ Keeps(r, s) /\ s.at = r.at /\ s.rest = r.rest
         /\ s.flight.by = "main" => s.buffer = <<>> /\ ~Waits(s)
         /\ \A i, j \in DOMAIN s.waiters :
              s.waiters[i] = "main" /\ s.waiters[j] = "main" => i = j
         /\ s.flight.by = "main" \/ Waits(s)
<1> DEFINE s == Suspend(r, "main")
<1>1. "main" \in Callers /\ Base(r) /\ r \in Run /\ r.flight.by # "main" /\ ~Waits(r)
  BY DEF MainRuns, Callers, Base, Typed
<1>2. CASE r.flight = NoFlight
  <2>1. s = StartWrite(r, "main")
    BY <1>2 DEF Suspend
  <2>2. /\ Base(s) /\ Keeps(r, s) /\ s.at = r.at /\ s.rest = r.rest
        /\ s.flight.by = "main" /\ s.buffer = <<>> /\ s.waiters = <<>>
    BY <1>1, <1>2, <2>1, StartKeeps
  <2> HIDE DEF s
  <2>3. DOMAIN s.waiters = {} /\ ToSet(s.waiters) = {}
    BY <2>2 DEF ToSet
  <2>4. QED
    BY <2>2, <2>3 DEF Waits, s
<1>3. CASE r.flight # NoFlight
  <2>1. s = [r EXCEPT !.waiters = Append(@, "main")]
    BY <1>3 DEF Suspend
  <2>2. /\ Base(s) /\ Keeps(r, s) /\ s.at = r.at /\ s.rest = r.rest
        /\ s.flight = r.flight /\ s.buffer = r.buffer
        /\ s.waiters = Append(r.waiters, "main")
    BY ZenonT(40), <1>1, <1>3, <2>1, WaitKeeps
  <2> HIDE DEF s
  <2>3. r.waiters \in Seq(Callers)
    BY <1>1, RunFields
  <2>4. /\ Waits(s)
        /\ \A i \in DOMAIN s.waiters :
             \/ i \in DOMAIN r.waiters /\ s.waiters[i] = r.waiters[i]
             \/ i = Len(r.waiters) + 1
    BY <1>1, <2>2, <2>3, WaitersAppend DEF Waits
  <2>5. \A i \in DOMAIN r.waiters : r.waiters[i] # "main"
    BY <1>1 DEF Waits, ToSet
  <2>6. QED
    BY <1>1, <2>2, <2>4, <2>5 DEF s
<1>4. QED
  BY <1>2, <1>3

\* Where the main flow is until its outcome is settled.
Moving == Suspended \cup {"provider", "close"}

\* Where it does not await a flush, it runs.
LEMMA RunningShape ==
  ASSUME NEW r, MainRuns(r), r.at \notin Suspended, Placed(r)
  PROVE  Shape(r)
<1>1. \A i \in DOMAIN r.waiters : r.waiters[i] # "main"
  BY DEF MainRuns, Waits, ToSet
<1>2. QED
  BY <1>1 DEF MainRuns, Shape, MainOnce

\* The main flow awaits flushOutput: its shape and the text are kept.
LEMMA SuspendShape ==
  ASSUME NEW r, MainRuns(r), ~r.failed, r.at \in Suspended,
         r.rest # <<>> => r.at \in {"queue", "tail"},
         r.pending # <<>> => Going(r), Going(r) => r.outcome = "failed"
  PROVE  LET s == Suspend(r, "main") IN Shape(s) /\ Keeps(r, s) /\ s.at = r.at
<1> DEFINE s == Suspend(r, "main")
<1>1. /\ Base(s) /\ Keeps(r, s) /\ s.at = r.at /\ s.rest = r.rest
      /\ s.flight.by = "main" => s.buffer = <<>> /\ ~Waits(s)
      /\ \A i, j \in DOMAIN s.waiters :
           s.waiters[i] = "main" /\ s.waiters[j] = "main" => i = j
      /\ s.flight.by = "main" \/ Waits(s)
  BY SuspendKeeps
<1> HIDE DEF s
<1>2. MainOnce(s)
  BY <1>1 DEF MainOnce
<1>3. Placed(s)
  BY <1>1 DEF Placed, Keeps, Going, Suspended
<1>4. QED
  BY <1>1, <1>2, <1>3 DEF Shape, s

\* Where the main flow is, and the timer.
Put(r, at, timer) == [r EXCEPT !.at = at, !.timer = timer]

\* Setting where the main flow is, and the timer, changes no buffer.
LEMMA PutKeeps ==
  ASSUME NEW r, MainRuns(r), NEW at, NEW timer,
         at \in Suspended \cup {"provider", "close", "stage", "tell", "done", "rejected"},
         timer \in {"off", "armed", "stale"}
  PROVE  LET s == Put(r, at, timer) IN
         /\ MainRuns(s) /\ Keeps(r, s) /\ s.at = at
         /\ s.rest = r.rest /\ s.buffer = r.buffer /\ s.flight = r.flight
<1> DEFINE s == Put(r, at, timer)
<1>1. r \in Run
  BY DEF MainRuns, Base, Typed
<1>2. /\ s \in Run /\ s.at = at /\ s.timer = timer /\ s.rest = r.rest
      /\ s.pending = r.pending /\ s.flight = r.flight /\ s.buffer = r.buffer
      /\ s.waiters = r.waiters /\ s.outcome = r.outcome /\ s.failed = r.failed
      /\ s.aborted = r.aborted
  BY <1>1 DEF Run, Put
<1> HIDE DEF s
<1>3. MainRuns(s)
  BY <1>2 DEF MainRuns, Base, Typed, Waits
<1>4. Keeps(r, s)
  BY <1>2 DEF Keeps, Kept
<1>5. QED
  BY <1>2, <1>3, <1>4 DEF s

\* The flush of close() keeps the shape and the text, and leads to close or a wait.
LEMMA FinalFlushKeeps ==
  ASSUME NEW r, MainRuns(r), r.failed \/ r.rest = <<>>, r.pending = <<>>
  PROVE  LET s == FinalFlush(r) IN
         Shape(s) /\ Keeps(r, s) /\ s.at \in {"close", "drain"}
<1>1. r \in Run /\ r.timer \in {"off", "armed", "stale"} /\ (r.failed => r.flight = NoFlight)
  BY DEF MainRuns, Base, Typed, Run
<1>2. CASE r.flight = NoFlight /\ Nothing(r)
  <2> DEFINE s == Put(r, "close", "off")
  <2>1. FinalFlush(r) = s
    BY <1>2 DEF FinalFlush, Put
  <2>2. /\ MainRuns(s) /\ Keeps(r, s) /\ s.at = "close"
        /\ s.rest = r.rest /\ s.buffer = r.buffer
    BY PutKeeps
  <2> HIDE DEF s
  <2>3. Placed(s) /\ s.at \notin Suspended
    BY <1>2, <2>2 DEF Placed, Keeps, Nothing, Going, Suspended
  <2>4. QED
    BY <2>1, <2>2, <2>3, RunningShape
<1>3. CASE ~(r.flight = NoFlight /\ Nothing(r))
  <2> DEFINE d == Put(r, "drain", r.timer)
             s == Suspend(d, "main")
  <2>1. ~r.failed
    BY <1>1, <1>3 DEF Nothing
  <2>2. /\ MainRuns(d) /\ Keeps(r, d) /\ d.at = "drain" /\ d.rest = r.rest
    BY <1>1, PutKeeps DEF Suspended
  <2>3. [r EXCEPT !.at = "drain"] = d
    BY <1>1 DEF Run, Put
  <2>4. FinalFlush(r) = s
    BY <1>3, <2>3 DEF FinalFlush
  <2> HIDE DEF d
  <2>5. Shape(s) /\ Keeps(d, s) /\ s.at = "drain"
    BY <2>1, <2>2, SuspendShape DEF Keeps, Going, Suspended
  <2>6. QED
    BY <2>2, <2>4, <2>5, KeepsTrans
<1>4. QED
  BY <1>2, <1>3

\* A batch that is queued to its end goes on to the provider's next event or,
\* at the end, to the final flush; no text is lost or moved.
LEMMA QueuedKeeps ==
  ASSUME NEW r, MainRuns(r), ~r.failed, r.rest = <<>>, r.at \in {"queue", "tail"},
         r.at = "queue" => r.outcome = "failed", r.at = "tail" => r.pending = <<>>
  PROVE  LET s == Queued(r) IN
         Shape(s) /\ Keeps(r, s) /\ (Going(s) <=> Going(r)) /\ s.at \in Moving
<1> DEFINE timer == IF r.buffer # <<>> /\ r.timer = "off" THEN "armed" ELSE r.timer
           armed == [r EXCEPT !.timer = timer]
<1>1. r \in Run /\ timer \in {"off", "armed", "stale"} /\ r.at \in Suspended
  BY DEF MainRuns, Base, Typed, Run, Suspended
<1>2. Queued(r) = IF r.at = "tail" THEN FinalFlush(armed) ELSE [armed EXCEPT !.at = "provider"]
  BY DEF Queued
<1> HIDE DEF timer
<1>3. CASE r.at = "tail"
  <2>1. armed = Put(r, r.at, timer)
    BY <1>1 DEF Run, Put
  <2>2. MainRuns(armed) /\ Keeps(r, armed) /\ armed.rest = r.rest
    BY <1>1, <2>1, PutKeeps
  <2> HIDE DEF armed
  <2> DEFINE s == FinalFlush(armed)
  <2>3. Shape(s) /\ Keeps(armed, s) /\ s.at \in {"close", "drain"}
    BY <1>3, <2>2, FinalFlushKeeps DEF Keeps
  <2>4. QED
    BY <1>2, <1>3, <2>2, <2>3, KeepsTrans DEF Going, Moving, Suspended
<1>4. CASE r.at = "queue"
  <2> DEFINE s == Put(r, "provider", timer)
  <2>1. Queued(r) = s
    BY <1>1, <1>2, <1>4 DEF Run, Put
  <2>2. /\ MainRuns(s) /\ Keeps(r, s) /\ s.at = "provider" /\ s.rest = r.rest
    BY <1>1, PutKeeps
  <2> HIDE DEF s
  <2>3. Placed(s) /\ s.at \notin Suspended
    BY <1>4, <2>2 DEF Placed, Keeps, Going, Suspended
  <2>4. QED
    BY <1>4, <2>1, <2>2, <2>3, RunningShape DEF Going, Moving, Suspended
<1>5. QED
  BY <1>3, <1>4

\* Queuing what fits and flushing a full buffer loses and moves no text.
LEMMA QueueRestKeeps ==
  ASSUME NEW r, MainRuns(r), ~r.failed, r.at \in {"queue", "tail"},
         r.at = "queue" => r.outcome = "failed", r.at = "tail" => r.pending = <<>>
  PROVE  LET s == QueueRest(r) IN
         Shape(s) /\ Keeps(r, s) /\ (Going(s) <=> Going(r)) /\ s.at \in Moving
<1> DEFINE n == IF Len(r.rest) < BatchSize - Len(r.buffer)
                THEN Len(r.rest) ELSE BatchSize - Len(r.buffer)
           head == SubSeq(r.rest, 1, n)
           left == SubSeq(r.rest, n + 1, Len(r.rest))
           filled == [r EXCEPT !.buffer = r.buffer \o head, !.rest = left]
<1>1. r \in Run /\ Base(r) /\ Len(r.buffer) <= BatchSize /\ BatchSize \in Nat
  BY OutputAssumption DEF MainRuns, Base, Typed
<1>2. r.buffer \in Text /\ r.rest \in Text /\ r.pending \in Text /\ Flying(r.flight) \in Text
  BY <1>1, RunFields
<1>3. Len(r.buffer) \in Nat /\ Len(r.rest) \in Nat
  BY <1>2, LenProperties DEF Text
<1>4. n \in 0..Len(r.rest) /\ n <= BatchSize - Len(r.buffer)
      /\ (n < BatchSize - Len(r.buffer) => n = Len(r.rest))
  <2>1. CASE Len(r.rest) < BatchSize - Len(r.buffer)
    <3> DEFINE room == BatchSize - Len(r.buffer)
               all  == Len(r.rest)
    <3>1. n = all
      BY <2>1
    <3>2. room \in Nat /\ all \in Nat /\ all < room
      BY <1>1, <1>3, <2>1
    <3> HIDE DEF n, room, all
    <3>3. n \in 0..all /\ n <= room
      BY <3>1, <3>2
    <3>4. QED
      BY <3>1, <3>3 DEF room, all
  <2>2. CASE ~(Len(r.rest) < BatchSize - Len(r.buffer))
    <3> DEFINE room == BatchSize - Len(r.buffer)
    <3>1. n = room
      BY <2>2
    <3>2. room \in Nat /\ ~(Len(r.rest) < room)
      BY <1>1, <1>3, <2>2
    <3> HIDE DEF n, room
    <3>3. n \in 0..Len(r.rest) /\ n <= room /\ ~(n < room)
      BY <1>3, <3>1, <3>2
    <3>4. QED
      BY <3>3 DEF room
  <2>3. QED
    BY <2>1, <2>2
<1>5. QueueRest(r) = IF Len(filled.buffer) >= BatchSize THEN Suspend(filled, "main")
                                                        ELSE Queued(filled)
  BY DEF QueueRest
<1> HIDE DEF n
<1>6. /\ head \in Text /\ Len(head) = n /\ left \in Text /\ Len(left) = Len(r.rest) - n
      /\ head \o left = r.rest
  BY <1>2, <1>4, TextSplit
<1> HIDE DEF head, left
<1>7. r.buffer \o head \in Text /\ Len(r.buffer \o head) = Len(r.buffer) + n
  BY <1>2, <1>6, TextCat
<1>8. /\ filled \in Run /\ filled.buffer = r.buffer \o head /\ filled.rest = left
      /\ filled.at = r.at /\ filled.pending = r.pending /\ filled.flight = r.flight
      /\ filled.waiters = r.waiters /\ filled.outcome = r.outcome
      /\ filled.failed = r.failed
  BY <1>1, <1>6, <1>7 DEF Run, Text
<1> HIDE DEF filled
<1>9. MainRuns(filled)
  BY <1>1, <1>3, <1>4, <1>7, <1>8 DEF MainRuns, Base, Typed, Waits
<1>10. Kept(filled) = Kept(r)
  <2>1. left \o r.pending \in Text
    BY <1>2, <1>6, TextCat
  <2>2. (r.buffer \o head) \o (left \o r.pending) = r.buffer \o (head \o (left \o r.pending))
    BY ZenonT(40), <1>2, <1>6, <2>1, TextAssoc
  <2>3. head \o (left \o r.pending) = (head \o left) \o r.pending
    BY ZenonT(40), <1>2, <1>6, TextAssoc
  <2>4. QED
    BY <1>6, <1>8, <2>2, <2>3 DEF Kept
<1>11. Keeps(r, filled)
  BY <1>8, <1>10 DEF Keeps
<1>12. CASE Len(filled.buffer) >= BatchSize
  <2> DEFINE s == Suspend(filled, "main")
  <2>1. Shape(s) /\ Keeps(filled, s) /\ s.at = filled.at
    BY <1>8, <1>9, SuspendShape DEF Going, Suspended
  <2> HIDE DEF s
  <2>2. QED
    BY <1>5, <1>8, <1>11, <1>12, <2>1, KeepsTrans DEF Going, Moving, Suspended, s
<1>13. CASE ~(Len(filled.buffer) >= BatchSize)
  <2> DEFINE s == Queued(filled)
  <2>1. n < BatchSize - Len(r.buffer)
    BY <1>1, <1>3, <1>4, <1>7, <1>8, <1>13
  <2>2. left = <<>>
    BY <1>3, <1>4, <1>6, <2>1, EmptySeq DEF Text
  <2>3. Shape(s) /\ Keeps(filled, s) /\ (Going(s) <=> Going(filled)) /\ s.at \in Moving
    BY <1>8, <1>9, <2>2, QueuedKeeps
  <2> HIDE DEF s
  <2>4. QED
    BY <1>5, <1>8, <1>11, <1>13, <2>3, KeepsTrans DEF Going, Moving, Suspended, s
<1>14. QED
  BY <1>12, <1>13

\* What the finally block still has to store.
FilterTail(r) == IF r.outcome = "blocked" THEN <<>> ELSE r.pending

\* The finally block drops the look-back of a blocked answer and queues it
\* otherwise; what was in flight or buffered stays.
LEMMA FinallyKeeps ==
  ASSUME NEW r, MainRuns(r)
  PROVE  LET s == Finally(r) IN
         /\ Shape(s) /\ ~Going(s) /\ s.at \in Moving
         /\ s.outcome = r.outcome /\ s.failed = r.failed
         /\ Late(s.flight) = Late(r.flight)
         /\ ~r.failed => Kept(s) = Flying(r.flight) \o (r.buffer \o FilterTail(r))
<1> DEFINE tail == FilterTail(r)
           timer == IF r.timer = "armed" THEN "stale" ELSE r.timer
           left == [r EXCEPT !.timer = timer, !.pending = <<>>, !.rest = <<>>]
           queued == [left EXCEPT !.at = "tail", !.rest = tail]
           s == Finally(r)
<1>1. r \in Run /\ timer \in {"off", "armed", "stale"}
  BY DEF MainRuns, Base, Typed, Run
<1>2. /\ tail \in Text /\ r.buffer \in Text /\ Flying(r.flight) \in Text
      /\ <<>> \in Text /\ tail \o <<>> = tail /\ <<>> \o <<>> = <<>>
  BY <1>1, RunFields, TextCat, EmptySeq DEF FilterTail, Text
<1>3. s = IF tail = <<>> \/ r.failed THEN FinalFlush(left) ELSE QueueRest(queued)
  BY DEF Finally, FilterTail
<1> HIDE DEF tail, timer
<1>4. /\ left \in Run /\ left.pending = <<>> /\ left.rest = <<>>
      /\ left.flight = r.flight /\ left.buffer = r.buffer /\ left.waiters = r.waiters
      /\ left.outcome = r.outcome /\ left.failed = r.failed
  BY <1>1, EmptySeq DEF Run
<1>5. /\ queued \in Run /\ queued.at = "tail" /\ queued.pending = <<>>
      /\ queued.rest = tail /\ queued.flight = r.flight /\ queued.buffer = r.buffer
      /\ queued.waiters = r.waiters /\ queued.outcome = r.outcome
      /\ queued.failed = r.failed
  BY <1>1, <1>2, <1>4 DEF Run, Text, Suspended
<1> HIDE DEF left, queued, s
<1>6. MainRuns(left) /\ MainRuns(queued)
  BY <1>4, <1>5 DEF MainRuns, Base, Typed, Waits
<1>7. CASE tail = <<>> \/ r.failed
  <2>1. /\ Shape(s) /\ Keeps(left, s) /\ s.at \in {"close", "drain"}
    BY <1>3, <1>4, <1>6, <1>7, FinalFlushKeeps
  <2>2. ~r.failed => Kept(left) = Flying(r.flight) \o (r.buffer \o tail)
    BY <1>2, <1>4, <1>7 DEF Kept
  <2>3. QED
    BY <1>4, <2>1, <2>2 DEF Keeps, Going, Moving, Suspended, s, tail
<1>8. CASE ~(tail = <<>> \/ r.failed)
  <2>1. /\ Shape(s) /\ Keeps(queued, s) /\ ~Going(s) /\ s.at \in Moving
    BY <1>3, <1>5, <1>6, <1>8, QueueRestKeeps DEF Going, Moving, Suspended
  <2>2. Kept(queued) = Flying(r.flight) \o (r.buffer \o tail)
    BY <1>2, <1>5 DEF Kept
  <2>3. QED
    BY <1>5, <2>1, <2>2 DEF Keeps, s, tail
<1>9. QED
  BY <1>7, <1>8

\* flushOutput returns to the main flow.
LEMMA MainResumesKeeps ==
  ASSUME NEW r, MainRuns(r), r.at \in Suspended, Placed(r), Nothing(r)
  PROVE  LET s == MainResumes(r) IN
         Shape(s) /\ Keeps(r, s) /\ (Going(s) <=> Going(r)) /\ s.at \in Moving
<1> DEFINE s == MainResumes(r)
<1>1. r \in Run /\ r.at \in {"queue", "tail", "drain"} /\ r.timer \in {"off", "armed", "stale"}
  BY DEF MainRuns, Base, Typed, Run, Suspended
<1>2. /\ r.at = "queue" => r.outcome = "failed"
      /\ r.at # "queue" => r.pending = <<>>
      /\ r.at = "drain" => r.failed \/ r.rest = <<>>
  BY <1>1 DEF Placed, Going
<1>3. CASE r.at = "drain"
  <2> DEFINE p == Put(r, "close", r.timer)
  <2>1. s = p
    BY <1>1, <1>3 DEF MainResumes, Put, Run
  <2>2. /\ MainRuns(p) /\ Keeps(r, p) /\ p.at = "close"
        /\ p.rest = r.rest /\ p.buffer = r.buffer
    BY <1>1, PutKeeps
  <2> HIDE DEF p, s
  <2>3. Placed(p) /\ p.at \notin Suspended
    BY <1>2, <1>3, <2>2 DEF Placed, Keeps, Nothing, Going, Suspended
  <2>4. QED
    BY <1>3, <2>1, <2>2, <2>3, RunningShape DEF Going, Moving, Suspended, s
<1>4. CASE r.at # "drain" /\ ~r.failed
  <2>1. s = QueueRest(r)
    BY <1>4 DEF MainResumes
  <2>2. QED
    BY <1>1, <1>2, <1>4, <2>1, QueueRestKeeps
<1>5. CASE r.at = "tail" /\ r.failed
  <2>1. s = FinalFlush(r)
    BY <1>5 DEF MainResumes
  <2>2. QED
    BY <1>2, <1>5, <2>1, FinalFlushKeeps DEF Going, Moving, Suspended
<1>6. CASE r.at = "queue" /\ r.failed
  <2>1. s = [r EXCEPT !.at = "provider", !.rest = <<>>]
    BY <1>6 DEF MainResumes
  <2>2. /\ s \in Run /\ s.at = "provider" /\ s.rest = <<>> /\ s.pending = r.pending
        /\ s.flight = r.flight /\ s.buffer = r.buffer /\ s.waiters = r.waiters
        /\ s.outcome = r.outcome /\ s.failed = r.failed
    BY ZenonT(40), <1>1, <2>1, EmptySeq DEF Run
  <2> HIDE DEF s
  <2>3. MainRuns(s) /\ Keeps(r, s)
    BY <1>6, <2>2 DEF MainRuns, Base, Typed, Waits, Keeps
  <2>4. Placed(s) /\ s.at \notin Suspended
    BY <1>2, <1>6, <2>2 DEF Placed, Going, Suspended
  <2>5. QED
    BY <1>6, <2>2, <2>3, <2>4, RunningShape DEF Going, Moving, Suspended, s
<1>7. QED
  BY <1>1, <1>3, <1>4, <1>5, <1>6

\* flushOutput throws: from the provider's loop, what was to be queued is lost
\* and only the look-back is left; from the finally block, run() rejects.
LEMMA MainThrowsKeeps ==
  ASSUME NEW r, MainRuns(r), r.at \in Suspended, Placed(r), Nothing(r),
         r.flight = NoFlight
  PROVE  LET s == MainThrows(r) IN
         /\ Shape(s) /\ ~Going(s) /\ s.failed = r.failed /\ Late(s.flight) = <<>>
         /\ Going(r) => /\ s.outcome \in {"cancelled", "failed"} /\ s.at \in Moving
                        /\ ~r.failed => Kept(s) = r.pending
         /\ ~Going(r) => s.outcome = r.outcome /\ s.at = "rejected"
<1> DEFINE s == MainThrows(r)
<1>1. /\ r \in Run /\ r.at \in {"queue", "tail", "drain"}
      /\ r.timer \in {"off", "armed", "stale"}
  BY DEF MainRuns, Base, Typed, Run, Suspended
<1>2. CASE r.at = "queue"
  <2> DEFINE o == IF r.aborted THEN "cancelled" ELSE "failed"
             e == [r EXCEPT !.outcome = o]
  <2>1. s = Finally(e)
    BY <1>2 DEF MainThrows
  <2>2. o \in {"cancelled", "failed"}
    OBVIOUS
  <2> HIDE DEF o
  <2>3. /\ e \in Run /\ e.outcome = o /\ e.at = r.at /\ e.rest = r.rest
        /\ e.pending = r.pending /\ e.flight = r.flight /\ e.buffer = r.buffer
        /\ e.waiters = r.waiters /\ e.failed = r.failed
    BY <1>1, <2>2 DEF Run, Outcomes
  <2> HIDE DEF e, s
  <2>4. MainRuns(e)
    BY <2>3 DEF MainRuns, Base, Typed, Waits
  <2>5. /\ Shape(s) /\ ~Going(s) /\ s.at \in Moving
        /\ s.outcome = e.outcome /\ s.failed = e.failed
        /\ Late(s.flight) = Late(e.flight)
        /\ ~e.failed => Kept(s) = Flying(e.flight) \o (e.buffer \o FilterTail(e))
    BY <2>1, <2>4, FinallyKeeps
  <2>6. ~r.failed => Flying(e.flight) \o (e.buffer \o FilterTail(e)) = r.pending
    <3>1. r.pending \in Text
      BY <1>1, RunFields
    <3>2. FilterTail(e) = r.pending
      BY <2>2, <2>3 DEF FilterTail
    <3>3. ~r.failed => e.buffer = <<>>
      BY <2>3 DEF Nothing
    <3>4. QED
      BY <2>3, <3>1, <3>2, <3>3, NoFlightIdle, TextCat
  <2>7. QED
    BY <1>2, <2>2, <2>3, <2>5, <2>6, NoFlightIdle DEF Going, s
<1>3. CASE r.at # "queue"
  <2> DEFINE p == Put(r, "rejected", r.timer)
  <2>1. s = p
    BY <1>1, <1>3 DEF MainThrows, Put, Run
  <2>2. /\ MainRuns(p) /\ Keeps(r, p) /\ p.at = "rejected"
        /\ p.rest = r.rest /\ p.buffer = r.buffer /\ p.flight = r.flight
    BY <1>1, PutKeeps
  <2> HIDE DEF p, s
  <2>3. Placed(p) /\ p.at \notin Suspended
    BY <1>1, <1>3, <2>2 DEF Placed, Keeps, Nothing, Going, Suspended
  <2>4. QED
    BY <1>1, <1>3, <2>1, <2>2, <2>3, RunningShape, NoFlightIdle DEF Keeps, Going, s
<1>4. QED
  BY <1>2, <1>3

-----------------------------------------------------------------------------
(* A write settles.                                                        *)

\* The write and its waiters are gone.
Idle(r) == [r EXCEPT !.flight = NoFlight, !.waiters = <<>>]

\* A settled write leaves no flight and no waiters: the main flow can run on.
LEMMA IdleRuns ==
  ASSUME NEW r, Typed(r), Placed(r)
  PROVE  LET s == Idle(r) IN
         /\ MainRuns(s) /\ Placed(s) /\ s.flight = NoFlight /\ s.waiters = <<>>
         /\ s.at = r.at /\ s.rest = r.rest /\ s.buffer = r.buffer
         /\ s.pending = r.pending /\ s.outcome = r.outcome /\ s.failed = r.failed
<1> DEFINE s == Idle(r)
<1>1. /\ s \in Run /\ s.flight = NoFlight /\ s.waiters = <<>>
      /\ s.at = r.at /\ s.rest = r.rest /\ s.buffer = r.buffer
      /\ s.pending = r.pending /\ s.outcome = r.outcome /\ s.failed = r.failed
  BY NoFlightIdle, EmptySeq DEF Typed, Run, Idle
<1> HIDE DEF s
<1>2. ToSet(s.waiters) = {}
  BY <1>1 DEF ToSet
<1>3. MainRuns(s)
  BY <1>1, <1>2, NoFlightIdle, OutputAssumption DEF Typed, MainRuns, Base, Waits
<1>4. Placed(s)
  BY <1>1 DEF Placed, Going
<1>5. QED
  BY <1>1, <1>3, <1>4 DEF s

\* The first waiter, the others, and whether the main flow is among them.
LEMMA WaitersSplit ==
  ASSUME NEW w \in Seq(Callers), NEW by \in Callers
  PROVE  /\ "main" \in ToSet(Append(w, by)) <=> "main" \in ToSet(w) \/ by = "main"
         /\ w # <<>> =>
              /\ Head(w) \in Callers /\ Head(w) = w[1] /\ 1 \in DOMAIN w
              /\ "main" \in ToSet(Append(Tail(w), by))
                   <=> by = "main" \/ \E i \in DOMAIN w : i # 1 /\ w[i] = "main"
<1>1. "main" \in ToSet(Append(w, by)) <=> "main" \in ToSet(w) \/ by = "main"
  BY WaitersAppend
<1>2. ASSUME w # <<>>
      PROVE  /\ Head(w) \in Callers /\ Head(w) = w[1] /\ 1 \in DOMAIN w
             /\ "main" \in ToSet(Append(Tail(w), by))
                  <=> by = "main" \/ \E i \in DOMAIN w : i # 1 /\ w[i] = "main"
  <2>1. /\ Head(w) \in Callers /\ Tail(w) \in Seq(Callers)
        /\ Len(Tail(w)) = Len(w) - 1
        /\ \A i \in 1..Len(Tail(w)) : Tail(w)[i] = w[i + 1]
    BY <1>2, HeadTailProperties
  <2>2. /\ Len(w) \in Nat \ {0} /\ DOMAIN w = 1..Len(w)
        /\ DOMAIN Tail(w) = 1..Len(w) - 1
    BY <1>2, <2>1, LenProperties, EmptySeq
  <2>3. Head(w) = w[1]
    BY <1>2
  <2>4. "main" \in ToSet(Tail(w)) <=> \E i \in DOMAIN w : i # 1 /\ w[i] = "main"
    <3>1. ASSUME NEW i \in DOMAIN Tail(w), Tail(w)[i] = "main"
          PROVE  i + 1 \in DOMAIN w /\ i + 1 # 1 /\ w[i + 1] = "main"
      BY <2>1, <2>2, <3>1
    <3>2. ASSUME NEW i \in DOMAIN w, i # 1, w[i] = "main"
          PROVE  i - 1 \in DOMAIN Tail(w) /\ Tail(w)[i - 1] = "main"
      <4>1. i - 1 \in 1..Len(w) - 1 /\ (i - 1) + 1 = i
        BY <2>2, <3>2
      <4>2. QED
        BY <2>1, <2>2, <3>2, <4>1
    <3>3. QED
      BY <3>1, <3>2 DEF ToSet
  <2>5. ToSet(Append(Tail(w), by)) = ToSet(Tail(w)) \cup {by}
    BY <2>1, WaitersAppend
  <2>6. QED
    BY <2>1, <2>2, <2>3, <2>4, <2>5
<1>3. QED
  BY <1>1, <1>2

\* A write that settles without throwing: what was buffered meanwhile is
\* written next by the first who waits, and the others go on.
LEMMA WakeKeeps ==
  ASSUME NEW r, Typed(r), MainOnce(r), Placed(r), r.flight.by \in Callers,
         r.at # "rejected"
  PROVE  LET s == Wake(r) IN
         /\ Shape(s) /\ (Going(s) <=> Going(r)) /\ s.at # "rejected"
         /\ s.at = r.at \/ (r.at \in Suspended /\ s.at \in Moving)
         /\ s.outcome = r.outcome /\ s.failed = r.failed /\ s.pending = r.pending
         /\ Late(s.flight) = <<>>
         /\ ~r.failed => Kept(s) = r.buffer \o (r.rest \o r.pending)
<1> DEFINE idle == Idle(r)
           takes == r.waiters # <<>> /\ ~Nothing(idle)
           next == IF takes THEN StartWrite(idle, Head(r.waiters)) ELSE idle
           returned == IF takes THEN Append(Tail(r.waiters), r.flight.by)
                                ELSE Append(r.waiters, r.flight.by)
           s == Wake(r)
<1>1. s = IF "main" \in ToSet(returned) THEN MainResumes(next) ELSE next
  BY DEF Wake, Idle
<1>2. /\ MainRuns(idle) /\ Placed(idle) /\ idle.flight = NoFlight /\ idle.waiters = <<>>
      /\ idle.at = r.at /\ idle.rest = r.rest /\ idle.buffer = r.buffer
      /\ idle.pending = r.pending /\ idle.outcome = r.outcome /\ idle.failed = r.failed
  BY IdleRuns
<1>3. r \in Run /\ r.waiters \in Seq(Callers)
  BY RunFields DEF Typed
<1>4. ~r.failed => Kept(idle) = r.buffer \o (r.rest \o r.pending)
  <2>1. r.buffer \o (r.rest \o r.pending) \in Text
    BY <1>3, RunFields, TextCat
  <2>2. QED
    BY <1>2, <2>1, NoFlightIdle, TextCat DEF Kept
<1> HIDE DEF idle, s
<1>5. /\ Base(next) /\ Keeps(idle, next) /\ next.at = r.at /\ next.rest = r.rest
      /\ next.waiters = <<>> /\ Late(next.flight) = <<>>
      /\ takes => Nothing(next)
      /\ takes => next.flight.by = Head(r.waiters) /\ next.buffer = <<>>
      /\ ~takes => next = idle
  <2>1. CASE takes
    <3>1. Head(r.waiters) \in Callers /\ ~idle.failed
      BY <1>3, <2>1, HeadTailProperties DEF Nothing
    <3>2. /\ Base(next) /\ Keeps(idle, next) /\ next.at = idle.at
          /\ next.rest = idle.rest /\ next.flight.by = Head(r.waiters)
          /\ next.buffer = <<>> /\ next.waiters = <<>>
      BY <1>2, <2>1, <3>1, StartKeeps DEF MainRuns
    <3>3. QED
      BY <1>2, <2>1, <3>2, NoFlightIdle DEF Keeps, Nothing
  <2>2. CASE ~takes
    <3>1. next = idle
      BY <2>2
    <3>2. QED
      BY <1>2, <2>2, <3>1, NoFlightIdle DEF Keeps, MainRuns
  <2>3. QED
    BY <2>1, <2>2
<1>6. Placed(next)
  <2>1. CASE takes
    BY <1>2, <1>5, <2>1 DEF Placed, Keeps, Going
  <2>2. CASE ~takes
    BY <1>2, <1>5, <2>2
  <2>3. QED
    BY <2>1, <2>2
<1>7. ("main" \in ToSet(returned))
        <=> r.at \in Suspended /\ ~(takes /\ Head(r.waiters) = "main")
  <2>1. r.at \in Suspended <=> (r.flight.by = "main" \/ Waits(r))
    BY DEF MainOnce
  <2>2. CASE takes
    <3>1. r.waiters # <<>> /\ returned = Append(Tail(r.waiters), r.flight.by)
      BY <2>2
    <3> HIDE DEF takes, returned
    <3>2. /\ Head(r.waiters) = r.waiters[1] /\ 1 \in DOMAIN r.waiters
          /\ "main" \in ToSet(returned)
               <=> r.flight.by = "main"
                   \/ \E i \in DOMAIN r.waiters : i # 1 /\ r.waiters[i] = "main"
      BY <1>3, <3>1, WaitersSplit
    <3>3. CASE Head(r.waiters) = "main"
      <4>1. Waits(r)
        BY <3>2, <3>3 DEF Waits, ToSet
      <4>2. r.flight.by # "main" /\ \A i \in DOMAIN r.waiters : r.waiters[i] = "main" => i = 1
        BY <3>2, <3>3, <4>1 DEF MainOnce
      <4>3. QED
        BY <2>2, <3>2, <3>3, <4>2
    <3>4. CASE Head(r.waiters) # "main"
      <4>1. Waits(r) <=> \E i \in DOMAIN r.waiters : i # 1 /\ r.waiters[i] = "main"
        BY <3>2, <3>4 DEF Waits, ToSet
      <4>2. QED
        BY <2>1, <3>2, <3>4, <4>1
    <3>5. QED
      BY <3>3, <3>4
  <2>3. CASE ~takes
    <3>1. returned = Append(r.waiters, r.flight.by)
      BY <2>3
    <3>2. "main" \in ToSet(returned) <=> "main" \in ToSet(r.waiters) \/ r.flight.by = "main"
      BY <1>3, <3>1, WaitersSplit
    <3>3. QED
      BY <2>1, <2>3, <3>2 DEF Waits
  <2>4. QED
    BY <2>2, <2>3
<1>8. ~(takes /\ Head(r.waiters) = "main") => MainRuns(next)
  <2>1. CASE takes
    BY <1>5, <2>1 DEF MainRuns, Waits, ToSet
  <2>2. CASE ~takes
    BY <1>2, <1>5, <2>2
  <2>3. QED
    BY <2>1, <2>2
<1>9. r.at \in Suspended => Nothing(next)
  <2>1. CASE ~takes /\ r.waiters = <<>> /\ r.at \in Suspended
    <3>1. r.flight.by = "main"
      BY <2>1 DEF MainOnce, Waits, ToSet
    <3>2. r.buffer = <<>>
      BY <3>1 DEF MainOnce
    <3>3. QED
      BY <1>2, <1>5, <2>1, <3>2 DEF Nothing
  <2>2. CASE ~takes /\ r.waiters # <<>>
    <3>1. Nothing(idle)
      BY <2>2
    <3>2. QED
      BY <1>5, <2>2, <3>1
  <2>3. QED
    BY <1>5, <2>1, <2>2
<1> HIDE DEF takes, next, returned
<1>10. /\ Shape(s) /\ Keeps(next, s) /\ (Going(s) <=> Going(r)) /\ s.at # "rejected"
       /\ s.at = r.at \/ (r.at \in Suspended /\ s.at \in Moving)
  <2>1. CASE "main" \in ToSet(returned)
    <3>1. s = MainResumes(next) /\ MainRuns(next) /\ next.at \in Suspended /\ Nothing(next)
      BY <1>1, <1>5, <1>7, <1>8, <1>9, <2>1
    <3>2. /\ Shape(s) /\ Keeps(next, s) /\ (Going(s) <=> Going(next)) /\ s.at \in Moving
      BY <1>6, <3>1, MainResumesKeeps
    <3>3. QED
      BY <1>5, <3>1, <3>2 DEF Going, Moving, Suspended
  <2>2. CASE "main" \notin ToSet(returned) /\ takes /\ Head(r.waiters) = "main"
    <3>1. s = next
      BY <1>1, <2>2
    <3>2. r.at \in Suspended
      <4>1. Head(r.waiters) = r.waiters[1] /\ 1 \in DOMAIN r.waiters
        BY <1>3, <2>2, WaitersSplit DEF takes
      <4>2. QED
        BY <2>2, <4>1 DEF MainOnce, Waits, ToSet
    <3>3. MainOnce(next)
      <4>1. next.waiters = <<>>
        BY <1>5
      <4>2. ToSet(next.waiters) = {} /\ DOMAIN next.waiters = {}
        BY <4>1 DEF ToSet
      <4>3. QED
        BY <1>5, <2>2, <3>2, <4>2 DEF MainOnce, Waits
    <3>4. Shape(next) /\ Keeps(next, next)
      BY <1>5, <1>6, <3>3 DEF Shape, Keeps
    <3>5. QED
      BY <1>5, <3>1, <3>4 DEF Going
  <2>3. CASE "main" \notin ToSet(returned) /\ ~(takes /\ Head(r.waiters) = "main")
    <3>1. s = next /\ next.at \notin Suspended /\ MainRuns(next)
      BY <1>1, <1>5, <1>7, <1>8, <2>3
    <3>2. Shape(next) /\ Keeps(next, next)
      BY <1>6, <3>1, RunningShape DEF Keeps
    <3>3. QED
      BY <1>5, <3>1, <3>2 DEF Going
  <2>4. QED
    BY <2>1, <2>2, <2>3
<1>11. Keeps(idle, s)
  BY <1>5, <1>10, KeepsTrans
<1>12. QED
  BY <1>2, <1>4, <1>10, <1>11, NoFlightIdle DEF Keeps, s

\* A write that throws ends the output when the timer is among the callers;
\* the main flow leaves the provider's loop, or rejects.
LEMMA WakeThrownKeeps ==
  ASSUME NEW r, Shape(r), r.flight # NoFlight
  PROVE  LET s == WakeThrown(r) IN
         /\ Shape(s) /\ Late(s.flight) = <<>>
         /\ r.at \notin Suspended => /\ s.failed /\ s.at = r.at /\ s.outcome = r.outcome
                                     /\ s.pending = r.pending
         /\ r.at = "queue" => /\ s.outcome \in {"cancelled", "failed"}
                              /\ ~Going(s) /\ s.at \in Moving
                              /\ ~s.failed => Kept(s) = r.pending
         /\ r.at \in {"tail", "drain"} => s.at = "rejected" /\ s.outcome = r.outcome
<1> DEFINE threw == ToSet(r.waiters) \cup {r.flight.by}
           stops == "timer" \in threw
           failed == r.failed \/ stops
           aborted == r.aborted \/ stops
           idle == [Idle(r) EXCEPT !.failed = failed, !.aborted = aborted]
           s == WakeThrown(r)
<1>1. /\ Typed(r) /\ r \in Run /\ MainOnce(r) /\ Placed(r) /\ ~r.failed
      /\ r.flight.by \in Callers
      /\ r.at \in Suspended <=> "main" \in threw
  BY DEF Shape, Base, Typed, MainOnce, Waits
<1>2. /\ MainRuns(Idle(r)) /\ Placed(Idle(r)) /\ Idle(r).flight = NoFlight
      /\ Idle(r).waiters = <<>> /\ Idle(r).at = r.at /\ Idle(r).rest = r.rest
      /\ Idle(r).buffer = r.buffer /\ Idle(r).pending = r.pending
      /\ Idle(r).outcome = r.outcome /\ Idle(r).failed = r.failed
  BY <1>1, IdleRuns
<1>3. Idle(r) \in Run /\ Idle(r).aborted = r.aborted
  BY <1>1, <1>2 DEF MainRuns, Base, Typed, Idle, Run
<1>4. failed \in BOOLEAN /\ aborted \in BOOLEAN
  BY <1>1 DEF Run
<1>5. s = IF "main" \in threw THEN MainThrows(idle) ELSE idle
  <2>1. idle = [r EXCEPT !.flight = NoFlight, !.waiters = <<>>,
                         !.failed = @ \/ stops, !.aborted = @ \/ stops]
    BY <1>1 DEF Idle, Run
  <2>2. QED
    BY <2>1 DEF WakeThrown
<1>6. r.flight.by = "timer" => failed
  OBVIOUS
<1> HIDE DEF threw, failed, aborted, s
<1>7. /\ idle \in Run /\ idle.failed = failed /\ idle.flight = NoFlight
      /\ idle.waiters = <<>> /\ idle.at = r.at /\ idle.rest = r.rest
      /\ idle.buffer = r.buffer /\ idle.pending = r.pending /\ idle.outcome = r.outcome
  BY <1>2, <1>3, <1>4 DEF Run
<1> HIDE DEF idle
<1>8. MainRuns(idle) /\ Placed(idle)
  <2>1. MainRuns(idle)
    BY <1>2, <1>7 DEF MainRuns, Base, Typed, Waits
  <2>2. Placed(idle)
    BY <1>1, <1>2, <1>7 DEF Placed, Going
  <2>3. QED
    BY <2>1, <2>2
<1>9. CASE r.at \in Suspended
  <2>1. s = MainThrows(idle)
    BY <1>1, <1>5, <1>9
  <2>2. Nothing(idle)
    BY <1>1, <1>6, <1>7 DEF Nothing, MainOnce, Callers
  <2>3. /\ Shape(s) /\ ~Going(s) /\ s.failed = idle.failed /\ Late(s.flight) = <<>>
        /\ Going(idle) => /\ s.outcome \in {"cancelled", "failed"} /\ s.at \in Moving
                          /\ ~idle.failed => Kept(s) = idle.pending
        /\ ~Going(idle) => s.outcome = idle.outcome /\ s.at = "rejected"
    BY <1>7, <1>8, <1>9, <2>1, <2>2, MainThrowsKeeps
  <2>4. QED
    BY <1>7, <1>9, <2>3 DEF Going, Suspended, s
<1>10. CASE r.at \notin Suspended
  <2>1. s = idle /\ r.flight.by = "timer"
    BY <1>1, <1>5, <1>10 DEF Callers, threw
  <2>2. Shape(s)
    BY <1>7, <1>8, <1>10, <2>1, RunningShape
  <2>3. QED
    BY <1>6, <1>7, <1>10, <2>1, <2>2, NoFlightIdle DEF Suspended, s
<1>11. QED
  BY <1>9, <1>10

-----------------------------------------------------------------------------
(* The other events.                                                       *)

\* A main flow that is not suspended runs.
LEMMA ShapeRuns ==
  ASSUME NEW r, Shape(r), r.at \notin Suspended
  PROVE  MainRuns(r)
  BY DEF Shape, MainOnce, MainRuns

\* A change of the timer or the abort flag leaves the buffers alone.
LEMMA SameShape ==
  ASSUME NEW r, Shape(r), NEW s \in Run,
         s.at = r.at, s.outcome = r.outcome, s.pending = r.pending, s.rest = r.rest,
         s.buffer = r.buffer, s.flight = r.flight, s.waiters = r.waiters,
         s.failed = r.failed
  PROVE  Shape(s) /\ Keeps(r, s)
<1>1. Base(s)
  BY DEF Shape, Base, Typed
<1>2. MainOnce(s)
  BY DEF Shape, MainOnce, Waits
<1>3. Placed(s)
  BY DEF Shape, Placed, Going
<1>4. QED
  BY <1>1, <1>2, <1>3 DEF Shape, Keeps, Kept

\* The append in its next step.
SetStep(r, step) == [r EXCEPT !.flight.step = step]

\* The next step of the append keeps the shape and every text.
LEMMA StepShape ==
  ASSUME NEW r, Shape(r), r.flight.step \in {"sent", "fenced"},
         NEW step \in {"fenced", "refused", "applied"}
  PROVE  LET s == SetStep(r, step) IN
         /\ Shape(s) /\ s.at = r.at /\ s.outcome = r.outcome /\ s.failed = r.failed
         /\ s.pending = r.pending /\ s.flight.batch = r.flight.batch
         /\ s.rest = r.rest /\ s.buffer = r.buffer /\ s.flight.step = step
<1> DEFINE s == SetStep(r, step)
<1>1. r \in Run /\ r.flight \in Flight /\ r.flight # NoFlight
  BY NoFlightIdle, RunFields DEF Shape, Base, Typed
<1>2. /\ s \in Run /\ s.at = r.at /\ s.outcome = r.outcome /\ s.failed = r.failed
      /\ s.pending = r.pending /\ s.flight.batch = r.flight.batch
      /\ s.rest = r.rest /\ s.buffer = r.buffer /\ s.flight.step = step
      /\ s.waiters = r.waiters /\ s.flight.by = r.flight.by
  BY <1>1 DEF Run, Flight, SetStep
<1> HIDE DEF s
<1>3. Base(s)
  BY <1>1, <1>2, NoFlightIdle DEF Shape, Base, Typed
<1>4. MainOnce(s)
  BY <1>2 DEF Shape, MainOnce, Waits
<1>5. Placed(s)
  BY <1>1, <1>2 DEF Shape, Placed, Going
<1>6. QED
  BY <1>2, <1>3, <1>4, <1>5 DEF Shape, s

\* The timer's flush writes what is buffered, or waits.
LEMMA TimerSuspends ==
  ASSUME NEW r, Shape(r), ~(r.flight = NoFlight /\ Nothing(r))
  PROVE  LET s == Suspend(r, "timer") IN Shape(s) /\ Keeps(r, s) /\ s.at = r.at
<1> DEFINE s == Suspend(r, "timer")
<1>1. "timer" \in Callers /\ "timer" # "main" /\ Base(r) /\ r \in Run
  BY DEF Callers, Shape, Base, Typed
<1>2. CASE r.flight = NoFlight
  <2>1. s = StartWrite(r, "timer") /\ ~r.failed /\ r.waiters = <<>>
    BY <1>1, <1>2 DEF Suspend, Nothing, Base
  <2>2. /\ Base(s) /\ Keeps(r, s) /\ s.at = r.at /\ s.rest = r.rest
        /\ s.flight.by = "timer" /\ s.buffer = <<>> /\ s.waiters = <<>>
    BY <1>1, <1>2, <2>1, StartKeeps
  <2> HIDE DEF s
  <2>3. s.waiters = <<>>
    BY <2>2
  <2>4. DOMAIN s.waiters = {} /\ ToSet(s.waiters) = {} /\ ToSet(r.waiters) = {}
    BY <2>1, <2>3 DEF ToSet
  <2>5. MainOnce(s)
    BY <1>1, <1>2, <2>2, <2>4, NoFlightIdle DEF Shape, MainOnce, Waits
  <2>6. Placed(s)
    BY <1>2, <2>1, <2>2 DEF Shape, Placed, Keeps, Going, Nothing
  <2>7. QED
    BY <2>2, <2>5, <2>6 DEF Shape, s
<1>3. CASE r.flight # NoFlight
  <2>1. s = [r EXCEPT !.waiters = Append(@, "timer")]
    BY <1>3 DEF Suspend
  <2>2. /\ Base(s) /\ Keeps(r, s) /\ s.at = r.at /\ s.rest = r.rest
        /\ s.flight = r.flight /\ s.buffer = r.buffer
        /\ s.waiters = Append(r.waiters, "timer")
    BY <1>1, <1>3, <2>1, WaitKeeps
  <2> HIDE DEF s
  <2>3. r.waiters \in Seq(Callers)
    BY <1>1, RunFields
  <2>4. /\ Waits(s) <=> Waits(r)
        /\ \A i \in DOMAIN s.waiters : s.waiters[i] = "main" =>
             i \in DOMAIN r.waiters /\ r.waiters[i] = "main"
    BY <1>1, <2>2, <2>3, WaitersAppend DEF Waits
  <2>5. MainOnce(s)
    BY <2>2, <2>4 DEF Shape, MainOnce
  <2>6. Placed(s)
    BY <1>3, <2>2 DEF Shape, Placed, Keeps, Going
  <2>7. QED
    BY <2>2, <2>5, <2>6 DEF Shape, s
<1>4. QED
  BY <1>2, <1>3

\* Text from the provider: the filter blocks, or holds back the end of what it
\* has and queues the rest.
LEMMA PushKeeps ==
  ASSUME NEW r, Shape(r), r.at = "provider", NEW chunk \in Text
  PROVE  LET s == Push(r, chunk)
             held == r.pending \o chunk IN
         /\ Shape(s) /\ s.at \in Moving /\ s.failed = r.failed
         /\ Late(s.flight) = Late(r.flight)
         /\ Matches(held) =>
              /\ s.outcome = "blocked" /\ ~Going(s)
              /\ ~r.failed => Kept(s) = Flying(r.flight) \o (r.buffer \o <<>>)
         /\ ~Matches(held) =>
              /\ s.outcome = "failed" /\ Going(s)
              /\ Len(s.pending) = IF Len(held) < LookBack THEN Len(held) ELSE LookBack
              /\ \E p \in Text : held = p \o s.pending
              /\ ~r.failed => Kept(s) = Flying(r.flight) \o (r.buffer \o held)
<1> DEFINE held == r.pending \o chunk
           split == IF Len(held) > LookBack THEN Len(held) - LookBack ELSE 0
           front == SubSeq(held, 1, split)
           back == SubSeq(held, split + 1, Len(held))
           stopped == [r EXCEPT !.outcome = "blocked", !.aborted = TRUE, !.pending = <<>>]
           passed == [r EXCEPT !.pending = back]
           queued == [passed EXCEPT !.at = "queue", !.rest = front]
           s == Push(r, chunk)
<1>1. /\ r \in Run /\ MainRuns(r) /\ Placed(r) /\ r.outcome = "failed"
      /\ r.failed \/ r.rest = <<>>
  BY ShapeRuns DEF Shape, Base, Typed, Placed, Going, Suspended
<1>2. /\ held \in Text /\ r.buffer \in Text /\ Flying(r.flight) \in Text
      /\ Len(held) \in Nat /\ LookBack \in Nat
  BY <1>1, RunFields, TextCat, LenProperties, LookBackIsLongest DEF Text
<1>3. s = IF Matches(held) THEN Finally(stopped)
          ELSE IF split = 0 \/ r.failed THEN passed ELSE QueueRest(queued)
  BY DEF Push
<1> HIDE DEF held
<1>4. /\ split \in 0..Len(held)
      /\ Len(held) - split = IF Len(held) < LookBack THEN Len(held) ELSE LookBack
  <2>1. CASE Len(held) > LookBack
    <3>1. split = Len(held) - LookBack
      BY <2>1
    <3> HIDE DEF split
    <3>2. QED
      BY <1>2, <2>1, <3>1
  <2>2. CASE ~(Len(held) > LookBack)
    <3>1. split = 0
      BY <2>2
    <3> HIDE DEF split
    <3>2. QED
      BY <1>2, <2>2, <3>1
  <2>3. QED
    BY <2>1, <2>2
<1> HIDE DEF split
<1>5. /\ front \in Text /\ back \in Text /\ front \o back = held
      /\ Len(back) = Len(held) - split /\ (split = 0 => front = <<>>)
  <2>1. split = 0 => SubSeq(held, 1, split) = <<>>
    BY SubSeqEmpty
  <2>2. QED
    BY <1>2, <1>4, <2>1, TextSplit
<1> HIDE DEF front, back, s
<1>6. CASE Matches(held)
  <2>1. /\ stopped \in Run /\ stopped.outcome = "blocked" /\ stopped.flight = r.flight
        /\ stopped.buffer = r.buffer /\ stopped.waiters = r.waiters
        /\ stopped.failed = r.failed
    BY <1>1, EmptySeq DEF Run, Outcomes
  <2> HIDE DEF stopped
  <2>2. MainRuns(stopped)
    BY <1>1, <2>1 DEF MainRuns, Base, Typed, Waits
  <2>3. FilterTail(stopped) = <<>>
    BY <2>1 DEF FilterTail
  <2>4. s = Finally(stopped)
    BY <1>3, <1>6
  <2>5. /\ Shape(s) /\ ~Going(s) /\ s.at \in Moving
        /\ s.outcome = stopped.outcome /\ s.failed = stopped.failed
        /\ Late(s.flight) = Late(stopped.flight)
        /\ ~stopped.failed =>
             Kept(s) = Flying(stopped.flight) \o (stopped.buffer \o FilterTail(stopped))
    BY <2>2, <2>4, FinallyKeeps
  <2>6. QED
    BY <1>6, <2>1, <2>3, <2>5 DEF s, held
<1>7. CASE ~Matches(held)
  <2>1. /\ passed \in Run /\ passed.at = "provider" /\ passed.outcome = "failed"
        /\ passed.pending = back /\ passed.rest = r.rest /\ passed.buffer = r.buffer
        /\ passed.flight = r.flight /\ passed.waiters = r.waiters
        /\ passed.failed = r.failed
    BY <1>1, <1>5 DEF Run, Text
  <2>2. /\ queued \in Run /\ queued.at = "queue" /\ queued.outcome = "failed"
        /\ queued.pending = back /\ queued.rest = front /\ queued.buffer = r.buffer
        /\ queued.flight = r.flight /\ queued.waiters = r.waiters
        /\ queued.failed = r.failed
    BY <1>5, <2>1 DEF Run, Text, Suspended
  <2> HIDE DEF passed, queued
  <2>3. MainRuns(passed) /\ MainRuns(queued)
    BY <1>1, <2>1, <2>2 DEF MainRuns, Base, Typed, Waits
  <2>4. /\ Shape(s) /\ Going(s) /\ s.at \in Moving /\ s.failed = r.failed
        /\ s.outcome = "failed" /\ s.pending = back
        /\ Late(s.flight) = Late(r.flight)
        /\ ~r.failed => Kept(s) = Flying(r.flight) \o (r.buffer \o held)
    <3>1. CASE split = 0 \/ r.failed
      <4>1. s = passed
        BY <1>3, <1>7, <3>1
      <4>2. Placed(passed) /\ passed.at \notin Suspended
        BY <1>1, <2>1 DEF Placed, Going, Suspended
      <4>3. Shape(passed)
        BY <2>3, <4>2, RunningShape
      <4>4. ~r.failed => Kept(passed) = Flying(r.flight) \o (r.buffer \o held)
        <5>1. ~r.failed => r.rest \o back = held
          BY <1>1, <1>5, <3>1
        <5>2. QED
          BY <2>1, <5>1 DEF Kept
      <4>5. QED
        BY <2>1, <4>1, <4>3, <4>4 DEF Going, Moving
    <3>2. CASE ~(split = 0 \/ r.failed)
      <4>1. s = QueueRest(queued)
        BY <1>3, <1>7, <3>2
      <4>2. /\ Shape(s) /\ Keeps(queued, s) /\ (Going(s) <=> Going(queued))
            /\ s.at \in Moving
        BY <2>2, <2>3, <3>2, <4>1, QueueRestKeeps
      <4>3. Kept(queued) = Flying(r.flight) \o (r.buffer \o held)
        BY <1>5, <2>2 DEF Kept
      <4>4. QED
        BY <2>2, <4>2, <4>3 DEF Keeps, Going
    <3>3. QED
      BY <3>1, <3>2
  <2>5. QED
    BY <1>4, <1>5, <1>7, <2>4 DEF s, held
<1>8. QED
  BY <1>6, <1>7

-----------------------------------------------------------------------------
(* The steps of the system: what they have in common.                      *)

\* A write is only in flight while the output goes on.
LEMMA FlightGoesOn ==
  ASSUME NEW r, Shape(r), r.flight # NoFlight
  PROVE  ~Stopped(r) /\ ~r.failed /\ r.at # "rejected"
  BY DEF Shape, Base, Placed, Stopped

\* Held and shown texts are texts, and what is stored begins what is held.
LEMMA TextsTyped ==
  ASSUME NEW m \in Text, NEW r \in Run
  PROVE  HeldOf(m, r) \in Text /\ SeenOf(m, r) \in Text /\ Pre(m, HeldOf(m, r))
<1>1. Kept(r) \in Text /\ Late(r.flight) \in Text
  BY KeptTyped, RunFields
<1>2. QED
  BY <1>1, TextCat, PreRefl, PreCat DEF HeldOf, SeenOf

\* Typed steps keep the type invariant.
LEMMA TypeStep ==
  ASSUME TypeOK, Shape(run'), said' \in Text, message' \in Text, shown' \in Text,
         running' \in BOOLEAN, status' \in Outcomes \cup {"running"},
         told' \in Outcomes \cup {"null"}
  PROVE  TypeOK'
  BY DEF TypeOK, Shape, Base, Typed, Text

\* Nothing is said, and what can be stored only shrinks, and then for good.
LEMMA TextSteady ==
  ASSUME TypeOK, Shape(run'), message' \in Text,
         TextSound, PendingSound, FilterSound,
         said' = said, Pre(Held', Held),
         ~Stopped(run') => ~Stopped(run) /\ Held' = Held,
         run'.outcome = "blocked" <=> run.outcome = "blocked",
         Whole(run') => Whole(run),
         Going(run') => Going(run) /\ run'.pending = run.pending
  PROVE  TextSound' /\ PendingSound' /\ FilterSound'
<1>1. Held' \in Text /\ Held \in Text /\ said \in Text
  BY TextsTyped DEF Held, TypeOK, Shape, Base, Typed, Text
<1>2. TextSound'
  <2>1. ~Stopped(run') /\ Whole(run') => Held' = said'
    BY DEF TextSound
  <2>2. Whole(run') \/ run'.outcome = "blocked" => Pre(Held', said')
    BY <1>1, PreTrans DEF TextSound
  <2>3. Skipped(Held', said')
    BY <1>1, SkipsTrans DEF TextSound
  <2>4. QED
    BY <2>1, <2>2, <2>3 DEF TextSound
<1>3. PendingSound'
  BY DEF PendingSound
<1>4. FilterSound'
  <2> SUFFICES ASSUME InOrder(said), run.outcome = "blocked" PROVE ~Matches(Held')
    BY DEF FilterSound
  <2>1. ~Matches(Held) /\ Pre(Held, said)
    BY DEF FilterSound, TextSound
  <2>2. InOrder(Held)
    BY <1>1, <2>1, MatchesPre
  <2>3. QED
    BY <1>1, <2>1, <2>2, MatchesPre
<1>5. QED
  BY <1>2, <1>3, <1>4

\* The row stays, and so does what is shown or the output stops.
LEMMA SeenSteady ==
  ASSUME TypeOK, Shape(run'), shown' \in Text, SeenSound, message' = message,
         Whole(run') \/ run'.outcome = "blocked" => Whole(run) \/ run.outcome = "blocked",
         \/ Seen' = Seen /\ (~Stopped(run') => ~Stopped(run))
         \/ Pre(Seen', Seen) /\ Stopped(run')
  PROVE  SeenSound'
<1>1. Seen' \in Text /\ Seen \in Text /\ message \in Text
  BY TextsTyped DEF Seen, TypeOK, Shape, Base, Typed, Text
<1>2. Pre(Seen', Seen)
  BY <1>1, PreRefl
<1>3. Skipped(Seen', message')
  BY <1>1, <1>2, SkipsTrans DEF SeenSound
<1>4. Whole(run') \/ run'.outcome = "blocked" => Pre(Seen', message')
  BY <1>1, <1>2, PreTrans DEF SeenSound
<1>5. ~Stopped(run') => Seen' = Seen /\ ~Stopped(run)
  OBVIOUS
<1>6. QED
  BY <1>3, <1>4, <1>5 DEF SeenSound

\* After the last flush only a write in flight can still store text.
LEMMA LateFlight ==
  ASSUME TypeOK, Shape(run), TextSound, run.at \in {"close", "stage", "tell", "done"},
         ~run.failed, run.outcome = "completed"
  PROVE  /\ message \o Flying(run.flight) = said
         /\ Len(said) - Len(message) <= BatchSize
         /\ Len(said) - Len(message) = Len(Flying(run.flight))
<1>1. /\ run.buffer = <<>> /\ run.rest = <<>> /\ run.pending = <<>>
      /\ ~Stopped(run) /\ Whole(run)
  BY DEF Shape, Placed, Stopped, Whole, Going
<1>2. /\ Flying(run.flight) \in Text /\ message \in Text
      /\ Len(Flying(run.flight)) <= BatchSize /\ Len(message) \in Nat
      /\ Len(Flying(run.flight)) \in Nat
  <2>1. Flying(run.flight) \in Text /\ message \in Text
    BY RunFields DEF TypeOK, Text
  <2>2. Len(Flying(run.flight)) <= BatchSize
    BY NoFlightIdle, OutputAssumption DEF TypeOK, Flying
  <2>3. QED
    BY <2>1, <2>2, LenProperties DEF Text
<1>3. Kept(run) = Flying(run.flight)
  BY <1>1, <1>2, TextCat DEF Kept
<1>4. message \o Flying(run.flight) = said
  BY <1>1, <1>3 DEF TextSound, Held, HeldOf
<1>5. Len(said) = Len(message) + Len(Flying(run.flight))
  BY <1>2, <1>4, TextCat
<1>6. QED
  BY <1>2, <1>4, <1>5

\* The invariant holds before the provider said anything.
LEMMA OutputInvInit == Init => OutputInv
<1> SUFFICES ASSUME Init PROVE OutputInv
  OBVIOUS
<1>1. /\ run \in Run /\ run.at = "provider" /\ run.outcome = "failed"
      /\ run.pending = <<>> /\ run.rest = <<>> /\ run.buffer = <<>>
      /\ run.flight = NoFlight /\ run.waiters = <<>> /\ run.failed = FALSE
  BY EmptySeq, NoFlightIdle DEF Init, Run, Outcomes, Suspended
<1>2. /\ message = <<>> /\ said = <<>> /\ shown = <<>> /\ status = "running"
      /\ running = TRUE /\ told = "null"
  BY DEF Init
<1>3. TypeOK
  BY <1>1, <1>2, EmptySeq, NoFlightIdle, OutputAssumption DEF TypeOK
<1>4. Shape(run)
  <2>1. MainRuns(run)
    BY <1>1, <1>3, NoFlightIdle DEF MainRuns, Base, Typed, TypeOK, Waits, ToSet
  <2>2. Placed(run) /\ run.at \notin Suspended
    BY <1>1 DEF Placed, Going, Suspended
  <2>3. QED
    BY <2>1, <2>2, RunningShape
<1>5. <<>> \in Text /\ <<>> \o <<>> = <<>> /\ Len(<<>>) = 0
  BY EmptySeq, TextCat DEF Text
<1>6. Held = <<>> /\ Seen = <<>>
  <2>1. Kept(run) = <<>> /\ ~Stopped(run)
    BY <1>1, <1>5, NoFlightIdle DEF Kept, Stopped
  <2>2. QED
    BY <1>1, <1>2, <1>5, <2>1, NoFlightIdle DEF Held, HeldOf, Seen, SeenOf
<1>7. Pre(<<>>, <<>>) /\ Cut(<<>>, <<>>) /\ Skipped(<<>>, <<>>)
  BY <1>5, PreRefl, CutRefl, CutSkips
<1>8. TextSound /\ SeenSound
  BY <1>2, <1>6, <1>7 DEF TextSound, SeenSound
<1>9. PendingSound
  <2>1. Len(said) = 0 /\ Len(run.pending) = 0 /\ LookBack \in Nat
    BY <1>1, <1>2, <1>5, LookBackIsLongest
  <2>2. said = <<>> \o run.pending
    BY <1>1, <1>2, <1>5
  <2>3. (IF Len(said) < LookBack THEN Len(said) ELSE LookBack) = 0
    BY <2>1
  <2>4. QED
    BY <1>5, <2>1, <2>2, <2>3 DEF PendingSound
<1>10. FilterSound
  <2>1. \A t \in Terms : 1 \in 1..Len(t)
    BY LookBackIsLongest
  <2>2. ~Matches(said)
    BY <1>1, <1>2, <2>1 DEF Matches, Units
  <2>3. QED
    BY <1>1, <2>2 DEF FilterSound
<1>11. LateSound /\ StatusSound
  BY <1>1, <1>2 DEF LateSound, StatusSound
<1>12. QED
  BY <1>3, <1>4, <1>8, <1>9, <1>10, <1>11 DEF OutputInv

\* A step that keeps every text where it is.
LEMMA QuietStep ==
  ASSUME OutputInv, Shape(run'), Keeps(run, run'), run'.at = run.at,
         UNCHANGED <<said, message, shown, status, told>>, running' \in BOOLEAN
  PROVE  OutputInv'
<1>1. TypeOK' /\ message' \in Text /\ shown' \in Text
  BY TypeStep DEF OutputInv, TypeOK, Text
<1>2. /\ Stopped(run') <=> Stopped(run)
      /\ Whole(run') <=> Whole(run)
      /\ Going(run') <=> Going(run)
      /\ run'.outcome = run.outcome /\ run'.pending = run.pending
  BY DEF Keeps, Stopped, Whole, Going
<1>3. Held' = Held /\ Seen' = Seen
  BY <1>2 DEF Keeps, Held, HeldOf, Seen, SeenOf, Stopped
<1>4. Pre(Held', Held)
  BY <1>3, TextsTyped, PreRefl DEF Held, OutputInv, Shape, Base, Typed, TypeOK, Text
<1>5. TextSound' /\ PendingSound' /\ FilterSound'
  BY <1>1, <1>2, <1>3, <1>4, TextSteady DEF OutputInv
<1>6. SeenSound'
  BY <1>1, <1>2, <1>3, SeenSteady DEF OutputInv
<1>7. LateSound' /\ StatusSound'
  BY <1>2 DEF OutputInv, LateSound, StatusSound, Keeps
<1>8. QED
  BY <1>1, <1>5, <1>6, <1>7 DEF OutputInv

\* The flush timer fires: it starts a write, waits for one or has nothing to do.
LEMMA TimerStep == ASSUME OutputInv, TimerFires PROVE OutputInv'
<1> DEFINE calm == [run EXCEPT !.timer = "off"]
           stale == [run EXCEPT !.timer = "stale"]
<1>1. run \in Run /\ Shape(run)
  BY DEF OutputInv, TypeOK
<1>2. UNCHANGED <<said, message, shown, status, told>> /\ running' \in BOOLEAN
  BY DEF TimerFires, OutputInv, TypeOK
<1>3. CASE run.flight = NoFlight /\ Nothing(run)
  <2>1. run' = calm
    BY <1>3 DEF TimerFires
  <2>2. /\ calm \in Run /\ calm.at = run.at /\ calm.outcome = run.outcome
        /\ calm.pending = run.pending /\ calm.rest = run.rest /\ calm.buffer = run.buffer
        /\ calm.flight = run.flight /\ calm.waiters = run.waiters
        /\ calm.failed = run.failed
    BY <1>1 DEF Run
  <2> HIDE DEF calm
  <2>3. Shape(calm) /\ Keeps(run, calm)
    BY <1>1, <2>2, SameShape
  <2>4. QED
    BY <1>2, <2>1, <2>2, <2>3, QuietStep
<1>4. CASE ~(run.flight = NoFlight /\ Nothing(run))
  <2>1. run' = Suspend(stale, "timer")
    BY <1>4 DEF TimerFires
  <2>2. /\ stale \in Run /\ stale.at = run.at /\ stale.outcome = run.outcome
        /\ stale.pending = run.pending /\ stale.rest = run.rest
        /\ stale.buffer = run.buffer /\ stale.flight = run.flight
        /\ stale.waiters = run.waiters /\ stale.failed = run.failed
    BY <1>1 DEF Run
  <2> HIDE DEF stale
  <2>3. Shape(stale) /\ Keeps(run, stale)
    BY <1>1, <2>2, SameShape
  <2>4. ~(stale.flight = NoFlight /\ Nothing(stale))
    BY <1>4, <2>2 DEF Nothing
  <2>5. Shape(run') /\ Keeps(stale, run') /\ run'.at = stale.at
    BY <2>1, <2>3, <2>4, TimerSuspends
  <2>6. Keeps(run, run')
    BY <2>3, <2>5, KeepsTrans
  <2>7. QED
    BY <1>2, <2>2, <2>5, <2>6, QuietStep
<1>5. QED
  BY <1>3, <1>4

\* The abort changes no text and no buffer.
LEMMA AbortStep == ASSUME OutputInv, Abort PROVE OutputInv'
<1>1. run \in Run /\ Shape(run)
  BY DEF OutputInv, TypeOK
<1>2. UNCHANGED <<said, message, shown, status, told>> /\ running' \in BOOLEAN
  BY DEF Abort, OutputInv, TypeOK
<1>3. /\ run' \in Run /\ run'.at = run.at /\ run'.outcome = run.outcome
      /\ run'.pending = run.pending /\ run'.rest = run.rest /\ run'.buffer = run.buffer
      /\ run'.flight = run.flight /\ run'.waiters = run.waiters
      /\ run'.failed = run.failed
  BY <1>1 DEF Abort, Run
<1>4. Shape(run') /\ Keeps(run, run')
  BY <1>1, <1>3, SameShape
<1>5. QED
  BY <1>2, <1>3, <1>4, QuietStep

\* Losing the lease changes nothing here; the next append finds out.
LEMMA LoseLeaseStep == ASSUME OutputInv, LoseLease PROVE OutputInv'
<1>1. Shape(run') /\ Keeps(run, run') /\ run'.at = run.at
  BY DEF LoseLease, OutputInv, Keeps
<1>2. UNCHANGED <<said, message, shown, status, told>> /\ running' \in BOOLEAN
  BY DEF LoseLease
<1>3. QED
  BY <1>1, <1>2, QuietStep

\* The append reads the row: fenced or refused, its batch is still to be stored.
LEMMA AppendReadsStep == ASSUME OutputInv, AppendReads PROVE OutputInv'
<1> DEFINE step == IF running THEN "fenced" ELSE "refused"
<1>1. step \in {"fenced", "refused", "applied"} /\ step \in {"fenced", "refused"}
  OBVIOUS
<1>2. run' = SetStep(run, step) /\ run.flight.step = "sent" /\ Shape(run)
  BY DEF AppendReads, OutputInv, SetStep
<1> HIDE DEF step
<1>3. /\ Shape(run') /\ run'.at = run.at /\ run'.outcome = run.outcome
      /\ run'.failed = run.failed /\ run'.pending = run.pending
      /\ run'.flight.batch = run.flight.batch /\ run'.rest = run.rest
      /\ run'.buffer = run.buffer /\ run'.flight.step = step
  BY <1>1, <1>2, StepShape
<1>4. Keeps(run, run')
  <2>1. run.flight.step = "sent"
    BY DEF AppendReads
  <2>2. /\ Flying(run'.flight) = Flying(run.flight)
        /\ Late(run'.flight) = <<>> /\ Late(run.flight) = <<>>
    BY <1>1, <1>3, <2>1 DEF Flying, Late
  <2>3. QED
    BY <1>3, <2>2 DEF Keeps, Kept
<1>5. UNCHANGED <<said, message, shown, status, told>> /\ running' \in BOOLEAN
  BY DEF AppendReads, OutputInv, TypeOK
<1>6. QED
  BY <1>3, <1>4, <1>5, QuietStep

\* The append writes: its batch moves from what is held to what is stored.
LEMMA AppendWritesStep == ASSUME OutputInv, AppendWrites PROVE OutputInv'
<1> DEFINE b == run.flight.batch
<1>1. /\ run' = SetStep(run, "applied") /\ run.flight.step = "fenced"
      /\ message' = message \o b /\ UNCHANGED <<said, running, status, shown, told>>
  BY DEF AppendWrites, SetStep
<1>2. /\ Shape(run') /\ run'.at = run.at /\ run'.outcome = run.outcome
      /\ run'.failed = run.failed /\ run'.pending = run.pending
      /\ run'.flight.batch = b /\ run'.rest = run.rest
      /\ run'.buffer = run.buffer /\ run'.flight.step = "applied"
  BY <1>1, StepShape DEF OutputInv
<1>3. ~Stopped(run) /\ ~Stopped(run')
  BY <1>1, <1>2, FlightGoesOn, NoFlightIdle DEF OutputInv, Stopped
<1>4. /\ b \in Text /\ message \in Text /\ shown \in Text /\ Seen = shown /\ Seen' = shown \o b
      /\ run.buffer \o (run.rest \o run.pending) \in Text
  <2>1. b \in Text /\ message \in Text /\ shown \in Text
    BY RunFields DEF OutputInv, TypeOK, Text
  <2>2. run.buffer \o (run.rest \o run.pending) \in Text
    BY RunFields, TextCat DEF OutputInv, TypeOK
  <2>3. Late(run.flight) = <<>> /\ Late(run'.flight) = b
    BY <1>1, <1>2 DEF Late
  <2>4. QED
    BY <1>1, <2>1, <2>2, <2>3, TextCat DEF Seen, SeenOf
<1>5. Held' = Held
  <2> DEFINE k == run.buffer \o (run.rest \o run.pending)
  <2>1. Kept(run) = b \o k
    BY <1>1 DEF Kept, Flying
  <2>2. Kept(run') = k
    BY <1>2, <1>4, TextCat DEF Kept, Flying
  <2>3. (message \o b) \o k = message \o (b \o k)
    BY <1>4, TextAssoc
  <2>4. QED
    BY <1>1, <1>3, <2>1, <2>2, <2>3 DEF Held, HeldOf
<1>6. TypeOK' /\ message' \in Text
  <2>1. message' \in Text
    BY <1>1, <1>4, TextCat
  <2>2. QED
    BY <1>1, <1>2, <2>1, TypeStep DEF OutputInv, TypeOK, Text
<1>7. Pre(Held', Held)
  BY <1>5, TextsTyped, PreRefl DEF Held, OutputInv, TypeOK, Text
<1>8. TextSound' /\ PendingSound' /\ FilterSound'
  BY <1>1, <1>2, <1>3, <1>5, <1>6, <1>7, TextSteady DEF OutputInv, Whole, Going
<1>9. SeenSound'
  <2>1. Cut(Seen', message')
    BY <1>1, <1>3, <1>4, CutGrows DEF OutputInv, SeenSound
  <2>2. Whole(run') \/ run'.outcome = "blocked" => Seen' = message'
    BY <1>1, <1>2, <1>3, <1>4 DEF OutputInv, SeenSound, Whole, Going
  <2>3. Seen' \in Text
    BY <1>4, TextCat
  <2>4. QED
    BY <2>1, <2>2, <2>3, CutSkips, PreRefl DEF SeenSound
<1>10. LateSound' /\ StatusSound'
  BY <1>1, <1>2, <1>3 DEF OutputInv, LateSound, StatusSound, Stopped
<1>11. QED
  BY <1>2, <1>6, <1>8, <1>9, <1>10 DEF OutputInv

\* The append has been applied: what it stored is shown.
LEMMA RepliedAppliedStep ==
  ASSUME OutputInv, run.flight.step = "applied",
         shown' = shown \o run.flight.batch, run' = Wake(run),
         UNCHANGED <<said, message, running, status, told>>
  PROVE  OutputInv'
<1>1. /\ run \in Run /\ Shape(run) /\ Typed(run) /\ MainOnce(run) /\ Placed(run)
      /\ run.flight # NoFlight /\ run.flight.by \in Callers
      /\ ~Stopped(run) /\ ~run.failed /\ run.at # "rejected"
  BY FlightGoesOn, NoFlightIdle DEF OutputInv, Shape, Base, Typed
<1>2. /\ Shape(run') /\ (Going(run') <=> Going(run)) /\ run'.at # "rejected"
      /\ run'.at = run.at \/ (run.at \in Suspended /\ run'.at \in Moving)
      /\ run'.outcome = run.outcome /\ run'.failed = run.failed
      /\ run'.pending = run.pending /\ Late(run'.flight) = <<>>
      /\ Kept(run') = run.buffer \o (run.rest \o run.pending)
  BY <1>1, WakeKeeps
<1>3. ~Stopped(run') /\ (Whole(run') <=> Whole(run))
  BY <1>1, <1>2 DEF Stopped, Whole
<1>4. /\ run.flight.batch \in Text /\ shown \in Text /\ shown' \in Text
      /\ message' \in Text /\ message \in Text
      /\ Late(run.flight) = run.flight.batch /\ Flying(run.flight) = <<>>
      /\ run.buffer \o (run.rest \o run.pending) \in Text
  <2>1. run.flight.batch \in Text /\ shown \in Text /\ message \in Text
    BY RunFields DEF OutputInv, TypeOK, Text
  <2>2. run.buffer \o (run.rest \o run.pending) \in Text
    BY <1>1, RunFields, TextCat
  <2>3. QED
    BY <2>1, <2>2, TextCat DEF Late, Flying
<1>5. Held' = Held /\ Seen' = Seen
  <2>1. Kept(run) = run.buffer \o (run.rest \o run.pending)
    BY <1>4, TextCat DEF Kept
  <2>2. Held' = Held
    BY <1>1, <1>2, <1>3, <2>1 DEF Held, HeldOf
  <2>3. Seen' = shown' /\ Seen = shown'
    BY <1>2, <1>4, TextCat DEF Seen, SeenOf
  <2>4. QED
    BY <2>2, <2>3
<1>6. TypeOK'
  BY <1>2, <1>4, TypeStep DEF OutputInv, TypeOK, Text
<1>7. Pre(Held', Held)
  BY <1>1, <1>4, <1>5, TextsTyped, PreRefl DEF Held
<1>8. TextSound' /\ PendingSound' /\ FilterSound'
  BY <1>1, <1>2, <1>3, <1>4, <1>5, <1>6, <1>7, TextSteady DEF OutputInv
<1>9. SeenSound'
  BY <1>1, <1>2, <1>3, <1>4, <1>5, SeenSteady DEF OutputInv
<1>10. LateSound' /\ StatusSound'
  BY <1>1, <1>2 DEF OutputInv, LateSound, StatusSound, Suspended, Moving
<1>11. QED
  BY <1>2, <1>6, <1>8, <1>9, <1>10 DEF OutputInv

\* A write in flight is lost, and with it all that is not stored yet: what is
\* stored stays as it is.
LEMMA OutputEnds ==
  ASSUME OutputInv, run.flight # NoFlight, Shape(run'), run'.failed,
         run'.outcome = run.outcome \/ (Going(run) /\ run'.outcome # "blocked"),
         Going(run') => Going(run) /\ run'.pending = run.pending,
         Whole(run') => Whole(run), Late(run'.flight) = <<>>,
         \/ run'.at = run.at
         \/ run.at \in Suspended /\ run'.at \in Moving \cup {"rejected"},
         UNCHANGED <<said, message, running, status, shown, told>>
  PROVE  OutputInv'
<1>1. run \in Run /\ Shape(run) /\ ~Stopped(run) /\ ~run.failed /\ Stopped(run')
  BY FlightGoesOn DEF OutputInv, TypeOK, Stopped
<1>2. message \in Text /\ shown \in Text /\ said \in Text
  BY DEF OutputInv, TypeOK, Text
<1>3. TypeOK' /\ message' \in Text /\ shown' \in Text
  BY <1>2, TypeStep DEF OutputInv, TypeOK, Text
<1>4. Pre(Held', Held)
  BY <1>1, <1>2, TextsTyped DEF Held, HeldOf
<1>5. Pre(Seen', Seen)
  <2>1. Seen' = shown /\ Late(run.flight) \in Text
    BY <1>1, <1>2, RunFields, TextCat DEF Seen, SeenOf
  <2>2. QED
    BY <1>2, <2>1, PreCat DEF Seen, SeenOf
<1>6. run'.outcome = "blocked" <=> run.outcome = "blocked"
  BY <1>1 DEF Shape, Placed
<1>7. TextSound' /\ PendingSound' /\ FilterSound'
  BY <1>1, <1>3, <1>4, <1>6, TextSteady DEF OutputInv
<1>8. SeenSound'
  BY <1>1, <1>3, <1>5, <1>6, SeenSteady DEF OutputInv
<1>9. LateSound'
  <2>1. ASSUME run'.at \in {"stage", "tell", "done"}, run'.outcome = "completed"
        PROVE  Len(said) - Len(message) <= BatchSize
    <3>1. run'.at = run.at
      BY <2>1 DEF Moving, Suspended
    <3>2. run.outcome = "completed"
      BY <2>1, <3>1 DEF Going
    <3>3. QED
      BY <1>1, <2>1, <3>1, <3>2, LateFlight DEF OutputInv
  <2>2. QED
    BY <2>1 DEF LateSound
<1>10. StatusSound'
  BY DEF OutputInv, StatusSound, Suspended, Going
<1>11. QED
  BY <1>3, <1>7, <1>8, <1>9, <1>10 DEF OutputInv

\* A refused append fails the output: what is buffered is dropped, what was
\* stored and shown stays.
LEMMA RepliedRefusedStep ==
  ASSUME OutputInv, run.flight.step = "refused", run' = WakeFailed(run),
         UNCHANGED <<said, message, running, status, shown, told>>
  PROVE  OutputInv'
<1> DEFINE q == [run EXCEPT !.failed = TRUE, !.aborted = TRUE]
<1>1. /\ run \in Run /\ Shape(run) /\ run.flight # NoFlight
      /\ run.flight.by \in Callers /\ run.at # "rejected"
  BY FlightGoesOn, NoFlightIdle DEF OutputInv, Shape, Base, Typed
<1>2. /\ q \in Run /\ q.at = run.at /\ q.outcome = run.outcome /\ q.pending = run.pending
      /\ q.rest = run.rest /\ q.buffer = run.buffer /\ q.flight = run.flight
      /\ q.waiters = run.waiters /\ q.failed
  BY <1>1 DEF Run
<1>3. run' = Wake(q)
  BY DEF WakeFailed
<1> HIDE DEF q
<1>4. /\ Typed(q) /\ MainOnce(q) /\ Placed(q)
      /\ q.flight.by \in Callers /\ q.at # "rejected"
  <2>1. Typed(q)
    BY <1>1, <1>2 DEF Shape, Base, Typed
  <2>2. MainOnce(q)
    BY <1>1, <1>2 DEF Shape, MainOnce, Waits
  <2>3. Placed(q)
    BY <1>1, <1>2 DEF Shape, Placed, Going
  <2>4. QED
    BY <1>1, <1>2, <2>1, <2>2, <2>3
<1>5. /\ Shape(run') /\ (Going(run') <=> Going(q)) /\ run'.at # "rejected"
      /\ run'.at = q.at \/ (q.at \in Suspended /\ run'.at \in Moving)
      /\ run'.outcome = q.outcome /\ run'.failed = q.failed
      /\ run'.pending = q.pending /\ Late(run'.flight) = <<>>
  <2>1. \A r : Typed(r) /\ MainOnce(r) /\ Placed(r) /\ r.flight.by \in Callers
                /\ r.at # "rejected"
          => /\ Shape(Wake(r)) /\ (Going(Wake(r)) <=> Going(r)) /\ Wake(r).at # "rejected"
             /\ Wake(r).at = r.at \/ (r.at \in Suspended /\ Wake(r).at \in Moving)
             /\ Wake(r).outcome = r.outcome /\ Wake(r).failed = r.failed
             /\ Wake(r).pending = r.pending /\ Late(Wake(r).flight) = <<>>
    BY WakeKeeps
  <2>2. QED
    BY <1>3, <1>4, <2>1
<1>6. /\ Going(run') <=> Going(run)
      /\ Whole(run') <=> Whole(run)
  BY <1>2, <1>5 DEF Going, Whole
<1>7. QED
  BY <1>1, <1>2, <1>5, <1>6, OutputEnds

\* A write throws: the output ends; or, in the provider's loop, the main flow
\* leaves it and goes on with the filter's tail; or it rejects.
LEMMA WriteThrowsStep == ASSUME OutputInv, WriteThrows PROVE OutputInv'
<1>1. /\ run \in Run /\ Shape(run) /\ run.flight # NoFlight /\ run' = WakeThrown(run)
      /\ UNCHANGED <<said, message, running, status, shown, told>>
      /\ ~Stopped(run) /\ ~run.failed
  BY FlightGoesOn DEF WriteThrows, OutputInv, TypeOK
<1>2. /\ Shape(run') /\ Late(run'.flight) = <<>>
      /\ run.at \notin Suspended => /\ run'.failed /\ run'.at = run.at
                                    /\ run'.outcome = run.outcome
                                    /\ run'.pending = run.pending
      /\ run.at = "queue" => /\ run'.outcome \in {"cancelled", "failed"}
                             /\ ~Going(run') /\ run'.at \in Moving
                             /\ ~run'.failed => Kept(run') = run.pending
      /\ run.at \in {"tail", "drain"} => run'.at = "rejected" /\ run'.outcome = run.outcome
  BY <1>1, WakeThrownKeeps
<1>3. message \in Text /\ shown \in Text /\ said \in Text
  BY DEF OutputInv, TypeOK, Text
<1>4. TypeOK' /\ message' \in Text /\ shown' \in Text
  BY <1>1, <1>2, <1>3, TypeStep DEF OutputInv, TypeOK, Text
<1>5. Late(run.flight) \in Text /\ Seen' = shown
  BY <1>1, <1>2, <1>3, RunFields, TextCat DEF Seen, SeenOf
<1>6. CASE run.at \notin Suspended \/ (run.at = "queue" /\ run'.failed)
  <2>1. /\ Going(run') => Going(run) /\ run'.pending = run.pending
        /\ Whole(run') => Whole(run)
        /\ run'.outcome = run.outcome \/ (Going(run) /\ run'.outcome # "blocked")
        /\ run'.failed
        /\ \/ run'.at = run.at
           \/ run.at \in Suspended /\ run'.at \in Moving \cup {"rejected"}
    BY <1>2, <1>6 DEF Going, Whole, Suspended
  <2>2. QED
    BY <1>1, <1>2, <2>1, OutputEnds
<1>7. CASE run.at = "queue" /\ ~run'.failed
  <2>1. /\ ~Stopped(run') /\ ~Whole(run') /\ ~Going(run')
        /\ run'.outcome # "blocked" /\ Whole(run) /\ Going(run)
        /\ run'.at \notin {"stage", "tell", "done"}
    BY <1>2, <1>7 DEF Stopped, Whole, Going, Moving, Suspended
  <2>2. said = message \o Kept(run) /\ message = shown \o Late(run.flight)
    BY <1>1, <2>1 DEF OutputInv, TextSound, SeenSound, Held, HeldOf, Seen, SeenOf
  <2>3. Held' = message \o run.pending
    BY <1>1, <1>2, <1>7, <2>1 DEF Held, HeldOf
  <2>4. /\ Flying(run.flight) \in Text /\ run.buffer \in Text
        /\ run.rest \in Text /\ run.pending \in Text
    BY <1>1, RunFields
  <2> DEFINE b == Flying(run.flight) \o (run.buffer \o run.rest)
  <2>5. b \in Text /\ Kept(run) = b \o run.pending
    <3>1. run.buffer \o run.rest \in Text
      BY <2>4, TextCat
    <3>2. b \o run.pending = Flying(run.flight) \o ((run.buffer \o run.rest) \o run.pending)
      BY ZenonT(40), <2>4, <3>1, TextAssoc
    <3>3. (run.buffer \o run.rest) \o run.pending = run.buffer \o (run.rest \o run.pending)
      BY <2>4, TextAssoc
    <3>4. QED
      BY <2>4, <3>1, <3>2, <3>3, TextCat DEF Kept
  <2> HIDE DEF b
  <2>6. Cut(Held', said)
    BY <1>3, <2>2, <2>3, <2>4, <2>5 DEF Cut
  <2>7. Held' \in Text
    BY <1>3, <2>3, <2>4, TextCat
  <2>8. TextSound'
    BY <1>1, <2>1, <2>6, <2>7, CutSkips DEF TextSound
  <2>9. PendingSound'
    BY <2>1 DEF PendingSound
  <2>10. FilterSound'
    BY <1>1, <2>1 DEF OutputInv, FilterSound, Shape, Placed
  <2>11. Cut(shown, message)
    <3>1. Late(run.flight) \o <<>> = Late(run.flight) /\ shown \o <<>> = shown /\ <<>> \in Text
      BY <1>3, <1>5, TextCat
    <3>2. message = shown \o (Late(run.flight) \o <<>>) /\ shown = shown \o <<>>
      BY <2>2, <3>1
    <3>3. QED
      BY <1>3, <1>5, <3>1, <3>2 DEF Cut
  <2>12. SeenSound'
    BY <1>1, <1>3, <1>5, <2>1, <2>11, CutSkips DEF SeenSound
  <2>13. LateSound' /\ StatusSound'
    BY <1>1, <1>7, <2>1 DEF OutputInv, LateSound, StatusSound
  <2>14. QED
    BY <1>2, <1>4, <2>8, <2>9, <2>10, <2>12, <2>13 DEF OutputInv
<1>8. CASE run.at \in {"tail", "drain"}
  <2>1. /\ Stopped(run') /\ ~Going(run') /\ ~Going(run)
        /\ run'.outcome = run.outcome /\ run'.at = "rejected"
        /\ Whole(run') <=> Whole(run)
    BY <1>2, <1>8 DEF Stopped, Whole, Going
  <2>2. Pre(Held', Held)
    BY <1>1, <1>3, <2>1, TextsTyped DEF Held, HeldOf
  <2>3. Pre(Seen', Seen)
    BY <1>3, <1>5, PreCat DEF Seen, SeenOf
  <2>4. TextSound' /\ PendingSound' /\ FilterSound'
    BY <1>1, <1>2, <1>4, <2>1, <2>2, TextSteady DEF OutputInv
  <2>5. SeenSound'
    BY <1>1, <1>2, <1>4, <2>1, <2>3, SeenSteady DEF OutputInv
  <2>6. LateSound' /\ StatusSound'
    BY <1>1, <1>8, <2>1 DEF OutputInv, LateSound, StatusSound
  <2>7. QED
    BY <1>2, <1>4, <2>4, <2>5, <2>6 DEF OutputInv
<1>9. QED
  BY <1>6, <1>7, <1>8 DEF Suspended

\* After the last flush, the main flow only moves on.
LEMMA EndShape ==
  ASSUME NEW r, Shape(r), r.at \in {"close", "stage", "tell"},
         NEW s \in Run, s.at \in {"stage", "tell", "done"}, s.pending = r.pending,
         s.rest = r.rest, s.buffer = r.buffer, s.flight = r.flight,
         s.waiters = r.waiters, s.failed = r.failed
  PROVE  /\ Shape(s) /\ (Stopped(s) <=> Stopped(r)) /\ ~Going(s) /\ ~Going(r)
         /\ Late(s.flight) = Late(r.flight) /\ Kept(s) = Kept(r)
<1>1. MainRuns(r)
  BY ShapeRuns DEF Suspended
<1>2. MainRuns(s)
  BY <1>1 DEF MainRuns, Base, Typed, Waits
<1>3. Placed(s) /\ s.at \notin Suspended
  BY DEF Shape, Placed, Going, Suspended
<1>4. QED
  BY <1>2, <1>3, RunningShape DEF Stopped, Going, Kept

\* What such a step does to the texts: nothing.
LEMMA EndTexts ==
  ASSUME OutputInv, run.at \in {"close", "stage", "tell"},
         run' \in Run, run'.at \in {"stage", "tell", "done"},
         run'.pending = run.pending, run'.rest = run.rest, run'.buffer = run.buffer,
         run'.flight = run.flight, run'.waiters = run.waiters,
         run'.failed = run.failed,
         \/ run'.outcome = run.outcome
         \/ run'.outcome = "failed" /\ run.outcome # "blocked",
         UNCHANGED <<said, message, shown>>, running' \in BOOLEAN,
         status' \in Outcomes \cup {"running"}, told' \in Outcomes \cup {"null"}
  PROVE  /\ TypeOK' /\ Shape(run') /\ TextSound' /\ PendingSound' /\ FilterSound'
         /\ SeenSound'
<1>1. /\ Shape(run') /\ (Stopped(run') <=> Stopped(run)) /\ ~Going(run') /\ ~Going(run)
      /\ Late(run'.flight) = Late(run.flight) /\ Kept(run') = Kept(run)
  BY EndShape DEF OutputInv
<1>2. /\ run'.outcome = "blocked" <=> run.outcome = "blocked"
      /\ Whole(run') => Whole(run)
  BY <1>1 DEF Whole
<1>3. Held' = Held /\ Seen' = Seen
  BY <1>1 DEF Held, HeldOf, Seen, SeenOf
<1>4. TypeOK' /\ message' \in Text /\ shown' \in Text
  BY <1>1, TypeStep DEF OutputInv, TypeOK, Text
<1>5. Pre(Held', Held)
  BY <1>3, TextsTyped, PreRefl DEF Held, OutputInv, TypeOK, Text
<1>6. TextSound' /\ PendingSound' /\ FilterSound'
  BY <1>1, <1>2, <1>3, <1>4, <1>5, TextSteady DEF OutputInv
<1>7. SeenSound'
  BY <1>1, <1>2, <1>3, <1>4, SeenSteady DEF OutputInv
<1>8. QED
  BY <1>1, <1>4, <1>6, <1>7

\* close(): the outcome is settled once nothing is buffered.
LEMMA CloseStep == ASSUME OutputInv, Close PROVE OutputInv'
<1> DEFINE o == IF run.failed /\ run.outcome # "blocked" THEN "failed" ELSE run.outcome
<1>1. /\ run.at = "close" /\ run' = [run EXCEPT !.at = "stage", !.outcome = o]
      /\ UNCHANGED <<said, message, running, status, shown, told>>
      /\ run \in Run /\ running \in BOOLEAN /\ status \in Outcomes \cup {"running"}
      /\ told \in Outcomes \cup {"null"} /\ StatusSound
  BY DEF Close, OutputInv, TypeOK
<1>2. /\ o \in Outcomes /\ (o = run.outcome \/ (o = "failed" /\ run.outcome # "blocked"))
      /\ run.failed => o # "completed"
  BY <1>1 DEF Run, Outcomes
<1> HIDE DEF o
<1>3. /\ run' \in Run /\ run'.at = "stage" /\ run'.outcome = o
      /\ run'.pending = run.pending /\ run'.rest = run.rest /\ run'.buffer = run.buffer
      /\ run'.flight = run.flight /\ run'.waiters = run.waiters
      /\ run'.failed = run.failed
  BY <1>1, <1>2 DEF Run
<1>4. /\ TypeOK' /\ Shape(run') /\ TextSound' /\ PendingSound' /\ FilterSound'
      /\ SeenSound'
  BY <1>1, <1>2, <1>3, EndTexts
<1>5. LateSound' /\ StatusSound'
  BY <1>1, <1>2, <1>3 DEF LateSound, StatusSound
<1>6. QED
  BY <1>4, <1>5 DEF OutputInv

\* The outcome is staged and told; no text moves.
LEMMA SettleStep == ASSUME OutputInv, Stage \/ Tell PROVE OutputInv'
<1>1. /\ run.at \in {"stage", "tell"}
      /\ \E at \in {"tell", "done"} : run' = [run EXCEPT !.at = at]
      /\ UNCHANGED <<said, message, shown>>
      /\ run \in Run /\ Shape(run) /\ LateSound /\ StatusSound
      /\ running \in BOOLEAN /\ status \in Outcomes \cup {"running"}
      /\ told \in Outcomes \cup {"null"} /\ run.outcome \in Outcomes
  BY RunFields DEF Stage, Tell, OutputInv, TypeOK
<1>2. /\ running' \in BOOLEAN /\ status' \in Outcomes \cup {"running"}
      /\ told' \in Outcomes \cup {"null"} /\ (status' = status \/ status' = run.outcome)
  BY <1>1 DEF Stage, Tell, Outcomes
<1>3. PICK at \in {"tell", "done"} : run' = [run EXCEPT !.at = at]
  BY <1>1
<1>4. /\ run' \in Run /\ run'.at = at /\ run'.outcome = run.outcome
      /\ run'.pending = run.pending /\ run'.rest = run.rest /\ run'.buffer = run.buffer
      /\ run'.flight = run.flight /\ run'.waiters = run.waiters
      /\ run'.failed = run.failed
  BY <1>1, <1>3 DEF Run
<1>5. /\ TypeOK' /\ Shape(run') /\ TextSound' /\ PendingSound' /\ FilterSound'
      /\ SeenSound'
  BY <1>1, <1>2, <1>4, EndTexts
<1>6. LateSound' /\ StatusSound'
  BY <1>1, <1>2, <1>4 DEF LateSound, StatusSound
<1>7. QED
  BY <1>5, <1>6 DEF OutputInv

\* The stream ends: the finally block queues what the filter held back.
LEMMA ProviderEndsStep == ASSUME OutputInv, ProviderEnds PROVE OutputInv'
<1>1. PICK c \in {"completed", "failed"} :
        run' = Finally([run EXCEPT !.outcome = IF run.aborted THEN "cancelled" ELSE c])
  BY DEF ProviderEnds
<1> DEFINE o == IF run.aborted THEN "cancelled" ELSE c
           e == [run EXCEPT !.outcome = o]
<1>2. /\ run.at = "provider" /\ run \in Run /\ Shape(run) /\ run' = Finally(e)
      /\ UNCHANGED <<said, message, running, status, shown, told>>
  BY <1>1 DEF ProviderEnds, OutputInv, TypeOK
<1>3. o \in {"completed", "failed", "cancelled"}
  OBVIOUS
<1> HIDE DEF o
<1>4. /\ e \in Run /\ e.outcome = o /\ e.pending = run.pending /\ e.buffer = run.buffer
      /\ e.flight = run.flight /\ e.waiters = run.waiters /\ e.failed = run.failed
  BY <1>2, <1>3 DEF Run, Outcomes
<1> HIDE DEF e
<1>5. /\ MainRuns(e) /\ run.outcome = "failed" /\ Going(run) /\ Whole(run)
      /\ run.failed \/ run.rest = <<>>
  <2>1. MainRuns(run)
    BY <1>2, ShapeRuns DEF Suspended
  <2>2. MainRuns(e)
    BY <1>4, <2>1 DEF MainRuns, Base, Typed, Waits
  <2>3. QED
    BY <1>2, <2>2 DEF Shape, Placed, Going, Whole
<1>6. /\ Shape(run') /\ ~Going(run') /\ run'.at \in Moving
      /\ run'.outcome = e.outcome /\ run'.failed = e.failed
      /\ Late(run'.flight) = Late(e.flight)
      /\ ~e.failed => Kept(run') = Flying(e.flight) \o (e.buffer \o FilterTail(e))
  BY <1>2, <1>5, FinallyKeeps
<1>7. Stopped(run') <=> Stopped(run)
  BY <1>2, <1>4, <1>6 DEF Stopped, Moving, Suspended
<1>8. Held' = Held /\ Seen' = Seen
  <2>1. ~run.failed => Kept(run') = Kept(run)
    <3>1. FilterTail(e) = run.pending
      BY <1>3, <1>4 DEF FilterTail
    <3>2. ~run.failed => run.rest \o run.pending = run.pending
      BY <1>2, <1>5, RunFields, TextCat
    <3>3. QED
      BY <1>4, <1>6, <3>1, <3>2 DEF Kept
  <2>2. QED
    BY <1>2, <1>4, <1>6, <1>7, <2>1 DEF Held, HeldOf, Seen, SeenOf, Stopped
<1>9. TypeOK' /\ message' \in Text /\ shown' \in Text
  BY <1>2, <1>6, TypeStep DEF OutputInv, TypeOK, Text
<1>10. Pre(Held', Held)
  BY <1>2, <1>8, TextsTyped, PreRefl DEF Held, OutputInv, TypeOK, Text
<1>11. run'.outcome # "blocked" /\ run.outcome # "blocked"
  BY <1>3, <1>4, <1>5, <1>6
<1>12. TextSound' /\ PendingSound' /\ FilterSound'
  BY <1>2, <1>5, <1>6, <1>7, <1>8, <1>9, <1>10, <1>11, TextSteady DEF OutputInv
<1>13. SeenSound'
  BY <1>2, <1>5, <1>6, <1>7, <1>8, <1>9, SeenSteady DEF OutputInv
<1>14. LateSound' /\ StatusSound'
  BY <1>2, <1>6 DEF OutputInv, LateSound, StatusSound, Moving, Suspended
<1>15. QED
  BY <1>6, <1>9, <1>12, <1>13, <1>14 DEF OutputInv

\* Text arrives: either no term is in all that was said, or none of the text is
\* passed on.
LEMMA ProviderTextStep ==
  ASSUME OutputInv, NEW chunk \in Chunks, ProviderText(chunk)
  PROVE  OutputInv'
<1> DEFINE held == run.pending \o chunk
<1>1. /\ run.at = "provider" /\ run \in Run /\ Shape(run) /\ run' = Push(run, chunk)
      /\ said' = said \o chunk
      /\ UNCHANGED <<message, running, status, shown, told>>
      /\ run.outcome = "failed" /\ Going(run) /\ Whole(run)
      /\ run.failed \/ run.rest = <<>>
  BY DEF ProviderText, OutputInv, TypeOK, Shape, Placed, Going, Whole
<1>2. /\ chunk \in Text /\ said \in Text /\ message \in Text /\ shown \in Text
      /\ run.pending \in Text /\ run.buffer \in Text /\ Flying(run.flight) \in Text
  <2>1. chunk \in Text
    BY SeqDef, OutputAssumption DEF Chunks, Text
  <2>2. QED
    BY <1>1, <2>1, RunFields DEF OutputInv, TypeOK, Text
<1>3. /\ held \in Text /\ said' \in Text /\ Len(held) = Len(run.pending) + Len(chunk)
      /\ Len(said') = Len(said) + Len(chunk)
  BY <1>1, <1>2, TextCat
<1>4. /\ Shape(run') /\ run'.at \in Moving /\ run'.failed = run.failed
      /\ Late(run'.flight) = Late(run.flight)
      /\ Matches(held) =>
           /\ run'.outcome = "blocked" /\ ~Going(run')
           /\ ~run.failed => Kept(run') = Flying(run.flight) \o (run.buffer \o <<>>)
      /\ ~Matches(held) =>
           /\ run'.outcome = "failed" /\ Going(run')
           /\ Len(run'.pending) = IF Len(held) < LookBack THEN Len(held) ELSE LookBack
           /\ \E p \in Text : held = p \o run'.pending
           /\ ~run.failed => Kept(run') = Flying(run.flight) \o (run.buffer \o held)
  BY <1>1, <1>2, PushKeeps
<1> HIDE DEF held
<1>5. Stopped(run') <=> Stopped(run)
  BY <1>1, <1>4 DEF Stopped, Moving, Suspended
<1>6. TypeOK'
  BY <1>1, <1>2, <1>3, <1>4, TypeStep DEF OutputInv, TypeOK, Text
<1>7. /\ InOrder(said) => ~Matches(said)
      /\ Pre(Held, said) /\ (~Stopped(run) => Held = said)
      /\ Seen' = Seen
  BY <1>1, <1>4 DEF OutputInv, FilterSound, TextSound, Seen, SeenOf
<1>8. PICK p \in Text : said = p \o run.pending
  BY <1>1 DEF OutputInv, PendingSound
<1>9. Len(run.pending) = IF Len(said) < LookBack THEN Len(said) ELSE LookBack
  BY <1>1 DEF OutputInv, PendingSound
<1>10. ~run.failed => Kept(run) = Flying(run.flight) \o (run.buffer \o run.pending)
  BY <1>1, <1>2, TextCat DEF Kept
<1>11. Held \in Text /\ Pre(message, Held)
  BY <1>1, <1>2, TextsTyped DEF Held
<1>12. SeenSound'
  BY <1>1, <1>2, <1>4, <1>5, <1>7, SeenSteady DEF OutputInv
<1>13. LateSound' /\ StatusSound'
  BY <1>1, <1>4 DEF OutputInv, LateSound, StatusSound, Moving, Suspended
<1>14. CASE Matches(held)
  <2>1. Pre(Held', Held)
    <3>1. CASE Stopped(run)
      BY <1>1, <1>5, <1>11, <3>1 DEF Held, HeldOf
    <3>2. CASE ~Stopped(run)
      <4>1. ~run.failed
        BY <3>2 DEF Stopped
      <4> DEFINE w == Flying(run.flight) \o run.buffer
      <4>2. w \in Text /\ Kept(run') = w /\ Kept(run) = w \o run.pending
        <5>1. w \in Text /\ run.buffer \o <<>> = run.buffer
          BY <1>2, TextCat
        <5>2. Flying(run.flight) \o (run.buffer \o run.pending) = w \o run.pending
          BY ZenonT(40), <1>2, TextAssoc
        <5>3. QED
          BY <1>4, <1>10, <1>14, <4>1, <5>1, <5>2
      <4> HIDE DEF w
      <4>3. message \o (w \o run.pending) = (message \o w) \o run.pending
        <5>1. message \in Text /\ w \in Text /\ run.pending \in Text
          BY <1>2, <4>2
        <5>2. QED
          BY <5>1, TextAssoc
      <4>4. Held' = message \o w /\ Held = (message \o w) \o run.pending
        BY <1>1, <1>5, <3>2, <4>2, <4>3 DEF Held, HeldOf
      <4>5. QED
        BY <1>2, <4>4 DEF Pre
    <3>3. QED
      BY <3>1, <3>2
  <2>2. Held' \in Text
    BY <1>1, <1>2, <1>4, TextsTyped DEF Held, Shape, Base, Typed
  <2>3. Pre(Held', said) /\ Pre(said, said')
    BY <1>1, <1>2, <1>7, <1>11, <2>1, <2>2, PreTrans, PreCat
  <2>4. Pre(Held', said')
    BY <1>2, <2>2, <2>3, PreTrans
  <2>5. InOrder(said') => ~Matches(Held')
    BY <1>2, <1>7, <2>2, <2>3, MatchesPre
  <2>6. /\ run'.outcome = "blocked" /\ ~Whole(run') /\ ~Going(run')
    BY <1>4, <1>14 DEF Whole
  <2>7. TextSound' /\ PendingSound' /\ FilterSound'
    BY <2>2, <2>4, <2>5, <2>6, PreSkips DEF TextSound, PendingSound, FilterSound
  <2>8. QED
    BY <1>4, <1>6, <1>12, <1>13, <2>7 DEF OutputInv
<1>15. CASE ~Matches(held)
  <2>1. said' = p \o held
    BY ZenonT(40), <1>1, <1>2, <1>8, TextAssoc DEF held
  <2>2. ASSUME InOrder(said') PROVE ~Matches(said')
    <3>1. Len(run.pending) = IF Len(p \o run.pending) < LookBack
                             THEN Len(p \o run.pending) ELSE LookBack
      BY <1>8, <1>9
    <3>2. said' = (p \o run.pending) \o chunk
      BY <1>1, <1>8
    <3>3. Matches(said') => Matches(p \o run.pending) \/ Matches(run.pending \o chunk)
      BY <1>2, <2>2, <3>1, <3>2, MatchesHeld
    <3>4. InOrder(said)
      BY <1>1, <1>2, <2>2, PreCat, MatchesPre
    <3>5. QED
      BY <1>7, <1>8, <1>15, <3>3, <3>4 DEF held
  <2>3. FilterSound'
    BY <1>4, <1>15, <2>2 DEF FilterSound
  <2>4. PendingSound'
    <3>1. PICK q \in Text : held = q \o run'.pending
      BY <1>4, <1>15
    <3>2. run'.pending \in Text
      BY <1>4, RunFields DEF Shape, Base, Typed
    <3>3. said' = (p \o q) \o run'.pending /\ p \o q \in Text
      <4>1. p \o (q \o run'.pending) = (p \o q) \o run'.pending
        BY <3>2, TextAssoc
      <4>2. QED
        BY <2>1, <3>1, <4>1, TextCat
    <3>4. Len(run'.pending) = IF Len(said') < LookBack THEN Len(said') ELSE LookBack
      <4>1. /\ Len(said) \in Nat /\ Len(chunk) \in Nat /\ LookBack \in Nat
            /\ Len(run.pending) \in Nat
        BY <1>2, LenProperties, LookBackIsLongest DEF Text
      <4>2. Len(run'.pending) = IF Len(held) < LookBack THEN Len(held) ELSE LookBack
        BY <1>4, <1>15
      <4>3. QED
        BY <1>3, <1>9, <4>1, <4>2
    <3>5. QED
      BY <3>3, <3>4 DEF PendingSound
  <2>5. Whole(run') /\ run'.outcome # "blocked"
    BY <1>4, <1>15 DEF Whole
  <2>6. Pre(Held', said') /\ (~Stopped(run') => Held' = said')
    <3>1. CASE Stopped(run)
      <4>1. Held' = Held
        BY <1>1, <1>5, <3>1 DEF Held, HeldOf
      <4>2. Pre(said, said')
        BY <1>1, <1>2, PreCat
      <4>3. QED
        BY <1>5, <1>7, <1>11, <3>1, <4>1, <4>2, PreTrans
    <3>2. CASE ~Stopped(run)
      <4>1. ~run.failed
        BY <3>2 DEF Stopped
      <4> DEFINE w == Flying(run.flight) \o run.buffer
      <4>2. w \in Text /\ w \o run.pending \in Text
        BY <1>2, TextCat
      <4>3. Kept(run') = w \o held /\ Kept(run) = w \o run.pending
        <5>1. /\ Flying(run.flight) \in Text /\ run.buffer \in Text
              /\ run.pending \in Text /\ held \in Text
          BY <1>2, <1>3
        <5>2. Flying(run.flight) \o (run.buffer \o run.pending) = w \o run.pending
          BY <5>1, TextAssoc
        <5>3. Flying(run.flight) \o (run.buffer \o held) = w \o held
          BY <5>1, TextAssoc
        <5>4. QED
          BY <1>4, <1>10, <1>15, <4>1, <5>2, <5>3
      <4> HIDE DEF w
      <4>4. w \in Text /\ run.pending \in Text /\ chunk \in Text /\ message \in Text
        BY <1>2, <4>2
      <4>5. w \o held = (w \o run.pending) \o chunk
        BY <4>4, TextAssoc DEF held
      <4>6. message \o ((w \o run.pending) \o chunk) = (message \o (w \o run.pending)) \o chunk
        BY ZenonT(40), <4>2, <4>4, TextAssoc
      <4>7. said = message \o (w \o run.pending)
        BY <1>7, <3>2, <4>3 DEF Held, HeldOf
      <4>8. Held' = said'
        BY <1>1, <1>5, <3>2, <4>3, <4>5, <4>6, <4>7 DEF Held, HeldOf
      <4>9. QED
        BY <1>3, <4>8, PreRefl
    <3>3. QED
      BY <3>1, <3>2
  <2>7. Held' \in Text
    BY <1>1, <1>2, <1>4, TextsTyped DEF Held, Shape, Base, Typed
  <2>8. TextSound'
    BY <2>5, <2>6, <2>7, PreSkips DEF TextSound
  <2>9. QED
    BY <1>4, <1>6, <1>12, <1>13, <2>3, <2>4, <2>8 DEF OutputInv
<1>16. QED
  BY <1>14, <1>15

-----------------------------------------------------------------------------
(* The theorems.                                                           *)

\* Every step keeps the invariant.
LEMMA OutputInvStep == OutputInv /\ [Next]_vars => OutputInv'
<1> SUFFICES ASSUME OutputInv, [Next]_vars PROVE OutputInv'
  OBVIOUS
<1>1. CASE \E chunk \in Chunks : ProviderText(chunk)
  BY <1>1, ProviderTextStep
<1>2. CASE ProviderEnds \/ TimerFires \/ Abort \/ LoseLease
  BY <1>2, ProviderEndsStep, TimerStep, AbortStep, LoseLeaseStep
<1>3. CASE AppendReads \/ AppendWrites \/ WriteThrows
  BY <1>3, AppendReadsStep, AppendWritesStep, WriteThrowsStep
<1>4. CASE Replied
  BY <1>4, RepliedAppliedStep, RepliedRefusedStep DEF Replied
<1>5. CASE Close \/ Stage \/ Tell
  BY <1>5, CloseStep, SettleStep
<1>6. CASE UNCHANGED vars
  <2>1. Shape(run') /\ Keeps(run, run') /\ run'.at = run.at
    BY <1>6 DEF vars, OutputInv, Keeps
  <2>2. UNCHANGED <<said, message, shown, status, told>> /\ running' \in BOOLEAN
    BY <1>6 DEF vars, OutputInv, TypeOK
  <2>3. QED
    BY <2>1, <2>2, QuietStep
<1>7. QED
  BY <1>1, <1>2, <1>3, <1>4, <1>5, <1>6 DEF Next

\* The invariant holds in every state.
LEMMA OutputInvariant == Spec => []OutputInv
  BY OutputInvInit, OutputInvStep, PTL DEF Spec

\* In every state the records and texts have their types, and neither the
\* buffer nor a write exceeds the batch size.
THEOREM OutputTypeCorrect == Spec => []TypeOK
<1>1. OutputInv => TypeOK
  BY DEF OutputInv
<1>2. QED
  BY <1>1, OutputInvariant, PTL

\* What holds of the texts in one state.
LEMMA TextsOrdered ==
  ASSUME OutputInv
  PROVE  /\ message \in Text /\ shown \in Text /\ said \in Text
         /\ Held \in Text /\ Seen \in Text
         /\ Pre(message, Held) /\ Pre(shown, Seen)
         /\ ~(Whole(run) \/ run.outcome = "blocked")
              => run.outcome \in {"failed", "cancelled"} /\ ~Going(run)
<1>1. message \in Text /\ shown \in Text /\ said \in Text /\ run \in Run
  BY DEF OutputInv, TypeOK, Text
<1>2. Held \in Text /\ Seen \in Text /\ Pre(message, Held)
  BY <1>1, TextsTyped DEF Held, Seen
<1>3. Pre(shown, Seen)
  BY <1>1, RunFields, PreCat DEF Seen, SeenOf
<1>4. ~(Whole(run) \/ run.outcome = "blocked")
        => run.outcome \in {"failed", "cancelled"} /\ ~Going(run)
  BY <1>1, RunFields DEF Outcomes, Whole
<1>5. QED
  BY <1>1, <1>2, <1>3, <1>4

\* The stored text keeps the provider's order, and has a hole only in an answer
\* that failed or was cancelled.
THEOREM StoredInOrder == Spec => []TextInOrder
<1>1. OutputInv => TextInOrder
  <2> SUFFICES ASSUME OutputInv PROVE TextInOrder
    OBVIOUS
  <2>1. CASE Whole(run) \/ run.outcome = "blocked"
    <3>1. Pre(Held, said)
      BY <2>1 DEF OutputInv, TextSound
    <3>2. Pre(message, said)
      BY <3>1, TextsOrdered, PreTrans
    <3>3. QED
      BY <3>2, TextsOrdered, PreIsPrefix DEF TextInOrder
  <2>2. CASE ~(Whole(run) \/ run.outcome = "blocked")
    <3>1. Skipped(message, said)
      BY TextsOrdered, SkipsTrans DEF OutputInv, TextSound
    <3>2. Skips(message, said)
      BY <3>1, TextsOrdered, SkippedSkips
    <3>3. run.outcome \in {"failed", "cancelled"} /\ run.at \notin {"provider", "queue"}
      BY <2>2, TextsOrdered DEF Going
    <3>4. QED
      BY <3>2, <3>3 DEF TextInOrder
  <2>3. QED
    BY <2>1, <2>2
<1>2. QED
  BY <1>1, OutputInvariant, PTL

\* Clients see only text that is stored, in its order, and all of it up to
\* there in an answer that is completed.
THEOREM ShownWasStored == Spec => []ShownIsStored
<1>1. OutputInv => ShownIsStored
  <2> SUFFICES ASSUME OutputInv PROVE ShownIsStored
    OBVIOUS
  <2>1. CASE Whole(run) \/ run.outcome = "blocked"
    <3>1. Pre(Seen, message)
      BY <2>1 DEF OutputInv, SeenSound
    <3>2. Pre(shown, message)
      BY <3>1, TextsOrdered, PreTrans
    <3>3. QED
      BY <3>2, TextsOrdered, PreIsPrefix DEF ShownIsStored
  <2>2. CASE ~(Whole(run) \/ run.outcome = "blocked")
    <3>1. Skipped(shown, message)
      BY TextsOrdered, SkipsTrans DEF OutputInv, SeenSound
    <3>2. Skips(shown, message)
      BY <3>1, TextsOrdered, SkippedSkips
    <3>3. status # "completed"
      BY <2>2 DEF OutputInv, StatusSound, Whole
    <3>4. QED
      BY <3>2, <3>3 DEF ShownIsStored
  <2>3. QED
    BY <2>1, <2>2
<1>2. QED
  BY <1>1, OutputInvariant, PTL

\* No blacklisted term is in a stored text without a hole, wherever the provider's events
\* cut it and whatever its characters decompose into, if normalization moves none of its
\* letters: then as many characters as the longest term has letters are enough to hold
\* back (blacklist.ts:16, 24-33).
THEOREM BlacklistHolds == Spec => []TermsNeverStored
<1>1. OutputInv => TermsNeverStored
  <2> SUFFICES ASSUME OutputInv, IsPrefix(message, said), InOrder(said)
               PROVE  ~Matches(message)
    BY DEF TermsNeverStored
  <2>1. Pre(message, said)
    BY TextsOrdered, PrefixIsPre
  <2>2. CASE run.outcome = "blocked"
    <3>1. ~Matches(Held) /\ Pre(Held, said)
      BY <2>2 DEF OutputInv, FilterSound, TextSound
    <3>2. InOrder(Held)
      BY <3>1, TextsOrdered, MatchesPre
    <3>3. QED
      BY <3>1, <3>2, TextsOrdered, MatchesPre
  <2>3. CASE run.outcome # "blocked"
    BY <2>1, <2>3, TextsOrdered, MatchesPre DEF OutputInv, FilterSound
  <2>4. QED
    BY <2>2, <2>3
<1>2. QED
  BY <1>1, OutputInvariant, PTL

\* A completed answer misses at most the batch of a write that was in flight,
\* or failed, when it was finalized.
THEOREM CompletedMissesOnlyLateBatch == Spec => []OnlyLateBatchIsMissing
<1>1. OutputInv => OnlyLateBatchIsMissing
  <2> SUFFICES ASSUME OutputInv, status = "completed", message # said
               PROVE  /\ Len(said) - Len(message) <= BatchSize
                      /\ run.failed \/ (run.flight.step \in {"sent", "fenced", "refused"}
                                        /\ message \o run.flight.batch = said)
    BY DEF OnlyLateBatchIsMissing
  <2>1. run.at \in {"tell", "done"} /\ run.outcome = "completed"
    BY DEF OutputInv, StatusSound
  <2>2. CASE run.failed
    BY <2>1, <2>2 DEF OutputInv, LateSound
  <2>3. CASE ~run.failed
    <3>1. /\ message \o Flying(run.flight) = said
          /\ Len(said) - Len(message) <= BatchSize
      BY <2>1, <2>3, LateFlight DEF OutputInv
    <3>2. Flying(run.flight) # <<>>
      BY <3>1, TextsOrdered, TextCat
    <3>3. run.flight.step \in {"sent", "fenced", "refused"}
      BY <3>2 DEF Flying
    <3>4. QED
      BY <3>1, <3>3 DEF Flying
  <2>4. QED
    BY <2>2, <2>3
<1>2. QED
  BY <1>1, OutputInvariant, PTL
=============================================================================
