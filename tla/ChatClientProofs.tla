--------------------------- MODULE ChatClientProofs ---------------------------
(***************************************************************************)
(* What the SDK's chat client keeps, for any number of messages, reloads and *)
(* polls: a text is accepted once, what was accepted can be recovered, a     *)
(* former chat stays gone, a cancelled message stays unsent, and the client  *)
(* is never busy with nothing at work.                                      *)
(*                                                                         *)
(* The argument rests on who may act at a time.  No poll runs while a send   *)
(* does, and a cancellation before acceptance lets neither run; a            *)
(* cancellation after it may outlive the recovery it interrupted, and then   *)
(* meets a later send, which it can only stop.  What is stored is what is in *)
(* memory, unless the page has just been loaded.  A session is known to      *)
(* nobody but the send that created it until that send has been answered.    *)
(* And a client without a session is idle, but for the recovery that a       *)
(* stream breaking after its terminal event calls for (LostSound).           *)
(***************************************************************************)
EXTENDS ChatClient, TLAPS

USE ChatAssumption

-----------------------------------------------------------------------------
(* The inductive invariant.                                                *)

Submits == {r \in inflight : r.op = "send"}
Ending  == send.at \in {"ending", "closing"}
Going   == ~SendsIdle /\ ~Ending /\ ~send.stopped

CountSound == sent \in 0..MaxSends /\ sessions \in 0..sent

\* A request id stands for one message.
MessageSound ==
    /\ \A p \in {pending, storage.pending, poll.pending} : p.id = p.msg
    /\ \A r \in Submits \cup turns : r.id = r.msg /\ r.id # 0

\* A message is sent in one session, whoever carries it.
Carries(m, c) ==
    \/ \E r \in Submits \cup turns : r.msg = m /\ r.cred = c
    \/ ~SendsIdle /\ send.msg = m /\ send.cred = c
    \/ pending # NoPending /\ pending.msg = m /\ credential = c
    \/ storage.pending # NoPending /\ storage.pending.msg = m /\ storage.cred = c
OneSession == \A m \in Messages, c \in Sessions : Carries(m, c) =>
    /\ m <= sent /\ c <= sessions
    /\ \A d \in Sessions : Carries(m, d) => c = d

\* What is stored is what is in memory, once it has been read.
MemorySound ==
    /\ \/ credential = storage.cred /\ pending = storage.pending
       \/ /\ credential = 0 /\ pending = NoPending
          /\ initialization \in {"loading", "error"}
    /\ initialization = "session" => pending = NoPending /\ credential # 0
    /\ initialization # "ready" =>
        /\ generation = "idle" /\ activeId = 0 /\ ~resetting
        /\ send = NoSend /\ cancel = NoCancel /\ poll = NoPoll
    /\ storage.pending # NoPending => storage.cred # 0
    /\ storage.cred <= sessions /\ view <= sessions
    /\ Polling => credential # 0

\* Without a session nothing is to be done, but for the recovery that a stream broken
\* after its end has called for, and the end of that.
Lost == credential = 0 /\ generation # "idle"
LostSound == Lost =>
    /\ initialization = "ready" /\ activeId = 0
    /\ \/ generation = "recovery"
       \/ /\ generation = "cancelling" /\ ~cancel.pre /\ cancel.at = "response"
          /\ cancel.reply.is = "ok"

\* A send works in the client's session, alone, until its stream is about to end.
SendSound ==
    /\ SendsIdle => send = NoSend
    /\ ~SendsIdle => send.msg # 0 /\ send.cred # 0 /\ ~Polling
    /\ Going => send.cred = credential
    /\ send.stopped =>
        /\ send.at = "persisting"
        /\ generation = "idle" \/ cancel.at = "persisting"
    /\ send.at \in {"persisting", "response"} => activeId = 0

\* Who awaits the answer to each call: at most one of each, besides what has been
\* given up.
CallSound ==
    /\ \A r \in inflight :
        /\ r.by = "send" =>
            /\ send.at = "response" /\ send.reply.is = "none"
            /\ r = Sending("send", send.cred, [id |-> send.msg, msg |-> send.msg])
        /\ r.by = "init" => initialization = "session" /\ r = Loading("init", credential)
        /\ r.by = "poll" =>
            /\ poll.reply.is = "none"
            /\ \/ poll.at = "resubmit" /\ r = Sending("poll", credential, poll.pending)
               \/ poll.at = "load" /\ r = Loading("poll", credential)
        /\ r.by = "cancel" =>
            /\ r.op = "cancel" /\ cancel.at = "response" /\ cancel.reply.is = "none"
            /\ \A q \in inflight : q.by = "cancel" => q = r
        /\ r.by = "gone" => r.op = "send"
    /\ poll.reply.is # "none" => poll.at \in {"resubmit", "load"}
    /\ send.reply.is # "none" => send.at = "response"

\* Only the send that created a session knows it, until it has been answered.
FreshSound == send.fresh /\ (send.at = "persisting" \/ send.at = "response") =>
    /\ send.reply.is # "ok" => \A t \in turns : t.cred # send.cred
    /\ \A r \in Submits : r.cred = send.cred => r.by = "send"

CancelSound ==
    /\ cancel.at = "persisting" =>
        /\ send.at = "persisting" /\ send.stopped
        /\ cancel.pre /\ cancel.fresh = send.fresh /\ send.cred = credential
    /\ cancel.at # "none" /\ cancel.pre => generation = "cancelling"
    /\ cancel.at = "response" /\ cancel.pre => SendsIdle /\ ~Polling

\* BusyHasOwner, with what a failing cancellation goes back to.
WorkSound ==
    /\ BusyHasOwner
    /\ generation \in {"idle", "sending"} => activeId = 0
    /\ generation = "cancelling" /\ cancel.at = "response" /\ ~cancel.pre =>
        /\ cancel.prev \notin {"idle", "sending"}
        /\ cancel.prev = "streaming" => send.at = "stream"
        /\ cancel.prev = "recovery" => Polling \/ poll.at = "spent" \/ credential = 0
        /\ cancel.prev \in {"recovery", "recovery-exhausted"} => SendsIdle
    /\ Polling => \/ generation = "recovery"
                  \/ generation = "cancelling" /\ ~cancel.pre /\ cancel.prev = "recovery"
    /\ generation = "idle" => ~Going
    /\ Ending => generation = "idle"
    /\ generation \in {"recovery", "recovery-exhausted"} => SendsIdle

\* Every turn, accepted or still to be accepted, is within reach.
ReachSound == \A r \in Submits \cup turns : r.cred = storage.cred \/ r.cred \in left

NewSound ==
    /\ NewChatIsClean
    /\ \A c \in left : c <= sessions

\* What was cancelled before acceptance is nowhere left to be sent from.
DropSound ==
    /\ pending # NoPending => pending.msg \notin dropped
    /\ storage.pending # NoPending => storage.pending.msg \notin dropped
    /\ send.at = "persisting" /\ ~send.stopped => send.msg \notin dropped
    /\ \A m \in dropped : m <= sent

ChatInv ==
    /\ TypeOK /\ CountSound /\ MessageSound /\ OneSession /\ MemorySound /\ LostSound
    /\ SendSound /\ CallSound /\ FreshSound /\ CancelSound /\ WorkSound /\ ReachSound /\ NewSound
    /\ DropSound

-----------------------------------------------------------------------------
(* What the invariant says of numbers, and what giving calls up leaves.     *)

\* Messages and sessions are numbers that have been given out.
LEMMA Numbers ==
    ASSUME ChatInv
    PROVE  /\ sent \in Nat /\ sessions \in Nat /\ sent <= MaxSends /\ sessions <= sent
           /\ credential \in Nat /\ credential <= sessions
           /\ storage.cred \in Nat /\ storage.cred <= sessions
           /\ view \in Nat /\ view <= sessions
           /\ \A c \in left : c \in Sessions /\ c <= sessions
           /\ \A m \in dropped : m \in Messages /\ m <= sent
<1>1. sent \in Nat /\ sessions \in Nat /\ sent <= MaxSends /\ sessions <= sent
  BY DEF ChatInv, CountSound
<1>2. credential \in {0} \cup Sessions /\ view \in {0} \cup Sessions
      /\ storage.cred \in {0} \cup Sessions /\ left \subseteq Sessions /\ dropped \subseteq Messages
  BY DEF ChatInv, TypeOK
<1>3. storage.cred <= sessions /\ view <= sessions /\ (credential = storage.cred \/ credential = 0)
  BY DEF ChatInv, MemorySound
<1>4. (\A c \in left : c <= sessions) /\ (\A m \in dropped : m <= sent)
  BY DEF ChatInv, NewSound, DropSound
<1>5. QED
  BY <1>1, <1>2, <1>3, <1>4 DEF Sessions, Messages

\* A submission, or a turn, is of a message in a session.
LEMMA Submitted ==
    ASSUME ChatInv, NEW r \in Submits \cup turns
    PROVE  r.msg \in Messages /\ r.cred \in Sessions /\ r.id = r.msg
<1>1. r.msg \in {0} \cup Messages /\ r.cred \in Sessions
  BY DEF ChatInv, TypeOK, Submits
<1>2. QED
  BY <1>1 DEF ChatInv, MessageSound, Messages

\* A pending message is a message.
LEMMA PendingTyped ==
    /\ NoPending \notin Pending /\ NoPending.id = 0 /\ NoPending.msg = 0
    /\ \A p \in Pending : p.msg \in Messages /\ p.id \in Ids
    /\ \A m \in Messages : m \in Ids /\ [id |-> m, msg |-> m] \in Pending
BY DEF Pending, NoPending, Ids, Messages

Calls == [by : {"send", "cancel", "poll", "init", "gone"}, op : {"send", "cancel", "load"},
          cred : Sessions, id : {0} \cup Ids, msg : {0} \cup Messages]

\* Of those who gave up, only what they submitted is left, for nobody.
LEMMA Abandoned ==
    ASSUME inflight \subseteq Calls, NEW who, NEW r \in Abandon(who)
    PROVE  /\ r \in Calls
           /\ \/ r \in inflight /\ r.by \notin who
              \/ /\ r.by = "gone" /\ r.op = "send"
                 /\ \E q \in Submits : /\ q.by \in who /\ q.msg = r.msg
                                       /\ q.cred = r.cred /\ q.id = r.id
<1>1. CASE r \in inflight /\ r.by \notin who
  BY <1>1
<1>2. CASE \E q \in Submits : q.by \in who /\ r = [q EXCEPT !.by = "gone"]
  <2>1. PICK q \in Submits : q.by \in who /\ r = [q EXCEPT !.by = "gone"]
    BY <1>2
  <2>2. q \in Calls /\ q.op = "send"
    BY DEF Submits
  <2>3. r \in Calls /\ r.by = "gone" /\ r.op = "send" /\ q.msg = r.msg /\ q.cred = r.cred /\ q.id = r.id
    BY <2>1, <2>2 DEF Calls
  <2>4. QED
    BY <2>1, <2>3
<1>3. QED
  BY <1>1, <1>2 DEF Abandon, Submits

\* A step after which nothing is carried that was not carried before.
LEMMA OneSessionKept ==
    ASSUME OneSession, CountSound, CountSound', sent <= sent', sessions <= sessions',
           \A m \in Messages, c \in Sessions : Carries(m, c)' => Carries(m, c)
    PROVE  OneSession'
<1> SUFFICES ASSUME NEW m \in Messages, NEW c \in Sessions, Carries(m, c)'
             PROVE  /\ m <= sent' /\ c <= sessions'
                    /\ \A d \in Sessions : Carries(m, d)' => c = d
  BY DEF OneSession
<1>1. m <= sent /\ c <= sessions
  BY DEF OneSession
<1>2. \A d \in Sessions : Carries(m, d)' => c = d
  BY DEF OneSession
<1>3. QED
  BY <1>1, <1>2 DEF CountSound, Messages, Sessions

-----------------------------------------------------------------------------
(* Sending.                                                                *)

\* Sending stores a new message, in the session it will be sent in.
LEMMA SendMessageKeeps ==
    ASSUME ChatInv, SendMessage
    PROVE  ChatInv'
<1> USE DEF ChatInv
<1> DEFINE m == sent + 1
           c == IF credential = 0 THEN sessions + 1 ELSE credential
           mine == [id |-> m, msg |-> m]
<1>1. /\ initialization = "ready" /\ ~resetting /\ generation = "idle" /\ SendsIdle
      /\ pending = NoPending /\ sent < MaxSends
  BY DEF SendMessage, CanSend
<1>2. /\ sent' = m /\ sessions' = IF credential = 0 THEN c ELSE sessions
      /\ credential' = c /\ pending' = mine /\ generation' = "sending"
      /\ storage' = [cred |-> c, pending |-> mine]
      /\ send' = [NoSend EXCEPT !.at = "persisting", !.msg = m, !.cred = c,
                                !.fresh = credential = 0]
      /\ UNCHANGED <<initialization, resetting, activeId, cancel, poll, view, inflight,
                     turns, active, reloads, left, dropped>>
  BY DEF SendMessage, server
<1>3. storage.cred = credential /\ storage.pending = NoPending
  BY <1>1 DEF MemorySound
<1>4. /\ m \in Messages /\ m > sent /\ c \in Sessions /\ c <= sessions'
      /\ sessions <= sessions' /\ sent <= sent'
  BY <1>1, <1>2, Numbers DEF Messages, Sessions
<1>5. IF credential = 0 THEN c > sessions ELSE c = credential
  BY Numbers
<1>6. /\ mine \in Pending /\ mine # NoPending /\ mine.msg = m /\ mine.id = m
  BY <1>4, PendingTyped
<1>7. /\ send'.at = "persisting" /\ send'.msg = m /\ send'.cred = c /\ ~send'.stopped
      /\ (send'.fresh <=> credential = 0) /\ send'.reply = NoReply
  BY <1>2 DEF NoSend
<1>8. storage'.cred = c /\ storage'.pending = mine
  BY <1>2
<1>9. CountSound'
  BY <1>1, <1>2, Numbers DEF CountSound
<1>10. TypeOK'
  <2>1. send' \in [at : {"none", "persisting", "response", "stream", "ending", "closing"},
                 msg : {0} \cup Messages, cred : {0} \cup Sessions,
                 fresh : BOOLEAN, stopped : BOOLEAN, reply : Reply]
    BY <1>2, <1>4 DEF NoSend, NoReply, Reply
  <2>2. QED
    BY <1>2, <1>4, <1>6, <2>1 DEF TypeOK
<1> HIDE DEF mine, m, c
<1>11. MessageSound' /\ ReachSound' /\ NewSound'
  <2>1. Submits' = Submits
    BY <1>2 DEF Submits
  <2>2. MessageSound'
    BY <1>2, <1>6, <1>8, <2>1 DEF MessageSound
  <2>3. c \notin left
    BY <1>4, <1>5, Numbers DEF NewSound, NewChatIsClean, Sessions
  <2>4. NewSound'
    BY <1>2, <1>4, <1>8, <2>3, Numbers DEF NewSound, NewChatIsClean, Sessions
  <2>5. \A r \in Submits \cup turns : r.cred # 0
    BY Submitted DEF Sessions
  <2>6. ReachSound'
    BY <1>2, <1>3, <1>5, <1>8, <2>1, <2>5 DEF ReachSound
  <2>7. QED
    BY <2>2, <2>4, <2>6
<1>12. OneSession'
  <2>1. \A n \in Messages, d \in Sessions :
            Carries(n, d)' <=> Carries(n, d) \/ (n = m /\ d = c)
    BY <1>1, <1>2, <1>3, <1>4, <1>6, <1>7, <1>8 DEF Carries, Submits, SendsIdle
  <2>2. \A d \in Sessions : ~Carries(m, d)
    BY <1>4, Numbers DEF OneSession, Messages
  <2>3. QED
    BY <1>2, <1>4, <2>1, <2>2, Numbers DEF OneSession, Messages, Sessions
<1>13. MemorySound' /\ LostSound' /\ SendSound' /\ CancelSound' /\ WorkSound'
  <2>1. ~Polling /\ ~Polling'
    BY <1>1, <1>2 DEF WorkSound, Polling
  <2>2. MemorySound' /\ LostSound'
    BY <1>1, <1>2, <1>4, <1>8, Numbers DEF MemorySound, LostSound, Lost, Sessions
  <2>3. SendSound'
    BY <1>1, <1>2, <1>4, <1>7, <2>1
       DEF SendSound, SendsIdle, Going, Ending, WorkSound, Messages, Sessions
  <2>4. CancelSound'
    BY <1>1, <1>2, <1>7, <2>1 DEF CancelSound, SendsIdle
  <2>5. WorkSound'
    BY <1>1, <1>2, <1>7, <2>1 DEF WorkSound, Ending, BusyHasOwner, Going, SendsIdle
  <2>6. QED
    BY <2>2, <2>3, <2>4, <2>5
<1>14. CallSound'
  <2>1. \A r \in inflight : r.by \notin {"send", "poll", "init"}
    BY <1>1 DEF CallSound, WorkSound, Polling, SendsIdle
  <2>2. QED
    BY <1>2, <1>7, <2>1 DEF CallSound, NoReply
<1>15. FreshSound'
  <2>1. \A r \in Submits \cup turns : r.cred <= sessions
    BY Submitted, Numbers DEF ReachSound
  <2>2. QED
    BY <1>2, <1>5, <1>7, <2>1, Submitted, Numbers DEF FreshSound, Submits, Sessions
<1>16. DropSound'
  BY <1>2, <1>4, <1>6, <1>7, <1>8, Numbers DEF DropSound, Messages
<1>17. QED
  BY <1>9, <1>10, <1>11, <1>12, <1>13, <1>14, <1>15, <1>16

\* The message goes out: only now may anyone but its sender hear of the session.
LEMMA DispatchKeeps ==
    ASSUME ChatInv, Dispatch
    PROVE  ChatInv'
<1> USE DEF ChatInv
<1> DEFINE x == Sending("send", send.cred, [id |-> send.msg, msg |-> send.msg])
<1>1. /\ send.at = "persisting" /\ ~send.stopped /\ send' = [send EXCEPT !.at = "response"]
      /\ inflight' = inflight \cup {x} /\ view' = send.cred
      /\ UNCHANGED <<initialization, generation, resetting, credential, pending, activeId,
                     cancel, poll, storage, turns, active, sent, sessions, reloads, left,
                     dropped>>
  BY DEF Dispatch, server, counts
<1>2. /\ send'.at = "response" /\ send'.msg = send.msg /\ send'.cred = send.cred
      /\ send'.fresh = send.fresh /\ ~send'.stopped /\ send'.reply = send.reply
  BY <1>1 DEF TypeOK
<1>3. /\ send.msg \in Messages /\ send.cred \in Sessions /\ send.cred = credential
      /\ initialization = "ready" /\ credential = storage.cred
      /\ ~Polling /\ send.reply.is = "none"
  <2>1. initialization = "ready"
    BY <1>1 DEF MemorySound, NoSend
  <2>2. send.msg # 0 /\ send.cred # 0 /\ send.cred = credential /\ ~Polling
    BY <1>1 DEF SendSound, SendsIdle, Going, Ending
  <2>3. send.reply.is = "none"
    BY <1>1 DEF CallSound
  <2>4. send.msg \in Messages /\ send.cred \in Sessions
    BY <2>2 DEF TypeOK
  <2>5. QED
    BY <2>1, <2>2, <2>3, <2>4 DEF MemorySound
<1>4. /\ x \in Calls /\ x.by = "send" /\ x.op = "send" /\ x.cred = send.cred
      /\ x.msg = send.msg /\ x.id = send.msg
  BY <1>3, PendingTyped DEF Sending, Calls
<1> HIDE DEF x
<1>5. Submits' = Submits \cup {x}
  BY <1>1, <1>4 DEF Submits
<1>6. \A r \in inflight : r.by # "send"
  BY <1>1 DEF CallSound
<1>7. TypeOK'
  BY <1>1, <1>3, <1>4 DEF TypeOK, Calls
<1>8. CountSound' /\ MessageSound' /\ ReachSound' /\ DropSound'
  BY <1>1, <1>2, <1>3, <1>4, <1>5
     DEF CountSound, MessageSound, ReachSound, DropSound, Messages
<1>9. OneSession'
  <2>1. \A m \in Messages, c \in Sessions : Carries(m, c)' => Carries(m, c)
    BY <1>1, <1>2, <1>4, <1>5 DEF Carries, SendsIdle
  <2>2. QED
    BY <1>1, <1>8, <2>1, Numbers, OneSessionKept
<1>10. MemorySound' /\ LostSound' /\ NewSound'
  BY <1>1, <1>3, Numbers DEF MemorySound, LostSound, Lost, Polling, NewSound, NewChatIsClean
<1>11. SendSound' /\ CancelSound' /\ WorkSound'
  BY <1>1, <1>2, <1>3
     DEF SendSound, CancelSound, WorkSound, Ending, BusyHasOwner, SendsIdle, Going, Polling
<1>12. CallSound'
  BY <1>1, <1>2, <1>3, <1>4, <1>6 DEF CallSound, x
<1>13. FreshSound'
  BY <1>1, <1>2, <1>3, <1>4, <1>5 DEF FreshSound
<1>14. QED
  BY <1>7, <1>8, <1>9, <1>10, <1>11, <1>12, <1>13

\* An accepted message is pending no more.
LEMMA AcceptedKeeps ==
    ASSUME ChatInv, Accepted
    PROVE  ChatInv'
<1> USE DEF ChatInv
<1>1. /\ send.at = "response" /\ send.reply.is = "ok"
      /\ send' = [send EXCEPT !.at = "stream", !.reply = NoReply]
      /\ activeId' = send.msg /\ generation' = "streaming" /\ pending' = NoPending
      /\ storage' = [cred |-> send.cred, pending |-> NoPending]
      /\ UNCHANGED <<initialization, resetting, credential, cancel, poll, view, inflight,
                     turns, active, sent, sessions, reloads, left, dropped>>
  BY DEF Accepted, server, counts
<1>2. /\ send'.at = "stream" /\ send'.msg = send.msg /\ send'.cred = send.cred
      /\ send'.fresh = send.fresh /\ ~send'.stopped /\ send'.reply = NoReply
  BY <1>1 DEF TypeOK, SendSound
<1>3. /\ send.msg \in Messages /\ send.cred \in Sessions /\ send.cred = credential
      /\ initialization = "ready" /\ credential = storage.cred /\ ~Polling
  <2>1. initialization = "ready"
    BY <1>1 DEF MemorySound, NoSend
  <2>2. send.msg # 0 /\ send.cred # 0 /\ send.cred = credential /\ ~Polling
    BY <1>1 DEF SendSound, SendsIdle, Going, Ending
  <2>3. send.msg \in Messages /\ send.cred \in Sessions
    BY <2>2 DEF TypeOK
  <2>4. QED
    BY <2>1, <2>2, <2>3 DEF MemorySound
<1>4. storage'.cred = storage.cred /\ storage'.pending = NoPending /\ Submits' = Submits
  BY <1>1, <1>3 DEF Submits
<1>5. cancel.at = "none" \/ ~cancel.pre
  BY <1>1 DEF CancelSound, SendsIdle, TypeOK
<1>6. TypeOK'
  <2>1. send' \in [at : {"none", "persisting", "response", "stream", "ending", "closing"},
                 msg : {0} \cup Messages, cred : {0} \cup Sessions,
                 fresh : BOOLEAN, stopped : BOOLEAN, reply : Reply]
    BY <1>1 DEF TypeOK, NoReply, Reply
  <2>2. send.msg \in Ids
    BY <1>3, PendingTyped
  <2>3. storage' \in [cred : {0} \cup Sessions, pending : Pending \cup {NoPending}]
    BY <1>1, <1>3
  <2>4. QED
    BY <1>1, <2>1, <2>2, <2>3 DEF TypeOK
<1>7. CountSound' /\ MessageSound' /\ ReachSound' /\ DropSound' /\ NewSound'
  BY <1>1, <1>2, <1>3, <1>4, PendingTyped
     DEF CountSound, MessageSound, ReachSound, DropSound, NewSound, NewChatIsClean
<1>8. OneSession'
  <2>1. \A m \in Messages, c \in Sessions : Carries(m, c)' => Carries(m, c)
    BY <1>1, <1>2, <1>4 DEF Carries, SendsIdle
  <2>2. QED
    BY <1>1, <1>7, <2>1, Numbers, OneSessionKept
<1>9. MemorySound' /\ LostSound'
  BY <1>1, <1>3, <1>4, Numbers DEF MemorySound, LostSound, Lost, Polling, Sessions
<1>10. SendSound' /\ CancelSound' /\ WorkSound'
  BY <1>1, <1>2, <1>3, <1>5
     DEF SendSound, CancelSound, WorkSound, Ending, BusyHasOwner, SendsIdle, Going, Polling, TypeOK
<1>11. CallSound' /\ FreshSound'
  BY <1>1, <1>2, <1>3 DEF CallSound, FreshSound, NoReply
<1>12. QED
  BY <1>6, <1>7, <1>8, <1>9, <1>10, <1>11

\* A rejected message is dropped, and its session with it if it was new.
LEMMA RejectedKeeps ==
    ASSUME ChatInv, Rejected
    PROVE  ChatInv'
<1> USE DEF ChatInv
<1>1. /\ send.at = "response" /\ send.reply.is = "rejected"
      /\ send' = NoSend /\ pending' = NoPending /\ generation' = "idle"
      /\ credential' = IF send.fresh THEN 0 ELSE credential
      /\ storage' = IF send.fresh THEN NoRecord ELSE [cred |-> send.cred, pending |-> NoPending]
      /\ UNCHANGED <<initialization, resetting, activeId, cancel, poll, view, inflight,
                     turns, active, sent, sessions, reloads, left, dropped>>
  BY DEF Rejected, server, counts
<1>2. SendsIdle' /\ ~Going' /\ ~send'.stopped /\ ~send'.fresh /\ send'.reply.is = "none"
      /\ send'.at = "none"
  BY <1>1 DEF SendsIdle, Going, Ending, NoSend, NoReply
<1>3. /\ send.msg \in Messages /\ send.cred \in Sessions /\ send.cred = credential
      /\ initialization = "ready" /\ credential = storage.cred /\ ~Polling /\ activeId = 0
  <2>1. initialization = "ready"
    BY <1>1 DEF MemorySound, NoSend
  <2>2. send.msg # 0 /\ send.cred # 0 /\ send.cred = credential /\ ~Polling /\ activeId = 0
    BY <1>1 DEF SendSound, SendsIdle, Going, Ending
  <2>3. send.msg \in Messages /\ send.cred \in Sessions
    BY <2>2 DEF TypeOK
  <2>4. QED
    BY <2>1, <2>2, <2>3 DEF MemorySound
<1>4. /\ Submits' = Submits /\ storage'.pending = NoPending /\ storage'.cred = credential'
      /\ credential' \in {0, credential} /\ (~send.fresh => credential' = credential)
  BY <1>1, <1>3 DEF Submits, NoRecord
<1>5. \A r \in inflight : r.by # "send"
  BY <1>1 DEF CallSound
<1>6. cancel.at = "none" \/ ~cancel.pre
  BY <1>1 DEF CancelSound, SendsIdle, TypeOK
<1>7. TypeOK'
  BY <1>1, <1>3 DEF TypeOK, NoSend, NoReply, Reply, NoRecord
<1>8. CountSound' /\ MessageSound' /\ DropSound'
  BY <1>1, <1>2, <1>4, PendingTyped
     DEF CountSound, MessageSound, DropSound
<1>9. ReachSound' /\ NewSound'
  <2>1. send.fresh => \A r \in Submits \cup turns : r.cred # storage.cred
    BY <1>1, <1>3, <1>5 DEF FreshSound, Submits
  <2>2. 0 \notin left
    BY Numbers DEF Sessions
  <2>3. QED
    BY <1>1, <1>3, <1>4, <2>1, <2>2 DEF ReachSound, NewSound, NewChatIsClean
<1>10. OneSession'
  <2>1. \A m \in Messages, c \in Sessions : Carries(m, c)' => Carries(m, c)
    BY <1>1, <1>2, <1>4 DEF Carries
  <2>2. QED
    BY <1>1, <1>8, <2>1, Numbers, OneSessionKept
<1>11. MemorySound' /\ LostSound' /\ SendSound' /\ CancelSound' /\ WorkSound'
  <2>1. ~Polling'
    BY <1>1, <1>3 DEF Polling
  <2>2. MemorySound' /\ LostSound'
    BY <1>1, <1>3, <1>4, <2>1, Numbers DEF MemorySound, LostSound, Lost
  <2>3. SendSound' /\ WorkSound'
    BY <1>1, <1>2, <1>3, <2>1 DEF SendSound, WorkSound, BusyHasOwner
  <2>4. CancelSound'
    BY <1>1, <1>2, <1>6 DEF CancelSound
  <2>5. QED
    BY <2>2, <2>3, <2>4
<1>12. CallSound' /\ FreshSound'
  BY <1>1, <1>2, <1>3, <1>5 DEF CallSound, FreshSound, Polling, WorkSound
<1>13. QED
  BY <1>7, <1>8, <1>9, <1>10, <1>11, <1>12

\* The response is complete: the client is idle, although its stream is still open.
LEMMA TerminalKeeps ==
    ASSUME ChatInv, Terminal
    PROVE  ChatInv'
<1> USE DEF ChatInv
<1>1. PICK at \in {"ending", "closing"} : send' = [send EXCEPT !.at = at]
  BY DEF Terminal
<1>2. /\ send.at = "stream" /\ generation' = "idle" /\ activeId' = 0
      /\ UNCHANGED <<initialization, resetting, credential, pending, cancel, poll, view,
                     storage, inflight, turns, active, sent, sessions, reloads, left, dropped>>
  BY DEF Terminal, server, counts
<1>3. /\ send'.at = at /\ send'.msg = send.msg /\ send'.cred = send.cred
      /\ send'.stopped = send.stopped /\ send'.reply = send.reply
  BY <1>1 DEF TypeOK
<1>4. /\ ~SendsIdle /\ ~SendsIdle' /\ ~Going' /\ ~send.stopped /\ send.reply.is = "none"
      /\ initialization = "ready" /\ ~Polling /\ ~Polling' /\ Submits' = Submits
  BY <1>1, <1>2, <1>3
     DEF MemorySound, SendSound, CallSound, SendsIdle, Going, Ending, NoSend, Polling, Submits,
         TypeOK, Reply
<1>5. \A r \in inflight : r.by \notin {"send", "poll"}
  BY <1>2, <1>4 DEF CallSound, Polling
<1>6. cancel.at = "none" \/ ~cancel.pre
  BY <1>2 DEF CancelSound, SendsIdle, TypeOK
<1>7. TypeOK'
  BY <1>1, <1>2 DEF TypeOK
<1>8. CountSound' /\ MessageSound' /\ DropSound' /\ ReachSound' /\ NewSound'
  BY <1>2, <1>3, <1>4
     DEF CountSound, MessageSound, DropSound, ReachSound, NewSound, NewChatIsClean
<1>9. OneSession'
  <2>1. \A m \in Messages, c \in Sessions : Carries(m, c)' => Carries(m, c)
    BY <1>2, <1>3, <1>4 DEF Carries
  <2>2. QED
    BY <1>2, <1>8, <2>1, Numbers, OneSessionKept
<1>10. MemorySound' /\ LostSound' /\ SendSound' /\ WorkSound' /\ CancelSound'
  BY <1>2, <1>3, <1>4, <1>6
     DEF MemorySound, LostSound, Lost, SendSound, SendsIdle, WorkSound, BusyHasOwner, CancelSound
<1>11. CallSound' /\ FreshSound'
  BY <1>2, <1>3, <1>4, <1>5 DEF CallSound, FreshSound
<1>12. QED
  BY <1>7, <1>8, <1>9, <1>10, <1>11

\* The stream of a complete response ends.
LEMMA StreamEndsKeeps ==
    ASSUME ChatInv, StreamEnds
    PROVE  ChatInv'
<1> USE DEF ChatInv
<1>1. /\ send.at \in {"ending", "closing"} /\ send' = NoSend
      /\ UNCHANGED <<initialization, generation, resetting, credential, pending, activeId,
                     cancel, poll, view, storage, inflight, turns, active, sent, sessions,
                     reloads, left, dropped>>
  BY DEF StreamEnds, server, counts
<1>2. SendsIdle' /\ ~Going' /\ ~Ending' /\ ~send'.stopped /\ ~send'.fresh
      /\ send'.reply.is = "none" /\ send'.at = "none"
  BY <1>1 DEF SendsIdle, Going, Ending, NoSend, NoReply
<1>3. /\ Ending /\ ~SendsIdle /\ generation = "idle" /\ Submits' = Submits
      /\ initialization = "ready" /\ ~Polling /\ ~Polling'
  BY <1>1 DEF MemorySound, SendSound, WorkSound, SendsIdle, Ending, NoSend, Polling, Submits
<1>4. \A r \in inflight : r.by \notin {"send", "poll"}
  BY <1>1, <1>3 DEF CallSound, Polling
<1>5. TypeOK'
  BY <1>1 DEF TypeOK, NoSend, NoReply, Reply
<1>6. CountSound' /\ MessageSound' /\ DropSound' /\ ReachSound' /\ NewSound'
  BY <1>1, <1>2, <1>3
     DEF CountSound, MessageSound, DropSound, ReachSound, NewSound, NewChatIsClean
<1>7. OneSession'
  <2>1. \A m \in Messages, c \in Sessions : Carries(m, c)' => Carries(m, c)
    BY <1>1, <1>2, <1>3 DEF Carries
  <2>2. QED
    BY <1>1, <1>6, <2>1, Numbers, OneSessionKept
<1>8. MemorySound' /\ LostSound' /\ SendSound' /\ WorkSound' /\ CancelSound'
  BY <1>1, <1>2, <1>3
     DEF MemorySound, LostSound, Lost, SendSound, WorkSound, BusyHasOwner, CancelSound
<1>9. CallSound' /\ FreshSound'
  BY <1>1, <1>2, <1>3, <1>4 DEF CallSound, FreshSound
<1>10. QED
  BY <1>5, <1>6, <1>7, <1>8, <1>9

\* A send that fails leaves its outcome to recovery.
LEMMA SendFailsKeeps ==
    ASSUME ChatInv, SendFails
    PROVE  ChatInv'
<1> USE DEF ChatInv
<1>1. /\ send.at \in {"response", "stream", "ending"} /\ send' = NoSend /\ generation' = "recovery"
      /\ poll' = IF credential = 0 THEN poll ELSE BeginPolling
      /\ inflight' = Abandon({"send", "poll"})
      /\ UNCHANGED <<initialization, resetting, credential, pending, activeId, cancel, view,
                     storage, turns, active, sent, sessions, reloads, left, dropped>>
  BY DEF SendFails, server, counts
<1>2. SendsIdle' /\ ~Going' /\ ~send'.stopped /\ ~send'.fresh /\ send'.reply.is = "none"
      /\ send'.at = "none"
  BY <1>1 DEF SendsIdle, Going, Ending, NoSend, NoReply
<1>3. /\ initialization = "ready" /\ ~Polling
      /\ credential = 0 => send.at = "ending" /\ activeId = 0
  BY <1>1 DEF MemorySound, SendSound, WorkSound, SendsIdle, NoSend, Going, Ending
<1>4. /\ poll' = IF credential = 0 THEN poll
                 ELSE [at |-> "delay", tries |-> MaxPolls, pending |-> NoPending, reply |-> NoReply]
      /\ credential # 0 => Polling' /\ poll'.at = "delay" /\ poll'.pending = NoPending
      /\ Polling' => credential # 0
      /\ poll'.reply.is = "none"
  <2>1. poll.reply.is = "none"
    BY <1>3 DEF CallSound, Polling
  <2>2. CASE credential = 0
    BY <1>1, <1>3, <2>1, <2>2 DEF Polling
  <2>3. CASE credential # 0
    <3>1. poll' = [at |-> "delay", tries |-> MaxPolls, pending |-> NoPending, reply |-> NoReply]
      BY <1>1, <2>3 DEF BeginPolling, NoPoll
    <3>2. QED
      BY <2>3, <3>1 DEF Polling, NoReply
  <2>4. QED
    BY <2>2, <2>3
<1>5. inflight \subseteq Calls
  BY DEF TypeOK, Calls
<1>6. cancel.at = "none" \/ ~cancel.pre
  BY <1>1 DEF CancelSound, SendsIdle, TypeOK
<1>7. /\ inflight' \subseteq Calls
      /\ \A r \in inflight' : \/ r \in inflight /\ r.by \notin {"send", "poll"}
                              \/ r.by = "gone" /\ r.op = "send"
      /\ \A r \in Submits' : \E q \in Submits : q.msg = r.msg /\ q.cred = r.cred /\ q.id = r.id
  BY <1>1, <1>5, Abandoned DEF Submits
<1>8. TypeOK'
  BY <1>1, <1>4, <1>7 DEF TypeOK, NoSend, NoReply, Reply, Calls
<1>9. CountSound' /\ MessageSound' /\ DropSound' /\ ReachSound' /\ NewSound'
  BY <1>1, <1>2, <1>4, <1>7, PendingTyped
     DEF CountSound, MessageSound, DropSound, ReachSound, NewSound, NewChatIsClean
<1>10. OneSession'
  <2>1. \A m \in Messages, c \in Sessions : Carries(m, c)' => Carries(m, c)
    BY <1>1, <1>2, <1>7 DEF Carries
  <2>2. QED
    BY <1>1, <1>9, <2>1, Numbers, OneSessionKept
<1>11. MemorySound' /\ LostSound' /\ SendSound' /\ WorkSound' /\ CancelSound'
  BY <1>1, <1>2, <1>3, <1>4, <1>6
     DEF MemorySound, LostSound, Lost, SendSound, WorkSound, Ending, BusyHasOwner, CancelSound
<1>12. CallSound' /\ FreshSound'
  BY <1>1, <1>2, <1>3, <1>4, <1>7 DEF CallSound, FreshSound
<1>13. QED
  BY <1>8, <1>9, <1>10, <1>11, <1>12

-----------------------------------------------------------------------------
(* Cancelling, and starting a new chat.                                    *)

\* Asking for a cancellation.  Only before acceptance does it end the send.
LEMMA CancelKeeps ==
    ASSUME ChatInv, Cancel, generation \notin {"idle", "cancelling"}, cancel.at = "none",
           resetting' \in BOOLEAN,
           UNCHANGED <<initialization, credential, pending, activeId, poll, view, storage,
                       turns, active, sent, sessions, reloads, left, dropped>>
    PROVE  ChatInv'
<1> USE DEF ChatInv
<1> DEFINE pre == ~SendsIdle /\ activeId = 0
           at  == IF send.at = "persisting" THEN "persisting" ELSE "response"
           x   == Cancelling(credential, activeId)
           is  == IF credential = 0 THEN "ok" ELSE "none"
<1>1. /\ cancel' = [NoCancel EXCEPT !.at = at, !.pre = pre, !.prev = generation,
                                    !.msg = send.msg, !.fresh = send.fresh, !.reply.is = is]
      /\ send' = IF pre THEN AbortedSend ELSE send
      /\ generation' = "cancelling"
      /\ inflight' = IF at = "persisting" \/ credential = 0 THEN inflight
                     ELSE (IF pre THEN Abandon({"send"}) ELSE inflight) \cup {x}
  BY DEF Cancel
<1>2. /\ cancel'.at = at /\ (cancel'.pre <=> pre) /\ cancel'.prev = generation
      /\ cancel'.fresh = send.fresh /\ cancel'.reply.is = is
      /\ cancel'.reply = [is |-> is, id |-> 0]
  BY <1>1 DEF NoCancel, NoReply
<1>3. /\ initialization = "ready" /\ (credential # 0 => credential \in Sessions)
      /\ credential = 0 => generation = "recovery" /\ activeId = 0 /\ ~pre /\ at = "response"
  BY DEF MemorySound, LostSound, Lost, TypeOK, WorkSound, SendsIdle
<1>4. credential # 0 => x \in Calls /\ x.by = "cancel" /\ x.op = "cancel"
  BY <1>3 DEF Cancelling, Calls, TypeOK
<1> HIDE DEF x
<1>5. /\ at = "persisting" => pre /\ ~send.stopped /\ send.cred = credential
      /\ send.stopped => at = "persisting"
  BY DEF SendSound, Going, Ending, SendsIdle
<1>6. \/ /\ at = "persisting" /\ send' = [send EXCEPT !.stopped = TRUE]
      \/ /\ at = "response" /\ pre /\ send' = NoSend
      \/ /\ at = "response" /\ ~pre /\ send' = send
  BY <1>1, <1>5 DEF AbortedSend
<1>7. /\ send'.at \in {"none", send.at} /\ (send'.at = "none" => ~send'.stopped /\ ~send'.fresh)
      /\ send'.at # "none" => /\ send'.msg = send.msg /\ send'.cred = send.cred
                              /\ send'.fresh = send.fresh /\ send'.reply = send.reply
      /\ send'.at = "none" => send'.reply.is = "none"
      /\ at = "persisting" => send'.at = "persisting" /\ send'.stopped
      /\ at = "response" => ~send'.stopped
      /\ at = "response" /\ pre => send'.at = "none"
      /\ ~pre => send' = send
  <2>1. CASE at = "persisting" /\ send' = [send EXCEPT !.stopped = TRUE]
    BY <1>5, <2>1 DEF TypeOK
  <2>2. CASE at = "response" /\ pre /\ send' = NoSend
    BY <2>2 DEF NoSend, NoReply
  <2>3. CASE at = "response" /\ ~pre /\ send' = send
    <3>1. ~send.stopped
      BY <1>5, <2>3
    <3>2. send.at = "none" => send = NoSend
      BY DEF SendSound, SendsIdle
    <3>3. QED
      BY <2>3, <3>1, <3>2 DEF NoSend, NoReply
  <2>4. QED
    BY <1>6, <2>1, <2>2, <2>3
<1> HIDE DEF pre, at
<1>8. inflight \subseteq Calls
  BY DEF TypeOK, Calls
<1>9. /\ inflight' \subseteq Calls
      /\ \A r \in inflight' : \/ r \in inflight /\ (at = "response" /\ pre => r.by # "send")
                              \/ r.by = "gone" /\ r.op = "send" /\ at = "response" /\ pre
                              \/ r = x /\ at = "response" /\ credential # 0
      /\ \A r \in Submits' : \E q \in Submits : q.msg = r.msg /\ q.cred = r.cred /\ q.id = r.id
  <2>1. CASE credential = 0
    BY <1>1, <1>3, <1>8, <2>1 DEF Submits
  <2>2. CASE credential # 0
    BY <1>1, <1>2, <1>4, <1>8, <2>2, Abandoned DEF Submits, CallSound, at
  <2>3. QED
    BY <2>1, <2>2
<1>10. TypeOK'
  <2>1. send' \in [at : {"none", "persisting", "response", "stream", "ending", "closing"},
                 msg : {0} \cup Messages, cred : {0} \cup Sessions,
                 fresh : BOOLEAN, stopped : BOOLEAN, reply : Reply]
    <3>1. CASE send' = [send EXCEPT !.stopped = TRUE]
      BY <3>1 DEF TypeOK
    <3>2. CASE send' = NoSend
      BY <3>2 DEF NoSend, NoReply, Reply
    <3>3. CASE send' = send
      BY <3>3 DEF TypeOK
    <3>4. QED
      BY <1>6, <3>1, <3>2, <3>3
  <2>2. cancel' \in [at : {"none", "persisting", "response"}, pre : BOOLEAN,
                   msg : {0} \cup Messages, fresh : BOOLEAN, prev : {"idle", "sending", "streaming",
                       "recovery", "recovery-exhausted"}, reply : Reply]
    <3>1. /\ at \in {"persisting", "response"} /\ pre \in BOOLEAN
          /\ generation \in {"sending", "streaming", "recovery", "recovery-exhausted"}
          /\ send.msg \in {0} \cup Messages /\ send.fresh \in BOOLEAN
      BY DEF TypeOK, at, pre
    <3>2. QED
      BY <1>1, <3>1 DEF NoCancel, NoReply, Reply
  <2>3. QED
    BY <1>1, <1>9, <2>1, <2>2 DEF TypeOK, Calls
<1>11. CountSound' /\ MessageSound' /\ DropSound' /\ ReachSound' /\ NewSound'
  <2>1. CountSound' /\ NewSound' /\ DropSound'
    BY <1>7 DEF CountSound, NewSound, NewChatIsClean, DropSound, at
  <2>2. MessageSound' /\ ReachSound'
    BY <1>9, Submitted DEF MessageSound, ReachSound
  <2>3. QED
    BY <2>1, <2>2
<1>12. OneSession'
  <2>1. \A m \in Messages, c \in Sessions : Carries(m, c)' => Carries(m, c)
    BY <1>7, <1>9 DEF Carries, SendsIdle
  <2>2. QED
    BY <1>11, <2>1, Numbers, OneSessionKept
<1>13. MemorySound' /\ LostSound' /\ SendSound'
  <2>1. MemorySound' /\ LostSound'
    BY <1>1, <1>2, <1>3 DEF MemorySound, LostSound, Lost, Polling
  <2>2. send'.at = "none" => send' = NoSend
    BY <1>6, <1>7 DEF SendSound, SendsIdle, at
  <2>3. SendSound'
    BY <1>2, <1>5, <1>7, <2>2 DEF SendSound, SendsIdle, Going, Ending, Polling, at
  <2>4. QED
    BY <2>1, <2>3
<1>14. CancelSound' /\ WorkSound'
  BY <1>1, <1>2, <1>3, <1>5, <1>7
     DEF CancelSound, WorkSound, Ending, SendSound, BusyHasOwner, SendsIdle, Going, Polling, pre, at
<1>15. CallSound' /\ FreshSound'
  BY <1>1, <1>2, <1>4, <1>5, <1>7, <1>9 DEF CallSound, FreshSound, Submits, at
<1>16. QED
  BY <1>10, <1>11, <1>12, <1>13, <1>14, <1>15

\* The user stops the response.
LEMMA StopKeeps ==
    ASSUME ChatInv, Stop
    PROVE  ChatInv'
BY CancelKeeps DEF Stop, ChatInv, TypeOK, server, counts

\* A step that leaves the client idle: nothing polls, no send goes on, ...
StopsWork(who) ==
    /\ inflight' = Abandon(who) /\ "poll" \in who
    /\ poll' = NoPoll /\ generation' = "idle" /\ activeId' = 0
    /\ initialization' = "ready" /\ initialization # "session" /\ resetting' \in BOOLEAN
    /\ \/ send' = NoSend /\ "send" \in who
       \/ send.at = "persisting" /\ send' = [send EXCEPT !.stopped = TRUE]
       \/ send' = send /\ ~Going
    /\ \/ cancel' = NoCancel /\ \A r \in inflight : r.by = "cancel" => r.by \in who
       \/ cancel' = cancel /\ (cancel.at = "none" \/ ~cancel.pre)
    /\ UNCHANGED <<turns, active, sent, sessions, reloads>>

\* ... and what is no longer stored has been left, or was never sent from.
LeavesMemory ==
    /\ credential' \in {0, credential} /\ view' \in {0, view, credential}
    /\ storage' = [cred |-> credential', pending |-> pending']
    /\ \/ pending' = NoPending
       \/ pending' = pending /\ credential' = credential /\ dropped' = dropped
    /\ \/ dropped' = dropped
       \/ dropped' = dropped \cup {pending.msg} /\ pending # NoPending
    /\ left \subseteq left' /\ left' \subseteq left \cup ({credential, storage.cred, view} \ {0})
    /\ {credential', view'} \cap left' = {}
    /\ \A r \in Submits \cup turns : r.cred = credential' \/ r.cred \in left'

\* A step that leaves the client idle, and nothing stored out of reach, keeps the invariant.
LEMMA SettledKeeps ==
    ASSUME ChatInv, NEW who, StopsWork(who), LeavesMemory
    PROVE  ChatInv'
<1> USE DEF ChatInv, StopsWork, LeavesMemory
<1>1. /\ poll' = [at |-> "none", tries |-> 0, pending |-> NoPending, reply |-> NoReply]
      /\ ~Polling' /\ poll'.pending = NoPending /\ poll'.reply.is = "none"
  BY DEF NoPoll, Polling, NoReply
<1>2. /\ send'.at \in {"none", "persisting", "ending", "closing"}
      /\ send'.at = "none" => send' = NoSend
      /\ Ending' => Ending /\ send' = send
      /\ send'.at = "persisting" =>
            /\ send.at = "persisting" /\ send'.stopped /\ send'.msg = send.msg
            /\ send'.cred = send.cred /\ send'.fresh = send.fresh /\ send'.reply = send.reply
      /\ \A r \in inflight : r.by = "send" => r.by \in who
  <2>1. CASE send' = NoSend /\ "send" \in who
    BY <2>1 DEF NoSend, Ending
  <2>2. CASE send.at = "persisting" /\ send' = [send EXCEPT !.stopped = TRUE]
    BY <2>2 DEF TypeOK, CallSound, Ending
  <2>3. CASE send' = send /\ ~Going
    BY <2>3 DEF SendSound, SendsIdle, Going, Ending, CallSound, NoSend
  <2>4. QED
    BY <2>1, <2>2, <2>3
<1>3. NoSend.at = "none" /\ ~NoSend.stopped /\ ~NoSend.fresh /\ NoSend.reply.is = "none"
  BY DEF NoSend, NoReply
<1>4. SendsIdle' \/ Ending' \/ send'.stopped
  BY <1>2 DEF SendsIdle, Ending
<1>5. /\ cancel'.at # "none" => cancel' = cancel /\ ~cancel.pre
      /\ cancel'.at \in {"none", "response"}
  BY DEF NoCancel, CancelSound, TypeOK
<1>6. inflight \subseteq Calls
  BY DEF TypeOK, Calls
<1>7. /\ inflight' \subseteq Calls
      /\ \A r \in inflight' : \/ r \in inflight /\ r.by \notin who
                              \/ r.by = "gone" /\ r.op = "send"
      /\ \A r \in Submits' : \E q \in Submits : q.msg = r.msg /\ q.cred = r.cred /\ q.id = r.id
  BY <1>6, Abandoned DEF Submits
<1>8. /\ storage'.pending = pending' /\ pending' \in {NoPending, pending}
      /\ storage'.cred = credential' /\ credential' \in {0, credential}
  OBVIOUS
<1>9. pending # NoPending => pending.msg \in Messages /\ pending.msg <= sent
  <2> SUFFICES ASSUME pending # NoPending PROVE pending.msg \in Messages /\ pending.msg <= sent
    OBVIOUS
  <2>1. pending.msg \in Messages
    BY PendingTyped DEF TypeOK
  <2>2. credential \in Sessions
    BY DEF MemorySound, TypeOK
  <2>3. QED
    BY <2>1, <2>2 DEF OneSession, Carries
<1>10. TypeOK'
  <2>1. send' \in [at : {"none", "persisting", "response", "stream", "ending", "closing"},
                 msg : {0} \cup Messages, cred : {0} \cup Sessions,
                 fresh : BOOLEAN, stopped : BOOLEAN, reply : Reply]
    <3>1. CASE send' = NoSend
      BY <3>1 DEF NoSend, NoReply, Reply
    <3>2. CASE send' = [send EXCEPT !.stopped = TRUE] \/ send' = send
      BY <3>2 DEF TypeOK
    <3>3. QED
      BY <3>1, <3>2
  <2>2. cancel' \in [at : {"none", "persisting", "response"}, pre : BOOLEAN,
                   msg : {0} \cup Messages, fresh : BOOLEAN, prev : {"idle", "sending", "streaming",
                       "recovery", "recovery-exhausted"}, reply : Reply]
    <3>1. CASE cancel' = NoCancel
      BY <3>1 DEF NoCancel, NoReply, Reply
    <3>2. CASE cancel' = cancel
      BY <3>2 DEF TypeOK
    <3>3. QED
      BY <3>1, <3>2
  <2>3. storage' \in [cred : {0} \cup Sessions, pending : Pending \cup {NoPending}]
    BY <1>8 DEF TypeOK
  <2>4. poll' \in [at : {"none", "delay", "resubmit", "load", "spent"}, tries : 0..MaxPolls,
                 pending : Pending \cup {NoPending}, reply : Reply]
    BY <1>1 DEF NoReply, Reply
  <2>5. left' \subseteq Sessions /\ dropped' \subseteq Messages
    BY <1>9 DEF TypeOK
  <2>6. QED
    BY <1>7, <2>1, <2>2, <2>3, <2>4, <2>5 DEF TypeOK, Calls
<1>11. CountSound' /\ MessageSound'
  BY <1>1, <1>7, <1>8, PendingTyped DEF CountSound, MessageSound
<1>12. ReachSound' /\ NewSound'
  <2>1. ReachSound'
    BY <1>7 DEF ReachSound
  <2>2. NewSound'
    BY Numbers DEF NewSound, NewChatIsClean
  <2>3. QED
    BY <2>1, <2>2
<1>13. DropSound'
  BY <1>2, <1>4, <1>8, <1>9 DEF DropSound, SendsIdle
<1>14. OneSession'
  <2>1. \A m \in Messages, c \in Sessions : Carries(m, c)' => Carries(m, c)
    BY <1>2, <1>7, <1>8 DEF Carries, SendsIdle, Ending
  <2>2. QED
    BY <1>11, <2>1, Numbers, OneSessionKept
<1>15. MemorySound' /\ LostSound'
  BY <1>1, <1>8, Numbers DEF MemorySound, LostSound, Lost
<1>16. SendSound' /\ CancelSound' /\ WorkSound'
  BY <1>1, <1>2, <1>3, <1>4, <1>5
     DEF SendSound, CancelSound, WorkSound, Ending, BusyHasOwner, SendsIdle, Going
<1>17. CallSound' /\ FreshSound'
  <2>1. CallSound'
    <3>1. send'.reply.is # "none" => send'.at = "response"
      BY <1>2, <1>3 DEF CallSound, Ending
    <3>2. QED
      BY <1>1, <1>2, <1>3, <1>5, <1>7, <3>1 DEF CallSound
  <2>2. FreshSound'
    <3> SUFFICES ASSUME send'.fresh, send'.at = "persisting"
                 PROVE  /\ \A t \in turns : t.cred # send'.cred
                        /\ \A r \in Submits' : r.cred # send'.cred
      BY <1>2, <1>3 DEF FreshSound
    <3>1. send.fresh /\ send.at = "persisting" /\ send'.cred = send.cred
      BY <1>2, <1>3
    <3>2. send.reply.is = "none" /\ \A r \in Submits : r.by # "send"
      BY <3>1 DEF CallSound, Submits, TypeOK, Reply
    <3>3. (\A t \in turns : t.cred # send.cred) /\ \A r \in Submits : r.cred # send.cred
      BY <3>1, <3>2 DEF FreshSound
    <3>4. QED
      BY <1>7, <3>1, <3>3
  <2>3. QED
    BY <2>1, <2>2
<1>18. QED
  BY <1>10, <1>11, <1>12, <1>13, <1>14, <1>15, <1>16, <1>17

\* What a new chat leaves behind.
LEMMA DetachLeaves ==
    ASSUME ChatInv, Detach
    PROVE  /\ credential' = 0 /\ view' = 0 /\ pending' = NoPending
           /\ dropped' = dropped
              \/ (dropped' = dropped \cup {pending.msg} /\ pending # NoPending)
              => LeavesMemory
<1>1. /\ credential' = 0 /\ view' = 0 /\ pending' = NoPending
      /\ storage' = [cred |-> 0, pending |-> NoPending]
      /\ left' = left \cup ({credential, storage.cred, view} \ {0})
  BY DEF Detach, NoRecord
<1>2. 0 \notin left'
  BY <1>1, Numbers DEF Sessions
<1>3. \A r \in Submits \cup turns : r.cred # 0
  BY Submitted DEF Sessions
<1>4. \A r \in Submits \cup turns : r.cred \in left'
  BY <1>1, <1>3 DEF ChatInv, ReachSound
<1>5. QED
  BY <1>1, <1>2, <1>4 DEF LeavesMemory

\* A new chat: at once if the client is idle, otherwise after a cancellation.
LEMMA StartNewChatKeeps ==
    ASSUME ChatInv, StartNewChat
    PROVE  ChatInv'
<1>1. /\ initialization \in {"ready", "unauthorized"} /\ ~resetting
      /\ UNCHANGED <<turns, active, sent, sessions, reloads, dropped>>
  BY DEF StartNewChat, server
<1>2. CASE generation = "idle" /\ Detach /\ inflight' = Abandon({"poll"}) /\ UNCHANGED <<send, cancel>>
  <2>1. /\ poll' = NoPoll /\ generation' = "idle" /\ activeId' = 0
        /\ initialization' = "ready" /\ resetting' = FALSE
    BY <1>2 DEF Detach
  <2>2. ~Going /\ (cancel.at = "none" \/ ~cancel.pre)
    BY <1>2 DEF ChatInv, WorkSound, CancelSound
  <2>3. StopsWork({"poll"})
    BY <1>1, <1>2, <2>1, <2>2 DEF StopsWork
  <2>4. QED
    BY <1>1, <1>2, <2>3, DetachLeaves, SettledKeeps
<1>3. CASE generation # "idle" /\ resetting' = TRUE
           /\ UNCHANGED <<initialization, credential, pending, activeId, poll, view, storage,
                          left>>
           /\ IF cancel.at = "none" THEN Cancel
                                    ELSE UNCHANGED <<cancel, send, generation, inflight>>
  <2>1. CASE cancel.at = "none"
    <3>1. generation # "cancelling"
      BY <2>1 DEF ChatInv, WorkSound, BusyHasOwner
    <3>2. QED
      BY <1>1, <1>3, <2>1, <3>1, CancelKeeps
  <2>2. CASE cancel.at # "none"
    <3>1. /\ UNCHANGED <<initialization, credential, pending, activeId, poll, view, storage,
                         left, cancel, send, generation, inflight>>
          /\ initialization = "ready"
      BY <1>3, <2>2 DEF ChatInv, MemorySound
    <3>2. Submits' = Submits /\ \A m, c : Carries(m, c)' <=> Carries(m, c)
      BY <1>1, <3>1 DEF Submits, Carries, SendsIdle
    <3>3. TypeOK' /\ CountSound' /\ OneSession'
      BY <1>1, <1>3, <3>1, <3>2 DEF ChatInv, TypeOK, CountSound, OneSession
    <3>4. MessageSound' /\ MemorySound' /\ LostSound' /\ SendSound' /\ CallSound' /\ FreshSound'
      BY <1>1, <3>1, <3>2
         DEF ChatInv, MessageSound, MemorySound, LostSound, Lost, SendSound, CallSound,
             FreshSound, SendsIdle, Going, Ending, Polling
    <3>5. CancelSound' /\ WorkSound' /\ ReachSound' /\ NewSound' /\ DropSound'
      BY <1>1, <3>1, <3>2
         DEF ChatInv, CancelSound, WorkSound, Ending, BusyHasOwner, ReachSound, NewSound,
             NewChatIsClean, DropSound, SendsIdle, Going, Polling
    <3>6. QED
      BY <3>3, <3>4, <3>5 DEF ChatInv
  <2>3. QED
    BY <2>1, <2>2
<1>4. QED
  BY <1>2, <1>3 DEF StartNewChat

\* A cancellation that went through.
LEMMA CancelDoneKeeps ==
    ASSUME ChatInv, NEW u \in BOOLEAN, CancelDone(u),
           IF u THEN cancel.at = "persisting" ELSE cancel.at = "response",
           \A r \in inflight : r.by # "cancel"
    PROVE  ChatInv'
<1> USE DEF ChatInv
<1> DEFINE drops == cancel.pre /\ pending # NoPending /\ credential # 0
           f == Forgets(cancel, u)
<1>1. /\ cancel' = NoCancel /\ send' = IF u THEN NoSend ELSE AbortedSend
      /\ dropped' = IF drops THEN dropped \cup {pending.msg} ELSE dropped
      /\ inflight' = Abandon({"send", "poll"})
      /\ UNCHANGED <<turns, active, sent, sessions, reloads>>
  BY DEF CancelDone, server
<1>2. initialization = "ready" /\ credential = storage.cred /\ pending = storage.pending
  BY DEF MemorySound, NoCancel
<1>3. \/ send' = NoSend
      \/ send.at = "persisting" /\ send' = [send EXCEPT !.stopped = TRUE]
  BY <1>1 DEF AbortedSend
<1>4. CASE resetting
  <2>1. Detach
    BY <1>4 DEF CancelDone
  <2>2. /\ poll' = NoPoll /\ generation' = "idle" /\ activeId' = 0
        /\ initialization' = "ready" /\ resetting' = FALSE
    BY <2>1 DEF Detach
  <2>3. StopsWork({"send", "poll"})
    BY <1>1, <1>2, <1>3, <2>2 DEF StopsWork
  <2>4. QED
    BY <1>1, <2>1, <2>3, DetachLeaves, SettledKeeps
<1>5. CASE ~resetting
  <2>1. /\ pending' = IF drops THEN NoPending ELSE pending
        /\ credential' = IF drops /\ f THEN 0 ELSE credential
        /\ storage' = IF ~drops THEN storage ELSE IF f THEN NoRecord
                      ELSE [cred |-> credential, pending |-> NoPending]
        /\ poll' = NoPoll /\ generation' = "idle" /\ activeId' = 0
        /\ UNCHANGED <<initialization, view, resetting, left>>
    BY <1>5 DEF CancelDone
  <2>2. storage = [cred |-> storage.cred, pending |-> storage.pending]
    BY DEF TypeOK
  <2>3. storage' = [cred |-> credential', pending |-> pending']
    BY <1>2, <2>1, <2>2 DEF NoRecord
  <2>4. {credential', view'} \cap left' = {}
    BY <2>1, Numbers DEF NewSound, NewChatIsClean, Sessions
  <2>5. f => \A r \in Submits \cup turns : r.cred # credential
    <3> SUFFICES ASSUME f PROVE \A r \in Submits \cup turns : r.cred # credential
      OBVIOUS
    <3>1. send.fresh /\ send.at = "persisting" /\ send.cred = credential
      BY DEF Forgets, CancelSound
    <3>2. send.reply.is = "none" /\ \A r \in Submits : r.by # "send"
      BY <3>1 DEF CallSound, Submits, TypeOK, Reply
    <3>3. QED
      BY <3>1, <3>2 DEF FreshSound
  <2>6. \A r \in Submits \cup turns : r.cred = credential' \/ r.cred \in left'
    BY <1>2, <2>1, <2>5 DEF ReachSound
  <2>7. initialization' = "ready" /\ resetting' \in BOOLEAN
    BY <1>2, <2>1 DEF TypeOK
  <2> HIDE DEF f
  <2>8. LeavesMemory
    BY <1>1, <2>1, <2>3, <2>4, <2>6 DEF LeavesMemory
  <2>9. StopsWork({"send", "poll"})
    BY <1>1, <1>2, <1>3, <2>1, <2>7 DEF StopsWork
  <2>10. QED
    BY <2>8, <2>9, SettledKeeps
<1>6. QED
  BY <1>4, <1>5

\* The server has confirmed the cancellation.
LEMMA CancelConfirmedKeeps ==
    ASSUME ChatInv, CancelConfirmed
    PROVE  ChatInv'
<1>1. cancel.at = "response" /\ cancel.reply.is = "ok" /\ CancelDone(FALSE)
  BY DEF CancelConfirmed
<1>2. \A r \in inflight : r.by # "cancel"
  BY <1>1 DEF ChatInv, CallSound
<1>3. QED
  BY <1>1, <1>2, CancelDoneKeeps

\* A send that was cancelled while it was being stored ends there.
LEMMA UndispatchedKeeps ==
    ASSUME ChatInv, Undispatched
    PROVE  ChatInv'
<1> USE DEF ChatInv
<1>1. send.at = "persisting" /\ send.stopped
  BY DEF Undispatched
<1>2. CASE cancel.at = "persisting"
  <2>1. CancelDone(TRUE)
    BY <1>2 DEF Undispatched
  <2>2. \A r \in inflight : r.by # "cancel"
    BY <1>2 DEF CallSound
  <2>3. QED
    BY <1>2, <2>1, <2>2, CancelDoneKeeps
<1>3. CASE cancel.at # "persisting"
  <2>1. /\ send' = NoSend
        /\ UNCHANGED <<initialization, generation, resetting, credential, pending, activeId,
                       cancel, poll, view, storage, inflight, turns, active, sent, sessions,
                       reloads, left, dropped>>
    BY <1>3 DEF Undispatched, server, counts
  <2>2. SendsIdle' /\ ~Going' /\ ~send'.stopped /\ ~send'.fresh /\ send'.reply.is = "none"
        /\ send'.at = "none"
    BY <2>1 DEF SendsIdle, Going, Ending, NoSend, NoReply
  <2>3. /\ initialization = "ready" /\ generation = "idle" /\ ~Polling /\ ~Polling'
        /\ Submits' = Submits
    BY <1>1, <1>3, <2>1 DEF MemorySound, SendSound, SendsIdle, NoSend, Polling, Submits
  <2>4. \A r \in inflight : r.by # "send"
    BY <1>1 DEF CallSound
  <2>5. TypeOK'
    BY <2>1 DEF TypeOK, NoSend, NoReply, Reply
  <2>6. CountSound' /\ MessageSound' /\ DropSound' /\ ReachSound' /\ NewSound'
    BY <2>1, <2>2, <2>3
       DEF CountSound, MessageSound, DropSound, ReachSound, NewSound, NewChatIsClean
  <2>7. OneSession'
    <3>1. \A m \in Messages, c \in Sessions : Carries(m, c)' => Carries(m, c)
      BY <2>1, <2>2, <2>3 DEF Carries
    <3>2. QED
      BY <2>1, <2>6, <3>1, Numbers, OneSessionKept
  <2>8. MemorySound' /\ LostSound' /\ SendSound' /\ WorkSound' /\ CancelSound'
    BY <1>3, <2>1, <2>2, <2>3
       DEF MemorySound, LostSound, Lost, SendSound, WorkSound, Ending, BusyHasOwner, CancelSound
  <2>9. CallSound' /\ FreshSound'
    BY <2>1, <2>2, <2>3, <2>4 DEF CallSound, FreshSound
  <2>10. QED
    BY <2>5, <2>6, <2>7, <2>8, <2>9
<1>4. QED
  BY <1>2, <1>3

\* A cancellation that failed before acceptance: nothing is left but to observe.
LEMMA CancelFailsEarlyKeeps ==
    ASSUME ChatInv, CancelFails, cancel.pre
    PROVE  ChatInv'
<1> USE DEF ChatInv
<1>1. /\ cancel.at = "response" /\ cancel' = NoCancel
      /\ dropped' = IF pending # NoPending THEN dropped \cup {pending.msg} ELSE dropped
      /\ inflight' = Abandon({"cancel", "poll"})
      /\ UNCHANGED <<send, turns, active, sent, sessions, reloads>>
  BY DEF CancelFails, server
<1>2. /\ initialization = "ready" /\ credential = storage.cred /\ pending = storage.pending
      /\ generation = "cancelling" /\ credential # 0 /\ SendsIdle /\ send = NoSend
  BY <1>1 DEF MemorySound, LostSound, Lost, CancelSound, SendSound, NoCancel
<1>3. CASE Detach
  <2>1. /\ poll' = NoPoll /\ generation' = "idle" /\ activeId' = 0
        /\ initialization' = "ready" /\ resetting' = FALSE
    BY <1>3 DEF Detach
  <2>2. \A r \in inflight : r.by = "cancel" => r.by \in {"cancel", "poll"}
    OBVIOUS
  <2>3. send' = send /\ ~Going
    BY <1>1, <1>2 DEF Going, Ending
  <2>4. StopsWork({"cancel", "poll"})
    BY <1>1, <1>2, <2>1, <2>2, <2>3 DEF StopsWork
  <2>5. QED
    BY <1>1, <1>3, <2>4, DetachLeaves, SettledKeeps
<1>4. CASE ~Detach
  <2>1. /\ resetting' = FALSE /\ pending' = NoPending /\ generation' = "recovery"
        /\ storage' = IF pending # NoPending THEN [cred |-> credential, pending |-> NoPending]
                                             ELSE storage
        /\ poll' = BeginPolling
        /\ UNCHANGED <<initialization, credential, activeId, view, left>>
    BY <1>2, <1>4 DEF CancelFails, Kept
  <2>2. /\ poll' = [at |-> "delay", tries |-> MaxPolls, pending |-> NoPending, reply |-> NoReply]
        /\ Polling' /\ poll'.at = "delay" /\ poll'.pending = NoPending /\ poll'.reply.is = "none"
    BY <2>1 DEF BeginPolling, NoPoll, Polling, NoReply
  <2>3. storage'.cred = credential /\ storage'.pending = NoPending
    BY <1>2, <2>1
  <2>4. cancel'.at = "none" /\ SendsIdle' /\ send' = NoSend
    BY <1>1, <1>2 DEF NoCancel, SendsIdle
  <2>5. inflight \subseteq Calls
    BY DEF TypeOK, Calls
  <2>6. /\ inflight' \subseteq Calls
        /\ \A r \in inflight' : \/ r \in inflight /\ r.by \notin {"cancel", "poll"}
                                \/ r.by = "gone" /\ r.op = "send"
        /\ \A r \in Submits' : \E q \in Submits : q.msg = r.msg /\ q.cred = r.cred /\ q.id = r.id
    BY <1>1, <2>5, Abandoned DEF Submits
  <2>7. pending # NoPending => pending.msg \in Messages /\ pending.msg <= sent
    <3> SUFFICES ASSUME pending # NoPending PROVE pending.msg \in Messages /\ pending.msg <= sent
      OBVIOUS
    <3>1. pending.msg \in Messages
      BY PendingTyped DEF TypeOK
    <3>2. credential \in Sessions
      BY <1>2 DEF TypeOK
    <3>3. QED
      BY <3>1, <3>2 DEF OneSession, Carries
  <2>8. TypeOK'
    <3>1. storage' \in [cred : {0} \cup Sessions, pending : Pending \cup {NoPending}]
      BY <2>1 DEF TypeOK
    <3>2. dropped' \subseteq Messages
      BY <1>1, <2>7 DEF TypeOK
    <3>3. poll' \in [at : {"none", "delay", "resubmit", "load", "spent"}, tries : 0..MaxPolls,
                 pending : Pending \cup {NoPending}, reply : Reply]
      BY <2>2 DEF NoReply, Reply
    <3>4. cancel' \in [at : {"none", "persisting", "response"}, pre : BOOLEAN,
                   msg : {0} \cup Messages, fresh : BOOLEAN, prev : {"idle", "sending", "streaming",
                       "recovery", "recovery-exhausted"}, reply : Reply]
      BY <1>1 DEF NoCancel, NoReply, Reply
    <3>5. QED
      BY <1>1, <2>1, <2>6, <3>1, <3>2, <3>3, <3>4, ZenonT(40) DEF TypeOK, Calls
  <2>9. CountSound' /\ MessageSound' /\ ReachSound' /\ NewSound'
    BY <1>1, <1>2, <2>1, <2>2, <2>3, <2>6, PendingTyped
       DEF CountSound, MessageSound, ReachSound, NewSound, NewChatIsClean
  <2>10. DropSound'
    BY <1>1, <2>1, <2>3, <2>4, <2>7 DEF DropSound, SendsIdle
  <2>11. OneSession'
    <3>1. \A m \in Messages, c \in Sessions : Carries(m, c)' => Carries(m, c)
      BY <1>1, <2>1, <2>3, <2>4, <2>6 DEF Carries
    <3>2. QED
      BY <1>1, <2>9, <3>1, Numbers, OneSessionKept
  <2>12. MemorySound' /\ LostSound' /\ SendSound' /\ WorkSound' /\ CancelSound'
    <3>1. ~send'.stopped /\ ~Going' /\ send'.at = "none"
      BY <2>4 DEF NoSend, Going, Ending
    <3>2. MemorySound' /\ LostSound'
      BY <1>1, <1>2, <2>1, <2>3 DEF MemorySound, LostSound, Lost
    <3>3. SendSound' /\ WorkSound' /\ CancelSound'
      BY <2>1, <2>2, <2>4, <3>1 DEF SendSound, WorkSound, Ending, BusyHasOwner, CancelSound
    <3>4. QED
      BY <3>2, <3>3
  <2>13. CallSound' /\ FreshSound'
    <3>1. \A r \in inflight : r.by \notin {"send", "init"}
      BY <1>2 DEF CallSound, SendsIdle
    <3>2. send'.reply.is = "none" /\ ~send'.fresh
      BY <2>4 DEF NoSend, NoReply
    <3>3. QED
      BY <2>1, <2>2, <2>6, <3>1, <3>2 DEF CallSound, FreshSound
  <2>14. QED
    BY <2>8, <2>9, <2>10, <2>11, <2>12, <2>13
<1>5. QED
  BY <1>3, <1>4

\* One that failed afterwards: the client goes back to what it did, if it still does.
LEMMA CancelFailsLateKeeps ==
    ASSUME ChatInv, CancelFails, ~cancel.pre
    PROVE  ChatInv'
<1> USE DEF ChatInv
<1>1. /\ cancel.at = "response" /\ cancel.reply.is # "ok" /\ cancel' = NoCancel
      /\ inflight' = Abandon({"cancel"}) /\ resetting' = FALSE /\ generation' = Restored
      /\ UNCHANGED <<initialization, credential, pending, activeId, send, poll, view, storage,
                     turns, active, sent, sessions, reloads, left, dropped>>
  BY DEF CancelFails, Kept, server
<1>2. cancel'.at = "none"
  BY <1>1 DEF NoCancel
<1>3. inflight \subseteq Calls
  BY DEF TypeOK, Calls
<1>4. /\ inflight' \subseteq Calls
      /\ \A r \in inflight' : \/ r \in inflight /\ r.by # "cancel"
                              \/ r.by = "gone" /\ r.op = "send"
      /\ \A r \in Submits' : \E q \in Submits : q.msg = r.msg /\ q.cred = r.cred /\ q.id = r.id
  BY <1>1, <1>3, Abandoned DEF Submits
<1>5. \A r \in inflight' : r \in inflight
  <2> SUFFICES ASSUME NEW r \in inflight', r \notin inflight PROVE FALSE
    OBVIOUS
  <2>1. \E q \in Submits : q.by = "cancel"
    BY <1>1, <1>3, Abandoned
  <2>2. QED
    BY <2>1 DEF CallSound, Submits
<1>6. Submits' \subseteq Submits
  BY <1>5 DEF Submits
<1>7. initialization = "ready" /\ (SendsIdle' <=> SendsIdle) /\ (Going' <=> Going)
      /\ (Polling' <=> Polling)
  BY <1>1 DEF MemorySound, NoCancel, SendsIdle, Going, Ending, Polling
<1>8. /\ generation # "cancelling" => generation' = generation
      /\ generation = "cancelling" => /\ generation' = cancel.prev
                                      /\ cancel.prev \in {"streaming", "recovery", "recovery-exhausted"}
  BY <1>1 DEF Restored, WorkSound, TypeOK
<1>9. TypeOK'
  <2>1. cancel' \in [at : {"none", "persisting", "response"}, pre : BOOLEAN,
                   msg : {0} \cup Messages, fresh : BOOLEAN, prev : {"idle", "sending", "streaming",
                       "recovery", "recovery-exhausted"}, reply : Reply]
    BY <1>1 DEF NoCancel, NoReply, Reply
  <2>2. generation' \in {"idle", "sending", "streaming", "recovery", "recovery-exhausted",
                         "cancelling"}
    BY <1>8 DEF TypeOK
  <2>3. inflight' \subseteq [by : {"send", "cancel", "poll", "init", "gone"},
                           op : {"send", "cancel", "load"}, cred : Sessions,
                           id : {0} \cup Ids, msg : {0} \cup Messages]
    BY <1>5 DEF TypeOK
  <2>4. resetting' \in BOOLEAN
    BY <1>1
  <2> HIDE DEF ChatInv
  <2>5. TypeOK
    BY DEF ChatInv
  <2>6. UNCHANGED <<initialization, credential, pending, activeId, send, poll, view, storage,
                    turns, active, left, dropped>>
    BY <1>1
  <2>7. QED
    BY <2>1, <2>2, <2>3, <2>4, <2>5, <2>6 DEF TypeOK
<1>10. CountSound' /\ MessageSound' /\ ReachSound' /\ NewSound' /\ DropSound'
  BY <1>1, <1>6 DEF CountSound, MessageSound, ReachSound, NewSound, NewChatIsClean, DropSound
<1>11. OneSession'
  <2>1. \A m \in Messages, c \in Sessions : Carries(m, c)' => Carries(m, c)
    BY <1>1, <1>6 DEF Carries, SendsIdle
  <2>2. QED
    BY <1>1, <1>10, <2>1, Numbers, OneSessionKept
<1>12. MemorySound' /\ LostSound' /\ SendSound' /\ CancelSound'
  <2>1. MemorySound' /\ LostSound'
    BY <1>1, <1>7, <1>8 DEF MemorySound, LostSound, Lost
  <2>2. SendSound'
    BY <1>1, <1>7, <1>8 DEF SendSound
  <2>3. CancelSound'
    BY <1>2 DEF CancelSound
  <2>4. QED
    BY <2>1, <2>2, <2>3
<1>13. WorkSound'
  <2>1. CASE generation = "cancelling"
    BY <1>1, <1>2, <1>7, <1>8, <2>1 DEF WorkSound, Ending, BusyHasOwner, Polling
  <2>2. CASE generation # "cancelling"
    BY <1>1, <1>2, <1>7, <1>8, <2>2 DEF WorkSound, Ending, BusyHasOwner, Polling
  <2>3. QED
    BY <2>1, <2>2
<1>14. CallSound' /\ FreshSound'
  <2>1. CallSound'
    BY <1>1, <1>2, <1>4, <1>5 DEF CallSound
  <2>2. FreshSound'
    BY <1>1, <1>6 DEF FreshSound
  <2>3. QED
    BY <2>1, <2>2
<1>15. QED
  BY <1>9, <1>10, <1>11, <1>12, <1>13, <1>14

-----------------------------------------------------------------------------
(* Recovery polls.                                                         *)

\* While the client polls, no send goes on and what is stored has been read.
LEMMA PollsAlone ==
    ASSUME ChatInv, Polling
    PROVE  /\ SendsIdle /\ send = NoSend /\ ~Going /\ initialization = "ready"
           /\ credential # 0 /\ credential \in Sessions
           /\ credential = storage.cred /\ pending = storage.pending
           /\ cancel.at = "none" \/ (cancel.at = "response" /\ ~cancel.pre)
           /\ \/ generation = "recovery"
              \/ generation = "cancelling" /\ ~cancel.pre /\ cancel.prev = "recovery"
           /\ \A r \in inflight : r.by \notin {"send", "init"}
<1>1. SendsIdle /\ send = NoSend /\ ~Going
  BY DEF ChatInv, SendSound, Going, Ending
<1>2. initialization = "ready" /\ credential # 0
  BY DEF ChatInv, MemorySound, Polling, NoPoll
<1>3. credential \in Sessions /\ credential = storage.cred /\ pending = storage.pending
  BY <1>2 DEF ChatInv, MemorySound, TypeOK
<1>4. \/ generation = "recovery"
      \/ generation = "cancelling" /\ ~cancel.pre /\ cancel.prev = "recovery"
  BY DEF ChatInv, WorkSound
<1>5. cancel.at = "none" \/ (cancel.at = "response" /\ ~cancel.pre)
  <2>1. cancel.at \in {"none", "persisting", "response"}
    BY DEF ChatInv, TypeOK
  <2>2. cancel.at # "persisting"
    BY <1>1 DEF ChatInv, CancelSound, SendsIdle
  <2>3. cancel.at # "none" => ~cancel.pre
    BY <1>4 DEF ChatInv, CancelSound
  <2>4. QED
    BY <2>1, <2>2, <2>3
<1>6. \A r \in inflight : r.by \notin {"send", "init"}
  BY <1>1, <1>2 DEF ChatInv, CallSound, SendsIdle
<1>7. QED
  BY <1>1, <1>2, <1>3, <1>4, <1>5, <1>6

\* The poll after the step, and the calls it awaits.
PollGoesOn ==
    /\ poll' \in [at : {"delay", "resubmit", "load", "spent"}, tries : 0..MaxPolls,
                  pending : Pending \cup {NoPending}, reply : Reply]
    /\ poll'.pending.id = poll'.pending.msg /\ poll'.reply.is = "none"
    /\ poll'.at # "spent" => generation' \in {generation, "recovery"}
    /\ poll'.at = "spent" => \/ generation' = "recovery-exhausted"
                             \/ generation' = "cancelling" /\ generation = "cancelling"
    /\ inflight' \subseteq Calls
    /\ \A r \in inflight' :
        \/ r \in inflight /\ r.by # "poll"
        \/ r.by = "gone" /\ r.op = "send" /\ \E q \in Submits :
                q.msg = r.msg /\ q.cred = r.cred /\ q.id = r.id
        \/ poll'.at = "load" /\ r = Loading("poll", credential)
        \/ poll'.at = "resubmit" /\ pending # NoPending
                /\ poll'.pending = pending /\ r = Sending("poll", credential, pending)

\* What a poll's step does to the rest.
PollLeavesRest ==
    /\ activeId' \in {0} \cup Ids /\ view' \in {view, credential}
    /\ pending' \in {pending, NoPending}
    /\ storage' = [cred |-> credential, pending |-> pending']
    /\ UNCHANGED <<initialization, resetting, credential, send, cancel, turns, active, sent,
                   sessions, reloads, left, dropped>>

\* A poll that goes on, or that was the last one.
LEMMA PollStepKeeps ==
    ASSUME ChatInv, Polling, PollGoesOn, PollLeavesRest
    PROVE  ChatInv'
<1> USE DEF ChatInv, PollGoesOn, PollLeavesRest
<1>1. /\ SendsIdle /\ send = NoSend /\ ~Going /\ initialization = "ready"
      /\ credential # 0 /\ credential \in Sessions
      /\ credential = storage.cred /\ pending = storage.pending
      /\ cancel.at = "none" \/ (cancel.at = "response" /\ ~cancel.pre)
      /\ \/ generation = "recovery"
         \/ generation = "cancelling" /\ ~cancel.pre /\ cancel.prev = "recovery"
      /\ \A r \in inflight : r.by \notin {"send", "init"}
  BY PollsAlone
<1>2. /\ SendsIdle' /\ send' = NoSend /\ ~Going' /\ send'.at = "none" /\ ~send'.fresh
      /\ ~send'.stopped /\ send'.reply.is = "none" /\ cancel' = cancel
      /\ initialization' = "ready" /\ credential' = credential
  BY <1>1 DEF SendsIdle, Going, Ending, NoSend, NoReply
<1>3. storage'.cred = credential /\ storage'.pending = pending'
  OBVIOUS
<1>4. Polling' <=> poll'.at # "spent"
  BY DEF Polling
<1>5. \A r \in inflight' : \/ r \in inflight /\ r.by # "poll"
                           \/ r.by = "gone" /\ r.op = "send"
                           \/ r.by = "poll" /\ \/ poll'.at = "load" /\ r = Loading("poll", credential)
                                               \/ /\ poll'.at = "resubmit"
                                                  /\ r = Sending("poll", credential, poll'.pending)
  BY DEF Sending, Loading
<1>6. \A r \in Submits' :
        \/ \E q \in Submits : q.msg = r.msg /\ q.cred = r.cred /\ q.id = r.id
        \/ /\ pending # NoPending /\ r.msg = pending.msg /\ r.cred = credential
           /\ r.id = pending.id
  BY DEF Submits, Sending, Loading
<1>7. TypeOK'
  <2>1. storage' \in [cred : {0} \cup Sessions, pending : Pending \cup {NoPending}]
    BY <1>1 DEF TypeOK
  <2>2. view' \in {0} \cup Sessions /\ pending' \in Pending \cup {NoPending}
    BY <1>1 DEF TypeOK
  <2>3. generation' \in {"recovery", "recovery-exhausted", "cancelling"}
    BY <1>1
  <2>4. QED
    BY <1>2, <2>1, <2>2, <2>3 DEF TypeOK, Calls
<1>8. CountSound' /\ MessageSound' /\ ReachSound' /\ NewSound' /\ DropSound'
  <2>1. pending # NoPending => pending.id = pending.msg /\ pending.id # 0
    BY PendingTyped DEF TypeOK, MessageSound, Messages
  <2>2. CountSound' /\ MessageSound'
    BY <1>3, <1>6, <2>1, PendingTyped DEF CountSound, MessageSound
  <2>3. ReachSound'
    BY <1>1, <1>3, <1>6 DEF ReachSound
  <2>4. NewSound'
    BY <1>1, <1>2, <1>3 DEF NewSound, NewChatIsClean
  <2>5. DropSound'
    BY <1>1, <1>2, <1>3 DEF DropSound
  <2>6. QED
    BY <2>2, <2>3, <2>4, <2>5
<1>9. OneSession'
  <2>1. \A m \in Messages, c \in Sessions : Carries(m, c)' => Carries(m, c)
    BY <1>1, <1>2, <1>3, <1>6 DEF Carries
  <2>2. QED
    BY <1>8, <2>1, Numbers, OneSessionKept
<1>10. MemorySound' /\ LostSound'
  <2>1. view' <= sessions
    BY <1>1 DEF MemorySound
  <2>2. QED
    BY <1>1, <1>2, <1>3, <2>1 DEF MemorySound, LostSound, Lost
<1>11. SendSound' /\ CancelSound'
  BY <1>1, <1>2 DEF SendSound, CancelSound
<1>12. WorkSound'
  BY <1>1, <1>2, <1>4 DEF WorkSound, Ending, BusyHasOwner
<1>13. CallSound' /\ FreshSound'
  <2>1. CallSound'
    BY <1>1, <1>2, <1>5 DEF CallSound
  <2>2. FreshSound'
    BY <1>2 DEF FreshSound
  <2>3. QED
    BY <2>1, <2>2
<1>14. QED
  BY <1>7, <1>8, <1>9, <1>10, <1>11, <1>12, <1>13

\* An iteration that is over leaves the next one, or none.
LEMMA NextPollLeaves ==
    ASSUME ChatInv, Polling, NEW next \in {generation, "recovery"}, NextPoll(next)
    PROVE  /\ poll' \in [at : {"delay", "resubmit", "load", "spent"}, tries : 0..MaxPolls,
                         pending : Pending \cup {NoPending}, reply : Reply]
           /\ poll'.pending.id = poll'.pending.msg /\ poll'.reply.is = "none"
           /\ poll'.at # "spent" => generation' \in {generation, "recovery"}
           /\ poll'.at = "spent" => \/ generation' = "recovery-exhausted"
                                    \/ generation' = "cancelling" /\ generation = "cancelling"
<1>1. poll.tries \in 0..MaxPolls
  BY DEF ChatInv, TypeOK
<1>2. NoReply \in Reply /\ NoReply.is = "none" /\ NoPending.id = NoPending.msg
  BY DEF NoReply, Reply, NoPending
<1>3. next \in {"recovery", "cancelling"} /\ (next = "cancelling" => generation = "cancelling")
  BY PollsAlone
<1>4. CASE poll.tries > 1
  <2>1. /\ poll' = [at |-> "delay", tries |-> poll.tries - 1, pending |-> NoPending,
                    reply |-> NoReply]
        /\ generation' = next
    BY <1>4 DEF NextPoll, BeginPolling, NoPoll
  <2>2. poll.tries - 1 \in 0..MaxPolls
    BY <1>1, <1>4
  <2>3. QED
    BY <1>2, <2>1, <2>2
<1>5. CASE ~(poll.tries > 1)
  <2>1. /\ poll' = [at |-> "spent", tries |-> 0, pending |-> NoPending, reply |-> NoReply]
        /\ generation' = IF next = "recovery" THEN "recovery-exhausted" ELSE next
    BY <1>5 DEF NextPoll, NoPoll
  <2>2. QED
    BY <1>2, <1>3, <2>1
<1>6. QED
  BY <1>4, <1>5

\* The delay is over: the pending message is submitted again, or the session loaded.
LEMMA PollWakesKeeps ==
    ASSUME ChatInv, PollWakes
    PROVE  ChatInv'
<1>1. /\ poll.at = "delay" /\ Polling
      /\ UNCHANGED <<initialization, generation, resetting, credential, pending, activeId, send,
                     cancel, view, storage, turns, active, sent, sessions, reloads, left, dropped>>
  BY DEF PollWakes, Polling, server, counts
<1>2. /\ credential \in Sessions /\ credential = storage.cred /\ pending = storage.pending
  BY <1>1, PollsAlone
<1>3. /\ poll.reply.is = "none" /\ poll.pending.id = poll.pending.msg
      /\ \A r \in inflight : r.by # "poll"
  BY <1>1 DEF ChatInv, CallSound, TypeOK, Reply, MessageSound
<1>4. pending # NoPending => pending \in Pending /\ pending.id = pending.msg
  BY DEF ChatInv, TypeOK, MessageSound
<1>5. storage = [cred |-> storage.cred, pending |-> storage.pending] /\ activeId \in {0} \cup Ids
      /\ inflight \subseteq Calls
  BY DEF ChatInv, TypeOK, Calls
<1>6. PollLeavesRest
  BY <1>1, <1>2, <1>5 DEF PollLeavesRest
<1>7. CASE pending # NoPending
  <2>1. /\ poll' = [poll EXCEPT !.at = "resubmit", !.pending = pending]
        /\ inflight' = inflight \cup {Sending("poll", credential, pending)}
    BY <1>7 DEF PollWakes, Resubmit
  <2>2. /\ poll' \in [at : {"delay", "resubmit", "load", "spent"}, tries : 0..MaxPolls,
                      pending : Pending \cup {NoPending}, reply : Reply]
        /\ poll'.at = "resubmit" /\ poll'.pending = pending /\ poll'.reply = poll.reply
    BY <1>4, <1>7, <2>1 DEF ChatInv, TypeOK
  <2>3. Sending("poll", credential, pending) \in Calls
    BY <1>2, <1>4, <1>7, PendingTyped DEF Sending, Calls
  <2>4. PollGoesOn
    BY <1>1, <1>3, <1>4, <1>5, <1>7, <2>1, <2>2, <2>3 DEF PollGoesOn
  <2>5. QED
    BY <1>1, <1>6, <2>4, PollStepKeeps
<1>8. CASE pending = NoPending
  <2>1. /\ poll' = [poll EXCEPT !.at = "load"]
        /\ inflight' = inflight \cup {Loading("poll", credential)}
    BY <1>8 DEF PollWakes
  <2>2. /\ poll' \in [at : {"delay", "resubmit", "load", "spent"}, tries : 0..MaxPolls,
                      pending : Pending \cup {NoPending}, reply : Reply]
        /\ poll'.at = "load" /\ poll'.pending = poll.pending /\ poll'.reply = poll.reply
    BY <2>1 DEF ChatInv, TypeOK
  <2>3. Loading("poll", credential) \in Calls
    BY <1>2 DEF Loading, Calls
  <2>4. PollGoesOn
    BY <1>1, <1>3, <1>5, <2>1, <2>2, <2>3 DEF PollGoesOn
  <2>5. QED
    BY <1>1, <1>6, <2>4, PollStepKeeps
<1>9. QED
  BY <1>7, <1>8

\* The resubmission was answered: the message is pending no more.
LEMMA PollConfirmsKeeps ==
    ASSUME ChatInv, PollConfirms
    PROVE  ChatInv'
<1> DEFINE mine == pending.id = poll.pending.id
<1>1. /\ poll.at = "resubmit" /\ poll.reply.is = "ok" /\ Polling
      /\ pending' = IF mine THEN NoPending ELSE pending
      /\ storage' = IF mine THEN [cred |-> credential, pending |-> NoPending] ELSE storage
      /\ poll' = [poll EXCEPT !.at = "load", !.pending = NoPending, !.reply = NoReply]
      /\ inflight' = inflight \cup {Loading("poll", credential)}
      /\ UNCHANGED <<initialization, generation, resetting, credential, activeId, send, cancel,
                     view, turns, active, sent, sessions, reloads, left, dropped>>
  BY DEF PollConfirms, Polling, server, counts
<1>2. credential \in Sessions /\ credential = storage.cred /\ pending = storage.pending
  BY <1>1, PollsAlone
<1>3. \A r \in inflight : r.by # "poll"
  BY <1>1 DEF ChatInv, CallSound
<1>4. storage = [cred |-> storage.cred, pending |-> storage.pending] /\ activeId \in {0} \cup Ids
      /\ inflight \subseteq Calls
  BY DEF ChatInv, TypeOK, Calls
<1>5. PollLeavesRest
  BY <1>1, <1>2, <1>4 DEF PollLeavesRest
<1>6. /\ poll' \in [at : {"delay", "resubmit", "load", "spent"}, tries : 0..MaxPolls,
                    pending : Pending \cup {NoPending}, reply : Reply]
      /\ poll'.at = "load" /\ poll'.pending = NoPending /\ poll'.reply = NoReply
  BY <1>1 DEF ChatInv, TypeOK, NoReply, Reply
<1>7. Loading("poll", credential) \in Calls /\ NoReply.is = "none" /\ NoPending.id = NoPending.msg
  BY <1>2 DEF Loading, Calls, NoReply, NoPending
<1>8. PollGoesOn
  BY <1>1, <1>3, <1>4, <1>6, <1>7 DEF PollGoesOn
<1>9. QED
  BY <1>1, <1>5, <1>8, PollStepKeeps

\* With no call of a poll in flight, giving polls up changes nothing.
LEMMA NothingToAbandon ==
    ASSUME \A r \in inflight : r.by # "poll"
    PROVE  Abandon({"poll"}) = inflight
BY DEF Abandon

\* The session was loaded: recovery is over, or a response is still being written.
LEMMA PollLoadsKeeps ==
    ASSUME ChatInv, PollLoads
    PROVE  ChatInv'
<1>1. /\ poll.at = "load" /\ poll.reply.is = "ok" /\ Polling
      /\ view' = credential /\ activeId' = poll.reply.id /\ pending' = NoPending
      /\ storage' = IF pending # NoPending THEN [cred |-> credential, pending |-> NoPending]
                                           ELSE storage
      /\ UNCHANGED <<initialization, resetting, credential, send, cancel, inflight, turns,
                     active, sent, sessions, reloads, left, dropped>>
  BY DEF PollLoads, AcceptSession, Polling, server, counts
<1>2. /\ credential \in Sessions /\ credential = storage.cred /\ pending = storage.pending
      /\ initialization = "ready" /\ ~Going
      /\ cancel.at = "none" \/ (cancel.at = "response" /\ ~cancel.pre)
  BY <1>1, PollsAlone
<1>3. \A r \in inflight : r.by # "poll"
  BY <1>1 DEF ChatInv, CallSound
<1>4. storage = [cred |-> storage.cred, pending |-> storage.pending] /\ inflight \subseteq Calls
      /\ poll.reply.id \in {0} \cup Ids /\ resetting \in BOOLEAN
  BY DEF ChatInv, TypeOK, Calls, Reply
<1>5. storage' = [cred |-> credential, pending |-> NoPending]
  BY <1>1, <1>2, <1>4
<1>6. CASE poll.reply.id = 0
  <2>1. poll' = NoPoll /\ generation' = "idle"
    BY <1>6 DEF PollLoads
  <2>2. StopsWork({"poll"})
    BY <1>1, <1>2, <1>3, <1>4, <1>6, <2>1, NothingToAbandon DEF StopsWork
  <2>3. {credential', view'} \cap left' = {}
    BY <1>1, <1>2 DEF ChatInv, NewSound, NewChatIsClean
  <2>4. \A r \in Submits \cup turns : r.cred = credential' \/ r.cred \in left'
    BY <1>1, <1>2 DEF ChatInv, ReachSound
  <2>5. LeavesMemory
    BY <1>1, <1>5, <2>3, <2>4 DEF LeavesMemory
  <2>6. QED
    BY <2>2, <2>5, SettledKeeps
<1>7. CASE poll.reply.id # 0
  <2>1. NextPoll("recovery")
    BY <1>7 DEF PollLoads
  <2>2. PollGoesOn
    BY <1>1, <1>3, <1>4, <2>1, NextPollLeaves DEF PollGoesOn
  <2>3. PollLeavesRest
    BY <1>1, <1>4, <1>5 DEF PollLeavesRest
  <2>4. QED
    BY <1>1, <2>2, <2>3, PollStepKeeps
<1>8. QED
  BY <1>6, <1>7

\* A definite rejection ends recovery.
LEMMA PollRejectedKeeps ==
    ASSUME ChatInv, PollRejected
    PROVE  ChatInv'
<1> DEFINE mine == poll.at = "resubmit" /\ pending.id = poll.pending.id
<1>1. /\ poll.reply.is = "rejected" /\ poll' = NoPoll /\ generation' = "idle" /\ activeId' = 0
      /\ pending' = IF mine THEN NoPending ELSE pending
      /\ storage' = IF mine THEN [cred |-> credential, pending |-> NoPending] ELSE storage
      /\ UNCHANGED <<initialization, resetting, credential, send, cancel, view, inflight, turns,
                     active, sent, sessions, reloads, left, dropped>>
  BY DEF PollRejected, server, counts
<1>2. Polling
  BY <1>1 DEF ChatInv, CallSound, Polling
<1>3. /\ credential = storage.cred /\ pending = storage.pending
      /\ initialization = "ready" /\ ~Going
      /\ cancel.at = "none" \/ (cancel.at = "response" /\ ~cancel.pre)
  BY <1>2, PollsAlone
<1>4. \A r \in inflight : r.by # "poll"
  BY <1>1 DEF ChatInv, CallSound
<1>5. storage = [cred |-> storage.cred, pending |-> storage.pending] /\ resetting \in BOOLEAN
  BY DEF ChatInv, TypeOK
<1>6. storage' = [cred |-> credential', pending |-> pending']
  BY <1>1, <1>3, <1>5
<1>7. StopsWork({"poll"})
  BY <1>1, <1>3, <1>4, <1>5, NothingToAbandon DEF StopsWork
<1>8. {credential', view'} \cap left' = {}
  BY <1>1 DEF ChatInv, NewSound, NewChatIsClean
<1>9. \A r \in Submits \cup turns : r.cred = credential' \/ r.cred \in left'
  BY <1>1, <1>3 DEF ChatInv, ReachSound
<1>10. LeavesMemory
  BY <1>1, <1>6, <1>8, <1>9 DEF LeavesMemory
<1>11. QED
  BY <1>7, <1>10, SettledKeeps

\* A poll that fails is given up, and the next one begins.
LEMMA PollFailsKeeps ==
    ASSUME ChatInv, PollFails
    PROVE  ChatInv'
<1>1. /\ poll.at \in {"resubmit", "load"} /\ Polling /\ NextPoll(generation)
      /\ inflight' = Abandon({"poll"})
      /\ UNCHANGED <<initialization, resetting, credential, pending, activeId, send, cancel,
                     view, storage, turns, active, sent, sessions, reloads, left, dropped>>
  BY DEF PollFails, Polling, server, counts
<1>2. credential = storage.cred /\ pending = storage.pending
  BY <1>1, PollsAlone
<1>3. storage = [cred |-> storage.cred, pending |-> storage.pending] /\ activeId \in {0} \cup Ids
      /\ inflight \subseteq Calls
  BY DEF ChatInv, TypeOK, Calls
<1>4. PollLeavesRest
  BY <1>1, <1>2, <1>3 DEF PollLeavesRest
<1>5. /\ inflight' \subseteq Calls
      /\ \A r \in inflight' :
          \/ r \in inflight /\ r.by # "poll"
          \/ r.by = "gone" /\ r.op = "send" /\ \E q \in Submits :
                  q.msg = r.msg /\ q.cred = r.cred /\ q.id = r.id
  BY <1>1, <1>3, Abandoned
<1>6. PollGoesOn
  BY <1>1, <1>5, NextPollLeaves DEF PollGoesOn
<1>7. QED
  BY <1>1, <1>4, <1>6, PollStepKeeps

-----------------------------------------------------------------------------
(* Initializing, and reloading the page.                                   *)

\* Before the client is ready it does nothing else.
LEMMA OnlyInitializes ==
    ASSUME ChatInv, initialization # "ready"
    PROVE  /\ generation = "idle" /\ activeId = 0 /\ ~resetting
           /\ send = NoSend /\ cancel = NoCancel /\ poll = NoPoll
           /\ SendsIdle /\ ~Polling /\ ~Going
           /\ \A r \in inflight : /\ r.by \in {"init", "gone"}
                                  /\ r.by = "init" => initialization = "session"
<1>1. /\ generation = "idle" /\ activeId = 0 /\ ~resetting
      /\ send = NoSend /\ cancel = NoCancel /\ poll = NoPoll
  BY DEF ChatInv, MemorySound
<1>2. SendsIdle /\ ~Polling /\ ~Going /\ cancel.at = "none" /\ send.at = "none" /\ poll.at = "none"
  BY <1>1 DEF NoSend, NoPoll, NoCancel, SendsIdle, Polling, Going, Ending
<1>3. inflight \subseteq Calls
  BY DEF ChatInv, TypeOK, Calls
<1>4. \A r \in inflight : r.by \in {"init", "gone"} /\ (r.by = "init" => initialization = "session")
  BY <1>2, <1>3 DEF ChatInv, CallSound, Calls
<1>5. QED
  BY <1>1, <1>2, <1>4

\* What is stored is read; a pending message is recovered, a session alone is loaded.
LEMMA InitializeKeeps ==
    ASSUME ChatInv, Initialize
    PROVE  ChatInv'
<1> USE DEF ChatInv
<1> DEFINE loads == storage.cred # 0 /\ storage.pending = NoPending
           recovers == storage.pending # NoPending
           x == Loading("init", storage.cred)
<1>1. /\ initialization = "loading" /\ credential' = storage.cred /\ pending' = storage.pending
      /\ initialization' = IF loads THEN "session" ELSE "ready"
      /\ inflight' = IF loads THEN inflight \cup {x} ELSE inflight
      /\ generation' = IF recovers THEN "recovery" ELSE generation
      /\ poll' = IF recovers THEN BeginPolling ELSE poll
      /\ view' = IF recovers THEN storage.cred ELSE view
      /\ UNCHANGED <<resetting, activeId, send, cancel, storage, turns, active, sent, sessions,
                     reloads, left, dropped>>
  BY DEF Initialize, server, counts
<1>2. /\ generation = "idle" /\ activeId = 0 /\ ~resetting
      /\ send = NoSend /\ cancel = NoCancel /\ poll = NoPoll
      /\ SendsIdle /\ ~Polling /\ ~Going
      /\ \A r \in inflight : r.by = "gone"
  BY <1>1, OnlyInitializes
<1>3. /\ SendsIdle' /\ ~Going' /\ send'.at = "none" /\ ~send'.fresh /\ ~send'.stopped
      /\ send'.reply.is = "none" /\ cancel'.at = "none"
  BY <1>1, <1>2 DEF SendsIdle, Going, Ending, NoSend, NoReply, NoCancel
<1>4. recovers => storage.cred # 0
  BY DEF MemorySound
<1>5. /\ poll' \in [at : {"none", "delay", "resubmit", "load", "spent"}, tries : 0..MaxPolls,
                    pending : Pending \cup {NoPending}, reply : Reply]
      /\ poll'.at = (IF recovers THEN "delay" ELSE "none")
      /\ poll'.pending = NoPending /\ poll'.reply.is = "none" /\ (Polling' <=> recovers)
  <2>1. CASE recovers
    <3>1. poll' = [at |-> "delay", tries |-> MaxPolls, pending |-> NoPending, reply |-> NoReply]
      BY <1>1, <2>1 DEF BeginPolling, NoPoll
    <3>2. QED
      BY <2>1, <3>1 DEF NoReply, Reply, Polling
  <2>2. CASE ~recovers
    <3>1. poll' = [at |-> "none", tries |-> 0, pending |-> NoPending, reply |-> NoReply]
      BY <1>1, <1>2, <2>2 DEF NoPoll
    <3>2. QED
      BY <2>2, <3>1 DEF NoReply, Reply, Polling
  <2>3. QED
    BY <2>1, <2>2
<1>6. /\ storage.cred \in {0} \cup Sessions /\ storage.pending \in Pending \cup {NoPending}
      /\ inflight \subseteq Calls
  BY DEF TypeOK, Calls
<1>7. loads => x \in Calls /\ x.by = "init" /\ x.op = "load"
  BY <1>6 DEF Loading, Calls
<1> HIDE DEF x
<1>8. \A r \in inflight' : r.by = "gone" \/ (loads /\ r = x)
  BY <1>1, <1>2
<1>9. Submits' = Submits
  BY <1>1, <1>7 DEF Submits
<1>10. TypeOK'
  <2>1. inflight' \subseteq Calls /\ view' \in {0} \cup Sessions
    BY <1>1, <1>6, <1>7 DEF TypeOK
  <2>2. generation' \in {"idle", "recovery"} /\ initialization' \in {"session", "ready"}
    BY <1>1, <1>2
  <2>3. QED
    BY <1>1, <1>2, <1>5, <1>6, <2>1, <2>2 DEF TypeOK, Calls
<1>11. CountSound' /\ MessageSound' /\ ReachSound' /\ DropSound'
  BY <1>1, <1>3, <1>5, <1>9, PendingTyped DEF CountSound, MessageSound, ReachSound, DropSound
<1>12. NewSound' /\ MemorySound' /\ LostSound'
  <2>1. NewSound'
    BY <1>1 DEF NewSound, NewChatIsClean
  <2>2. view' <= sessions
    BY <1>1 DEF MemorySound
  <2>3. initialization' = "session" => loads
    BY <1>1
  <2>4. initialization' # "ready" => poll' = NoPoll /\ generation' = "idle" /\ ~recovers
    BY <1>1, <1>2
  <2>5. generation' # "idle" \/ Polling' => credential' # 0
    BY <1>1, <1>2, <1>4, <1>5
  <2>6. MemorySound' /\ LostSound'
    BY <1>1, <1>2, <2>2, <2>3, <2>4, <2>5 DEF MemorySound, LostSound, Lost
  <2>7. QED
    BY <2>1, <2>6
<1>13. OneSession'
  <2>1. \A m \in Messages, c \in Sessions : Carries(m, c)' => Carries(m, c)
    BY <1>1, <1>3, <1>9 DEF Carries
  <2>2. QED
    BY <1>1, <1>11, <2>1, Numbers, OneSessionKept
<1>14. SendSound' /\ CancelSound' /\ WorkSound'
  <2>1. generation' \in {"idle", "recovery"} /\ (generation' = "recovery" <=> recovers)
    BY <1>1, <1>2
  <2>2. QED
    BY <1>1, <1>2, <1>3, <1>5, <2>1 DEF SendSound, CancelSound, WorkSound, Ending, BusyHasOwner
<1>15. CallSound' /\ FreshSound'
  <2>1. \A r \in inflight' : r.by = "gone" => r.op = "send"
    BY <1>1, <1>7 DEF CallSound
  <2>2. \A r \in inflight' : /\ r.by \in {"gone", "init"}
                             /\ r.by = "init" => /\ initialization' = "session"
                                                 /\ r = Loading("init", credential')
    BY <1>1, <1>7, <1>8 DEF x
  <2>3. CallSound'
    BY <1>3, <1>5, <2>1, <2>2 DEF CallSound
  <2>4. FreshSound'
    BY <1>3 DEF FreshSound
  <2>5. QED
    BY <2>3, <2>4
<1>16. QED
  BY <1>10, <1>11, <1>12, <1>13, <1>14, <1>15

\* A step that only forgets: the client is not ready, and awaits nothing.
Forgetful ==
    /\ initialization' \in {"loading", "error"}
    /\ generation' = "idle" /\ activeId' = 0 /\ resetting' = FALSE
    /\ send' = NoSend /\ cancel' = NoCancel /\ poll' = NoPoll
    /\ \/ credential' = credential /\ pending' = pending /\ initialization # "ready"
       \/ credential' = 0 /\ pending' = NoPending
    /\ view' \in {0, view}
    /\ inflight' \subseteq Calls
    /\ \A r \in inflight' : r.by = "gone" /\ r.op = "send" /\ \E q \in Submits :
            q.msg = r.msg /\ q.cred = r.cred /\ q.id = r.id
    /\ UNCHANGED <<storage, turns, active, sent, sessions, left, dropped>>

\* Whatever is forgotten can be read again.
LEMMA ForgetfulKeeps ==
    ASSUME ChatInv, Forgetful
    PROVE  ChatInv'
<1> USE DEF ChatInv, Forgetful
<1>1. /\ SendsIdle' /\ ~Going' /\ send'.at = "none" /\ ~send'.fresh /\ ~send'.stopped
      /\ send'.reply.is = "none" /\ cancel'.at = "none"
      /\ poll'.at = "none" /\ poll'.pending = NoPending /\ poll'.reply.is = "none" /\ ~Polling'
  BY DEF SendsIdle, Going, Ending, NoSend, NoReply, NoCancel, NoPoll, Polling
<1>2. \A r \in Submits' : \E q \in Submits : q.msg = r.msg /\ q.cred = r.cred /\ q.id = r.id
  BY DEF Submits
<1>3. TypeOK'
  <2>1. send' \in [at : {"none", "persisting", "response", "stream", "ending", "closing"},
                 msg : {0} \cup Messages, cred : {0} \cup Sessions,
                 fresh : BOOLEAN, stopped : BOOLEAN, reply : Reply]
    BY DEF NoSend, NoReply, Reply
  <2>2. cancel' \in [at : {"none", "persisting", "response"}, pre : BOOLEAN,
                   msg : {0} \cup Messages, fresh : BOOLEAN, prev : {"idle", "sending", "streaming",
                       "recovery", "recovery-exhausted"}, reply : Reply]
    BY DEF NoCancel, NoReply, Reply
  <2>3. poll' \in [at : {"none", "delay", "resubmit", "load", "spent"}, tries : 0..MaxPolls,
                 pending : Pending \cup {NoPending}, reply : Reply]
    BY DEF NoPoll, NoReply, Reply
  <2>4. QED
    BY <2>1, <2>2, <2>3 DEF TypeOK, Calls
<1>4. CountSound' /\ MessageSound' /\ ReachSound' /\ DropSound'
  BY <1>1, <1>2, PendingTyped DEF CountSound, MessageSound, ReachSound, DropSound
<1>5. NewSound'
  BY Numbers DEF NewSound, NewChatIsClean, Sessions
<1>6. MemorySound' /\ LostSound'
  <2>1. view' <= sessions
    BY Numbers
  <2>2. \/ credential' = storage.cred /\ pending' = storage.pending
        \/ credential' = 0 /\ pending' = NoPending
    BY DEF MemorySound
  <2>3. QED
    BY <1>1, <2>1, <2>2 DEF MemorySound, LostSound, Lost
<1>7. OneSession'
  <2>1. \A m \in Messages, c \in Sessions : Carries(m, c)' => Carries(m, c)
    BY <1>1, <1>2 DEF Carries
  <2>2. QED
    BY <1>4, <2>1, Numbers, OneSessionKept
<1>8. SendSound' /\ CancelSound' /\ WorkSound'
  BY <1>1 DEF SendSound, CancelSound, WorkSound, BusyHasOwner
<1>9. CallSound' /\ FreshSound'
  BY <1>1 DEF CallSound, FreshSound
<1>10. QED
  BY <1>3, <1>4, <1>5, <1>6, <1>7, <1>8, <1>9

\* An initialization that fails is given up.
LEMMA InitializeFailsKeeps ==
    ASSUME ChatInv, InitializeFails
    PROVE  ChatInv'
<1>1. /\ initialization \in {"loading", "session"} /\ initialization' = "error"
      /\ inflight' = Abandon({"init"})
      /\ UNCHANGED <<generation, resetting, credential, pending, activeId, send, cancel, poll,
                     view, storage, turns, active, sent, sessions, reloads, left, dropped>>
  BY DEF InitializeFails, server, counts
<1>2. /\ generation = "idle" /\ activeId = 0 /\ resetting = FALSE
      /\ send = NoSend /\ cancel = NoCancel /\ poll = NoPoll
      /\ \A r \in inflight : r.by \in {"init", "gone"}
  BY <1>1, OnlyInitializes DEF ChatInv, TypeOK
<1>3. inflight \subseteq Calls /\ \A r \in inflight : r.by = "gone" => r.op = "send"
  BY DEF ChatInv, TypeOK, Calls, CallSound
<1>4. inflight' \subseteq Calls
  BY <1>1, <1>3, Abandoned
<1>5. \A r \in inflight' : r.by = "gone" /\ r.op = "send" /\ \E q \in Submits :
            q.msg = r.msg /\ q.cred = r.cred /\ q.id = r.id
  BY <1>1, <1>2, <1>3, Abandoned DEF Submits
<1>6. Forgetful
  BY <1>1, <1>2, <1>4, <1>5 DEF Forgetful
<1>7. QED
  BY <1>6, ForgetfulKeeps

\* It may be tried again.
LEMMA InitializeAgainKeeps ==
    ASSUME ChatInv, InitializeAgain
    PROVE  ChatInv'
<1>1. /\ initialization \in {"error", "unauthorized"} /\ initialization' = "loading"
      /\ UNCHANGED <<generation, resetting, credential, pending, activeId, send, cancel, poll,
                     view, storage, inflight, turns, active, sent, sessions, reloads, left, dropped>>
  BY DEF InitializeAgain, server, counts
<1>2. /\ generation = "idle" /\ activeId = 0 /\ resetting = FALSE
      /\ send = NoSend /\ cancel = NoCancel /\ poll = NoPoll
      /\ \A r \in inflight : r.by = "gone"
  BY <1>1, OnlyInitializes DEF ChatInv, TypeOK
<1>3. inflight \subseteq Calls /\ \A r \in inflight : r.by = "gone" => r.op = "send"
  BY DEF ChatInv, TypeOK, Calls, CallSound
<1>4. Forgetful
  BY <1>1, <1>2, <1>3 DEF Forgetful, Submits
<1>5. QED
  BY <1>4, ForgetfulKeeps

\* A reload forgets all but the storage.
LEMMA ReloadKeeps ==
    ASSUME ChatInv, Reload
    PROVE  ChatInv'
<1> DEFINE all == {"send", "cancel", "poll", "init"}
<1>1. /\ initialization' = "loading" /\ generation' = "idle" /\ resetting' = FALSE
      /\ credential' = 0 /\ pending' = NoPending /\ activeId' = 0 /\ view' = 0
      /\ send' = NoSend /\ cancel' = NoCancel /\ poll' = NoPoll
      /\ inflight' = Abandon(all)
      /\ UNCHANGED <<storage, turns, active, sent, sessions, left, dropped>>
  BY DEF Reload, server
<1>2. inflight \subseteq Calls /\ \A r \in inflight : r.by = "gone" => r.op = "send"
  BY DEF ChatInv, TypeOK, Calls, CallSound
<1>3. \A r \in inflight : r.by \in all \cup {"gone"}
  BY <1>2 DEF Calls
<1>4. inflight' \subseteq Calls
  BY <1>1, <1>2, Abandoned
<1>5. \A r \in inflight' : r.by = "gone" /\ r.op = "send" /\ \E q \in Submits :
            q.msg = r.msg /\ q.cred = r.cred /\ q.id = r.id
  BY <1>1, <1>2, <1>3, Abandoned DEF Submits
<1>6. Forgetful
  BY <1>1, <1>4, <1>5 DEF Forgetful
<1>7. QED
  BY <1>6, ForgetfulKeeps

-----------------------------------------------------------------------------
(* The server.                                                             *)

\* The server answers a call, and may accept what it submits.
Handles(r, is, id) ==
    /\ Answer(r, is, id) /\ is \in {"ok", "rejected"} /\ id \in {0} \cup Ids
    /\ \/ turns' = turns
       \/ r.op = "send" /\ is = "ok"
            /\ turns' = turns \cup {[cred |-> r.cred, id |-> r.id, msg |-> r.msg]}
    /\ active' \in [Sessions -> {0} \cup Ids]
    /\ UNCHANGED <<initialization, generation, resetting, credential, pending, activeId, view,
                   storage, sent, sessions, reloads, left, dropped>>

\* The answer reaches the one who awaits it, who stays where it was.
LEMMA AnswerReaches ==
    ASSUME ChatInv, NEW r \in inflight, r.by # "init", NEW is, NEW id, Handles(r, is, id)
    PROVE  /\ inflight' = inflight \ {r}
           /\ \A f \in {"at", "msg", "cred", "fresh", "stopped"} : send'[f] = send[f]
           /\ \A f \in {"at", "pre", "msg", "fresh", "prev"} : cancel'[f] = cancel[f]
           /\ \A f \in {"at", "tries", "pending"} : poll'[f] = poll[f]
           /\ r.by = "send" => send'.reply.is = is /\ send.at = "response"
           /\ r.by # "send" => send' = send
           /\ r.by = "poll" => poll'.reply.is = is /\ poll.at \in {"resubmit", "load"}
           /\ r.by # "poll" => poll' = poll
           /\ r.by = "cancel" => cancel'.reply.is = is /\ cancel.at = "response"
           /\ r.by # "cancel" => cancel' = cancel
           /\ TypeOK'
<1> DEFINE reply == [is |-> is, id |-> id]
<1>1. /\ inflight' = inflight \ {r}
      /\ send'   = IF r.by = "send"   THEN [send EXCEPT !.reply = reply] ELSE send
      /\ cancel' = IF r.by = "cancel" THEN [cancel EXCEPT !.reply = reply] ELSE cancel
      /\ poll'   = IF r.by = "poll"   THEN [poll EXCEPT !.reply = reply] ELSE poll
  BY DEF Handles, Answer
<1>2. reply \in Reply /\ reply.is = is
  BY DEF Handles, Reply
<1> HIDE DEF reply
<1>3. /\ send' \in [at : {"none", "persisting", "response", "stream", "ending", "closing"},
                    msg : {0} \cup Messages, cred : {0} \cup Sessions,
                    fresh : BOOLEAN, stopped : BOOLEAN, reply : Reply]
      /\ \A f \in {"at", "msg", "cred", "fresh", "stopped"} : send'[f] = send[f]
      /\ r.by = "send" => send'.reply = reply
      /\ r.by # "send" => send' = send
  BY <1>1, <1>2 DEF ChatInv, TypeOK
<1>4. /\ cancel' \in [at : {"none", "persisting", "response"}, pre : BOOLEAN,
                   msg : {0} \cup Messages, fresh : BOOLEAN, prev : {"idle", "sending", "streaming",
                       "recovery", "recovery-exhausted"}, reply : Reply]
      /\ \A f \in {"at", "pre", "msg", "fresh", "prev"} : cancel'[f] = cancel[f]
      /\ r.by = "cancel" => cancel'.reply = reply
      /\ r.by # "cancel" => cancel' = cancel
  BY <1>1, <1>2 DEF ChatInv, TypeOK
<1>5. /\ poll' \in [at : {"none", "delay", "resubmit", "load", "spent"}, tries : 0..MaxPolls,
                 pending : Pending \cup {NoPending}, reply : Reply]
      /\ \A f \in {"at", "tries", "pending"} : poll'[f] = poll[f]
      /\ r.by = "poll" => poll'.reply = reply
      /\ r.by # "poll" => poll' = poll
  BY <1>1, <1>2 DEF ChatInv, TypeOK
<1>6. /\ r.by = "send" => send.at = "response"
      /\ r.by = "poll" => poll.at \in {"resubmit", "load"}
      /\ r.by = "cancel" => cancel.at = "response"
  BY DEF ChatInv, CallSound
<1>7. turns' \subseteq [cred : Sessions, id : Ids, msg : Messages]
  <2>1. r.op = "send" => r.cred \in Sessions /\ r.msg \in Messages /\ r.id \in Ids
    BY Submitted, PendingTyped DEF Submits
  <2>2. turns \subseteq [cred : Sessions, id : Ids, msg : Messages]
    BY DEF ChatInv, TypeOK
  <2>3. QED
    BY <2>1, <2>2 DEF Handles
<1>8. TypeOK'
  BY <1>1, <1>3, <1>4, <1>5, <1>7 DEF ChatInv, TypeOK, Handles
<1>9. QED
  BY <1>1, <1>2, <1>3, <1>4, <1>5, <1>6, <1>8

\* Answering keeps the invariant: there is one call of each kind to be answered.
LEMMA AnswerKeeps ==
    ASSUME ChatInv, NEW r \in inflight, r.by # "init", NEW is, NEW id, Handles(r, is, id)
    PROVE  ChatInv'
<1> USE DEF ChatInv
<1>1. /\ inflight' = inflight \ {r}
      /\ send'.at = send.at /\ send'.msg = send.msg /\ send'.cred = send.cred
      /\ send'.fresh = send.fresh /\ send'.stopped = send.stopped
      /\ cancel'.at = cancel.at /\ cancel'.pre = cancel.pre /\ cancel'.fresh = cancel.fresh
      /\ cancel'.prev = cancel.prev
      /\ poll'.at = poll.at /\ poll'.pending = poll.pending
      /\ TypeOK'
  BY AnswerReaches
<1>2. /\ r.by = "send" => send'.reply.is = is /\ send.at = "response"
      /\ r.by # "send" => send' = send
      /\ r.by = "poll" => poll'.reply.is = is /\ poll.at \in {"resubmit", "load"}
      /\ r.by # "poll" => poll' = poll
      /\ r.by = "cancel" => cancel'.reply.is = is /\ cancel.at = "response"
      /\ r.by # "cancel" => cancel' = cancel
      /\ is # "none"
  BY AnswerReaches DEF Handles
<1>3. UNCHANGED <<initialization, generation, resetting, credential, pending, activeId, view,
                  storage, sent, sessions, reloads, left, dropped>>
  BY DEF Handles
<1>4. (SendsIdle' <=> SendsIdle) /\ (Going' <=> Going) /\ (Polling' <=> Polling)
  BY <1>1 DEF SendsIdle, Going, Ending, Polling
<1>5. Submits' \subseteq Submits
  BY <1>1 DEF Submits
<1>6. \A t \in turns' : \/ t \in turns
                        \/ /\ r.op = "send" /\ is = "ok"
                           /\ t.msg = r.msg /\ t.cred = r.cred /\ t.id = r.id
  BY DEF Handles
<1>7. \A t \in Submits' \cup turns' : \E q \in Submits \cup turns :
            q.msg = t.msg /\ q.cred = t.cred /\ q.id = t.id
  BY <1>5, <1>6 DEF Submits
<1>8. CountSound' /\ MessageSound' /\ ReachSound' /\ NewSound' /\ DropSound'
  BY <1>1, <1>3, <1>7
     DEF CountSound, MessageSound, ReachSound, NewSound, NewChatIsClean, DropSound
<1>9. OneSession'
  <2>1. \A m \in Messages, c \in Sessions : Carries(m, c)' => Carries(m, c)
    BY <1>1, <1>3, <1>4, <1>7 DEF Carries
  <2>2. QED
    BY <1>3, <1>8, <2>1, Numbers, OneSessionKept
<1>10. MemorySound' /\ LostSound'
  <2>1. initialization # "ready" => r.by \notin {"send", "cancel", "poll"}
    BY OnlyInitializes
  <2>2. initialization # "ready" => send' = send /\ cancel' = cancel /\ poll' = poll
    BY <1>2, <2>1
  <2>3. cancel.reply.is = "ok" => cancel' = cancel
    BY <1>2 DEF CallSound
  <2>4. QED
    BY <1>1, <1>3, <1>4, <2>2, <2>3 DEF MemorySound, LostSound, Lost
<1>11. SendSound' /\ CancelSound' /\ WorkSound'
  <2>1. SendsIdle => send' = send
    BY <1>2 DEF SendsIdle
  <2>2. SendSound'
    BY <1>1, <1>3, <1>4, <2>1 DEF SendSound
  <2>3. CancelSound' /\ WorkSound'
    BY <1>1, <1>3, <1>4 DEF CancelSound, WorkSound, Ending, BusyHasOwner
  <2>4. QED
    BY <2>2, <2>3
<1>12. CallSound'
  <2>1. \A q \in inflight' : q \in inflight /\ q # r
    BY <1>1
  <2>2. \A q \in inflight' : q.by = r.by => q.by = "gone"
    BY <2>1 DEF CallSound, TypeOK
  <2>3. \A q \in inflight' : q.by = "send" => send' = send
    BY <1>2, <2>2
  <2>4. \A q \in inflight' : q.by = "poll" => poll' = poll
    BY <1>2, <2>2
  <2>5. \A q \in inflight' : q.by = "cancel" => cancel' = cancel
    BY <1>2, <2>2
  <2>6. poll'.reply.is # "none" => poll'.at \in {"resubmit", "load"}
    BY <1>1, <1>2 DEF CallSound
  <2>7. send'.reply.is # "none" => send'.at = "response"
    BY <1>1, <1>2 DEF CallSound
  <2>8. QED
    BY <1>3, <2>1, <2>3, <2>4, <2>5, <2>6, <2>7 DEF CallSound
<1>13. FreshSound'
  <2> SUFFICES ASSUME send.fresh, send.at = "persisting" \/ send.at = "response"
               PROVE  /\ send'.reply.is # "ok" => \A t \in turns' : t.cred # send.cred
                      /\ \A q \in Submits' : q.cred = send.cred => q.by = "send"
    BY <1>1 DEF FreshSound
  <2>1. \A q \in Submits' : q.cred = send.cred => q.by = "send"
    BY <1>5 DEF FreshSound
  <2>2. ASSUME send'.reply.is # "ok", NEW t \in turns', t.cred = send.cred PROVE FALSE
    <3>1. send.reply.is # "ok"
      BY <1>2, <2>2 DEF CallSound
    <3>2. t \notin turns
      BY <2>2, <3>1 DEF FreshSound
    <3>3. r \in Submits /\ r.cred = send.cred /\ is = "ok"
      BY <1>6, <2>2, <3>2 DEF Submits
    <3>4. r.by = "send"
      BY <3>3 DEF FreshSound
    <3>5. QED
      BY <1>2, <2>2, <3>3, <3>4
  <2>3. QED
    BY <2>1, <2>2
<1>14. QED
  BY <1>1, <1>8, <1>9, <1>10, <1>11, <1>12, <1>13

\* Submitting, cancelling and loading for a poll are answered so.
LEMMA HandlesKeeps ==
    ASSUME ChatInv, NEW r \in inflight, HandleSend(r) \/ HandleCancel(r) \/ HandleLoad(r)
    PROVE  ChatInv'
<1> DEFINE known == IF Known(r.cred) THEN "ok" ELSE "rejected"
<1>1. /\ r \in Calls /\ active \in [Sessions -> {0} \cup Ids]
      /\ r.by = "init" => r.op = "load"
      /\ r.op = "send" => r.id \in Ids /\ r.cred \in Sessions
  <2>1. r \in Calls /\ active \in [Sessions -> {0} \cup Ids]
    BY DEF ChatInv, TypeOK, Calls
  <2>2. r.by = "init" => r.op = "load"
    BY DEF ChatInv, CallSound, Loading
  <2>3. r.op = "send" => r.id \in Ids /\ r.cred \in Sessions
    BY Submitted, PendingTyped DEF Submits
  <2>4. QED
    BY <2>1, <2>2, <2>3
<1>2. UNCHANGED <<initialization, generation, resetting, credential, pending, activeId, view,
                  storage, sent, sessions, reloads, left, dropped>>
  BY DEF HandleSend, HandleCancel, HandleLoad, counts
<1>3. CASE HandleSend(r)
  <2>1. r.op = "send"
    BY <1>3 DEF HandleSend
  <2>2. \/ Answer(r, "ok", r.id) /\ UNCHANGED <<turns, active>>
        \/ /\ turns' = turns \cup {[cred |-> r.cred, id |-> r.id, msg |-> r.msg]}
           /\ active' = [active EXCEPT ![r.cred] = r.id] /\ Answer(r, "ok", r.id)
        \/ Answer(r, "rejected", 0) /\ UNCHANGED <<turns, active>>
    BY <1>3 DEF HandleSend, server
  <2>3. active' \in [Sessions -> {0} \cup Ids]
    BY <1>1, <2>1, <2>2
  <2>4. Handles(r, "ok", r.id) \/ Handles(r, "rejected", 0)
    BY <1>1, <1>2, <2>1, <2>2, <2>3 DEF Handles
  <2>5. QED
    BY <1>1, <2>1, <2>4, AnswerKeeps
<1>4. CASE HandleCancel(r)
  <2>1. r.op = "cancel" /\ Answer(r, known, 0) /\ UNCHANGED <<turns, active>>
    BY <1>4 DEF HandleCancel, server
  <2>2. known \in {"ok", "rejected"}
    OBVIOUS
  <2> HIDE DEF known
  <2>3. Handles(r, known, 0)
    BY <1>1, <1>2, <2>1, <2>2 DEF Handles
  <2>4. QED
    BY <1>1, <2>1, <2>3, AnswerKeeps
<1>5. CASE HandleLoad(r)
  <2>1. r.by = "poll" /\ Answer(r, known, active[r.cred]) /\ UNCHANGED <<turns, active>>
    BY <1>5 DEF HandleLoad, server
  <2>2. known \in {"ok", "rejected"} /\ active[r.cred] \in {0} \cup Ids
    BY <1>1 DEF Calls
  <2> HIDE DEF known
  <2>3. Handles(r, known, active[r.cred])
    BY <1>1, <1>2, <2>1, <2>2 DEF Handles
  <2>4. QED
    BY <2>1, <2>3, AnswerKeeps
<1>6. QED
  BY <1>3, <1>4, <1>5

\* The load of an initialization is applied at once.
LEMMA HandleInitKeeps ==
    ASSUME ChatInv, NEW r \in inflight, HandleInit(r)
    PROVE  ChatInv'
<1> USE DEF ChatInv
<1> DEFINE id == active[r.cred]
           recovers == Known(r.cred) /\ id # 0
<1>1. /\ r.by = "init" /\ inflight' = inflight \ {r}
      /\ UNCHANGED <<resetting, credential, send, cancel, turns, active, sent, sessions, reloads,
                     left, dropped>>
  BY DEF HandleInit, server, counts
<1>2. initialization = "session" /\ r = Loading("init", credential)
  BY <1>1 DEF CallSound
<1>3. /\ pending = NoPending /\ credential # 0 /\ credential = storage.cred
      /\ storage.pending = NoPending
  BY <1>2 DEF MemorySound
<1>4. /\ generation = "idle" /\ activeId = 0 /\ ~resetting
      /\ send = NoSend /\ cancel = NoCancel /\ poll = NoPoll
      /\ SendsIdle /\ ~Polling /\ ~Going
      /\ \A q \in inflight : q.by \in {"init", "gone"}
  BY <1>2, OnlyInitializes
<1>5. \A q \in inflight' : q \in inflight /\ q.by = "gone"
  BY <1>1, <1>2, <1>4 DEF CallSound
<1>6. /\ pending' = NoPending /\ storage' = storage
      /\ initialization' \in {"ready", "unauthorized"} /\ (recovers => initialization' = "ready")
      /\ view' \in {credential, view}
      /\ generation' = IF recovers THEN "recovery" ELSE "idle"
      /\ poll' = IF recovers THEN BeginPolling ELSE NoPoll
      /\ activeId' = IF recovers THEN id ELSE 0
  <2>1. CASE Known(r.cred)
    BY <1>3, <1>4, <2>1 DEF HandleInit, SessionLoads, AcceptSession
  <2>2. CASE ~Known(r.cred)
    BY <1>3, <1>4, <2>2 DEF HandleInit
  <2>3. QED
    BY <2>1, <2>2
<1>7. r.cred \in Sessions /\ id \in {0} \cup Ids /\ recovers \in BOOLEAN
  BY DEF TypeOK
<1> HIDE DEF id, recovers
<1>8. /\ SendsIdle' /\ send' = NoSend /\ ~Going' /\ send'.at = "none" /\ ~send'.fresh
      /\ ~send'.stopped /\ send'.reply.is = "none" /\ cancel' = NoCancel /\ cancel'.at = "none"
  BY <1>1, <1>4 DEF SendsIdle, Going, Ending, NoSend, NoReply, NoCancel
<1>9. /\ poll' \in [at : {"none", "delay", "resubmit", "load", "spent"}, tries : 0..MaxPolls,
                    pending : Pending \cup {NoPending}, reply : Reply]
      /\ poll'.pending = NoPending /\ poll'.reply.is = "none" /\ (Polling' <=> recovers)
  <2>1. CASE recovers
    <3>1. poll' = [at |-> "delay", tries |-> MaxPolls, pending |-> NoPending, reply |-> NoReply]
      BY <1>6, <2>1 DEF BeginPolling, NoPoll
    <3>2. QED
      BY <2>1, <3>1 DEF NoReply, Reply, Polling
  <2>2. CASE ~recovers
    <3>1. poll' = [at |-> "none", tries |-> 0, pending |-> NoPending, reply |-> NoReply]
      BY <1>6, <2>2 DEF NoPoll
    <3>2. QED
      BY <2>2, <3>1 DEF NoReply, Reply, Polling
  <2>3. QED
    BY <2>1, <2>2
<1>10. Submits' \subseteq Submits
  BY <1>5 DEF Submits
<1>11. TypeOK'
  <2>1. view' \in {0} \cup Sessions /\ activeId' \in {0} \cup Ids
    BY <1>6, <1>7 DEF TypeOK
  <2>2. QED
    BY <1>1, <1>5, <1>6, <1>9, <2>1 DEF TypeOK
<1>12. CountSound' /\ MessageSound' /\ ReachSound' /\ DropSound'
  BY <1>1, <1>3, <1>6, <1>8, <1>9, <1>10, PendingTyped
     DEF CountSound, MessageSound, ReachSound, DropSound
<1>13. NewSound'
  BY <1>1, <1>6 DEF NewSound, NewChatIsClean
<1>14. MemorySound' /\ LostSound'
  <2>1. view' <= sessions
    BY <1>3, <1>6 DEF MemorySound
  <2>2. initialization' # "ready" => generation' = "idle" /\ activeId' = 0 /\ poll' = NoPoll
    BY <1>6
  <2>3. QED
    BY <1>1, <1>3, <1>4, <1>6, <1>8, <2>1, <2>2 DEF MemorySound, LostSound, Lost
<1>15. OneSession'
  <2>1. \A m \in Messages, c \in Sessions : Carries(m, c)' => Carries(m, c)
    BY <1>1, <1>6, <1>8, <1>10 DEF Carries
  <2>2. QED
    BY <1>1, <1>12, <2>1, Numbers, OneSessionKept
<1>16. SendSound' /\ CancelSound' /\ WorkSound'
  <2>1. generation' = "idle" => activeId' = 0
    BY <1>6
  <2>2. generation' \in {"idle", "recovery"} /\ (generation' = "recovery" <=> recovers)
    BY <1>6
  <2>3. QED
    BY <1>8, <1>9, <2>1, <2>2 DEF SendSound, CancelSound, WorkSound, Ending, BusyHasOwner
<1>17. CallSound' /\ FreshSound'
  BY <1>5, <1>8, <1>9 DEF CallSound, FreshSound
<1>18. QED
  BY <1>11, <1>12, <1>13, <1>14, <1>15, <1>16, <1>17

\* What only the server's activity distinguishes is as sound as before.
LEMMA RestKeeps ==
    ASSUME ChatInv, active' \in [Sessions -> {0} \cup Ids],
           UNCHANGED <<client, storage, inflight, turns, counts>>
    PROVE  ChatInv'
<1> USE DEF ChatInv
<1>1. UNCHANGED <<initialization, generation, resetting, credential, pending, activeId, send,
                  cancel, poll, view, storage, inflight, turns, sent, sessions, reloads, left,
                  dropped>>
  BY DEF client, counts
<1>2. Submits' = Submits /\ (SendsIdle' <=> SendsIdle) /\ (Going' <=> Going)
      /\ (Polling' <=> Polling)
  BY <1>1 DEF Submits, SendsIdle, Going, Ending, Polling
<1>3. TypeOK' /\ CountSound'
  BY <1>1 DEF TypeOK, CountSound
<1>4. OneSession'
  <2>1. \A m \in Messages, c \in Sessions : Carries(m, c)' => Carries(m, c)
    BY <1>1, <1>2 DEF Carries
  <2>2. QED
    BY <1>1, <1>3, <2>1, Numbers, OneSessionKept
<1>5. MessageSound' /\ MemorySound' /\ LostSound' /\ SendSound' /\ CallSound' /\ FreshSound'
  BY <1>1, <1>2 DEF MessageSound, MemorySound, LostSound, Lost, SendSound, CallSound, FreshSound
<1>6. CancelSound' /\ WorkSound' /\ ReachSound' /\ NewSound' /\ DropSound'
  BY <1>1, <1>2
     DEF CancelSound, WorkSound, Ending, BusyHasOwner, ReachSound, NewSound, NewChatIsClean, DropSound
<1>7. QED
  BY <1>3, <1>4, <1>5, <1>6

-----------------------------------------------------------------------------
(* The invariant, and what follows from it.                                *)

\* The page is loaded for the first time.
LEMMA ChatStarts == Init => ChatInv
<1> SUFFICES ASSUME Init PROVE ChatInv
  OBVIOUS
<1>1. /\ initialization = "loading" /\ generation = "idle" /\ resetting = FALSE
      /\ credential = 0 /\ pending = NoPending /\ activeId = 0 /\ view = 0
      /\ send = NoSend /\ cancel = NoCancel /\ poll = NoPoll
      /\ storage.cred = 0 /\ storage.pending = NoPending /\ inflight = {}
      /\ turns = {} /\ active = [c \in Sessions |-> 0]
      /\ sent = 0 /\ sessions = 0 /\ left = {} /\ dropped = {}
  BY DEF Init, NoRecord
<1>2. /\ send.at = "none" /\ ~send.fresh /\ ~send.stopped /\ send.reply.is = "none"
      /\ cancel.at = "none" /\ poll.at = "none" /\ poll.pending = NoPending
      /\ poll.reply.is = "none" /\ NoPending.id = NoPending.msg
      /\ SendsIdle /\ ~Going /\ ~Polling /\ Submits = {}
  BY <1>1 DEF NoSend, NoReply, NoCancel, NoPoll, NoPending, SendsIdle, Going, Ending, Polling,
              Submits
<1>3. TypeOK
  <2>1. send \in [at : {"none", "persisting", "response", "stream", "ending", "closing"},
                 msg : {0} \cup Messages, cred : {0} \cup Sessions,
                 fresh : BOOLEAN, stopped : BOOLEAN, reply : Reply]
    BY <1>1 DEF NoSend, NoReply, Reply
  <2>2. cancel \in [at : {"none", "persisting", "response"}, pre : BOOLEAN,
                   msg : {0} \cup Messages, fresh : BOOLEAN, prev : {"idle", "sending", "streaming",
                       "recovery", "recovery-exhausted"}, reply : Reply]
    BY <1>1 DEF NoCancel, NoReply, Reply
  <2>3. poll \in [at : {"none", "delay", "resubmit", "load", "spent"}, tries : 0..MaxPolls,
                 pending : Pending \cup {NoPending}, reply : Reply]
    BY <1>1 DEF NoPoll, NoReply, Reply
  <2>4. storage \in [cred : {0} \cup Sessions, pending : Pending \cup {NoPending}]
    BY DEF Init, NoRecord
  <2>5. QED
    BY <1>1, <2>1, <2>2, <2>3, <2>4 DEF TypeOK
<1>4. CountSound /\ MessageSound /\ MemorySound /\ LostSound /\ OneSession /\ SendSound
  BY <1>1, <1>2
     DEF CountSound, MessageSound, MemorySound, LostSound, Lost, OneSession, Carries, SendSound
<1>5. CallSound /\ FreshSound /\ CancelSound /\ WorkSound /\ ReachSound /\ NewSound /\ DropSound
  BY <1>1, <1>2 DEF CallSound, FreshSound, CancelSound, WorkSound, BusyHasOwner, ReachSound,
                    NewSound, NewChatIsClean, DropSound
<1>6. QED
  BY <1>3, <1>4, <1>5 DEF ChatInv

\* Every step keeps it.
LEMMA ChatStep ==
    ASSUME ChatInv, [Next]_vars
    PROVE  ChatInv'
<1>1. CASE SendMessage \/ Dispatch \/ Accepted \/ Rejected
  BY <1>1, SendMessageKeeps, DispatchKeeps, AcceptedKeeps, RejectedKeeps
<1>10. CASE Terminal \/ StreamEnds \/ SendFails
  BY <1>10, TerminalKeeps, StreamEndsKeeps, SendFailsKeeps
<1>2. CASE Stop \/ StartNewChat \/ Undispatched \/ CancelConfirmed
  BY <1>2, StopKeeps, StartNewChatKeeps, UndispatchedKeeps, CancelConfirmedKeeps
<1>3. CASE CancelFails
  BY <1>3, CancelFailsEarlyKeeps, CancelFailsLateKeeps
<1>4. CASE PollWakes \/ PollConfirms \/ PollLoads \/ PollRejected \/ PollFails
  BY <1>4, PollWakesKeeps, PollConfirmsKeeps, PollLoadsKeeps, PollRejectedKeeps, PollFailsKeeps
<1>5. CASE Initialize \/ InitializeFails \/ InitializeAgain \/ Reload
  BY <1>5, InitializeKeeps, InitializeFailsKeeps, InitializeAgainKeeps, ReloadKeeps
<1>6. CASE \E r \in inflight : HandleSend(r) \/ HandleCancel(r) \/ HandleLoad(r) \/ HandleInit(r)
  BY <1>6, HandlesKeeps, HandleInitKeeps
<1>7. CASE \E c \in Sessions : Ends(c)
  <2>1. PICK c \in Sessions : Ends(c)
    BY <1>7
  <2>2. active' \in [Sessions -> {0} \cup Ids]
    BY <2>1 DEF Ends, ChatInv, TypeOK
  <2>3. QED
    BY <2>1, <2>2, RestKeeps DEF Ends
<1>8. CASE UNCHANGED vars
  <2>1. UNCHANGED <<client, storage, inflight, turns, counts>> /\ active' = active
    BY <1>8 DEF vars, server
  <2>2. active' \in [Sessions -> {0} \cup Ids]
    BY <2>1 DEF ChatInv, TypeOK
  <2>3. QED
    BY <2>1, <2>2, RestKeeps
<1>9. QED
  BY <1>1, <1>2, <1>3, <1>4, <1>5, <1>6, <1>7, <1>8, <1>10 DEF Next

\* The client and its calls, the storage and the server stay in step, whatever is
\* reloaded, resubmitted, cancelled or answered late.
THEOREM ChatInvariant == Spec => []ChatInv
<1>1. ChatInv /\ [Next]_vars => ChatInv'
  BY ChatStep
<1>2. QED
  BY <1>1, ChatStarts, PTL DEF Spec

\* The client's state is one the code declares (chat-client.ts:83-112), and calls,
\* sessions and request ids are ones that it or the server made.
THEOREM ChatTypeCorrect == Spec => []TypeOK
<1>1. ChatInv => TypeOK
  BY DEF ChatInv
<1>2. QED
  BY <1>1, ChatInvariant, PTL

\* What the user sent becomes at most one turn, in one session, for the poll resubmits
\* it under the id and in the session it was first stored with (chat-client.ts:230-237).
THEOREM MessagesSentOnce == Spec => []SentOnce
<1>1. ChatInv => SentOnce
  <2> SUFFICES ASSUME ChatInv, NEW t \in turns, NEW u \in turns, t.msg = u.msg PROVE t = u
    BY DEF SentOnce
  <2>1. t.msg \in Messages /\ t.cred \in Sessions /\ u.cred \in Sessions
        /\ t.id = t.msg /\ u.id = u.msg
    BY Submitted
  <2>2. Carries(t.msg, t.cred) /\ Carries(t.msg, u.cred)
    BY DEF Carries
  <2>3. t.cred = u.cred
    BY <2>1, <2>2 DEF ChatInv, OneSession
  <2>4. /\ t \in [cred : Sessions, id : Ids, msg : Messages]
        /\ u \in [cred : Sessions, id : Ids, msg : Messages]
    BY DEF ChatInv, TypeOK
  <2>5. QED
    BY <2>1, <2>3, <2>4
<1>2. QED
  BY <1>1, ChatInvariant, PTL

\* The stored record leads to every accepted turn, until the user starts a new chat: a
\* new session is stored before it is used and forgotten only if nobody could have heard
\* of it (sendMessage and cancelResponse).
THEOREM AcceptedStaysRecoverable == Spec => []AcceptedIsRecoverable
<1>1. ChatInv => AcceptedIsRecoverable
  BY DEF ChatInv, ReachSound, AcceptedIsRecoverable
<1>2. QED
  BY <1>1, ChatInvariant, PTL

\* No answer, however late, brings a former session back after a new chat
\* (startNewChat, chat-client.ts:572-602).
THEOREM FormerChatStaysGone == Spec => []NewChatIsClean
<1>1. ChatInv => NewChatIsClean
  BY DEF ChatInv, NewSound
<1>2. QED
  BY <1>1, ChatInvariant, PTL

\* A client that says it is busy awaits something, also when a send, a poll and a
\* cancellation have aborted one another (`generation', chat-client.ts:86), with the two
\* exceptions that BusyHasOwner names: a last poll spent under a cancellation, and the
\* recovery of a chat that was left while its stream was about to end (chat-client.ts:213).
THEOREM BusyClientHasOwner == Spec => []BusyHasOwner
<1>1. ChatInv => BusyHasOwner
  BY DEF ChatInv, WorkSound
<1>2. QED
  BY <1>1, ChatInvariant, PTL

\* Who submits what: the first dispatch, and a poll the pending message.
LEMMA SubmittedBy ==
    ASSUME ChatInv, [Next]_vars, NEW r \in inflight', r \notin inflight, r.op = "send",
           r.by # "gone"
    PROVE  \/ send.at = "persisting" /\ ~send.stopped /\ r.msg = send.msg
           \/ pending # NoPending /\ r.msg = pending.msg
<1>1. inflight \subseteq Calls
  BY DEF ChatInv, TypeOK, Calls
<1>2. \A who : inflight' # Abandon(who)
  BY <1>1, Abandoned
<1>3. inflight' # inflight /\ ~(inflight' \subseteq inflight)
  OBVIOUS
<1>4. CASE Dispatch
  BY <1>4 DEF Dispatch, Sending
<1>5. CASE PollWakes
  BY <1>5 DEF PollWakes, Resubmit, Sending, Loading
<1>6. CASE Stop \/ StartNewChat
  <2>1. CASE Cancel
    <3>1. r \in Abandon({"send"}) \/ r = Cancelling(credential, activeId)
      BY <2>1, <1>3 DEF Cancel
    <3>2. QED
      BY <1>1, <3>1, Abandoned DEF Cancelling
  <2>2. CASE ~Cancel
    BY <1>2, <1>3, <1>6, <2>2 DEF Stop, StartNewChat
  <2>3. QED
    BY <2>1, <2>2
<1>7. CASE SendMessage \/ Accepted \/ Rejected \/ Terminal \/ StreamEnds \/ SendFails
  BY <1>2, <1>3, <1>7 DEF SendMessage, Accepted, Rejected, Terminal, StreamEnds, SendFails
<1>8. CASE Undispatched \/ CancelConfirmed \/ CancelFails
  BY <1>2, <1>3, <1>8 DEF Undispatched, CancelConfirmed, CancelFails, CancelDone
<1>9. CASE PollConfirms \/ PollLoads \/ PollRejected \/ PollFails
  BY <1>2, <1>3, <1>9 DEF PollConfirms, PollLoads, PollRejected, PollFails, Loading
<1>10. CASE Initialize \/ InitializeFails \/ InitializeAgain \/ Reload
  BY <1>2, <1>3, <1>10 DEF Initialize, InitializeFails, InitializeAgain, Reload, Loading
<1>11. CASE \E q \in inflight : HandleSend(q) \/ HandleCancel(q) \/ HandleLoad(q) \/ HandleInit(q)
  BY <1>3, <1>11 DEF HandleSend, HandleCancel, HandleLoad, HandleInit, Answer
<1>12. CASE (\E c \in Sessions : Ends(c)) \/ UNCHANGED vars
  BY <1>3, <1>12 DEF Ends, vars
<1>13. QED
  BY <1>4, <1>5, <1>6, <1>7, <1>8, <1>9, <1>10, <1>11, <1>12 DEF Next

\* A message that was cancelled before acceptance has no copy left to be sent from
\* (chat-client.ts:526).
THEOREM CancelledStaysUnsent == Spec => CancelledNotResent
<1>1. ASSUME ChatInv, [Next]_vars, NEW r \in inflight' \ inflight, r.op = "send", r.by # "gone"
      PROVE  r.msg \notin dropped
  BY <1>1, SubmittedBy DEF ChatInv, DropSound
<1>2. ChatInv /\ [Next]_vars =>
        [\A r \in inflight' \ inflight : r.op = "send" /\ r.by # "gone" => r.msg \notin dropped]_vars
  BY <1>1
<1>3. QED
  BY <1>2, ChatInvariant, PTL DEF Spec, CancelledNotResent
=============================================================================
