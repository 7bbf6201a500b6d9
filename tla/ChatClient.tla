----------------------------- MODULE ChatClient -----------------------------
(***************************************************************************)
(* The SDK's chat client (packages/sdk/src/chat-client.ts) against a server *)
(* that may be slow, unreachable or reordered.                             *)
(*                                                                         *)
(* The client is one object whose asynchronous functions interleave at     *)
(* their awaits: a send, a cancellation, a recovery poll, a reset and the   *)
(* initialization.  Each is a record whose field `at' names what it awaits. *)
(* An abort rejects the pending await before any other callback runs, so    *)
(* the catch block of what is aborted belongs to the step that aborts it.   *)
(* Storage is as quick as localStorage, except the first write of a send,   *)
(* which the code lets a cancellation overtake.  The number 0 is `undefined'.*)
(***************************************************************************)
EXTENDS Integers, FiniteSets

CONSTANTS
    MaxSends,   \* bound on sendMessage calls
    MaxReloads, \* bound on page reloads
    MaxPolls    \* MAX_RECOVERY_POLLS

ASSUME ChatAssumption ==
    MaxSends \in Nat \ {0} /\ MaxReloads \in Nat /\ MaxPolls \in Nat \ {0}

VARIABLES
    \* the client's memory
    initialization, generation, resetting, credential, pending, activeId,
    send, cancel, poll,
    view,      \* the session whose transcript is shown
    \* the browser's storage, and the requests the server has not handled yet
    storage, inflight,
    \* the server: the accepted turns, and the one running in each session
    turns, active,
    \* counters, and what the user has left behind
    sent, sessions, reloads, left, dropped

client == <<initialization, generation, resetting, credential, pending, activeId,
            send, cancel, poll, view>>
server == <<turns, active>>
counts == <<sent, sessions, reloads, left, dropped>>
vars   == <<client, storage, inflight, server, counts>>

Messages == 1..MaxSends
Sessions == 1..MaxSends

\* A request id stands for one message; the upper half is for ids that a
\* resubmission would invent.
Ids       == 1..2 * MaxSends
Pending   == [id : Ids, msg : Messages]
NoPending == [id |-> 0, msg |-> 0]
NoRecord  == [cred |-> 0, pending |-> NoPending]

NoReply  == [is |-> "none", id |-> 0]
Reply    == [is : {"none", "ok", "rejected"}, id : {0} \cup Ids]
NoSend   == [at |-> "none", msg |-> 0, cred |-> 0, fresh |-> FALSE,
             stopped |-> FALSE, reply |-> NoReply]
NoCancel == [at |-> "none", pre |-> FALSE, msg |-> 0, fresh |-> FALSE,
             prev |-> "idle", reply |-> NoReply]
NoPoll   == [at |-> "none", tries |-> 0, pending |-> NoPending, reply |-> NoReply]

SendsIdle == send.at = "none"
Polling   == poll.at \in {"delay", "resubmit", "load"}

TypeOK ==
    /\ initialization \in {"loading", "session", "ready", "error", "unauthorized"}
    /\ generation \in {"idle", "sending", "streaming", "recovery",
                       "recovery-exhausted", "cancelling"}
    /\ resetting \in BOOLEAN
    /\ credential \in {0} \cup Sessions /\ view \in {0} \cup Sessions
    /\ pending \in Pending \cup {NoPending} /\ activeId \in {0} \cup Ids
    /\ send \in [at : {"none", "persisting", "response", "stream", "ending", "closing"},
                 msg : {0} \cup Messages, cred : {0} \cup Sessions,
                 fresh : BOOLEAN, stopped : BOOLEAN, reply : Reply]
    /\ cancel \in [at : {"none", "persisting", "response"}, pre : BOOLEAN,
                   msg : {0} \cup Messages, fresh : BOOLEAN, prev : {"idle", "sending", "streaming",
                       "recovery", "recovery-exhausted"}, reply : Reply]
    /\ poll \in [at : {"none", "delay", "resubmit", "load", "spent"}, tries : 0..MaxPolls,
                 pending : Pending \cup {NoPending}, reply : Reply]
    /\ storage \in [cred : {0} \cup Sessions, pending : Pending \cup {NoPending}]
    /\ turns \subseteq [cred : Sessions, id : Ids, msg : Messages]
    /\ active \in [Sessions -> {0} \cup Ids]
    /\ inflight \subseteq [by : {"send", "cancel", "poll", "init", "gone"},
                           op : {"send", "cancel", "load"}, cred : Sessions,
                           id : {0} \cup Ids, msg : {0} \cup Messages]
    /\ left \subseteq Sessions /\ dropped \subseteq Messages

Init ==
    /\ initialization = "loading" /\ generation = "idle" /\ resetting = FALSE
    /\ credential = 0 /\ pending = NoPending /\ activeId = 0 /\ view = 0
    /\ send = NoSend /\ cancel = NoCancel /\ poll = NoPoll
    /\ storage = NoRecord /\ inflight = {}
    /\ turns = {} /\ active = [c \in Sessions |-> 0]
    /\ sent = 0 /\ sessions = 0 /\ reloads = 0 /\ left = {} /\ dropped = {}

Sending(by, c, p) == [by |-> by, op |-> "send", cred |-> c, id |-> p.id, msg |-> p.msg]
Loading(by, c)    == [by |-> by, op |-> "load", cred |-> c, id |-> 0, msg |-> 0]
Cancelling(c, g)  == [by |-> "cancel", op |-> "cancel", cred |-> c, id |-> g, msg |-> 0]

BeginPolling == [NoPoll EXCEPT !.at = "delay", !.tries = MaxPolls]

\* Those who gave up their requests get no answer; a send may still arrive.
Abandon(who) ==
    {r \in inflight : r.by \notin who}
        \cup {[r EXCEPT !.by = "gone"] : r \in {q \in inflight : q.by \in who /\ q.op = "send"}}

-----------------------------------------------------------------------------
(* sendMessage.                                                            *)

CanSend ==
    /\ initialization = "ready" /\ ~resetting
    /\ generation = "idle" /\ SendsIdle /\ pending = NoPending

SendMessage ==
    LET fresh == credential = 0
        cred  == IF fresh THEN sessions + 1 ELSE credential
        mine  == [id |-> sent + 1, msg |-> sent + 1]
    IN  /\ CanSend /\ sent < MaxSends
        /\ sent' = sent + 1
        /\ sessions' = IF fresh THEN cred ELSE sessions
        /\ credential' = cred
        /\ pending' = mine
        /\ generation' = "sending"
        /\ storage' = [cred |-> cred, pending |-> mine]
        /\ send' = [NoSend EXCEPT !.at = "persisting", !.msg = mine.msg,
                                  !.cred = cred, !.fresh = fresh]
        /\ UNCHANGED <<initialization, resetting, activeId, cancel, poll, view,
                       inflight, server, reloads, left, dropped>>

Dispatch ==
    /\ send.at = "persisting" /\ ~send.stopped
    /\ send' = [send EXCEPT !.at = "response"]
    /\ inflight' = inflight \cup
         {Sending("send", send.cred, [id |-> send.msg, msg |-> send.msg])}
    /\ view' = send.cred
    /\ UNCHANGED <<initialization, generation, resetting, credential, pending,
                   activeId, cancel, poll, storage, server, counts>>

\* The response arrives, with the accepted event.
Accepted ==
    /\ send.at = "response" /\ send.reply.is = "ok"
    /\ send' = [send EXCEPT !.at = "stream", !.reply = NoReply]
    /\ activeId' = send.msg
    /\ generation' = "streaming"
    /\ pending' = NoPending
    /\ storage' = [cred |-> send.cred, pending |-> NoPending]
    /\ UNCHANGED <<initialization, resetting, credential, cancel, poll, view,
                   inflight, server, counts>>

\* A definite rejection before acceptance.
Rejected ==
    /\ send.at = "response" /\ send.reply.is = "rejected"
    /\ send' = NoSend
    /\ pending' = NoPending
    /\ credential' = IF send.fresh THEN 0 ELSE credential
    /\ storage' = IF send.fresh THEN NoRecord
                                ELSE [cred |-> send.cred, pending |-> NoPending]
    /\ generation' = "idle"
    /\ UNCHANGED <<initialization, resetting, activeId, cancel, poll, view,
                   inflight, server, counts>>

\* The terminal event, after which the stream is read on ("ending"), or the error
\* event, which closes it ("closing").
Terminal ==
    /\ send.at = "stream" /\ active[send.cred] # send.msg
    /\ \E at \in {"ending", "closing"} : send' = [send EXCEPT !.at = at]
    /\ generation' = "idle"
    /\ activeId' = 0
    /\ UNCHANGED <<initialization, resetting, credential, pending, cancel, poll,
                   view, storage, inflight, server, counts>>

StreamEnds ==
    /\ send.at \in {"ending", "closing"}
    /\ send' = NoSend
    /\ UNCHANGED <<initialization, generation, resetting, credential, pending, activeId,
                   cancel, poll, view, storage, inflight, server, counts>>

\* No usable response, or the stream breaks, be it after the terminal event: the
\* outcome is uncertain.  There is nothing to poll if the chat was left meanwhile.
SendFails ==
    /\ send.at \in {"response", "stream", "ending"}
    /\ send' = NoSend
    /\ generation' = "recovery"
    /\ poll' = IF credential = 0 THEN poll ELSE BeginPolling
    /\ inflight' = Abandon({"send", "poll"})
    /\ UNCHANGED <<initialization, resetting, credential, pending, activeId,
                   cancel, view, storage, server, counts>>

-----------------------------------------------------------------------------
(* cancelResponse and startNewChat.                                        *)

\* What abort does to the active send: it ends unless it still persists.
AbortedSend == IF send.at = "persisting" THEN [send EXCEPT !.stopped = TRUE]
                                         ELSE NoSend

\* Both functions from the first line to the first await.  Without a session there
\* is nothing to request, and cancelResponse goes on at once.
Cancel ==
    LET pre == ~SendsIdle /\ activeId = 0
        at  == IF send.at = "persisting" THEN "persisting" ELSE "response"
    IN  /\ cancel' = [NoCancel EXCEPT !.at = at, !.pre = pre, !.prev = generation,
                                      !.msg = send.msg, !.fresh = send.fresh,
                                      !.reply.is = IF credential = 0 THEN "ok" ELSE "none"]
        /\ send' = IF pre THEN AbortedSend ELSE send
        /\ generation' = "cancelling"
        /\ inflight' = IF at = "persisting" \/ credential = 0 THEN inflight
                       ELSE (IF pre THEN Abandon({"send"}) ELSE inflight)
                                \cup {Cancelling(credential, activeId)}

Stop ==
    /\ generation \notin {"idle", "cancelling"} /\ cancel.at = "none" /\ ~resetting
    /\ Cancel
    /\ UNCHANGED <<initialization, resetting, credential, pending, activeId, poll,
                   view, storage, server, counts>>

\* The rest of startNewChat, after the cancellation if one was needed.
Detach ==
    /\ storage' = NoRecord
    /\ left' = left \cup ({credential, storage.cred, view} \ {0})
    /\ credential' = 0 /\ pending' = NoPending /\ activeId' = 0 /\ view' = 0
    /\ poll' = NoPoll
    /\ generation' = "idle"
    /\ initialization' = "ready"
    /\ resetting' = FALSE

\* Mutation: the new chat does not end the response under way.
StartNewChat_NoCancel ==
    /\ initialization \in {"ready", "unauthorized"} /\ ~resetting
    /\ Detach
    /\ inflight' = Abandon({"poll"})
    /\ UNCHANGED <<send, cancel, server, sent, sessions, reloads, dropped>>

\* While the action is offered ("actions", chat-client.ts:150).
StartNewChat ==
    /\ initialization \in {"ready", "unauthorized"} /\ ~resetting
    /\ \/ /\ generation = "idle"
          /\ Detach
          /\ inflight' = Abandon({"poll"})
          /\ UNCHANGED <<send, cancel>>
       \/ /\ generation # "idle"
          /\ resetting' = TRUE
          /\ IF cancel.at = "none" THEN Cancel
                                   ELSE UNCHANGED <<cancel, send, generation, inflight>>
          /\ UNCHANGED <<initialization, credential, pending, activeId, poll, view,
                         storage, left>>
    /\ UNCHANGED <<server, sent, sessions, reloads, dropped>>

\* Mutation: the credential of a first send is dropped although it went out.
Forgets_Any(c, undispatched) == c.fresh

\* The credential of a first send goes only if nothing was ever sent with it.
Forgets(c, undispatched) == c.fresh /\ undispatched

\* The cancellation succeeds.
CancelDone(undispatched) ==
    LET drops == cancel.pre /\ pending # NoPending /\ credential # 0
    IN  /\ cancel' = NoCancel
        /\ send' = IF undispatched THEN NoSend ELSE AbortedSend
        /\ dropped' = IF drops THEN dropped \cup {pending.msg} ELSE dropped
        /\ IF resetting THEN Detach
           ELSE /\ pending' = IF drops THEN NoPending ELSE pending
                /\ credential' = IF drops /\ Forgets(cancel, undispatched)
                                 THEN 0 ELSE credential
                /\ storage' = IF ~drops THEN storage
                              ELSE IF Forgets(cancel, undispatched) THEN NoRecord
                              ELSE [cred |-> credential, pending |-> NoPending]
                /\ poll' = NoPoll
                /\ generation' = "idle"
                /\ activeId' = 0
                /\ UNCHANGED <<initialization, view, resetting, left>>
        /\ inflight' = Abandon({"send", "poll"})
        /\ UNCHANGED <<server, sent, sessions, reloads>>

\* The first write is done, and the send was cancelled meanwhile.
Undispatched ==
    /\ send.at = "persisting" /\ send.stopped
    /\ IF cancel.at = "persisting" THEN CancelDone(TRUE)
       ELSE /\ send' = NoSend
            /\ UNCHANGED <<initialization, generation, resetting, credential, pending,
                           activeId, cancel, poll, view, storage, inflight, server, counts>>

CancelConfirmed ==
    /\ cancel.at = "response" /\ cancel.reply.is = "ok"
    /\ CancelDone(FALSE)

\* Mutation: a cancelled message stays pending.
Kept_Pending == pending

\* A message cancelled before acceptance is not pending any more.
Kept == IF cancel.pre THEN NoPending ELSE pending

\* Mutation: the former state is restored whatever has happened meanwhile.
Restored_Always == cancel.prev

Restored == IF generation = "cancelling" THEN cancel.prev ELSE generation

\* It fails: before acceptance, recover by observation only; afterwards go
\* back to the former state, unless another step has left it.  Where the
\* session is not known yet cancelResponse returns, and a reset goes on.
CancelFails ==
    /\ cancel.at = "response" /\ cancel.reply.is # "ok"
    /\ cancel' = NoCancel
    /\ dropped' = IF cancel.pre /\ pending # NoPending
                  THEN dropped \cup {pending.msg} ELSE dropped
    /\ IF resetting /\ cancel.pre /\ cancel.reply.is = "rejected" THEN Detach
       ELSE /\ resetting' = FALSE
            /\ pending' = Kept
            /\ storage' = IF cancel.pre /\ pending # NoPending /\ credential # 0
                          THEN [cred |-> credential, pending |-> NoPending] ELSE storage
            /\ generation' = IF cancel.pre THEN "recovery" ELSE Restored
            /\ poll' = IF cancel.pre /\ credential # 0 THEN BeginPolling ELSE poll
            /\ UNCHANGED <<initialization, credential, activeId, view, left>>
    /\ inflight' = Abandon(IF cancel.pre THEN {"cancel", "poll"} ELSE {"cancel"})
    /\ UNCHANGED <<send, server, sent, sessions, reloads>>

-----------------------------------------------------------------------------
(* beginSessionRecoveryPolling: one iteration is a delay, the resubmission   *)
(* of a pending message, and a load of the session.                        *)

\* Mutation: a resubmission is a request of its own.
Resubmit_FreshId(p) ==
    inflight \cup {[Sending("poll", credential, p) EXCEPT !.id = p.id + MaxSends]}

Resubmit(p) == inflight \cup {Sending("poll", credential, p)}

PollWakes ==
    /\ poll.at = "delay"
    /\ IF pending # NoPending
       THEN /\ poll' = [poll EXCEPT !.at = "resubmit", !.pending = pending]
            /\ inflight' = Resubmit(pending)
       ELSE /\ poll' = [poll EXCEPT !.at = "load"]
            /\ inflight' = inflight \cup {Loading("poll", credential)}
    /\ UNCHANGED <<initialization, generation, resetting, credential, pending, activeId,
                   send, cancel, view, storage, server, counts>>

\* A response proves that the request was accepted, now or before.
PollConfirms ==
    LET mine == pending.id = poll.pending.id IN
    /\ poll.at = "resubmit" /\ poll.reply.is = "ok"
    /\ pending' = IF mine THEN NoPending ELSE pending
    /\ storage' = IF mine THEN [cred |-> credential, pending |-> NoPending] ELSE storage
    /\ poll' = [poll EXCEPT !.at = "load", !.pending = NoPending, !.reply = NoReply]
    /\ inflight' = inflight \cup {Loading("poll", credential)}
    /\ UNCHANGED <<initialization, generation, resetting, credential, activeId, send,
                   cancel, view, server, counts>>

\* acceptSession.
AcceptSession(id) ==
    /\ view' = credential
    /\ activeId' = id
    /\ pending' = NoPending
    /\ storage' = IF pending # NoPending THEN [cred |-> credential, pending |-> NoPending]
                                         ELSE storage

\* Mutation: the polls are not counted.
NextPoll_Forever(next) == poll' = BeginPolling /\ generation' = next

\* An iteration is over: the next one, or the last poll has been used up.
NextPoll(next) ==
    IF poll.tries > 1
    THEN /\ poll' = [BeginPolling EXCEPT !.tries = poll.tries - 1]
         /\ generation' = next
    ELSE /\ poll' = [NoPoll EXCEPT !.at = "spent"]
         /\ generation' = IF next = "recovery" THEN "recovery-exhausted" ELSE next

PollLoads ==
    /\ poll.at = "load" /\ poll.reply.is = "ok"
    /\ AcceptSession(poll.reply.id)
    /\ IF poll.reply.id = 0 THEN poll' = NoPoll /\ generation' = "idle"
                            ELSE NextPoll("recovery")
    /\ UNCHANGED <<initialization, resetting, credential, send, cancel, inflight,
                   server, counts>>

\* A definite rejection, of the resubmission or of the session, ends recovery.
PollRejected ==
    LET mine == poll.at = "resubmit" /\ pending.id = poll.pending.id IN
    /\ poll.reply.is = "rejected"
    /\ poll' = NoPoll
    /\ pending' = IF mine THEN NoPending ELSE pending
    /\ storage' = IF mine THEN [cred |-> credential, pending |-> NoPending] ELSE storage
    /\ generation' = "idle"
    /\ activeId' = 0
    /\ UNCHANGED <<initialization, resetting, credential, send, cancel, view, inflight,
                   server, counts>>

PollFails ==
    /\ poll.at \in {"resubmit", "load"}
    /\ NextPoll(generation)
    /\ inflight' = Abandon({"poll"})
    /\ UNCHANGED <<initialization, resetting, credential, pending, activeId, send,
                   cancel, view, storage, server, counts>>

-----------------------------------------------------------------------------
(* initialize, and a reload of the page, which forgets all but the storage. *)

Initialize ==
    /\ initialization = "loading"
    /\ credential' = storage.cred
    /\ pending' = storage.pending
    /\ IF storage.cred # 0 /\ storage.pending = NoPending
       THEN /\ initialization' = "session"
            /\ inflight' = inflight \cup {Loading("init", storage.cred)}
            /\ UNCHANGED <<generation, poll, view>>
       ELSE /\ initialization' = "ready"
            /\ IF storage.pending = NoPending THEN UNCHANGED <<generation, poll, view>>
               ELSE /\ generation' = "recovery"
                    /\ poll' = BeginPolling
                    /\ view' = storage.cred
            /\ UNCHANGED inflight
    /\ UNCHANGED <<resetting, activeId, send, cancel, storage, server, counts>>

\* The session is loaded (the reply is handled in the server's step).
SessionLoads(id) ==
    /\ initialization' = "ready"
    /\ AcceptSession(id)
    /\ generation' = IF id = 0 THEN "idle" ELSE "recovery"
    /\ poll' = IF id = 0 THEN poll ELSE BeginPolling

InitializeFails ==
    /\ initialization \in {"loading", "session"}
    /\ initialization' = "error"
    /\ inflight' = Abandon({"init"})
    /\ UNCHANGED <<generation, resetting, credential, pending, activeId, send, cancel,
                   poll, view, storage, server, counts>>

InitializeAgain ==
    /\ initialization \in {"error", "unauthorized"}
    /\ initialization' = "loading"
    /\ UNCHANGED <<generation, resetting, credential, pending, activeId, send, cancel,
                   poll, view, storage, inflight, server, counts>>

Reload ==
    /\ reloads < MaxReloads
    /\ reloads' = reloads + 1
    /\ initialization' = "loading" /\ generation' = "idle" /\ resetting' = FALSE
    /\ credential' = 0 /\ pending' = NoPending /\ activeId' = 0 /\ view' = 0
    /\ send' = NoSend /\ cancel' = NoCancel /\ poll' = NoPoll
    /\ inflight' = Abandon({"send", "cancel", "poll", "init"})
    /\ UNCHANGED <<storage, server, sent, sessions, left, dropped>>

-----------------------------------------------------------------------------
(* The server handles a request; its answer is on the way back.             *)

Known(c)      == \E t \in turns : t.cred = c
IsRepeated(r) == \E t \in turns : t.cred = r.cred /\ t.id = r.id

Answer(r, is, id) ==
    LET reply == [is |-> is, id |-> id] IN
    /\ inflight' = inflight \ {r}
    /\ send'   = IF r.by = "send"   THEN [send EXCEPT !.reply = reply] ELSE send
    /\ cancel' = IF r.by = "cancel" THEN [cancel EXCEPT !.reply = reply] ELSE cancel
    /\ poll'   = IF r.by = "poll"   THEN [poll EXCEPT !.reply = reply] ELSE poll

\* service.send accepts a message once per request id, one turn at a time;
\* it may also be rejected for a limit.
HandleSend(r) ==
    /\ r.op = "send"
    /\ \/ /\ IsRepeated(r)
          /\ Answer(r, "ok", r.id)
          /\ UNCHANGED server
       \/ /\ ~IsRepeated(r) /\ active[r.cred] = 0
          /\ turns' = turns \cup {[cred |-> r.cred, id |-> r.id, msg |-> r.msg]}
          /\ active' = [active EXCEPT ![r.cred] = r.id]
          /\ Answer(r, "ok", r.id)
       \/ /\ ~IsRepeated(r)
          /\ Answer(r, "rejected", 0)
          /\ UNCHANGED server
    /\ UNCHANGED <<initialization, generation, resetting, credential, pending, activeId,
                   view, storage, counts>>

\* service.cancel only asks: the generation ends later, as Ends.
HandleCancel(r) ==
    /\ r.op = "cancel"
    /\ Answer(r, IF Known(r.cred) THEN "ok" ELSE "rejected", 0)
    /\ UNCHANGED <<initialization, generation, resetting, credential, pending, activeId,
                   view, storage, server, counts>>

HandleLoad(r) ==
    /\ r.op = "load" /\ r.by = "poll"
    /\ Answer(r, IF Known(r.cred) THEN "ok" ELSE "rejected", active[r.cred])
    /\ UNCHANGED <<initialization, generation, resetting, credential, pending, activeId,
                   view, storage, server, counts>>

\* Nothing but a reset or a reload interferes with an initialization, so its
\* answer is applied at once.
HandleInit(r) ==
    /\ r.op = "load" /\ r.by = "init"
    /\ inflight' = inflight \ {r}
    /\ IF Known(r.cred) THEN SessionLoads(active[r.cred])
       ELSE /\ initialization' = "unauthorized"
            /\ UNCHANGED <<view, activeId, pending, storage, generation, poll>>
    /\ UNCHANGED <<resetting, credential, send, cancel, server, counts>>

Ends(c) ==
    /\ active[c] # 0
    /\ active' = [active EXCEPT ![c] = 0]
    /\ UNCHANGED <<client, storage, inflight, turns, counts>>

Next ==
    \/ SendMessage \/ Dispatch \/ Accepted \/ Rejected \/ Terminal \/ StreamEnds \/ SendFails
    \/ Stop \/ StartNewChat \/ Undispatched \/ CancelConfirmed \/ CancelFails
    \/ PollWakes \/ PollConfirms \/ PollLoads \/ PollRejected \/ PollFails
    \/ Initialize \/ InitializeFails \/ InitializeAgain \/ Reload
    \/ \E r \in inflight : HandleSend(r) \/ HandleCancel(r) \/ HandleLoad(r) \/ HandleInit(r)
    \/ \E c \in Sessions : Ends(c)

\* Timers fire, requests are answered or fail, and a generation ends (its time
\* limit, Conversation).  Nothing makes the user act.
Fairness ==
    /\ WF_vars(Dispatch \/ Undispatched)
    /\ WF_vars(Accepted \/ Rejected \/ Terminal \/ StreamEnds \/ SendFails)
    /\ WF_vars(CancelConfirmed \/ CancelFails)
    /\ WF_vars(PollWakes \/ PollConfirms \/ PollLoads \/ PollRejected \/ PollFails)
    /\ WF_vars(Initialize \/ InitializeFails)
    /\ \A c \in Sessions : WF_vars(Ends(c))

Spec == Init /\ [][Next]_vars
FairSpec == Spec /\ Fairness

-----------------------------------------------------------------------------
(* Properties.                                                             *)

\* A text the user sent is accepted at most once, in one session and under one
\* request id, whatever is resubmitted, reloaded or answered late.
SentOnce == \A t, u \in turns : t.msg = u.msg => t = u

\* A turn the server accepted is never out of the client's reach: the stored
\* record leads back to it, unless the user has started a new chat.
AcceptedIsRecoverable == \A t \in turns : t.cred = storage.cred \/ t.cred \in left

\* After a new chat nothing of a former session comes back, neither the
\* credential, in memory or stored, nor its transcript.
NewChatIsClean == {credential, storage.cred, view} \cap left = {}

\* Whatever the client says it is doing, something is under way that will end
\* it -- but for a recovery whose last poll was spent during a cancellation that
\* then failed, and one that a stream calls for which breaks after its terminal
\* event, when the user has started a new chat in between.
BusyHasOwner ==
    /\ generation = "sending" => send.at \in {"persisting", "response"}
    /\ generation = "streaming" => send.at = "stream"
    /\ generation = "cancelling" => cancel.at # "none"
    /\ generation = "recovery" => Polling \/ poll.at = "spent" \/ credential = 0

\* A message cancelled before its acceptance is never sent again
\* (chat-client.ts:526).
CancelledNotResent ==
    [][\A r \in inflight' \ inflight : r.op = "send" /\ r.by # "gone" => r.msg \notin dropped]_vars

\* A chat the client says it is recovering ("recovering", chat-client.ts:172) is one
\* it has.
RecoversSomething == generation = "recovery" => credential # 0

\* Recovery is bounded, and so are a send and a cancellation.
EverythingSettles ==
    /\ Polling ~> ~Polling
    /\ ~SendsIdle ~> SendsIdle
    /\ cancel.at # "none" ~> cancel.at = "none"

\* "The pending message must be recovered before sending another message"
\* (chat-client.ts:344): one that keeps the user from sending is in the hands
\* of a send, a cancellation or a poll, or its recovery is exhausted.
PendingIsRecovered ==
    pending # NoPending => ~SendsIdle \/ cancel.at # "none" \/ Polling
                             \/ generation = "recovery-exhausted"

\* A cancellation that settles leaves a message sent after it alone: "a
\* concurrent transition keeps its own state" (chat-client.ts:544).
CancelSparesLaterSend ==
    [][cancel.at # "none" /\ cancel'.at = "none" /\ ~SendsIdle /\ send.msg # cancel.msg
         => send' = send \/ credential' = 0]_vars
=============================================================================
