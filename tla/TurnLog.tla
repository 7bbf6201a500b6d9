------------------------------ MODULE TurnLog ------------------------------
(***************************************************************************)
(* What the conversation component promises of one conversation: it is a   *)
(* serial log.  A turn is opened on everything answered before it; while it *)
(* is open it is the only one; it either extends the log or leaves no      *)
(* trace in it.  How requests, instances, leases and retries achieve this  *)
(* is the business of Conversation, which implements this specification.   *)
(***************************************************************************)
CONSTANTS Conversations, Turns, None

VARIABLES
    log,    \* the answered turns of each conversation
    open,   \* the turn being answered, or None
    basis,  \* the turns each turn's answer is based on
    used    \* turns that were ever opened

logVars == <<log, open, basis, used>>

LogInit ==
    /\ log = [c \in Conversations |-> {}]
    /\ open = [c \in Conversations |-> None]
    /\ basis = [t \in Turns |-> {}]
    /\ used = {}

\* Open turn t in conversation c.  Turns whose owner was lost, in C, are given
\* up on the way; c itself is free or among them.
Begin(c, t, C) ==
    /\ t \notin used
    /\ open[c] = None \/ c \in C
    /\ open' = [d \in Conversations |-> IF d = c THEN t
                                        ELSE IF d \in C THEN None ELSE open[d]]
    /\ basis' = [basis EXCEPT ![t] = log[c]]
    /\ used' = used \cup {t}
    /\ UNCHANGED log

Complete(c) ==
    /\ open[c] # None
    /\ log' = [log EXCEPT ![c] = @ \cup {open[c]}]
    /\ open' = [open EXCEPT ![c] = None]
    /\ UNCHANGED <<basis, used>>

GiveUp(C) ==
    /\ open' = [c \in Conversations |-> IF c \in C THEN None ELSE open[c]]
    /\ UNCHANGED <<log, basis, used>>

LogNext ==
    \/ \E c \in Conversations, t \in Turns, C \in SUBSET Conversations : Begin(c, t, C)
    \/ \E c \in Conversations : Complete(c)
    \/ \E C \in SUBSET Conversations : GiveUp(C)

LogSpec == LogInit /\ [][LogNext]_logVars
=============================================================================
