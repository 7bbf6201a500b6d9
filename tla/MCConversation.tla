-------------------------- MODULE MCConversation --------------------------
(* Instances of Conversation for TLC. *)
EXTENDS Conversation, TLC

Symmetry == Permutations(Conversations) \cup Permutations(Requests)
            \cup Permutations(Texts) \cup Permutations(Networks)
            \cup Permutations(Attempts) \cup Permutations(Senders)
            \cup Permutations(Recoverers)

\* What the tables and the processes hold, without the record of what clients
\* were told: no action and no property of the runs that use it reads that.
WithoutEvents == <<storeVars, phase, request, runner, prompt, job>>
=============================================================================
