--------------------------- MODULE MCAcceptanceTx ---------------------------
(* Instances of AcceptanceTx for TLC. *)
EXTENDS AcceptanceTx, TLC

Symmetry == Permutations(Conversations) \cup Permutations(Requests)
            \cup Permutations(Networks) \cup Permutations(Embeds)
            \cup Permutations(Attempts) \cup Permutations(Transactions)

\* Of an attempt that has ended, only its conversation, request and outcome are
\* read by any action or property: its lease, its network and the history it was
\* prompted with are left out.
Lasting(a) == IF status[a] \in Active THEN <<row[a], lease[a]>>
              ELSE IF status[a] = "free" THEN <<>>
              ELSE <<row[a].conv, row[a].req>>
WithoutPast == <<embed, issued, revision, tail, status, [a \in Attempts |-> Lasting(a)],
                 counter, clock, transactions>>
=============================================================================
