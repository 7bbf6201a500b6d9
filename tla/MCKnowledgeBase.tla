------------------------- MODULE MCKnowledgeBase -------------------------
(* Instances of KnowledgeBase for TLC. *)
EXTENDS KnowledgeBase, TLC

Symmetry == Permutations(Names) \cup Permutations(Contents) \cup Permutations(Models)
            \cup Permutations(Instances) \cup Permutations(Requests)
=============================================================================
