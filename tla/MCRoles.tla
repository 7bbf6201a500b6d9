------------------------------ MODULE MCRoles ------------------------------
(* Instances of Roles for TLC. *)
EXTENDS Roles, TLC

MCGlobalSets == {{}, {"roles:manage"}}
MCAgentSets  == {{"agents:manage"}}
Symmetry == Permutations(Requests) \cup Permutations(Instances)
=============================================================================
