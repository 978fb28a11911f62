-------------------------- MODULE MCOrganisations --------------------------
(* Organisations for TLC: ids, users and requests are interchangeable. *)
EXTENDS Organisations, TLC

Symmetry == Permutations(Orgs) \cup Permutations(Users) \cup Permutations(Tasks)
=============================================================================
