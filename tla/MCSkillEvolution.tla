-------------------------- MODULE MCSkillEvolution --------------------------
(* SkillEvolution with interchangeable proposals and requests. *)
EXTENDS SkillEvolution, TLC

Symmetry == Permutations(Proposals) \cup Permutations(Requests)
=============================================================================
