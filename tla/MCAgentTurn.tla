----------------------------- MODULE MCAgentTurn -----------------------------
(* AgentTurn with interchangeable approvals and requests.                  *)
EXTENDS AgentTurn, TLC

Symmetry == Permutations(Approvals) \cup Permutations(Requests)
=============================================================================
