----------------------------- MODULE MCGateway -----------------------------
(* A small instance of Gateway.                                            *)
EXTENDS Gateway, TLC

\* Threads, and webhooks, are interchangeable.
Symmetry == Permutations(Requests) \cup Permutations(Nonces)
=============================================================================
