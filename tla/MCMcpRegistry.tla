--------------------------- MODULE MCMcpRegistry ---------------------------
(* An instance of McpRegistry in which one configuration marks the tool as *)
(* a read and the other does not.                                          *)
EXTENDS McpRegistry, TLC

CONSTANTS lenient, strict, look

MCConfigs == {lenient, strict}
MCReads == {<<lenient, look>>}
\* The refreshes are interchangeable.
Symmetry == Permutations(Refreshers)
=============================================================================
