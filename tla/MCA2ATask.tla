----------------------------- MODULE MCA2ATask -----------------------------
(* A small instance of A2ATask; liveness excludes symmetry.                *)
EXTENDS A2ATask
=============================================================================
