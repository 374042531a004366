----------------------------- MODULE MCPmMemory -----------------------------
(* Instances of PmMemory for TLC. *)
EXTENDS PmMemory

CONSTANTS s1, s2

Two == {s1, s2}
=============================================================================
