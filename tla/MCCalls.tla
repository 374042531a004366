------------------------------- MODULE MCCalls -------------------------------
(* Calls for TLC: programs of both widths.                                 *)
EXTENDS Calls

CONSTANTS p1, p2, p3

MCProgram == {p1, p2, p3}
MCIs32    == [p \in MCProgram |-> p # p2]
=============================================================================
