----------------------------- MODULE MCResident -----------------------------
(* An instance of Resident for TLC. *)
EXTENDS Resident, TLC

CONSTANTS d1, d2, d3

Descriptors == {d1, d2, d3}
Interchangeable == Permutations(Descriptors)

\* Once a client could not be set up, no client makes a call within a call.
FewCalls == refused => \A h \in Live : Len(calls[h]) < 2
=============================================================================
