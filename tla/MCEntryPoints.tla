---------------------------- MODULE MCEntryPoints ----------------------------
(* An instance of EntryPoints for TLC. *)
EXTENDS EntryPoints, TLC

CONSTANTS c1, c2, r1, d1, d2, d3

Sets        == {c1, c2}
Routines    == {r1}
Descriptors == {d1, d2, d3}
Interchangeable == Permutations(Sets) \cup Permutations(Descriptors)
=============================================================================
