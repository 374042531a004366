---------------------------- MODULE MCClientData ----------------------------
(* Instances of ClientData for TLC. *)
EXTENDS ClientData, FiniteSets, TLC

CONSTANTS p1, p2, p4, h1, l1, u1, e1, s1, s2

Made      == {p2}
Others    == {p4}
High      == {h1}
Low       == {l1}
Users     == {u1}
Selectors == {s1, s2}
Alike     == Permutations(Selectors)

\* What is answered has no effect on what comes after.
NoAnswer == <<active, dosVars, userVars, ldtVars, setVars, own>>

\* Besides the other program's PSP, one more has a word that is not the client's.
FewStrange == Cardinality({p \in DOMAIN env : env[p] # Absent /\ p \notin own}) <= 2
=============================================================================
