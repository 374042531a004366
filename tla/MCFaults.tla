------------------------------ MODULE MCFaults ------------------------------
(* Instances of Faults for TLC. *)
EXTENDS Faults

CONSTANTS e1, e2, zeros, ones

OneEntry == {e1}
Values   == {zeros, ones}
Regs     == {"ds", "es"}
Starts   == {0, 5}

\* [is_32, prefixes, op, modrm, sib] for all combinations.
All(widths, prefixes, ops, modrms, sibs) ==
  [is_32 : widths, prefixes : prefixes, op : ops, modrm : modrms, sib : sibs]

Sizes    == {<<>>, <<\h66>>, <<\h67>>}
Prefixes == Sizes \cup {<<\h2e, \h66, \h67>>, <<\h66, \h66>>, <<\h66, \h66, \h66>>, <<\hf3>>, <<\hf0>>}

Stores == {\h00, \h01, \h08, \h88, \h89, \h8f, \ha2, \ha3, \ha4, \ha5, \haa, \hab,
           \h80, \h81, \h83, \hc6, \hc7, \hfe, \h90}
\* With a displacement of 8 bits, of 16, and some that are 32 bits with prefix 67.
ModRms == {\h04, \h86, \h05, \h06}

Program ==
  All({FALSE}, Prefixes, Stores, {\h44}, {\h24})
  \cup All({FALSE}, {<<>>, <<\h67>>}, {\h80, \h89, \hc6, \hc7}, ModRms, {\h24})
  \cup All({FALSE}, Sizes, {\h8e, \hc4, \hc5}, {\h1e, \h44}, {\h24})
  \cup All({FALSE}, Sizes, {\h07, \h1f, \hca, \hcb, \hcf, \hea}, {\h06}, {\h00})
  \cup All({FALSE}, {<<>>, <<\h66>>}, {\h0f}, {\ha1, \ha9, \hb4}, {\h24})
  \cup All({FALSE}, {<<\h67>>}, {\h89}, {\h04}, {\h25})
  \cup All({TRUE}, Sizes, {\h88, \h89, \hc6, \hc7, \ha2, \haa, \hfe}, {\h04}, {\h24})
  \cup All({TRUE}, Sizes, {\h8e, \hc5, \h1f}, {\h1e}, {\h24})
=============================================================================
