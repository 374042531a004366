------------------------------ MODULE MCLongIo ------------------------------
(* Instances of LongIo for TLC. *)
EXTENDS LongIo

\* Chunks of at most 3: nothing, one chunk short and full, several with and
\* without a remainder.
SomeCounts == {0, 1, 3, 4, 6, 8}
=============================================================================
