---------------------------- MODULE MCTranslator ----------------------------
(* Instances of Translator for TLC. *)
EXTENDS Translator, FiniteSets

Req(i, h, l) == [intr |-> i, ah |-> h, al |-> l, dx |-> 0]

\* One request of each kind the translator's control tells apart.
Exec        == Req(\h21, \h4b, 0)
Exit        == Req(\h21, \h4c, 0)
ReadKeys    == Req(\h21, \h0a, 0)     \* whole data segment, waits for the user
ReadFile    == Req(\h21, \h3f, 0)     \* long read through the callback
GetTime     == Req(\h21, \h2c, 0)     \* real mode, no buffer
AllocMem    == Req(\h21, \h48, 0)     \* answered in protected mode
Multiplex   == Req(\h2f, \h16, \h80)  \* not handled
MousePos    == Req(\h33, 0, \h03)     \* real mode, no buffer
MouseCursor == Req(\h33, 0, \h09)     \* needs the buffer

NestingRequests == {Exec, Exit, ReadKeys, ReadFile, GetTime, AllocMem, Multiplex}
QuietCallbacks  == {MousePos}
QuietAborts     == {GetTime}

\* Every interrupt the translator knows with every AH, and the ALs it looks at.
SweepIntr == {\h10, \h15, \h16, \h20, \h21, \h25, \h26, \h2f, \h33, \h41}
SweepAl   == (0 .. \h0d) \cup {\h10, \h12, \h14, \h17, \h19} \cup (\h20 .. \h22) \cup
             {\h3b, \h41, \h43, \h47, \h4e, \h4f, \h60, \h6c, \h88, \h8a} \cup
             {\ha0, \ha1, \ha2, \ha6, \hff}
SweepRequests ==
  [intr : SweepIntr, ah : Byte, al : SweepAl, dx : {0}] \cup
  [intr : {\h21}, ah : {\h38}, al : {0}, dx : {\hffff}]

NoisyCallbacks == {MousePos, MouseCursor}
NoRequests     == {}
AbortReadKeys  == {ReadKeys}
=============================================================================
