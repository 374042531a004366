------------------------------ MODULE Services ------------------------------
(***************************************************************************)
(* The decision tables of the DOS translator (msdos/msdos.c): what        *)
(* msdos_pre_extender and msdos_post_extender decide from the interrupt   *)
(* number and the registers alone.  The tables are five large switch      *)
(* statements that have to agree with one another; the modules that       *)
(* EXTEND this one drive the translator's state with them.                *)
(*                                                                         *)
(* A request is an interrupt issued by a protected mode program: its      *)
(* number, the two halves of AX and, for the one service that looks at it, *)
(* DX.                                                                     *)
(***************************************************************************)
EXTENDS Integers

Byte == 0 .. 255
Word == 0 .. 65535

Request == [intr : Byte, ah : Byte, al : Byte, dx : Word]

\* The registers through which a real mode address may travel to DOS.
Regs == {"eax", "ebx", "edx", "esi", "edi", "ebp"}

Dos(r, codes) == r.intr = \h21 /\ r.ah \in codes
DosSub(r, code, subs) == r.intr = \h21 /\ r.ah = code /\ r.al \in subs

IsExec(r)   == Dos(r, {\h4b})
IsLongIo(r) == Dos(r, {\h3f, \h40})
IsExit(r)   == Dos(r, {\h4c})

-----------------------------------------------------------------------------
(* Which services go through the transfer buffer.                          *)

\* The whole data segment is copied down and back.
NeedCopyDseg(r) ==
  \/ Dos(r, {\h0a, \h5a, \h69})
  \/ DosSub(r, \h44, (2 .. 5) \cup {\h0c, \h0d})
  \/ DosSub(r, \h5d, Byte \ {\h06, \h0b})
  \/ DosSub(r, \h5e, Byte \ {\h03})
  \/ r.intr \in {\h25, \h26}

VideoCopiesEseg(r) ==
  \/ r.ah = \h10 /\ r.al \in {\h02, \h09, \h12, \h17}
  \/ r.ah = \h11 /\ r.al \in {\h00, \h10, \h20, \h21}
  \/ r.ah \in {\h13, \h15, \h1b}
  \/ r.ah = \h1c /\ r.al \in {1, 2}

\* The whole extra segment is copied down and back.
NeedCopyEseg(r) ==
  \/ r.intr = \h10 /\ VideoCopiesEseg(r)
  \/ DosSub(r, \h57, Byte \ {0, 1})
  \/ DosSub(r, \h5e, {\h03})
  \/ r.intr = \h33 /\ r.ah \in {\h16, \h17}

\* Faulty variants of the two tables below, for the mutants: EXEC counted among
\* the services that take a path, FCB open among the supported FCB services.
PathCodesWithExec == {\h39, \h3a, \h3b, \h3c, \h3d, \h41, \h43, \h4b, \h4e, \h5b}
FcbCodesWithOpen  == {\h0f, \h11, \h12, \h13, \h16, \h17}

PathCodes == {\h39, \h3a, \h3b, \h3c, \h3d, \h41, \h43, \h4e, \h5b}
FcbCodes  == {\h11, \h12, \h13, \h16, \h17}
NlsBlock  == {\h21, \ha1}
NlsString == {\h22, \ha2}
LfnCodes  == {\h3b, \h41, \h43, \h4e, \h4f, \h47, \h60, \h6c, \ha0, \ha6}

\* The EMS frame is mapped before the call and restored after it.
NeedXbuf(r) ==
  \/ NeedCopyDseg(r)
  \/ NeedCopyEseg(r)
  \/ Dos(r, PathCodes \cup FcbCodes)
  \/ Dos(r, {\h09, \h29, \h47, \h26, \h38, \h3f, \h40, \h53, \h56, \h60, \h6c})
  \/ DosSub(r, \h5f, 2 .. 6)
  \/ DosSub(r, \h65, (0 .. 7) \cup NlsBlock \cup NlsString)
  \/ DosSub(r, \h71, LfnCodes)
  \/ r.intr = \h33 /\ r.ah = 0 /\ r.al = \h09

-----------------------------------------------------------------------------
(* What msdos_pre_extender returns.                                        *)

LocalDosCodes == {\h25, \h35, \h48, \h49, \h4a}
UnsupportedFcb == {\h0f, \h10, \h14, \h15, \h27, \h28} \cup (\h21 .. \h24)

\* MSDOS_DONE: answered without leaving protected mode.
IsDone(r) ==
  \/ r.intr = \h41
  \/ Dos(r, LocalDosCodes \cup UnsupportedFcb)
  \/ DosSub(r, \h71, Byte \ (LfnCodes \cup {\ha1}))
  \/ r.intr = \h2f /\ r.ah = \h16 /\ r.al \in {\h88, \h8a}

\* MSDOS_NONE: not the translator's business, the host reflects it as it is.
IsNone(r) ==
  /\ ~NeedXbuf(r)
  /\ ~IsDone(r)
  /\ \/ r.intr = \h2f /\ ~(r.ah = \h43 /\ r.al = \h10)
     \/ r.intr \notin {\h15, \h20, \h21, \h2f, \h33, \h41}

\* MSDOS_RM: the interrupt is simulated in real mode, msdos_post_extender follows.
IsRm(r) == ~IsDone(r) /\ ~IsNone(r)

-----------------------------------------------------------------------------
(* What the switch of msdos_pre_extender does with the buffer and with the *)
(* registers, service by service.                                          *)

LfnInDx == {\h3b, \h41, \h43, \h4e, \ha0, \ha6}
LfnInSi == {\h47, \h60, \h6c}
LfnInDi == {\h4e, \h4f, \h60, \ha0}

\* Pre points the real mode copy of register g into the transfer buffer.
LoadsBuffer(r, g) ==
  \/ /\ g = "edx"
     /\ \/ Dos(r, PathCodes \cup FcbCodes)
        \/ Dos(r, {\h09, \h26, \h38, \h3f, \h40, \h56})
        \/ DosSub(r, \h65, NlsBlock \cup NlsString)
        \/ DosSub(r, \h71, LfnInDx)
        \/ r.intr = \h33 /\ r.ah = 0 /\ r.al = \h09
  \/ /\ g = "esi"
     /\ \/ Dos(r, {\h29, \h47, \h53, \h60, \h6c})
        \/ DosSub(r, \h5f, 2 .. 6)
        \/ DosSub(r, \h71, LfnInSi)
  \/ /\ g = "edi"
     /\ \/ Dos(r, {\h29, \h56, \h60})
        \/ DosSub(r, \h5f, 2 .. 6)
        \/ DosSub(r, \h65, 0 .. 7)
        \/ DosSub(r, \h71, LfnInDi)
  \/ g = "ebp" /\ Dos(r, {\h53})

\* Pre gives the real mode copy of register g another value of its own: the DTA or
\* the EXEC block below 1MB, a PSP segment, the entry of a callback, an exit code.
LoadsLow(r, g) ==
  \/ g = "ebx" /\ Dos(r, {\h4b})
  \/ g = "edx" /\ Dos(r, {\h1a, \h4b})
LoadsPsp(r, g) ==
  \/ g = "ebx" /\ Dos(r, {\h50})
  \/ g = "edx" /\ Dos(r, {\h55})
LoadsCallback(r, g) ==
  \/ g = "ebx" /\ r.intr = \h15 /\ r.ah = \hc2 /\ r.al = \h07
  \/ g = "edx" /\ r.intr = \h33 /\ r.ah = 0 /\ r.al \in {\h0c, \h14}
LoadsExit(r, g) == g = "eax" /\ Dos(r, {\h00})

LoadsOther(r, g) ==
  LoadsLow(r, g) \/ LoadsPsp(r, g) \/ LoadsCallback(r, g) \/ LoadsExit(r, g)

Loads(r, g) == LoadsBuffer(r, g) \/ LoadsOther(r, g)

\* Pre asks for the segment of the buffer (trans_buffer_seg).
PreUsesBuffer(r) ==
  NeedCopyDseg(r) \/ NeedCopyEseg(r) \/ \E g \in Regs : LoadsBuffer(r, g)

-----------------------------------------------------------------------------
(* What msdos_post_extender does on the way back.                          *)

\* The copy-back asks for the segment of the buffer (trans_buffer_seg).
PostUsesBuffer(r) == NeedCopyDseg(r) \/ NeedCopyEseg(r)

\* The services that keep EDI, and a faulty variant that forgets the long file
\* name ones.
KeepsEdiButLfn(r) ==
  Dos(r, {\h29, \h56, \h60, \h65}) \/ DosSub(r, \h5f, 2 .. 6)

KeepsEdi(r) ==
  \/ Dos(r, {\h29, \h56, \h60, \h65})
  \/ DosSub(r, \h5f, 2 .. 6)
  \/ DosSub(r, \h71, LfnInDi)

\* PRESERVE or SET_REG takes register g out of the update mask of rm_to_pm_regs.
Keeps(r, g) ==
  \/ g = "eax" /\ Dos(r, {\h00})
  \/ /\ g = "ebx"
     /\ \/ Dos(r, {\h2f, \h50, \h51, \h62})
        \/ r.intr = \h2f /\ r.ah = \h43 /\ r.al = \h10
        \/ r.intr = \h33 /\ r.ah = 0 /\ r.al = \h19
  \/ /\ g = "edx"
     /\ \/ Dos(r, PathCodes \cup FcbCodes)
        \/ Dos(r, {\h09, \h1a, \h26, \h3f, \h40, \h55, \h56, \h65})
        \/ Dos(r, {\h38}) /\ r.dx # \hffff
        \/ DosSub(r, \h71, LfnInDx)
        \/ r.intr = \h33 /\ r.ah = 0 /\ r.al \in {\h09, \h14}
  \/ /\ g = "esi"
     /\ \/ Dos(r, {\h29, \h47, \h53, \h60, \h6c})
        \/ DosSub(r, \h5f, 2 .. 6)
        \/ DosSub(r, \h71, LfnInSi)
  \/ g = "edi" /\ KeepsEdi(r)
  \/ g = "ebp" /\ Dos(r, {\h53})
=============================================================================
