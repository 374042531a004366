-------------------------------- MODULE Faults --------------------------------
(***************************************************************************)
(* The two faults that the host hands to the translator: a write to the     *)
(* read only LDT alias (msdos_ldt_pagefault), which is decoded and made in  *)
(* the program's place, and the load of a selector that real mode programs  *)
(* use as a segment (msdos_fault in segreg.c), which gets a descriptor.     *)
(* After either the program goes on at the EIP it was given.                *)
(*                                                                         *)
(* The program is external: any instruction of Insns may fault.             *)
(***************************************************************************)
EXTENDS LdtWrites, InstrDec

CONSTANTS
  Insns,     \* the instructions of the program
  Offsets    \* where in an entry it writes

ASSUME InsnsAssumption ==
  Insns \subseteq Instruction /\ \A i \in Insns : Len(i.prefixes) < MaxLen
ASSUME OffsetsAssumption == Offsets \subseteq 0 .. 7

VARIABLES
  fault,     \* the last fault and what was done about it
  aborted    \* assert() failed

vars == <<ldtVars, fault, aborted>>

NoFault == [kind |-> "none"]
PageFaulted(i, handled, change, o) ==
  [kind |-> "page", insn |-> i, handled |-> handled, change |-> change, offset |-> o]
SelFaulted(i, handled, change, reg) ==
  [kind |-> "selector", insn |-> i, handled |-> handled, change |-> change, reg |-> reg]

Init == LdtInit /\ fault = NoFault /\ aborted = FALSE

-----------------------------------------------------------------------------
\* The host, and the program between two faults.
Between ==
  /\ ~aborted
  /\ fault = NoFault /\ HostNext
  /\ UNCHANGED <<fault, aborted>>

Resume ==
  /\ fault # NoFault
  /\ fault' = NoFault
  /\ UNCHANGED <<ldtVars, aborted>>

Undecoded(i) == Unchanged

\* msdos_ldt_pagefault: instruction i wrote new at offset o of entry e.
msdos_ldt_pagefault(i, e, o, new) ==
  /\ ~aborted /\ fault = NoFault
  /\ \/ /\ ~Decodes(i)
        /\ fault' = PageFaulted(i, FALSE, Undecoded(i), o)
        /\ UNCHANGED <<ldtVars, aborted>>
     \/ /\ ~Asserts(i)
        /\ aborted' = TRUE
        /\ UNCHANGED <<ldtVars, fault>>
     \/ /\ Decodes(i) /\ Asserts(i)
        /\ InEntry(o, StoreLen(i))
        /\ direct_ldt_write(e, o, StoreLen(i), new)
        /\ fault' = PageFaulted(i, TRUE, decode_memop(i), o)
        /\ UNCHANGED aborted

\* Real mode segments, and the flat selector 38h of dos4gw, that are let through.
Special == BOOLEAN

\* The register gets a descriptor outside of Entry, which is never freed.
Loaded(reg) == [segregs EXCEPT ![reg] = None]

\* msdos_fault: instruction i loaded a selector that has no descriptor.  The context
\* is changed as a whole, when a descriptor was found.
msdos_fault(i, special, found) ==
  /\ ~aborted /\ fault = NoFault
  /\ \/ /\ special /\ found /\ SegLoaded(i) # "none"
        /\ segregs' = Loaded(SegLoaded(i))
        /\ fault' = SelFaulted(i, TRUE, decode_segreg(i), SegLoaded(i))
     \/ /\ ~special \/ ~found \/ SegLoaded(i) = "none"
        /\ fault' = SelFaulted(i, FALSE, Unchanged, "none")
        /\ UNCHANGED segregs
  /\ UNCHANGED <<allocated, ldt, backbuf, refused, entry_upd, aborted>>

Next ==
  \/ Between
  \/ Resume
  \/ \E i \in Insns :
       \/ \E e \in Entry, o \in Offsets, new \in Descriptor : msdos_ldt_pagefault(i, e, o, new)
       \/ \E special \in Special, found \in BOOLEAN : msdos_fault(i, special, found)

Spec == Init /\ [][Next]_vars

-----------------------------------------------------------------------------
(* Properties.                                                             *)

Changes == [len : 0 .. 6, eip : 0 .. 32, esp : Nat, esi : 0 .. 6, edi : 0 .. 6,
            flags : SUBSET Flags]

TypeOK ==
  /\ LdtTypeOK
  /\ fault = NoFault \/ (fault.insn \in Insns /\ fault.handled \in BOOLEAN /\ fault.change \in Changes)
  /\ aborted \in BOOLEAN

\* What the decoder follows in 32 bit code, where it has no size of operands and of string
\* addresses (_32bit), and does not see that a prefix 67h makes addresses shorter.
WideStore(i) == i.op \in ByteStores \ Strings /\ Count(i, \h67) = 0
WideLoad(i)  == i.op \in {\h8e, \hc4, \hc5} /\ Count(i, \h67) = 0

Follows(i, wide) == ~Doubled(i) /\ HasBase(i) /\ (i.is_32 => wide)

\* A write to the alias that was made did to the context what the processor would have
\* done: the bytes written, where the next instruction starts, the stack, the string
\* registers and the flags, except that INC and DEC change no flags.  This is so in 16
\* bit code, and for stores of a byte in 32 bit code, unless a size prefix is there
\* twice or arg_len misses a displacement.  A write that was not made did nothing.
AsExecuted ==
  fault.kind = "page" =>
    LET i == fault.insn
    IN IF ~fault.handled THEN fault.change = Unchanged
       ELSE Follows(i, WideStore(i)) =>
              fault.change = [Executed(i) EXCEPT !.flags = IF Counts(i) THEN {} ELSE @]

\* 0F B2, B4 and B5 have no length in instr_len.
NoStep(i) == i.op = \h0f /\ i.modrm \in FarLoads2

\* A load of a segment register that was made moved EIP and ESP as the processor does,
\* so that the program neither loads again nor loses its stack: in 16 bit code, and in
\* 32 bit code for loads from a register or memory, with the same two exceptions.  Only
\* lss, lfs and lgs stay where they are, and load again.
SegExecuted ==
  fault.kind = "selector" /\ fault.handled =>
    LET i == fault.insn
    IN IF NoStep(i) THEN fault.change = Unchanged
       ELSE Follows(i, WideLoad(i)) =>
              /\ fault.change.esp = TrueSegPopped(i)
              /\ fault.change.eip = IF Jumps(i) THEN 0 ELSE TrueLen(i)

\* A write to the alias changes one entry of what the program sees, and of that the bytes
\* written and no others: what it wrote before in pieces is kept, even of an entry that
\* is not present yet.  The exception is an entry that the host refused: if it is present
\* in the host's LDT its other bytes come back from there, and the pieces are lost.  The
\* bytes that are not written of a new entry are the host's default.
WritesOnly ==
  [][fault.kind = "none" /\ fault'.kind = "page" =>
       LET Piece(old) ==
             {Written(old, fault'.offset, fault'.change.len, new) : new \in Descriptor}
       IN /\ \A e, f \in Entry : backbuf'[e] # backbuf[e] /\ backbuf'[f] # backbuf[f] => e = f
          /\ \A e \in Entry : backbuf'[e] # backbuf[e] =>
               \/ e \in allocated /\ backbuf'[e] \in Piece(backbuf[e])
               \/ e \in refused /\ ldt[e].p /\ backbuf'[e] \in Piece(ldt[e])
               \/ e \notin allocated /\ backbuf'[e] \in Piece(Default)]_vars
=============================================================================
