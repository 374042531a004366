------------------------------- MODULE InstrDec -------------------------------
(***************************************************************************)
(* The instruction decoder (msdos/instr_dec.c with instr_len and           *)
(* instr_binary_* of instremu.c): what the fault handlers do to the        *)
(* context of an instruction that they finish in the program's place, and  *)
(* beside it what the processor does (the operators named True...).        *)
(*                                                                         *)
(* Contexts are given as changes: how far EIP, ESP, ESI and EDI move.      *)
(* Operand values are left out, except what decides on lengths.            *)
(***************************************************************************)
EXTENDS Integers, FiniteSets, Sequences

Byte == 0 .. 255

\* Prefixes, opcode, and the two bytes that follow it: ModRM and SIB, or the second
\* byte of the opcode, or the two bytes of RETF's immediate.
Instruction == [is_32 : BOOLEAN, prefixes : Seq(Byte), op : Byte, modrm : Byte, sib : Byte]

\* The processor refuses an instruction that is longer.
MaxLen == 15

Count(i, b) == Cardinality({k \in DOMAIN i.prefixes : i.prefixes[k] = b})
Odd(n) == n % 2 = 1

Mod(i) == i.modrm \div 64
Reg(i) == (i.modrm \div 8) % 8
Rm(i)  == i.modrm % 8

-----------------------------------------------------------------------------
(* The prefix loop.                                                        *)

\* int _32bit:1 is a signed field of one bit: it holds 0 or -1.
Field32(is_32) == IF is_32 THEN -1 ELSE 0
CodeSize(i) == (Field32(i.is_32) + 1) * 2

\* Every size prefix changes the size, a second one back.
Flipped(size, flips) == IF Odd(flips) THEN 6 - size ELSE size

operand_size(i) == Flipped(CodeSize(i), Count(i, \h66))
address_size(i) == Flipped(CodeSize(i), Count(i, \h67))
HasRep(i) == Count(i, \hf2) + Count(i, \hf3) > 0

\* LOCK is a prefix for instr_len and an opcode for x86_handle_prefixes.
Opcode(i) == IF Count(i, \hf0) > 0 THEN \hf0 ELSE i.op

-----------------------------------------------------------------------------
(* instr_len.                                                              *)

\* The table it[]: 1 opcode, 2 and a byte, 3 and an operand, 4 and an address,
\* 5 and an operand and a byte, 6 and an address and a word, 7 and ModRM, 8 and ModRM
\* and a byte, 9 and ModRM and an operand.
Arithmetic == {8 * n : n \in 0 .. 7}
NoLength == {\h0f, \h26, \h2e, \h36, \h3e, \hf0, \hf2, \hf3} \cup (\h64 .. \h67) \cup (\hd8 .. \hdf)

ByteAfterModRm  == {\h6b, \h80, \h82, \h83, \hc0, \hc1, \hc6}
OperandAfterModRm == {\h69, \h81, \hc7}
JustModRm ==
  {n + k : n \in Arithmetic, k \in 0 .. 3} \cup {\h62, \h63} \cup (\h84 .. \h8f)
  \cup {\hc4, \hc5, \hf6, \hf7, \hfe, \hff} \cup (\hd0 .. \hd3)
ByteOnly ==
  {n + 4 : n \in Arithmetic} \cup {\h6a, \ha8, \hcd, \hd4, \hd5, \heb}
  \cup (\h70 .. \h7f) \cup (\hb0 .. \hb7) \cup (\he0 .. \he7)
OperandOnly ==
  {n + 5 : n \in Arithmetic} \cup {\h68, \ha9, \hc2, \hca} \cup (\hb8 .. \hbf)
AddressOnly == (\ha0 .. \ha3) \cup {\he8, \he9}
FarAddress  == {\h9a, \hea}
Enter       == {\hc8}

\* The bytes of ModRM, SIB and displacement.
arg_len(i, asp) ==
  IF asp
    THEN IF Mod(i) = 0 /\ Rm(i) = 5 THEN 5
         ELSE (CASE Mod(i) = 1 -> 2 [] Mod(i) = 2 -> 5 [] OTHER -> 1)
              + (IF Mod(i) < 3 /\ Rm(i) = 4 THEN 1 ELSE 0)
    ELSE CASE Mod(i) = 0 /\ Rm(i) = 6 -> 3
           [] Mod(i) = 1 -> 2
           [] Mod(i) = 2 -> 3
           [] OTHER -> 1

\* osp and asp start as all ones for 32 bit code: no prefix makes them zero.  And a
\* faulty variant: they are not changed by prefixes.
InstrIs32Code(i, prefix) == i.is_32
InstrIs32(i, prefix) == i.is_32 \/ Odd(Count(i, prefix))

BodyLen(i) ==
  LET op  == i.op
      opd == IF InstrIs32(i, \h66) THEN 4 ELSE 2
      adr == IF InstrIs32(i, \h67) THEN 4 ELSE 2
      arg == arg_len(i, InstrIs32(i, \h67))
  IN CASE op \in JustModRm -> 1 + arg
       [] op \in ByteAfterModRm -> 1 + arg + 1
       [] op \in OperandAfterModRm -> 1 + arg + opd
       [] op \in ByteOnly -> 2
       [] op \in OperandOnly -> 1 + opd
       [] op \in AddressOnly -> 1 + adr
       [] op \in Enter -> 2 + opd
       [] op \in FarAddress -> 3 + adr
       [] OTHER -> 1

instr_len(i) ==
  IF Len(i.prefixes) >= 16 \/ i.op \in NoLength THEN 0
  ELSE Len(i.prefixes) + BodyLen(i)

-----------------------------------------------------------------------------
(* decode_memop: a write to memory that faulted.                           *)

ByteStores == {\h88, \hc6, \h80, \h82, \ha2, \ha4, \haa, \hfe} \cup {8 * n : n \in 0 .. 6}
SizedStores == {\hc7, \h81, \h83, \ha3, \ha5, \hab} \cup {8 * n + 1 : n \in 0 .. 6}
PlainStores == {\h89, \h8f}
Strings == {\ha4, \ha5, \haa, \hab}
Moves   == {\ha4, \ha5}
PopMem  == {\h8f}
Binary  == {\h80, \h81, \h82, \h83} \cup {8 * n + k : n \in 0 .. 6, k \in {0, 1}}

Decodes(i) == ~HasRep(i) /\ Opcode(i) \in ByteStores \cup SizedStores \cup PlainStores

\* A switch on the size has no case for other sizes than 2 and 4.
StoreLen(i) ==
  CASE Opcode(i) \in ByteStores -> 1
    [] Opcode(i) \in SizedStores -> IF operand_size(i) \in {2, 4} THEN operand_size(i) ELSE 0
    [] OTHER -> operand_size(i)

\* assert(ret)
Asserts(i) == Decodes(i) => StoreLen(i) # 0

StringStep(i) ==
  IF Opcode(i) \in Strings /\ address_size(i) \in {2, 4} THEN StoreLen(i) ELSE 0

\* The flags that instr_binary_byte, _word and _dword copy back from the processor.
Flags == {"CF", "PF", "AF", "ZF", "SF", "OF"}
BinaryOp(i) == IF Opcode(i) \in \h80 .. \h83 THEN Reg(i) ELSE Opcode(i) \div 8
BinaryFlags(n) == IF n \in {1, 4, 6} THEN Flags \ {"AF"} ELSE Flags

Unchanged == [len |-> 0, eip |-> 0, esp |-> 0, esi |-> 0, edi |-> 0, flags |-> {}]

Popped(i) == IF Opcode(i) \in PopMem THEN operand_size(i) ELSE 0

\* ret, and the change of the context.
decode_memop(i) ==
  IF ~Decodes(i) THEN Unchanged
  ELSE [len   |-> StoreLen(i),
        eip   |-> instr_len(i),
        esp   |-> Popped(i),
        esi   |-> IF Opcode(i) \in Moves THEN StringStep(i) ELSE 0,
        edi   |-> StringStep(i),
        flags |-> IF Opcode(i) \in Binary THEN BinaryFlags(BinaryOp(i)) ELSE {}]

-----------------------------------------------------------------------------
(* decode_segreg: a load of a segment register that faulted.               *)

SegRegs == <<"es", "cs", "ss", "ds", "fs", "gs">>
sreg_idx(n) == IF n % 8 < 6 THEN SegRegs[(n % 8) + 1] ELSE "none"

FarReturns == {\hca, \hcb, \hcf}
PopSegs  == {\h07, \h17, \h1f}
PopSegs2 == {\ha1, \ha9}
FarLoads2 == {\hb2, \hb4, \hb5}

\* Which register, "none" for an instruction that is not known.
SegLoaded(i) ==
  LET op == Opcode(i)
  IN CASE op = \h8e -> sreg_idx(Reg(i))
       [] op \in FarReturns \cup {\hea} -> "cs"
       [] op = \hc4 -> "es"
       [] op = \hc5 -> "ds"
       [] op \in PopSegs -> sreg_idx(op \div 8)
       [] op = \h0f /\ i.modrm \in PopSegs2 -> sreg_idx(i.modrm \div 8)
       [] op = \h0f /\ i.modrm = \hb2 -> "ss"
       [] op = \h0f /\ i.modrm = \hb4 -> "fs"
       [] op = \h0f /\ i.modrm = \hb5 -> "gs"
       [] OTHER -> "none"

Jumps(i) == Opcode(i) \in FarReturns \cup {\hea}

\* A faulty variant: the length is counted from the opcode.
StepNoPrefix(i) == instr_len(i) - Len(i.prefixes)
Step(i) == instr_len(i)

\* EIP moves by a length, or to the target of a jump (here: 0).
SegStep(i) ==
  CASE Jumps(i) -> 0
    [] Opcode(i) \in PopSegs -> Len(i.prefixes) + 1
    [] Opcode(i) = \h0f /\ i.modrm \in PopSegs2 -> Len(i.prefixes) + 2
    [] OTHER -> Step(i)

SegPopped(i) ==
  CASE Opcode(i) = \hcb -> 2 * operand_size(i)
    [] Opcode(i) = \hca -> 2 * operand_size(i) + i.modrm + 256 * i.sib
    [] Opcode(i) = \hcf -> 3 * operand_size(i)
    [] Opcode(i) \in PopSegs -> operand_size(i)
    [] Opcode(i) = \h0f /\ i.modrm \in PopSegs2 -> operand_size(i)
    [] OTHER -> 0

decode_segreg(i) ==
  IF SegLoaded(i) = "none" THEN Unchanged
  ELSE [Unchanged EXCEPT !.eip = SegStep(i), !.esp = SegPopped(i)]

-----------------------------------------------------------------------------
(* The processor.                                                          *)

\* A prefix that is repeated has the effect of one.
TrueIs32(i, prefix) == i.is_32 # (Count(i, prefix) > 0)
TrueOperand(i) == IF TrueIs32(i, \h66) THEN 4 ELSE 2
TrueAddress(i) == IF TrueIs32(i, \h67) THEN 4 ELSE 2

Displacement(i) ==
  IF TrueAddress(i) = 2
    THEN IF Mod(i) = 1 THEN 1 ELSE IF Mod(i) = 2 \/ (Mod(i) = 0 /\ Rm(i) = 6) THEN 2 ELSE 0
    ELSE IF Mod(i) = 1 THEN 1
         ELSE IF Mod(i) = 2 \/ (Mod(i) = 0 /\ (Rm(i) = 5 \/ (Rm(i) = 4 /\ i.sib % 8 = 5)))
         THEN 4 ELSE 0

HasSib(i) == TrueAddress(i) = 4 /\ Mod(i) # 3 /\ Rm(i) = 4
TrueModRm(i) == 1 + (IF HasSib(i) THEN 1 ELSE 0) + Displacement(i)

\* The opcode and all that follows it, for the instructions of the two decoders.
TrueBody(i) ==
  CASE i.op \in Strings \cup PopSegs -> 1
    [] i.op \in {\ha2, \ha3} -> 1 + TrueAddress(i)
    [] i.op = \h0f /\ i.modrm \in PopSegs2 -> 2
    [] i.op \in {\h80, \h82, \h83, \hc6} -> 1 + TrueModRm(i) + 1
    [] i.op \in {\h81, \hc7} -> 1 + TrueModRm(i) + TrueOperand(i)
    [] OTHER -> 1 + TrueModRm(i)

TrueLen(i) == Len(i.prefixes) + TrueBody(i)

TrueStore(i) == IF i.op \in ByteStores THEN 1 ELSE TrueOperand(i)

\* INC and DEC, which keep the carry.
Counts(i) == i.op = \hfe
TrueFlags(i) ==
  CASE Counts(i) -> Flags \ {"CF"}
    [] i.op \in Binary -> BinaryFlags(BinaryOp(i))
    [] OTHER -> {}

\* What a store does to the context.
Executed(i) ==
  [len   |-> TrueStore(i),
   eip   |-> TrueLen(i),
   esp   |-> IF i.op \in PopMem THEN TrueOperand(i) ELSE 0,
   esi   |-> IF i.op \in Moves THEN TrueStore(i) ELSE 0,
   edi   |-> IF i.op \in Strings THEN TrueStore(i) ELSE 0,
   flags |-> TrueFlags(i)]

\* How far the load of a segment register moves EIP and ESP.
TrueSegPopped(i) ==
  CASE i.op = \hcb -> 2 * TrueOperand(i)
    [] i.op = \hca -> 2 * TrueOperand(i) + i.modrm + 256 * i.sib
    [] i.op = \hcf -> 3 * TrueOperand(i)
    [] i.op \in PopSegs \/ (i.op = \h0f /\ i.modrm \in PopSegs2) -> TrueOperand(i)
    [] OTHER -> 0

\* What the decoder does not follow, here stated for whoever relies on it.

\* A size prefix an even number of times, which it takes for none.
Doubled(i) == \E p \in {\h66, \h67} : Count(i, p) > 0 /\ ~Odd(Count(i, p))

\* A displacement that arg_len does not see: 32 bit addressing without a base.
HasBase(i) == ~(TrueAddress(i) = 4 /\ Mod(i) = 0 /\ Rm(i) = 4 /\ i.sib % 8 = 5)
=============================================================================
