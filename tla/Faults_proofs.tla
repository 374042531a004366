---------------------------- MODULE Faults_proofs ----------------------------
(***************************************************************************)
(* Proofs about LdtWrites, InstrDec and Faults.  The four invariants of the *)
(* LDT are inductive together; Faults implements LdtWrites, so that they    *)
(* hold whatever instructions fault; and the decoder agrees with the        *)
(* processor on the instructions that it follows.                           *)
(***************************************************************************)
EXTENDS Faults, FiniteSetTheorems, TLAPS

-----------------------------------------------------------------------------
(* The LDT.                                                                *)

\* Between two writes the callouts of every entry are passed on.
NothingMuted == entry_upd = None

LdtInv ==
  LdtTypeOK /\ NoSystemDescriptor /\ AliasTrue /\ RegistersValid /\ NothingMuted

LEMMA Descriptors == Zero \in Descriptor /\ Default \in Descriptor /\ Marker \in Descriptor
BY ZerosAssumption DEF Zero, Default, Marker, Descriptor

LEMMA WrittenType ==
  ASSUME NEW old \in Descriptor, NEW new \in Descriptor, NEW o \in Int, NEW len \in Int
  PROVE  Written(old, o, len, new) \in Descriptor
<1> DEFINE access == 5 \in o .. o + len - 1
<1>1. access \in BOOLEAN
  OBVIOUS
<1>2. (IF o < 4 /\ len > 0 THEN new.low ELSE old.low) \in Value
  BY DEF Descriptor
<1>3. (IF access THEN new.p ELSE old.p) \in BOOLEAN
  BY DEF Descriptor
<1>4. (IF access THEN new.s ELSE old.s) \in BOOLEAN
  BY DEF Descriptor
<1> QED BY <1>2, <1>3, <1>4 DEF Written, Descriptor

LEMMA LdtInitInv == LdtInit => LdtInv
BY Descriptors DEF LdtInit, LdtInv, LdtTypeOK, NoSystemDescriptor, AliasTrue, RegistersValid,
     NothingMuted

\* A register that lost the selectors of an entry.
LEMMA FreedRegs ==
  ASSUME LdtTypeOK, NEW e \in Entry
  PROVE  /\ FreeSegRegs(e) \in [SegReg -> Entry \cup {None}]
         /\ \A r \in SegReg : FreeSegRegs(e)[r] # None =>
              FreeSegRegs(e)[r] = segregs[r] /\ segregs[r] # e
BY DEF FreeSegRegs, LdtTypeOK

\* An entry, new or not, to which a descriptor is stored.
LEMMA StoreKeepsInv ==
  ASSUME LdtInv, NEW e \in Entry, NEW d \in Descriptor,
         allocated' = allocated \cup {e}, Store(e, d), entry_upd' = None
  PROVE  LdtInv'
<1> USE DEF LdtInv
<1> DEFINE taken == IF d.s THEN d ELSE Marker
<1>0. backbuf' = [backbuf EXCEPT ![e] = d]
  BY DEF Store
<1>1. /\ segregs' \in [SegReg -> Entry \cup {None}]
      /\ \A r \in SegReg : segregs'[r] # None => segregs'[r] = segregs[r]
      /\ ~d.s => \A r \in SegReg : segregs'[r] # e
  <2>1. segregs' = IF d.s THEN segregs ELSE FreeSegRegs(e)
    BY DEF Store, IsSegment, RegsFreed
  <2>2. CASE d.s
    BY <2>1, <2>2 DEF LdtTypeOK
  <2>3. CASE ~d.s
    BY <2>1, <2>3, FreedRegs, NoneAssumption
  <2> QED BY <2>2, <2>3
<1>2. RegistersValid'
  <2> SUFFICES ASSUME NEW r \in SegReg, segregs'[r] # None
               PROVE  /\ segregs'[r] \in allocated'
                      /\ segregs'[r] \in refused' \/ backbuf'[segregs'[r]].s
    BY DEF RegistersValid
  <2>1. segregs[r] \in allocated /\ (segregs[r] \in refused \/ backbuf[segregs[r]].s)
    BY <1>1 DEF RegistersValid
  <2>2. CASE segregs[r] = e
    BY <1>0, <1>1, <2>1, <2>2 DEF LdtTypeOK
  <2>3. CASE segregs[r] # e
    <3>1. segregs[r] \in refused => segregs[r] \in refused'
      BY <2>3 DEF Store
    <3>2. backbuf'[segregs[r]] = backbuf[segregs[r]]
      BY <1>0, <2>1, <2>3 DEF LdtTypeOK
    <3> QED BY <1>1, <2>1, <3>1, <3>2
  <2> QED BY <2>2, <2>3
<1>3. NothingMuted' /\ entry_upd' \in Entry \cup {None}
  BY DEF NothingMuted
<1>4. taken \in Descriptor /\ taken.s
  BY Descriptors DEF Marker
<1>5. Held(e) \in Descriptor /\ Held(e).s
  BY Descriptors DEF LdtTypeOK, NoSystemDescriptor, Default, Held
<1>6. CASE ldt' = [ldt EXCEPT ![e] = taken] /\ refused' = refused \ {e}
  <2>1. LdtTypeOK'
    BY <1>0, <1>1, <1>3, <1>4, <1>6 DEF LdtTypeOK
  <2>2. NoSystemDescriptor'
    BY <1>4, <1>6 DEF NoSystemDescriptor, LdtTypeOK
  <2>3. AliasTrue'
    BY <1>0, <1>6 DEF AliasTrue, LdtTypeOK
  <2> QED BY <1>2, <1>3, <2>1, <2>2, <2>3
<1>7. CASE ldt' = [ldt EXCEPT ![e] = Held(e)] /\ refused' = refused \cup {e}
  <2>1. LdtTypeOK'
    BY <1>0, <1>1, <1>3, <1>5, <1>7 DEF LdtTypeOK
  <2>2. NoSystemDescriptor'
    BY <1>5, <1>7 DEF NoSystemDescriptor, LdtTypeOK
  <2>3. AliasTrue'
    BY <1>0, <1>7 DEF AliasTrue, LdtTypeOK
  <2> QED BY <1>2, <1>3, <2>1, <2>2, <2>3
<1> QED BY <1>6, <1>7 DEF Store, IsSegment

LEMMA WriteKeepsInv ==
  ASSUME LdtInv, NEW e \in Entry, NEW o \in Int, NEW len \in Int, NEW new \in Descriptor,
         direct_ldt_write(e, o, len, new)
  PROVE  LdtInv'
<1>0. entry_upd' = None
  BY DEF direct_ldt_write, Out
<1>1. CASE e \in allocated /\ Store(e, Written(Kept(e), o, len, new)) /\ UNCHANGED allocated
  <2>1. Kept(e) \in Descriptor
    BY DEF LdtInv, LdtTypeOK, Kept
  <2>2. Written(Kept(e), o, len, new) \in Descriptor
    BY <2>1, WrittenType
  <2>3. allocated' = allocated \cup {e}
    BY <1>1
  <2> QED BY <1>0, <1>1, <2>2, <2>3, StoreKeepsInv
<1>2. CASE /\ allocated' = allocated \cup {e}
           /\ Store(e, Written(Default, o, len, new))
  <2>1. Written(Default, o, len, new) \in Descriptor
    BY Descriptors, WrittenType
  <2> QED BY <1>0, <1>2, <2>1, StoreKeepsInv
<1>3. CASE UNCHANGED <<allocated, ldt, backbuf, refused, segregs>>
  BY <1>0, <1>3 DEF LdtInv, LdtTypeOK, NoSystemDescriptor, AliasTrue, RegistersValid, NothingMuted
<1> QED BY <1>1, <1>2, <1>3 DEF direct_ldt_write

\* Outside of a write the host's callouts reach the buffer.
LEMMA UpdatePasses ==
  ASSUME LdtInv, NEW e \in Entry, NEW d, msdos_ldt_update(e, d)
  PROVE  backbuf' = [backbuf EXCEPT ![e] = d] /\ entry_upd' = None
BY NoneAssumption DEF LdtInv, NothingMuted, msdos_ldt_update

LEMMA HostKeepsInv == LdtInv /\ HostNext => LdtInv'
<1> SUFFICES ASSUME LdtInv, HostNext PROVE LdtInv'
  OBVIOUS
<1> USE DEF LdtInv
<1>1. ASSUME NEW e \in Entry, HostAllocate(e) PROVE LdtInv'
  <2>0. backbuf' = [backbuf EXCEPT ![e] = Default] /\ entry_upd' = None
    BY <1>1, UpdatePasses DEF HostAllocate
  <2>1. LdtTypeOK'
    BY <1>1, <2>0, Descriptors DEF HostAllocate, LdtTypeOK
  <2>2. NoSystemDescriptor'
    BY <1>1 DEF HostAllocate, NoSystemDescriptor, LdtTypeOK, Default
  <2>3. AliasTrue'
    BY <1>1, <2>0 DEF HostAllocate, AliasTrue, LdtTypeOK, Default
  <2>4. RegistersValid'
    BY <1>1, <2>0 DEF HostAllocate, RegistersValid, LdtTypeOK
  <2>5. NothingMuted'
    BY <2>0 DEF NothingMuted
  <2> QED BY <2>1, <2>2, <2>3, <2>4, <2>5
<1>2. ASSUME NEW e \in Entry, HostFree(e) PROVE LdtInv'
  <2>0. backbuf' = [backbuf EXCEPT ![e] = Zero] /\ entry_upd' = None
    BY <1>2, UpdatePasses DEF HostFree
  <2>1. LdtTypeOK'
    BY <1>2, <2>0, Descriptors, FreedRegs DEF HostFree, LdtTypeOK
  <2>2. NoSystemDescriptor'
    BY <1>2 DEF HostFree, NoSystemDescriptor, LdtTypeOK
  <2>3. AliasTrue'
    BY <1>2, <2>0 DEF HostFree, AliasTrue, LdtTypeOK
  <2>4. RegistersValid'
    BY <1>2, <2>0, FreedRegs, NoneAssumption DEF HostFree, RegistersValid, LdtTypeOK
  <2>5. NothingMuted'
    BY <2>0 DEF NothingMuted
  <2> QED BY <2>1, <2>2, <2>3, <2>4, <2>5
<1>3. ASSUME NEW e \in Entry, NEW d \in Descriptor, HostSet(e, d) PROVE LdtInv'
  <2>0. backbuf' = [backbuf EXCEPT ![e] = d] /\ entry_upd' = None
    BY <1>3, UpdatePasses DEF HostSet
  <2>1. LdtTypeOK'
    BY <1>3, <2>0 DEF HostSet, LdtTypeOK
  <2>2. NoSystemDescriptor'
    BY <1>3 DEF HostSet, NoSystemDescriptor, LdtTypeOK
  <2>3. AliasTrue'
    BY <1>3, <2>0 DEF HostSet, AliasTrue, LdtTypeOK
  <2>4. RegistersValid'
    BY <1>3, <2>0 DEF HostSet, RegistersValid, LdtTypeOK
  <2>5. NothingMuted'
    BY <2>0 DEF NothingMuted
  <2> QED BY <2>1, <2>2, <2>3, <2>4, <2>5
<1>4. ASSUME NEW r \in SegReg, LoadOther(r) PROVE LdtInv'
  BY <1>4 DEF LoadOther, LdtTypeOK, NoSystemDescriptor, AliasTrue, RegistersValid, NothingMuted
<1>5. ASSUME NEW r \in SegReg, NEW e \in Entry, LoadSeg(r, e) PROVE LdtInv'
  <2>1. e \in refused \/ backbuf[e].s
    BY <1>5 DEF LoadSeg, AliasTrue, Marker
  <2>2. RegistersValid'
    BY <1>5, <2>1 DEF LoadSeg, RegistersValid, LdtTypeOK
  <2>3. LdtTypeOK'
    BY <1>5 DEF LoadSeg, LdtTypeOK
  <2> QED BY <1>5, <2>2, <2>3 DEF LoadSeg, NoSystemDescriptor, AliasTrue, NothingMuted
<1> QED BY <1>1, <1>2, <1>3, <1>4, <1>5 DEF HostNext

LEMMA LdtStep == LdtInv /\ [LdtNext]_ldtVars => LdtInv'
<1> SUFFICES ASSUME LdtInv, [LdtNext]_ldtVars PROVE LdtInv'
  OBVIOUS
<1>1. ASSUME NEW e \in Entry, NEW o \in 0 .. 7, NEW len \in 0 .. 8, NEW new \in Descriptor,
             direct_ldt_write(e, o, len, new)
      PROVE LdtInv'
  BY <1>1, WriteKeepsInv
<1>2. CASE UNCHANGED ldtVars
  BY <1>2 DEF LdtInv, ldtVars, LdtTypeOK, NoSystemDescriptor, AliasTrue, RegistersValid,
     NothingMuted
<1> QED BY <1>1, <1>2, HostKeepsInv DEF LdtNext

\* What a program writes through the alias, and what the host does in between, never
\* leaves a system descriptor in the host's LDT, a wrong alias or a dangling register.
THEOREM LdtAlwaysSound == LdtSpec => [](NoSystemDescriptor /\ AliasTrue /\ RegistersValid)
<1>1. LdtInv => NoSystemDescriptor /\ AliasTrue /\ RegistersValid
  BY DEF LdtInv
<1> QED BY <1>1, LdtInitInv, LdtStep, PTL DEF LdtSpec

-----------------------------------------------------------------------------
(* Faults implements LdtWrites.                                            *)

LEMMA SizeType == \A i : operand_size(i) \in {0, 2, 4, 6}
BY DEF operand_size, Flipped, CodeSize, Field32

LEMMA StoreLenType == \A i : StoreLen(i) \in 0 .. 6
BY SizeType DEF StoreLen

LEMMA FaultStep == LdtInv /\ [Next]_vars => [LdtNext]_ldtVars
<1> SUFFICES ASSUME LdtInv, [Next]_vars PROVE [LdtNext]_ldtVars
  OBVIOUS
<1>1. CASE Between
  BY <1>1 DEF Between, LdtNext
<1>2. CASE Resume
  BY <1>2 DEF Resume
<1>3. ASSUME NEW i \in Insns, NEW e \in Entry, NEW o \in Offsets, NEW new \in Descriptor,
             msdos_ldt_pagefault(i, e, o, new)
      PROVE  [LdtNext]_ldtVars
  <2>1. CASE InEntry(o, StoreLen(i)) /\ direct_ldt_write(e, o, StoreLen(i), new)
    <3>1. o \in 0 .. 7 /\ StoreLen(i) \in 0 .. 8
      BY OffsetsAssumption, StoreLenType
    <3> QED BY <2>1, <3>1 DEF LdtNext
  <2>2. CASE UNCHANGED ldtVars
    BY <2>2
  <2> QED BY <1>3, <2>1, <2>2 DEF msdos_ldt_pagefault
<1>4. ASSUME NEW i \in Insns, NEW special \in Special, NEW found \in BOOLEAN,
             msdos_fault(i, special, found)
      PROVE  [LdtNext]_ldtVars
  <2> DEFINE reg == SegLoaded(i)
  <2>1. CASE segregs' = Loaded(reg) /\ reg \in SegReg
    <3>1. LoadOther(reg)
      BY <1>4, <2>1 DEF msdos_fault, Loaded, LoadOther
    <3> QED BY <2>1, <3>1 DEF LdtNext, HostNext
  <2>2. CASE segregs' = Loaded(reg) /\ reg \notin SegReg
    <3>1. Loaded(reg) = segregs
      BY <2>2 DEF Loaded, LdtInv, LdtTypeOK
    <3> QED BY <1>4, <2>2, <3>1 DEF msdos_fault, ldtVars
  <2>3. CASE UNCHANGED segregs
    BY <1>4, <2>3 DEF msdos_fault, ldtVars
  <2> QED BY <1>4, <2>1, <2>2, <2>3 DEF msdos_fault
<1>5. CASE UNCHANGED vars
  BY <1>5 DEF vars
<1> QED BY <1>1, <1>2, <1>3, <1>4, <1>5 DEF Next

LEMMA FaultsInv == Spec => []LdtInv
<1>1. Init => LdtInv
  BY LdtInitInv DEF Init
<1>2. LdtInv /\ [Next]_vars => LdtInv'
  BY FaultStep, LdtStep
<1> QED BY <1>1, <1>2, PTL DEF Spec

\* Every fault that is handled is a step of LdtWrites or leaves the LDT alone.
THEOREM FaultsImplementLdtWrites == Spec => LdtSpec
<1>1. Init => LdtInit
  BY DEF Init
<1> QED BY <1>1, FaultStep, FaultsInv, PTL DEF Spec, LdtSpec

\* No instruction that faults on the alias makes a system descriptor in the host's LDT.
THEOREM NeverSystemDescriptor == Spec => []NoSystemDescriptor
<1>1. LdtInv => NoSystemDescriptor
  BY DEF LdtInv
<1> QED BY <1>1, FaultsInv, PTL

\* The alias shows the host's LDT, but for entries that are not segments yet or that
\* the host refused.
THEOREM AliasAlwaysTrue == Spec => []AliasTrue
<1>1. LdtInv => AliasTrue
  BY DEF LdtInv
<1> QED BY <1>1, FaultsInv, PTL

\* No segment register is left with a selector that the program has made useless.
THEOREM RegistersAlwaysValid == Spec => []RegistersValid
<1>1. LdtInv => RegistersValid
  BY DEF LdtInv
<1> QED BY <1>1, FaultsInv, PTL

LEMMA DecodedLen == \A i : decode_memop(i).len = IF Decodes(i) THEN StoreLen(i) ELSE 0
BY DEF decode_memop, Unchanged

Pieces(old, o, len) == {Written(old, o, len, new) : new \in Descriptor}

\* What a write changes of the buffer, and where the bytes come from that it keeps.
LEMMA WriteWrites ==
  ASSUME LdtInv, NEW e \in Entry, NEW f \in Entry, NEW o, NEW len,
         NEW new \in Descriptor, direct_ldt_write(e, o, len, new), backbuf'[f] # backbuf[f]
  PROVE  /\ f = e
         /\ \/ f \in allocated /\ backbuf'[f] \in Pieces(backbuf[f], o, len)
            \/ f \in refused /\ ldt[f].p /\ backbuf'[f] \in Pieces(ldt[f], o, len)
            \/ f \notin allocated /\ backbuf'[f] \in Pieces(Default, o, len)
<1>1. backbuf \in [Entry -> Descriptor]
  BY DEF LdtInv, LdtTypeOK
<1>2. CASE UNCHANGED backbuf
  BY <1>2
<1>3. CASE e \in allocated /\ Store(e, Written(Kept(e), o, len, new))
  <2>1. f = e /\ backbuf'[f] = Written(Kept(e), o, len, new)
    BY <1>1, <1>3 DEF Store
  <2>2. Kept(e) = backbuf[e] \/ (e \in refused /\ ldt[e].p /\ Kept(e) = ldt[e])
    BY <1>3 DEF LdtInv, AliasTrue, Kept, Marker
  <2> QED BY <1>3, <2>1, <2>2 DEF Pieces
<1>4. CASE e \notin allocated /\ Store(e, Written(Default, o, len, new))
  <2>1. f = e /\ backbuf'[f] = Written(Default, o, len, new)
    BY <1>1, <1>4 DEF Store
  <2> QED BY <1>4, <2>1 DEF Pieces
<1> QED BY <1>2, <1>3, <1>4 DEF direct_ldt_write

\* A program that fills in an entry piece by piece keeps what it wrote before, unless the
\* host refused it: then what the program did not write just now is the host's again.
THEOREM WritesAlwaysOnly == Spec => WritesOnly
<1> DEFINE o == fault'.offset
           len == fault'.change.len
           FromOwn(f)  == f \in allocated /\ backbuf'[f] \in Pieces(backbuf[f], o, len)
           FromHost(f) == f \in refused /\ ldt[f].p /\ backbuf'[f] \in Pieces(ldt[f], o, len)
           FromNew(f)  == f \notin allocated /\ backbuf'[f] \in Pieces(Default, o, len)
           Changed(f)  == backbuf'[f] # backbuf[f]
           Only == fault.kind = "none" /\ fault'.kind = "page" =>
             /\ \A e, f \in Entry : Changed(e) /\ Changed(f) => e = f
             /\ \A f \in Entry : Changed(f) => FromOwn(f) \/ FromHost(f) \/ FromNew(f)
<1>1. LdtInv /\ [Next]_vars => Only
  <2> SUFFICES ASSUME LdtInv, [Next]_vars, fault.kind = "none", fault'.kind = "page"
               PROVE  \E e \in Entry : \A f \in Entry :
                        Changed(f) => f = e /\ (FromOwn(f) \/ FromHost(f) \/ FromNew(f))
    OBVIOUS
  <2>1. CASE UNCHANGED vars
    BY <2>1 DEF vars
  <2>2. CASE Between
    BY <2>2 DEF Between
  <2>3. CASE Resume
    BY <2>3 DEF Resume, NoFault
  <2>4. ASSUME NEW i \in Insns, NEW special \in Special, NEW found \in BOOLEAN,
               msdos_fault(i, special, found)
        PROVE  FALSE
    BY <2>4 DEF msdos_fault, SelFaulted
  <2>5. ASSUME NEW i \in Insns, NEW e \in Entry, NEW q \in Offsets, NEW new \in Descriptor,
               msdos_ldt_pagefault(i, e, q, new)
        PROVE  \A f \in Entry :
                 Changed(f) => f = e /\ (FromOwn(f) \/ FromHost(f) \/ FromNew(f))
    <3>1. CASE UNCHANGED ldtVars
      BY <3>1 DEF ldtVars
    <3>2. CASE /\ Decodes(i)
               /\ direct_ldt_write(e, q, StoreLen(i), new)
               /\ fault' = PageFaulted(i, TRUE, decode_memop(i), q)
      <4>1. o = q /\ len = StoreLen(i)
        BY <3>2, DecodedLen DEF PageFaulted
      <4> HIDE DEF o, len
      <4> QED BY <3>2, <4>1, WriteWrites
    <3> QED BY <2>5, <3>1, <3>2 DEF msdos_ldt_pagefault
  <2> QED BY <2>1, <2>2, <2>3, <2>4, <2>5 DEF Next
<1>2. Only => (fault.kind = "none" /\ fault'.kind = "page" =>
       LET Piece(old) ==
             {Written(old, fault'.offset, fault'.change.len, new) : new \in Descriptor}
       IN /\ \A e, f \in Entry : backbuf'[e] # backbuf[e] /\ backbuf'[f] # backbuf[f] => e = f
          /\ \A e \in Entry : backbuf'[e] # backbuf[e] =>
               \/ e \in allocated /\ backbuf'[e] \in Piece(backbuf[e])
               \/ e \in refused /\ ldt[e].p /\ backbuf'[e] \in Piece(ldt[e])
               \/ e \notin allocated /\ backbuf'[e] \in Piece(Default))
  BY DEF Pieces
<1> QED BY <1>1, <1>2, FaultsInv, PTL DEF Spec, WritesOnly

-----------------------------------------------------------------------------
(* The decoder and the processor.                                          *)

ModRmStores == {\h88, \h89, \h8f, \hfe} \cup {8 * n : n \in 0 .. 6} \cup {8 * n + 1 : n \in 0 .. 6}
ByteStoresAfter == {\h80, \h82, \h83, \hc6}
OperandStoresAfter == {\h81, \hc7}

LEMMA CountType == ASSUME NEW i \in Instruction, NEW b PROVE Count(i, b) \in Nat
<1> DEFINE At == {k \in DOMAIN i.prefixes : i.prefixes[k] = b}
<1>1. i.prefixes \in Seq(Byte)
  BY DEF Instruction
<1>2. DOMAIN i.prefixes = 1 .. Len(i.prefixes) /\ Len(i.prefixes) \in Nat
  BY <1>1
<1>3. IsFiniteSet(1 .. Len(i.prefixes))
  BY <1>2, FS_Interval
<1>4. IsFiniteSet(At)
  BY <1>2, <1>3, FS_Subset
<1> QED BY <1>4, FS_CardinalityType DEF Count

\* Prefixes that are not doubled turn the size as one does.
LEMMA PrefixesAgree ==
  ASSUME NEW i \in Instruction, ~Doubled(i), NEW p \in {\h66, \h67}
  PROVE  Count(i, p) > 0 <=> Odd(Count(i, p))
<1>1. CASE Count(i, p) > 0
  BY <1>1 DEF Doubled
<1>2. CASE Count(i, p) = 0
  BY <1>2 DEF Odd
<1> QED BY <1>1, <1>2, CountType

LEMMA SizesAgree ==
  ASSUME NEW i \in Instruction, ~i.is_32, ~Doubled(i)
  PROVE  /\ operand_size(i) = TrueOperand(i)
         /\ address_size(i) = TrueAddress(i)
         /\ \A p \in {\h66, \h67} : InstrIs32(i, p) <=> TrueIs32(i, p)
<1>1. CodeSize(i) = 2
  BY DEF CodeSize, Field32
<1>2. \A p \in {\h66, \h67} : TrueIs32(i, p) <=> Odd(Count(i, p))
  <2>1. i.is_32 = FALSE
    BY DEF Instruction
  <2>2. \A p : TrueIs32(i, p) <=> Count(i, p) > 0
    <3> TAKE p
    <3>1. TrueIs32(i, p) <=> FALSE # (Count(i, p) > 0)
      BY <2>1 DEF TrueIs32
    <3>2. (Count(i, p) > 0) \in BOOLEAN
      OBVIOUS
    <3> QED BY <3>1, <3>2
  <2> QED BY <2>2, PrefixesAgree
<1>3. \A p : InstrIs32(i, p) <=> Odd(Count(i, p))
  BY DEF InstrIs32
<1> QED BY <1>1, <1>2, <1>3 DEF operand_size, address_size, Flipped, TrueOperand, TrueAddress

\* In 32 bit code too, when no prefix makes addresses shorter.
LEMMA AddressAgrees ==
  ASSUME NEW i \in Instruction, ~Doubled(i), i.is_32 => Count(i, \h67) = 0
  PROVE  InstrIs32(i, \h67) <=> TrueIs32(i, \h67)
<1>1. CASE ~i.is_32
  BY <1>1, SizesAgree
<1>2. CASE i.is_32
  <2>1. i.is_32 = TRUE /\ (Count(i, \h67) > 0) = FALSE
    BY <1>2 DEF Instruction
  <2> QED BY <2>1 DEF InstrIs32, TrueIs32
<1> QED BY <1>1, <1>2

LEMMA OneOpcode == \A i \in Instruction : Decodes(i) => Opcode(i) = i.op
BY DEF Decodes, Opcode, ByteStores, SizedStores, PlainStores

LEMMA Fields ==
  ASSUME NEW i \in Instruction
  PROVE  Mod(i) \in 0 .. 3 /\ Rm(i) \in 0 .. 7 /\ Reg(i) \in 0 .. 7
<1>1. i.modrm \in 0 .. 255
  BY DEF Instruction, Byte
<1>2. \A b \in 0 .. 255 : b \div 64 \in 0 .. 3
  OBVIOUS
<1>3. \A b \in 0 .. 255 : b % 8 \in 0 .. 7
  OBVIOUS
<1>4. \A b \in 0 .. 255 : (b \div 8) % 8 \in 0 .. 7
  OBVIOUS
<1> QED BY <1>1, <1>2, <1>3, <1>4 DEF Mod, Rm, Reg

\* ModRM, SIB and displacement.
LEMMA ModRmAgrees ==
  ASSUME NEW i \in Instruction, ~Doubled(i), i.is_32 => Count(i, \h67) = 0, HasBase(i)
  PROVE  arg_len(i, InstrIs32(i, \h67)) = TrueModRm(i)
<1>1. InstrIs32(i, \h67) <=> TrueAddress(i) = 4
  BY AddressAgrees DEF TrueAddress
<1>2. TrueAddress(i) \in {2, 4}
  BY DEF TrueAddress
<1>3. CASE TrueAddress(i) = 2
  BY <1>1, <1>2, <1>3, Fields DEF arg_len, TrueModRm, HasSib, Displacement
<1>4. CASE TrueAddress(i) = 4
  <2>1. ~(Mod(i) = 0 /\ Rm(i) = 4 /\ i.sib % 8 = 5)
    BY <1>4 DEF HasBase
  <2> QED BY <1>1, <1>4, <2>1, Fields DEF arg_len, TrueModRm, HasSib, Displacement
<1> QED BY <1>2, <1>3, <1>4

\* The table it[], for the instructions that are decoded.
LEMMA StoreForms ==
  ASSUME NEW i \in Instruction, Decodes(i)
  PROVE  \/ i.op \in ModRmStores
         \/ i.op \in Strings
         \/ i.op \in {\ha2, \ha3}
         \/ i.op \in ByteStoresAfter
         \/ i.op \in OperandStoresAfter
BY OneOpcode DEF Decodes, ByteStores, SizedStores, PlainStores, ModRmStores, Strings,
   ByteStoresAfter, OperandStoresAfter

LEMMA ArithmeticBelow == \A b \in Arithmetic : b \in 0 .. 56
BY DEF Arithmetic

LEMMA JustModRmBelow == \A b \in JustModRm : b \in 0 .. 59 \/ b \in {\h62, \h63} \cup (\h84 .. \h8f)
  \cup {\hc4, \hc5, \hf6, \hf7, \hfe, \hff} \cup (\hd0 .. \hd3)
BY ArithmeticBelow DEF JustModRm

LEMMA ModRmStoresIn == \A b \in ModRmStores : b \in JustModRm
<1>1. \A n \in 0 .. 6 : 8 * n \in Arithmetic
  BY DEF Arithmetic
<1>2. \A n \in 0 .. 6 : 8 * n + 0 \in JustModRm /\ 8 * n + 1 \in JustModRm
  BY <1>1 DEF JustModRm
<1>3. \A n \in 0 .. 6 : 8 * n \in JustModRm
  BY <1>2
<1> QED BY <1>2, <1>3 DEF ModRmStores, JustModRm

\* Each opcode that is decoded is in one row of the table.
ImmediateForms == ByteOnly \cup OperandOnly \cup Enter \cup FarAddress

LEMMA ImmediateFormsAre ==
  \A b \in ImmediateForms :
    \/ \E m \in 0 .. 7 : b \in {8 * m + 4, 8 * m + 5}
    \/ b \in {\h68, \h6a, \ha8, \ha9, \hc2, \hc8, \hca, \hcd, \hd4, \hd5, \heb, \h9a, \hea}
    \/ b \in \h70 .. \h7f \/ b \in \hb0 .. \hb7 \/ b \in \he0 .. \he7 \/ b \in \hb8 .. \hbf
BY DEF ImmediateForms, ByteOnly, OperandOnly, Enter, FarAddress, Arithmetic

LEMMA ModRmRow ==
  \A b \in ModRmStores : /\ b \in JustModRm
                         /\ b \notin ByteAfterModRm \cup OperandAfterModRm \cup AddressOnly
                         /\ b \notin ImmediateForms
<1> TAKE b \in ModRmStores
<1>1. b \in JustModRm
  BY ModRmStoresIn
<1>2. b \notin ByteAfterModRm \cup OperandAfterModRm \cup AddressOnly
  BY DEF ModRmStores, ByteAfterModRm, OperandAfterModRm, AddressOnly
<1>3. b \notin ImmediateForms
  BY ImmediateFormsAre DEF ModRmStores
<1> QED BY <1>1, <1>2, <1>3

LEMMA OtherRows ==
  ASSUME NEW b \in Strings \cup {\ha2, \ha3} \cup ByteStoresAfter \cup OperandStoresAfter
  PROVE  b \notin JustModRm /\ b \notin ImmediateForms
BY JustModRmBelow, ImmediateFormsAre DEF Strings, ByteStoresAfter, OperandStoresAfter

LEMMA StringsRow ==
  \A b \in Strings : b \notin ByteAfterModRm \cup OperandAfterModRm \cup AddressOnly
BY DEF Strings, ByteAfterModRm, OperandAfterModRm, AddressOnly

LEMMA AddressRow ==
  \A b \in {\ha2, \ha3} : b \in AddressOnly /\ b \notin ByteAfterModRm \cup OperandAfterModRm
BY DEF ByteAfterModRm, OperandAfterModRm, AddressOnly

LEMMA ByteAfterRow ==
  \A b \in ByteStoresAfter : b \in ByteAfterModRm /\ b \notin AddressOnly \cup OperandAfterModRm
BY DEF ByteStoresAfter, ByteAfterModRm, OperandAfterModRm, AddressOnly

LEMMA OperandAfterRow ==
  \A b \in OperandStoresAfter : b \in OperandAfterModRm /\ b \notin AddressOnly \cup ByteAfterModRm
BY DEF OperandStoresAfter, ByteAfterModRm, OperandAfterModRm, AddressOnly

\* All that follows the opcode of a store.
LEMMA BodyAgrees ==
  ASSUME NEW i \in Instruction, Follows(i, WideStore(i)), Decodes(i)
  PROVE  BodyLen(i) = TrueBody(i)
<1> DEFINE arg == arg_len(i, InstrIs32(i, \h67))
           opd == IF InstrIs32(i, \h66) THEN 4 ELSE 2
           adr == IF InstrIs32(i, \h67) THEN 4 ELSE 2
<1>1. arg = TrueModRm(i) /\ adr = TrueAddress(i)
  BY ModRmAgrees, AddressAgrees DEF TrueAddress, Follows, WideStore
<1>2. CASE i.op \in ModRmStores
  <2>1. BodyLen(i) = 1 + arg
    BY <1>2, ModRmRow DEF BodyLen, ImmediateForms
  <2>2. TrueBody(i) = 1 + TrueModRm(i)
    BY <1>2 DEF TrueBody, ModRmStores, Strings, PopSegs
  <2> QED BY <1>1, <2>1, <2>2
<1>3. CASE i.op \in Strings
  <2>1. BodyLen(i) = 1
    BY <1>3, StringsRow, OtherRows DEF BodyLen, ImmediateForms
  <2>2. TrueBody(i) = 1
    BY <1>3 DEF TrueBody, Strings, PopSegs
  <2> QED BY <2>1, <2>2
<1>4. CASE i.op \in {\ha2, \ha3}
  <2>1. BodyLen(i) = 1 + adr
    BY <1>4, AddressRow, OtherRows DEF BodyLen, ImmediateForms
  <2>2. TrueBody(i) = 1 + TrueAddress(i)
    BY <1>4 DEF TrueBody, Strings, PopSegs
  <2> QED BY <1>1, <2>1, <2>2
<1>5. CASE i.op \in ByteStoresAfter
  <2>1. BodyLen(i) = 1 + arg + 1
    BY <1>5, ByteAfterRow, OtherRows DEF BodyLen, ImmediateForms
  <2>2. TrueBody(i) = 1 + TrueModRm(i) + 1
    BY <1>5 DEF TrueBody, ByteStoresAfter, Strings, PopSegs
  <2> QED BY <1>1, <2>1, <2>2
<1>6. CASE i.op \in OperandStoresAfter
  <2>1. BodyLen(i) = 1 + arg + opd
    BY <1>6, OperandAfterRow, OtherRows DEF BodyLen, ImmediateForms
  <2>2. TrueBody(i) = 1 + TrueModRm(i) + TrueOperand(i)
    BY <1>6 DEF TrueBody, OperandStoresAfter, Strings, PopSegs
  <2>3. ~i.is_32
    BY <1>6 DEF Follows, WideStore, OperandStoresAfter, ByteStores
  <2>4. opd = TrueOperand(i)
    BY <2>3, SizesAgree DEF TrueOperand, Follows
  <2> QED BY <1>1, <2>1, <2>2, <2>4
<1> QED BY <1>2, <1>3, <1>4, <1>5, <1>6, StoreForms

LEMMA LengthAgrees ==
  ASSUME NEW i \in Insns, Follows(i, WideStore(i)), Decodes(i)
  PROVE  instr_len(i) = TrueLen(i)
<1>1. i \in Instruction /\ Len(i.prefixes) < 15
  BY InsnsAssumption DEF MaxLen
<1>2. i.op \notin NoLength
  <2>1. Opcode(i) = i.op
    BY <1>1, OneOpcode
  <2> QED BY <2>1 DEF Decodes, ByteStores, SizedStores, PlainStores, NoLength
<1>3. Len(i.prefixes) \in Nat
  BY <1>1 DEF Instruction
<1> QED BY <1>1, <1>2, <1>3, BodyAgrees DEF instr_len, TrueLen

\* The size of operands and of string addresses is needed in 16 bit code only.
LEMMA SizedIsNarrow ==
  ASSUME NEW i \in Instruction, Follows(i, WideStore(i)), i.op \notin ByteStores \ Strings
  PROVE  operand_size(i) = TrueOperand(i) /\ address_size(i) = TrueAddress(i)
BY SizesAgree DEF Follows, WideStore

\* The context after a store, field by field.
LEMMA StoreAgrees ==
  ASSUME NEW i \in Insns, Follows(i, WideStore(i)), Decodes(i)
  PROVE  decode_memop(i) = [Executed(i) EXCEPT !.flags = IF Counts(i) THEN {} ELSE @]
<1>1. i \in Instruction /\ Opcode(i) = i.op
  BY InsnsAssumption, OneOpcode
<1>2. TrueOperand(i) \in {2, 4} /\ TrueAddress(i) \in {2, 4}
  BY DEF TrueOperand, TrueAddress
<1>3. i.op \notin ByteStores \ Strings
        => operand_size(i) = TrueOperand(i) /\ address_size(i) = TrueAddress(i)
  BY <1>1, SizedIsNarrow
<1>4. StoreLen(i) = TrueStore(i)
  <2>1. \A b \in ByteStores : b \notin SizedStores
    BY DEF ByteStores, SizedStores
  <2> QED BY <1>1, <1>2, <1>3, <2>1 DEF StoreLen, TrueStore
<1>5. instr_len(i) = TrueLen(i)
  BY LengthAgrees
<1>6. Popped(i) = IF i.op \in PopMem THEN TrueOperand(i) ELSE 0
  <2>1. i.op \in PopMem => i.op \notin ByteStores
    BY DEF PopMem, ByteStores
  <2> QED BY <1>1, <1>3, <2>1 DEF Popped
<1>7. StringStep(i) = IF i.op \in Strings THEN TrueStore(i) ELSE 0
  BY <1>1, <1>2, <1>3, <1>4 DEF StringStep
<1>8. i.op \in Moves => i.op \in Strings
  BY DEF Moves, Strings
<1>9. (IF Opcode(i) \in Moves THEN StringStep(i) ELSE 0) = IF i.op \in Moves THEN TrueStore(i) ELSE 0
  BY <1>1, <1>7, <1>8
<1>10. (IF Opcode(i) \in Binary THEN BinaryFlags(BinaryOp(i)) ELSE {})
         = IF Counts(i) THEN {} ELSE TrueFlags(i)
  <2>1. CASE Counts(i)
    BY <1>1, <2>1 DEF Counts, Binary
  <2>2. CASE ~Counts(i)
    BY <1>1, <2>2 DEF TrueFlags
  <2> QED BY <2>1, <2>2
<1> QED BY <1>4, <1>5, <1>6, <1>7, <1>9, <1>10 DEF decode_memop, Executed

-----------------------------------------------------------------------------
(* Loads of segment registers.                                             *)

PopForms(i)  == i.op \in PopSegs
Pop2Forms(i) == i.op = \h0f /\ i.modrm \in PopSegs2
RegForms(i)  == i.op \in {\h8e, \hc4, \hc5}

LEMMA LoadForms ==
  ASSUME NEW i \in Instruction, SegLoaded(i) # "none"
  PROVE  /\ Opcode(i) = i.op
         /\ PopForms(i) \/ Pop2Forms(i) \/ RegForms(i) \/ Jumps(i) \/ NoStep(i)
<1>1. Opcode(i) \notin {\h8e, \hc4, \hc5, \hea, \h0f} \cup FarReturns \cup PopSegs
        => SegLoaded(i) = "none"
  BY DEF SegLoaded
<1>2. Opcode(i) # \hf0
  BY <1>1 DEF FarReturns, PopSegs
<1>3. Opcode(i) = i.op
  BY <1>2 DEF Opcode
<1>4. i.op = \h0f => i.modrm \in PopSegs2 \cup FarLoads2
  BY <1>3 DEF SegLoaded, FarReturns, PopSegs, PopSegs2, FarLoads2
<1> QED BY <1>1, <1>3, <1>4 DEF PopForms, Pop2Forms, RegForms, Jumps, NoStep

\* The stack pointer and the instruction pointer after a load.
LEMMA LoadAgrees ==
  ASSUME NEW i \in Insns, SegLoaded(i) # "none", Follows(i, WideLoad(i)), ~NoStep(i)
  PROVE  /\ decode_segreg(i).esp = TrueSegPopped(i)
         /\ decode_segreg(i).eip = IF Jumps(i) THEN 0 ELSE TrueLen(i)
<1>1. i \in Instruction /\ Len(i.prefixes) < 15 /\ Len(i.prefixes) \in Nat
  BY InsnsAssumption DEF MaxLen, Instruction
<1>2. Opcode(i) = i.op /\ (PopForms(i) \/ Pop2Forms(i) \/ RegForms(i) \/ Jumps(i))
  BY <1>1, LoadForms
<1>3. RegForms(i) \/ operand_size(i) = TrueOperand(i)
  BY <1>1, SizesAgree DEF Follows, WideLoad, RegForms
<1>4. SegPopped(i) = TrueSegPopped(i)
  <2>1. CASE RegForms(i)
    BY <1>2, <2>1 DEF SegPopped, TrueSegPopped, PopSegs, RegForms
  <2>2. CASE operand_size(i) = TrueOperand(i)
    BY <1>2, <2>2 DEF SegPopped, TrueSegPopped, PopSegs
  <2> QED BY <1>3, <2>1, <2>2
<1>5. SegStep(i) = IF Jumps(i) THEN 0 ELSE TrueLen(i)
  <2>1. CASE Jumps(i)
    BY <1>2, <2>1 DEF SegStep, Jumps, FarReturns, PopSegs
  <2>2. CASE PopForms(i)
    <3>1. TrueBody(i) = 1 /\ ~Jumps(i)
      BY <1>2, <2>2 DEF TrueBody, PopForms, Strings, PopSegs, Jumps, FarReturns
    <3> QED BY <1>2, <2>2, <3>1 DEF SegStep, TrueLen, PopForms, PopSegs
  <2>3. CASE Pop2Forms(i)
    <3>1. TrueBody(i) = 2 /\ ~Jumps(i)
      BY <1>2, <2>3 DEF TrueBody, Pop2Forms, Strings, PopSegs, Jumps, FarReturns
    <3> QED BY <1>2, <2>3, <3>1 DEF SegStep, TrueLen, Pop2Forms, PopSegs
  <2>4. CASE RegForms(i)
    <3>1. ~Jumps(i) /\ SegStep(i) = instr_len(i)
      BY <1>2, <2>4 DEF SegStep, Step, RegForms, PopSegs, Jumps, FarReturns
    <3>2. TrueBody(i) = 1 + TrueModRm(i)
      BY <2>4 DEF TrueBody, RegForms, Strings, PopSegs
    <3>3. i.op \in JustModRm /\ i.op \notin NoLength /\ i.op \notin ImmediateForms
          /\ i.op \notin ByteAfterModRm \cup OperandAfterModRm \cup AddressOnly
      BY <2>4, ImmediateFormsAre
      DEF RegForms, JustModRm, NoLength, ByteAfterModRm, OperandAfterModRm, AddressOnly
    <3>4. BodyLen(i) = 1 + arg_len(i, InstrIs32(i, \h67))
      BY <3>3 DEF BodyLen, ImmediateForms
    <3>5. BodyLen(i) = TrueBody(i)
      BY <1>1, <3>2, <3>4, ModRmAgrees DEF Follows, WideLoad
    <3> QED BY <1>1, <3>1, <3>3, <3>5 DEF instr_len, TrueLen
  <2> QED BY <1>2, <2>1, <2>2, <2>3, <2>4
<1> QED BY <1>4, <1>5 DEF decode_segreg, Unchanged

\* instr_len has no length for lss, lfs and lgs.
LEMMA NoStepStays ==
  ASSUME NEW i \in Instruction, SegLoaded(i) # "none", NoStep(i)
  PROVE  decode_segreg(i) = Unchanged
<1>1. Opcode(i) = \h0f /\ i.op = \h0f /\ i.modrm \in FarLoads2
  BY LoadForms DEF NoStep
<1>2. i.modrm \notin PopSegs2
  BY <1>1 DEF FarLoads2, PopSegs2
<1>3. instr_len(i) = 0
  BY <1>1 DEF instr_len, NoLength
<1>4. SegStep(i) = 0 /\ SegPopped(i) = 0
  BY <1>1, <1>2, <1>3 DEF SegStep, Step, SegPopped, Jumps, FarReturns, PopSegs
<1> QED BY <1>4 DEF decode_segreg, Unchanged

-----------------------------------------------------------------------------
(* What is kept of the last fault.                                         *)

LEMMA Below15 == \A n \in Nat : n < 15 => n \in 0 .. 14
OBVIOUS

LEMMA SumOfLengths ==
  \A a \in 0 .. 14, b \in 1 .. 12 : a + b \in 0 .. 32 /\ a + 1 \in 0 .. 32 /\ a + 2 \in 0 .. 32
OBVIOUS

LEMMA LengthType ==
  ASSUME NEW i \in Insns
  PROVE  instr_len(i) \in 0 .. 32 /\ Len(i.prefixes) \in 0 .. 14
<1>1. Len(i.prefixes) \in 0 .. 14
  <2>1. i.prefixes \in Seq(Byte) /\ Len(i.prefixes) < 15
    BY InsnsAssumption DEF MaxLen, Instruction
  <2>2. Len(i.prefixes) \in Nat
    BY <2>1
  <2> QED BY <2>1, <2>2, Below15
<1>2. \A asp : arg_len(i, asp) \in 1 .. 6
  BY DEF arg_len
<1>3. BodyLen(i) \in 1 .. 12
  BY <1>2 DEF BodyLen
<1>4. Len(i.prefixes) + BodyLen(i) \in 0 .. 32
  BY <1>1, <1>3, SumOfLengths
<1>5. instr_len(i) \in {0, Len(i.prefixes) + BodyLen(i)}
  BY DEF instr_len
<1>6. 0 \in 0 .. 32
  OBVIOUS
<1> QED BY <1>1, <1>4, <1>5, <1>6

LEMMA MemopType ==
  ASSUME NEW i \in Insns
  PROVE  decode_memop(i) \in Changes /\ Unchanged \in Changes
<1>1. operand_size(i) \in 0 .. 6 /\ StoreLen(i) \in 0 .. 6
  BY SizeType, StoreLenType
<1>2. Popped(i) \in Nat /\ StringStep(i) \in 0 .. 6
  BY <1>1 DEF Popped, StringStep
<1>3. \A n : BinaryFlags(n) \in SUBSET Flags
  BY DEF BinaryFlags
<1>4. Unchanged \in Changes
  BY DEF Unchanged, Changes
<1> QED BY <1>1, <1>2, <1>3, <1>4, LengthType DEF decode_memop, Changes

LEMMA PoppedBytes ==
  ASSUME NEW n \in 0 .. 6, NEW m \in 0 .. 255, NEW k \in 0 .. 255
  PROVE  2 * n \in Nat /\ 2 * n + m + 256 * k \in Nat /\ 3 * n \in Nat /\ n \in Nat
OBVIOUS

LEMMA SegregType ==
  ASSUME NEW i \in Insns
  PROVE  decode_segreg(i) \in Changes
<1>1. operand_size(i) \in 0 .. 6 /\ i.modrm \in 0 .. 255 /\ i.sib \in 0 .. 255
  BY SizeType, InsnsAssumption DEF Instruction, Byte
<1>2. SegPopped(i) \in Nat
  <2>1. SegPopped(i) \in {2 * operand_size(i), 2 * operand_size(i) + i.modrm + 256 * i.sib,
                         3 * operand_size(i), operand_size(i), 0}
    BY DEF SegPopped, PopSegs
  <2>2. PICK n \in 0 .. 6, m \in 0 .. 255, k \in 0 .. 255 :
          n = operand_size(i) /\ m = i.modrm /\ k = i.sib
    BY <1>1
  <2>3. SegPopped(i) \in {2 * n, 2 * n + m + 256 * k, 3 * n, n, 0}
    BY <2>1, <2>2
  <2>4. {2 * n, 2 * n + m + 256 * k, 3 * n, n, 0} \subseteq Nat
    BY PoppedBytes
  <2> QED BY <2>3, <2>4
<1>3. SegStep(i) \in 0 .. 32
  <2>1. SegStep(i) \in {0, Len(i.prefixes) + 1, Len(i.prefixes) + 2, instr_len(i)}
    BY DEF SegStep, Step, Jumps, FarReturns, PopSegs
  <2>2. 0 \in 0 .. 32 /\ 1 \in 1 .. 12
    OBVIOUS
  <2> QED BY <2>1, <2>2, LengthType, SumOfLengths
<1>4. decode_segreg(i) \in {Unchanged, [len |-> 0, eip |-> SegStep(i), esp |-> SegPopped(i),
                                        esi |-> 0, edi |-> 0, flags |-> {}]}
  BY DEF decode_segreg, Unchanged
<1>5. [len |-> 0, eip |-> SegStep(i), esp |-> SegPopped(i), esi |-> 0, edi |-> 0, flags |-> {}]
        \in Changes
  BY <1>2, <1>3 DEF Changes
<1> QED BY <1>4, <1>5, MemopType

Answered(i) ==
  \/ \E o \in Offsets : \/ fault = PageFaulted(i, FALSE, Unchanged, o)
                        \/ Decodes(i) /\ fault = PageFaulted(i, TRUE, decode_memop(i), o)
  \/ fault = SelFaulted(i, FALSE, Unchanged, "none")
  \/ SegLoaded(i) # "none" /\ fault = SelFaulted(i, TRUE, decode_segreg(i), SegLoaded(i))

LEMMA Kinds ==
  ASSUME NEW i, NEW handled, NEW change, NEW x
  PROVE  /\ PageFaulted(i, handled, change, x).kind = "page"
         /\ SelFaulted(i, handled, change, x).kind = "selector"
         /\ NoFault.kind = "none"
BY DEF PageFaulted, SelFaulted, NoFault

LEMMA Parts ==
  ASSUME NEW i, NEW handled, NEW change, NEW x,
         fault = PageFaulted(i, handled, change, x) \/ fault = SelFaulted(i, handled, change, x)
  PROVE  fault.insn = i /\ fault.handled = handled /\ fault.change = change
BY DEF PageFaulted, SelFaulted

FaultInv == (fault = NoFault \/ \E i \in Insns : Answered(i)) /\ aborted \in BOOLEAN

LEMMA FaultInvHolds == Spec => []FaultInv
<1>1. Init => FaultInv
  BY DEF Init, FaultInv
<1>2. FaultInv /\ [Next]_vars => FaultInv'
  <2> SUFFICES ASSUME FaultInv, [Next]_vars PROVE FaultInv'
    OBVIOUS
  <2>1. CASE Between \/ Resume \/ UNCHANGED vars
    BY <2>1 DEF Between, Resume, vars, FaultInv, Answered
  <2>2. ASSUME NEW i \in Insns, NEW e \in Entry, NEW o \in Offsets, NEW new \in Descriptor,
               msdos_ldt_pagefault(i, e, o, new)
        PROVE  FaultInv'
    BY <2>2 DEF msdos_ldt_pagefault, FaultInv, Answered, Undecoded
  <2>3. ASSUME NEW i \in Insns, NEW special \in Special, NEW found \in BOOLEAN,
               msdos_fault(i, special, found)
        PROVE  FaultInv'
    BY <2>3 DEF msdos_fault, FaultInv, Answered
  <2> QED BY <2>1, <2>2, <2>3 DEF Next
<1> QED BY <1>1, <1>2, PTL DEF Spec

\* Type correctness, with the bounds of what an instruction may change.
THEOREM FaultsTypeCorrect == Spec => []TypeOK
<1>1. LdtInv /\ FaultInv => TypeOK
  <2> SUFFICES ASSUME LdtInv, FaultInv PROVE TypeOK
    OBVIOUS
  <2>1. ASSUME NEW i \in Insns, Answered(i)
        PROVE  fault.insn \in Insns /\ fault.handled \in BOOLEAN /\ fault.change \in Changes
    BY <2>1, MemopType, SegregType, Parts DEF Answered
  <2> QED BY <2>1 DEF FaultInv, LdtInv, TypeOK
<1> QED BY <1>1, FaultsInv, FaultInvHolds, PTL

\* A program goes on after a write to the alias as if the processor had executed it, in
\* 16 bit code with all prefixes but a size prefix an even number of times, in 32 bit code
\* after stores of a byte; INC and DEC leave the flags as they were.
THEOREM AlwaysAsExecuted == Spec => []AsExecuted
<1>1. FaultInv => AsExecuted
  <2> SUFFICES ASSUME FaultInv, fault.kind = "page"
               PROVE  LET i == fault.insn
                      IN IF ~fault.handled THEN fault.change = Unchanged
                         ELSE Follows(i, WideStore(i)) =>
                                fault.change =
                                  [Executed(i) EXCEPT !.flags = IF Counts(i) THEN {} ELSE @]
    BY DEF AsExecuted
  <2>1. PICK i \in Insns : Answered(i)
    BY DEF FaultInv, NoFault
  <2>2. PICK o \in Offsets : \/ fault = PageFaulted(i, FALSE, Unchanged, o)
                             \/ Decodes(i) /\ fault = PageFaulted(i, TRUE, decode_memop(i), o)
    BY <2>1, Kinds DEF Answered
  <2>3. CASE fault = PageFaulted(i, FALSE, Unchanged, o)
    BY <2>3, Parts
  <2>4. CASE Decodes(i) /\ fault = PageFaulted(i, TRUE, decode_memop(i), o)
    <3>1. fault.insn = i /\ fault.handled /\ fault.change = decode_memop(i)
      BY <2>4, Parts
    <3> QED BY <2>4, <3>1, StoreAgrees
  <2> QED BY <2>2, <2>3, <2>4
<1> QED BY <1>1, FaultInvHolds, PTL

\* An instruction that loads a segment register, and that the decoder follows, is not
\* executed twice and leaves the stack where the processor would; lss, lfs and lgs are
\* executed again.
THEOREM SegAlwaysExecuted == Spec => []SegExecuted
<1>1. FaultInv => SegExecuted
  <2> SUFFICES ASSUME FaultInv, fault.kind = "selector", fault.handled
               PROVE  LET i == fault.insn
                      IN IF NoStep(i) THEN fault.change = Unchanged
                         ELSE Follows(i, WideLoad(i)) =>
                           /\ fault.change.esp = TrueSegPopped(i)
                           /\ fault.change.eip = IF Jumps(i) THEN 0 ELSE TrueLen(i)
    BY DEF SegExecuted
  <2>1. PICK i \in Insns : Answered(i)
    BY DEF FaultInv, NoFault
  <2>2. /\ SegLoaded(i) # "none"
        /\ fault.insn = i /\ fault.change = decode_segreg(i)
    <3>1. CASE SegLoaded(i) # "none" /\ fault = SelFaulted(i, TRUE, decode_segreg(i), SegLoaded(i))
      BY <3>1, Parts
    <3>2. fault # SelFaulted(i, FALSE, Unchanged, "none")
      BY Parts
    <3>3. \A o : /\ fault # PageFaulted(i, FALSE, Unchanged, o)
                 /\ fault # PageFaulted(i, TRUE, decode_memop(i), o)
      BY DEF PageFaulted
    <3> QED BY <2>1, <3>1, <3>2, <3>3 DEF Answered
  <2>3. i \in Instruction
    BY InsnsAssumption
  <2> QED BY <2>2, <2>3, LoadAgrees, NoStepStays
<1> QED BY <1>1, FaultInvHolds, PTL

-----------------------------------------------------------------------------
(* When the assert of decode_memop fails.                                  *)

\* The assert fails for 32 bit code alone, where the signed bit field makes the operand
\* size 0, or 6 with a prefix: for every store of more than a byte, but the plain ones
\* with a prefix, which are taken to store six bytes.
THEOREM AssertFailsExactly ==
  \A i \in Instruction :
    ~Asserts(i) <=>
      /\ Decodes(i) /\ i.is_32
      /\ i.op \in SizedStores \/ (i.op \in PlainStores /\ ~Odd(Count(i, \h66)))
<1> TAKE i \in Instruction
<1>1. Decodes(i) => Opcode(i) = i.op /\ i.op \in ByteStores \cup SizedStores \cup PlainStores
  BY OneOpcode DEF Decodes
<1>2. /\ \A b \in ByteStores : b \notin SizedStores /\ b \notin PlainStores
      /\ \A b \in SizedStores : b \notin PlainStores
  BY DEF ByteStores, SizedStores, PlainStores
<1>3. CASE ~i.is_32
  <2>1. operand_size(i) \in {2, 4}
    BY <1>3 DEF operand_size, Flipped, CodeSize, Field32
  <2> QED BY <1>3, <2>1 DEF Asserts, StoreLen
<1>4. CASE i.is_32
  <2>1. operand_size(i) = IF Odd(Count(i, \h66)) THEN 6 ELSE 0
    BY <1>4 DEF operand_size, Flipped, CodeSize, Field32
  <2> QED BY <1>1, <1>2, <1>4, <2>1 DEF Asserts, StoreLen
<1> QED BY <1>3, <1>4

\* A 16 bit program never stops the provider by what it writes to the alias.
THEOREM NarrowCodeNeverAborts ==
  ASSUME \A i \in Insns : ~i.is_32
  PROVE  Spec => []~aborted
<1>1. Init => ~aborted
  BY DEF Init
<1>2. ~aborted /\ [Next]_vars => ~aborted'
  <2> SUFFICES ASSUME ~aborted, [Next]_vars PROVE ~aborted'
    OBVIOUS
  <2>1. CASE Between \/ Resume \/ UNCHANGED vars
    BY <2>1 DEF Between, Resume, vars
  <2>2. ASSUME NEW i \in Insns, NEW e \in Entry, NEW o \in Offsets, NEW new \in Descriptor,
               msdos_ldt_pagefault(i, e, o, new)
        PROVE  ~aborted'
    <3>1. Asserts(i)
      BY AssertFailsExactly, InsnsAssumption
    <3> QED BY <2>2, <3>1 DEF msdos_ldt_pagefault
  <2>3. ASSUME NEW i \in Insns, NEW special \in Special, NEW found \in BOOLEAN,
               msdos_fault(i, special, found)
        PROVE  ~aborted'
    BY <2>3 DEF msdos_fault
  <2> QED BY <2>1, <2>2, <2>3 DEF Next
<1> QED BY <1>1, <1>2, PTL DEF Spec
=============================================================================
