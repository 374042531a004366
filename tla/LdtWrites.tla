------------------------------ MODULE LdtWrites ------------------------------
(***************************************************************************)
(* Direct writes to the LDT (msdos/msdos_ldt.c).  Programs see the LDT      *)
(* through an alias that is mapped read only onto a back buffer.  The host  *)
(* passes its own changes to the buffer (msdos_ldt_update); a write of a    *)
(* program faults, and direct_ldt_write makes the change for it, in the     *)
(* host's LDT and in the buffer.                                            *)
(*                                                                         *)
(* A descriptor is its access byte (byte 5, here P and S) and the bytes 0   *)
(* to 3 as one value.  The DPMI host is external.                           *)
(***************************************************************************)
EXTENDS Integers

CONSTANTS
  Entry,    \* LDT entries
  Value,    \* what bytes 0 to 3 may hold
  Zeros,    \* all zeros
  SegReg    \* the segment registers a data selector may be in

ASSUME ZerosAssumption == Zeros \in Value

VARIABLES
  allocated,   \* the entries that the host has allocated
  ldt,         \* the host's descriptors
  backbuf,     \* what programs see
  refused,     \* entries whose last SetDescriptor the host refused
  segregs,     \* the entry whose selector each register holds, None if none
  entry_upd    \* the entry whose callouts are not passed on, None (-1) if none

CONSTANT None
ASSUME NoneAssumption == None \notin Entry

ldtVars == <<allocated, ldt, backbuf, refused, segregs, entry_upd>>

Descriptor == [low : Value, p : BOOLEAN, s : BOOLEAN]

Zero == [low |-> Zeros, p |-> FALSE, s |-> FALSE]
\* What the host gives: a present data segment.
Default == [low |-> Zeros, p |-> TRUE, s |-> TRUE]
\* memset(0), lp1[5] |= 0x70: a data segment that is not present.
Marker == [low |-> Zeros, p |-> FALSE, s |-> TRUE]

LdtInit ==
  /\ allocated = {}
  /\ ldt = [e \in Entry |-> Zero]
  /\ backbuf = [e \in Entry |-> Zero]
  /\ refused = {}
  /\ segregs = [r \in SegReg |-> None]
  /\ entry_upd = None

-----------------------------------------------------------------------------
(* The host's own changes, each followed by msdos_ldt_update.              *)

msdos_ldt_update(e, d) ==
  /\ backbuf' = IF e # entry_upd THEN [backbuf EXCEPT ![e] = d] ELSE backbuf
  /\ UNCHANGED entry_upd

FreeSegRegs(e) == [r \in SegReg |-> IF segregs[r] = e THEN None ELSE segregs[r]]

HostAllocate(e) ==
  /\ e \notin allocated
  /\ allocated' = allocated \cup {e}
  /\ ldt' = [ldt EXCEPT ![e] = Default]
  /\ msdos_ldt_update(e, Default)
  /\ UNCHANGED <<refused, segregs>>

\* INT 31h functions that change a descriptor: the host takes segments only.
HostSet(e, d) ==
  /\ e \in allocated
  /\ d.s
  /\ ldt' = [ldt EXCEPT ![e] = d]
  /\ msdos_ldt_update(e, d)
  /\ refused' = refused \ {e}
  /\ UNCHANGED <<allocated, segregs>>

HostFree(e) ==
  /\ e \in allocated
  /\ allocated' = allocated \ {e}
  /\ ldt' = [ldt EXCEPT ![e] = Zero]
  /\ msdos_ldt_update(e, Zero)
  /\ refused' = refused \ {e}
  /\ segregs' = FreeSegRegs(e)

\* The processor loads a register with the selector of a present descriptor.
LoadSeg(r, e) ==
  /\ e \in allocated /\ ldt[e].p
  /\ segregs' = [segregs EXCEPT ![r] = e]
  /\ UNCHANGED <<allocated, ldt, backbuf, refused, entry_upd>>

\* ... or with another selector, one that is never freed.
LoadOther(r) ==
  /\ segregs' = [segregs EXCEPT ![r] = None]
  /\ UNCHANGED <<allocated, ldt, backbuf, refused, entry_upd>>

-----------------------------------------------------------------------------
(* direct_ldt_write.                                                       *)

\* len bytes of new are written at offset o of an entry.
Written(old, o, len, new) ==
  LET access == 5 \in o .. o + len - 1
  IN [low |-> IF o < 4 /\ len > 0 THEN new.low ELSE old.low,
      p   |-> IF access THEN new.p ELSE old.p,
      s   |-> IF access THEN new.s ELSE old.s]

\* Faulty variants: the bytes that are kept always come from the host; a system
\* descriptor is passed on; the registers are left alone.
GetDescriptor(e) == ldt[e]
IsSegmentAlways(d) == TRUE
RegsKept(e) == segregs

\* The bytes that are kept come from the host while the descriptor is present: what
\* the program wrote of one that is not is in the back buffer only.
Kept(e) == IF ldt[e].p THEN ldt[e] ELSE backbuf[e]

\* lp[5] & 0x10
IsSegment(d) == d.s

RegsFreed(e) == FreeSegRegs(e)

\* What the host has of an entry when it refuses a change.
Held(e) == IF e \in allocated THEN ldt[e] ELSE Default

\* The descriptor that the program makes of d is stored, in the host's LDT as far
\* as the host takes it.  SetDescriptor's answer is not looked at.
Store(e, d) ==
  /\ \/ /\ ldt' = [ldt EXCEPT ![e] = IF IsSegment(d) THEN d ELSE Marker]
        /\ refused' = refused \ {e}
     \/ /\ ldt' = [ldt EXCEPT ![e] = Held(e)]
        /\ refused' = refused \cup {e}
  /\ segregs' = IF IsSegment(d) THEN segregs ELSE RegsFreed(e)
  /\ backbuf' = [backbuf EXCEPT ![e] = d]

\* Where the write ends, and a faulty variant that skips it when nothing was written.
OutSkipped(e) == IF e \in allocated' THEN None ELSE e
Out(e)        == None

\* The host calls that this makes call msdos_ldt_update for e, where entry_upd is e by
\* then: they pass nothing on, and the write itself is all that the buffer gets.  A free
\* entry is allocated first; when the host has none, the write is lost.
direct_ldt_write(e, o, len, new) ==
  /\ \/ /\ e \in allocated
        /\ Store(e, Written(Kept(e), o, len, new))
        /\ UNCHANGED allocated
     \/ /\ e \notin allocated
        /\ allocated' = allocated \cup {e}
        /\ Store(e, Written(Default, o, len, new))
     \/ e \notin allocated /\ UNCHANGED <<allocated, ldt, backbuf, refused, segregs>>
  /\ entry_upd' = Out(e)

\* The whole write lies in one entry: past it, memcpy leaves the array lp.
InEntry(o, len) == len > 0 /\ o + len <= 8

-----------------------------------------------------------------------------
HostNext ==
  \/ \E e \in Entry : HostAllocate(e) \/ HostFree(e) \/ \E d \in Descriptor : HostSet(e, d)
  \/ \E r \in SegReg : LoadOther(r) \/ \E e \in Entry : LoadSeg(r, e)

LdtNext ==
  \/ HostNext
  \/ \E e \in Entry, o \in 0 .. 7, len \in 0 .. 8, new \in Descriptor :
       InEntry(o, len) /\ direct_ldt_write(e, o, len, new)

LdtSpec == LdtInit /\ [][LdtNext]_ldtVars

-----------------------------------------------------------------------------
(* Properties.                                                             *)

LdtTypeOK ==
  /\ allocated \subseteq Entry
  /\ ldt \in [Entry -> Descriptor]
  /\ backbuf \in [Entry -> Descriptor]
  /\ refused \subseteq Entry
  /\ segregs \in [SegReg -> Entry \cup {None}]
  /\ entry_upd \in Entry \cup {None}

\* Whatever a program writes through the alias, piece by piece, the host's LDT never
\* holds a system descriptor: a gate or a TSS of the program's making.
NoSystemDescriptor == \A e \in allocated : ldt[e].s

\* What a program sees is what the host has, except that an entry that is not yet a
\* segment is kept from the host, and that the host refused the last change.
AliasTrue ==
  /\ \A e \in allocated \ refused :
       ldt[e] = IF backbuf[e].s THEN backbuf[e] ELSE Marker
  /\ \A e \in Entry \ allocated : backbuf[e] = Zero

\* No data segment register is left with the selector of an entry that was freed or,
\* unless the host refused that, made into something that is not a segment.
RegistersValid ==
  \A r \in SegReg : segregs[r] # None =>
    /\ segregs[r] \in allocated
    /\ segregs[r] \in refused \/ backbuf[segregs[r]].s
=============================================================================
