------------------------------ MODULE PmMemory ------------------------------
(***************************************************************************)
(* The memory services of the translator (msdos/msdos.c): INT 21h AH=48h,  *)
(* 49h and 4Ah give a protected mode client DPMI blocks.  The client knows *)
(* its blocks by selector; the translator knows them by the base address   *)
(* of the segment, which it looks up in mem_map.  A freed entry keeps its  *)
(* base and its handle: only its size tells that it is free.               *)
(*                                                                         *)
(* The DPMI host is external: it chooses addresses and handles, refuses,   *)
(* and may reuse what was freed at once.                                   *)
(***************************************************************************)
EXTENDS Naturals

CONSTANTS
  MapSize,      \* MSDOS_MAX_MEM_ALLOCS
  Base,         \* addresses the host gives to blocks
  ForeignBase,  \* bases of the client's other segments
  Handle,       \* handles of the host's blocks
  Selector      \* free descriptors

ASSUME MapAssumption == MapSize \in Nat \ {0}
\* Memory that is not the client's to free starts elsewhere, and not at 0: an
\* entry that was never used has base 0.
ASSUME BaseAssumption ==
  /\ Base \subseteq Nat \ {0} /\ ForeignBase \subseteq Nat \ {0}
  /\ Base \cap ForeignBase = {}
ASSUME HandleAssumption == Handle \subseteq Nat \ {0}

VARIABLES
  active,       \* is there a client?
  mem_map,      \* the translator's table; used stands for size # 0
  blocks,       \* the client's blocks, as the host knows them
  segments,     \* the base of each selector the client got from AH=48h
  overflow,     \* was a block not recorded because mem_map was full?
  reply         \* the last answer

vars == <<active, mem_map, blocks, segments, overflow, reply>>

Slots  == 1 .. MapSize
Entry  == [base : Base \cup {0}, handle : Handle \cup {0}, used : BOOLEAN]
Block  == [base : Base, handle : Handle]
Unused == [base |-> 0, handle |-> 0, used |-> FALSE]
NoSeg  == 0
Ops    == {"enter", "allocate", "free", "resize", "exit"}

Reply(op, base, ok) == [op |-> op, base |-> base, ok |-> ok]

Init ==
  /\ active = FALSE
  /\ mem_map = [i \in Slots |-> Unused]
  /\ blocks = {}
  /\ segments = [s \in Selector |-> NoSeg]
  /\ overflow = FALSE
  /\ reply = Reply("exit", 0, TRUE)

-----------------------------------------------------------------------------
(* The host.                                                               *)

Bases   == {b.base : b \in blocks}
Handles == {b.handle : b \in blocks}

\* Blocks the host could give.
Fresh == {b \in Block : b.base \notin Bases /\ b.handle \notin Handles}

\* What is left after DPMIfree(handle); an unknown handle is an error nobody reads.
DPMIfree(handle) == {b \in blocks : b.handle # handle}

-----------------------------------------------------------------------------
(* mem_map.                                                                *)

IsFirst(i, S) == i \in S /\ \A j \in S : i <= j
IsLast(i, S)  == i \in S /\ \A j \in S : j <= i

FreeSlots     == {i \in Slots : ~mem_map[i].used}
Matches(addr) == {i \in Slots : mem_map[i].base = addr}

\* A faulty variant: the entry of a freed block stays in use.
NotFreed(i) == mem_map
Freed(i) == [mem_map EXCEPT ![i].used = FALSE]

\* A faulty variant: the last free entry is taken, not the first.
IsLastFree(i)  == IsLast(i, FreeSlots)
IsFirstFree(i) == IsFirst(i, FreeSlots)

EntryOf(b) == [base |-> b.base, handle |-> b.handle, used |-> TRUE]

Record(b) ==
  \/ /\ FreeSlots = {}
     /\ overflow' = TRUE
     /\ UNCHANGED mem_map
  \/ \E i \in Slots :
       /\ IsFirstFree(i)
       /\ mem_map' = [mem_map EXCEPT ![i] = EntryOf(b)]
       /\ UNCHANGED overflow

msdos_malloc(b) == blocks' = blocks \cup {b} /\ Record(b)

-----------------------------------------------------------------------------
(* The client comes and goes.                                              *)

\* msdos_init: the slot of the client is zeroed; the first client of its kind
\* gets a block for the register structure of the real mode callbacks.
msdos_init ==
  /\ ~active
  /\ active' = TRUE
  /\ \/ /\ mem_map' = [i \in Slots |-> Unused]
        /\ UNCHANGED <<blocks, overflow>>
     \/ \E b \in Fresh :
          /\ blocks' = blocks \cup {b}
          /\ mem_map' = [i \in Slots |-> IF i = 1 THEN EntryOf(b) ELSE Unused]
          /\ UNCHANGED overflow
  /\ reply' = Reply("enter", 0, TRUE)
  /\ UNCHANGED segments

\* msdos_done, with msdos_free_mem; the host then drops the client's descriptors.
msdos_done ==
  /\ active
  /\ active' = FALSE
  /\ blocks' = {b \in blocks : \A i \in Slots : mem_map[i].used => b.handle # mem_map[i].handle}
  /\ mem_map' = [i \in Slots |-> [mem_map[i] EXCEPT !.used = FALSE]]
  /\ segments' = [s \in Selector |-> NoSeg]
  /\ reply' = Reply("exit", 0, TRUE)
  /\ UNCHANGED overflow

-----------------------------------------------------------------------------
(* AH=48h.  The block stays the client's even if no descriptor is left for it. *)

Allocate ==
  /\ active
  /\ UNCHANGED active
  /\ \/ /\ UNCHANGED <<mem_map, blocks, segments, overflow>>
        /\ reply' = Reply("allocate", 0, FALSE)
     \/ \E b \in Fresh :
          /\ msdos_malloc(b)
          /\ \/ \E s \in Selector :
                  segments[s] = NoSeg /\ segments' = [segments EXCEPT ![s] = b.base]
             \/ (\A s \in Selector : segments[s] # NoSeg) /\ UNCHANGED segments
          /\ reply' = Reply("allocate", b.base, TRUE)

-----------------------------------------------------------------------------
(* AH=49h and AH=4Ah, on the base of ES.                                   *)

\* ES holds a selector AH=48h gave the client, or another of its segments.
Es ==
  {[sel |-> {s}, base |-> segments[s]] : s \in {t \in Selector : segments[t] # NoSeg}}
    \cup {[sel |-> {}, base |-> a] : a \in ForeignBase}

\* A faulty variant: the descriptor in ES is left alone.
KeepBase(es, addr) == UNCHANGED segments

\* The descriptor in ES is freed, or set to a new base.
SetBase(es, addr) ==
  segments' = [s \in Selector |-> IF s \in es.sel THEN addr ELSE segments[s]]

Free(es) ==
  /\ active
  /\ \/ \E i \in Slots :
          /\ IsFirst(i, Matches(es.base))
          /\ blocks' = DPMIfree(mem_map[i].handle)
          /\ mem_map' = Freed(i)
          /\ SetBase(es, NoSeg)
          /\ reply' = Reply("free", es.base, TRUE)
     \/ /\ Matches(es.base) = {}
        /\ UNCHANGED <<mem_map, blocks, segments>>
        /\ reply' = Reply("free", es.base, FALSE)
  /\ UNCHANGED <<active, overflow>>

\* What DPMIrealloc may make of block b: it may move, and have another handle.
DPMIrealloc(b) ==
  {d \in Block : /\ d.base \in {b.base} \cup (Base \ Bases)
                /\ d.handle \in {b.handle} \cup (Handle \ Handles)}

Resize(es) ==
  /\ active
  /\ \/ \E i \in Slots, b \in blocks :
          /\ IsFirst(i, Matches(es.base))
          /\ mem_map[i].used
          /\ b.handle = mem_map[i].handle
          /\ \E d \in DPMIrealloc(b) :
               /\ blocks' = (blocks \ {b}) \cup {d}
               /\ mem_map' = [mem_map EXCEPT ![i] = EntryOf(d)]
               /\ SetBase(es, d.base)
          /\ reply' = Reply("resize", es.base, TRUE)
     \/ \* refused by the host, or no block of that base in use
        /\ UNCHANGED <<mem_map, blocks, segments>>
        /\ reply' = Reply("resize", es.base, FALSE)
  /\ UNCHANGED <<active, overflow>>

-----------------------------------------------------------------------------
Next ==
  \/ msdos_init
  \/ msdos_done
  \/ Allocate
  \/ \E es \in Es : Free(es) \/ Resize(es)

Spec == Init /\ [][Next]_vars

\* A step in which the host moves no block to where an earlier entry of mem_map says
\* that one was freed.
NoStaleMove ==
  \A i, j \in Slots :
    j < i /\ mem_map[i].used /\ mem_map'[i].used /\ mem_map'[i].base # mem_map[i].base
      => mem_map[j].base # mem_map'[i].base

\* The host may do as it likes but for that.
CarefulSpec == Init /\ [][Next /\ NoStaleMove]_vars

-----------------------------------------------------------------------------
(* Properties.                                                             *)

TypeOK ==
  /\ active \in BOOLEAN
  /\ mem_map \in [Slots -> Entry]
  /\ blocks \subseteq Block
  /\ segments \in [Selector -> Base \cup {NoSeg}]
  /\ overflow \in BOOLEAN
  /\ reply \in [op : Ops, base : Base \cup ForeignBase \cup {0}, ok : BOOLEAN]

\* An entry in use is a block of the host's, at the address the host knows.
EntriesTrue ==
  \A i \in Slots :
    mem_map[i].used => [base |-> mem_map[i].base, handle |-> mem_map[i].handle] \in blocks

\* The entries msdos_free and msdos_realloc pass on the way to a block in use are
\* of other bases, stale ones included: the first match by base is the block.
NoShadow ==
  \A i, j \in Slots : j < i /\ mem_map[i].used => mem_map[j].base # mem_map[i].base

\* mem_map knows every block, so that msdos_done frees it.
AllRecorded ==
  \A b \in blocks : \E i \in Slots : mem_map[i].used /\ mem_map[i].handle = b.handle

\* A block that mem_map had no room for is not taken for another, freed or in use: AH=49h
\* and 4Ah refuse it.
NoneMistaken ==
  \A b \in blocks, i \in Slots :
    mem_map[i].base = b.base => \E j \in Slots : mem_map[j].used /\ mem_map[j].handle = b.handle

\* What mem_map says is true, stale entries and overflow notwithstanding, and it says all
\* until a block comes that it has no room for.
MapTrue ==
  /\ EntriesTrue /\ NoShadow /\ NoneMistaken
  /\ ~overflow => AllRecorded

\* The selectors the client got keep naming blocks of its own, one each, those that
\* mem_map had no room for among them.
SegmentsLive ==
  \A s \in Selector : segments[s] # NoSeg =>
    /\ segments[s] \in Bases
    /\ \A t \in Selector : segments[t] = segments[s] => t = s

\* A block that was freed with success is gone.
FreeFrees ==
  [][reply'.op = "free" /\ reply'.ok => reply'.base \notin Bases']_vars

\* What the client is promised, and gets until mem_map overflows.
Service == INSTANCE MemoryService WITH held <- Bases
MemorySpec == Service!Init /\ [][overflow' \/ Service!Next]_<<Bases, reply>>
=============================================================================
