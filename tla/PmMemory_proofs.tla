--------------------------- MODULE PmMemory_proofs ---------------------------
(***************************************************************************)
(* Proofs about the memory services: as long as the host moves no block to *)
(* where an earlier entry was freed, the first entry with the base of a    *)
(* block is the block's own, stale entries and an overflow of mem_map      *)
(* notwithstanding, and until an overflow the client gets the service it   *)
(* is promised.                                                            *)
(***************************************************************************)
EXTENDS PmMemory, TLAPS

\* Blocks do not share an address or a handle: what the DPMI host promises.
HostSound ==
  \A b, c \in blocks : b.base = c.base \/ b.handle = c.handle => b = c

\* Without a client no entry is in use.
IdleUnused == ~active => \A i \in Slots : ~mem_map[i].used

\* What mem_map says, and what it says of every block until it overflows.
Good == EntriesTrue /\ NoShadow /\ NoneMistaken /\ IdleUnused /\ SegmentsLive
Full == AllRecorded /\ (~active => blocks = {})

IInv == TypeOK /\ HostSound /\ Good /\ (~overflow => Full)

-----------------------------------------------------------------------------
\* The entry that msdos_free and msdos_realloc find by the address of a block is
\* the entry of that block.
LEMMA FirstMatchOwns ==
  ASSUME TypeOK, HostSound, EntriesTrue, NoShadow, NoneMistaken,
         NEW b \in blocks, NEW i \in Slots, IsFirst(i, Matches(b.base))
  PROVE  mem_map[i].used /\ mem_map[i].handle = b.handle /\ mem_map[i].base = b.base
<1>1. PICK k \in Slots : mem_map[k].used /\ mem_map[k].handle = b.handle
  BY DEF NoneMistaken, IsFirst, Matches
<1>2. [base |-> mem_map[k].base, handle |-> mem_map[k].handle] \in blocks
  BY <1>1 DEF EntriesTrue
<1>3. mem_map[k].base = b.base
  BY <1>1, <1>2 DEF HostSound
<1>4. i <= k /\ mem_map[i].base = b.base
  BY <1>3 DEF IsFirst, Matches
<1>5. i = k
  BY <1>1, <1>3, <1>4, MapAssumption DEF NoShadow, Slots
<1> QED
  BY <1>1, <1>3, <1>5

\* A block in use is found: int 21/49 refuses no block of the client's.
LEMMA BlockMatches ==
  ASSUME HostSound, EntriesTrue, AllRecorded, NEW b \in blocks
  PROVE  Matches(b.base) # {}
<1>1. PICK k \in Slots : mem_map[k].used /\ mem_map[k].handle = b.handle
  BY DEF AllRecorded
<1>2. [base |-> mem_map[k].base, handle |-> mem_map[k].handle] \in blocks
  BY <1>1 DEF EntriesTrue
<1> QED
  BY <1>1, <1>2 DEF HostSound, Matches

\* A segment that is not a block is not found.
LEMMA ForeignUnmatched ==
  ASSUME TypeOK, NEW a \in ForeignBase
  PROVE  Matches(a) = {} /\ a \notin Bases
BY BaseAssumption DEF TypeOK, Entry, Block, Matches, Bases

\* What ES can hold when int 21/49 and int 21/4a are called.
LEMMA EsCases ==
  ASSUME TypeOK, NEW es \in Es
  PROVE  \/ es.base \in ForeignBase /\ es.sel = {}
         \/ \E s \in Selector : segments[s] # NoSeg /\ es.sel = {s} /\ es.base = segments[s]
BY DEF Es

\* The addresses of the blocks the client holds.
LEMMA BlockOfBase ==
  ASSUME NEW a \in Bases
  PROVE  \E b \in blocks : b.base = a
BY DEF Bases

-----------------------------------------------------------------------------
(* Type correctness.                                                       *)

TablesOK ==
  /\ mem_map \in [Slots -> Entry]
  /\ blocks \subseteq Block
  /\ segments \in [Selector -> Base \cup {NoSeg}]

ReplyOK == reply \in [op : Ops, base : Base \cup ForeignBase \cup {0}, ok : BOOLEAN]

\* The answers are answers.
LEMMA ReplyStep ==
  ASSUME TypeOK, [Next]_vars
  PROVE  ReplyOK'
<1>1. \A op \in Ops, a \in Base \cup ForeignBase \cup {0}, ok \in BOOLEAN :
        reply' = Reply(op, a, ok) => ReplyOK'
  BY DEF Reply, ReplyOK
<1>2. CASE msdos_init \/ msdos_done
  BY <1>1, <1>2 DEF msdos_init, msdos_done, Ops
<1>3. CASE Allocate
  <2>1. \A b \in Fresh : b.base \in Base
    BY DEF Fresh, Block
  <2> QED
    BY <1>1, <1>3, <2>1 DEF Allocate, Ops
<1>4. ASSUME NEW es \in Es, Free(es) \/ Resize(es) PROVE ReplyOK'
  <2>1. es.base \in Base \cup ForeignBase
    BY EsCases DEF TypeOK
  <2>2. \E op \in {"free", "resize"}, ok \in BOOLEAN : reply' = Reply(op, es.base, ok)
    BY <1>4 DEF Free, Resize
  <2> QED
    BY <1>1, <2>1, <2>2 DEF Ops
<1>5. CASE UNCHANGED vars
  BY <1>5 DEF vars, TypeOK, ReplyOK
<1> QED
  BY <1>2, <1>3, <1>4, <1>5 DEF Next

\* The tables of the translator and of the host keep their types.
LEMMA TablesStep ==
  ASSUME TypeOK, [Next]_vars
  PROVE  TablesOK'
<1> USE DEF TypeOK, TablesOK
<1>e. Unused \in Entry /\ \A b \in Block : EntryOf(b) \in Entry
  BY DEF Entry, Block, EntryOf, Unused
<1>f. \A b \in Fresh : b \in Block /\ b.base \in Base
  BY DEF Fresh, Block
<1>1. CASE msdos_init
  <2>1. CASE mem_map' = [i \in Slots |-> Unused] /\ UNCHANGED <<blocks, overflow>>
    BY <1>1, <1>e, <2>1 DEF msdos_init
  <2>2. ASSUME NEW b \in Fresh, blocks' = blocks \cup {b},
               mem_map' = [i \in Slots |-> IF i = 1 THEN EntryOf(b) ELSE Unused]
        PROVE  TablesOK'
    BY <1>1, <1>e, <1>f, <2>2 DEF msdos_init
  <2> QED
    BY <1>1, <2>1, <2>2 DEF msdos_init
<1>2. CASE msdos_done
  <2>1. mem_map' \in [Slots -> Entry]
    BY <1>2 DEF msdos_done, Entry
  <2>2. blocks' \subseteq Block /\ segments' \in [Selector -> Base \cup {NoSeg}]
    BY <1>2 DEF msdos_done
  <2> QED
    BY <2>1, <2>2
<1>3. CASE Allocate
  <2>1. CASE UNCHANGED <<mem_map, blocks, segments>>
    BY <2>1
  <2>2. ASSUME NEW b \in Fresh, msdos_malloc(b),
               \/ \E s \in Selector : segments' = [segments EXCEPT ![s] = b.base]
               \/ UNCHANGED segments
        PROVE  TablesOK'
    BY <2>2, <1>e, <1>f DEF msdos_malloc, Record
  <2> QED
    BY <1>3, <2>1, <2>2 DEF Allocate
<1>4. ASSUME NEW es \in Es, Free(es) \/ Resize(es) PROVE TablesOK'
  <2>1. \A c \in Base \cup {NoSeg} : SetBase(es, c) => segments' \in [Selector -> Base \cup {NoSeg}]
    BY DEF SetBase
  <2>2. CASE UNCHANGED <<mem_map, blocks, segments>>
    BY <2>2
  <2>3. ASSUME NEW i \in Slots, blocks' = DPMIfree(mem_map[i].handle), mem_map' = Freed(i),
               SetBase(es, NoSeg)
        PROVE  TablesOK'
    <3>1. mem_map' \in [Slots -> Entry]
      BY <2>3 DEF Freed, Entry
    <3> QED
      BY <2>1, <2>3, <3>1 DEF DPMIfree
  <2>4. ASSUME NEW i \in Slots, NEW b \in blocks, NEW d \in DPMIrealloc(b),
               blocks' = (blocks \ {b}) \cup {d},
               mem_map' = [mem_map EXCEPT ![i] = EntryOf(d)], SetBase(es, d.base)
        PROVE  TablesOK'
    <3>1. d \in Block /\ d.base \in Base
      BY DEF DPMIrealloc, Block
    <3>2. mem_map' \in [Slots -> Entry]
      BY <2>4, <3>1, <1>e
    <3> QED
      BY <2>1, <2>4, <3>1, <3>2
  <2>5. CASE Free(es)
    BY <2>2, <2>3, <2>5 DEF Free
  <2>6. CASE Resize(es)
    BY <2>2, <2>4, <2>6 DEF Resize
  <2> QED
    BY <1>4, <2>5, <2>6
<1>5. CASE UNCHANGED vars
  BY <1>5 DEF vars
<1> QED
  BY <1>1, <1>2, <1>3, <1>4, <1>5 DEF Next

\* The translator starts with its tables empty.
LEMMA TypeInit == Init => TypeOK
<1> SUFFICES ASSUME Init PROVE TypeOK
  OBVIOUS
<1>1. Unused \in Entry
  BY DEF Unused, Entry
<1>2. reply \in [op : Ops, base : Base \cup ForeignBase \cup {0}, ok : BOOLEAN]
  BY DEF Init, Reply, Ops
<1> QED
  BY <1>1, <1>2 DEF Init, TypeOK

\* No service breaks the types.
LEMMA TypeStep == TypeOK /\ [Next]_vars => TypeOK'
<1> SUFFICES ASSUME TypeOK, [Next]_vars PROVE TypeOK'
  OBVIOUS
<1>1. active' \in BOOLEAN /\ overflow' \in BOOLEAN
  BY DEF Next, vars, TypeOK, msdos_init, msdos_done, Allocate, msdos_malloc, Record,
     Free, Resize
<1> QED
  BY <1>1, ReplyStep, TablesStep DEF TypeOK, ReplyOK, TablesOK

\* The tables keep their types whatever the host answers and however full mem_map is.
THEOREM MemoryTypeCorrect == Spec => []TypeOK
BY TypeInit, TypeStep, PTL DEF Spec

-----------------------------------------------------------------------------
(* The table is true.                                                      *)

\* The host never gives two blocks the same room or the same handle.
LEMMA HostStep ==
  ASSUME HostSound, [Next]_vars
  PROVE  HostSound'
<1>1. \A b \in Fresh : blocks' = blocks \cup {b} => HostSound'
  BY DEF Fresh, Bases, Handles, HostSound
<1>2. CASE msdos_init \/ Allocate
  BY <1>1, <1>2 DEF msdos_init, Allocate, msdos_malloc, HostSound
<1>3. CASE msdos_done
  BY <1>3 DEF msdos_done, HostSound
<1>4. ASSUME NEW es \in Es, Free(es) PROVE HostSound'
  BY <1>4 DEF Free, DPMIfree, HostSound
<1>5. ASSUME NEW es \in Es, Resize(es) PROVE HostSound'
  <2>1. CASE UNCHANGED blocks
    BY <2>1 DEF HostSound
  <2>2. ASSUME NEW b \in blocks, NEW d \in DPMIrealloc(b), blocks' = (blocks \ {b}) \cup {d}
        PROVE  HostSound'
    <3>1. \A e \in blocks \ {b} : e.base # d.base /\ e.handle # d.handle
      BY DEF DPMIrealloc, Bases, Handles, HostSound
    <3> QED
      BY <2>2, <3>1 DEF HostSound
  <2> QED
    BY <1>5, <2>1, <2>2 DEF Resize
<1>6. CASE UNCHANGED vars
  BY <1>6 DEF vars, HostSound
<1> QED
  BY <1>2, <1>3, <1>4, <1>5, <1>6 DEF Next

\* An entry in use stands for a block.
LEMMA EntryBlock ==
  ASSUME EntriesTrue, NEW k \in Slots, mem_map[k].used
  PROVE  \E b \in blocks : b.base = mem_map[k].base /\ b.handle = mem_map[k].handle
<1> DEFINE e == [base |-> mem_map[k].base, handle |-> mem_map[k].handle]
<1>1. e \in blocks
  BY DEF EntriesTrue
<1>2. e.base = mem_map[k].base /\ e.handle = mem_map[k].handle
  OBVIOUS
<1> QED
  BY <1>1, <1>2

\* A new block is recorded before every entry that could shadow it, or not at all; then
\* every entry is in use, and none has its base.
LEMMA AllocateGood ==
  ASSUME TypeOK, HostSound, Good, Allocate
  PROVE  Good' /\ (~overflow' /\ AllRecorded => AllRecorded')
<1>1. CASE UNCHANGED <<mem_map, blocks, segments, overflow>>
  BY <1>1 DEF Allocate, Good, EntriesTrue, NoShadow, NoneMistaken, AllRecorded, IdleUnused,
     SegmentsLive, Bases
<1>2. ASSUME NEW b \in Fresh, msdos_malloc(b),
             \/ \E s \in Selector :
                  segments[s] = NoSeg /\ segments' = [segments EXCEPT ![s] = b.base]
             \/ UNCHANGED segments
      PROVE  Good' /\ (~overflow' /\ AllRecorded => AllRecorded')
  <2>1. /\ blocks' = blocks \cup {b} /\ b.base \notin Bases /\ b.base \in Base
        /\ b = [base |-> b.base, handle |-> b.handle]
    BY <1>2 DEF msdos_malloc, Fresh, Block
  <2>2. \A k \in Slots : mem_map[k].used => mem_map[k].base # b.base
    BY <2>1, EntryBlock DEF Good, Bases
  <2>3. SegmentsLive'
    <3>1. Bases' = Bases \cup {b.base}
      BY <2>1 DEF Bases
    <3>2. CASE UNCHANGED segments
      BY <3>1, <3>2 DEF Good, SegmentsLive
    <3>3. ASSUME NEW s \in Selector, segments[s] = NoSeg,
                 segments' = [segments EXCEPT ![s] = b.base]
          PROVE  SegmentsLive'
      <4>1. segments'[s] = b.base /\ \A t \in Selector : t # s => segments'[t] = segments[t]
        BY <3>3 DEF TypeOK
      <4>2. \A t \in Selector : segments[t] # NoSeg => segments[t] # b.base
        BY <2>1 DEF Good, SegmentsLive
      <4>3. \A t \in Selector : segments[t] # NoSeg => segments[t] \in Bases
        BY DEF Good, SegmentsLive
      <4>4. b.base # NoSeg
        BY <2>1, BaseAssumption DEF NoSeg
      <4> QED
        BY <3>1, <4>1, <4>2, <4>3, <4>4 DEF Good, SegmentsLive
    <3> QED
      BY <1>2, <3>2, <3>3
  <2>4. CASE FreeSlots = {} /\ overflow' /\ UNCHANGED mem_map
    <3>1. \A k \in Slots : mem_map[k].base # b.base
      BY <2>2, <2>4 DEF FreeSlots
    <3>2. EntriesTrue' /\ NoShadow' /\ NoneMistaken'
      BY <2>1, <2>4, <3>1 DEF Good, EntriesTrue, NoShadow, NoneMistaken
    <3> QED
      BY <2>3, <2>4, <3>2 DEF Good, IdleUnused, Allocate
  <2>5. ASSUME NEW i \in Slots,
               IsFirst(i, FreeSlots), mem_map' = [mem_map EXCEPT ![i] = EntryOf(b)]
        PROVE  Good' /\ (AllRecorded => AllRecorded')
    <3>1. ~mem_map[i].used
      BY <2>5 DEF IsFirst, FreeSlots
    <3>2. /\ mem_map'[i].base = b.base /\ mem_map'[i].handle = b.handle /\ mem_map'[i].used
          /\ \A k \in Slots : k # i => mem_map'[k] = mem_map[k]
      BY <2>5 DEF TypeOK, EntryOf
    <3>3. \A j \in Slots : j < i => mem_map[j].used
      BY <2>5, MapAssumption DEF IsFirst, FreeSlots, Slots
    <3>4. EntriesTrue'
      BY <2>1, <3>1, <3>2 DEF Good, EntriesTrue
    <3>5. NoShadow'
      BY <2>2, <3>2, <3>3 DEF Good, NoShadow
    <3>6. NoneMistaken'
      <4> SUFFICES ASSUME NEW e \in blocks', NEW k \in Slots, mem_map'[k].base = e.base
                   PROVE  \E j \in Slots : mem_map'[j].used /\ mem_map'[j].handle = e.handle
        BY DEF NoneMistaken
      <4>1. CASE e = b
        BY <3>2, <4>1
      <4>2. CASE e # b
        <5>1. e \in blocks /\ e.base # b.base
          BY <2>1, <4>2 DEF Bases
        <5>2. k # i /\ mem_map[k].base = e.base
          BY <3>2, <5>1
        <5>3. PICK j \in Slots : mem_map[j].used /\ mem_map[j].handle = e.handle
          BY <5>1, <5>2 DEF Good, NoneMistaken
        <5> QED
          BY <3>1, <3>2, <5>3
      <4> QED
        BY <4>1, <4>2
    <3>7. AllRecorded => AllRecorded'
      BY <2>1, <3>1, <3>2 DEF AllRecorded
    <3> QED
      BY <2>3, <3>4, <3>5, <3>6, <3>7 DEF Good, IdleUnused, Allocate
  <2> QED
    BY <1>2, <2>4, <2>5 DEF msdos_malloc, Record, IsFirstFree
<1> QED
  BY <1>1, <1>2 DEF Allocate

\* A block is freed together with its entry and its selector; a segment that is no
\* block, or one of which mem_map knows nothing, is refused.
LEMMA FreeCases ==
  ASSUME TypeOK, HostSound, Good, NEW es \in Es, Free(es)
  PROVE  \/ /\ AllRecorded => es.base \notin Bases
            /\ UNCHANGED <<mem_map, blocks, segments>>
            /\ reply' = Reply("free", es.base, FALSE)
         \/ \E b \in blocks, i \in Slots :
              /\ b.base = es.base /\ blocks' = blocks \ {b}
              /\ mem_map[i].used /\ mem_map[i].handle = b.handle
              /\ mem_map' = Freed(i)
              /\ SetBase(es, NoSeg)
              /\ reply' = Reply("free", es.base, TRUE)
<1>1. CASE es.base \in ForeignBase
  BY <1>1, ForeignUnmatched DEF Free, IsFirst
<1>2. CASE \E s \in Selector : segments[s] # NoSeg /\ es.base = segments[s]
  <2>1. PICK b \in blocks : b.base = es.base
    BY <1>2, BlockOfBase DEF Good, SegmentsLive
  <2>2. CASE Matches(es.base) = {}
    BY <2>1, <2>2, BlockMatches DEF Good, Free, IsFirst
  <2>3. ASSUME NEW i \in Slots, IsFirst(i, Matches(es.base)),
               blocks' = DPMIfree(mem_map[i].handle)
        PROVE  mem_map[i].used /\ mem_map[i].handle = b.handle /\ blocks' = blocks \ {b}
    <3>1. mem_map[i].used /\ mem_map[i].handle = b.handle
      BY <2>1, <2>3, FirstMatchOwns DEF Good
    <3> QED
      BY <2>3, <3>1 DEF DPMIfree, HostSound
  <2> QED
    BY <2>1, <2>2, <2>3 DEF Free
<1> QED
  BY <1>1, <1>2, EsCases

\* Freeing a block leaves the table true: the stale entry it leaves shadows nothing.
LEMMA FreeGood ==
  ASSUME TypeOK, HostSound, Good, NEW es \in Es, Free(es)
  PROVE  Good' /\ (AllRecorded => AllRecorded')
<1>1. CASE UNCHANGED <<mem_map, blocks, segments>>
  BY <1>1 DEF Free, Good, EntriesTrue, NoShadow, NoneMistaken, AllRecorded, IdleUnused,
     SegmentsLive, Bases
<1>2. ASSUME NEW b \in blocks, NEW i \in Slots,
             b.base = es.base, blocks' = blocks \ {b},
             mem_map[i].used, mem_map[i].handle = b.handle,
             mem_map' = Freed(i), SetBase(es, NoSeg)
      PROVE  Good' /\ (AllRecorded => AllRecorded')
  <2>1. /\ mem_map'[i].base = mem_map[i].base /\ ~mem_map'[i].used
        /\ \A k \in Slots : mem_map'[k].base = mem_map[k].base
        /\ \A k \in Slots : k # i => mem_map'[k] = mem_map[k]
    BY <1>2 DEF Freed, TypeOK, Entry
  <2>2. mem_map[i].base = b.base
    BY <1>2, EntryBlock DEF Good, HostSound
  <2>3. \A k \in Slots : k # i /\ mem_map[k].used => mem_map[k].base # b.base
    BY <1>2, <2>2, MapAssumption DEF Good, NoShadow, Slots
  <2>4. EntriesTrue'
    <3> SUFFICES ASSUME NEW k \in Slots, k # i, mem_map[k].used
                 PROVE  [base |-> mem_map[k].base, handle |-> mem_map[k].handle] \in blocks \ {b}
      BY <1>2, <2>1 DEF EntriesTrue
    <3> QED
      BY <2>3 DEF Good, EntriesTrue
  <2>5. NoShadow'
    BY <2>1 DEF Good, NoShadow
  <2>6. \A e \in blocks', k \in Slots : mem_map[k].handle = e.handle => k # i
    BY <1>2 DEF HostSound
  <2>7. AllRecorded => AllRecorded'
    BY <1>2, <2>1, <2>6 DEF AllRecorded
  <2>8. NoneMistaken'
    BY <1>2, <2>1, <2>6 DEF Good, NoneMistaken
  <2>9. SegmentsLive'
    <3>1. \A a : a \in Bases' <=> a \in Bases /\ a # b.base
      BY <1>2 DEF Bases, HostSound
    <3>2. PICK s \in Selector : segments[s] # NoSeg /\ es.sel = {s} /\ es.base = segments[s]
      BY <1>2, EsCases, ForeignUnmatched DEF Bases
    <3>3. /\ segments'[s] = NoSeg
          /\ \A t \in Selector : t # s => segments'[t] = segments[t]
      BY <1>2, <3>2 DEF SetBase
    <3>4. \A t \in Selector : t # s /\ segments[t] # NoSeg => segments[t] # b.base
      BY <1>2, <3>2 DEF Good, SegmentsLive
    <3> QED
      BY <3>1, <3>3, <3>4 DEF Good, SegmentsLive
  <2> QED
    BY <2>4, <2>5, <2>7, <2>8, <2>9 DEF Good, IdleUnused, Free
<1> QED
  BY <1>1, <1>2, FreeCases

\* A block is resized together with its entry and its selector, or nothing happens.
LEMMA ResizeCases ==
  ASSUME TypeOK, HostSound, Good, NEW es \in Es, Resize(es)
  PROVE  \/ /\ UNCHANGED <<mem_map, blocks, segments>>
            /\ reply' = Reply("resize", es.base, FALSE)
         \/ \E b \in blocks, i \in Slots :
              /\ b.base = es.base /\ mem_map[i].used
              /\ mem_map[i].handle = b.handle /\ mem_map[i].base = b.base
              /\ \E d \in DPMIrealloc(b) :
                   /\ blocks' = (blocks \ {b}) \cup {d}
                   /\ mem_map' = [mem_map EXCEPT ![i] = EntryOf(d)]
                   /\ SetBase(es, d.base)
              /\ reply' = Reply("resize", es.base, TRUE)
<1>1. ASSUME NEW i \in Slots, NEW b \in blocks, IsFirst(i, Matches(es.base)),
             mem_map[i].used, b.handle = mem_map[i].handle
      PROVE  b.base = es.base /\ mem_map[i].base = b.base
  BY <1>1, EntryBlock DEF Good, HostSound, IsFirst, Matches
<1> QED
  BY <1>1 DEF Resize

\* Resizing a block, which may move it, leaves the table true: it shadows no other, for
\* its new room is nobody's, and is not shadowed, for no stale entry before it is there.
LEMMA ResizeGood ==
  ASSUME TypeOK, HostSound, Good, NEW es \in Es, Resize(es), NoStaleMove
  PROVE  Good' /\ (AllRecorded => AllRecorded')
<1>1. CASE UNCHANGED <<mem_map, blocks, segments>>
  BY <1>1 DEF Resize, Good, EntriesTrue, NoShadow, NoneMistaken, AllRecorded, IdleUnused,
     SegmentsLive, Bases
<1>2. ASSUME NEW b \in blocks, NEW i \in Slots, b.base = es.base, mem_map[i].used,
             mem_map[i].handle = b.handle, mem_map[i].base = b.base,
             NEW d \in DPMIrealloc(b),
             blocks' = (blocks \ {b}) \cup {d},
             mem_map' = [mem_map EXCEPT ![i] = EntryOf(d)], SetBase(es, d.base)
      PROVE  Good' /\ (AllRecorded => AllRecorded')
  <2> DEFINE c == d.base
  <2>1. /\ d = [base |-> c, handle |-> d.handle]
        /\ blocks' = (blocks \ {b}) \cup {d}
    BY <1>2 DEF DPMIrealloc, Block
  <2>2. c \in Base /\ c # NoSeg /\ \A e \in blocks : e # b => e.base # c
    <3>1. b.base \in Base /\ d.base \in Base
      BY DEF TypeOK, Block, DPMIrealloc
    <3> QED
      BY <3>1, BaseAssumption DEF DPMIrealloc, Bases, HostSound, NoSeg
  <2>3. /\ mem_map'[i].base = c /\ mem_map'[i].used /\ mem_map'[i].handle = d.handle
        /\ \A k \in Slots : k # i => mem_map'[k] = mem_map[k]
    BY <1>2 DEF TypeOK, EntryOf
  <2>13. SetBase(es, c)
    BY <1>2
  <2> HIDE DEF c
  <2>4. \A k \in Slots : k # i /\ mem_map[k].used => mem_map[k].base # b.base
    BY <1>2, MapAssumption DEF Good, NoShadow, Slots
  <2>5. \A k \in Slots : k # i /\ mem_map[k].used => mem_map[k].base # c
    <3> SUFFICES ASSUME NEW k \in Slots, k # i, mem_map[k].used
                 PROVE  mem_map[k].base # c
      OBVIOUS
    <3>1. PICK e \in blocks : e.base = mem_map[k].base
      BY EntryBlock DEF Good
    <3> QED
      BY <2>2, <2>4, <3>1
  <2>6. EntriesTrue'
    <3> SUFFICES ASSUME NEW k \in Slots, mem_map'[k].used
                 PROVE  [base |-> mem_map'[k].base, handle |-> mem_map'[k].handle] \in blocks'
      BY DEF EntriesTrue
    <3>1. CASE k = i
      BY <2>1, <2>3, <3>1
    <3>2. CASE k # i
      BY <2>1, <2>3, <2>4, <3>2 DEF Good, EntriesTrue
    <3> QED
      BY <3>1, <3>2
  <2>7. NoShadow'
    <3> SUFFICES ASSUME NEW k \in Slots, NEW j \in Slots, j < k, mem_map'[k].used
                 PROVE  mem_map'[j].base # mem_map'[k].base
      BY DEF NoShadow
    <3>1. CASE k = i
      <4>1. j # i /\ mem_map'[j] = mem_map[j]
        BY <2>3, <3>1, MapAssumption DEF Slots
      <4>2. CASE c = b.base
        BY <1>2, <2>3, <3>1, <4>1, <4>2 DEF Good, NoShadow
      <4>3. CASE c # b.base
        BY <1>2, <2>3, <3>1, <4>1, <4>3 DEF NoStaleMove
      <4> QED
        BY <4>2, <4>3
    <3>2. CASE k # i /\ j = i
      BY <2>3, <2>5, <3>2
    <3>3. CASE k # i /\ j # i
      BY <2>3, <3>3 DEF Good, NoShadow
    <3> QED
      BY <3>1, <3>2, <3>3
  <2>8. \A k \in Slots : k # i /\ mem_map[k].used =>
          mem_map'[k].used /\ mem_map'[k].handle = mem_map[k].handle
    BY <2>3
  <2>14. \A e \in blocks : e # b => e.handle # b.handle
    BY DEF HostSound
  <2>11. AllRecorded => AllRecorded'
    BY <1>2, <2>1, <2>3, <2>8, <2>14 DEF AllRecorded
  <2>12. NoneMistaken'
    <3> SUFFICES ASSUME NEW e \in blocks', NEW k \in Slots, mem_map'[k].base = e.base
                 PROVE  \E j \in Slots : mem_map'[j].used /\ mem_map'[j].handle = e.handle
      BY DEF NoneMistaken
    <3>1. CASE e = d
      BY <2>1, <2>3, <3>1
    <3>2. CASE e \in blocks \ {b}
      <4>1. k # i /\ mem_map[k].base = e.base
        BY <2>2, <2>3, <3>2
      <4>2. PICK j \in Slots : mem_map[j].used /\ mem_map[j].handle = e.handle
        BY <3>2, <4>1 DEF Good, NoneMistaken
      <4>3. j # i
        BY <1>2, <2>14, <3>2, <4>2
      <4> QED
        BY <2>8, <4>2, <4>3
    <3> QED
      BY <2>1, <3>1, <3>2
  <2>9. SegmentsLive'
    <3>1. \A a : a \in Bases' <=> a = c \/ (a \in Bases /\ a # b.base)
      BY <2>1 DEF Bases, HostSound
    <3>2. PICK s \in Selector : segments[s] # NoSeg /\ es.sel = {s} /\ es.base = segments[s]
      BY <1>2, EsCases, ForeignUnmatched DEF Bases
    <3>3. /\ segments'[s] = c
          /\ \A t \in Selector : t # s => segments'[t] = segments[t]
      BY <2>13, <3>2 DEF SetBase
    <3>4. \A t \in Selector : t # s /\ segments[t] # NoSeg =>
            segments[t] \in Bases /\ segments[t] # b.base /\ segments[t] # c
      <4>1. \A t \in Selector : t # s /\ segments[t] # NoSeg =>
              segments[t] \in Bases /\ segments[t] # b.base
        BY <1>2, <3>2 DEF Good, SegmentsLive
      <4>2. c \in Bases => c = b.base
        BY <2>2 DEF Bases
      <4> QED
        BY <4>1, <4>2
    <3> QED
      BY <3>1, <3>3, <3>4 DEF Good, SegmentsLive
  <2>10. IdleUnused'
    BY <1>2 DEF Good, IdleUnused, Resize
  <2> QED
    BY <2>6, <2>7, <2>9, <2>10, <2>11, <2>12 DEF Good
<1> QED
  BY <1>1, <1>2, ResizeCases

\* A client starts with an empty table, and ends with what mem_map knew freed.
LEMMA ClientGood ==
  ASSUME TypeOK, HostSound, Good, msdos_init \/ msdos_done
  PROVE  Good' /\ (Full => Full')
<1>1. CASE msdos_done
  <2>1. /\ \A i \in Slots : ~mem_map'[i].used /\ mem_map'[i].base = mem_map[i].base
        /\ \A s \in Selector : segments'[s] = NoSeg
    BY <1>1 DEF msdos_done, TypeOK, Entry
  <2>2. NoneMistaken'
    BY <1>1, <2>1 DEF msdos_done, Good, NoneMistaken
  <2>3. Full => blocks' = {}
    BY <1>1 DEF msdos_done, Full, AllRecorded
  <2> QED
    BY <2>1, <2>2, <2>3 DEF Good, Full, EntriesTrue, NoShadow, AllRecorded, IdleUnused, SegmentsLive
<1>2. CASE msdos_init
  <2>1. active' /\ UNCHANGED segments
    BY <1>2 DEF msdos_init
  <2>2. CASE mem_map' = [i \in Slots |-> Unused] /\ UNCHANGED blocks
    <3>1. \A i \in Slots : ~mem_map'[i].used /\ mem_map'[i].base = 0
      BY <2>2 DEF Unused
    <3>2. \A e \in blocks : e.base # 0
      BY BaseAssumption DEF TypeOK, Block
    <3>3. SegmentsLive'
      BY <2>1, <2>2 DEF Good, SegmentsLive, Bases
    <3>4. Full => blocks = {}
      BY <1>2 DEF msdos_init, Full
    <3> QED
      BY <2>1, <2>2, <3>1, <3>2, <3>3, <3>4
      DEF Good, Full, EntriesTrue, NoShadow, NoneMistaken, AllRecorded, IdleUnused
  <2>3. ASSUME NEW b \in Fresh, blocks' = blocks \cup {b},
               mem_map' = [i \in Slots |-> IF i = 1 THEN EntryOf(b) ELSE Unused]
        PROVE  Good' /\ (Full => Full')
    <3>1. /\ \A i \in Slots : i # 1 => ~mem_map'[i].used /\ mem_map'[i].base = 0
          /\ 1 \in Slots /\ mem_map'[1].used
          /\ mem_map'[1].base = b.base /\ mem_map'[1].handle = b.handle
      BY <2>3, MapAssumption DEF Unused, EntryOf, Slots
    <3>2. /\ b = [base |-> b.base, handle |-> b.handle] /\ b.base # 0
          /\ \A e \in blocks : e.base # 0 /\ e.base # b.base
      BY <2>3, BaseAssumption DEF TypeOK, Fresh, Block, Bases
    <3>3. NoShadow'
      BY <3>1, MapAssumption DEF NoShadow, Slots
    <3>4. EntriesTrue' /\ NoneMistaken'
      BY <2>3, <3>1, <3>2 DEF EntriesTrue, NoneMistaken
    <3>5. SegmentsLive'
      BY <2>1, <2>3 DEF Good, SegmentsLive, Bases
    <3>6. Full => Full'
      BY <1>2, <2>1, <2>3, <3>1 DEF msdos_init, Full, AllRecorded
    <3> QED
      BY <2>1, <3>3, <3>4, <3>5, <3>6 DEF Good, IdleUnused
  <2> QED
    BY <1>2, <2>2, <2>3 DEF msdos_init
<1> QED
  BY <1>1, <1>2

\* A full mem_map is never forgotten.
LEMMA OverflowStays ==
  ASSUME TypeOK, [Next]_vars, overflow
  PROVE  overflow'
BY DEF Next, vars, msdos_init, msdos_done, Allocate, msdos_malloc, Record, Free, Resize

\* Every service keeps the table true.
LEMMA GoodStep ==
  ASSUME IInv, [Next /\ NoStaleMove]_vars
  PROVE  IInv'
<1> SUFFICES Good' /\ (~overflow' => Full')
  BY HostStep, TypeStep DEF IInv
<1>1. Good /\ TypeOK /\ HostSound /\ (~overflow' => Full)
  BY OverflowStays DEF IInv
<1>2. CASE msdos_init \/ msdos_done
  BY <1>1, <1>2, ClientGood
<1>3. CASE Allocate
  BY <1>1, <1>3, AllocateGood DEF Allocate, Full
<1>4. ASSUME NEW es \in Es, Free(es) PROVE Good' /\ (~overflow' => Full')
  BY <1>1, <1>4, FreeGood DEF Free, Full
<1>5. ASSUME NEW es \in Es, Resize(es), NoStaleMove PROVE Good' /\ (~overflow' => Full')
  BY <1>1, <1>5, ResizeGood DEF Resize, Full
<1>6. CASE UNCHANGED vars
  BY <1>1, <1>6
  DEF vars, Good, Full, EntriesTrue, NoShadow, NoneMistaken, AllRecorded, IdleUnused,
      SegmentsLive, Bases
<1> QED
  BY <1>2, <1>3, <1>4, <1>5, <1>6 DEF Next

\* The table is true throughout.
LEMMA GoodAlways == CarefulSpec => []IInv
<1>1. ASSUME Init PROVE IInv
  <2>1. \A i \in Slots : ~mem_map[i].used
    BY <1>1 DEF Init, Unused
  <2>2. \A s \in Selector : segments[s] = NoSeg
    BY <1>1 DEF Init
  <2> QED
    BY <1>1, <2>1, <2>2, TypeInit DEF Init, IInv, HostSound, Good, Full, EntriesTrue, NoShadow,
       NoneMistaken, AllRecorded, IdleUnused, SegmentsLive
<1>2. IInv /\ [Next /\ NoStaleMove]_vars => IInv'
  BY GoodStep
<1> QED
  BY <1>1, <1>2, PTL DEF CarefulSpec

\* However allocations, frees and resizes alternate, and whatever addresses and handles
\* the host reuses, the first entry that has the base of a block is the entry of that
\* block; a block that mem_map had no room for has no entry, and until there is one no
\* block is missing.
THEOREM MapAlwaysTrue == CarefulSpec => []MapTrue
<1>1. IInv => MapTrue
  BY DEF IInv, Good, Full, MapTrue
<1> QED
  BY <1>1, GoodAlways, PTL

\* No selector the client was given for a block outlives the block.
THEOREM SegmentsAlwaysLive == CarefulSpec => []SegmentsLive
<1>1. IInv => SegmentsLive
  BY DEF IInv, Good
<1> QED
  BY <1>1, GoodAlways, PTL

\* A block that AH=49h reports as freed is gone, even when mem_map has overflowed: the
\* stale move of memory_moves is the only way to a false report.
THEOREM FreeAlwaysFrees == CarefulSpec => FreeFrees
<1>1. IInv /\ [Next /\ NoStaleMove]_vars =>
        [reply'.op = "free" /\ reply'.ok => reply'.base \notin Bases']_vars
  <2> SUFFICES ASSUME IInv, Next, reply'.op = "free", reply'.ok
               PROVE  reply'.base \notin Bases'
    OBVIOUS
  <2>1. PICK es \in Es : Free(es)
    BY DEF Next, msdos_init, msdos_done, Allocate, Resize, Reply
  <2>2. CASE reply' = Reply("free", es.base, FALSE)
    BY <2>2 DEF Reply
  <2>3. ASSUME NEW b \in blocks, b.base = es.base, blocks' = blocks \ {b},
               reply' = Reply("free", es.base, TRUE)
        PROVE  reply'.base \notin Bases'
    BY <2>3 DEF Reply, Bases, IInv, HostSound
  <2> QED
    BY <2>1, <2>2, <2>3, FreeCases DEF IInv
<1> QED
  BY <1>1, GoodAlways, PTL DEF CarefulSpec, FreeFrees

-----------------------------------------------------------------------------
(* The client gets the service it is promised.                             *)

ServiceStep == overflow' \/ [Service!Next]_<<Bases, reply>>

\* A request the host refuses, or one for a segment that is no block, changes nothing.
LEMMA RefusedServes ==
  ASSUME NEW op \in {"free", "resize"}, NEW a, UNCHANGED blocks,
         reply' = Reply(op, a, FALSE), op = "free" => a \notin Bases
  PROVE  ServiceStep
<1>1. Bases' = Bases /\ reply'.base = a
  BY DEF Bases, Reply
<1>2. CASE op = "free"
  <2>1. (a \in Bases) = FALSE /\ Bases \ {a} = Bases
    BY <1>2
  <2>2. reply' = Service!Reply("free", a, a \in Bases)
    BY <1>2, <2>1 DEF Service!Reply, Reply
  <2>3. Service!Free(a)
    BY <1>1, <2>1, <2>2 DEF Service!Free
  <2> QED
    BY <1>1, <2>3 DEF ServiceStep, Service!Next
<1>3. CASE op = "resize"
  <2>1. Service!Resize(reply'.base)
    BY <1>1, <1>3 DEF Service!Resize, Service!Reply, Reply
  <2> QED
    BY <2>1 DEF ServiceStep, Service!Next
<1> QED
  BY <1>2, <1>3

\* AH=48h gives room nobody has.
LEMMA AllocateServes ==
  ASSUME Allocate
  PROVE  ServiceStep
<1>1. CASE UNCHANGED blocks /\ reply' = Reply("allocate", 0, FALSE)
  <2>1. Service!Allocate
    BY <1>1 DEF Service!Allocate, Service!Reply, Reply, Bases
  <2> QED
    BY <2>1 DEF ServiceStep, Service!Next
<1>2. ASSUME NEW b \in Fresh, blocks' = blocks \cup {b},
             reply' = Reply("allocate", b.base, TRUE)
      PROVE  ServiceStep
  <2>1. b.base \in Base \ Bases /\ Bases' = Bases \cup {b.base}
    BY <1>2 DEF Fresh, Block, Bases
  <2>2. Service!Allocate
    BY <1>2, <2>1 DEF Service!Allocate, Service!Reply, Reply
  <2> QED
    BY <2>2 DEF ServiceStep, Service!Next
<1> QED
  BY <1>1, <1>2 DEF Allocate, msdos_malloc

\* AH=49h frees the client's blocks and nothing else.
LEMMA FreeServes ==
  ASSUME TypeOK, HostSound, Good, AllRecorded, NEW es \in Es, Free(es)
  PROVE  ServiceStep
<1>1. CASE es.base \notin Bases /\ UNCHANGED blocks /\ reply' = Reply("free", es.base, FALSE)
  BY <1>1, RefusedServes
<1>2. ASSUME NEW b \in blocks, b.base = es.base, blocks' = blocks \ {b},
             reply' = Reply("free", es.base, TRUE)
      PROVE  ServiceStep
  <2>1. Bases' = Bases \ {es.base} /\ es.base \in Bases
    BY <1>2 DEF Bases, HostSound
  <2>2. reply'.base = es.base
    BY <1>2 DEF Reply
  <2>3. Service!Free(es.base)
    <3>1. (es.base \in Bases) = TRUE
      BY <2>1
    <3>2. reply' = Service!Reply("free", es.base, es.base \in Bases)
      BY <1>2, <3>1 DEF Service!Reply, Reply
    <3> QED
      BY <2>1, <3>2 DEF Service!Free
  <2> QED
    BY <2>2, <2>3 DEF ServiceStep, Service!Next
<1> QED
  BY <1>1, <1>2, FreeCases

\* AH=4Ah resizes the client's blocks only, and moves them to where nobody is.
LEMMA ResizeServes ==
  ASSUME TypeOK, HostSound, Good, NEW es \in Es, Resize(es)
  PROVE  ServiceStep
<1>1. CASE UNCHANGED blocks /\ reply' = Reply("resize", es.base, FALSE)
  BY <1>1, RefusedServes
<1>2. ASSUME NEW b \in blocks, b.base = es.base, NEW d \in DPMIrealloc(b),
             blocks' = (blocks \ {b}) \cup {d},
             reply' = Reply("resize", es.base, TRUE)
      PROVE  ServiceStep
  <2>1. es.base \in Bases /\ reply'.base = es.base
    BY <1>2 DEF Bases, Reply
  <2>2. d.base \in {es.base} \cup (Base \ Bases)
    BY <1>2 DEF DPMIrealloc
  <2>3. Bases' = (Bases \ {es.base}) \cup {d.base}
    BY <1>2 DEF Bases, HostSound
  <2>4. Service!Resize(reply'.base)
    BY <1>2, <2>1, <2>2, <2>3 DEF Service!Resize, Service!Reply, Reply
  <2> QED
    BY <2>4 DEF ServiceStep, Service!Next
<1> QED
  BY <1>1, <1>2, ResizeCases

\* A client starts with nothing but, perhaps, the translator's block, and leaves nothing.
LEMMA ClientServes ==
  ASSUME TypeOK, HostSound, Full, msdos_init \/ msdos_done
  PROVE  ServiceStep
<1>1. CASE msdos_done
  <2>1. Bases' = {}
    BY <1>1 DEF msdos_done, Full, AllRecorded, Bases
  <2>2. Service!Exit
    BY <1>1, <2>1 DEF msdos_done, Service!Exit, Service!Reply, Reply
  <2> QED
    BY <2>2 DEF ServiceStep, Service!Next
<1>2. CASE msdos_init
  <2>1. Bases = {} /\ blocks = {}
    BY <1>2 DEF msdos_init, Full, Bases
  <2>2. Bases' = {} \/ \E b \in Base : Bases' = {b}
    BY <1>2, <2>1 DEF msdos_init, Fresh, Block, Bases
  <2>3. Service!Enter
    BY <1>2, <2>1, <2>2 DEF msdos_init, Service!Enter, Service!Reply, Reply
  <2> QED
    BY <2>3 DEF ServiceStep, Service!Next
<1> QED
  BY <1>1, <1>2

\* Every step is one of the service's.
LEMMA ServiceSteps ==
  ASSUME IInv, [Next]_vars
  PROVE  ServiceStep
<1> SUFFICES ASSUME ~overflow' PROVE ServiceStep
  BY DEF ServiceStep
<1>1. Good /\ Full /\ AllRecorded /\ TypeOK /\ HostSound
  BY OverflowStays DEF IInv, Full
<1>2. CASE UNCHANGED vars
  BY <1>2 DEF vars, ServiceStep, Bases
<1> QED
  BY <1>1, <1>2, ClientServes, AllocateServes, FreeServes, ResizeServes DEF Next

\* mem_map and the DPMI host implement the memory services of DOS: what is freed is
\* the caller's block, blocks are refused to nobody who owns them, and a client that
\* exits leaves nothing behind - until mem_map overflows.
THEOREM MemoryImplemented == CarefulSpec => MemorySpec
<1>1. Init => Service!Init
  BY DEF Init, Service!Init, Service!Reply, Reply, Bases
<1>2. IInv /\ [Next]_vars => ServiceStep
  BY ServiceSteps
<1>3. ServiceStep <=> [overflow' \/ Service!Next]_<<Bases, reply>>
  BY DEF ServiceStep
<1> QED
  BY <1>1, <1>2, <1>3, GoodAlways, PTL DEF CarefulSpec, MemorySpec
=============================================================================
