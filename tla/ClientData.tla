------------------------------ MODULE ClientData ------------------------------
(***************************************************************************)
(* What the translator keeps for a client between calls (msdos/msdos.c):   *)
(* the disk transfer area and the PSP it set above 1MB, which DOS knows    *)
(* only by stand-ins below 1MB, and the map of the selectors it made for   *)
(* segments.  The environment word is in the PSP that is current, and      *)
(* moves with it; it is a segment for DOS and a selector for the client.   *)
(*                                                                         *)
(* There are two conversions of a segment.  ConvertSegmentToDescriptor_lim *)
(* is the translator's, with its map; ConvertSegmentToDescriptor is a call *)
(* of the DPMI host (wrapper.c), which has a map of its own that is never  *)
(* full, and answers the same segment with the same descriptor as long as  *)
(* the client runs.  Both allocate from one LDT, which others use too.     *)
(*                                                                         *)
(* DOS is external: it copies the current PSP for a new one, reads the     *)
(* environment word of the current PSP at EXEC, and may or may not give    *)
(* the DTA back afterwards.  A child is not followed: it has data of its   *)
(* own (see Translator).                                                   *)
(***************************************************************************)
EXTENDS Sequences, Naturals

CONSTANTS
  Home,        \* the PSP of the program that becomes the client
  MadePsp,     \* PSPs below 1MB that the client makes
  OtherPsp,    \* PSPs of other programs that the client sets
  HighPsp,     \* selectors of PSPs above 1MB
  HomeEnv,     \* the segment of the client's environment
  LowDta, HighDta,
  Selector,    \* descriptors of the LDT
  MapSize      \* MAX_CNVS

ASSUME MapSizeAssumption == MapSize \in Nat

CONSTANTS
  StandIn,     \* the client's DTA below 1MB
  Zero,        \* segment 0, where the flat segment starts; no environment
  Other,       \* any other segment: another program's environment, or nothing's
  Absent,      \* the word of a PSP that there is not
  Taken,       \* the base of a descriptor that somebody else has
  None,        \* no value; the selector 0
  Bad          \* the selector 0xffff

LowPsp   == {Home} \cup MadePsp \cup OtherPsp
Key      == LowPsp \cup {Zero}
Segments == Key \cup {HomeEnv, Other} \cup LowDta

ASSUME NamesAssumption ==
  /\ Home \notin MadePsp \cup OtherPsp
  /\ HighPsp \cap LowPsp = {}
  /\ OtherPsp \cap MadePsp = {}
  /\ StandIn \notin LowDta \cup HighDta
  /\ LowDta \cap HighDta = {}
  /\ Zero \notin LowPsp \cup {HomeEnv, Other} \cup LowDta
  /\ {None, Taken, Absent, Bad} \cap (Segments \cup Selector \cup HighPsp \cup HighDta \cup {StandIn}) = {}
  /\ None \notin {Taken, Bad} /\ Taken # Bad /\ Absent # Bad
  /\ Segments \cap Selector = {}

VARIABLES
  active,        \* is there a client?
  env,           \* the environment word of each PSP
  dos_psp, dos_dta,
  user_psp_sel, user_dta,
  seg_sel_map,   \* as far as it is in use
  host_map,      \* the descriptors that the host made for segments
  base,          \* the base of each descriptor
  set_psp,       \* the PSP that the client is at, None when that is not clear
  set_dta,       \* the DTA that the client set last, None when a child may have moved it
  own,           \* the PSPs whose environment word is the client's
  answer         \* what the last query named, or the environment that DOS read

dosVars == <<env, dos_psp, dos_dta>>
ldtVars == <<seg_sel_map, host_map, base>>
userVars == <<user_psp_sel, user_dta>>
setVars == <<set_psp, set_dta>>
vars == <<active, dosVars, userVars, ldtVars, setVars, own, answer>>

Word    == {Absent, Bad} \cup Segments \cup Selector
NewPsps == MadePsp \cup HighPsp

Init ==
  /\ active = FALSE
  /\ env \in [LowPsp \cup HighPsp -> {Absent, HomeEnv, Zero, Other}]
  /\ \A p \in NewPsps : env[p] = Absent
  /\ \A p \in OtherPsp : env[p] \in {Zero, Other}
  /\ env[Home] = HomeEnv
  /\ dos_psp = Home
  /\ dos_dta \in LowDta
  /\ user_psp_sel = None
  /\ user_dta = None
  /\ seg_sel_map = <<>>
  /\ host_map = [g \in Segments |-> None]
  /\ base = [s \in Selector |-> None]
  /\ set_psp = Home
  /\ set_dta = None
  /\ own = {Home}
  /\ answer = None

-----------------------------------------------------------------------------
(* ConvertSegmentToDescriptor_lim.                                         *)

Entries == 1 .. Len(seg_sel_map)
Cached(k) == {seg_sel_map[i].sel : i \in {j \in Entries : seg_sel_map[j].seg = k}}
Free == {s \in Selector : base[s] = None}

\* Without a free descriptor DPMI answers -1, and 0xffff is kept as the selector.
Allocated == IF Free = {} THEN {Bad} ELSE Free

SetBase(s, g) == base' = [t \in Selector |-> IF t = s THEN g ELSE base[t]]

\* Segment k has selector s; 0 (None) when the map is full.
Convert(k, s) ==
  /\ UNCHANGED host_map
  /\ \/ s \in Cached(k) /\ UNCHANGED <<seg_sel_map, base>>
     \/ /\ Cached(k) = {} /\ Len(seg_sel_map) = MapSize
        /\ s = None
        /\ UNCHANGED <<seg_sel_map, base>>
     \/ /\ Cached(k) = {} /\ Len(seg_sel_map) < MapSize
        /\ s \in Allocated
        /\ seg_sel_map' = Append(seg_sel_map, [seg |-> k, sel |-> s])
        /\ SetBase(s, k)

\* What a selector that the client gets is a selector of.
Named(s) == IF s \in Selector THEN base'[s] ELSE s

(* ConvertSegmentToDescriptor: the host's.                                 *)

HostConvert(g, s) ==
  /\ UNCHANGED seg_sel_map
  /\ \/ host_map[g] # None /\ s = host_map[g] /\ UNCHANGED <<host_map, base>>
     \/ host_map[g] = None /\ Free = {} /\ s = Bad /\ UNCHANGED <<host_map, base>>
     \/ /\ host_map[g] = None /\ s \in Free
        /\ host_map' = [host_map EXCEPT ![g] = s]
        /\ SetBase(s, g)

\* The client, and other programs and the host, allocate and free descriptors too;
\* what the host made for segments may go with the client that asked for them.
OthersUseLdt ==
  /\ \E s \in Selector :
       \/ base[s] = None /\ SetBase(s, Taken) /\ UNCHANGED host_map
       \/ base[s] = Taken /\ SetBase(s, None) /\ UNCHANGED host_map
       \/ /\ ~active
          /\ \E g \in Segments : host_map[g] = s /\ host_map' = [host_map EXCEPT ![g] = None]
          /\ SetBase(s, None)
  /\ answer' = None
  /\ UNCHANGED <<active, dosVars, userVars, setVars, own, seg_sel_map>>

-----------------------------------------------------------------------------
(* The environment word.                                                   *)

write_env_sel(w) == env' = [env EXCEPT ![dos_psp] = w]

\* A segment is made a selector, 0xffff with the LDT full; no environment stays none.
WriteConverted(g) ==
  \/ g = Zero /\ write_env_sel(g) /\ UNCHANGED ldtVars
  \/ g # Zero /\ \E s \in Selector \cup {Bad} : HostConvert(g, s) /\ write_env_sel(s)

\* GetSegmentBase does not set its result for what is not a selector: it may be
\* anything, a base of 0 or of some segment.
Unknown == {Zero, Other}

\* GetSegmentBase(w) >> 4, and a faulty variant that leaves the word: as a segment, a
\* selector is just another one.
Kept(w) == IF w \in Segments THEN {w} ELSE {Other}
Reverted(w) ==
  IF w = Zero THEN {Zero}
  ELSE IF w \in Selector /\ base[w] \in Segments THEN {base[w]} ELSE Unknown

-----------------------------------------------------------------------------
(* The client comes and goes, and runs programs.                           *)

msdos_init ==
  /\ ~active
  /\ active' = TRUE
  /\ WriteConverted(env[dos_psp])
  /\ own' = IF env'[dos_psp] = Bad THEN {} ELSE own
  /\ user_psp_sel' = None /\ user_dta' = None
  /\ set_psp' = dos_psp /\ set_dta' = None
  /\ answer' = None
  /\ UNCHANGED <<dos_psp, dos_dta>>

\* msdos_free_descriptors, and a faulty variant that stops before the last entry.
FreedButLast == {seg_sel_map[i].sel : i \in Entries \ {Len(seg_sel_map)}}
Freed        == {seg_sel_map[i].sel : i \in Entries}

\* A program exits under the PSP that it entered with; those it made go with it, and
\* DOS gives the next program an environment and a DTA of its own.
msdos_done ==
  /\ active /\ dos_psp = Home
  /\ active' = FALSE
  /\ answer' \in Reverted(env[dos_psp])
  /\ env' = [p \in LowPsp \cup HighPsp |->
               IF p = Home THEN HomeEnv ELSE IF p \in NewPsps THEN Absent ELSE env[p]]
  /\ own' = {Home}
  /\ base' = [s \in Selector |-> IF s \in Freed THEN None ELSE base[s]]
  /\ seg_sel_map' = <<>>
  /\ dos_dta' \in LowDta
  /\ UNCHANGED <<dos_psp, userVars, setVars, host_map>>

\* AH=4Bh, the child and the way back.
Exec ==
  /\ active
  /\ answer' \in Reverted(env[dos_psp])
  /\ WriteConverted(answer')
  /\ dos_dta' \in {dos_dta} \cup LowDta
  /\ set_dta' = IF dos_dta' = dos_dta THEN set_dta ELSE None
  /\ UNCHANGED <<active, dos_psp, userVars, set_psp, own>>

-----------------------------------------------------------------------------
(* The PSP.  A selector is in DOS space or it is not (in_dos_space).       *)

pspOnly == UNCHANGED <<active, dos_dta, user_dta, ldtVars, set_dta>>

\* A PSP takes its word from another, whoever's that is.
CopyEnv(from, to) ==
  /\ env' = [env EXCEPT ![to] = env[from]]
  /\ own' = IF from \in own THEN own \cup {to} ELSE own \ {to}

\* A faulty variant: a PSP in DOS space leaves user_psp_sel alone.
ForgetNothing(p) == user_psp_sel
UserPsp(p)       == IF p \in HighPsp THEN p ELSE None

\* AH=50h.  A PSP above 1MB is copied over the current one.
SetPsp(p) ==
  /\ active
  /\ env[p] # Absent
  /\ user_psp_sel' = UserPsp(p)
  /\ IF p \in HighPsp THEN CopyEnv(p, dos_psp) /\ UNCHANGED dos_psp
                      ELSE dos_psp' = p /\ UNCHANGED <<env, own>>
  /\ set_psp' = p
  /\ answer' = None
  /\ pspOnly

\* AH=26h.  DOS makes it in the buffer, Post copies it to its place.
CreatePsp(p) ==
  /\ active
  /\ CopyEnv(dos_psp, p)
  /\ answer' = None
  /\ UNCHANGED <<dos_psp, user_psp_sel, set_psp>>
  /\ pspOnly

\* AH=55h.  For one above 1MB DOS makes it in place of the current PSP.
CreateAndSetPsp(p) ==
  /\ active
  /\ CopyEnv(dos_psp, p)
  /\ user_psp_sel' = UserPsp(p)
  /\ dos_psp' = IF p \in HighPsp THEN dos_psp ELSE p
  /\ set_psp' = p
  /\ answer' = None
  /\ pspOnly

\* The word at 16h of a PSP names the parent by its segment or by a selector in DOS
\* space; where neither finds a PSP the current one is taken (old_dos_terminate).
Parent(w) == IF w \in LowPsp /\ env[w] # Absent THEN w ELSE dos_psp

\* AH=00h and INT 20h at a PSP that the client made: it goes, and DOS comes back to
\* the client at the parent.  The word is the client's to write, w is what it wrote.
PspKill(w) ==
  /\ active
  /\ dos_psp \in MadePsp
  /\ dos_psp' = Parent(w)
  /\ IF Parent(w) = dos_psp THEN UNCHANGED <<env, own>>
       ELSE env' = [env EXCEPT ![dos_psp] = Absent] /\ own' = own \ {dos_psp}
  /\ set_psp' = IF user_psp_sel = None THEN Parent(w) ELSE None
  /\ answer' = None
  /\ UNCHANGED user_psp_sel
  /\ pspOnly

\* Queries and faults change the maps at most.
mapsOnly == UNCHANGED <<active, dosVars, userVars, setVars, own>>

\* AH=51h and AH=62h.
GetPsp ==
  /\ active
  /\ IF user_psp_sel # None
       THEN answer' = user_psp_sel /\ UNCHANGED ldtVars
       ELSE \E s \in Selector \cup {None, Bad} : Convert(dos_psp, s) /\ answer' = Named(s)
  /\ mapsOnly

\* A selector that is not one is taken for a segment, but for 38h, the flat segment
\* (msdos_sel_fault).
SelFault ==
  /\ active
  /\ \/ \E s \in Selector \cup {None, Bad} : Convert(Zero, s)
     \/ \E g \in Segments, s \in Selector \cup {Bad} : HostConvert(g, s)
  /\ answer' = None
  /\ mapsOnly

-----------------------------------------------------------------------------
(* The DTA.                                                                *)

UserDta(d) == IF d \in HighDta THEN d ELSE None

\* AH=1Ah.
SetDta(d) ==
  /\ active
  /\ user_dta' = UserDta(d)
  /\ dos_dta' = IF d \in HighDta THEN StandIn ELSE d
  /\ set_dta' = d
  /\ answer' = None
  /\ UNCHANGED <<active, env, dos_psp, user_psp_sel, ldtVars, set_psp, own>>

\* A faulty variant: the translated DTA is reported even when DOS has another.
IsTranslated      == user_dta # None
DtaIsTranslated   == dos_dta = StandIn

\* AH=2Fh.
GetDta ==
  /\ active
  /\ IF DtaIsTranslated
       THEN answer' = user_dta /\ UNCHANGED ldtVars
       ELSE \E s \in Selector \cup {Bad} : HostConvert(dos_dta, s) /\ answer' = Named(s)
  /\ mapsOnly

\* What DOS writes to its DTA (AH=11h, 12h, 4Eh, 4Fh) is copied from the stand-in
\* to the user's DTA, if there is one.
ResultDta == IF dos_dta = StandIn /\ user_dta # None THEN user_dta ELSE dos_dta

-----------------------------------------------------------------------------
Next ==
  \/ msdos_init
  \/ msdos_done
  \/ Exec
  \/ \E p \in LowPsp \cup HighPsp : SetPsp(p) \/ PspKill(p)
  \/ \E p \in NewPsps : CreatePsp(p) \/ CreateAndSetPsp(p)
  \/ GetPsp
  \/ SelFault
  \/ \E d \in LowDta \cup HighDta : SetDta(d)
  \/ GetDta
  \/ OthersUseLdt

Spec == Init /\ [][Next]_vars

-----------------------------------------------------------------------------
(* Properties.                                                             *)

TypeOK ==
  /\ active \in BOOLEAN
  /\ env \in [LowPsp \cup HighPsp -> Word]
  /\ dos_psp \in LowPsp
  /\ dos_dta \in LowDta \cup {StandIn}
  /\ user_psp_sel \in HighPsp \cup {None}
  /\ user_dta \in HighDta \cup {None}
  /\ seg_sel_map \in Seq([seg : Key, sel : Selector \cup {Bad}])
  /\ Len(seg_sel_map) <= MapSize
  /\ host_map \in [Segments -> Selector \cup {None}]
  /\ base \in [Selector -> Segments \cup {None, Taken}]
  /\ set_psp \in LowPsp \cup HighPsp \cup {None}
  /\ set_dta \in LowDta \cup HighDta \cup {None}
  /\ own \in SUBSET (LowPsp \cup HighPsp)
  /\ answer \in Segments \cup HighPsp \cup HighDta \cup {None, Bad}

\* The map holds each segment once, with a descriptor of that base that is neither the
\* host's nor another entry's, and every descriptor made for it: none is left when the
\* client exits (ConvertSegmentToDescriptor_lim, msdos_free_descriptors).
MapSound ==
  /\ \A i, j \in Entries : seg_sel_map[i].seg = seg_sel_map[j].seg => i = j
  /\ \A i \in Entries :
       seg_sel_map[i].sel # Bad => base[seg_sel_map[i].sel] = seg_sel_map[i].seg
  /\ \A i \in Entries, g \in Segments : seg_sel_map[i].sel # host_map[g]
  /\ \A s \in Selector : base[s] \in Segments =>
       \/ \E i \in Entries : seg_sel_map[i].sel = s
       \/ \E g \in Segments : host_map[g] = s

\* The translator has no selector for segment k: it got none when it asked first, or
\* cannot get one now.
Unnamed(k) ==
  IF Cached(k) = {} THEN Len(seg_sel_map) = MapSize \/ Free = {} ELSE Bad \in Cached(k)

\* AH=51h names the PSP that the client set last, or went back to with AH=00h, above
\* or below 1MB, through EXEC and changes of place.  Below 1MB it answers 0 or 0xffff
\* where there is no room for a selector, or was none the first time.  After AH=00h
\* under a PSP above 1MB nothing is said: user_psp_sel is kept.
PspAnswered ==
  [][GetPsp /\ set_psp # None =>
       \/ answer' = set_psp
       \/ answer' \in {None, Bad} /\ set_psp \in LowPsp /\ Unnamed(set_psp)]_vars

\* AH=2Fh names the place where AH=4Eh will leave its result, or answers 0xffff if that
\* is below 1MB and the LDT is full; and it is the DTA that the client set, unless a
\* child moved it.
DtaAnswered ==
  [][GetDta =>
       /\ set_dta # None => ResultDta = set_dta
       /\ \/ answer' = ResultDta
          \/ answer' = Bad /\ ResultDta \in LowDta /\ Free = {}]_vars

\* A PSP has a selector of the client's environment.
HasSelector(p) == env[p] \in Selector /\ base[env[p]] = HomeEnv

\* When DOS reads the environment word of a PSP that has the client's, for a child or at
\* the end (AH=4Bh, msdos_done), it finds the segment; while the client runs, each such
\* PSP has a selector of it.  A PSP has the client's word unless it, or what it was
\* copied from, is another program's, or the LDT was full when the client started.
EnvPassed ==
  [][/\ (Exec \/ msdos_done) /\ dos_psp \in own => answer' = HomeEnv
     /\ active' => \A p \in own' : HasSelector(p)']_vars
=============================================================================
