----------------------------- MODULE EntryPoints -----------------------------
(***************************************************************************)
(* What the translator offers to programs by address (msdos/msdos.c,        *)
(* msdos/msdos_ldt.c, msdos/callbacks.c, msdoshlp.c): the MS-DOS and WINOS2 *)
(* vendor entries, which answer the LDT alias, and the XMS entry, which     *)
(* calls the real mode driver.  Composed with the stack of clients and its  *)
(* callbacks, whose msdos_init and msdos_done make and free the aliases.    *)
(*                                                                         *)
(* There is one entry of each sort, with one argument: a pointer into the   *)
(* slot of the client that asked for the entry last.  Any live client may   *)
(* call an entry that it was given.  The descriptor rmcb_sel of a callback  *)
(* set is part of the set.  Failed, FFFFh, is also the selector of entry    *)
(* 8191 with other low bits: that its release may hit a descriptor of the   *)
(* client's is left out.                                                    *)
(***************************************************************************)
EXTENDS ClientPool

CONSTANTS
  Descriptor,    \* LDT descriptors that the host can give
  None,          \* selector 0
  Failed         \* selector FFFFh, that a failed allocation leaves

ASSUME DescriptorAssumption == None \notin Descriptor /\ Failed \notin Descriptor /\ None # Failed

VARIABLES
  descriptors,      \* the host's, allocated by the translator
  dpmi_ldt_alias,   \* the alias that all clients share
  entries,          \* the fields of msdos_client that this module is about
  api_arg, winos2_arg, xms_arg,   \* the slots that the arguments point into, 0 before
  asked,            \* the clients that were given the MS-DOS entry
  alone             \* no client was ever started by another

entryVars == <<descriptors, dpmi_ldt_alias, entries, api_arg, winos2_arg, xms_arg, asked, alone>>
allVars   == <<vars, entryVars>>

Alias == Descriptor \cup {None, Failed}

\* XMS_call is 0:0, or the driver's entry.
Target == {"nowhere", "driver"}
Fields == [ldt_alias : Alias, ldt_alias_winos2 : Alias, XMS_call : Target]
Blank  == [ldt_alias |-> None, ldt_alias_winos2 |-> None, XMS_call |-> "nowhere"]

EntryInit ==
  /\ Init
  /\ descriptors = {}
  /\ dpmi_ldt_alias = None
  /\ entries = [n \in Slots |-> Blank]
  /\ api_arg = 0 /\ winos2_arg = 0 /\ xms_arg = 0
  /\ asked = {}
  /\ alone = TRUE

-----------------------------------------------------------------------------
(* Clients come and go.                                                    *)

\* AllocateDescriptors and CreateAliasDescriptor, while the translator holds held.
Real(d) == {d} \cap Descriptor
Given(held) == IF Descriptor \subseteq held THEN {Failed} ELSE Descriptor \ held

CreateAliasDescriptor(of, held) == IF of \in {None, Failed} THEN {Failed} ELSE Given(held)

\* A faulty variant: each client allocates an alias of its own.
msdos_ldt_init_each(held) == Given(held)
msdos_ldt_init(held) == IF NewSlot > 1 THEN {dpmi_ldt_alias} ELSE Given(held)

Start(is_32) ==
  /\ msdos_init(is_32)
  /\ \E alias \in msdos_ldt_init(descriptors) :
     \E winos2 \in CreateAliasDescriptor(alias, descriptors \cup Real(alias)) :
       /\ descriptors' = descriptors \cup Real(alias) \cup Real(winos2)
       /\ dpmi_ldt_alias' = alias
       /\ entries' = [entries EXCEPT ![NewSlot] =
            [ldt_alias |-> alias, ldt_alias_winos2 |-> winos2, XMS_call |-> "nowhere"]]
  /\ asked' = asked \ {NewSlot}
  /\ alone' = (alone /\ msdos_client_num = 0)
  /\ UNCHANGED <<api_arg, winos2_arg, xms_arg>>

CurEntries == entries[msdos_client_num]

\* A faulty variant: any client that exits frees the alias.
msdos_ldt_done_any == Real(dpmi_ldt_alias)
msdos_ldt_done == IF msdos_client_num > 1 THEN {} ELSE Real(dpmi_ldt_alias)

\* msdos_free_descriptors; the map of conversions is ClientData's.
WinOs2Freed == Real(CurEntries.ldt_alias_winos2)

Stop ==
  /\ msdos_done
  /\ descriptors' = descriptors \ (msdos_ldt_done \cup WinOs2Freed)
  /\ dpmi_ldt_alias' = IF msdos_client_num > 1 THEN dpmi_ldt_alias ELSE None
  /\ UNCHANGED <<entries, api_arg, winos2_arg, xms_arg, asked, alone>>

-----------------------------------------------------------------------------
(* The client on top asks for an entry.                                    *)

clientsOnly == <<vars, descriptors, dpmi_ldt_alias, alone>>

\* INT 2Fh AX=168Ah, get_ext_API.
AskMsDos ==
  /\ msdos_client_num > 0
  /\ api_arg' = msdos_client_num
  /\ asked' = asked \cup {msdos_client_num}
  /\ UNCHANGED <<clientsOnly, entries, winos2_arg, xms_arg>>

AskWinOs2 ==
  /\ msdos_client_num > 0
  /\ winos2_arg' = msdos_client_num
  /\ UNCHANGED <<clientsOnly, entries, api_arg, xms_arg, asked>>

\* A faulty variant: an entry that was given before is not fetched again.
FetchedOnce == IF xms_arg = 0 THEN "driver" ELSE CurEntries.XMS_call
Fetched == "driver"

\* INT 2Fh AX=4310h, answered by the XMS driver.
AskXms ==
  /\ msdos_client_num > 0
  /\ entries' = [entries EXCEPT ![msdos_client_num].XMS_call = Fetched]
  /\ xms_arg' = msdos_client_num
  /\ UNCHANGED <<clientsOnly, api_arg, winos2_arg, asked>>

EntryNext ==
  \/ \E is_32 \in BOOLEAN : Start(is_32)
  \/ Stop
  \/ AskMsDos
  \/ AskWinOs2
  \/ AskXms
  \/ /\ \E k \in Kind : Event(k) \/ ResetRoutine(k) \/ \E r \in Routine : SetRoutine(k, r)
     /\ UNCHANGED entryVars

EntrySpec == EntryInit /\ [][EntryNext]_allVars

-----------------------------------------------------------------------------
(* What a call of an entry does.                                           *)

msdos_api_call        == entries[api_arg].ldt_alias
msdos_api_winos2_call == entries[winos2_arg].ldt_alias_winos2
xms_call              == entries[xms_arg].XMS_call

-----------------------------------------------------------------------------
(* Properties.                                                             *)

EntryTypeOK ==
  /\ TypeOK
  /\ descriptors \subseteq Descriptor
  /\ dpmi_ldt_alias \in Alias
  /\ entries \in [Slots -> Fields]
  /\ {api_arg, winos2_arg, xms_arg} \subseteq 0 .. MaxClients
  /\ asked \subseteq Slots
  /\ alone \in BOOLEAN

\* The descriptors that the translator holds are the alias that all clients share and
\* the second alias of each live client, each a descriptor of its own: none is freed
\* early or twice, and none is left when the last client exits.
AliasesOwned ==
  /\ descriptors = Real(dpmi_ldt_alias) \cup UNION {Real(entries[n].ldt_alias_winos2) : n \in Live}
  /\ \A n \in Live :
       /\ entries[n].ldt_alias_winos2 = Failed \/ entries[n].ldt_alias_winos2 # dpmi_ldt_alias
       /\ \A m \in Live : Real(entries[m].ldt_alias_winos2) \cap Real(entries[n].ldt_alias_winos2)
                            # {} => m = n

\* Whoever asked last, and whether it still lives: the MS-DOS entry answers every live
\* client that has it with the alias that all clients share and that is still allocated
\* (unless the host had no descriptor for it).
AliasAnswered ==
  asked \cap Live # {} =>
    /\ msdos_api_call = dpmi_ldt_alias
    /\ dpmi_ldt_alias \in descriptors \cup {Failed}

\* The WINOS2 entry answers an alias that is still allocated while the client that
\* asked last lives, and that client with its own.
WinOs2Answered ==
  winos2_arg \in Live =>
    /\ msdos_api_winos2_call \in descriptors \cup {Failed}
    /\ \A n \in Live : entries[n].ldt_alias_winos2 = msdos_api_winos2_call
                         => n = winos2_arg \/ msdos_api_winos2_call = Failed

\* Both promises together: what an entry answers is a descriptor that still exists,
\* though the entry's argument points into a slot that clients come and go in.
EntriesAnswer == AliasAnswered /\ WinOs2Answered

XmsReaches == xms_arg > 0 /\ xms_call = "driver"

\* The slot of the client that asked last is taken, and cleared, by a new client.
Retaken == NewSlot = xms_arg /\ msdos_client_num' = NewSlot

\* The XMS entry, the same for all clients, reaches the driver from when a client asks for
\* it, also after that client has ended, but no longer than until a new client takes the
\* slot of the client that asked last: then it calls 0:0, until a client asks again.
XmsReached == [][XmsReaches' <=> AskXms \/ (XmsReaches /\ ~Retaken)]_allVars

\* While no client is started by another, a mouse event runs the routine that its
\* client set, and none when that client is gone, though the driver still calls.
AloneRouted ==
  [][\A k \in Kind :
       alone /\ Event(k) =>
         ran' = IF setter[k] = 0 THEN NoRoutine ELSE slots[setter[k]].routine[k]]_allVars
=============================================================================
