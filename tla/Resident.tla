------------------------------ MODULE Resident ------------------------------
(***************************************************************************)
(* The resident provider (handlers.c, calls.c, entry.S): what the program   *)
(* does when the DPMI host starts a client, ends it or switches to it, and  *)
(* when a client calls INT 21h.                                            *)
(*                                                                         *)
(* The host is external: clients nest, a new one has the next handle, the   *)
(* last one ends first, and the host may run any live client in between.    *)
(* Each client has vectors of its own; a new one may inherit those of the   *)
(* client that started it.  A call of INT 21h that started a child is in    *)
(* flight until the child has ended.                                       *)
(***************************************************************************)
EXTENDS Integers, Sequences

CONSTANTS
  MaxClients,          \* MAX_CLIENTS
  have_fs, have_gs,    \* the provider uses FS, GS
  Descriptor,          \* LDT descriptors that the host can give
  None, Failed,        \* selector 0, and FFFFh of a failed allocation
  MaxCalls             \* a bound on the calls of a client that are in flight

ASSUME MaxClientsAssumption == MaxClients \in Nat
ASSUME HaveAssumption == have_fs \in BOOLEAN /\ have_gs \in BOOLEAN
ASSUME DescriptorAssumption == None \notin Descriptor /\ Failed \notin Descriptor /\ None # Failed

VARIABLES
  clients,             \* the host's clients are the handles 0 .. clients - 1
  is_32,               \* their bitness
  vector,              \* their INT 21h vectors
  running,             \* the client that runs, -1 for none
  allocated,           \* the descriptors given to the provider
  sr, current_client, dseg32, clnt_is_32,   \* the provider's
  thunk,               \* THUNK_16_32x is on
  calls,               \* INT 21h calls in flight, of each client
  refused,             \* a client could not be set up
  mixed,               \* clients of both bitnesses have run since there was none
  aborted              \* the assert of entry() failed

hostVars  == <<clients, is_32, vector, running, allocated>>
entryVars == <<sr, current_client, dseg32, clnt_is_32, thunk>>
vars == <<hostVars, entryVars, calls, refused, mixed, aborted>>

NoClient == -1
Handle   == 0 .. MaxClients - 1
Live     == 0 .. clients - 1
Selector == Descriptor \cup {None, Failed}

\* A vector: the one that the host gives a client, or the provider's dos32_int21 or
\* dos16_int21 in the code segment of the client that hooked it.
Vector      == [ours : BOOLEAN, of : Handle \cup {NoClient}, wide : BOOLEAN]
Host(h)     == [ours |-> FALSE, of |-> h, wide |-> FALSE]
Ours(h, wide) == [ours |-> TRUE, of |-> h, wide |-> wide]
NoVector    == Host(NoClient)

\* struct clnt: ds is the selector that the host gives for the client of a handle.
Clnt  == [ds : Handle \cup {NoClient}, fs : Selector, gs : Selector,
          old_int21 : Vector, used : BOOLEAN]
Unset == [ds |-> NoClient, fs |-> None, gs |-> None, old_int21 |-> NoVector, used |-> FALSE]

\* A call: how the old handler is called, and whether its client made another from
\* within it that has returned.
Call == [is_32 : BOOLEAN, nested : BOOLEAN]

Init ==
  /\ clients = 0 /\ running = NoClient /\ allocated = {}
  /\ is_32 = [h \in Handle |-> FALSE]
  /\ vector = [h \in Handle |-> Host(h)]
  /\ sr = [h \in Handle |-> Unset]
  /\ current_client = 0 /\ dseg32 = NoClient /\ clnt_is_32 = TRUE /\ thunk = FALSE
  /\ calls = [h \in Handle |-> <<>>]
  /\ refused = FALSE /\ mixed = FALSE /\ aborted = FALSE

-----------------------------------------------------------------------------
(* A client starts: entry with term = 0.                                   *)

Real(d) == {d} \cap Descriptor

\* __dpmi_allocate_ldt_descriptors(1), which fails when programs hold the rest of the
\* LDT; the -1 is not seen in an unsigned short.
Given(have, held) ==
  IF have THEN (Descriptor \ held) \cup {Failed} ELSE {None}

Inherited(inherits) == IF inherits THEN vector[running] ELSE Host(clients)

\* entry16 and entry32.
Bitness(wide) == wide

\* The host's side of a start, with the vector that the client ends up with.
Enters(wide, to) ==
  /\ clients' = clients + 1 /\ running' = clients
  /\ is_32' = [is_32 EXCEPT ![clients] = wide]
  /\ vector' = [vector EXCEPT ![clients] = to]
  /\ clnt_is_32' = Bitness(wide)
  /\ mixed' = IF clients = 0 THEN FALSE ELSE mixed \/ wide # is_32[0]

\* A faulty variant: a client that inherits the handler hooks it again.
ChainedNever(inherits) == FALSE
Chained(inherits) == inherits /\ clients > 0 /\ sr[clients - 1].used

Accept(wide, inherits, fs, gs) ==
  /\ Enters(wide, IF Chained(inherits) THEN Inherited(inherits) ELSE Ours(clients, Bitness(wide)))
  /\ sr' = [sr EXCEPT ![clients] =
       [ds |-> clients, fs |-> fs, gs |-> gs, used |-> TRUE,
        old_int21 |-> IF Chained(inherits) THEN sr[clients - 1].old_int21
                      ELSE Inherited(inherits)]]
  /\ dseg32' = clients /\ current_client' = clients
  /\ UNCHANGED refused

\* code16 has no descriptor for cs or ds, and returns without a call of entry.
Refuse16(inherits) ==
  /\ Enters(FALSE, Inherited(inherits))
  /\ refused' = TRUE
  /\ UNCHANGED <<sr, current_client, dseg32, thunk, allocated>>

\* set_descriptor fails for FFFFh, and entry returns with the thunk on.
Refuse(wide, inherits, fs, gs) ==
  /\ Enters(wide, Inherited(inherits))
  /\ sr' = [sr EXCEPT ![clients].fs = fs, ![clients].gs = gs]
  /\ refused' = TRUE
  /\ UNCHANGED <<current_client, dseg32>>

Start(wide, inherits) ==
  /\ ~aborted /\ clients < MaxClients
  /\ inherits => running # NoClient
  /\ \/ ~wide /\ Refuse16(inherits)
     \/ /\ thunk' = TRUE
        /\ \E fs \in Given(have_fs, allocated) :
             IF fs = Failed
             THEN /\ Refuse(wide, inherits, fs, sr[clients].gs)
                  /\ UNCHANGED allocated
             ELSE \E gs \in Given(have_gs, allocated \cup Real(fs)) :
                    /\ allocated' = allocated \cup Real(fs) \cup Real(gs)
                    /\ IF gs = Failed THEN Refuse(wide, inherits, fs, gs)
                       ELSE Accept(wide, inherits, fs, gs)
  /\ UNCHANGED <<calls, aborted>>

-----------------------------------------------------------------------------
(* A client ends, or is switched to: entry with term = 1 and 2.            *)

\* assert(handle < MAX_CLIENTS && (handle == current_client || term != 1)).
Allowed(handle) == handle = current_client

\* Faulty variants of done: the thunk is left on, the data segment is left alone, and
\* so is the current client.
ThunkKept == TRUE
ThunkDone == FALSE
DsegKept(prev) == dseg32
DsegBack(prev) == IF prev = NoClient THEN dseg32 ELSE sr[prev].ds
CurrentKept(prev) == current_client
CurrentBack(prev) == IF prev = NoClient THEN current_client ELSE prev

Freed(handle) == Real(sr[handle].fs) \cup Real(sr[handle].gs)

done(handle, prev) ==
  /\ vector' = [vector EXCEPT ![handle] = sr[handle].old_int21]
  /\ allocated' = allocated \ Freed(handle)
  /\ sr' = [sr EXCEPT ![handle].used = FALSE]
  /\ dseg32' = DsegBack(prev)
  /\ current_client' = CurrentBack(prev)
  /\ thunk' = ThunkDone
  /\ clients' = clients - 1 /\ running' = prev
  /\ is_32' = [is_32 EXCEPT ![handle] = FALSE]
  /\ calls' = [calls EXCEPT ![handle] = <<>>]
  /\ UNCHANGED <<refused, mixed, aborted>>

Stop ==
  LET handle == clients - 1
  IN /\ ~aborted /\ clients > 0 /\ running = handle
     /\ clnt_is_32' = Bitness(is_32[handle])
     /\ \/ Allowed(handle) /\ done(handle, handle - 1)
        \/ /\ ~Allowed(handle)
           /\ aborted' = TRUE
           /\ UNCHANGED <<hostVars, sr, current_client, dseg32, thunk, calls, refused, mixed>>

Switch(handle) ==
  /\ ~aborted
  /\ clnt_is_32' = Bitness(is_32[handle])
  /\ thunk' = FALSE
  /\ current_client' = handle
  /\ running' = handle
  /\ UNCHANGED <<clients, is_32, vector, allocated, sr, dseg32, calls, refused, mixed, aborted>>

-----------------------------------------------------------------------------
(* INT 21h.                                                                *)

\* int21_handler up to the old handler.
Int21 ==
  /\ ~aborted /\ running # NoClient /\ vector[running].ours
  /\ Len(calls[running]) < MaxCalls
  /\ calls' = [calls EXCEPT ![running] = Append(@, [is_32 |-> clnt_is_32, nested |-> FALSE])]
  /\ thunk' = (thunk /\ clnt_is_32)
  /\ UNCHANGED <<hostVars, sr, current_client, dseg32, clnt_is_32, refused, mixed, aborted>>

InCall(h) == calls[h] # <<>>
Last(h)   == calls[h][Len(calls[h])]

\* What is left when the last call returns: the one below was nested.
Rest(h) == SubSeq(calls[h], 1, Len(calls[h]) - 1)
Returned(rest) == IF rest = <<>> THEN rest ELSE [rest EXCEPT ![Len(rest)].nested = TRUE]

\* The old handler returns, and int21_handler with it.
Return ==
  /\ ~aborted /\ running # NoClient /\ InCall(running)
  /\ calls' = [calls EXCEPT ![running] = Returned(Rest(running))]
  /\ thunk' = (thunk \/ ~Last(running).is_32)
  /\ UNCHANGED <<hostVars, sr, current_client, dseg32, clnt_is_32, refused, mixed, aborted>>

Next ==
  \/ \E wide, inherits \in BOOLEAN : Start(wide, inherits)
  \/ Stop
  \/ \E handle \in Live : Switch(handle)
  \/ Int21
  \/ Return

Spec == Init /\ [][Next]_vars

-----------------------------------------------------------------------------
(* Properties.                                                             *)

TypeOK ==
  /\ clients \in 0 .. MaxClients
  /\ is_32 \in [Handle -> BOOLEAN]
  /\ vector \in [Handle -> Vector]
  /\ running \in Live \cup {NoClient}
  /\ allocated \subseteq Descriptor
  /\ sr \in [Handle -> Clnt]
  /\ current_client \in Handle \cup {0}
  /\ dseg32 \in Handle \cup {NoClient}
  /\ clnt_is_32 \in BOOLEAN /\ thunk \in BOOLEAN
  /\ calls \in [Handle -> Seq(Call)]
  /\ refused \in BOOLEAN /\ mixed \in BOOLEAN /\ aborted \in BOOLEAN

\* The assert of entry() never fails, however clients nest and are switched, as long
\* as every client could be set up.
AssertHolds == aborted => refused

\* The client hooked the vector that the host gave it, with the handler of its size.
Hooked(h) == vector[h] = Ours(h, is_32[h]) /\ sr[h].old_int21 = Host(h)

\* As long as every client could be set up: the provider gets every INT 21h of every
\* live client, and passes it on to the host's vector of a live client, never back to
\* itself.  The client hooked its own vector, or it has the handler of an earlier client
\* and the old vector of the one below it.  One that has ended does not keep the handler.
ChainTrue ==
  ~refused =>
    /\ \A h \in Live :
         /\ sr[h].used /\ vector[h].ours
         /\ \E g \in 0 .. h : sr[h].old_int21 = Host(g)
         /\ \/ Hooked(h)
            \/ /\ h > 0 /\ sr[h].old_int21 = sr[h - 1].old_int21
               /\ \E g \in 0 .. h - 1 : vector[h] = vector[g]
    /\ \A h \in Handle \ Live : ~vector[h].ours

\* As long as every client could be set up: the data segment that the handlers load is
\* a live client's, FS and GS of every live client are allocated and its own, and no
\* other descriptor is kept.
SelectorsLive ==
  ~refused =>
    /\ clients > 0 => dseg32 \in Live
    /\ allocated = UNION {Freed(h) : h \in Live}
    /\ \A h \in Live :
         /\ have_fs => sr[h].fs \in Descriptor
         /\ have_gs => sr[h].gs \in Descriptor \ {sr[h].fs}
         /\ \A g \in Live : Freed(g) \cap Freed(h) # {} => g = h

\* Whatever clients a call started, and however the host switched meanwhile: when its
\* client runs again the thunk is off, if the old handler is a 16 bit one (and the
\* client made no other call from within).
ThunkOff ==
  running # NoClient /\ InCall(running) =>
    Last(running).is_32 \/ Last(running).nested \/ ~thunk

\* As long as clients of one bitness run, every call reaches the old handler with a
\* frame of the size that its client uses.
CallsSized ==
  ~mixed => \A h \in Live : \A i \in DOMAIN calls[h] : calls[h][i].is_32 = is_32[h]
=============================================================================
