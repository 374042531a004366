------------------------------ MODULE ClientPool ------------------------------
(***************************************************************************)
(* The stack of clients of the translator (msdos/msdos.c, msdos/callbacks.c *)
(* and msdoshlp.c), and the real mode callbacks they share.                *)
(*                                                                         *)
(* A client of another bitness than the client below it allocates three    *)
(* real mode callbacks (here: one set); any other client borrows the set   *)
(* of the client below.  The helper (msdoshlp.c) keeps one argument per    *)
(* callback for all sets: a pointer into the slot that allocated last.     *)
(*                                                                         *)
(* The host and the real mode mouse drivers are external.  slots is a C    *)
(* array: what a client leaves in its slot stays there.                    *)
(***************************************************************************)
EXTENDS Integers

CONSTANTS
  MaxClients,    \* DPMI_MAX_CLIENTS
  CallbackSet,   \* sets of three callbacks the host can give
  Kind,          \* "mouse" (INT 33h) and "ps2" (INT 15h)
  Routine        \* routines of clients

ASSUME MaxClientsAssumption == MaxClients \in Nat
ASSUME KindAssumption == Kind \subseteq {"mouse", "ps2"}

CONSTANTS NoSet, NoRoutine
ASSUME NoSetAssumption == NoSet \notin CallbackSet /\ NoRoutine \notin Routine

VARIABLES
  msdos_client_num,   \* the top of the stack
  slots,              \* msdos_client
  allocated,          \* the host's allocated sets
  rmcb_arg,           \* the slot that the helper's callback arguments point into
  driver,             \* the set whose callback each driver calls
  setter,             \* the client that gave it to the driver, 0 when it is gone
  ran                 \* what the last event ran

vars == <<msdos_client_num, slots, allocated, rmcb_arg, driver, setter, ran>>

Slots == 1 .. MaxClients
Slot  == [is_32 : BOOLEAN, rmcb_alloced : BOOLEAN, rmcbs : CallbackSet \cup {NoSet},
          routine : [Kind -> Routine \cup {NoRoutine}]]

NoRoutines == [k \in Kind |-> NoRoutine]
Zero == [is_32 |-> FALSE, rmcb_alloced |-> FALSE, rmcbs |-> NoSet, routine |-> NoRoutines]

Live == 1 .. msdos_client_num
Cur  == slots[msdos_client_num]

Init ==
  /\ msdos_client_num = 0
  /\ slots = [n \in Slots |-> Zero]
  /\ allocated = {}
  /\ rmcb_arg = 0
  /\ driver = [k \in Kind |-> NoSet]
  /\ setter = [k \in Kind |-> 0]
  /\ ran = NoRoutine

-----------------------------------------------------------------------------
(* Clients come and go.                                                    *)

\* A faulty variant: every client but the first borrows.
BorrowsUnlessFirst(is_32) == msdos_client_num > 0
Borrows(is_32) == msdos_client_num > 0 /\ Cur.is_32 = is_32

NewSlot == msdos_client_num + 1

\* memset, and a faulty variant that leaves the old routines.
KeptRoutines   == slots[NewSlot].routine
ZeroedRoutines == NoRoutines

\* No bound is checked: the host has no more than DPMI_MAX_CLIENTS clients.
msdos_init(is_32) ==
  /\ msdos_client_num < MaxClients
  /\ msdos_client_num' = msdos_client_num + 1
  /\ \/ /\ ~Borrows(is_32)
        /\ \E s \in CallbackSet \ allocated :
             /\ allocated' = allocated \cup {s}
             /\ slots' = [slots EXCEPT ![NewSlot] =
                  [is_32 |-> is_32, rmcb_alloced |-> TRUE, rmcbs |-> s,
                   routine |-> ZeroedRoutines]]
        /\ rmcb_arg' = NewSlot
     \/ /\ Borrows(is_32)
        /\ slots' = [slots EXCEPT ![NewSlot] =
             [is_32 |-> is_32, rmcb_alloced |-> FALSE, rmcbs |-> Cur.rmcbs,
              routine |-> ZeroedRoutines]]
        /\ UNCHANGED <<allocated, rmcb_arg>>
  /\ ran' = NoRoutine
  /\ UNCHANGED <<driver, setter>>

\* A faulty variant: the callbacks are left allocated.
NothingFreed == {}
Freed == IF Cur.rmcb_alloced THEN {Cur.rmcbs} ELSE {}

\* Neither the slot nor the drivers are told.
msdos_done ==
  /\ msdos_client_num > 0
  /\ allocated' = allocated \ Freed
  /\ msdos_client_num' = msdos_client_num - 1
  /\ setter' = [k \in Kind |-> IF setter[k] = msdos_client_num THEN 0 ELSE setter[k]]
  /\ ran' = NoRoutine
  /\ UNCHANGED <<slots, rmcb_arg, driver>>

-----------------------------------------------------------------------------
(* Mouse routines.                                                         *)

\* INT 33h AX=0Ch and 14h, INT 15h AX=C207h: ES:(E)DX or ES:(E)BX is a routine.
SetRoutine(k, r) ==
  /\ msdos_client_num > 0
  /\ slots' = [slots EXCEPT ![msdos_client_num].routine[k] = r]
  /\ driver' = [driver EXCEPT ![k] = Cur.rmcbs]
  /\ setter' = [setter EXCEPT ![k] = msdos_client_num]
  /\ ran' = NoRoutine
  /\ UNCHANGED <<msdos_client_num, allocated, rmcb_arg>>

\* The same with ES = 0: INT 15h leaves the routine in the slot.
ResetRoutine(k) ==
  /\ msdos_client_num > 0
  /\ slots' = IF k = "ps2" THEN slots
              ELSE [slots EXCEPT ![msdos_client_num].routine[k] = NoRoutine]
  /\ driver' = [driver EXCEPT ![k] = NoSet]
  /\ setter' = [setter EXCEPT ![k] = 0]
  /\ ran' = NoRoutine
  /\ UNCHANGED <<msdos_client_num, allocated, rmcb_arg>>

\* The selector of a routine is valid while its client lives; the host may or may
\* not have given it to another when the client is gone.
MaybeValid(n, r) ==
  {ok \in BOOLEAN : (r = NoRoutine => ~ok) /\ (r # NoRoutine /\ n \in Live => ok)}

\* mouse_callback, ps2_mouse_callback: whichever set the driver calls, the routine
\* is the one in the slot the argument points into.
Event(k) ==
  /\ driver[k] \in allocated
  /\ \E ok \in MaybeValid(rmcb_arg, slots[rmcb_arg].routine[k]) :
       ran' = IF ok THEN slots[rmcb_arg].routine[k] ELSE NoRoutine
  /\ UNCHANGED <<msdos_client_num, slots, allocated, rmcb_arg, driver, setter>>

-----------------------------------------------------------------------------
Next ==
  \/ \E is_32 \in BOOLEAN : msdos_init(is_32)
  \/ msdos_done
  \/ \E k \in Kind : Event(k) \/ ResetRoutine(k) \/ \E r \in Routine : SetRoutine(k, r)

Spec == Init /\ [][Next]_vars

-----------------------------------------------------------------------------
(* Properties.                                                             *)

TypeOK ==
  /\ msdos_client_num \in 0 .. MaxClients
  /\ slots \in [Slots -> Slot]
  /\ allocated \subseteq CallbackSet
  /\ rmcb_arg \in 0 .. MaxClients
  /\ driver \in [Kind -> CallbackSet \cup {NoSet}]
  /\ setter \in [Kind -> 0 .. MaxClients]
  /\ ran \in Routine \cup {NoRoutine}

Owners == {n \in Live : slots[n].rmcb_alloced}

\* The callbacks a client has, its own or borrowed, are allocated by a live client
\* of its own bitness, so that they reach it with registers of the right size and
\* their register structure is still there, in whatever order clients nest.
CallbacksLive ==
  \A n \in Live :
    \E m \in Owners :
      m <= n /\ slots[m].rmcbs = slots[n].rmcbs /\ slots[m].is_32 = slots[n].is_32

\* The allocated callbacks are those of the live clients that allocated some, a
\* set each: nothing is freed twice, and nothing is left when the last client exits.
CallbacksOwned ==
  /\ allocated = {slots[n].rmcbs : n \in Owners}
  /\ \A m, n \in Owners : slots[m].rmcbs = slots[n].rmcbs => m = n
=============================================================================
