-------------------------- MODULE ClientPool_proofs --------------------------
(***************************************************************************)
(* Proofs about the client stack, for any number of clients: whatever the  *)
(* order of 16 and 32 bit clients, the callbacks a client has are those of *)
(* a live client of its bitness, and each set has one owner that frees it. *)
(*                                                                         *)
(* The specification with the entries implements that of the stack, so the *)
(* same holds there; then the invariant of the aliases, and what an entry  *)
(* answers.                                                                *)
(***************************************************************************)
EXTENDS EntryPoints, TLAPS

\* While callbacks are allocated, their arguments point into a slot.
ArgSet == allocated # {} => rmcb_arg # 0

IInv == TypeOK /\ CallbacksLive /\ CallbacksOwned /\ ArgSet

-----------------------------------------------------------------------------
(* The stack around a step.                                                *)

\* Live clients have slots.
LEMMA LiveSlots ==
  ASSUME TypeOK
  PROVE  Live \subseteq Slots /\ Owners \subseteq Live
BY MaxClientsAssumption DEF TypeOK, Live, Slots, Owners

\* The top client has a slot.
LEMMA CurSlot ==
  ASSUME TypeOK, msdos_client_num > 0
  PROVE  msdos_client_num \in Live /\ msdos_client_num \in Slots /\ Cur \in Slot
BY MaxClientsAssumption DEF TypeOK, Live, Slots, Cur

\* A live client's callbacks are allocated.
LEMMA LiveAllocated ==
  ASSUME TypeOK, CallbacksLive, CallbacksOwned, NEW n \in Live
  PROVE  slots[n].rmcbs \in allocated
BY DEF CallbacksLive, CallbacksOwned

-----------------------------------------------------------------------------
(* Type correctness.                                                       *)

\* A client with callbacks of its own is well formed, and so is one that borrows.
LEMMA TypeOfInit ==
  ASSUME TypeOK, NEW is_32 \in BOOLEAN, msdos_init(is_32)
  PROVE  TypeOK'
<1>1. NewSlot \in Slots /\ NewSlot \in 0 .. MaxClients
  BY MaxClientsAssumption DEF TypeOK, msdos_init, Slots, NewSlot
<1>2. NoRoutines \in [Kind -> Routine \cup {NoRoutine}]
  BY DEF NoRoutines
<1>3. slots' \in [Slots -> Slot]
  <2>1. CASE ~Borrows(is_32)
    <3>1. PICK s \in CallbackSet :
            slots' = [slots EXCEPT ![NewSlot] =
              [is_32 |-> is_32, rmcb_alloced |-> TRUE, rmcbs |-> s, routine |-> NoRoutines]]
      BY <2>1 DEF msdos_init, ZeroedRoutines
    <3>2. [is_32 |-> is_32, rmcb_alloced |-> TRUE, rmcbs |-> s, routine |-> NoRoutines] \in Slot
      BY <1>2 DEF Slot
    <3> QED
      BY <3>1, <3>2, <1>1 DEF TypeOK
  <2>2. CASE Borrows(is_32)
    <3>1. Cur \in Slot
      BY <2>2, CurSlot DEF Borrows
    <3>2. [is_32 |-> is_32, rmcb_alloced |-> FALSE, rmcbs |-> Cur.rmcbs,
           routine |-> NoRoutines] \in Slot
      BY <3>1, <1>2 DEF Slot
    <3> QED
      BY <2>2, <3>2, <1>1 DEF TypeOK, msdos_init, ZeroedRoutines
  <2> QED
    BY <2>1, <2>2
<1>4. allocated' \subseteq CallbackSet /\ rmcb_arg' \in 0 .. MaxClients
  BY <1>1 DEF TypeOK, msdos_init
<1>5. msdos_client_num' \in 0 .. MaxClients
  BY MaxClientsAssumption DEF TypeOK, msdos_init
<1>6. /\ driver' \in [Kind -> CallbackSet \cup {NoSet}]
      /\ setter' \in [Kind -> 0 .. MaxClients]
      /\ ran' \in Routine \cup {NoRoutine}
  BY DEF TypeOK, msdos_init
<1> QED
  BY <1>3, <1>4, <1>5, <1>6 DEF TypeOK

\* A client writes routines, or none, into its own slot.
LEMMA TypeOfRoutine ==
  ASSUME TypeOK, NEW k \in Kind,
         ResetRoutine(k) \/ \E r \in Routine : SetRoutine(k, r)
  PROVE  TypeOK'
<1>1. msdos_client_num \in Slots /\ Cur \in Slot /\ msdos_client_num \in 0 .. MaxClients
  BY CurSlot DEF TypeOK, ResetRoutine, SetRoutine
<1>2. ASSUME NEW r \in Routine \cup {NoRoutine}
      PROVE  [slots EXCEPT ![msdos_client_num].routine[k] = r] \in [Slots -> Slot]
  BY <1>1 DEF TypeOK, Slot
<1>3. slots' \in [Slots -> Slot]
  BY <1>2 DEF TypeOK, ResetRoutine, SetRoutine
<1>4. driver' \in [Kind -> CallbackSet \cup {NoSet}]
  BY <1>1 DEF TypeOK, ResetRoutine, SetRoutine, Slot
<1>5. setter' \in [Kind -> 0 .. MaxClients]
  <2>1. setter' = [setter EXCEPT ![k] = 0] \/ setter' = [setter EXCEPT ![k] = msdos_client_num]
    BY DEF ResetRoutine, SetRoutine
  <2> QED
    BY <2>1, <1>1, MaxClientsAssumption DEF TypeOK
<1> QED
  BY <1>3, <1>4, <1>5 DEF TypeOK, ResetRoutine, SetRoutine

\* An event runs what it finds in a slot.
LEMMA TypeOfEvent ==
  ASSUME TypeOK, ArgSet, NEW k \in Kind, Event(k)
  PROVE  TypeOK'
<1>1. rmcb_arg \in Slots
  BY MaxClientsAssumption DEF TypeOK, ArgSet, Event, Slots
<1>2. ran' \in Routine \cup {NoRoutine}
  BY <1>1 DEF TypeOK, Event, Slot
<1> QED
  BY <1>2 DEF TypeOK, Event

\* Exit only takes away.
LEMMA TypeOfDone ==
  ASSUME TypeOK, msdos_done
  PROVE  TypeOK'
<1>1. msdos_client_num' \in 0 .. MaxClients
  BY MaxClientsAssumption DEF TypeOK, msdos_done
<1>2. setter' \in [Kind -> 0 .. MaxClients]
  BY MaxClientsAssumption DEF TypeOK, msdos_done
<1> QED
  BY <1>1, <1>2 DEF TypeOK, msdos_done

-----------------------------------------------------------------------------
(* The callbacks.                                                          *)

\* A client that borrows adds no owner; one that does not becomes an owner itself.
LEMMA OwnersOfInit ==
  ASSUME TypeOK, NEW is_32 \in BOOLEAN, msdos_init(is_32)
  PROVE  /\ Live' = Live \cup {NewSlot} /\ NewSlot \notin Live
         /\ \A n \in Live : slots'[n] = slots[n]
         /\ slots'[NewSlot].is_32 = is_32
         /\ Owners' = IF Borrows(is_32) THEN Owners ELSE Owners \cup {NewSlot}
<1>1. Live' = Live \cup {NewSlot} /\ NewSlot \notin Live /\ NewSlot \in Slots
  BY MaxClientsAssumption DEF TypeOK, msdos_init, Live, NewSlot, Slots
<1>2. \A n \in Live : slots'[n] = slots[n]
  BY <1>1, LiveSlots DEF TypeOK, msdos_init
<1>3. /\ slots'[NewSlot].is_32 = is_32
      /\ slots'[NewSlot].rmcb_alloced <=> ~Borrows(is_32)
  <2>1. CASE Borrows(is_32)
    <3>1. slots' = [slots EXCEPT ![NewSlot] =
            [is_32 |-> is_32, rmcb_alloced |-> FALSE, rmcbs |-> Cur.rmcbs,
             routine |-> ZeroedRoutines]]
      BY <2>1 DEF msdos_init
    <3> QED
      BY <1>1, <2>1, <3>1 DEF TypeOK
  <2>2. CASE ~Borrows(is_32)
    <3>1. PICK s \in CallbackSet :
            slots' = [slots EXCEPT ![NewSlot] =
              [is_32 |-> is_32, rmcb_alloced |-> TRUE, rmcbs |-> s,
               routine |-> ZeroedRoutines]]
      BY <2>2 DEF msdos_init
    <3> QED
      BY <1>1, <2>2, <3>1 DEF TypeOK
  <2> QED
    BY <2>1, <2>2
<1>4. Owners' = {n \in Live' : slots'[n].rmcb_alloced}
  BY DEF Owners
<1>5. CASE Borrows(is_32)
  BY <1>1, <1>2, <1>3, <1>4, <1>5 DEF Owners
<1>6. CASE ~Borrows(is_32)
  BY <1>1, <1>2, <1>3, <1>4, <1>6 DEF Owners
<1> QED
  BY <1>1, <1>2, <1>3, <1>5, <1>6

\* msdos_init keeps the two invariants.
LEMMA CallbacksOfInit ==
  ASSUME IInv, NEW is_32 \in BOOLEAN, msdos_init(is_32)
  PROVE  CallbacksLive' /\ CallbacksOwned' /\ ArgSet'
<1> USE DEF IInv
<1>1. /\ Live' = Live \cup {NewSlot} /\ NewSlot \notin Live
      /\ \A n \in Live : slots'[n] = slots[n]
      /\ slots'[NewSlot].is_32 = is_32
      /\ Owners' = IF Borrows(is_32) THEN Owners ELSE Owners \cup {NewSlot}
  BY OwnersOfInit
<1>2. NewSlot \in Slots /\ \A n \in Live : n <= NewSlot
  BY MaxClientsAssumption DEF TypeOK, msdos_init, Live, NewSlot, Slots
<1>3. Owners \subseteq Live /\ Live \subseteq Slots /\ NewSlot \in Int
  BY LiveSlots, <1>2 DEF Slots
<1>4. CASE Borrows(is_32)
  <2>1. msdos_client_num \in Live /\ Cur.is_32 = is_32
    BY <1>4, CurSlot DEF Borrows
  <2>2. slots'[NewSlot].rmcbs = Cur.rmcbs /\ UNCHANGED <<allocated, rmcb_arg>>
    BY <1>2, <1>4 DEF TypeOK, msdos_init
  <2>3. PICK m \in Owners : slots[m].rmcbs = Cur.rmcbs /\ slots[m].is_32 = is_32
    BY <2>1 DEF CallbacksLive, Cur
  <2>4. CallbacksLive'
    <3>1. Owners' = Owners /\ \A n \in Owners : slots'[n] = slots[n]
      BY <1>1, <1>3, <1>4
    <3>2. ASSUME NEW n \in Live
          PROVE  \E o \in Owners' : /\ o <= n /\ slots'[o].rmcbs = slots'[n].rmcbs
                                    /\ slots'[o].is_32 = slots'[n].is_32
      BY <1>1, <3>1 DEF CallbacksLive
    <3>3. /\ m \in Owners' /\ m <= NewSlot
          /\ slots'[m].rmcbs = slots'[NewSlot].rmcbs
          /\ slots'[m].is_32 = slots'[NewSlot].is_32
      BY <1>1, <1>2, <1>3, <2>2, <2>3, <3>1
    <3> QED
      BY <1>1, <3>2, <3>3 DEF CallbacksLive
  <2>5. CallbacksOwned'
    BY <1>1, <1>3, <1>4, <2>2 DEF CallbacksOwned
  <2> QED
    BY <2>2, <2>4, <2>5 DEF ArgSet
<1>5. CASE ~Borrows(is_32)
  <2>1. PICK s \in CallbackSet \ allocated :
          /\ allocated' = allocated \cup {s}
          /\ slots'[NewSlot].rmcbs = s
          /\ slots'[NewSlot].rmcb_alloced
    BY <1>2, <1>5 DEF TypeOK, msdos_init
  <2>2. CallbacksLive'
    <3>1. ASSUME NEW n \in Live
          PROVE  \E m \in Owners' : /\ m <= n /\ slots'[m].rmcbs = slots'[n].rmcbs
                                    /\ slots'[m].is_32 = slots'[n].is_32
      BY <1>1, <1>3, <1>5 DEF CallbacksLive
    <3>2. NewSlot \in Owners' /\ NewSlot <= NewSlot
      BY <1>1, <1>3, <1>5
    <3> QED
      BY <1>1, <3>1, <3>2 DEF CallbacksLive
  <2>3. \A n \in Owners : slots'[n].rmcbs \in allocated /\ slots'[n].rmcbs # s
    BY <1>1, <1>3, <2>1 DEF CallbacksOwned
  <2>4. CallbacksOwned'
    <3>1. {slots'[n].rmcbs : n \in Owners'} = allocated \cup {s}
      BY <1>1, <1>3, <1>5, <2>1 DEF CallbacksOwned
    <3>2. \A m, n \in Owners' : slots'[m].rmcbs = slots'[n].rmcbs => m = n
      BY <1>1, <1>3, <1>5, <2>1, <2>3 DEF CallbacksOwned
    <3> QED
      BY <2>1, <3>1, <3>2 DEF CallbacksOwned
  <2>5. rmcb_arg' # 0
    BY <1>2, <1>5 DEF msdos_init, Slots
  <2> QED
    BY <2>2, <2>4, <2>5 DEF ArgSet
<1> QED
  BY <1>4, <1>5

\* msdos_done keeps them: the top client is nobody's lender but its own.
LEMMA CallbacksOfDone ==
  ASSUME IInv, msdos_done
  PROVE  CallbacksLive' /\ CallbacksOwned' /\ ArgSet'
<1> USE DEF IInv
<1>1. /\ msdos_client_num \in Live
      /\ Live' = Live \ {msdos_client_num}
      /\ \A n \in Live' : n < msdos_client_num
      /\ msdos_client_num \in Int
  BY MaxClientsAssumption DEF TypeOK, msdos_done, Live
<1>2. slots' = slots /\ rmcb_arg' = rmcb_arg /\ allocated' = allocated \ Freed
  BY DEF msdos_done
<1>3. Owners' = Owners \ {msdos_client_num}
  BY <1>1, <1>2 DEF Owners
<1>4. CallbacksLive'
  <2> SUFFICES ASSUME NEW n \in Live'
               PROVE  \E m \in Owners' : /\ m <= n /\ slots[m].rmcbs = slots[n].rmcbs
                                         /\ slots[m].is_32 = slots[n].is_32
    BY <1>2 DEF CallbacksLive
  <2>1. PICK m \in Owners : /\ m <= n /\ slots[m].rmcbs = slots[n].rmcbs
                            /\ slots[m].is_32 = slots[n].is_32
    BY <1>1 DEF CallbacksLive
  <2>2. m # msdos_client_num
    BY <1>1, <2>1 DEF Owners, Live
  <2> QED
    BY <1>3, <2>1, <2>2
<1>5. CallbacksOwned'
  <2>1. CASE msdos_client_num \in Owners
    <3>1. Freed = {slots[msdos_client_num].rmcbs}
      BY <2>1 DEF Freed, Owners, Cur
    <3> QED
      BY <1>2, <1>3, <2>1, <3>1 DEF CallbacksOwned
  <2>2. CASE msdos_client_num \notin Owners
    <3>1. Freed = {} /\ Owners' = Owners
      BY <1>1, <1>3, <2>2 DEF Freed, Owners, Cur
    <3> QED
      BY <1>2, <3>1 DEF CallbacksOwned
  <2> QED
    BY <2>1, <2>2
<1> QED
  BY <1>2, <1>4, <1>5 DEF ArgSet

\* Routines and events touch neither the stack nor the callbacks.
LEMMA CallbacksOfRoutine ==
  ASSUME IInv, NEW k \in Kind,
         ResetRoutine(k) \/ Event(k) \/ \E r \in Routine : SetRoutine(k, r)
  PROVE  CallbacksLive' /\ CallbacksOwned' /\ ArgSet'
<1> USE DEF IInv
<1>1. /\ UNCHANGED <<msdos_client_num, allocated, rmcb_arg>>
      /\ Live' = Live
  BY DEF ResetRoutine, Event, SetRoutine, Live
<1>2. \A n \in Slots : /\ slots'[n].rmcbs = slots[n].rmcbs
                       /\ slots'[n].rmcb_alloced = slots[n].rmcb_alloced
                       /\ slots'[n].is_32 = slots[n].is_32
  <2>1. CASE slots' = slots
    BY <2>1
  <2>2. ASSUME NEW r \in Routine \cup {NoRoutine}, msdos_client_num \in Slots,
               slots' = [slots EXCEPT ![msdos_client_num].routine[k] = r]
        PROVE  \A n \in Slots : /\ slots'[n].rmcbs = slots[n].rmcbs
                                 /\ slots'[n].rmcb_alloced = slots[n].rmcb_alloced
                                 /\ slots'[n].is_32 = slots[n].is_32
    <3> SUFFICES ASSUME NEW n \in Slots
                 PROVE  /\ slots'[n].rmcbs = slots[n].rmcbs
                        /\ slots'[n].rmcb_alloced = slots[n].rmcb_alloced
                        /\ slots'[n].is_32 = slots[n].is_32
      OBVIOUS
    <3>1. slots[n] \in Slot
      BY DEF TypeOK
    <3>2. slots'[n] = IF n = msdos_client_num
                      THEN [slots[n] EXCEPT !.routine = [slots[n].routine EXCEPT ![k] = r]]
                      ELSE slots[n]
      BY <2>2 DEF TypeOK
    <3> QED
      BY <3>1, <3>2, Zenon DEF Slot
  <2>3. ResetRoutine(k) => msdos_client_num \in Slots
    BY CurSlot DEF ResetRoutine
  <2>4. ASSUME NEW r \in Routine, SetRoutine(k, r) PROVE msdos_client_num \in Slots
    BY <2>4, CurSlot DEF SetRoutine
  <2> QED
    BY <2>1, <2>2, <2>3, <2>4 DEF ResetRoutine, Event, SetRoutine
<1>3. Owners' = Owners
  BY <1>1, <1>2, LiveSlots DEF Owners
<1>4. CallbacksLive'
  BY <1>1, <1>2, <1>3, LiveSlots DEF CallbacksLive
<1>5. CallbacksOwned'
  <2>1. \A n \in Owners : slots'[n].rmcbs = slots[n].rmcbs
    BY <1>2, LiveSlots
  <2> QED
    BY <1>1, <1>3, <2>1 DEF CallbacksOwned
<1> QED
  BY <1>1, <1>4, <1>5 DEF ArgSet

-----------------------------------------------------------------------------
\* The inductive invariant.
LEMMA PoolInvariant == Spec => []IInv
<1>1. Init => IInv
  <2> SUFFICES ASSUME Init PROVE IInv
    OBVIOUS
  <2>1. TypeOK
    BY MaxClientsAssumption DEF Init, TypeOK, Slot, Zero, NoRoutines
  <2>2. Live = {} /\ Owners = {}
    BY DEF Init, Live, Owners
  <2> QED
    BY <2>1, <2>2 DEF Init, IInv, CallbacksLive, CallbacksOwned, ArgSet
<1>2. IInv /\ [Next]_vars => IInv'
  <2> SUFFICES ASSUME IInv, [Next]_vars PROVE IInv'
    OBVIOUS
  <2>1. CASE \E is_32 \in BOOLEAN : msdos_init(is_32)
    BY <2>1, TypeOfInit, CallbacksOfInit DEF IInv
  <2>2. CASE msdos_done
    BY <2>2, TypeOfDone, CallbacksOfDone DEF IInv
  <2>3. ASSUME NEW k \in Kind, Event(k)
        PROVE  IInv'
    BY <2>3, TypeOfEvent, CallbacksOfRoutine DEF IInv
  <2>4. ASSUME NEW k \in Kind, ResetRoutine(k) \/ \E r \in Routine : SetRoutine(k, r)
        PROVE  IInv'
    BY <2>4, TypeOfRoutine, CallbacksOfRoutine DEF IInv
  <2>5. CASE UNCHANGED vars
    BY <2>5 DEF IInv, TypeOK, CallbacksLive, CallbacksOwned, ArgSet, Owners, Live, vars
  <2> QED
    BY <2>1, <2>2, <2>3, <2>4, <2>5 DEF Next
<1> QED
  BY <1>1, <1>2, PTL DEF Spec

\* The state of the client stack is well formed.
THEOREM PoolTypeCorrect == Spec => []TypeOK
<1>1. IInv => TypeOK
  BY DEF IInv
<1> QED
  BY <1>1, PoolInvariant, PTL

\* Every client's callbacks belong to a live client of its bitness, at its level
\* or below, for any nesting of 16 and 32 bit clients.
THEOREM CallbacksAlwaysLive == Spec => []CallbacksLive
<1>1. IInv => CallbacksLive
  BY DEF IInv
<1> QED
  BY <1>1, PoolInvariant, PTL

\* Every allocated set of callbacks has exactly one live client that will free it.
THEOREM CallbacksAlwaysOwned == Spec => []CallbacksOwned
<1>1. IInv => CallbacksOwned
  BY DEF IInv
<1> QED
  BY <1>1, PoolInvariant, PTL
-----------------------------------------------------------------------------
(* The entries.                                                            *)

\* The arguments of the callbacks, without which alone clients are routed wrongly.
AloneInv ==
  alone =>
    /\ msdos_client_num <= 1
    /\ msdos_client_num = 1 => rmcb_arg = 1
    /\ \A k \in Kind :
         /\ setter[k] <= msdos_client_num
         /\ msdos_client_num = 1 /\ setter[k] = 0 /\ driver[k] # NoSet
              => slots[1].routine[k] = NoRoutine

\* Every live client has a second alias, or FFFFh, and the same first one.
AliasesHeld ==
  /\ Live # {} => dpmi_ldt_alias # None
  /\ Live = {} => dpmi_ldt_alias = None
  /\ \A n \in Live : /\ entries[n].ldt_alias = dpmi_ldt_alias
                     /\ entries[n].ldt_alias_winos2 # None

WinOs2Held == UNION {Real(entries[n].ldt_alias_winos2) : n \in Live}

\* The argument of the MS-DOS entry, while somebody has it.
ArgAnswers ==
  asked \cap Live # {} => api_arg \in Slots /\ entries[api_arg].ldt_alias = dpmi_ldt_alias

EntryInv == EntryTypeOK /\ AliasesOwned /\ AliasesHeld /\ ArgAnswers

\* The entries leave the stack alone but for its own steps.
LEMMA EntryStep == [EntryNext]_allVars => [Next]_vars
BY DEF EntryNext, allVars, vars, entryVars, Start, Stop, AskMsDos, AskWinOs2, AskXms,
       clientsOnly, Next

\* The client stack with the entries is the client stack.
THEOREM EntriesImplementPool == EntrySpec => Spec
<1>1. EntryInit => Init
  BY DEF EntryInit
<1> QED
  BY <1>1, EntryStep, PTL DEF EntrySpec, Spec

\* Type correctness of one step, given that of the stack after it.
LEMMA TypeOfEntry ==
  ASSUME EntryTypeOK, TypeOK', [EntryNext]_allVars
  PROVE  EntryTypeOK'
<1> USE DEF EntryTypeOK
<1>1. CASE \E is_32 \in BOOLEAN : Start(is_32)
  <2>1. NewSlot \in Slots
    BY <1>1, MaxClientsAssumption DEF TypeOK, Start, msdos_init, Slots, NewSlot
  <2>2. PICK alias \in msdos_ldt_init(descriptors) :
        \E winos2 \in CreateAliasDescriptor(alias, descriptors \cup Real(alias)) :
          /\ descriptors' = descriptors \cup Real(alias) \cup Real(winos2)
          /\ dpmi_ldt_alias' = alias
          /\ entries' = [entries EXCEPT ![NewSlot] =
               [ldt_alias |-> alias, ldt_alias_winos2 |-> winos2, XMS_call |-> "nowhere"]]
    BY <1>1 DEF Start
  <2>3. PICK winos2 \in CreateAliasDescriptor(alias, descriptors \cup Real(alias)) :
          /\ descriptors' = descriptors \cup Real(alias) \cup Real(winos2)
          /\ dpmi_ldt_alias' = alias
          /\ entries' = [entries EXCEPT ![NewSlot] =
               [ldt_alias |-> alias, ldt_alias_winos2 |-> winos2, XMS_call |-> "nowhere"]]
    BY <2>2
  <2>4. alias \in Alias /\ winos2 \in Alias
    BY <2>2, <2>3 DEF msdos_ldt_init, CreateAliasDescriptor, Given, Alias
  <2>5. [ldt_alias |-> alias, ldt_alias_winos2 |-> winos2, XMS_call |-> "nowhere"] \in Fields
    BY <2>4 DEF Fields, Target
  <2>6. entries' \in [Slots -> Fields] /\ descriptors' \subseteq Descriptor /\ dpmi_ldt_alias' \in Alias
    BY <2>1, <2>3, <2>4, <2>5 DEF Real
  <2> QED
    BY <1>1, <2>6 DEF Start
<1>2. CASE Stop
  BY <1>2 DEF Stop, Alias
<1>3. CASE AskMsDos
  <2>1. msdos_client_num \in Slots /\ msdos_client_num \in 0 .. MaxClients
    BY <1>3, CurSlot DEF AskMsDos, TypeOK
  <2>2. asked' \subseteq Slots /\ {api_arg', winos2_arg', xms_arg'} \subseteq 0 .. MaxClients
    BY <1>3, <2>1 DEF AskMsDos
  <2> QED
    BY <1>3, <2>2 DEF AskMsDos, clientsOnly
<1>4. CASE AskWinOs2
  BY <1>4, CurSlot DEF AskWinOs2, clientsOnly, Slots
<1>5. CASE AskXms
  <2>1. msdos_client_num \in Slots /\ msdos_client_num \in 0 .. MaxClients
    BY <1>5, CurSlot DEF AskXms, TypeOK
  <2>2. entries' \in [Slots -> Fields]
    BY <1>5, <2>1 DEF AskXms, Fetched, Fields, Target
  <2> QED
    BY <1>5, <2>1, <2>2 DEF AskXms, clientsOnly
<1>6. CASE UNCHANGED entryVars
  BY <1>6 DEF entryVars
<1> QED
  BY <1>1, <1>2, <1>3, <1>4, <1>5, <1>6 DEF EntryNext, allVars

\* What Start leaves: the new client has a second alias that nobody held, and the
\* first one is shared.
LEMMA AliasesOfStart ==
  ASSUME EntryInv, NEW is_32 \in BOOLEAN, Start(is_32)
  PROVE  AliasesOwned' /\ AliasesHeld' /\ ArgAnswers'
<1> USE DEF EntryInv, EntryTypeOK
<1>1. /\ Live' = Live \cup {NewSlot} /\ NewSlot \notin Live /\ NewSlot \in Slots
      /\ NewSlot > 1 <=> Live # {}
      /\ Live \subseteq Slots
  <2>1. msdos_client_num \in Nat /\ msdos_client_num + 1 <= MaxClients
    BY MaxClientsAssumption DEF TypeOK, Start, msdos_init
  <2>2. Live' = Live \cup {NewSlot} /\ NewSlot \notin Live /\ NewSlot \in Slots
    BY <2>1, MaxClientsAssumption DEF Start, msdos_init, Live, NewSlot, Slots
  <2>3. NewSlot > 1 <=> 1 \in Live
    BY <2>1 DEF NewSlot, Live
  <2>4. Live # {} => 1 \in Live
    BY <2>1 DEF Live
  <2> QED
    BY <2>2, <2>3, <2>4, LiveSlots
<1>2. PICK alias \in msdos_ldt_init(descriptors) :
      \E winos2 \in CreateAliasDescriptor(alias, descriptors \cup Real(alias)) :
        /\ descriptors' = descriptors \cup Real(alias) \cup Real(winos2)
        /\ dpmi_ldt_alias' = alias
        /\ entries' = [entries EXCEPT ![NewSlot] =
             [ldt_alias |-> alias, ldt_alias_winos2 |-> winos2, XMS_call |-> "nowhere"]]
  BY DEF Start
<1>3. PICK winos2 \in CreateAliasDescriptor(alias, descriptors \cup Real(alias)) :
        /\ descriptors' = descriptors \cup Real(alias) \cup Real(winos2)
        /\ dpmi_ldt_alias' = alias
        /\ entries' = [entries EXCEPT ![NewSlot] =
             [ldt_alias |-> alias, ldt_alias_winos2 |-> winos2, XMS_call |-> "nowhere"]]
  BY <1>2
<1>4. /\ entries'[NewSlot].ldt_alias = alias
      /\ entries'[NewSlot].ldt_alias_winos2 = winos2
      /\ \A n \in Live : entries'[n] = entries[n]
  BY <1>1, <1>3
<1>5. alias # None /\ (Live # {} => alias = dpmi_ldt_alias)
  BY <1>1, <1>2, DescriptorAssumption DEF msdos_ldt_init, Given, AliasesHeld
<1>6. winos2 # None /\ (winos2 = Failed \/ winos2 \in Descriptor \ (descriptors \cup Real(alias)))
  BY <1>3, DescriptorAssumption DEF CreateAliasDescriptor, Given
<1>7. AliasesHeld'
  BY <1>1, <1>3, <1>4, <1>5, <1>6 DEF AliasesHeld
<1>8. AliasesOwned'
  <2>2. WinOs2Held' = WinOs2Held \cup Real(winos2)
    <3>1. \A d : d \in WinOs2Held' <=> d \in WinOs2Held \/ d \in Real(winos2)
      BY <1>1, <1>4 DEF WinOs2Held
    <3> QED
      BY <3>1
  <2>3. descriptors' = Real(dpmi_ldt_alias') \cup WinOs2Held'
    <3>1. CASE Live # {}
      BY <1>3, <1>5, <2>2, <3>1 DEF AliasesOwned, WinOs2Held
    <3>2. CASE Live = {}
      <4>1. descriptors = {}
        BY <3>2, DescriptorAssumption DEF AliasesOwned, AliasesHeld, Real
      <4>2. WinOs2Held = {}
        BY <3>2 DEF WinOs2Held
      <4> QED
        BY <1>3, <2>2, <4>1, <4>2
    <3> QED
      BY <3>1, <3>2
  <2>4. ASSUME NEW n \in Live
        PROVE  /\ entries[n].ldt_alias_winos2 \in descriptors \cup {Failed}
               /\ entries[n].ldt_alias_winos2 = Failed \/ entries[n].ldt_alias_winos2 # alias
    <3>1. entries[n] \in Fields
      BY <1>1
    <3>2. entries[n].ldt_alias_winos2 \in Descriptor \cup {Failed}
      BY <3>1 DEF Fields, Alias, AliasesHeld
    <3> QED
      BY <3>2, <1>5 DEF AliasesOwned, Real
  <2>5. ASSUME NEW n \in Live'
        PROVE  /\ entries'[n].ldt_alias_winos2 = Failed
                    \/ entries'[n].ldt_alias_winos2 # alias
               /\ \A m \in Live' :
                    Real(entries'[m].ldt_alias_winos2) \cap Real(entries'[n].ldt_alias_winos2)
                      # {} => m = n
    <3>1. CASE n = NewSlot
      BY <1>1, <1>4, <1>6, <2>4, <3>1, DescriptorAssumption DEF Real
    <3>2. CASE n \in Live
      BY <1>1, <1>4, <1>6, <2>4, <3>2, DescriptorAssumption DEF Real, AliasesOwned
    <3> QED
      BY <1>1, <3>1, <3>2
  <2> QED
    BY <1>3, <2>3, <2>5 DEF AliasesOwned, WinOs2Held
<1>9. ArgAnswers'
  <2> SUFFICES ASSUME asked' \cap Live' # {}
               PROVE  api_arg' \in Slots /\ entries'[api_arg'].ldt_alias = dpmi_ldt_alias'
    BY DEF ArgAnswers, Slots
  <2>1. asked \cap Live # {} /\ api_arg' = api_arg
    BY <1>1 DEF Start
  <2>2. api_arg \in Slots /\ entries[api_arg].ldt_alias = dpmi_ldt_alias
    BY <2>1 DEF ArgAnswers
  <2> QED
    BY <1>3, <1>5, <2>1, <2>2
<1> QED
  BY <1>7, <1>8, <1>9

\* Stop frees the second alias of the top client, and the first with the last client.
LEMMA AliasesOfStop ==
  ASSUME EntryInv, Stop
  PROVE  AliasesOwned' /\ AliasesHeld' /\ ArgAnswers'
<1> USE DEF EntryInv, EntryTypeOK
<1>1. /\ msdos_client_num \in Live /\ Live' = Live \ {msdos_client_num}
      /\ msdos_client_num > 1 <=> Live' # {}
      /\ Live \subseteq Slots
  BY MaxClientsAssumption, LiveSlots DEF TypeOK, Stop, msdos_done, Live
<1>2. /\ entries' = entries /\ api_arg' = api_arg /\ asked' = asked
      /\ descriptors' = descriptors \ (msdos_ldt_done \cup WinOs2Freed)
      /\ dpmi_ldt_alias' = IF Live' # {} THEN dpmi_ldt_alias ELSE None
  BY <1>1 DEF Stop
<1>3. AliasesHeld'
  BY <1>1, <1>2 DEF AliasesHeld
<1>4. AliasesOwned'
  <2>1. WinOs2Freed = Real(entries[msdos_client_num].ldt_alias_winos2)
    BY DEF WinOs2Freed, CurEntries
  <2>2. \A n \in Live' : Real(entries[n].ldt_alias_winos2) \cap WinOs2Freed = {}
    BY <1>1, <2>1 DEF AliasesOwned
  <2>3. WinOs2Held = WinOs2Freed \cup WinOs2Held' /\ WinOs2Held' \cap WinOs2Freed = {}
    <3>1. \A d : d \in WinOs2Held <=> d \in WinOs2Freed \/ d \in WinOs2Held'
      BY <1>1, <1>2, <2>1 DEF WinOs2Held
    <3>2. \A d : ~(d \in WinOs2Held' /\ d \in WinOs2Freed)
      BY <1>2, <2>2 DEF WinOs2Held
    <3> QED
      BY <3>1, <3>2
  <2>4. CASE Live' # {}
    <3>1. msdos_ldt_done = {}
      BY <1>1, <2>4 DEF msdos_ldt_done
    <3>2. Real(dpmi_ldt_alias) \cap WinOs2Freed = {}
      BY <1>1, <2>1, DescriptorAssumption DEF AliasesOwned, Real
    <3>3. descriptors = Real(dpmi_ldt_alias) \cup WinOs2Held
      BY DEF AliasesOwned, WinOs2Held
    <3>4. descriptors' = Real(dpmi_ldt_alias') \cup WinOs2Held'
      BY <1>2, <2>3, <2>4, <3>1, <3>2, <3>3
    <3> QED
      BY <1>1, <1>2, <2>4, <3>4 DEF AliasesOwned, WinOs2Held
  <2>5. CASE Live' = {}
    <3>1. msdos_ldt_done = Real(dpmi_ldt_alias)
      BY <1>1, <2>5 DEF msdos_ldt_done
    <3>2. descriptors' = {} /\ Real(None) = {}
      BY <1>2, <2>3, <2>5, <3>1, DescriptorAssumption DEF AliasesOwned, Real, WinOs2Held
    <3> QED
      BY <1>2, <2>5, <3>2 DEF AliasesOwned
  <2> QED
    BY <2>4, <2>5
<1>5. ArgAnswers'
  BY <1>1, <1>2 DEF ArgAnswers, Slots
<1> QED
  BY <1>3, <1>4, <1>5

\* The other steps change no alias.
LEMMA AliasesOfAsk ==
  ASSUME EntryInv, AskMsDos \/ AskWinOs2 \/ AskXms
  PROVE  AliasesOwned' /\ AliasesHeld' /\ ArgAnswers'
<1> USE DEF EntryInv, EntryTypeOK
<1>1. /\ Live' = Live /\ descriptors' = descriptors /\ dpmi_ldt_alias' = dpmi_ldt_alias
      /\ msdos_client_num \in Live /\ msdos_client_num \in Slots
      /\ Live \subseteq Slots
  BY CurSlot, LiveSlots DEF AskMsDos, AskWinOs2, AskXms, clientsOnly, vars, Live
<1>2. \A n \in Slots : /\ entries'[n].ldt_alias = entries[n].ldt_alias
                       /\ entries'[n].ldt_alias_winos2 = entries[n].ldt_alias_winos2
  <2>1. CASE entries' = entries
    BY <2>1
  <2>2. CASE AskXms
    <3> SUFFICES ASSUME NEW n \in Slots
                 PROVE  /\ entries'[n].ldt_alias = entries[n].ldt_alias
                        /\ entries'[n].ldt_alias_winos2 = entries[n].ldt_alias_winos2
      OBVIOUS
    <3>1. entries[n] \in Fields
      OBVIOUS
    <3>2. entries'[n] = IF n = msdos_client_num THEN [entries[n] EXCEPT !.XMS_call = Fetched]
                        ELSE entries[n]
      BY <2>2, <1>1 DEF AskXms
    <3> QED
      BY <3>1, <3>2 DEF Fields
  <2> QED
    BY <2>1, <2>2 DEF AskMsDos, AskWinOs2
<1>3. AliasesHeld'
  BY <1>1, <1>2 DEF AliasesHeld
<1>4. AliasesOwned'
  <2>1. \A n \in Live : entries'[n].ldt_alias_winos2 = entries[n].ldt_alias_winos2
    BY <1>1, <1>2
  <2> QED
    BY <1>1, <2>1 DEF AliasesOwned
<1>5. ArgAnswers'
  <2>1. CASE AskMsDos
    BY <1>1, <1>2, <2>1 DEF AskMsDos, ArgAnswers, AliasesHeld
  <2>2. CASE AskWinOs2 \/ AskXms
    BY <1>1, <1>2, <2>2 DEF AskWinOs2, AskXms, ArgAnswers
  <2> QED
    BY <2>1, <2>2
<1> QED
  BY <1>3, <1>4, <1>5

\* The inductive invariant of the entries, on top of that of the stack.
LEMMA EntryInvariant == EntrySpec => []EntryInv
<1>1. EntryInit => EntryInv
  <2> SUFFICES ASSUME EntryInit PROVE EntryInv
    OBVIOUS
  <2>1. TypeOK
    BY MaxClientsAssumption DEF EntryInit, Init, TypeOK, Slot, Zero, NoRoutines
  <2>2. EntryTypeOK
    <3>1. Blank \in Fields
      BY DEF Blank, Fields, Alias, Target
    <3> QED
      BY <2>1, <3>1, MaxClientsAssumption DEF EntryInit, EntryTypeOK, Alias
  <2>3. Live = {}
    BY DEF EntryInit, Init, Live
  <2>4. AliasesOwned
    BY <2>3, DescriptorAssumption DEF EntryInit, AliasesOwned, Real
  <2> QED
    BY <2>2, <2>3, <2>4 DEF EntryInit, EntryInv, AliasesHeld, ArgAnswers
<1>2. EntryInv /\ TypeOK' /\ [EntryNext]_allVars => EntryInv'
  <2> SUFFICES ASSUME EntryInv, TypeOK', [EntryNext]_allVars PROVE EntryInv'
    OBVIOUS
  <2>1. EntryTypeOK'
    BY TypeOfEntry DEF EntryInv
  <2>2. CASE \E is_32 \in BOOLEAN : Start(is_32)
    BY <2>1, <2>2, AliasesOfStart DEF EntryInv
  <2>3. CASE Stop
    BY <2>1, <2>3, AliasesOfStop DEF EntryInv
  <2>4. CASE AskMsDos \/ AskWinOs2 \/ AskXms
    BY <2>1, <2>4, AliasesOfAsk DEF EntryInv
  <2>5. CASE UNCHANGED <<entryVars, msdos_client_num>>
    <3>1. Live' = Live
      BY <2>5 DEF Live
    <3> QED
      BY <2>1, <2>5, <3>1 DEF EntryInv, AliasesOwned, AliasesHeld, ArgAnswers, entryVars
  <2>6. ASSUME NEW k \in Kind,
               Event(k) \/ ResetRoutine(k) \/ \E r \in Routine : SetRoutine(k, r)
        PROVE  UNCHANGED msdos_client_num
    BY <2>6 DEF Event, ResetRoutine, SetRoutine
  <2> QED
    BY <2>2, <2>3, <2>4, <2>5, <2>6 DEF EntryNext, allVars, vars
<1>3. EntrySpec => []TypeOK
  BY EntriesImplementPool, PoolTypeCorrect, PTL
<1> QED
  BY <1>1, <1>2, <1>3, PTL DEF EntrySpec

\* The state of the clients and their entries is well formed.
THEOREM EntriesTypeCorrect == EntrySpec => []EntryTypeOK
<1>1. EntryInv => EntryTypeOK
  BY DEF EntryInv
<1> QED
  BY <1>1, EntryInvariant, PTL

\* The translator holds exactly one alias for all clients and one for each of them:
\* no descriptor is freed early or twice, and none leaks.
THEOREM AliasesAlwaysOwned == EntrySpec => []AliasesOwned
<1>1. EntryInv => AliasesOwned
  BY DEF EntryInv
<1> QED
  BY <1>1, EntryInvariant, PTL

\* The MS-DOS entry answers every live client that has it with the shared alias, even
\* when the client that asked last is gone.
THEOREM AliasAlwaysAnswered == EntrySpec => []AliasAnswered
<1>1. EntryInv => AliasAnswered
  <2> SUFFICES ASSUME EntryInv, asked \cap Live # {}
               PROVE  msdos_api_call = dpmi_ldt_alias
                        /\ dpmi_ldt_alias \in descriptors \cup {Failed}
    BY DEF AliasAnswered
  <2>1. dpmi_ldt_alias \in Alias /\ dpmi_ldt_alias # None
    BY DEF EntryInv, EntryTypeOK, AliasesHeld
  <2> QED
    BY <2>1 DEF EntryInv, ArgAnswers, msdos_api_call, AliasesOwned, Real, Alias
<1> QED
  BY <1>1, EntryInvariant, PTL

\* The WINOS2 entry answers an allocated alias, the asking client's own, while that
\* client lives.
THEOREM WinOs2AlwaysAnswered == EntrySpec => []WinOs2Answered
<1>1. EntryInv => WinOs2Answered
  <2> SUFFICES ASSUME EntryInv, winos2_arg \in Live
               PROVE  /\ msdos_api_winos2_call \in descriptors \cup {Failed}
                      /\ \A n \in Live : entries[n].ldt_alias_winos2 = msdos_api_winos2_call
                           => n = winos2_arg \/ msdos_api_winos2_call = Failed
    BY DEF WinOs2Answered
  <2>1. winos2_arg \in Slots
    BY LiveSlots DEF EntryInv, EntryTypeOK
  <2>2. entries[winos2_arg].ldt_alias_winos2 \in Descriptor \cup {Failed}
    <3>1. entries[winos2_arg] \in Fields
      BY <2>1 DEF EntryInv, EntryTypeOK
    <3> QED
      BY <3>1 DEF EntryInv, AliasesHeld, Fields, Alias
  <2>3. entries[winos2_arg].ldt_alias_winos2 \in descriptors \cup {Failed}
    BY <2>2 DEF EntryInv, AliasesOwned, Real
  <2> QED
    BY <2>2, <2>3 DEF EntryInv, AliasesOwned, Real, msdos_api_winos2_call
<1> QED
  BY <1>1, EntryInvariant, PTL

\* Whoever asked last and whoever exits, the vendor entries answer with descriptors
\* that the clients were given and that still exist.
THEOREM EntriesAlwaysAnswer == EntrySpec => []EntriesAnswer
<1>1. AliasAnswered /\ WinOs2Answered => EntriesAnswer
  BY DEF EntriesAnswer
<1> QED
  BY <1>1, AliasAlwaysAnswered, WinOs2AlwaysAnswered, PTL

\* The XMS entry reaches the driver from when a client asks for it until a new client takes
\* the slot of the one that asked last, and not after that until a client asks again.
THEOREM XmsAlwaysReached == EntrySpec => XmsReached
<1>1. EntryInv /\ [EntryNext]_allVars
        => [XmsReaches' <=> AskXms \/ (XmsReaches /\ ~Retaken)]_allVars
  <2> SUFFICES ASSUME EntryInv, [EntryNext]_allVars, ~UNCHANGED allVars
               PROVE  XmsReaches' <=> AskXms \/ (XmsReaches /\ ~Retaken)
    OBVIOUS
  <2>1. msdos_client_num \in Nat /\ NewSlot = msdos_client_num + 1
    BY MaxClientsAssumption DEF EntryInv, EntryTypeOK, TypeOK, NewSlot
  <2>2. CASE \E is_32 \in BOOLEAN : Start(is_32)
    <3>1. msdos_client_num' = NewSlot /\ xms_arg' = xms_arg /\ NewSlot \in Slots
      BY <2>1, <2>2, MaxClientsAssumption DEF Start, msdos_init, NewSlot, Slots
    <3>2. ~AskXms
      BY <2>1, <3>1 DEF AskXms, clientsOnly, vars
    <3>3. PICK alias, winos2 :
            entries' = [entries EXCEPT ![NewSlot] =
              [ldt_alias |-> alias, ldt_alias_winos2 |-> winos2, XMS_call |-> "nowhere"]]
      BY <2>2 DEF Start
    <3>4. CASE xms_arg = NewSlot
      <4>1. entries'[xms_arg].XMS_call = "nowhere"
        BY <3>1, <3>3, <3>4 DEF EntryInv, EntryTypeOK
      <4> QED
        BY <3>1, <3>2, <3>4, <4>1 DEF XmsReaches, xms_call, Retaken
    <3>5. CASE xms_arg # NewSlot
      <4>1. xms_arg > 0 => entries'[xms_arg] = entries[xms_arg]
        BY <3>3, <3>5, MaxClientsAssumption DEF EntryInv, EntryTypeOK, Slots
      <4> QED
        BY <3>1, <3>2, <3>5, <4>1 DEF XmsReaches, xms_call, Retaken
    <3> QED
      BY <3>4, <3>5
  <2>3. CASE AskXms
    <3>1. msdos_client_num \in Slots /\ msdos_client_num > 0
      BY <2>3, CurSlot DEF AskXms, EntryInv, EntryTypeOK
    <3>2. entries'[msdos_client_num].XMS_call = "driver" /\ xms_arg' = msdos_client_num
      BY <2>3, <3>1 DEF AskXms, Fetched, EntryInv, EntryTypeOK, Fields
    <3> QED
      BY <2>3, <3>1, <3>2 DEF XmsReaches, xms_call
  <2>4. CASE UNCHANGED <<entries, xms_arg>> /\ ~AskXms /\ msdos_client_num' # NewSlot
    BY <2>4 DEF XmsReaches, xms_call, Retaken
  <2>5. CASE ~AskXms /\ ~\E is_32 \in BOOLEAN : Start(is_32)
    <3>1. UNCHANGED <<entries, xms_arg>>
      BY <2>5 DEF EntryNext, Stop, AskMsDos, AskWinOs2, entryVars
    <3>2. msdos_client_num' = msdos_client_num \/ msdos_client_num' = msdos_client_num - 1
      BY <2>5 DEF EntryNext, Stop, msdos_done, AskMsDos, AskWinOs2, clientsOnly, vars,
                  Event, ResetRoutine, SetRoutine
    <3> QED
      BY <2>1, <2>4, <2>5, <3>1, <3>2
  <2> QED
    BY <2>2, <2>3, <2>5
<1> QED
  BY <1>1, EntryInvariant, PTL DEF EntrySpec, XmsReached

-----------------------------------------------------------------------------
(* One client at a time.                                                   *)

\* A first client starts with callbacks of its own and no routine.
LEMMA AloneOfStart ==
  ASSUME EntryTypeOK, AloneInv, NEW is_32 \in BOOLEAN, Start(is_32)
  PROVE  AloneInv'
<1> SUFFICES ASSUME alone'
             PROVE  /\ msdos_client_num' = 1 /\ rmcb_arg' = 1
                    /\ \A k \in Kind : setter'[k] <= 1 /\ slots'[1].routine[k] = NoRoutine
  BY DEF AloneInv
<1>1. alone /\ msdos_client_num = 0 /\ NewSlot = 1 /\ msdos_client_num' = 1
  <2>1. alone /\ msdos_client_num = 0
    BY DEF Start, EntryTypeOK
  <2> QED
    BY <2>1 DEF Start, msdos_init, NewSlot
<1>2. 1 \in Slots
  BY <1>1, MaxClientsAssumption DEF Start, msdos_init, Slots
<1>3. ~Borrows(is_32)
  BY <1>1 DEF Borrows
<1>4. PICK s \in CallbackSet :
        slots' = [slots EXCEPT ![1] =
          [is_32 |-> is_32, rmcb_alloced |-> TRUE, rmcbs |-> s, routine |-> NoRoutines]]
  BY <1>1, <1>3 DEF Start, msdos_init, ZeroedRoutines
<1>5. \A k \in Kind : slots'[1].routine[k] = NoRoutine
  BY <1>2, <1>4 DEF EntryTypeOK, TypeOK, NoRoutines
<1>6. \A k \in Kind : setter'[k] <= 1
  <2>1. \A k \in Kind : setter[k] \in Nat /\ setter[k] <= 0
    BY <1>1, MaxClientsAssumption DEF EntryTypeOK, TypeOK, AloneInv
  <2> QED
    BY <2>1 DEF Start, msdos_init
<1>7. rmcb_arg' = 1
  BY <1>1, <1>3 DEF Start, msdos_init
<1> QED
  BY <1>1, <1>5, <1>6, <1>7

\* When it exits, no setter is left.
LEMMA AloneOfStop ==
  ASSUME EntryTypeOK, AloneInv, Stop
  PROVE  AloneInv'
<1> SUFFICES ASSUME alone
             PROVE  msdos_client_num' = 0 /\ \A k \in Kind : setter'[k] <= 0
  BY DEF AloneInv, Stop
<1>1. msdos_client_num = 1 /\ msdos_client_num' = 0
  BY MaxClientsAssumption DEF AloneInv, Stop, msdos_done, EntryTypeOK, TypeOK
<1>2. ASSUME NEW k \in Kind PROVE setter'[k] <= 0
  <2>1. setter[k] \in Nat /\ setter[k] <= 1
    BY <1>1, MaxClientsAssumption DEF EntryTypeOK, TypeOK, AloneInv
  <2>2. setter'[k] = IF setter[k] = 1 THEN 0 ELSE setter[k]
    BY <1>1 DEF Stop, msdos_done
  <2> QED
    BY <2>1, <2>2
<1> QED
  BY <1>1, <1>2

\* The client that sets a routine is the one the argument points at; without a
\* routine the driver calls nothing.
LEMMA AloneOfRoutine ==
  ASSUME EntryTypeOK, AloneInv, UNCHANGED alone, NEW k \in Kind,
         ResetRoutine(k) \/ \E r \in Routine : SetRoutine(k, r)
  PROVE  AloneInv'
<1> SUFFICES ASSUME alone
             PROVE  /\ msdos_client_num' = 1 /\ rmcb_arg' = 1
                    /\ \A j \in Kind :
                         /\ setter'[j] <= 1
                         /\ setter'[j] = 0 /\ driver'[j] # NoSet
                              => slots'[1].routine[j] = NoRoutine
  BY DEF AloneInv
<1>1. /\ msdos_client_num = 1 /\ msdos_client_num' = 1 /\ rmcb_arg' = 1
      /\ 1 \in Slots
  BY MaxClientsAssumption
  DEF AloneInv, ResetRoutine, SetRoutine, EntryTypeOK, TypeOK, Slots
<1>2. \/ setter' = [setter EXCEPT ![k] = 1]
      \/ setter' = [setter EXCEPT ![k] = 0] /\ driver' = [driver EXCEPT ![k] = NoSet]
  BY <1>1 DEF ResetRoutine, SetRoutine
<1>3. setter \in [Kind -> Int] /\ driver \in [Kind -> CallbackSet \cup {NoSet}]
  BY MaxClientsAssumption DEF EntryTypeOK, TypeOK
<1>4. \A j \in Kind : j # k => /\ slots'[1].routine[j] = slots[1].routine[j]
                               /\ setter'[j] = setter[j]
                               /\ driver'[j] = driver[j]
  <2>1. slots[1] \in Slot
    BY <1>1 DEF EntryTypeOK, TypeOK
  <2>2. ASSUME NEW r, slots' = [slots EXCEPT ![msdos_client_num].routine[k] = r]
        PROVE  \A j \in Kind : j # k => slots'[1].routine[j] = slots[1].routine[j]
    <3>1. slots'[1] = [slots[1] EXCEPT !.routine = [slots[1].routine EXCEPT ![k] = r]]
      BY <1>1, <2>2 DEF EntryTypeOK, TypeOK
    <3>2. slots'[1].routine = [slots[1].routine EXCEPT ![k] = r]
      BY <2>1, <3>1 DEF Slot
    <3> QED
      BY <2>1, <3>2 DEF Slot
  <2>3. \A j \in Kind : j # k => slots'[1].routine[j] = slots[1].routine[j]
    BY <2>2 DEF ResetRoutine, SetRoutine
  <2>4. \A j \in Kind : j # k => setter'[j] = setter[j] /\ driver'[j] = driver[j]
    BY <1>3 DEF ResetRoutine, SetRoutine
  <2> QED
    BY <2>3, <2>4
<1>5. /\ setter'[k] \in {0, 1}
      /\ setter'[k] = 0 => driver'[k] = NoSet
  BY <1>2, <1>3
<1>6. \A j \in Kind : j # k =>
        /\ setter'[j] <= 1
        /\ setter'[j] = 0 /\ driver'[j] # NoSet => slots'[1].routine[j] = NoRoutine
  BY <1>1, <1>4 DEF AloneInv
<1> QED
  BY <1>1, <1>5, <1>6

\* No routine of a client that was not started by another is ever out of place.
LEMMA AloneInvariant == EntrySpec => []AloneInv
<1>1. EntryInit => AloneInv
  BY DEF EntryInit, Init, AloneInv
<1>2. EntryTypeOK /\ AloneInv /\ [EntryNext]_allVars => AloneInv'
  <2> SUFFICES ASSUME EntryTypeOK, AloneInv, [EntryNext]_allVars PROVE AloneInv'
    OBVIOUS
  <2>1. CASE \E is_32 \in BOOLEAN : Start(is_32)
    BY <2>1, AloneOfStart
  <2>2. CASE Stop
    BY <2>2, AloneOfStop
  <2>3. ASSUME NEW k \in Kind, UNCHANGED entryVars,
               ResetRoutine(k) \/ \E r \in Routine : SetRoutine(k, r)
        PROVE  AloneInv'
    BY <2>3, AloneOfRoutine DEF entryVars
  <2>4. ASSUME UNCHANGED <<msdos_client_num, slots, rmcb_arg, driver, setter, alone>>
        PROVE  AloneInv'
    BY <2>4 DEF AloneInv
  <2>5. AskMsDos \/ AskWinOs2 \/ AskXms \/ UNCHANGED allVars
          => UNCHANGED <<msdos_client_num, slots, rmcb_arg, driver, setter, alone>>
    BY DEF AskMsDos, AskWinOs2, AskXms, clientsOnly, allVars, vars, entryVars
  <2>6. ASSUME NEW k \in Kind, Event(k), UNCHANGED entryVars
        PROVE  UNCHANGED <<msdos_client_num, slots, rmcb_arg, driver, setter, alone>>
    BY <2>6 DEF Event, entryVars
  <2> QED
    BY <2>1, <2>2, <2>3, <2>4, <2>5, <2>6 DEF EntryNext
<1> QED
  BY <1>1, <1>2, EntriesTypeCorrect, PTL DEF EntrySpec

\* As long as no client is started by another, a mouse event runs the routine its
\* client set, and none when that client is gone.
THEOREM AloneAlwaysRouted == EntrySpec => AloneRouted
<1>1. IInv /\ AloneInv /\ [EntryNext]_allVars
        => [\A k \in Kind :
              alone /\ Event(k) =>
                ran' = IF setter[k] = 0 THEN NoRoutine ELSE slots[setter[k]].routine[k]]_allVars
  <2> SUFFICES ASSUME IInv, AloneInv, alone, NEW k \in Kind, Event(k)
               PROVE  ran' = IF setter[k] = 0 THEN NoRoutine ELSE slots[setter[k]].routine[k]
    OBVIOUS
  <2>1. driver[k] \in allocated /\ Owners # {}
    BY DEF Event, IInv, CallbacksOwned
  <2>2. msdos_client_num = 1 /\ rmcb_arg = 1 /\ 1 \in Live
    BY <2>1, MaxClientsAssumption DEF IInv, TypeOK, AloneInv, Owners, Live
  <2>3. setter[k] \in {0, 1}
    <3>1. setter[k] \in Nat /\ setter[k] <= 1
      BY <2>2, MaxClientsAssumption DEF AloneInv, IInv, TypeOK
    <3> QED
      BY <3>1
  <2>4. driver[k] # NoSet
    BY <2>1, NoSetAssumption DEF IInv, TypeOK
  <2>5. PICK ok \in MaybeValid(1, slots[1].routine[k]) :
          ran' = IF ok THEN slots[1].routine[k] ELSE NoRoutine
    BY <2>2 DEF Event
  <2>6. ran' = slots[1].routine[k]
    BY <2>2, <2>5 DEF MaybeValid
  <2> QED
    BY <2>2, <2>3, <2>4, <2>6 DEF AloneInv
<1>2. EntrySpec => []IInv
  BY EntriesImplementPool, PoolInvariant, PTL
<1> QED
  BY <1>1, <1>2, AloneInvariant, PTL DEF EntrySpec, AloneRouted

=============================================================================
