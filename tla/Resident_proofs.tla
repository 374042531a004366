--------------------------- MODULE Resident_proofs ---------------------------
(***************************************************************************)
(* Proofs about the resident provider, for any number of clients and calls  *)
(* in flight, with and without FS and GS: the INT 21h chain, the selectors  *)
(* and the assert of entry(), the thunk and the size of the frames.        *)
(***************************************************************************)
EXTENDS Resident, SequenceTheorems, TLAPS

\* A client that has ended leaves no call in flight.
CallsLive == \A h \in Handle \ Live : calls[h] = <<>>

\* As long as every client could be set up: the table is that of the live clients, and
\* the provider's client is the host's.
Table ==
  ~refused =>
    /\ ~aborted
    /\ clients > 0 => running \in Live /\ current_client = running
    /\ clients > 0 => dseg32 = clients - 1
    /\ \A h \in Live : sr[h].ds = h

\* As long as clients of one bitness run: it is that of the first.
OneSize ==
  ~mixed => \A h \in Live : is_32[h] = is_32[0] /\ clnt_is_32 = is_32[0]

Idle == clients = 0 => running = NoClient

IInv == TypeOK /\ CallsLive /\ Idle
Sound == Table /\ ChainTrue /\ SelectorsLive

-----------------------------------------------------------------------------
(* Handles, descriptors and calls.                                         *)

\* Live clients have handles, and the next one has one of its own.
LEMMA Handles ==
  ASSUME TypeOK
  PROVE  /\ Live \subseteq Handle /\ clients \notin Live
         /\ clients < MaxClients => clients \in Handle
         /\ clients > 0 => clients - 1 \in Live
         /\ clients \in Nat
BY MaxClientsAssumption DEF TypeOK, Live, Handle

\* A selector is given from outside of what is held, and a failure is FFFFh.
LEMMA GivenSelector ==
  ASSUME NEW have \in BOOLEAN, NEW held, NEW d \in Given(have, held)
  PROVE  /\ d \in Selector
         /\ Real(d) \cap held = {}
         /\ d # Failed /\ have => d \in Descriptor \ held
         /\ ~have => d = None
         /\ Real(d) \subseteq Descriptor
BY DescriptorAssumption DEF Given, Selector, Real

\* All calls but the last.
LEMMA FrontOfCalls ==
  ASSUME NEW q \in Seq(Call), NEW n \in Nat, Len(q) = n + 1
  PROVE  /\ SubSeq(q, 1, n) \in Seq(Call)
         /\ Len(SubSeq(q, 1, n)) = n
         /\ \A i \in 1 .. n : SubSeq(q, 1, n)[i] = q[i]
<1>1. \A i \in 1 .. n : q[i] \in Call
  OBVIOUS
<1>2. /\ SubSeq(q, 1, n) \in Seq(Call)
      /\ Len(SubSeq(q, 1, n)) = IF 1 <= n THEN n - 1 + 1 ELSE 0
      /\ \A i \in 1 .. n - 1 + 1 : SubSeq(q, 1, n)[i] = q[1 + i - 1]
  BY <1>1, SubSeqProperties
<1>3. n - 1 + 1 = n /\ \A i \in 1 .. n : 1 + i - 1 = i
  OBVIOUS
<1>4. \A i \in 1 .. n : SubSeq(q, 1, n)[i] = q[i]
  BY <1>2, <1>3
<1>5. Len(SubSeq(q, 1, n)) = n
  BY <1>2
<1> QED
  BY <1>2, <1>4, <1>5

\* The call below the one that returns is marked.
LEMMA MarkedCalls ==
  ASSUME NEW rest \in Seq(Call)
  PROVE  /\ Returned(rest) \in Seq(Call)
         /\ Len(Returned(rest)) = Len(rest)
         /\ \A i \in 1 .. Len(rest) : Returned(rest)[i].is_32 = rest[i].is_32
         /\ Returned(rest) # <<>> => Returned(rest)[Len(Returned(rest))].nested
<1>1. CASE rest = <<>>
  BY <1>1 DEF Returned
<1>2. CASE rest # <<>>
  <2>1. PICK l \in 1 .. Len(rest) : l = Len(rest)
    BY <1>2
  <2>2. PICK c \in Call : c = rest[l]
    BY <2>1
  <2>3. PICK m \in Call : m = [c EXCEPT !.nested = TRUE]
    BY DEF Call
  <2>4. m.is_32 = c.is_32 /\ m.nested
    BY <2>3 DEF Call
  <2>5. Returned(rest) = [rest EXCEPT ![l] = m]
    BY <1>2, <2>1, <2>2, <2>3 DEF Returned
  <2>6. /\ Returned(rest) \in Seq(Call) /\ Len(Returned(rest)) = Len(rest)
        /\ \A i \in 1 .. Len(rest) : Returned(rest)[i] = IF i = l THEN m ELSE rest[i]
    BY <2>5, ExceptSeq
  <2>7. \A i \in 1 .. Len(rest) : Returned(rest)[i].is_32 = rest[i].is_32
    BY <2>2, <2>4, <2>6
  <2>8. Returned(rest)[Len(Returned(rest))].nested
    BY <2>1, <2>4, <2>6
  <2> QED
    BY <2>6, <2>7, <2>8
<1> QED
  BY <1>1, <1>2

\* The last call returns: what is left are calls, of the same sizes.
LEMMA RestOfCalls ==
  ASSUME NEW q \in Seq(Call), q # <<>>
  PROVE  LET rest == SubSeq(q, 1, Len(q) - 1)
         IN /\ Returned(rest) \in Seq(Call)
            /\ Len(Returned(rest)) = Len(q) - 1
            /\ \A i \in 1 .. Len(q) - 1 : Returned(rest)[i].is_32 = q[i].is_32
            /\ Returned(rest) # <<>> => Returned(rest)[Len(Returned(rest))].nested
<1>1. PICK n \in Nat : n = Len(q) - 1
  OBVIOUS
<1>2. PICK rest \in Seq(Call) :
        /\ rest = SubSeq(q, 1, n) /\ Len(rest) = n
        /\ \A i \in 1 .. n : rest[i] = q[i]
  <2>1. Len(q) = n + 1
    BY <1>1
  <2> QED
    BY <2>1, FrontOfCalls
<1>3. \A i \in 1 .. n : Returned(rest)[i].is_32 = q[i].is_32
  <2>1. \A i \in 1 .. Len(rest) : Returned(rest)[i].is_32 = rest[i].is_32
    BY MarkedCalls
  <2> QED
    BY <1>2, <2>1
<1>4. /\ Returned(rest) \in Seq(Call)
      /\ Len(Returned(rest)) = Len(rest)
      /\ Returned(rest) # <<>> => Returned(rest)[Len(Returned(rest))].nested
  BY MarkedCalls
<1> QED
  BY <1>1, <1>2, <1>3, <1>4

-----------------------------------------------------------------------------
(* Type correctness.                                                       *)

\* The host's side of a start.
LEMMA TypeOfEnters ==
  ASSUME IInv, clients < MaxClients, NEW wide \in BOOLEAN, NEW to \in Vector,
         Enters(wide, to), UNCHANGED calls
  PROVE  /\ clients' \in 0 .. MaxClients
         /\ is_32' \in [Handle -> BOOLEAN]
         /\ vector' \in [Handle -> Vector]
         /\ running' \in Live' \cup {NoClient}
         /\ clnt_is_32' \in BOOLEAN /\ mixed' \in BOOLEAN
         /\ calls' \in [Handle -> Seq(Call)]
         /\ CallsLive' /\ Idle'
         /\ Live' = Live \cup {clients}
<1> USE DEF IInv
<1>1. clients \in Nat /\ clients \in Handle /\ clients < MaxClients
  BY Handles
<1>2. Live' = Live \cup {clients} /\ clients' \in 0 .. MaxClients /\ running' \in Live'
  BY <1>1, MaxClientsAssumption DEF Enters, Live
<1>3. mixed' \in BOOLEAN /\ clnt_is_32' \in BOOLEAN
  BY DEF Enters, Bitness, TypeOK
<1>4. CallsLive' /\ Idle'
  BY <1>1, <1>2 DEF CallsLive, Idle, Enters
<1> QED
  BY <1>2, <1>3, <1>4 DEF Enters, TypeOK

\* The vector a client begins with.
LEMMA TypeOfInherited ==
  ASSUME TypeOK, NEW inherits \in BOOLEAN, inherits => running # NoClient, clients < MaxClients
  PROVE  Inherited(inherits) \in Vector
BY Handles DEF TypeOK, Inherited, Vector, Host

\* A start, with its four ends.
LEMMA TypeOfStart ==
  ASSUME IInv, NEW wide \in BOOLEAN, NEW inherits \in BOOLEAN, Start(wide, inherits)
  PROVE  IInv'
<1> USE DEF IInv
<1>1. /\ clients < MaxClients /\ clients \in Handle /\ UNCHANGED <<calls, aborted>>
      /\ Inherited(inherits) \in Vector
      /\ sr[clients] \in Clnt
  BY Handles, TypeOfInherited DEF Start, TypeOK
<1>2. CASE ~wide /\ Refuse16(inherits)
  <2>1. Enters(FALSE, Inherited(inherits))
    BY <1>2 DEF Refuse16
  <2>2. UNCHANGED <<sr, current_client, dseg32, thunk, allocated>> /\ refused' \in BOOLEAN
    BY <1>2 DEF Refuse16
  <2> QED
    BY <1>1, <2>1, <2>2, TypeOfEnters DEF TypeOK
<1>3. ASSUME NEW fs \in Selector, NEW gs \in Selector, thunk' = TRUE,
             Refuse(wide, inherits, fs, gs), allocated' \subseteq Descriptor
      PROVE  IInv'
  <2>1. Enters(wide, Inherited(inherits))
    BY <1>3 DEF Refuse
  <2>2. sr' = [sr EXCEPT ![clients] = [sr[clients] EXCEPT !.fs = fs, !.gs = gs]]
    BY <1>1, <1>3 DEF Refuse, TypeOK, Clnt
  <2>3. [sr[clients] EXCEPT !.fs = fs, !.gs = gs] \in Clnt
    BY <1>1, <1>3 DEF Clnt
  <2>4. sr' \in [Handle -> Clnt] /\ refused' \in BOOLEAN /\ UNCHANGED <<current_client, dseg32>>
    BY <1>3, <2>2, <2>3 DEF TypeOK, Refuse
  <2> QED
    BY <1>1, <1>3, <2>1, <2>4, TypeOfEnters DEF TypeOK
<1>4. ASSUME NEW fs \in Selector, NEW gs \in Selector, thunk' = TRUE,
             Accept(wide, inherits, fs, gs), allocated' \subseteq Descriptor
      PROVE  IInv'
  <2> DEFINE to  == IF Chained(inherits) THEN Inherited(inherits) ELSE Ours(clients, Bitness(wide))
             old == IF Chained(inherits) THEN sr[clients - 1].old_int21 ELSE Inherited(inherits)
             new == [ds |-> clients, fs |-> fs, gs |-> gs, used |-> TRUE, old_int21 |-> old]
  <2>1. Enters(wide, to) /\ to \in Vector
    BY <1>1, <1>4 DEF Accept, Vector, Ours, Bitness
  <2>2. old \in Vector
    <3>1. Chained(inherits) => clients - 1 \in Handle
      BY <1>1, Handles DEF Chained
    <3>2. Chained(inherits) => sr[clients - 1].old_int21 \in Vector
      BY <3>1 DEF TypeOK, Clnt
    <3> QED
      BY <1>1, <3>2
  <2>3. new \in Clnt
    BY <1>1, <1>4, <2>2 DEF Clnt
  <2>4. sr' = [sr EXCEPT ![clients] = new]
    BY <1>4 DEF Accept
  <2>5. /\ sr' \in [Handle -> Clnt] /\ dseg32' \in Handle \cup {NoClient}
        /\ current_client' \in Handle \cup {0} /\ UNCHANGED refused
    BY <1>1, <1>4, <2>3, <2>4 DEF TypeOK, Accept
  <2> QED
    BY <1>1, <1>4, <2>1, <2>5, TypeOfEnters DEF TypeOK
<1>5. CASE ~(~wide /\ Refuse16(inherits))
  <2>1. thunk' = TRUE /\ \E fs \in Given(have_fs, allocated) :
             IF fs = Failed
             THEN /\ Refuse(wide, inherits, fs, sr[clients].gs)
                  /\ UNCHANGED allocated
             ELSE \E gs \in Given(have_gs, allocated \cup Real(fs)) :
                    /\ allocated' = allocated \cup Real(fs) \cup Real(gs)
                    /\ IF gs = Failed THEN Refuse(wide, inherits, fs, gs)
                       ELSE Accept(wide, inherits, fs, gs)
    BY <1>5 DEF Start
  <2>2. PICK fs \in Given(have_fs, allocated) :
             IF fs = Failed
             THEN /\ Refuse(wide, inherits, fs, sr[clients].gs)
                  /\ UNCHANGED allocated
             ELSE \E gs \in Given(have_gs, allocated \cup Real(fs)) :
                    /\ allocated' = allocated \cup Real(fs) \cup Real(gs)
                    /\ IF gs = Failed THEN Refuse(wide, inherits, fs, gs)
                       ELSE Accept(wide, inherits, fs, gs)
    BY <2>1
  <2>3. fs \in Selector /\ Real(fs) \subseteq Descriptor
    BY <2>2, GivenSelector, HaveAssumption
  <2>4. CASE fs = Failed
    <3>1. Refuse(wide, inherits, fs, sr[clients].gs) /\ UNCHANGED allocated
      BY <2>2, <2>4
    <3>2. sr[clients].gs \in Selector /\ allocated' \subseteq Descriptor
      BY <1>1, <3>1 DEF Clnt, TypeOK
    <3> QED
      BY <1>3, <2>1, <2>3, <3>1, <3>2
  <2>5. CASE fs # Failed
    <3>1. PICK gs \in Given(have_gs, allocated \cup Real(fs)) :
                    /\ allocated' = allocated \cup Real(fs) \cup Real(gs)
                    /\ IF gs = Failed THEN Refuse(wide, inherits, fs, gs)
                       ELSE Accept(wide, inherits, fs, gs)
      BY <2>2, <2>5
    <3>2. gs \in Selector /\ Real(gs) \subseteq Descriptor
      BY <3>1, GivenSelector, HaveAssumption
    <3>3. allocated' \subseteq Descriptor
      BY <2>3, <3>1, <3>2 DEF TypeOK
    <3> QED
      BY <1>3, <1>4, <2>1, <2>3, <3>1, <3>2, <3>3
  <2> QED
    BY <2>4, <2>5
<1> QED
  BY <1>2, <1>5

\* The last client ends, or the assert fails.
LEMMA TypeOfStop ==
  ASSUME IInv, Stop
  PROVE  IInv'
<1> USE DEF IInv
<1> DEFINE handle == clients - 1
<1>1. /\ handle \in Live /\ handle \in Handle /\ running = handle /\ clients \in Nat /\ clients > 0
      /\ clnt_is_32' = is_32[handle]
  BY Handles DEF Stop, Bitness
<1>2. clnt_is_32' \in BOOLEAN
  BY <1>1 DEF TypeOK
<1>3. CASE done(handle, handle - 1)
  <2>1. /\ clients' = handle /\ running' = handle - 1
        /\ Live' = Live \ {handle}
        /\ handle - 1 \in Live' \cup {NoClient}
        /\ clients' \in 0 .. MaxClients
    BY <1>1, <1>3, MaxClientsAssumption DEF done, Live, NoClient, TypeOK
  <2>2. sr[handle] \in Clnt /\ [sr[handle] EXCEPT !.used = FALSE] \in Clnt
    BY <1>1 DEF TypeOK, Clnt
  <2>3. sr' = [sr EXCEPT ![handle] = [sr[handle] EXCEPT !.used = FALSE]]
    BY <1>3 DEF done
  <2>4. sr' \in [Handle -> Clnt]
    BY <2>2, <2>3 DEF TypeOK
  <2>5. vector' \in [Handle -> Vector]
    BY <1>3, <2>2 DEF done, TypeOK, Clnt
  <2>6. dseg32' \in Handle \cup {NoClient} /\ current_client' \in Handle \cup {0}
    <3>1. handle - 1 # NoClient => handle - 1 \in Handle
      BY <2>1, Handles
    <3>2. handle - 1 # NoClient => sr[handle - 1].ds \in Handle \cup {NoClient}
      BY <3>1 DEF TypeOK, Clnt
    <3> QED
      BY <1>3, <3>1, <3>2 DEF done, DsegBack, CurrentBack, TypeOK
  <2>7. calls' \in [Handle -> Seq(Call)] /\ CallsLive'
    BY <1>1, <1>3, <2>1 DEF done, TypeOK, CallsLive
  <2>8. Idle'
    BY <1>1, <2>1 DEF Idle, NoClient
  <2>9. /\ is_32' \in [Handle -> BOOLEAN] /\ allocated' \subseteq Descriptor
        /\ thunk' \in BOOLEAN /\ UNCHANGED <<refused, mixed, aborted>>
    BY <1>1, <1>3 DEF done, TypeOK, ThunkDone
  <2> QED
    BY <1>2, <2>1, <2>4, <2>5, <2>6, <2>7, <2>8, <2>9 DEF TypeOK
<1>4. CASE aborted' = TRUE /\ UNCHANGED <<hostVars, sr, current_client, dseg32, thunk, calls,
                                           refused, mixed>>
  <2>1. Live' = Live
    BY <1>4 DEF Live, hostVars
  <2> QED
    BY <1>2, <1>4, <2>1 DEF TypeOK, CallsLive, Idle, hostVars
<1> QED
  BY <1>3, <1>4 DEF Stop

\* A switch, a call and a return change one client's registers and calls.
LEMMA TypeOfOthers ==
  ASSUME IInv, (\E handle \in Live : Switch(handle)) \/ Int21 \/ Return
  PROVE  IInv'
<1> USE DEF IInv
<1>1. ASSUME NEW handle \in Live, Switch(handle)
      PROVE  IInv'
  <2>1. handle \in Handle /\ Live' = Live /\ clients # 0
    BY <1>1, Handles DEF Switch, Live
  <2>2. clnt_is_32' \in BOOLEAN
    BY <1>1, <2>1 DEF Switch, Bitness, TypeOK
  <2> QED
    BY <1>1, <2>1, <2>2 DEF Switch, TypeOK, CallsLive, Idle
<1>2. CASE Int21
  <2>1. running \in Live /\ running \in Handle /\ Live' = Live
    BY <1>2, Handles DEF Int21, hostVars, Live, TypeOK
  <2>2. [is_32 |-> clnt_is_32, nested |-> FALSE] \in Call
    BY DEF Call, TypeOK
  <2>3. calls' \in [Handle -> Seq(Call)]
    BY <1>2, <2>1, <2>2 DEF Int21, TypeOK
  <2>4. CallsLive'
    BY <1>2, <2>1 DEF Int21, CallsLive, TypeOK
  <2>5. thunk' \in BOOLEAN
    BY <1>2 DEF Int21, TypeOK
  <2> QED
    BY <1>2, <2>1, <2>3, <2>4, <2>5 DEF Int21, hostVars, TypeOK, Idle
<1>3. CASE Return
  <2>1. running \in Live /\ running \in Handle /\ Live' = Live
    BY <1>3, Handles DEF Return, hostVars, Live, TypeOK
  <2>2. Returned(Rest(running)) \in Seq(Call)
    BY <1>3, <2>1, RestOfCalls DEF Return, InCall, Rest, TypeOK
  <2>3. calls' \in [Handle -> Seq(Call)]
    BY <1>3, <2>1, <2>2 DEF Return, TypeOK
  <2>4. CallsLive'
    BY <1>3, <2>1 DEF Return, CallsLive, TypeOK
  <2>5. thunk' \in BOOLEAN
    BY <1>3 DEF Return, TypeOK
  <2> QED
    BY <1>3, <2>1, <2>3, <2>4, <2>5 DEF Return, hostVars, TypeOK, Idle
<1> QED
  BY <1>1, <1>2, <1>3

\* The inductive invariant of types.
LEMMA TypeInvariant == Spec => []IInv
<1>1. Init => IInv
  <2>1. Init => TypeOK
    <3> SUFFICES ASSUME Init PROVE TypeOK
      OBVIOUS
    <3>1. Unset \in Clnt
      BY DEF Unset, Clnt, Selector, NoVector, Vector, Host
    <3>2. sr \in [Handle -> Clnt] /\ calls \in [Handle -> Seq(Call)]
      BY <3>1, EmptySeq DEF Init
    <3>3. vector \in [Handle -> Vector] /\ is_32 \in [Handle -> BOOLEAN]
      BY DEF Init, Vector, Host
    <3>4. clients \in 0 .. MaxClients
      BY MaxClientsAssumption DEF Init
    <3>5. /\ clnt_is_32 \in BOOLEAN /\ thunk \in BOOLEAN
          /\ refused \in BOOLEAN /\ mixed \in BOOLEAN /\ aborted \in BOOLEAN
      BY DEF Init
    <3>6. /\ running \in Live \cup {NoClient} /\ allocated \subseteq Descriptor
          /\ current_client \in Handle \cup {0} /\ dseg32 \in Handle \cup {NoClient}
      BY DEF Init
    <3> QED
      BY <3>2, <3>3, <3>4, <3>5, <3>6 DEF TypeOK
  <2> QED
    BY <2>1 DEF Init, IInv, CallsLive, Idle
<1>2. IInv /\ [Next]_vars => IInv'
  <2> SUFFICES ASSUME IInv, [Next]_vars PROVE IInv'
    OBVIOUS
  <2>1. CASE UNCHANGED vars
    <3>1. Live' = Live
      BY <2>1 DEF Live, vars, hostVars
    <3> QED
      BY <2>1, <3>1 DEF IInv, TypeOK, CallsLive, Idle, vars, hostVars, entryVars
  <2> QED
    BY <2>1, TypeOfStart, TypeOfStop, TypeOfOthers DEF Next
<1> QED
  BY <1>1, <1>2, PTL DEF Spec

\* The state of the provider and its host is well formed.
THEOREM ResidentTypeCorrect == Spec => []TypeOK
<1>1. IInv => TypeOK
  BY DEF IInv
<1> QED
  BY <1>1, TypeInvariant, PTL

-----------------------------------------------------------------------------
(* The table, the chain and the selectors.                                 *)

\* A client that is set up: its vector is hooked, or was by the client below.
LEMMA SoundOfAccept ==
  ASSUME IInv, Sound, NEW wide \in BOOLEAN, NEW inherits \in BOOLEAN,
         Start(wide, inherits), ~refused'
  PROVE  Sound'
<1> USE DEF IInv, Sound
<1>1. /\ clients \in Handle /\ clients \in Nat /\ ~refused /\ ~aborted /\ aborted' = aborted
      /\ Live' = Live \cup {clients} /\ clients \notin Live /\ Live \subseteq Handle
      /\ clients > 0 => clients - 1 \in Live
  <2>1. clients < MaxClients /\ clients \in Handle /\ clients \in Nat /\ ~aborted /\ aborted' = aborted
    BY Handles DEF Start
  <2>2. clients' = clients + 1 /\ (refused' = refused \/ refused')
    BY DEF Start, Refuse16, Refuse, Accept, Enters
  <2>3. Live' = Live \cup {clients}
    BY <2>1, <2>2 DEF Live
  <2> QED
    BY <2>1, <2>2, <2>3, Handles
<1>2. PICK fs \in Given(have_fs, allocated) :
        /\ fs # Failed
        /\ \E gs \in Given(have_gs, allocated \cup Real(fs)) :
             /\ allocated' = allocated \cup Real(fs) \cup Real(gs)
             /\ gs # Failed
             /\ Accept(wide, inherits, fs, gs)
  BY DEF Start, Refuse16, Refuse
<1>3. PICK gs \in Given(have_gs, allocated \cup Real(fs)) :
        /\ allocated' = allocated \cup Real(fs) \cup Real(gs)
        /\ gs # Failed
        /\ Accept(wide, inherits, fs, gs)
  BY <1>2
<1> DEFINE old == IF Chained(inherits) THEN sr[clients - 1].old_int21 ELSE Inherited(inherits)
           to  == IF Chained(inherits) THEN Inherited(inherits) ELSE Ours(clients, Bitness(wide))
<1>4. /\ sr' = [sr EXCEPT ![clients] = [ds |-> clients, fs |-> fs, gs |-> gs, used |-> TRUE,
                                         old_int21 |-> old]]
      /\ vector' = [vector EXCEPT ![clients] = to]
      /\ dseg32' = clients /\ current_client' = clients /\ running' = clients
      /\ clients' = clients + 1
  BY <1>3 DEF Accept, Enters
<1>5. /\ sr'[clients] = [ds |-> clients, fs |-> fs, gs |-> gs, used |-> TRUE, old_int21 |-> old]
      /\ vector'[clients] = to
      /\ \A h \in Live : sr'[h] = sr[h] /\ vector'[h] = vector[h]
  BY <1>1, <1>4 DEF TypeOK
<1>6. /\ \/ to = Ours(clients, wide) /\ old = Host(clients)
         \/ /\ clients > 0 /\ old = sr[clients - 1].old_int21
            /\ \E g \in Live : to = vector[g]
      /\ to.ours
  <2>1. inherits => clients > 0 /\ running \in Live
    BY <1>1 DEF Start, TypeOK, Idle, NoClient
  <2>2. inherits => Chained(inherits) /\ to = vector[running] /\ vector[running].ours
    BY <1>1, <2>1 DEF ChainTrue, Chained, Inherited
  <2>3. ~inherits => to = Ours(clients, wide) /\ old = Host(clients)
    BY DEF Chained, Inherited, Bitness
  <2>4. Ours(clients, wide).ours
    BY DEF Ours
  <2> QED
    BY <2>1, <2>2, <2>3, <2>4 DEF Chained
<1>7. Table'
  BY <1>1, <1>4, <1>5 DEF Table
<1>8. ChainTrue'
  <2>0. PICK n \in Handle : n = clients
    BY <1>1
  <2>1. is_32'[n] = wide /\ \A h \in Live : is_32'[h] = is_32[h]
    BY <1>1, <1>3, <2>0 DEF Accept, Enters, TypeOK
  <2>2. n > 0 => n - 1 \in 0 .. n /\ sr'[n - 1] = sr[n - 1]
    BY <1>1, <1>5, <2>0
  <2>3. \E g \in 0 .. n : old = Host(g)
    <3>1. n > 0 => \E g \in 0 .. n - 1 : sr[n - 1].old_int21 = Host(g)
      BY <1>1, <2>0 DEF ChainTrue
    <3> QED
      BY <1>1, <1>6, <2>0, <3>1
  <2>4. \/ Hooked(n)'
        \/ /\ n > 0 /\ sr'[n].old_int21 = sr'[n - 1].old_int21
           /\ \E g \in 0 .. n - 1 : vector'[n] = vector'[g]
    <3>1. sr'[n].old_int21 = old /\ vector'[n] = to
      BY <1>5, <2>0
    <3>2. CASE to = Ours(n, wide) /\ old = Host(n)
      BY <2>1, <3>1, <3>2 DEF Hooked
    <3>3. ASSUME n > 0, old = sr[n - 1].old_int21, NEW g \in Live, to = vector[g]
          PROVE  /\ n > 0 /\ sr'[n].old_int21 = sr'[n - 1].old_int21
                 /\ \E k \in 0 .. n - 1 : vector'[n] = vector'[k]
      <4>1. g \in 0 .. n - 1 /\ vector'[g] = vector[g]
        BY <1>5, <2>0 DEF Live
      <4> QED
        BY <2>2, <3>1, <3>3, <4>1
    <3> QED
      BY <1>6, <2>0, <3>2, <3>3
  <2>5. ASSUME NEW h \in Live
        PROVE  /\ sr'[h].used /\ vector'[h].ours
               /\ \E g \in 0 .. h : sr'[h].old_int21 = Host(g)
               /\ \/ Hooked(h)'
                  \/ /\ h > 0 /\ sr'[h].old_int21 = sr'[h - 1].old_int21
                     /\ \E g \in 0 .. h - 1 : vector'[h] = vector'[g]
    <3>1. h \in Nat /\ \A g \in 0 .. h : g \in Live
      BY <1>1 DEF Live
    <3>2. h > 0 => h - 1 \in 0 .. h
      BY <3>1
    <3>3. Hooked(h) => Hooked(h)'
      BY <1>5, <2>1 DEF Hooked
    <3>4. \A g \in 0 .. h - 1 : g \in 0 .. h
      BY <3>1
    <3>5. /\ sr[h].used /\ vector[h].ours
          /\ \E g \in 0 .. h : sr[h].old_int21 = Host(g)
          /\ \/ Hooked(h)
             \/ /\ h > 0 /\ sr[h].old_int21 = sr[h - 1].old_int21
                /\ \E g \in 0 .. h - 1 : vector[h] = vector[g]
      BY <1>1 DEF ChainTrue
    <3>6. \A g \in 0 .. h : sr'[g] = sr[g] /\ vector'[g] = vector[g]
      BY <1>5, <3>1
    <3>7. h \in 0 .. h
      BY <3>1
    <3> QED
      BY <3>2, <3>3, <3>4, <3>5, <3>6, <3>7
  <2>6. \A h \in Handle \ Live' : ~vector'[h].ours
    <3>1. \A h \in Handle \ Live' : h \in Handle \ Live /\ h # clients
      BY <1>1
    <3> QED
      BY <1>1, <1>4, <3>1 DEF ChainTrue, TypeOK
  <2>7. sr'[n].used /\ vector'[n].ours /\ \E g \in 0 .. n : sr'[n].old_int21 = Host(g)
    BY <1>5, <1>6, <2>0, <2>3
  <2>8. \A h \in Live' : h \in Live \/ h = n
    BY <1>1, <2>0
  <2> QED
    BY <2>4, <2>5, <2>6, <2>7, <2>8 DEF ChainTrue
<1>9. SelectorsLive'
  <2>0. PICK n \in Handle : n = clients
    BY <1>1
  <2>1. /\ have_fs => fs \in Descriptor \ allocated
        /\ have_gs => gs \in Descriptor \ (allocated \cup Real(fs))
        /\ Real(fs) \cap allocated = {} /\ Real(gs) \cap (allocated \cup Real(fs)) = {}
    BY <1>2, <1>3, HaveAssumption, GivenSelector
  <2>2. /\ Freed(n)' = Real(fs) \cup Real(gs)
        /\ \A h \in Live : Freed(h)' = Freed(h)
    <3>1. sr'[n].fs = fs /\ sr'[n].gs = gs
      BY <1>5, <2>0
    <3> QED
      BY <1>5, <3>1 DEF Freed
  <2>3. allocated' = UNION {Freed(h)' : h \in Live'}
    <3>1. allocated = UNION {Freed(h) : h \in Live}
      BY <1>1 DEF SelectorsLive
    <3>2. \A d : (\E h \in Live' : d \in Freed(h)')
                   <=> d \in Freed(n)' \/ (\E h \in Live : d \in Freed(h))
      BY <1>1, <2>0, <2>2
    <3> QED
      BY <1>3, <2>2, <3>1, <3>2
  <2>4. \A h \in Live : Freed(h) \subseteq allocated
    BY <1>1 DEF SelectorsLive
  <2>5. Freed(n)' \cap allocated = {}
    BY <2>1, <2>2
  <2>6. \A g, h \in Live' : Freed(g)' \cap Freed(h)' # {} => g = h
    <3>1. \A g, h \in Live : Freed(g)' \cap Freed(h)' # {} => g = h
      BY <1>1, <2>2 DEF SelectorsLive
    <3>2. \A h \in Live : Freed(n)' \cap Freed(h)' = {}
      BY <2>2, <2>4, <2>5
    <3> QED
      BY <1>1, <2>0, <3>1, <3>2
  <2>7. have_gs => gs \in Descriptor \ {fs}
    BY <2>1 DEF Real
  <2>8. ASSUME NEW h \in Live'
        PROVE  /\ have_fs => sr'[h].fs \in Descriptor
               /\ have_gs => sr'[h].gs \in Descriptor \ {sr'[h].fs}
    <3>1. CASE h = clients
      BY <1>5, <2>1, <2>7, <3>1
    <3>2. CASE h \in Live
      BY <1>1, <1>5, <3>2 DEF SelectorsLive
    <3> QED
      BY <1>1, <3>1, <3>2
  <2>9. dseg32' \in Live'
    BY <1>1, <1>4
  <2> QED
    BY <2>3, <2>6, <2>8, <2>9 DEF SelectorsLive
<1> QED
  BY <1>7, <1>8, <1>9

\* The last client is the provider's: the assert holds, and done goes back by one.
LEMMA SoundOfStop ==
  ASSUME IInv, Sound, Stop, ~refused'
  PROVE  Sound'
<1> USE DEF IInv, Sound
<1> DEFINE handle == clients - 1
<1>1. ~refused /\ refused' = refused
  BY DEF Stop, done
<1>2. /\ handle \in Live /\ running = handle /\ clients \in Nat /\ clients > 0
      /\ ~aborted /\ current_client = handle
      /\ Live \subseteq Handle
  BY <1>1, Handles DEF Stop, Table
<1>3. done(handle, handle - 1)
  BY <1>2 DEF Stop, Allowed
<1>4. /\ clients' = handle /\ running' = handle - 1 /\ aborted' = aborted
      /\ Live' = Live \ {handle} /\ handle \notin Live'
      /\ clients' > 0 => handle - 1 \in Live' /\ handle - 1 # NoClient
  BY <1>2, <1>3 DEF done, Live, NoClient
<1>5. \A h \in Live' : sr'[h] = sr[h] /\ vector'[h] = vector[h]
  BY <1>2, <1>3, <1>4 DEF done, TypeOK
<1>6. clients' > 0 => dseg32' = handle - 1 /\ current_client' = handle - 1
  BY <1>1, <1>3, <1>4 DEF done, DsegBack, CurrentBack, Table
<1>7. Table'
  BY <1>1, <1>2, <1>4, <1>5, <1>6 DEF Table
<1>8. ChainTrue'
  <2>1. is_32' = [is_32 EXCEPT ![handle] = FALSE] /\ \A h \in Live' : is_32'[h] = is_32[h]
    BY <1>2, <1>3, <1>4 DEF done, TypeOK
  <2>2. ASSUME NEW h \in Live'
        PROVE  /\ sr'[h].used /\ vector'[h].ours
               /\ \E g \in 0 .. h : sr'[h].old_int21 = Host(g)
               /\ \/ Hooked(h)'
                  \/ /\ h > 0 /\ sr'[h].old_int21 = sr'[h - 1].old_int21
                     /\ \E g \in 0 .. h - 1 : vector'[h] = vector'[g]
    <3>1. h \in Nat /\ h \in Live /\ \A g \in 0 .. h : g \in Live'
      BY <1>2, <1>4 DEF Live
    <3>2. h > 0 => h - 1 \in 0 .. h
      BY <3>1
    <3>3. Hooked(h) => Hooked(h)'
      BY <1>5, <2>1 DEF Hooked
    <3>4. \A g \in 0 .. h - 1 : g \in 0 .. h
      BY <3>1
    <3> QED
      BY <1>1, <1>5, <3>1, <3>2, <3>3, <3>4 DEF ChainTrue
  <2>3. ~vector'[handle].ours
    <3>1. vector'[handle] = sr[handle].old_int21
      BY <1>2, <1>3 DEF done, TypeOK
    <3>2. \E g \in 0 .. handle : sr[handle].old_int21 = Host(g)
      BY <1>1, <1>2 DEF ChainTrue
    <3> QED
      BY <3>1, <3>2 DEF Host
  <2>4. \A h \in Handle \ Live' : ~vector'[h].ours
    <3>1. \A h \in Handle \ Live' : h = handle \/ (h \in Handle \ Live /\ h # handle)
      BY <1>4
    <3> QED
      BY <1>1, <1>2, <1>3, <2>3, <3>1 DEF ChainTrue, done, TypeOK
  <2> QED
    BY <2>2, <2>4 DEF ChainTrue
<1>9. SelectorsLive'
  <2>1. allocated' = allocated \ Freed(handle)
    BY <1>3 DEF done
  <2>2. \A h \in Live' : Freed(h)' = Freed(h)
    BY <1>5 DEF Freed
  <2>3. /\ allocated = UNION {Freed(h) : h \in Live}
        /\ \A h \in Live' : Freed(h) \cap Freed(handle) = {}
    BY <1>1, <1>2, <1>4 DEF SelectorsLive
  <2>4. allocated' = UNION {Freed(h)' : h \in Live'}
    <3>1. \A d : d \in allocated' <=> \E h \in Live' : d \in Freed(h)'
      <4> SUFFICES ASSUME NEW d
                   PROVE  d \in allocated' <=> \E h \in Live' : d \in Freed(h)'
        OBVIOUS
      <4>1. d \in allocated' <=> (\E h \in Live : d \in Freed(h)) /\ d \notin Freed(handle)
        BY <2>1, <2>3
      <4>2. (\E h \in Live' : d \in Freed(h)') <=> (\E h \in Live' : d \in Freed(h))
        BY <2>2
      <4> QED
        BY <1>4, <2>3, <4>1, <4>2
    <3> QED
      BY <3>1
  <2>5. \A g, h \in Live' : Freed(g)' \cap Freed(h)' # {} => g = h
    BY <1>1, <1>4, <2>2 DEF SelectorsLive
  <2>6. \A h \in Live' : /\ have_fs => sr'[h].fs \in Descriptor
                         /\ have_gs => sr'[h].gs \in Descriptor \ {sr'[h].fs}
    BY <1>1, <1>4, <1>5 DEF SelectorsLive
  <2> QED
    BY <1>4, <1>6, <2>4, <2>5, <2>6 DEF SelectorsLive
<1> QED
  BY <1>7, <1>8, <1>9

\* A switch makes the provider's client the host's, and calls change no table.
LEMMA SoundOfOthers ==
  ASSUME IInv, Sound, (\E handle \in Live : Switch(handle)) \/ Int21 \/ Return \/ UNCHANGED vars
  PROVE  Sound'
<1> USE DEF IInv, Sound
<1>1. UNCHANGED <<clients, is_32, vector, allocated, sr, dseg32, refused, aborted>>
  BY DEF Switch, Int21, Return, hostVars, vars, entryVars
<1>2. Live' = Live /\ \A h \in Live : Freed(h)' = Freed(h)
  BY <1>1 DEF Live, Freed
<1>3. (running' \in Live /\ current_client' = running')
        \/ UNCHANGED <<running, current_client>>
  BY DEF Switch, Int21, Return, hostVars, vars, entryVars
<1>4. Table'
  BY <1>1, <1>2, <1>3 DEF Table
<1>5. ChainTrue'
  BY <1>1, <1>2 DEF ChainTrue, Hooked
<1>6. SelectorsLive'
  <2>1. UNION {Freed(h)' : h \in Live'} = UNION {Freed(h) : h \in Live}
    BY <1>2
  <2> QED
    BY <1>1, <1>2, <2>1 DEF SelectorsLive
<1> QED
  BY <1>4, <1>5, <1>6

\* The table, the chain and the selectors are inductive together.
LEMMA SoundInvariant == Spec => []Sound
<1>1. Init => Sound
  <2> SUFFICES ASSUME Init PROVE Sound
    OBVIOUS
  <2>1. Live = {}
    BY DEF Init, Live
  <2> QED
    BY <2>1 DEF Init, Sound, Table, ChainTrue, Host, SelectorsLive
<1>2. IInv /\ Sound /\ [Next]_vars => Sound'
  <2> SUFFICES ASSUME IInv, Sound, [Next]_vars PROVE Sound'
    OBVIOUS
  <2>1. CASE refused'
    BY <2>1 DEF Sound, Table, ChainTrue, SelectorsLive
  <2>2. CASE ~refused'
    BY <2>2, SoundOfAccept, SoundOfStop, SoundOfOthers DEF Next
  <2> QED
    BY <2>1, <2>2
<1> QED
  BY <1>1, <1>2, TypeInvariant, PTL DEF Spec

\* Unless a client could not be set up: the assert of entry() never fails.
THEOREM AssertAlwaysHolds == Spec => []AssertHolds
<1>1. Sound => AssertHolds
  BY DEF Sound, Table, AssertHolds
<1> QED
  BY <1>1, SoundInvariant, PTL

\* Unless a client could not be set up: INT 21h goes through the provider to the vector
\* that the host gave, for every live client, and never back to the provider.
THEOREM ChainAlwaysTrue == Spec => []ChainTrue
<1>1. Sound => ChainTrue
  BY DEF Sound
<1> QED
  BY <1>1, SoundInvariant, PTL

\* Unless a client could not be set up: the selectors that the handlers load are
\* allocated to live clients, and no descriptor leaks or is freed twice.
THEOREM SelectorsAlwaysLive == Spec => []SelectorsLive
<1>1. Sound => SelectorsLive
  BY DEF Sound
<1> QED
  BY <1>1, SoundInvariant, PTL

-----------------------------------------------------------------------------
(* The calls in flight.                                                    *)

\* A client that runs anew has no call in flight; one that runs again was reached by a
\* switch or an end, which leave the thunk off.
THEOREM ThunkAlwaysOff == Spec => []ThunkOff
<1>1. Init => ThunkOff
  BY DEF Init, ThunkOff, NoClient
<1>2. IInv /\ IInv' /\ ThunkOff /\ [Next]_vars => ThunkOff'
  <2> SUFFICES ASSUME IInv, IInv', ThunkOff, [Next]_vars, running' # NoClient, InCall(running)'
               PROVE  Last(running)'.is_32 \/ Last(running)'.nested \/ ~thunk'
    BY DEF ThunkOff
  <2> USE DEF IInv
  <2>1. ASSUME NEW wide \in BOOLEAN, NEW inherits \in BOOLEAN, Start(wide, inherits)
        PROVE  FALSE
    <3>1. running' = clients /\ calls' = calls
      BY <2>1 DEF Start, Refuse16, Refuse, Accept, Enters
    <3>2. clients \in Handle \ Live
      BY <2>1, Handles DEF Start
    <3> QED
      BY <3>1, <3>2 DEF CallsLive, InCall
  <2>2. CASE Stop
    BY <2>2 DEF Stop, done, ThunkDone, hostVars, ThunkOff, InCall, Last
  <2>3. ASSUME NEW handle \in Live, Switch(handle)
        PROVE  ~thunk'
    BY <2>3 DEF Switch
  <2>4. CASE Int21
    <3>1. running' = running /\ running \in Handle /\ thunk' = (thunk /\ clnt_is_32)
      BY <2>4, Handles DEF Int21, hostVars, TypeOK
    <3>2. calls'[running] = Append(calls[running], [is_32 |-> clnt_is_32, nested |-> FALSE])
      BY <2>4, <3>1 DEF Int21, TypeOK
    <3>3. calls[running] \in Seq(Call) /\ [is_32 |-> clnt_is_32, nested |-> FALSE] \in Call
      BY <3>1 DEF TypeOK, Call
    <3>4. calls'[running][Len(calls'[running])] = [is_32 |-> clnt_is_32, nested |-> FALSE]
      BY <3>2, <3>3
    <3>5. PICK c \in Call : c = [is_32 |-> clnt_is_32, nested |-> FALSE]
      BY <3>3
    <3>6. Last(running)' = c /\ c.is_32 = clnt_is_32
      BY <3>1, <3>4, <3>5 DEF Last
    <3> QED
      BY <3>1, <3>6
  <2>5. CASE Return
    <3>1. running' = running /\ running \in Handle /\ calls[running] \in Seq(Call)
      BY <2>5, Handles DEF Return, hostVars, TypeOK
    <3>2. calls'[running] = Returned(Rest(running)) /\ calls[running] # <<>>
      BY <2>5, <3>1 DEF Return, InCall, TypeOK
    <3>3. Returned(Rest(running)) # <<>> =>
            Returned(Rest(running))[Len(Returned(Rest(running)))].nested
      BY <3>1, <3>2, RestOfCalls DEF Rest
    <3> QED
      BY <3>1, <3>2, <3>3 DEF InCall, Last
  <2>6. CASE UNCHANGED vars
    BY <2>6 DEF vars, hostVars, entryVars, ThunkOff, InCall, Last
  <2> QED
    BY <2>1, <2>2, <2>3, <2>4, <2>5, <2>6 DEF Next
<1> QED
  BY <1>1, <1>2, TypeInvariant, PTL DEF Spec

\* As long as clients of one bitness run, every call is made with a frame of the size
\* that its client uses.
THEOREM CallsAlwaysSized == Spec => []CallsSized
<1> DEFINE Sized == OneSize /\ CallsSized
<1>1. Init => Sized
  BY DEF Init, OneSize, CallsSized, Live
<1>2. IInv /\ Sized /\ [Next]_vars => Sized'
  <2> SUFFICES ASSUME IInv, Sized, [Next]_vars, ~mixed'
               PROVE  /\ \A h \in Live' : is_32'[h] = is_32'[0] /\ clnt_is_32' = is_32'[0]
                      /\ \A h \in Live' : \A i \in DOMAIN calls'[h] : calls'[h][i].is_32 = is_32'[h]
    BY DEF OneSize, CallsSized
  <2> USE DEF IInv
  <2>1. ASSUME NEW wide \in BOOLEAN, NEW inherits \in BOOLEAN, Start(wide, inherits)
        PROVE  /\ \A h \in Live' : is_32'[h] = is_32'[0] /\ clnt_is_32' = is_32'[0]
               /\ \A h \in Live' : \A i \in DOMAIN calls'[h] : calls'[h][i].is_32 = is_32'[h]
    <3>1. /\ clients \in Handle /\ clients \in Nat /\ clients \notin Live /\ Live \subseteq Handle
          /\ UNCHANGED calls
      BY <2>1, Handles DEF Start
    <3>2. PICK w \in BOOLEAN : /\ clients' = clients + 1 /\ is_32' = [is_32 EXCEPT ![clients] = w]
                               /\ clnt_is_32' = w
                               /\ mixed' = IF clients = 0 THEN FALSE ELSE mixed \/ w # is_32[0]
      BY <2>1 DEF Start, Refuse16, Refuse, Accept, Enters, Bitness
    <3>3. Live' = Live \cup {clients} /\ calls[clients] = <<>>
      BY <3>1, <3>2 DEF Live, CallsLive
    <3>4. is_32'[clients] = w /\ \A h \in Live : is_32'[h] = is_32[h]
      BY <3>1, <3>2 DEF TypeOK
    <3>5. CASE clients = 0
      <4>1. Live = {}
        BY <3>5 DEF Live
      <4> QED
        BY <3>1, <3>2, <3>3, <3>4, <3>5, <4>1
    <3>6. CASE clients # 0
      <4>1. 0 \in Live /\ ~mixed /\ w = is_32[0]
        <5>1. 0 \in Live
          BY <3>1, <3>6 DEF Live
        <5>2. ~(mixed \/ w # is_32[0])
          BY <3>2, <3>6
        <5> QED
          BY <5>1, <5>2
      <4>2. is_32'[0] = w /\ \A h \in Live : is_32[h] = w
        BY <3>4, <4>1 DEF OneSize
      <4> QED
        BY <3>1, <3>2, <3>3, <3>4, <4>1, <4>2 DEF CallsSized
    <3> QED
      BY <3>5, <3>6
  <2>2. CASE Stop
    <3>1. /\ clients - 1 \in Live /\ clients \in Nat /\ clients > 0 /\ Live \subseteq Handle
          /\ clnt_is_32' = is_32[clients - 1]
      BY <2>2, Handles DEF Stop, Bitness
    <3>2. CASE done(clients - 1, clients - 2)
      <4>1. /\ Live' = Live \ {clients - 1} /\ mixed' = mixed
            /\ \A h \in Live' : is_32'[h] = is_32[h] /\ calls'[h] = calls[h]
            /\ Live' # {} => 0 \in Live'
        <5>1. /\ clients' = clients - 1 /\ mixed' = mixed
              /\ is_32' = [is_32 EXCEPT ![clients - 1] = FALSE]
              /\ calls' = [calls EXCEPT ![clients - 1] = <<>>]
          BY <3>2 DEF done
        <5>2. Live' = Live \ {clients - 1} /\ (Live' # {} => 0 \in Live')
          BY <3>1, <5>1 DEF Live
        <5>3. \A h \in Live' : is_32'[h] = is_32[h] /\ calls'[h] = calls[h]
          BY <3>1, <5>1, <5>2 DEF TypeOK
        <5> QED
          BY <5>1, <5>2, <5>3
      <4> QED
        BY <3>1, <4>1 DEF OneSize, CallsSized
    <3>3. CASE UNCHANGED <<hostVars, calls, mixed>>
      <4>1. Live' = Live /\ UNCHANGED <<is_32, calls, mixed>>
        BY <3>3 DEF Live, hostVars
      <4> QED
        BY <3>1, <4>1 DEF OneSize, CallsSized
    <3>4. clients - 1 - 1 = clients - 2
      BY <3>1
    <3> QED
      BY <2>2, <3>2, <3>3, <3>4 DEF Stop
  <2>3. ASSUME NEW handle \in Live, Switch(handle)
        PROVE  /\ \A h \in Live' : is_32'[h] = is_32'[0] /\ clnt_is_32' = is_32'[0]
               /\ \A h \in Live' : \A i \in DOMAIN calls'[h] : calls'[h][i].is_32 = is_32'[h]
    <3>1. Live' = Live /\ UNCHANGED <<is_32, calls, mixed>> /\ clnt_is_32' = is_32[handle]
      BY <2>3 DEF Switch, Live, Bitness
    <3> QED
      BY <3>1 DEF OneSize, CallsSized
  <2>4. CASE Int21
    <3>1. /\ Live' = Live /\ UNCHANGED <<is_32, clnt_is_32, mixed>>
          /\ running \in Live /\ Live \subseteq Handle
      BY <2>4, Handles DEF Int21, hostVars, Live, TypeOK
    <3>2. calls' = [calls EXCEPT ![running] =
            Append(calls[running], [is_32 |-> clnt_is_32, nested |-> FALSE])]
      BY <2>4 DEF Int21
    <3>3. ASSUME NEW h \in Live, NEW i \in DOMAIN calls'[h]
          PROVE  calls'[h][i].is_32 = is_32[h]
      <4>1. CASE h # running
        BY <3>1, <3>2, <4>1 DEF CallsSized, TypeOK
      <4>2. CASE h = running
        <5>1. calls[h] \in Seq(Call) /\ [is_32 |-> clnt_is_32, nested |-> FALSE] \in Call
          BY <3>1 DEF TypeOK, Call
        <5>2. calls'[h] = Append(calls[h], [is_32 |-> clnt_is_32, nested |-> FALSE])
          BY <3>1, <3>2, <4>2 DEF TypeOK
        <5>3. i \in 1 .. Len(calls[h]) + 1 /\ DOMAIN calls[h] = 1 .. Len(calls[h])
          BY <5>1, <5>2
        <5>4. calls'[h][i] = IF i = Len(calls[h]) + 1
                             THEN [is_32 |-> clnt_is_32, nested |-> FALSE] ELSE calls[h][i]
          BY <5>1, <5>2, <5>3
        <5> QED
          BY <3>1, <5>3, <5>4 DEF CallsSized, OneSize
      <4> QED
        BY <4>1, <4>2
    <3> QED
      BY <3>1, <3>3 DEF OneSize
  <2>5. CASE Return
    <3>1. /\ Live' = Live /\ UNCHANGED <<is_32, clnt_is_32, mixed>>
          /\ running \in Live /\ Live \subseteq Handle
          /\ calls' = [calls EXCEPT ![running] = Returned(Rest(running))]
          /\ calls[running] # <<>>
      BY <2>5, Handles DEF Return, InCall, hostVars, Live, TypeOK
    <3>2. ASSUME NEW h \in Live, NEW i \in DOMAIN calls'[h]
          PROVE  calls'[h][i].is_32 = is_32[h]
      <4>1. CASE h # running
        BY <3>1, <4>1 DEF CallsSized, TypeOK
      <4>2. CASE h = running
        <5>1. calls[h] \in Seq(Call) /\ calls[h] # <<>> /\ calls'[h] = Returned(Rest(h))
          BY <3>1, <4>2 DEF TypeOK
        <5>2. /\ Returned(Rest(h)) \in Seq(Call)
              /\ Len(Returned(Rest(h))) = Len(calls[h]) - 1
              /\ \A j \in 1 .. Len(calls[h]) - 1 : Returned(Rest(h))[j].is_32 = calls[h][j].is_32
          BY <5>1, RestOfCalls DEF Rest
        <5>3. i \in 1 .. Len(calls[h]) - 1 /\ i \in DOMAIN calls[h]
          BY <5>1, <5>2
        <5> QED
          BY <3>1, <5>1, <5>2, <5>3 DEF CallsSized
      <4> QED
        BY <4>1, <4>2
    <3> QED
      BY <3>1, <3>2 DEF OneSize
  <2>6. CASE UNCHANGED vars
    <3>1. Live' = Live /\ UNCHANGED <<is_32, calls, mixed, clnt_is_32>>
      BY <2>6 DEF Live, vars, hostVars, entryVars
    <3> QED
      BY <3>1 DEF OneSize, CallsSized
  <2> QED
    BY <2>1, <2>2, <2>3, <2>4, <2>5, <2>6 DEF Next
<1>3. Sized => CallsSized
  OBVIOUS
<1> QED
  BY <1>1, <1>2, <1>3, TypeInvariant, PTL DEF Spec
=============================================================================
