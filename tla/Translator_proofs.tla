-------------------------- MODULE Translator_proofs --------------------------
(***************************************************************************)
(* Proofs about the translator: type correctness, and that the shared EMS  *)
(* frame is a transfer buffer of its own for every call in flight.         *)
(***************************************************************************)
EXTENDS Translator, TLAPS, FiniteSetTheorems, SequenceTheorems

-----------------------------------------------------------------------------
(* The decision tables of Services agree with one another.                 *)

\* A request that is answered without going to real mode never maps the EMS
\* frame: only msdos_post_extender unmaps it, and it runs for MSDOS_RM alone.
THEOREM XbufOnlyForRm == \A r \in Request : NeedXbuf(r) => IsRm(r)
<1> SUFFICES ASSUME NEW r \in Request, NeedXbuf(r) PROVE ~IsDone(r)
  BY DEF IsRm, IsNone
<1> QED
  BY DEF Request, Byte, NeedXbuf, IsDone, NeedCopyDseg, NeedCopyEseg, VideoCopiesEseg,
     Dos, DosSub, PathCodes, FcbCodes, NlsBlock, NlsString, LfnCodes, LocalDosCodes,
     UnsupportedFcb

\* need_xbuf and the switch of msdos_pre_extender, two lists of services in two
\* functions, agree: the frame is mapped exactly for the services whose data or
\* registers go to the buffer.
THEOREM BufferUseMatches == \A r \in Request : NeedXbuf(r) <=> PreUsesBuffer(r)
<1> TAKE r \in Request
<1> DEFINE B(g) == LoadsBuffer(r, g)
<1>1. (\E g \in Regs : B(g)) <=> B("edx") \/ B("esi") \/ B("edi") \/ B("ebp")
  BY DEF Regs, LoadsBuffer
<1> QED
  BY <1>1 DEF Request, Byte, NeedXbuf, PreUsesBuffer, LoadsBuffer, LfnInDx, LfnInSi, LfnInDi,
     Dos, DosSub, PathCodes, FcbCodes, NlsBlock, NlsString, LfnCodes

\* Neither EXEC nor exit maps the frame (need_xbuf): a child is never started, and a
\* process never ends, under a frame mapped for the call that does it.
LEMMA ExecExitNoXbuf ==
  \A r \in Request : IsExec(r) \/ IsExit(r) => ~NeedXbuf(r)
BY DEF Request, Byte, IsExec, IsExit, NeedXbuf, NeedCopyDseg, NeedCopyEseg, VideoCopiesEseg,
   Dos, DosSub, PathCodes, FcbCodes, NlsBlock, NlsString, LfnCodes

\* Long reads and writes go through the frame (need_xbuf).
LEMMA LongIoNeedsXbuf == \A r \in Request : IsLongIo(r) => NeedXbuf(r)
BY DEF IsLongIo, NeedXbuf, Dos

\* What msdos_post_extender copies back was mapped by need_xbuf.
LEMMA CopyBackNeedsXbuf == \A r \in Request : PostUsesBuffer(r) => NeedXbuf(r)
BY DEF PostUsesBuffer, NeedXbuf

-----------------------------------------------------------------------------
Frame == Call \cup Callback

-----------------------------------------------------------------------------
(* Stacks.                                                                 *)

\* What is left of a stack cut at height k.
LEMMA Cut ==
  ASSUME NEW S, NEW s \in Seq(S), NEW k \in 0 .. Len(s)
  PROVE  /\ SubSeq(s, 1, k) \in Seq(S)
         /\ Len(SubSeq(s, 1, k)) = k
         /\ \A i \in 1 .. k : SubSeq(s, 1, k)[i] = s[i]
BY SubSeqProperties

\* What a stack is after a push.
LEMMA Push ==
  ASSUME NEW S, NEW s \in Seq(S), NEW x \in S
  PROVE  /\ Append(s, x) \in Seq(S)
         /\ Len(Append(s, x)) = Len(s) + 1
         /\ \A i \in 1 .. Len(s) : Append(s, x)[i] = s[i]
         /\ Append(s, x)[Len(s) + 1] = x
BY AppendProperties

-----------------------------------------------------------------------------
(* The clients of the stack of processes.                                  *)

Clients == {k \in 1 .. Len(procs) : procs[k].dpmi}

\* msdos_client_num counts the processes that are clients.
ClientCount == msdos_client_num = Cardinality(Clients)

\* There are finitely many clients: msdos_init and msdos_done count them.
LEMMA ClientsFinite ==
  ASSUME TypeOK
  PROVE  IsFiniteSet(Clients) /\ Cardinality(Clients) \in Nat
<1>1. IsFiniteSet(1 .. Len(procs))
  BY FS_Interval DEF TypeOK
<1>2. IsFiniteSet(Clients)
  BY <1>1, FS_Subset DEF Clients
<1> QED
  BY <1>2, FS_CardinalityType

-----------------------------------------------------------------------------
(* How processes and their activities nest.                                *)

IsExecCall(f) == f.kind = "call" /\ IsExec(f.req)

\* A process starts either with nothing of its parent in flight or inside the
\* EXEC its parent issued, and only the program itself issues one.
BasesNest ==
  \A k \in 1 .. Len(procs) - 1 :
    procs[k].base <= procs[k+1].base /\ procs[k+1].base <= procs[k].base + 1

ExecsByProgram ==
  \A i \in Proc.base + 1 .. Depth : IsExecCall(frames[i]) => i = Proc.base + 1

Nesting == Proc.base <= Depth /\ BasesNest /\ ExecsByProgram

StackInv == TypeOK /\ ClientCount /\ Nesting

\* What TypeOK says of the topmost process and of the stacks every action reads.
LEMMA StackFacts ==
  ASSUME TypeOK
  PROVE  /\ Len(procs) \in Nat \ {0} /\ Len(procs) \in 1 .. Len(procs)
         /\ Proc \in Process /\ Proc.base \in Nat /\ Proc.env \in Env
         /\ \A k \in 1 .. Len(procs) : procs[k] \in Process /\ procs[k].base \in Nat
         /\ Depth \in Nat
         /\ \A i \in 1 .. Depth : frames[i] \in Frame
<1>1. Len(procs) \in Nat \ {0}
  BY EmptySeq, LenProperties DEF TypeOK
<1>2. \A k \in 1 .. Len(procs) : procs[k] \in Process
  BY ElementOfSeq DEF TypeOK
<1>3. Depth \in Nat /\ \A i \in 1 .. Depth : frames[i] \in Frame
  BY ElementOfSeq, LenProperties DEF TypeOK, Depth, Frame
<1> QED
  BY <1>1, <1>2, <1>3 DEF Proc, Process

\* The stack of processes is the same but for environment words.
SameProcs ==
  /\ procs' \in Seq(Process)
  /\ Len(procs') = Len(procs)
  /\ \A k \in 1 .. Len(procs) :
       procs'[k].base = procs[k].base /\ procs'[k].dpmi = procs[k].dpmi

\* The three conversions of the environment word (PSP offset 2Ch) stay within Env.
LEMMA EnvSteps ==
  ASSUME NEW env \in Env
  PROVE  Converted(env) \subseteq Env /\ Reverted(env) \in Env /\ Inherited(env) \in Env
BY DEF Converted, Reverted, Inherited, Env

\* Writing the environment word, all Pre and Post do to processes, keeps the stack.
LEMMA SameProcsSteps ==
  ASSUME TypeOK, UNCHANGED procs \/ \E e \in Env : SetEnv(e)
  PROVE  SameProcs
<1>1. CASE UNCHANGED procs
  BY <1>1 DEF SameProcs, TypeOK
<1>2. CASE \E e \in Env : SetEnv(e)
  <2> PICK e \in Env : SetEnv(e)
    BY <1>2
  <2> DEFINE p == [Proc EXCEPT !.env = e]
  <2>1. procs' = [procs EXCEPT ![Len(procs)] = p]
    BY DEF SetEnv, Proc
  <2>2. p \in Process /\ p.base = Proc.base /\ p.dpmi = Proc.dpmi
    BY StackFacts DEF Process
  <2>3. procs' \in Seq(Process) /\ Len(procs') = Len(procs)
    BY <2>1, <2>2, StackFacts, ExceptSeq DEF TypeOK
  <2>4. \A k \in 1 .. Len(procs) : procs'[k] = IF k = Len(procs) THEN p ELSE procs[k]
    BY <2>1, <2>2, StackFacts, ExceptSeq DEF TypeOK
  <2> QED
    BY <2>2, <2>3, <2>4, StackFacts DEF SameProcs, Proc
<1> QED
  BY <1>1, <1>2

\* A step that keeps the stack of processes keeps its clients and its bases.
LEMMA SameProcsFacts ==
  ASSUME TypeOK, SameProcs
  PROVE  /\ Clients' = Clients
         /\ Proc'.base = Proc.base /\ Proc'.dpmi = Proc.dpmi
         /\ procs' # <<>>
         /\ BasesNest => BasesNest'
<1>1. Clients' = Clients
  BY DEF Clients, SameProcs
<1>2. Proc'.base = Proc.base /\ Proc'.dpmi = Proc.dpmi
  BY StackFacts DEF SameProcs, Proc
<1>3. procs' # <<>>
  BY StackFacts, EmptySeq DEF SameProcs
<1>4. ASSUME BasesNest, NEW k \in 1 .. Len(procs) - 1
      PROVE  procs'[k].base <= procs'[k+1].base /\ procs'[k+1].base <= procs'[k].base + 1
  <2>1. k \in 1 .. Len(procs) /\ k + 1 \in 1 .. Len(procs)
    BY StackFacts
  <2>2. procs'[k].base = procs[k].base /\ procs'[k+1].base = procs[k+1].base
    BY <2>1 DEF SameProcs
  <2> QED
    BY <1>4, <2>2 DEF BasesNest
<1> QED
  BY <1>1, <1>2, <1>3, <1>4 DEF SameProcs, BasesNest

-----------------------------------------------------------------------------
(* The stacks are preserved, action by action.                             *)

\* prepare_ems_frame and restore_ems_frame keep the type of the EMS state.
LEMMA EmsType ==
  ASSUME TypeOK, prepare_ems_frame \/ restore_ems_frame \/ UNCHANGED emsVars
  PROVE  /\ ems_frame_mapped' \in BOOLEAN
         /\ emm' \in [shows : {"app", "xbuf"}, saved : {"nothing", "app", "xbuf"}]
<1>1. emm.shows \in {"app", "xbuf"} /\ emm.saved \in {"nothing", "app", "xbuf"}
  BY DEF TypeOK
<1>2. CASE UNCHANGED emsVars
  BY <1>2 DEF TypeOK, emsVars
<1>3. CASE prepare_ems_frame /\ ~ems_frame_mapped
  BY <1>1, <1>3 DEF prepare_ems_frame
<1>4. CASE restore_ems_frame /\ ems_frame_mapped
  <2> DEFINE shown == IF emm.saved = "nothing" THEN emm.shows ELSE emm.saved
  <2>1. shown \in {"app", "xbuf"}
    BY <1>1
  <2>2. ems_frame_mapped' = FALSE /\ emm' = [shows |-> shown, saved |-> "nothing"]
    BY <1>4 DEF restore_ems_frame
  <2> HIDE DEF shown
  <2> QED
    BY <2>1, <2>2
<1> QED
  BY <1>2, <1>3, <1>4 DEF prepare_ems_frame, restore_ems_frame

\* msdos_pre_extender preserves the stack invariant.
LEMMA PreStack ==
  ASSUME StackInv, NEW r \in Request, Pre(r), InProgram \/ ~IsExec(r)
  PROVE  StackInv'
<1> USE DEF StackInv
<1>1. SameProcs
  <2>1. UNCHANGED procs \/ SetEnv(Reverted(Proc.env))
    BY DEF Pre, PreStay, PreRm
  <2> QED
    BY <2>1, SameProcsSteps, EnvSteps, StackFacts
<1>2. PreErrors(r) \subseteq Error
  BY DEF PreErrors
<1>3. PreCommon(r)
  BY DEF Pre, PreStay, PreRm
<1>4. CASE UNCHANGED <<frames, xbuf_owner, io_owner>>
  <2>1. TypeOK'
    BY <1>1, <1>2, <1>3, <1>4, EmsType, SameProcsFacts DEF TypeOK, PreCommon, SameProcs
  <2>2. Nesting'
    BY <1>1, <1>4, SameProcsFacts DEF Nesting, ExecsByProgram, Depth
  <2> QED
    BY <1>1, <1>3, <2>1, <2>2, SameProcsFacts DEF ClientCount, PreCommon
<1>5. CASE PreRm(r)
  <2> DEFINE f == [kind |-> "call", req |-> r, client |-> msdos_client_num]
  <2>1. f \in Frame /\ (IsExecCall(f) => Depth + 1 = Proc.base + 1)
    BY DEF Frame, Call, TypeOK, IsExecCall, InProgram
  <2>2. frames' = Append(frames, f) /\ frames \in Seq(Frame)
    BY <1>5 DEF PreRm, TypeOK, Frame
  <2>3. /\ frames' \in Seq(Frame) /\ Depth' = Depth + 1
        /\ \A i \in 1 .. Depth : frames'[i] = frames[i]
        /\ frames'[Depth + 1] = f
    BY <2>1, <2>2, Push DEF Depth
  <2>4. xbuf_owner' \in Nat /\ io_owner' \in Nat
    BY <1>5, StackFacts DEF PreRm, TypeOK
  <2>5. TypeOK'
    BY <1>1, <1>2, <1>3, <2>3, <2>4, EmsType, SameProcsFacts
    DEF TypeOK, PreCommon, SameProcs, Frame
  <2>6. Nesting'
    <3>1. Proc'.base <= Depth' /\ Proc'.base = Proc.base
      BY <1>1, <2>3, SameProcsFacts, StackFacts DEF Nesting
    <3>2. BasesNest'
      BY <1>1, SameProcsFacts DEF Nesting
    <3>3. \A i \in Proc.base + 1 .. Depth + 1 :
            IsExecCall(frames'[i]) => i = Proc.base + 1
      <4> TAKE i \in Proc.base + 1 .. Depth + 1
      <4>1. CASE i = Depth + 1
        BY <2>1, <2>3, <4>1
      <4>2. CASE i # Depth + 1
        <5>1. i \in 1 .. Depth /\ i \in Proc.base + 1 .. Depth
          BY <4>2, StackFacts
        <5> QED
          BY <2>3, <5>1 DEF Nesting, ExecsByProgram
      <4> QED
        BY <4>1, <4>2
    <3> QED
      BY <2>3, <3>1, <3>2, <3>3 DEF Nesting, ExecsByProgram
  <2> QED
    BY <1>1, <1>3, <2>5, <2>6, SameProcsFacts DEF ClientCount, PreCommon
<1> QED
  BY <1>4, <1>5 DEF Pre, PreStay

\* The topmost activity ends (Post, MouseReturn).
LEMMA PopStack ==
  ASSUME StackInv, Depth > Proc.base, SameProcs,
         frames' = SubSeq(frames, 1, Depth - 1)
  PROVE  /\ frames' \in Seq(Frame) /\ Depth' = Depth - 1 /\ Depth - 1 \in Nat
         /\ \A i \in 1 .. Depth - 1 : frames'[i] = frames[i]
         /\ Nesting'
<1> USE DEF StackInv
<1>1. Depth - 1 \in Nat /\ Depth - 1 \in 0 .. Len(frames) /\ frames \in Seq(Frame)
  BY StackFacts DEF Depth, TypeOK, Frame
<1>2. /\ frames' \in Seq(Frame) /\ Depth' = Depth - 1
      /\ \A i \in 1 .. Depth - 1 : frames'[i] = frames[i]
  <2> DEFINE k == Depth - 1
  <2>1. k \in 0 .. Len(frames) /\ frames' = SubSeq(frames, 1, k)
    BY <1>1
  <2> HIDE DEF k
  <2>2. /\ frames' \in Seq(Frame) /\ Len(frames') = k
        /\ \A i \in 1 .. k : frames'[i] = frames[i]
    BY <1>1, <2>1, Cut
  <2>3. Depth' = k
    BY <2>2 DEF Depth
  <2> QED
    BY <2>2, <2>3 DEF k
<1>3. Proc'.base <= Depth' /\ Proc'.base = Proc.base /\ BasesNest'
  BY <1>2, SameProcsFacts, StackFacts DEF Nesting
<1>4. \A i \in Proc.base + 1 .. Depth - 1 : IsExecCall(frames'[i]) => i = Proc.base + 1
  <2> TAKE i \in Proc.base + 1 .. Depth - 1
  <2>1. i \in 1 .. Depth - 1 /\ i \in Proc.base + 1 .. Depth
    BY StackFacts
  <2> QED
    BY <1>2, <2>1 DEF Nesting, ExecsByProgram
<1>5. Nesting'
  BY <1>2, <1>3, <1>4 DEF Nesting, ExecsByProgram
<1> QED
  BY <1>1, <1>2, <1>5

\* msdos_post_extender preserves the stack invariant.
LEMMA PostStack ==
  ASSUME StackInv, NEW d, Post(d)
  PROVE  StackInv'
<1> USE DEF StackInv
<1>1. SameProcs
  <2>1. UNCHANGED procs \/ \E e \in Converted(Proc.env) : SetEnv(e)
    BY DEF Post
  <2> QED
    BY <2>1, SameProcsSteps, EnvSteps, StackFacts
<1>2. Nesting' /\ frames' \in Seq(Frame)
  BY <1>1, PopStack DEF Post, InDos
<1>3. errors' \subseteq Error /\ foreign' \subseteq Regs
  BY DEF Post, PostErrors, TypeOK
<1>4. xbuf_owner' \in Nat /\ io_owner' \in Nat /\ UNCHANGED msdos_client_num
  BY DEF Post, Unmap, UnsetIo, TypeOK
<1>5. prepare_ems_frame \/ restore_ems_frame \/ UNCHANGED emsVars
  BY DEF Post, Unmap, UnsetIo
<1>6. TypeOK'
  BY <1>1, <1>2, <1>3, <1>4, <1>5, EmsType, SameProcsFacts DEF TypeOK, SameProcs, Frame
<1> QED
  BY <1>1, <1>2, <1>4, <1>6, SameProcsFacts DEF ClientCount

\* The return of a mouse routine (rmcb_ret_handler) preserves the stack invariant.
LEMMA MouseReturnStack ==
  ASSUME StackInv, NEW d, MouseReturn(d)
  PROVE  StackInv'
<1> USE DEF StackInv
<1>1. SameProcs
  BY SameProcsSteps DEF MouseReturn
<1>2. Nesting' /\ frames' \in Seq(Frame)
  BY <1>1, PopStack DEF MouseReturn, InCallback
<1>3. TypeOK'
  BY <1>2 DEF MouseReturn, TypeOK, emsVars, Frame
<1> QED
  BY <1>1, <1>2, <1>3, SameProcsFacts DEF ClientCount, MouseReturn

\* Entering a mouse routine (mouse_callback) pushes one activity and preserves the
\* stack invariant.
LEMMA MouseEventStack ==
  ASSUME StackInv, MouseEvent
  PROVE  /\ StackInv' /\ Depth' = Depth + 1
         /\ \A i \in 1 .. Depth : frames'[i] = frames[i]
         /\ frames'[Depth + 1].kind = "callback"
<1> USE DEF StackInv
<1> DEFINE f == [kind |-> "callback", client |-> msdos_client_num]
<1>1. f \in Frame /\ f.kind = "callback"
  BY DEF Frame, Callback, TypeOK
<1>2. frames' = Append(frames, f) /\ frames \in Seq(Frame)
  BY DEF MouseEvent, TypeOK, Frame
<1>3. /\ frames' \in Seq(Frame) /\ Depth' = Depth + 1
      /\ \A i \in 1 .. Depth : frames'[i] = frames[i]
      /\ frames'[Depth + 1] = f
  BY <1>1, <1>2, Push DEF Depth
<1>4. TypeOK'
  BY <1>3 DEF MouseEvent, TypeOK, emsVars, Frame
<1>5. SameProcs
  BY SameProcsSteps DEF MouseEvent
<1>6. \A i \in Proc.base + 1 .. Depth + 1 : IsExecCall(frames'[i]) => i = Proc.base + 1
  <2> TAKE i \in Proc.base + 1 .. Depth + 1
  <2>1. CASE i = Depth + 1
    BY <1>1, <1>3, <2>1 DEF IsExecCall
  <2>2. CASE i # Depth + 1
    <3>1. i \in 1 .. Depth /\ i \in Proc.base + 1 .. Depth
      BY <2>2, StackFacts
    <3> QED
      BY <1>3, <3>1 DEF Nesting, ExecsByProgram
  <2> QED
    BY <2>1, <2>2
<1>7. Nesting'
  BY <1>3, <1>5, <1>6, SameProcsFacts, StackFacts DEF Nesting, ExecsByProgram
<1> QED
  BY <1>1, <1>3, <1>4, <1>5, <1>7, SameProcsFacts DEF ClientCount, MouseEvent

\* A child DOS starts, from the shell or inside EXEC, preserves the stack invariant.
LEMMA DosExecStack ==
  ASSUME StackInv, DosExec
  PROVE  StackInv' /\ Proc'.base = Depth'
<1> USE DEF StackInv
<1> DEFINE n == Len(procs)
           p == [dpmi |-> FALSE, env |-> Inherited(Proc.env), base |-> Depth]
<1>1. p \in Process
  BY EnvSteps, StackFacts DEF Process
<1>2. procs' = Append(procs, p) /\ procs \in Seq(Process)
  BY DEF DosExec, TypeOK
<1>3. /\ procs' \in Seq(Process) /\ Len(procs') = n + 1
      /\ \A k \in 1 .. n : procs'[k] = procs[k]
      /\ procs'[n + 1] = p
  BY <1>1, <1>2, Push
<1>4. Proc' = p /\ Proc'.base = Depth /\ Depth' = Depth /\ UNCHANGED <<frames, msdos_client_num>>
  BY <1>3 DEF Proc, DosExec, Depth
<1>5. TypeOK'
  <2>1. procs' # <<>>
    BY <1>3, EmptySeq, StackFacts
  <2> QED
    BY <1>3, <2>1 DEF DosExec, TypeOK, emsVars
<1>6. Clients' = Clients
  BY <1>3, StackFacts DEF Clients
<1>7. Proc.base <= Depth /\ Depth <= Proc.base + 1
  <2>1. CASE InProgram
    BY <2>1, StackFacts DEF InProgram
  <2>2. CASE InDos /\ IsExec(Top.req)
    <3>1. Depth \in Proc.base + 1 .. Depth /\ IsExecCall(frames[Depth])
      BY <2>2, StackFacts DEF InDos, Top, IsExecCall
    <3> QED
      BY <3>1, StackFacts DEF Nesting, ExecsByProgram
  <2> QED
    BY <2>1, <2>2 DEF DosExec
<1>8. BasesNest'
  <2> SUFFICES ASSUME NEW k \in 1 .. n
               PROVE  procs'[k].base <= procs'[k+1].base
                      /\ procs'[k+1].base <= procs'[k].base + 1
    BY <1>3, StackFacts DEF BasesNest
  <2>1. CASE k = n
    BY <1>3, <1>7, <2>1, StackFacts DEF Proc
  <2>2. CASE k # n
    <3>1. k \in 1 .. n - 1 /\ k + 1 \in 1 .. n
      BY <2>2, StackFacts
    <3>2. procs'[k] = procs[k] /\ procs'[k+1] = procs[k+1]
      BY <1>3, <3>1
    <3> QED
      BY <3>1, <3>2 DEF Nesting, BasesNest
  <2> QED
    BY <2>1, <2>2
<1>9. Nesting'
  BY <1>4, <1>8, StackFacts DEF Nesting, ExecsByProgram
<1> QED
  BY <1>4, <1>5, <1>6, <1>9 DEF ClientCount

\* msdos_init preserves the stack invariant: it counts exactly one client more.
LEMMA InitStack ==
  ASSUME StackInv, msdos_init
  PROVE  StackInv' /\ Proc'.base = Proc.base
<1> USE DEF StackInv
<1>0. PICK e \in Converted(Proc.env) :
        procs' = [procs EXCEPT ![Len(procs)].env = e, ![Len(procs)].dpmi = TRUE]
  BY DEF msdos_init
<1> DEFINE n == Len(procs)
           p == [Proc EXCEPT !.env = e, !.dpmi = TRUE]
<1>1. p \in Process /\ p.base = Proc.base /\ p.dpmi = TRUE
  BY EnvSteps, StackFacts DEF Process
<1>2. procs' = [procs EXCEPT ![n] = p]
  BY <1>0, StackFacts DEF Proc, TypeOK
<1>3. /\ procs' \in Seq(Process) /\ Len(procs') = n
      /\ \A k \in 1 .. n : procs'[k] = IF k = n THEN p ELSE procs[k]
  <2>1. n \in 1 .. Len(procs) /\ procs \in Seq(Process)
    BY StackFacts DEF TypeOK
  <2> HIDE DEF p
  <2> QED
    BY <1>1, <1>2, <2>1, ExceptSeq
<1>4. /\ \A k \in 1 .. n : procs'[k].base = procs[k].base
      /\ Proc'.base = Proc.base
  BY <1>1, <1>3, StackFacts DEF Proc
<1>5. Clients' = Clients \cup {n} /\ n \notin Clients
  <2>1. ~procs[n].dpmi /\ n \in 1 .. n
    BY StackFacts DEF msdos_init, Proc
  <2> QED
    BY <1>1, <1>3, <2>1 DEF Clients
<1>6. ClientCount'
  BY <1>5, ClientsFinite, FS_AddElement DEF ClientCount, msdos_init
<1>7. TypeOK'
  <2>1. procs' # <<>>
    BY <1>3, EmptySeq, StackFacts
  <2> QED
    BY <1>3, <2>1 DEF msdos_init, TypeOK, emsVars
<1>8. BasesNest'
  <2> SUFFICES ASSUME NEW k \in 1 .. n - 1
               PROVE  procs'[k].base <= procs'[k+1].base
                      /\ procs'[k+1].base <= procs'[k].base + 1
    BY <1>3, StackFacts DEF BasesNest
  <2>1. k \in 1 .. n /\ k + 1 \in 1 .. n
    BY StackFacts
  <2> QED
    BY <1>4, <2>1 DEF Nesting, BasesNest
<1>9. UNCHANGED frames
  BY DEF msdos_init
<1> QED
  BY <1>4, <1>6, <1>7, <1>8, <1>9 DEF Nesting, ExecsByProgram, Depth

\* An exit, and msdos_done with it, preserves the stack invariant: what the parent
\* had in flight is in flight again.
LEMMA LeaveStack ==
  ASSUME StackInv, LeaveProcess,
         msdos_client_num' = msdos_client_num - IF Proc.dpmi THEN 1 ELSE 0
  PROVE  StackInv' /\ UNCHANGED ems_frame_mapped
<1> USE DEF StackInv
<1> DEFINE n == Len(procs)
           m == n - 1
           b == Proc.base
<1>1. /\ procs \in Seq(Process) /\ frames \in Seq(Frame)
      /\ n \in Nat /\ m \in 1 .. n /\ n = m + 1
      /\ b \in 0 .. Len(frames) /\ b = procs[n].base
  BY StackFacts DEF LeaveProcess, TypeOK, Frame, Nesting, Depth, Proc
<1>2. procs' = SubSeq(procs, 1, m) /\ frames' = SubSeq(frames, 1, b)
  BY DEF LeaveProcess
<1> HIDE DEF n, m, b
<1>3. /\ procs' \in Seq(Process) /\ Len(procs') = m
      /\ \A k \in 1 .. m : procs'[k] = procs[k]
  BY <1>1, <1>2, Cut DEF n
<1>4. /\ frames' \in Seq(Frame) /\ Len(frames') = b
      /\ \A i \in 1 .. b : frames'[i] = frames[i]
  BY <1>1, <1>2, Cut
<1>5. Clients' = Clients \ {n}
  BY <1>1, <1>3 DEF Clients, n
<1>6. ClientCount' /\ msdos_client_num' \in Nat
  <2>1. n \in Clients <=> Proc.dpmi
    BY StackFacts DEF Clients, Proc, n
  <2>2. IsFiniteSet(Clients')
    BY <1>5, ClientsFinite, FS_RemoveElement
  <2>3. Cardinality(Clients') = IF n \in Clients THEN Cardinality(Clients) - 1
                                                ELSE Cardinality(Clients)
    BY <1>5, ClientsFinite, FS_RemoveElement
  <2>4. Cardinality(Clients') = msdos_client_num'
    <3>1. CASE Proc.dpmi
      BY <2>1, <2>3, <3>1 DEF ClientCount
    <3>2. CASE ~Proc.dpmi
      BY <2>1, <2>3, <3>2 DEF ClientCount, TypeOK
    <3> QED
      BY <3>1, <3>2
  <2> QED
    BY <2>2, <2>4, FS_CardinalityType DEF ClientCount
<1>7. TypeOK'
  <2>1. procs' # <<>>
    BY <1>1, <1>3, EmptySeq
  <2>2. Dead \in Nat
    BY BoundsAssumption DEF Dead
  <2> QED
    BY <1>3, <1>4, <1>6, <2>1, <2>2 DEF LeaveProcess, TypeOK, emsVars, Frame
<1>8. BasesNest'
  <2> SUFFICES ASSUME NEW k \in 1 .. m - 1
               PROVE  procs'[k].base <= procs'[k+1].base
                      /\ procs'[k+1].base <= procs'[k].base + 1
    BY <1>3 DEF BasesNest
  <2>1. k \in 1 .. m /\ k + 1 \in 1 .. m /\ k \in 1 .. n - 1
    BY <1>1
  <2> QED
    BY <1>3, <2>1 DEF Nesting, BasesNest, n
<1>9. Proc'.base <= b /\ b <= Proc'.base + 1 /\ Proc'.base \in Nat
  <2>1. Proc' = procs[m]
    BY <1>1, <1>3 DEF Proc
  <2>2. m \in 1 .. n - 1
    BY <1>1
  <2> QED
    BY <1>1, <2>1, <2>2, StackFacts DEF Nesting, BasesNest, n
<1>10. ExecsByProgram'
  <2> SUFFICES ASSUME NEW i \in Proc'.base + 1 .. b
               PROVE  i = Proc'.base + 1
    BY <1>4 DEF ExecsByProgram, Depth
  <2> QED
    BY <1>1, <1>9
<1>11. Nesting'
  BY <1>4, <1>8, <1>9, <1>10 DEF Nesting, Depth
<1> QED
  BY <1>6, <1>7, <1>11 DEF LeaveProcess, emsVars

\* The ways a call is issued: only the program itself asks for EXEC.
LEMMA CallCases ==
  ASSUME ProgramCall \/ CallbackCall
  PROVE  \E r \in Request :
           /\ Pre(r)
           /\ \/ InProgram /\ Proc.dpmi /\ r \in Requests
              \/ InCallback /\ r \in CallbackRequests /\ ~IsExec(r)
BY RequestsAssumption, CallbackAssumption DEF ProgramCall, CallbackCall

\* The stack invariant holds with the shell alone.
LEMMA StackInit == Init => StackInv
<1> SUFFICES ASSUME Init PROVE StackInv
  OBVIOUS
<1> DEFINE p == [dpmi |-> FALSE, env |-> "seg", base |-> 0]
<1>1. p \in Process /\ procs = <<p>> /\ frames = <<>>
  BY DEF Init, Process, Env
<1>2. /\ procs \in Seq(Process) /\ Len(procs) = 1 /\ procs[1] = p
      /\ frames \in Seq(Call \cup Callback) /\ Len(frames) = 0
  BY <1>1, EmptySeq
<1>3. TypeOK
  BY <1>2, EmptySeq DEF Init, TypeOK
<1>4. ClientCount
  <2>1. Clients = {}
    BY <1>2 DEF Clients
  <2> QED
    BY <2>1, FS_EmptySet DEF ClientCount, Init
<1>5. Nesting
  BY <1>2 DEF Nesting, BasesNest, ExecsByProgram, Proc, Depth
<1> QED
  BY <1>3, <1>4, <1>5 DEF StackInv

\* The stack invariant does not depend on anything but the variables.
LEMMA StackStutter == ASSUME StackInv, UNCHANGED vars PROVE StackInv'
BY DEF StackInv, TypeOK, ClientCount, Clients, Nesting, BasesNest, ExecsByProgram, Proc,
       Depth, vars

\* Every action of the translator preserves the stack invariant.
LEMMA StackStep == StackInv /\ [Next]_vars => StackInv'
<1> SUFFICES ASSUME StackInv, [Next]_vars PROVE StackInv'
  OBVIOUS
<1>1. CASE ProgramCall \/ CallbackCall
  <2>1. PICK r \in Request : Pre(r) /\ (InProgram \/ ~IsExec(r))
    BY <1>1, CallCases
  <2> QED
    BY <2>1, PreStack
<1>2. CASE \E d \in 1 .. MaxFrames : Post(d)
  BY <1>2, PostStack
<1>3. CASE \E d \in 1 .. MaxFrames : MouseReturn(d)
  BY <1>3, MouseReturnStack
<1>4. CASE MouseEvent
  BY <1>4, MouseEventStack
<1>5. CASE DosExec
  BY <1>5, DosExecStack
<1>6. CASE msdos_init
  BY <1>6, InitStack
<1>7. CASE RealModeExit
  <2>1. msdos_client_num' = msdos_client_num - IF Proc.dpmi THEN 1 ELSE 0
    BY <1>7 DEF RealModeExit, StackInv, TypeOK
  <2> QED
    BY <1>7, <2>1, LeaveStack DEF RealModeExit
<1>8. CASE msdos_done
  <2>1. msdos_client_num' = msdos_client_num - IF Proc.dpmi THEN 1 ELSE 0
    BY <1>8 DEF msdos_done
  <2> QED
    BY <1>8, <2>1, LeaveStack DEF msdos_done
<1>9. CASE UNCHANGED vars
  BY <1>9, StackStutter
<1> QED
  BY <1>1, <1>2, <1>3, <1>4, <1>5, <1>6, <1>7, <1>8, <1>9 DEF Next

\* The stack invariant holds throughout.
LEMMA StackAlways == Spec => []StackInv
BY StackInit, StackStep, PTL DEF Spec

\* Every variable keeps its type: in particular msdos_client_num never goes
\* below zero, so MSDOS_CLIENT always names a slot of the table or none.
THEOREM TypeCorrect == Spec => []TypeOK
<1>1. StackInv => TypeOK
  BY DEF StackInv
<1> QED
  BY <1>1, StackAlways, PTL

-----------------------------------------------------------------------------
(* The EMS driver and the translator agree on the frame.                   *)

\* Every action keeps the flag ems_frame_mapped and the EMS driver in agreement.
LEMMA MappingStep == TypeOK /\ AppMappingSafe /\ [Next]_vars => AppMappingSafe'
<1> SUFFICES ASSUME TypeOK, AppMappingSafe, [Next]_vars PROVE AppMappingSafe'
  OBVIOUS
<1>1. prepare_ems_frame \/ restore_ems_frame \/ UNCHANGED emsVars
  BY DEF Next, ProgramCall, CallbackCall, Pre, PreStay, PreRm, PreCommon, Post, Unmap, UnsetIo, MouseReturn,
         MouseEvent, DosExec, msdos_init, RealModeExit, msdos_done, LeaveProcess, vars, emsVars
<1>2. CASE UNCHANGED emsVars
  BY <1>2 DEF AppMappingSafe, emsVars
<1>3. CASE prepare_ems_frame /\ ~ems_frame_mapped
  BY <1>3 DEF prepare_ems_frame, AppMappingSafe
<1>4. CASE restore_ems_frame /\ ems_frame_mapped
  <2>1. ems_frame_mapped' = FALSE /\ emm' = [shows |-> "app", saved |-> "nothing"]
    BY <1>4 DEF restore_ems_frame, AppMappingSafe
  <2> QED
    BY <2>1 DEF AppMappingSafe
<1> QED
  BY <1>1, <1>2, <1>3, <1>4 DEF prepare_ems_frame, restore_ems_frame

\* Whatever nests, interrupts or aborts, the application's EMS mapping is saved
\* once, never overwritten by the translator's own, and restored in one piece.
THEOREM AppMappingAlwaysSafe == Spec => []AppMappingSafe
<1>1. Init => AppMappingSafe
  BY DEF Init, AppMappingSafe
<1>2. Spec => []TypeOK
  BY TypeCorrect
<1> QED
  BY <1>1, <1>2, MappingStep, PTL DEF Spec

-----------------------------------------------------------------------------
(* The frame is mapped only for a call in flight.                          *)

\* Nothing of the running process in flight, or one activity that has no use
\* for the buffer: the frame is not mapped.
LEMMA FrameIdle ==
  ASSUME StackInv, FrameReleased,
         InProgram \/ (Depth = Proc.base + 1 /\ ~UsesXbuf(Top))
  PROVE  ~ems_frame_mapped
<1>1. Proc.base \in Nat /\ Depth \in Nat
  BY StackFacts DEF StackInv
<1>2. \A i \in Proc.base + 1 .. Depth : ~UsesXbuf(frames[i])
  <2> TAKE i \in Proc.base + 1 .. Depth
  <2>1. ~InProgram /\ i = Depth
    BY <1>1 DEF InProgram
  <2> QED
    BY <2>1 DEF Top
<1> QED
  BY <1>2 DEF FrameReleased

\* In DOS the topmost activity is a call.
LEMMA TopIsFrame ==
  ASSUME StackInv, InDos
  PROVE  Top.kind = "call" /\ Top.req \in Request /\ Depth \in Proc.base + 1 .. Depth
<1>1. Depth \in 1 .. Depth /\ Depth \in Proc.base + 1 .. Depth
  BY StackFacts DEF StackInv, InDos
<1>2. Top \in Frame
  BY <1>1, StackFacts DEF StackInv, Top
<1> QED
  BY <1>1, <1>2 DEF InDos, Frame, Call, Callback

\* The frame is idle when a child starts and when a process goes away.
LEMMA FrameIdleAtProcess ==
  ASSUME NoXbufAbort, StackInv, FrameReleased, DosExec \/ RealModeExit \/ msdos_done
  PROVE  ~ems_frame_mapped
<1>1. CASE InProgram
  BY <1>1, FrameIdle
<1>2. CASE DosExec /\ InDos /\ IsExec(Top.req)
  <2>1. Depth = Proc.base + 1
    BY <1>2, TopIsFrame DEF StackInv, Nesting, ExecsByProgram, IsExecCall, Top
  <2>2. ~UsesXbuf(Top)
    BY <1>2, TopIsFrame, ExecExitNoXbuf DEF UsesXbuf
  <2> QED
    BY <2>1, <2>2, FrameIdle
<1>3. CASE msdos_done
  <2>1. ~UsesXbuf(Top)
    BY <1>3, TopIsFrame, ExecExitNoXbuf DEF msdos_done, UsesXbuf, NoXbufAbort
  <2> QED
    BY <1>3, <2>1, FrameIdle DEF msdos_done
<1> QED
  BY <1>1, <1>2, <1>3 DEF DosExec, RealModeExit

\* Every action keeps the frame mapped only on behalf of a call in flight.
LEMMA ReleasedStep ==
  ASSUME NoXbufAbort, StackInv, FrameReleased, [Next]_vars
  PROVE  FrameReleased'
<1> USE DEF StackInv
<1>0. Proc.base \in Nat /\ Depth \in Nat /\ TypeOK
  BY StackFacts
<1>1. CASE ProgramCall \/ CallbackCall
  <2>1. PICK r \in Request : Pre(r)
    BY <1>1, CallCases
  <2>2. SameProcs
    BY <2>1, SameProcsSteps, EnvSteps, StackFacts DEF Pre, PreStay, PreRm
  <2>3. Proc'.base = Proc.base
    BY <1>0, <2>2, SameProcsFacts
  <2>4. CASE PreStay(r)
    BY <2>3, <2>4, XbufOnlyForRm DEF PreStay, PreCommon, FrameReleased, emsVars, Depth
  <2>5. CASE PreRm(r)
    <3> DEFINE f == [kind |-> "call", req |-> r, client |-> msdos_client_num]
    <3>1. frames' = Append(frames, f) /\ frames \in Seq(Frame) /\ f \in Frame
      BY <2>5 DEF PreRm, TypeOK, Frame, Call
    <3>2. /\ Depth' = Depth + 1 /\ frames'[Depth + 1] = f
          /\ \A i \in 1 .. Depth : frames'[i] = frames[i]
      BY <3>1, Push DEF Depth
    <3>3. CASE NeedXbuf(r)
      <4>1. Depth + 1 \in Proc.base + 1 .. Depth + 1
        BY <1>0 DEF Nesting
      <4>2. UsesXbuf(frames'[Depth + 1])
        BY <3>2, <3>3 DEF UsesXbuf
      <4> QED
        BY <2>3, <3>2, <4>1, <4>2 DEF FrameReleased
    <3>4. CASE ~NeedXbuf(r)
      <4>1. UNCHANGED ems_frame_mapped
        BY <2>5, <3>4 DEF PreRm, PreCommon, emsVars
      <4> SUFFICES ASSUME ems_frame_mapped
                   PROVE  \E i \in Proc.base + 1 .. Depth + 1 : UsesXbuf(frames'[i])
        BY <2>3, <3>2, <4>1 DEF FrameReleased
      <4>2. PICK i \in Proc.base + 1 .. Depth : UsesXbuf(frames[i])
        BY DEF FrameReleased
      <4>3. i \in 1 .. Depth /\ i \in Proc.base + 1 .. Depth + 1
        BY <1>0
      <4> QED
        BY <3>2, <4>2, <4>3
    <3> QED
      BY <3>3, <3>4
  <2> QED
    BY <2>1, <2>4, <2>5 DEF Pre
<1>2. CASE \E d \in 1 .. MaxFrames : Post(d) \/ MouseReturn(d)
  <2>1. PICK d \in 1 .. MaxFrames : Post(d) \/ MouseReturn(d)
    BY <1>2
  <2>2. SameProcs
    BY <2>1, SameProcsSteps, EnvSteps, StackFacts DEF Post, MouseReturn
  <2>3. /\ Depth' = Depth - 1 /\ Proc'.base = Proc.base
        /\ \A i \in 1 .. Depth - 1 : frames'[i] = frames[i]
    BY <1>0, <2>1, <2>2, PopStack, SameProcsFacts
    DEF Post, MouseReturn, InDos, InCallback
  <2> SUFFICES ASSUME ems_frame_mapped'
               PROVE  \E i \in Proc.base + 1 .. Depth - 1 : UsesXbuf(frames'[i])
    BY <2>3 DEF FrameReleased
  <2>4. ems_frame_mapped /\ ~UsesXbuf(Top)
    BY <2>1 DEF Post, Unmap, UnsetIo, MouseReturn, InCallback, InDos, restore_ems_frame, UsesXbuf, emsVars
  <2>5. PICK i \in Proc.base + 1 .. Depth : UsesXbuf(frames[i])
    BY <2>4 DEF FrameReleased
  <2>6. i # Depth
    BY <2>4, <2>5 DEF Top
  <2>7. i \in 1 .. Depth - 1 /\ i \in Proc.base + 1 .. Depth - 1
    BY <1>0, <2>6
  <2> QED
    BY <2>3, <2>5, <2>7
<1>3. CASE MouseEvent
  <2>1. Proc'.base = Proc.base /\ UNCHANGED ems_frame_mapped
    BY <1>3 DEF MouseEvent, Proc, emsVars
  <2> SUFFICES ASSUME ems_frame_mapped
               PROVE  \E i \in Proc.base + 1 .. Depth + 1 : UsesXbuf(frames'[i])
    BY <1>3, <2>1, MouseEventStack DEF FrameReleased
  <2>2. PICK i \in Proc.base + 1 .. Depth : UsesXbuf(frames[i])
    BY DEF FrameReleased
  <2>3. i \in 1 .. Depth /\ i \in Proc.base + 1 .. Depth + 1
    BY <1>0
  <2> QED
    BY <1>3, <2>2, <2>3, MouseEventStack
<1>4. CASE DosExec \/ RealModeExit \/ msdos_done
  <2>1. UNCHANGED ems_frame_mapped
    BY <1>4 DEF DosExec, RealModeExit, msdos_done, LeaveProcess, emsVars
  <2> QED
    BY <1>4, <2>1, FrameIdleAtProcess DEF FrameReleased
<1>5. CASE msdos_init
  BY <1>5, InitStack DEF msdos_init, emsVars, FrameReleased, Depth
<1>6. CASE UNCHANGED vars
  BY <1>6 DEF vars, FrameReleased, Proc, Depth
<1> QED
  BY <1>1, <1>2, <1>3, <1>4, <1>5, <1>6 DEF Next

\* If DOS aborts no call that uses the buffer, the frame is never left mapped:
\* not by a service, and not across EXEC, exit or the mouse routines.
THEOREM FrameAlwaysReleased ==
  ASSUME NoXbufAbort
  PROVE  Spec => []FrameReleased
<1>1. Init => FrameReleased
  BY DEF Init, FrameReleased
<1>2. StackInv /\ FrameReleased /\ [Next]_vars => FrameReleased'
  BY ReleasedStep
<1> QED
  BY <1>1, <1>2, StackAlways, PTL DEF Spec

-----------------------------------------------------------------------------
(* The buffer belongs to the call in flight.                               *)

Calm == NoXbufAbort /\ CalmCallbacks

\* No call in flight uses a frame that is not mapped.
LEMMA NoCallUsesIdleFrame ==
  ASSUME BufferHeld, ~ems_frame_mapped
  PROVE  \A i \in 1 .. Depth : ~UsesXbuf(frames[i])
BY DEF BufferHeld

\* If mouse routines keep off the buffer, the only call in flight that may use it is
\* the one that the running program itself has issued.
OneUser == \A i \in 1 .. Depth : UsesXbuf(frames[i]) => i = Proc.base + 1

\* The call that uses the buffer is not in flight when programs start and end.
LEMMA NoUserAtProcess ==
  ASSUME StackInv, OneUser, InProgram \/ (InDos /\ IsExec(Top.req))
  PROVE  \A i \in 1 .. Depth : ~UsesXbuf(frames[i])
<1>0. Proc.base \in Nat /\ Depth \in Nat
  BY StackFacts DEF StackInv
<1> SUFFICES ASSUME NEW i \in 1 .. Depth, UsesXbuf(frames[i]) PROVE FALSE
  OBVIOUS
<1>1. i = Proc.base + 1
  BY DEF OneUser
<1>2. CASE InProgram
  BY <1>0, <1>1, <1>2 DEF InProgram
<1>3. CASE InDos /\ IsExec(Top.req)
  <2>1. Depth = Proc.base + 1
    BY <1>3, TopIsFrame DEF StackInv, Nesting, ExecsByProgram, IsExecCall, Top
  <2>2. ~UsesXbuf(Top)
    BY <1>3, TopIsFrame, ExecExitNoXbuf DEF UsesXbuf
  <2> QED
    BY <1>1, <2>1, <2>2 DEF Top
<1> QED
  BY <1>2, <1>3

\* What is left in flight of the activities around a process that goes away does not
\* use the buffer: the parent is inside EXEC.
LEMMA NoUserLeft ==
  ASSUME StackInv, OneUser, LeaveProcess
  PROVE  /\ Depth' = Proc.base
         /\ \A i \in 1 .. Proc.base : frames'[i] = frames[i] /\ ~UsesXbuf(frames[i])
<1>1. Proc.base \in 0 .. Len(frames) /\ Depth = Len(frames) /\ frames \in Seq(Frame)
  BY StackFacts DEF StackInv, Nesting, Depth, TypeOK, Frame
<1>2. Depth' = Proc.base /\ \A i \in 1 .. Proc.base : frames'[i] = frames[i]
  BY <1>1, Cut DEF LeaveProcess, Depth
<1>3. \A i \in 1 .. Proc.base : i \in 1 .. Depth /\ i # Proc.base + 1
  BY <1>1
<1> QED
  BY <1>2, <1>3 DEF OneUser

\* A call that is pushed, and what it leaves of the activities around it.
LEMMA PrePush ==
  ASSUME StackInv, NEW r \in Request, PreRm(r)
  PROVE  /\ Depth' = Depth + 1 /\ Proc'.base = Proc.base
         /\ frames'[Depth + 1].kind = "call" /\ frames'[Depth + 1].req = r
         /\ \A i \in 1 .. Depth : frames'[i] = frames[i]
         /\ \A i \in 1 .. Depth + 1 : i = Depth + 1 \/ i \in 1 .. Depth
<1> DEFINE f == [kind |-> "call", req |-> r, client |-> msdos_client_num]
<1>1. frames' = Append(frames, f) /\ frames \in Seq(Frame) /\ f \in Frame
  BY DEF PreRm, TypeOK, Frame, Call, StackInv
<1>2. SameProcs
  BY SameProcsSteps, EnvSteps, StackFacts DEF PreRm, StackInv
<1>3. Depth \in Nat /\ Proc'.base = Proc.base
  BY <1>2, SameProcsFacts, StackFacts DEF StackInv
<1> QED
  BY <1>1, <1>3, Push DEF Depth

\* An activity that is popped, and what it leaves of the others.
LEMMA ReturnPop ==
  ASSUME StackInv, NEW d, Post(d) \/ MouseReturn(d)
  PROVE  /\ Depth' = Depth - 1 /\ Proc'.base = Proc.base /\ Depth \in 1 .. Depth
         /\ \A i \in 1 .. Depth - 1 : i \in 1 .. Depth /\ i # Depth /\ frames'[i] = frames[i]
<1>1. Depth \in Nat /\ Depth > Proc.base /\ Proc.base \in Nat /\ TypeOK
  BY StackFacts DEF StackInv, Post, MouseReturn, InDos, InCallback
<1>2. SameProcs
  BY <1>1, SameProcsSteps, EnvSteps, StackFacts DEF Post, MouseReturn
<1>3. Depth' = Depth - 1 /\ \A i \in 1 .. Depth - 1 : frames'[i] = frames[i]
  BY <1>1, <1>2, PopStack DEF Post, MouseReturn
<1> QED
  BY <1>1, <1>2, <1>3, SameProcsFacts

\* Every action leaves the buffer to the running program alone.
LEMMA OneUserStep ==
  ASSUME CalmCallbacks, StackInv, OneUser, [Next]_vars
  PROVE  OneUser'
<1>1. CASE ProgramCall \/ CallbackCall
  <2>1. PICK r \in Request : Pre(r) /\ (InProgram \/ (InCallback /\ r \in CallbackRequests))
    BY <1>1, CallCases
  <2>2. CASE PreStay(r)
    BY <2>2 DEF PreStay, OneUser, Depth, Proc
  <2>3. CASE PreRm(r)
    <3>1. UsesXbuf(frames'[Depth + 1]) => Depth + 1 = Proc.base + 1
      BY <2>1, <2>3, PrePush DEF UsesXbuf, InProgram, CalmCallbacks
    <3> QED
      BY <2>3, <3>1, PrePush DEF OneUser
  <2> QED
    BY <2>1, <2>2, <2>3 DEF Pre
<1>2. CASE \E d \in 1 .. MaxFrames : Post(d) \/ MouseReturn(d)
  BY <1>2, ReturnPop DEF OneUser
<1>3. CASE MouseEvent
  <2>1. \A i \in 1 .. Depth + 1 : UsesXbuf(frames'[i]) => i \in 1 .. Depth /\ UsesXbuf(frames[i])
    BY <1>3, MouseEventStack, StackFacts DEF UsesXbuf, StackInv
  <2>2. Proc' = Proc
    BY <1>3 DEF MouseEvent, Proc
  <2> QED
    BY <1>3, <2>1, <2>2, MouseEventStack DEF OneUser
<1>4. CASE DosExec
  BY <1>4, NoUserAtProcess DEF DosExec, OneUser, Depth
<1>5. CASE RealModeExit \/ msdos_done
  BY <1>5, NoUserLeft DEF RealModeExit, msdos_done, OneUser
<1>6. CASE msdos_init
  BY <1>6, InitStack DEF msdos_init, OneUser, Depth
<1>7. CASE UNCHANGED vars
  BY <1>7 DEF vars, OneUser, Depth, Proc
<1> QED
  BY <1>1, <1>2, <1>3, <1>4, <1>5, <1>6, <1>7 DEF Next

\* The sanity checks of trans_buffer_seg, and of restore_ems_frame on the way back.
ReturnsMapped ==
  errors \cap {"EMS frame not mapped", "unmapping not mapped EMS frame"} = {}

HeldErrors == BufferHeld /\ ReturnsMapped

\* msdos_pre_extender gives the buffer to the call it starts, mapped already or not.
LEMMA HeldPre ==
  ASSUME CalmCallbacks, StackInv, OneUser, HeldErrors, NEW r \in Request, Pre(r),
         InProgram \/ (InCallback /\ r \in CallbackRequests)
  PROVE  HeldErrors'
<1>1. "EMS frame not mapped" \notin PreErrors(r) /\ "unmapping not mapped EMS frame" \notin PreErrors(r)
  BY BufferUseMatches DEF PreErrors
<1>2. ReturnsMapped'
  BY <1>1 DEF HeldErrors, ReturnsMapped, Pre, PreStay, PreRm, PreCommon
<1>3. CASE PreStay(r)
  <2>1. UNCHANGED <<frames, xbuf_owner, ems_frame_mapped>>
    BY <1>3, XbufOnlyForRm DEF PreStay, PreCommon, emsVars
  <2>2. BufferHeld'
    BY <2>1 DEF HeldErrors, BufferHeld, Depth
  <2> QED
    BY <1>2, <2>2 DEF HeldErrors
<1>4. CASE PreRm(r) /\ NeedXbuf(r)
  <2>1. InProgram
    BY <1>4 DEF CalmCallbacks
  <2>2. \A i \in 1 .. Depth + 1 : UsesXbuf(frames'[i]) => i = Depth + 1
    BY <1>4, <2>1, PrePush, NoUserAtProcess
  <2>3. ems_frame_mapped' /\ xbuf_owner' = Depth + 1
    BY <1>4, BufferUseMatches DEF PreRm, PreCommon, prepare_ems_frame, emsVars
  <2>4. BufferHeld'
    BY <1>4, <2>2, <2>3, PrePush DEF BufferHeld
  <2> QED
    BY <1>2, <2>4 DEF HeldErrors
<1>5. CASE PreRm(r) /\ ~NeedXbuf(r)
  <2>1. xbuf_owner' = xbuf_owner /\ ems_frame_mapped' = ems_frame_mapped
    BY <1>5, BufferUseMatches DEF PreRm, PreCommon, emsVars
  <2>2. \A i \in 1 .. Depth + 1 : UsesXbuf(frames'[i]) => i \in 1 .. Depth /\ UsesXbuf(frames[i])
    BY <1>5, PrePush DEF UsesXbuf
  <2>3. BufferHeld'
    BY <1>5, <2>1, <2>2, PrePush DEF HeldErrors, BufferHeld
  <2> QED
    BY <1>2, <2>3 DEF HeldErrors
<1> QED
  BY <1>3, <1>4, <1>5 DEF Pre

\* msdos_post_extender finds the frame mapped for a call that uses the buffer, and with
\* the return of a mouse routine leaves the buffer to the call that holds it.
LEMMA HeldReturn ==
  ASSUME StackInv, HeldErrors, NEW d, Post(d) \/ MouseReturn(d)
  PROVE  HeldErrors'
<1>1. UsesXbuf(Top) => ems_frame_mapped /\ xbuf_owner = Depth
  BY ReturnPop DEF HeldErrors, BufferHeld, Top
<1>2. ReturnsMapped'
  <2>1. CASE Post(d)
    <3>1. PostErrors(Top.req) = {}
      BY <1>1, <2>1, TopIsFrame, CopyBackNeedsXbuf DEF Post, PostErrors, UsesXbuf
    <3> QED
      BY <2>1, <3>1 DEF Post, HeldErrors, ReturnsMapped
  <2>2. CASE MouseReturn(d)
    BY <2>2 DEF MouseReturn, HeldErrors, ReturnsMapped
  <2> QED
    BY <2>1, <2>2
<1> SUFFICES ASSUME NEW i \in 1 .. Depth - 1, UsesXbuf(frames'[i])
             PROVE  ems_frame_mapped' /\ xbuf_owner' = i
  BY <1>2, ReturnPop DEF HeldErrors, BufferHeld
<1>3. i # Depth /\ ems_frame_mapped /\ xbuf_owner = i
  BY ReturnPop DEF HeldErrors, BufferHeld
<1>4. ~UsesXbuf(Top)
  BY <1>1, <1>3
<1>5. CASE Post(d)
  <2>1. UNCHANGED ems_frame_mapped
    BY <1>4, <1>5, TopIsFrame DEF Post, Unmap, UsesXbuf, emsVars
  <2>2. xbuf_owner' = xbuf_owner
    BY <1>3, <1>5 DEF Post
  <2> QED
    BY <1>3, <2>1, <2>2
<1>6. CASE MouseReturn(d)
  BY <1>3, <1>6 DEF MouseReturn, emsVars
<1> QED
  BY <1>5, <1>6

\* Every action leaves the buffer to the call that holds it.
LEMMA HeldStep ==
  ASSUME CalmCallbacks, StackInv, OneUser, HeldErrors, [Next]_vars
  PROVE  HeldErrors'
<1>1. CASE ProgramCall \/ CallbackCall
  BY <1>1, CallCases, HeldPre
<1>2. CASE \E d \in 1 .. MaxFrames : Post(d) \/ MouseReturn(d)
  BY <1>2, HeldReturn
<1>3. CASE MouseEvent
  <2>1. UNCHANGED <<ems_frame_mapped, xbuf_owner, errors>>
    BY <1>3 DEF MouseEvent, emsVars
  <2>2. \A i \in 1 .. Depth + 1 : UsesXbuf(frames'[i]) => i \in 1 .. Depth
    BY <1>3, MouseEventStack, StackFacts DEF UsesXbuf, StackInv
  <2> QED
    BY <1>3, <2>1, <2>2, MouseEventStack DEF HeldErrors, BufferHeld, ReturnsMapped
<1>4. CASE DosExec
  BY <1>4 DEF DosExec, emsVars, HeldErrors, BufferHeld, ReturnsMapped, Depth
<1>5. CASE RealModeExit \/ msdos_done
  BY <1>5, NoUserLeft
  DEF RealModeExit, msdos_done, LeaveProcess, HeldErrors, BufferHeld, ReturnsMapped
<1>6. CASE msdos_init
  BY <1>6 DEF msdos_init, emsVars, HeldErrors, BufferHeld, ReturnsMapped, Depth
<1>7. CASE UNCHANGED vars
  BY <1>7 DEF vars, HeldErrors, BufferHeld, ReturnsMapped, Depth
<1> QED
  BY <1>1, <1>2, <1>3, <1>4, <1>5, <1>6, <1>7 DEF Next

\* The invariant of the next theorems.
LEMMA HeldAlways ==
  ASSUME CalmCallbacks
  PROVE  Spec => [](OneUser /\ HeldErrors)
<1>1. Init => OneUser /\ HeldErrors
  BY DEF Init, OneUser, HeldErrors, BufferHeld, ReturnsMapped, Depth
<1>2. StackInv /\ OneUser /\ HeldErrors /\ [Next]_vars => OneUser' /\ HeldErrors'
  BY OneUserStep, HeldStep
<1> QED
  BY <1>1, <1>2, StackAlways, PTL DEF Spec

\* If mouse routines keep off the buffer, it belongs to the one call in flight that
\* uses it, from Pre to Post, even when an aborted call has left the frame mapped.
THEOREM BufferAlwaysHeld == ASSUME CalmCallbacks PROVE Spec => []BufferHeld
<1>1. OneUser /\ HeldErrors => BufferHeld
  BY DEF HeldErrors
<1> QED
  BY <1>1, HeldAlways, PTL

\* Then too nothing is copied through a frame that is not mapped, and none is unmapped
\* twice: two of the four sanity checks do not depend on what DOS aborts.
THEOREM ReturnsAlwaysMapped == ASSUME CalmCallbacks PROVE Spec => []ReturnsMapped
<1>1. OneUser /\ HeldErrors => ReturnsMapped
  BY DEF HeldErrors
<1> QED
  BY <1>1, HeldAlways, PTL

\* If DOS aborts no call that uses the buffer, no program is started under a mapped
\* frame, whatever mouse routines ask for: the check in AH=4Bh never fires.
THEOREM ExecAlwaysUnmapped == ASSUME NoXbufAbort PROVE Spec => []ExecUnmapped
<1>1. Init => ExecUnmapped
  BY DEF Init, ExecUnmapped
<1>2. ASSUME StackInv, FrameReleased, ExecUnmapped, [Next]_vars PROVE ExecUnmapped'
  <2>1. CASE ProgramCall \/ CallbackCall
    <3>1. PICK r \in Request : Pre(r) /\ (InProgram \/ ~IsExec(r))
      BY <2>1, CallCases
    <3>2. IsExec(r) => ~ems_frame_mapped /\ ~NeedXbuf(r)
      BY <1>2, <3>1, FrameIdle, ExecExitNoXbuf
    <3>3. "EMS frame should not be mapped here" \notin PreErrors(r)
      BY <3>2 DEF PreErrors
    <3> QED
      BY <1>2, <3>1, <3>3 DEF ExecUnmapped, Pre, PreStay, PreRm, PreCommon
  <2>2. CASE \E d \in 1 .. MaxFrames : Post(d) \/ MouseReturn(d)
    <3>1. errors' = errors \cup PostErrors(Top.req) \/ UNCHANGED errors
      BY <2>2 DEF Post, MouseReturn
    <3>2. "EMS frame should not be mapped here" \notin PostErrors(Top.req)
      BY DEF PostErrors
    <3> QED
      BY <1>2, <3>1, <3>2 DEF ExecUnmapped
  <2>3. CASE MouseEvent \/ DosExec \/ msdos_init \/ RealModeExit \/ msdos_done \/ UNCHANGED vars
    BY <1>2, <2>3
    DEF ExecUnmapped, MouseEvent, DosExec, msdos_init, RealModeExit, msdos_done, LeaveProcess, vars
  <2> QED
    BY <1>2, <2>1, <2>2, <2>3 DEF Next
<1>3. StackInv /\ FrameReleased /\ ExecUnmapped /\ [Next]_vars => ExecUnmapped'
  BY <1>2
<1> QED
  BY <1>1, <1>3, StackAlways, FrameAlwaysReleased, PTL DEF Spec

\* Both assumptions together keep Pre from mapping what is mapped.
LEMMA NestedNever == ASSUME Calm PROVE Spec => []NoNestedMapping
<1>1. Init => NoNestedMapping
  BY DEF Init, NoNestedMapping
<1>2. ASSUME StackInv, FrameReleased, NoNestedMapping, [Next]_vars PROVE NoNestedMapping'
  <2>1. CASE ProgramCall \/ CallbackCall
    <3>1. PICK r \in Request : Pre(r) /\ (InProgram \/ (InCallback /\ r \in CallbackRequests))
      BY <2>1, CallCases
    <3>2. NeedXbuf(r) => ~ems_frame_mapped
      BY <1>2, <3>1, FrameIdle DEF Calm, CalmCallbacks
    <3>3. "mapping already mapped EMS frame" \notin PreErrors(r)
      BY <3>2 DEF PreErrors
    <3> QED
      BY <1>2, <3>1, <3>3 DEF NoNestedMapping, Pre, PreStay, PreRm, PreCommon
  <2>2. CASE \E d \in 1 .. MaxFrames : Post(d) \/ MouseReturn(d)
    <3>1. errors' = errors \cup PostErrors(Top.req) \/ UNCHANGED errors
      BY <2>2 DEF Post, MouseReturn
    <3>2. "mapping already mapped EMS frame" \notin PostErrors(Top.req)
      BY DEF PostErrors
    <3> QED
      BY <1>2, <3>1, <3>2 DEF NoNestedMapping
  <2>3. CASE MouseEvent \/ DosExec \/ msdos_init \/ RealModeExit \/ msdos_done \/ UNCHANGED vars
    BY <1>2, <2>3
    DEF NoNestedMapping, MouseEvent, DosExec, msdos_init, RealModeExit, msdos_done, LeaveProcess, vars
  <2> QED
    BY <1>2, <2>1, <2>2, <2>3 DEF Next
<1>3. StackInv /\ FrameReleased /\ NoNestedMapping /\ [Next]_vars => NoNestedMapping'
  BY <1>2
<1>4. Spec => []FrameReleased
  BY FrameAlwaysReleased DEF Calm
<1> QED
  BY <1>1, <1>3, <1>4, StackAlways, PTL DEF Spec

\* and with it none of the four sanity checks can fire.
THEOREM NeverAnError == ASSUME Calm PROVE Spec => []NoErrors
<1>1. TypeOK /\ ReturnsMapped /\ ExecUnmapped /\ NoNestedMapping => NoErrors
  BY DEF TypeOK, Error, ReturnsMapped, ExecUnmapped, NoNestedMapping, NoErrors
<1>2. Spec => []ReturnsMapped /\ []ExecUnmapped
  BY ReturnsAlwaysMapped, ExecAlwaysUnmapped DEF Calm
<1> QED
  BY <1>1, <1>2, NestedNever, TypeCorrect, PTL

-----------------------------------------------------------------------------
(* The frame implements the abstract transfer buffer.                      *)

HeldInv == StackInv /\ AppMappingSafe /\ FrameReleased /\ BufferHeld

Holder == IF ems_frame_mapped THEN xbuf_owner ELSE 0

BufferStep == [Buffer!Next]_<<Holder, emm.shows>>

\* A step that moves neither the mapping nor, while mapped, the owner is a stutter.
LEMMA BufferStutter ==
  ASSUME UNCHANGED emsVars, ems_frame_mapped => UNCHANGED xbuf_owner
  PROVE  BufferStep
BY DEF BufferStep, Holder, emsVars

\* A mapped frame is owned by a call in flight of the running process.
LEMMA OwnerInFlight ==
  ASSUME HeldInv, ems_frame_mapped
  PROVE  /\ xbuf_owner \in 1 .. Depth
         /\ UsesXbuf(frames[xbuf_owner])
<1>1. PICK i \in Proc.base + 1 .. Depth : UsesXbuf(frames[i])
  BY DEF HeldInv, FrameReleased
<1>2. i \in 1 .. Depth
  BY StackFacts DEF HeldInv, StackInv
<1> QED
  BY <1>1, <1>2 DEF HeldInv, BufferHeld

\* msdos_pre_extender takes the buffer or leaves it alone.
LEMMA PreTakes ==
  ASSUME Calm, HeldInv, NEW r \in Request, Pre(r),
         \/ InProgram
         \/ InCallback /\ r \in CallbackRequests /\ ~IsExec(r)
  PROVE  BufferStep
<1>1. CASE ~NeedXbuf(r)
  <2>1. UNCHANGED emsVars /\ UNCHANGED xbuf_owner
    BY <1>1, BufferUseMatches DEF Pre, PreStay, PreRm, PreCommon
  <2> QED
    BY <2>1, BufferStutter
<1>2. CASE NeedXbuf(r)
  <2>1. ~ems_frame_mapped
    BY <1>2, FrameIdle DEF Calm, CalmCallbacks, HeldInv
  <2>2. PreRm(r)
    BY <1>2, XbufOnlyForRm DEF Pre, PreStay
  <2>3. ems_frame_mapped' /\ emm'.shows = "xbuf"
    BY <1>2, <2>1, <2>2 DEF PreRm, PreCommon, prepare_ems_frame
  <2>4. xbuf_owner' = Depth + 1 /\ Depth \in Nat
    BY <1>2, <2>2, BufferUseMatches, StackFacts DEF PreRm, HeldInv, StackInv
  <2>5. Holder = 0 /\ Holder' = Depth + 1
    BY <2>1, <2>3, <2>4 DEF Holder
  <2>6. Holder' \in Nat /\ Holder' # 0
    BY <2>4, <2>5
  <2>7. Buffer!Take
    BY <2>3, <2>5, <2>6 DEF Buffer!Take, Holder
  <2> QED
    BY <2>7 DEF BufferStep, Buffer!Next
<1> QED
  BY <1>1, <1>2

\* msdos_post_extender gives the buffer back or leaves it alone.
LEMMA PostGives ==
  ASSUME HeldInv, NEW d, Post(d)
  PROVE  BufferStep
<1>1. Depth \in 1 .. Depth /\ Depth > Proc.base /\ Top \in Frame
  BY StackFacts DEF HeldInv, StackInv, Post, InDos, Top
<1>2. Top.kind = "call"
  BY DEF Post, InDos
<1>3. CASE NeedXbuf(Top.req)
  <2>1. ems_frame_mapped /\ xbuf_owner = Depth
    BY <1>1, <1>2, <1>3 DEF HeldInv, BufferHeld, UsesXbuf, Top
  <2>2. emm.saved = "app"
    BY <2>1 DEF HeldInv, AppMappingSafe
  <2>3. ~ems_frame_mapped' /\ emm'.shows = "app"
    BY <1>3, <2>1, <2>2 DEF Post, Unmap, UnsetIo, restore_ems_frame
  <2>4. Holder # 0 /\ Holder' = 0
    BY <1>1, <2>1, <2>3 DEF Holder
  <2>5. Buffer!Give
    BY <2>3, <2>4 DEF Buffer!Give, Holder
  <2> QED
    BY <2>5 DEF BufferStep, Buffer!Next
<1>4. CASE ~NeedXbuf(Top.req)
  <2>1. ems_frame_mapped => xbuf_owner # Depth
    BY <1>4, OwnerInFlight DEF UsesXbuf, Top
  <2> QED
    BY <1>4, <2>1, BufferStutter DEF Post, Unmap, UnsetIo
<1> QED
  BY <1>3, <1>4

\* Every action takes the buffer, gives it back or leaves it alone.
LEMMA BufferSteps ==
  ASSUME Calm, HeldInv, [Next]_vars
  PROVE  BufferStep
<1>1. CASE ProgramCall \/ CallbackCall
  BY <1>1, CallCases, PreTakes DEF HeldInv
<1>2. CASE \E d \in 1 .. MaxFrames : Post(d)
  BY <1>2, PostGives
<1>3. CASE \E d \in 1 .. MaxFrames : MouseReturn(d)
  BY <1>3, BufferStutter DEF MouseReturn
<1>4. CASE MouseEvent \/ DosExec \/ msdos_init
  BY <1>4, BufferStutter DEF MouseEvent, DosExec, msdos_init
<1>5. CASE RealModeExit \/ msdos_done
  <2>1. ~ems_frame_mapped
    BY <1>5, FrameIdleAtProcess DEF Calm, HeldInv
  <2> QED
    BY <1>5, <2>1, BufferStutter DEF RealModeExit, msdos_done, LeaveProcess
<1>6. CASE UNCHANGED vars
  BY <1>6, BufferStutter DEF vars, emsVars
<1> QED
  BY <1>1, <1>2, <1>3, <1>4, <1>5, <1>6 DEF Next

\* Under the same assumptions the shared frame, with the nesting of programs and
\* mouse routines around it, implements a buffer that one call takes and gives back
\* at a time, and that shows the application's pages in between.
THEOREM BufferImplemented == ASSUME Calm PROVE Spec => BufferSpec
<1>1. Init => Buffer!Init
  BY DEF Init, Buffer!Init
<1>2. HeldInv /\ [Next]_vars => BufferStep
  BY BufferSteps
<1>3. Spec => []HeldInv
  <2>1. Spec => []FrameReleased /\ []BufferHeld
    BY FrameAlwaysReleased, BufferAlwaysHeld DEF Calm
  <2> QED
    BY <2>1, StackAlways, AppMappingAlwaysSafe, PTL DEF HeldInv
<1> QED
  BY <1>1, <1>2, <1>3, PTL DEF Spec, BufferSpec, Buffer!Spec, BufferStep, Holder

-----------------------------------------------------------------------------
(* io_buffer belongs to the one long read or write in flight.              *)

IoInv == StackInv /\ FrameReleased /\ BufferHeld /\ IoBufferHeld

\* While the frame is not mapped no long read or write is in flight, and
\* io_buffer is unset.
LEMMA IoIdle ==
  ASSUME IoInv, ~ems_frame_mapped
  PROVE  io_owner = 0 /\ \A i \in 1 .. Depth : ~IsLongIoCall(frames[i])
<1>1. \A i \in 1 .. Depth : ~IsLongIoCall(frames[i])
  <2> SUFFICES ASSUME NEW i \in 1 .. Depth, IsLongIoCall(frames[i]) PROVE FALSE
    OBVIOUS
  <2>1. frames[i] \in Frame
    BY StackFacts DEF IoInv, StackInv
  <2>2. UsesXbuf(frames[i])
    BY <2>1, LongIoNeedsXbuf DEF IsLongIoCall, UsesXbuf, Frame, Call, Callback
  <2> QED
    BY <2>2, NoCallUsesIdleFrame DEF IoInv
<1> QED
  BY <1>1 DEF IoInv, IoBufferHeld

\* msdos_pre_extender sets io_buffer for the read or write it starts, and finds it
\* unset.
LEMMA IoPre ==
  ASSUME Calm, IoInv, NEW r \in Request, Pre(r),
         \/ InProgram
         \/ InCallback /\ r \in CallbackRequests /\ ~IsExec(r)
  PROVE  IoBufferHeld'
<1>0. Depth \in Nat
  BY StackFacts DEF IoInv, StackInv
<1>1. CASE PreStay(r)
  BY <1>1 DEF PreStay, IoInv, IoBufferHeld, Depth
<1>2. CASE PreRm(r)
  <2> DEFINE f == [kind |-> "call", req |-> r, client |-> msdos_client_num]
  <2>1. frames' = Append(frames, f) /\ frames \in Seq(Frame) /\ f \in Frame
    BY <1>2 DEF PreRm, TypeOK, Frame, Call, StackInv, IoInv
  <2>2. /\ Depth' = Depth + 1 /\ frames'[Depth + 1] = f
        /\ \A i \in 1 .. Depth : frames'[i] = frames[i]
    BY <2>1, Push DEF Depth
  <2>3. IsLongIoCall(f) <=> IsLongIo(r)
    BY DEF IsLongIoCall
  <2>4. CASE IsLongIo(r)
    <3>1. ~ems_frame_mapped
      BY <2>4, LongIoNeedsXbuf, FrameIdle DEF Calm, CalmCallbacks, IoInv
    <3>2. io_owner' = Depth + 1
      BY <1>2, <2>4 DEF PreRm
    <3>3. \A i \in 1 .. Depth + 1 : IsLongIoCall(frames'[i]) => i = Depth + 1
      BY <1>0, <2>2, <3>1, IoIdle
    <3> QED
      BY <1>0, <2>2, <2>3, <2>4, <3>2, <3>3 DEF IoBufferHeld
  <2>5. CASE ~IsLongIo(r)
    <3>1. io_owner' = io_owner
      BY <1>2, <2>5 DEF PreRm
    <3>2. \A i \in 1 .. Depth + 1 : IsLongIoCall(frames'[i]) => io_owner = i
      <4> TAKE i \in 1 .. Depth + 1
      <4> HAVE IsLongIoCall(frames'[i])
      <4>1. i # Depth + 1
        BY <2>2, <2>3, <2>5
      <4>2. i \in 1 .. Depth /\ IsLongIoCall(frames[i])
        BY <1>0, <2>2, <4>1
      <4> QED
        BY <4>2 DEF IoInv, IoBufferHeld
    <3>3. io_owner # 0 => io_owner \in 1 .. Depth + 1 /\ IsLongIoCall(frames'[io_owner])
      BY <1>0, <2>2 DEF IoInv, IoBufferHeld
    <3> QED
      BY <2>2, <3>1, <3>2, <3>3 DEF IoBufferHeld
  <2> QED
    BY <2>4, <2>5
<1> QED
  BY <1>1, <1>2 DEF Pre

\* msdos_post_extender unsets io_buffer after the read or write, no other return
\* does.
LEMMA IoReturn ==
  ASSUME IoInv, NEW d, Post(d) \/ MouseReturn(d)
  PROVE  IoBufferHeld'
<1>0. Depth \in Nat /\ Depth > Proc.base /\ Proc.base \in Nat /\ TypeOK /\ StackInv
  BY StackFacts DEF IoInv, StackInv, Post, MouseReturn, InDos, InCallback
<1>1. SameProcs
  BY <1>0, SameProcsSteps, EnvSteps, StackFacts DEF Post, MouseReturn
<1>2. Depth' = Depth - 1 /\ \A i \in 1 .. Depth - 1 : frames'[i] = frames[i]
  BY <1>0, <1>1, PopStack DEF Post, MouseReturn
<1>3. Depth \in 1 .. Depth
  BY <1>0
<1>4. CASE IsLongIoCall(Top)
  <2>1. io_owner = Depth
    BY <1>3, <1>4 DEF IoInv, IoBufferHeld, Top
  <2>2. Post(d)
    BY <1>4 DEF MouseReturn, InCallback, IsLongIoCall
  <2>3. io_owner' = 0
    BY <1>4, <2>2 DEF Post, UnsetIo, IsLongIoCall
  <2>4. \A i \in 1 .. Depth - 1 : ~IsLongIoCall(frames'[i])
    <3> TAKE i \in 1 .. Depth - 1
    <3>1. i \in 1 .. Depth /\ i # io_owner /\ frames'[i] = frames[i]
      BY <1>0, <1>2, <2>1
    <3> QED
      BY <3>1 DEF IoInv, IoBufferHeld
  <2> QED
    BY <1>2, <2>3, <2>4 DEF IoBufferHeld
<1>5. CASE ~IsLongIoCall(Top)
  <2>1. io_owner' = io_owner
    BY <1>5 DEF Post, InDos, UnsetIo, MouseReturn, IsLongIoCall
  <2>2. io_owner # Depth
    BY <1>0, <1>5 DEF IoInv, IoBufferHeld, Top
  <2>3. \A i \in 1 .. Depth - 1 : i \in 1 .. Depth
    BY <1>0
  <2>4. io_owner # 0 => io_owner \in 1 .. Depth - 1
    BY <1>0, <2>2 DEF IoInv, IoBufferHeld
  <2> QED
    BY <1>2, <2>1, <2>3, <2>4 DEF IoInv, IoBufferHeld
<1> QED
  BY <1>4, <1>5

\* Every action leaves io_buffer to the read or write in flight.
LEMMA IoStep ==
  ASSUME Calm, IoInv, [Next]_vars
  PROVE  IoBufferHeld'
<1>1. CASE ProgramCall \/ CallbackCall
  BY <1>1, CallCases, IoPre
<1>2. CASE \E d \in 1 .. MaxFrames : Post(d) \/ MouseReturn(d)
  BY <1>2, IoReturn
<1>3. CASE MouseEvent
  <2>1. UNCHANGED io_owner /\ Depth \in Nat
    BY <1>3, StackFacts DEF MouseEvent, IoInv, StackInv
  <2>2. /\ Depth' = Depth + 1 /\ ~IsLongIoCall(frames'[Depth + 1])
        /\ \A i \in 1 .. Depth : frames'[i] = frames[i]
    BY <1>3, MouseEventStack DEF IsLongIoCall, IoInv
  <2>3. \A i \in 1 .. Depth + 1 : i = Depth + 1 \/ i \in 1 .. Depth
    BY <2>1
  <2>4. \A i \in 1 .. Depth : i \in 1 .. Depth + 1
    BY <2>1
  <2> QED
    BY <2>1, <2>2, <2>3, <2>4 DEF IoInv, IoBufferHeld
<1>4. CASE DosExec \/ msdos_init \/ UNCHANGED vars
  BY <1>4 DEF DosExec, msdos_init, vars, IoInv, IoBufferHeld, Depth
<1>5. CASE RealModeExit \/ msdos_done
  <2>1. LeaveProcess /\ ~ems_frame_mapped
    BY <1>5, FrameIdleAtProcess DEF RealModeExit, msdos_done, Calm, IoInv
  <2>2. Proc.base \in 0 .. Len(frames) /\ Depth = Len(frames) /\ frames \in Seq(Frame)
    BY StackFacts DEF IoInv, StackInv, Nesting, Depth, TypeOK, Frame
  <2>3. /\ Depth' = Proc.base /\ \A i \in 1 .. Proc.base : frames'[i] = frames[i]
    BY <2>1, <2>2, Cut DEF LeaveProcess, Depth
  <2>4. io_owner = 0 /\ \A i \in 1 .. Proc.base : ~IsLongIoCall(frames'[i])
    BY <2>1, <2>2, <2>3, IoIdle
  <2>5. io_owner' = 0
    BY <2>1, <2>2, <2>4 DEF LeaveProcess
  <2> QED
    BY <2>3, <2>4, <2>5 DEF IoBufferHeld
<1> QED
  BY <1>1, <1>2, <1>3, <1>4, <1>5 DEF Next

\* If neither DOS nor a mouse routine disturbs the buffer, io_buffer is the
\* caller's from Pre to Post of a read or write, and unset otherwise.
THEOREM IoBufferAlwaysHeld == ASSUME Calm PROVE Spec => []IoBufferHeld
<1>1. Init => IoBufferHeld
  BY DEF Init, IoBufferHeld, Depth
<1>2. IoInv /\ [Next]_vars => IoBufferHeld'
  BY IoStep
<1>3. Spec => []FrameReleased /\ []BufferHeld
  BY FrameAlwaysReleased, BufferAlwaysHeld DEF Calm
<1> QED
  BY <1>1, <1>2, <1>3, StackAlways, PTL DEF Spec, IoInv

\* While a read or write is in flight, io_buffer is its own.
IoOwn == \A i \in 1 .. Depth : IsLongIoCall(frames[i]) => io_owner = i

\* A long read or write uses the buffer.
LEMMA LongIoUses ==
  ASSUME StackInv
  PROVE  \A i \in 1 .. Depth : IsLongIoCall(frames[i]) => UsesXbuf(frames[i])
<1> SUFFICES ASSUME NEW i \in 1 .. Depth, IsLongIoCall(frames[i]) PROVE UsesXbuf(frames[i])
  OBVIOUS
<1>1. frames[i] \in Frame
  BY StackFacts DEF StackInv
<1> QED
  BY <1>1, LongIoNeedsXbuf DEF IsLongIoCall, UsesXbuf, Frame, Call, Callback

\* Every action leaves io_buffer to the read or write in flight, aborts included.
LEMMA IoOwnStep ==
  ASSUME CalmCallbacks, StackInv, OneUser, IoOwn, [Next]_vars
  PROVE  IoOwn'
<1>1. CASE ProgramCall \/ CallbackCall
  <2>1. PICK r \in Request : Pre(r) /\ (InProgram \/ (InCallback /\ r \in CallbackRequests))
    BY <1>1, CallCases
  <2>2. CASE PreStay(r)
    BY <2>2 DEF PreStay, IoOwn, Depth
  <2>3. CASE PreRm(r) /\ IsLongIo(r)
    <3>1. InProgram
      BY <2>1, <2>3, LongIoNeedsXbuf DEF CalmCallbacks
    <3>2. \A i \in 1 .. Depth + 1 : IsLongIoCall(frames'[i]) => i = Depth + 1
      BY <2>3, <3>1, PrePush, NoUserAtProcess, LongIoUses
    <3> QED
      BY <2>3, <3>2, PrePush DEF PreRm, IoOwn
  <2>4. CASE PreRm(r) /\ ~IsLongIo(r)
    <3>1. \A i \in 1 .. Depth + 1 : IsLongIoCall(frames'[i]) => i \in 1 .. Depth /\ IsLongIoCall(frames[i])
      BY <2>4, PrePush DEF IsLongIoCall
    <3> QED
      BY <2>4, <3>1, PrePush DEF PreRm, IoOwn
  <2> QED
    BY <2>1, <2>2, <2>3, <2>4 DEF Pre
<1>2. CASE \E d \in 1 .. MaxFrames : Post(d) \/ MouseReturn(d)
  <2>1. PICK d \in 1 .. MaxFrames : Post(d) \/ MouseReturn(d)
    BY <1>2
  <2>2. CASE IsLongIoCall(Top)
    <3>1. io_owner = Depth
      BY <2>1, <2>2, ReturnPop DEF IoOwn, Top
    <3>2. \A i \in 1 .. Depth - 1 : ~IsLongIoCall(frames'[i])
      BY <2>1, <3>1, ReturnPop DEF IoOwn
    <3> QED
      BY <2>1, <3>2, ReturnPop DEF IoOwn
  <2>3. CASE ~IsLongIoCall(Top)
    <3>1. io_owner' = io_owner
      BY <2>1, <2>3 DEF Post, InDos, UnsetIo, MouseReturn, IsLongIoCall
    <3> QED
      BY <2>1, <3>1, ReturnPop DEF IoOwn
  <2> QED
    BY <2>2, <2>3
<1>3. CASE MouseEvent
  <2>1. \A i \in 1 .. Depth + 1 : IsLongIoCall(frames'[i]) => i \in 1 .. Depth /\ IsLongIoCall(frames[i])
    BY <1>3, MouseEventStack, StackFacts DEF IsLongIoCall, StackInv
  <2> QED
    BY <1>3, <2>1, MouseEventStack DEF MouseEvent, IoOwn
<1>4. CASE DosExec \/ msdos_init \/ UNCHANGED vars
  BY <1>4 DEF DosExec, msdos_init, vars, IoOwn, Depth
<1>5. CASE RealModeExit \/ msdos_done
  <2>1. /\ Depth' = Proc.base /\ Proc.base <= Depth /\ Proc.base \in Nat /\ Depth \in Nat
        /\ \A i \in 1 .. Proc.base : frames'[i] = frames[i] /\ ~UsesXbuf(frames[i])
    BY <1>5, NoUserLeft, StackFacts DEF RealModeExit, msdos_done, StackInv, Nesting
  <2> QED
    BY <2>1, LongIoUses DEF IoOwn
<1> QED
  BY <1>1, <1>2, <1>3, <1>4, <1>5 DEF Next

\* Even if DOS aborts reads and writes, which leaves io_buffer set, the callback of the
\* next one finds the buffer of its own call.
THEOREM IoBufferAlwaysOwn == ASSUME CalmCallbacks PROVE Spec => []IoOwn
<1>1. Init => IoOwn
  BY DEF Init, IoOwn, Depth
<1>2. StackInv /\ OneUser /\ IoOwn /\ [Next]_vars => IoOwn'
  BY IoOwnStep
<1>3. Spec => []OneUser
  BY HeldAlways, PTL
<1> QED
  BY <1>1, <1>2, <1>3, StackAlways, PTL DEF Spec

-----------------------------------------------------------------------------
(* Calls and mouse routines return to the client they started with.        *)

ClientsBelow(k) == {j \in 1 .. k : procs[j].dpmi}

\* Activity i is one of process k, not of a child of it.
OwnedBy(i, k) ==
  procs[k].base < i /\ \A j \in k + 1 .. Len(procs) : i <= procs[j].base

\* Every activity remembers the clients there were when it started, and these are
\* the clients up to its own process; mouse routines belong to a client.
FrameClients ==
  /\ \A k \in 1 .. Len(procs) : \A i \in 1 .. Depth :
       OwnedBy(i, k) => frames[i].client = Cardinality(ClientsBelow(k))
  /\ \A i \in 1 .. Depth : frames[i].kind = "callback" => frames[i].client > 0

ClientInv == StackInv /\ FrameClients

\* The invariant about activities implies the property.
LEMMA ClientsHeld == ClientInv => ClientHeld
<1> SUFFICES ASSUME ClientInv PROVE ClientHeld
  OBVIOUS
<1>0. /\ Depth \in Nat /\ Proc.base \in Nat /\ Len(procs) \in 1 .. Len(procs)
      /\ Len(procs) \in Nat
  BY StackFacts DEF ClientInv, StackInv
<1>1. ClientsBelow(Len(procs)) = Clients
  BY DEF ClientsBelow, Clients
<1>2. ASSUME Depth > Proc.base PROVE Top.client = msdos_client_num
  <2>1. Depth \in 1 .. Depth /\ OwnedBy(Depth, Len(procs))
    BY <1>0, <1>2 DEF OwnedBy, Proc
  <2> QED
    BY <1>0, <1>1, <2>1 DEF ClientInv, FrameClients, StackInv, ClientCount, Top
<1>3. ASSUME InCallback PROVE msdos_client_num > 0
  <2>1. Depth \in 1 .. Depth /\ Depth > Proc.base
    BY <1>0, <1>3 DEF InCallback
  <2> QED
    BY <1>2, <1>3, <2>1 DEF InCallback, ClientInv, FrameClients, Top
<1>4. ASSUME Proc.dpmi PROVE msdos_client_num > 0
  <2>1. Len(procs) \in Clients
    BY <1>0, <1>4 DEF Clients, Proc
  <2>2. Cardinality(Clients) # 0
    BY <2>1, ClientsFinite, FS_EmptySet DEF ClientInv, StackInv
  <2> QED
    BY <2>2, ClientsFinite DEF ClientInv, StackInv, ClientCount
<1> QED
  BY <1>2, <1>3, <1>4 DEF ClientHeld

\* A step that keeps the processes and drops activities keeps the invariant.
LEMMA ClientsSame ==
  ASSUME ClientInv, SameProcs, Depth' \in Nat, Depth' <= Depth,
         \A i \in 1 .. Depth' : frames'[i] = frames[i]
  PROVE  FrameClients'
<1>0. Depth \in Nat
  BY StackFacts DEF ClientInv, StackInv
<1>1. \A i \in 1 .. Depth' : i \in 1 .. Depth
  BY <1>0
<1>2. Len(procs') = Len(procs) /\ Len(procs) \in Nat
  BY StackFacts DEF SameProcs, ClientInv, StackInv
<1>3. ASSUME NEW k \in 1 .. Len(procs)
      PROVE  ClientsBelow(k)' = ClientsBelow(k) /\ \A i : OwnedBy(i, k)' <=> OwnedBy(i, k)
  <2>1. \A j \in 1 .. k : j \in 1 .. Len(procs)
    BY <1>2
  <2>2. \A j \in k + 1 .. Len(procs) : j \in 1 .. Len(procs)
    BY <1>2
  <2>3. ClientsBelow(k)' = ClientsBelow(k)
    BY <2>1 DEF ClientsBelow, SameProcs
  <2> QED
    BY <1>2, <2>2, <2>3 DEF OwnedBy, SameProcs
<1> QED
  BY <1>1, <1>2, <1>3 DEF FrameClients, ClientInv

\* A step that keeps the processes and starts an activity with the clients of now
\* keeps the invariant.
LEMMA ClientsPush ==
  ASSUME ClientInv, SameProcs, Depth' = Depth + 1,
         \A i \in 1 .. Depth : frames'[i] = frames[i],
         frames'[Depth + 1].client = msdos_client_num,
         frames'[Depth + 1].kind = "callback" => msdos_client_num > 0
  PROVE  FrameClients'
<1>0. Depth \in Nat /\ Proc.base <= Depth /\ Proc.base \in Nat
  BY StackFacts DEF ClientInv, StackInv, Nesting
<1>1. Len(procs') = Len(procs) /\ Len(procs) \in Nat \ {0}
  BY StackFacts DEF SameProcs, ClientInv, StackInv
<1>2. \A i \in 1 .. Depth + 1 : i \in 1 .. Depth \/ i = Depth + 1
  BY <1>0
<1>3. ASSUME NEW k \in 1 .. Len(procs)
      PROVE  ClientsBelow(k)' = ClientsBelow(k) /\ \A i : OwnedBy(i, k)' <=> OwnedBy(i, k)
  <2>1. \A j \in 1 .. k : j \in 1 .. Len(procs)
    BY <1>1
  <2>2. \A j \in k + 1 .. Len(procs) : j \in 1 .. Len(procs)
    BY <1>1
  <2>3. ClientsBelow(k)' = ClientsBelow(k)
    BY <2>1 DEF ClientsBelow, SameProcs
  <2> QED
    BY <1>1, <2>2, <2>3 DEF OwnedBy, SameProcs
<1>4. ASSUME NEW k \in 1 .. Len(procs), OwnedBy(Depth + 1, k)
      PROVE  Cardinality(ClientsBelow(k)) = msdos_client_num
  <2>1. k = Len(procs)
    <3> SUFFICES ASSUME k # Len(procs) PROVE FALSE
      OBVIOUS
    <3>1. Len(procs) \in k + 1 .. Len(procs)
      BY <1>1
    <3> QED
      BY <1>0, <1>4, <3>1 DEF OwnedBy, Proc
  <2> QED
    BY <2>1 DEF ClientsBelow, Clients, ClientInv, StackInv, ClientCount
<1>5. \A k \in 1 .. Len(procs) : \A i \in 1 .. Depth + 1 :
        OwnedBy(i, k)' => frames'[i].client = Cardinality(ClientsBelow(k)')
  <2> TAKE k \in 1 .. Len(procs)
  <2> TAKE i \in 1 .. Depth + 1
  <2>1. CASE i \in 1 .. Depth
    BY <1>3, <2>1 DEF ClientInv, FrameClients
  <2>2. CASE i = Depth + 1
    BY <1>3, <1>4, <2>2
  <2> QED
    BY <1>2, <2>1, <2>2
<1>6. \A i \in 1 .. Depth + 1 : frames'[i].kind = "callback" => frames'[i].client > 0
  BY <1>2 DEF ClientInv, FrameClients
<1> QED
  BY <1>1, <1>5, <1>6 DEF FrameClients

\* A child starts with nothing in flight.
LEMMA ClientsExec ==
  ASSUME ClientInv, DosExec
  PROVE  FrameClients'
<1> DEFINE n == Len(procs)
           p == [dpmi |-> FALSE, env |-> Inherited(Proc.env), base |-> Depth]
<1>0. n \in Nat \ {0} /\ Depth \in Nat /\ TypeOK
  BY StackFacts DEF ClientInv, StackInv
<1>1. p \in Process /\ p.base = Depth
  BY <1>0, EnvSteps, StackFacts DEF Process
<1>2. procs' = Append(procs, p) /\ procs \in Seq(Process) /\ UNCHANGED frames /\ Depth' = Depth
  BY <1>0 DEF DosExec, TypeOK, Depth
<1> HIDE DEF p
<1>3. /\ Len(procs') = n + 1 /\ procs'[n + 1].base = Depth
      /\ \A k \in 1 .. n : procs'[k] = procs[k]
  BY <1>1, <1>2, Push
<1> HIDE DEF n
<1>4. ASSUME NEW k \in 1 .. n + 1, NEW i \in 1 .. Depth, OwnedBy(i, k)'
      PROVE  frames[i].client = Cardinality(ClientsBelow(k)')
  <2>1. k # n + 1
    BY <1>0, <1>3, <1>4 DEF OwnedBy
  <2>2. k \in 1 .. n /\ \A j \in 1 .. k : j \in 1 .. n
    BY <1>0, <2>1
  <2>3. \A j \in k + 1 .. n : j \in 1 .. n /\ j \in k + 1 .. n + 1
    BY <1>0, <2>2
  <2>4. OwnedBy(i, k)
    BY <1>3, <1>4, <2>2, <2>3 DEF OwnedBy, n
  <2>5. ClientsBelow(k)' = ClientsBelow(k)
    BY <1>3, <2>2 DEF ClientsBelow
  <2> QED
    BY <2>2, <2>4, <2>5 DEF ClientInv, FrameClients, n
<1> QED
  BY <1>2, <1>3, <1>4 DEF FrameClients, ClientInv

\* A program that enters protected mode has nothing in flight.
LEMMA ClientsInit ==
  ASSUME ClientInv, msdos_init
  PROVE  FrameClients'
<1> DEFINE n == Len(procs)
<1>0. PICK e \in Converted(Proc.env) :
        procs' = [procs EXCEPT ![Len(procs)].env = e, ![Len(procs)].dpmi = TRUE]
  BY DEF msdos_init
<1> DEFINE p == [Proc EXCEPT !.env = e, !.dpmi = TRUE]
<1>1. n \in Nat \ {0} /\ n \in 1 .. n /\ Depth \in Nat /\ TypeOK /\ procs \in Seq(Process)
  BY StackFacts DEF ClientInv, StackInv, TypeOK
<1>2. p \in Process /\ p.base = Proc.base
  BY <1>1, EnvSteps, StackFacts DEF Process
<1>3. procs' = [procs EXCEPT ![n] = p]
  BY <1>0, <1>1, StackFacts DEF Proc, TypeOK
<1> HIDE DEF p
<1>4. /\ Len(procs') = n
      /\ \A k \in 1 .. n : procs'[k] = IF k = n THEN p ELSE procs[k]
  BY <1>1, <1>2, <1>3, ExceptSeq
<1>5. UNCHANGED frames /\ Depth' = Depth /\ Depth = Proc.base
  BY DEF msdos_init, Depth, InProgram
<1>6. \A k \in 1 .. n : procs'[k].base = procs[k].base
  BY <1>2, <1>4 DEF Proc
<1>7. ASSUME NEW k \in 1 .. n, NEW i \in 1 .. Depth, OwnedBy(i, k)'
      PROVE  frames[i].client = Cardinality(ClientsBelow(k)')
  <2>1. k # n
    BY <1>1, <1>5, <1>6, <1>7 DEF OwnedBy, Proc
  <2>2. \A j \in 1 .. k : j \in 1 .. n /\ j # n
    BY <1>1, <2>1
  <2>3. \A j \in k + 1 .. n : j \in 1 .. n
    BY <1>1
  <2>4. OwnedBy(i, k)
    BY <1>4, <1>6, <1>7, <2>3 DEF OwnedBy
  <2>5. ClientsBelow(k)' = ClientsBelow(k)
    BY <1>4, <2>2 DEF ClientsBelow
  <2> QED
    BY <2>4, <2>5 DEF ClientInv, FrameClients
<1> QED
  BY <1>4, <1>5, <1>7 DEF FrameClients, ClientInv

\* When a process goes away, what its parent had in flight is the parent's again.
LEMMA ClientsLeave ==
  ASSUME ClientInv, LeaveProcess
  PROVE  FrameClients'
<1> DEFINE n == Len(procs)
           m == n - 1
           b == Proc.base
<1>1. /\ procs \in Seq(Process) /\ frames \in Seq(Frame)
      /\ n \in Nat /\ m \in 1 .. n /\ n = m + 1 /\ m \in Nat
      /\ b \in 0 .. Len(frames) /\ b = procs[n].base /\ b \in Nat
  BY StackFacts DEF LeaveProcess, TypeOK, Frame, Nesting, Depth, Proc, ClientInv, StackInv
<1>2. procs' = SubSeq(procs, 1, m) /\ frames' = SubSeq(frames, 1, b)
  BY DEF LeaveProcess
<1> HIDE DEF n, m, b
<1>3. Len(procs') = m /\ \A k \in 1 .. m : procs'[k] = procs[k]
  BY <1>1, <1>2, Cut DEF n
<1>4. Depth' = b /\ \A i \in 1 .. b : frames'[i] = frames[i] /\ i \in 1 .. Depth
  BY <1>1, <1>2, Cut DEF Depth
<1>5. ASSUME NEW k \in 1 .. m, NEW i \in 1 .. b, OwnedBy(i, k)'
      PROVE  frames[i].client = Cardinality(ClientsBelow(k)')
  <2>1. k \in 1 .. n /\ \A j \in 1 .. k : j \in 1 .. m
    BY <1>1
  <2>2. \A j \in k + 1 .. n : j = n \/ j \in k + 1 .. m
    BY <1>1
  <2>3. \A j \in k + 1 .. m : j \in 1 .. m
    BY <1>1
  <2>4. i <= procs[n].base
    BY <1>1
  <2>5. OwnedBy(i, k)
    BY <1>3, <1>5, <2>2, <2>3, <2>4 DEF OwnedBy, n
  <2>6. ClientsBelow(k)' = ClientsBelow(k)
    BY <1>3, <2>1 DEF ClientsBelow
  <2> QED
    BY <1>4, <2>1, <2>5, <2>6 DEF ClientInv, FrameClients, n
<1>6. \A i \in 1 .. b : frames'[i].kind = "callback" => frames'[i].client > 0
  BY <1>4 DEF ClientInv, FrameClients
<1> QED
  BY <1>3, <1>4, <1>5, <1>6 DEF FrameClients

\* Every action keeps the invariant about clients and activities.
LEMMA ClientsStep == ClientInv /\ [Next]_vars => FrameClients'
<1> SUFFICES ASSUME ClientInv, [Next]_vars PROVE FrameClients'
  OBVIOUS
<1>0. TypeOK /\ StackInv /\ Depth \in Nat
  BY StackFacts DEF ClientInv, StackInv
<1>1. CASE ProgramCall \/ CallbackCall
  <2>1. PICK r \in Request : Pre(r)
    BY <1>1, CallCases
  <2>2. SameProcs
    BY <1>0, <2>1, SameProcsSteps, EnvSteps, StackFacts DEF Pre, PreStay, PreRm
  <2>3. CASE PreStay(r)
    BY <1>0, <2>2, <2>3, ClientsSame DEF PreStay, Depth
  <2>4. CASE PreRm(r)
    <3> DEFINE f == [kind |-> "call", req |-> r, client |-> msdos_client_num]
    <3>1. /\ frames' = Append(frames, f) /\ frames \in Seq(Frame) /\ f \in Frame
          /\ f.client = msdos_client_num /\ f.kind = "call"
      BY <1>0, <2>4 DEF PreRm, TypeOK, Frame, Call
    <3>2. /\ Depth' = Depth + 1 /\ frames'[Depth + 1] = f
          /\ \A i \in 1 .. Depth : frames'[i] = frames[i]
      BY <3>1, Push DEF Depth
    <3> QED
      BY <2>2, <3>1, <3>2, ClientsPush
  <2> QED
    BY <2>1, <2>3, <2>4 DEF Pre
<1>2. CASE \E d \in 1 .. MaxFrames : Post(d) \/ MouseReturn(d)
  <2>1. PICK d \in 1 .. MaxFrames : Post(d) \/ MouseReturn(d)
    BY <1>2
  <2>2. SameProcs
    BY <1>0, <2>1, SameProcsSteps, EnvSteps, StackFacts DEF Post, MouseReturn
  <2>3. /\ Depth' = Depth - 1 /\ Depth - 1 \in Nat
        /\ \A i \in 1 .. Depth - 1 : frames'[i] = frames[i]
    BY <1>0, <2>1, <2>2, PopStack DEF Post, MouseReturn, InDos, InCallback
  <2> QED
    BY <1>0, <2>2, <2>3, ClientsSame
<1>3. CASE MouseEvent
  <2> DEFINE f == [kind |-> "callback", client |-> msdos_client_num]
  <2>1. SameProcs
    BY <1>0, <1>3, SameProcsSteps DEF MouseEvent
  <2>2. frames' = Append(frames, f) /\ frames \in Seq(Frame) /\ f \in Frame
    BY <1>0, <1>3 DEF MouseEvent, TypeOK, Frame, Callback
  <2>3. /\ Depth' = Depth + 1 /\ frames'[Depth + 1] = f
        /\ \A i \in 1 .. Depth : frames'[i] = frames[i]
    BY <2>2, Push DEF Depth
  <2>4. f.client = msdos_client_num
    OBVIOUS
  <2> HIDE DEF f
  <2>5. frames'[Depth + 1].client = msdos_client_num
    BY <2>3, <2>4
  <2>6. msdos_client_num > 0
    BY <1>3 DEF MouseEvent
  <2> QED
    BY <2>1, <2>3, <2>5, <2>6, ClientsPush
<1>4. CASE DosExec
  BY <1>4, ClientsExec
<1>5. CASE msdos_init
  BY <1>5, ClientsInit
<1>6. CASE RealModeExit \/ msdos_done
  BY <1>6, ClientsLeave DEF RealModeExit, msdos_done
<1>7. CASE UNCHANGED vars
  <2>1. SameProcs
    BY <1>0, <1>7, SameProcsSteps DEF vars
  <2> QED
    BY <1>0, <1>7, <2>1, ClientsSame DEF vars, Depth
<1> QED
  BY <1>1, <1>2, <1>3, <1>4, <1>5, <1>6, <1>7 DEF Next

\* Whatever programs run and end in between, Post and the return of a mouse
\* routine find the client stack as Pre and the callback left it.
THEOREM ClientAlwaysHeld == Spec => []ClientHeld
<1>1. Init => FrameClients
  BY DEF Init, FrameClients, Depth
<1>2. StackInv /\ FrameClients /\ [Next]_vars => FrameClients'
  BY ClientsStep DEF ClientInv
<1>3. StackInv /\ FrameClients => ClientHeld
  BY ClientsHeld DEF ClientInv
<1> QED
  BY <1>1, <1>2, <1>3, StackAlways, PTL DEF Spec

-----------------------------------------------------------------------------
(* The environment word is what its reader takes it for.                   *)

\* The running process is inside the EXEC it issued.
InExec == Depth > Proc.base /\ IsExecCall(frames[Proc.base + 1])

\* Processes start where the one below them stands: a client's child inside the
\* EXEC of the client, another's with nothing of it in flight.
Parents ==
  /\ \A j, k \in 1 .. Len(procs) : j <= k => procs[j].base <= procs[k].base
  /\ \A k \in 1 .. Len(procs) - 1 :
       IF procs[k].dpmi
         THEN /\ procs[k+1].base = procs[k].base + 1
              /\ IsExecCall(frames[procs[k].base + 1])
         ELSE procs[k+1].base = procs[k].base

\* A client's word is a selector while the client runs, a segment inside its EXEC;
\* a process with a child, or in real mode, has a segment.
EnvByMode ==
  /\ \A k \in 1 .. Len(procs) - 1 : procs[k].env \in {"seg", "none"}
  /\ InExec => Proc.dpmi
  /\ Proc.env \in {IF Proc.dpmi /\ ~InExec THEN "sel" ELSE "seg", "none"}

EnvInv == StackInv /\ Parents /\ EnvByMode

\* The invariant about environment words implies the property.
LEMMA EnvInvSound == EnvInv => EnvSound
<1> SUFFICES ASSUME EnvInv, NEW k \in 1 .. Len(procs) PROVE procs[k].env # "bad"
  BY DEF EnvSound
<1>1. k = Len(procs) \/ k \in 1 .. Len(procs) - 1
  BY StackFacts DEF EnvInv, StackInv
<1> QED
  BY <1>1 DEF EnvInv, EnvByMode, Proc

\* A step above the bases of all processes that changes no process but for the
\* running one's environment word keeps the parents.
LEMMA ParentsSame ==
  ASSUME EnvInv, SameProcs,
         \A i \in 1 .. Proc.base : frames'[i] = frames[i]
  PROVE  Parents'
<1>0. /\ Len(procs) \in Nat \ {0} /\ Len(procs') = Len(procs)
      /\ \A k \in 1 .. Len(procs) : procs[k].base \in Nat
      /\ \A k \in 1 .. Len(procs) :
           procs'[k].base = procs[k].base /\ procs'[k].dpmi = procs[k].dpmi
  BY StackFacts DEF EnvInv, StackInv, SameProcs
<1>1. \A j, k \in 1 .. Len(procs) : j <= k => procs'[j].base <= procs'[k].base
  BY <1>0 DEF EnvInv, Parents
<1>2. ASSUME NEW k \in 1 .. Len(procs) - 1
      PROVE  IF procs'[k].dpmi
               THEN /\ procs'[k+1].base = procs'[k].base + 1
                    /\ IsExecCall(frames'[procs'[k].base + 1])
               ELSE procs'[k+1].base = procs'[k].base
  <2>1. k \in 1 .. Len(procs) /\ k + 1 \in 1 .. Len(procs) /\ k + 1 <= Len(procs)
        /\ Len(procs) \in 1 .. Len(procs)
    BY <1>0
  <2>2. procs[k+1].base <= Proc.base
    BY <2>1 DEF EnvInv, Parents, Proc
  <2>3. CASE procs[k].dpmi
    <3>1. procs[k+1].base = procs[k].base + 1 /\ IsExecCall(frames[procs[k].base + 1])
      BY <2>3 DEF EnvInv, Parents
    <3>2. procs[k].base + 1 \in 1 .. Proc.base
      BY <1>0, <2>1, <2>2, <3>1, StackFacts DEF EnvInv, StackInv
    <3>3. frames'[procs[k].base + 1] = frames[procs[k].base + 1]
      BY <3>2
    <3> QED
      BY <1>0, <2>1, <2>3, <3>1, <3>3 DEF IsExecCall
  <2>4. CASE ~procs[k].dpmi
    BY <1>0, <2>1, <2>4 DEF EnvInv, Parents
  <2> QED
    BY <2>3, <2>4
<1> QED
  BY <1>0, <1>1, <1>2 DEF Parents

\* What such a step has to show of the running process.
LEMMA EnvSame ==
  ASSUME EnvInv, SameProcs,
         \A k \in 1 .. Len(procs) - 1 : procs'[k].env = procs[k].env,
         InExec' => Proc.dpmi,
         Proc'.env \in {IF Proc.dpmi /\ ~InExec' THEN "sel" ELSE "seg", "none"}
  PROVE  EnvByMode'
<1>1. Proc'.dpmi = Proc.dpmi /\ Len(procs') = Len(procs)
  BY SameProcsFacts DEF SameProcs, EnvInv, StackInv
<1> QED
  BY <1>1 DEF EnvByMode, EnvInv

\* Writing the environment word of the running process touches no other's.
LEMMA OthersEnv ==
  ASSUME TypeOK, NEW e \in Env, SetEnv(e)
  PROVE  /\ \A k \in 1 .. Len(procs) - 1 : procs'[k].env = procs[k].env
         /\ Proc'.env = e
<1> DEFINE p == [Proc EXCEPT !.env = e]
<1>1. procs' = [procs EXCEPT ![Len(procs)] = p]
  BY DEF SetEnv, Proc
<1>2. p \in Process /\ p.env = e
  BY StackFacts DEF Process
<1>3. Len(procs) \in Nat /\ Len(procs) \in 1 .. Len(procs) /\ procs \in Seq(Process)
  BY StackFacts DEF TypeOK
<1> HIDE DEF p
<1>4. /\ Len(procs') = Len(procs)
      /\ \A k \in 1 .. Len(procs) : procs'[k] = IF k = Len(procs) THEN p ELSE procs[k]
  BY <1>1, <1>2, <1>3, ExceptSeq
<1> QED
  BY <1>2, <1>3, <1>4 DEF Proc

\* msdos_pre_extender: EXEC makes a segment of the selector, nothing else starts
\* one.
LEMMA EnvPre ==
  ASSUME EnvInv, NEW r \in Request, Pre(r),
         (InProgram /\ Proc.dpmi) \/ (InCallback /\ ~IsExec(r))
  PROVE  Parents' /\ EnvByMode'
<1>0. TypeOK /\ Depth \in Nat /\ Proc.base \in Nat /\ Proc.base <= Depth /\ Proc.env \in Env
  BY StackFacts DEF EnvInv, StackInv, Nesting
<1>1. SameProcs
  BY <1>0, SameProcsSteps, EnvSteps, StackFacts DEF Pre, PreStay, PreRm
<1>2. Proc'.base = Proc.base /\ Proc'.dpmi = Proc.dpmi
  BY <1>0, <1>1, SameProcsFacts
<1>3. CASE PreStay(r)
  <2>1. UNCHANGED <<frames, procs>>
    BY <1>3 DEF PreStay
  <2>2. InExec' = InExec /\ Proc' = Proc
    BY <2>1 DEF InExec, Depth, Proc
  <2>3. Parents'
    BY <1>1, <2>1, ParentsSame
  <2> QED
    BY <1>1, <2>1, <2>2, <2>3, EnvSame DEF EnvInv, EnvByMode
<1>4. CASE PreRm(r)
  <2> DEFINE f == [kind |-> "call", req |-> r, client |-> msdos_client_num]
  <2>0. frames' = Append(frames, f) /\ frames \in Seq(Frame) /\ f \in Frame
    BY <1>0, <1>4 DEF PreRm, TypeOK, Frame, Call
  <2>1. IsExecCall(f) <=> IsExec(r)
    BY DEF IsExecCall
  <2>2. /\ Depth' = Depth + 1 /\ frames'[Depth + 1] = f
        /\ \A i \in 1 .. Depth : frames'[i] = frames[i]
    BY <2>0, Push DEF Depth
  <2> HIDE DEF f
  <2>3. \A i \in 1 .. Proc.base : i \in 1 .. Depth
    BY <1>0
  <2>4. Parents'
    BY <1>1, <2>2, <2>3, ParentsSame
  <2>5. CASE IsExec(r)
    <3>1. InProgram /\ Proc.dpmi
      BY <2>5
    <3>2. ~InExec
      BY <1>0, <3>1 DEF InExec, InProgram
    <3>3. InExec'
      <4>1. frames'[Proc.base + 1] = f
        BY <2>2, <3>1 DEF InProgram
      <4>2. Depth' > Proc'.base
        BY <1>0, <1>2, <2>2
      <4>3. IsExecCall(f)
        BY <2>1, <2>5
      <4> QED
        BY <1>2, <4>1, <4>2, <4>3 DEF InExec, IsExecCall
    <3>4. SetEnv(Reverted(Proc.env))
      BY <1>4, <2>5 DEF PreRm
    <3>5. Reverted(Proc.env) \in Env /\ Reverted(Proc.env) \in {"seg", "none"}
      BY <1>0, <3>1, <3>2, EnvSteps DEF EnvInv, EnvByMode, Reverted
    <3>6. /\ \A k \in 1 .. Len(procs) - 1 : procs'[k].env = procs[k].env
          /\ Proc'.env \in {"seg", "none"}
      BY <1>0, <3>4, <3>5, OthersEnv
    <3> QED
      BY <1>1, <2>4, <3>1, <3>3, <3>6, EnvSame
  <2>6. CASE ~IsExec(r)
    <3>1. UNCHANGED procs
      BY <1>4, <2>6 DEF PreRm
    <3>2. InExec' <=> InExec
      <4>1. CASE InProgram
        <5>1. frames'[Proc.base + 1] = f
          BY <2>2, <4>1 DEF InProgram
        <5>2. ~InExec
          BY <1>0, <4>1 DEF InProgram, InExec
        <5>3. ~IsExecCall(f)
          BY <2>1, <2>6
        <5> QED
          BY <1>2, <5>1, <5>2, <5>3 DEF InExec, IsExecCall
      <4>2. CASE ~InProgram
        <5>1. Proc.base + 1 \in 1 .. Depth /\ Depth' > Proc.base /\ Depth > Proc.base
          BY <1>0, <2>2, <4>2 DEF InProgram
        <5>2. frames'[Proc.base + 1] = frames[Proc.base + 1]
          BY <2>2, <5>1
        <5> QED
          BY <1>2, <5>1, <5>2 DEF InExec, IsExecCall
      <4> QED
        BY <4>1, <4>2
    <3>3. Proc' = Proc
      BY <3>1 DEF Proc
    <3> QED
      BY <1>1, <2>4, <3>1, <3>2, <3>3, EnvSame DEF EnvInv, EnvByMode
  <2> QED
    BY <2>5, <2>6
<1> QED
  BY <1>3, <1>4 DEF Pre

\* Activities other than EXEC come and go without changing what the process is in.
LEMMA EnvAround ==
  ASSUME EnvInv, UNCHANGED procs,
         \A i \in 1 .. Proc.base : frames'[i] = frames[i],
         InExec' <=> InExec
  PROVE  Parents' /\ EnvByMode'
<1>1. SameProcs
  BY SameProcsSteps DEF EnvInv, StackInv
<1>2. Proc' = Proc
  BY DEF Proc
<1> QED
  BY <1>1, <1>2, ParentsSame, EnvSame DEF EnvInv, EnvByMode

\* msdos_post_extender: the return from EXEC makes a selector of the segment.
LEMMA EnvPost ==
  ASSUME ~LdtFull, EnvInv, NEW d, Post(d)
  PROVE  Parents' /\ EnvByMode'
<1>0. /\ TypeOK /\ Depth \in Nat /\ Proc.base \in Nat /\ Proc.base < Depth
      /\ Proc.env \in Env /\ StackInv
  BY StackFacts DEF EnvInv, StackInv, Post, InDos
<1>1. SameProcs
  BY <1>0, SameProcsSteps, EnvSteps, StackFacts DEF Post
<1>2. Proc'.base = Proc.base /\ Proc'.dpmi = Proc.dpmi
  BY <1>0, <1>1, SameProcsFacts
<1>3. Depth' = Depth - 1 /\ \A i \in 1 .. Depth - 1 : frames'[i] = frames[i]
  BY <1>0, <1>1, PopStack DEF Post
<1>4. \A i \in 1 .. Proc.base : frames'[i] = frames[i]
  BY <1>0, <1>3
<1>5. Top.kind = "call" /\ Depth \in Proc.base + 1 .. Depth
  BY <1>0, TopIsFrame DEF Post
<1>6. CASE IsExec(Top.req)
  <2>1. Depth = Proc.base + 1 /\ InExec
    BY <1>0, <1>5, <1>6 DEF StackInv, Nesting, ExecsByProgram, IsExecCall, Top, InExec
  <2>2. ~InExec'
    BY <1>0, <1>2, <1>3, <2>1 DEF InExec
  <2>3. Proc.dpmi /\ Proc.env \in {"seg", "none"}
    BY <2>1 DEF EnvInv, EnvByMode
  <2>4. PICK e \in Converted(Proc.env) : SetEnv(e)
    BY <1>6 DEF Post
  <2>5. e \in Env /\ e \in {"sel", "none"}
    BY <2>3 DEF Converted
  <2>6. /\ \A k \in 1 .. Len(procs) - 1 : procs'[k].env = procs[k].env
        /\ Proc'.env \in {"sel", "none"}
    BY <1>0, <2>4, <2>5, OthersEnv
  <2>7. Parents'
    BY <1>1, <1>4, ParentsSame
  <2> QED
    BY <1>1, <2>2, <2>3, <2>6, <2>7, EnvSame
<1>7. CASE ~IsExec(Top.req)
  <2>1. UNCHANGED procs
    BY <1>7 DEF Post
  <2>2. InExec' <=> InExec
    <3>1. CASE Depth = Proc.base + 1
      <4>1. ~InExec
        BY <1>0, <1>7, <3>1 DEF InExec, IsExecCall, Top
      <4>2. ~InExec'
        BY <1>0, <1>2, <1>3, <3>1 DEF InExec
      <4> QED
        BY <4>1, <4>2
    <3>2. CASE Depth # Proc.base + 1
      <4>1. Proc.base + 1 \in 1 .. Depth - 1 /\ Depth' > Proc.base
        BY <1>0, <1>3, <3>2
      <4>2. frames'[Proc.base + 1] = frames[Proc.base + 1]
        BY <1>3, <4>1
      <4> QED
        BY <1>0, <1>2, <4>1, <4>2 DEF InExec, IsExecCall
    <3> QED
      BY <3>1, <3>2
  <2> QED
    BY <1>4, <2>1, <2>2, EnvAround
<1> QED
  BY <1>6, <1>7

\* Mouse routines come and go on top of whatever is in flight.
LEMMA EnvMouse ==
  ASSUME EnvInv, MouseEvent \/ \E d : MouseReturn(d)
  PROVE  Parents' /\ EnvByMode'
<1>0. /\ TypeOK /\ Depth \in Nat /\ Proc.base \in Nat /\ Proc.base <= Depth /\ StackInv
      /\ UNCHANGED procs
  BY StackFacts DEF EnvInv, StackInv, Nesting, MouseEvent, MouseReturn
<1>1. Proc' = Proc /\ SameProcs
  BY <1>0, SameProcsSteps DEF Proc
<1>2. CASE MouseEvent
  <2>1. /\ Depth' = Depth + 1 /\ \A i \in 1 .. Depth : frames'[i] = frames[i]
        /\ frames'[Depth + 1].kind = "callback"
    BY <1>0, <1>2, MouseEventStack
  <2>2. \A i \in 1 .. Proc.base : frames'[i] = frames[i]
    BY <1>0, <2>1
  <2>3. InExec' <=> InExec
    <3>1. CASE Depth = Proc.base
      <4>1. ~InExec
        BY <1>0, <3>1 DEF InExec
      <4>2. ~InExec'
        BY <1>1, <2>1, <3>1 DEF InExec, IsExecCall
      <4> QED
        BY <4>1, <4>2
    <3>2. CASE Depth # Proc.base
      <4>1. Proc.base + 1 \in 1 .. Depth /\ Depth' > Proc.base /\ Depth > Proc.base
        BY <1>0, <2>1, <3>2
      <4>2. frames'[Proc.base + 1] = frames[Proc.base + 1]
        BY <2>1, <4>1
      <4> QED
        BY <1>1, <4>1, <4>2 DEF InExec, IsExecCall
    <3> QED
      BY <3>1, <3>2
  <2> QED
    BY <1>0, <2>2, <2>3, EnvAround
<1>3. CASE \E d : MouseReturn(d)
  <2>1. InCallback /\ frames' = SubSeq(frames, 1, Depth - 1)
    BY <1>3 DEF MouseReturn
  <2>2. Depth > Proc.base /\ Top.kind = "callback"
    BY <2>1 DEF InCallback
  <2>3. Depth' = Depth - 1 /\ \A i \in 1 .. Depth - 1 : frames'[i] = frames[i]
    BY <1>0, <1>1, <2>1, <2>2, PopStack
  <2>4. \A i \in 1 .. Proc.base : frames'[i] = frames[i]
    BY <1>0, <2>2, <2>3
  <2>5. InExec' <=> InExec
    <3>1. CASE Depth = Proc.base + 1
      <4>1. ~InExec
        BY <1>0, <2>2, <3>1 DEF InExec, IsExecCall, Top
      <4>2. ~InExec'
        BY <1>0, <1>1, <2>3, <3>1 DEF InExec
      <4> QED
        BY <4>1, <4>2
    <3>2. CASE Depth # Proc.base + 1
      <4>1. Proc.base + 1 \in 1 .. Depth - 1 /\ Depth' > Proc.base
        BY <1>0, <2>2, <2>3, <3>2
      <4>2. frames'[Proc.base + 1] = frames[Proc.base + 1]
        BY <2>3, <4>1
      <4> QED
        BY <1>1, <2>2, <4>1, <4>2 DEF InExec, IsExecCall
    <3> QED
      BY <3>1, <3>2
  <2> QED
    BY <1>0, <2>4, <2>5, EnvAround
<1> QED
  BY <1>2, <1>3

\* DOS gives the child a segment, and the parent has one too.
LEMMA EnvExec ==
  ASSUME EnvInv, DosExec
  PROVE  Parents' /\ EnvByMode'
<1> DEFINE n == Len(procs)
           p == [dpmi |-> FALSE, env |-> Inherited(Proc.env), base |-> Depth]
<1>0. /\ n \in Nat \ {0} /\ Depth \in Nat /\ TypeOK /\ StackInv
      /\ Proc.base \in Nat /\ Proc.base <= Depth
      /\ \A k \in 1 .. n : procs[k].base \in Nat
  BY StackFacts DEF EnvInv, StackInv, Nesting
<1>1. /\ Proc.env \in {"seg", "none"}
      /\ IF Proc.dpmi THEN Depth = Proc.base + 1 /\ InExec ELSE Depth = Proc.base
  <2>1. CASE InProgram /\ ~Proc.dpmi
    BY <1>0, <2>1 DEF InProgram, EnvInv, EnvByMode
  <2>2. CASE InDos /\ IsExec(Top.req)
    <3>1. Depth = Proc.base + 1 /\ IsExecCall(frames[Depth])
      BY <1>0, <2>2, TopIsFrame DEF StackInv, Nesting, ExecsByProgram, IsExecCall, Top
    <3>2. InExec
      BY <1>0, <3>1 DEF InExec
    <3> QED
      BY <3>1, <3>2 DEF EnvInv, EnvByMode
  <2> QED
    BY <2>1, <2>2 DEF DosExec
<1>2. p \in Process /\ p.base = Depth /\ ~p.dpmi /\ p.env \in {"seg", "none"}
  BY <1>0, <1>1, EnvSteps, StackFacts DEF Process, Inherited
<1>3. procs' = Append(procs, p) /\ procs \in Seq(Process) /\ UNCHANGED frames
  BY <1>0 DEF DosExec, TypeOK
<1> HIDE DEF p
<1>4. /\ Len(procs') = n + 1 /\ procs'[n + 1] = p
      /\ \A k \in 1 .. n : procs'[k] = procs[k]
  BY <1>2, <1>3, Push
<1>5. Proc' = p /\ Depth' = Depth /\ ~InExec'
  BY <1>0, <1>2, <1>3, <1>4 DEF Proc, Depth, InExec
<1> HIDE DEF n
<1>6. \A j, k \in 1 .. n + 1 : j <= k => procs'[j].base <= procs'[k].base
  <2> TAKE j, k \in 1 .. n + 1
  <2> HAVE j <= k
  <2>1. CASE k = n + 1 /\ j = n + 1
    BY <1>0, <1>2, <1>4, <2>1
  <2>2. CASE k = n + 1 /\ j # n + 1
    <3>1. j \in 1 .. n /\ n \in 1 .. n /\ j <= n
      BY <1>0, <2>2
    <3>2. procs[j].base <= Proc.base
      BY <3>1 DEF EnvInv, Parents, Proc, n
    <3>3. procs'[j] = procs[j] /\ procs'[k].base = Depth
      BY <1>2, <1>4, <2>2, <3>1
    <3> QED
      BY <1>0, <3>1, <3>2, <3>3
  <2>3. CASE k # n + 1
    <3>1. j \in 1 .. n /\ k \in 1 .. n
      BY <1>0, <2>3
    <3> QED
      BY <1>4, <3>1 DEF EnvInv, Parents, n
  <2> QED
    BY <2>1, <2>2, <2>3
<1>7. ASSUME NEW k \in 1 .. n
      PROVE  /\ procs'[k].env \in {"seg", "none"}
             /\ IF procs'[k].dpmi
                  THEN /\ procs'[k+1].base = procs'[k].base + 1
                       /\ IsExecCall(frames[procs'[k].base + 1])
                  ELSE procs'[k+1].base = procs'[k].base
  <2>1. CASE k = n
    <3>1. procs'[k] = Proc /\ procs'[k+1].base = Depth
      BY <1>2, <1>4, <2>1 DEF Proc, n
    <3> QED
      BY <1>1, <3>1 DEF InExec
  <2>2. CASE k # n
    <3>1. k \in 1 .. n - 1 /\ k + 1 \in 1 .. n
      BY <1>0, <2>2
    <3>2. procs'[k] = procs[k] /\ procs'[k+1] = procs[k+1]
      BY <1>4, <3>1
    <3> QED
      BY <3>1, <3>2 DEF EnvInv, Parents, EnvByMode, n
  <2> QED
    BY <2>1, <2>2
<1>8. Len(procs') - 1 = n
  BY <1>0, <1>4
<1>9. Parents'
  <2>1. \A j, k \in 1 .. Len(procs') : j <= k => procs'[j].base <= procs'[k].base
    BY <1>4, <1>6
  <2>2. \A k \in 1 .. Len(procs') - 1 :
          IF procs'[k].dpmi
            THEN /\ procs'[k+1].base = procs'[k].base + 1
                 /\ IsExecCall(frames'[procs'[k].base + 1])
            ELSE procs'[k+1].base = procs'[k].base
    BY <1>3, <1>7, <1>8
  <2> QED
    BY <2>1, <2>2 DEF Parents, IsExecCall
<1>10. EnvByMode'
  <2>1. \A k \in 1 .. Len(procs') - 1 : procs'[k].env \in {"seg", "none"}
    BY <1>7, <1>8
  <2> QED
    BY <1>2, <1>5, <2>1 DEF EnvByMode
<1> QED
  BY <1>9, <1>10

\* A program that enters protected mode gets a selector of its segment.
LEMMA EnvInit ==
  ASSUME ~LdtFull, EnvInv, msdos_init
  PROVE  Parents' /\ EnvByMode'
<1> DEFINE n == Len(procs)
<1>0. PICK e \in Converted(Proc.env) :
        procs' = [procs EXCEPT ![Len(procs)].env = e, ![Len(procs)].dpmi = TRUE]
  BY DEF msdos_init
<1> DEFINE p == [Proc EXCEPT !.env = e, !.dpmi = TRUE]
<1>1. /\ n \in Nat \ {0} /\ n \in 1 .. n /\ Depth \in Nat /\ TypeOK /\ procs \in Seq(Process)
      /\ \A k \in 1 .. n : procs[k] \in Process
      /\ Proc.base \in Nat
  BY StackFacts DEF EnvInv, StackInv, TypeOK
<1>2. Proc.env \in {"seg", "none"} /\ e \in Env /\ e \in {"sel", "none"}
  <2>1. ~Proc.dpmi
    BY DEF msdos_init
  <2>2. Proc.env \in {"seg", "none"}
    BY <2>1 DEF EnvInv, EnvByMode
  <2> QED
    BY <2>2 DEF Converted
<1>3. p \in Process /\ p.base = Proc.base /\ p.env = e /\ p.dpmi
  BY <1>1, <1>2, StackFacts DEF Process
<1>4. procs' = [procs EXCEPT ![n] = p]
  BY <1>0, <1>1, StackFacts DEF Proc, TypeOK
<1> HIDE DEF p
<1>5. /\ Len(procs') = n
      /\ \A k \in 1 .. n : procs'[k] = IF k = n THEN p ELSE procs[k]
  BY <1>1, <1>3, <1>4, ExceptSeq
<1>6. UNCHANGED frames /\ Depth' = Depth /\ Depth = Proc.base
  BY DEF msdos_init, Depth, InProgram
<1>7. \A k \in 1 .. n : procs'[k].base = procs[k].base
  BY <1>3, <1>5 DEF Proc
<1>8. \A k \in 1 .. n - 1 : procs'[k] = procs[k]
  BY <1>1, <1>5
<1>9. Proc' = p /\ ~InExec'
  BY <1>1, <1>3, <1>5, <1>6 DEF Proc, InExec
<1>10. Parents'
  <2>1. \A j, k \in 1 .. n : j <= k => procs'[j].base <= procs'[k].base
    BY <1>7 DEF EnvInv, Parents
  <2>2. ASSUME NEW k \in 1 .. n - 1
        PROVE  IF procs'[k].dpmi
                 THEN /\ procs'[k+1].base = procs'[k].base + 1
                      /\ IsExecCall(frames[procs'[k].base + 1])
                 ELSE procs'[k+1].base = procs'[k].base
    <3>1. k \in 1 .. n /\ k + 1 \in 1 .. n
      BY <1>1
    <3>2. procs'[k] = procs[k] /\ procs'[k+1].base = procs[k+1].base
      BY <1>7, <1>8, <3>1
    <3> QED
      BY <3>2 DEF EnvInv, Parents
  <2> QED
    BY <1>5, <1>6, <2>1, <2>2 DEF Parents, IsExecCall
<1>11. EnvByMode'
  BY <1>2, <1>3, <1>5, <1>8, <1>9 DEF EnvInv, EnvByMode
<1> QED
  BY <1>10, <1>11

\* When a child goes away its parent is inside its EXEC again, or in real mode.
LEMMA EnvLeave ==
  ASSUME EnvInv, LeaveProcess
  PROVE  Parents' /\ EnvByMode'
<1> DEFINE n == Len(procs)
           m == n - 1
           b == Proc.base
<1>1. /\ procs \in Seq(Process) /\ frames \in Seq(Frame)
      /\ n \in Nat /\ m \in 1 .. n /\ n = m + 1 /\ m \in Nat
      /\ b \in 0 .. Len(frames) /\ b = procs[n].base /\ b \in Nat
      /\ \A k \in 1 .. n : procs[k].base \in Nat
  BY StackFacts DEF LeaveProcess, TypeOK, Frame, Nesting, Depth, Proc, EnvInv, StackInv
<1>2. procs' = SubSeq(procs, 1, m) /\ frames' = SubSeq(frames, 1, b)
  BY DEF LeaveProcess
<1> HIDE DEF n, m, b
<1>3. Len(procs') = m /\ \A k \in 1 .. m : procs'[k] = procs[k]
  BY <1>1, <1>2, Cut DEF n
<1>4. Depth' = b /\ \A i \in 1 .. b : frames'[i] = frames[i]
  BY <1>1, <1>2, Cut DEF Depth
<1>5. Proc' = procs[m] /\ m \in 1 .. n - 1
  BY <1>1, <1>3 DEF Proc
<1>6. ASSUME NEW k \in 1 .. n - 1
      PROVE  /\ procs[k].env \in {"seg", "none"}
             /\ IF procs[k].dpmi
                  THEN /\ procs[k+1].base = procs[k].base + 1
                       /\ IsExecCall(frames'[procs[k].base + 1])
                  ELSE procs[k+1].base = procs[k].base
  <2>1. k \in 1 .. n /\ k + 1 \in 1 .. n /\ n \in 1 .. n /\ k + 1 <= n
    BY <1>1
  <2>2. procs[k+1].base <= b
    BY <1>1, <2>1 DEF EnvInv, Parents, n
  <2>3. CASE procs[k].dpmi
    <3>1. procs[k+1].base = procs[k].base + 1 /\ IsExecCall(frames[procs[k].base + 1])
      BY <2>3 DEF EnvInv, Parents, n
    <3>2. procs[k].base + 1 \in 1 .. b
      BY <1>1, <2>1, <2>2, <3>1
    <3>3. IsExecCall(frames'[procs[k].base + 1])
      BY <1>4, <3>1, <3>2
    <3> QED
      BY <2>3, <3>1, <3>3 DEF EnvInv, EnvByMode, n
  <2>4. CASE ~procs[k].dpmi
    BY <2>4 DEF EnvInv, Parents, EnvByMode, n
  <2> QED
    BY <2>3, <2>4
<1>7. Parents'
  <2>1. \A j, k \in 1 .. m : j <= k => procs'[j].base <= procs'[k].base
    <3> TAKE j, k \in 1 .. m
    <3>1. j \in 1 .. n /\ k \in 1 .. n
      BY <1>1
    <3> QED
      BY <1>3, <3>1 DEF EnvInv, Parents, n
  <2>2. ASSUME NEW k \in 1 .. m - 1
        PROVE  IF procs'[k].dpmi
                 THEN /\ procs'[k+1].base = procs'[k].base + 1
                      /\ IsExecCall(frames'[procs'[k].base + 1])
                 ELSE procs'[k+1].base = procs'[k].base
    <3>1. k \in 1 .. n - 1 /\ k \in 1 .. m /\ k + 1 \in 1 .. m
      BY <1>1
    <3>2. procs'[k] = procs[k] /\ procs'[k+1] = procs[k+1]
      BY <1>3, <3>1
    <3> QED
      BY <1>6, <3>1, <3>2
  <2> QED
    BY <1>3, <2>1, <2>2 DEF Parents, IsExecCall
<1>8. InExec' <=> Proc'.dpmi
  <2>1. procs[m+1].base = b
    BY <1>1
  <2>2. CASE procs[m].dpmi
    <3>1. b = procs[m].base + 1 /\ IsExecCall(frames'[procs[m].base + 1])
      BY <1>5, <1>6, <2>1, <2>2
    <3> QED
      BY <1>1, <1>4, <1>5, <2>2, <3>1 DEF InExec, IsExecCall
  <2>3. CASE ~procs[m].dpmi
    <3>1. b = procs[m].base
      BY <1>5, <1>6, <2>1, <2>3
    <3> QED
      BY <1>1, <1>4, <1>5, <2>3, <3>1 DEF InExec
  <2> QED
    BY <2>2, <2>3
<1>9. \A k \in 1 .. m - 1 : procs'[k].env \in {"seg", "none"}
  <2> TAKE k \in 1 .. m - 1
  <2>1. k \in 1 .. m /\ k \in 1 .. n - 1
    BY <1>1
  <2> QED
    BY <1>3, <1>6, <2>1
<1>10. EnvByMode'
  BY <1>3, <1>5, <1>6, <1>8, <1>9 DEF EnvByMode
<1> QED
  BY <1>7, <1>10

\* Every action keeps the invariant about environment words.
LEMMA EnvStep ==
  ASSUME ~LdtFull, EnvInv, [Next]_vars
  PROVE  Parents' /\ EnvByMode'
<1>1. CASE ProgramCall \/ CallbackCall
  <2>1. PICK r \in Request :
          /\ Pre(r)
          /\ \/ InProgram /\ Proc.dpmi /\ r \in Requests
             \/ InCallback /\ r \in CallbackRequests /\ ~IsExec(r)
    BY <1>1, CallCases
  <2>2. (InProgram /\ Proc.dpmi) \/ (InCallback /\ ~IsExec(r))
    BY <2>1
  <2>3. Pre(r)
    BY <2>1
  <2> QED
    BY <2>2, <2>3, EnvPre
<1>2. CASE \E d \in 1 .. MaxFrames : Post(d)
  BY <1>2, EnvPost
<1>3. CASE MouseEvent \/ \E d \in 1 .. MaxFrames : MouseReturn(d)
  BY <1>3, EnvMouse
<1>4. CASE DosExec
  BY <1>4, EnvExec
<1>5. CASE msdos_init
  BY <1>5, EnvInit
<1>6. CASE RealModeExit \/ msdos_done
  BY <1>6, EnvLeave DEF RealModeExit, msdos_done
<1>7. CASE UNCHANGED vars
  <2>1. InExec' = InExec
    BY <1>7 DEF vars, InExec, Depth, Proc
  <2> QED
    BY <1>7, <2>1, EnvAround DEF vars
<1> QED
  BY <1>1, <1>2, <1>3, <1>4, <1>5, <1>6, <1>7 DEF Next

\* While descriptors last, no environment word is ever a segment read as a
\* selector or a selector read as a segment, however clients and DOS programs
\* start one another.
THEOREM EnvAlwaysSound == ASSUME ~LdtFull PROVE Spec => []EnvSound
<1>1. Init => Parents /\ EnvByMode
  <2> SUFFICES ASSUME Init PROVE Parents /\ EnvByMode
    OBVIOUS
  <2>1. Len(procs) = 1 /\ procs[1] = [dpmi |-> FALSE, env |-> "seg", base |-> 0]
    BY DEF Init
  <2>2. Depth = 0
    BY DEF Init, Depth
  <2>3. ~InExec /\ Proc.env = "seg" /\ ~Proc.dpmi
    BY <2>1, <2>2 DEF InExec, Proc
  <2> QED
    BY <2>1, <2>3 DEF Parents, EnvByMode
<1>2. StackInv /\ Parents /\ EnvByMode /\ [Next]_vars => Parents' /\ EnvByMode'
  BY EnvStep DEF EnvInv
<1>3. StackInv /\ Parents /\ EnvByMode => EnvSound
  BY EnvInvSound DEF EnvInv
<1> QED
  BY <1>1, <1>2, <1>3, StackAlways, PTL DEF Spec

-----------------------------------------------------------------------------
(* Registers.                                                              *)

\* Register by register: what Pre loads and Post leaves in the merge.
LEMMA LeftRegisters ==
  ASSUME NEW r \in Request, NEW g \in Regs, Loads(r, g), ~Keeps(r, g)
  PROVE  g \in Clobbered(r)
<1>1. CASE g = "eax"
  BY <1>1 DEF Loads, LoadsBuffer, LoadsOther, LoadsLow, LoadsPsp, LoadsCallback, LoadsExit, Keeps
<1>2. CASE g = "ebx"
  BY <1>2 DEF Loads, LoadsBuffer, LoadsOther, LoadsLow, LoadsPsp, LoadsCallback, LoadsExit, Keeps,
     Clobbered, IsExec, Dos
<1>3. CASE g = "edx"
  <2>1. CASE LoadsBuffer(r, "edx")
    BY <1>3, <2>1 DEF LoadsBuffer, Keeps, Clobbered, Dos, DosSub, NlsBlock, NlsString
  <2>2. CASE LoadsOther(r, "edx")
    BY <1>3, <2>2 DEF LoadsOther, LoadsLow, LoadsPsp, LoadsCallback, LoadsExit, Keeps, Clobbered,
       IsExec, Dos
  <2> QED
    BY <1>3, <2>1, <2>2 DEF Loads
<1>4. CASE g = "esi"
  BY <1>4 DEF Loads, LoadsBuffer, LoadsOther, LoadsLow, LoadsPsp, LoadsCallback, LoadsExit, Keeps
<1>5. CASE g = "edi"
  BY <1>5 DEF Loads, LoadsBuffer, LoadsOther, LoadsLow, LoadsPsp, LoadsCallback, LoadsExit, Keeps,
     KeepsEdi, Dos, DosSub
<1>6. CASE g = "ebp"
  BY <1>6 DEF Loads, LoadsBuffer, LoadsOther, LoadsLow, LoadsPsp, LoadsCallback, LoadsExit, Keeps
<1>7. CASE g \notin {"eax", "ebx", "edx", "esi", "edi", "ebp"}
  BY <1>7 DEF Loads, LoadsBuffer, LoadsOther, LoadsLow, LoadsPsp, LoadsCallback, LoadsExit
<1> QED
  BY <1>1, <1>2, <1>3, <1>4, <1>5, <1>6, <1>7

\* The switch of msdos_pre_extender and the one of msdos_post_extender agree: but for
\* four services no register comes back with an address of the translator's.
THEOREM RegistersAlwaysRestored == Spec => RegistersRestored
<1>1. StackInv /\ [Next]_vars
        => [foreign' \subseteq IF InDos THEN Clobbered(Top.req) ELSE {}]_vars
  <2> SUFFICES ASSUME StackInv, Next
               PROVE  foreign' \subseteq IF InDos THEN Clobbered(Top.req) ELSE {}
    OBVIOUS
  <2>1. ASSUME NEW d \in 1 .. MaxFrames, Post(d)
        PROVE  foreign' \subseteq IF InDos THEN Clobbered(Top.req) ELSE {}
    <3>1. InDos /\ Top.req \in Request
      BY <2>1, TopIsFrame DEF Post
    <3> QED
      BY <2>1, <3>1, LeftRegisters DEF Post
  <2>2. CASE ~\E d \in 1 .. MaxFrames : Post(d)
    BY <2>2 DEF Next, ProgramCall, CallbackCall, Pre, PreStay, PreRm, PreCommon, MouseReturn,
       MouseEvent, DosExec, msdos_init, RealModeExit, msdos_done, LeaveProcess
  <2> QED
    BY <2>1, <2>2
<1> QED
  BY <1>1, StackAlways, PTL DEF Spec, RegistersRestored
=============================================================================
