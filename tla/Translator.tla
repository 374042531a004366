----------------------------- MODULE Translator -----------------------------
(***************************************************************************)
(* The DOS translator at work (msdos/msdos.c): programs that nest by EXEC, *)
(* the protected mode clients among them, the calls each of them has in    *)
(* flight in real mode DOS, the mouse routines that interrupt those calls, *)
(* and the one EMS frame all calls share as their transfer buffer.         *)
(*                                                                         *)
(* procs is DOS's stack of processes (the shell at the bottom), frames the *)
(* stack of interrupted activities: calls between msdos_pre_extender and   *)
(* msdos_post_extender, and mouse routines.  Control is always at the top. *)
(* EXEC, process exit and the EMS driver are external.                     *)
(***************************************************************************)
EXTENDS Services, Sequences

CONSTANTS
  Requests,           \* what programs may ask for
  CallbackRequests,   \* what a mouse routine may ask for
  Abortable,          \* requests DOS may never return from: Ctrl-C, critical error
  LdtFull,            \* may the LDT run out of descriptors?
  MaxProcs,           \* bound on nested processes, the shell included
  MaxFrames,          \* bound on nested activities
  MaxClients          \* DPMI_MAX_CLIENTS

ASSUME RequestsAssumption == Requests \subseteq Request
\* DOS is not reentrant: a mouse routine neither runs programs nor exits.
ASSUME CallbackAssumption ==
  /\ CallbackRequests \subseteq Request
  /\ \A r \in CallbackRequests : ~IsExec(r) /\ ~IsExit(r)
ASSUME BoundsAssumption ==
  LdtFull \in BOOLEAN /\ MaxProcs \in Nat \ {0} /\ MaxFrames \in Nat /\ MaxClients \in Nat

VARIABLES
  procs,              \* processes: is it a DPMI client, its environment word, frames below it
  frames,             \* activities in flight
  msdos_client_num,   \* the top of the client stack
  ems_frame_mapped,   \* the translator's own view of the frame
  emm,                \* the EMS driver: what the page frame shows, what is saved
  xbuf_owner,         \* the call whose data is in the buffer, 0 if none
  io_owner,           \* the call that set io_buffer, 0 when io_buffer_size = 0
  errors,             \* the errors reported so far by dosemu_error() and error()
  foreign             \* registers the last return left with an address of the translator

vars == <<procs, frames, msdos_client_num, ems_frame_mapped, emm, xbuf_owner,
          io_owner, errors, foreign>>
emsVars == <<ems_frame_mapped, emm>>

\* The environment word of the PSP: 0, a segment, a selector, or what is left
\* when one of them was taken for the other.
Env      == {"none", "seg", "sel", "bad"}
Process  == [dpmi : BOOLEAN, env : Env, base : Nat]
Call     == [kind : {"call"}, req : Request, client : Nat]
Callback == [kind : {"callback"}, client : Nat]
Error    == {"mapping already mapped EMS frame", "unmapping not mapped EMS frame",
             "EMS frame not mapped", "EMS frame should not be mapped here"}

Init ==
  /\ procs = <<[dpmi |-> FALSE, env |-> "seg", base |-> 0]>>
  /\ frames = <<>>
  /\ msdos_client_num = 0
  /\ ems_frame_mapped = FALSE
  /\ emm = [shows |-> "app", saved |-> "nothing"]
  /\ xbuf_owner = 0
  /\ io_owner = 0
  /\ errors = {}
  /\ foreign = {}

-----------------------------------------------------------------------------
(* Where control is.                                                       *)

Depth == Len(frames)
Proc  == procs[Len(procs)]
Top   == frames[Depth]

InProgram  == Depth = Proc.base
InDos      == Depth > Proc.base /\ Top.kind = "call"
InCallback == Depth > Proc.base /\ Top.kind = "callback"
InRealMode == InDos \/ (InProgram /\ ~Proc.dpmi)

\* Stands for a call that was aborted and will never return.
Dead == MaxFrames + 1

UsesXbuf(f)  == f.kind = "call" /\ NeedXbuf(f.req)
IsLongIoCall(f) == f.kind = "call" /\ IsLongIo(f.req)

\* ConvertSegmentToDescriptor, unless there is no environment: without a free
\* descriptor DPMI answers -1, and 0xffff is stored as if it were a selector.
Converted(env) ==
  {e \in Env : \/ env = "seg" /\ e = "sel"
               \/ env = "seg" /\ LdtFull /\ e = "bad"
               \/ env = "none" /\ e = "none"
               \/ env \in {"sel", "bad"} /\ e = "bad"}

\* A faulty variant: EXEC hands DOS the environment selector as it is.
NotReverted(env) == env

\* GetSegmentBase(env) >> 4, unless there is no environment.
Reverted(env) == IF env = "sel" THEN "seg" ELSE IF env = "none" THEN "none" ELSE "bad"

\* DOS gives a child the environment of its parent, which it takes for a segment.
Inherited(env) == IF env \in {"seg", "none"} THEN env ELSE "bad"

SetEnv(e) == procs' = [procs EXCEPT ![Len(procs)].env = e]

-----------------------------------------------------------------------------
(* The frame.                                                              *)

\* Faulty variants: the frame is mapped before the application's mapping is
\* saved; the flag is not cleared; the saved mapping is not restored.
prepare_map_first ==
  IF ems_frame_mapped
    THEN UNCHANGED emsVars
    ELSE ems_frame_mapped' = TRUE /\ emm' = [shows |-> "xbuf", saved |-> "xbuf"]

restore_flag_kept ==
  /\ emm' = [shows |-> IF emm.saved = "nothing" THEN emm.shows ELSE emm.saved,
             saved |-> "nothing"]
  /\ UNCHANGED ems_frame_mapped

restore_flag_only == ems_frame_mapped' = FALSE /\ UNCHANGED emm

prepare_ems_frame ==
  IF ems_frame_mapped
    THEN UNCHANGED emsVars
    ELSE /\ ems_frame_mapped' = TRUE
         /\ emm' = [shows |-> "xbuf",
                    saved |-> IF emm.saved = "nothing" THEN emm.shows ELSE emm.saved]

restore_ems_frame ==
  IF ems_frame_mapped
    THEN /\ ems_frame_mapped' = FALSE
         /\ emm' = [shows |-> IF emm.saved = "nothing" THEN emm.shows ELSE emm.saved,
                    saved |-> "nothing"]
    ELSE UNCHANGED emsVars

PreErrors(r) ==
  LET mapped == ems_frame_mapped \/ NeedXbuf(r)
  IN {e \in Error :
        \/ /\ e = "mapping already mapped EMS frame"
           /\ NeedXbuf(r) /\ ems_frame_mapped
        \/ e = "EMS frame not mapped" /\ PreUsesBuffer(r) /\ ~mapped
        \/ e = "EMS frame should not be mapped here" /\ IsExec(r) /\ mapped}

PostErrors(r) ==
  {e \in Error :
     /\ ~ems_frame_mapped
     /\ \/ e = "EMS frame not mapped" /\ PostUsesBuffer(r)
        \/ e = "unmapping not mapped EMS frame" /\ NeedXbuf(r)}

-----------------------------------------------------------------------------
(* msdos_pre_extender.                                                     *)

PreCommon(r) ==
  /\ IF NeedXbuf(r) THEN prepare_ems_frame ELSE UNCHANGED emsVars
  /\ errors' = errors \cup PreErrors(r)
  /\ foreign' = {}
  /\ UNCHANGED msdos_client_num

\* MSDOS_DONE and MSDOS_NONE: no call is left in flight.
PreStay(r) ==
  /\ ~IsRm(r)
  /\ PreCommon(r)
  /\ UNCHANGED <<procs, frames, xbuf_owner, io_owner>>

\* MSDOS_RM: the buffer and the real mode registers are loaded, DOS runs.
PreRm(r) ==
  /\ IsRm(r)
  /\ Depth < MaxFrames
  /\ PreCommon(r)
  /\ frames' = Append(frames, [kind |-> "call", req |-> r, client |-> msdos_client_num])
  /\ xbuf_owner' = IF PreUsesBuffer(r) THEN Depth + 1 ELSE xbuf_owner
  /\ io_owner' = IF IsLongIo(r) THEN Depth + 1 ELSE io_owner
  /\ IF IsExec(r) THEN SetEnv(Reverted(Proc.env)) ELSE UNCHANGED procs

Pre(r) == PreStay(r) \/ PreRm(r)

\* A program, or the mouse routine of one, issues an interrupt.
ProgramCall  == InProgram /\ Proc.dpmi /\ \E r \in Requests : Pre(r)
CallbackCall == InCallback /\ \E r \in CallbackRequests : Pre(r)

-----------------------------------------------------------------------------
(* msdos_post_extender, when DOS returns from the call.                    *)

\* Faulty variants: Post unmaps after every service; io_buffer is never unset.
UnmapAlways(r)   == restore_ems_frame
UnsetIoNever(r)  == UNCHANGED io_owner

Unmap(r) == IF NeedXbuf(r) THEN restore_ems_frame ELSE UNCHANGED emsVars

UnsetIo(r) == io_owner' = IF IsLongIo(r) THEN 0 ELSE io_owner

Post(d) ==
  /\ InDos /\ Depth = d
  /\ ~IsExit(Top.req)
  /\ frames' = SubSeq(frames, 1, Depth - 1)
  /\ errors' = errors \cup PostErrors(Top.req)
  /\ Unmap(Top.req)
  /\ xbuf_owner' = IF xbuf_owner = Depth THEN 0 ELSE xbuf_owner
  /\ UnsetIo(Top.req)
  /\ IF IsExec(Top.req) THEN \E e \in Converted(Proc.env) : SetEnv(e)
                        ELSE UNCHANGED procs
  /\ foreign' = {g \in Regs : Loads(Top.req, g) /\ ~Keeps(Top.req, g)}
  /\ UNCHANGED msdos_client_num

-----------------------------------------------------------------------------
(* The mouse routine of a client, entered from real mode through its       *)
(* real mode callback (mouse_callback, rmcb_ret_handler).                  *)

MouseEvent ==
  /\ InRealMode
  /\ msdos_client_num > 0
  /\ Depth < MaxFrames
  /\ frames' = Append(frames, [kind |-> "callback", client |-> msdos_client_num])
  /\ foreign' = {}
  /\ UNCHANGED <<procs, msdos_client_num, emsVars, xbuf_owner, io_owner, errors>>

MouseReturn(d) ==
  /\ InCallback /\ Depth = d
  /\ frames' = SubSeq(frames, 1, Depth - 1)
  /\ foreign' = {}
  /\ UNCHANGED <<procs, msdos_client_num, emsVars, xbuf_owner, io_owner, errors>>

-----------------------------------------------------------------------------
(* Processes.                                                              *)

\* DOS starts a program, for a real mode program or inside a client's EXEC.
DosExec ==
  /\ \/ InProgram /\ ~Proc.dpmi
     \/ InDos /\ IsExec(Top.req)
  /\ Len(procs) < MaxProcs
  /\ procs' = Append(procs, [dpmi |-> FALSE, env |-> Inherited(Proc.env), base |-> Depth])
  /\ foreign' = {}
  /\ UNCHANGED <<frames, msdos_client_num, emsVars, xbuf_owner, io_owner, errors>>

\* A program other than the shell enters protected mode.
msdos_init ==
  /\ InProgram /\ ~Proc.dpmi
  /\ Len(procs) > 1
  /\ msdos_client_num < MaxClients
  /\ msdos_client_num' = msdos_client_num + 1
  /\ \E e \in Converted(Proc.env) :
       procs' = [procs EXCEPT ![Len(procs)].env = e, ![Len(procs)].dpmi = TRUE]
  /\ foreign' = {}
  /\ UNCHANGED <<frames, emsVars, xbuf_owner, io_owner, errors>>

\* The process is gone; what it had in flight is never returned from.
LeaveProcess ==
  /\ Len(procs) > 1
  /\ procs' = SubSeq(procs, 1, Len(procs) - 1)
  /\ frames' = SubSeq(frames, 1, Proc.base)
  /\ xbuf_owner' = IF xbuf_owner > Proc.base THEN 0 ELSE xbuf_owner
  /\ io_owner' = IF io_owner > Proc.base THEN Dead ELSE io_owner
  /\ foreign' = {}
  /\ UNCHANGED <<emsVars, errors>>

RealModeExit == InProgram /\ ~Proc.dpmi /\ LeaveProcess /\ UNCHANGED msdos_client_num

\* A faulty variant: the client stack is not popped.
msdos_done_unpopped ==
  /\ InDos /\ Depth = Proc.base + 1 /\ Proc.dpmi
  /\ IsExit(Top.req) \/ Top.req \in Abortable
  /\ LeaveProcess
  /\ UNCHANGED msdos_client_num

\* A client exits, or DOS aborts it inside a call: msdos_done, and never Post.
msdos_done ==
  /\ InDos /\ Depth = Proc.base + 1 /\ Proc.dpmi
  /\ IsExit(Top.req) \/ Top.req \in Abortable
  /\ LeaveProcess
  /\ msdos_client_num' = msdos_client_num - 1

-----------------------------------------------------------------------------
Next ==
  \/ ProgramCall
  \/ CallbackCall
  \/ \E d \in 1 .. MaxFrames : Post(d) \/ MouseReturn(d)
  \/ MouseEvent
  \/ DosExec
  \/ msdos_init
  \/ RealModeExit
  \/ msdos_done

Spec == Init /\ [][Next]_vars

\* DOS answers every call and mouse routines end, however often interrupted.
Fairness ==
  \A d \in 1 .. MaxFrames : SF_vars(Post(d)) /\ SF_vars(MouseReturn(d))

FairSpec == Spec /\ Fairness

-----------------------------------------------------------------------------
(* Properties.                                                             *)

TypeOK ==
  /\ procs \in Seq(Process) /\ procs # <<>>
  /\ frames \in Seq(Call \cup Callback)
  /\ msdos_client_num \in Nat
  /\ ems_frame_mapped \in BOOLEAN
  /\ emm \in [shows : {"app", "xbuf"}, saved : {"nothing", "app", "xbuf"}]
  /\ xbuf_owner \in Nat
  /\ io_owner \in Nat
  /\ errors \subseteq Error
  /\ foreign \subseteq Regs

\* Assumptions on the environment under which a property is stated.
\* No service that needs the buffer is aborted by DOS.
NoXbufAbort == \A r \in Abortable : ~NeedXbuf(r)
\* No mouse routine asks for a service that needs the buffer.
CalmCallbacks == \A r \in CallbackRequests : ~NeedXbuf(r)

\* The translator's view of the frame is the driver's: mapped exactly while the
\* application's mapping is saved, and what is saved is never the translator's
\* own mapping, whatever nests or aborts (prepare_ems_frame, restore_ems_frame).
AppMappingSafe ==
  /\ emm.saved = IF ems_frame_mapped THEN "app" ELSE "nothing"
  /\ emm.shows = IF ems_frame_mapped THEN "xbuf" ELSE "app"

\* The frame is mapped only on behalf of a call in flight of the running process:
\* no service leaves it mapped, and no child starts under a mapped frame.
FrameReleased ==
  ems_frame_mapped =>
    \E i \in Proc.base + 1 .. Depth : UsesXbuf(frames[i])

\* While a call that uses the buffer is in flight the frame stays mapped and
\* holds that call's data, through every mouse routine that interrupts it.
BufferHeld ==
  \A i \in 1 .. Depth :
    UsesXbuf(frames[i]) => ems_frame_mapped /\ xbuf_owner = i

\* io_buffer is the caller's from Pre to Post of a read or write, and is cleared
\* as soon as there is no such call.
IoBufferHeld ==
  /\ \A i \in 1 .. Depth : IsLongIoCall(frames[i]) => io_owner = i
  /\ io_owner # 0 => io_owner \in 1 .. Depth /\ IsLongIoCall(frames[io_owner])

\* None of the translator's own sanity checks fires.
NoErrors == errors = {}

\* Post and mouse routines run with the client Pre ran with: EXEC and exit of
\* children leave the client stack as they found it.
ClientHeld ==
  /\ Depth > Proc.base => Top.client = msdos_client_num
  /\ InCallback \/ (InProgram /\ Proc.dpmi) => msdos_client_num > 0

\* No environment word is ever a segment read as a selector or the reverse: it
\* is a segment whenever DOS copies it for a child.
EnvSound == \A i \in 1 .. Len(procs) : procs[i].env # "bad"

\* The registers that come back from a service holding an address that only the
\* translator should know: DOS documents the two of EXEC as destroyed.
Clobbered(r) ==
  {g \in Regs :
     \/ IsExec(r) /\ g \in {"ebx", "edx"}
     \/ Dos(r, {\h38}) /\ r.dx = \hffff /\ g = "edx"
     \/ r.intr = \h15 /\ r.ah = \hc2 /\ r.al = \h07 /\ g = "ebx"
     \/ r.intr = \h33 /\ r.ah = 0 /\ r.al = \h0c /\ g = "edx"}

\* Apart from those four services, every register Pre points into the buffer, at
\* a callback or at a PSP is the caller's again after Post.
RegistersRestored ==
  [][foreign' \subseteq IF InDos THEN Clobbered(Top.req) ELSE {}]_vars

\* The frame does not stay mapped for ever.
FrameEventuallyReleased == ems_frame_mapped ~> ~ems_frame_mapped

\* Two assertions of the code, each on its own.
NoNestedMapping == "mapping already mapped EMS frame" \notin errors
ExecUnmapped    == "EMS frame should not be mapped here" \notin errors

\* What the calls are promised together: a transfer buffer of their own.
Buffer == INSTANCE TransferBuffer WITH
            holder <- IF ems_frame_mapped THEN xbuf_owner ELSE 0,
            window <- emm.shows

\* The shared frame, with its guards and its error paths, implements that buffer.
BufferSpec == Buffer!Spec
=============================================================================
