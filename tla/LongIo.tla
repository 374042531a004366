-------------------------------- MODULE LongIo --------------------------------
(***************************************************************************)
(* A read or write of up to 4GB through DOS, which moves at most 64KB at a  *)
(* time (AH=3Fh and 40h): the real mode helper of rmhlp.S cuts the request  *)
(* in chunks, DOS moves each between the file and the transfer buffer, and  *)
(* the helper's callback (rmcb_handler, msdos/callbacks.c) copies it        *)
(* between the transfer buffer and the program's buffer.                    *)
(*                                                                         *)
(* Bytes are named by their offset in the request.  DOS is external: it may *)
(* move less than asked, fail, or abort the program inside the call.        *)
(***************************************************************************)
EXTENDS Integers

CONSTANTS
  ChunkMax,    \* 0xffff
  Wrap,        \* 2^32
  Counts,      \* the counts programs ask for
  Words,       \* what RMLWORD holds: 2^16 here (wrapper.h), 2^32 in dosemu (callbacks.h)
  ErrorCodes   \* what DOS may answer in AX with CF set

ASSUME ChunkAssumption == ChunkMax \in Nat \ {0} /\ Wrap \in Nat /\ ChunkMax < Wrap
ASSUME CountsAssumption == Counts \subseteq 0 .. Wrap - 1 /\ ErrorCodes \subseteq 1 .. ChunkMax
ASSUME WordsAssumption == Words \subseteq ChunkMax + 1 .. Wrap

VARIABLES
  word,     \* the build: which of Words it is
  pc,       \* where the helper is
  op,       \* "read" or "write"
  count,    \* what the helper is asked for
  regs,     \* the helper's registers
  io,       \* io_buffer_size, io_error and io_error_code
  xbuf,     \* the offset of the data in the transfer buffer
  pos,      \* how far DOS has moved the file pointer
  moved,    \* what each byte that arrived is: its offset in the source
  failed,   \* the error DOS answered in this call, 0 if none
  answer,   \* history: what the program is told of its request, CF and EAX, if anything
  bad       \* has the callback reported a bad read or a bad write?

vars == <<word, pc, op, count, regs, io, xbuf, pos, moved, failed, answer, bad>>

\* Nothing has arrived.
NoBytes == [o \in {} |-> 0]

Registers == [esi : Nat, edi : Nat, ecx : Nat, eax : Nat]

Init ==
  /\ word \in Words
  /\ pc = "program"
  /\ op = "read"
  /\ count = 0
  /\ regs = [esi |-> 0, edi |-> 0, ecx |-> 0, eax |-> 0]
  /\ io = [size |-> 0, error |-> FALSE, code |-> 0]
  /\ xbuf = 0
  /\ pos = 0
  /\ moved = NoBytes
  /\ failed = 0
  /\ answer = {}
  /\ bad = FALSE

-----------------------------------------------------------------------------
(* The translator's side: Pre, Post and the callback.                      *)

\* A faulty variant: io_error is left from an earlier call.
set_io_buffer_only(n) == [io EXCEPT !.size = n]
set_io_buffer(n) == [io EXCEPT !.size = n, !.error = FALSE]

\* SET_RMLWORD(cx, D_16_32(_ecx)): the count as far as RMLWORD holds it, in a register
\* structure that the host has cleared.  The buffer is as large as the program says.
Pre(o, n) ==
  /\ pc = "program"
  /\ pc' = "chunk"
  /\ op' = o
  /\ count' = n % word
  /\ io' = set_io_buffer(n)
  /\ regs' = [regs EXCEPT !.edi = 0, !.ecx = n % word]
  /\ pos' = 0
  /\ moved' = NoBytes
  /\ failed' = 0
  /\ answer' = {}
  /\ UNCHANGED <<word, xbuf, bad>>

Post ==
  /\ pc = "returned"
  /\ pc' = "program"
  /\ answer' = {[cf |-> io.error, eax |-> IF io.error THEN io.code ELSE regs.eax % word]}
  /\ io' = [io EXCEPT !.size = 0]
  /\ UNCHANGED <<word, op, count, regs, xbuf, pos, moved, failed, bad>>

\* Unsigned addition: the sum of two registers, and of a register and a size.
Add32(a, b) == IF a + b < Wrap THEN a + b ELSE a + b - Wrap

InBuffer(size) == Add32(regs.edi, size) <= io.size

\* n bytes at offset src of their source arrive at offset dst.
Arrived(dst, src, n) ==
  [o \in DOMAIN moved \cup dst .. dst + n - 1 |->
     IF o \in dst .. dst + n - 1 THEN src + (o - dst) ELSE moved[o]]

-----------------------------------------------------------------------------
(* The helper: start_read and start_write.                                 *)

Chunk ==
  /\ pc = "chunk"
  /\ pc' = IF op = "read" THEN "dos" ELSE "copy"
  /\ regs' = [regs EXCEPT !.esi = regs.ecx,
                          !.ecx = IF regs.ecx > ChunkMax THEN ChunkMax ELSE regs.ecx]
  /\ UNCHANGED <<word, op, count, io, xbuf, pos, moved, failed, answer, bad>>

\* Faulty variants: what is left is not reduced; the offset is that of the last chunk;
\* a short chunk does not end the loop; EAX is not loaded with the sum.
NotReduced(n) == regs.esi
LastOnly(n)   == n
NeverShort(n) == FALSE
LastChunk(n)  == n

Remaining(n) == regs.esi - n
NextEdi(n)   == Add32(regs.edi, n)
IsShort(n)   == n # regs.ecx
Total(n)     == NextEdi(n)

\* A chunk of which n bytes were moved is done with: the next one, or the end.
\* After a short chunk EAX is what DOS answered for that chunk.
NextChunk(n) ==
  \/ /\ IsShort(n)
     /\ pc' = "returned"
     /\ regs' = [regs EXCEPT !.edi = NextEdi(n), !.eax = n]
  \/ /\ ~IsShort(n) /\ Remaining(n) = 0
     /\ pc' = "returned"
     /\ regs' = [regs EXCEPT !.edi = NextEdi(n), !.ecx = 0, !.eax = Total(n)]
  \/ /\ ~IsShort(n) /\ Remaining(n) # 0
     /\ pc' = "chunk"
     /\ regs' = [regs EXCEPT !.edi = NextEdi(n), !.ecx = Remaining(n), !.eax = n]

\* int 21h with AH=3Fh: DOS gives n bytes of the file.
DosReads(n) ==
  /\ pc = "dos" /\ op = "read"
  /\ n \in 0 .. regs.ecx
  /\ xbuf' = pos
  /\ pos' = pos + n
  /\ regs' = [regs EXCEPT !.eax = n]
  /\ pc' = "copy"
  /\ UNCHANGED <<word, op, count, io, moved, failed, answer, bad>>

\* rmcb_handler, AL=0, for the n bytes in EAX.
CopyRead ==
  /\ pc = "copy" /\ op = "read"
  /\ IF InBuffer(regs.eax)
       THEN moved' = Arrived(regs.edi, xbuf, regs.eax) /\ UNCHANGED bad
       ELSE bad' = TRUE /\ UNCHANGED moved
  /\ NextChunk(regs.eax)
  /\ UNCHANGED <<word, op, count, io, xbuf, pos, failed, answer>>

\* rmcb_handler, AL=1, for the chunk in ECX.
CopyWrite ==
  /\ pc = "copy" /\ op = "write"
  /\ IF InBuffer(regs.ecx)
       THEN xbuf' = regs.edi /\ UNCHANGED bad
       ELSE bad' = TRUE /\ UNCHANGED xbuf
  /\ pc' = "dos"
  /\ UNCHANGED <<word, op, count, regs, io, pos, moved, failed, answer>>

\* int 21h with AH=40h: DOS takes n bytes of the transfer buffer.
DosWrites(n) ==
  /\ pc = "dos" /\ op = "write"
  /\ n \in 0 .. regs.ecx
  /\ moved' = Arrived(pos, xbuf, n)
  /\ pos' = pos + n
  /\ NextChunk(n)
  /\ UNCHANGED <<word, op, count, io, xbuf, failed, answer, bad>>

\* read_set_cf, write_set_cf: after some chunks an error is no error; before,
\* rmcb_handler with AL=2 keeps its code.
DosFails(e) ==
  /\ pc = "dos"
  /\ failed' = e
  /\ IF regs.edi # 0
       THEN /\ regs' = [regs EXCEPT !.eax = regs.edi]
            /\ UNCHANGED io
       ELSE /\ regs' = [regs EXCEPT !.eax = e, !.ecx = e]
            /\ io' = [io EXCEPT !.error = TRUE, !.code = e]
  /\ pc' = "returned"
  /\ UNCHANGED <<word, op, count, xbuf, pos, moved, answer, bad>>

\* The program dies in DOS: no Post.
Abort ==
  /\ pc = "dos"
  /\ pc' = "program"
  /\ UNCHANGED <<word, op, count, regs, io, xbuf, pos, moved, failed, answer, bad>>

-----------------------------------------------------------------------------
Helper ==
  \/ Chunk \/ CopyRead \/ CopyWrite
  \/ \E n \in 0 .. ChunkMax : DosReads(n) \/ DosWrites(n)
  \/ \E e \in ErrorCodes : DosFails(e)
  \/ Post

Next ==
  \/ \E o \in {"read", "write"}, n \in Counts : Pre(o, n)
  \/ Helper
  \/ Abort

Spec == Init /\ [][Next]_vars

\* DOS answers and the helper runs.
FairSpec == Spec /\ WF_vars(Helper)

-----------------------------------------------------------------------------
(* Properties.                                                             *)

TypeOK ==
  /\ word \in Words
  /\ pc \in {"program", "chunk", "dos", "copy", "returned"}
  /\ op \in {"read", "write"}
  /\ count \in 0 .. Wrap - 1
  /\ regs \in Registers
  /\ io \in [size : Nat, error : BOOLEAN, code : Nat]
  /\ xbuf \in Nat
  /\ pos \in Nat
  /\ failed \in ErrorCodes \cup {0}
  /\ answer \subseteq [cf : BOOLEAN, eax : Nat]
  /\ bad \in BOOLEAN

\* How much has arrived: a chunk that DOS has read is not there before its copy.
Delivered == IF pc = "copy" /\ op = "read" THEN pos - regs.eax ELSE pos

FirstBytes(k) == [o \in 0 .. k - 1 |-> o]

\* However a request is cut and wherever it stops, the bytes that arrived are the
\* first bytes of the source, each at its own place, without gap or overlap, and
\* as many as DOS moved the file pointer (rmhlp.S with rmcb_handler).
BytesInPlace == moved = FirstBytes(Delivered)

\* The callback never refuses a chunk of the helper, and none reaches past the
\* buffer: the 32 bit sum of its bounds check never wraps.
ChunksInBuffer ==
  /\ ~bad
  /\ pc = "copy" =>
       regs.edi + (IF op = "read" THEN regs.eax ELSE regs.ecx) <= count

\* The count returned never exceeds what was moved.  It is what was moved exactly when
\* less than a chunk was, or the request was met in full, or an error cut it: otherwise
\* the last of several chunks came short, and the count is that of this chunk.
CountTrue ==
  pc = "returned" /\ ~io.error =>
    /\ regs.eax <= pos
    /\ regs.eax = pos <=> pos < ChunkMax \/ pos = count \/ failed # 0

\* The chunks, the transfer buffer and the callback are hidden from the program: what
\* it sees of Pre, of DOS's part and of Post is one transfer from the front, with an
\* answer about it that no register is too narrow for.
Transfer == INSTANCE FileTransfer
  WITH busy <- pc # "program", asked <- count, arrived <- moved, fault <- failed

TransferSpec == Transfer!Spec

\* Every request ends, in Post or in the death of the program.
Ends == pc # "program" ~> pc = "program"
=============================================================================
