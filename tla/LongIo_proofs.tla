----------------------------- MODULE LongIo_proofs -----------------------------
(***************************************************************************)
(* Proofs about LongIo, for chunks of every size and requests of every     *)
(* length below Wrap.                                                      *)
(***************************************************************************)
EXTENDS LongIo, TLAPS

Busy == pc \in {"chunk", "dos", "copy", "returned"}

\* While the helper loops: the buffer has room for the request, no error is known.
Fresh ==
  /\ Busy => count <= io.size /\ io.size \in Counts
  /\ Busy /\ pc # "returned" => ~io.error /\ failed = 0

\* At the head of the loop: EDI counts what was moved, ECX what is left; from the
\* second chunk on, at least a chunk was moved.
ChunkInv ==
  pc = "chunk" =>
    /\ regs.edi = pos
    /\ regs.edi + regs.ecx = count
    /\ regs.edi = 0 \/ ChunkMax <= regs.edi

\* DOS is never ahead of the request, and the request of what an answer can hold.
Within == Busy => pos <= count /\ count < word

\* Post answers an error exactly when DOS failed before anything was moved, and
\* then with the code of this very failure: nothing is left of an earlier call.
ErrorTrue ==
  pc = "returned" =>
    /\ io.error <=> failed # 0 /\ pos = 0
    /\ io.error => io.code = failed

\* Inside a chunk: ESI holds what was left, ECX the chunk.
InChunk ==
  pc \in {"dos", "copy"} =>
    /\ regs.edi + regs.esi = count
    /\ regs.ecx <= ChunkMax /\ regs.ecx <= regs.esi
    /\ regs.ecx = regs.esi \/ regs.ecx = ChunkMax
    /\ regs.edi = 0 \/ ChunkMax <= regs.edi
    /\ pc = "dos" \/ op = "write" => pos = regs.edi
    /\ pc = "copy" /\ op = "read" =>
         regs.eax <= regs.ecx /\ pos = regs.edi + regs.eax /\ xbuf = regs.edi
    /\ pc = "dos" /\ op = "write" => xbuf = regs.edi

IInv ==
  /\ TypeOK
  /\ Fresh
  /\ Within
  /\ ChunkInv
  /\ InChunk
  /\ BytesInPlace
  /\ ~bad
  /\ CountTrue
  /\ ErrorTrue

-----------------------------------------------------------------------------

\* Bytes that arrive right behind those that are in place are in place.
LEMMA ArrivedInPlace ==
  ASSUME NEW e \in Nat, NEW n \in Nat, moved = FirstBytes(e)
  PROVE  Arrived(e, e, n) = FirstBytes(e + n)
<1> USE DEF FirstBytes
<1>1. DOMAIN moved \cup e .. e + n - 1 = 0 .. e + n - 1
  OBVIOUS
<1>2. \A o \in 0 .. e + n - 1 :
        (IF o \in e .. e + n - 1 THEN e + (o - e) ELSE moved[o]) = o
  OBVIOUS
<1> QED BY <1>1, <1>2 DEF Arrived

\* The registers after a chunk.
LEMMA RegistersSet ==
  ASSUME NEW r \in Registers, NEW a \in Nat, NEW b \in Nat, NEW c \in Nat
  PROVE  /\ [r EXCEPT !.edi = a, !.eax = b] \in Registers
         /\ [r EXCEPT !.edi = a, !.ecx = c, !.eax = b] \in Registers
         /\ [r EXCEPT !.edi = a, !.ecx = c] \in Registers
BY DEF Registers

LEMMA InitIInv == Init => IInv
<1> SUFFICES ASSUME Init PROVE IInv
  OBVIOUS
<1> USE DEF Init, NoBytes
<1>1. TypeOK
  <2>1. 0 \in 0 .. Wrap - 1
    BY ChunkAssumption
  <2> QED BY <2>1 DEF TypeOK, Registers
<1>2. BytesInPlace
  BY DEF BytesInPlace, Delivered, FirstBytes
<1>3. Fresh /\ Within /\ ChunkInv /\ InChunk /\ ~bad /\ CountTrue /\ ErrorTrue
  BY DEF Fresh, Within, Busy, ChunkInv, InChunk, CountTrue, ErrorTrue
<1> QED BY <1>1, <1>2, <1>3 DEF IInv

LEMMA PreKeeps ==
  ASSUME IInv, NEW o \in {"read", "write"}, NEW n \in Counts, Pre(o, n)
  PROVE  IInv'
<1> USE CountsAssumption, ChunkAssumption, WordsAssumption DEF IInv, Pre, set_io_buffer
<1>0. n \in Nat /\ n < Wrap /\ n % word \in 0 .. n
  <2>1. word \in Nat \ {0}
    BY DEF TypeOK
  <2>2. n \in Nat /\ n < Wrap
    OBVIOUS
  <2>3. \A k \in Nat, w \in Nat \ {0} : k % w \in Nat /\ k % w <= k
    OBVIOUS
  <2> QED BY <2>1, <2>2, <2>3
<1>1. TypeOK'
  <2>1. n % word \in Nat /\ n % word \in 0 .. Wrap - 1 /\ regs \in Registers
    BY <1>0 DEF TypeOK
  <2>2. [regs EXCEPT !.edi = 0, !.ecx = n % word] \in Registers
    BY <2>1, RegistersSet
  <2>3. io' \in [size : Nat, error : BOOLEAN, code : Nat]
    BY <1>0 DEF TypeOK
  <2> QED BY <2>1, <2>2, <2>3 DEF TypeOK
<1>2. BytesInPlace'
  BY DEF BytesInPlace, Delivered, FirstBytes, NoBytes
<1>3. (Fresh /\ Within /\ ChunkInv /\ InChunk /\ ~bad /\ CountTrue /\ ErrorTrue)'
  BY <1>0 DEF TypeOK, Registers, Fresh, Within, Busy, ChunkInv, InChunk, CountTrue, ErrorTrue
<1> QED BY <1>1, <1>2, <1>3

LEMMA PostKeeps == ASSUME IInv, Post PROVE IInv'
<1> USE DEF IInv, Post
<1>1. TypeOK'
  <2>1. word \in Nat \ {0} /\ regs.eax \in Nat
    BY WordsAssumption, ChunkAssumption DEF TypeOK, Registers
  <2>2. regs.eax % word \in Nat
    BY <2>1
  <2> QED BY <2>2 DEF TypeOK, Registers
<1>2. BytesInPlace'
  BY DEF BytesInPlace, Delivered
<1>3. (Fresh /\ Within /\ ChunkInv /\ InChunk /\ ~bad /\ CountTrue /\ ErrorTrue)'
  BY DEF Fresh, Within, Busy, ChunkInv, InChunk, CountTrue, ErrorTrue
<1> QED BY <1>1, <1>2, <1>3

LEMMA ChunkKeeps == ASSUME IInv, Chunk PROVE IInv'
<1> USE ChunkAssumption DEF IInv, Chunk
<1>1. TypeOK'
  BY DEF TypeOK, Registers
<1>2. BytesInPlace'
  BY DEF BytesInPlace, Delivered, ChunkInv
<1>3. (Fresh /\ Within /\ ~bad /\ CountTrue /\ ErrorTrue)'
  BY DEF Fresh, Within, Busy, CountTrue, ErrorTrue
<1>4. (ChunkInv /\ InChunk)'
  BY CountsAssumption DEF TypeOK, Registers, ChunkInv, InChunk, Fresh, Within, Busy
<1> QED BY <1>1, <1>2, <1>3, <1>4

\* A chunk of which n bytes were moved, from inside the chunk.
LEMMA NextChunkKeeps ==
  ASSUME IInv, pc \in {"dos", "copy"}, NEW n \in Nat, n <= regs.ecx,
         NextChunk(n), pos' = regs.edi + n,
         UNCHANGED <<word, op, count, io, failed, answer, bad>>, xbuf' \in Nat
  PROVE  /\ (TypeOK /\ Fresh /\ Within /\ ChunkInv /\ InChunk /\ ~bad /\ CountTrue /\ ErrorTrue)'
         /\ Delivered' = regs.edi + n
<1> USE ChunkAssumption DEF IInv
<1>1. /\ count \in Nat /\ count < Wrap /\ n \in Nat /\ regs \in Registers
      /\ regs.edi \in Nat /\ regs.ecx \in Nat /\ regs.esi \in Nat
      /\ regs.edi + regs.esi = count /\ regs.ecx <= regs.esi
      /\ regs.edi + n \in Nat
  BY CountsAssumption DEF TypeOK, Registers, InChunk, Fresh, Within, Busy
<1>2. NextEdi(n) = regs.edi + n
  BY <1>1 DEF NextEdi, Add32
<1>3. pc' \in {"chunk", "returned"}
  BY DEF NextChunk
<1>4. Delivered' = regs.edi + n
  BY <1>3 DEF Delivered
<1>5. ~io.error /\ failed = 0 /\ count <= io.size /\ io.size \in Counts
  BY DEF Fresh, Within, Busy
<1>6. Fresh' /\ ~bad' /\ ErrorTrue' /\ InChunk'
  BY <1>3, <1>5 DEF Fresh, Busy, ErrorTrue, InChunk
<1>11. Within' /\ regs.edi + n <= count
  BY <1>1 DEF Within, Busy
<1>12. regs.edi = 0 \/ ChunkMax <= regs.edi
  BY DEF InChunk
<1>10. /\ word' \in Words /\ op' \in {"read", "write"} /\ count' \in 0 .. Wrap - 1
       /\ io' \in [size : Nat, error : BOOLEAN, code : Nat]
       /\ xbuf' \in Nat /\ pos' \in Nat /\ failed' \in ErrorCodes \cup {0}
       /\ answer' \subseteq [cf : BOOLEAN, eax : Nat] /\ bad' \in BOOLEAN
  BY <1>1 DEF TypeOK
<1>7. CASE IsShort(n)
  <2>1. pc' = "returned" /\ regs' = [regs EXCEPT !.edi = regs.edi + n, !.eax = n]
    BY <1>7, <1>2 DEF NextChunk
  <2>2. TypeOK'
    <3>1. regs' \in Registers
      BY <2>1, <1>1, RegistersSet
    <3> QED BY <3>1, <2>1, <1>10 DEF TypeOK
  <2>3. regs'.eax = n
    BY <2>1, <1>1 DEF Registers
  <2>4. n < regs.ecx
    BY <1>7, <1>1 DEF IsShort
  <2>5. CountTrue'
    <3>1. n < ChunkMax /\ pos' # count
      BY <2>4, <1>1 DEF InChunk
    <3>2. n = regs.edi + n <=> regs.edi + n < ChunkMax
      BY <3>1, <1>1, <1>12
    <3> QED BY <2>1, <2>3, <3>1, <3>2, <1>1, <1>5 DEF CountTrue
  <2> QED BY <2>1, <2>2, <2>5, <1>4, <1>6, <1>11 DEF ChunkInv
<1>8. CASE ~IsShort(n) /\ Remaining(n) = 0
  <2>1. /\ pc' = "returned"
        /\ regs' = [regs EXCEPT !.edi = regs.edi + n, !.ecx = 0, !.eax = regs.edi + n]
    BY <1>8, <1>2 DEF NextChunk, Total
  <2>2. TypeOK'
    <3>1. regs' \in Registers
      BY <2>1, <1>1, RegistersSet
    <3> QED BY <3>1, <2>1, <1>10 DEF TypeOK
  <2>3. regs'.eax = regs.edi + n
    BY <2>1, <1>1 DEF Registers
  <2>4. CountTrue'
    <3>1. n = regs.esi
      BY <1>8, <1>1 DEF Remaining
    <3>2. pos' = count
      BY <3>1, <1>1
    <3> QED BY <2>1, <2>3, <3>2, <1>1 DEF CountTrue
  <2> QED BY <2>1, <2>2, <2>4, <1>4, <1>6, <1>11 DEF ChunkInv
<1>9. CASE ~IsShort(n) /\ Remaining(n) # 0
  <2>1. /\ pc' = "chunk"
        /\ regs' = [regs EXCEPT !.edi = regs.edi + n, !.ecx = regs.esi - n, !.eax = n]
    BY <1>9, <1>2 DEF NextChunk, Remaining
  <2>2. n = regs.ecx /\ regs.esi - n \in Nat /\ regs.esi # n
    BY <1>9, <1>1 DEF IsShort, Remaining
  <2>3. TypeOK'
    <3>1. regs' \in Registers
      BY <2>1, <2>2, <1>1, RegistersSet
    <3> QED BY <3>1, <2>1, <1>10 DEF TypeOK
  <2>4. regs'.edi = regs.edi + n /\ regs'.ecx = regs.esi - n
    BY <2>1, <1>1 DEF Registers
  <2>5. regs.ecx = ChunkMax /\ regs.esi > ChunkMax
    BY <2>2, <1>1 DEF InChunk
  <2>6. ChunkMax <= regs.edi + n
    BY <2>2, <2>5, <1>1
  <2>7. ChunkInv'
    BY <2>1, <2>4, <2>6, <1>1 DEF ChunkInv
  <2> QED BY <2>1, <2>3, <2>7, <1>4, <1>6, <1>11 DEF CountTrue
<1> QED BY <1>7, <1>8, <1>9

LEMMA DosReadsKeeps ==
  ASSUME IInv, NEW n \in 0 .. ChunkMax, DosReads(n)
  PROVE  IInv'
<1> USE ChunkAssumption DEF IInv, DosReads
<1>1. TypeOK'
  BY DEF TypeOK, Registers
<1>2. regs'.eax = n /\ regs'.edi = regs.edi /\ regs'.ecx = regs.ecx /\ regs'.esi = regs.esi
  BY DEF TypeOK, Registers
<1>3. BytesInPlace'
  BY <1>2 DEF BytesInPlace, Delivered, TypeOK
<1>4. (Fresh /\ ~bad /\ CountTrue /\ ErrorTrue)'
  BY DEF Fresh, Busy, CountTrue, ErrorTrue
<1>5. (ChunkInv /\ InChunk)'
  BY <1>2 DEF TypeOK, ChunkInv, InChunk
<1>6. Within'
  <2>1. /\ regs.edi + regs.esi = count /\ n <= regs.esi /\ pos = regs.edi
        /\ regs.edi \in Nat /\ regs.esi \in Nat
    BY DEF InChunk, TypeOK, Registers
  <2> QED BY <2>1 DEF Within, Busy
<1> QED BY <1>1, <1>3, <1>4, <1>5, <1>6

LEMMA CopyReadKeeps == ASSUME IInv, CopyRead PROVE IInv'
<1> USE ChunkAssumption DEF IInv
<1>1. /\ regs.eax \in Nat /\ regs.edi \in Nat /\ regs.ecx \in Nat /\ regs.esi \in Nat
      /\ count \in Nat /\ count < Wrap /\ count <= io.size /\ io.size \in Nat
      /\ regs.eax <= regs.ecx /\ regs.ecx <= regs.esi /\ regs.edi + regs.esi = count
      /\ pos = regs.edi + regs.eax /\ xbuf = regs.edi
  BY CountsAssumption DEF CopyRead, TypeOK, Registers, Fresh, Within, Busy, InChunk
<1>2. InBuffer(regs.eax)
  BY <1>1 DEF InBuffer, Add32
<1>3. moved' = Arrived(regs.edi, regs.edi, regs.eax) /\ UNCHANGED bad
  BY <1>1, <1>2 DEF CopyRead
<1>4. moved = FirstBytes(regs.edi)
  BY <1>1 DEF CopyRead, BytesInPlace, Delivered
<1>5. moved' = FirstBytes(regs.edi + regs.eax)
  BY <1>1, <1>3, <1>4, ArrivedInPlace
<1>6. /\ (TypeOK /\ Fresh /\ Within /\ ChunkInv /\ InChunk /\ ~bad /\ CountTrue /\ ErrorTrue)'
      /\ Delivered' = regs.edi + regs.eax
  <2>1. xbuf' \in Nat /\ pos' = regs.edi + regs.eax
    BY <1>1 DEF CopyRead
  <2> QED BY <1>1, <1>3, <2>1, NextChunkKeeps DEF CopyRead
<1>7. BytesInPlace'
  BY <1>5, <1>6 DEF BytesInPlace
<1> QED BY <1>6, <1>7

LEMMA CopyWriteKeeps == ASSUME IInv, CopyWrite PROVE IInv'
<1> USE ChunkAssumption DEF IInv, CopyWrite
<1>1. /\ regs.edi \in Nat /\ regs.ecx \in Nat /\ regs.esi \in Nat
      /\ count \in Nat /\ count < Wrap /\ count <= io.size /\ io.size \in Nat
      /\ regs.ecx <= regs.esi /\ regs.edi + regs.esi = count /\ pos = regs.edi
  BY CountsAssumption DEF TypeOK, Registers, Fresh, Within, Busy, InChunk
<1>2. InBuffer(regs.ecx)
  BY <1>1 DEF InBuffer, Add32
<1>3. xbuf' = regs.edi /\ UNCHANGED bad
  BY <1>2
<1>4. TypeOK'
  BY <1>1, <1>3 DEF TypeOK
<1>5. BytesInPlace'
  BY DEF BytesInPlace, Delivered
<1>6. (Fresh /\ Within /\ ~bad /\ CountTrue /\ ErrorTrue)'
  BY <1>3 DEF Fresh, Within, Busy, CountTrue, ErrorTrue
<1>7. (ChunkInv /\ InChunk)'
  BY <1>1, <1>3 DEF ChunkInv, InChunk
<1> QED BY <1>4, <1>5, <1>6, <1>7

LEMMA DosWritesKeeps ==
  ASSUME IInv, NEW n \in 0 .. ChunkMax, DosWrites(n)
  PROVE  IInv'
<1> USE ChunkAssumption DEF IInv
<1>1. /\ regs.edi \in Nat /\ pos = regs.edi /\ xbuf = regs.edi /\ n \in Nat
      /\ n <= regs.ecx
  BY DEF DosWrites, TypeOK, Registers, InChunk
<1>2. moved = FirstBytes(regs.edi)
  BY <1>1 DEF DosWrites, BytesInPlace, Delivered
<1>3. moved' = FirstBytes(regs.edi + n)
  BY <1>1, <1>2, ArrivedInPlace DEF DosWrites
<1>4. /\ (TypeOK /\ Fresh /\ Within /\ ChunkInv /\ InChunk /\ ~bad /\ CountTrue /\ ErrorTrue)'
      /\ Delivered' = regs.edi + n
  <2>1. xbuf' \in Nat /\ pos' = regs.edi + n
    BY <1>1 DEF DosWrites
  <2> QED BY <1>1, <2>1, NextChunkKeeps DEF DosWrites
<1>5. BytesInPlace'
  BY <1>3, <1>4 DEF BytesInPlace
<1> QED BY <1>4, <1>5

LEMMA DosFailsKeeps ==
  ASSUME IInv, NEW e \in ErrorCodes, DosFails(e)
  PROVE  IInv'
<1> USE ChunkAssumption, CountsAssumption DEF IInv, DosFails
<1>1. e \in Nat /\ e # 0
  OBVIOUS
<1>2. /\ regs \in Registers /\ regs.edi \in Nat /\ pos = regs.edi /\ ~io.error
      /\ failed' # 0
  BY <1>1 DEF TypeOK, Registers, InChunk, Fresh, Within, Busy
<1>3. TypeOK'
  BY <1>1 DEF TypeOK, Registers
<1>4. BytesInPlace'
  BY DEF BytesInPlace, Delivered
<1>5. (Fresh /\ Within /\ ChunkInv /\ InChunk /\ ~bad)'
  BY DEF Fresh, Within, Busy, ChunkInv, InChunk, TypeOK
<1>6. CASE regs.edi # 0
  BY <1>6, <1>2, <1>3, <1>4, <1>5 DEF CountTrue, ErrorTrue, TypeOK, Registers
<1>7. CASE regs.edi = 0
  <2>1. io'.error /\ io'.code = e
    BY <1>7 DEF TypeOK
  <2>2. CountTrue' /\ ErrorTrue'
    BY <1>2, <1>7, <2>1 DEF CountTrue, ErrorTrue
  <2> QED BY <2>2, <1>3, <1>4, <1>5
<1> QED BY <1>6, <1>7

LEMMA AbortKeeps == ASSUME IInv, Abort PROVE IInv'
<1> USE DEF IInv, Abort
<1>1. TypeOK'
  BY DEF TypeOK, Registers
<1>2. BytesInPlace'
  BY DEF BytesInPlace, Delivered
<1>3. (Fresh /\ Within /\ ChunkInv /\ InChunk /\ ~bad /\ CountTrue /\ ErrorTrue)'
  BY DEF Fresh, Within, Busy, ChunkInv, InChunk, CountTrue, ErrorTrue
<1> QED BY <1>1, <1>2, <1>3

LEMMA NextIInv == IInv /\ [Next]_vars => IInv'
<1> SUFFICES ASSUME IInv, [Next]_vars PROVE IInv'
  OBVIOUS
<1>1. CASE \E o \in {"read", "write"}, n \in Counts : Pre(o, n)
  BY <1>1, PreKeeps
<1>2. CASE Helper
  BY <1>2, PostKeeps, ChunkKeeps, CopyReadKeeps, CopyWriteKeeps, DosReadsKeeps,
     DosWritesKeeps, DosFailsKeeps DEF Helper
<1>3. CASE Abort
  BY <1>3, AbortKeeps
<1>4. CASE UNCHANGED vars
  <2> USE <1>4 DEF IInv, vars
  <2>1. (TypeOK /\ BytesInPlace)'
    BY DEF TypeOK, BytesInPlace, Delivered
  <2>2. (Fresh /\ Within /\ ChunkInv /\ InChunk /\ ~bad /\ CountTrue /\ ErrorTrue)'
    BY DEF Fresh, Within, Busy, ChunkInv, InChunk, CountTrue, ErrorTrue
  <2> QED BY <2>1, <2>2
<1> QED BY <1>1, <1>2, <1>3, <1>4 DEF Next

LEMMA LongIoInv == Spec => []IInv
BY InitIInv, NextIInv, PTL DEF Spec

\* The helper's state keeps its types.
THEOREM LongIoTypeCorrect == Spec => []TypeOK
<1>1. IInv => TypeOK
  BY DEF IInv
<1> QED BY <1>1, LongIoInv, PTL

\* What arrived is a prefix of the source, byte for byte, whatever DOS answers.
THEOREM BytesAlwaysInPlace == Spec => []BytesInPlace
<1>1. IInv => BytesInPlace
  BY DEF IInv
<1> QED BY <1>1, LongIoInv, PTL

\* The bounds check of the callback never refuses and never wraps.
THEOREM ChunksAlwaysInBuffer == Spec => []ChunksInBuffer
<1>1. IInv => ChunksInBuffer
  BY CountsAssumption, ChunkAssumption
     DEF IInv, ChunksInBuffer, InChunk, TypeOK, Registers
<1> QED BY <1>1, LongIoInv, PTL

\* The count never exceeds what was moved, and is exact in the three cases named.
THEOREM CountAlwaysTrue == Spec => []CountTrue
<1>1. IInv => CountTrue
  BY DEF IInv
<1> QED BY <1>1, LongIoInv, PTL

\* An error is reported exactly for a request of which nothing was moved.
THEOREM ErrorAlwaysTrue == Spec => []ErrorTrue
<1>1. IInv => ErrorTrue
  BY DEF IInv
<1> QED BY <1>1, LongIoInv, PTL
-----------------------------------------------------------------------------
(* A request ends: the safety half of Ends.                                *)

\* What is left to do, in steps of the helper: up to three for each byte that is left.
Work ==
  CASE pc = "program"  -> 0
    [] pc = "returned" -> 1
    [] pc = "chunk"    -> 3 * regs.ecx + 4
    [] pc = "dos"      -> 3 * regs.esi + (IF op = "read" THEN 3 ELSE 2)
    [] pc = "copy"     -> 3 * regs.esi + (IF op = "read" THEN 2 ELSE 3)

\* Every step of a request, whoever takes it, leaves less of it to do.
WorkDecreases ==
  [][IF pc = "program" THEN Work' = 3 * count' + 4 ELSE Work' < Work]_vars

\* The end of a chunk: there was something in it if another follows.
LEMMA NextChunkWorks ==
  ASSUME IInv, pc \in {"dos", "copy"}, NEW n \in Nat, n <= regs.ecx, NextChunk(n)
  PROVE  Work' < 3 * regs.esi + 2
<1> USE ChunkAssumption DEF IInv
<1>1. /\ regs \in Registers /\ regs.esi \in Nat /\ regs.ecx \in Nat
      /\ regs.ecx = regs.esi \/ regs.ecx = ChunkMax
  BY DEF TypeOK, Registers, InChunk
<1>2. CASE pc' = "returned"
  BY <1>1, <1>2 DEF Work
<1>3. CASE pc' # "returned"
  <2>1. /\ ~IsShort(n) /\ Remaining(n) # 0 /\ pc' = "chunk"
        /\ regs' = [regs EXCEPT !.edi = NextEdi(n), !.ecx = Remaining(n), !.eax = n]
    BY <1>3 DEF NextChunk
  <2>2. regs'.ecx = regs.esi - n
    BY <2>1, <1>1 DEF Registers, Remaining
  <2>3. n = ChunkMax /\ n > 0
    BY <2>1, <1>1 DEF IsShort, Remaining
  <2> QED BY <2>1, <2>2, <2>3, <1>1 DEF Work
<1> QED BY <1>2, <1>3

LEMMA PreWorks ==
  ASSUME IInv, NEW o \in {"read", "write"}, NEW n \in Counts, Pre(o, n)
  PROVE  pc = "program" /\ Work' = 3 * count' + 4
<1>1. regs' = [regs EXCEPT !.edi = 0, !.ecx = n % word] /\ regs \in Registers
  BY DEF IInv, TypeOK, Pre
<1>2. regs'.ecx = count'
  BY <1>1 DEF Pre, Registers
<1> QED BY <1>2 DEF Pre, Work

LEMMA HelperWorks == ASSUME IInv, Helper PROVE pc # "program" /\ Work' < Work
<1> USE ChunkAssumption DEF IInv
<1>0. regs \in Registers /\ regs.esi \in Nat /\ regs.ecx \in Nat /\ regs.eax \in Nat
  BY DEF TypeOK, Registers
<1>1. CASE Chunk
  <2>1. pc = "chunk" /\ regs'.esi = regs.ecx /\ pc' = IF op = "read" THEN "dos" ELSE "copy"
    BY <1>0, <1>1 DEF Chunk, Registers
  <2>2. op' = op
    BY <1>1 DEF Chunk
  <2> QED BY <2>1, <2>2, <1>0 DEF Work
<1>2. CASE CopyRead
  <2>1. pc = "copy" /\ op = "read" /\ regs.eax <= regs.ecx /\ NextChunk(regs.eax)
    BY <1>2 DEF CopyRead, InChunk
  <2>2. Work' < 3 * regs.esi + 2
    BY <2>1, <1>0, NextChunkWorks
  <2> QED BY <2>1, <2>2 DEF Work
<1>3. CASE CopyWrite
  BY <1>0, <1>3 DEF CopyWrite, Work
<1>4. CASE \E n \in 0 .. ChunkMax : DosReads(n) \/ DosWrites(n)
  <2>1. PICK n \in 0 .. ChunkMax : DosReads(n) \/ DosWrites(n)
    BY <1>4
  <2>2. CASE DosReads(n)
    <3>1. pc = "dos" /\ op = "read" /\ pc' = "copy" /\ op' = op /\ regs'.esi = regs.esi
      BY <2>2, <1>0 DEF DosReads, Registers
    <3> QED BY <3>1, <1>0 DEF Work
  <2>3. CASE DosWrites(n)
    <3>1. pc = "dos" /\ op = "write" /\ n \in Nat /\ n <= regs.ecx /\ NextChunk(n)
      BY <2>3 DEF DosWrites
    <3>2. Work' < 3 * regs.esi + 2
      BY <3>1, NextChunkWorks
    <3> QED BY <3>1, <3>2 DEF Work
  <2> QED BY <2>1, <2>2, <2>3
<1>5. CASE \E e \in ErrorCodes : DosFails(e)
  BY <1>0, <1>5 DEF DosFails, Work
<1>6. CASE Post
  BY <1>6 DEF Post, Work
<1> QED BY <1>1, <1>2, <1>3, <1>4, <1>5, <1>6 DEF Helper

LEMMA AbortWorks == ASSUME IInv, Abort PROVE pc # "program" /\ Work' < Work
<1>1. regs.esi \in Nat
  BY DEF IInv, TypeOK, Registers
<1> QED BY <1>1 DEF Abort, Work

\* A request of n bytes is over after at most 3n + 4 steps, DOS's answers among them,
\* short and empty ones too: each leaves less to do, and what is left to do is a natural
\* number.  That the helper goes on at all is the fairness of Ends.
THEOREM RequestsAlwaysProgress == Spec => [](Work \in Nat) /\ WorkDecreases
<1>1. IInv => Work \in Nat
  BY DEF IInv, TypeOK, Registers, Work
<1>2. IInv /\ [Next]_vars
        => [IF pc = "program" THEN Work' = 3 * count' + 4 ELSE Work' < Work]_vars
  BY PreWorks, HelperWorks, AbortWorks DEF Next
<1> QED BY <1>1, <1>2, LongIoInv, PTL DEF Spec, WorkDecreases

-----------------------------------------------------------------------------
(* The transfer that the program sees.                                     *)

\* The prefixes of the two modules.
LEMMA SamePrefix == \A k : FirstBytes(k) = Transfer!Prefix(k)
BY DEF FirstBytes, Transfer!Prefix

LEMMA InitTransfer == Init => Transfer!Init
<1>1. NoBytes = Transfer!Prefix(0)
  BY DEF NoBytes, Transfer!Prefix
<1> QED BY <1>1 DEF Init, Transfer!Init

LEMMA PreAsks ==
  ASSUME IInv, NEW o \in {"read", "write"}, NEW n \in Counts, Pre(o, n)
  PROVE  Transfer!Ask
<1>1. NoBytes = Transfer!Prefix(0)
  BY DEF NoBytes, Transfer!Prefix
<1>2. count' \in Nat
  <2>1. TypeOK'
    BY PreKeeps DEF IInv
  <2> QED BY <2>1 DEF TypeOK
<1> QED BY <1>1, <1>2 DEF Pre, Transfer!Ask

\* A step that brings more of the request arrives; one that brings nothing is hidden.
LEMMA MoreArrives ==
  ASSUME IInv, IInv', pc \in {"dos", "copy"}, pc' # "program",
         UNCHANGED <<count, failed, answer>>, Delivered' >= Delivered
  PROVE  Transfer!Arrive \/ UNCHANGED Transfer!vars
<1> USE DEF IInv
<1>1. /\ moved = Transfer!Prefix(Delivered) /\ moved' = Transfer!Prefix(Delivered')
      /\ failed = 0
  BY SamePrefix DEF BytesInPlace, Fresh, Busy
<1>2. Delivered \in 0 .. count /\ Delivered' \in 0 .. count
  <2>1. pc \in {"chunk", "dos", "copy", "returned"} => Delivered \in 0 .. count
    BY DEF Delivered, Within, Busy, TypeOK, Registers, InChunk
  <2>2. pc' \in {"chunk", "dos", "copy", "returned"} => Delivered' \in 0 .. count'
    BY DEF Delivered, Within, Busy, TypeOK, Registers, InChunk
  <2> QED BY <2>1, <2>2 DEF TypeOK
<1>3. CASE Delivered' = Delivered
  BY <1>1, <1>3 DEF Transfer!vars
<1>4. CASE Delivered < Delivered'
  BY <1>1, <1>2, <1>4 DEF Transfer!Arrive
<1> QED BY <1>2, <1>3, <1>4

LEMMA PostAnswers == ASSUME IInv, Post PROVE Transfer!Answer
<1> USE DEF IInv
<1>1. /\ pc = "returned" /\ pc' = "program" /\ UNCHANGED <<count, moved, failed>>
      /\ answer' = {[cf |-> io.error, eax |-> IF io.error THEN io.code ELSE regs.eax % word]}
  BY DEF Post
<1>2. /\ moved = Transfer!Prefix(pos) /\ pos \in 0 .. count
      /\ count \in Nat /\ count < word /\ word \in Nat \ {0}
  BY <1>1, SamePrefix, WordsAssumption, ChunkAssumption
     DEF BytesInPlace, Delivered, Within, Busy, TypeOK
<1>3. CASE io.error
  <2>1. failed # 0 /\ pos = 0 /\ io.code = failed
    BY <1>1, <1>3 DEF ErrorTrue
  <2> QED BY <1>1, <1>2, <1>3, <2>1 DEF Transfer!Answer
<1>4. CASE ~io.error
  <2>1. /\ regs.eax <= pos /\ regs.eax \in Nat
        /\ failed = 0 \/ pos # 0
        /\ pos = count \/ failed # 0 => regs.eax = pos
    BY <1>1, <1>4 DEF ErrorTrue, CountTrue, TypeOK, Registers
  <2>2. regs.eax % word = regs.eax
    <3>1. regs.eax < word
      BY <1>2, <2>1
    <3>2. \A k \in Nat, w \in Nat \ {0} : k < w => k % w = k
      BY SMTT(30)
    <3> QED BY <1>2, <2>1, <3>1, <3>2
  <2>3. answer' = {[cf |-> FALSE, eax |-> regs.eax]}
    <3>1. io.error = FALSE
      BY <1>4 DEF TypeOK
    <3> QED BY <1>1, <2>2, <3>1
  <2>4. \E n \in 0 .. pos :
          /\ pos = count \/ failed # 0 => n = pos
          /\ answer' = {[cf |-> FALSE, eax |-> n]}
    <3>1. regs.eax \in 0 .. pos
      BY <1>2, <2>1
    <3> QED BY <2>1, <2>3, <3>1
  <2> QED BY <1>1, <1>2, <2>1, <2>4 DEF Transfer!Answer
<1> QED BY <1>3, <1>4

LEMMA HelperTransfers ==
  ASSUME IInv, IInv', Helper
  PROVE  Transfer!Next \/ UNCHANGED Transfer!vars
<1> USE DEF IInv
<1>1. CASE Chunk
  BY <1>1 DEF Chunk, Transfer!vars
<1>2. CASE CopyRead
  <2>1. pc' \in {"chunk", "returned"} /\ UNCHANGED <<count, failed, answer, pos>>
    BY <1>2 DEF CopyRead, NextChunk
  <2>2. Delivered' >= Delivered
    BY <1>2, <2>1 DEF CopyRead, Delivered, TypeOK, Registers
  <2> QED BY <1>2, <2>1, <2>2, MoreArrives DEF CopyRead, Transfer!Next
<1>3. CASE CopyWrite
  BY <1>3 DEF CopyWrite, Transfer!vars
<1>4. CASE \E n \in 0 .. ChunkMax : DosReads(n) \/ DosWrites(n)
  <2>1. PICK n \in 0 .. ChunkMax : DosReads(n) \/ DosWrites(n)
    BY <1>4
  <2>2. CASE DosReads(n)
    BY <2>2 DEF DosReads, Transfer!vars
  <2>3. CASE DosWrites(n)
    <3>1. /\ pc = "dos" /\ op = "write" /\ pc' \in {"chunk", "returned"}
          /\ UNCHANGED <<count, failed, answer, op>> /\ pos' = pos + n
      BY <2>3 DEF DosWrites, NextChunk
    <3>2. Delivered' >= Delivered
      BY <3>1, ChunkAssumption DEF Delivered, TypeOK
    <3> QED BY <3>1, <3>2, MoreArrives DEF Transfer!Next
  <2> QED BY <2>1, <2>2, <2>3
<1>5. CASE \E e \in ErrorCodes : DosFails(e)
  <2>1. PICK e \in ErrorCodes : DosFails(e)
    BY <1>5
  <2>2. e \in Nat \ {0} /\ failed = 0
    BY <2>1, CountsAssumption, ChunkAssumption DEF DosFails, Fresh, Busy
  <2> QED BY <2>1, <2>2 DEF DosFails, Transfer!Fail, Transfer!Next
<1>6. CASE Post
  BY <1>6, PostAnswers DEF Transfer!Next
<1> QED BY <1>1, <1>2, <1>3, <1>4, <1>5, <1>6 DEF Helper

\* Pre, the helper, its callback and Post carry out one transfer from the front, for
\* chunks of any size, and tell of it what they should.
THEOREM TransferImplemented == Spec => TransferSpec
<1>1. IInv /\ IInv' /\ [Next]_vars => [Transfer!Next]_(Transfer!vars)
  <2> SUFFICES ASSUME IInv, IInv', [Next]_vars
               PROVE  Transfer!Next \/ UNCHANGED Transfer!vars
    OBVIOUS
  <2>1. CASE \E o \in {"read", "write"}, n \in Counts : Pre(o, n)
    BY <2>1, PreAsks DEF Transfer!Next
  <2>2. CASE Helper
    BY <2>2, HelperTransfers
  <2>3. CASE Abort
    BY <2>3 DEF Abort, Transfer!Die, Transfer!Next
  <2>4. CASE UNCHANGED vars
    BY <2>4 DEF vars, Transfer!vars
  <2> QED BY <2>1, <2>2, <2>3, <2>4 DEF Next
<1> QED BY <1>1, InitTransfer, LongIoInv, PTL DEF Spec, TransferSpec, Transfer!Spec
=============================================================================
