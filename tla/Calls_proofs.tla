----------------------------- MODULE Calls_proofs -----------------------------
(***************************************************************************)
(* Proofs about the way into the provider and back, for any programs and    *)
(* any depth: a call returns to where it came from exactly if nothing came  *)
(* into it.                                                                *)
(***************************************************************************)
EXTENDS Calls, SequenceTheorems, TLAPS

\* While nothing has come into the innermost activity, the static words and the frames
\* are its own.
Own ==
  Depth > 0 /\ ~Innermost.disturbed /\ ~lost =>
    /\ saved_context = Innermost.place
    /\ tmp_ebp = Innermost.place
    /\ frames[Innermost.place] = Innermost.who
    /\ Innermost.kind = "call" => tmp_ss_esp = Innermost.who

\* Of the activities in flight, something came into all but the innermost.
OnlyLast == \A i \in 1 .. Depth : ~active[i].disturbed => i = Depth

\* Calls keep their frames on the provider's stack, and what came into one has taken its
\* way back or its frames.
Spoilt ==
  \A i \in 1 .. Depth : active[i].kind = "call" =>
    /\ active[i].place = Ours
    /\ active[i].disturbed => ~(saved_context = Ours /\ frames[Ours] = active[i].who)

IInv == TypeOK /\ OnlyLast /\ Own /\ Spoilt /\ AloneAnswered

-----------------------------------------------------------------------------
LEMMA Depths ==
  ASSUME TypeOK
  PROVE  /\ Depth \in Nat /\ DOMAIN active = 1 .. Depth
         /\ \A i \in 1 .. Depth : active[i] \in Activity
         /\ Depth > 0 => Innermost \in Activity
BY DEF TypeOK, Depth, Innermost

\* The activities around one that is interrupted.
LEMMA DisturbedActive ==
  ASSUME TypeOK
  PROVE  /\ Disturbed \in Seq(Activity) /\ Len(Disturbed) = Depth
         /\ \A i \in 1 .. Depth : Disturbed[i] \in Activity /\ Disturbed[i].disturbed
         /\ \A i \in 1 .. Depth : /\ Disturbed[i].kind = active[i].kind
                                /\ Disturbed[i].who = active[i].who
                                /\ Disturbed[i].place = active[i].place
<1>1. Depth \in Nat /\ DOMAIN active = 1 .. Depth /\ \A i \in 1 .. Depth : active[i] \in Activity
  BY Depths
<1>2. \A i \in 1 .. Depth : [active[i] EXCEPT !.disturbed = TRUE] \in Activity
  BY <1>1 DEF Activity
<1>3. Disturbed = [i \in 1 .. Depth |-> [active[i] EXCEPT !.disturbed = TRUE]]
  BY <1>1 DEF Disturbed
<1>4. Disturbed \in [1 .. Depth -> Activity]
  BY <1>2, <1>3
<1>5. Disturbed \in Seq(Activity) /\ Len(Disturbed) = Depth
  BY <1>1, <1>4 DEF Seq
<1>6. \A i \in 1 .. Depth : Disturbed[i].disturbed
  BY <1>1, <1>3 DEF Activity
<1>7. \A i \in 1 .. Depth : /\ Disturbed[i].kind = active[i].kind
                            /\ Disturbed[i].who = active[i].who
                            /\ Disturbed[i].place = active[i].place
  BY <1>1, <1>3 DEF Activity
<1> QED
  BY <1>4, <1>5, <1>6, <1>7

\* The activities after one has begun: it is the innermost, and only it is undisturbed.
LEMMA Begun ==
  ASSUME TypeOK, NEW kind \in {"call", "callback"}, NEW p \in Program, NEW place \in Place,
         Depth < MaxDepth, Begins(kind, p, place)
  PROVE  /\ active' \in Seq(Activity) /\ Depth' = Depth + 1 /\ Depth' > 0
         /\ Innermost' = [kind |-> kind, who |-> p, place |-> place, disturbed |-> FALSE]
         /\ OnlyLast'
         /\ \A i \in 1 .. Depth : active'[i] = Disturbed[i]
<1> DEFINE a == [kind |-> kind, who |-> p, place |-> place, disturbed |-> FALSE]
<1>1. a \in Activity
  BY DEF Activity
<1>2. active' = Append(Disturbed, a)
  BY DEF Begins
<1>3. Depth \in Nat
  BY Depths
<1>4. /\ active' \in Seq(Activity) /\ Len(active') = Depth + 1
      /\ active'[Depth + 1] = a
      /\ \A i \in 1 .. Depth : active'[i] = Disturbed[i]
  BY <1>1, <1>2, <1>3, DisturbedActive
<1>5. Depth' = Depth + 1
  BY <1>4 DEF Depth
<1>6. OnlyLast'
  BY <1>3, <1>4, <1>5, DisturbedActive DEF OnlyLast
<1> QED
  BY <1>3, <1>4, <1>5, <1>6 DEF Innermost

\* The activities after the innermost has returned: something came into all of them.
LEMMA Ended ==
  ASSUME TypeOK, OnlyLast, Depth > 0, active' = Front(active)
  PROVE  /\ active' \in Seq(Activity) /\ Depth' = Depth - 1
         /\ \A i \in 1 .. Depth' : active'[i] = active[i] /\ active'[i].disturbed
<1>1. Depth \in Nat /\ \A i \in 1 .. Depth : active[i] \in Activity
  BY Depths
<1>2. /\ Front(active) \in Seq(Activity) /\ Len(Front(active)) = Depth - 1
      /\ \A i \in 1 .. Depth - 1 : Front(active)[i] = active[i]
  <2>1. Front(active) = SubSeq(active, 1, Depth - 1)
    BY DEF Front, Depth
  <2>2. \A i \in 1 .. Depth - 1 : active[i] \in Activity
    BY <1>1
  <2>3. /\ SubSeq(active, 1, Depth - 1) \in Seq(Activity)
        /\ Len(SubSeq(active, 1, Depth - 1)) = IF 1 <= Depth - 1 THEN Depth - 1 - 1 + 1 ELSE 0
        /\ \A i \in 1 .. Depth - 1 - 1 + 1 : SubSeq(active, 1, Depth - 1)[i] = active[1 + i - 1]
    BY <1>1, <2>2, SubSeqProperties
  <2>4. Depth - 1 - 1 + 1 = Depth - 1 /\ \A i \in 1 .. Depth - 1 : 1 + i - 1 = i
    BY <1>1
  <2> QED
    BY <1>1, <2>1, <2>3, <2>4
<1>3. Depth' = Depth - 1
  BY <1>2 DEF Depth
<1>4. \A i \in 1 .. Depth - 1 : active[i].disturbed
  BY <1>1 DEF OnlyLast, Activity
<1> QED
  BY <1>2, <1>3, <1>4

-----------------------------------------------------------------------------
LEMMA InitInv == Init => IInv
<1> SUFFICES ASSUME Init PROVE IInv
  OBVIOUS
<1>1. Depth = 0
  BY DEF Init, Depth
<1>2. TypeOK
  BY <1>1, MaxDepthAssumption DEF Init, TypeOK, Place, Ours, Owner
<1> QED
  BY <1>1, <1>2 DEF Init, IInv, OnlyLast, Own, Spoilt, AloneAnswered, NoReturn

LEMMA Int21Step ==
  ASSUME IInv, NEW p \in Program, Int21(p)
  PROVE  IInv'
<1>1. TypeOK /\ Depth < MaxDepth /\ Begins("call", p, Ours) /\ Ours \in Place
  BY MaxDepthAssumption DEF IInv, Int21, Place, Ours
<1>2. /\ active' \in Seq(Activity) /\ Depth' = Depth + 1 /\ OnlyLast'
      /\ Innermost' = [kind |-> "call", who |-> p, place |-> Ours, disturbed |-> FALSE]
      /\ \A i \in 1 .. Depth : active'[i] = Disturbed[i]
  BY <1>1, Begun
<1>3. /\ frames' = [frames EXCEPT ![Ours] = p] /\ tmp_ss_esp' = p
      /\ tmp_ebp' = Ours /\ saved_context' = Ours
      /\ UNCHANGED <<routine_on, returned, lost>>
  BY DEF Int21, Stored, EbpSet
<1>4. TypeOK'
  <2>1. p \in Owner /\ frames' \in [Place -> Owner] /\ Ours \in Place
    BY <1>1, <1>3 DEF TypeOK, Owner
  <2>2. Depth' <= MaxDepth
    BY <1>1, <1>2, Depths, MaxDepthAssumption
  <2> QED
    BY <1>1, <1>2, <1>3, <2>1, <2>2 DEF TypeOK
<1>5. Own'
  BY <1>1, <1>2, <1>3 DEF Own, TypeOK
<1>6. Spoilt'
  <2>1. \A i \in 1 .. Depth : active[i].kind = "call" => active[i].who # p
    BY Depths, <1>1 DEF Int21, Waiting
  <2>2. frames'[Ours] = p
    BY <1>1, <1>3 DEF TypeOK
  <2>3. \A i \in 1 .. Depth : active'[i].kind = "call" =>
          active'[i].place = Ours /\ active'[i].who # p
    BY <1>1, <1>2, <2>1, DisturbedActive DEF IInv, Spoilt
  <2>4. \A i \in 1 .. Depth' : i \in 1 .. Depth \/ active'[i] = Innermost'
    BY <1>1, <1>2, Depths DEF Innermost
  <2> QED
    BY <1>2, <2>2, <2>3, <2>4 DEF Spoilt
<1> QED
  BY <1>2, <1>3, <1>4, <1>5, <1>6 DEF IInv, AloneAnswered

LEMMA CallbackStep ==
  ASSUME IInv, NEW valid \in BOOLEAN, Callback(valid)
  PROVE  IInv'
<1>1. TypeOK /\ Depth \in Nat /\ Depth < MaxDepth
  BY Depths DEF IInv, Callback
<1>2. CASE lost' /\ UNCHANGED <<active, frames, tmp_ss_esp, tmp_ebp, saved_context, routine_on, returned>>
  BY <1>2 DEF IInv, TypeOK, OnlyLast, Own, Spoilt, AloneAnswered, Depth, Innermost
<1>3. CASE valid /\ tmp_ss_esp # Nobody /\ ~lost'
  <2>1. tmp_ss_esp \in Program /\ Depth + 1 \in Place
    BY <1>1, <1>3, MaxDepthAssumption DEF TypeOK, Place, Owner
  <2>2. /\ Begins("callback", tmp_ss_esp, Depth + 1)
        /\ frames' = [frames EXCEPT ![Depth + 1] = tmp_ss_esp]
        /\ tmp_ebp' = Depth + 1 /\ saved_context' = Depth + 1 /\ routine_on' = tmp_ss_esp
        /\ UNCHANGED <<tmp_ss_esp, returned, lost>>
    BY <1>3 DEF Callback, EbpSet
  <2>3. /\ active' \in Seq(Activity) /\ Depth' = Depth + 1 /\ OnlyLast'
        /\ Innermost' = [kind |-> "callback", who |-> tmp_ss_esp, place |-> Depth + 1, disturbed |-> FALSE]
        /\ \A i \in 1 .. Depth : active'[i] = Disturbed[i]
    BY <1>1, <2>1, <2>2, Begun
  <2>4. TypeOK'
    BY <1>1, <2>1, <2>2, <2>3, MaxDepthAssumption DEF TypeOK
  <2>5. Own'
    BY <2>1, <2>2, <2>3, <1>1 DEF Own, TypeOK
  <2>6. Spoilt'
    <3>1. saved_context' # Ours
      BY <1>1, <2>2 DEF Ours
    <3>2. \A i \in 1 .. Depth : active'[i].kind = "call" => active'[i].place = Ours
      BY <1>1, <2>3, DisturbedActive DEF IInv, Spoilt
    <3>3. \A i \in 1 .. Depth' : i \in 1 .. Depth \/ active'[i] = Innermost'
      BY <1>1, <2>3 DEF Innermost
    <3> QED
      BY <2>3, <3>1, <3>2, <3>3 DEF Spoilt
  <2> QED
    BY <2>2, <2>3, <2>4, <2>5, <2>6 DEF IInv, AloneAnswered
<1> QED
  BY <1>2, <1>3 DEF Callback

LEMMA EntryStep == ASSUME IInv, Entry PROVE IInv'
<1>1. TypeOK /\ Depth \in Nat
  BY Depths DEF IInv
<1>2. /\ active' \in Seq(Activity) /\ Depth' = Depth
      /\ \A i \in 1 .. Depth' : active'[i].disturbed
  BY <1>1, DisturbedActive DEF Entry, Depth
<1>3. TypeOK'
  BY <1>1, <1>2 DEF Entry, TypeOK, Owner
<1>4. OnlyLast' /\ Own'
  BY <1>1, <1>2 DEF OnlyLast, Own, Innermost
<1>5. Spoilt'
  <2>1. frames'[Ours] = Nobody
    BY <1>1, MaxDepthAssumption DEF Entry, TypeOK, Place, Ours
  <2>2. \A i \in 1 .. Depth : /\ active'[i].who \in Program
                              /\ active'[i].kind = "call" => active'[i].place = Ours
    BY <1>1, DisturbedActive DEF IInv, Spoilt, Entry, Activity
  <2> QED
    BY <1>2, <2>1, <2>2, ProgramAssumption DEF Spoilt
<1> QED
  BY <1>3, <1>4, <1>5 DEF IInv, Entry, AloneAnswered

LEMMA ReturnStep == ASSUME IInv, Return PROVE IInv'
<1> DEFINE found == IF saved_context = Innermost.place THEN Found ELSE Nobody
<1>1. /\ TypeOK /\ OnlyLast /\ Own /\ Depth \in Nat /\ Depth > 0 /\ ~lost
      /\ Innermost \in Activity /\ Depth <= MaxDepth
  BY Depths DEF IInv, Return, TypeOK
<1>2. /\ returned' = [kind |-> Innermost.kind, who |-> Innermost.who,
                      disturbed |-> Innermost.disturbed, found |-> found]
      /\ IF found = Innermost.who THEN active' = Front(active) /\ UNCHANGED lost
                                  ELSE lost' = TRUE /\ UNCHANGED active
      /\ UNCHANGED <<frames, tmp_ss_esp, tmp_ebp, saved_context, routine_on>>
  BY DEF Return
<1>3. found \in Owner
  BY <1>1 DEF Found, TypeOK, Owner
<1>4. returned' \in Result
  BY <1>1, <1>2, <1>3 DEF Result, Activity
<1>5. AloneAnswered'
  <2>1. ~Innermost.disturbed => found = Innermost.who
    BY <1>1 DEF Own, Found
  <2>2. Innermost.kind = "call" /\ Innermost.disturbed => found # Innermost.who
    <3>1. Innermost.kind = "call" /\ Innermost.disturbed =>
            /\ Innermost.place = Ours
            /\ ~(saved_context = Ours /\ frames[Ours] = Innermost.who)
      BY <1>1 DEF IInv, Spoilt, Innermost
    <3>2. Innermost.who # Nobody
      BY <1>1, ProgramAssumption DEF Activity
    <3> QED
      BY <3>1, <3>2 DEF Found
  <2> QED
    BY <1>2, <2>1, <2>2 DEF AloneAnswered
<1>6. CASE active' = Front(active) /\ UNCHANGED lost
  <2>1. /\ active' \in Seq(Activity) /\ Depth' = Depth - 1
        /\ \A i \in 1 .. Depth' : active'[i] = active[i] /\ active'[i].disturbed
    BY <1>1, <1>6, Ended
  <2>2. TypeOK'
    BY <1>1, <1>2, <1>4, <1>6, <2>1, MaxDepthAssumption DEF TypeOK
  <2>3. OnlyLast' /\ Own'
    BY <1>1, <2>1 DEF OnlyLast, Own, Innermost
  <2>4. Spoilt'
    BY <1>1, <1>2, <2>1 DEF IInv, Spoilt
  <2> QED
    BY <1>5, <2>2, <2>3, <2>4 DEF IInv
<1>7. CASE lost' = TRUE /\ UNCHANGED active
  BY <1>1, <1>2, <1>4, <1>5, <1>7 DEF IInv, TypeOK, OnlyLast, Own, Spoilt, Depth
<1> QED
  BY <1>2, <1>6, <1>7

LEMMA NextInv == IInv /\ [Next]_vars => IInv'
<1> SUFFICES ASSUME IInv, [Next]_vars PROVE IInv'
  OBVIOUS
<1>1. CASE UNCHANGED vars
  BY <1>1 DEF vars, IInv, TypeOK, OnlyLast, Own, Spoilt, AloneAnswered, Depth, Innermost
<1> QED
  BY <1>1, Int21Step, CallbackStep, EntryStep, ReturnStep DEF Next

LEMMA CallsInv == Spec => []IInv
BY InitInv, NextInv, PTL DEF Spec

\* Whatever came before, a call or callback into which nothing else came finds its own
\* registers and stack; a call into which anything came never finds them again.
THEOREM AloneAlwaysAnswered == Spec => []AloneAnswered
<1>1. IInv => AloneAnswered
  BY DEF IInv
<1> QED
  BY <1>1, CallsInv, PTL

\* A mouse routine that is the first to come into a call runs on the stack of the
\* program that waits in it.
THEOREM RoutineAlwaysOnCaller == Spec => RoutineOnCaller
<1>1. IInv /\ [Next]_vars
        => [Callback(TRUE) /\ Depth > 0 /\ Innermost.kind = "call" /\ ~Innermost.disturbed
              => routine_on' = Innermost.who]_vars
  <2> SUFFICES ASSUME IInv, Callback(TRUE), Depth > 0, Innermost.kind = "call",
                      ~Innermost.disturbed
               PROVE  routine_on' = Innermost.who
    OBVIOUS
  <2>1. tmp_ss_esp = Innermost.who /\ Innermost \in Activity
    BY Depths DEF IInv, Own, Callback
  <2>2. tmp_ss_esp # Nobody
    BY <2>1, ProgramAssumption DEF Activity
  <2> QED
    BY <2>1, <2>2 DEF Callback
<1> QED
  BY <1>1, CallsInv, PTL DEF Spec, RoutineOnCaller
=============================================================================
