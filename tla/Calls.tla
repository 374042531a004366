-------------------------------- MODULE Calls --------------------------------
(***************************************************************************)
(* How the resident provider gets from a program to C and back (entry.S,    *)
(* calls.c, msdh_inc.h): the stacks it switches to and the static words it  *)
(* finds its way back by.  INT 21h runs int21_handler on the provider's     *)
(* stack, a mouse callback runs its handler on the host's, and both go on   *)
(* through do_pm_int_call to code outside, in which anything may happen.    *)
(*                                                                         *)
(* Registers and stack pointers are named by the program that they are of.  *)
(* A place is where the C frames of an activity are: Ours, the top of the   *)
(* provider's stack, or a depth of the host's stack.  INT 21h from a stack in *)
(* the provider's own data segment, which is not switched, is left out.     *)
(***************************************************************************)
EXTENDS Integers, Sequences, SequencesExt

CONSTANTS
  Program,    \* what calls INT 21h: clients and the mouse routines of clients
  is_32,      \* their bitness
  Nobody,     \* no program
  MaxDepth    \* a bound on the activities in flight

ASSUME ProgramAssumption == Nobody \notin Program /\ is_32 \in [Program -> BOOLEAN]
ASSUME MaxDepthAssumption == MaxDepth \in Nat

VARIABLES
  active,    \* the activities in flight, the innermost last
  frames,    \* whose C frames, with the registers in them, are at each place
  tmp_ss_esp, tmp_ebp, saved_context,   \* the static words
  routine_on,   \* the program whose stack the last mouse routine was given
  returned,  \* the last return: whose activity it was, and whose registers and stack it found
  lost       \* control has gone to where nothing is known

vars == <<active, frames, tmp_ss_esp, tmp_ebp, saved_context, routine_on, returned, lost>>

Ours  == 0
Place == 0 .. MaxDepth

\* who: the program that called; for a callback, the program whose stack it was given.
\* disturbed: something else came in.
Activity == [kind : {"call", "callback"}, who : Program, place : Place, disturbed : BOOLEAN]

Owner  == Program \cup {Nobody}
Result == [kind : {"call", "callback"}, who : Program, disturbed : BOOLEAN, found : Owner]
NoReturn == [kind |-> "none"]

Init ==
  /\ active = <<>>
  /\ frames = [p \in Place |-> Nobody]
  /\ tmp_ss_esp = Nobody
  /\ tmp_ebp = Ours
  /\ saved_context = Ours
  /\ routine_on = Nobody
  /\ returned = NoReturn
  /\ lost = FALSE

-----------------------------------------------------------------------------
Depth    == Len(active)
Innermost == active[Depth]

Disturbed == [i \in DOMAIN active |-> [active[i] EXCEPT !.disturbed = TRUE]]
Begins(kind, p, place) ==
  active' = Append(Disturbed, [kind |-> kind, who |-> p, place |-> place, disturbed |-> FALSE])

\* A program waits for its call.
Waiting == {active[i].who : i \in {j \in DOMAIN active : active[j].kind = "call"}}

\* dos32_int21 and dos16_int21 store ss and esp of the program, and a faulty variant,
\* in which the second does not.
StoredFor32(p) == IF is_32[p] THEN p ELSE tmp_ss_esp
Stored(p) == p

\* A faulty variant of do_int: the frame of an earlier activity is kept.
EbpKept(place) == tmp_ebp
EbpSet(place)  == place

\* dos32_int21 or dos16_int21, do_int, int21_handler and do_pm_int_call32 or 16 up to
\* the call of the old handler.
Int21(p) ==
  /\ ~lost
  /\ p \notin Waiting
  /\ Depth < MaxDepth
  /\ Begins("call", p, Ours)
  /\ frames' = [frames EXCEPT ![Ours] = p]
  /\ tmp_ss_esp' = Stored(p)
  /\ tmp_ebp' = EbpSet(Ours)
  /\ saved_context' = Ours
  /\ UNCHANGED <<routine_on, returned, lost>>

\* MSDOS_rmcb_call1 or 2 up to the call of the mouse routine: do_int takes ss and esp
\* for the context from what INT 21h stored last.  Without a routine do_pm_call calls
\* the callback's own return address on that stack.
Callback(valid) ==
  /\ ~lost
  /\ Depth < MaxDepth
  /\ \/ /\ valid /\ tmp_ss_esp # Nobody
        /\ Begins("callback", tmp_ss_esp, Depth + 1)
        /\ frames' = [frames EXCEPT ![Depth + 1] = tmp_ss_esp]
        /\ tmp_ebp' = EbpSet(Depth + 1)
        /\ saved_context' = Depth + 1
        /\ routine_on' = tmp_ss_esp
        /\ UNCHANGED <<tmp_ss_esp, returned, lost>>
     \/ /\ ~valid \/ tmp_ss_esp = Nobody
        /\ lost' = TRUE
        /\ UNCHANGED <<active, frames, tmp_ss_esp, tmp_ebp, saved_context, routine_on, returned>>

\* common_entry: the host tells of a client, on the provider's stack from its top.
Entry ==
  /\ ~lost
  /\ active' = Disturbed
  /\ frames' = [frames EXCEPT ![Ours] = Nobody]
  /\ UNCHANGED <<tmp_ss_esp, tmp_ebp, saved_context, routine_on, returned, lost>>

\* The rest of do_pm_int_call and of do_int: C goes on in the frames that
\* saved_context leads to, and the program gets what is in them.
Found == IF tmp_ebp = saved_context THEN frames[saved_context] ELSE Nobody

Return ==
  /\ ~lost /\ Depth > 0
  /\ LET a     == Innermost
         found == IF saved_context = a.place THEN Found ELSE Nobody
     IN /\ returned' = [kind |-> a.kind, who |-> a.who, disturbed |-> a.disturbed, found |-> found]
        /\ IF found = a.who
             THEN active' = Front(active) /\ UNCHANGED lost
             ELSE lost' = TRUE /\ UNCHANGED active
  /\ UNCHANGED <<frames, tmp_ss_esp, tmp_ebp, saved_context, routine_on>>

Next ==
  \/ \E p \in Program : Int21(p)
  \/ \E valid \in BOOLEAN : Callback(valid)
  \/ Entry
  \/ Return

Spec == Init /\ [][Next]_vars

-----------------------------------------------------------------------------
(* Properties.                                                             *)

TypeOK ==
  /\ active \in Seq(Activity) /\ Depth <= MaxDepth
  /\ frames \in [Place -> Owner]
  /\ tmp_ss_esp \in Owner
  /\ tmp_ebp \in Place /\ saved_context \in Place
  /\ routine_on \in Owner
  /\ returned \in Result \cup {NoReturn}
  /\ lost \in BOOLEAN

\* Whatever earlier calls and callbacks left in the static words and on the provider's
\* stack, a call or callback into which nothing else came returns with the registers
\* and the stack that it came with; and a call into which anything came never does, even
\* if all of that has returned long since.
AloneAnswered ==
  returned # NoReturn =>
    /\ ~returned.disturbed => returned.found = returned.who
    /\ returned.kind = "call" /\ returned.disturbed => returned.found # returned.who

\* A mouse routine that comes into a call before anything else does gets the stack of
\* the program that waits in this call, and no stack of another call's.
RoutineOnCaller ==
  [][Callback(TRUE) /\ Depth > 0 /\ Innermost.kind = "call" /\ ~Innermost.disturbed
       => routine_on' = Innermost.who]_vars
=============================================================================
