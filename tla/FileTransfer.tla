----------------------------- MODULE FileTransfer -----------------------------
(***************************************************************************)
(* What a program is promised of one read or write, however long: what it   *)
(* asks for arrives from the front and in order, as far as DOS goes, and    *)
(* the answer tells of this request.                                       *)
(***************************************************************************)
EXTENDS Naturals

VARIABLES
  busy,      \* the program waits for its request
  asked,     \* how much it asked for
  arrived,   \* what each byte that arrived is: its offset in the source
  fault,     \* the error that DOS met, 0 if none
  answer     \* CF and EAX, if the program was told of its request

vars == <<busy, asked, arrived, fault, answer>>

Prefix(k) == [o \in 0 .. k - 1 |-> o]

Init ==
  /\ busy = FALSE
  /\ asked = 0
  /\ arrived = Prefix(0)
  /\ fault = 0
  /\ answer = {}

Ask ==
  /\ ~busy
  /\ busy' = TRUE
  /\ asked' \in Nat
  /\ arrived' = Prefix(0)
  /\ fault' = 0
  /\ answer' = {}

\* More of it arrives, right behind the rest.
Arrive ==
  /\ busy /\ fault = 0
  /\ \E j, k \in 0 .. asked : j < k /\ arrived = Prefix(j) /\ arrived' = Prefix(k)
  /\ UNCHANGED <<busy, asked, fault, answer>>

\* DOS meets an error, and stops there.
Fail ==
  /\ busy /\ fault = 0
  /\ fault' \in Nat \ {0}
  /\ UNCHANGED <<busy, asked, arrived, answer>>

\* An error with nothing done is told as such, and any other end as a count: of all
\* that arrived when that is the whole request, or all that there was before an error.
Answer ==
  /\ busy
  /\ busy' = FALSE
  /\ \E j \in 0 .. asked :
       /\ arrived = Prefix(j)
       /\ \/ fault # 0 /\ j = 0 /\ answer' = {[cf |-> TRUE, eax |-> fault]}
          \/ /\ fault = 0 \/ j # 0
             /\ \E n \in 0 .. j :
                  /\ j = asked \/ fault # 0 => n = j
                  /\ answer' = {[cf |-> FALSE, eax |-> n]}
  /\ UNCHANGED <<asked, arrived, fault>>

\* The program dies in DOS, and is told nothing.
Die ==
  /\ busy
  /\ busy' = FALSE
  /\ UNCHANGED <<asked, arrived, fault, answer>>

Next == Ask \/ Arrive \/ Fail \/ Answer \/ Die

Spec == Init /\ [][Next]_vars
=============================================================================
