---------------------------- MODULE MemoryService ----------------------------
(***************************************************************************)
(* What DOS promises a protected mode client with INT 21h AH=48h, 49h and  *)
(* 4Ah: blocks that do not overlap, that are freed when their owner says   *)
(* so and not before, and that are all given back when it exits.           *)
(***************************************************************************)
CONSTANT Base          \* where a block can start

VARIABLES
  held,                \* where the client's blocks start
  reply                \* the last answer

Reply(op, base, ok) == [op |-> op, base |-> base, ok |-> ok]

Init == held = {} /\ reply = Reply("exit", 0, TRUE)

\* A new client may be given one block of the translator's own.
Enter ==
  /\ held = {}
  /\ held' = {} \/ \E b \in Base : held' = {b}
  /\ reply' = Reply("enter", 0, TRUE)

Allocate ==
  \/ \E b \in Base \ held :
       held' = held \cup {b} /\ reply' = Reply("allocate", b, TRUE)
  \/ held' = held /\ reply' = Reply("allocate", 0, FALSE)

\* Succeeds for the client's own blocks and for no others.
Free(b) ==
  /\ held' = held \ {b}
  /\ reply' = Reply("free", b, b \in held)

\* A block may move, but only into room nobody else has.
Resize(b) ==
  \/ /\ b \in held
     /\ \E c \in {b} \cup (Base \ held) : held' = (held \ {b}) \cup {c}
     /\ reply' = Reply("resize", b, TRUE)
  \/ held' = held /\ reply' = Reply("resize", b, FALSE)

Exit ==
  /\ held' = {}
  /\ reply' = Reply("exit", 0, TRUE)

Next ==
  \/ Enter \/ Allocate \/ Exit
  \/ Free(reply'.base) \/ Resize(reply'.base)

Spec == Init /\ [][Next]_<<held, reply>>
=============================================================================
