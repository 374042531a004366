--------------------------- MODULE TransferBuffer ---------------------------
(***************************************************************************)
(* What a call that goes through the transfer buffer is promised: the      *)
(* buffer is its own from the moment it takes it until it gives it back,    *)
(* and the application finds its own pages in the EMS window whenever       *)
(* nobody holds the buffer.                                                 *)
(***************************************************************************)
EXTENDS Naturals

VARIABLES
  holder,   \* the call that holds the buffer, 0 if none
  window    \* what the EMS page frame shows

Init == holder = 0 /\ window = "app"

Take ==
  /\ holder = 0
  /\ holder' \in Nat /\ holder' # 0
  /\ window' = "xbuf"

Give ==
  /\ holder # 0
  /\ holder' = 0
  /\ window' = "app"

Next == Take \/ Give

Spec == Init /\ [][Next]_<<holder, window>>
=============================================================================
