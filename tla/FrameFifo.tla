------------------------------ MODULE FrameFifo ------------------------------
(***************************************************************************)
(* What the receive path promises to the protocol code above it, and no    *)
(* more: every frame the controller accepts is served, once, in the order  *)
(* of acceptance.  Frames are numbered in that order; `accepted' counts    *)
(* them, and `served' lists the frames handed over so far.                 *)
(***************************************************************************)
EXTENDS Naturals, Sequences

VARIABLES accepted, served

fifoVars == <<accepted, served>>

Init ==
  /\ accepted = 0
  /\ served = <<>>

(* The controller has stored one more frame. *)
Accept ==
  /\ accepted' = accepted + 1
  /\ UNCHANGED served

(* The oldest frame not yet served is handed to the protocol code. *)
Serve ==
  /\ Len(served) < accepted
  /\ served' = Append(served, Len(served) + 1)
  /\ UNCHANGED accepted

Next == Accept \/ Serve

Spec == Init /\ [][Next]_fifoVars

=============================================================================
