----------------------------- MODULE RemoteLamp -----------------------------
(***************************************************************************)
(* What a client of the www server sees of the LED: a lamp it can set.  A  *)
(* request takes effect between being made and being answered, the answer  *)
(* tells the state it was set to, and nothing else changes the lamp.       *)
(***************************************************************************)
EXTENDS Naturals

VARIABLES
  lamp,      (* the lamp is on                                             *)
  request,   (* <<the state asked for>>, or <<>> if nothing is asked       *)
  answer     (* <<the state told>>, or <<>> before there is an answer      *)

vars == <<lamp, request, answer>>

Init == lamp = FALSE /\ request = <<>> /\ answer = <<>>

Ask ==
  /\ request = <<>>
  /\ \E on \in BOOLEAN : request' = <<on>>
  /\ answer' = <<>>
  /\ UNCHANGED lamp

Apply ==
  /\ request # <<>>
  /\ lamp' = request[1]
  /\ UNCHANGED <<request, answer>>

Answer ==
  /\ request = <<lamp>>
  /\ answer' = request
  /\ request' = <<>>
  /\ UNCHANGED lamp

(* The answer does not come: the request was carried out all the same.     *)
Abandon ==
  /\ request = <<lamp>>
  /\ request' = <<>>
  /\ UNCHANGED <<lamp, answer>>

Next == Ask \/ Apply \/ Answer \/ Abandon

Spec == Init /\ [][Next]_vars
=============================================================================
