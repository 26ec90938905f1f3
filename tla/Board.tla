-------------------------------- MODULE Board --------------------------------
(***************************************************************************)
(* The whole program between two starts of the microcontroller: it sets    *)
(* the controller up (Config), and once the controller receives, the       *)
(* interrupt handler serves one frame after the other (Server).  A restart *)
(* begins again with the static data initialised and the controller as it  *)
(* was.                                                                    *)
(***************************************************************************)
EXTENDS Server

CONSTANTS
  Mac,         (* mymac as enc28j60_init writes it into registers          *)
  MaxRestarts  (* bound: restarts of the microcontroller                   *)

VARIABLES pc, currentBank, restarts, bank, regs, phy, busy, resetting, rxen

setupVars ==
  <<pc, currentBank, restarts, bank, regs, phy, busy, resetting, rxen>>
boardVars == <<vars, setupVars>>

Setup == INSTANCE Config

(* The controller hands on no frame above the limit that it is set up      *)
(* with: HFRMEN is not among the bits of MACON3.                           *)
FramesReceivedFit == \A f \in Received : f.len + 4 <= Setup!MAXFRAME

BoardInit == Init /\ Setup!Init

SetUp ==
  /\ Setup!Driver \/ Setup!ResetDone \/ Setup!PhyDone
  /\ UNCHANGED vars

(* The handler runs when main has set the controller up and it receives.   *)
Serve ==
  /\ ~Setup!Running /\ rxen
  /\ \E f \in Received : Handle(f)
  /\ UNCHANGED setupVars

StartAgain == Setup!Restart /\ Restart

BoardNext == SetUp \/ Serve \/ StartAgain

(* The driver runs on, resets and writes to the PHY come to an end.        *)
BoardSpec == BoardInit /\ [][BoardNext]_boardVars /\ Setup!Fairness
-----------------------------------------------------------------------------
(* The properties of Config, for the program as a whole. *)
ReadyWhenReceiving == Setup!ReadyWhenReceiving
DuplexAgrees == Setup!DuplexAgrees
WritesArrive == Setup!WritesArrive
ComesUp == Setup!ComesUp

(* The builders and enc28j60_init: every answer, with its check sequence,  *)
(* is within the largest frame the controller has been told to send, also  *)
(* the pong to the longest ping it takes and the longest page.             *)
AnswersFitController ==
  \A i \in DOMAIN sent : sent[i].len + 4 <= Setup!Get16("MAMXFLL", "MAMXFLH")
=============================================================================
