------------------------------- MODULE TxPath -------------------------------
(***************************************************************************)
(* enc28j60_send_packet and the transmit logic of the ENC28J60, with       *)
(* transmissions that fail.  A failed transmission raises EIR.TXERIF and,  *)
(* by the silicon error the driver's comments speak of, may leave          *)
(* ECON1.TXRTS set; TXERIF stays raised until it is written, and nothing   *)
(* in the driver writes it.  The frames are numbered in the order in which *)
(* enc28j60_send_packet is called; one context makes the calls.            *)
(***************************************************************************)
EXTENDS Integers, Sequences

CONSTANTS
  MaxSends,   (* bound: calls of enc28j60_send_packet                      *)
  MaxErrors   (* bound: transmissions that fail                            *)

ASSUME TxPathAssumption == MaxSends \in Nat /\ MaxErrors \in Nat

VARIABLES
  pc,       (* where send_packet is; "idle" between two calls              *)
  calls,    (* calls made                                                  *)
  txbuf,    (* the frame in the transmit buffer                            *)
  etxnd,    (* the frame whose end ETXND is                                *)
  txrts,    (* ECON1.TXRTS                                                 *)
  txrst,    (* ECON1.TXRST                                                 *)
  txerif,   (* EIR.TXERIF                                                  *)
  stuck,    (* TXRTS is set, but the transmission has failed               *)
  wire,     (* frames transmitted                                          *)
  failed,   (* frames whose transmission failed                            *)
  cancelled,(* frames whose TXRTS send_packet took back                    *)
  errors    (* history: transmissions that failed                          *)

chipVars == <<txrts, txrst, txerif, stuck, wire, failed, errors>>
vars == <<pc, calls, txbuf, etxnd, cancelled, chipVars>>

Init ==
  /\ pc = "idle"
  /\ calls = 0
  /\ txbuf = 0
  /\ etxnd = 0
  /\ txrts = FALSE
  /\ txrst = FALSE
  /\ txerif = FALSE
  /\ stuck = FALSE
  /\ wire = <<>>
  /\ failed = {}
  /\ cancelled = {}
  /\ errors = 0
-----------------------------------------------------------------------------
(***************************************************************************)
(* The controller.                                                         *)
(***************************************************************************)

Sending == txrts /\ ~stuck /\ ~txrst

Transmitted ==
  /\ Sending
  /\ wire' = Append(wire, txbuf)
  /\ txrts' = FALSE
  /\ UNCHANGED <<pc, calls, txbuf, etxnd, cancelled, txrst, txerif, stuck,
                 failed, errors>>

(* The transmission is aborted; TXRTS "may not clear - ENC28J60 bug".      *)
TransmitError ==
  /\ Sending
  /\ errors < MaxErrors
  /\ errors' = errors + 1
  /\ txerif' = TRUE
  /\ failed' = failed \cup {txbuf}
  /\ \/ txrts' = FALSE /\ stuck' = FALSE
     \/ txrts' = TRUE /\ stuck' = TRUE
  /\ UNCHANGED <<pc, calls, txbuf, etxnd, cancelled, txrst, wire>>
-----------------------------------------------------------------------------
(***************************************************************************)
(* enc28j60_send_packet.                                                   *)
(***************************************************************************)

SendPacket ==
  /\ pc = "idle"
  /\ calls < MaxSends
  /\ calls' = calls + 1
  /\ pc' = "wait"
  /\ UNCHANGED <<txbuf, etxnd, cancelled, chipVars>>

(* Mutant of Wait: the frame before is not waited for.                     *)
WaitNot ==
  /\ pc = "wait"
  /\ pc' = "load"
  /\ UNCHANGED <<calls, txbuf, etxnd, cancelled, chipVars>>

(* while (enc28j60_rcr(ECON1) & ECON1_TXRTS)                               *)
Wait ==
  /\ pc = "wait"
  /\ pc' = IF txrts THEN "stuck?" ELSE "load"
  /\ UNCHANGED <<calls, txbuf, etxnd, cancelled, chipVars>>

(* Mutants of CheckStuck: the transmit logic is never reset; it is reset   *)
(* whenever it is busy.                                                    *)
CheckStuckNever ==
  /\ pc = "stuck?"
  /\ pc' = "wait"
  /\ UNCHANGED <<calls, txbuf, etxnd, cancelled, chipVars>>

CheckStuckAlways ==
  /\ pc = "stuck?"
  /\ pc' = "reset"
  /\ UNCHANGED <<calls, txbuf, etxnd, cancelled, chipVars>>

(* if (enc28j60_rcr(EIR) & EIR_TXERIF)                                     *)
CheckStuck ==
  /\ pc = "stuck?"
  /\ pc' = IF txerif THEN "reset" ELSE "wait"
  /\ UNCHANGED <<calls, txbuf, etxnd, cancelled, chipVars>>

(* ECON1.TXRST is set: a transmission is aborted and TXRTS cleared.        *)
SetReset ==
  /\ pc = "reset"
  /\ txrst' = TRUE
  /\ txrts' = FALSE
  /\ stuck' = FALSE
  /\ pc' = "unreset"
  /\ UNCHANGED <<calls, txbuf, etxnd, cancelled, txerif, wire, failed, errors>>

ClearReset ==
  /\ pc = "unreset"
  /\ txrst' = FALSE
  /\ pc' = "wait"
  /\ UNCHANGED <<calls, txbuf, etxnd, cancelled, txrts, txerif, stuck, wire,
                 failed, errors>>

(* EWRPT and ETXND, then the control byte and the frame.                   *)
SetEnd ==
  /\ pc = "load"
  /\ etxnd' = calls
  /\ pc' = "data"
  /\ UNCHANGED <<calls, txbuf, cancelled, chipVars>>

(* Mutant of WriteFrame: it is not written to where transmission starts.   *)
WriteFrameElsewhere ==
  /\ pc = "data"
  /\ pc' = "start"
  /\ UNCHANGED <<calls, txbuf, etxnd, cancelled, chipVars>>

WriteFrame ==
  /\ pc = "data"
  /\ txbuf' = calls
  /\ pc' = "start"
  /\ UNCHANGED <<calls, etxnd, cancelled, chipVars>>

StartSending ==
  /\ pc = "start"
  /\ txrts' = TRUE
  /\ pc' = "check"
  /\ UNCHANGED <<calls, txbuf, etxnd, cancelled, txrst, txerif, stuck, wire,
                 failed, errors>>

(* if ((enc28j60_rcr(EIR) & EIR_TXERIF))                                   *)
CheckError ==
  /\ pc = "check"
  /\ pc' = IF txerif THEN "cancel" ELSE "idle"
  /\ UNCHANGED <<calls, txbuf, etxnd, cancelled, chipVars>>

(* TXRTS is cleared; a transmission that goes on is aborted.               *)
Cancel ==
  /\ pc = "cancel"
  /\ txrts' = FALSE
  /\ stuck' = FALSE
  /\ cancelled' = IF txrts THEN cancelled \cup {txbuf} ELSE cancelled
  /\ pc' = "idle"
  /\ UNCHANGED <<calls, txbuf, etxnd, txrst, txerif, wire, failed, errors>>

Driver ==
  \/ Wait \/ CheckStuck \/ SetReset \/ ClearReset \/ SetEnd \/ WriteFrame
  \/ StartSending \/ CheckError \/ Cancel

Next == SendPacket \/ Driver \/ Transmitted \/ TransmitError

Spec == Init /\ [][Next]_vars

(* A call goes on until it returns, and a transmission comes to an end.    *)
FairSpec == Spec /\ WF_vars(Driver) /\ WF_vars(Transmitted \/ TransmitError)
-----------------------------------------------------------------------------
(***************************************************************************)
(* Properties.                                                             *)
(***************************************************************************)

(* The frames on the wire are frames handed over, each at most once and in *)
(* the order of the calls, whatever transmissions failed in between.       *)
WireInOrder ==
  /\ \A i \in 1 .. Len(wire) : wire[i] \in 1 .. calls
  /\ \A i, j \in 1 .. Len(wire) : i < j => wire[i] < wire[j]

(* While a frame is being transmitted neither its bytes nor its end are    *)
(* touched, and the transmit logic is not reset under it unless an error   *)
(* was reported before.                                                    *)
FrameUndisturbed ==
  [][Sending => /\ UNCHANGED <<txbuf, etxnd>>
                /\ txrst' => txerif]_vars

(* A frame no transmission of which failed, before it or its own, arrives  *)
(* on the wire before the frame after it is loaded.                        *)
NothingSkipped ==
  failed = {} /\ pc = "data" => wire = [i \in 1 .. calls - 1 |-> i]

(* Every call of send_packet returns, also when TXRTS does not clear.      *)
SendReturns == pc # "idle" ~> pc = "idle"

(* The reset of the transmit logic repairs it: send_packet takes back only *)
(* a frame whose own transmission failed.                                  *)
OnlyFailedCancelled == cancelled \subseteq failed
=============================================================================
