---------------------------- MODULE TxPathProofs ----------------------------
(***************************************************************************)
(* Proofs about TxPath, for any number of calls and of failures.           *)
(*                                                                         *)
(* The transmit buffer holds the frame of the last call that got as far as *)
(* to write it.  While it is being replaced nothing is transmitted, and a  *)
(* frame that can still be transmitted is younger than all on the wire.    *)
(***************************************************************************)
EXTENDS TxPath, TLAPS

TypeOK ==
  /\ pc \in {"idle", "wait", "stuck?", "reset", "unreset", "load", "data",
             "start", "check", "cancel"}
  /\ calls \in Nat /\ txbuf \in Nat /\ etxnd \in Nat /\ errors \in Nat
  /\ txrts \in BOOLEAN /\ txrst \in BOOLEAN /\ txerif \in BOOLEAN
  /\ stuck \in BOOLEAN
  /\ wire \in Seq(Nat)

(* The frame of this call is in the buffer once it is written, before that *)
(* the frame of the call before is.                                        *)
BufferInv ==
  txbuf = IF pc \in {"idle", "start", "check", "cancel"} THEN calls
          ELSE calls - 1

(* When the buffer may be written nothing is transmitted, and the transmit *)
(* logic is reset only after an error.                                     *)
QuietInv ==
  /\ pc \in {"load", "data", "start"} => ~txrts
  /\ pc \in {"reset", "unreset"} => txerif
  /\ txrts \/ pc \in {"start", "check", "cancel"} => txbuf > 0

(* Whether the frame in the buffer may still go out.                       *)
Pending == txrts \/ pc = "start"

(* What is on the wire. *)
WireInv ==
  /\ \A i \in 1 .. Len(wire) : wire[i] \in 1 .. txbuf
  /\ Pending => \A i \in 1 .. Len(wire) : wire[i] < txbuf
  /\ \A i, j \in 1 .. Len(wire) : i < j => wire[i] < wire[j]

(* Without a failure nothing is cancelled, and every frame gets there. *)
CompleteInv ==
  failed = {} =>
    /\ ~txerif /\ ~stuck /\ pc # "cancel"
    /\ Len(wire) = IF Pending THEN txbuf - 1 ELSE txbuf
    /\ \A i \in 1 .. Len(wire) : wire[i] = i

IInv == TypeOK /\ BufferInv /\ QuietInv /\ WireInv /\ CompleteInv
-----------------------------------------------------------------------------
LEMMA InitIInv == Init => IInv
<1> SUFFICES ASSUME Init PROVE IInv
  OBVIOUS
<1>1. TypeOK
  <2>1. wire \in Seq(Nat)
    BY DEF Init
  <2>2. QED
    BY <2>1 DEF Init, TypeOK
<1>2. BufferInv /\ QuietInv
  BY DEF Init, BufferInv, QuietInv
<1>3. Len(wire) = 0
  BY DEF Init
<1>4. WireInv
  BY <1>3 DEF WireInv
<1>5. CompleteInv
  BY <1>3 DEF Init, CompleteInv, Pending
<1>6. QED
  BY <1>1, <1>2, <1>4, <1>5 DEF IInv

(* A transmitted frame is younger than all before it. *)
LEMMA TransmittedStep ==
  ASSUME IInv, Transmitted
  PROVE  IInv'
<1> USE DEF IInv, Transmitted, Sending
<1>1. TypeOK'
  <2>1. wire' \in Seq(Nat) /\ errors' \in Nat
    BY DEF TypeOK
  <2>2. txrts' \in BOOLEAN /\ txerif' \in BOOLEAN /\ stuck' \in BOOLEAN
    BY DEF TypeOK
  <2>3. QED
    BY <2>1, <2>2 DEF TypeOK
<1>2. /\ Len(wire') = Len(wire) + 1
      /\ \A i \in 1 .. Len(wire) : wire'[i] = wire[i]
      /\ wire'[Len(wire) + 1] = txbuf
      /\ Len(wire) \in Nat /\ txbuf \in Nat
  BY DEF TypeOK
<1>3. BufferInv' /\ QuietInv'
  BY DEF TypeOK, BufferInv, QuietInv
<1>4. pc # "start" /\ ~Pending' /\ Pending /\ txbuf > 0
  BY DEF QuietInv, Pending
<1>5. /\ \A i \in 1 .. Len(wire) : wire[i] \in 1 .. txbuf /\ wire[i] < txbuf
      /\ \A i, j \in 1 .. Len(wire) : i < j => wire[i] < wire[j]
  BY <1>4 DEF WireInv
<1>6. WireInv'
  <2>1. \A i \in 1 .. Len(wire') : wire'[i] \in 1 .. txbuf
    BY <1>2, <1>4, <1>5
  <2>2. \A i, j \in 1 .. Len(wire') : i < j => wire'[i] < wire'[j]
    BY <1>2, <1>5
  <2>3. QED
    BY <2>1, <2>2, <1>4 DEF WireInv
<1>7. CompleteInv'
  BY <1>2, <1>4 DEF CompleteInv
<1>8. QED
  BY <1>1, <1>3, <1>6, <1>7

(* After a failure only the order matters. *)
LEMMA TransmitErrorStep ==
  ASSUME IInv, TransmitError
  PROVE  IInv'
<1> USE DEF IInv, TransmitError, Sending
<1>1. TypeOK'
  <2>1. wire' \in Seq(Nat) /\ errors' \in Nat
    BY DEF TypeOK
  <2>2. txrts' \in BOOLEAN /\ txerif' \in BOOLEAN /\ stuck' \in BOOLEAN
    BY DEF TypeOK
  <2>3. QED
    BY <2>1, <2>2 DEF TypeOK
<1>2. BufferInv' /\ QuietInv'
  BY DEF TypeOK, BufferInv, QuietInv
<1>3. WireInv'
  BY DEF TypeOK, WireInv, Pending
<1>4. CompleteInv'
  BY DEF CompleteInv
<1>5. QED
  BY <1>1, <1>2, <1>3, <1>4

(* The steps of send_packet that leave the buffer as it is. *)
LEMMA SendPacketStep ==
  ASSUME IInv, SendPacket
  PROVE  IInv'
<1> USE DEF IInv, SendPacket, chipVars
<1>1. TypeOK'
  BY DEF TypeOK
<1>2. BufferInv' /\ QuietInv'
  BY DEF TypeOK, BufferInv, QuietInv
<1>3. WireInv'
  BY DEF TypeOK, WireInv, Pending, QuietInv
<1>4. CompleteInv'
  BY DEF TypeOK, CompleteInv, Pending, QuietInv
<1>5. QED
  BY <1>1, <1>2, <1>3, <1>4

LEMMA WaitStep ==
  ASSUME IInv, Wait
  PROVE  IInv'
<1> USE DEF IInv, Wait, chipVars
<1>1. TypeOK'
  BY DEF TypeOK
<1>2. BufferInv' /\ QuietInv'
  BY DEF TypeOK, BufferInv, QuietInv
<1>3. WireInv'
  BY DEF TypeOK, WireInv, Pending, QuietInv
<1>4. CompleteInv'
  BY DEF TypeOK, CompleteInv, Pending, QuietInv
<1>5. QED
  BY <1>1, <1>2, <1>3, <1>4

LEMMA CheckStuckStep ==
  ASSUME IInv, CheckStuck
  PROVE  IInv'
<1> USE DEF IInv, CheckStuck, chipVars
<1>1. TypeOK'
  BY DEF TypeOK
<1>2. BufferInv' /\ QuietInv'
  BY DEF TypeOK, BufferInv, QuietInv
<1>3. WireInv'
  BY DEF TypeOK, WireInv, Pending, QuietInv
<1>4. CompleteInv'
  BY DEF TypeOK, CompleteInv, Pending, QuietInv
<1>5. QED
  BY <1>1, <1>2, <1>3, <1>4

LEMMA SetResetStep ==
  ASSUME IInv, SetReset
  PROVE  IInv'
<1> USE DEF IInv, SetReset, chipVars
<1>1. TypeOK'
  BY DEF TypeOK
<1>2. BufferInv' /\ QuietInv'
  BY DEF TypeOK, BufferInv, QuietInv
<1>3. WireInv'
  BY DEF TypeOK, WireInv, Pending, QuietInv
<1>4. CompleteInv'
  BY DEF TypeOK, CompleteInv, Pending, QuietInv
<1>5. QED
  BY <1>1, <1>2, <1>3, <1>4

LEMMA ClearResetStep ==
  ASSUME IInv, ClearReset
  PROVE  IInv'
<1> USE DEF IInv, ClearReset, chipVars
<1>1. TypeOK'
  BY DEF TypeOK
<1>2. BufferInv' /\ QuietInv'
  BY DEF TypeOK, BufferInv, QuietInv
<1>3. WireInv'
  BY DEF TypeOK, WireInv, Pending, QuietInv
<1>4. CompleteInv'
  BY DEF TypeOK, CompleteInv, Pending, QuietInv
<1>5. QED
  BY <1>1, <1>2, <1>3, <1>4

LEMMA SetEndStep ==
  ASSUME IInv, SetEnd
  PROVE  IInv'
<1> USE DEF IInv, SetEnd, chipVars
<1>1. TypeOK'
  BY DEF TypeOK
<1>2. BufferInv' /\ QuietInv'
  BY DEF TypeOK, BufferInv, QuietInv
<1>3. WireInv'
  BY DEF TypeOK, WireInv, Pending, QuietInv
<1>4. CompleteInv'
  BY DEF TypeOK, CompleteInv, Pending, QuietInv
<1>5. QED
  BY <1>1, <1>2, <1>3, <1>4

LEMMA StartSendingStep ==
  ASSUME IInv, StartSending
  PROVE  IInv'
<1> USE DEF IInv, StartSending, chipVars
<1>1. TypeOK'
  BY DEF TypeOK
<1>2. BufferInv' /\ QuietInv'
  BY DEF TypeOK, BufferInv, QuietInv
<1>3. WireInv'
  <2>1. Pending
    BY DEF Pending
  <2>2. QED
    BY <2>1 DEF WireInv
<1>4. CompleteInv'
  BY DEF TypeOK, CompleteInv, Pending, QuietInv
<1>5. QED
  BY <1>1, <1>2, <1>3, <1>4

LEMMA CheckErrorStep ==
  ASSUME IInv, CheckError
  PROVE  IInv'
<1> USE DEF IInv, CheckError, chipVars
<1>1. TypeOK'
  BY DEF TypeOK
<1>2. BufferInv' /\ QuietInv'
  BY DEF TypeOK, BufferInv, QuietInv
<1>3. WireInv'
  BY DEF TypeOK, WireInv, Pending, QuietInv
<1>4. CompleteInv'
  BY DEF TypeOK, CompleteInv, Pending, QuietInv
<1>5. QED
  BY <1>1, <1>2, <1>3, <1>4

LEMMA CancelStep ==
  ASSUME IInv, Cancel
  PROVE  IInv'
<1> USE DEF IInv, Cancel, chipVars
<1>1. TypeOK'
  BY DEF TypeOK
<1>2. BufferInv' /\ QuietInv'
  BY DEF TypeOK, BufferInv, QuietInv
<1>3. WireInv'
  BY DEF TypeOK, WireInv, Pending, QuietInv
<1>4. CompleteInv'
  BY DEF TypeOK, CompleteInv, Pending, QuietInv
<1>5. QED
  BY <1>1, <1>2, <1>3, <1>4

(* The new frame is the frame of this call, younger than all on the wire. *)
LEMMA WriteFrameStep ==
  ASSUME IInv, WriteFrame
  PROVE  IInv'
<1> USE DEF IInv, WriteFrame, chipVars
<1>1. TypeOK'
  BY DEF TypeOK
<1>2. txbuf = calls - 1 /\ txbuf' = calls /\ calls \in Nat /\ txbuf \in Nat
      /\ ~txrts
  BY DEF TypeOK, BufferInv, QuietInv
<1>3. BufferInv' /\ QuietInv'
  BY <1>2 DEF BufferInv, QuietInv
<1>4. WireInv'
  BY <1>2 DEF TypeOK, WireInv, Pending
<1>5. CompleteInv'
  BY <1>2 DEF CompleteInv, Pending
<1>6. QED
  BY <1>1, <1>3, <1>4, <1>5

LEMMA StutterStep ==
  ASSUME IInv, UNCHANGED vars
  PROVE  IInv'
BY DEF IInv, TypeOK, BufferInv, QuietInv, WireInv, CompleteInv, Pending, vars,
       chipVars

LEMMA StepIInv == IInv /\ [Next]_vars => IInv'
<1> SUFFICES ASSUME IInv, [Next]_vars PROVE IInv'
  OBVIOUS
<1>1. CASE SendPacket
  BY <1>1, SendPacketStep
<1>2. CASE Driver
  BY <1>2, WaitStep, CheckStuckStep, SetResetStep, ClearResetStep, SetEndStep,
     WriteFrameStep, StartSendingStep, CheckErrorStep, CancelStep DEF Driver
<1>3. CASE Transmitted
  BY <1>3, TransmittedStep
<1>4. CASE TransmitError
  BY <1>4, TransmitErrorStep
<1>5. CASE UNCHANGED vars
  BY <1>5, StutterStep
<1>6. QED
  BY <1>1, <1>2, <1>3, <1>4, <1>5 DEF Next
-----------------------------------------------------------------------------
(***************************************************************************)
(* The theorems.                                                           *)
(***************************************************************************)

(* IInv is an invariant of enc28j60_send_packet and the transmit logic.    *)
THEOREM TxInvariance == Spec => []IInv
BY InitIInv, StepIInv, PTL DEF Spec

(* The frames on the wire are frames handed to enc28j60_send_packet, each  *)
(* at most once and in the order of the calls, whatever fails.             *)
THEOREM WireIsInOrder == Spec => []WireInOrder
<1>1. IInv => WireInOrder
  BY DEF IInv, TypeOK, BufferInv, WireInv, WireInOrder
<1>2. QED
  BY <1>1, TxInvariance, PTL

(* As long as nothing fails every frame is on the wire before the buffer   *)
(* is loaded with the next one.                                            *)
THEOREM NoFrameSkipped == Spec => []NothingSkipped
<1>1. IInv => NothingSkipped
  <2> SUFFICES ASSUME IInv, failed = {}, pc = "data"
               PROVE  wire = [i \in 1 .. calls - 1 |-> i]
    BY DEF NothingSkipped
  <2>1. ~Pending /\ txbuf = calls - 1
    BY DEF IInv, QuietInv, BufferInv, Pending
  <2>2. Len(wire) = calls - 1 /\ \A i \in 1 .. Len(wire) : wire[i] = i
    BY <2>1 DEF IInv, CompleteInv
  <2>3. wire = [i \in 1 .. Len(wire) |-> wire[i]]
    BY DEF IInv, TypeOK
  <2>4. QED
    BY <2>2, <2>3
<1>2. QED
  BY <1>1, TxInvariance, PTL

(* While a frame is on its way out the function touches neither its bytes  *)
(* nor ETXND, and resets the transmit logic only after an error.           *)
THEOREM FrameIsUndisturbed == Spec => FrameUndisturbed
<1>1. IInv /\ [Next]_vars =>
        [Sending => UNCHANGED <<txbuf, etxnd>> /\ (txrst' => txerif)]_vars
  <2> SUFFICES ASSUME IInv, Next, Sending
               PROVE  UNCHANGED <<txbuf, etxnd>> /\ (txrst' => txerif)
    OBVIOUS
  <2>1. pc \notin {"load", "data"} /\ (pc = "reset" => txerif)
        /\ txrst = FALSE
    BY DEF IInv, TypeOK, QuietInv, Sending
  <2>2. CASE SendPacket \/ Transmitted \/ TransmitError
    BY <2>1, <2>2 DEF SendPacket, Transmitted, TransmitError, chipVars
  <2>3. CASE Driver
    BY <2>1, <2>3
       DEF Driver, Wait, CheckStuck, SetReset, ClearReset, SetEnd, WriteFrame,
           StartSending, CheckError, Cancel, chipVars
  <2>4. QED
    BY <2>2, <2>3 DEF Next
<1>2. QED
  BY <1>1, TxInvariance, PTL DEF Spec, FrameUndisturbed
=============================================================================
