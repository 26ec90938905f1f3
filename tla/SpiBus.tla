------------------------------- MODULE SpiBus -------------------------------
(***************************************************************************)
(* The SPI bus between the processor and the ENC28J60, and the two         *)
(* contexts that drive it: the main program, which sends its start-up      *)
(* frames, and the interrupt handler, which takes received frames and      *)
(* answers them.  Nothing keeps the handler from interrupting the main     *)
(* program between two bytes; the handler itself runs to its end.  HeldOff *)
(* says what would be right: it comes in only where main waits for TXRTS,  *)
(* or between the sends, and never once main has seen TXRTS clear.         *)
(*                                                                         *)
(* A driver call is a transaction: the chip is selected, a command byte    *)
(* and the data bytes go over the wire one by one, the chip is released.   *)
(* The chip takes the first byte after it was selected as a command and    *)
(* the others as data of it, and does not listen when it is not selected.  *)
(* A register is reached through the bank the chip is in;                  *)
(* enc28j60_current_bank remembers that bank for both contexts.  The two   *)
(* halves of a pointer register are written as one.  Transmissions do not  *)
(* fail here (they do in TxPath), so EIR is not read while send_packet     *)
(* waits, and TXRTS is not taken back.                                     *)
(***************************************************************************)
EXTENDS Integers, Sequences

CONSTANTS
  Sends,            (* frames the main program sends before it parks: 5    *)
  MaxFrames,        (* bound: frames received                              *)
  HeldOff           (* is the handler kept out while main loads a frame?   *)
                    (* the program does not do so: FALSE is the code       *)

ASSUME SpiBusAssumption ==
  /\ Sends \in Nat
  /\ MaxFrames \in Nat
  /\ HeldOff \in BOOLEAN

VARIABLES
  (* the chip *)
  cs,       (* whether it is selected                                      *)
  op,       (* the command it is executing                                 *)
  bank,     (* ECON1.BSEL                                                  *)
  etxnd,    (* ETXND: the frame whose length it was given                  *)
  txmem,    (* what was written from EWRPT on                              *)
  txrts,    (* ECON1.TXRTS                                                 *)
  epktcnt,  (* frames received and not acknowledged                        *)
  inReset,  (* ECON1.RXRST: reception is held in reset                     *)
  (* the processor *)
  cache,    (* enc28j60_current_bank                                       *)
  rx,       (* the byte waiting in the SPI receive FIFO                    *)
  edge,     (* a falling edge of the INT pin is latched                    *)
  isr,      (* whether the interrupt handler is running                    *)
  ctx,      (* where each context is                                       *)
  sent,     (* frames the main program has sent                            *)
  arrived   (* history: frames received                                    *)

chipVars == <<cs, op, bank, etxnd, txmem, txrts, epktcnt, inReset>>
vars == <<chipVars, cache, rx, edge, isr, ctx, sent, arrived>>
-----------------------------------------------------------------------------
Context == {"main", "isr"}

(* Registers the calls name, and those that are in every bank.             *)
Common == {"ECON1", "ECON2", "EIR"}
BankOf(reg) == IF reg = "EPKTCNT" THEN 1 ELSE 0

(* The register reached at the address of reg.                             *)
Target(reg) == IF reg \in Common \/ bank = BankOf(reg) THEN reg ELSE "other"

(* A byte on the wire: a command on a register, or data.                   *)
Command(cmd, reg) == [cmd |-> cmd, reg |-> reg, data |-> "none"]
Data(d) == [cmd |-> "none", reg |-> "none", data |-> d]
Idle == Data("none")

(* A call: whether it sets the bank first, its command, the bytes written  *)
(* and how many are read.                                                  *)
Trans(banked, cmd, reg, out, in) ==
  [banked |-> banked, cmd |-> cmd, reg |-> reg, out |-> out, in |-> in]

(* The calls of enc28j60_send_packet and enc28j60_recv_packet, made by c.  *)
Call(name, c) ==
  CASE name = "txwait"  -> Trans(TRUE, "RCR", "ECON1", <<>>, 1)
    [] name = "ewrpt"   -> Trans(TRUE, "WCR", "EWRPT", <<"TXSTART">>, 0)
    [] name = "etxnd"   -> Trans(TRUE, "WCR", "ETXND", <<c>>, 0)
    [] name = "ctl"     -> Trans(FALSE, "WBM", "none", <<"control">>, 0)
    [] name = "data"    -> Trans(FALSE, "WBM", "none", <<c, c>>, 0)
    [] name = "txrts"   -> Trans(FALSE, "BFS", "ECON1", <<"TXRTS">>, 0)
    [] name = "txerr"   -> Trans(TRUE, "RCR", "EIR", <<>>, 1)
    [] name = "poll"    -> Trans(TRUE, "RCR", "EPKTCNT", <<>>, 1)
    [] name = "check"   -> Trans(TRUE, "RCR", "EPKTCNT", <<>>, 1)
    [] name = "erdpt"   -> Trans(TRUE, "WCR", "ERDPT", <<"rxrdpt">>, 0)
    [] name = "header"  -> Trans(FALSE, "RBM", "none", <<>>, 1)
    [] name = "payload" -> Trans(FALSE, "RBM", "none", <<>>, 2)
    [] name = "erxrdpt" -> Trans(TRUE, "WCR", "ERXRDPT", <<"rxrdpt">>, 0)
    [] name = "pktdec"  -> Trans(FALSE, "BFS", "ECON2", <<"PKTDEC">>, 0)

(* Mutant of SendCalls: the write pointer is not set back to TXSTART.      *)
SendCallsNoPointer ==
  <<"txwait", "etxnd", "ctl", "data", "txrts", "txerr", "return">>

(* enc28j60_send_packet, in order.                                         *)
SendCalls ==
  <<"txwait", "ewrpt", "etxnd", "ctl", "data", "txrts", "txerr", "return">>

(* enc28j60_recv_packet, in order, after the look at EPKTCNT ("poll") of   *)
(* the handler's loop.                                                     *)
RecvCalls ==
  <<"poll", "check", "erdpt", "header", "payload", "erxrdpt", "pktdec", "return">>

Following(calls, name) ==
  {calls[i + 1] : i \in {j \in 1 .. Len(calls) - 1 : calls[j] = name}}

(* The packets the handler sends for a frame: none, one, or two for a GET. *)
Answers == 0 .. 2

(* Mutant of AfterPacket: the handler takes one frame and returns.         *)
AfterPacketReturn(left) == IF left = 0 THEN "return" ELSE "txwait"

(* The handler sends what is left of its answer, then asks for a frame.    *)
AfterPacket(left) == IF left = 0 THEN "poll" ELSE "txwait"

(* Mutant of Wait: the frame before may still be on its way out.           *)
NoWait(txrtsRead) == {"ewrpt"}

(* Mutant of Wait: it waits until a transmission is under way.             *)
WaitInverted(txrtsRead) ==
  IF txrtsRead THEN Following(SendCalls, "txwait") ELSE {"txwait"}

(* while (enc28j60_rcr(ECON1) & ECON1_TXRTS)                               *)
Wait(txrtsRead) == IF txrtsRead THEN {"txwait"} ELSE Following(SendCalls, "txwait")

(* The calls that may follow a call whose last byte read was val.          *)
After(name, val) ==
  CASE name = "txwait"          -> Wait(val)
    [] name = "poll" /\ ~val    -> {"return"}
    [] name = "check" /\ ~val   -> {"poll"}
    [] OTHER                    -> Following(SendCalls, name)
                                     \cup Following(RecvCalls, name)

(* The two transactions of enc28j60_set_bank, and the one of the call.     *)
Transaction(c) ==
  LET call == Call(ctx[c].call, c) IN
  CASE ctx[c].stage = "bfc" -> Trans(FALSE, "BFC", "ECON1", <<"BSEL">>, 0)
    [] ctx[c].stage = "bfs" -> Trans(FALSE, "BFS", "ECON1",
                                 <<IF BankOf(call.reg) = 1 THEN "BSEL0" ELSE "0">>, 0)
    [] OTHER -> call

(* The context that has the processor.                                     *)
Running(c) == c = IF isr THEN "isr" ELSE "main"

At(c, stage, phase) ==
  /\ Running(c)
  /\ ctx[c].call # "return"
  /\ ctx[c].stage = stage
  /\ ctx[c].phase = phase

InTransaction(c, phase) ==
  \E stage \in {"bfc", "bfs", "op"} : At(c, stage, phase)

Goto(c, stage, phase) ==
  ctx' = [ctx EXCEPT ![c].stage = stage, ![c].phase = phase, ![c].n = 0]

StartOf(name, left) ==
  [call |-> name, stage |-> "test", phase |-> "select", n |-> 0, val |-> FALSE,
   left |-> left]

(* At the end of enc28j60_init and of the calls main makes after it: bank  *)
(* 0 is selected and remembered, the GPIO interrupt is enabled, nothing    *)
(* has been sent.                                                          *)
Init ==
  /\ cs = FALSE
  /\ op = Idle
  /\ bank = 0
  /\ etxnd = "none"
  /\ txmem = <<>>
  /\ txrts = FALSE
  /\ epktcnt = 0
  /\ inReset = FALSE
  /\ cache = 0
  /\ rx = {}
  /\ edge = FALSE
  /\ isr = FALSE
  /\ ctx = [c \in Context |->
              StartOf(IF c = "main" /\ Sends > 0 THEN "txwait" ELSE "return", 0)]
  /\ sent = 0
  /\ arrived = 0

Parked == ctx["main"].call = "return"

(* Where the handler does no harm: main is about to look at TXRTS, at the  *)
(* beginning of a send or once more in its wait, or it has parked.         *)
Interruptible ==
  ctx["main"].call \in {"txwait", "return"} /\ ctx["main"].stage = "test"
-----------------------------------------------------------------------------
(***************************************************************************)
(* The chip.                                                               *)
(***************************************************************************)

(* What a data byte does to ECON1 when its bits are set.  A command byte   *)
(* taken as data sets the bits of its code: BFC ECON1 is 0xBF, which has   *)
(* RXRST, TXRTS and both bank bits in it, RCR EPKTCNT is 0x19.             *)
SetEcon1(byte) ==
  CASE byte = Data("TXRTS") -> txrts' = TRUE /\ UNCHANGED <<bank, inReset>>
    [] byte = Data("BSEL0") -> /\ bank' = IF bank \in {0, 1} THEN 1 ELSE 3
                               /\ UNCHANGED <<txrts, inReset>>
    [] byte.cmd = "BFC"     -> bank' = 3 /\ txrts' = TRUE /\ inReset' = TRUE
    [] byte.cmd = "RCR"     -> /\ bank' = IF bank \in {0, 1} THEN 1 ELSE 3
                               /\ txrts' = TRUE
                               /\ UNCHANGED inReset
    [] OTHER                -> UNCHANGED <<bank, txrts, inReset>>

(* Bits of ECON1 cleared: the bank bits, or those of 0xBF or 0x19.         *)
ClearEcon1(byte) ==
  CASE byte = Data("BSEL") -> bank' = 0 /\ UNCHANGED <<txrts, inReset>>
    [] byte.cmd = "BFC"    -> bank' = 0 /\ txrts' = FALSE /\ inReset' = FALSE
    [] OTHER               -> /\ bank' = IF bank \in {0, 1} THEN 0 ELSE 2
                              /\ txrts' = FALSE
                              /\ UNCHANGED inReset

econ1 == <<bank, txrts, inReset>>

(* The chip executes its command with one more byte.                       *)
Execute(byte) ==
  /\ CASE op.cmd = "BFS" /\ op.reg = "ECON1" -> SetEcon1(byte)
       [] op.cmd = "BFC" /\ op.reg = "ECON1" -> ClearEcon1(byte)
       [] OTHER -> UNCHANGED econ1
  /\ etxnd' = IF op.cmd = "WCR" /\ Target(op.reg) = "ETXND"
              THEN byte.data ELSE etxnd
  /\ txmem' = IF op.cmd = "WCR" /\ Target(op.reg) = "EWRPT"
              THEN IF byte.data = "TXSTART" THEN <<>> ELSE <<"elsewhere">>
              ELSE IF op.cmd = "WBM" THEN Append(txmem, byte.data)
              ELSE txmem
  /\ epktcnt' = IF op.cmd = "BFS" /\ op.reg = "ECON2" /\ byte = Data("PKTDEC")
                THEN epktcnt - 1 ELSE epktcnt
  /\ op' = IF op.cmd \in {"WCR", "BFS", "BFC"} THEN Command("done", "none") ELSE op

(* A byte reaches the chip.                                                *)
Receive(byte) ==
  /\ UNCHANGED cs
  /\ IF ~cs THEN UNCHANGED <<op, econ1, etxnd, txmem, epktcnt>>
     ELSE IF op = Idle
          THEN op' = byte /\ UNCHANGED <<econ1, etxnd, txmem, epktcnt>>
          ELSE Execute(byte)

(* What it sends back: only whether the value read is zero matters, and    *)
(* nobody drives the line when the chip is not selected.                   *)
Answer(val) ==
  cs /\ op.cmd = "RCR" =>
    val = CASE Target(op.reg) = "EPKTCNT" -> epktcnt > 0
            [] Target(op.reg) = "ECON1"   -> txrts
            [] OTHER                      -> FALSE

(* A frame has been stored; a counter that leaves zero pulls INT low.      *)
FrameStored ==
  /\ arrived < MaxFrames
  /\ ~inReset
  /\ arrived' = arrived + 1
  /\ epktcnt' = epktcnt + 1
  /\ edge' = (edge \/ epktcnt = 0)
  /\ UNCHANGED <<cs, op, bank, etxnd, txmem, txrts, inReset, cache, rx, isr,
                 ctx, sent>>

(* The frame in the transmit buffer is on the wire.                        *)
Transmitted ==
  /\ txrts
  /\ txrts' = FALSE
  /\ UNCHANGED <<cs, op, bank, etxnd, txmem, epktcnt, inReset, cache, rx,
                 edge, isr, ctx, sent, arrived>>
-----------------------------------------------------------------------------
(***************************************************************************)
(* The driver.                                                             *)
(***************************************************************************)

(* Mutant of TestBank: the bank is taken to be right.                      *)
TestBankNever(c) ==
  /\ At(c, "test", "select")
  /\ Goto(c, "op", "select")
  /\ UNCHANGED <<chipVars, cache, rx, edge, isr, sent, arrived>>

(* enc28j60_set_bank compares, and returns if the bank is the same.        *)
TestBank(c) ==
  /\ At(c, "test", "select")
  /\ LET call == Call(ctx[c].call, c) IN
       IF call.banked /\ BankOf(call.reg) # cache
       THEN Goto(c, "bfc", "select")
       ELSE Goto(c, "op", "select")
  /\ UNCHANGED <<chipVars, cache, rx, edge, isr, sent, arrived>>

(* Mutant of RememberBank: the old bank is remembered.                     *)
RememberBankNever(c) ==
  /\ At(c, "remember", "select")
  /\ Goto(c, "op", "select")
  /\ UNCHANGED <<chipVars, cache, rx, edge, isr, sent, arrived>>

(* enc28j60_current_bank = adr & ENC28J60_BANK_MASK                        *)
RememberBank(c) ==
  /\ At(c, "remember", "select")
  /\ cache' = BankOf(Call(ctx[c].call, c).reg)
  /\ Goto(c, "op", "select")
  /\ UNCHANGED <<chipVars, rx, edge, isr, sent, arrived>>

(* enc28j60_select: the pin is low already if the other context left it so.*)
Select(c) ==
  /\ InTransaction(c, "select")
  /\ cs' = TRUE
  /\ Goto(c, ctx[c].stage, "command")
  /\ UNCHANGED <<op, bank, etxnd, txmem, txrts, epktcnt, inReset, cache, rx,
                 edge, isr, sent, arrived>>

(* spi_write_blocking of the command byte; it empties the receive FIFO.    *)
SendCommand(c) ==
  /\ InTransaction(c, "command")
  /\ LET t == Transaction(c) IN
       /\ Receive(Command(t.cmd, t.reg))
       /\ Goto(c, ctx[c].stage, IF t.in > 0 THEN "clock" ELSE "data")
  /\ rx' = {}
  /\ UNCHANGED <<cache, edge, isr, sent, arrived>>

(* spi_write_blocking of a data byte.                                      *)
SendData(c) ==
  /\ InTransaction(c, "data")
  /\ LET t == Transaction(c)
         n == ctx[c].n + 1
     IN  /\ Receive(Data(t.out[n]))
         /\ ctx' = [ctx EXCEPT ![c].n = n,
                               ![c].phase = IF n = Len(t.out) THEN "release" ELSE "data"]
  /\ rx' = {}
  /\ UNCHANGED <<cache, edge, isr, sent, arrived>>

(* spi_read_blocking puts a byte on the wire and gets one into its FIFO... *)
ClockByte(c) ==
  /\ InTransaction(c, "clock")
  /\ \E val \in BOOLEAN : Answer(val) /\ rx' = {val}
  /\ Receive(Data("0"))
  /\ ctx' = [ctx EXCEPT ![c].phase = "fetch"]
  /\ UNCHANGED <<cache, edge, isr, sent, arrived>>

(* ...and waits until it can take one out.                                 *)
FetchByte(c) ==
  /\ InTransaction(c, "fetch")
  /\ rx # {}
  /\ LET n == ctx[c].n + 1 IN
       ctx' = [ctx EXCEPT ![c].n = n,
                          ![c].val = CHOOSE val \in rx : TRUE,
                          ![c].phase = IF n = Transaction(c).in THEN "release" ELSE "clock"]
  /\ rx' = {}
  /\ UNCHANGED <<chipVars, cache, edge, isr, sent, arrived>>

(* enc28j60_release inside enc28j60_set_bank.                              *)
Release(c) ==
  /\ InTransaction(c, "release")
  /\ ctx[c].stage # "op"
  /\ cs' = FALSE
  /\ op' = Idle
  /\ Goto(c, IF ctx[c].stage = "bfc" THEN "bfs" ELSE "remember", "select")
  /\ UNCHANGED <<bank, etxnd, txmem, txrts, epktcnt, inReset, cache, rx, edge,
                 isr, sent, arrived>>

(* What the handler has left to send after a call of c.                    *)
Left(c) ==
  CASE ctx[c].call = "pktdec"              -> Answers
    [] ctx[c].call = "txerr" /\ c = "isr" -> {ctx[c].left - 1}
    [] OTHER                               -> {ctx[c].left}

(* enc28j60_release at the end of a call, and the next call.               *)
Finish(c) ==
  /\ At(c, "op", "release")
  /\ cs' = FALSE
  /\ op' = Idle
  /\ \E name \in After(ctx[c].call, ctx[c].val), left \in Left(c) :
       /\ sent' = IF c = "main" /\ name = "return" THEN sent + 1 ELSE sent
       /\ ctx' = [ctx EXCEPT ![c] =
            StartOf(IF name # "return" THEN name
                    ELSE IF c = "main" /\ sent' < Sends THEN "txwait"
                    ELSE IF c = "isr" /\ ctx[c].call \in {"txerr", "pktdec"}
                         THEN AfterPacket(left)
                    ELSE "return", left)]
       /\ isr' = (isr /\ ~(c = "isr" /\ ctx'[c].call = "return"))
  /\ UNCHANGED <<bank, etxnd, txmem, txrts, epktcnt, inReset, cache, rx, edge,
                 arrived>>

(* The edge is acknowledged and the handler called, wherever main is.      *)
Interrupt ==
  /\ edge /\ ~isr
  /\ HeldOff => Interruptible
  /\ edge' = FALSE
  /\ isr' = TRUE
  /\ ctx' = [ctx EXCEPT !["isr"] = StartOf("poll", 0)]
  /\ UNCHANGED <<chipVars, cache, rx, sent, arrived>>

Driver(c) ==
  \/ TestBank(c) \/ RememberBank(c)
  \/ Select(c) \/ SendCommand(c) \/ SendData(c) \/ ClockByte(c) \/ FetchByte(c)
  \/ Release(c) \/ Finish(c)

Next == FrameStored \/ Transmitted \/ Interrupt \/ \E c \in Context : Driver(c)

Spec == Init /\ [][Next]_vars

(* The processor never stops, the SDK calls a handler whose edge is        *)
(* latched, and the chip finishes a transmission.                          *)
FairSpec ==
  /\ Spec
  /\ WF_vars(Interrupt)
  /\ \A c \in Context : WF_vars(Driver(c))
  /\ WF_vars(Transmitted)
-----------------------------------------------------------------------------
(***************************************************************************)
(* Properties.                                                             *)
(***************************************************************************)

(* A data byte is taken by the chip as data of the command its sender      *)
(* gave, on the register its sender named.                                 *)
Aligned ==
  \A c \in Context :
    InTransaction(c, "data") \/ InTransaction(c, "clock") =>
      LET t == Transaction(c) IN
        /\ cs /\ op = Command(t.cmd, t.reg)
        /\ t.reg # "none" => Target(t.reg) = t.reg

(* Outside enc28j60_set_bank the bank remembered is the bank of the chip.  *)
BankRemembered ==
  (\A c \in Context : ctx[c].stage \notin {"bfc", "bfs", "remember"}) =>
    cache = bank

(* When transmission is requested, the transmit buffer holds one frame,    *)
(* whole, and ETXND is its end.                                            *)
FrameSentWhole ==
  [][ ~txrts /\ txrts' =>
      \E c \in Context : etxnd = c /\ txmem = <<"control", c, c>> ]_vars

(* When the handler has returned and frames wait, an edge will call it.    *)
NoFrameForgotten == ~isr /\ epktcnt > 0 => edge

(* A frame on its way out is not touched.                                  *)
FrameUndisturbed == [][txrts /\ txrts' => UNCHANGED <<etxnd, txmem>>]_vars

(* The main program gets through its frames.                               *)
MainParks == <>Parked

(* Every frame received is acknowledged.                                   *)
AllTaken == \A n \in 1 .. MaxFrames : arrived >= n ~> epktcnt = 0
=============================================================================
