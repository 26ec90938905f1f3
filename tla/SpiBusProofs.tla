---------------------------- MODULE SpiBusProofs ----------------------------
(***************************************************************************)
(* Proofs about SpiBus, for any number of frames sent and received and for *)
(* frames that come in at any time: if the handler is held off while main  *)
(* loads a frame, the bus is used correctly.                               *)
(*                                                                         *)
(* Then the handler finds the bus at rest, main about to look at TXRTS,    *)
(* and where the chip is in a command, what its bank is and what the       *)
(* transmit buffer holds follow from where the running context is.         *)
(***************************************************************************)
EXTENDS SpiBus, SequenceTheorems, TLAPS

SendNames == {"txwait", "ewrpt", "etxnd", "ctl", "data", "txrts", "txerr"}
RecvNames ==
  {"poll", "check", "erdpt", "header", "payload", "erxrdpt", "pktdec"}
CallNames == SendNames \cup RecvNames

Stages == {"test", "bfc", "bfs", "remember", "op"}
Phases == {"select", "command", "data", "clock", "fetch", "release"}
ContextState ==
  [call : CallNames \cup {"return"}, stage : Stages, phase : Phases,
   n : Nat, val : BOOLEAN, left : Nat]

TypeOK ==
  /\ cs \in BOOLEAN /\ bank \in {0, 1} /\ txrts \in BOOLEAN /\ epktcnt \in Nat
  /\ cache \in {0, 1} /\ rx \in {{}, {TRUE}, {FALSE}}
  /\ edge \in BOOLEAN /\ isr \in BOOLEAN /\ sent \in Nat /\ arrived \in Nat
  /\ ctx \in [Context -> ContextState]

(* The handler works on the bus only while it runs, and while it runs main *)
(* is where it may be interrupted.  It sends while packets are left.       *)
ApartInv ==
  /\ \A c \in Context : ctx[c].call = "return" => ctx[c].stage = "test"
  /\ \A c \in Context :
       ctx[c].stage = "test" => ctx[c].phase = "select" /\ ctx[c].n = 0
  /\ isr <=> ctx["isr"].call # "return"
  /\ isr => Interruptible
  /\ ctx["main"].call \in SendNames \cup {"return"}
  /\ ctx["isr"].call \in SendNames => ctx["isr"].left > 0

(* The chip is where the context on the bus believes it to be.             *)
ChipInv(c) ==
  LET t == Transaction(c) IN
  /\ ctx[c].stage \in {"test", "remember"} => ctx[c].phase = "select"
  /\ ctx[c].phase = "select" => ~cs /\ op = Idle
  /\ ctx[c].phase = "command" => cs /\ op = Idle
  /\ ctx[c].phase \in {"data", "clock", "fetch"} =>
       cs /\ op = Command(t.cmd, t.reg)
  /\ ctx[c].phase \in {"clock", "fetch"} => t.in > 0
  /\ ctx[c].phase = "release" => cs
  /\ ctx[c].phase \in {"select", "command"} => ctx[c].n = 0
  /\ ctx[c].phase = "data" => t.in = 0 /\ ctx[c].n < Len(t.out)
  /\ ctx[c].phase = "release" /\ t.in = 0 => ctx[c].n = Len(t.out)

(* The bank of the chip at every stage of a call.                          *)
BankInv(c) ==
  LET call == Call(ctx[c].call, c)
      done == ctx[c].phase = "release"
  IN
  /\ ctx[c].stage \in {"test", "op"} => cache = bank
  /\ ctx[c].stage = "op" /\ call.banked => bank = BankOf(call.reg)
  /\ ctx[c].stage \in {"bfc", "bfs", "remember"} => call.banked
  /\ ctx[c].stage = "bfc" /\ done => bank = 0
  /\ ctx[c].stage = "bfs" => bank = IF done THEN BankOf(call.reg) ELSE 0
  /\ ctx[c].stage = "remember" => bank = BankOf(call.reg)

(* The bytes of its call a context has written.                            *)
Written(c) == IF ctx[c].stage = "op" THEN ctx[c].n ELSE 0

(* Whether the last byte of its call a context has read is val.            *)
HasRead(c, val) ==
  /\ ctx[c].stage = "op"
  /\ \/ ctx[c].phase = "fetch" /\ rx = {val}
     \/ ctx[c].phase = "release" /\ ctx[c].val = val

(* What the transmit buffer holds while a frame is loaded.                 *)
LoadInv(c) ==
  LET call == ctx[c].call  n == Written(c) IN
  /\ call = "ewrpt" /\ n = 1 => txmem = <<>>
  /\ call = "etxnd" => txmem = <<>> /\ (n = 1 => etxnd = c)
  /\ call = "ctl" =>
       etxnd = c /\ txmem = IF n = 0 THEN <<>> ELSE <<"control">>
  /\ call = "data" =>
       /\ etxnd = c
       /\ txmem = IF n = 0 THEN <<"control">>
                  ELSE IF n = 1 THEN <<"control", c>> ELSE <<"control", c, c>>
  /\ call = "txrts" => etxnd = c /\ txmem = <<"control", c, c>>

(* Nothing is on its way out once a context has seen so.                   *)
QuietInv(c) ==
  LET call == ctx[c].call IN
  /\ call = "txwait" /\ HasRead(c, FALSE) => ~txrts
  /\ call \in {"ewrpt", "etxnd", "ctl", "data"} => ~txrts
  /\ call = "txrts" /\ Written(c) = 0 => ~txrts

(* A frame the handler has seen is still counted until it is acknowledged, *)
(* and one it has not seen has left an edge.                               *)
CountInv(c) ==
  LET call == ctx[c].call IN
  /\ call = "poll" /\ HasRead(c, FALSE) /\ epktcnt > 0 => edge
  /\ call = "check" /\ HasRead(c, TRUE) => epktcnt > 0
  /\ call \in {"erdpt", "header", "payload", "erxrdpt"} => epktcnt > 0
  /\ call = "pktdec" /\ Written(c) = 0 => epktcnt > 0

BusyInv(c) ==
  ChipInv(c) /\ BankInv(c) /\ LoadInv(c) /\ QuietInv(c) /\ CountInv(c)

(* When main has parked, the chip waits for a command in the bank that is  *)
(* remembered.                                                             *)
RestInv ==
  \A c \in Context : Running(c) /\ ctx[c].call = "return" =>
    ~cs /\ op = Idle /\ cache = bank

IInv ==
  /\ TypeOK
  /\ ApartInv
  /\ \A c \in Context : Running(c) /\ ctx[c].call # "return" => BusyInv(c)
  /\ RestInv
  /\ NoFrameForgotten
-----------------------------------------------------------------------------
(* What every call is, and what follows it.                                *)
LEMMA CallFields ==
  ASSUME NEW c
  PROVE  /\ LET t == Call("txwait", c) IN
           /\ t.banked /\ t.cmd = "RCR" /\ t.reg = "ECON1"
           /\ t.in = 1 /\ Len(t.out) = 0
         /\ LET t == Call("ewrpt", c) IN
           /\ t.banked /\ t.cmd = "WCR" /\ t.reg = "EWRPT"
           /\ t.in = 0 /\ Len(t.out) = 1 /\ t.out[1] = "TXSTART"
         /\ LET t == Call("etxnd", c) IN
           /\ t.banked /\ t.cmd = "WCR" /\ t.reg = "ETXND"
           /\ t.in = 0 /\ Len(t.out) = 1 /\ t.out[1] = c
         /\ LET t == Call("ctl", c) IN
           /\ ~t.banked /\ t.cmd = "WBM" /\ t.reg = "none"
           /\ t.in = 0 /\ Len(t.out) = 1 /\ t.out[1] = "control"
         /\ LET t == Call("data", c) IN
           /\ ~t.banked /\ t.cmd = "WBM" /\ t.reg = "none"
           /\ t.in = 0 /\ Len(t.out) = 2 /\ t.out[1] = c /\ t.out[2] = c
         /\ LET t == Call("txrts", c) IN
           /\ ~t.banked /\ t.cmd = "BFS" /\ t.reg = "ECON1"
           /\ t.in = 0 /\ Len(t.out) = 1 /\ t.out[1] = "TXRTS"
         /\ LET t == Call("txerr", c) IN
           /\ t.banked /\ t.cmd = "RCR" /\ t.reg = "EIR"
           /\ t.in = 1 /\ Len(t.out) = 0
         /\ LET t == Call("poll", c) IN
           /\ t.banked /\ t.cmd = "RCR" /\ t.reg = "EPKTCNT"
           /\ t.in = 1 /\ Len(t.out) = 0
         /\ LET t == Call("check", c) IN
           /\ t.banked /\ t.cmd = "RCR" /\ t.reg = "EPKTCNT"
           /\ t.in = 1 /\ Len(t.out) = 0
         /\ LET t == Call("erdpt", c) IN
           /\ t.banked /\ t.cmd = "WCR" /\ t.reg = "ERDPT"
           /\ t.in = 0 /\ Len(t.out) = 1 /\ t.out[1] = "rxrdpt"
         /\ LET t == Call("header", c) IN
           /\ ~t.banked /\ t.cmd = "RBM" /\ t.reg = "none"
           /\ t.in = 1 /\ Len(t.out) = 0
         /\ LET t == Call("payload", c) IN
           /\ ~t.banked /\ t.cmd = "RBM" /\ t.reg = "none"
           /\ t.in = 2 /\ Len(t.out) = 0
         /\ LET t == Call("erxrdpt", c) IN
           /\ t.banked /\ t.cmd = "WCR" /\ t.reg = "ERXRDPT"
           /\ t.in = 0 /\ Len(t.out) = 1 /\ t.out[1] = "rxrdpt"
         /\ LET t == Call("pktdec", c) IN
           /\ ~t.banked /\ t.cmd = "BFS" /\ t.reg = "ECON2"
           /\ t.in = 0 /\ Len(t.out) = 1 /\ t.out[1] = "PKTDEC"
  BY DEF Call, Trans

LEMMA CallFacts ==
  ASSUME NEW name \in CallNames, NEW c
  PROVE  LET call == Call(name, c) IN
         /\ call.in \in Nat /\ Len(call.out) \in Nat
         /\ call.in > 0 => call.cmd \in {"RCR", "RBM"}
         /\ call.in = 0 => /\ call.cmd \in {"WCR", "WBM", "BFS"}
                           /\ Len(call.out) > 0
                           /\ call.cmd # "WBM" => Len(call.out) = 1
         /\ ~call.banked => call.reg \in {"none", "ECON1", "ECON2"}
  BY CallFields DEF CallNames, SendNames, RecvNames

LEMMA FollowingFacts ==
  ASSUME NEW name \in CallNames
  PROVE  Following(SendCalls, name) \cup Following(RecvCalls, name) =
           CASE name = "txwait"  -> {"ewrpt"}
             [] name = "ewrpt"   -> {"etxnd"}
             [] name = "etxnd"   -> {"ctl"}
             [] name = "ctl"     -> {"data"}
             [] name = "data"    -> {"txrts"}
             [] name = "txrts"   -> {"txerr"}
             [] name = "txerr"   -> {"return"}
             [] name = "poll"    -> {"check"}
             [] name = "check"   -> {"erdpt"}
             [] name = "erdpt"   -> {"header"}
             [] name = "header"  -> {"payload"}
             [] name = "payload" -> {"erxrdpt"}
             [] name = "erxrdpt" -> {"pktdec"}
             [] OTHER            -> {"return"}
<1>1. Len(SendCalls) = 8 /\ Len(RecvCalls) = 8
  BY DEF SendCalls, RecvCalls
<1>2. /\ SendCalls[1] = "txwait" /\ SendCalls[2] = "ewrpt"
      /\ SendCalls[3] = "etxnd" /\ SendCalls[4] = "ctl"
      /\ SendCalls[5] = "data" /\ SendCalls[6] = "txrts"
      /\ SendCalls[7] = "txerr" /\ SendCalls[8] = "return"
  BY DEF SendCalls
<1>3. /\ RecvCalls[1] = "poll" /\ RecvCalls[2] = "check"
      /\ RecvCalls[3] = "erdpt" /\ RecvCalls[4] = "header"
      /\ RecvCalls[5] = "payload" /\ RecvCalls[6] = "erxrdpt"
      /\ RecvCalls[7] = "pktdec" /\ RecvCalls[8] = "return"
  BY DEF RecvCalls
<1>4. /\ 1 .. Len(SendCalls) - 1 = {1, 2, 3, 4, 5, 6, 7}
      /\ 1 .. Len(RecvCalls) - 1 = {1, 2, 3, 4, 5, 6, 7}
  BY <1>1
<1>5. \A next : next \in Following(SendCalls, name) <=>
        \E i \in {1, 2, 3, 4, 5, 6, 7} :
          SendCalls[i] = name /\ next = SendCalls[i + 1]
  BY <1>4 DEF Following
<1>6. \A next : next \in Following(RecvCalls, name) <=>
        \E i \in {1, 2, 3, 4, 5, 6, 7} :
          RecvCalls[i] = name /\ next = RecvCalls[i + 1]
  BY <1>4 DEF Following
<1>7. \A next : next \in Following(SendCalls, name) <=>
        \/ name = "txwait" /\ next = "ewrpt"
        \/ name = "ewrpt" /\ next = "etxnd"
        \/ name = "etxnd" /\ next = "ctl"
        \/ name = "ctl" /\ next = "data"
        \/ name = "data" /\ next = "txrts"
        \/ name = "txrts" /\ next = "txerr"
        \/ name = "txerr" /\ next = "return"
  BY <1>2, <1>5
<1>8. \A next : next \in Following(RecvCalls, name) <=>
        \/ name = "poll" /\ next = "check"
        \/ name = "check" /\ next = "erdpt"
        \/ name = "erdpt" /\ next = "header"
        \/ name = "header" /\ next = "payload"
        \/ name = "payload" /\ next = "erxrdpt"
        \/ name = "erxrdpt" /\ next = "pktdec"
        \/ name = "pktdec" /\ next = "return"
  BY <1>3, <1>6
<1>9. QED
  BY <1>7, <1>8 DEF CallNames, SendNames, RecvNames

LEMMA AfterFacts ==
  ASSUME NEW name \in CallNames, NEW val \in BOOLEAN,
         NEW next \in After(name, val)
  PROVE  /\ next \in CallNames \cup {"return"}
         /\ name = "txwait" => next = IF val THEN "txwait" ELSE "ewrpt"
         /\ name \in SendNames => next \in SendNames \cup {"return"}
         /\ name \in RecvNames => next \in RecvNames \cup {"return"}
         /\ next = "return" =>
              name \in {"txerr", "pktdec"} \/ (name = "poll" /\ ~val)
         /\ next = "etxnd" => name = "ewrpt"
         /\ next = "ctl" => name = "etxnd"
         /\ next = "data" => name = "ctl"
         /\ next = "txrts" => name = "data"
         /\ next = "ewrpt" => name = "txwait" /\ ~val
         /\ next = "erdpt" => name = "check" /\ val
         /\ next = "header" => name = "erdpt"
         /\ next = "payload" => name = "header"
         /\ next = "erxrdpt" => name = "payload"
         /\ next = "pktdec" => name = "erxrdpt"
<1>1. Following(SendCalls, "txwait") = {"ewrpt"}
  <2>1. "txwait" \in CallNames
    BY DEF CallNames, SendNames
  <2>2. "ewrpt" \notin Following(RecvCalls, "txwait")
    BY DEF Following, RecvCalls
  <2>3. Following(SendCalls, "txwait") \cup Following(RecvCalls, "txwait") = {"ewrpt"}
    BY <2>1, FollowingFacts
  <2>4. QED
    BY <2>2, <2>3
<1>2. QED
  BY <1>1, FollowingFacts
     DEF After, Wait, CallNames, SendNames, RecvNames
-----------------------------------------------------------------------------
LEMMA TransactionFacts ==
  ASSUME NEW c, ctx[c].call \in CallNames
  PROVE  LET t == Transaction(c)  call == Call(ctx[c].call, c) IN
         /\ t.in \in Nat /\ Len(t.out) \in Nat /\ t.cmd # "none"
         /\ t.in > 0 => t.cmd \in {"RCR", "RBM"}
         /\ t.in = 0 => Len(t.out) > 0
         /\ ctx[c].stage = "bfc" =>
              /\ t.cmd = "BFC" /\ t.reg = "ECON1" /\ t.in = 0
              /\ Len(t.out) = 1 /\ t.out[1] = "BSEL"
         /\ ctx[c].stage = "bfs" =>
              /\ t.cmd = "BFS" /\ t.reg = "ECON1" /\ t.in = 0
              /\ Len(t.out) = 1
              /\ t.out[1] = IF BankOf(call.reg) = 1 THEN "BSEL0" ELSE "0"
         /\ ctx[c].stage \notin {"bfc", "bfs"} => t = call
<1>1. CASE ctx[c].stage = "bfc"
  BY <1>1 DEF Transaction, Trans
<1>2. CASE ctx[c].stage = "bfs"
  BY <1>2 DEF Transaction, Trans
<1>3. CASE ctx[c].stage \notin {"bfc", "bfs"}
  <2>1. Transaction(c) = Call(ctx[c].call, c)
    BY <1>3 DEF Transaction
  <2>2. QED
    BY <1>3, <2>1, CallFacts
<1>4. QED
  BY <1>1, <1>2, <1>3

(* The first byte after the selection is the command, ...                  *)
LEMMA CommandTaken ==
  ASSUME cs, op = Idle, NEW byte, Receive(byte)
  PROVE  /\ cs' = cs /\ op' = byte
         /\ UNCHANGED <<bank, txrts, inReset, etxnd, txmem, epktcnt>>
  BY DEF Receive, econ1

(* ... the next ones execute it, ...                                       *)
LEMMA DataTaken ==
  ASSUME cs, NEW cmd, cmd # "none", NEW reg, op = Command(cmd, reg),
         NEW byte, Receive(byte)
  PROVE  cs' = cs /\ Execute(byte)
  BY DEF Receive, Command, Idle, Data

(* ... and reading changes nothing.                                        *)
LEMMA ReadingOnly ==
  ASSUME cs, NEW cmd \in {"RCR", "RBM"}, NEW reg, op = Command(cmd, reg),
         NEW byte, Receive(byte)
  PROVE  UNCHANGED chipVars
<1>1. cs' = cs /\ Execute(byte)
  BY DataTaken
<1>2. op.cmd = cmd
  BY DEF Command
<1>3. QED
  BY <1>1, <1>2 DEF Execute, econ1, chipVars

(* A step after which a context is still busy keeps the invariant if it    *)
(* does for that context.                                                  *)
LEMMA StillBusy ==
  ASSUME IInv, NEW c \in Context, Running(c), ctx[c].call # "return",
         ctx' = [ctx EXCEPT ![c] = ctx'[c]],
         \/ ctx'[c].call = ctx[c].call /\ ctx'[c].left = ctx[c].left
         \/ /\ ctx'[c].call # "return"
            /\ c = "main" => ctx'[c].call \in SendNames
            /\ c = "isr" /\ ctx'[c].call \in SendNames => ctx'[c].left > 0,
         edge' = edge, isr' = isr, epktcnt' = epktcnt \/ c = "isr",
         TypeOK', BusyInv(c)'
  PROVE  IInv'
<1>1. \A d \in Context : d # c => ctx'[d] = ctx[d]
  BY DEF IInv, TypeOK
<1>2. \A d \in Context : Running(d)' => d = c
  BY DEF Running
<1>3. ctx'[c].call # "return"
  OBVIOUS
<1>4. ApartInv'
  <2>1. \A d \in Context : ctx'[d].call = "return" => ctx'[d].stage = "test"
    BY <1>1, <1>3 DEF IInv, ApartInv
  <2>2. \A d \in Context :
          ctx'[d].stage = "test" => ctx'[d].phase = "select" /\ ctx'[d].n = 0
    BY <1>1 DEF IInv, ApartInv, BusyInv, ChipInv
  <2>3. CASE c = "main"
    BY <1>1, <1>3, <2>1, <2>2, <2>3 DEF IInv, ApartInv, Running, Context
  <2>4. CASE c = "isr"
    BY <1>1, <1>3, <2>1, <2>2, <2>4
       DEF IInv, ApartInv, Running, Context, Interruptible
  <2>5. QED
    BY <2>3, <2>4 DEF Context
<1>5. RestInv'
  BY <1>2, <1>3 DEF RestInv
<1>6. NoFrameForgotten'
  BY DEF IInv, NoFrameForgotten, Running
<1>7. QED
  BY <1>2, <1>4, <1>5, <1>6 DEF IInv

(* A step of a context changes where it is, and keeps the types.           *)
LEMMA Updated ==
  ASSUME TypeOK, NEW c \in Context, NEW r \in ContextState,
         ctx' = [ctx EXCEPT ![c] = r]
  PROVE  /\ ctx' \in [Context -> ContextState] /\ ctx'[c] = r
         /\ ctx' = [ctx EXCEPT ![c] = ctx'[c]]
  BY DEF TypeOK

LEMMA StateTyped ==
  ASSUME NEW r \in ContextState, NEW stage \in Stages, NEW phase \in Phases,
         NEW n \in Nat, NEW val \in BOOLEAN
  PROVE  /\ [r EXCEPT !.stage = stage, !.phase = phase, !.n = n] \in ContextState
         /\ [r EXCEPT !.n = n, !.phase = phase] \in ContextState
         /\ [r EXCEPT !.n = n, !.val = val, !.phase = phase] \in ContextState
         /\ [r EXCEPT !.phase = phase] \in ContextState
  BY DEF ContextState

LEMMA GoneTo ==
  ASSUME TypeOK, NEW c \in Context, NEW stage \in Stages,
         NEW phase \in Phases, Goto(c, stage, phase)
  PROVE  /\ ctx' \in [Context -> ContextState]
         /\ ctx' = [ctx EXCEPT ![c] = ctx'[c]]
         /\ ctx'[c].left = ctx[c].left
      /\ ctx'[c].call = ctx[c].call /\ ctx'[c].stage = stage
         /\ ctx'[c].phase = phase /\ ctx'[c].n = 0
         /\ ctx'[c].val = ctx[c].val /\ ctx'[c].left = ctx[c].left
<1> DEFINE r == [ctx[c] EXCEPT !.stage = stage, !.phase = phase, !.n = 0]
<1>1. ctx[c] \in ContextState /\ 0 \in Nat
  BY DEF TypeOK
<1>2. r \in ContextState
  BY <1>1, StateTyped
<1>3. ctx' = [ctx EXCEPT ![c] = r]
  BY DEF Goto
<1>4. ctx'[c] = r /\ ctx' \in [Context -> ContextState]
      /\ ctx' = [ctx EXCEPT ![c] = ctx'[c]]
  BY <1>2, <1>3, Updated
<1>5. QED
  BY <1>1, <1>4 DEF ContextState

LEMMA Busy ==
  ASSUME IInv, NEW c \in Context, Running(c), ctx[c].call # "return"
  PROVE  ctx[c].call \in CallNames /\ BusyInv(c) /\ TypeOK
         /\ ctx[c].stage \in Stages /\ ctx[c] \in ContextState
  BY DEF IInv, TypeOK, ContextState

LEMMA TestBankKeeps ==
  ASSUME IInv, NEW c \in Context, TestBank(c)
  PROVE  IInv'
<1> DEFINE t == Transaction(c)
           call == Call(ctx[c].call, c)
<1>1. /\ Running(c) /\ ctx[c].call # "return" /\ ctx[c].call \in CallNames
      /\ BusyInv(c) /\ TypeOK
  BY Busy DEF TestBank, At
<1> DEFINE stage == IF call.banked /\ BankOf(call.reg) # cache THEN "bfc" ELSE "op"
<1>2. /\ Goto(c, stage, "select") /\ stage \in Stages /\ "select" \in Phases
      /\ UNCHANGED <<cs, op, bank, etxnd, txmem, txrts, epktcnt, cache, rx,
                     edge, isr, sent, arrived>>
  BY DEF TestBank, Stages, Phases, chipVars
<1>3. /\ ctx' \in [Context -> ContextState]
      /\ ctx' = [ctx EXCEPT ![c] = ctx'[c]]
      /\ ctx'[c].left = ctx[c].left
      /\ ctx'[c].call = ctx[c].call /\ ctx'[c].stage = stage
      /\ ctx'[c].phase = "select" /\ ctx'[c].n = 0
  BY <1>1, <1>2, GoneTo
<1>4. ctx[c].stage = "test" /\ ctx[c].phase = "select"
  BY DEF TestBank, At
<1>5. TypeOK'
  BY <1>1, <1>2, <1>3 DEF TypeOK
<1>6. ChipInv(c)'
  BY <1>1, <1>2, <1>3, <1>4 DEF BusyInv, ChipInv
<1>7. BankInv(c)'
  BY <1>1, <1>2, <1>3, <1>4 DEF BusyInv, BankInv
<1>8. LoadInv(c)' /\ QuietInv(c)' /\ CountInv(c)'
  BY <1>1, <1>2, <1>3, <1>4
     DEF BusyInv, ChipInv, LoadInv, QuietInv, CountInv, Written, HasRead
<1>9. QED
  BY <1>1, <1>2, <1>3, <1>5, <1>6, <1>7, <1>8, StillBusy DEF BusyInv

LEMMA RememberBankKeeps ==
  ASSUME IInv, NEW c \in Context, RememberBank(c)
  PROVE  IInv'
<1> DEFINE t == Transaction(c)
           call == Call(ctx[c].call, c)
<1>1. /\ Running(c) /\ ctx[c].call # "return" /\ ctx[c].call \in CallNames
      /\ BusyInv(c) /\ TypeOK /\ ctx[c].stage \in Stages
  BY Busy DEF RememberBank, InTransaction, At
<1>2. /\ Goto(c, "op", "select") /\ "op" \in Stages /\ "select" \in Phases
      /\ UNCHANGED <<cs, op, bank, etxnd, txmem, txrts, epktcnt, rx, edge,
                     isr, sent, arrived>>
      /\ cache' = BankOf(call.reg)
  BY DEF RememberBank, Stages, Phases, chipVars
<1>3. /\ ctx' \in [Context -> ContextState]
      /\ ctx' = [ctx EXCEPT ![c] = ctx'[c]]
      /\ ctx'[c].left = ctx[c].left
      /\ ctx'[c].call = ctx[c].call /\ ctx'[c].stage = "op"
      /\ ctx'[c].phase = "select" /\ ctx'[c].n = 0
  BY <1>1, <1>2, GoneTo
<1>4. ctx[c].stage = "remember" /\ ctx[c].phase = "select"
  BY DEF RememberBank, At
<1>5. TypeOK'
  BY <1>1, <1>2, <1>3 DEF TypeOK, BankOf
<1>6. ChipInv(c)'
  BY <1>1, <1>2, <1>3, <1>4 DEF BusyInv, ChipInv
<1>7. BankInv(c)'
  BY <1>1, <1>2, <1>3, <1>4 DEF BusyInv, BankInv
<1>8. LoadInv(c)' /\ QuietInv(c)' /\ CountInv(c)'
  BY <1>1, <1>2, <1>3, <1>4
     DEF BusyInv, ChipInv, LoadInv, QuietInv, CountInv, Written, HasRead
<1>9. QED
  BY <1>1, <1>2, <1>3, <1>5, <1>6, <1>7, <1>8, StillBusy DEF BusyInv

LEMMA SelectKeeps ==
  ASSUME IInv, NEW c \in Context, Select(c)
  PROVE  IInv'
<1> DEFINE t == Transaction(c)
           call == Call(ctx[c].call, c)
<1>1. /\ Running(c) /\ ctx[c].call # "return" /\ ctx[c].call \in CallNames
      /\ BusyInv(c) /\ TypeOK /\ ctx[c].stage \in Stages
  BY Busy DEF Select, InTransaction, At
<1>2. /\ Goto(c, ctx[c].stage, "command") /\ "command" \in Phases
      /\ UNCHANGED <<op, bank, etxnd, txmem, txrts, epktcnt, cache, rx, edge,
                     isr, sent, arrived>>
      /\ cs' = TRUE
  BY DEF Select, Phases
<1>3. /\ ctx' \in [Context -> ContextState]
      /\ ctx' = [ctx EXCEPT ![c] = ctx'[c]]
      /\ ctx'[c].left = ctx[c].left
      /\ ctx'[c].call = ctx[c].call /\ ctx'[c].stage = ctx[c].stage
      /\ ctx'[c].phase = "command" /\ ctx'[c].n = 0
  BY <1>1, <1>2, GoneTo
<1>4. ctx[c].stage \in {"bfc", "bfs", "op"} /\ ctx[c].phase = "select"
  BY DEF Select, InTransaction, At
<1>5. TypeOK'
  BY <1>1, <1>2, <1>3 DEF TypeOK
<1>6. ChipInv(c)'
  BY <1>1, <1>2, <1>3, <1>4 , TransactionFacts
     DEF BusyInv, ChipInv, Transaction
<1>7. BankInv(c)'
  BY <1>1, <1>2, <1>3, <1>4 DEF BusyInv, BankInv
<1>8. LoadInv(c)' /\ QuietInv(c)' /\ CountInv(c)'
  BY <1>1, <1>2, <1>3, <1>4
     DEF BusyInv, ChipInv, LoadInv, QuietInv, CountInv, Written, HasRead
<1>9. QED
  BY <1>1, <1>2, <1>3, <1>5, <1>6, <1>7, <1>8, StillBusy DEF BusyInv

LEMMA ReleaseKeeps ==
  ASSUME IInv, NEW c \in Context, Release(c)
  PROVE  IInv'
<1> DEFINE t == Transaction(c)
           call == Call(ctx[c].call, c)
           stage == IF ctx[c].stage = "bfc" THEN "bfs" ELSE "remember"
<1>1. /\ Running(c) /\ ctx[c].call # "return" /\ ctx[c].call \in CallNames
      /\ BusyInv(c) /\ TypeOK /\ ctx[c].stage \in Stages
  BY Busy DEF Release, InTransaction, At
<1>2. /\ Goto(c, stage, "select") /\ stage \in Stages /\ "select" \in Phases
      /\ UNCHANGED <<bank, etxnd, txmem, txrts, epktcnt, cache, rx, edge,
                     isr, sent, arrived>>
      /\ cs' = FALSE /\ op' = Idle
  BY DEF Release, Stages, Phases
<1>3. /\ ctx' \in [Context -> ContextState]
      /\ ctx' = [ctx EXCEPT ![c] = ctx'[c]]
      /\ ctx'[c].left = ctx[c].left
      /\ ctx'[c].call = ctx[c].call /\ ctx'[c].stage = stage
      /\ ctx'[c].phase = "select" /\ ctx'[c].n = 0
  BY <1>1, <1>2, GoneTo
<1>4. ctx[c].stage \in {"bfc", "bfs"} /\ ctx[c].phase = "release"
  BY DEF Release, InTransaction, At
<1>5. TypeOK'
  BY <1>1, <1>2, <1>3 DEF TypeOK
<1>6. ChipInv(c)'
  BY <1>1, <1>2, <1>3, <1>4 DEF BusyInv, ChipInv
<1>7. BankInv(c)'
  BY <1>1, <1>2, <1>3, <1>4 DEF BusyInv, BankInv
<1>8. LoadInv(c)' /\ QuietInv(c)' /\ CountInv(c)'
  BY <1>1, <1>2, <1>3, <1>4
     DEF BusyInv, ChipInv, LoadInv, QuietInv, CountInv, Written, HasRead
<1>9. QED
  BY <1>1, <1>2, <1>3, <1>5, <1>6, <1>7, <1>8, StillBusy DEF BusyInv

LEMMA SendCommandKeeps ==
  ASSUME IInv, NEW c \in Context, SendCommand(c)
  PROVE  IInv'
<1> DEFINE t == Transaction(c)
           call == Call(ctx[c].call, c)
           phase == IF t.in > 0 THEN "clock" ELSE "data"
<1>1. /\ Running(c) /\ ctx[c].call # "return" /\ ctx[c].call \in CallNames
      /\ BusyInv(c) /\ TypeOK /\ ctx[c].stage \in Stages
      /\ ctx[c] \in ContextState
  BY Busy DEF SendCommand, InTransaction, At
<1>2. ctx[c].stage \in {"bfc", "bfs", "op"} /\ ctx[c].phase = "command"
  BY DEF SendCommand, InTransaction, At
<1>3. /\ Goto(c, ctx[c].stage, phase) /\ phase \in Phases
      /\ Receive(Command(t.cmd, t.reg)) /\ rx' = {}
      /\ UNCHANGED <<cache, edge, isr, sent, arrived>>
  BY DEF SendCommand, Phases
<1>4. /\ ctx' \in [Context -> ContextState]
      /\ ctx' = [ctx EXCEPT ![c] = ctx'[c]]
      /\ ctx'[c].left = ctx[c].left
      /\ ctx'[c].call = ctx[c].call /\ ctx'[c].stage = ctx[c].stage
      /\ ctx'[c].phase = phase /\ ctx'[c].n = 0
  BY <1>1, <1>3, GoneTo
<1>5. cs /\ op = Idle
  BY <1>1, <1>2 DEF BusyInv, ChipInv
<1>6. /\ cs' = TRUE /\ op' = Command(t.cmd, t.reg)
      /\ UNCHANGED <<bank, txrts, etxnd, txmem, epktcnt>>
  BY <1>1, <1>3, <1>5, CommandTaken DEF TypeOK
<1>7. TypeOK'
  BY <1>1, <1>3, <1>4, <1>6 DEF TypeOK
<1>8. ChipInv(c)'
  <2>1. Transaction(c)' = t
    BY <1>4 DEF Transaction
  <2>2. QED
    BY <1>1, <1>2, <1>4, <1>6, <2>1, TransactionFacts DEF ChipInv
<1>9. BankInv(c)'
  BY <1>1, <1>2, <1>3, <1>4, <1>6 DEF BusyInv, BankInv
<1>10. LoadInv(c)' /\ QuietInv(c)' /\ CountInv(c)'
  BY <1>1, <1>2, <1>3, <1>4, <1>6
     DEF BusyInv, ChipInv, LoadInv, QuietInv, CountInv, Written, HasRead
<1>11. QED
  BY <1>1, <1>3, <1>4, <1>6, <1>7, <1>8, <1>9, <1>10, StillBusy DEF BusyInv

(* A context that reads a register reads the one it names: TXRTS, or       *)
(* whether EPKTCNT is zero.                                                *)
LEMMA ClockByteKeeps ==
  ASSUME IInv, NEW c \in Context, ClockByte(c)
  PROVE  IInv'
<1> DEFINE t == Transaction(c)
           call == Call(ctx[c].call, c)
<1>1. /\ Running(c) /\ ctx[c].call # "return" /\ ctx[c].call \in CallNames
      /\ BusyInv(c) /\ TypeOK /\ ctx[c].stage \in Stages
      /\ ctx[c] \in ContextState
  BY Busy DEF ClockByte, InTransaction, At
<1>2. ctx[c].stage \in {"bfc", "bfs", "op"} /\ ctx[c].phase = "clock"
  BY DEF ClockByte, InTransaction, At
<1>3. PICK val \in BOOLEAN : Answer(val) /\ rx' = {val}
  BY DEF ClockByte
<1>4. /\ Receive(Data("0")) /\ ctx' = [ctx EXCEPT ![c].phase = "fetch"]
      /\ UNCHANGED <<cache, edge, isr, sent, arrived>>
  BY DEF ClockByte
<1>5. /\ ctx' \in [Context -> ContextState]
      /\ ctx' = [ctx EXCEPT ![c] = ctx'[c]]
      /\ ctx'[c].left = ctx[c].left
      /\ ctx'[c].call = ctx[c].call /\ ctx'[c].stage = ctx[c].stage
      /\ ctx'[c].phase = "fetch" /\ ctx'[c].n = ctx[c].n
  <2> DEFINE r == [ctx[c] EXCEPT !.phase = "fetch"]
  <2>1. r \in ContextState
    BY <1>1 DEF ContextState, Phases
  <2>2. ctx' = [ctx EXCEPT ![c] = r]
    BY <1>4
  <2>3. QED
    BY <1>1, <2>1, <2>2, Updated DEF ContextState
<1>6. cs /\ op = Command(t.cmd, t.reg) /\ t.cmd \in {"RCR", "RBM"} /\ t.in > 0
  BY <1>1, <1>2, TransactionFacts DEF BusyInv, ChipInv
<1>7. UNCHANGED <<cs, op, bank, txrts, etxnd, txmem, epktcnt>>
  BY <1>4, <1>6, ReadingOnly DEF chipVars
<1>8. ctx[c].stage = "op" /\ t = call
  BY <1>1, <1>2, <1>6, TransactionFacts
<1>9. TypeOK'
  BY <1>1, <1>3, <1>4, <1>5, <1>7 DEF TypeOK
<1>10. ChipInv(c)'
  <2>1. Transaction(c)' = t
    BY <1>5 DEF Transaction
  <2>2. QED
    BY <1>5, <1>6, <1>7, <1>8, <2>1 DEF ChipInv
<1>11. BankInv(c)'
  BY <1>1, <1>4, <1>5, <1>7, <1>8 DEF BusyInv, BankInv
<1>12. ctx[c].call \notin {"ewrpt", "etxnd", "ctl", "data", "txrts", "pktdec"}
  BY <1>6, <1>8, CallFields
<1>13. ctx[c].call = "txwait" => val = txrts
  <2> HAVE ctx[c].call = "txwait"
  <2>1. op.cmd = "RCR" /\ op.reg = "ECON1"
    BY <1>6, <1>8, CallFields DEF Command
  <2>2. Target(op.reg) = "ECON1"
    BY <2>1 DEF Target, Common
  <2>3. val = CASE Target(op.reg) = "EPKTCNT" -> epktcnt > 0
                [] Target(op.reg) = "ECON1"   -> txrts
                [] OTHER                      -> FALSE
    BY <1>3, <1>6, <2>1 DEF Answer
  <2>4. QED
    BY <2>2, <2>3
<1>14. ctx[c].call \in {"poll", "check"} => (val <=> epktcnt > 0)
  <2> HAVE ctx[c].call \in {"poll", "check"}
  <2>1. call.banked /\ call.reg = "EPKTCNT" /\ call.cmd = "RCR"
    BY CallFields
  <2>2. bank = 1
    BY <1>1, <1>8, <2>1 DEF BusyInv, BankInv, BankOf
  <2>3. QED
    BY <1>3, <1>6, <1>8, <2>1, <2>2 DEF Answer, Target, BankOf, Command
<1>15. LoadInv(c)' /\ QuietInv(c)' /\ CountInv(c)'
  BY <1>1, <1>3, <1>4, <1>5, <1>7, <1>12, <1>13, <1>14
     DEF BusyInv, LoadInv, QuietInv, CountInv, HasRead
<1>16. QED
  BY <1>1, <1>4, <1>5, <1>7, <1>9, <1>10, <1>11, <1>15, StillBusy DEF BusyInv

LEMMA FetchByteKeeps ==
  ASSUME IInv, NEW c \in Context, FetchByte(c)
  PROVE  IInv'
<1> DEFINE t == Transaction(c)
           call == Call(ctx[c].call, c)
           n == ctx[c].n + 1
           phase == IF n = t.in THEN "release" ELSE "clock"
<1>1. /\ Running(c) /\ ctx[c].call # "return" /\ ctx[c].call \in CallNames
      /\ BusyInv(c) /\ TypeOK /\ ctx[c].stage \in Stages
      /\ ctx[c] \in ContextState
  BY Busy DEF FetchByte, InTransaction, At
<1>2. ctx[c].stage \in {"bfc", "bfs", "op"} /\ ctx[c].phase = "fetch"
  BY DEF FetchByte, InTransaction, At
<1>3. PICK val \in BOOLEAN : rx = {val}
  BY <1>1 DEF FetchByte, TypeOK
<1>4. (CHOOSE v \in rx : TRUE) = val
  BY <1>3
<1>5. /\ ctx' = [ctx EXCEPT ![c].n = n, ![c].val = val, ![c].phase = phase]
      /\ rx' = {}
      /\ UNCHANGED <<cs, op, bank, txrts, etxnd, txmem, epktcnt>>
      /\ UNCHANGED <<cache, edge, isr, sent, arrived>>
  BY <1>4 DEF FetchByte, chipVars
<1>6. /\ ctx' \in [Context -> ContextState]
      /\ ctx' = [ctx EXCEPT ![c] = ctx'[c]]
      /\ ctx'[c].left = ctx[c].left
      /\ ctx'[c].call = ctx[c].call /\ ctx'[c].stage = ctx[c].stage
      /\ ctx'[c].phase = phase /\ ctx'[c].n = n /\ ctx'[c].val = val
  <2> DEFINE r == [ctx[c] EXCEPT !.n = n, !.val = val, !.phase = phase]
  <2>0. n \in Nat /\ phase \in Phases
    BY <1>1 DEF ContextState, Phases
  <2> HIDE DEF n, phase
  <2>1. r \in ContextState
    BY <1>1, <2>0, StateTyped
  <2>2. ctx' = [ctx EXCEPT ![c] = r]
    BY <1>1, <1>5, Zenon DEF TypeOK
  <2>3. QED
    BY <1>1, <2>1, <2>2, Updated DEF ContextState
<1>7. cs /\ op = Command(t.cmd, t.reg) /\ t.cmd \in {"RCR", "RBM"} /\ t.in > 0
  BY <1>1, <1>2, TransactionFacts DEF BusyInv, ChipInv
<1>8. ctx[c].stage = "op" /\ t = call
  BY <1>1, <1>2, <1>7, TransactionFacts
<1>9. TypeOK'
  BY <1>1, <1>5, <1>6 DEF TypeOK
<1>10. ChipInv(c)'
  <2>1. Transaction(c)' = t
    BY <1>6 DEF Transaction
  <2>2. QED
    BY <1>5, <1>6, <1>7, <1>8, <2>1 DEF ChipInv
<1>11. BankInv(c)'
  BY <1>1, <1>5, <1>6, <1>8 DEF BusyInv, BankInv
<1>12. ctx[c].call \notin {"ewrpt", "etxnd", "ctl", "data", "txrts", "pktdec"}
  BY <1>7, <1>8, CallFields
<1>13. \A v : HasRead(c, v)' => HasRead(c, v)
  BY <1>2, <1>3, <1>6, <1>8 DEF HasRead
<1>14. LoadInv(c)' /\ QuietInv(c)' /\ CountInv(c)'
  BY <1>1, <1>5, <1>6, <1>12, <1>13 DEF BusyInv, LoadInv, QuietInv, CountInv
<1>15. QED
  BY <1>1, <1>5, <1>6, <1>9, <1>10, <1>11, <1>14, StillBusy DEF BusyInv

(* Where a context that sends a data byte is, and that the chip takes it   *)
(* for what it is.                                                         *)
LEMMA Sending ==
  ASSUME IInv, NEW c \in Context, SendData(c)
  PROVE  LET t == Transaction(c)  n == ctx[c].n + 1 IN
         /\ ctx[c].stage \in {"bfc", "bfs", "op"} /\ ctx[c].phase = "data"
         /\ t.in = 0 /\ ctx[c].n \in Nat /\ n \in 1 .. Len(t.out)
         /\ cs /\ op = Command(t.cmd, t.reg) /\ op.cmd = t.cmd /\ op.reg = t.reg
         /\ t.cmd # "none" /\ cs' = TRUE /\ Execute(Data(t.out[n]))
<1> DEFINE t == Transaction(c)
           n == ctx[c].n + 1
<1>1. /\ ctx[c].call # "return" /\ ctx[c].call \in CallNames
      /\ BusyInv(c) /\ TypeOK /\ ctx[c] \in ContextState
  BY Busy DEF SendData, InTransaction, At
<1>2. ctx[c].stage \in {"bfc", "bfs", "op"} /\ ctx[c].phase = "data"
  BY DEF SendData, InTransaction, At
<1>3. /\ t.in = 0 /\ ctx[c].n < Len(t.out)
      /\ cs /\ op = Command(t.cmd, t.reg)
  BY <1>1, <1>2 DEF BusyInv, ChipInv
<1>4. t.cmd # "none" /\ Len(t.out) \in Nat /\ ctx[c].n \in Nat
  BY <1>1, TransactionFacts DEF ContextState
<1>5. Receive(Data(t.out[n]))
  BY DEF SendData
<1>6. cs' = cs /\ Execute(Data(t.out[n]))
  BY <1>3, <1>4, <1>5, DataTaken
<1>7. op.cmd = t.cmd /\ op.reg = t.reg
  BY <1>3 DEF Command
<1>8. QED
  BY <1>1, <1>2, <1>3, <1>4, <1>6, <1>7 DEF TypeOK

(* A data byte of enc28j60_set_bank changes the bank only.                 *)
LEMMA BankSet ==
  ASSUME IInv, NEW c \in Context, SendData(c), ctx[c].stage \in {"bfc", "bfs"}
  PROVE  /\ ctx[c].n = 0 /\ Len(Transaction(c).out) = 1
         /\ bank' = IF ctx[c].stage = "bfc" THEN 0
                    ELSE BankOf(Call(ctx[c].call, c).reg)
         /\ UNCHANGED <<txrts, etxnd, txmem, epktcnt>>
<1> DEFINE t == Transaction(c)
           call == Call(ctx[c].call, c)
           byte == Data(t.out[1])
<1>1. ctx[c].call \in CallNames /\ BusyInv(c)
  BY Busy DEF SendData, InTransaction, At
<1>2. /\ ctx[c].stage = "bfc" => /\ t.cmd = "BFC" /\ t.reg = "ECON1"
                                /\ Len(t.out) = 1 /\ t.out[1] = "BSEL"
      /\ ctx[c].stage = "bfs" =>
           /\ t.cmd = "BFS" /\ t.reg = "ECON1" /\ Len(t.out) = 1
           /\ t.out[1] = IF BankOf(call.reg) = 1 THEN "BSEL0" ELSE "0"
  BY <1>1, TransactionFacts
<1>3. /\ ctx[c].n = 0 /\ Len(t.out) = 1 /\ Execute(byte)
      /\ op.cmd = t.cmd /\ op.reg = t.reg
  <2>1. /\ op.cmd = t.cmd /\ op.reg = t.reg /\ Execute(Data(t.out[ctx[c].n + 1]))
        /\ ctx[c].n \in Nat /\ ctx[c].n + 1 \in 1 .. Len(t.out)
    BY Sending
  <2>2. Len(t.out) = 1
    BY <1>2
  <2>3. ctx[c].n = 0 /\ ctx[c].n + 1 = 1
    BY <2>1, <2>2
  <2>4. QED
    BY <2>1, <2>2, <2>3
<1>4. byte.cmd = "none" /\ byte.data = t.out[1]
  BY DEF Data
<1>5. UNCHANGED <<etxnd, txmem, epktcnt>>
  BY <1>2, <1>3 DEF Execute
<1>6. CASE ctx[c].stage = "bfc"
  <2>1. ClearEcon1(Data("BSEL"))
    BY <1>2, <1>3, <1>6 DEF Execute
  <2>2. QED
    BY <1>3, <1>5, <1>6, <2>1 DEF ClearEcon1, Data
<1>7. CASE ctx[c].stage = "bfs"
  <2>1. SetEcon1(byte) /\ bank = 0
    BY <1>1, <1>2, <1>3, <1>7, Sending DEF Execute, BusyInv, BankInv
  <2>2. CASE BankOf(call.reg) = 1
    <3>1. SetEcon1(Data("BSEL0")) /\ Data("BSEL0") # Data("TXRTS")
      BY <1>2, <1>7, <2>1, <2>2 DEF Data
    <3>2. QED
      BY <1>3, <1>5, <1>7, <2>1, <2>2, <3>1 DEF SetEcon1, Data
  <2>3. CASE BankOf(call.reg) # 1
    <3>1. /\ byte = Data("0") /\ Data("0") # Data("TXRTS")
          /\ Data("0") # Data("BSEL0") /\ BankOf(call.reg) = 0
      BY <1>2, <1>7, <2>3 DEF Data, BankOf
    <3>2. QED
      BY <1>3, <1>4, <1>5, <1>7, <2>1, <3>1 DEF SetEcon1
  <2>4. QED
    BY <2>2, <2>3
<1>8. QED
  BY <1>6, <1>7

(* A data byte of a call does what the call is for, and nothing else.      *)
LEMMA CallWorks ==
  ASSUME IInv, NEW c \in Context, SendData(c), ctx[c].stage = "op"
  PROVE  LET name == ctx[c].call IN
         /\ bank' = bank
         /\ txrts' = IF name = "txrts" THEN TRUE ELSE txrts
         /\ epktcnt' = IF name = "pktdec" THEN epktcnt - 1 ELSE epktcnt
         /\ etxnd' = IF name = "etxnd" THEN c ELSE etxnd
         /\ txmem' = CASE name = "ewrpt" -> <<>>
                       [] name = "ctl"   -> Append(txmem, "control")
                       [] name = "data"  -> Append(txmem, c)
                       [] OTHER          -> txmem
         /\ name = "data" => op' = op
         /\ name \in {"ewrpt", "etxnd", "ctl", "data", "txrts",
                      "erdpt", "erxrdpt", "pktdec"}
<1> DEFINE t == Transaction(c)
           name == ctx[c].call
           n == ctx[c].n + 1
<1>1. name \in CallNames /\ BusyInv(c)
  BY Busy DEF SendData, InTransaction, At
<1>2. t = Call(name, c)
  BY <1>1, TransactionFacts
<1>3. /\ t.in = 0 /\ op.cmd = t.cmd /\ op.reg = t.reg /\ Execute(Data(t.out[n]))
      /\ ctx[c].n \in Nat /\ n \in 1 .. Len(t.out)
  BY Sending
<1>4. name \in {"ewrpt", "etxnd", "ctl", "data", "txrts",
                "erdpt", "erxrdpt", "pktdec"}
  BY <1>1, <1>2, <1>3, CallFields DEF CallNames, SendNames, RecvNames
<1>5. \A d : Data(d).data = d /\ Data(d).cmd = "none"
  BY DEF Data
<1>6. CASE name \in {"ewrpt", "etxnd", "erdpt", "erxrdpt"}
  <2>1. /\ t.cmd = "WCR" /\ Len(t.out) = 1 /\ t.banked
        /\ t.reg = CASE name = "ewrpt" -> "EWRPT" [] name = "etxnd" -> "ETXND"
                     [] name = "erdpt" -> "ERDPT" [] OTHER -> "ERXRDPT"
        /\ name = "ewrpt" => t.out[1] = "TXSTART"
        /\ name = "etxnd" => t.out[1] = c
    BY <1>2, <1>6, CallFields
  <2>2. n = 1 /\ bank = BankOf(t.reg)
    BY <1>1, <1>2, <1>3, <2>1 DEF BusyInv, BankInv
  <2>3. Target(op.reg) = t.reg
    BY <1>3, <2>2 DEF Target
  <2>4. QED
    BY <1>3, <1>5, <1>6, <2>1, <2>2, <2>3 DEF Execute, econ1
<1>7. CASE name \in {"ctl", "data"}
  <2>1. CASE name = "ctl"
    <3>1. t.cmd = "WBM" /\ Len(t.out) = 1 /\ t.out[1] = "control"
      BY <1>2, <2>1, CallFields
    <3>2. n = 1
      BY <1>3, <3>1
    <3>3. QED
      BY <1>3, <1>5, <2>1, <3>1, <3>2 DEF Execute, econ1
  <2>2. CASE name = "data"
    <3>1. /\ t.cmd = "WBM" /\ Len(t.out) = 2
          /\ t.out[1] = c /\ t.out[2] = c
      BY <1>2, <2>2, CallFields
    <3>2. t.out[n] = c
      BY <1>3, <3>1
    <3>3. QED
      BY <1>3, <1>5, <2>2, <3>1, <3>2 DEF Execute, econ1
  <2>3. QED
    BY <1>7, <2>1, <2>2
<1>8. CASE name = "txrts"
  <2>1. t.cmd = "BFS" /\ t.reg = "ECON1" /\ Len(t.out) = 1 /\ t.out[1] = "TXRTS"
    BY <1>2, <1>8, CallFields
  <2>2. n = 1
    BY <1>3, <2>1
  <2>3. SetEcon1(Data("TXRTS")) /\ UNCHANGED <<etxnd, txmem, epktcnt>>
    BY <1>3, <2>1, <2>2 DEF Execute
  <2>4. (txrts' <=> TRUE) /\ bank' = bank
    BY <2>3 DEF SetEcon1, Data
  <2>5. QED
    BY <1>8, <2>3, <2>4
<1>9. CASE name = "pktdec"
  <2>1. t.cmd = "BFS" /\ t.reg = "ECON2" /\ Len(t.out) = 1 /\ t.out[1] = "PKTDEC"
    BY <1>2, <1>9, CallFields
  <2>2. n = 1
    BY <1>3, <2>1
  <2>3. QED
    BY <1>3, <1>9, <2>1, <2>2 DEF Execute, econ1
<1>10. QED
  BY <1>4, <1>6, <1>7, <1>8, <1>9

(* The transmit buffer byte after byte.                                    *)
LEMMA Appended ==
  ASSUME NEW S, NEW s \in Seq(S), NEW z \in S, NEW u \in Seq(S),
         Len(u) = Len(s) + 1, u[Len(s) + 1] = z,
         \A i \in 1 .. Len(s) : u[i] = s[i]
  PROVE  Append(s, z) = u
<1>1. /\ Append(s, z) \in Seq(S) /\ Len(Append(s, z)) = Len(s) + 1
      /\ \A i \in 1 .. Len(s) : Append(s, z)[i] = s[i]
      /\ Append(s, z)[Len(s) + 1] = z
  BY AppendProperties
<1>2. Len(s) \in Nat
  OBVIOUS
<1>3. \A i \in 1 .. Len(u) : Append(s, z)[i] = u[i]
  BY <1>1, <1>2
<1>4. QED
  BY <1>1, <1>3, SeqEqual

LEMMA Loaded ==
  ASSUME NEW S, NEW x \in S, NEW y \in S
  PROVE  /\ Append(<<>>, x) = <<x>>
         /\ Append(<<x>>, y) = <<x, y>>
         /\ Append(<<x, y>>, y) = <<x, y, y>>
<1> DEFINE s1 == <<x>>  s2 == <<x, y>>  s3 == <<x, y, y>>
<1>1. /\ s1 \in Seq(S) /\ Len(s1) = 1 /\ s1[1] = x
      /\ s2 \in Seq(S) /\ Len(s2) = 2 /\ s2[1] = x /\ s2[2] = y
      /\ s3 \in Seq(S) /\ Len(s3) = 3 /\ s3[1] = x /\ s3[2] = y /\ s3[3] = y
  OBVIOUS
<1>2. Append(<<>>, x) = s1
  OBVIOUS
<1> HIDE DEF s1, s2, s3
<1>3. Append(s1, y) = s2
  <2>1. 1 .. Len(s1) = {1} /\ Len(s1) + 1 = 2
    BY <1>1
  <2>2. QED
    BY <1>1, <2>1, Appended
<1>4. Append(s2, y) = s3
  <2>1. 1 .. Len(s2) = {1, 2} /\ Len(s2) + 1 = 3
    BY <1>1
  <2>2. QED
    BY <1>1, <2>1, Appended
<1>5. QED
  BY <1>2, <1>3, <1>4 DEF s1, s2, s3

LEMMA SendDataKeeps ==
  ASSUME IInv, NEW c \in Context, SendData(c)
  PROVE  IInv'
<1> DEFINE t == Transaction(c)
           name == ctx[c].call
           n == ctx[c].n + 1
           phase == IF n = Len(t.out) THEN "release" ELSE "data"
<1>1. /\ Running(c) /\ name # "return" /\ name \in CallNames
      /\ BusyInv(c) /\ TypeOK /\ ctx[c] \in ContextState
  BY Busy DEF SendData, InTransaction, At
<1>2. /\ ctx[c].stage \in {"bfc", "bfs", "op"} /\ ctx[c].phase = "data"
      /\ t.in = 0 /\ ctx[c].n \in Nat /\ n \in 1 .. Len(t.out)
      /\ op = Command(t.cmd, t.reg) /\ cs' = TRUE
  BY Sending
<1>3. /\ ctx' = [ctx EXCEPT ![c].n = n, ![c].phase = phase]
      /\ rx' = {} /\ UNCHANGED <<cache, edge, isr, sent, arrived>>
  BY DEF SendData
<1>4. /\ ctx' \in [Context -> ContextState]
      /\ ctx' = [ctx EXCEPT ![c] = ctx'[c]]
      /\ ctx'[c].left = ctx[c].left
      /\ ctx'[c].call = name /\ ctx'[c].stage = ctx[c].stage
      /\ ctx'[c].phase = phase /\ ctx'[c].n = n
  <2> DEFINE r == [ctx[c] EXCEPT !.n = n, !.phase = phase]
  <2>0. n \in Nat /\ phase \in Phases
    BY <1>2 DEF Phases
  <2> HIDE DEF n, phase
  <2>1. r \in ContextState
    BY <1>1, <2>0 DEF ContextState
  <2>2. ctx' = [ctx EXCEPT ![c] = r]
    BY <1>1, <1>3, Zenon DEF TypeOK
  <2>3. QED
    BY <1>1, <2>1, <2>2, Updated DEF ContextState
<1>5. Transaction(c)' = t
  BY <1>4 DEF Transaction
<1>6. t.in = 0 /\ Len(t.out) \in Nat
  BY <1>1, <1>2, TransactionFacts
<1>7. c = "isr" \/ name \in SendNames
  BY <1>1 DEF IInv, ApartInv, Context
<1>8. CASE ctx[c].stage \in {"bfc", "bfs"}
  <2>1. /\ n = 1 /\ phase = "release"
        /\ bank' = IF ctx[c].stage = "bfc" THEN 0 ELSE BankOf(Call(name, c).reg)
        /\ UNCHANGED <<txrts, etxnd, txmem, epktcnt>>
    <3>1. ctx[c].n = 0 /\ Len(t.out) = 1
      BY <1>8, BankSet
    <3>2. n = 1 /\ phase = "release"
      BY <3>1
    <3>3. QED
      BY <1>8, <3>2, BankSet
  <2>2. TypeOK'
    BY <1>1, <1>2, <1>3, <1>4, <2>1 DEF TypeOK, BankOf
  <2>3. ChipInv(c)'
    BY <1>2, <1>4, <1>5, <1>6, <1>8, <2>1 DEF ChipInv
  <2>4. BankInv(c)'
    BY <1>1, <1>3, <1>4, <1>8, <2>1 DEF BusyInv, BankInv
  <2>5. LoadInv(c)' /\ QuietInv(c)' /\ CountInv(c)'
    BY <1>1, <1>3, <1>4, <1>8, <2>1
       DEF BusyInv, LoadInv, QuietInv, CountInv, Written, HasRead
  <2>6. QED
    BY <1>1, <1>3, <1>4, <2>1, <2>2, <2>3, <2>4, <2>5, StillBusy DEF BusyInv
<1>9. CASE ctx[c].stage = "op"
  <2>1. /\ bank' = bank
        /\ txrts' = IF name = "txrts" THEN TRUE ELSE txrts
        /\ epktcnt' = IF name = "pktdec" THEN epktcnt - 1 ELSE epktcnt
        /\ etxnd' = IF name = "etxnd" THEN c ELSE etxnd
        /\ txmem' = CASE name = "ewrpt" -> <<>>
                      [] name = "ctl"   -> Append(txmem, "control")
                      [] name = "data"  -> Append(txmem, c)
                      [] OTHER          -> txmem
        /\ name = "data" => op' = op
        /\ name \in {"ewrpt", "etxnd", "ctl", "data", "txrts",
                     "erdpt", "erxrdpt", "pktdec"}
    BY <1>9, CallWorks
  <2>2. t = Call(name, c)
    BY <1>1, <1>9, TransactionFacts
  <2>3. Len(t.out) = IF name = "data" THEN 2 ELSE 1
    <3>1. CASE name = "data"
      BY <2>2, <3>1, CallFields
    <3>2. CASE name # "data"
      BY <2>1, <2>2, <3>2, CallFields
    <3>3. QED
      BY <3>1, <3>2
  <2>4. /\ name = "data" => n \in {1, 2}
        /\ name # "data" => n = 1 /\ phase = "release"
        /\ ctx[c].n = n - 1 /\ ctx[c].n \in {0, 1}
    BY <1>2, <2>3
  <2>5. epktcnt' \in Nat /\ (name = "pktdec" => epktcnt > 0)
    BY <1>1, <1>9, <2>1, <2>4 DEF BusyInv, CountInv, Written, TypeOK
  <2>6. TypeOK'
    BY <1>1, <1>2, <1>3, <1>4, <2>1, <2>5 DEF TypeOK
  <2>7. ChipInv(c)'
    BY <1>2, <1>4, <1>5, <1>6, <1>9, <2>1, <2>3, <2>4 DEF ChipInv
  <2>8. BankInv(c)'
    BY <1>1, <1>3, <1>4, <1>9, <2>1 DEF BusyInv, BankInv
  <2>9. LoadInv(c)'
    <3>1. /\ Append(<<>>, "control") = <<"control">>
          /\ Append(<<"control">>, c) = <<"control", c>>
          /\ Append(<<"control", c>>, c) = <<"control", c, c>>
      <4> DEFINE S == {"control", c}
      <4>1. c \in S /\ "control" \in S
        OBVIOUS
      <4> HIDE DEF S
      <4>2. QED
        BY <4>1, Loaded
    <3>2. Written(c) = ctx[c].n /\ Written(c)' = n
      BY <1>4, <1>9 DEF Written
    <3>3. LoadInv(c)
      BY <1>1 DEF BusyInv
    <3>4. CASE name = "ctl"
      <4>1. etxnd = c /\ txmem = <<>> /\ n = 1
        BY <2>4, <3>2, <3>3, <3>4 DEF LoadInv
      <4>2. etxnd' = c /\ txmem' = <<"control">>
        BY <2>1, <3>1, <3>4, <4>1
      <4>3. QED
        BY <1>4, <3>2, <3>4, <4>1, <4>2 DEF LoadInv
    <3>5. CASE name = "data" /\ n = 1
      <4>1. etxnd = c /\ txmem = <<"control">>
        BY <2>4, <3>2, <3>3, <3>5 DEF LoadInv
      <4>2. etxnd' = c /\ txmem' = <<"control", c>>
        BY <2>1, <3>1, <3>5, <4>1
      <4>3. QED
        BY <1>4, <3>2, <3>5, <4>2 DEF LoadInv
    <3>6. CASE name = "data" /\ n = 2
      <4>1. etxnd = c /\ txmem = <<"control", c>>
        BY <2>4, <3>2, <3>3, <3>6 DEF LoadInv
      <4>2. etxnd' = c /\ txmem' = <<"control", c, c>>
        BY <2>1, <3>1, <3>6, <4>1
      <4>3. QED
        BY <1>4, <3>2, <3>6, <4>2 DEF LoadInv
    <3>7. CASE name \notin {"ctl", "data"}
      BY <1>4, <2>1, <2>4, <3>2, <3>3, <3>7 DEF LoadInv
    <3>8. QED
      BY <2>4, <3>4, <3>5, <3>6, <3>7
  <2>10. QuietInv(c)'
    <3>1. name # "txwait" /\ (name # "txrts" => txrts' = txrts)
      BY <2>1
    <3>2. Written(c)' = n /\ n # 0
      BY <1>4, <1>9, <2>4 DEF Written
    <3>3. ~((name = "txwait" /\ HasRead(c, FALSE))')
      BY <1>4, <3>1
    <3>4. name \in {"ewrpt", "etxnd", "ctl", "data"} => ~txrts'
      BY <1>1, <3>1 DEF BusyInv, QuietInv
    <3>5. Written(c)' # 0
      BY <3>2
    <3>6. QED
      BY <1>4, <3>3, <3>4, <3>5 DEF QuietInv
  <2>11. CountInv(c)'
    BY <1>1, <1>2, <1>4, <1>9, <2>1, <2>4
       DEF BusyInv, CountInv, Written, HasRead
  <2>12. epktcnt' = epktcnt \/ c = "isr"
    BY <1>7, <2>1 DEF SendNames
  <2>13. QED
    BY <1>1, <1>3, <1>4, <2>6, <2>7, <2>8, <2>9, <2>10, <2>11, <2>12, StillBusy
       DEF BusyInv
<1>10. QED
  BY <1>2, <1>8, <1>9

(* A call begins as the one before it has left things.                     *)
LEMMA NextCallReady ==
  ASSUME IInv, NEW c \in Context, At(c, "op", "release"),
         NEW next \in After(ctx[c].call, ctx[c].val)
  PROVE  /\ next = "etxnd" => txmem = <<>>
         /\ next = "ctl" => etxnd = c /\ txmem = <<>>
         /\ next = "data" => etxnd = c /\ txmem = <<"control">>
         /\ next = "txrts" => etxnd = c /\ txmem = <<"control", c, c>>
         /\ next \in {"ewrpt", "etxnd", "ctl", "data", "txrts"} => ~txrts
         /\ next \in {"erdpt", "header", "payload", "erxrdpt", "pktdec"} =>
              epktcnt > 0
         /\ next = "return" =>
              \/ ctx[c].call \in {"txerr", "pktdec"}
              \/ ctx[c].call = "poll" /\ (epktcnt > 0 => edge)
<1> DEFINE name == ctx[c].call
           val == ctx[c].val
<1>1. /\ name \in CallNames /\ BusyInv(c) /\ TypeOK /\ val \in BOOLEAN
      /\ ctx[c].stage = "op" /\ ctx[c].phase = "release"
  BY Busy DEF At, ContextState
<1>2. HasRead(c, val)
  BY <1>1 DEF HasRead
<1>3. Transaction(c) = Call(name, c)
  BY <1>1, TransactionFacts
<1>4. /\ name \in {"ewrpt", "etxnd", "ctl"} => ctx[c].n = 1
      /\ name = "data" => ctx[c].n = 2
  <2>1. Transaction(c).in = 0 => ctx[c].n = Len(Transaction(c).out)
    BY <1>1 DEF BusyInv, ChipInv
  <2>2. CASE name \in {"ewrpt", "etxnd", "ctl"}
    <3>1. Call(name, c).in = 0 /\ Len(Call(name, c).out) = 1
      BY <2>2, CallFields
    <3>2. QED
      BY <1>3, <2>1, <2>2, <3>1
  <2>3. CASE name = "data"
    <3>1. Call(name, c).in = 0 /\ Len(Call(name, c).out) = 2
      BY <2>3, CallFields
    <3>2. QED
      BY <1>3, <2>1, <2>3, <3>1
  <2>4. QED
    BY <2>2, <2>3
<1>5. Written(c) = ctx[c].n
  BY <1>1 DEF Written
<1>6. /\ next = "etxnd" => txmem = <<>>
      /\ next = "ctl" => etxnd = c /\ txmem = <<>>
      /\ next = "data" => etxnd = c /\ txmem = <<"control">>
      /\ next = "txrts" => etxnd = c /\ txmem = <<"control", c, c>>
  <2>1. LoadInv(c)
    BY <1>1 DEF BusyInv
  <2>2. CASE next = "etxnd"
    BY <1>1, <1>4, <1>5, <2>1, <2>2, AfterFacts DEF LoadInv
  <2>3. CASE next = "ctl"
    BY <1>1, <1>4, <1>5, <2>1, <2>3, AfterFacts DEF LoadInv
  <2>4. CASE next = "data"
    BY <1>1, <1>4, <1>5, <2>1, <2>4, AfterFacts DEF LoadInv
  <2>5. CASE next = "txrts"
    BY <1>1, <1>4, <1>5, <2>1, <2>5, AfterFacts DEF LoadInv
  <2>6. QED
    BY <2>2, <2>3, <2>4, <2>5
<1>7. next \in {"ewrpt", "etxnd", "ctl", "data", "txrts"} => ~txrts
  <2>1. QuietInv(c)
    BY <1>1 DEF BusyInv
  <2>2. CASE next = "ewrpt"
    <3>1. name = "txwait" /\ ~val
      BY <1>1, <2>2, AfterFacts
    <3>2. HasRead(c, FALSE)
      BY <1>1, <1>2, <3>1
    <3>3. QED
      BY <2>1, <3>1, <3>2 DEF QuietInv
  <2>3. CASE next \in {"etxnd", "ctl", "data", "txrts"}
    BY <1>1, <2>1, <2>3, AfterFacts DEF QuietInv
  <2>4. QED
    BY <2>2, <2>3
<1>8. next \in {"erdpt", "header", "payload", "erxrdpt", "pktdec"} => epktcnt > 0
  <2>1. CountInv(c)
    BY <1>1 DEF BusyInv
  <2>2. CASE next = "erdpt"
    <3>1. name = "check" /\ val
      BY <1>1, <2>2, AfterFacts
    <3>2. HasRead(c, TRUE)
      BY <1>1, <1>2, <3>1
    <3>3. QED
      BY <2>1, <3>1, <3>2 DEF CountInv
  <2>3. CASE next \in {"header", "payload", "erxrdpt", "pktdec"}
    BY <1>1, <2>1, <2>3, AfterFacts DEF CountInv
  <2>4. QED
    BY <2>2, <2>3
<1>9. next = "return" =>
        name \in {"txerr", "pktdec"} \/ (name = "poll" /\ (epktcnt > 0 => edge))
  <2> HAVE next = "return"
  <2>1. name \in {"txerr", "pktdec"} \/ (name = "poll" /\ ~val)
    BY <1>1, AfterFacts
  <2>2. ~val => HasRead(c, FALSE)
    BY <1>1, <1>2
  <2>3. QED
    BY <1>1, <2>1, <2>2 DEF BusyInv, CountInv
<1>10. QED
  BY <1>6, <1>7, <1>8, <1>9

LEMMA SendFollowsSend ==
  ASSUME NEW name \in CallNames, NEW val \in BOOLEAN,
         NEW next \in After(name, val), next \in SendNames
  PROVE  name \in SendNames
  BY AfterFacts DEF CallNames, SendNames, RecvNames

(* A context at the beginning of its wait needs the bus at rest and no     *)
(* more.                                                                   *)
LEMMA WaitsAtRest ==
  ASSUME NEW c \in Context, ApartInv', ~cs', op' = Idle, cache' = bank',
         ctx'[c].call = "txwait", ctx'[c].stage = "test"
  PROVE  BusyInv(c)'
<1>1. ctx'[c].phase = "select" /\ ctx'[c].n = 0
  BY DEF ApartInv
<1>2. ChipInv(c)' /\ BankInv(c)'
  BY <1>1 DEF ChipInv, BankInv
<1>3. LoadInv(c)' /\ QuietInv(c)' /\ CountInv(c)'
  BY DEF LoadInv, QuietInv, CountInv, HasRead
<1>4. QED
  BY <1>2, <1>3 DEF BusyInv

LEMMA FinishKeeps ==
  ASSUME IInv, NEW c \in Context, Finish(c)
  PROVE  IInv'
<1> DEFINE name == ctx[c].call
<1>1. /\ At(c, "op", "release") /\ Running(c) /\ name # "return"
      /\ name \in CallNames /\ BusyInv(c) /\ TypeOK /\ ctx[c].val \in BOOLEAN
  BY Busy DEF Finish, At, ContextState
<1>2. PICK next \in After(name, ctx[c].val), left \in Left(c) :
        /\ sent' = IF c = "main" /\ next = "return" THEN sent + 1 ELSE sent
        /\ ctx' = [ctx EXCEPT ![c] =
             StartOf(IF next # "return" THEN next
                     ELSE IF c = "main" /\ sent' < Sends THEN "txwait"
                     ELSE IF c = "isr" /\ name \in {"txerr", "pktdec"}
                          THEN AfterPacket(left)
                     ELSE "return", left)]
        /\ isr' = (isr /\ ~(c = "isr" /\ ctx'[c].call = "return"))
  BY DEF Finish
<1> DEFINE new == IF next # "return" THEN next
                  ELSE IF c = "main" /\ sent' < Sends THEN "txwait"
                  ELSE IF c = "isr" /\ name \in {"txerr", "pktdec"}
                       THEN AfterPacket(left)
                  ELSE "return"
<1>3. /\ cs' = FALSE /\ op' = Idle
      /\ UNCHANGED <<bank, etxnd, txmem, txrts, epktcnt, cache, rx, edge,
                     arrived>>
  BY DEF Finish
<1>4. /\ next \in CallNames \cup {"return"}
      /\ name \in SendNames => next \in SendNames \cup {"return"}
  BY <1>1, <1>2, AfterFacts
<1>5. c = "main" => name \in SendNames
  BY <1>1 DEF IInv, ApartInv
<1>6. /\ new \in CallNames \cup {"return"}
      /\ c = "main" => new \in SendNames \cup {"return"}
  BY <1>4, <1>5 DEF AfterPacket, CallNames, SendNames, RecvNames
<1>7. cache = bank
  BY <1>1 DEF At, BusyInv, BankInv
<1>7a. /\ left \in Nat
       /\ c = "isr" /\ new \in SendNames => left > 0
  <2>1. ctx[c].left \in Nat
    BY <1>1 DEF TypeOK, ContextState
  <2>2. c = "isr" /\ name \in SendNames => ctx[c].left > 0
    BY <1>1 DEF IInv, ApartInv
  <2>3. CASE name = "pktdec"
    <3>1. left \in Nat
      BY <1>2, <2>3 DEF Left, Answers
    <3>2. next = "return"
      BY <1>1, <1>2, <2>3, FollowingFacts DEF After
    <3>3. c = "isr" => new = AfterPacket(left)
      BY <2>3, <3>2
    <3>4. QED
      BY <3>1, <3>3 DEF AfterPacket, SendNames
  <2>4. CASE name = "txerr" /\ c = "isr"
    <3>1. left = ctx[c].left - 1
      BY <1>2, <2>4 DEF Left
    <3>2. left \in Nat
      BY <2>1, <2>2, <2>4, <3>1 DEF SendNames
    <3>3. next = "return"
      BY <1>1, <1>2, <2>4, FollowingFacts DEF After
    <3>4. new = AfterPacket(left)
      BY <2>4, <3>3
    <3>5. QED
      BY <3>2, <3>4 DEF AfterPacket, SendNames
  <2>5. CASE name # "pktdec" /\ ~(name = "txerr" /\ c = "isr")
    <3>1. left = ctx[c].left
      BY <1>2, <2>5 DEF Left
    <3>2. c = "isr" /\ new \in SendNames => name \in SendNames
      <4>1. c = "isr" => new = next \/ new = "return"
        BY <2>5
      <4>2. next \in SendNames => name \in SendNames
        BY <1>1, <1>2, SendFollowsSend
      <4>3. QED
        BY <4>1, <4>2 DEF SendNames
    <3>3. QED
      BY <2>1, <2>2, <3>1, <3>2
  <2>6. QED
    BY <2>3, <2>4, <2>5
<1> HIDE DEF new
<1>8. /\ ctx' \in [Context -> ContextState]
      /\ ctx' = [ctx EXCEPT ![c] = ctx'[c]]
      /\ ctx'[c].call = new /\ ctx'[c].stage = "test"
      /\ ctx'[c].phase = "select" /\ ctx'[c].n = 0
      /\ ctx'[c].left = left
  <2>1. StartOf(new, left) \in ContextState
    BY <1>6, <1>7a DEF StartOf, ContextState, Stages, Phases
  <2>2. ctx' = [ctx EXCEPT ![c] = StartOf(new, left)]
    BY <1>2 DEF new
  <2>3. ctx'[c] = StartOf(new, left)
    BY <1>1, <2>1, <2>2, Updated
  <2>4. QED
    BY <1>1, <2>1, <2>2, <2>3, Updated DEF StartOf
<1>9. TypeOK'
  <2>1. sent' \in Nat /\ isr' \in BOOLEAN
    BY <1>1, <1>2 DEF TypeOK
  <2>2. QED
    BY <1>1, <1>3, <1>8, <2>1 DEF TypeOK
<1>10. CASE new # "return"
  <2>1. ChipInv(c)' /\ BankInv(c)'
    BY <1>3, <1>7, <1>8 DEF ChipInv, BankInv
  <2>2. new = next \/ new \in {"txwait", "poll"}
    BY <1>10 DEF new, AfterPacket
  <2>3. LoadInv(c)' /\ QuietInv(c)' /\ CountInv(c)'
    <3>1. Written(c)' = 0 /\ \A v : ~HasRead(c, v)'
      BY <1>8 DEF Written, HasRead
    <3>2. CASE new \in {"txwait", "poll"}
      BY <1>8, <3>1, <3>2 DEF LoadInv, QuietInv, CountInv
    <3>3. CASE new = next
      <4>1. LoadInv(c)'
        <5>1. /\ next = "etxnd" => txmem' = <<>>
              /\ next = "ctl" => etxnd' = c /\ txmem' = <<>>
              /\ next = "data" => etxnd' = c /\ txmem' = <<"control">>
              /\ next = "txrts" => etxnd' = c /\ txmem' = <<"control", c, c>>
          BY <1>1, <1>2, <1>3, NextCallReady
        <5>2. QED
          BY <1>8, <3>1, <3>3, <5>1 DEF LoadInv
      <4>2. QuietInv(c)'
        <5>1. next \in {"ewrpt", "etxnd", "ctl", "data", "txrts"} => ~txrts'
          BY <1>1, <1>2, <1>3, NextCallReady
        <5>2. QED
          BY <1>8, <3>1, <3>3, <5>1 DEF QuietInv
      <4>3. CountInv(c)'
        <5>1. next \in {"erdpt", "header", "payload", "erxrdpt", "pktdec"} =>
                epktcnt' > 0
          BY <1>1, <1>2, <1>3, NextCallReady
        <5>2. QED
          BY <1>8, <3>1, <3>3, <5>1 DEF CountInv
      <4>4. QED
        BY <4>1, <4>2, <4>3
    <3>4. QED
      BY <2>2, <3>2, <3>3
  <2>4. isr' = isr
    BY <1>1, <1>2, <1>8, <1>10 DEF TypeOK
  <2>5. QED
    BY <1>1, <1>3, <1>6, <1>7a, <1>8, <1>9, <1>10, <2>1, <2>3, <2>4, StillBusy
       DEF BusyInv
<1>11. CASE new = "return"
  <2>1. next = "return"
    BY <1>2, <1>4, <1>11 DEF new, CallNames, SendNames, RecvNames
  <2>2. c = "isr" => (epktcnt > 0 => edge)
    BY <1>1, <1>2, <1>11, <2>1, NextCallReady DEF new, AfterPacket
  <2>3. ~isr' /\ (c = "main" => ~isr)
    BY <1>1, <1>2, <1>8, <1>11 DEF Running, Context
  <2>4. \A d \in Context : d # c => ctx'[d] = ctx[d]
    BY <1>1, <1>8 DEF IInv, TypeOK
  <2>5. ApartInv'
    <3>1. \A d \in Context : ctx'[d].call = "return" => ctx'[d].stage = "test"
      BY <1>8, <2>4 DEF IInv, ApartInv
    <3>2. \A d \in Context :
            ctx'[d].stage = "test" => ctx'[d].phase = "select" /\ ctx'[d].n = 0
      BY <1>8, <2>4 DEF IInv, ApartInv
    <3>3. ctx'["isr"].call = "return"
      BY <1>8, <1>11, <2>3, <2>4 DEF IInv, ApartInv, Context
    <3>4. ctx'["main"].call \in SendNames \cup {"return"}
      BY <1>8, <1>11, <2>4 DEF IInv, ApartInv, Context
    <3>5. QED
      BY <2>3, <3>1, <3>2, <3>3, <3>4 DEF ApartInv, SendNames
  <2>6. ~cs' /\ op' = Idle /\ cache' = bank'
    BY <1>3, <1>7
  <2>7. RestInv'
    BY <2>6 DEF RestInv
  <2>8. NoFrameForgotten'
    <3>1. CASE c = "isr"
      BY <1>3, <2>2, <3>1 DEF NoFrameForgotten
    <3>2. CASE c = "main"
      BY <1>1, <1>3, <3>2 DEF IInv, NoFrameForgotten, Running
    <3>3. QED
      BY <3>1, <3>2 DEF Context
  <2>9. ASSUME NEW d \in Context, Running(d)', ctx'[d].call # "return"
        PROVE  BusyInv(d)'
    <3>1. d = "main" /\ c = "isr" /\ isr /\ ctx'[d] = ctx[d]
      BY <1>1, <1>8, <1>11, <2>3, <2>4, <2>9 DEF Running, Context
    <3>2. ctx'[d].call = "txwait" /\ ctx'[d].stage = "test"
      BY <2>9, <3>1 DEF IInv, ApartInv, Interruptible
    <3>3. QED
      BY <2>5, <2>6, <3>2, WaitsAtRest
  <2>10. QED
    BY <1>9, <2>5, <2>7, <2>8, <2>9 DEF IInv
<1>12. QED
  BY <1>10, <1>11

LEMMA InterruptKeeps ==
  ASSUME HeldOff, IInv, Interrupt
  PROVE  IInv'
<1>1. /\ edge /\ ~isr /\ Interruptible /\ edge' = FALSE /\ isr' = TRUE
      /\ ctx' = [ctx EXCEPT !["isr"] = StartOf("poll", 0)]
      /\ UNCHANGED <<cs, op, bank, etxnd, txmem, txrts, epktcnt, cache, rx,
                     sent, arrived>>
  BY DEF Interrupt, chipVars
<1>2. TypeOK /\ "isr" \in Context /\ "main" \in Context
  BY DEF IInv, Context
<1>3. StartOf("poll", 0) \in ContextState
  BY DEF StartOf, ContextState, Stages, Phases, CallNames, RecvNames
<1>4. ctx' \in [Context -> ContextState] /\ ctx'["isr"] = StartOf("poll", 0)
  BY <1>1, <1>2, <1>3, Updated
<1>5. /\ ctx'["isr"].call = "poll" /\ ctx'["isr"].stage = "test"
      /\ ctx'["isr"].phase = "select" /\ ctx'["isr"].n = 0
      /\ ctx'["main"] = ctx["main"]
  BY <1>1, <1>2, <1>4 DEF StartOf, TypeOK
<1>6. ~cs /\ op = Idle /\ cache = bank
  <2>1. Running("main")
    BY <1>1 DEF Running
  <2>2. CASE ctx["main"].call = "return"
    BY <1>2, <2>1, <2>2 DEF IInv, RestInv
  <2>3. CASE ctx["main"].call # "return"
    <3>1. BusyInv("main") /\ ctx["main"].stage = "test"
      BY <1>1, <1>2, <2>1, <2>3 DEF IInv, Interruptible
    <3>2. QED
      BY <3>1 DEF BusyInv, ChipInv, BankInv
  <2>4. QED
    BY <2>2, <2>3
<1>7. TypeOK'
  BY <1>1, <1>2, <1>4 DEF TypeOK
<1>8. ApartInv'
  <2>1. Interruptible'
    BY <1>1, <1>5 DEF Interruptible
  <2>2. QED
    BY <1>1, <1>5, <2>1 DEF IInv, ApartInv, Context, SendNames
<1>9. BusyInv("isr")'
  <2>1. ChipInv("isr")' /\ BankInv("isr")'
    BY <1>1, <1>5, <1>6 DEF ChipInv, BankInv
  <2>2. LoadInv("isr")' /\ QuietInv("isr")' /\ CountInv("isr")'
    BY <1>5 DEF LoadInv, QuietInv, CountInv, HasRead
  <2>3. QED
    BY <2>1, <2>2 DEF BusyInv
<1>10. \A c \in Context : Running(c)' => c = "isr"
  BY <1>1 DEF Running
<1>11. RestInv' /\ NoFrameForgotten'
  BY <1>1, <1>5, <1>10 DEF RestInv, NoFrameForgotten
<1>12. QED
  BY <1>7, <1>8, <1>9, <1>10, <1>11 DEF IInv

LEMMA SameBusy ==
  ASSUME NEW c, BusyInv(c), UNCHANGED <<cs, op, bank, etxnd, txmem, cache, ctx>>
  PROVE  ChipInv(c)' /\ BankInv(c)' /\ LoadInv(c)'
<1>1. ChipInv(c)'
  <2>1. Transaction(c)' = Transaction(c)
    BY DEF Transaction
  <2>2. QED
    BY <2>1 DEF BusyInv, ChipInv
<1>2. BankInv(c)'
  BY DEF BusyInv, BankInv
<1>3. LoadInv(c)'
  BY DEF BusyInv, LoadInv, Written
<1>4. QED
  BY <1>1, <1>2, <1>3

LEMMA TransmittedKeeps == IInv /\ Transmitted => IInv'
<1> SUFFICES ASSUME IInv, Transmitted PROVE IInv'
  OBVIOUS
<1>1. /\ txrts' = FALSE
      /\ UNCHANGED <<cs, op, bank, etxnd, txmem, epktcnt, cache, rx, edge, isr,
                     ctx, sent, arrived>>
  BY DEF Transmitted
<1>2. TypeOK' /\ ApartInv' /\ RestInv' /\ NoFrameForgotten'
  BY <1>1 DEF IInv, TypeOK, ApartInv, Interruptible, Running, RestInv, NoFrameForgotten
<1>3. ASSUME NEW c \in Context, Running(c)', ctx'[c].call # "return"
      PROVE  BusyInv(c)'
  <2>1. BusyInv(c)
    BY <1>1, <1>3 DEF IInv, Running
  <2>2. ChipInv(c)' /\ BankInv(c)' /\ LoadInv(c)'
    BY <1>1, <2>1, SameBusy
  <2>3. QuietInv(c)' /\ CountInv(c)'
    BY <1>1, <2>1 DEF BusyInv, QuietInv, CountInv, Written, HasRead
  <2>4. QED
    BY <2>2, <2>3 DEF BusyInv
<1>4. QED
  BY <1>2, <1>3 DEF IInv

LEMMA FrameStoredKeeps ==
  ASSUME IInv, FrameStored
  PROVE  IInv'
<1>1. /\ arrived' = arrived + 1 /\ epktcnt' = epktcnt + 1
      /\ UNCHANGED <<cs, op, bank, etxnd, txmem, txrts, cache, rx, isr, ctx,
                     sent>>
  BY DEF FrameStored
<1>2. edge' \in BOOLEAN /\ (edge' <=> edge \/ epktcnt = 0)
  BY DEF FrameStored
<1>3. TypeOK /\ epktcnt \in Nat /\ epktcnt' > 0
  <2>1. TypeOK
    BY DEF IInv
  <2>2. epktcnt \in Nat
    BY <2>1 DEF TypeOK
  <2>3. QED
    BY <1>1, <2>1, <2>2
<1>4. TypeOK'
  <2>1. arrived' \in Nat /\ epktcnt' \in Nat
    BY <1>1, <1>3 DEF TypeOK
  <2>2. QED
    BY <1>1, <1>2, <1>3, <2>1 DEF TypeOK
<1>5. ApartInv' /\ RestInv'
  BY <1>1 DEF IInv, ApartInv, Interruptible, Running, RestInv
<1>6. NoFrameForgotten'
  BY <1>1, <1>2, <1>3 DEF IInv, NoFrameForgotten, TypeOK
<1>7. ASSUME NEW c \in Context, Running(c)', ctx'[c].call # "return"
      PROVE  BusyInv(c)'
  <2>1. BusyInv(c)
    BY <1>1, <1>7 DEF IInv, Running
  <2>2. ChipInv(c)' /\ BankInv(c)' /\ LoadInv(c)'
    BY <1>1, <2>1, SameBusy
  <2>3. QuietInv(c)'
    BY <1>1, <2>1 DEF BusyInv, QuietInv, Written, HasRead
  <2>4. CountInv(c)'
    <3>1. epktcnt > 0 \/ epktcnt = 0
      BY <1>3
    <3>2. QED
      BY <1>1, <1>2, <1>3, <2>1, <3>1 DEF BusyInv, CountInv, Written, HasRead
  <2>5. QED
    BY <2>2, <2>3, <2>4 DEF BusyInv
<1>8. QED
  BY <1>4, <1>5, <1>6, <1>7 DEF IInv

LEMMA UnchangedKeeps == IInv /\ UNCHANGED vars => IInv'
<1> SUFFICES ASSUME IInv, UNCHANGED vars PROVE IInv'
  OBVIOUS
<1>1. UNCHANGED <<cs, op, bank, etxnd, txmem, txrts, epktcnt, cache, rx, edge,
                  isr, ctx, sent, arrived>>
  BY DEF vars, chipVars
<1>2. TypeOK' /\ ApartInv' /\ RestInv' /\ NoFrameForgotten'
  BY <1>1 DEF IInv, TypeOK, ApartInv, Interruptible, Running, RestInv, NoFrameForgotten
<1>3. ASSUME NEW c \in Context, Running(c)', ctx'[c].call # "return"
      PROVE  BusyInv(c)'
  <2>1. BusyInv(c)
    BY <1>1, <1>3 DEF IInv, Running
  <2>2. ChipInv(c)' /\ BankInv(c)' /\ LoadInv(c)'
    BY <1>1, <2>1, SameBusy
  <2>3. QuietInv(c)' /\ CountInv(c)'
    BY <1>1, <2>1 DEF BusyInv, QuietInv, CountInv, Written, HasRead
  <2>4. QED
    BY <2>2, <2>3 DEF BusyInv
<1>4. QED
  BY <1>2, <1>3 DEF IInv

LEMMA InitIInv == Init => IInv
<1> SUFFICES ASSUME Init PROVE IInv
  OBVIOUS
<1> DEFINE first(c) == IF c = "main" /\ Sends > 0 THEN "txwait" ELSE "return"
<1>1. \A c \in Context : first(c) \in {"txwait", "return"}
  OBVIOUS
<1>2. ctx = [c \in Context |-> StartOf(first(c), 0)]
  BY DEF Init
<1> HIDE DEF first
<1>3. \A c \in Context : StartOf(first(c), 0) \in ContextState
  BY <1>1 DEF StartOf, ContextState, Stages, Phases, CallNames, SendNames
<1>4. \A c \in Context :
        /\ ctx[c].call = first(c) /\ ctx[c].stage = "test"
        /\ ctx[c].phase = "select" /\ ctx[c].n = 0
  BY <1>2 DEF StartOf
<1>5. TypeOK
  BY <1>2, <1>3 DEF Init, TypeOK
<1>6. first("isr") = "return"
  BY DEF first
<1>7. ApartInv
  BY <1>1, <1>4, <1>6 DEF Init, ApartInv, Context, SendNames
<1>8. ASSUME NEW c \in Context, ctx[c].call # "return"
      PROVE  BusyInv(c)
  <2>1. ctx[c].call = "txwait"
    BY <1>1, <1>4, <1>8
  <2>2. ChipInv(c) /\ BankInv(c)
    BY <1>4 DEF Init, ChipInv, BankInv
  <2>3. LoadInv(c) /\ QuietInv(c) /\ CountInv(c)
    BY <1>4, <2>1 DEF LoadInv, QuietInv, CountInv, HasRead
  <2>4. QED
    BY <2>2, <2>3 DEF BusyInv
<1>9. RestInv /\ NoFrameForgotten
  BY DEF Init, RestInv, NoFrameForgotten
<1>10. QED
  BY <1>5, <1>7, <1>8, <1>9 DEF IInv
-----------------------------------------------------------------------------
(* While no frame arrives before main parks, one context at a time is on   *)
(* the bus, and the chip is where that context believes it to be: selected *)
(* or not, in which command, in which bank, with what in its buffer.       *)
THEOREM BusInvariant ==
  ASSUME HeldOff
  PROVE  Spec => []IInv
<1>1. IInv /\ [Next]_vars => IInv'
  <2> SUFFICES ASSUME IInv, [Next]_vars PROVE IInv'
    OBVIOUS
  <2>1. CASE FrameStored
    BY <2>1, FrameStoredKeeps
  <2>2. CASE Transmitted
    BY <2>2, TransmittedKeeps
  <2>3. CASE Interrupt
    BY <2>3, InterruptKeeps
  <2>4. ASSUME NEW c \in Context, Driver(c)
        PROVE  IInv'
    BY <2>4, TestBankKeeps, RememberBankKeeps, SelectKeeps, SendCommandKeeps,
       SendDataKeeps, ClockByteKeeps, FetchByteKeeps, ReleaseKeeps, FinishKeeps
       DEF Driver
  <2>5. CASE UNCHANGED vars
    BY <2>5, UnchangedKeeps
  <2>6. QED
    BY <2>1, <2>2, <2>3, <2>4, <2>5 DEF Next
<1>2. QED
  BY <1>1, InitIInv, PTL DEF Spec

(* Every data byte is taken by the chip as data of the command its sender  *)
(* gave, and the register its sender named is the one that is reached:     *)
(* nothing cuts in between the select and the release of a transaction.    *)
THEOREM BytesAligned ==
  ASSUME HeldOff
  PROVE  Spec => []Aligned
<1>1. IInv => Aligned
  <2> SUFFICES ASSUME IInv, NEW c \in Context,
                      InTransaction(c, "data") \/ InTransaction(c, "clock")
               PROVE  LET t == Transaction(c) IN
                        /\ cs /\ op = Command(t.cmd, t.reg)
                        /\ t.reg # "none" => Target(t.reg) = t.reg
    BY DEF Aligned
  <2> DEFINE t == Transaction(c)
  <2>1. /\ Running(c)
        /\ ctx[c].call # "return" /\ ctx[c].phase \in {"data", "clock"}
        /\ ctx[c].stage \in {"bfc", "bfs", "op"}
    BY DEF InTransaction, At
  <2>2. BusyInv(c) /\ ctx[c].call \in CallNames
    BY <2>1, Busy
  <2>3. cs /\ op = Command(t.cmd, t.reg)
    BY <2>1, <2>2 DEF BusyInv, ChipInv
  <2>4. t.reg # "none" => Target(t.reg) = t.reg
    <3>1. CASE ctx[c].stage \in {"bfc", "bfs"}
      BY <2>2, <3>1, TransactionFacts DEF Target, Common
    <3>2. CASE ctx[c].stage = "op"
      <4>1. t = Call(ctx[c].call, c)
        BY <2>2, <3>2, TransactionFacts
      <4>2. t.banked => bank = BankOf(t.reg)
        BY <2>2, <3>2, <4>1 DEF BusyInv, BankInv
      <4>3. ~t.banked => t.reg \in {"none", "ECON1", "ECON2"}
        BY <2>2, <4>1, CallFacts
      <4>4. QED
        BY <4>2, <4>3 DEF Target, Common
    <3>3. QED
      BY <2>1, <3>1, <3>2
  <2>5. QED
    BY <2>3, <2>4
<1>2. QED
  BY <1>1, BusInvariant, PTL

(* Outside enc28j60_set_bank, enc28j60_current_bank is the bank the chip   *)
(* is in, whichever context looks next.                                    *)
THEOREM BankIsRemembered ==
  ASSUME HeldOff
  PROVE  Spec => []BankRemembered
<1>1. IInv => BankRemembered
  <2> SUFFICES ASSUME IInv,
                      \A c \in Context : ctx[c].stage \notin {"bfc", "bfs", "remember"}
               PROVE  cache = bank
    BY DEF BankRemembered
  <2>1. PICK c \in Context : Running(c)
    BY DEF Running, Context
  <2>2. CASE ctx[c].call # "return"
    BY <2>1, <2>2, Busy DEF BusyInv, BankInv, Stages
  <2>3. CASE ctx[c].call = "return"
    BY <2>1, <2>3 DEF IInv, RestInv
  <2>4. QED
    BY <2>2, <2>3
<1>2. QED
  BY <1>1, BusInvariant, PTL

(* The handler returns only when it has read zero from EPKTCNT, and a      *)
(* frame stored after that has latched an edge: none waits unnoticed.      *)
THEOREM FramesNotForgotten ==
  ASSUME HeldOff
  PROVE  Spec => []NoFrameForgotten
<1>1. IInv => NoFrameForgotten
  BY DEF IInv
<1>2. QED
  BY <1>1, BusInvariant, PTL

(* Only data bytes change what the transmit logic works with.              *)
LEMMA OnlyDataBytes ==
  ASSUME IInv, [Next]_vars
  PROVE  \/ UNCHANGED <<txrts, etxnd, txmem>>
         \/ Transmitted
         \/ \E c \in Context : SendData(c)
<1>1. CASE FrameStored \/ Interrupt \/ UNCHANGED vars
  BY <1>1 DEF FrameStored, Interrupt, vars, chipVars
<1>2. ASSUME NEW c \in Context, SendCommand(c)
      PROVE  UNCHANGED <<txrts, etxnd, txmem>>
  <2>1. Running(c) /\ ctx[c].call # "return" /\ ctx[c].phase = "command"
    BY <1>2 DEF SendCommand, InTransaction, At
  <2>2. cs /\ op = Idle
    BY <2>1, Busy DEF BusyInv, ChipInv
  <2>3. QED
    BY <1>2, <2>2, CommandTaken DEF SendCommand
<1>3. ASSUME NEW c \in Context, ClockByte(c)
      PROVE  UNCHANGED <<txrts, etxnd, txmem>>
  <2> DEFINE t == Transaction(c)
  <2>1. Running(c) /\ ctx[c].call # "return" /\ ctx[c].phase = "clock"
    BY <1>3 DEF ClockByte, InTransaction, At
  <2>2. /\ cs /\ op = Command(t.cmd, t.reg) /\ t.in > 0
        /\ ctx[c].call \in CallNames
    BY <2>1, Busy DEF BusyInv, ChipInv
  <2>3. t.cmd \in {"RCR", "RBM"}
    BY <2>2, TransactionFacts
  <2>4. Receive(Data("0"))
    BY <1>3 DEF ClockByte
  <2>5. QED
    BY <2>2, <2>3, <2>4, ReadingOnly DEF chipVars
<1>4. ASSUME NEW c \in Context,
             TestBank(c) \/ RememberBank(c) \/ Select(c) \/ FetchByte(c)
               \/ Release(c) \/ Finish(c)
      PROVE  UNCHANGED <<txrts, etxnd, txmem>>
  BY <1>4 DEF TestBank, RememberBank, Select, FetchByte, Release, Finish, chipVars
<1>5. QED
  BY <1>1, <1>2, <1>3, <1>4 DEF Next, Driver

(* Whenever TXRTS is set, the transmit buffer holds the control byte and   *)
(* the whole frame of the one context that wrote it, and ETXND its end.    *)
THEOREM FramesSentWhole ==
  ASSUME HeldOff
  PROVE  Spec => FrameSentWhole
<1>1. IInv /\ [Next]_vars =>
        [~txrts /\ txrts' =>
          \E c \in Context : etxnd = c /\ txmem = <<"control", c, c>>]_vars
  <2> SUFFICES ASSUME IInv, [Next]_vars, ~txrts, txrts'
               PROVE  \E c \in Context : etxnd = c /\ txmem = <<"control", c, c>>
    OBVIOUS
  <2>1. PICK c \in Context : SendData(c)
    BY OnlyDataBytes DEF Transmitted
  <2>2. Running(c) /\ ctx[c].call # "return"
    BY <2>1 DEF SendData, InTransaction, At
  <2>3. ctx[c].stage \notin {"bfc", "bfs"}
    BY <2>1, BankSet
  <2>4. ctx[c].stage = "op"
    BY <2>1, <2>3, Sending
  <2>5. ctx[c].call = "txrts"
    BY <2>1, <2>4, CallWorks
  <2>6. QED
    BY <2>2, <2>5, Busy DEF BusyInv, LoadInv
<1>2. QED
  BY <1>1, BusInvariant, PTL DEF Spec, FrameSentWhole

(* While a frame is on its way out, neither context changes the transmit   *)
(* buffer or ETXND: both wait for TXRTS before they load a frame.          *)
THEOREM FramesUndisturbed ==
  ASSUME HeldOff
  PROVE  Spec => FrameUndisturbed
<1>1. IInv /\ [Next]_vars =>
        [txrts /\ txrts' => UNCHANGED <<etxnd, txmem>>]_vars
  <2> SUFFICES ASSUME IInv, [Next]_vars, txrts, txrts'
               PROVE  UNCHANGED <<etxnd, txmem>>
    OBVIOUS
  <2>1. CASE UNCHANGED <<txrts, etxnd, txmem>> \/ Transmitted
    BY <2>1 DEF Transmitted
  <2>2. ASSUME NEW c \in Context, SendData(c)
        PROVE  UNCHANGED <<etxnd, txmem>>
    <3>1. Running(c) /\ ctx[c].call # "return"
      BY <2>2 DEF SendData, InTransaction, At
    <3>2. ctx[c].call \notin {"ewrpt", "etxnd", "ctl", "data"}
      BY <3>1, Busy DEF BusyInv, QuietInv
    <3>3. CASE ctx[c].stage \in {"bfc", "bfs"}
      BY <2>2, <3>3, BankSet
    <3>4. CASE ctx[c].stage = "op"
      BY <2>2, <3>2, <3>4, CallWorks
    <3>5. QED
      BY <2>2, <3>3, <3>4, Sending
  <2>3. QED
    BY <2>1, <2>2, OnlyDataBytes
<1>2. QED
  BY <1>1, BusInvariant, PTL DEF Spec, FrameUndisturbed
=============================================================================
