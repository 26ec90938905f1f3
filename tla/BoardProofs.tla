----------------------------- MODULE BoardProofs -----------------------------
(***************************************************************************)
(* The program as a whole does what its two parts promise alone: what was  *)
(* proved about the server and about the set-up holds of their composition.*)
(***************************************************************************)
EXTENDS Board, ServerProofs

SetupProofs == INSTANCE ConfigProofs

(* A step of the program is one of the server, or none for it. *)
LEMMA StepServes == [BoardNext]_boardVars => [Next]_vars
<1>1. SetUp => UNCHANGED vars
  BY DEF SetUp
<1>2. Serve => Next
  BY DEF Serve, Next
<1>3. StartAgain => Next
  BY DEF StartAgain, Next
<1>4. UNCHANGED boardVars => UNCHANGED vars
  BY DEF boardVars
<1> QED BY <1>1, <1>2, <1>3, <1>4 DEF BoardNext

(* A step of the program is one of the set-up, or none for it. *)
LEMMA StepSetsUp == [BoardNext]_boardVars => [Setup!Next]_(Setup!vars)
<1>1. SetUp => Setup!Next
  BY DEF SetUp, Setup!Next
<1>2. Serve => UNCHANGED Setup!vars
  BY DEF Serve, setupVars, Setup!vars, Setup!driver, Setup!chip
<1>3. StartAgain => Setup!Next
  BY DEF StartAgain, Setup!Next
<1>4. UNCHANGED boardVars => UNCHANGED Setup!vars
  BY DEF boardVars, setupVars, Setup!vars, Setup!driver, Setup!chip
<1> QED BY <1>1, <1>2, <1>3, <1>4 DEF BoardNext

(* main, the handler and a restart: the program implements the server, the *)
(* set-up being nothing the server sees.                                   *)
THEOREM BoardIsServer == BoardSpec => Spec
<1>1. BoardInit => Init
  BY DEF BoardInit
<1> QED BY <1>1, StepServes, PTL DEF BoardSpec, Spec

(* enc28j60_init runs in the program as it does alone: no answer of the    *)
(* handler is a step of it, and what it waits for is still to come.        *)
THEOREM BoardIsSetUp == BoardSpec => Setup!Spec
<1>1. BoardInit => Setup!Init
  BY DEF BoardInit
<1> QED BY <1>1, StepSetsUp, PTL DEF BoardSpec, Setup!Spec
-----------------------------------------------------------------------------
(* The answers of the program, set up or started again as often as may be: *)
(* they go back to the addresses the request came from, their lengths      *)
(* agree, and a page or a reply tells the state of the LED, but for what   *)
(* GoesBack and ReplyTellsLed leave out.                                   *)
THEOREM BoardAnswersSafe ==
  BoardSpec => [](GoesBack /\ LengthsAgree /\ PageTellsLed /\ ReplyTellsLed)
BY BoardIsServer, AnswersGoBack, AnswerLengthsAgree, PagesTellLed,
   RepliesTellLed, PTL

(* The LED of the program follows the commands of requests that carry the  *)
(* password, and a restart.                                                *)
THEOREM BoardLedFollowsCommands ==
  ASSUME WholeDatagrams
  PROVE  BoardSpec => LedFollowsCommand
BY BoardIsServer, LedFollowsCommands, PTL

(* The set-up that ConfigProofs is about is the set-up of the program.     *)
LEMMA SamePlan ==
  Setup!Program = SetupProofs!Program /\ Setup!Reg = SetupProofs!Reg
<1>1. Setup!Program = SetupProofs!Program
  BY DEF SetupProofs!Program, SetupProofs!SoftReset,
         SetupProofs!SetUpRegisters, SetupProofs!Buffers,
         SetupProofs!PacketFilter, SetupProofs!MacSetup,
         SetupProofs!StationAddress, SetupProofs!PhySetup,
         SetupProofs!WritePhy, SetupProofs!Wcr, SetupProofs!Wcr16,
         SetupProofs!Op, SetupProofs!EIE_INTIE, SetupProofs!EIE_PKTIE,
         SetupProofs!ERXFCON_UCEN, SetupProofs!ERXFCON_CRCEN,
         SetupProofs!ERXFCON_PMEN, SetupProofs!MACON1_TXPAUS,
         SetupProofs!MACON1_RXPAUS, SetupProofs!MACON1_MARXEN,
         SetupProofs!MACON3_PADCFG0, SetupProofs!MACON3_TXCRCEN,
         SetupProofs!MACON3_FRMLNEN, SetupProofs!MACON3_FULDPX,
         SetupProofs!MACON4_DEFER, SetupProofs!PHCON1, SetupProofs!PHCON2,
         SetupProofs!PHLCON, SetupProofs!PHCON1_PDPXMD,
         SetupProofs!PHCON2_HDLDIS, SetupProofs!PHLCON_LED, SetupProofs!RXSIZE,
         SetupProofs!RXEND, SetupProofs!TXSTART, SetupProofs!MAXFRAME,
         Setup!Program, Setup!SoftReset, Setup!SetUpRegisters, Setup!Buffers,
         Setup!PacketFilter, Setup!MacSetup, Setup!StationAddress,
         Setup!PhySetup, Setup!WritePhy, Setup!Wcr, Setup!Wcr16, Setup!Op,
         Setup!EIE_INTIE, Setup!EIE_PKTIE, Setup!ERXFCON_UCEN,
         Setup!ERXFCON_CRCEN, Setup!ERXFCON_PMEN, Setup!MACON1_TXPAUS,
         Setup!MACON1_RXPAUS, Setup!MACON1_MARXEN, Setup!MACON3_PADCFG0,
         Setup!MACON3_TXCRCEN, Setup!MACON3_FRMLNEN, Setup!MACON3_FULDPX,
         Setup!MACON4_DEFER, Setup!PHCON1, Setup!PHCON2, Setup!PHLCON,
         Setup!PHCON1_PDPXMD, Setup!PHCON2_HDLDIS, Setup!PHLCON_LED,
         Setup!RXSIZE, Setup!RXEND, Setup!TXSTART, Setup!MAXFRAME
<1>2. Setup!Reg = SetupProofs!Reg
  BY DEF SetupProofs!Reg, SetupProofs!BufferRegs, SetupProofs!CommonRegs,
         SetupProofs!FilterRegs, SetupProofs!MacRegs, SetupProofs!AddressRegs,
         Setup!Reg, Setup!BufferRegs, Setup!CommonRegs, Setup!FilterRegs,
         Setup!MacRegs, Setup!AddressRegs
<1> QED BY <1>1, <1>2

LEMMA SameSetUp ==
  [Setup!Next]_(Setup!vars) => [SetupProofs!Next]_(SetupProofs!vars)
<1> USE SamePlan DEF SetupProofs!Running, SetupProofs!Now, SetupProofs!BankOf,
                 SetupProofs!InBank, SetupProofs!driver, SetupProofs!chip,
                 Setup!Running, Setup!Now, Setup!BankOf, Setup!InBank,
                 Setup!driver, Setup!chip
<1>1. Setup!SetBank => SetupProofs!SetBank
  BY DEF SetupProofs!SetBank, Setup!SetBank
<1>2. Setup!Reset => SetupProofs!Reset
  BY DEF SetupProofs!Reset, SetupProofs!Default, Setup!Reset, Setup!Default
<1>3. Setup!Sleep => SetupProofs!Sleep
  BY DEF SetupProofs!Sleep, Setup!Sleep
<1>4. Setup!WriteRegister => SetupProofs!WriteRegister
  BY DEF SetupProofs!WriteRegister, SetupProofs!Decoded, SetupProofs!CommonCr,
         Setup!WriteRegister, Setup!Decoded, Setup!CommonCr
<1>5. Setup!Wait => SetupProofs!Wait
  BY DEF SetupProofs!Wait, SetupProofs!PhyIdle, SetupProofs!ValueAt,
         SetupProofs!Decoded, SetupProofs!CommonCr, Setup!Wait, Setup!PhyIdle,
         Setup!ValueAt, Setup!Decoded, Setup!CommonCr
<1>6. Setup!AtBank0 => SetupProofs!AtBank0
  BY DEF SetupProofs!AtBank0, Setup!AtBank0
<1>7. Setup!EnableReception => SetupProofs!EnableReception
  BY DEF SetupProofs!EnableReception, Setup!EnableReception
<1>8. Setup!ResetDone => SetupProofs!ResetDone
  BY DEF SetupProofs!ResetDone, Setup!ResetDone
<1>9. Setup!PhyDone => SetupProofs!PhyDone
  BY DEF SetupProofs!PhyDone, Setup!PhyDone
<1>10. Setup!Restart => SetupProofs!Restart
  BY DEF SetupProofs!Restart, Setup!Restart
<1>11. UNCHANGED Setup!vars => UNCHANGED SetupProofs!vars
  BY DEF SetupProofs!vars, Setup!vars
<1> QED BY <1>1, <1>2, <1>3, <1>4, <1>5, <1>6, <1>7, <1>8, <1>9, <1>10, <1>11
        DEF SetupProofs!Next, SetupProofs!Driver, Setup!Next, Setup!Driver

(* The register accesses of the program arrive, also when it was started   *)
(* again and the controller was not.                                       *)
THEOREM BoardAccessesArrive ==
  ASSUME Mac \in [1 .. 6 -> 0 .. 255]
  PROVE  BoardSpec => WritesArrive
<1>1. BoardInit => SetupProofs!BankAgrees
  BY DEF BoardInit, Setup!Init, SetupProofs!BankAgrees
<1>2. SetupProofs!BankAgrees /\ [BoardNext]_boardVars => SetupProofs!BankAgrees'
  <2>1. SetupProofs!BankAgrees /\ [SetupProofs!Next]_(SetupProofs!vars)
        => SetupProofs!BankAgrees'
    BY SetupProofs!BankStep
  <2> QED BY <2>1, StepSetsUp, SameSetUp
<1>3. SetupProofs!BankAgrees /\ [BoardNext]_boardVars
      => [Setup!Running /\ Setup!Now.op = "wcr" /\ pc' = pc + 1
            => regs' = [regs EXCEPT ![Setup!Reg[Setup!Now.reg]] = Setup!Now.value]
         ]_(Setup!vars)
  <2>1. SetupProofs!BankAgrees /\ [SetupProofs!Next]_(SetupProofs!vars)
          /\ SetupProofs!Running /\ SetupProofs!Now.op = "wcr" /\ pc' = pc + 1
        => regs' = [regs EXCEPT ![SetupProofs!Reg[SetupProofs!Now.reg]]
                                  = SetupProofs!Now.value]
    BY SetupProofs!WriteStep
  <2> QED
    BY <2>1, StepSetsUp, SameSetUp, SamePlan
    DEF Setup!Running, Setup!Now, SetupProofs!Running, SetupProofs!Now
<1> QED BY <1>1, <1>2, <1>3, PTL DEF BoardSpec, WritesArrive, Setup!WritesArrive
-----------------------------------------------------------------------------
(* How far the set-up has come, see ConfigProofs, in the program.          *)
LEMMA BoardSetUp ==
  ASSUME Mac \in [1 .. 6 -> 0 .. 255]
  PROVE  BoardSpec => []SetupProofs!SetUpInv
<1>1. BoardInit => SetupProofs!SetUpInv
  <2>1. Setup!Init => SetupProofs!Init
    BY DEF Setup!Init, SetupProofs!Init, Setup!Default, SetupProofs!Default,
           Setup!PHCON1, Setup!PHCON2, Setup!PHLCON, SetupProofs!PHCON1,
           SetupProofs!PHCON2, SetupProofs!PHLCON
  <2> QED BY <2>1, SetupProofs!InitSetUp DEF BoardInit
<1>2. SetupProofs!SetUpInv /\ [BoardNext]_boardVars => SetupProofs!SetUpInv'
  <2>1. SetupProofs!SetUpInv /\ [SetupProofs!Next]_(SetupProofs!vars)
        => SetupProofs!SetUpInv'
    BY SetupProofs!SetUpStep
  <2> QED BY <2>1, StepSetsUp, SameSetUp
<1> QED BY <1>1, <1>2, PTL DEF BoardSpec

LEMMA SameRegisters ==
  /\ \A name : Setup!Get(name) = SetupProofs!Get(name)
  /\ \A low, high : Setup!Get16(low, high) = SetupProofs!Get16(low, high)
BY SamePlan DEF Setup!Get, SetupProofs!Get, Setup!Get16, SetupProofs!Get16

(* enc28j60_init: while the program answers frames, the controller is set  *)
(* up as its parts and the handler need it, also after restarts of the     *)
(* microcontroller that the controller takes no part in.                   *)
THEOREM BoardSetUpComplete ==
  ASSUME Mac \in [1 .. 6 -> 0 .. 255]
  PROVE  BoardSpec => []ReadyWhenReceiving
<1>1. SetupProofs!SetUpInv => SetupProofs!ReadyWhenReceiving
  BY SetupProofs!ReadyAtEnd DEF SetupProofs!SetUpInv, SetupProofs!ReadyWhenReceiving
<1>2. SetupProofs!ReadyWhenReceiving => Setup!ReadyWhenReceiving
  <2>1. SetupProofs!BuffersApart => Setup!BuffersApart
    BY SameRegisters DEF SetupProofs!BuffersApart, Setup!BuffersApart,
       SetupProofs!BUFSIZE, Setup!BUFSIZE
  <2>2. SetupProofs!FramesFit => Setup!FramesFit
    BY SameRegisters DEF SetupProofs!FramesFit, Setup!FramesFit,
       SetupProofs!Mss, Setup!Mss, SetupProofs!HandlerBuffer, Setup!HandlerBuffer
  <2>3. SetupProofs!OwnAddress => Setup!OwnAddress
    BY DEF SetupProofs!OwnAddress, Setup!OwnAddress
  <2>4. SetupProofs!HearsArp => Setup!HearsArp
    <3>1. Setup!ArpFrame = SetupProofs!ArpFrame /\ Setup!BitOf = SetupProofs!BitOf
      BY DEF Setup!ArpFrame, SetupProofs!ArpFrame, Setup!BitOf, SetupProofs!BitOf
    <3>2. \A v, b : Setup!HasBit(v, b) = SetupProofs!HasBit(v, b)
      BY DEF Setup!HasBit, SetupProofs!HasBit
    <3>3. Setup!Selected = SetupProofs!Selected
      BY <3>1, <3>2, SameRegisters DEF Setup!Selected, SetupProofs!Selected
    <3>4. \A i : Setup!PatternWord(i) = SetupProofs!PatternWord(i)
      BY <3>1, <3>3 DEF Setup!PatternWord, Setup!PatternByte,
         SetupProofs!PatternWord, SetupProofs!PatternByte
    <3>5. Setup!PatternSum = SetupProofs!PatternSum
      BY <3>4 DEF Setup!PatternSum, SetupProofs!PatternSum
    <3> QED
      BY <3>2, <3>3, <3>5, SameRegisters
      DEF Setup!HearsArp, SetupProofs!HearsArp, Setup!ERXFCON_PMEN,
          SetupProofs!ERXFCON_PMEN
  <2> QED BY <2>1, <2>2, <2>3, <2>4
          DEF SetupProofs!ReadyWhenReceiving, Setup!ReadyWhenReceiving
<1>3. SetupProofs!SetUpInv => ReadyWhenReceiving
  BY <1>1, <1>2 DEF ReadyWhenReceiving
<1> QED BY <1>3, BoardSetUp, PTL

(* enc28j60_write_phy: in the program too PHY and MAC are of one mind.     *)
THEOREM BoardDuplexAgrees ==
  ASSUME Mac \in [1 .. 6 -> 0 .. 255]
  PROVE  BoardSpec => []DuplexAgrees
<1>1. SetupProofs!SetUpInv => SetupProofs!DuplexAgrees
  BY SetupProofs!DuplexAtEnd DEF SetupProofs!SetUpInv, SetupProofs!DuplexAgrees
<1>2. SetupProofs!DuplexAgrees => Setup!DuplexAgrees
  BY SameRegisters
  DEF SetupProofs!DuplexAgrees, Setup!DuplexAgrees, SetupProofs!HasBit,
      Setup!HasBit, SetupProofs!PHCON1, Setup!PHCON1, SetupProofs!PHCON2,
      Setup!PHCON2, SetupProofs!PHCON1_PDPXMD, Setup!PHCON1_PDPXMD,
      SetupProofs!PHCON2_HDLDIS, Setup!PHCON2_HDLDIS,
      SetupProofs!MACON3_FULDPX, Setup!MACON3_FULDPX
<1>3. SetupProofs!SetUpInv => DuplexAgrees
  BY <1>1, <1>2 DEF DuplexAgrees
<1> QED BY <1>3, BoardSetUp, PTL
-----------------------------------------------------------------------------
(* Answers are there only when the set-up has come to its end.             *)
Answering == sent # <<>> => pc = SetupProofs!Last + 1

LEMMA AnswersAfterSetUp ==
  ASSUME Mac \in [1 .. 6 -> 0 .. 255]
  PROVE  BoardSpec => []Answering
<1>1. BoardInit => Answering
  BY DEF BoardInit, Init, Answering
<1>2. SetupProofs!SetUpInv /\ Answering /\ [BoardNext]_boardVars => Answering'
  <2> SUFFICES ASSUME SetupProofs!SetUpInv, Answering, [BoardNext]_boardVars
               PROVE  Answering'
    OBVIOUS
  <2>1. Setup!Running <=> pc <= SetupProofs!Last
    BY SamePlan, SetupProofs!ProgramIs DEF Setup!Running
  <2>2. pc \in Nat /\ pc <= SetupProofs!Last + 1 /\ SetupProofs!Last \in Nat
    BY DEF SetupProofs!SetUpInv, SetupProofs!BankAgrees, SetupProofs!Last
  <2>3. CASE SetUp
    <3>1. sent' = sent
      BY <2>3 DEF SetUp, vars
    <3>2. CASE Setup!Driver
      <4>1. Setup!Running
        BY <3>2 DEF Setup!Driver, Setup!SetBank, Setup!Reset, Setup!Sleep,
           Setup!WriteRegister, Setup!Wait, Setup!AtBank0, Setup!EnableReception
      <4>2. sent = <<>>
        BY <2>1, <2>2, <4>1 DEF Answering
      <4> QED BY <3>1, <4>2 DEF Answering
    <3>3. CASE Setup!ResetDone \/ Setup!PhyDone
      <4>1. pc' = pc
        BY <3>3 DEF Setup!ResetDone, Setup!PhyDone, Setup!driver
      <4> QED BY <3>1, <4>1 DEF Answering, SetupProofs!Last
    <3> QED BY <2>3, <3>2, <3>3 DEF SetUp
  <2>4. CASE Serve
    <3>1. ~Setup!Running /\ pc' = pc
      BY <2>4 DEF Serve, setupVars
    <3> QED BY <2>1, <2>2, <3>1 DEF Answering, SetupProofs!Last
  <2>5. CASE StartAgain
    BY <2>5 DEF StartAgain, Restart, Answering
  <2>6. CASE UNCHANGED boardVars
    BY <2>6 DEF boardVars, vars, setupVars, Answering, SetupProofs!Last
  <2> QED BY <2>3, <2>4, <2>5, <2>6 DEF BoardNext
<1> QED BY <1>1, <1>2, BoardSetUp, PTL DEF BoardSpec

(* The builders and enc28j60_init: the controller has been told to send    *)
(* frames as long as any answer, whatever is received, as long as that is  *)
(* no longer than the same limit.                                          *)
THEOREM AnswersFit ==
  ASSUME Mac \in [1 .. 6 -> 0 .. 255], FramesReceivedFit
  PROVE  BoardSpec => []AnswersFitController
<1>1. SetupProofs!SetUpInv /\ Answering /\ ShortAnswers => AnswersFitController
  <2> SUFFICES ASSUME SetupProofs!SetUpInv, Answering, ShortAnswers,
                      NEW i \in DOMAIN sent
               PROVE  sent[i].len + 4 <= Setup!Get16("MAMXFLL", "MAMXFLH")
    BY DEF AnswersFitController
  <2>1. pc = SetupProofs!Last + 1
    BY DEF Answering
  <2>2. SetupProofs!Held(SetupProofs!Last + 1)
    BY <2>1 DEF SetupProofs!SetUpInv, SetupProofs!Last
  <2>3. Setup!Get16("MAMXFLL", "MAMXFLH") = 1500
    <3>1. SetupProofs!Get("MAMXFLL") = 220 /\ SetupProofs!Get("MAMXFLH") = 5
      BY <2>2, SetupProofs!FinalRegs
    <3> QED BY <3>1, SameRegisters DEF SetupProofs!Get16
  <2>4. sent[i].len \in Nat /\ sent[i].len + 4 <= 1500
    BY DEF ShortAnswers, NoLonger, FramesReceivedFit, Setup!MAXFRAME
  <2> QED BY <2>3, <2>4
<1>2. BoardSpec => []ShortAnswers
  <2>1. Safe => ShortAnswers
    BY DEF Safe
  <2> QED BY <2>1, BoardIsServer, AnswersSafe, PTL
<1> QED BY <1>1, <1>2, AnswersAfterSetUp, BoardSetUp, PTL
=============================================================================
