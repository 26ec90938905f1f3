------------------------------- MODULE Config -------------------------------
(***************************************************************************)
(* enc28j60_init: from a reset to a controller that receives.  The driver  *)
(* makes one register access after the other, through the bank it believes *)
(* selected; the controller takes its time for a reset and for a write to  *)
(* a register of the PHY, and pays no heed to what is sent meanwhile.  The *)
(* microcontroller may restart at any moment and begin again with its      *)
(* static data initialised, while the controller stays as it is.           *)
(***************************************************************************)
EXTENDS Integers, Sequences

CONSTANTS
  Mac,         (* mymac: the six bytes of the station address              *)
  MaxRestarts  (* bound: restarts of the microcontroller                   *)

(* The bank and the address of each register that the driver uses.         *)
BufferRegs ==
  [ETXSTL |-> <<0, 4>>, ETXSTH |-> <<0, 5>>, ETXNDL |-> <<0, 6>>,
   ETXNDH |-> <<0, 7>>, ERXSTL |-> <<0, 8>>, ERXSTH |-> <<0, 9>>,
   ERXNDL |-> <<0, 10>>, ERXNDH |-> <<0, 11>>, ERXRDPTL |-> <<0, 12>>,
   ERXRDPTH |-> <<0, 13>>]
CommonRegs == [EIE |-> <<0, 27>>, ECON1 |-> <<0, 31>>]
FilterRegs ==
  [EPMM0 |-> <<1, 8>>, EPMM1 |-> <<1, 9>>, EPMCSL |-> <<1, 16>>,
   EPMCSH |-> <<1, 17>>, ERXFCON |-> <<1, 24>>]
MacRegs ==
  [MACON1 |-> <<2, 0>>, MACON2 |-> <<2, 1>>, MACON3 |-> <<2, 2>>,
   MACON4 |-> <<2, 3>>, MABBIPG |-> <<2, 4>>, MAIPGL |-> <<2, 6>>,
   MAIPGH |-> <<2, 7>>, MACLCON2 |-> <<2, 9>>, MAMXFLL |-> <<2, 10>>,
   MAMXFLH |-> <<2, 11>>, MIREGADR |-> <<2, 20>>, MIWRL |-> <<2, 22>>,
   MIWRH |-> <<2, 23>>]
AddressRegs ==
  [MAADR1 |-> <<3, 0>>, MAADR0 |-> <<3, 1>>, MAADR3 |-> <<3, 2>>,
   MAADR2 |-> <<3, 3>>, MAADR5 |-> <<3, 4>>, MAADR4 |-> <<3, 5>>,
   MISTAT |-> <<3, 10>>, ECOCON |-> <<3, 21>>]
Reg ==
  [r \in DOMAIN BufferRegs \cup DOMAIN CommonRegs \cup DOMAIN FilterRegs
          \cup DOMAIN MacRegs \cup DOMAIN AddressRegs |->
     CASE r \in DOMAIN BufferRegs -> BufferRegs[r]
       [] r \in DOMAIN CommonRegs -> CommonRegs[r]
       [] r \in DOMAIN FilterRegs -> FilterRegs[r]
       [] r \in DOMAIN MacRegs -> MacRegs[r]
       [] r \in DOMAIN AddressRegs -> AddressRegs[r]]

(* PHY registers. *)
PHCON1 == 0
PHCON2 == 16
PHLCON == 20

(* Bits of the registers and of the PHY's registers. *)
EIE_INTIE == 128
EIE_PKTIE == 64
ERXFCON_UCEN == 128
ERXFCON_CRCEN == 32
ERXFCON_PMEN == 16
MACON1_TXPAUS == 8
MACON1_RXPAUS == 4
MACON1_MARXEN == 1
MACON3_PADCFG0 == 32
MACON3_TXCRCEN == 16
MACON3_FRMLNEN == 2
MACON3_FULDPX == 1
MACON4_DEFER == 64
PHCON1_PDPXMD == 256
PHCON2_HDLDIS == 256
PHLCON_LED == 1024 + 64 + 32 + 16 + 4 + 2

(* Layout of the controller's memory, largest frame, the handler's buffer, *)
(* the segment size told to a peer (make_tcphead).                         *)
BUFSIZE == 8192
RXSIZE == 6656
RXEND == RXSIZE - 1
TXSTART == RXSIZE
HandlerBuffer == 1500
Mss == 1408

(* Mutant of MAXFRAME: the value that is commented out in the source. *)
MAXFRAMEShort == 600
MAXFRAME == 1500
-----------------------------------------------------------------------------
(* What enc28j60_init does, access by access.                              *)
Wcr(reg, value) == <<[op |-> "wcr", reg |-> reg, value |-> value]>>
Wcr16(low, high, value) == Wcr(low, value % 256) \o Wcr(high, value \div 256)
Op(name, reg) == <<[op |-> name, reg |-> reg, value |-> 0]>>

(* Mutant of WritePhy: it is not waited for. *)
WritePhyNoWait(adr, value) ==
  Wcr("MIREGADR", adr) \o Wcr16("MIWRL", "MIWRH", value)

(* enc28j60_write_phy; the loop on MISTAT.BUSY is one waiting step.        *)
WritePhy(adr, value) ==
  Wcr("MIREGADR", adr) \o Wcr16("MIWRL", "MIWRH", value) \o Op("wait", "MISTAT")

Buffers ==
  Wcr16("ERXSTL", "ERXSTH", 0) \o Wcr16("ERXRDPTL", "ERXRDPTH", RXEND)
    \o Wcr16("ERXNDL", "ERXNDH", RXEND) \o Wcr16("ETXSTL", "ETXSTH", TXSTART)
    \o Wcr16("ETXNDL", "ETXNDH", TXSTART)

(* Unicast frames for the station address, and by the pattern match        *)
(* broadcast ARP frames.                                                   *)
PacketFilter ==
  Wcr("ERXFCON", ERXFCON_UCEN + ERXFCON_CRCEN + ERXFCON_PMEN) \o Wcr16("EPMM0", "EPMM1", 12351)
    \o Wcr16("EPMCSL", "EPMCSH", 63481)

MacSetup ==
  Wcr("MACON1", MACON1_TXPAUS + MACON1_RXPAUS + MACON1_MARXEN)
    \o Wcr("MACON2", 0)
    \o Wcr("MACON3", MACON3_PADCFG0 + MACON3_TXCRCEN + MACON3_FRMLNEN
                       + MACON3_FULDPX)
    \o Wcr("MABBIPG", 21) \o Wcr("MACON4", MACON4_DEFER) \o Wcr("MACLCON2", 63)
    \o Wcr("MAIPGL", 18) \o Wcr("MAIPGH", 12)
    \o Wcr16("MAMXFLL", "MAMXFLH", MAXFRAME)

(* Mutant of StationAddress: in the order of the names. *)
StationAddressByName ==
  Wcr("MAADR0", Mac[1]) \o Wcr("MAADR1", Mac[2]) \o Wcr("MAADR2", Mac[3])
    \o Wcr("MAADR3", Mac[4]) \o Wcr("MAADR4", Mac[5]) \o Wcr("MAADR5", Mac[6])

StationAddress ==
  Wcr("MAADR5", Mac[1]) \o Wcr("MAADR4", Mac[2]) \o Wcr("MAADR3", Mac[3])
    \o Wcr("MAADR2", Mac[4]) \o Wcr("MAADR1", Mac[5]) \o Wcr("MAADR0", Mac[6])

PhySetup ==
  WritePhy(PHCON1, PHCON1_PDPXMD) \o WritePhy(PHCON2, PHCON2_HDLDIS)
    \o WritePhy(PHLCON, PHLCON_LED)

(* enc28j60_soft_reset *)
SoftReset == Op("reset", "ECON1") \o Op("sleep", "ECON1")

(* The set-up, "switch to bank 0", the interrupt, RXEN.  The two bytes     *)
(* sent between ETXND and ERXFCON are left out: chip select is high and    *)
(* the controller does not see them.                                       *)
SetUpRegisters ==
  Buffers \o PacketFilter \o MacSetup \o StationAddress \o Wcr("ECOCON", 0)
    \o PhySetup \o Op("bank0", "ECON1") \o Wcr("EIE", EIE_INTIE + EIE_PKTIE)
    \o Op("rxen", "ECON1")

(* Mutant of Program: it trusts that the controller has just powered up.   *)
ProgramNoReset == SetUpRegisters

(* enc28j60_init *)
Program == SoftReset \o SetUpRegisters

-----------------------------------------------------------------------------
VARIABLES
  pc,           (* the access of Program that is next                      *)
  currentBank,  (* enc28j60_current_bank, the bank alone                   *)
  restarts,     (* restarts of the microcontroller so far                  *)
  bank,         (* BSEL of the controller                                  *)
  regs,         (* the controller's registers, by bank and address         *)
  phy,          (* the registers of the PHY                                *)
  busy,         (* a write to the PHY goes on: MISTAT.BUSY                 *)
  resetting,    (* the controller is in its reset                          *)
  rxen          (* ECON1.RXEN                                              *)

driver == <<pc, currentBank, restarts>>
chip == <<bank, regs, phy, busy, resetting, rxen>>
vars == <<driver, chip>>

(* Register defaults that the driver overwrites are all taken as 0.        *)
Default == [r \in (0 .. 3) \X (0 .. 31) |-> 0]

Init ==
  /\ pc = 1 /\ currentBank = 0 /\ restarts = 0
  /\ bank = 0 /\ regs = Default /\ phy = [r \in {PHCON1, PHCON2, PHLCON} |-> 0]
  /\ busy = FALSE /\ resetting = FALSE /\ rxen = FALSE

(* The register the controller finds at an address: its own bank counts,   *)
(* and not at all from 0x1B on.                                            *)
CommonCr == 27
Decoded(address) == <<IF address >= CommonCr THEN 0 ELSE bank, address>>

Running == pc <= Len(Program)
Now == Program[pc]
BankOf(reg) == Reg[reg][1]
InBank(reg) == Running /\ currentBank = BankOf(reg)

(* enc28j60_set_bank, when the bank asked for is not the one remembered.   *)
SetBank ==
  /\ Running /\ Now.op \in {"wcr", "wait", "rxen", "bank0"}
  /\ currentBank # BankOf(Now.reg)
  /\ currentBank' = BankOf(Now.reg)
  /\ bank' = IF resetting THEN bank ELSE BankOf(Now.reg)
  /\ UNCHANGED <<pc, restarts, regs, phy, busy, resetting, rxen>>

(* enc28j60_soft_reset: the command needs no bank. *)
Reset ==
  /\ Running /\ Now.op = "reset"
  /\ pc' = pc + 1
  /\ resetting' = TRUE /\ bank' = 0 /\ regs' = Default /\ rxen' = FALSE
  /\ UNCHANGED <<currentBank, restarts, phy, busy>>

(* sleep_ms(2000), longer than a reset and a write to the PHY take, and    *)
(* the bank remembered set.                                                *)
Sleep ==
  /\ Running /\ Now.op = "sleep"
  /\ ~resetting /\ ~busy
  /\ pc' = pc + 1 /\ currentBank' = 0
  /\ UNCHANGED <<restarts, chip>>

(* enc28j60_wcr.  The high byte of MIWR starts a write to the PHY.         *)
WriteRegister ==
  /\ Running /\ Now.op = "wcr" /\ InBank(Now.reg)
  /\ pc' = pc + 1
  /\ LET at == Decoded(Reg[Now.reg][2]) IN
       IF resetting
         THEN UNCHANGED <<regs, busy>>
         ELSE /\ regs' = [regs EXCEPT ![at] = Now.value]
              /\ busy' = (busy \/ at = Reg.MIWRH)
  /\ UNCHANGED <<currentBank, restarts, bank, phy, resetting, rxen>>

(* What the read of a register gives, MISTAT.BUSY being bit 0.             *)
ValueAt(at) == IF at = Reg.MISTAT THEN IF busy THEN 1 ELSE 0 ELSE regs[at]

(* Mutant of PhyIdle: the loop ends with BUSY set. *)
PhyIdleWhenSet(value) == value % 2 = 1

(* The condition on which the loop of enc28j60_write_phy ends. *)
PhyIdle(value) == value % 2 = 0

Wait ==
  /\ Running /\ Now.op = "wait" /\ InBank("MISTAT")
  /\ PhyIdle(ValueAt(Decoded(Reg.MISTAT[2])))
  /\ pc' = pc + 1
  /\ UNCHANGED <<currentBank, restarts, chip>>

(* enc28j60_set_bank(ECON1) with bank 0 selected already, or after it.     *)
AtBank0 ==
  /\ Running /\ Now.op = "bank0" /\ InBank("ECON1")
  /\ pc' = pc + 1
  /\ UNCHANGED <<currentBank, restarts, chip>>

EnableReception ==
  /\ Running /\ Now.op = "rxen" /\ InBank("ECON1")
  /\ pc' = pc + 1
  /\ rxen' = ~resetting
  /\ UNCHANGED <<currentBank, restarts, bank, regs, phy, busy, resetting>>

(* The controller comes out of its reset; it ends a write to the PHY, with *)
(* what the MII registers hold by then.                                    *)
ResetDone ==
  /\ resetting
  /\ resetting' = FALSE
  /\ UNCHANGED <<driver, bank, regs, phy, busy, rxen>>

PhyDone ==
  /\ busy
  /\ busy' = FALSE
  /\ phy' = [r \in DOMAIN phy |->
               IF r = regs[Reg.MIREGADR]
                 THEN 256 * regs[Reg.MIWRH] + regs[Reg.MIWRL] ELSE phy[r]]
  /\ UNCHANGED <<driver, bank, regs, resetting, rxen>>

(* The microcontroller starts again, at any moment; the controller has no  *)
(* part in it.                                                             *)
Restart ==
  /\ restarts < MaxRestarts
  /\ restarts' = restarts + 1
  /\ pc' = 1 /\ currentBank' = 0
  /\ UNCHANGED chip

Driver == SetBank \/ Reset \/ Sleep \/ WriteRegister \/ Wait \/ AtBank0 \/ EnableReception
Next == Driver \/ ResetDone \/ PhyDone \/ Restart

(* The driver runs on, resets and writes to the PHY end.                   *)
Fairness == WF_vars(Driver) /\ WF_vars(ResetDone) /\ WF_vars(PhyDone)

Spec == Init /\ [][Next]_vars /\ Fairness
-----------------------------------------------------------------------------
Get(name) == regs[Reg[name]]
Get16(low, high) == 256 * Get(high) + Get(low)
HasBit(value, bit) == (value \div bit) % 2 = 1

(* The receive ring and the largest frame to send, with its control byte   *)
(* and seven status bytes, keep clear of each other in the memory.         *)
BuffersApart ==
  /\ Get16("ERXSTL", "ERXSTH") < Get16("ERXNDL", "ERXNDH")
  /\ Get16("ERXNDL", "ERXNDH") < Get16("ETXSTL", "ETXSTH")
  /\ Get16("ETXSTL", "ETXSTH") + 1 + Get16("MAMXFLL", "MAMXFLH") + 7 < BUFSIZE
  /\ Get16("ERXRDPTL", "ERXRDPTH") = Get16("ERXNDL", "ERXNDH")
  /\ Get16("ERXRDPTL", "ERXRDPTH") % 2 = 1

(* A segment as long as the peer was told it may send comes in, with its   *)
(* headers and its check sequence, and what comes in fits the handler.     *)
FramesFit ==
  Mss + 54 + 4 <= Get16("MAMXFLL", "MAMXFLH") /\ Get16("MAMXFLL", "MAMXFLH") <= HandlerBuffer

(* The address in the order in which the MAC compares it with a frame's.   *)
OwnAddress ==
  [i \in 1 .. 6 |-> regs[<<3, <<4, 5, 2, 3, 0, 1>>[i]>>]] = Mac

(* The bytes of a broadcast ARP frame by their place in it; those that the *)
(* mask selects, a bit for each; and the sum of their words.               *)
ArpFrame == [i \in 0 .. 15 |-> CASE i < 6 -> 255 [] i = 12 -> 8 [] i = 13 -> 6 [] OTHER -> 0]
BitOf == [i \in 0 .. 7 |-> <<1, 2, 4, 8, 16, 32, 64, 128>>[i + 1]]
Selected ==
  {i \in 0 .. 7 : HasBit(Get("EPMM0"), BitOf[i])}
    \cup {i \in 8 .. 15 : HasBit(Get("EPMM1"), BitOf[i - 8])}
PatternByte(i) == IF i \in Selected THEN ArpFrame[i] ELSE 0
PatternWord(i) == 256 * PatternByte(2 * i) + PatternByte(2 * i + 1)
PatternSum ==
  PatternWord(0) + PatternWord(1) + PatternWord(2) + PatternWord(3)
    + PatternWord(4) + PatternWord(5) + PatternWord(6) + PatternWord(7)
HearsArp ==
  /\ {0, 1, 2, 3, 4, 5, 12, 13} \subseteq Selected
  /\ Get16("EPMCSL", "EPMCSH") + (PatternSum % 65535) = 65535
  /\ HasBit(Get("ERXFCON"), ERXFCON_PMEN)

(* While the controller receives, its set-up is complete and its parts     *)
(* agree: memory, frame sizes, its own address and the pattern filter,     *)
(* whenever the microcontroller was started (enc28j60_init sets RXEN last).*)
ReadyWhenReceiving ==
  rxen => BuffersApart /\ FramesFit /\ OwnAddress /\ HearsArp

(* Once the driver has set the PHY up, PHY and MAC are of one mind about   *)
(* full duplex, gap between frames included, and the loopback is off: no   *)
(* write to a PHY register was lost to the one after it.                   *)
DuplexAgrees ==
  rxen => /\ HasBit(phy[PHCON1], PHCON1_PDPXMD)
          /\ HasBit(Get("MACON3"), MACON3_FULDPX)
          /\ Get("MABBIPG") = 21 /\ HasBit(phy[PHCON2], PHCON2_HDLDIS)

(* A register access never lands in a register of another bank: the bank   *)
(* remembered is the controller's, also when the microcontroller restarts  *)
(* and the controller does not.                                            *)
WritesArrive ==
  [][Running /\ Now.op = "wcr" /\ pc' = pc + 1
       => regs' = [regs EXCEPT ![Reg[Now.reg]] = Now.value]]_vars

(* The set-up comes to an end and the controller receives for good: no     *)
(* wait for the PHY lasts for ever (enc28j60_write_phy has no time limit). *)
ComesUp == <>[](pc = Len(Program) + 1 /\ rxen)
=============================================================================
