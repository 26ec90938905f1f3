---------------------------- MODULE ConfigProofs ----------------------------
(***************************************************************************)
(* Register accesses of enc28j60_init and the bank of the controller, for  *)
(* every station address and any number of restarts.                       *)
(***************************************************************************)
EXTENDS Config, SequenceTheorems, TLAPS

(* An access behind the reset. *)
Access ==
  [op : {"wcr", "wait", "bank0", "rxen"}, reg : DOMAIN Reg, value : Int]

LEMMA RegNames ==
  DOMAIN Reg =
    {"ETXSTL", "ETXSTH", "ETXNDL", "ETXNDH", "ERXSTL", "ERXSTH", "ERXNDL",
     "ERXNDH", "ERXRDPTL", "ERXRDPTH", "EIE", "ECON1", "EPMM0", "EPMM1",
     "EPMCSL", "EPMCSH", "ERXFCON", "MACON1", "MACON2", "MACON3", "MACON4",
     "MABBIPG", "MAIPGL", "MAIPGH", "MACLCON2", "MAMXFLL", "MAMXFLH",
     "MIREGADR", "MIWRL", "MIWRH", "MAADR1", "MAADR0", "MAADR3", "MAADR2",
     "MAADR5", "MAADR4", "MISTAT", "ECOCON"}
BY DEF Reg, BufferRegs, CommonRegs, FilterRegs, MacRegs, AddressRegs

(* Sequences of accesses. *)
Accesses == Seq(Access)

(* A place in the register file, those at a common address in bank 0.      *)
Places == {p \in (0 .. 3) \X (0 .. 31) : p[2] >= CommonCr => p[1] = 0}

LEMMA RegPlaces == \A r \in DOMAIN Reg : Reg[r] \in Places
<1>1. \A r \in DOMAIN BufferRegs : BufferRegs[r] \in Places
  BY DEF BufferRegs, Places, CommonCr
<1>2. \A r \in DOMAIN CommonRegs : CommonRegs[r] \in Places
  BY DEF CommonRegs, Places, CommonCr
<1>3. \A r \in DOMAIN FilterRegs : FilterRegs[r] \in Places
  BY DEF FilterRegs, Places, CommonCr
<1>4. \A r \in DOMAIN MacRegs : MacRegs[r] \in Places
  BY DEF MacRegs, Places, CommonCr
<1>5. \A r \in DOMAIN AddressRegs : AddressRegs[r] \in Places
  BY DEF AddressRegs, Places, CommonCr
<1> QED BY <1>1, <1>2, <1>3, <1>4, <1>5 DEF Reg
-----------------------------------------------------------------------------
(* The pieces of the program are sequences of accesses. *)
LEMMA Appended ==
  ASSUME NEW s \in Accesses, NEW t \in Accesses
  PROVE  s \o t \in Accesses
BY DEF Accesses

LEMMA WcrIsAccess ==
  ASSUME NEW r \in DOMAIN Reg, NEW v \in Int
  PROVE  Wcr(r, v) \in Accesses
BY DEF Wcr, Access, Accesses

LEMMA Wcr16IsAccess ==
  ASSUME NEW r \in DOMAIN Reg, NEW s \in DOMAIN Reg, NEW v \in Int
  PROVE  Wcr16(r, s, v) \in Accesses
<1>1. v % 256 \in Int /\ v \div 256 \in Int
  OBVIOUS
<1> QED BY <1>1, WcrIsAccess, Appended DEF Wcr16

LEMMA OpIsAccess ==
  ASSUME NEW o \in {"wait", "bank0", "rxen"}, NEW r \in DOMAIN Reg
  PROVE  Op(o, r) \in Accesses
BY DEF Op, Access, Accesses

LEMMA WritePhyIsAccess ==
  ASSUME NEW adr \in Int, NEW v \in Int
  PROVE  WritePhy(adr, v) \in Accesses
<1>1. {"MIREGADR", "MIWRL", "MIWRH", "MISTAT"} \subseteq DOMAIN Reg
  BY RegNames
<1>2. /\ Wcr("MIREGADR", adr) \in Accesses
      /\ Wcr16("MIWRL", "MIWRH", v) \in Accesses
      /\ Op("wait", "MISTAT") \in Accesses
  BY <1>1, WcrIsAccess, Wcr16IsAccess, OpIsAccess
<1> QED BY <1>2, Appended DEF WritePhy

LEMMA SetUpIsAccess ==
  ASSUME Mac \in [1 .. 6 -> 0 .. 255]
  PROVE  SetUpRegisters \in Accesses
<1>1. Buffers \in Accesses
  <2>1. {"ERXSTL", "ERXSTH", "ERXRDPTL", "ERXRDPTH", "ERXNDL", "ERXNDH",
         "ETXSTL", "ETXSTH", "ETXNDL", "ETXNDH"} \subseteq DOMAIN Reg
    BY RegNames
  <2>2. RXEND \in Int /\ TXSTART \in Int
    BY DEF RXEND, RXSIZE, TXSTART
  <2>3. /\ Wcr16("ERXSTL", "ERXSTH", 0) \in Accesses
        /\ Wcr16("ERXRDPTL", "ERXRDPTH", RXEND) \in Accesses
        /\ Wcr16("ERXNDL", "ERXNDH", RXEND) \in Accesses
        /\ Wcr16("ETXSTL", "ETXSTH", TXSTART) \in Accesses
        /\ Wcr16("ETXNDL", "ETXNDH", TXSTART) \in Accesses
    BY <2>1, <2>2, Wcr16IsAccess
  <2> QED BY <2>3, Appended DEF Buffers
<1>2. PacketFilter \in Accesses
  <2>1. {"ERXFCON", "EPMM0", "EPMM1", "EPMCSL", "EPMCSH"} \subseteq DOMAIN Reg
    BY RegNames
  <2>2. ERXFCON_UCEN + ERXFCON_CRCEN + ERXFCON_PMEN \in Int
    BY DEF ERXFCON_UCEN, ERXFCON_CRCEN, ERXFCON_PMEN
  <2>3. /\ Wcr("ERXFCON", ERXFCON_UCEN + ERXFCON_CRCEN + ERXFCON_PMEN) \in Accesses
        /\ Wcr16("EPMM0", "EPMM1", 12351) \in Accesses
        /\ Wcr16("EPMCSL", "EPMCSH", 63481) \in Accesses
    BY <2>1, <2>2, WcrIsAccess, Wcr16IsAccess
  <2> QED BY <2>3, Appended DEF PacketFilter
<1>3. MacSetup \in Accesses
  <2>1. {"MACON1", "MACON2", "MACON3", "MACON4", "MABBIPG", "MAIPGL", "MAIPGH",
         "MACLCON2", "MAMXFLL", "MAMXFLH"} \subseteq DOMAIN Reg
    BY RegNames
  <2>2. /\ MACON1_TXPAUS + MACON1_RXPAUS + MACON1_MARXEN \in Int
        /\ MACON3_PADCFG0 + MACON3_TXCRCEN + MACON3_FRMLNEN + MACON3_FULDPX \in Int
        /\ MACON4_DEFER \in Int /\ MAXFRAME \in Int
    BY DEF MACON1_TXPAUS, MACON1_RXPAUS, MACON1_MARXEN, MACON3_PADCFG0,
           MACON3_TXCRCEN, MACON3_FRMLNEN, MACON3_FULDPX, MACON4_DEFER, MAXFRAME
  <2>3. /\ Wcr("MACON1", MACON1_TXPAUS + MACON1_RXPAUS + MACON1_MARXEN) \in Accesses
        /\ Wcr("MACON2", 0) \in Accesses
        /\ Wcr("MACON3", MACON3_PADCFG0 + MACON3_TXCRCEN + MACON3_FRMLNEN
                          + MACON3_FULDPX) \in Accesses
        /\ Wcr("MABBIPG", 21) \in Accesses
        /\ Wcr("MACON4", MACON4_DEFER) \in Accesses
        /\ Wcr("MACLCON2", 63) \in Accesses
        /\ Wcr("MAIPGL", 18) \in Accesses
        /\ Wcr("MAIPGH", 12) \in Accesses
        /\ Wcr16("MAMXFLL", "MAMXFLH", MAXFRAME) \in Accesses
    BY <2>1, <2>2, WcrIsAccess, Wcr16IsAccess
  <2> QED BY <2>3, Appended DEF MacSetup
<1>4. StationAddress \in Accesses
  <2>1. {"MAADR5", "MAADR4", "MAADR3", "MAADR2", "MAADR1", "MAADR0"} \subseteq DOMAIN Reg
    BY RegNames
  <2>2. \A i \in 1 .. 6 : Mac[i] \in Int
    OBVIOUS
  <2>3. \A r \in {"MAADR5", "MAADR4", "MAADR3", "MAADR2", "MAADR1", "MAADR0"} :
          \A i \in 1 .. 6 : Wcr(r, Mac[i]) \in Accesses
    BY <2>1, <2>2, WcrIsAccess
  <2> QED BY <2>3, Appended DEF StationAddress
<1>5. PhySetup \in Accesses
  <2>1. /\ PHCON1 \in Int /\ PHCON2 \in Int /\ PHLCON \in Int
        /\ PHCON1_PDPXMD \in Int /\ PHCON2_HDLDIS \in Int /\ PHLCON_LED \in Int
    BY DEF PHCON1, PHCON2, PHLCON, PHCON1_PDPXMD, PHCON2_HDLDIS, PHLCON_LED
  <2>2. /\ WritePhy(PHCON1, PHCON1_PDPXMD) \in Accesses
        /\ WritePhy(PHCON2, PHCON2_HDLDIS) \in Accesses
        /\ WritePhy(PHLCON, PHLCON_LED) \in Accesses
    BY <2>1, WritePhyIsAccess
  <2> QED BY <2>2, Appended DEF PhySetup
<1>6. /\ Wcr("ECOCON", 0) \in Accesses /\ Op("bank0", "ECON1") \in Accesses
      /\ Wcr("EIE", EIE_INTIE + EIE_PKTIE) \in Accesses
      /\ Op("rxen", "ECON1") \in Accesses
  <2>1. {"ECOCON", "ECON1", "EIE"} \subseteq DOMAIN Reg
    BY RegNames
  <2>2. EIE_INTIE + EIE_PKTIE \in Int
    BY DEF EIE_INTIE, EIE_PKTIE
  <2> QED BY <2>1, <2>2, WcrIsAccess, OpIsAccess
<1> QED BY <1>1, <1>2, <1>3, <1>4, <1>5, <1>6, Appended DEF SetUpRegisters

LEMMA BehindFirstTwo ==
  ASSUME NEW S, NEW a \in Seq(S), NEW b \in Seq(S), Len(a) = 2
  PROVE  /\ Len(a \o b) = 2 + Len(b)
         /\ \A i \in 1 .. 2 + Len(b) :
              (a \o b)[i] = IF i <= 2 THEN a[i] ELSE b[i - 2]
<1>1. /\ Len(a \o b) = Len(a) + Len(b)
      /\ \A i \in 1 .. Len(a) + Len(b) :
           (a \o b)[i] = IF i <= Len(a) THEN a[i] ELSE b[i - Len(a)]
  BY ConcatProperties, Zenon
<1> QED BY <1>1

(* The reset and the sleep come first and nowhere else. *)
LEMMA ProgramParts ==
  ASSUME Mac \in [1 .. 6 -> 0 .. 255]
  PROVE  /\ Len(Program) \in Nat
         /\ Program[1].op = "reset" /\ Program[2].op = "sleep"
         /\ \A i \in 3 .. Len(Program) : Program[i] \in Access
<1> DEFINE s == SetUpRegisters
<1>1. s \in Seq(Access)
  BY SetUpIsAccess DEF Accesses
<1> DEFINE A == Access \cup {Op("reset", "ECON1")[1], Op("sleep", "ECON1")[1]}
<1>2. SoftReset \in Seq(A) /\ Len(SoftReset) = 2
  BY DEF SoftReset, Op
<1>3. s \in Seq(A)
  BY <1>1
<1> HIDE DEF s, A
<1>4. /\ Len(SoftReset \o s) = 2 + Len(s)
      /\ \A i \in 1 .. 2 + Len(s) :
           (SoftReset \o s)[i] = IF i <= 2 THEN SoftReset[i] ELSE s[i - 2]
  BY <1>2, <1>3, BehindFirstTwo
<1>5. Program = SoftReset \o s
  BY DEF Program, s
<1>6. SoftReset[1].op = "reset" /\ SoftReset[2].op = "sleep"
  BY DEF SoftReset, Op
<1>7. Len(s) \in Nat /\ \A i \in 1 .. Len(s) : s[i] \in Access
  BY <1>1
<1>8. ASSUME NEW i \in 3 .. Len(Program)
      PROVE  Program[i] \in Access
  <2>1. i - 2 \in 1 .. Len(s) /\ i \in 1 .. 2 + Len(s)
    BY <1>4, <1>5, <1>7
  <2>2. Program[i] = s[i - 2]
    BY <1>4, <1>5, <2>1
  <2> QED BY <1>7, <2>1, <2>2
<1> QED BY <1>4, <1>5, <1>6, <1>7, <1>8
-----------------------------------------------------------------------------
(* Behind the reset the controller hears every access, and the bank        *)
(* remembered is its bank; the sleep finds it in bank 0.                   *)
BankAgrees ==
  /\ pc \in Nat \ {0}
  /\ pc = 2 => bank = 0
  /\ pc > 2 => ~resetting /\ bank = currentBank

(* A step of the accesses behind the reset is not the reset or the sleep.  *)
LEMMA OpPlaces ==
  ASSUME Mac \in [1 .. 6 -> 0 .. 255], pc \in Nat \ {0}, Running
  PROVE  /\ Now.op = "reset" <=> pc = 1
         /\ Now.op = "sleep" <=> pc = 2
         /\ pc > 2 => Now.reg \in DOMAIN Reg
<1>1. CASE pc = 1
  BY <1>1, ProgramParts DEF Now
<1>2. CASE pc = 2
  BY <1>2, ProgramParts DEF Now
<1>3. CASE pc > 2
  <2>1. pc \in 3 .. Len(Program)
    BY <1>3, ProgramParts DEF Running
  <2> QED BY <1>3, <2>1, ProgramParts DEF Now, Access
<1> QED BY <1>1, <1>2, <1>3

LEMMA BankStep ==
  ASSUME Mac \in [1 .. 6 -> 0 .. 255], BankAgrees, [Next]_vars
  PROVE  BankAgrees'
<1> USE DEF BankAgrees
<1>1. CASE SetBank
  BY <1>1, OpPlaces DEF SetBank
<1>2. CASE Reset
  BY <1>2, OpPlaces DEF Reset
<1>3. CASE Sleep
  BY <1>3, OpPlaces DEF Sleep, chip
<1>4. CASE WriteRegister
  BY <1>4, OpPlaces DEF WriteRegister
<1>5. CASE Wait
  BY <1>5, OpPlaces DEF Wait, chip
<1>6. CASE AtBank0
  BY <1>6, OpPlaces DEF AtBank0, chip
<1>7. CASE EnableReception
  BY <1>7, OpPlaces DEF EnableReception
<1>8. CASE ResetDone
  BY <1>8 DEF ResetDone, driver
<1>9. CASE PhyDone
  BY <1>9 DEF PhyDone, driver
<1>10. CASE Restart
  BY <1>10 DEF Restart, chip
<1>11. CASE UNCHANGED vars
  BY <1>11 DEF vars, driver, chip
<1> QED BY <1>1, <1>2, <1>3, <1>4, <1>5, <1>6, <1>7, <1>8, <1>9, <1>10, <1>11
        DEF Next, Driver

(* The register decoded by the controller is the one the driver means.     *)
LEMMA DecodedRight ==
  ASSUME NEW r \in DOMAIN Reg, bank = BankOf(r)
  PROVE  Decoded(Reg[r][2]) = Reg[r]
BY RegPlaces DEF Decoded, BankOf, Places, CommonCr

(* A step that makes a register access writes that register. *)
LEMMA WriteStep ==
  ASSUME Mac \in [1 .. 6 -> 0 .. 255], BankAgrees, [Next]_vars,
         Running, Now.op = "wcr", pc' = pc + 1
  PROVE  regs' = [regs EXCEPT ![Reg[Now.reg]] = Now.value]
<1> USE DEF BankAgrees
<1>1. pc > 2 /\ Now.reg \in DOMAIN Reg
  BY OpPlaces
<1>2. WriteRegister
  <2>1. pc' # pc /\ pc' # 1
    OBVIOUS
  <2> QED
    BY <2>1 DEF Next, Driver, vars, driver, SetBank, Reset, Sleep, Wait,
                AtBank0, EnableReception, ResetDone, PhyDone, Restart
<1>3. bank = BankOf(Now.reg)
  BY <1>1, <1>2 DEF WriteRegister, InBank
<1>4. Decoded(Reg[Now.reg][2]) = Reg[Now.reg]
  BY <1>1, <1>3, DecodedRight
<1> QED BY <1>1, <1>2, <1>4 DEF WriteRegister

LEMMA BankInvariant ==
  ASSUME Mac \in [1 .. 6 -> 0 .. 255]
  PROVE  Spec => []BankAgrees
<1>1. Init => BankAgrees
  BY DEF Init, BankAgrees
<1>2. BankAgrees /\ [Next]_vars => BankAgrees'
  BY BankStep
<1> QED BY <1>1, <1>2, PTL DEF Spec

(* enc28j60_set_bank and enc28j60_init: no register access lands in a      *)
(* register of another bank, whatever restarts there are.                  *)
THEOREM AccessesArrive ==
  ASSUME Mac \in [1 .. 6 -> 0 .. 255]
  PROVE  Spec => WritesArrive
<1>1. BankAgrees /\ [Next]_vars
      => [Running /\ Now.op = "wcr" /\ pc' = pc + 1
            => regs' = [regs EXCEPT ![Reg[Now.reg]] = Now.value]]_vars
  BY WriteStep
<1> QED BY <1>1, BankInvariant, PTL DEF Spec, WritesArrive
-----------------------------------------------------------------------------
(* The accesses of the set-up in their order, with the values written.     *)
Write(reg, value) == [op |-> "wcr", reg |-> reg, value |-> value]
Other(name, reg) == [op |-> name, reg |-> reg, value |-> 0]
Last == 49

LEMMA ProgramIs ==
  LET P == Program
  IN         /\ Len(P) = Last
             /\ P[3] = Write("ERXSTL", 0) /\ P[4] = Write("ERXSTH", 0)
             /\ P[5] = Write("ERXRDPTL", 255)
             /\ P[6] = Write("ERXRDPTH", 25) /\ P[7] = Write("ERXNDL", 255)
             /\ P[8] = Write("ERXNDH", 25) /\ P[9] = Write("ETXSTL", 0)
             /\ P[10] = Write("ETXSTH", 26) /\ P[11] = Write("ETXNDL", 0)
             /\ P[12] = Write("ETXNDH", 26)
             /\ P[13] = Write("ERXFCON", 176) /\ P[14] = Write("EPMM0", 63)
             /\ P[15] = Write("EPMM1", 48) /\ P[16] = Write("EPMCSL", 249)
             /\ P[17] = Write("EPMCSH", 247) /\ P[18] = Write("MACON1", 13)
             /\ P[19] = Write("MACON2", 0) /\ P[20] = Write("MACON3", 51)
             /\ P[21] = Write("MABBIPG", 21) /\ P[22] = Write("MACON4", 64)
             /\ P[23] = Write("MACLCON2", 63)
             /\ P[24] = Write("MAIPGL", 18) /\ P[25] = Write("MAIPGH", 12)
             /\ P[26] = Write("MAMXFLL", 220)
             /\ P[27] = Write("MAMXFLH", 5)
             /\ P[28] = Write("MAADR5", Mac[1])
             /\ P[29] = Write("MAADR4", Mac[2])
             /\ P[30] = Write("MAADR3", Mac[3])
             /\ P[31] = Write("MAADR2", Mac[4])
             /\ P[32] = Write("MAADR1", Mac[5])
             /\ P[33] = Write("MAADR0", Mac[6])
             /\ P[34] = Write("ECOCON", 0) /\ P[35] = Write("MIREGADR", 0)
             /\ P[36] = Write("MIWRL", 0) /\ P[37] = Write("MIWRH", 1)
             /\ P[38] = Other("wait", "MISTAT")
             /\ P[39] = Write("MIREGADR", 16) /\ P[40] = Write("MIWRL", 0)
             /\ P[41] = Write("MIWRH", 1)
             /\ P[42] = Other("wait", "MISTAT")
             /\ P[43] = Write("MIREGADR", 20)
             /\ P[44] = Write("MIWRL", 118) /\ P[45] = Write("MIWRH", 4)
             /\ P[46] = Other("wait", "MISTAT")
             /\ P[47] = Other("bank0", "ECON1")
             /\ P[48] = Write("EIE", 192) /\ P[49] = Other("rxen", "ECON1")
<1>1. PICK p : p = Program
  OBVIOUS
<1> USE DEF Program, SoftReset, Op, SetUpRegisters, Buffers, PacketFilter,
            MacSetup, StationAddress, PhySetup, WritePhy, Wcr16, Wcr, Write,
            Other, RXEND, RXSIZE, TXSTART, MAXFRAME, PHCON1, PHCON2, PHLCON,
            PHCON1_PDPXMD, PHCON2_HDLDIS, PHLCON_LED, EIE_INTIE, EIE_PKTIE,
            ERXFCON_UCEN, ERXFCON_CRCEN, ERXFCON_PMEN, MACON1_TXPAUS,
            MACON1_RXPAUS, MACON1_MARXEN, MACON3_PADCFG0, MACON3_TXCRCEN,
            MACON3_FRMLNEN, MACON3_FULDPX, MACON4_DEFER
<1>2. Len(p) = Last
  BY <1>1 DEF Last
<1>3. /\ p[3] = Write("ERXSTL", 0) /\ p[4] = Write("ERXSTH", 0)
      /\ p[5] = Write("ERXRDPTL", 255) /\ p[6] = Write("ERXRDPTH", 25)
      /\ p[7] = Write("ERXNDL", 255) /\ p[8] = Write("ERXNDH", 25)
      /\ p[9] = Write("ETXSTL", 0) /\ p[10] = Write("ETXSTH", 26)
      /\ p[11] = Write("ETXNDL", 0) /\ p[12] = Write("ETXNDH", 26)
      /\ p[13] = Write("ERXFCON", 176) /\ p[14] = Write("EPMM0", 63)
  BY <1>1
<1>4. /\ p[15] = Write("EPMM1", 48) /\ p[16] = Write("EPMCSL", 249)
      /\ p[17] = Write("EPMCSH", 247) /\ p[18] = Write("MACON1", 13)
      /\ p[19] = Write("MACON2", 0) /\ p[20] = Write("MACON3", 51)
      /\ p[21] = Write("MABBIPG", 21) /\ p[22] = Write("MACON4", 64)
      /\ p[23] = Write("MACLCON2", 63) /\ p[24] = Write("MAIPGL", 18)
      /\ p[25] = Write("MAIPGH", 12) /\ p[26] = Write("MAMXFLL", 220)
  BY <1>1
<1>5. /\ p[27] = Write("MAMXFLH", 5) /\ p[28] = Write("MAADR5", Mac[1])
      /\ p[29] = Write("MAADR4", Mac[2])
      /\ p[30] = Write("MAADR3", Mac[3])
      /\ p[31] = Write("MAADR2", Mac[4])
      /\ p[32] = Write("MAADR1", Mac[5])
      /\ p[33] = Write("MAADR0", Mac[6]) /\ p[34] = Write("ECOCON", 0)
      /\ p[35] = Write("MIREGADR", 0) /\ p[36] = Write("MIWRL", 0)
      /\ p[37] = Write("MIWRH", 1) /\ p[38] = Other("wait", "MISTAT")
  BY <1>1
<1>6. /\ p[39] = Write("MIREGADR", 16) /\ p[40] = Write("MIWRL", 0)
      /\ p[41] = Write("MIWRH", 1) /\ p[42] = Other("wait", "MISTAT")
      /\ p[43] = Write("MIREGADR", 20) /\ p[44] = Write("MIWRL", 118)
      /\ p[45] = Write("MIWRH", 4) /\ p[46] = Other("wait", "MISTAT")
      /\ p[47] = Other("bank0", "ECON1") /\ p[48] = Write("EIE", 192)
      /\ p[49] = Other("rxen", "ECON1")
  BY <1>1
<1> HIDE DEF Program
<1> QED BY <1>1, <1>2, <1>3, <1>4, <1>5, <1>6

(* The place of the one write to each register but those of the MII.       *)
MiiRegs == {"MIREGADR", "MIWRL", "MIWRH"}
PlaceOf ==
  [ERXSTL |-> 3, ERXSTH |-> 4, ERXRDPTL |-> 5, ERXRDPTH |-> 6,
   ERXNDL |-> 7, ERXNDH |-> 8, ETXSTL |-> 9, ETXSTH |-> 10, ETXNDL |-> 11,
   ETXNDH |-> 12, ERXFCON |-> 13, EPMM0 |-> 14, EPMM1 |-> 15,
   EPMCSL |-> 16, EPMCSH |-> 17, MACON1 |-> 18, MACON2 |-> 19,
   MACON3 |-> 20, MABBIPG |-> 21, MACON4 |-> 22, MACLCON2 |-> 23,
   MAIPGL |-> 24, MAIPGH |-> 25, MAMXFLL |-> 26, MAMXFLH |-> 27,
   MAADR5 |-> 28, MAADR4 |-> 29, MAADR3 |-> 30, MAADR2 |-> 31,
   MAADR1 |-> 32, MAADR0 |-> 33, ECOCON |-> 34, EIE |-> 48]

LEMMA PlacesAre ==
  /\ PlaceOf["ERXSTL"] = 3 /\ PlaceOf["ERXSTH"] = 4
  /\ PlaceOf["ERXRDPTL"] = 5 /\ PlaceOf["ERXRDPTH"] = 6
  /\ PlaceOf["ERXNDL"] = 7 /\ PlaceOf["ERXNDH"] = 8
  /\ PlaceOf["ETXSTL"] = 9 /\ PlaceOf["ETXSTH"] = 10
  /\ PlaceOf["ETXNDL"] = 11 /\ PlaceOf["ETXNDH"] = 12
  /\ PlaceOf["ERXFCON"] = 13 /\ PlaceOf["EPMM0"] = 14
  /\ PlaceOf["EPMM1"] = 15 /\ PlaceOf["EPMCSL"] = 16
  /\ PlaceOf["EPMCSH"] = 17 /\ PlaceOf["MACON1"] = 18
  /\ PlaceOf["MACON2"] = 19 /\ PlaceOf["MACON3"] = 20
  /\ PlaceOf["MABBIPG"] = 21 /\ PlaceOf["MACON4"] = 22
  /\ PlaceOf["MACLCON2"] = 23 /\ PlaceOf["MAIPGL"] = 24
  /\ PlaceOf["MAIPGH"] = 25 /\ PlaceOf["MAMXFLL"] = 26
  /\ PlaceOf["MAMXFLH"] = 27 /\ PlaceOf["MAADR5"] = 28
  /\ PlaceOf["MAADR4"] = 29 /\ PlaceOf["MAADR3"] = 30
  /\ PlaceOf["MAADR2"] = 31 /\ PlaceOf["MAADR1"] = 32
  /\ PlaceOf["MAADR0"] = 33 /\ PlaceOf["ECOCON"] = 34
  /\ PlaceOf["EIE"] = 48
BY DEF PlaceOf

LEMMA WrittenOnce ==
  \A i \in 3 .. Last :
    Program[i].op = "wcr" /\ Program[i].reg \notin MiiRegs
    => PlaceOf[Program[i].reg] = i
<1>1. \A i \in 3 .. 12 :
       Program[i].op = "wcr" /\ Program[i].reg \notin MiiRegs
       => PlaceOf[Program[i].reg] = i
  <2> TAKE i \in 3 .. 12
  <2>1. \/ i = 3 \/ i = 4 \/ i = 5 \/ i = 6 \/ i = 7 \/ i = 8 \/ i = 9
        \/ i = 10 \/ i = 11 \/ i = 12
    OBVIOUS
  <2>2. /\ Program[3].reg = "ERXSTL" /\ Program[4].reg = "ERXSTH"
        /\ Program[5].reg = "ERXRDPTL" /\ Program[6].reg = "ERXRDPTH"
        /\ Program[7].reg = "ERXNDL" /\ Program[8].reg = "ERXNDH"
        /\ Program[9].reg = "ETXSTL" /\ Program[10].reg = "ETXSTH"
        /\ Program[11].reg = "ETXNDL" /\ Program[12].reg = "ETXNDH"
    BY ProgramIs DEF Write, Other
  <2> QED BY <2>1, <2>2, PlacesAre DEF MiiRegs
<1>2. \A i \in 13 .. 17 :
       Program[i].op = "wcr" /\ Program[i].reg \notin MiiRegs
       => PlaceOf[Program[i].reg] = i
  <2> TAKE i \in 13 .. 17
  <2>1. i = 13 \/ i = 14 \/ i = 15 \/ i = 16 \/ i = 17
    OBVIOUS
  <2>2. /\ Program[13].reg = "ERXFCON" /\ Program[14].reg = "EPMM0"
        /\ Program[15].reg = "EPMM1" /\ Program[16].reg = "EPMCSL"
        /\ Program[17].reg = "EPMCSH"
    BY ProgramIs DEF Write, Other
  <2> QED BY <2>1, <2>2, PlacesAre DEF MiiRegs
<1>3. \A i \in 18 .. 27 :
       Program[i].op = "wcr" /\ Program[i].reg \notin MiiRegs
       => PlaceOf[Program[i].reg] = i
  <2> TAKE i \in 18 .. 27
  <2>1. \/ i = 18 \/ i = 19 \/ i = 20 \/ i = 21 \/ i = 22 \/ i = 23 \/ i = 24
        \/ i = 25 \/ i = 26 \/ i = 27
    OBVIOUS
  <2>2. /\ Program[18].reg = "MACON1" /\ Program[19].reg = "MACON2"
        /\ Program[20].reg = "MACON3" /\ Program[21].reg = "MABBIPG"
        /\ Program[22].reg = "MACON4" /\ Program[23].reg = "MACLCON2"
        /\ Program[24].reg = "MAIPGL" /\ Program[25].reg = "MAIPGH"
        /\ Program[26].reg = "MAMXFLL" /\ Program[27].reg = "MAMXFLH"
    BY ProgramIs DEF Write, Other
  <2> QED BY <2>1, <2>2, PlacesAre DEF MiiRegs
<1>4. \A i \in 28 .. 33 :
       Program[i].op = "wcr" /\ Program[i].reg \notin MiiRegs
       => PlaceOf[Program[i].reg] = i
  <2> TAKE i \in 28 .. 33
  <2>1. i = 28 \/ i = 29 \/ i = 30 \/ i = 31 \/ i = 32 \/ i = 33
    OBVIOUS
  <2>2. /\ Program[28].reg = "MAADR5" /\ Program[29].reg = "MAADR4"
        /\ Program[30].reg = "MAADR3" /\ Program[31].reg = "MAADR2"
        /\ Program[32].reg = "MAADR1" /\ Program[33].reg = "MAADR0"
    BY ProgramIs DEF Write, Other
  <2> QED BY <2>1, <2>2, PlacesAre DEF MiiRegs
<1>5. \A i \in 34 .. 46 :
       Program[i].op = "wcr" /\ Program[i].reg \notin MiiRegs
       => PlaceOf[Program[i].reg] = i
  <2> TAKE i \in 34 .. 46
  <2>1. \/ i = 34 \/ i = 35 \/ i = 36 \/ i = 37 \/ i = 38 \/ i = 39 \/ i = 40
        \/ i = 41 \/ i = 42 \/ i = 43 \/ i = 44 \/ i = 45 \/ i = 46
    OBVIOUS
  <2>2. /\ Program[34].reg = "ECOCON" /\ Program[35].reg = "MIREGADR"
        /\ Program[36].reg = "MIWRL" /\ Program[37].reg = "MIWRH"
        /\ Program[38].op = "wait" /\ Program[39].reg = "MIREGADR"
        /\ Program[40].reg = "MIWRL" /\ Program[41].reg = "MIWRH"
        /\ Program[42].op = "wait" /\ Program[43].reg = "MIREGADR"
        /\ Program[44].reg = "MIWRL" /\ Program[45].reg = "MIWRH"
        /\ Program[46].op = "wait"
    BY ProgramIs DEF Write, Other
  <2> QED BY <2>1, <2>2, PlacesAre DEF MiiRegs
<1>6. \A i \in 47 .. 49 :
       Program[i].op = "wcr" /\ Program[i].reg \notin MiiRegs
       => PlaceOf[Program[i].reg] = i
  <2> TAKE i \in 47 .. 49
  <2>1. i = 47 \/ i = 48 \/ i = 49
    OBVIOUS
  <2>2. /\ Program[47].op = "bank0" /\ Program[48].reg = "EIE"
        /\ Program[49].op = "rxen"
    BY ProgramIs DEF Write, Other
  <2> QED BY <2>1, <2>2, PlacesAre DEF MiiRegs
<1>7. \A i \in 3 .. Last :
        \/ i \in 3 .. 12 \/ i \in 13 .. 17 \/ i \in 18 .. 27
        \/ i \in 28 .. 33 \/ i \in 34 .. 46 \/ i \in 47 .. 49
  BY DEF Last
<1> QED BY <1>1, <1>2, <1>3, <1>4, <1>5, <1>6, <1>7
-----------------------------------------------------------------------------
(* No two registers share a place. *)
LEMMA RegDistinct ==
  ASSUME NEW r \in DOMAIN Reg, NEW s \in DOMAIN Reg, Reg[r] = Reg[s]
  PROVE  r = s
BY RegNames DEF Reg, BufferRegs, CommonRegs, FilterRegs, MacRegs, AddressRegs

Cells == (0 .. 3) \X (0 .. 31)

(* Every register written by the accesses before the n-th holds what the   *)
(* last of them wrote.                                                     *)
Held(n) ==
  \A i \in 3 .. n - 1 :
    /\ Program[i].op = "wcr"
    /\ \A j \in i + 1 .. n - 1 :
         Program[j].op = "wcr" => Program[j].reg # Program[i].reg
    => regs[Reg[Program[i].reg]] = Program[i].value

(* The waits of enc28j60_write_phy, and the PHY register whose write the   *)
(* k-th access waits for, as it was written.                               *)
PhyWaits == {38, 42, 46}
PhyIs(k) ==
  phy[Program[k - 3].value] = 256 * Program[k - 1].value + Program[k - 2].value
PhyHeld(n) == \A k \in PhyWaits : k < n => PhyIs(k)

(* Before the reset nothing is known but what a set-up that came to its    *)
(* end has left; behind it registers and PHY hold what was written so far, *)
(* and a write to the PHY goes on only while it is waited for.             *)
SetUpInv ==
  /\ BankAgrees /\ pc <= Last + 1
  /\ regs \in [Cells -> Int] /\ phy \in [{PHCON1, PHCON2, PHLCON} -> Int]
  /\ busy \in BOOLEAN /\ resetting \in BOOLEAN /\ rxen \in BOOLEAN
  /\ pc > 2 => /\ Held(pc) /\ PhyHeld(pc)
               /\ busy => pc \in PhyWaits
               /\ pc \in PhyWaits /\ ~busy => PhyIs(pc)
  /\ rxen => /\ pc \in {1, Last + 1} /\ ~busy
             /\ Held(Last + 1) /\ PhyHeld(Last + 1)

(* What the accesses are, as far as the invariant needs to know.           *)
LEMMA WaitPlaces ==
  ASSUME NEW i \in 3 .. Last
  PROVE  /\ Program[i].op = "wait" <=> i \in PhyWaits
         /\ Program[i].op = "rxen" <=> i = Last
         /\ Program[i].op = "wcr" /\ Program[i].reg = "MIWRH"
            <=> i + 1 \in PhyWaits
<1>1. CASE i \in 3 .. 12
  <2>1. \/ i = 3 \/ i = 4 \/ i = 5 \/ i = 6 \/ i = 7 \/ i = 8 \/ i = 9
        \/ i = 10 \/ i = 11 \/ i = 12
    BY <1>1
  <2> QED BY <2>1, ProgramIs DEF Write, PhyWaits, Last
<1>2. CASE i \in 13 .. 17
  <2>1. i = 13 \/ i = 14 \/ i = 15 \/ i = 16 \/ i = 17
    BY <1>2
  <2> QED BY <2>1, ProgramIs DEF Write, PhyWaits, Last
<1>3. CASE i \in 18 .. 27
  <2>1. \/ i = 18 \/ i = 19 \/ i = 20 \/ i = 21 \/ i = 22 \/ i = 23 \/ i = 24
        \/ i = 25 \/ i = 26 \/ i = 27
    BY <1>3
  <2> QED BY <2>1, ProgramIs DEF Write, PhyWaits, Last
<1>4. CASE i \in 28 .. 34
  <2>1. i = 28 \/ i = 29 \/ i = 30 \/ i = 31 \/ i = 32 \/ i = 33 \/ i = 34
    BY <1>4
  <2> QED BY <2>1, ProgramIs DEF Write, PhyWaits, Last
<1>5. CASE i \in 35 .. 42
  <2>1. \/ i = 35 \/ i = 36 \/ i = 37 \/ i = 38 \/ i = 39 \/ i = 40 \/ i = 41
        \/ i = 42
    BY <1>5
  <2> QED BY <2>1, ProgramIs DEF Write, Other, PhyWaits, Last
<1>6. CASE i \in 43 .. 49
  <2>1. i = 43 \/ i = 44 \/ i = 45 \/ i = 46 \/ i = 47 \/ i = 48 \/ i = 49
    BY <1>6
  <2> QED BY <2>1, ProgramIs DEF Write, Other, PhyWaits, Last
<1> QED BY <1>1, <1>2, <1>3, <1>4, <1>5, <1>6 DEF Last

LEMMA PhyWrites ==
  ASSUME NEW k \in PhyWaits
  PROVE  /\ Program[k - 3].op = "wcr" /\ Program[k - 3].reg = "MIREGADR"
         /\ Program[k - 2].op = "wcr" /\ Program[k - 2].reg = "MIWRL"
         /\ Program[k - 1].op = "wcr" /\ Program[k - 1].reg = "MIWRH"
         /\ Program[k - 3].value \in {PHCON1, PHCON2, PHLCON}
         /\ \A j \in PhyWaits : Program[j - 3].value = Program[k - 3].value => j = k
<1>1. k = 38 \/ k = 42 \/ k = 46
  BY DEF PhyWaits
<1>2. /\ Program[35] = Write("MIREGADR", 0) /\ Program[39] = Write("MIREGADR", 16)
      /\ Program[43] = Write("MIREGADR", 20)
      /\ Program[36] = Write("MIWRL", 0) /\ Program[40] = Write("MIWRL", 0)
      /\ Program[44] = Write("MIWRL", 118)
      /\ Program[37] = Write("MIWRH", 1) /\ Program[41] = Write("MIWRH", 1)
      /\ Program[45] = Write("MIWRH", 4)
  BY ProgramIs
<1>3. \A j \in PhyWaits : j = 38 \/ j = 42 \/ j = 46
  BY DEF PhyWaits
<1> QED BY <1>1, <1>2, <1>3 DEF Write, PHCON1, PHCON2, PHLCON

LEMMA Entry ==
  ASSUME Mac \in [1 .. 6 -> 0 .. 255], NEW i \in 3 .. Last
  PROVE  /\ Program[i].reg \in DOMAIN Reg /\ Program[i].value \in Int
         /\ Program[i].op \in {"wcr", "wait", "bank0", "rxen"}
<1>1. Len(Program) = Last
  BY ProgramIs
<1>2. Program[i] \in Access
  BY <1>1, ProgramParts
<1> QED BY <1>2 DEF Access

(* An access that writes no register leaves the registers held. *)
LEMMA HeldOn ==
  ASSUME NEW n \in 3 .. Last, Program[n].op # "wcr", Held(n)
  PROVE  Held(n + 1)
<1>1. ASSUME NEW i \in 3 .. n, Program[i].op = "wcr",
             \A j \in i + 1 .. n : Program[j].op = "wcr" => Program[j].reg # Program[i].reg
      PROVE  regs[Reg[Program[i].reg]] = Program[i].value
  <2>1. i \in 3 .. n - 1 /\ \A j \in i + 1 .. n - 1 : j \in i + 1 .. n
    BY <1>1
  <2> QED BY <1>1, <2>1 DEF Held
<1>2. (n + 1) - 1 = n
  OBVIOUS
<1> QED BY <1>1, <1>2 DEF Held

(* A write makes one register more held. *)
LEMMA HeldWrite ==
  ASSUME Mac \in [1 .. 6 -> 0 .. 255], NEW n \in 3 .. Last, Program[n].op = "wcr",
         Held(n), regs \in [Cells -> Int],
         regs' = [regs EXCEPT ![Reg[Program[n].reg]] = Program[n].value]
  PROVE  Held(n + 1)' /\ regs' \in [Cells -> Int]
<1>1. Program[n].reg \in DOMAIN Reg /\ Program[n].value \in Int
  BY Entry
<1>2. \A r \in DOMAIN Reg : Reg[r] \in Cells
  BY RegPlaces DEF Places, Cells
<1>3. regs'[Reg[Program[n].reg]] = Program[n].value
  BY <1>1, <1>2
<1>4. ASSUME NEW i \in 3 .. n, Program[i].op = "wcr",
             \A j \in i + 1 .. n : Program[j].op = "wcr" => Program[j].reg # Program[i].reg
      PROVE  regs'[Reg[Program[i].reg]] = Program[i].value
  <2>1. CASE i = n
    BY <1>3, <2>1
  <2>2. CASE i # n
    <3>1. /\ i \in 3 .. n - 1 /\ n \in i + 1 .. n /\ i \in 3 .. Last
          /\ \A j \in i + 1 .. n - 1 : j \in i + 1 .. n
      BY <2>2 DEF Last
    <3>2. regs[Reg[Program[i].reg]] = Program[i].value
      BY <1>4, <3>1 DEF Held
    <3>3. Program[i].reg \in DOMAIN Reg /\ Program[i].reg # Program[n].reg
      BY <1>4, <3>1, Entry
    <3>4. Reg[Program[i].reg] # Reg[Program[n].reg]
      BY <1>1, <3>3, RegDistinct
    <3> QED BY <1>1, <1>2, <3>2, <3>3, <3>4
  <2> QED BY <2>1, <2>2
<1>5. (n + 1) - 1 = n
  OBVIOUS
<1>6. regs' \in [Cells -> Int]
  BY <1>1, <1>2
<1> QED BY <1>4, <1>5, <1>6 DEF Held

(* The PHY has what it was waited for. *)
LEMMA PhyOn ==
  ASSUME NEW n \in 3 .. Last, PhyHeld(n), n \in PhyWaits => PhyIs(n)
  PROVE  PhyHeld(n + 1)
<1>1. \A k \in PhyWaits : k \in Int
  BY DEF PhyWaits
<1>2. \A k \in PhyWaits : k < n + 1 => k < n \/ k = n
  BY <1>1
<1> QED BY <1>2 DEF PhyHeld

(* A write to the PHY that comes to its end is the one waited for. *)
LEMMA PhyDoneStep ==
  ASSUME NEW n \in PhyWaits, Held(n), PhyHeld(n),
         phy \in [{PHCON1, PHCON2, PHLCON} -> Int], regs \in [Cells -> Int], PhyDone
  PROVE  PhyIs(n)' /\ PhyHeld(n)' /\ phy' \in [{PHCON1, PHCON2, PHLCON} -> Int]
<1>1. n \in Int /\ n - 3 \in 3 .. n - 1 /\ n - 2 \in 3 .. n - 1 /\ n - 1 \in 3 .. n - 1
      /\ n - 2 \in Int /\ n - 1 \in Int /\ n - 3 \in Int
  BY DEF PhyWaits
<1>2. /\ Program[n - 3].op = "wcr" /\ Program[n - 3].reg = "MIREGADR"
      /\ Program[n - 2].op = "wcr" /\ Program[n - 2].reg = "MIWRL"
      /\ Program[n - 1].op = "wcr" /\ Program[n - 1].reg = "MIWRH"
      /\ Program[n - 3].value \in {PHCON1, PHCON2, PHLCON}
      /\ \A j \in PhyWaits : Program[j - 3].value = Program[n - 3].value => j = n
  BY PhyWrites
<1>3. /\ \A j \in (n - 3) + 1 .. n - 1 : j = n - 2 \/ j = n - 1
      /\ \A j \in (n - 2) + 1 .. n - 1 : j = n - 1
      /\ \A j \in (n - 1) + 1 .. n - 1 : FALSE
  BY <1>1
<1>4. regs[Reg["MIREGADR"]] = Program[n - 3].value
  BY <1>1, <1>2, <1>3 DEF Held
<1>5. regs[Reg["MIWRL"]] = Program[n - 2].value
  BY <1>1, <1>2, <1>3 DEF Held
<1>6. regs[Reg["MIWRH"]] = Program[n - 1].value
  BY <1>1, <1>2, <1>3 DEF Held
<1>7. /\ DOMAIN phy = {PHCON1, PHCON2, PHLCON}
      /\ phy' = [r \in DOMAIN phy |->
                   IF r = Program[n - 3].value
                     THEN 256 * Program[n - 1].value + Program[n - 2].value
                     ELSE phy[r]]
  BY <1>4, <1>5, <1>6 DEF PhyDone
<1>8. PhyIs(n)'
  BY <1>2, <1>7 DEF PhyIs
<1>9. ASSUME NEW k \in PhyWaits, k < n PROVE PhyIs(k)'
  <2>1. PhyIs(k) /\ k # n
    BY <1>1, <1>9 DEF PhyHeld
  <2>2. Program[k - 3].value # Program[n - 3].value
        /\ Program[k - 3].value \in {PHCON1, PHCON2, PHLCON}
    BY <1>2, <2>1, PhyWrites
  <2> QED BY <1>7, <2>1, <2>2 DEF PhyIs
<1>10. 256 * Program[n - 1].value + Program[n - 2].value \in Int
  <2>1. "MIWRL" \in DOMAIN Reg /\ "MIWRH" \in DOMAIN Reg
    BY RegNames
  <2>2. Reg["MIWRL"] \in Cells /\ Reg["MIWRH"] \in Cells
    BY <2>1, RegPlaces DEF Places, Cells
  <2>3. Program[n - 1].value \in Int /\ Program[n - 2].value \in Int
    BY <1>5, <1>6, <2>2
  <2> QED BY <2>3
<1>11. phy' \in [{PHCON1, PHCON2, PHLCON} -> Int]
  BY <1>7, <1>10
<1> QED BY <1>8, <1>9, <1>11 DEF PhyHeld

LEMMA InitSetUp == Init => SetUpInv
<1> SUFFICES ASSUME Init PROVE SetUpInv
  OBVIOUS
<1>1. regs \in [Cells -> Int] /\ phy \in [{PHCON1, PHCON2, PHLCON} -> Int]
  BY DEF Init, Default, Cells
<1>2. pc = 1 /\ bank = 0 /\ busy = FALSE /\ resetting = FALSE /\ rxen = FALSE
  BY DEF Init
<1>3. busy \in BOOLEAN /\ resetting \in BOOLEAN /\ rxen \in BOOLEAN /\ ~rxen
  BY <1>2, Zenon
<1>4. pc \in Nat \ {0} /\ ~(pc = 2) /\ ~(pc > 2) /\ pc <= Last + 1
  BY <1>2 DEF Last
<1> QED BY <1>1, <1>3, <1>4 DEF SetUpInv, BankAgrees

(* What the driver does not write stays as it was. *)
LEMMA SameHeld ==
  ASSUME UNCHANGED <<regs, phy>>
  PROVE  /\ \A n : Held(n) => Held(n)'
         /\ \A n : PhyHeld(n) => PhyHeld(n)'
         /\ \A n : PhyIs(n) => PhyIs(n)'
BY DEF Held, PhyHeld, PhyIs

LEMMA SetUpStep ==
  ASSUME Mac \in [1 .. 6 -> 0 .. 255], SetUpInv, [Next]_vars
  PROVE  SetUpInv'
<1> DEFINE Idle == UNCHANGED <<regs, phy, busy>>
<1>1. BankAgrees'
  BY BankStep DEF SetUpInv
<1>2. /\ pc \in Nat \ {0} /\ pc <= Last + 1 /\ Len(Program) = Last
      /\ regs \in [Cells -> Int] /\ phy \in [{PHCON1, PHCON2, PHLCON} -> Int]
      /\ busy \in BOOLEAN /\ resetting \in BOOLEAN /\ rxen \in BOOLEAN
      /\ BankAgrees
  BY ProgramIs DEF SetUpInv, BankAgrees
<1>3. Running => pc <= Last
  BY <1>2 DEF Running
<1>4. Running /\ pc > 2 =>
        /\ pc \in 3 .. Last /\ Now = Program[pc]
        /\ ~rxen /\ Held(pc) /\ PhyHeld(pc)
        /\ busy => pc \in PhyWaits
        /\ pc \in PhyWaits /\ ~busy => PhyIs(pc)
  BY <1>2, <1>3 DEF SetUpInv, Now, Last
<1>5. Last = 49
  BY DEF Last
<1>6. CASE SetBank
  <2>1. UNCHANGED <<pc, regs, phy, busy, resetting, rxen>>
    BY <1>6 DEF SetBank
  <2> QED BY <1>1, <2>1 DEF SetUpInv, Held, PhyHeld, PhyIs
<1>7. CASE Reset
  <2>1. pc = 1
    BY <1>2, <1>7, OpPlaces DEF Reset
  <2>2. pc' = 2 /\ regs' = Default /\ rxen' = FALSE /\ resetting' = TRUE
        /\ phy' = phy /\ busy' = busy
    BY <1>7, <2>1 DEF Reset
  <2>3. regs' \in [Cells -> Int]
    BY <2>2 DEF Default, Cells
  <2>4. busy' \in BOOLEAN /\ resetting' \in BOOLEAN /\ rxen' \in BOOLEAN /\ ~rxen'
    BY <1>2, <2>2, Zenon
  <2>5. ~(pc' > 2) /\ pc' <= Last + 1 /\ phy' \in [{PHCON1, PHCON2, PHLCON} -> Int]
    BY <1>2, <1>5, <2>2
  <2> QED BY <1>1, <2>3, <2>4, <2>5 DEF SetUpInv
<1>8. CASE Sleep
  <2>1. pc = 2
    BY <1>2, <1>8, OpPlaces DEF Sleep
  <2>2. pc' = 3 /\ ~busy /\ UNCHANGED <<regs, phy, busy, resetting, rxen>>
    BY <1>8, <2>1 DEF Sleep, chip
  <2>3. ~rxen
    BY <1>5, <2>1 DEF SetUpInv
  <2>4. Held(3)' /\ PhyHeld(3)' /\ 3 \notin PhyWaits
    BY DEF Held, PhyHeld, PhyWaits
  <2> QED BY <1>1, <1>2, <1>5, <2>2, <2>3, <2>4 DEF SetUpInv
<1>9. CASE WriteRegister
  <2>1. Running /\ Now.op = "wcr" /\ pc' = pc + 1
    BY <1>9 DEF WriteRegister
  <2>2. pc > 2 /\ Now.reg \in DOMAIN Reg
    BY <1>2, <2>1, OpPlaces
  <2>3. pc \in 3 .. Last /\ Program[pc].op = "wcr" /\ pc \notin PhyWaits /\ ~busy /\ ~rxen
    BY <1>4, <2>1, <2>2, WaitPlaces
  <2>4. regs' = [regs EXCEPT ![Reg[Program[pc].reg]] = Program[pc].value]
    BY <1>2, <1>4, <2>1, <2>2, WriteStep
  <2>5. bank = BankOf(Now.reg) /\ ~resetting
    BY <1>2, <1>9, <2>2 DEF WriteRegister, InBank, BankAgrees
  <2>6. Decoded(Reg[Now.reg][2]) = Reg[Now.reg]
    BY <2>2, <2>5, DecodedRight
  <2>7. /\ busy' = (busy \/ Reg[Now.reg] = Reg.MIWRH)
        /\ UNCHANGED <<phy, resetting, rxen>>
    BY <1>9, <2>5, <2>6 DEF WriteRegister
  <2>8. busy' <=> pc + 1 \in PhyWaits
    <3>1. "MIWRH" \in DOMAIN Reg /\ Reg.MIWRH = Reg["MIWRH"]
      BY RegNames
    <3>2. Reg[Now.reg] = Reg.MIWRH <=> Now.reg = "MIWRH"
      BY <2>2, <3>1, RegDistinct
    <3>3. busy' <=> Program[pc].reg = "MIWRH"
      BY <1>4, <2>1, <2>2, <2>3, <2>7, <3>2
    <3> QED BY <2>3, <3>3, WaitPlaces
  <2>9. PICK n \in 3 .. Last : n = pc
    BY <2>3
  <2>10. Held(n) /\ PhyHeld(n) /\ Program[n].op = "wcr" /\ n \notin PhyWaits
         /\ regs' = [regs EXCEPT ![Reg[Program[n].reg]] = Program[n].value]
    BY <1>4, <2>1, <2>2, <2>3, <2>4, <2>9
  <2>11. Held(n + 1)' /\ regs' \in [Cells -> Int]
    BY <1>2, <2>10, HeldWrite
  <2>12. PhyHeld(n + 1)
    BY <2>10, PhyOn
  <2>13. PhyHeld(n + 1)'
    BY <2>7, <2>12 DEF PhyHeld, PhyIs
  <2>14. pc' = n + 1 /\ n + 1 <= Last + 1 /\ ~rxen' /\ rxen' \in BOOLEAN
         /\ busy' \in BOOLEAN
    BY <1>2, <1>5, <2>1, <2>3, <2>7, <2>9
  <2>15. Held(pc)' /\ PhyHeld(pc)'
    BY <2>11, <2>13, <2>14 DEF Held, PhyHeld, PhyIs
  <2>16. busy' <=> pc' \in PhyWaits
    BY <2>8, <2>9, <2>14
  <2> QED BY <1>1, <1>2, <2>7, <2>11, <2>14, <2>15, <2>16 DEF SetUpInv
<1>10. ASSUME Running, pc > 2, Program[pc].op # "wcr", pc' = pc + 1,
              UNCHANGED <<regs, phy, busy, resetting>>, ~busy,
              rxen' \in BOOLEAN, rxen' => pc = Last
       PROVE  SetUpInv'
  <2>1. PICK n \in 3 .. Last : n = pc
    BY <1>4, <1>10
  <2>2. Held(n) /\ PhyHeld(n) /\ (n \in PhyWaits => PhyIs(n)) /\ Program[n].op # "wcr"
    BY <1>4, <1>10, <2>1
  <2>3. Held(n + 1) /\ PhyHeld(n + 1)
    BY <2>2, HeldOn, PhyOn
  <2>4. Held(n + 1)' /\ PhyHeld(n + 1)'
    BY <1>10, <2>3, SameHeld
  <2>5. n + 1 \notin PhyWaits
    <3>1. CASE n = Last
      BY <3>1 DEF Last, PhyWaits
    <3>2. CASE n # Last
      BY <2>2, WaitPlaces
    <3> QED BY <3>1, <3>2
  <2>6. pc' = n + 1 /\ n + 1 <= Last + 1 /\ busy' = FALSE /\ resetting' = resetting
    BY <1>2, <1>5, <1>10, <2>1
  <2>7. Held(pc)' /\ PhyHeld(pc)'
    BY <2>4, <2>6 DEF Held, PhyHeld, PhyIs
  <2>8. rxen' => pc' = Last + 1 /\ Held(Last + 1)' /\ PhyHeld(Last + 1)'
    <3>1. rxen' => n = Last
      BY <1>10, <2>1
    <3> QED BY <2>4, <2>6, <3>1
  <2>9. UNCHANGED <<regs, phy>>
    BY <1>10
  <2> QED BY <1>1, <1>2, <1>10, <2>5, <2>6, <2>7, <2>8, <2>9 DEF SetUpInv
<1>11. CASE Wait
  <2>1. Running /\ Now.op = "wait" /\ pc > 2
    BY <1>2, <1>11, OpPlaces DEF Wait
  <2>2. "MISTAT" \in DOMAIN Reg /\ Reg.MISTAT = Reg["MISTAT"]
    BY RegNames
  <2>3. bank = BankOf("MISTAT")
    BY <1>2, <1>11, <2>1 DEF Wait, InBank, BankAgrees
  <2>4. Decoded(Reg.MISTAT[2]) = Reg.MISTAT
    BY <2>2, <2>3, DecodedRight
  <2>5. ~busy
    BY <1>2, <1>11, <2>4 DEF Wait, PhyIdle, ValueAt
  <2>6. Program[pc].op # "wcr" /\ ~rxen
    BY <1>4, <2>1
  <2>7. pc' = pc + 1 /\ UNCHANGED <<regs, phy, busy, resetting, rxen>>
    BY <1>11 DEF Wait, chip
  <2> QED BY <1>2, <1>10, <2>1, <2>5, <2>6, <2>7
<1>12. CASE AtBank0
  <2>1. Running /\ Now.op = "bank0" /\ pc > 2
    BY <1>2, <1>12, OpPlaces DEF AtBank0
  <2>2. pc \notin PhyWaits
    BY <1>4, <2>1, WaitPlaces
  <2>3. Program[pc].op # "wcr" /\ ~rxen /\ ~busy
    BY <1>4, <2>1, <2>2
  <2>4. pc' = pc + 1 /\ UNCHANGED <<regs, phy, busy, resetting, rxen>>
    BY <1>12 DEF AtBank0, chip
  <2> QED BY <1>2, <1>10, <2>1, <2>3, <2>4
<1>13. CASE EnableReception
  <2>1. Running /\ Now.op = "rxen" /\ pc > 2
    BY <1>2, <1>13, OpPlaces DEF EnableReception
  <2>2. pc = Last /\ pc \notin PhyWaits
    BY <1>4, <2>1, WaitPlaces
  <2> QED BY <1>2, <1>4, <1>10, <1>13, <2>1, <2>2 DEF EnableReception
<1>14. CASE ResetDone
  <2>1. UNCHANGED <<pc, regs, phy, busy, rxen>> /\ resetting' = FALSE
    BY <1>14 DEF ResetDone, driver
  <2> QED BY <1>1, <2>1 DEF SetUpInv, Held, PhyHeld, PhyIs
<1>15. CASE PhyDone
  <2>1. UNCHANGED <<pc, regs, resetting, rxen>> /\ busy /\ busy' = FALSE
    BY <1>15 DEF PhyDone, driver
  <2>2. ~rxen
    BY <2>1 DEF SetUpInv
  <2>3. CASE pc > 2
    <3>1. pc \in PhyWaits /\ Held(pc) /\ PhyHeld(pc)
      BY <2>1, <2>3 DEF SetUpInv
    <3>2. PhyIs(pc)' /\ PhyHeld(pc)' /\ phy' \in [{PHCON1, PHCON2, PHLCON} -> Int]
      <4>1. PICK n \in PhyWaits : n = pc
        BY <3>1
      <4>2. PhyIs(n)' /\ PhyHeld(n)' /\ phy' \in [{PHCON1, PHCON2, PHLCON} -> Int]
        BY <1>2, <1>15, <3>1, <4>1, PhyDoneStep
      <4> QED BY <2>1, <4>1, <4>2 DEF PhyIs, PhyHeld
    <3>3. Held(pc)'
      BY <2>1, <3>1 DEF Held
    <3> QED BY <1>1, <1>2, <2>1, <2>2, <3>2, <3>3 DEF SetUpInv
  <2>4. CASE ~(pc > 2)
    <3>1. phy' \in [{PHCON1, PHCON2, PHLCON} -> Int]
      <4>1. /\ "MIWRL" \in DOMAIN Reg /\ "MIWRH" \in DOMAIN Reg
            /\ Reg.MIWRH = Reg["MIWRH"] /\ Reg.MIWRL = Reg["MIWRL"]
        BY RegNames
      <4>2. Reg.MIWRL \in Cells /\ Reg.MIWRH \in Cells
        BY <4>1, RegPlaces DEF Places, Cells
      <4>3. 256 * regs[Reg.MIWRH] + regs[Reg.MIWRL] \in Int
        BY <1>2, <4>2
      <4> QED BY <1>2, <1>15, <4>3 DEF PhyDone
    <3> QED BY <1>1, <1>2, <2>1, <2>2, <2>4, <3>1 DEF SetUpInv
  <2> QED BY <2>3, <2>4
<1>16. CASE Restart
  <2>1. pc' = 1 /\ UNCHANGED <<regs, phy, busy, resetting, rxen>>
    BY <1>16 DEF Restart, chip
  <2>2. rxen => ~busy /\ Held(Last + 1) /\ PhyHeld(Last + 1)
    BY DEF SetUpInv
  <2>3. rxen' => ~busy' /\ Held(Last + 1)' /\ PhyHeld(Last + 1)'
    BY <2>1, <2>2, SameHeld
  <2> QED BY <1>1, <1>2, <1>5, <2>1, <2>3 DEF SetUpInv
<1>17. CASE UNCHANGED vars
  <2>1. UNCHANGED <<pc, regs, phy, busy, resetting, rxen>>
    BY <1>17 DEF vars, driver, chip
  <2> QED BY <1>1, <2>1 DEF SetUpInv, Held, PhyHeld, PhyIs
<1> QED BY <1>6, <1>7, <1>8, <1>9, <1>11, <1>12, <1>13, <1>14, <1>15, <1>16, <1>17
        DEF Next, Driver
-----------------------------------------------------------------------------
(* At the end each register but those of the MII holds the one value that  *)
(* was written to it.                                                      *)
LEMMA FinalValue ==
  ASSUME Mac \in [1 .. 6 -> 0 .. 255], Held(Last + 1), NEW i \in 3 .. Last,
         Program[i].op = "wcr", Program[i].reg \notin MiiRegs
  PROVE  Get(Program[i].reg) = Program[i].value
<1>1. Last \in Int /\ (Last + 1) - 1 = Last
  BY DEF Last
<1>2. \A j \in i + 1 .. Last :
        Program[j].op = "wcr" => Program[j].reg # Program[i].reg
  <2> SUFFICES ASSUME NEW j \in i + 1 .. Last, Program[j].op = "wcr",
                      Program[j].reg = Program[i].reg
               PROVE  FALSE
    OBVIOUS
  <2>1. j \in 3 .. Last /\ j # i
    BY <1>1
  <2> QED BY <2>1, WrittenOnce
<1> QED BY <1>1, <1>2 DEF Held, Get

LEMMA FinalRegs ==
  ASSUME Mac \in [1 .. 6 -> 0 .. 255], Held(Last + 1)
  PROVE  /\ Get("ERXSTL") = 0 /\ Get("ERXSTH") = 0 /\ Get("ERXRDPTL") = 255
         /\ Get("ERXRDPTH") = 25 /\ Get("ERXNDL") = 255
         /\ Get("ERXNDH") = 25 /\ Get("ETXSTL") = 0 /\ Get("ETXSTH") = 26
         /\ Get("ETXNDL") = 0 /\ Get("ETXNDH") = 26 /\ Get("ERXFCON") = 176
         /\ Get("EPMM0") = 63 /\ Get("EPMM1") = 48 /\ Get("EPMCSL") = 249
         /\ Get("EPMCSH") = 247 /\ Get("MACON3") = 51
         /\ Get("MABBIPG") = 21 /\ Get("MAMXFLL") = 220
         /\ Get("MAMXFLH") = 5 /\ Get("MAADR5") = Mac[1]
         /\ Get("MAADR4") = Mac[2] /\ Get("MAADR3") = Mac[3]
         /\ Get("MAADR2") = Mac[4] /\ Get("MAADR1") = Mac[5]
         /\ Get("MAADR0") = Mac[6]
<1>1. /\ Get("ERXSTL") = 0 /\ Get("ERXSTH") = 0 /\ Get("ERXRDPTL") = 255
      /\ Get("ERXRDPTH") = 25 /\ Get("ERXNDL") = 255 /\ Get("ERXNDH") = 25
      /\ Get("ETXSTL") = 0 /\ Get("ETXSTH") = 26 /\ Get("ETXNDL") = 0
      /\ Get("ETXNDH") = 26
  <2>1. Get("ERXSTL") = 0
    <3>1. Program[3].op = "wcr" /\ Program[3].reg = "ERXSTL"
          /\ Program[3].value = 0 /\ 3 \in 3 .. Last
      BY ProgramIs DEF Write, Last
    <3> QED BY <3>1, FinalValue DEF MiiRegs
  <2>2. Get("ERXSTH") = 0
    <3>1. Program[4].op = "wcr" /\ Program[4].reg = "ERXSTH"
          /\ Program[4].value = 0 /\ 4 \in 3 .. Last
      BY ProgramIs DEF Write, Last
    <3> QED BY <3>1, FinalValue DEF MiiRegs
  <2>3. Get("ERXRDPTL") = 255
    <3>1. Program[5].op = "wcr" /\ Program[5].reg = "ERXRDPTL"
          /\ Program[5].value = 255 /\ 5 \in 3 .. Last
      BY ProgramIs DEF Write, Last
    <3> QED BY <3>1, FinalValue DEF MiiRegs
  <2>4. Get("ERXRDPTH") = 25
    <3>1. Program[6].op = "wcr" /\ Program[6].reg = "ERXRDPTH"
          /\ Program[6].value = 25 /\ 6 \in 3 .. Last
      BY ProgramIs DEF Write, Last
    <3> QED BY <3>1, FinalValue DEF MiiRegs
  <2>5. Get("ERXNDL") = 255
    <3>1. Program[7].op = "wcr" /\ Program[7].reg = "ERXNDL"
          /\ Program[7].value = 255 /\ 7 \in 3 .. Last
      BY ProgramIs DEF Write, Last
    <3> QED BY <3>1, FinalValue DEF MiiRegs
  <2>6. Get("ERXNDH") = 25
    <3>1. Program[8].op = "wcr" /\ Program[8].reg = "ERXNDH"
          /\ Program[8].value = 25 /\ 8 \in 3 .. Last
      BY ProgramIs DEF Write, Last
    <3> QED BY <3>1, FinalValue DEF MiiRegs
  <2>7. Get("ETXSTL") = 0
    <3>1. Program[9].op = "wcr" /\ Program[9].reg = "ETXSTL"
          /\ Program[9].value = 0 /\ 9 \in 3 .. Last
      BY ProgramIs DEF Write, Last
    <3> QED BY <3>1, FinalValue DEF MiiRegs
  <2>8. Get("ETXSTH") = 26
    <3>1. Program[10].op = "wcr" /\ Program[10].reg = "ETXSTH"
          /\ Program[10].value = 26 /\ 10 \in 3 .. Last
      BY ProgramIs DEF Write, Last
    <3> QED BY <3>1, FinalValue DEF MiiRegs
  <2>9. Get("ETXNDL") = 0
    <3>1. Program[11].op = "wcr" /\ Program[11].reg = "ETXNDL"
          /\ Program[11].value = 0 /\ 11 \in 3 .. Last
      BY ProgramIs DEF Write, Last
    <3> QED BY <3>1, FinalValue DEF MiiRegs
  <2>10. Get("ETXNDH") = 26
    <3>1. Program[12].op = "wcr" /\ Program[12].reg = "ETXNDH"
          /\ Program[12].value = 26 /\ 12 \in 3 .. Last
      BY ProgramIs DEF Write, Last
    <3> QED BY <3>1, FinalValue DEF MiiRegs
  <2> QED BY <2>1, <2>2, <2>3, <2>4, <2>5, <2>6, <2>7, <2>8, <2>9, <2>10
<1>2. /\ Get("ERXFCON") = 176 /\ Get("EPMM0") = 63 /\ Get("EPMM1") = 48
      /\ Get("EPMCSL") = 249 /\ Get("EPMCSH") = 247
  <2>1. Get("ERXFCON") = 176
    <3>1. Program[13].op = "wcr" /\ Program[13].reg = "ERXFCON"
          /\ Program[13].value = 176 /\ 13 \in 3 .. Last
      BY ProgramIs DEF Write, Last
    <3> QED BY <3>1, FinalValue DEF MiiRegs
  <2>2. Get("EPMM0") = 63
    <3>1. Program[14].op = "wcr" /\ Program[14].reg = "EPMM0"
          /\ Program[14].value = 63 /\ 14 \in 3 .. Last
      BY ProgramIs DEF Write, Last
    <3> QED BY <3>1, FinalValue DEF MiiRegs
  <2>3. Get("EPMM1") = 48
    <3>1. Program[15].op = "wcr" /\ Program[15].reg = "EPMM1"
          /\ Program[15].value = 48 /\ 15 \in 3 .. Last
      BY ProgramIs DEF Write, Last
    <3> QED BY <3>1, FinalValue DEF MiiRegs
  <2>4. Get("EPMCSL") = 249
    <3>1. Program[16].op = "wcr" /\ Program[16].reg = "EPMCSL"
          /\ Program[16].value = 249 /\ 16 \in 3 .. Last
      BY ProgramIs DEF Write, Last
    <3> QED BY <3>1, FinalValue DEF MiiRegs
  <2>5. Get("EPMCSH") = 247
    <3>1. Program[17].op = "wcr" /\ Program[17].reg = "EPMCSH"
          /\ Program[17].value = 247 /\ 17 \in 3 .. Last
      BY ProgramIs DEF Write, Last
    <3> QED BY <3>1, FinalValue DEF MiiRegs
  <2> QED BY <2>1, <2>2, <2>3, <2>4, <2>5
<1>3. /\ Get("MACON3") = 51 /\ Get("MABBIPG") = 21 /\ Get("MAMXFLL") = 220
      /\ Get("MAMXFLH") = 5
  <2>1. Get("MACON3") = 51
    <3>1. Program[20].op = "wcr" /\ Program[20].reg = "MACON3"
          /\ Program[20].value = 51 /\ 20 \in 3 .. Last
      BY ProgramIs DEF Write, Last
    <3> QED BY <3>1, FinalValue DEF MiiRegs
  <2>2. Get("MABBIPG") = 21
    <3>1. Program[21].op = "wcr" /\ Program[21].reg = "MABBIPG"
          /\ Program[21].value = 21 /\ 21 \in 3 .. Last
      BY ProgramIs DEF Write, Last
    <3> QED BY <3>1, FinalValue DEF MiiRegs
  <2>3. Get("MAMXFLL") = 220
    <3>1. Program[26].op = "wcr" /\ Program[26].reg = "MAMXFLL"
          /\ Program[26].value = 220 /\ 26 \in 3 .. Last
      BY ProgramIs DEF Write, Last
    <3> QED BY <3>1, FinalValue DEF MiiRegs
  <2>4. Get("MAMXFLH") = 5
    <3>1. Program[27].op = "wcr" /\ Program[27].reg = "MAMXFLH"
          /\ Program[27].value = 5 /\ 27 \in 3 .. Last
      BY ProgramIs DEF Write, Last
    <3> QED BY <3>1, FinalValue DEF MiiRegs
  <2> QED BY <2>1, <2>2, <2>3, <2>4
<1>4. /\ Get("MAADR5") = Mac[1] /\ Get("MAADR4") = Mac[2]
      /\ Get("MAADR3") = Mac[3] /\ Get("MAADR2") = Mac[4]
      /\ Get("MAADR1") = Mac[5] /\ Get("MAADR0") = Mac[6]
  <2>1. Get("MAADR5") = Mac[1]
    <3>1. Program[28].op = "wcr" /\ Program[28].reg = "MAADR5"
          /\ Program[28].value = Mac[1] /\ 28 \in 3 .. Last
      BY ProgramIs DEF Write, Last
    <3> QED BY <3>1, FinalValue DEF MiiRegs
  <2>2. Get("MAADR4") = Mac[2]
    <3>1. Program[29].op = "wcr" /\ Program[29].reg = "MAADR4"
          /\ Program[29].value = Mac[2] /\ 29 \in 3 .. Last
      BY ProgramIs DEF Write, Last
    <3> QED BY <3>1, FinalValue DEF MiiRegs
  <2>3. Get("MAADR3") = Mac[3]
    <3>1. Program[30].op = "wcr" /\ Program[30].reg = "MAADR3"
          /\ Program[30].value = Mac[3] /\ 30 \in 3 .. Last
      BY ProgramIs DEF Write, Last
    <3> QED BY <3>1, FinalValue DEF MiiRegs
  <2>4. Get("MAADR2") = Mac[4]
    <3>1. Program[31].op = "wcr" /\ Program[31].reg = "MAADR2"
          /\ Program[31].value = Mac[4] /\ 31 \in 3 .. Last
      BY ProgramIs DEF Write, Last
    <3> QED BY <3>1, FinalValue DEF MiiRegs
  <2>5. Get("MAADR1") = Mac[5]
    <3>1. Program[32].op = "wcr" /\ Program[32].reg = "MAADR1"
          /\ Program[32].value = Mac[5] /\ 32 \in 3 .. Last
      BY ProgramIs DEF Write, Last
    <3> QED BY <3>1, FinalValue DEF MiiRegs
  <2>6. Get("MAADR0") = Mac[6]
    <3>1. Program[33].op = "wcr" /\ Program[33].reg = "MAADR0"
          /\ Program[33].value = Mac[6] /\ 33 \in 3 .. Last
      BY ProgramIs DEF Write, Last
    <3> QED BY <3>1, FinalValue DEF MiiRegs
  <2> QED BY <2>1, <2>2, <2>3, <2>4, <2>5, <2>6
<1> QED BY <1>1, <1>2, <1>3, <1>4

(* A set-up that came to its end has left a controller whose parts agree.  *)
LEMMA ReadyAtEnd ==
  ASSUME Mac \in [1 .. 6 -> 0 .. 255], Held(Last + 1)
  PROVE  BuffersApart /\ FramesFit /\ OwnAddress /\ HearsArp
<1>1. BuffersApart
  BY FinalRegs DEF BuffersApart, Get16, BUFSIZE
<1>2. FramesFit
  BY FinalRegs DEF FramesFit, Get16, Mss, HandlerBuffer
<1>3. OwnAddress
  <2>1. /\ Reg["MAADR5"] = <<3, 4>> /\ Reg["MAADR4"] = <<3, 5>>
        /\ Reg["MAADR3"] = <<3, 2>> /\ Reg["MAADR2"] = <<3, 3>>
        /\ Reg["MAADR1"] = <<3, 0>> /\ Reg["MAADR0"] = <<3, 1>>
    BY DEF Reg, BufferRegs, CommonRegs, FilterRegs, MacRegs, AddressRegs
  <2>2. /\ regs[<<3, 4>>] = Mac[1] /\ regs[<<3, 5>>] = Mac[2]
        /\ regs[<<3, 2>>] = Mac[3] /\ regs[<<3, 3>>] = Mac[4]
        /\ regs[<<3, 0>>] = Mac[5] /\ regs[<<3, 1>>] = Mac[6]
    BY <2>1, FinalRegs DEF Get
  <2>3. \A i \in 1 .. 6 : regs[<<3, <<4, 5, 2, 3, 0, 1>>[i]>>] = Mac[i]
    <3> TAKE i \in 1 .. 6
    <3>1. i = 1 \/ i = 2 \/ i = 3 \/ i = 4 \/ i = 5 \/ i = 6
      OBVIOUS
    <3> QED BY <2>2, <3>1
  <2> QED BY <2>3 DEF OwnAddress
<1>4. HearsArp
  <2>1. Get("EPMM0") = 63 /\ Get("EPMM1") = 48 /\ Get("EPMCSL") = 249
        /\ Get("EPMCSH") = 247 /\ Get("ERXFCON") = 176
    BY FinalRegs
  <2>2. Selected = {0, 1, 2, 3, 4, 5, 12, 13}
    <3>1. \A i \in 0 .. 7 : HasBit(63, BitOf[i]) <=> i <= 5
      <4> TAKE i \in 0 .. 7
      <4>1. i = 0 \/ i = 1 \/ i = 2 \/ i = 3 \/ i = 4 \/ i = 5 \/ i = 6 \/ i = 7
        OBVIOUS
      <4> QED BY <4>1 DEF HasBit, BitOf
    <3>2. \A i \in 8 .. 15 : HasBit(48, BitOf[i - 8]) <=> i = 12 \/ i = 13
      <4> TAKE i \in 8 .. 15
      <4>1. \/ i = 8 \/ i = 9 \/ i = 10 \/ i = 11 \/ i = 12 \/ i = 13
            \/ i = 14 \/ i = 15
        OBVIOUS
      <4> QED BY <4>1 DEF HasBit, BitOf
    <3> QED BY <2>1, <3>1, <3>2 DEF Selected
  <2>3. PatternSum = 198659
    <3>1. /\ ArpFrame[0] = 255 /\ ArpFrame[1] = 255 /\ ArpFrame[2] = 255
          /\ ArpFrame[3] = 255 /\ ArpFrame[4] = 255 /\ ArpFrame[5] = 255
          /\ ArpFrame[12] = 8 /\ ArpFrame[13] = 6
      BY DEF ArpFrame
    <3>2. /\ PatternWord(0) = 65535 /\ PatternWord(1) = 65535
          /\ PatternWord(2) = 65535 /\ PatternWord(3) = 0
          /\ PatternWord(4) = 0 /\ PatternWord(5) = 0
          /\ PatternWord(6) = 2054 /\ PatternWord(7) = 0
      BY <2>2, <3>1 DEF PatternWord, PatternByte
    <3> QED BY <3>2 DEF PatternSum
  <2> QED BY <2>1, <2>2, <2>3 DEF HearsArp, Get16, HasBit, ERXFCON_PMEN
<1> QED BY <1>1, <1>2, <1>3, <1>4

LEMMA DuplexAtEnd ==
  ASSUME Mac \in [1 .. 6 -> 0 .. 255], Held(Last + 1), PhyHeld(Last + 1)
  PROVE  /\ HasBit(phy[PHCON1], PHCON1_PDPXMD)
         /\ HasBit(Get("MACON3"), MACON3_FULDPX)
         /\ Get("MABBIPG") = 21 /\ HasBit(phy[PHCON2], PHCON2_HDLDIS)
<1>1. Get("MACON3") = 51 /\ Get("MABBIPG") = 21
  BY FinalRegs
<1>2. phy[0] = 256 /\ phy[16] = 256
  <2>1. PhyIs(38) /\ PhyIs(42)
    BY DEF PhyHeld, PhyWaits, Last
  <2>2. /\ Program[35].value = 0 /\ Program[36].value = 0 /\ Program[37].value = 1
        /\ Program[39].value = 16 /\ Program[40].value = 0 /\ Program[41].value = 1
    BY ProgramIs DEF Write
  <2> QED BY <2>1, <2>2 DEF PhyIs
<1> QED BY <1>1, <1>2 DEF HasBit, PHCON1, PHCON2, PHCON1_PDPXMD, PHCON2_HDLDIS,
                          MACON3_FULDPX

LEMMA SetUpInvariant ==
  ASSUME Mac \in [1 .. 6 -> 0 .. 255]
  PROVE  Spec => []SetUpInv
<1>1. SetUpInv /\ [Next]_vars => SetUpInv'
  BY SetUpStep
<1> QED BY <1>1, InitSetUp, PTL DEF Spec

(* enc28j60_init: while the controller receives, its buffers, frame sizes, *)
(* address and pattern filter are as the handler and the peers expect      *)
(* them, whatever the station address, and however often and wherever the  *)
(* microcontroller was started again.                                      *)
THEOREM SetUpCompleteWhenReceiving ==
  ASSUME Mac \in [1 .. 6 -> 0 .. 255]
  PROVE  Spec => []ReadyWhenReceiving
<1>1. SetUpInv => ReadyWhenReceiving
  BY ReadyAtEnd DEF SetUpInv, ReadyWhenReceiving
<1> QED BY <1>1, SetUpInvariant, PTL

(* enc28j60_write_phy: no write to the PHY was lost to the one after it,   *)
(* so that PHY and MAC agree about full duplex.                            *)
THEOREM PhyAndMacAgree ==
  ASSUME Mac \in [1 .. 6 -> 0 .. 255]
  PROVE  Spec => []DuplexAgrees
<1>1. SetUpInv => DuplexAgrees
  BY DuplexAtEnd DEF SetUpInv, DuplexAgrees
<1> QED BY <1>1, SetUpInvariant, PTL
=============================================================================
