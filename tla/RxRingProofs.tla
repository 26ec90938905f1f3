---------------------------- MODULE RxRingProofs ----------------------------
(***************************************************************************)
(* Proofs about RxRing, for every ring size, header length and set of      *)
(* frame lengths the assumption of RxRing allows.                          *)
(*                                                                         *)
(* The argument measures every address by its distance from the header of  *)
(* the oldest frame whose space is not yet free.  In these distances the   *)
(* frames lie one behind the other, the frame coming in lies behind them,  *)
(* and everything in use is shorter than the ring, so two addresses at     *)
(* different distances are different and a store cannot hit a frame.       *)
(***************************************************************************)
EXTENDS RxRing, TLAPS

(* How far address a lies behind address b in the ring. *)
Dist(b, a) == IF b <= a THEN a - b ELSE a + RXSIZE - b

(* The header of the oldest frame whose space is not free, or where the    *)
(* next frame will go.                                                     *)
Oldest == IF Freed < Len(log) THEN log[Freed + 1].at ELSE erxwrpt

Used == Dist(Oldest, erxwrpt)

Receiving == {"check", "seek", "header", "copy", "free", "dec"}

(* The packet counter is the number of frames not acknowledged, and the    *)
(* handler is inside enc28j60_recv_packet only if there is one.            *)
CountInv ==
  /\ taken <= Len(log)
  /\ epktcnt = Len(log) - taken
  /\ pc \in Receiving => taken < Len(log)
  /\ pc = "filter" => taken > 0
  /\ inLen = 0 => fill = 0

(* Where the frames are: behind one another, the frame coming in last. *)
LayoutInv ==
  /\ \A n \in Freed + 1 .. Len(log) :
       /\ Dist(Oldest, log[n].at) + Size(log[n].len) <= Used
       /\ log[n].next = IF n < Len(log) THEN log[n + 1].at ELSE erxwrpt
       /\ \A m \in Freed + 1 .. n - 1 :
            Dist(Oldest, log[m].at) + Size(log[m].len)
              <= Dist(Oldest, log[n].at)
  /\ Used + fill <= RXSIZE - 1
  /\ Freed = 0 => /\ Oldest = 0
                  /\ erxrdpt = RXSIZE - 1
                  /\ Used + fill <= RXSIZE - 2
  /\ Freed > 0 => erxrdpt = Oldest

(* The bytes of the frame coming in that are already stored. *)
PartialIntact ==
  \A k \in 1 .. inLen :
    HdrLen + k <= fill =>
      mem[Wrap(erxwrpt + HdrLen + k - 1)] = Byte(Len(log) + 1, k)

(* What the handler knows of the frame it is receiving. *)
DriverInv ==
  /\ rxrdpt = IF pc \in {"copy", "free"} THEN log[taken + 1].next ELSE Oldest
  /\ pc = "header" => erdpt = rxrdpt
  /\ pc = "copy" => /\ log[taken + 1].ok
                    /\ erdpt = Wrap(log[taken + 1].at + HdrLen + copied)
  /\ pc \in {"copy", "free", "dec"} =>
       /\ plen = Limit(log[taken + 1].len - CrcLen)
       /\ copied <= plen
       /\ log[taken + 1].ok => \A k \in 1 .. copied : buf[k] = Byte(taken + 1, k)
  /\ pc \in {"free", "dec"} /\ log[taken + 1].ok => copied = plen
  /\ FrameIsWhole

IInv ==
  /\ TypeOK
  /\ CountInv
  /\ LayoutInv
  /\ UnreadIntact
  /\ PartialIntact
  /\ DriverInv
-----------------------------------------------------------------------------
(***************************************************************************)
(* Distances and lengths.                                                  *)
(***************************************************************************)

(* A distance is shorter than the ring. *)
LEMMA DistType ==
  ASSUME NEW b \in Addr, NEW a \in Addr
  PROVE  Dist(b, a) \in 0 .. RXSIZE - 1
BY RxRingAssumption DEF Dist, Addr

(* Going k bytes on adds k to the distance as long as it stays shorter     *)
(* than the ring.                                                          *)
LEMMA DistWrap ==
  ASSUME NEW b \in Addr, NEW a \in Addr, NEW k \in Nat,
         Dist(b, a) + k < RXSIZE
  PROVE  /\ Wrap(a + k) \in Addr
         /\ Dist(b, Wrap(a + k)) = Dist(b, a) + k
BY RxRingAssumption DEF Dist, Addr, Wrap

(* Different addresses are at different distances. *)
LEMMA DistInjective ==
  ASSUME NEW b \in Addr, NEW a1 \in Addr, NEW a2 \in Addr,
         Dist(b, a1) = Dist(b, a2)
  PROVE  a1 = a2
BY RxRingAssumption DEF Dist, Addr

(* Measuring from an address c further on shortens the distance of what    *)
(* lies behind c by the distance of c.                                     *)
LEMMA DistShift ==
  ASSUME NEW b \in Addr, NEW c \in Addr, NEW a \in Addr,
         Dist(b, c) <= Dist(b, a)
  PROVE  Dist(c, a) = Dist(b, a) - Dist(b, c)
BY RxRingAssumption DEF Dist, Addr

(* Wrapping twice is wrapping once. *)
LEMMA WrapWrap ==
  ASSUME NEW a \in Addr, NEW k \in 0 .. RXSIZE - 2
  PROVE  /\ Wrap(a + k) \in Addr /\ Wrap(a) = a
         /\ Wrap(Wrap(a + k) + 1) = Wrap(a + k + 1)
         /\ Wrap(a + k + 1) \in Addr
BY RxRingAssumption DEF Addr, Wrap

(* What the ring's cells may hold. *)
LEMMA ByteType ==
  ASSUME NEW n \in Nat, NEW k \in Nat
  PROVE  Byte(n, k) \in Cell
BY RxRingAssumption DEF Byte, Cell, Addr

LEMMA HeaderType ==
  ASSUME NEW n \in Nat, NEW next \in Addr, NEW len \in Nat,
         NEW ok \in BOOLEAN
  PROVE  Header(n, next, len, ok) \in Cell
BY DEF Header, Cell

(* A frame takes at least its header and its bytes. *)
LEMMA SizeBound ==
  ASSUME NEW len \in Nat
  PROVE  Size(len) \in Nat /\ Size(len) >= HdrLen + len
<1>1. HdrLen + len \in Nat
  BY RxRingAssumption
<1>2. (HdrLen + len) % 2 \in {0, 1}
  BY <1>1
<1>3. QED
  BY <1>1, <1>2 DEF Size

(* What the assumption says of a frame length. *)
LEMMA FrameLen ==
  ASSUME NEW len \in FrameLens
  PROVE  /\ len \in Nat /\ len > CrcLen
         /\ Size(len) \in Nat /\ HdrLen + len <= Size(len)
         /\ Size(len) <= RXSIZE - 2
         /\ Limit(len - CrcLen) \in 1 .. BufLen - 1
         /\ Limit(len - CrcLen) <= len - CrcLen
BY RxRingAssumption, SizeBound DEF Limit
-----------------------------------------------------------------------------
(***************************************************************************)
(* Consequences of the invariant the steps below share.                    *)
(***************************************************************************)

(* Types of the derived quantities. *)
LEMMA Facts ==
  ASSUME IInv
  PROVE  /\ Freed \in 0 .. Len(log)
         /\ Oldest \in Addr
         /\ Used \in 0 .. RXSIZE - 1
         /\ Len(log) \in Nat
         /\ \A n \in 1 .. Len(log) :
              /\ log[n] \in Entry
              /\ log[n].at \in Addr /\ log[n].next \in Addr
              /\ log[n].len \in FrameLens /\ log[n].ok \in BOOLEAN
<1>1. Len(log) \in Nat /\ \A n \in 1 .. Len(log) : log[n] \in Entry
  BY DEF IInv, TypeOK
<1>2. \A n \in 1 .. Len(log) :
        /\ log[n].at \in Addr /\ log[n].next \in Addr
        /\ log[n].len \in FrameLens /\ log[n].ok \in BOOLEAN
  BY <1>1 DEF Entry
<1>3. Freed \in 0 .. Len(log)
  BY <1>1 DEF IInv, TypeOK, CountInv, Freed, Receiving
<1>4. Oldest \in Addr
  BY <1>2, <1>3 DEF IInv, TypeOK, Oldest
<1>5. Used \in 0 .. RXSIZE - 1
  BY <1>4, DistType DEF IInv, TypeOK, Used
<1>6. QED
  BY <1>1, <1>2, <1>3, <1>4, <1>5

(* The bytes of a frame that is not freed lie before ERXWRPT. *)
LEMMA FrameBeforeWrite ==
  ASSUME IInv, NEW n \in Freed + 1 .. Len(log),
         NEW j \in 0 .. HdrLen + log[n].len - 1
  PROVE  /\ Wrap(log[n].at + j) \in Addr
         /\ Dist(Oldest, Wrap(log[n].at + j)) = Dist(Oldest, log[n].at) + j
         /\ Dist(Oldest, log[n].at) + j < Used
<1>1. /\ n \in 1 .. Len(log) /\ log[n].at \in Addr
      /\ log[n].len \in Nat /\ Size(log[n].len) \in Nat
      /\ HdrLen + log[n].len <= Size(log[n].len)
  BY Facts, FrameLen
<1>2. Dist(Oldest, log[n].at) + Size(log[n].len) <= Used
  BY DEF IInv, LayoutInv
<1>3. Dist(Oldest, log[n].at) \in 0 .. RXSIZE - 1
  BY <1>1, Facts, DistType
<1>4. j \in Nat /\ j < Size(log[n].len)
  BY <1>1, RxRingAssumption
<1>5. Dist(Oldest, log[n].at) + j < Used
  BY <1>1, <1>2, <1>3, <1>4, Facts
<1>6. Dist(Oldest, log[n].at) + j < RXSIZE
  BY <1>3, <1>4, <1>5, Facts, RxRingAssumption
<1>7. QED
  BY <1>1, <1>4, <1>5, <1>6, Facts, DistWrap

(* The address the next byte goes to lies at the distance of what is used  *)
(* and of what is stored of the frame coming in.                           *)
LEMMA StorePlace ==
  ASSUME IInv, NEW j \in 0 .. fill
  PROVE  /\ Wrap(erxwrpt + j) \in Addr
         /\ Dist(Oldest, Wrap(erxwrpt + j)) = Used + j
<1>1. erxwrpt \in Addr /\ fill \in Nat /\ j \in Nat /\ j <= fill
  BY DEF IInv, TypeOK
<1>2. Used + fill <= RXSIZE - 1
  BY DEF IInv, LayoutInv
<1>3. Used + j < RXSIZE
  BY <1>1, <1>2, Facts, RxRingAssumption
<1>4. QED
  BY <1>1, <1>3, Facts, DistWrap DEF Used

(* A store at or behind ERXWRPT leaves the frames that are not freed as    *)
(* they are.                                                               *)
LEMMA StoreKeepsFrames ==
  ASSUME IInv, NEW j \in 0 .. fill, NEW cell,
         mem' = [mem EXCEPT ![Wrap(erxwrpt + j)] = cell],
         NEW n \in Freed + 1 .. Len(log)
  PROVE  /\ mem'[log[n].at] = Header(n, log[n].next, log[n].len, log[n].ok)
         /\ \A k \in 1 .. log[n].len :
              mem'[Wrap(log[n].at + HdrLen + k - 1)] = Byte(n, k)
<1> DEFINE A == Wrap(erxwrpt + j)
<1>1. A \in Addr /\ Dist(Oldest, A) = Used + j /\ j \in Nat
  BY StorePlace DEF IInv, TypeOK
<1>2. mem \in [Addr -> Cell] /\ Intact(n)
  BY DEF IInv, TypeOK, UnreadIntact
<1>3. n \in 1 .. Len(log) /\ log[n].at \in Addr /\ log[n].len \in FrameLens
      /\ log[n].len \in Nat /\ Used \in Nat
  BY Facts, FrameLen
<1>4. ASSUME NEW i \in 0 .. HdrLen + log[n].len - 1
      PROVE  mem'[Wrap(log[n].at + i)] = mem[Wrap(log[n].at + i)]
  <2>1. /\ Wrap(log[n].at + i) \in Addr
        /\ Dist(Oldest, Wrap(log[n].at + i)) < Used
    BY FrameBeforeWrite
  <2>2. Wrap(log[n].at + i) # A
    BY <1>1, <1>3, <2>1
  <2>3. QED
    BY <1>1, <1>2, <2>1, <2>2
<1>5. mem'[log[n].at] = mem[log[n].at]
  <2>1. Wrap(log[n].at + 0) = log[n].at
    BY <1>3, RxRingAssumption DEF Wrap, Addr
  <2>2. 0 \in 0 .. HdrLen + log[n].len - 1
    BY <1>3, RxRingAssumption
  <2>3. QED
    BY <1>4, <2>1, <2>2
<1>6. ASSUME NEW k \in 1 .. log[n].len
      PROVE  mem'[Wrap(log[n].at + HdrLen + k - 1)]
               = mem[Wrap(log[n].at + HdrLen + k - 1)]
  <2>1. HdrLen + k - 1 \in 0 .. HdrLen + log[n].len - 1
    BY <1>3, RxRingAssumption
  <2>2. log[n].at + (HdrLen + k - 1) = log[n].at + HdrLen + k - 1
    BY <1>3, RxRingAssumption DEF Addr
  <2>3. QED
    BY <1>4, <2>1, <2>2
<1>7. QED
  BY <1>2, <1>5, <1>6 DEF Intact
-----------------------------------------------------------------------------
(***************************************************************************)
(* The invariant holds initially and is preserved by every action.         *)
(***************************************************************************)

LEMMA InitIInv == Init => IInv
<1> SUFFICES ASSUME Init PROVE IInv
  OBVIOUS
<1>1. Len(log) = 0 /\ Freed = 0 /\ Oldest = 0 /\ Used = 0
  BY RxRingAssumption DEF Init, Freed, Oldest, Used, Dist
<1>2. TypeOK
  <2>1. Byte(0, 0) \in Cell
    BY ByteType
  <2>2. mem \in [Addr -> Cell] /\ buf \in [1 .. BufLen - 1 -> Cell]
    BY <2>1 DEF Init
  <2>3. 0 \in Addr /\ RXSIZE - 1 \in Addr
    BY RxRingAssumption DEF Addr
  <2>4. /\ epktcnt \in 0 .. MaxPktCnt
        /\ plen \in 0 .. BufLen - 1 /\ copied \in 0 .. BufLen - 1
    BY RxRingAssumption DEF Init
  <2>5. log \in Seq(Entry) /\ served \in Seq(Nat) /\ inLen = 0
    BY DEF Init
  <2>6. QED
    BY <2>2, <2>3, <2>4, <2>5 DEF Init, TypeOK, Location
<1>3. CountInv /\ LayoutInv /\ UnreadIntact /\ PartialIntact /\ DriverInv
  BY <1>1, RxRingAssumption
     DEF Init, CountInv, LayoutInv, UnreadIntact, PartialIntact, DriverInv,
         Receiving, FrameIsWhole
<1>4. QED
  BY <1>2, <1>3 DEF IInv

(* A step that leaves the ring alone keeps what is said about the ring. *)
LEMMA RingUnchanged ==
  ASSUME IInv, UNCHANGED <<mem, erxwrpt, erxrdpt, log>>, Freed' = Freed,
         UNCHANGED <<fill, inLen>> \/ fill' = 0
  PROVE  /\ LayoutInv' /\ UnreadIntact' /\ PartialIntact'
         /\ Oldest' = Oldest
<1>1. Oldest' = Oldest /\ Used' = Used
  BY DEF Oldest, Used, Dist
<1>2. fill \in Nat /\ fill' \in Nat /\ fill' <= fill
  BY DEF IInv, TypeOK
<1>3. LayoutInv'
  <2>1. /\ Used + fill' <= RXSIZE - 1
        /\ Freed = 0 => Used + fill' <= RXSIZE - 2
    BY <1>2, Facts, RxRingAssumption DEF IInv, LayoutInv
  <2>2. QED
    BY <1>1, <2>1 DEF IInv, LayoutInv, Dist
<1>4. UnreadIntact'
  BY DEF IInv, UnreadIntact, Intact
<1>5. PartialIntact'
  <2>1. CASE UNCHANGED <<fill, inLen>>
    BY <2>1 DEF IInv, PartialIntact
  <2>2. CASE fill' = 0
    BY <2>2, RxRingAssumption DEF PartialIntact
  <2>3. QED
    BY <2>1, <2>2
<1>6. QED
  BY <1>1, <1>3, <1>4, <1>5

(* The handler's variables say the same of the same frame while it, the    *)
(* list of frames and the oldest address stay.                             *)
LEMMA DriverUnchanged ==
  ASSUME IInv, UNCHANGED handlerVars, Oldest' = Oldest,
         Len(log') >= Len(log), Len(log') \in Nat,
         \A n \in 1 .. Len(log) : log'[n] = log[n]
  PROVE  DriverInv'
<1>1. taken \in Nat /\ taken <= Len(log)
  BY DEF IInv, CountInv, TypeOK
<1>2. pc \in Receiving => log'[taken + 1] = log[taken + 1]
  BY <1>1, Facts DEF IInv, CountInv
<1>3. pc = "filter" => log'[taken] = log[taken]
  BY <1>1, Facts DEF IInv, CountInv
<1>4. QED
  BY <1>2, <1>3
     DEF IInv, DriverInv, handlerVars, FrameIsWhole, Receiving

LEMMA FrameArrivesStep ==
  ASSUME IInv, NEW len \in FrameLens, NEW ok \in BOOLEAN,
         FrameArrives(len, ok)
  PROVE  IInv'
<1>1. TypeOK'
  BY FrameLen DEF IInv, FrameArrives, TypeOK, handlerVars
<1>2. CountInv'
  BY DEF IInv, FrameArrives, CountInv, handlerVars
<1>3. Freed' = Freed
  BY DEF FrameArrives, handlerVars, Freed
<1>4. LayoutInv' /\ UnreadIntact' /\ PartialIntact' /\ Oldest' = Oldest
  BY <1>3, RingUnchanged DEF FrameArrives, handlerVars
<1>5. DriverInv'
  BY <1>4, Facts, DriverUnchanged DEF FrameArrives
<1>6. QED
  BY <1>1, <1>2, <1>4, <1>5 DEF IInv

LEMMA OverflowStep ==
  ASSUME IInv, Overflow
  PROVE  IInv'
<1>1. TypeOK'
  BY DEF IInv, Overflow, TypeOK, handlerVars
<1>2. CountInv'
  BY DEF IInv, Overflow, CountInv, handlerVars
<1>3. Freed' = Freed
  BY DEF Overflow, handlerVars, Freed
<1>4. LayoutInv' /\ UnreadIntact' /\ PartialIntact' /\ Oldest' = Oldest
  BY <1>3, RingUnchanged DEF Overflow, handlerVars
<1>5. DriverInv'
  BY <1>4, Facts, DriverUnchanged DEF Overflow
<1>6. QED
  BY <1>1, <1>2, <1>4, <1>5 DEF IInv

(* The next byte goes to a free place, and the place after it is not       *)
(* ERXRDPT, so what is in use stays shorter than the ring.                 *)
LEMMA StoreByteStep ==
  ASSUME IInv, StoreByte
  PROVE  IInv'
<1> DEFINE A == Wrap(erxwrpt + fill)
<1>1. /\ inLen \in FrameLens /\ fill \in Nat /\ fill < Size(inLen)
      /\ fill' = fill + 1 /\ fill \in 0 .. fill
      /\ inLen \in Nat /\ Size(inLen) \in Nat
  BY FrameLen DEF StoreByte, IInv, TypeOK
<1>2. A \in Addr /\ Dist(Oldest, A) = Used + fill
  BY <1>1, StorePlace
<1>3. Oldest' = Oldest /\ Freed' = Freed /\ Used' = Used
  BY DEF StoreByte, handlerVars, Oldest, Freed, Used, Dist
<1>4. /\ Used + fill + 1 <= RXSIZE - 1
      /\ Freed = 0 => Used + fill + 1 <= RXSIZE - 2
  <2>1. /\ Used \in Nat /\ Oldest \in Addr /\ erxrdpt \in Addr
        /\ Used + fill <= RXSIZE - 1
        /\ Freed = 0 => /\ Oldest = 0 /\ erxrdpt = RXSIZE - 1
                        /\ Used + fill <= RXSIZE - 2
        /\ Freed > 0 => erxrdpt = Oldest
        /\ Freed \in Nat
    BY Facts DEF IInv, LayoutInv, TypeOK
  <2>2. Wrap(A + 1) # erxrdpt
    BY DEF StoreByte, Room
  <2>3. CASE Freed = 0
    BY <1>1, <1>2, <2>1, <2>2, <2>3, RxRingAssumption DEF Dist, Addr, Wrap
  <2>4. CASE Freed > 0
    BY <1>1, <1>2, <2>1, <2>2, <2>4, RxRingAssumption DEF Dist, Addr, Wrap
  <2>5. QED
    BY <2>1, <2>3, <2>4
<1>5. TypeOK'
  <2>1. Byte(0, 0) \in Cell
    BY ByteType
  <2>2. ASSUME fill \in HdrLen .. HdrLen + inLen - 1
        PROVE  Byte(Len(log) + 1, fill - HdrLen + 1) \in Cell
    <3>1. fill - HdrLen + 1 \in Nat
      BY <1>1, <2>2, RxRingAssumption
    <3>2. Len(log) + 1 \in Nat
      BY Facts
    <3>3. QED
      BY <3>1, <3>2, ByteType
  <2>3. mem' \in [Addr -> Cell]
    BY <2>1, <2>2 DEF StoreByte, IInv, TypeOK
  <2>4. fill' \in Nat /\ fill' <= Size(inLen)
    BY <1>1
  <2>5. QED
    BY <2>3, <2>4 DEF StoreByte, IInv, TypeOK, handlerVars
<1>6. CountInv'
  BY DEF IInv, StoreByte, CountInv, handlerVars
<1>7. LayoutInv'
  <2>1. UNCHANGED <<erxwrpt, erxrdpt, log>>
    BY DEF StoreByte, handlerVars
  <2>2. /\ Used' + fill' <= RXSIZE - 1
        /\ Freed = 0 => Used' + fill' <= RXSIZE - 2
    BY <1>1, <1>3, <1>4, Facts
  <2>3. QED
    BY <1>3, <2>1, <2>2 DEF IInv, LayoutInv, Dist
<1>8. UnreadIntact'
  BY <1>1, <1>3, StoreKeepsFrames
     DEF StoreByte, UnreadIntact, Intact
<1>9. PartialIntact'
  <2> SUFFICES ASSUME NEW k \in 1 .. inLen, HdrLen + k <= fill + 1
               PROVE  mem'[Wrap(erxwrpt + HdrLen + k - 1)]
                        = Byte(Len(log) + 1, k)
    BY <1>1 DEF StoreByte, PartialIntact
  <2>1. /\ HdrLen + k - 1 \in 0 .. fill
        /\ erxwrpt + (HdrLen + k - 1) = erxwrpt + HdrLen + k - 1
    BY <1>1, RxRingAssumption DEF IInv, TypeOK, Addr
  <2>2. /\ Wrap(erxwrpt + HdrLen + k - 1) \in Addr
        /\ Dist(Oldest, Wrap(erxwrpt + HdrLen + k - 1))
             = Used + (HdrLen + k - 1)
    BY <2>1, StorePlace
  <2>3. CASE HdrLen + k = fill + 1
    <3>1. fill \in HdrLen .. HdrLen + inLen - 1 /\ fill - HdrLen + 1 = k
      BY <1>1, <2>3, RxRingAssumption
    <3>2. Wrap(erxwrpt + HdrLen + k - 1) = A
      <4>1. HdrLen + k - 1 = fill
        BY <1>1, <2>3, RxRingAssumption
      <4>2. erxwrpt + HdrLen + k - 1 = erxwrpt + fill
        BY <1>1, <2>1, <4>1
      <4>3. QED
        BY <4>2
    <3>3. QED
      BY <1>2, <3>1, <3>2 DEF StoreByte, IInv, TypeOK
  <2>4. CASE HdrLen + k <= fill
    <3>1. Wrap(erxwrpt + HdrLen + k - 1) # A
      BY <1>1, <1>2, <2>2, <2>4, Facts, RxRingAssumption
    <3>2. mem[Wrap(erxwrpt + HdrLen + k - 1)] = Byte(Len(log) + 1, k)
      BY <2>4 DEF IInv, PartialIntact
    <3>3. QED
      BY <1>2, <2>2, <3>1, <3>2 DEF StoreByte, IInv, TypeOK
  <2>5. QED
    BY <1>1, <2>3, <2>4, RxRingAssumption
<1>10. DriverInv'
  BY <1>3, Facts, DriverUnchanged DEF StoreByte
<1>11. QED
  BY <1>5, <1>6, <1>7, <1>8, <1>9, <1>10 DEF IInv

(* The frame that came in becomes the last of the list: it lies where it   *)
(* was stored, and its header goes to the place reserved for it.           *)
LEMMA CommitStep ==
  ASSUME IInv, Commit
  PROVE  IInv'
<1> DEFINE next == Wrap(erxwrpt + fill)
           new  == [at |-> erxwrpt, next |-> next, len |-> inLen, ok |-> inOk]
<1>1. /\ inLen \in FrameLens /\ inLen \in Nat /\ inOk \in BOOLEAN
      /\ fill = Size(inLen) /\ fill \in Nat /\ HdrLen + inLen <= fill
      /\ fill \in 0 .. fill /\ 0 \in 0 .. fill
      /\ erxwrpt \in Addr /\ Wrap(erxwrpt + 0) = erxwrpt
  BY FrameLen, RxRingAssumption DEF Commit, IInv, TypeOK, Wrap, Addr
<1>2. next \in Addr /\ Dist(Oldest, next) = Used + fill
  BY <1>1, StorePlace
<1>3. new \in Entry
  BY <1>1, <1>2 DEF Entry
<1>4. /\ Len(log') = Len(log) + 1
      /\ \A n \in 1 .. Len(log) : log'[n] = log[n]
      /\ log'[Len(log) + 1] = new
      /\ log' \in Seq(Entry)
  <2>1. log \in Seq(Entry) /\ log' = Append(log, new)
    BY DEF Commit, IInv, TypeOK
  <2>2. QED
    BY <1>3, <2>1
<1>5. new.at = erxwrpt /\ new.next = next /\ new.len = inLen /\ new.ok = inOk
  OBVIOUS
<1> HIDE DEF new
<1>6. Freed' = Freed
  BY DEF Commit, handlerVars, Freed
<1>7. Oldest' = Oldest
  <2>1. CASE Freed < Len(log)
    BY <1>4, <1>6, <2>1, Facts DEF Oldest
  <2>2. CASE Freed = Len(log)
    BY <1>4, <1>5, <1>6, <2>2, Facts DEF Oldest
  <2>3. QED
    BY <2>1, <2>2, Facts
<1>8. erxwrpt' = next /\ fill' = 0 /\ Used' = Used + fill
  BY <1>2, <1>7 DEF Commit, Used, Dist
<1>9. TypeOK'
  <2>1. Header(Len(log) + 1, next, inLen, inOk) \in Cell
    BY <1>1, <1>2, Facts, HeaderType
  <2>2. mem' \in [Addr -> Cell]
    BY <1>1, <2>1 DEF Commit, IInv, TypeOK
  <2>3. epktcnt' \in 0 .. MaxPktCnt
    BY RxRingAssumption DEF Commit, IInv, TypeOK
  <2>4. edge' \in BOOLEAN
    BY DEF Commit, IInv, TypeOK
  <2>5. QED
    BY <1>2, <1>4, <2>2, <2>3, <2>4 DEF Commit, IInv, TypeOK, handlerVars
<1>10. CountInv'
  BY <1>4, Facts DEF Commit, IInv, TypeOK, CountInv, handlerVars, Receiving
<1>11. LayoutInv'
  <2>1. /\ Used' \in Nat /\ Used' + fill' <= RXSIZE - 1 /\ Used <= Used'
        /\ Freed = 0 => Used' + fill' <= RXSIZE - 2
    BY <1>1, <1>8, Facts DEF IInv, LayoutInv
  <2>2. ASSUME NEW n \in Freed + 1 .. Len(log) + 1,
               NEW m \in Freed + 1 .. n - 1
        PROVE  Dist(Oldest, log'[m].at) + Size(log'[m].len)
                 <= Dist(Oldest, log'[n].at)
    <3>1. m \in Freed + 1 .. Len(log) /\ m \in 1 .. Len(log)
      BY Facts
    <3>2. CASE n \in 1 .. Len(log)
      <4>1. n \in Freed + 1 .. Len(log)
        BY <3>2
      <4>2. QED
        BY <1>4, <3>1, <3>2, <4>1 DEF IInv, LayoutInv
    <3>3. CASE n = Len(log) + 1
      BY <1>4, <1>5, <3>1, <3>3 DEF IInv, LayoutInv, Used
    <3>4. QED
      BY <3>2, <3>3, Facts
  <2>3. ASSUME NEW n \in Freed + 1 .. Len(log) + 1
        PROVE  /\ Dist(Oldest, log'[n].at) + Size(log'[n].len) <= Used'
               /\ log'[n].next = IF n < Len(log) + 1 THEN log'[n + 1].at
                                 ELSE erxwrpt'
    <3>1. CASE n \in 1 .. Len(log)
      <4>1. n \in Freed + 1 .. Len(log) /\ log'[n] = log[n]
        BY <1>4, <3>1
      <4>2. Dist(Oldest, log[n].at) + Size(log[n].len) <= Used
        BY <4>1 DEF IInv, LayoutInv
      <4>3. Dist(Oldest, log[n].at) \in Nat /\ Size(log[n].len) \in Nat
        BY <3>1, Facts, DistType, FrameLen
      <4>4. Dist(Oldest, log[n].at) + Size(log[n].len) <= Used'
        BY <2>1, <4>2, <4>3, Facts
      <4>5. log[n].next = log'[n + 1].at
        <5>1. CASE n < Len(log)
          BY <1>4, <3>1, <4>1, <5>1, Facts DEF IInv, LayoutInv
        <5>2. CASE n = Len(log)
          BY <1>4, <1>5, <4>1, <5>2, Facts DEF IInv, LayoutInv
        <5>3. QED
          BY <3>1, <5>1, <5>2, Facts
      <4>6. n < Len(log) + 1
        BY <3>1, Facts
      <4>7. QED
        BY <4>1, <4>4, <4>5, <4>6
    <3>2. CASE n = Len(log) + 1
      BY <1>1, <1>4, <1>5, <1>8, <3>2, Facts DEF Used
    <3>3. QED
      BY <3>1, <3>2, Facts
  <2>4. erxrdpt' = erxrdpt
    BY DEF Commit, handlerVars
  <2>5. /\ Freed = 0 => /\ Oldest = 0 /\ erxrdpt = RXSIZE - 1
        /\ Freed > 0 => erxrdpt = Oldest
    BY DEF IInv, LayoutInv
  <2>6. QED
    BY <1>4, <1>6, <1>7, <2>1, <2>2, <2>3, <2>4, <2>5 DEF LayoutInv, Dist
<1>12. ASSUME NEW n \in Freed + 1 .. Len(log) + 1
       PROVE  /\ mem'[log'[n].at]
                   = Header(n, log'[n].next, log'[n].len, log'[n].ok)
              /\ \A k \in 1 .. log'[n].len :
                   mem'[Wrap(log'[n].at + HdrLen + k - 1)] = Byte(n, k)
  <2> DEFINE hdr == Header(Len(log) + 1, next, inLen, inOk)
  <2>1. mem' = [mem EXCEPT ![erxwrpt] = hdr] /\ mem \in [Addr -> Cell]
    BY DEF Commit, IInv, TypeOK
  <2> HIDE DEF hdr
  <2>2. mem' = [mem EXCEPT ![Wrap(erxwrpt + 0)] = hdr]
    BY <1>1, <2>1
  <2>3. CASE n \in 1 .. Len(log)
    <3>1. n \in Freed + 1 .. Len(log) /\ log'[n] = log[n]
      BY <1>4, <2>3
    <3>2. QED
      BY <1>1, <2>2, <3>1, StoreKeepsFrames
  <2>4. CASE n = Len(log) + 1
    <3>1. mem'[erxwrpt] = hdr
      BY <1>1, <2>1
    <3>2. ASSUME NEW k \in 1 .. inLen
          PROVE  mem'[Wrap(erxwrpt + HdrLen + k - 1)] = Byte(n, k)
      <4>1. /\ HdrLen + k - 1 \in 0 .. fill /\ HdrLen + k <= fill
            /\ erxwrpt + (HdrLen + k - 1) = erxwrpt + HdrLen + k - 1
            /\ HdrLen + k - 1 > 0
        BY <1>1, RxRingAssumption DEF Addr
      <4>2. /\ Wrap(erxwrpt + HdrLen + k - 1) \in Addr
            /\ Dist(Oldest, Wrap(erxwrpt + HdrLen + k - 1))
                 = Used + (HdrLen + k - 1)
        BY <4>1, StorePlace
      <4>3. Wrap(erxwrpt + HdrLen + k - 1) # erxwrpt
        BY <4>1, <4>2, Facts DEF Used
      <4>4. mem[Wrap(erxwrpt + HdrLen + k - 1)] = Byte(Len(log) + 1, k)
        BY <4>1 DEF IInv, PartialIntact
      <4>5. QED
        BY <2>1, <2>4, <4>2, <4>3, <4>4
    <3>3. QED
      BY <1>4, <1>5, <2>4, <3>1, <3>2 DEF hdr
  <2>5. QED
    BY <2>3, <2>4, Facts
<1>13. UnreadIntact'
  BY <1>4, <1>6, <1>12 DEF UnreadIntact, Intact
<1>14. PartialIntact'
  BY <1>8, RxRingAssumption DEF PartialIntact
<1>15. DriverInv'
  <2>1. UNCHANGED handlerVars /\ Len(log') \in Nat /\ Len(log') >= Len(log)
    BY <1>4, Facts DEF Commit
  <2>2. QED
    BY <1>4, <1>7, <2>1, DriverUnchanged
<1>16. QED
  BY <1>9, <1>10, <1>11, <1>13, <1>14, <1>15 DEF IInv

(* A step of the handler that gives no space back has nothing to do with   *)
(* the ring.                                                               *)
LEMMA RingKept ==
  ASSUME IInv, UNCHANGED <<chipVars, erxrdpt>>, Freed' = Freed,
         TypeOK', CountInv', Oldest' = Oldest => DriverInv'
  PROVE  IInv'
<1>1. UNCHANGED <<mem, erxwrpt, erxrdpt, log, fill, inLen>>
  BY DEF chipVars
<1>2. LayoutInv' /\ UnreadIntact' /\ PartialIntact' /\ Oldest' = Oldest
  BY <1>1, RingUnchanged
<1>3. QED
  BY <1>2 DEF IInv

LEMMA EnableIrqStep == IInv /\ EnableIrq => IInv'
<1> SUFFICES ASSUME IInv, EnableIrq PROVE IInv'
  OBVIOUS
<1>1. TypeOK'
  BY DEF IInv, EnableIrq, TypeOK, chipVars, Location
<1>2. CountInv'
  BY DEF IInv, EnableIrq, CountInv, chipVars, Receiving
<1>3. Freed' = Freed
  BY DEF EnableIrq, Freed
<1>4. Oldest' = Oldest => DriverInv'
  BY DEF IInv, EnableIrq, DriverInv, FrameIsWhole
<1>5. QED
  BY <1>1, <1>2, <1>3, <1>4, RingKept DEF EnableIrq

LEMMA EnterHandlerStep == IInv /\ EnterHandler => IInv'
<1> SUFFICES ASSUME IInv, EnterHandler PROVE IInv'
  OBVIOUS
<1>1. TypeOK'
  BY DEF IInv, EnterHandler, TypeOK, chipVars, Location
<1>2. CountInv'
  BY DEF IInv, EnterHandler, CountInv, chipVars, Receiving
<1>3. Freed' = Freed
  BY DEF EnterHandler, Freed
<1>4. Oldest' = Oldest => DriverInv'
  BY DEF IInv, EnterHandler, DriverInv, FrameIsWhole
<1>5. QED
  BY <1>1, <1>2, <1>3, <1>4, RingKept DEF EnterHandler

LEMMA PollStep == IInv /\ Poll => IInv'
<1> SUFFICES ASSUME IInv, Poll PROVE IInv'
  OBVIOUS
<1>1. TypeOK'
  BY DEF IInv, Poll, TypeOK, chipVars, Location
<1>2. CountInv'
  BY Facts DEF IInv, TypeOK, Poll, CountInv, chipVars, Receiving
<1>3. Freed' = Freed
  BY DEF Poll, Freed
<1>4. Oldest' = Oldest => DriverInv'
  BY DEF IInv, Poll, DriverInv, FrameIsWhole, chipVars
<1>5. QED
  BY <1>1, <1>2, <1>3, <1>4, RingKept DEF Poll

(* There is a frame: the counter cannot have fallen to 0 since Poll.       *)
LEMMA RecvCheckStep == IInv /\ RecvCheck => IInv'
<1> SUFFICES ASSUME IInv, RecvCheck PROVE IInv'
  OBVIOUS
<1>1. epktcnt # 0
  BY Facts DEF IInv, TypeOK, CountInv, Receiving, RecvCheck
<1>2. TypeOK'
  BY <1>1 DEF IInv, RecvCheck, TypeOK, chipVars, Location
<1>3. CountInv'
  BY <1>1 DEF IInv, RecvCheck, CountInv, chipVars, Receiving
<1>4. Freed' = Freed
  BY <1>1 DEF RecvCheck, Freed
<1>5. Oldest' = Oldest => DriverInv'
  BY <1>1 DEF IInv, RecvCheck, DriverInv, FrameIsWhole, chipVars
<1>6. QED
  BY <1>2, <1>3, <1>4, <1>5, RingKept DEF RecvCheck

LEMMA SeekStep == IInv /\ Seek => IInv'
<1> SUFFICES ASSUME IInv, Seek PROVE IInv'
  OBVIOUS
<1>1. TypeOK'
  BY DEF IInv, Seek, TypeOK, chipVars, Location
<1>2. CountInv'
  BY DEF IInv, Seek, CountInv, chipVars, Receiving
<1>3. Freed' = Freed
  BY DEF Seek, Freed
<1>4. Oldest' = Oldest => DriverInv'
  BY DEF IInv, Seek, DriverInv, FrameIsWhole, chipVars
<1>5. QED
  BY <1>1, <1>2, <1>3, <1>4, RingKept DEF Seek

(* The frame recv_packet works on: the oldest one, and it is intact.       *)
LEMMA OldestFrame ==
  ASSUME IInv, pc \in Receiving \ {"dec"}
  PROVE  /\ taken \in Nat /\ Freed = taken /\ taken + 1 \in 1 .. Len(log)
         /\ Oldest = log[taken + 1].at /\ Intact(taken + 1)
         /\ log[taken + 1].at \in Addr /\ log[taken + 1].next \in Addr
         /\ log[taken + 1].len \in FrameLens /\ log[taken + 1].ok \in BOOLEAN
<1>1. taken \in Nat /\ taken < Len(log) /\ Freed = taken
  BY DEF IInv, TypeOK, CountInv, Freed, Receiving
<1>2. taken + 1 \in 1 .. Len(log) /\ taken + 1 \in Freed + 1 .. Len(log)
  BY <1>1, Facts
<1>3. QED
  BY <1>1, <1>2, Facts DEF Oldest, IInv, UnreadIntact

(* What is read at ERDPT is the header of the oldest frame.                *)
LEMMA ReadHeaderStep == IInv /\ ReadHeader => IInv'
<1> SUFFICES ASSUME IInv, ReadHeader PROVE IInv'
  OBVIOUS
<1> DEFINE e == log[taken + 1]
<1>1. /\ taken \in Nat /\ Freed = taken /\ taken + 1 \in 1 .. Len(log)
      /\ Oldest = e.at /\ Intact(taken + 1)
      /\ e.at \in Addr /\ e.next \in Addr
      /\ e.len \in FrameLens /\ e.ok \in BOOLEAN
  BY OldestFrame DEF ReadHeader, Receiving
<1>2. /\ e.len \in Nat /\ HdrLen + e.len <= RXSIZE - 2
      /\ Limit(e.len - CrcLen) \in 1 .. BufLen - 1
  <2>1. /\ e.len \in Nat /\ Size(e.len) \in Nat
        /\ HdrLen + e.len <= Size(e.len) /\ Size(e.len) <= RXSIZE - 2
        /\ Limit(e.len - CrcLen) \in 1 .. BufLen - 1
    BY <1>1, FrameLen
  <2> HIDE DEF e
  <2>2. HdrLen \in Nat /\ RXSIZE \in Nat
    BY RxRingAssumption
  <2>3. QED
    BY <2>1, <2>2
<1>3. erdpt = e.at
  BY <1>1 DEF IInv, DriverInv, ReadHeader
<1>4. mem[erdpt] = Header(taken + 1, e.next, e.len, e.ok)
  BY <1>1, <1>3 DEF Intact
<1>5. mem[erdpt].next = e.next /\ mem[erdpt].len = e.len /\ mem[erdpt].ok = e.ok
  BY <1>4 DEF Header
<1>6. /\ rxrdpt' = e.next /\ plen' = Limit(e.len - CrcLen) /\ copied' = 0
      /\ pc' = IF e.ok THEN "copy" ELSE "free"
      /\ erdpt' = Wrap(e.at + HdrLen) /\ pc = "header"
      /\ UNCHANGED <<chipVars, erxrdpt, buf, taken, served, epktcnt, edge>>
  BY <1>3, <1>5 DEF ReadHeader
<1> HIDE DEF e
<1>7. Wrap(e.at + HdrLen) \in Addr /\ e.at + HdrLen + 0 = e.at + HdrLen
  <2>1. HdrLen \in 0 .. RXSIZE - 2 /\ e.at \in Addr /\ e.at \in Nat
    BY <1>1, <1>2, RxRingAssumption DEF Addr
  <2>2. QED
    BY <2>1, WrapWrap, RxRingAssumption
<1>8. TypeOK'
  <2>1. copied' \in 0 .. BufLen - 1 /\ plen' \in 0 .. BufLen - 1
    BY <1>2, <1>6, RxRingAssumption
  <2>2. erdpt' \in Addr /\ rxrdpt' \in Addr
    BY <1>1, <1>6, <1>7
  <2>3. QED
    BY <1>6, <2>1, <2>2 DEF IInv, TypeOK, chipVars, Location
<1>9. CountInv'
  BY <1>6 DEF IInv, CountInv, chipVars, Receiving
<1>10. Freed' = Freed
  BY <1>6 DEF Freed
<1>11. DriverInv'
  <2>1. log'[taken' + 1] = e
    BY <1>6 DEF e, chipVars
  <2>2. copied' <= plen' /\ ~\E k \in 1 .. copied' : TRUE
    BY <1>2, <1>6
  <2>3. e.ok => pc' = "copy" /\ erdpt' = Wrap(e.at + HdrLen + copied')
    BY <1>6, <1>7
  <2>4. pc' \in {"copy", "free"} /\ (pc' = "copy" => e.ok)
    BY <1>1, <1>6
  <2>5. QED
    BY <1>6, <2>1, <2>2, <2>3, <2>4 DEF DriverInv, FrameIsWhole
<1>12. QED
  BY <1>6, <1>8, <1>9, <1>10, <1>11, RingKept

(* What is read at ERDPT is the next byte of the oldest frame.             *)
LEMMA CopyByteStep == IInv /\ CopyByte => IInv'
<1> SUFFICES ASSUME IInv, CopyByte PROVE IInv'
  OBVIOUS
<1> DEFINE e == log[taken + 1]
<1>1. /\ taken \in Nat /\ Freed = taken /\ taken + 1 \in 1 .. Len(log)
      /\ Intact(taken + 1) /\ e.at \in Addr /\ e.len \in FrameLens
  BY OldestFrame DEF CopyByte, Receiving
<1>2. /\ e.len \in Nat /\ Size(e.len) \in Nat
      /\ HdrLen + e.len <= Size(e.len) /\ Size(e.len) <= RXSIZE - 2
      /\ Limit(e.len - CrcLen) \in 1 .. BufLen - 1
      /\ Limit(e.len - CrcLen) <= e.len - CrcLen
  BY <1>1, FrameLen
<1>3. /\ e.ok /\ erdpt = Wrap(e.at + HdrLen + copied)
      /\ plen = Limit(e.len - CrcLen) /\ copied <= plen
      /\ \A k \in 1 .. copied : buf[k] = Byte(taken + 1, k)
      /\ rxrdpt = e.next /\ copied \in Nat /\ pc = "copy"
      /\ buf \in [1 .. BufLen - 1 -> Cell] /\ erdpt \in Addr
      /\ mem \in [Addr -> Cell]
  BY DEF IInv, TypeOK, DriverInv, CopyByte
<1>4. \A k \in 1 .. e.len : mem[Wrap(e.at + HdrLen + k - 1)] = Byte(taken + 1, k)
  BY <1>1 DEF Intact
<1>5. UNCHANGED <<chipVars, erxrdpt, rxrdpt, plen, taken, served, epktcnt, edge>>
  BY DEF CopyByte
<1>6. e' = e
  BY <1>5 DEF chipVars
<1> HIDE DEF e
<1>7. Freed' = Freed /\ CountInv'
  BY <1>5 DEF CopyByte, Freed, IInv, CountInv, chipVars, Receiving
<1>8. CASE copied < plen
  <2>1. /\ buf' = [buf EXCEPT ![copied + 1] = mem[erdpt]]
        /\ erdpt' = Wrap(erdpt + 1) /\ copied' = copied + 1 /\ pc' = "copy"
    BY <1>3, <1>8 DEF CopyByte
  <2>2. /\ copied + 1 \in 1 .. e.len /\ copied + 1 \in 1 .. BufLen - 1
        /\ HdrLen + copied \in 0 .. RXSIZE - 2
        /\ e.at + HdrLen + (copied + 1) - 1 = e.at + HdrLen + copied
        /\ e.at + (HdrLen + copied) = e.at + HdrLen + copied
        /\ e.at + HdrLen + copied + 1 = e.at + HdrLen + (copied + 1)
    <3>1. /\ HdrLen \in Nat \ {0} /\ CrcLen \in Nat /\ RXSIZE \in Nat
          /\ BufLen \in Nat /\ e.at \in Nat
      BY <1>1, RxRingAssumption DEF Addr
    <3>2. QED
      BY <1>2, <1>3, <1>8, <3>1
  <2>3. mem[erdpt] = Byte(taken + 1, copied + 1)
    <3>1. mem[Wrap(e.at + HdrLen + (copied + 1) - 1)]
            = Byte(taken + 1, copied + 1)
      BY <1>4, <2>2
    <3>2. QED
      BY <1>3, <2>2, <3>1
  <2>4. /\ erdpt' = Wrap(e.at + HdrLen + (copied + 1)) /\ erdpt' \in Addr
    <3>1. /\ Wrap(Wrap(e.at + (HdrLen + copied)) + 1)
               = Wrap(e.at + (HdrLen + copied) + 1)
          /\ Wrap(e.at + (HdrLen + copied) + 1) \in Addr
      BY <1>1, <2>2, WrapWrap
    <3>2. QED
      BY <1>3, <2>1, <2>2, <3>1
  <2>5. /\ buf' \in [1 .. BufLen - 1 -> Cell]
        /\ \A k \in 1 .. copied + 1 : buf'[k] = Byte(taken + 1, k)
    <3>1. mem[erdpt] \in Cell
      BY <1>3
    <3>2. \A k \in 1 .. copied + 1 : k \in 1 .. BufLen - 1
      BY <1>3, <2>2, RxRingAssumption
    <3>3. \A k \in 1 .. copied + 1 : k = copied + 1 \/ k \in 1 .. copied
      BY <1>3
    <3>4. QED
      BY <1>3, <2>1, <2>2, <2>3, <3>1, <3>2, <3>3
  <2>6. TypeOK'
    <3>1. copied' \in 0 .. BufLen - 1
      BY <2>1, <2>2
    <3>2. QED
      BY <1>5, <2>1, <2>4, <2>5, <3>1 DEF IInv, TypeOK, chipVars, Location
  <2>7. DriverInv'
    <3>1. copied + 1 <= plen
      BY <1>2, <1>3, <1>8
    <3>2. log'[taken' + 1] = e /\ e.ok /\ rxrdpt' = e.next
      BY <1>3, <1>5, <1>6 DEF e
    <3>3. QED
      BY <1>3, <1>5, <2>1, <2>4, <2>5, <3>1, <3>2
         DEF DriverInv, FrameIsWhole
  <2>8. QED
    BY <1>5, <1>7, <2>6, <2>7, RingKept
<1>9. CASE ~(copied < plen)
  <2>1. pc' = "free" /\ UNCHANGED <<buf, erdpt, copied>>
    BY <1>9 DEF CopyByte
  <2>2. copied = plen
    BY <1>2, <1>3, <1>9
  <2>3. TypeOK'
    BY <1>5, <2>1 DEF IInv, TypeOK, chipVars, Location
  <2>4. log'[taken' + 1] = e /\ rxrdpt' = e.next
    BY <1>3, <1>5, <1>6 DEF e
  <2>5. DriverInv'
    BY <1>3, <1>5, <2>1, <2>2, <2>4 DEF DriverInv, FrameIsWhole
  <2>6. QED
    BY <1>5, <1>7, <2>3, <2>5, RingKept
<1>10. QED
  BY <1>8, <1>9

(* recv_packet returns: the frame it leaves in the handler's buffer is     *)
(* the one that is now acknowledged.                                       *)
LEMMA PacketDecrementStep == IInv /\ PacketDecrement => IInv'
<1> SUFFICES ASSUME IInv, PacketDecrement PROVE IInv'
  OBVIOUS
<1>1. taken \in Nat /\ taken < Len(log) /\ epktcnt = Len(log) - taken
      /\ Len(log) \in Nat /\ epktcnt \in 0 .. MaxPktCnt
  BY Facts DEF IInv, TypeOK, CountInv, PacketDecrement, Receiving
<1>2. TypeOK'
  <2>1. epktcnt' \in 0 .. MaxPktCnt /\ taken' \in Nat
    BY <1>1, RxRingAssumption DEF PacketDecrement
  <2>2. QED
    BY <2>1 DEF IInv, PacketDecrement, TypeOK, chipVars, Location
<1>3. CountInv'
  <2>1. /\ taken' <= Len(log) /\ epktcnt' = Len(log) - taken' /\ taken' > 0
        /\ pc' = "filter"
    BY <1>1 DEF PacketDecrement
  <2>2. QED
    BY <2>1 DEF IInv, PacketDecrement, CountInv, chipVars, Receiving
<1>4. Freed' = Freed
  BY DEF PacketDecrement, Freed
<1>5. Oldest' = Oldest => DriverInv'
  BY DEF IInv, PacketDecrement, DriverInv, FrameIsWhole, chipVars
<1>6. QED
  BY <1>2, <1>3, <1>4, <1>5, RingKept DEF PacketDecrement

LEMMA FilterStep ==
  ASSUME IInv, NEW answered \in BOOLEAN, Filter(answered)
  PROVE  IInv'
<1>1. buf' \in [1 .. BufLen - 1 -> Cell] /\ served' \in Seq(Nat)
  <2>1. 1 \in 1 .. BufLen - 1
    BY RxRingAssumption
  <2>2. Byte(0, 0) \in Cell
    BY ByteType
  <2>3. buf \in [1 .. BufLen - 1 -> Cell]
    BY DEF IInv, TypeOK
  <2>4. buf[1].frame \in Nat
    BY <2>1, <2>3 DEF Cell
  <2>5. FrameInBuf \in Nat
    BY <2>4 DEF FrameInBuf
  <2>6. QED
    BY <2>1, <2>2, <2>3, <2>5 DEF Filter, IInv, TypeOK
<1>2. TypeOK'
  BY <1>1 DEF IInv, Filter, TypeOK, chipVars, Location
<1>3. CountInv'
  BY DEF IInv, Filter, CountInv, chipVars, Receiving
<1>4. Freed' = Freed
  BY DEF Filter, Freed
<1>5. Oldest' = Oldest => DriverInv'
  BY DEF IInv, Filter, DriverInv, FrameIsWhole
<1>6. QED
  BY <1>2, <1>3, <1>4, <1>5, RingKept DEF Filter

LEMMA ExitHandlerStep == IInv /\ ExitHandler => IInv'
<1> SUFFICES ASSUME IInv, ExitHandler PROVE IInv'
  OBVIOUS
<1>1. TypeOK'
  BY DEF IInv, ExitHandler, TypeOK, chipVars, Location
<1>2. CountInv'
  BY DEF IInv, ExitHandler, CountInv, chipVars, Receiving
<1>3. Freed' = Freed
  BY DEF ExitHandler, Freed
<1>4. Oldest' = Oldest => DriverInv'
  BY DEF IInv, ExitHandler, DriverInv, FrameIsWhole
<1>5. QED
  BY <1>1, <1>2, <1>3, <1>4, RingKept DEF ExitHandler

(* The space of the oldest frame is given back: the frames behind it and   *)
(* the frame coming in are now measured from the next frame.               *)
LEMMA FreeSpaceStep == IInv /\ FreeSpace => IInv'
<1> SUFFICES ASSUME IInv, FreeSpace PROVE IInv'
  OBVIOUS
<1> DEFINE e == log[taken + 1]
           c == e.next
<1>1. /\ taken \in Nat /\ Freed = taken /\ taken + 1 \in 1 .. Len(log)
      /\ Oldest = e.at /\ c \in Addr /\ e.len \in FrameLens
  BY OldestFrame DEF FreeSpace, Receiving
<1>2. UNCHANGED <<chipVars, erdpt, rxrdpt, plen, copied, buf, taken, served,
                  epktcnt, edge>> /\ pc = "free" /\ pc' = "dec"
  BY DEF FreeSpace
<1>3. rxrdpt = c /\ erxrdpt' = c
  BY DEF FreeSpace, IInv, DriverInv
<1>4. Freed' = taken + 1
  BY <1>2 DEF Freed
<1>5. taken + 1 \in Freed + 1 .. Len(log)
  BY <1>1
<1>6. c = IF taken + 1 < Len(log) THEN log[taken + 2].at ELSE erxwrpt
  BY <1>1, <1>5 DEF IInv, LayoutInv
<1>7. UNCHANGED <<mem, erxwrpt, log, fill, inLen>>
  BY <1>2 DEF chipVars
<1>8. Oldest' = c
  BY <1>1, <1>4, <1>6, <1>7 DEF Oldest
<1> HIDE DEF c
<1>9. ASSUME NEW n \in taken + 2 .. Len(log)
      PROVE  /\ log[n].at \in Addr
             /\ Dist(Oldest, c) <= Dist(Oldest, log[n].at)
  <2>1. n \in 1 .. Len(log) /\ n \in Freed + 1 .. Len(log)
    BY <1>1
  <2>2. log[n].at \in Addr
    BY <2>1, Facts
  <2>3. CASE n = taken + 2
    <3>1. c = log[n].at
      BY <1>1, <1>6, <2>3, Facts
    <3>2. Dist(Oldest, c) \in Nat
      BY <1>1, Facts, DistType
    <3>3. QED
      BY <2>2, <3>1, <3>2
  <2>4. CASE n > taken + 2
    <3>1. taken + 2 \in 1 .. Len(log) /\ taken + 2 \in Freed + 1 .. n - 1
          /\ taken + 1 < Len(log)
      BY <1>1, <2>4, Facts
    <3>2. /\ Dist(Oldest, log[taken + 2].at) + Size(log[taken + 2].len)
               <= Dist(Oldest, log[n].at)
          /\ log[taken + 2].at = c
      BY <1>6, <2>1, <3>1 DEF IInv, LayoutInv
    <3>3. Size(log[taken + 2].len) \in Nat
      BY <3>1, Facts, FrameLen
    <3>4. Dist(Oldest, c) \in Nat /\ Dist(Oldest, log[n].at) \in Nat
      BY <1>1, <2>2, Facts, DistType
    <3>5. QED
      BY <2>2, <3>2, <3>3, <3>4
  <2>5. QED
    BY <1>1, <2>3, <2>4
<1>10. ASSUME NEW n \in taken + 2 .. Len(log)
       PROVE  Dist(c, log[n].at) = Dist(Oldest, log[n].at) - Dist(Oldest, c)
  BY <1>1, <1>9, Facts, DistShift
<1>11. Dist(Oldest, c) <= Used
  <2>1. CASE taken + 1 < Len(log)
    <3>1. taken + 2 \in taken + 2 .. Len(log) /\ taken + 2 \in 1 .. Len(log)
          /\ taken + 2 \in Freed + 1 .. Len(log)
      BY <1>1, <2>1, Facts
    <3>2. Dist(Oldest, c) + Size(log[taken + 2].len) <= Used
      BY <1>6, <2>1, <3>1 DEF IInv, LayoutInv
    <3>3. Size(log[taken + 2].len) \in Nat
      BY <3>1, Facts, FrameLen
    <3>4. Dist(Oldest, c) \in Nat
      BY <1>1, Facts, DistType
    <3>5. QED
      BY <3>2, <3>3, <3>4, Facts
  <2>2. CASE ~(taken + 1 < Len(log))
    BY <1>6, <2>2, Facts DEF Used
  <2>3. QED
    BY <2>1, <2>2
<1>12. Used' = Used - Dist(Oldest, c)
  <2>1. Dist(c, erxwrpt) = Dist(Oldest, erxwrpt) - Dist(Oldest, c)
    BY <1>1, <1>11, Facts, DistShift DEF Used, IInv, TypeOK
  <2>2. QED
    BY <1>7, <1>8, <2>1 DEF Used, Dist
<1>13. TypeOK'
  BY <1>1, <1>2, <1>3 DEF IInv, TypeOK, chipVars, Location
<1>14. CountInv'
  BY <1>2 DEF IInv, CountInv, chipVars, Receiving
<1>15. LayoutInv'
  <2> DEFINE d == Dist(Oldest, c)
  <2>1. d \in Nat /\ Used \in Nat /\ fill \in Nat
    <3>1. Dist(Oldest, c) \in Nat
      BY <1>1, Facts, DistType
    <3>2. QED
      BY <3>1, Facts DEF IInv, TypeOK
  <2>2. Used' + fill' <= RXSIZE - 1
    <3>1. Used + fill <= RXSIZE - 1
      BY DEF IInv, LayoutInv
    <3>2. QED
      BY <1>7, <1>12, <2>1, <3>1, RxRingAssumption
  <2>3. Freed' > 0 /\ Freed' # 0 /\ erxrdpt' = Oldest'
    BY <1>1, <1>3, <1>4, <1>8
  <2> HIDE DEF d
  <2>4. ASSUME NEW n \in taken + 2 .. Len(log)
        PROVE  /\ Dist(c, log[n].at) + Size(log[n].len) <= Used - d
               /\ log[n].next = IF n < Len(log) THEN log[n + 1].at ELSE erxwrpt
               /\ \A m \in taken + 2 .. n - 1 :
                    Dist(c, log[m].at) + Size(log[m].len) <= Dist(c, log[n].at)
    <3>1. n \in Freed + 1 .. Len(log) /\ n \in 1 .. Len(log)
      BY <1>1
    <3>2. /\ Size(log[n].len) \in Nat /\ Dist(Oldest, log[n].at) \in Nat
      BY <1>9, <3>1, Facts, FrameLen, DistType
    <3>3. Dist(Oldest, log[n].at) + Size(log[n].len) <= Used
      BY <3>1 DEF IInv, LayoutInv
    <3>4. Dist(c, log[n].at) = Dist(Oldest, log[n].at) - d
      BY <1>10 DEF d
    <3>5. log[n].next = IF n < Len(log) THEN log[n + 1].at ELSE erxwrpt
      BY <3>1 DEF IInv, LayoutInv
    <3>6. ASSUME NEW m \in taken + 2 .. n - 1
          PROVE  Dist(c, log[m].at) + Size(log[m].len) <= Dist(c, log[n].at)
      <4>1. m \in taken + 2 .. Len(log) /\ m \in 1 .. Len(log)
            /\ m \in Freed + 1 .. n - 1
        BY <1>1, <3>1, Facts
      <4>2. Dist(Oldest, log[m].at) + Size(log[m].len)
              <= Dist(Oldest, log[n].at)
        BY <3>1, <4>1 DEF IInv, LayoutInv
      <4>3. Dist(c, log[m].at) = Dist(Oldest, log[m].at) - d
        BY <1>10, <4>1 DEF d
      <4>4. Size(log[m].len) \in Nat /\ Dist(Oldest, log[m].at) \in Nat
        BY <1>9, <4>1, Facts, FrameLen, DistType
      <4>5. QED
        BY <2>1, <3>2, <3>4, <4>2, <4>3, <4>4
    <3>7. QED
      BY <2>1, <3>2, <3>3, <3>4, <3>5, <3>6
  <2>5. Freed' + 1 = taken + 2 /\ Used' = Used - d
    BY <1>1, <1>4, <1>12 DEF d
  <2>6. QED
    BY <1>7, <1>8, <2>2, <2>3, <2>4, <2>5 DEF LayoutInv, Dist
<1>16. UnreadIntact'
  <2>1. \A n \in Freed' + 1 .. Len(log) : n \in Freed + 1 .. Len(log)
    BY <1>1, <1>4, Facts
  <2>2. QED
    BY <1>7, <2>1 DEF IInv, UnreadIntact, Intact
<1>17. PartialIntact'
  BY <1>7 DEF IInv, PartialIntact
<1>18. DriverInv'
  <2>1. rxrdpt' = Oldest'
    BY <1>2, <1>3, <1>8
  <2>2. log' = log /\ taken' = taken
    BY <1>2, <1>7
  <2>3. QED
    BY <1>2, <2>1, <2>2 DEF IInv, DriverInv, FrameIsWhole
<1>19. QED
  BY <1>13, <1>14, <1>15, <1>16, <1>17, <1>18 DEF IInv
-----------------------------------------------------------------------------
(***************************************************************************)
(* The theorems.                                                           *)
(***************************************************************************)

LEMMA StepIInv == IInv /\ [Next]_vars => IInv'
<1> SUFFICES ASSUME IInv, [Next]_vars PROVE IInv'
  OBVIOUS
<1>1. CASE Controller
  BY <1>1, FrameArrivesStep, StoreByteStep, CommitStep, OverflowStep
     DEF Controller
<1>2. CASE EnableIrq \/ EnterHandler
  BY <1>2, EnableIrqStep, EnterHandlerStep
<1>3. CASE Poll \/ (\E answered \in BOOLEAN : Filter(answered)) \/ ExitHandler
  BY <1>3, PollStep, FilterStep, ExitHandlerStep
<1>4. CASE RecvPacket
  BY <1>4, RecvCheckStep, SeekStep, ReadHeaderStep, CopyByteStep,
     FreeSpaceStep, PacketDecrementStep DEF RecvPacket
<1>5. CASE UNCHANGED vars
  <2>1. UNCHANGED <<chipVars, erxrdpt>> /\ Freed' = Freed
    BY <1>5 DEF vars, handlerVars, Freed
  <2>2. TypeOK' /\ CountInv'
    BY <1>5 DEF vars, handlerVars, chipVars, IInv, TypeOK, CountInv
  <2>3. Oldest' = Oldest => DriverInv'
    BY <1>5 DEF vars, handlerVars, chipVars, IInv, DriverInv, FrameIsWhole
  <2>4. QED
    BY <2>1, <2>2, <2>3, RingKept
<1>6. QED
  BY <1>1, <1>2, <1>3, <1>4, <1>5
     DEF Next, Processor, InterruptHandler

(* The strengthened invariant is an invariant.                             *)
THEOREM Invariance == Spec => []IInv
<1>1. Init => IInv
  BY InitIInv
<1>2. IInv /\ [Next]_vars => IInv'
  BY StepIInv
<1>3. QED
  BY <1>1, <1>2, PTL DEF Spec

(* Every variable of the driver and of the controller keeps its type: no   *)
(* pointer leaves the ring, the counter stays within EPKTCNT's range and   *)
(* the payload never outgrows the handler's buffer.                        *)
THEOREM TypeCorrect == Spec => []TypeOK
<1>1. IInv => TypeOK
  BY DEF IInv
<1>2. QED
  BY <1>1, Invariance, PTL

(* Whatever the ring size and the frame lengths, the controller never      *)
(* overwrites a frame whose space the handler has not given back.          *)
THEOREM UnreadFramesIntact == Spec => []UnreadIntact
<1>1. IInv => UnreadIntact
  BY DEF IInv
<1>2. QED
  BY <1>1, Invariance, PTL

(* Whatever the ring size and the frame lengths, a valid frame reaches the *)
(* handler whole: enc28j60_recv_packet never mixes the bytes of two        *)
(* frames, also where a frame wraps round the end of the ring.             *)
THEOREM FramesWhole == Spec => []FrameIsWhole
<1>1. IInv => FrameIsWhole
  BY DEF IInv, DriverInv
<1>2. QED
  BY <1>1, Invariance, PTL
-----------------------------------------------------------------------------
(***************************************************************************)
(* The interrupt.                                                          *)
(***************************************************************************)

(* Frames that wait while the handler is not running, or is past its last  *)
(* look at EPKTCNT, have left an edge behind; none waits before the GPIO   *)
(* interrupt is enabled.                                                   *)
WakeInv ==
  /\ pc = "boot" => epktcnt = 0 /\ inLen = 0
  /\ pc \in {"spin", "exit"} /\ epktcnt > 0 => edge

(* If no frame arrives before the GPIO interrupt is enabled, the edge that *)
(* will call the handler for a waiting frame is never lost: neither when   *)
(* the frame is stored after the handler's last look at EPKTCNT nor when   *)
(* it is stored while the handler works on another one.                    *)
THEOREM WakeupNotLost ==
  ASSUME ~EarlyFrames
  PROVE  Spec => []NoLostWakeup
<1>1. Init => WakeInv
  BY DEF Init, WakeInv
<1>2. WakeInv /\ IInv /\ [Next]_vars => WakeInv'
  <2> SUFFICES ASSUME WakeInv, IInv, [Next]_vars
               PROVE  WakeInv'
    OBVIOUS
  <2>1. CASE \E len \in FrameLens, ok \in BOOLEAN : FrameArrives(len, ok)
    BY <2>1 DEF FrameArrives, handlerVars, WakeInv
  <2>2. CASE StoreByte
    BY <2>2 DEF StoreByte, handlerVars, WakeInv
  <2>3. CASE Commit
    <3>1. pc' = pc /\ pc # "boot" /\ edge' = (edge \/ epktcnt = 0)
      BY <2>3 DEF Commit, handlerVars, WakeInv
    <3>2. epktcnt > 0 \/ epktcnt = 0
      BY RxRingAssumption DEF IInv, TypeOK
    <3>3. pc \in {"spin", "exit"} => edge'
      BY <3>1, <3>2 DEF WakeInv
    <3>4. QED
      BY <3>1, <3>3 DEF WakeInv
  <2>4. CASE Overflow
    BY <2>4 DEF Overflow, handlerVars, WakeInv
  <2>5. CASE EnableIrq \/ EnterHandler \/ ExitHandler
    BY <2>5 DEF EnableIrq, EnterHandler, ExitHandler, WakeInv, chipVars
  <2>6. CASE Poll
    BY <2>6 DEF Poll, WakeInv, chipVars
  <2>7. CASE RecvPacket
    BY <2>7 DEF RecvPacket, RecvCheck, Seek, ReadHeader, CopyByte, FreeSpace,
                PacketDecrement, WakeInv
  <2>8. CASE \E answered \in BOOLEAN : Filter(answered)
    BY <2>8 DEF Filter, WakeInv
  <2>9. CASE UNCHANGED vars
    BY <2>9 DEF vars, chipVars, handlerVars, WakeInv
  <2>10. QED
    BY <2>1, <2>2, <2>3, <2>4, <2>5, <2>6, <2>7, <2>8, <2>9
       DEF Next, Controller, Processor, InterruptHandler
<1>3. WakeInv => NoLostWakeup
  BY DEF WakeInv, NoLostWakeup
<1>4. QED
  BY <1>1, <1>2, <1>3, Invariance, PTL DEF Spec
-----------------------------------------------------------------------------
(***************************************************************************)
(* Space, and the promise made to the protocol code.                       *)
(***************************************************************************)

(* When no frame waits the ring has room for any frame.                    *)
LEMMA EmptyHasRoom ==
  ASSUME IInv, epktcnt = 0, inLen # 0, fill < Size(inLen)
  PROVE  Room
<1>1. Freed = Len(log) /\ Freed \in Nat
  BY Facts DEF IInv, TypeOK, CountInv, Freed, Receiving
<1>2. Oldest = erxwrpt /\ erxwrpt \in Addr
  BY <1>1, Facts DEF Oldest
<1>3. fill \in Nat /\ inLen \in FrameLens /\ erxrdpt \in Addr
  BY DEF IInv, TypeOK
<1>4. fill < RXSIZE - 2
  <2>1. Size(inLen) \in Nat /\ Size(inLen) <= RXSIZE - 2
    BY <1>3, FrameLen
  <2>2. QED
    BY <1>3, <2>1, RxRingAssumption
<1>5. erxrdpt = erxwrpt \/ (erxwrpt = 0 /\ erxrdpt = RXSIZE - 1)
  BY <1>1, <1>2 DEF IInv, LayoutInv
<1>6. Wrap(Wrap(erxwrpt + fill) + 1) # erxrdpt
  BY <1>2, <1>3, <1>4, <1>5, RxRingAssumption DEF Wrap, Addr
<1>7. QED
  BY <1>6 DEF Room

(* No space leaks out of the ring, however long the system runs: a frame   *)
(* is dropped only while another one waits to be acknowledged.             *)
THEOREM SpaceNotLost == Spec => DropOnlyWhenBehind
<1>1. IInv /\ [Next]_vars =>
        [inLen # 0 /\ inLen' = 0 /\ log' = log => epktcnt > 0]_vars
  <2> SUFFICES ASSUME IInv, [Next]_vars, inLen # 0, inLen' = 0, log' = log
               PROVE  epktcnt > 0
    OBVIOUS
  <2>1. epktcnt \in Nat
    BY RxRingAssumption DEF IInv, TypeOK
  <2>2. CASE Overflow
    BY <2>1, <2>2, EmptyHasRoom, RxRingAssumption DEF Overflow
  <2>3. CASE Commit
    BY <2>3 DEF Commit, IInv, TypeOK
  <2>4. CASE StoreByte \/ \E len \in FrameLens, ok \in BOOLEAN :
                             FrameArrives(len, ok)
    BY <2>4 DEF StoreByte, FrameArrives
  <2>5. CASE Processor
    BY <2>5 DEF Processor, EnableIrq, EnterHandler, InterruptHandler, Poll,
                RecvPacket, RecvCheck, Seek, ReadHeader, CopyByte, FreeSpace,
                PacketDecrement, Filter, ExitHandler, chipVars
  <2>6. CASE UNCHANGED vars
    BY <2>6 DEF vars, chipVars
  <2>7. QED
    BY <2>2, <2>3, <2>4, <2>5, <2>6 DEF Next, Controller
<1>2. QED
  BY <1>1, Invariance, PTL DEF Spec, DropOnlyWhenBehind

(* Every frame acknowledged was worked on, except between the return of    *)
(* recv_packet and the end of the iteration; all stored frames are valid.  *)
ServeInv ==
  /\ Len(served) = IF pc = "filter" THEN taken - 1 ELSE taken
  /\ \A n \in 1 .. Len(log) : log[n].ok
  /\ inLen # 0 => inOk

(* An iteration of the handler works on the frame just acknowledged.       *)
LEMMA FilterServes ==
  ASSUME IInv, ServeInv, pc = "filter"
  PROVE  FrameInBuf = taken
<1>1. taken \in 1 .. Len(log)
  BY Facts DEF IInv, TypeOK, CountInv
<1>2. log[taken].ok /\ log[taken].len \in FrameLens
  BY <1>1, Facts DEF ServeInv
<1>3. /\ plen = Limit(log[taken].len - CrcLen)
      /\ \A k \in 1 .. plen : buf[k] = Byte(taken, k)
  BY <1>2 DEF IInv, DriverInv, FrameIsWhole
<1>4. 1 \in 1 .. plen
  BY <1>2, <1>3, FrameLen
<1>5. buf[1].frame = taken
  <2>1. buf[1] = Byte(taken, 1)
    BY <1>3, <1>4
  <2>2. Byte(taken, 1).frame = taken
    BY DEF Byte
  <2>3. QED
    BY <2>1, <2>2
<1>6. QED
  BY <1>3, <1>5 DEF FrameInBuf

(* If every stored frame is valid, the receive path implements the FIFO of *)
(* FrameFifo: each frame is worked on once, in order of arrival, and none  *)
(* is skipped.                                                             *)
THEOREM ReceiveImplementsFifo ==
  ASSUME ~BadFrames
  PROVE  Spec => ServedInOrder
<1>1. Init => ServeInv /\ FIFO!Init
  BY DEF Init, ServeInv, FIFO!Init
<1>2. ServeInv /\ IInv /\ [Next]_vars => ServeInv' /\ [FIFO!Next]_(FIFO!fifoVars)
  <2> SUFFICES ASSUME ServeInv, IInv, [Next]_vars
               PROVE  ServeInv' /\ [FIFO!Next]_(FIFO!fifoVars)
    OBVIOUS
  <2>1. CASE \E len \in FrameLens, ok \in BOOLEAN : FrameArrives(len, ok)
    BY <2>1 DEF FrameArrives, handlerVars, ServeInv, FIFO!fifoVars
  <2>2. CASE StoreByte \/ Overflow
    BY <2>2 DEF StoreByte, Overflow, handlerVars, ServeInv, FIFO!fifoVars
  <2>3. CASE Commit
    <3> DEFINE new == [at |-> erxwrpt, next |-> Wrap(erxwrpt + fill),
                       len |-> inLen, ok |-> inOk]
    <3>1. /\ log' = Append(log, new) /\ log \in Seq(Entry) /\ new.ok
          /\ UNCHANGED <<pc, taken, served>> /\ inLen' = 0
      BY <2>3 DEF Commit, handlerVars, ServeInv, IInv, TypeOK
    <3> HIDE DEF new
    <3>2. /\ Len(log') = Len(log) + 1 /\ Len(log) \in Nat
          /\ log'[Len(log) + 1] = new
          /\ \A n \in 1 .. Len(log) : log'[n] = log[n]
      BY <3>1
    <3>3. \A n \in 1 .. Len(log') : n = Len(log) + 1 \/ n \in 1 .. Len(log)
      BY <3>2
    <3>4. ServeInv'
      BY <3>1, <3>2, <3>3 DEF ServeInv
    <3>5. FIFO!Accept
      BY <3>1, <3>2 DEF FIFO!Accept
    <3>6. QED
      BY <3>4, <3>5 DEF FIFO!Next
  <2>4. CASE EnableIrq \/ EnterHandler \/ Poll \/ ExitHandler
    BY <2>4 DEF EnableIrq, EnterHandler, Poll, ExitHandler, chipVars,
                ServeInv, FIFO!fifoVars
  <2>5. CASE Seek \/ ReadHeader \/ CopyByte \/ FreeSpace
    BY <2>5 DEF Seek, ReadHeader, CopyByte, FreeSpace, chipVars, ServeInv,
                FIFO!fifoVars
  <2>6. CASE RecvCheck
    <3>1. epktcnt # 0
      BY <2>6, Facts DEF IInv, TypeOK, CountInv, Receiving, RecvCheck
    <3>2. QED
      BY <2>6, <3>1 DEF RecvCheck, chipVars, ServeInv, FIFO!fifoVars
  <2>7. CASE PacketDecrement
    BY <2>7 DEF PacketDecrement, chipVars, ServeInv, FIFO!fifoVars, IInv,
                TypeOK
  <2>8. CASE \E answered \in BOOLEAN : Filter(answered)
    <3>1. /\ Len(served) = taken - 1 /\ served' = Append(served, taken)
          /\ pc' = "poll" /\ served \in Seq(Nat)
          /\ UNCHANGED <<log, taken, inLen, inOk>>
      BY <2>8, FilterServes DEF Filter, ServeInv, chipVars, IInv, TypeOK
    <3>2. taken \in Nat /\ taken <= Len(log)
      BY DEF IInv, TypeOK, CountInv
    <3>3. FIFO!Serve
      BY <3>1, <3>2, Facts DEF FIFO!Serve
    <3>4. Len(served') = taken
      BY <3>1, <3>2
    <3>5. ServeInv'
      BY <3>1, <3>4 DEF ServeInv
    <3>6. QED
      BY <3>3, <3>5 DEF FIFO!Next
  <2>9. CASE UNCHANGED vars
    BY <2>9 DEF vars, chipVars, handlerVars, ServeInv, FIFO!fifoVars
  <2>10. QED
    BY <2>1, <2>2, <2>3, <2>4, <2>5, <2>6, <2>7, <2>8, <2>9
       DEF Next, Controller, Processor, InterruptHandler, RecvPacket
<1>3. QED
  BY <1>1, <1>2, Invariance, PTL DEF Spec, ServedInOrder, FIFO!Spec
=============================================================================
