------------------------------- MODULE RxRing -------------------------------
(***************************************************************************)
(* The receive path of the ENC28J60 driver: the circular receive buffer    *)
(* inside the controller, the edge-triggered interrupt, and the interrupt  *)
(* handler that drains the buffer through enc28j60_recv_packet.            *)
(*                                                                         *)
(* Two actors run concurrently.  The controller stores the bytes of an     *)
(* arriving frame one by one behind the frames already stored, and then    *)
(* commits the frame.  The handler reads the oldest frame, releases its    *)
(* space by moving ERXRDPT, and decrements the packet counter; each SPI    *)
(* transaction it makes (the two halves of a pointer write and the six     *)
(* header bytes count as one) is a step, and the payload is read byte by   *)
(* byte.  The main program is parked in its `while(1)', where it touches   *)
(* neither the bus nor the driver's variables.                             *)
(*                                                                         *)
(* The receive buffer is addressed from RXSTART = 0 to RXEND = RXSIZE - 1. *)
(* Of a byte the model keeps the frame and the position it came from; the  *)
(* header the controller puts in front of a frame (next-packet pointer,    *)
(* byte count, status) is kept whole in the header's first byte.           *)
(***************************************************************************)
EXTENDS Integers, Sequences

CONSTANTS
  RXSIZE,      (* ENC28J60_RXSIZE: bytes in the receive buffer             *)
  HdrLen,      (* bytes the controller stores in front of a frame: 6       *)
  CrcLen,      (* bytes of CRC counted in the length of a frame: 4         *)
  BufLen,      (* buflen argument of enc28j60_recv_packet                  *)
  MinPlen,     (* shortest length the handler looks at: 40                 *)
  MaxPktCnt,   (* largest value of EPKTCNT: 255                            *)
  FrameLens,   (* lengths, CRC included, of the frames on the wire         *)
  MaxFrames,   (* bound: frames committed in a behaviour                   *)
  EarlyFrames, (* may frames arrive before the GPIO interrupt is enabled?  *)
  BadFrames    (* may the status of a stored frame say it is not valid?    *)

(* A frame is stored with its header and padded to an even length. *)
Size(len) == HdrLen + len + ((HdrLen + len) % 2)

ASSUME RxRingAssumption ==
  /\ RXSIZE \in Nat /\ RXSIZE > 2
  /\ HdrLen \in Nat \ {0}
  /\ CrcLen \in Nat
  /\ BufLen \in Nat /\ BufLen > 1
  /\ MinPlen \in Nat
  /\ MaxPktCnt \in Nat \ {0}
  /\ FrameLens \subseteq Nat
  /\ \A len \in FrameLens : CrcLen < len /\ Size(len) <= RXSIZE - 2
  /\ MaxFrames \in Nat
  /\ EarlyFrames \in BOOLEAN
  /\ BadFrames \in BOOLEAN

VARIABLES
  (* the controller *)
  mem,      (* the receive buffer                                          *)
  erxwrpt,  (* where the next frame's header will go                       *)
  erxrdpt,  (* the controller does not write up to this address            *)
  erdpt,    (* next address read by a read-buffer command                  *)
  epktcnt,  (* frames stored and not yet acknowledged                      *)
  inLen,    (* length of the frame coming in, 0 when there is none         *)
  inOk,     (* whether its status will say it is valid                     *)
  fill,     (* bytes of it, header included, stored so far                 *)
  (* the processor *)
  edge,     (* a falling edge of the INT pin is latched                    *)
  pc,       (* where the handler is; "boot" and "spin" outside it          *)
  rxrdpt,   (* enc28j60_rxrdpt                                             *)
  plen,     (* rxlen of enc28j60_recv_packet, then plen of the handler     *)
  copied,   (* bytes of the payload read so far                            *)
  buf,      (* the handler's packet buffer                                 *)
  (* history *)
  log,      (* every frame committed: where, how long, valid or not        *)
  taken,    (* how many of them were acknowledged                          *)
  served    (* the frame each iteration of the handler worked on           *)

chipVars    == <<mem, erxwrpt, inLen, inOk, fill, log>>
handlerVars == <<erdpt, erxrdpt, pc, rxrdpt, plen, copied, buf, taken, served>>
vars        == <<chipVars, handlerVars, epktcnt, edge>>
-----------------------------------------------------------------------------
Addr == 0 .. RXSIZE - 1

(* Buffer addresses go from RXEND back to RXSTART. *)
Wrap(a) == IF a < RXSIZE THEN a ELSE a - RXSIZE

Cell == [frame : Nat, byte : Nat, next : Addr, len : Nat, ok : BOOLEAN]

(* Byte k of frame n; Byte(0, 0) is a byte of no frame. *)
Byte(n, k) == [frame |-> n, byte |-> k, next |-> 0, len |-> 0, ok |-> FALSE]

(* The header of frame n. *)
Header(n, next, len, ok) ==
  [frame |-> n, byte |-> 0, next |-> next, len |-> len, ok |-> ok]

(* What the history keeps of a frame. *)
Entry == [at : Addr, next : Addr, len : FrameLens, ok : BOOLEAN]

Location == {"boot", "spin", "poll", "check", "seek", "header", "copy",
             "free", "dec", "filter", "exit"}

(* After enc28j60_init: the driver reads from RXSTART, ERXRDPT is RXEND.   *)
Init ==
  /\ mem = [a \in Addr |-> Byte(0, 0)]
  /\ erxwrpt = 0
  /\ erxrdpt = RXSIZE - 1
  /\ erdpt = 0
  /\ epktcnt = 0
  /\ inLen = 0
  /\ inOk = TRUE
  /\ fill = 0
  /\ edge = FALSE
  /\ pc = "boot"
  /\ rxrdpt = 0
  /\ plen = 0
  /\ copied = 0
  /\ buf = [k \in 1 .. BufLen - 1 |-> Byte(0, 0)]
  /\ log = <<>>
  /\ taken = 0
  /\ served = <<>>
-----------------------------------------------------------------------------
(***************************************************************************)
(* The controller.                                                         *)
(***************************************************************************)

(* A frame that passes the receive filters begins to arrive. *)
FrameArrives(len, ok) ==
  /\ inLen = 0
  /\ Len(log) < MaxFrames
  /\ pc = "boot" => EarlyFrames
  /\ ok \/ BadFrames
  /\ inLen' = len
  /\ inOk' = ok
  /\ fill' = 0
  /\ UNCHANGED <<mem, erxwrpt, log, handlerVars, epktcnt, edge>>

(* The controller never moves onto ERXRDPT. *)
Room == Wrap(Wrap(erxwrpt + fill) + 1) # erxrdpt

(* The next byte is stored; the bytes of the header are only reserved. *)
StoreByte ==
  /\ inLen # 0
  /\ fill < Size(inLen)
  /\ Room
  /\ mem' = [mem EXCEPT ![Wrap(erxwrpt + fill)] =
               IF fill \in HdrLen .. HdrLen + inLen - 1
               THEN Byte(Len(log) + 1, fill - HdrLen + 1)
               ELSE Byte(0, 0)]
  /\ fill' = fill + 1
  /\ UNCHANGED <<erxwrpt, inLen, inOk, log, handlerVars, epktcnt, edge>>

(* The frame is complete: its header is written, ERXWRPT advances and the  *)
(* counter is incremented; a counter that leaves zero pulls INT low.       *)
Commit ==
  /\ inLen # 0
  /\ fill = Size(inLen)
  /\ epktcnt < MaxPktCnt
  /\ LET next == Wrap(erxwrpt + fill) IN
       /\ mem' = [mem EXCEPT ![erxwrpt] =
                    Header(Len(log) + 1, next, inLen, inOk)]
       /\ erxwrpt' = next
       /\ log' = Append(log, [at |-> erxwrpt, next |-> next,
                              len |-> inLen, ok |-> inOk])
  /\ epktcnt' = epktcnt + 1
  /\ edge' = (edge \/ epktcnt = 0)
  /\ inLen' = 0
  /\ fill' = 0
  /\ UNCHANGED <<inOk, handlerVars>>

(* No room, or the counter is at its limit: the frame is dropped. *)
Overflow ==
  /\ inLen # 0
  /\ \/ fill < Size(inLen) /\ ~Room
     \/ fill = Size(inLen) /\ epktcnt = MaxPktCnt
  /\ inLen' = 0
  /\ fill' = 0
  /\ UNCHANGED <<mem, erxwrpt, inOk, log, handlerVars, epktcnt, edge>>

Controller ==
  \/ \E len \in FrameLens, ok \in BOOLEAN : FrameArrives(len, ok)
  \/ StoreByte
  \/ Commit
  \/ Overflow
-----------------------------------------------------------------------------
(***************************************************************************)
(* The processor.                                                          *)
(***************************************************************************)

(* gpio_set_irq_enabled_with_callback: a stale edge is acknowledged. *)
EnableIrq ==
  /\ pc = "boot"
  /\ pc' = "spin"
  /\ edge' = FALSE
  /\ UNCHANGED <<chipVars, erdpt, erxrdpt, rxrdpt, plen, copied, buf, taken,
                 served, epktcnt>>

(* The edge is acknowledged before gpio_callback calls the handler. *)
EnterHandler ==
  /\ pc = "spin"
  /\ edge
  /\ pc' = "poll"
  /\ edge' = FALSE
  /\ UNCHANGED <<chipVars, erdpt, erxrdpt, rxrdpt, plen, copied, buf, taken,
                 served, epktcnt>>

(* Mutant of Poll: the handler leaves one frame behind. *)
PollLeavesOne ==
  /\ pc = "poll"
  /\ pc' = IF epktcnt > 1 THEN "check" ELSE "exit"
  /\ UNCHANGED <<chipVars, erdpt, erxrdpt, rxrdpt, plen, copied, buf, taken,
                 served, epktcnt, edge>>

(* while (enc28j60_rcr(EPKTCNT) > 0) *)
Poll ==
  /\ pc = "poll"
  /\ pc' = IF epktcnt > 0 THEN "check" ELSE "exit"
  /\ UNCHANGED <<chipVars, erdpt, erxrdpt, rxrdpt, plen, copied, buf, taken,
                 served, epktcnt, edge>>

(* enc28j60_recv_packet asks again and returns 0 when there is nothing. *)
RecvCheck ==
  /\ pc = "check"
  /\ IF epktcnt = 0
     THEN pc' = "filter" /\ plen' = 0
     ELSE pc' = "seek" /\ UNCHANGED plen
  /\ UNCHANGED <<chipVars, erdpt, erxrdpt, rxrdpt, copied, buf, taken,
                 served, epktcnt, edge>>

(* ERDPT is set to the start of the oldest frame. *)
Seek ==
  /\ pc = "seek"
  /\ erdpt' = rxrdpt
  /\ pc' = "header"
  /\ UNCHANGED <<chipVars, erxrdpt, rxrdpt, plen, copied, buf, taken,
                 served, epktcnt, edge>>

(* Mutant of Limit: the length is not limited. *)
NoLimit(len) == len

(* "limit retrieve length" *)
Limit(len) == IF len > BufLen - 1 THEN BufLen - 1 ELSE len

(* Mutants of ReadHeader: the space is released before the payload is      *)
(* read; the status bytes are left unread; the next-packet pointer is not  *)
(* kept.                                                                   *)
ReadHeaderAndFree ==
  /\ pc = "header"
  /\ rxrdpt' = mem[erdpt].next
  /\ erxrdpt' = mem[erdpt].next
  /\ plen' = Limit(mem[erdpt].len - CrcLen)
  /\ pc' = IF mem[erdpt].ok THEN "copy" ELSE "free"
  /\ erdpt' = Wrap(erdpt + HdrLen)
  /\ copied' = 0
  /\ UNCHANGED <<chipVars, buf, taken, served, epktcnt, edge>>

ReadHeaderNoStatus ==
  /\ pc = "header"
  /\ rxrdpt' = mem[erdpt].next
  /\ plen' = Limit(mem[erdpt].len - CrcLen)
  /\ pc' = IF mem[erdpt].ok THEN "copy" ELSE "free"
  /\ erdpt' = Wrap(erdpt + HdrLen - 1)
  /\ copied' = 0
  /\ UNCHANGED <<chipVars, erxrdpt, buf, taken, served, epktcnt, edge>>

ReadHeaderNoNext ==
  /\ pc = "header"
  /\ plen' = Limit(mem[erdpt].len - CrcLen)
  /\ pc' = IF mem[erdpt].ok THEN "copy" ELSE "free"
  /\ erdpt' = Wrap(erdpt + HdrLen)
  /\ copied' = 0
  /\ UNCHANGED <<chipVars, erxrdpt, rxrdpt, buf, taken, served, epktcnt,
                 edge>>

(* Next-packet pointer, length and status; a frame whose status lacks the  *)
(* Received-Ok bit is not copied, yet its length is what is returned.      *)
ReadHeader ==
  /\ pc = "header"
  /\ rxrdpt' = mem[erdpt].next
  /\ plen' = Limit(mem[erdpt].len - CrcLen)
  /\ pc' = IF mem[erdpt].ok THEN "copy" ELSE "free"
  /\ erdpt' = Wrap(erdpt + HdrLen)
  /\ copied' = 0
  /\ UNCHANGED <<chipVars, erxrdpt, buf, taken, served, epktcnt, edge>>

(* enc28j60_read_buffer streams plen bytes from ERDPT. *)
CopyByte ==
  /\ pc = "copy"
  /\ IF copied < plen
     THEN /\ buf' = [buf EXCEPT ![copied + 1] = mem[erdpt]]
          /\ erdpt' = Wrap(erdpt + 1)
          /\ copied' = copied + 1
          /\ UNCHANGED pc
     ELSE /\ pc' = "free"
          /\ UNCHANGED <<buf, erdpt, copied>>
  /\ UNCHANGED <<chipVars, erxrdpt, rxrdpt, plen, taken, served, epktcnt,
                 edge>>

(* Mutant of FreeSpace: ERXRDPT is not written. *)
FreeSpaceForgotten ==
  /\ pc = "free"
  /\ pc' = "dec"
  /\ UNCHANGED <<chipVars, erdpt, erxrdpt, rxrdpt, plen, copied, buf, taken,
                 served, epktcnt, edge>>

(* ERXRDPT moves to the next frame: the space of this one is free. *)
FreeSpace ==
  /\ pc = "free"
  /\ erxrdpt' = rxrdpt
  /\ pc' = "dec"
  /\ UNCHANGED <<chipVars, erdpt, rxrdpt, plen, copied, buf, taken,
                 served, epktcnt, edge>>

(* ECON2.PKTDEC; recv_packet returns. *)
PacketDecrement ==
  /\ pc = "dec"
  /\ epktcnt' = epktcnt - 1
  /\ taken' = taken + 1
  /\ pc' = "filter"
  /\ UNCHANGED <<chipVars, erdpt, erxrdpt, rxrdpt, plen, copied, buf, served,
                 edge>>

(* The frame whose first plen bytes are in buf, 0 when it is no frame's. *)
FrameInBuf ==
  LET n == buf[1].frame
  IN  IF \A k \in 1 .. plen : buf[k] = Byte(n, k) THEN n ELSE 0

(* Mutant of Filter: the handler returns after one frame. *)
FilterThenReturn(answered) ==
  /\ pc = "filter"
  /\ answered => plen >= MinPlen
  /\ buf' = IF answered THEN [buf EXCEPT ![1] = Byte(0, 0)] ELSE buf
  /\ served' = Append(served, FrameInBuf)
  /\ pc' = "exit"
  /\ UNCHANGED <<chipVars, erdpt, erxrdpt, rxrdpt, plen, copied, taken,
                 epktcnt, edge>>

(* "plen < 40 is a not valid packet"; a longer one may be answered, and an *)
(* answer is built in place, over the headers of the request.              *)
Filter(answered) ==
  /\ pc = "filter"
  /\ answered => plen >= MinPlen
  /\ buf' = IF answered THEN [buf EXCEPT ![1] = Byte(0, 0)] ELSE buf
  /\ served' = Append(served, FrameInBuf)
  /\ pc' = "poll"
  /\ UNCHANGED <<chipVars, erdpt, erxrdpt, rxrdpt, plen, copied, taken,
                 epktcnt, edge>>

ExitHandler ==
  /\ pc = "exit"
  /\ pc' = "spin"
  /\ UNCHANGED <<chipVars, erdpt, erxrdpt, rxrdpt, plen, copied, buf, taken,
                 served, epktcnt, edge>>

RecvPacket ==
  RecvCheck \/ Seek \/ ReadHeader \/ CopyByte \/ FreeSpace \/ PacketDecrement

InterruptHandler ==
  \/ Poll
  \/ RecvPacket
  \/ \E answered \in BOOLEAN : Filter(answered)
  \/ ExitHandler

Processor == EnableIrq \/ EnterHandler \/ InterruptHandler

Next == Controller \/ Processor

Spec == Init /\ [][Next]_vars

(* The processor never stops; the controller and the wire may. *)
FairSpec == Spec /\ WF_vars(Processor)
-----------------------------------------------------------------------------
(***************************************************************************)
(* Properties.                                                             *)
(***************************************************************************)

TypeOK ==
  /\ mem \in [Addr -> Cell]
  /\ erxwrpt \in Addr /\ erxrdpt \in Addr /\ erdpt \in Addr
  /\ rxrdpt \in Addr
  /\ epktcnt \in 0 .. MaxPktCnt
  /\ inLen \in FrameLens \cup {0} /\ inOk \in BOOLEAN
  /\ fill \in Nat /\ (inLen # 0 => fill <= Size(inLen))
  /\ edge \in BOOLEAN
  /\ pc \in Location
  /\ plen \in 0 .. BufLen - 1 /\ copied \in 0 .. BufLen - 1
  /\ buf \in [1 .. BufLen - 1 -> Cell]
  /\ log \in Seq(Entry)
  /\ taken \in Nat /\ served \in Seq(Nat)

(* Frames whose space was given back to the controller. *)
Freed == IF pc = "dec" THEN taken + 1 ELSE taken

(* The bytes of frame n are where the controller put them. *)
Intact(n) ==
  /\ mem[log[n].at] = Header(n, log[n].next, log[n].len, log[n].ok)
  /\ \A k \in 1 .. log[n].len :
       mem[Wrap(log[n].at + HdrLen + k - 1)] = Byte(n, k)

(* The controller never overwrites a frame whose space has not been given  *)
(* back, however its stores interleave with the handler's transactions.    *)
UnreadIntact == \A n \in Freed + 1 .. Len(log) : Intact(n)

(* When enc28j60_recv_packet returns a valid frame, buf holds the first    *)
(* plen bytes of the oldest frame, and nothing of any other frame: the     *)
(* bytes were read before their space was given back.                      *)
FrameIsWhole ==
  pc = "filter" /\ log[taken].ok =>
    /\ plen = Limit(log[taken].len - CrcLen)
    /\ \A k \in 1 .. plen : buf[k] = Byte(taken, k)

(* The interrupt is edge-triggered: if the handler has returned and frames *)
(* are waiting, an edge is latched that will call it again.                *)
NoLostWakeup == pc = "spin" /\ epktcnt > 0 => edge

(* No space leaks out of the ring: a frame is dropped only while another   *)
(* one waits to be acknowledged.                                           *)
DropOnlyWhenBehind ==
  [][inLen # 0 /\ inLen' = 0 /\ log' = log => epktcnt > 0]_vars

(* Every frame accepted is worked on, once and in order of arrival.        *)
FIFO == INSTANCE FrameFifo WITH accepted <- Len(log)
ServedInOrder == FIFO!Spec

(* Every frame accepted is eventually acknowledged by the handler. *)
EveryFrameTaken ==
  \A n \in 1 .. MaxFrames : Len(log) >= n ~> taken >= n

(* A frame whose status says it is not valid gets the length 0, so the     *)
(* handler does not look at it (comment in enc28j60_recv_packet).          *)
InvalidIgnored ==
  pc = "filter" /\ ~log[taken].ok => plen < MinPlen
=============================================================================
