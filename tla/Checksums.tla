----------------------------- MODULE Checksums -----------------------------
(***************************************************************************)
(* The checksums of ip_arp_udp_tcp.c.  The library has two summing         *)
(* routines, `checksum' for the answers the server builds in place and     *)
(* `compute_sum' for the frames the main program sends, and a shortcut     *)
(* that corrects the checksum of a ping when it is turned into a pong.     *)
(* A frame is taken through one of its builders and then looked at as its  *)
(* receiver does.                                                          *)
(*                                                                         *)
(* A byte is a number below Base and a word has two bytes, so that small   *)
(* bases can be checked for every content; the code has Base = 256.  Of a  *)
(* packet only what is summed is kept, with one byte for each address, for *)
(* the numbers of a segment and for its flags; its window and urgent       *)
(* pointer, which no builder touches, are left out.  The IP header and     *)
(* what follows it have blocks of their own.                               *)
(***************************************************************************)
EXTENDS Integers, Sequences

CONSTANTS
  Base,      (* 256                                                        *)
  EchoType,  (* ICMP_TYPE_ECHOREQUEST_V: 8; a reply has type 0             *)
  UdpProto,  (* IP_PROTO_UDP_V: 17                                         *)
  TcpProto,  (* IP_PROTO_TCP_V: 6                                          *)
  Ttl,       (* the time to live of every packet sent: 64                  *)
  MyIp,      (* ipaddr                                                     *)
  WwwPort,   (* wwwport: 80                                                *)
  SynAck, Ack, AckPushFin,  (* the flags of a segment sent                 *)
  MssOption, (* the option in the answer to a SYN: 2, 4, 5, 128            *)
  MinUdpData,(* what send_udp_packet fills its data up to: 18              *)
  Datas      (* payloads                                                   *)

Bytes == 0 .. Base - 1
Mod == Base * Base

ASSUME ChecksumsAssumption ==
  /\ Base \in Nat /\ Base > 2   (* a word holds the length of a header     *)
  /\ EchoType \in Bytes \ {0}
  /\ {UdpProto, TcpProto, Ttl, MyIp, WwwPort} \subseteq Bytes
  /\ {SynAck, Ack, AckPushFin} \subseteq Bytes
  /\ MssOption \in Seq(Bytes)
  /\ MinUdpData \in Nat /\ MinUdpData + 6 < Mod
  /\ Datas \subseteq Seq(Bytes)
  /\ \A data \in Datas : Len(data) + 6 < Mod

VARIABLES
  kind,   (* what the block is part of                                     *)
  stage,  (* "idle", "ready" to be completed, or "sent"                    *)
  block   (* the bytes summed                                              *)

vars == <<kind, stage, block>>
-----------------------------------------------------------------------------
(* The sum of the 16-bit words; an odd byte is padded with zero. *)
Words(b) == (Len(b) + 1) \div 2
Word(b, k) == b[2 * k - 1] * Base + (IF 2 * k <= Len(b) THEN b[2 * k] ELSE 0)

WordSum(b) ==
  LET sum[k \in 0 .. Words(b)] ==
        IF k = 0 THEN 0 ELSE sum[k - 1] + Word(b, k)
  IN  sum[Words(b)]

(* "until the result is only 16bit long" *)
Fold16(s) ==
  LET fold[n \in Nat] == IF n < Mod THEN n ELSE fold[(n % Mod) + n \div Mod]
  IN  fold[s]

Complement(s) == Mod - 1 - s

(* The addresses in front of a UDP or TCP header are summed with it. *)
AddrLen == 2

(* What the pseudo header adds to them. *)
PseudoSum(b, type) ==
  CASE type = "ip"  -> 0
    [] type = "udp" -> UdpProto + (Len(b) - AddrLen)
    [] type = "tcp" -> TcpProto + (Len(b) - AddrLen)

Checksum(b, type) == Complement(Fold16(PseudoSum(b, type) + WordSum(b)))

(* Mutant of ComputeSum: the carry out of a word is lost. *)
ComputeSumNoCarry(sum, b) ==
  LET s[i \in 0 .. Len(b)] ==
        IF i = 0 THEN sum
        ELSE (s[i - 1] + (IF i % 2 = 0 THEN b[i] ELSE b[i] * Base)) % Mod
  IN  s[Len(b)]

(* compute_sum adds byte after byte and the carry after each. *)
ComputeSum(sum, b) ==
  LET s[i \in 0 .. Len(b)] ==
        IF i = 0 THEN sum
        ELSE LET t == s[i - 1] + (IF i % 2 = 0 THEN b[i] ELSE b[i] * Base)
             IN  (t + t \div Mod) % Mod
  IN  s[Len(b)]

(* The checksum field is set to the two bytes of a word. *)
Store(b, at, word) ==
  [b EXCEPT ![at] = word \div Base, ![at + 1] = word % Base]
-----------------------------------------------------------------------------
(* The layout of the blocks: an IP header, the addresses and a UDP or TCP  *)
(* header with data, an ICMP message.  The checksum is behind the first    *)
(* four bytes, six bytes or two bytes.                                     *)
IpHeader(total, ttl, hi, lo, src, dst) == <<src, dst, total, ttl, hi, lo>>
Segment(src, dst, sport, dport, len, hi, lo, data) ==
  <<src, dst, sport, dport, len \div Base, len % Base, hi, lo>> \o data
Icmp(type, hi, lo, data) == <<type, 0, hi, lo>> \o data

SegmentHdrLen == 6

(* "count padding in" *)
Padded(data) == data \o [i \in 1 .. MinUdpData - Len(data) |-> 0]

(* A receiver accepts a block whose words, the pseudo header's among them, *)
(* sum up to zero in one's complement.                                     *)
Verifies(b, type) == (PseudoSum(b, type) + WordSum(b)) % (Mod - 1) = 0

TypeOf(k) ==
  CASE k = "udp" \/ k = "udp_send" -> "udp" [] k = "tcp" -> "tcp"
    [] OTHER -> "ip"

Init ==
  /\ kind = "none"
  /\ stage = "idle"
  /\ block = <<>>

Start(k, b) ==
  /\ stage = "idle"
  /\ kind' = k
  /\ block' = b
  /\ stage' = "ready"

(* What a builder finds in the buffer: a received packet of that kind.  A  *)
(* ping has the checksum its sender computed over the rest of it.  The     *)
(* answers to UDP and TCP replace the payload, so two payloads do.         *)
ReceiveIp ==
  \E total, ttl, hi, lo, src \in Bytes :
    Start("ip", IpHeader(total, ttl, hi, lo, src, MyIp))

ReceiveUdp ==
  \E src, port, hi, lo \in Bytes, data \in {<<>>, <<Base - 1>>} :
    Start("udp", Segment(src, MyIp, port, 0, 0, hi, lo, data))

ReceiveTcp ==
  \E src, port, hi, lo \in Bytes, data \in {<<>>, <<Base - 1>>} :
    Start("tcp", Segment(src, MyIp, port, WwwPort, 0, hi, lo, data))

ReceivePing ==
  \E data \in Datas :
    LET b == Icmp(EchoType, 0, 0, data)
    IN  Start("pong", Store(b, 3, Checksum(b, "ip")))

(* What the main program fills in before it sums. *)
PreparePing == \E data \in Datas : Start("ping", Icmp(EchoType, 0, 0, data))

PrepareUdp ==
  \E dst, port \in Bytes, data \in Datas :
    Start("udp_send",
          Segment(MyIp, dst, port, port, SegmentHdrLen + Len(Padded(data)), 0, 0,
                  Padded(data)))

PrepareIp ==
  \E dst, total \in Bytes :
    Start("ip_send", IpHeader(total, Ttl, 0, 0, MyIp, dst))
-----------------------------------------------------------------------------
Finish(k, b) ==
  /\ stage = "ready"
  /\ kind = k
  /\ block' = b
  /\ stage' = "sent"
  /\ UNCHANGED kind

(* Mutant of FillIpHdrChecksum: the field is not cleared before the sum. *)
FillIpNotCleared(b) ==
  LET c == [b EXCEPT ![4] = Ttl] IN Store(c, 5, Checksum(c, "ip"))

FillIpHdrChecksum(b) ==
  LET c == [b EXCEPT ![4] = Ttl, ![5] = 0, ![6] = 0]
  IN  Store(c, 5, Checksum(c, "ip"))

(* make_ip, behind the total length that the builder sets or leaves. *)
MakeIp(total) ==
  Finish("ip", FillIpHdrChecksum([block EXCEPT ![1] = MyIp, ![2] = block[1],
                                               ![3] = total]))

(* make_udp_reply_from_request: the addresses are turned round before the  *)
(* sum, one port and the data replaced.  (data is what is left of it after *)
(* the cut at 220 bytes, so that the high byte of the length is zero.)     *)
MakeUdpReply(port, data) ==
  LET b == Segment(MyIp, block[1], block[3], port, SegmentHdrLen + Len(data),
                   0, 0, data)
  IN  Finish("udp", Store(b, 7, Checksum(b, "udp")))

(* make_tcphead, and the addresses turned round: the checksum is cleared,  *)
(* the header is as long as it is without options or data.  (The sequence  *)
(* and acknowledge numbers are those of TcpAnswers, here any.)             *)
MakeTcpHead(number, flags) ==
  Segment(MyIp, block[1], WwwPort, block[3], number * Base + flags, 0, 0, <<>>)

WithTcpChecksum(b) == Store(b, 7, Checksum(b, "tcp"))

(* make_tcp_synack_from_syn *)
MakeSynAck(number) ==
  Finish("tcp", WithTcpChecksum(MakeTcpHead(number, SynAck) \o MssOption))

(* make_tcp_ack_from_any *)
MakeTcpAck(number) == Finish("tcp", WithTcpChecksum(MakeTcpHead(number, Ack)))

(* make_tcp_ack_with_data, "only immediately after make_tcp_ack_from_any": *)
(* what was sent is sent again, changed in the flags, the lengths, the     *)
(* checksums and the data.                                                 *)
Rebuild(k, b) ==
  /\ stage = "sent"
  /\ kind = k
  /\ block' = b
  /\ UNCHANGED <<kind, stage>>

MakeTcpData(data) ==
  /\ Rebuild("tcp", WithTcpChecksum(
       [SubSeq(block, 1, 8) EXCEPT ![6] = AckPushFin, ![7] = 0, ![8] = 0] \o data))
  /\ block[6] = Ack

MakeTcpDataIp(total) ==
  Rebuild("ip", FillIpHdrChecksum([block EXCEPT ![3] = total]))

(* make_echo_reply_from_request: "we can therefore easily correct the      *)
(* checksum".  The high byte goes up by the type, and the low byte by the  *)
(* carry out of it.                                                        *)
CorrectHi(hi) == (hi + EchoType) % Base

CorrectLoNoCarry(hi, lo) == lo   (* mutant of CorrectLo *)

CorrectLo(hi, lo) == IF hi > Base - 1 - EchoType THEN (lo + 1) % Base ELSE lo

MakePong ==
  Finish("pong", [block EXCEPT ![1] = 0,
                               ![3] = CorrectHi(block[3]),
                               ![4] = CorrectLo(block[3], block[4])])

(* send_echo_request, and the IP header of what the main program sends. *)
SendPing ==
  Finish("ping", Store(block, 3, Complement(ComputeSum(0, block))))

SendIp ==
  Finish("ip_send", Store(block, 5, Complement(ComputeSum(0, block))))

(* send_udp_packet: the sum over the pseudo header is carried on over the  *)
(* UDP header and the data.                                                *)
SendUdp ==
  LET len    == Len(block) - AddrLen
      pseudo == SubSeq(block, 1, 2) \o <<0, UdpProto, len \div Base, len % Base>>
      udp    == SubSeq(block, 3, Len(block))
  IN  Finish("udp_send",
             Store(block, 7, Complement(ComputeSum(ComputeSum(0, pseudo), udp))))

(* The answer is on the wire; the buffer is free for another frame. *)
Sent ==
  /\ stage = "sent"
  /\ kind' = "none"
  /\ stage' = "idle"
  /\ block' = <<>>

Next ==
  \/ ReceiveIp \/ ReceiveUdp \/ ReceiveTcp \/ ReceivePing
  \/ PreparePing \/ PrepareUdp \/ PrepareIp
  \/ \E byte \in Bytes :
       MakeIp(byte) \/ MakeTcpDataIp(byte) \/ MakeSynAck(byte) \/ MakeTcpAck(byte)
  \/ \E port \in Bytes, data \in Datas : MakeUdpReply(port, data)
  \/ \E data \in Datas : MakeTcpData(data)
  \/ MakePong \/ SendPing \/ SendUdp \/ SendIp \/ Sent

Spec == Init /\ [][Next]_vars
-----------------------------------------------------------------------------
(* Every header and message but a pong leaves with a checksum that its     *)
(* receiver accepts, whatever the buffer held in the checksum field and    *)
(* elsewhere, whichever of the two routines summed it, and although a page *)
(* is built into what was just sent.                                       *)
SentVerifies ==
  stage = "sent" /\ kind # "pong" => Verifies(block, TypeOf(kind))

(* A pong's corrected checksum is accepted by its receiver unless the      *)
(* carry runs out of the low byte.                                         *)
PongVerifiesUnlessCarry ==
  kind = "pong" /\ stage = "sent" =>
    Verifies(block, "ip") \/ (block[4] = 0 /\ block[3] < EchoType)

(* The two routines give the same checksum for every block. *)
RoutinesAgree == Complement(ComputeSum(0, block)) = Checksum(block, "ip")

(* make_echo_reply_from_request: the correction of the checksum keeps it   *)
(* right, as the comment over it says.                                     *)
PongVerifies ==
  kind = "pong" /\ stage = "sent" => Verifies(block, "ip")
=============================================================================
