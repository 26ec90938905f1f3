------------------------------- MODULE Server -------------------------------
(***************************************************************************)
(* The protocol work of enc28j60_interrupt_handler on one received frame:  *)
(* which frames are answered, with what, and what a command does.  The     *)
(* answer is built in the buffer that holds the frame, field by field, so  *)
(* what a builder does not set is what the frame had there.  A frame is a  *)
(* record of the fields the handler reads or sets; `len' is the length it  *)
(* is received or sent with.                                               *)
(***************************************************************************)
EXTENDS Commands, TcpAnswers

CONSTANTS
  MyMac, MyIp,   (* macaddr, ipaddr                                        *)
  WwwPort,       (* mywwwport: 80                                          *)
  UdpPort,       (* myudpport: 1200                                        *)
  BufferSize,    (* BUFFER_SIZE: 1500                                      *)
  LenArgMod,     (* what the length passed to eth_type_is_... is taken     *)
                 (* modulo: the definitions have a byte for it, the caller *)
                 (* passes 16 bits, so it is 256 or 65536 with the build   *)
  Received,      (* frames that may be received                            *)
  SeqnumBound    (* bound on seqnum, to keep the instance small            *)

EthHeaderLen == 14
IpHeaderLen == 20
TcpHeaderLen == 20
ArpLen == 28

(* The contents of a page and their lengths, of print_webpage for a LED    *)
(* that is on or off, of the other answers, and of the replies to          *)
(* datagrams.                                                              *)
Ok == <<"200 OK">>
Usage == <<"Usage">>
Unauthorized == <<"401">>
PageOf(on) == <<"page", on>>
TextLen(t) ==
  CASE t = Ok -> 59 [] t = Usage -> 89 [] t = Unauthorized -> 79
    [] t = PageOf(TRUE) -> 525 [] t = PageOf(FALSE) -> 499
    [] t = <<"e=invalid_pw">> -> 12 [] t = <<"e=no_such_cmd">> -> 13
    [] t = <<"e=no_cmd">> -> 8 [] t = <<>> -> 0 [] OTHER -> 3

(* The fields of a frame: what the handler and the builders compare or set.*)
Fields ==
  {"type", "len", "srcMac", "dstMac", "op", "sha", "spa", "tha", "tpa",
   "plainHeader", "srcIp", "dstIp", "total", "proto", "icmp", "sport", "dport",
   "udplen", "seg", "hdr", "method", "text"}
IsFrame(f) == f = [x \in Fields |-> f[x]]

(* The buffer has room for what is received and for the longest page.      *)
ASSUME ServerAssumption ==
  /\ BufferSize \in Nat
  /\ LenArgMod \in Nat \ {0}
  /\ EthHeaderLen + IpHeaderLen + TcpHeaderLen + TextLen(PageOf(TRUE)) <= BufferSize
  /\ \A f \in Received :
       IsFrame(f) /\ IsSegment(f.seg) /\ f.len \in 0 .. BufferSize

(* No datagram says that it is shorter than its own header.                *)
WholeDatagrams ==
  \A f \in Received :
    f.proto = "udp" => f.udplen \in Nat /\ f.udplen >= UdpHeaderLen

VARIABLES
  svitLED,   (* svitLED, and the level of RED_LED_PIN, set with it         *)
  str,       (* the reply to a datagram, kept from one to the next         *)
  seqnum,    (* seqnum                                                     *)
  request,   (* the frame received last                                    *)
  sent       (* what was sent in answer to it                              *)

vars == <<svitLED, str, seqnum, request, sent>>

Init ==
  /\ svitLED = FALSE
  /\ str = <<>>
  /\ seqnum = 10
  /\ request = <<>>
  /\ sent = <<>>
-----------------------------------------------------------------------------
(* eth_type_is_arp_and_my_ip, eth_type_is_ip_and_my_ip: their test of the  *)
(* length covers the handler's own, plen >= 40.                            *)
LenArg(f) == f.len % LenArgMod

IsArpForUs(f) == LenArg(f) >= 41 /\ f.type = "arp" /\ f.tpa = MyIp

(* Mutant of IsIpForUs: the address is not compared. *)
IsIpForAnyone(f) == LenArg(f) >= 42 /\ f.type = "ip" /\ f.plainHeader

IsIpForUs(f) ==
  LenArg(f) >= 42 /\ f.type = "ip" /\ f.plainHeader /\ f.dstIp = MyIp

(* make_eth, make_ip: "make a return header from a received packet".       *)
MakeEth(b) == [b EXCEPT !.dstMac = b.srcMac, !.srcMac = MyMac]
MakeIp(b) == [b EXCEPT !.dstIp = b.srcIp, !.srcIp = MyIp]

(* make_arp_answer_from_request *)
ArpAnswer(b) ==
  [MakeEth(b) EXCEPT !.op = "reply", !.tha = b.sha, !.sha = MyMac,
                     !.tpa = b.spa, !.spa = MyIp, !.len = EthHeaderLen + ArpLen]

(* make_echo_reply_from_request *)
EchoReply(b, plen) == [MakeIp(MakeEth(b)) EXCEPT !.icmp = "reply", !.len = plen]

(* Mutant of UdpReply: the total length is left as it was received. *)
UdpReplyKeepsTotal(b, data, datalen, port) ==
  LET n == IF datalen > 220 THEN 220 ELSE datalen
  IN  [MakeIp(MakeEth(b)) EXCEPT !.udplen = UdpHeaderLen + n, !.dport = port,
         !.text = data, !.len = UdpHeaderLen + IpHeaderLen + EthHeaderLen + n]

(* make_udp_reply_from_request: "source port does not matter and is what   *)
(* the sender used".                                                       *)
UdpReply(b, data, datalen, port) ==
  LET n == IF datalen > 220 THEN 220 ELSE datalen
  IN  [MakeIp(MakeEth(b)) EXCEPT !.total = IpHeaderLen + UdpHeaderLen + n,
         !.udplen = UdpHeaderLen + n, !.dport = port, !.text = data,
         !.len = UdpHeaderLen + IpHeaderLen + EthHeaderLen + n]

(* The frame of a segment of TcpAnswers: the ports are turned round by     *)
(* make_tcphead, which leaves a header without options but for a SYN.      *)
TcpFrame(b, seg) ==
  LET hdr == IF "SYN" \in seg.flags THEN TcpHeaderLen + 4 ELSE TcpHeaderLen
  IN  [MakeIp(MakeEth(b)) EXCEPT !.dport = b.sport, !.sport = WwwPort,
         !.seg = seg, !.hdr = hdr, !.total = IpHeaderLen + hdr + seg.len,
         !.len = EthHeaderLen + IpHeaderLen + hdr + seg.len]

(* Mutant of TcpDataFrame: the addresses are turned round once more. *)
TcpDataFrameTurned(ack, seg) == TcpFrame(ack, seg)

(* make_tcp_ack_with_data builds on the frame just sent. *)
TcpDataFrame(ack, seg) ==
  [ack EXCEPT !.seg = seg, !.total = IpHeaderLen + TcpHeaderLen + seg.len,
              !.len = EthHeaderLen + IpHeaderLen + TcpHeaderLen + seg.len]

(* init_len_info: all in 16 bits, so that "<= 0" is never less.            *)
InfoDataLen(b) == (b.total - IpHeaderLen - b.hdr) % Word
-----------------------------------------------------------------------------
Answer(f, frames) == request' = f /\ sent' = frames

AnswerArp(f) ==
  /\ IsArpForUs(f)
  /\ Answer(f, <<ArpAnswer(f)>>)
  /\ UNCHANGED <<svitLED, str, seqnum>>

AnswerPing(f) ==
  /\ IsIpForUs(f) /\ f.proto = "icmp" /\ f.icmp = "request"
  /\ Answer(f, <<EchoReply(f, f.len)>>)
  /\ UNCHANGED <<svitLED, str, seqnum>>

(* A segment for the www port, and what its header says of its data. *)
IsWww(f) == IsIpForUs(f) /\ f.proto = "tcp" /\ f.dport = WwwPort
SegmentOf(f) == [f.seg EXCEPT !.len = InfoDataLen(f)]

(* A SYN, a FIN without data, a bare acknowledgement or a reset. *)
AnswerSegment(f) ==
  LET answers == Answers(SegmentOf(f), seqnum, 0, <<>>)
  IN  /\ IsWww(f)
      /\ "SYN" \in f.seg.flags \/ "ACK" \notin f.seg.flags \/ InfoDataLen(f) = 0
      /\ "SYN" \in f.seg.flags => seqnum < SeqnumBound
      /\ Answer(f, [i \in DOMAIN answers |-> TcpFrame(f, answers[i])])
      /\ seqnum' = SeqnumAfter(f.seg, seqnum)
      /\ UNCHANGED <<svitLED, str>>

(* The path is empty: strncmp finds "/ " behind "GET ". *)
NoPath(f) == SubSeq(f.text, 1, 2) = <<"/", " ">>

UrlCommand(f) ==
  IF f.method # "GET" \/ NoPath(f) THEN NoCommand
  ELSE AnalyseGetUrl(Tail(f.text))

LedAfter(f) ==
  CASE UrlCommand(f) = 1 -> TRUE
    [] UrlCommand(f) = 0 -> FALSE
    [] OTHER -> svitLED

(* Mutant of Rendered: every command is answered with the page there was. *)
RenderedFirst(f) ==
  IF f.method # "GET" THEN Ok
  ELSE IF NoPath(f) THEN Usage
  ELSE IF UrlCommand(f) = InvalidPassword THEN Unauthorized
  ELSE PageOf(svitLED)

Rendered(f) ==
  IF f.method # "GET" THEN Ok
  ELSE IF NoPath(f) THEN Usage
  ELSE IF UrlCommand(f) = InvalidPassword THEN Unauthorized
  ELSE PageOf(LedAfter(f))

(* The page's link to the other state: "the url looks like this            *)
(* http://baseurl/password/command".                                       *)
PageLink(on) == Password \o <<"/", IF on THEN "0" ELSE "1">>

AnswerRequest(f) ==
  LET answers == Answers(SegmentOf(f), seqnum, TextLen(Rendered(f)), Rendered(f))
      ack     == TcpFrame(f, answers[1])
  IN  /\ IsWww(f)
      /\ f.seg.flags \cap {"SYN", "ACK"} = {"ACK"} /\ InfoDataLen(f) # 0
      /\ svitLED' = LedAfter(f)
      /\ Answer(f, <<ack, TcpDataFrame(ack, answers[2])>>)
      /\ UNCHANGED <<str, seqnum>>

LedAsked(asked) ==
  CASE asked = <<"t=", "1">> -> TRUE
    [] asked = <<"t=", "0">> -> FALSE
    [] OTHER -> svitLED

(* Mutant of StrAfter: a reply is forgotten. *)
StrAfterForgotten(asked) ==
  CASE asked = <<"t=", "1">> -> <<"L=1">>
    [] asked = <<"t=", "?">> -> <<"t=0">>
    [] asked[1] # "t=" -> asked
    [] OTHER -> str

(* The reply, with a word for what is wrong if something is; a value that  *)
(* is none of the three leaves it as it was.                               *)
StrAfter(asked) ==
  CASE asked = <<"t=", "1">> -> <<"L=1">>
    [] asked = <<"t=", "0">> -> <<"L=0">>
    [] asked = <<"t=", "?">> -> <<"t=0">>
    [] asked[1] # "t=" -> asked
    [] OTHER -> str

AnswerDatagram(f) ==
  LET asked == AnalyseDatagram(f.text, f.udplen)
  IN  /\ IsIpForUs(f) /\ f.proto = "udp" /\ f.dport = UdpPort
      /\ svitLED' = LedAsked(asked)
      /\ str' = StrAfter(asked)
      /\ Answer(f, <<UdpReply(f, str', TextLen(str'), UdpPort)>>)
      /\ UNCHANGED seqnum

(* Not for us, or nothing the server answers. *)
Ignore(f) ==
  /\ ~IsArpForUs(f)
  /\ IsIpForUs(f) =>
       /\ ~IsWww(f)
       /\ f.proto = "icmp" => f.icmp # "request"
       /\ f.proto = "udp" => f.dport # UdpPort
  /\ Answer(f, <<>>)
  /\ UNCHANGED <<svitLED, str, seqnum>>

Handle(f) ==
  \/ AnswerArp(f) \/ AnswerPing(f) \/ AnswerSegment(f) \/ AnswerRequest(f)
  \/ AnswerDatagram(f) \/ Ignore(f)

(* The microcontroller starts again with its static data initialised and   *)
(* its pins low.                                                           *)
Restart ==
  /\ svitLED' = FALSE /\ str' = <<>> /\ seqnum' = 10
  /\ request' = <<>> /\ sent' = <<>>

Next == (\E f \in Received : Handle(f)) \/ Restart

Spec == Init /\ [][Next]_vars
-----------------------------------------------------------------------------
(* The request names a state of the LED in the way the comments of the     *)
(* server describe, or its path runs on without a '/' (see RunsOn).        *)
NamesState(f, on) ==
  LET digit == IF on THEN "1" ELSE "0"
      path  == Tail(f.text)
  IN  \/ /\ f.proto = "tcp" /\ f.method = "GET" /\ HasPassword(path)
         /\ \/ HasForm(path) /\ FormValue(path) = DigitValue[digit]
            \/ RunsOn(path) /\ path[ScanLimit + 1] = digit
      \/ /\ f.proto = "udp"
         /\ \E k \in 2 .. f.udplen - UdpHeaderLen - 3 :
              FirstCommand(f.text, k) /\ f.text[k + 3] = digit

(* The handler's branches: but for a restart, the LED changes only to the  *)
(* state named by a request for us that carries the password.              *)
LedFollowsCommand ==
  [][svitLED' # svitLED =>
       \/ request' = <<>>
       \/ request'.dstIp = MyIp /\ NamesState(request', svitLED')]_vars

(* The builders work in place on the received frame, two of them on the    *)
(* same one for a page: each frame sent goes back to where the request     *)
(* came from, and only a request for us is answered.                       *)
GoesBack ==
  \A i \in DOMAIN sent :
    LET a == sent[i]
    IN  /\ a.srcMac = MyMac /\ a.dstMac = request.srcMac
        /\ a.type = "arp" =>
             /\ request.tpa = MyIp
             /\ <<a.sha, a.spa>> = <<MyMac, MyIp>>
             /\ <<a.tha, a.tpa>> = <<request.sha, request.spa>>
        /\ a.type = "ip" =>
             /\ request.dstIp = MyIp
             /\ a.srcIp = MyIp /\ a.dstIp = request.srcIp
             /\ a.proto = "tcp" =>
                  a.sport = request.dport /\ a.dport = request.sport

(* The lengths in the headers, set by the builders or left from the        *)
(* request, tell the length of the frame handed to enc28j60_send_packet,   *)
(* and all of it lies in the buffer.                                       *)
LengthsAgree ==
  \A i \in DOMAIN sent :
    LET a == sent[i]
    IN  /\ a.len <= BufferSize
        /\ a.type = "ip" /\ a.proto # "icmp" => a.len = EthHeaderLen + a.total
        /\ a.type = "ip" /\ a.proto = "udp" => a.total = IpHeaderLen + a.udplen
        /\ a.type = "ip" /\ a.proto = "tcp" =>
             a.total = IpHeaderLen + a.hdr + a.seg.len

(* print_webpage and analyse_get_url: a page tells the state the LED has   *)
(* when it is sent, and its link is a command for the other state.         *)
PageTellsLed ==
  \A i \in DOMAIN sent :
    sent[i].type = "ip" /\ sent[i].proto = "tcp" =>
      \A on \in BOOLEAN : sent[i].seg.data = PageOf(on) =>
        /\ on = svitLED
        /\ AnalyseGetUrl(PageLink(on)) = IF on THEN 0 ELSE 1

(* The handler: a reply to a datagram that tells a state tells the state   *)
(* of the LED, although the reply is kept from one datagram to the next,   *)
(* unless the command t= has a value that is none of 0, 1 and ?.           *)
ReplyTellsLed ==
  \A i \in DOMAIN sent :
    LET asked == AnalyseDatagram(request.text, request.udplen)
    IN  /\ sent[i].type = "ip" /\ sent[i].proto = "udp"
        /\ asked[1] = "t=" => asked[2] \in {"0", "1", "?"}
        => sent[i].text # IF svitLED THEN <<"L=0">> ELSE <<"L=1">>

(* analyse_get_url, see ReadAsDocumented: the number in the path of a GET  *)
(* request is read as its comment says.                                    *)
UrlAsDocumented ==
  request # <<>> =>
    (request.method = "GET" => ReadAsDocumented(Tail(request.text)))

(* The handler, see TakenFromPayload: a command comes out of the datagram. *)
DatagramCommandIsInPayload ==
  request # <<>> =>
    (request.proto = "udp" =>
       TakenFromPayload(request.text, request.udplen - UdpHeaderLen))
=============================================================================
