------------------------------- MODULE MCBoard -------------------------------
(* Board with two hosts that send it every kind of frame: ARP requests     *)
(* and replies, pings, segments with and without options, requests of all  *)
(* kinds, datagrams of all kinds, and frames for somebody else.  Password  *)
(* and scan are scaled down, and so is the byte for the length of a        *)
(* payload: it is 16 here, and there are payloads beyond it.               *)
EXTENDS Board

CONSTANT BadTotals   (* total lengths shorter than the headers             *)

MCChars == {"0", "1", "2", "/", " ", ",", "t", "=", "?", "x", "NUL"}
MCPassword == <<"1", "2", "1">>
MCSeq == <<0, 255, 255, 254>>

Hosts == {"a", "b"}
MacOf(h) == <<"mac", h>>
Ip(h) == <<"ip", h>>
MCMac == <<82, 65, 68, 69, 75, 84>>
MCMyMac == MacOf("me")
MCMyIp == Ip("me")

Segment(flags) ==
  [flags |-> flags, seq |-> MCSeq, ack |-> <<0, 0, 10, 1>>, len |-> 0,
   data |-> <<>>]

From(h) ==
  [type |-> "other", len |-> 60, srcMac |-> MacOf(h), dstMac |-> MCMyMac,
   op |-> "none", sha |-> MacOf(h), spa |-> Ip(h), tha |-> MacOf("any"),
   tpa |-> MCMyIp, plainHeader |-> TRUE, srcIp |-> Ip(h), dstIp |-> MCMyIp,
   total |-> 46, proto |-> "none", icmp |-> "none", sport |-> 5000,
   dport |-> 0, udplen |-> 0, seg |-> Segment({}), hdr |-> 20,
   method |-> "none", text |-> <<>>]

ArpFrames(h) ==
  {[From(h) EXCEPT !.type = "arp", !.op = op, !.tpa = tpa] :
     op \in {"request", "reply"}, tpa \in {MCMyIp, Ip("x")}}

IpFrame(h, proto) == [From(h) EXCEPT !.type = "ip", !.proto = proto]

IcmpFrames(h) ==
  {[IpFrame(h, "icmp") EXCEPT !.icmp = t, !.len = n, !.dstIp = ip] :
     t \in {"request", "reply"}, n \in {41, 60, 260, 1496},
     ip \in {MCMyIp, Ip("x")}}

(* What lies behind a payload in the buffer. *)
Behind == <<" ", "x", "x", "x", "x", "x", "x", "NUL">>

Paths ==
  {<<"/", " ">>, <<"/", "2", "1", "/", "1", " ">>, <<"/", "1", "2", " ">>,
   <<"/", "1", "2", "1", "1", "x", " ">>, <<"/", "1", "2", "1", "1", "1", " ">>}
    \cup {<<"/", "1", "2", "1", "/", d, " ">> : d \in {"0", "1", "2", "x"}}

TcpSegment(h, flags, hdr, dport) ==
  [IpFrame(h, "tcp") EXCEPT !.seg = Segment(flags), !.hdr = hdr,
                            !.total = 20 + hdr, !.dport = dport]

(* GET requests for every path, a POST, and a GET with a bad total length. *)
Request(h, hdr, method, path) ==
  [TcpSegment(h, {"ACK", "PSH"}, hdr, WwwPort) EXCEPT
     !.method = method, !.text = path \o Behind,
     !.total = 20 + hdr + 4 + Len(path)]

LightOn == <<"/", "1", "2", "1", "/", "1", " ">>

Requests(h, hdr) ==
  {Request(h, hdr, "GET", p) : p \in Paths} \cup {Request(h, hdr, "POST", LightOn)}

Segments(h) ==
  {TcpSegment(h, flags, hdr, WwwPort) :
     flags \in {{"SYN"}, {"ACK"}, {"ACK", "FIN"}, {}}, hdr \in {20, 32}}
  \cup {TcpSegment(h, {"SYN"}, 20, 81)}
  \cup {[Request(h, 20, "GET", LightOn) EXCEPT !.total = n] : n \in BadTotals}

Payloads ==
  {<<>>, <<"1">>, <<"2", "1", ",", "t", "=", "1">>, <<"1", "2", "1">>,
   <<"1", "2", ",", "t", "=">>, <<"1", "2", ",", "t", "0", "1">>,
   <<"1", "2", ",", "x", "=", "1">>, <<"1", "2", "x", ",", "t", "=", "1">>}
    \cup {<<"1", "2", "1", ",", "t", "=", v>> : v \in {"0", "1", "2", "?"}}

(* Payloads of 15 characters and more, with the comma that is looked for   *)
(* at the beginning, at the end, behind the end or beyond the kept length. *)
SwitchOn == <<",", "t", "=", "1">>
Filled(n) == <<"1", "2">> \o [i \in 1 .. n - 2 |-> "x"]
LongPayloads ==
  {<<"1", "2", "1">> \o SwitchOn \o [i \in 1 .. n - 7 |-> "x"] :
     n \in {15, 16, 18, 23}}
    \cup {Filled(n) \o SwitchOn : n \in {11, 15, 16}}

DatagramBefore(h, payload, port, behind) ==
  [IpFrame(h, "udp") EXCEPT !.dport = port, !.text = payload \o behind,
     !.udplen = 8 + Len(payload), !.total = 28 + Len(payload)]

Datagram(h, payload, port) == DatagramBefore(h, payload, port, Behind)

(* An earlier frame left a command behind the payload. *)
Leftovers(h) ==
  {DatagramBefore(h, p, UdpPort, SwitchOn \o Behind) :
     p \in {<<>>, <<"1", "2", "1">>, Filled(15)}}

Datagrams(h) ==
  {Datagram(h, p, UdpPort) : p \in Payloads \cup LongPayloads} \cup Leftovers(h)

(* Packets that are for another host, or have options in the IP header.    *)
NotForUs ==
  LET P == Requests("a", 20) \cup {Datagram("a", p, UdpPort) : p \in Payloads}
  IN  {[p EXCEPT !.dstIp = Ip("x")] : p \in P}
        \cup {[p EXCEPT !.plainHeader = FALSE] : p \in P}

(* One host sends everything, the other a little of each kind.             *)
MCReceived ==
  NotForUs \cup ArpFrames("a") \cup IcmpFrames("a") \cup Segments("a")
    \cup Requests("a", 20) \cup Requests("a", 32) \cup Datagrams("a")
    \cup {Datagram("a", <<"1", "2", "1", ",", "t", "=", "1">>, 81)}
    \cup ArpFrames("b") \cup IcmpFrames("b")
    \cup {Request("b", 20, "GET", LightOn),
           Datagram("b", <<"1", "2", "1", ",", "t", "=", "0">>, UdpPort)}
=============================================================================
