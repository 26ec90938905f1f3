----------------------------- MODULE TcpSession -----------------------------
(***************************************************************************)
(* The stateless TCP server against a client that keeps a connection as    *)
(* RFC 793 asks: it opens connections one after the other from the same    *)
(* port, sends a GET request in each, repeats what is not acknowledged,    *)
(* and answers the server's FIN with its own.  The network loses segments  *)
(* and lets them overtake one another on their way to the hosts of Reorder,*)
(* so that a segment of an earlier connection may arrive in a later one.   *)
(* The server is the www branch of enc28j60_interrupt_handler with the     *)
(* segments of TcpAnswers and the LED its commands switch.                 *)
(***************************************************************************)
EXTENDS TcpAnswers, SequencesExt

CONSTANTS
  PageLen,    (* the length of the page for an LED that is on, or off      *)
  GetLen,     (* the length of a request                                   *)
  ClientIsns, (* the client's initial sequence numbers                     *)
  FirstSeqnum,(* "my initial tcp sequence number = 0xA"                    *)
  Reorder,    (* "board", "client": segments to it may overtake another    *)
  MaxConns,   (* bound: connections opened                                 *)
  MaxLoss,    (* bound: segments lost                                      *)
  MaxQueue,   (* bound: the client repeats while fewer are under way       *)
  MaxSyns     (* bound: SYNs while anything is under way, lest the         *)
              (* server's numbers come round with an old segment there     *)

Space == Word * Word

ASSUME SessionAssumption ==
  /\ PageLen \in [BOOLEAN -> 1 .. Word - Byte - 1]
  /\ GetLen \in 1 .. Word - Byte
  /\ ClientIsns \subseteq Numbers
  /\ FirstSeqnum \in Bytes
  /\ Reorder \subseteq {"board", "client"}
  /\ {MaxConns, MaxLoss, MaxQueue, MaxSyns} \subseteq Nat

(* The server's numbers do not come round while an old segment is there.   *)
FewSyns == 2 * MaxSyns < Byte

(* ip_arp_udp_tcp.c:259: no page is longer than the step of the numbers.   *)
ShortPages == \A on \in BOOLEAN : PageLen[on] <= 2 * Byte

VARIABLES
  client,    (* the client's connection, see Init                          *)
  toBoard,   (* segments under way to the server                           *)
  toClient,  (* and to the client                                          *)
  seqnum,    (* seqnum                                                     *)
  svitLED,   (* svitLED                                                    *)
  syns,      (* SYNs sent since the network was last empty                 *)
  lost,      (* segments lost                                              *)
  orphaned,  (* a page of this connection was lost                         *)
  ends       (* the number after each segment the client sent; history     *)

vars == <<client, toBoard, toClient, seqnum, svitLED, syns, lost, orphaned,
          ends>>
network == <<toBoard, toClient>>
board == <<seqnum, svitLED>>
-----------------------------------------------------------------------------
(* The client's arithmetic, modulo the size of the number space. *)
Value(n) == ((n[1] * Byte + n[2]) * Byte + n[3]) * Byte + n[4]
Number(v) == <<v \div (Word * Byte), (v \div Word) % Byte, (v \div Byte) % Byte,
               v % Byte>>
Plus(n, k) == Number((Value(n) + k) % Space)
Distance(from, to) == (Value(to) - Value(from)) % Space

Zero == <<0, 0, 0, 0>>

Segment(flags, seq, ack, len, data) ==
  [flags |-> flags, seq |-> seq, ack |-> ack, len |-> len, data |-> data]

(* What the client has sent and not seen acknowledged. *)
Unacknowledged ==
  CASE client.state = "syn_sent" ->
         <<Segment({"SYN"}, client.iss, Zero, 0, <<>>)>>
    [] client.state = "get_sent" ->
         <<Segment({"ACK"}, Plus(client.iss, 1), client.rcv, 0, <<>>),
           Segment({"ACK", "PSH"}, Plus(client.iss, 1), client.rcv, GetLen,
                   <<client.conn, client.cmd>>)>>
    [] client.state = "last_ack" ->
         <<Segment({"ACK", "FIN"}, client.nxt, client.rcv, 0, <<>>)>>
    [] OTHER -> <<>>

Init ==
  /\ client = [state |-> "closed", conn |-> 0, cmd |-> FALSE, iss |-> Zero,
               nxt |-> Zero, rcv |-> Zero, page |-> <<>>, before |-> <<>>]
  /\ toBoard = <<>> /\ toClient = <<>>
  /\ seqnum = FirstSeqnum
  /\ svitLED = FALSE
  /\ syns = 0 /\ lost = 0
  /\ orphaned = FALSE
  /\ ends = {}

CountSyn ==
  LET idle == toBoard = <<>> /\ toClient = <<>>
  IN  /\ idle \/ syns < MaxSyns
      /\ syns' = IF idle THEN 1 ELSE syns + 1
-----------------------------------------------------------------------------
(* The client moves on and sends what it now has to. *)
Become(c, end) ==
  /\ client' = c
  /\ toBoard' = toBoard \o Unacknowledged'
  /\ ends' = ends \cup {end}

Open(cmd, iss) ==
  /\ client.state \in {"closed", "done"}
  /\ client.conn < MaxConns
  /\ CountSyn
  /\ Become([client EXCEPT !.state = "syn_sent", !.conn = @ + 1, !.cmd = cmd,
                           !.iss = iss, !.nxt = Plus(iss, 1), !.page = <<>>],
            Plus(iss, 1))
  /\ orphaned' = FALSE
  /\ UNCHANGED <<toClient, board, lost>>

(* A timer of the client fires, perhaps too early. *)
Repeat ==
  /\ Unacknowledged # <<>>
  /\ Len(toBoard) + Len(toClient) < MaxQueue
  /\ IF client.state = "syn_sent" THEN CountSyn ELSE UNCHANGED syns
  /\ toBoard' = Append(toBoard, Last(Unacknowledged))
  /\ UNCHANGED <<client, toClient, board, lost, orphaned, ends>>

(* Nobody waits for ever for a page that was lost. *)
GiveUp ==
  /\ client.state = "waiting" /\ orphaned
  /\ client' = [client EXCEPT !.state = "closed",
                              !.before = <<client.rcv, PageLen[client.cmd]>>]
  /\ UNCHANGED <<network, board, syns, lost, orphaned, ends>>

(* What the client takes of a segment: an acknowledgement that is not      *)
(* beyond what it has sent, and data that goes on where it has got to,     *)
(* from there on.                                                          *)
Beyond(seg) == Distance(seg.ack, client.nxt) >= Space \div 2
Continues(seg) == Distance(seg.seq, client.rcv) < seg.len

IsSynAck(seg) ==
  /\ client.state = "syn_sent"
  /\ seg.flags = {"SYN", "ACK"} /\ seg.ack = Plus(client.iss, 1)
AcknowledgesGet(seg) ==
  /\ client.state = "get_sent"
  /\ seg.flags = {"ACK"} /\ seg.seq = client.rcv /\ seg.ack = client.nxt
BringsPage(seg) ==
  /\ client.state \in {"get_sent", "waiting"}
  /\ Continues(seg) /\ ~Beyond(seg)
AcknowledgesFin(seg) ==
  /\ client.state = "last_ack"
  /\ seg.flags = {"ACK"} /\ seg.seq = client.rcv
  /\ seg.ack = Plus(client.nxt, 1)

Established(seg) ==
  /\ IsSynAck(seg)
  /\ Become([client EXCEPT !.state = "get_sent", !.rcv = Plus(seg.seq, 1),
                           !.nxt = Plus(@, GetLen)],
            Plus(client.nxt, GetLen))

GetAcknowledged(seg) ==
  /\ AcknowledgesGet(seg)
  /\ client' = [client EXCEPT !.state = "waiting"]
  /\ UNCHANGED <<toBoard, ends>>

PageArrives(seg) ==
  /\ BringsPage(seg)
  /\ Become([client EXCEPT !.state = "last_ack", !.page = seg.data,
                           !.rcv = Plus(seg.seq, seg.len + 1),
                           !.before = <<client.rcv, seg.len>>],
            Plus(client.nxt, 1))

FinAcknowledged(seg) ==
  /\ AcknowledgesFin(seg)
  /\ client' = [client EXCEPT !.state = "done"]
  /\ UNCHANGED <<toBoard, ends>>

(* Anything else changes nothing.  In a connection a segment with other    *)
(* numbers than those expected is answered with an acknowledgement.        *)
Unexpected(seg) ==
  /\ ~ (IsSynAck(seg) \/ AcknowledgesGet(seg) \/ BringsPage(seg)
           \/ AcknowledgesFin(seg))
  /\ toBoard' =
       IF client.state \in {"get_sent", "waiting", "last_ack"}
          /\ (seg.seq # client.rcv \/ Beyond(seg))
       THEN Append(toBoard,
                   Segment({"ACK"}, IF client.state = "last_ack"
                                    THEN Plus(client.nxt, 1) ELSE client.nxt,
                           client.rcv, 0, <<>>))
       ELSE toBoard
  /\ UNCHANGED <<client, ends>>
-----------------------------------------------------------------------------
Arriving(host, q) == {i \in DOMAIN q : host \in Reorder \/ i = 1}

ClientReceives ==
  \E i \in Arriving("client", toClient) :
    LET seg == toClient[i]
    IN  /\ \/ Established(seg) \/ GetAcknowledged(seg) \/ PageArrives(seg)
           \/ FinAcknowledged(seg) \/ Unexpected(seg)
        /\ toClient' = RemoveAt(toClient, i)
        /\ UNCHANGED <<board, syns, lost, orphaned>>

(* Mutant of LedAfter: a request toggles the LED. *)
LedToggled(seg) == IF seg.len > 0 THEN ~svitLED ELSE svitLED

(* A GET that names a state of the LED switches it before the page is      *)
(* rendered.                                                               *)
LedAfter(seg) == IF seg.len > 0 THEN seg.data[2] ELSE svitLED

Page(seg) == IF seg.len > 0 THEN <<seg.data[1], LedAfter(seg)>> ELSE <<>>

(* The handler takes a segment. *)
BoardReceives ==
  \E i \in Arriving("board", toBoard) :
    LET seg == toBoard[i]
    IN  /\ svitLED' = LedAfter(seg)
        /\ seqnum' = SeqnumAfter(seg, seqnum)
        /\ toClient' = toClient \o
             Answers(seg, seqnum, PageLen[LedAfter(seg)], Page(seg))
        /\ toBoard' = RemoveAt(toBoard, i)
        /\ UNCHANGED <<client, syns, lost, orphaned, ends>>

LoseToBoard ==
  /\ lost < MaxLoss
  /\ \E i \in DOMAIN toBoard : toBoard' = RemoveAt(toBoard, i)
  /\ lost' = lost + 1
  /\ UNCHANGED <<client, toClient, board, syns, orphaned, ends>>

PageHere(seg) == seg.len > 0 /\ seg.data[1] = client.conn

LoseToClient ==
  /\ lost < MaxLoss
  /\ \E i \in DOMAIN toClient :
       /\ toClient' = RemoveAt(toClient, i)
       /\ orphaned' = (orphaned \/ PageHere(toClient[i]))
  /\ lost' = lost + 1
  /\ UNCHANGED <<client, toBoard, board, syns, ends>>

Next ==
  \/ \E cmd \in BOOLEAN, iss \in ClientIsns : Open(cmd, iss)
  \/ Repeat \/ GiveUp
  \/ ClientReceives \/ BoardReceives
  \/ LoseToBoard \/ LoseToClient

(* What is under way and not lost arrives, and the client's timers fire.   *)
Fairness ==
  /\ WF_vars(ClientReceives) /\ WF_vars(BoardReceives) /\ WF_vars(Repeat)

Spec == Init /\ [][Next]_vars /\ Fairness
-----------------------------------------------------------------------------
TypeOK ==
  /\ client.state \in {"closed", "syn_sent", "get_sent", "waiting", "last_ack",
                       "done"}
  /\ client.conn \in 0 .. MaxConns
  /\ {client.iss, client.nxt, client.rcv} \subseteq Numbers
  /\ \A q \in {toBoard, toClient} : \A i \in DOMAIN q :
       /\ q[i].flags \subseteq Flags
       /\ q[i].seq \in Numbers /\ q[i].ack \in Numbers
  /\ seqnum \in Bytes /\ svitLED \in BOOLEAN
  /\ ends \subseteq Numbers

(* make_tcphead and its callers: the server never acknowledges a number    *)
(* the client has not reached, for every carry through the four bytes,     *)
(* however often and in whatever order segments arrive.                    *)
AcknowledgesWhatWasSent ==
  \A i \in DOMAIN toClient : toClient[i].ack \in ends

(* A client takes exactly the page of the connection it is in, although    *)
(* the server keeps no connection: not the answer to another request, not  *)
(* the page of a SYN-ACK it did not take.                                  *)
PageIsForThisConnection ==
  client.page # <<>> => client.page = <<client.conn, client.cmd>>

(* The server answers no bare acknowledgement and acknowledges nothing     *)
(* the client has not sent, so the two never go on answering each other:   *)
(* in the end the network falls silent, even behind a connection that      *)
(* hangs.                                                                  *)
FallsSilent == <>[](toBoard = <<>> /\ toClient = <<>>)

(* The LED of a server that keeps no connection is a register the client   *)
(* sets: see RemoteLamp.                                                   *)
Lamp == INSTANCE RemoteLamp WITH
  lamp    <- svitLED,
  request <- IF client.state \in {"syn_sent", "get_sent", "waiting"}
             THEN <<client.cmd>> ELSE <<>>,
  answer  <- IF client.page = <<>> THEN <<>> ELSE <<client.page[2]>>

(* In a network that keeps the order the LED is set by the request under   *)
(* way and by no repeated one later, and the page tells what was set.      *)
LampSpec == Lamp!Spec

(* make_tcp_ack_from_any and make_tcp_ack_with_data: whatever else is lost *)
(* is repeated and answered again; the one way a connection hangs is that  *)
(* the page was lost when its request had been acknowledged.               *)
ServedUnlessPageLost ==
  client.state = "syn_sent" ~>
    (client.state = "done" \/ (client.state = "waiting" /\ orphaned))

(* ip_arp_udp_tcp.c:263: "step the inititial seq num by something we will  *)
(* not use during this tcp session".  A connection's numbers are not those *)
(* of the connection before.                                               *)
SessionHasItsOwnNumbers ==
  client.state = "get_sent" /\ client.before # <<>> =>
    Distance(client.before[1], client.rcv) >= client.before[2]
=============================================================================
