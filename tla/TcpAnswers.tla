----------------------------- MODULE TcpAnswers -----------------------------
(***************************************************************************)
(* The segments the stateless TCP server answers with.  No connection is   *)
(* kept: every number of an answer is made from the segment it answers.    *)
(* The header of the received segment is turned into that of the answer in *)
(* place.  A sequence number is its four bytes, the highest first, and     *)
(* bytes count modulo Byte, so that numbers wrap soon in a small instance. *)
(***************************************************************************)
EXTENDS Integers, Sequences

CONSTANT Byte   (* 256 *)

ASSUME ByteAssumption == Byte \in Nat /\ Byte > 2

Word == Byte * Byte
Bytes == 0 .. Byte - 1
Numbers == [1 .. 4 -> Bytes]

(* A segment: flags, sequence and acknowledgement number, and length and   *)
(* contents of its data.                                                   *)
Flags == {"SYN", "ACK", "FIN", "PSH"}
SegmentFields == {"flags", "seq", "ack", "len", "data"}
IsSegment(seg) == seg = [x \in SegmentFields |-> seg[x]]
-----------------------------------------------------------------------------
(* Mutant of Relative: the carry goes no further than one byte.            *)
RelativeOneCarry(seq, rel) ==
  LET s4 == (seq[4] + rel) % Word
  IN  <<seq[1], seq[2], (seq[3] + s4 \div Byte) % Byte, s4 % Byte>>

(* The loop of make_tcphead: "add the rel ack num to SEQACK", the lowest   *)
(* byte first, with what is left of rel_ack_num as the carry.              *)
Relative(seq, rel) ==
  LET s4 == (seq[4] + rel) % Word
      s3 == seq[3] + s4 \div Byte
      s2 == seq[2] + s3 \div Byte
      s1 == seq[1] + s2 \div Byte
  IN  <<s1 % Byte, s2 % Byte, s3 % Byte, s4 % Byte>>

(* "put inital seq number": seqnum goes into the third byte.               *)
Initial(seqnum) == <<0, 0, seqnum, 0>>

(* Mutants of NextSeqnum: no byte, or no step. *)
NextSeqnumWide(seqnum) == seqnum + 2
NextSeqnumStuck(seqnum) == seqnum

(* "we step only the second byte, this allows us to send packts with 255   *)
(* bytes or 512 (if we step the initial seqnum by 2)"                      *)
NextSeqnum(seqnum) == (seqnum + 2) % Byte

(* make_tcphead with cp_seq = 0 and with cp_seq = 1. *)
HeadOfSession(seg, rel, seqnum) ==
  [seg EXCEPT !.ack = Relative(seg.seq, rel), !.seq = Initial(seqnum)]
HeadInSession(seg, rel) ==
  [seg EXCEPT !.ack = Relative(seg.seq, rel), !.seq = seg.ack]

Bare(seg, flags) == [seg EXCEPT !.flags = flags, !.len = 0, !.data = <<>>]

(* make_tcp_synack_from_syn *)
SynAck(seg, seqnum) ==
  Bare(HeadOfSession(seg, 1, seqnum), {"SYN", "ACK"})

(* make_tcp_ack_from_any: "if there is no data then we must still          *)
(* acknoledge one packet".                                                 *)
AckFromAny(seg) ==
  Bare(HeadInSession(seg, IF seg.len = 0 THEN 1 ELSE seg.len), {"ACK"})

(* make_tcp_ack_with_data: "this function will NOT modify the eth/ip/tcp   *)
(* header except for length and checksum", so it starts from the           *)
(* acknowledgement just sent.                                              *)
AckWithData(ack, len, data) ==
  [ack EXCEPT !.flags = {"ACK", "PSH", "FIN"}, !.len = len, !.data = data]

(* Mutant of Answers: a bare acknowledgement is acknowledged. *)
AnswersBareAck(seg, seqnum, len, data) ==
  LET ack == AckFromAny(seg)
  IN  IF "SYN" \in seg.flags THEN <<SynAck(seg, seqnum)>>
      ELSE IF "ACK" \notin seg.flags THEN <<>>
      ELSE IF seg.len # 0 THEN <<ack, AckWithData(ack, len, data)>>
      ELSE <<ack>>

(* Mutant of Answers: the header is turned round again for the data. *)
AnswersTwoHeads(seg, seqnum, len, data) ==
  LET ack == AckFromAny(seg)
  IN  IF "SYN" \in seg.flags THEN <<SynAck(seg, seqnum)>>
      ELSE IF "ACK" \notin seg.flags THEN <<>>
      ELSE IF seg.len # 0 THEN <<ack, AckWithData(AckFromAny(ack), len, data)>>
      ELSE IF "FIN" \in seg.flags THEN <<ack>> ELSE <<>>

(* The handler's branch for the www port, with the page it renders for     *)
(* data: what is sent, in this order.                                      *)
Answers(seg, seqnum, len, data) ==
  LET ack == AckFromAny(seg)
  IN  IF "SYN" \in seg.flags THEN <<SynAck(seg, seqnum)>>
      ELSE IF "ACK" \notin seg.flags THEN <<>>
      ELSE IF seg.len # 0 THEN <<ack, AckWithData(ack, len, data)>>
      ELSE IF "FIN" \in seg.flags THEN <<ack>> ELSE <<>>

SeqnumAfter(seg, seqnum) ==
  IF "SYN" \in seg.flags THEN NextSeqnum(seqnum) ELSE seqnum
=============================================================================
