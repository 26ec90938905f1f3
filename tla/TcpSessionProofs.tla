-------------------------- MODULE TcpSessionProofs --------------------------
(***************************************************************************)
(* What the stateless server acknowledges, whose page a client takes, and  *)
(* what it sees of the LED, for every size of a byte, every page and       *)
(* request that fit the arithmetic, any number of connections, losses and  *)
(* repetitions, and every order in which segments arrive.                  *)
(***************************************************************************)
EXTENDS TcpSession, SequenceTheorems, FiniteSetTheorems, TLAPS

(* Arithmetic that the provers do not find by themselves: a larger factor, *)
(* a quotient with its remainder, and that there is but one of each.       *)
LEMMA Grows ==
  ASSUME NEW b \in Nat, NEW p \in Int, NEW q \in Int, p < q
  PROVE  p * b + b <= q * b
OBVIOUS

LEMMA DivMod ==
  ASSUME NEW b \in Nat \ {0}, NEW v \in Int
  PROVE  /\ v = (v \div b) * b + (v % b)
         /\ v % b \in 0 .. b - 1 /\ v \div b \in Int
OBVIOUS

LEMMA QuotientUnique ==
  ASSUME NEW b \in Nat \ {0}, NEW q \in Int, NEW r \in 0 .. b - 1
  PROVE  (q * b + r) \div b = q /\ (q * b + r) % b = r
<1> DEFINE v == q * b + r
           d == v \div b
           m == v % b
<1>1. v = d * b + m /\ m \in 0 .. b - 1 /\ d \in Int
  <2>1. v \in Int
    OBVIOUS
  <2> HIDE DEF v
  <2> QED BY <2>1, DivMod
<1> HIDE DEF d, m
<1>2. q * b \in Int /\ d * b \in Int
  BY <1>1
<1>3. ~ d < q
  <2> SUFFICES ASSUME d < q PROVE FALSE
    OBVIOUS
  <2>1. d * b + b <= q * b
    BY <1>1, Grows
  <2> QED BY <1>1, <1>2, <2>1
<1>4. ~ q < d
  <2> SUFFICES ASSUME q < d PROVE FALSE
    OBVIOUS
  <2>1. q * b + b <= d * b
    BY <1>1, Grows
  <2> QED BY <1>1, <1>2, <2>1
<1>5. d = q
  BY <1>1, <1>3, <1>4
<1>6. m = r
  BY <1>1, <1>2, <1>5
<1> QED BY <1>5, <1>6 DEF d, m

(* A number below two digits of base b. *)
LEMMA TwoDigits ==
  ASSUME NEW b \in Nat, NEW c \in Nat, NEW x \in 0 .. c - 1, NEW y \in 0 .. b - 1
  PROVE  x * b + y \in 0 .. c * b - 1
<1>1. x * b + b <= c * b
  BY Grows
<1>2. x * b \in Nat /\ c * b \in Nat
  OBVIOUS
<1> QED BY <1>1, <1>2

(* How large the words and the number space are. *)
LEMMA Sizes ==
  /\ Byte \in Nat \ {0} /\ Byte > 2
  /\ Word = Byte * Byte /\ Word \in Nat \ {0} /\ Word >= 3 * Byte
  /\ Word * Byte \in Nat \ {0}
  /\ Space = (Word * Byte) * Byte /\ Space \in Nat \ {0}
<1>1. Byte \in Nat \ {0} /\ Byte > 2
  BY ByteAssumption
<1>2. Word = Byte * Byte /\ Word \in Nat \ {0}
  BY <1>1 DEF Word
<1>3. Word >= 3 * Byte
  <2>1. CASE Byte = 3
    BY <1>2, <2>1
  <2>2. CASE 3 < Byte
    <3>1. 3 * Byte + Byte <= Byte * Byte
      BY <1>1, <2>2, Grows
    <3> QED BY <1>1, <1>2, <3>1
  <2> QED BY <1>1, <2>1, <2>2
<1>4. Word * Byte \in Nat \ {0}
  BY <1>1, <1>2
<1>5. Space = (Word * Byte) * Byte
  BY <1>1, <1>2 DEF Space
<1>6. Space \in Nat \ {0}
  BY <1>1, <1>4, <1>5
<1> QED BY <1>1, <1>2, <1>3, <1>4, <1>5, <1>6

(* The remainder in the number space. *)
LEMMA ModSpace ==
  ASSUME NEW q \in Int, NEW v \in 0 .. Space - 1
  PROVE  (q * Space + v) % Space = v
<1>1. Space \in Nat \ {0}
  BY Sizes
<1> QED BY <1>1, QuotientUnique

(* The bytes of a value. *)
LEMMA NumberOfDigits ==
  ASSUME NEW a \in Bytes, NEW b \in Bytes, NEW c \in Bytes, NEW d \in Bytes,
         NEW v, v = ((a * Byte + b) * Byte + c) * Byte + d
  PROVE  Number(v) = <<a, b, c, d>> /\ v \in 0 .. Space - 1
<1> USE Sizes
<1> DEFINE ab == a * Byte + b
           abc == ab * Byte + c
           cd == c * Byte + d
           bcd == b * Word + cd
<1>1. {a, b, c, d} \subseteq 0 .. Byte - 1
  BY DEF Bytes
<1>2. ab \in 0 .. Word - 1 /\ cd \in 0 .. Word - 1
  BY <1>1, TwoDigits
<1>3. abc \in 0 .. Word * Byte - 1
  <2> HIDE DEF ab
  <2> QED BY <1>1, <1>2, TwoDigits
<1>4. v \in 0 .. Space - 1
  <2> HIDE DEF abc
  <2> QED BY <1>1, <1>3, TwoDigits DEF abc
<1>5. bcd \in 0 .. Word * Byte - 1
  <2> HIDE DEF cd
  <2>1. b * Word + cd \in 0 .. Byte * Word - 1
    BY <1>1, <1>2, TwoDigits
  <2> QED BY <2>1
<1>6. {a, b, c, d, ab, cd, abc, bcd} \subseteq Int
  BY <1>1, <1>2, <1>3, <1>5
<1>7. v = a * (Word * Byte) + bcd
  BY <1>6
<1>8. v = ab * Word + cd
  BY <1>6
<1>9. v \div (Word * Byte) = a
  <2> HIDE DEF bcd
  <2> DEFINE wb == Word * Byte
  <2>1. wb \in Nat \ {0}
    OBVIOUS
  <2>2. bcd \in 0 .. wb - 1
    BY <1>5
  <2> HIDE DEF wb
  <2>3. (a * wb + bcd) \div wb = a
    BY <1>6, <2>1, <2>2, QuotientUnique
  <2> QED BY <1>7, <2>3 DEF wb
<1>10. v \div Word = ab
  <2> HIDE DEF ab, cd
  <2>1. (ab * Word + cd) \div Word = ab
    BY <1>2, <1>6, QuotientUnique
  <2> QED BY <1>8, <2>1
<1>11. ab % Byte = b
  BY <1>1, <1>6, QuotientUnique
<1>12. v \div Byte = abc /\ v % Byte = d
  <2> HIDE DEF abc
  <2>1. (abc * Byte + d) \div Byte = abc /\ (abc * Byte + d) % Byte = d
    BY <1>1, <1>6, QuotientUnique
  <2> QED BY <2>1 DEF abc
<1>13. abc % Byte = c
  <2> HIDE DEF ab
  <2> QED BY <1>1, <1>6, QuotientUnique
<1> HIDE DEF ab, abc, cd, bcd
<1> QED BY <1>4, <1>9, <1>10, <1>11, <1>12, <1>13 DEF Number

(* The loop of make_tcphead adds modulo the size of the number space, as   *)
(* the client does, with every carry.                                      *)
THEOREM CarriesThrough ==
  ASSUME NEW n \in Numbers, NEW k \in 0 .. Word - Byte
  PROVE  Relative(n, k) = Plus(n, k) /\ Relative(n, k) \in Numbers
<1> USE Sizes
<1> DEFINE s4 == (n[4] + k) % Word
           s3 == n[3] + (s4 \div Byte)
           s2 == n[2] + (s3 \div Byte)
           s1 == n[1] + (s2 \div Byte)
<1>1. n[1] \in Bytes /\ n[2] \in Bytes /\ n[3] \in Bytes /\ n[4] \in Bytes
  BY DEF Numbers
<1>2. n[4] + k \in 0 .. Word - 1
  BY <1>1 DEF Bytes
<1>3. s4 = n[4] + k
  BY <1>2
<1>4. \A s \in Int : /\ s = (s \div Byte) * Byte + (s % Byte)
                     /\ s % Byte \in Bytes /\ s \div Byte \in Int
  BY DivMod DEF Bytes
<1>5. s4 \in Int /\ s3 \in Int /\ s2 \in Int /\ s1 \in Int
  <2>1. s4 \in Int
    BY <1>2, <1>3
  <2>2. s3 \in Int
    BY <1>1, <1>4, <2>1 DEF Bytes
  <2>3. s2 \in Int
    BY <1>1, <1>4, <2>2 DEF Bytes
  <2>4. s1 \in Int
    BY <1>1, <1>4, <2>3 DEF Bytes
  <2> QED BY <2>1, <2>2, <2>3, <2>4
<1>6. Relative(n, k) = <<s1 % Byte, s2 % Byte, s3 % Byte, s4 % Byte>>
  BY DEF Relative
<1>7. n[4] + k = s4 /\ n[3] + (s4 \div Byte) = s3
      /\ n[2] + (s3 \div Byte) = s2 /\ n[1] + (s2 \div Byte) = s1
  BY <1>3
<1> DEFINE r4 == s4 % Byte
           r3 == s3 % Byte
           r2 == s2 % Byte
           r1 == s1 % Byte
           q4 == s4 \div Byte
           q3 == s3 \div Byte
           q2 == s2 \div Byte
           q1 == s1 \div Byte
           v == ((r1 * Byte + r2) * Byte + r3) * Byte + r4
<1>8. /\ r4 \in Bytes /\ r3 \in Bytes /\ r2 \in Bytes /\ r1 \in Bytes
      /\ q4 \in Int /\ q3 \in Int /\ q2 \in Int /\ q1 \in Int
      /\ s4 = q4 * Byte + r4 /\ s3 = q3 * Byte + r3
      /\ s2 = q2 * Byte + r2 /\ s1 = q1 * Byte + r1
  <2> HIDE DEF s4, s3, s2, s1
  <2> QED BY <1>4, <1>5
<1>9. Relative(n, k) = <<r1, r2, r3, r4>>
  BY <1>6
<1>10. /\ n[4] + k = q4 * Byte + r4 /\ n[3] + q4 = q3 * Byte + r3
       /\ n[2] + q3 = q2 * Byte + r2 /\ n[1] + q2 = q1 * Byte + r1
  <2> HIDE DEF s4, s3, s2, s1
  <2> QED BY <1>7, <1>8
<1> HIDE DEF r1, r2, r3, r4, q1, q2, q3, q4, s1, s2, s3, s4
<1>11. Relative(n, k) = Number(v) /\ v \in 0 .. Space - 1
  BY <1>8, <1>9, NumberOfDigits
<1> HIDE DEF v
<1>12. Value(n) + k = q1 * Space + v
  <2> DEFINE b == Byte
             n1 == n[1]
             n2 == n[2]
             n3 == n[3]
             n4 == n[4]
  <2>1. /\ b \in Int /\ k \in Int
        /\ n1 \in Int /\ n2 \in Int /\ n3 \in Int /\ n4 \in Int
        /\ q1 \in Int /\ q2 \in Int /\ q3 \in Int /\ q4 \in Int
        /\ r1 \in Int /\ r2 \in Int /\ r3 \in Int /\ r4 \in Int
    BY <1>1, <1>8 DEF Bytes
  <2>2. n4 + k = q4 * b + r4
    BY <1>10
  <2>3. n3 + q4 = q3 * b + r3
    BY <1>10
  <2>4. n2 + q3 = q2 * b + r2
    BY <1>10
  <2>5. n1 + q2 = q1 * b + r1
    BY <1>10
  <2>6. Space = b * b * b * b /\ Value(n) = ((n1 * b + n2) * b + n3) * b + n4
    BY DEF Value
  <2>7. v = ((r1 * b + r2) * b + r3) * b + r4
    BY DEF v
  <2> HIDE DEF b, n1, n2, n3, n4
  <2> DEFINE x == n1 * b + n2
             y == r1 * b + r2
             u == x * b + n3
             w == y * b + r3
  <2>8. x \in Int /\ y \in Int
    BY <2>1
  <2>9. x + q3 = q1 * (b * b) + y
    <3>1. x + q3 = (n1 + q2) * b + r2
      BY <2>1, <2>4
    <3>2. (n1 + q2) * b = q1 * (b * b) + r1 * b
      BY <2>1, <2>5
    <3> QED BY <2>1, <3>1, <3>2
  <2> HIDE DEF x, y
  <2>10. u \in Int /\ w \in Int
    BY <2>1, <2>8
  <2>11. u + q4 = q1 * (b * b * b) + w
    <3>1. u + q4 = (x + q3) * b + r3
      BY <2>1, <2>3, <2>8
    <3>2. (x + q3) * b = q1 * (b * b * b) + y * b
      BY <2>1, <2>8, <2>9
    <3> QED BY <2>1, <2>8, <3>1, <3>2
  <2> HIDE DEF u, w
  <2>12. u * b + n4 + k = q1 * (b * b * b * b) + (w * b + r4)
    <3>1. u * b + n4 + k = (u + q4) * b + r4
      BY <2>1, <2>2, <2>10
    <3>2. (u + q4) * b = q1 * (b * b * b * b) + w * b
      BY <2>1, <2>10, <2>11
    <3> QED BY <2>1, <2>10, <3>1, <3>2
  <2> QED BY <2>6, <2>7, <2>12 DEF u, w, x, y
<1>13. (Value(n) + k) % Space = v
  BY <1>8, <1>11, <1>12, ModSpace
<1>14. Relative(n, k) \in Numbers
  BY <1>8, <1>9 DEF Numbers
<1> QED BY <1>11, <1>13, <1>14 DEF Plus
-----------------------------------------------------------------------------
States == {"closed", "syn_sent", "get_sent", "waiting", "last_ack", "done"}
Data == {<<>>} \cup (Nat \X BOOLEAN)
Segments ==
  [flags : SUBSET Flags, seq : Numbers, ack : Numbers, len : 0 .. Word - Byte,
   data : Data]
Clients ==
  [state : States, conn : 0 .. MaxConns, cmd : BOOLEAN, iss : Numbers,
   nxt : Numbers, rcv : Numbers, page : Data,
   before : {<<>>} \cup (Numbers \X Int)]

(* The client has reached, and is not behind, all that an answer to this   *)
(* segment acknowledges.                                                   *)
BoardBound(e) ==
  {s \in Segments :
     /\ s.len > 0 => s.data # <<>> /\ Plus(s.seq, s.len) \in e
     /\ "SYN" \in s.flags \/ ("FIN" \in s.flags /\ s.len = 0) => Plus(s.seq, 1) \in e}
ClientBound(e) == {s \in Segments : s.ack \in e /\ s.len < Word - Byte}

(* The client knows the ends of what it has sent and may repeat. *)
ClientOK ==
  /\ client \in Clients
  /\ ends \subseteq Numbers
  /\ client.state = "syn_sent" =>
       client.nxt = Plus(client.iss, 1) /\ client.nxt \in ends
  /\ client.state = "get_sent" => Plus(Plus(client.iss, 1), GetLen) \in ends
  /\ client.state = "last_ack" => Plus(client.nxt, 1) \in ends

SessionInv ==
  /\ ClientOK
  /\ toBoard \in Seq(BoardBound(ends))
  /\ toClient \in Seq(ClientBound(ends))
  /\ seqnum \in Bytes /\ svitLED \in BOOLEAN

(* The client's numbers stay in the number space. *)
LEMMA Sums == \A n \in Numbers : \A k \in 0 .. Word - Byte : Plus(n, k) \in Numbers
BY CarriesThrough

(* What the lengths of pages and requests are known to be. *)
LEMMA Lengths ==
  /\ GetLen \in 1 .. Word - Byte
  /\ \A on \in BOOLEAN : PageLen[on] \in 1 .. Word - Byte - 1
  /\ Word \in Nat /\ Byte \in Nat /\ 1 \in 0 .. Word - Byte /\ Word - Byte >= 2
BY Sizes, SessionAssumption

(* Queues: of a larger set, with an element taken out, joined.             *)
LEMMA SeqOfMore ==
  ASSUME NEW S, NEW T, S \subseteq T, NEW q \in Seq(S)
  PROVE  q \in Seq(T)
OBVIOUS

LEMMA Removed ==
  ASSUME NEW S, NEW q \in Seq(S), NEW i \in DOMAIN q
  PROVE  RemoveAt(q, i) \in Seq(S) /\ q[i] \in S
<1>1. Len(q) \in Nat /\ i \in 1 .. Len(q) /\ q[i] \in S
  OBVIOUS
<1>2. SubSeq(q, 1, i - 1) \in Seq(S)
  BY <1>1, SubSeqProperties
<1>3. SubSeq(q, i + 1, Len(q)) \in Seq(S)
  BY <1>1, SubSeqProperties
<1> QED BY <1>1, <1>2, <1>3, ConcatProperties DEF RemoveAt

LEMMA Joined ==
  ASSUME NEW S, NEW q \in Seq(S), NEW r \in Seq(S)
  PROVE  q \o r \in Seq(S)
BY ConcatProperties

(* What may be acknowledged stays so when the client goes on. *)
LEMMA Bounds ==
  ASSUME NEW e, NEW f, e \subseteq f
  PROVE  BoardBound(e) \subseteq BoardBound(f) /\ ClientBound(e) \subseteq ClientBound(f)
BY DEF BoardBound, ClientBound

(* A segment is its fields. *)
LEMMA ItsFields ==
  /\ \A s \in Segments : IsSegment(s)
  /\ \A s : IsSegment(s) => s = Segment(s.flags, s.seq, s.ack, s.len, s.data)
BY DEF Segments, Segment, IsSegment, SegmentFields

(* What a builder sets, and what it leaves. *)
LEMMA SynAckIs ==
  ASSUME NEW s, IsSegment(s), NEW n
  PROVE  SynAck(s, n) = Segment({"SYN", "ACK"}, Initial(n), Relative(s.seq, 1), 0, <<>>)
<1> DEFINE a == SynAck(s, n)
<1>1. /\ IsSegment(a) /\ a.flags = {"SYN", "ACK"} /\ a.len = 0 /\ a.data = <<>>
      /\ a.seq = Initial(n) /\ a.ack = Relative(s.seq, 1)
  BY DEF SynAck, Bare, HeadOfSession, IsSegment, SegmentFields
<1> HIDE DEF a
<1>2. a = Segment({"SYN", "ACK"}, Initial(n), Relative(s.seq, 1), 0, <<>>)
  BY <1>1, ItsFields
<1> QED BY <1>2 DEF a

LEMMA AckIs ==
  ASSUME NEW s, IsSegment(s)
  PROVE  AckFromAny(s) =
           Segment({"ACK"}, s.ack,
                   Relative(s.seq, IF s.len = 0 THEN 1 ELSE s.len), 0, <<>>)
<1> DEFINE a == AckFromAny(s)
           r == Relative(s.seq, IF s.len = 0 THEN 1 ELSE s.len)
<1>1. /\ IsSegment(a) /\ a.flags = {"ACK"} /\ a.len = 0 /\ a.data = <<>>
      /\ a.seq = s.ack /\ a.ack = r
  BY DEF AckFromAny, Bare, HeadInSession, IsSegment, SegmentFields
<1> HIDE DEF a, r
<1>2. a = Segment({"ACK"}, s.ack, r, 0, <<>>)
  BY <1>1, ItsFields
<1> QED BY <1>2 DEF a, r

LEMMA DataIs ==
  ASSUME NEW s, IsSegment(s), NEW l, NEW d
  PROVE  AckWithData(s, l, d) = Segment({"ACK", "PSH", "FIN"}, s.seq, s.ack, l, d)
<1> DEFINE a == AckWithData(s, l, d)
<1>1. /\ IsSegment(a) /\ a.flags = {"ACK", "PSH", "FIN"} /\ a.len = l /\ a.data = d
      /\ a.seq = s.seq /\ a.ack = s.ack
  BY DEF AckWithData, IsSegment, SegmentFields
<1> HIDE DEF a
<1>2. a = Segment({"ACK", "PSH", "FIN"}, s.seq, s.ack, l, d)
  BY <1>1, ItsFields
<1> QED BY <1>2 DEF a

(* What makes a segment one of the server's, or one for the server. *)
LEMMA FromServer ==
  ASSUME NEW e, NEW flags \in SUBSET Flags, NEW seq \in Numbers,
         NEW ack \in Numbers, ack \in e, NEW len \in 0 .. Word - Byte - 1,
         NEW data \in Data
  PROVE  Segment(flags, seq, ack, len, data) \in ClientBound(e)
BY Lengths DEF Segment, ClientBound, Segments

LEMMA ForServer ==
  ASSUME NEW e, NEW flags \in SUBSET Flags, NEW seq \in Numbers,
         NEW ack \in Numbers, NEW len \in 0 .. Word - Byte, NEW data \in Data,
         len # 0 => data # <<>> /\ Plus(seq, len) \in e,
         "SYN" \in flags \/ ("FIN" \in flags /\ len = 0) => Plus(seq, 1) \in e
  PROVE  Segment(flags, seq, ack, len, data) \in BoardBound(e)
BY DEF Segment, BoardBound, Segments

(* The handler acknowledges what it is sent, and no more. *)
LEMMA AnswersBounded ==
  ASSUME NEW e, NEW seg \in BoardBound(e), NEW n \in Bytes,
         NEW len \in 1 .. Word - Byte - 1, NEW data \in Data
  PROVE  Answers(seg, n, len, data) \in Seq(ClientBound(e))
<1>1. /\ seg \in Segments
      /\ seg.len > 0 => Plus(seg.seq, seg.len) \in e
      /\ "SYN" \in seg.flags \/ ("FIN" \in seg.flags /\ seg.len = 0)
           => Plus(seg.seq, 1) \in e
  BY DEF BoardBound
<1>2. /\ Relative(seg.seq, 1) = Plus(seg.seq, 1)
      /\ Relative(seg.seq, seg.len) = Plus(seg.seq, seg.len)
      /\ Relative(seg.seq, 1) \in Numbers /\ Relative(seg.seq, seg.len) \in Numbers
  <2>1. seg.seq \in Numbers /\ seg.len \in 0 .. Word - Byte
    BY <1>1 DEF Segments
  <2> QED BY <2>1, Lengths, CarriesThrough
<1>3. Initial(n) \in Numbers
  BY Sizes DEF Initial, Numbers, Bytes
<1>4. <<>> \in Data /\ 0 \in 0 .. Word - Byte /\ 0 < Word - Byte
  BY Lengths DEF Data
<1>5. {"SYN", "ACK"} \in SUBSET Flags /\ {"ACK"} \in SUBSET Flags
      /\ {"ACK", "PSH", "FIN"} \in SUBSET Flags
  BY DEF Flags
<1>6. "SYN" \in seg.flags => SynAck(seg, n) \in ClientBound(e)
  <2>1. SynAck(seg, n) =
          Segment({"SYN", "ACK"}, Initial(n), Relative(seg.seq, 1), 0, <<>>)
    BY <1>1, ItsFields, SynAckIs
  <2>2. 0 \in 0 .. Word - Byte - 1
    BY Lengths
  <2> QED BY <1>1, <1>2, <1>3, <1>4, <1>5, <2>1, <2>2, FromServer
<1>7. seg.len # 0 \/ ("FIN" \in seg.flags /\ "SYN" \notin seg.flags)
      => AckFromAny(seg) \in ClientBound(e)
  <2> DEFINE rel == IF seg.len = 0 THEN 1 ELSE seg.len
  <2>1. AckFromAny(seg) =
          Segment({"ACK"}, seg.ack, Relative(seg.seq, rel), 0, <<>>)
    BY <1>1, ItsFields, AckIs, Zenon
  <2>2. seg.len \in Nat /\ seg.ack \in Numbers
    BY <1>1, Lengths DEF Segments
  <2>3. Relative(seg.seq, rel) \in Numbers
    BY <1>2
  <2>4. seg.len # 0 \/ ("FIN" \in seg.flags /\ "SYN" \notin seg.flags)
        => Relative(seg.seq, rel) \in e
    <3>1. seg.len # 0 => seg.len > 0
      BY <2>2
    <3> QED BY <1>1, <1>2, <3>1
  <2>5. 0 \in 0 .. Word - Byte - 1
    BY Lengths
  <2> HIDE DEF rel
  <2> QED BY <1>4, <1>5, <2>1, <2>2, <2>3, <2>4, <2>5, FromServer
<1>8. \A a \in ClientBound(e) : AckWithData(a, len, data) \in ClientBound(e)
  <2> SUFFICES ASSUME NEW a \in ClientBound(e)
               PROVE  AckWithData(a, len, data) \in ClientBound(e)
    OBVIOUS
  <2>1. a \in Segments /\ a.ack \in e /\ a.seq \in Numbers /\ a.ack \in Numbers
    BY DEF ClientBound, Segments
  <2>2. AckWithData(a, len, data) =
          Segment({"ACK", "PSH", "FIN"}, a.seq, a.ack, len, data)
    BY <2>1, ItsFields, DataIs
  <2>3. len \in 0 .. Word - Byte - 1
    BY Lengths
  <2> QED BY <1>5, <2>1, <2>2, <2>3, FromServer
<1> QED BY <1>6, <1>7, <1>8 DEF Answers

(* What the client repeats is acknowledged with a number it has reached.   *)
LEMMA UnacknowledgedBounded ==
  ClientOK => Unacknowledged \in Seq(BoardBound(ends))
<1> SUFFICES ASSUME ClientOK
             PROVE  Unacknowledged \in Seq(BoardBound(ends))
  OBVIOUS
<1> DEFINE c == client
<1>1. /\ c.conn \in Nat /\ c.cmd \in BOOLEAN /\ c.iss \in Numbers
      /\ c.nxt \in Numbers /\ c.rcv \in Numbers /\ c.state \in States
  BY DEF ClientOK, Clients
<1>2. Zero \in Numbers /\ Plus(c.iss, 1) \in Numbers
  <2>1. 0 \in Bytes
    BY Sizes DEF Bytes
  <2>2. Zero \in Numbers
    BY <2>1 DEF Zero, Numbers
  <2> QED BY <1>1, <2>2, Sums, Lengths
<1>3. <<>> \in Data /\ <<c.conn, c.cmd>> \in Data /\ <<c.conn, c.cmd>> # <<>>
  BY <1>1 DEF Data
<1>9. /\ {"SYN"} \in SUBSET Flags /\ {"ACK"} \in SUBSET Flags
      /\ {"ACK", "PSH"} \in SUBSET Flags /\ {"ACK", "FIN"} \in SUBSET Flags
      /\ "SYN" \notin {"ACK"} /\ "FIN" \notin {"ACK"}
      /\ "SYN" \notin {"ACK", "PSH"} /\ "FIN" \notin {"ACK", "PSH"}
  BY DEF Flags
<1>10. 0 \in 0 .. Word - Byte /\ GetLen \in 0 .. Word - Byte
  BY Lengths
<1>4. CASE c.state = "syn_sent"
  <2>1. Segment({"SYN"}, c.iss, Zero, 0, <<>>) \in BoardBound(ends)
    <3>1. Plus(c.iss, 1) \in ends
      BY <1>4 DEF ClientOK
    <3> QED BY <1>1, <1>2, <1>3, <1>9, <1>10, <3>1, ForServer
  <2> QED BY <1>4, <2>1 DEF Unacknowledged
<1>5. CASE c.state = "get_sent"
  <2>1. Segment({"ACK"}, Plus(c.iss, 1), c.rcv, 0, <<>>) \in BoardBound(ends)
    BY <1>1, <1>2, <1>3, <1>9, <1>10, ForServer
  <2>2. Segment({"ACK", "PSH"}, Plus(c.iss, 1), c.rcv, GetLen, <<c.conn, c.cmd>>)
          \in BoardBound(ends)
    <3>1. Plus(Plus(c.iss, 1), GetLen) \in ends
      BY <1>5 DEF ClientOK
    <3> QED BY <1>1, <1>2, <1>3, <1>9, <1>10, <3>1, ForServer
  <2> QED BY <1>5, <2>1, <2>2 DEF Unacknowledged
<1>6. CASE c.state = "last_ack"
  <2>1. Segment({"ACK", "FIN"}, c.nxt, c.rcv, 0, <<>>) \in BoardBound(ends)
    <3>1. Plus(c.nxt, 1) \in ends
      BY <1>6 DEF ClientOK
    <3> QED BY <1>1, <1>3, <1>9, <1>10, <3>1, ForServer
  <2> QED BY <1>6, <2>1 DEF Unacknowledged
<1>7. CASE c.state \in {"closed", "waiting", "done"}
  BY <1>7 DEF Unacknowledged
<1> QED BY <1>1, <1>4, <1>5, <1>6, <1>7 DEF States
-----------------------------------------------------------------------------
LEMMA UnacknowledgedAfter ==
  ClientOK' => Unacknowledged' \in Seq(BoardBound(ends'))
<1>1. (ClientOK => Unacknowledged \in Seq(BoardBound(ends)))'
  BY UnacknowledgedBounded, PTL
<1> QED BY <1>1

(* The client moves on: what it now sends may be answered. *)
LEMMA BecomeBounded ==
  ASSUME SessionInv, ClientOK', NEW c, NEW end, Become(c, end)
  PROVE  toBoard' \in Seq(BoardBound(ends')) /\ ends \subseteq ends'
<1>1. ends \subseteq ends' /\ toBoard' = toBoard \o Unacknowledged'
  BY DEF Become
<1>2. toBoard \in Seq(BoardBound(ends'))
  BY <1>1, Bounds, SeqOfMore DEF SessionInv
<1> QED BY <1>1, <1>2, UnacknowledgedAfter, Joined

(* The actions one by one: of the client by itself, of a segment it takes, *)
(* of the server, of the network.                                          *)
LEMMA OpenStep ==
  ASSUME SessionInv, NEW cmd \in BOOLEAN, NEW iss \in ClientIsns, Open(cmd, iss)
  PROVE  SessionInv'
<1>1. iss \in Numbers /\ Plus(iss, 1) \in Numbers
  BY SessionAssumption, Sums, Lengths
<1>2. /\ client' = [client EXCEPT !.state = "syn_sent", !.conn = @ + 1, !.cmd = cmd,
                           !.iss = iss, !.nxt = Plus(iss, 1), !.page = <<>>]
      /\ ends' = ends \cup {Plus(iss, 1)}
      /\ client.conn < MaxConns
  BY DEF Open, Become
<1>3. client' \in Clients
  <2>1. client \in Clients /\ <<>> \in Data /\ MaxConns \in Nat
    BY SessionAssumption DEF SessionInv, ClientOK, Data
  <2>2. client.conn + 1 \in 0 .. MaxConns
    BY <1>2, <2>1 DEF Clients
  <2> QED BY <1>1, <1>2, <2>1, <2>2 DEF Clients, States
<1>4. ClientOK'
  <2>1. /\ client'.state = "syn_sent" /\ client'.iss = iss
        /\ client'.nxt = Plus(iss, 1)
    BY <1>2 DEF SessionInv, ClientOK, Clients
  <2> QED BY <1>1, <1>2, <1>3, <2>1 DEF SessionInv, ClientOK
<1>5. toBoard' \in Seq(BoardBound(ends')) /\ ends \subseteq ends'
  BY <1>4, BecomeBounded DEF Open
<1>6. toClient' \in Seq(ClientBound(ends'))
  BY <1>5, Bounds, SeqOfMore DEF SessionInv, Open
<1> QED BY <1>4, <1>5, <1>6 DEF SessionInv, Open, board

LEMMA RepeatStep ==
  ASSUME SessionInv, Repeat
  PROVE  SessionInv'
<1>1. Unacknowledged \in Seq(BoardBound(ends)) /\ Unacknowledged # <<>>
  BY UnacknowledgedBounded DEF SessionInv, Repeat
<1>2. Last(Unacknowledged) \in BoardBound(ends)
  <2> DEFINE u == Unacknowledged
  <2>1. Len(u) \in DOMAIN u
    BY <1>1, EmptySeq
  <2> QED BY <1>1, <2>1 DEF Last
<1>3. toBoard' = Append(toBoard, Last(Unacknowledged)) /\ ends' = ends /\ client' = client
      /\ toClient' = toClient /\ board' = board
  BY DEF Repeat
<1>4. toBoard' \in Seq(BoardBound(ends'))
  BY <1>2, <1>3, AppendProperties DEF SessionInv
<1> QED BY <1>3, <1>4 DEF SessionInv, ClientOK, board

LEMMA GiveUpStep ==
  ASSUME SessionInv, GiveUp
  PROVE  SessionInv'
<1>1. /\ client' = [client EXCEPT !.state = "closed",
                              !.before = <<client.rcv, PageLen[client.cmd]>>]
      /\ ends' = ends /\ toBoard' = toBoard /\ toClient' = toClient /\ board' = board
  BY DEF GiveUp, network
<1>2. client' \in Clients /\ client'.state = "closed"
  <2>1. client \in Clients /\ client.rcv \in Numbers /\ client.cmd \in BOOLEAN
    BY DEF SessionInv, ClientOK, Clients
  <2>2. <<client.rcv, PageLen[client.cmd]>> \in {<<>>} \cup (Numbers \X Int)
    BY <2>1, Lengths
  <2> QED BY <1>1, <2>1, <2>2 DEF Clients, States
<1>3. ClientOK'
  BY <1>1, <1>2 DEF SessionInv, ClientOK
<1> QED BY <1>1, <1>3 DEF SessionInv, board

(* The client after each of the segments it takes. *)
LEMMA EstablishedStep ==
  ASSUME ClientOK, NEW seg \in Segments, Established(seg)
  PROVE  ClientOK'
<1>1. /\ client' = [client EXCEPT !.state = "get_sent", !.rcv = Plus(seg.seq, 1),
                                  !.nxt = Plus(@, GetLen)]
      /\ ends' = ends \cup {Plus(client.nxt, GetLen)}
      /\ client.state = "syn_sent"
  BY DEF Established, Become, IsSynAck
<1>2. /\ client \in Clients /\ client.nxt = Plus(client.iss, 1)
      /\ client.nxt \in Numbers
  BY <1>1 DEF ClientOK, Clients
<1>3. Plus(seg.seq, 1) \in Numbers /\ Plus(client.nxt, GetLen) \in Numbers
  <2>1. seg.seq \in Numbers
    BY DEF Segments
  <2>2. GetLen \in 0 .. Word - Byte
    BY Lengths
  <2> QED BY <1>2, <2>1, <2>2, Sums, Lengths
<1>4. client' \in Clients /\ client'.state = "get_sent" /\ client'.iss = client.iss
  BY <1>1, <1>2, <1>3 DEF Clients, States
<1> QED BY <1>1, <1>2, <1>3, <1>4 DEF ClientOK

LEMMA GetAcknowledgedStep ==
  ASSUME ClientOK, NEW seg, GetAcknowledged(seg)
  PROVE  ClientOK'
<1>1. client' = [client EXCEPT !.state = "waiting"] /\ ends' = ends
  BY DEF GetAcknowledged
<1>2. client' \in Clients /\ client'.state = "waiting"
  BY <1>1 DEF ClientOK, Clients, States
<1> QED BY <1>1, <1>2 DEF ClientOK

LEMMA PageArrivesStep ==
  ASSUME ClientOK, NEW seg \in ClientBound(ends), PageArrives(seg)
  PROVE  ClientOK'
<1>1. /\ client' = [client EXCEPT !.state = "last_ack", !.page = seg.data,
                                  !.rcv = Plus(seg.seq, seg.len + 1),
                                  !.before = <<client.rcv, seg.len>>]
      /\ ends' = ends \cup {Plus(client.nxt, 1)}
  BY DEF PageArrives, Become
<1>2. /\ client \in Clients /\ client.rcv \in Numbers /\ client.nxt \in Numbers
      /\ seg.seq \in Numbers /\ seg.len \in Int /\ seg.data \in Data
      /\ seg.len + 1 \in 0 .. Word - Byte
  BY Lengths DEF ClientOK, Clients, ClientBound, Segments
<1>3. Plus(seg.seq, seg.len + 1) \in Numbers /\ Plus(client.nxt, 1) \in Numbers
  BY <1>2, Sums, Lengths
<1>4. <<client.rcv, seg.len>> \in {<<>>} \cup (Numbers \X Int)
  BY <1>2
<1>5. /\ client' \in Clients /\ client'.state = "last_ack"
      /\ client'.nxt = client.nxt
  BY <1>1, <1>2, <1>3, <1>4 DEF Clients, States
<1> QED BY <1>1, <1>3, <1>5 DEF ClientOK

LEMMA FinAcknowledgedStep ==
  ASSUME ClientOK, NEW seg, FinAcknowledged(seg)
  PROVE  ClientOK'
<1>1. client' = [client EXCEPT !.state = "done"] /\ ends' = ends
  BY DEF FinAcknowledged
<1>2. client' \in Clients /\ client'.state = "done"
  BY <1>1 DEF ClientOK, Clients, States
<1> QED BY <1>1, <1>2 DEF ClientOK

(* An acknowledgement the client sends at its expected number is answered  *)
(* with nothing.                                                           *)
LEMMA UnexpectedStep ==
  ASSUME SessionInv, NEW seg, Unexpected(seg)
  PROVE  ClientOK' /\ ends' = ends /\ toBoard' \in Seq(BoardBound(ends))
<1>1. client' = client /\ ends' = ends
  BY DEF Unexpected
<1>2. ClientOK'
  BY <1>1 DEF SessionInv, ClientOK
<1> DEFINE at == IF client.state = "last_ack" THEN Plus(client.nxt, 1) ELSE client.nxt
           reply == Segment({"ACK"}, at, client.rcv, 0, <<>>)
<1>3. reply \in BoardBound(ends)
  <2>1. client.rcv \in Numbers /\ client.nxt \in Numbers
    BY DEF SessionInv, ClientOK, Clients
  <2>2. at \in Numbers
    BY <2>1, Sums, Lengths
  <2>3. {"ACK"} \in SUBSET Flags /\ "SYN" \notin {"ACK"} /\ "FIN" \notin {"ACK"}
    BY DEF Flags
  <2>4. <<>> \in Data /\ 0 \in 0 .. Word - Byte
    BY Lengths DEF Data
  <2> HIDE DEF at
  <2> QED BY <2>1, <2>2, <2>3, <2>4, ForServer
<1>4. toBoard' = toBoard \/ toBoard' = Append(toBoard, reply)
  BY DEF Unexpected
<1> HIDE DEF reply
<1>5. toBoard' \in Seq(BoardBound(ends))
  BY <1>3, <1>4, AppendProperties DEF SessionInv
<1> QED BY <1>1, <1>2, <1>5

(* Whatever the client takes, its queue of answers gets shorter, and what  *)
(* it sends may be answered.                                               *)
LEMMA ClientReceivesStep ==
  ASSUME SessionInv, ClientReceives
  PROVE  SessionInv'
<1>1. PICK i \in DOMAIN toClient :
        /\ \/ Established(toClient[i]) \/ GetAcknowledged(toClient[i])
           \/ PageArrives(toClient[i]) \/ FinAcknowledged(toClient[i])
           \/ Unexpected(toClient[i])
        /\ toClient' = RemoveAt(toClient, i)
        /\ UNCHANGED board
  BY DEF ClientReceives, Arriving
<1> DEFINE seg == toClient[i]
<1>2. toClient' \in Seq(ClientBound(ends)) /\ seg \in ClientBound(ends) /\ seg \in Segments
  BY <1>1, Removed DEF SessionInv, ClientBound
<1> HIDE DEF seg
<1>3. ClientOK' /\ toBoard' \in Seq(BoardBound(ends')) /\ ends \subseteq ends'
  <2>1. CASE Established(seg)
    <3>1. ClientOK'
      BY <1>2, <2>1, EstablishedStep DEF SessionInv
    <3> QED BY <2>1, <3>1, BecomeBounded DEF Established
  <2>2. CASE PageArrives(seg)
    <3>1. ClientOK'
      BY <1>2, <2>2, PageArrivesStep DEF SessionInv
    <3> QED BY <2>2, <3>1, BecomeBounded DEF PageArrives
  <2>3. CASE GetAcknowledged(seg)
    BY <2>3, GetAcknowledgedStep DEF SessionInv, GetAcknowledged
  <2>4. CASE FinAcknowledged(seg)
    BY <2>4, FinAcknowledgedStep DEF SessionInv, FinAcknowledged
  <2>5. CASE Unexpected(seg)
    BY <2>5, UnexpectedStep
  <2> QED BY <1>1, <2>1, <2>2, <2>3, <2>4, <2>5 DEF seg
<1>4. toClient' \in Seq(ClientBound(ends'))
  BY <1>2, <1>3, Bounds, SeqOfMore
<1> QED BY <1>1, <1>3, <1>4 DEF SessionInv, board

(* The server takes a segment that may be acknowledged.                    *)
LEMMA BoardReceivesStep ==
  ASSUME SessionInv, BoardReceives
  PROVE  SessionInv'
<1>1. PICK i \in DOMAIN toBoard :
        /\ svitLED' = LedAfter(toBoard[i])
        /\ seqnum' = SeqnumAfter(toBoard[i], seqnum)
        /\ toClient' = toClient \o
             Answers(toBoard[i], seqnum, PageLen[LedAfter(toBoard[i])], Page(toBoard[i]))
        /\ toBoard' = RemoveAt(toBoard, i)
        /\ UNCHANGED <<client, ends>>
  BY DEF BoardReceives, Arriving
<1> DEFINE seg == toBoard[i]
<1>2. toBoard' \in Seq(BoardBound(ends)) /\ seg \in BoardBound(ends) /\ seg \in Segments
  BY <1>1, Removed DEF SessionInv, BoardBound
<1> HIDE DEF seg
<1>3. LedAfter(seg) \in BOOLEAN /\ Page(seg) \in Data
  <2>1. CASE seg.len > 0
    <3>1. seg.data \in Nat \X BOOLEAN
      BY <1>2, <2>1 DEF BoardBound, Segments, Data
    <3>2. seg.data[1] \in Nat /\ seg.data[2] \in BOOLEAN
      BY <3>1
    <3>3. LedAfter(seg) = seg.data[2] /\ Page(seg) = <<seg.data[1], seg.data[2]>>
      BY <2>1 DEF LedAfter, Page
    <3> QED BY <3>2, <3>3 DEF Data
  <2>2. CASE ~ seg.len > 0
    BY <2>2 DEF LedAfter, Page, SessionInv, Data
  <2> QED BY <2>1, <2>2
<1>4. PageLen[LedAfter(seg)] \in 1 .. Word - Byte - 1
  BY <1>3, Lengths
<1>5. Answers(seg, seqnum, PageLen[LedAfter(seg)], Page(seg)) \in Seq(ClientBound(ends))
  BY <1>2, <1>3, <1>4, AnswersBounded DEF SessionInv
<1>6. toClient' \in Seq(ClientBound(ends))
  BY <1>1, <1>5, Joined DEF SessionInv, seg
<1>7. seqnum' \in Bytes
  <2>1. seqnum \in Bytes /\ (seqnum + 2) % Byte \in Bytes
    BY Sizes DEF SessionInv, Bytes
  <2> QED BY <1>1, <2>1 DEF SeqnumAfter, NextSeqnum
<1>8. svitLED' \in BOOLEAN
  BY <1>1, <1>3 DEF seg
<1> QED BY <1>1, <1>2, <1>6, <1>7, <1>8 DEF SessionInv, ClientOK

(* What is lost changes nothing for the rest. *)
LEMMA LossStep ==
  ASSUME SessionInv, LoseToBoard \/ LoseToClient
  PROVE  SessionInv'
<1>1. CASE LoseToBoard
  <2>1. PICK i \in DOMAIN toBoard : toBoard' = RemoveAt(toBoard, i)
    BY <1>1 DEF LoseToBoard
  <2>2. toBoard' \in Seq(BoardBound(ends))
    BY <2>1, Removed DEF SessionInv
  <2> QED BY <1>1, <2>2 DEF LoseToBoard, SessionInv, ClientOK, board
<1>2. CASE LoseToClient
  <2>1. PICK i \in DOMAIN toClient : toClient' = RemoveAt(toClient, i)
    BY <1>2 DEF LoseToClient
  <2>2. toClient' \in Seq(ClientBound(ends))
    BY <2>1, Removed DEF SessionInv
  <2> QED BY <1>2, <2>2 DEF LoseToClient, SessionInv, ClientOK, board
<1> QED BY <1>1, <1>2

(* In the beginning nothing is under way. *)
LEMMA InitBounded == Init => SessionInv
<1> SUFFICES ASSUME Init PROVE SessionInv
  OBVIOUS
<1>1. Zero \in Numbers
  <2>1. 0 \in Bytes
    BY Sizes DEF Bytes
  <2> QED BY <2>1 DEF Zero, Numbers
<1>2. client \in Clients /\ client.state = "closed"
  <2>1. 0 \in 0 .. MaxConns /\ <<>> \in Data
    BY SessionAssumption DEF Data
  <2> QED BY <1>1, <2>1 DEF Init, Clients, States
<1>3. toBoard \in Seq(BoardBound(ends)) /\ toClient \in Seq(ClientBound(ends))
  BY DEF Init
<1> QED BY <1>2, <1>3, SessionAssumption DEF Init, SessionInv, ClientOK

(* The inductive invariant: every segment under way to the server, and all *)
(* that the client may repeat, ends at a number the client has reached,    *)
(* and so does every acknowledgement under way to the client.              *)
THEOREM SessionInvariant == Spec => []SessionInv
<1>1. SessionInv /\ [Next]_vars => SessionInv'
  <2> SUFFICES ASSUME SessionInv, [Next]_vars PROVE SessionInv'
    OBVIOUS
  <2>1. CASE UNCHANGED vars
    BY <2>1 DEF vars, SessionInv, ClientOK
  <2> QED BY <2>1, OpenStep, RepeatStep, GiveUpStep, ClientReceivesStep,
             BoardReceivesStep, LossStep DEF Next
<1> QED BY <1>1, InitBounded, PTL DEF Spec

(* Queues, numbers and LED of server and client keep their types, however  *)
(* segments are lost, repeated or reordered.                               *)
THEOREM SessionTypeOK == Spec => []TypeOK
<1>1. SessionInv => TypeOK
  BY DEF SessionInv, ClientOK, TypeOK, Clients, States, BoardBound, ClientBound, Segments
<1> QED BY <1>1, SessionInvariant, PTL

(* make_tcphead: whatever the carry, the server acknowledges nothing the   *)
(* client has not reached.                                                 *)
THEOREM NeverAcknowledgesMore == Spec => []AcknowledgesWhatWasSent
<1>1. SessionInv => AcknowledgesWhatWasSent
  BY DEF SessionInv, AcknowledgesWhatWasSent, ClientBound
<1> QED BY <1>1, SessionInvariant, PTL
-----------------------------------------------------------------------------
(* The places of SYNs in a queue. *)
SynsIn(q) == {i \in DOMAIN q : "SYN" \in q[i].flags}

(* SYN-ACKs made since the network was last empty, at most.                *)
Made == syns - Cardinality(SynsIn(toBoard))

(* A value that seqnum had since then, behind one of those SYN-ACKs.       *)
Recent(b) ==
  b \in Bytes /\ \E k \in 1 .. Made : b + 2 * k \in {seqnum, seqnum + Byte}

(* No SYN-ACK under way has this byte in its initial number, no two have   *)
(* the same.                                                               *)
NotOffered(b, q) == \A s \in Range(q) : "SYN" \in s.flags => s.seq[3] # b
Distinct(q) == \A i, j \in SynsIn(q) : q[i].seq[3] = q[j].seq[3] => i = j
IsOffer(s) == s.seq = Initial(s.seq[3]) /\ Recent(s.seq[3])

InSession == client.state \in {"get_sent", "waiting"}

(* A number a page begins with: behind the initial number of a SYN-ACK     *)
(* that was taken, and in the connection that took it.                     *)
InUse(n, data) ==
  /\ n = <<0, 0, n[3], 1>> /\ Recent(n[3]) /\ NotOffered(n[3], toClient)
  /\ InSession /\ n = client.rcv => data = <<client.conn, client.cmd>>

IsPage(s) == InUse(s.seq, s.data) /\ s.len = PageLen[s.data[2]]

(* seqnum in make_tcphead, with pages of any length: a client takes the    *)
(* page of another connection only if that page is longer than two steps   *)
(* of the third byte.                                                      *)
OnlyLongPagesMistaken ==
  client.page # <<>> =>
    client.page = <<client.conn, client.cmd>> \/ PageLen[client.page[2]] > 2 * Byte

(* The inductive invariant: SYN-ACKs made and SYNs to be answered are not  *)
(* more than the SYNs sent, no two SYN-ACKs under way offer the same       *)
(* number, and the numbers of requests, of pages and of the session belong *)
(* to one connection each.                                                 *)
NumbersInv ==
  /\ syns \in Nat /\ 2 * syns < Byte /\ Made >= 0
  /\ Distinct(toClient)
  /\ \A s \in Range(toClient) : "SYN" \in s.flags => IsOffer(s)
  /\ \A s \in Range(toBoard) : s.len > 0 => InUse(s.ack, s.data)
  /\ \A s \in Range(toClient) : s.len > 0 => IsPage(s)
  /\ InSession => InUse(client.rcv, <<client.conn, client.cmd>>)
-----------------------------------------------------------------------------
(* What is left of a queue is what was there before or behind what was     *)
(* taken out of it.                                                        *)
LEMMA RemovedIs ==
  ASSUME NEW S, NEW q \in Seq(S), NEW i \in DOMAIN q
  PROVE  LET r == RemoveAt(q, i)
         IN  /\ DOMAIN r = 1 .. Len(q) - 1
             /\ \A j \in DOMAIN r : r[j] = q[IF j < i THEN j ELSE j + 1]
<1> DEFINE a == SubSeq(q, 1, i - 1)
           b == SubSeq(q, i + 1, Len(q))
<1>1. Len(q) \in Nat /\ i \in 1 .. Len(q)
  OBVIOUS
<1>2. a \in Seq(S) /\ Len(a) = i - 1 /\ \A j \in 1 .. i - 1 : a[j] = q[j]
  BY <1>1, SubSeqProperties
<1>3. /\ b \in Seq(S) /\ Len(b) = Len(q) - i
      /\ \A j \in 1 .. Len(q) - i : b[j] = q[i + j]
  <2>1. CASE i = Len(q)
    BY <1>1, <2>1
  <2>2. CASE i < Len(q)
    BY <1>1, <2>2, SubSeqProperties
  <2> QED BY <1>1, <2>1, <2>2
<1>4. RemoveAt(q, i) = a \o b
  BY DEF RemoveAt
<1> HIDE DEF a, b
<1>5. /\ a \o b \in Seq(S) /\ Len(a \o b) = Len(a) + Len(b)
      /\ \A j \in 1 .. Len(a) + Len(b) :
           (a \o b)[j] = IF j <= Len(a) THEN a[j] ELSE b[j - Len(a)]
  BY <1>2, <1>3, ConcatProperties, Zenon
<1> DEFINE r == a \o b
<1>6. \A j \in 1 .. Len(a) + Len(b) :
        r[j] = IF j <= Len(a) THEN a[j] ELSE b[j - Len(a)]
  BY <1>5
<1>7. Len(r) = Len(q) - 1 /\ r \in Seq(S)
  BY <1>1, <1>2, <1>3, <1>5
<1> HIDE DEF r
<1>8. DOMAIN r = 1 .. Len(q) - 1
  BY <1>7
<1>9. ASSUME NEW j \in 1 .. Len(q) - 1
      PROVE  r[j] = q[IF j < i THEN j ELSE j + 1]
  <2>1. r[j] = IF j <= i - 1 THEN a[j] ELSE b[j - (i - 1)]
    BY <1>1, <1>2, <1>3, <1>6
  <2>2. CASE j < i
    BY <1>1, <1>2, <2>1, <2>2
  <2>3. CASE ~(j < i)
    <3>1. j - (i - 1) \in 1 .. Len(q) - i /\ i + (j - (i - 1)) = j + 1
      BY <1>1, <2>3
    <3> QED BY <1>1, <1>3, <2>1, <2>3, <3>1
  <2> QED BY <2>2, <2>3
<1> QED BY <1>4, <1>8, <1>9 DEF r

LEMMA RangeRemoved ==
  ASSUME NEW S, NEW q \in Seq(S), NEW i \in DOMAIN q
  PROVE  Range(RemoveAt(q, i)) \subseteq Range(q) /\ q[i] \in Range(q)
<1> SUFFICES ASSUME NEW j \in DOMAIN RemoveAt(q, i)
             PROVE  RemoveAt(q, i)[j] \in Range(q)
  BY DEF Range
<1>1. /\ j \in 1 .. Len(q) - 1 /\ Len(q) \in Nat /\ i \in 1 .. Len(q)
      /\ RemoveAt(q, i)[j] = q[IF j < i THEN j ELSE j + 1]
  BY RemovedIs
<1>2. (IF j < i THEN j ELSE j + 1) \in DOMAIN q
  BY <1>1
<1> QED BY <1>1, <1>2 DEF Range

LEMMA RangeJoined ==
  ASSUME NEW S, NEW q \in Seq(S), NEW r \in Seq(S)
  PROVE  Range(q \o r) = Range(q) \cup Range(r)
<1>1. /\ Len(q \o r) = Len(q) + Len(r) /\ q \o r \in Seq(S)
      /\ \A j \in 1 .. Len(q) + Len(r) :
           (q \o r)[j] = IF j <= Len(q) THEN q[j] ELSE r[j - Len(q)]
  BY ConcatProperties, Zenon
<1> DEFINE s == q \o r
<1>2. s \in Seq(S) /\ Len(s) = Len(q) + Len(r)
  BY <1>1
<1>3. \A j \in 1 .. Len(q) + Len(r) :
        s[j] = IF j <= Len(q) THEN q[j] ELSE r[j - Len(q)]
  BY <1>1
<1> HIDE DEF s
<1>4. Len(q) \in Nat /\ Len(r) \in Nat /\ DOMAIN s = 1 .. Len(q) + Len(r)
  BY <1>2
<1>5. Range(s) \subseteq Range(q) \cup Range(r)
  <2> SUFFICES ASSUME NEW j \in DOMAIN s PROVE s[j] \in Range(q) \cup Range(r)
    BY DEF Range
  <2>1. CASE j <= Len(q)
    BY <1>3, <1>4, <2>1 DEF Range
  <2>2. CASE ~(j <= Len(q))
    <3>1. j - Len(q) \in 1 .. Len(r)
      BY <1>4, <2>2
    <3> QED BY <1>3, <1>4, <2>2, <3>1 DEF Range
  <2> QED BY <2>1, <2>2
<1>6. Range(q) \subseteq Range(s)
  <2> SUFFICES ASSUME NEW j \in DOMAIN q PROVE q[j] \in Range(s)
    BY DEF Range
  <2>1. j \in DOMAIN s /\ s[j] = q[j]
    BY <1>3, <1>4
  <2> QED BY <2>1 DEF Range
<1>7. Range(r) \subseteq Range(s)
  <2> SUFFICES ASSUME NEW j \in DOMAIN r PROVE r[j] \in Range(s)
    BY DEF Range
  <2>1. Len(q) + j \in DOMAIN s /\ s[Len(q) + j] = r[j]
    BY <1>3, <1>4
  <2> QED BY <2>1 DEF Range
<1> QED BY <1>5, <1>6, <1>7 DEF s

(* SYNs of a queue, of one with more in it, of one with something taken    *)
(* out.                                                                    *)
LEMMA SynsFinite ==
  ASSUME NEW S, NEW q \in Seq(S)
  PROVE  IsFiniteSet(SynsIn(q)) /\ Cardinality(SynsIn(q)) \in Nat
<1>1. IsFiniteSet(1 .. Len(q)) /\ SynsIn(q) \in SUBSET (1 .. Len(q))
  BY FS_Interval DEF SynsIn
<1>2. IsFiniteSet(SynsIn(q))
  BY <1>1, FS_Subset
<1> QED BY <1>2, FS_CardinalityType

LEMMA SynsJoined ==
  ASSUME NEW S, NEW q \in Seq(S), NEW r \in Seq(S),
         \A s \in Range(r) : "SYN" \notin s.flags
  PROVE  SynsIn(q \o r) = SynsIn(q) /\ \A i \in SynsIn(q) : (q \o r)[i] = q[i]
<1>1. /\ Len(q \o r) = Len(q) + Len(r) /\ q \o r \in Seq(S)
      /\ \A j \in 1 .. Len(q) + Len(r) :
           (q \o r)[j] = IF j <= Len(q) THEN q[j] ELSE r[j - Len(q)]
  BY ConcatProperties, Zenon
<1> DEFINE s == q \o r
<1>2. s \in Seq(S) /\ Len(s) = Len(q) + Len(r)
  BY <1>1
<1>3. \A j \in 1 .. Len(q) + Len(r) :
        s[j] = IF j <= Len(q) THEN q[j] ELSE r[j - Len(q)]
  BY <1>1
<1> HIDE DEF s
<1>4. Len(q) \in Nat /\ Len(r) \in Nat /\ DOMAIN s = 1 .. Len(q) + Len(r)
  BY <1>2
<1>5. ASSUME NEW j \in DOMAIN s, ~(j <= Len(q)) PROVE "SYN" \notin s[j].flags
  <2>1. j - Len(q) \in 1 .. Len(r) /\ s[j] = r[j - Len(q)]
    BY <1>3, <1>4, <1>5
  <2> QED BY <2>1 DEF Range
<1>6. \A j \in DOMAIN q : j \in DOMAIN s /\ s[j] = q[j] /\ j <= Len(q)
  BY <1>3, <1>4
<1>7. \A j \in DOMAIN s : j <= Len(q) => j \in DOMAIN q
  BY <1>4
<1>8. SynsIn(s) = SynsIn(q)
  BY <1>5, <1>6, <1>7 DEF SynsIn
<1> QED BY <1>6, <1>8 DEF s, SynsIn

OneSynMore(q, t, s) ==
  /\ SynsIn(t) = SynsIn(q) \cup {Len(q) + 1} /\ Len(q) + 1 \notin SynsIn(q)
  /\ t[Len(q) + 1] = s /\ \A i \in SynsIn(q) : t[i] = q[i]

LEMMA SynsAppended ==
  ASSUME NEW S, NEW q \in Seq(S), NEW s \in S, "SYN" \in s.flags
  PROVE  OneSynMore(q, Append(q, s), s)
<1> DEFINE t == Append(q, s)
<1>1. /\ t \in Seq(S) /\ Len(t) = Len(q) + 1 /\ Len(q) \in Nat
      /\ t[Len(q) + 1] = s
      /\ \A j \in 1 .. Len(q) : t[j] = q[j]
  BY AppendProperties
<1> HIDE DEF t
<1>2. DOMAIN t = 1 .. Len(q) + 1 /\ DOMAIN q = 1 .. Len(q)
  BY <1>1
<1>3. SynsIn(t) = SynsIn(q) \cup {Len(q) + 1}
  BY <1>1, <1>2 DEF SynsIn
<1>4. OneSynMore(q, t, s)
  BY <1>1, <1>2, <1>3 DEF SynsIn, OneSynMore
<1> QED BY <1>4 DEF t

LEMMA SynsRemoved ==
  ASSUME NEW S, NEW q \in Seq(S), NEW i \in DOMAIN q
  PROVE  Cardinality(SynsIn(RemoveAt(q, i))) =
           IF "SYN" \in q[i].flags THEN Cardinality(SynsIn(q)) - 1
           ELSE Cardinality(SynsIn(q))
<1> DEFINE r == RemoveAt(q, i)
           A == SynsIn(r)
           B == SynsIn(q) \ {i}
           at(j) == IF j < i THEN j ELSE j + 1
           f == [j \in A |-> at(j)]
<1>1. /\ DOMAIN r = 1 .. Len(q) - 1 /\ \A j \in DOMAIN r : r[j] = q[at(j)]
      /\ Len(q) \in Nat /\ i \in 1 .. Len(q) /\ DOMAIN q = 1 .. Len(q)
  BY RemovedIs
<1> HIDE DEF r
<1>2. \A j \in A : at(j) \in B
  BY <1>1 DEF SynsIn
<1>3. \A j, k \in A : at(j) = at(k) => j = k
  BY <1>1 DEF SynsIn
<1>4. \A k \in B : \E j \in A : at(j) = k
  <2> SUFFICES ASSUME NEW k \in B PROVE \E j \in A : at(j) = k
    OBVIOUS
  <2>1. k \in 1 .. Len(q) /\ k # i /\ "SYN" \in q[k].flags
    BY <1>1 DEF SynsIn
  <2> DEFINE j == IF k < i THEN k ELSE k - 1
  <2>2. j \in DOMAIN r /\ at(j) = k
    BY <1>1, <2>1
  <2>3. j \in A
    BY <1>1, <2>1, <2>2 DEF SynsIn
  <2> QED BY <2>2, <2>3
<1> HIDE DEF at, A, B
<1>5. f \in Bijection(A, B)
  <2>1. f \in [A -> B]
    BY <1>2
  <2>2. \A j, k \in A : f[j] = f[k] => j = k
    BY <1>3
  <2>3. \A k \in B : \E j \in A : f[j] = k
    BY <1>4
  <2> HIDE DEF f
  <2> QED BY <2>1, <2>2, <2>3 DEF Bijection, Injection, Surjection, IsInjective
<1>6. IsFiniteSet(A) /\ ExistsBijection(A, B)
  <2>1. RemoveAt(q, i) \in Seq(S)
    BY Removed
  <2> QED BY <1>5, <2>1, SynsFinite DEF ExistsBijection, A, r
<1>7. Cardinality(B) = Cardinality(A)
  BY <1>6, FS_Bijection
<1>8. Cardinality(B) = IF i \in SynsIn(q) THEN Cardinality(SynsIn(q)) - 1
                       ELSE Cardinality(SynsIn(q))
  BY SynsFinite, FS_RemoveElement DEF B
<1> QED BY <1>7, <1>8 DEF A, r, SynsIn

(* Initial numbers that differ still do when one SYN-ACK is gone, or       *)
(* another is there.                                                       *)
LEMMA DistinctRemoved ==
  ASSUME NEW S, NEW q \in Seq(S), NEW i \in DOMAIN q, Distinct(q)
  PROVE  /\ Distinct(RemoveAt(q, i))
         /\ "SYN" \in q[i].flags => NotOffered(q[i].seq[3], RemoveAt(q, i))
<1> DEFINE r == RemoveAt(q, i)
           at(j) == IF j < i THEN j ELSE j + 1
<1>1. /\ DOMAIN r = 1 .. Len(q) - 1 /\ \A j \in DOMAIN r : r[j] = q[at(j)]
      /\ Len(q) \in Nat /\ i \in 1 .. Len(q) /\ DOMAIN q = 1 .. Len(q)
  BY RemovedIs
<1> HIDE DEF r
<1>2. \A j \in DOMAIN r : at(j) \in DOMAIN q /\ at(j) # i /\ r[j] = q[at(j)]
  BY <1>1
<1>3. \A j, k \in DOMAIN r : at(j) = at(k) => j = k
  BY <1>1
<1> HIDE DEF at
<1>4. \A j \in SynsIn(r) : at(j) \in SynsIn(q) /\ j \in DOMAIN r
  BY <1>2 DEF SynsIn
<1>5. Distinct(r)
  BY <1>2, <1>3, <1>4 DEF Distinct
<1>6. ASSUME "SYN" \in q[i].flags PROVE NotOffered(q[i].seq[3], r)
  <2> SUFFICES ASSUME NEW j \in DOMAIN r, "SYN" \in r[j].flags,
                      r[j].seq[3] = q[i].seq[3]
               PROVE  FALSE
    BY DEF NotOffered, Range
  <2>1. at(j) \in SynsIn(q) /\ i \in SynsIn(q) /\ at(j) # i
    BY <1>2, <1>6 DEF SynsIn
  <2> QED BY <1>2, <2>1 DEF Distinct
<1> QED BY <1>5, <1>6 DEF r

LEMMA DistinctJoined ==
  ASSUME NEW S, NEW q \in Seq(S), NEW r \in Seq(S), Distinct(q),
         \A s \in Range(r) : "SYN" \notin s.flags
  PROVE  Distinct(q \o r)
<1> DEFINE t == q \o r
<1>1. SynsIn(t) = SynsIn(q) /\ \A i \in SynsIn(q) : t[i] = q[i]
  BY SynsJoined, Zenon
<1> HIDE DEF t
<1>2. Distinct(t)
  BY <1>1 DEF Distinct
<1> QED BY <1>2 DEF t

LEMMA DistinctAppended ==
  ASSUME NEW S, NEW q \in Seq(S), NEW s \in S, Distinct(q), "SYN" \in s.flags,
         NotOffered(s.seq[3], q)
  PROVE  Distinct(Append(q, s))
<1> DEFINE t == Append(q, s)
<1>1. /\ SynsIn(t) = SynsIn(q) \cup {Len(q) + 1} /\ Len(q) + 1 \notin SynsIn(q)
      /\ t[Len(q) + 1] = s /\ \A i \in SynsIn(q) : t[i] = q[i]
  <2>1. OneSynMore(q, t, s)
    BY SynsAppended
  <2> HIDE DEF t
  <2> QED BY <2>1 DEF OneSynMore
<1> HIDE DEF t
<1>2. \A i \in SynsIn(q) : t[i].seq[3] # t[Len(q) + 1].seq[3]
  BY <1>1 DEF NotOffered, SynsIn, Range
<1>3. Distinct(t)
  BY <1>1, <1>2 DEF Distinct
<1> QED BY <1>3 DEF t

(* The first number behind an initial one. *)
LEMMA FirstNumber ==
  ASSUME NEW b \in Bytes
  PROVE  Initial(b) \in Numbers /\ Plus(Initial(b), 1) = <<0, 0, b, 1>>
<1>1. 0 \in Bytes /\ 1 \in 0 .. Word - Byte /\ b \in 0 .. Byte - 1
  BY Sizes, Lengths DEF Bytes
<1>2. Initial(b) \in Numbers
  BY <1>1 DEF Initial, Numbers
<1>3. Plus(Initial(b), 1) = Relative(Initial(b), 1)
  BY <1>1, <1>2, CarriesThrough
<1>4. /\ 1 % Word = 1 /\ 1 \div Byte = 0 /\ 1 % Byte = 1
      /\ b \div Byte = 0 /\ b % Byte = b /\ 0 \div Byte = 0 /\ 0 % Byte = 0
  <2>1. \A w \in Nat : w > 2 => 1 % w = 1
    OBVIOUS
  <2>2. \A x \in 0 .. Byte - 1 : x \div Byte = 0 /\ x % Byte = x
    <3> TAKE x \in 0 .. Byte - 1
    <3>1. x = 0 * Byte + x
      BY Sizes
    <3> QED BY <3>1, Sizes, QuotientUnique
  <2> QED BY <1>1, <2>1, <2>2, Sizes
<1>5. Relative(Initial(b), 1) = <<0, 0, b, 1>>
  BY <1>1, <1>4 DEF Relative, Initial, Bytes
<1> QED BY <1>2, <1>3, <1>5

(* The client's distances are numbers. *)
LEMMA DistanceType ==
  ASSUME NEW m \in Numbers, NEW n \in Numbers
  PROVE  Distance(m, n) \in Nat
<1>1. \A k \in Numbers : Value(k) \in Int
  <2> TAKE k \in Numbers
  <2>1. k[1] \in Int /\ k[2] \in Int /\ k[3] \in Int /\ k[4] \in Int /\ Byte \in Int
    BY Sizes DEF Numbers, Bytes
  <2>2. k[1] * Byte + k[2] \in Int
    BY <2>1
  <2>3. (k[1] * Byte + k[2]) * Byte + k[3] \in Int
    BY <2>1, <2>2
  <2>4. ((k[1] * Byte + k[2]) * Byte + k[3]) * Byte + k[4] \in Int
    BY <2>1, <2>3
  <2> QED BY <2>4 DEF Value
<1>2. PICK v \in Int : v = Value(n) - Value(m)
  BY <1>1
<1>3. v % Space \in 0 .. Space - 1
  BY Sizes, DivMod
<1> QED BY <1>2, <1>3, Sizes DEF Distance

(* Two of them are two steps of the server apart or a number space. *)
LEMMA RecentApart ==
  ASSUME NEW b \in Bytes, NEW c \in Bytes, Recent(b), Recent(c), b # c,
         syns \in Nat, 2 * syns < Byte, Made <= syns, Made \in Int, seqnum \in Bytes
  PROVE  Distance(<<0, 0, b, 1>>, <<0, 0, c, 1>>) >= 2 * Byte
<1> USE Sizes
<1>1. c - b # 1 /\ b \in 0 .. Byte - 1 /\ c \in 0 .. Byte - 1
  <2>1. PICK k \in 1 .. Made : b + 2 * k = seqnum \/ b + 2 * k = seqnum + Byte
    BY DEF Recent
  <2>2. PICK m \in 1 .. Made : c + 2 * m = seqnum \/ c + 2 * m = seqnum + Byte
    BY DEF Recent
  <2> QED BY <2>1, <2>2 DEF Bytes
<1> DEFINE d == c - b
           n == <<0, 0, b, 1>>
           p == <<0, 0, c, 1>>
<1>2. Value(n) = b * Byte + 1 /\ Value(p) = c * Byte + 1
  BY <1>1 DEF Value
<1>3. Value(p) - Value(n) = d * Byte
  BY <1>1, <1>2
<1>4. d \in Int /\ d # 0 /\ d # 1 /\ d < Byte /\ -Byte < d
  BY <1>1
<1>5. Space >= Word * Byte /\ Word * Byte >= 3 * Word
  <2>1. \A x \in Nat, y \in Nat : y >= 3 => x * y >= 3 * x
    OBVIOUS
  <2>2. Byte >= 3
    OBVIOUS
  <2>3. (Word * Byte) * Byte >= 3 * (Word * Byte) /\ Word * Byte >= 3 * Word
    BY <2>1, <2>2
  <2> QED BY <2>3
<1> HIDE DEF d
<1>6. CASE d > 0
  <2>1. 2 * Byte <= d * Byte
    <3>1. \A x \in Int, y \in Nat : x >= 2 => 2 * y <= x * y
      OBVIOUS
    <3> QED BY <1>4, <1>6, <3>1
  <2>2. d * Byte + Byte <= Byte * Byte
    BY <1>4, Grows
  <2>3. d * Byte \in 0 .. Space - 1
    BY <1>4, <1>5, <2>1, <2>2
  <2>4. (0 * Space + d * Byte) % Space = d * Byte
    BY <2>3, ModSpace
  <2>5. (d * Byte) % Space = d * Byte
    BY <2>3, <2>4
  <2> QED BY <1>3, <2>1, <2>5 DEF Distance
<1>7. CASE ~(d > 0)
  <2> DEFINE v == Space + d * Byte
  <2>1. -Byte * Byte + Byte <= d * Byte
    <3>1. (-Byte) * Byte + Byte <= d * Byte
      BY <1>4, Grows
    <3> QED BY <3>1
  <2>2. d * Byte <= -1
    <3>1. d * Byte + Byte <= 0 * Byte
      BY <1>4, <1>7, Grows
    <3> QED BY <1>4, <3>1
  <2>3. d * Byte \in Int
    BY <1>4
  <2>4. v \in 0 .. Space - 1 /\ v >= 2 * Byte
    BY <1>5, <2>1, <2>2, <2>3
  <2>5. (-1 * Space + v) % Space = v
    BY <2>4, ModSpace
  <2>6. d * Byte = -1 * Space + v
    BY <2>3
  <2> HIDE DEF v
  <2> QED BY <1>3, <2>4, <2>5, <2>6 DEF Distance
<1> QED BY <1>4, <1>6, <1>7

(* What seqnum was stays recent while no more SYNs are sent, and when the  *)
(* server makes one more SYN-ACK, whose number is a new one.               *)
LEMMA RecentStays ==
  ASSUME NEW b, Recent(b), Made \in Int, Made' \in Int, Made <= Made',
         seqnum' = seqnum
  PROVE  Recent(b)'
<1>1. PICK k \in 1 .. Made : b + 2 * k \in {seqnum, seqnum + Byte}
  BY DEF Recent
<1>2. k \in 1 .. Made'
  BY <1>1
<1> QED BY <1>1, <1>2 DEF Recent

LEMMA RecentStep ==
  ASSUME seqnum \in Bytes, seqnum' = NextSeqnum(seqnum), Made \in Nat,
         2 * Made + 2 < Byte, Made' = Made + 1
  PROVE  /\ \A b : Recent(b) => Recent(b)' /\ b # seqnum
         /\ \A b : b = seqnum => Recent(b)'
<1> USE Sizes
<1>1. /\ seqnum \in 0 .. Byte - 1
      /\ seqnum' = seqnum + 2 \/ seqnum' = seqnum + 2 - Byte
      /\ seqnum' \in 0 .. Byte - 1
  <2>1. seqnum \in 0 .. Byte - 1
    BY DEF Bytes
  <2>2. CASE seqnum + 2 < Byte
    <3>1. seqnum + 2 = 0 * Byte + (seqnum + 2)
      BY <2>1
    <3>2. (seqnum + 2) % Byte = seqnum + 2
      BY <2>1, <2>2, <3>1, QuotientUnique
    <3> QED BY <2>1, <2>2, <3>2 DEF NextSeqnum
  <2>3. CASE ~(seqnum + 2 < Byte)
    <3> DEFINE r == seqnum + 2 - Byte
    <3>1. r \in 0 .. Byte - 1 /\ seqnum + 2 = 1 * Byte + r
      BY <2>1, <2>3
    <3> HIDE DEF r
    <3>2. (1 * Byte + r) % Byte = r
      BY <3>1, QuotientUnique
    <3>3. (seqnum + 2) % Byte = r
      BY <3>1, <3>2
    <3> QED BY <2>1, <3>1, <3>3 DEF NextSeqnum, r
  <2> QED BY <2>2, <2>3
<1>2. ASSUME NEW b, Recent(b)
      PROVE  Recent(b)' /\ b # seqnum
  <2>1. b \in 0 .. Byte - 1 /\ b \in Bytes
    BY <1>2 DEF Recent, Bytes
  <2>2. PICK k \in 1 .. Made : b + 2 * k = seqnum \/ b + 2 * k = seqnum + Byte
    BY <1>2 DEF Recent
  <2>3. k + 1 \in 1 .. Made'
    BY <2>2
  <2>4. b + 2 * (k + 1) = seqnum' \/ b + 2 * (k + 1) = seqnum' + Byte
    BY <1>1, <2>1, <2>2
  <2>5. Recent(b)'
    BY <2>1, <2>3, <2>4 DEF Recent
  <2>6. b # seqnum
    BY <1>1, <2>2
  <2> QED BY <2>5, <2>6
<1>3. ASSUME NEW b, b = seqnum
      PROVE  Recent(b)'
  <2>1. 1 \in 1 .. Made'
    OBVIOUS
  <2>2. b \in 0 .. Byte - 1
    BY <1>1, <1>3
  <2>3. b + 2 * 1 = seqnum' \/ b + 2 * 1 = seqnum' + Byte
    BY <1>1, <1>3, <2>2
  <2>4. b \in Bytes
    BY <2>2 DEF Bytes
  <2> QED BY <2>1, <2>2, <2>3, <2>4 DEF Recent
<1> QED BY <1>2, <1>3

(* What the invariant says of Made, whose SYNs are counted. *)
LEMMA MadeIs ==
  ASSUME SessionInv, NumbersInv
  PROVE  Made \in Nat /\ Made <= syns /\ 2 * Made < Byte
<1>1. Cardinality(SynsIn(toBoard)) \in Nat
  BY SynsFinite DEF SessionInv
<1> QED BY <1>1, Sizes DEF NumbersInv, Made

(* The client keeps what its pages are known by, or has no session.        *)
SameSession ==
  InSession' => /\ InSession /\ client'.rcv = client.rcv
                /\ client'.conn = client.conn /\ client'.cmd = client.cmd
KeepsRecent == \A b : Recent(b) => Recent(b)'

LEMMA InUseStays ==
  ASSUME KeepsRecent, SameSession, NEW n, NEW data, InUse(n, data),
         NotOffered(n[3], toClient)'
  PROVE  InUse(n, data)'
BY DEF KeepsRecent, SameSession, InUse

(* Steps with no new offer and no new page: what is new under way to the   *)
(* server is of the session.                                               *)
LEMMA NumbersStay ==
  ASSUME NumbersInv, KeepsRecent, SameSession,
         syns' \in Nat, 2 * syns' < Byte, Made' >= 0,
         \A s \in Range(toBoard') :
           s.len > 0 => s \in Range(toBoard) \/ InUse(s.ack, s.data),
         Range(toClient') \subseteq Range(toClient), Distinct(toClient')
  PROVE  NumbersInv'
<1>1. ASSUME NEW n, NEW data, InUse(n, data) PROVE InUse(n, data)'
  <2>1. NotOffered(n[3], toClient)'
    BY <1>1 DEF InUse, NotOffered
  <2> QED BY <1>1, <2>1, InUseStays
<1>2. ASSUME NEW s \in Range(toBoard'), s.len > 0 PROVE InUse(s.ack, s.data)'
  <2>1. InUse(s.ack, s.data)
    BY <1>2 DEF NumbersInv
  <2> QED BY <1>1, <2>1
<1>3. ASSUME NEW s \in Range(toClient'), s.len > 0 PROVE IsPage(s)'
  <2>1. IsPage(s)
    BY <1>3 DEF NumbersInv
  <2> QED BY <1>1, <2>1 DEF IsPage
<1>4. ASSUME NEW s \in Range(toClient'), "SYN" \in s.flags PROVE IsOffer(s)'
  BY <1>4 DEF NumbersInv, KeepsRecent, IsOffer
<1>5. ASSUME InSession' PROVE InUse(client.rcv, <<client.conn, client.cmd>>)'
  <2>1. PICK n, data : n = client.rcv /\ data = <<client.conn, client.cmd>>
    OBVIOUS
  <2>2. /\ client'.rcv = n /\ <<client'.conn, client'.cmd>> = data
        /\ InUse(n, data)
    BY <1>5, <2>1 DEF SameSession, NumbersInv
  <2>3. InUse(n, data)'
    BY <1>1, <2>2
  <2> QED BY <2>2, <2>3 DEF InUse
<1> QED BY <1>2, <1>3, <1>4, <1>5 DEF NumbersInv

(* A SYN that finds nothing under way. *)
LEMMA FreshStart ==
  ASSUME NEW s, "SYN" \in s.flags, s.len = 0, toBoard' = <<s>>, toClient' = <<>>,
         syns' = 1, ~InSession'
  PROVE  NumbersInv'
<1>1. SynsIn(<<s>>) = {1}
  BY DEF SynsIn
<1>2. Cardinality(SynsIn(toBoard')) = 1
  BY <1>1, FS_Singleton
<1>3. Made' = 0
  BY <1>2 DEF Made
<1>4. Range(toBoard') = {s} /\ Range(toClient') = {} /\ Distinct(toClient')
  BY DEF Range, Distinct, SynsIn
<1> QED BY <1>3, <1>4, Sizes DEF NumbersInv

(* What the client sends and repeats. *)
LEMMA SentAre ==
  /\ client.state = "syn_sent" =>
       \E s : Unacknowledged = <<s>> /\ "SYN" \in s.flags /\ s.len = 0
  /\ client.state # "syn_sent" =>
       \A s \in Range(Unacknowledged) :
         /\ "SYN" \notin s.flags
         /\ s.len > 0 => /\ client.state = "get_sent" /\ s.ack = client.rcv
                         /\ s.data = <<client.conn, client.cmd>>
<1> DEFINE syn == Segment({"SYN"}, client.iss, Zero, 0, <<>>)
           ack == Segment({"ACK"}, Plus(client.iss, 1), client.rcv, 0, <<>>)
           get == Segment({"ACK", "PSH"}, Plus(client.iss, 1), client.rcv, GetLen,
                          <<client.conn, client.cmd>>)
           fin == Segment({"ACK", "FIN"}, client.nxt, client.rcv, 0, <<>>)
<1>1. /\ syn.flags = {"SYN"} /\ syn.len = 0
      /\ ack.flags = {"ACK"} /\ ack.len = 0
      /\ get.flags = {"ACK", "PSH"} /\ get.ack = client.rcv
      /\ get.data = <<client.conn, client.cmd>>
      /\ fin.flags = {"ACK", "FIN"} /\ fin.len = 0
  BY DEF Segment
<1>2. Unacknowledged =
        CASE client.state = "syn_sent" -> <<syn>>
          [] client.state = "get_sent" -> <<ack, get>>
          [] client.state = "last_ack" -> <<fin>>
          [] OTHER -> <<>>
  BY DEF Unacknowledged
<1> HIDE DEF syn, ack, get, fin
<1>3. CASE client.state = "syn_sent"
  <2>1. Unacknowledged = <<syn>>
    BY <1>2, <1>3
  <2> QED BY <1>1, <1>3, <2>1
<1>4. CASE client.state = "get_sent"
  <2>1. Unacknowledged = <<ack, get>>
    BY <1>2, <1>4
  <2>2. \A s \in Range(<<ack, get>>) : s = ack \/ s = get
    BY DEF Range
  <2> QED BY <1>1, <1>4, <2>1, <2>2
<1>5. CASE client.state = "last_ack"
  <2>1. Unacknowledged = <<fin>>
    BY <1>2, <1>5
  <2>2. \A s \in Range(<<fin>>) : s = fin
    BY DEF Range
  <2> QED BY <1>1, <1>5, <2>1, <2>2
<1>6. CASE client.state \notin {"syn_sent", "get_sent", "last_ack"}
  <2>1. Unacknowledged = <<>>
    BY <1>2, <1>6
  <2>2. Range(<<>>) = {}
    BY DEF Range
  <2> QED BY <1>6, <2>1, <2>2
<1> QED BY <1>3, <1>4, <1>5, <1>6

LEMMA SentAreAfter ==
  /\ client'.state = "syn_sent" =>
       \E s : Unacknowledged' = <<s>> /\ "SYN" \in s.flags /\ s.len = 0
  /\ client'.state # "syn_sent" =>
       \A s \in Range(Unacknowledged') :
         /\ "SYN" \notin s.flags
         /\ s.len > 0 => /\ client'.state = "get_sent" /\ s.ack = client'.rcv
                         /\ s.data = <<client'.conn, client'.cmd>>
<1> DEFINE P ==
      /\ client.state = "syn_sent" =>
           \E s : Unacknowledged = <<s>> /\ "SYN" \in s.flags /\ s.len = 0
      /\ client.state # "syn_sent" =>
           \A s \in Range(Unacknowledged) :
             /\ "SYN" \notin s.flags
             /\ s.len > 0 => /\ client.state = "get_sent" /\ s.ack = client.rcv
                             /\ s.data = <<client.conn, client.cmd>>
<1>1. P
  BY SentAre
<1>2. P'
  BY <1>1, PTL
<1> QED BY <1>2

(* One more SYN under way, counted among those sent. *)
LEMMA SynSent ==
  ASSUME SessionInv, NumbersInv, FewSyns, CountSyn, NEW S, NEW s \in S,
         toBoard \in Seq(S), "SYN" \in s.flags, s.len = 0,
         toBoard' = Append(toBoard, s), UNCHANGED <<toClient, seqnum>>, ~InSession'
  PROVE  NumbersInv'
<1>1. CASE toBoard = <<>> /\ toClient = <<>>
  <2>1. toBoard' = <<s>> /\ toClient' = <<>> /\ syns' = 1
    BY <1>1 DEF CountSyn
  <2> QED BY <2>1, FreshStart
<1>2. CASE ~(toBoard = <<>> /\ toClient = <<>>)
  <2>1. syns' = syns + 1 /\ syns < MaxSyns
    BY <1>2 DEF CountSyn
  <2>2. OneSynMore(toBoard, toBoard', s)
    BY SynsAppended
  <2>3. Cardinality(SynsIn(toBoard')) = Cardinality(SynsIn(toBoard)) + 1
    <3>1. IsFiniteSet(SynsIn(toBoard))
      BY SynsFinite
    <3>2. SynsIn(toBoard') = SynsIn(toBoard) \cup {Len(toBoard) + 1}
          /\ Len(toBoard) + 1 \notin SynsIn(toBoard)
      BY <2>2 DEF OneSynMore
    <3> DEFINE A == SynsIn(toBoard)
               x == Len(toBoard) + 1
    <3> HIDE DEF A, x
    <3>3. IsFiniteSet(A) /\ x \notin A /\ SynsIn(toBoard') = A \cup {x}
      BY <3>1, <3>2 DEF A, x
    <3>4. Cardinality(A \cup {x}) = Cardinality(A) + 1
      BY <3>3, FS_AddElement
    <3> QED BY <3>3, <3>4 DEF A
  <2>4. Made' = Made /\ Cardinality(SynsIn(toBoard)) \in Nat
    BY <2>1, <2>3, SynsFinite DEF Made, NumbersInv
  <2>5. KeepsRecent
    BY <2>4 DEF KeepsRecent, Recent
  <2>6. Range(toBoard') = Range(toBoard) \cup {s}
    <3>1. /\ DOMAIN toBoard' = 1 .. Len(toBoard) + 1 /\ Len(toBoard) \in Nat
          /\ toBoard'[Len(toBoard) + 1] = s
          /\ \A j \in DOMAIN toBoard : toBoard'[j] = toBoard[j]
      BY AppendProperties
    <3> QED BY <3>1 DEF Range
  <2>7. syns' \in Nat /\ 2 * syns' < Byte /\ Made' >= 0
    BY <2>1, <2>4, Sizes, SessionAssumption DEF NumbersInv, FewSyns
  <2> QED BY <2>5, <2>6, <2>7, NumbersStay DEF SameSession, NumbersInv
<1> QED BY <1>1, <1>2

(* Queues that keep their SYNs or have lost some. *)
LEMMA FewerSyns ==
  ASSUME SessionInv, NumbersInv, UNCHANGED <<syns, seqnum>>,
         Cardinality(SynsIn(toBoard')) \in Nat,
         Cardinality(SynsIn(toBoard')) <= Cardinality(SynsIn(toBoard))
  PROVE  /\ syns' \in Nat /\ 2 * syns' < Byte /\ Made' >= 0
         /\ KeepsRecent
<1>1. Cardinality(SynsIn(toBoard)) \in Nat
  BY SynsFinite DEF SessionInv
<1>2. Made \in Int /\ Made' \in Int /\ Made <= Made'
  BY <1>1 DEF Made, NumbersInv
<1>3. \A b : Recent(b) => Recent(b)'
  BY <1>2, RecentStays
<1> QED BY <1>1, <1>2, <1>3 DEF NumbersInv, KeepsRecent

(* The steps one by one. A client that opens a connection sends a SYN. *)
LEMMA OpenNumbers ==
  ASSUME SessionInv, NumbersInv, FewSyns, NEW cmd \in BOOLEAN, NEW iss \in ClientIsns,
         Open(cmd, iss), SessionInv'
  PROVE  NumbersInv'
<1>1. CountSyn /\ toBoard' = toBoard \o Unacknowledged' /\ UNCHANGED <<toClient, seqnum>>
  BY DEF Open, Become, board
<1>2. client'.state = "syn_sent"
  BY DEF Open, Become, SessionInv, ClientOK, Clients
<1>3. PICK s : Unacknowledged' = <<s>> /\ "SYN" \in s.flags /\ s.len = 0
  BY <1>2, SentAreAfter
<1>4. toBoard' = Append(toBoard, s)
  BY <1>1, <1>3 DEF SessionInv
<1>5. toBoard \in Seq(BoardBound(ends) \cup {s})
  BY SeqOfMore DEF SessionInv
<1>6. ~InSession'
  BY <1>2 DEF InSession
<1> QED BY <1>1, <1>3, <1>4, <1>5, <1>6, SynSent

(* One that repeats sends a SYN, a request of its session, or no data. *)
LEMMA RepeatNumbers ==
  ASSUME SessionInv, NumbersInv, FewSyns, Repeat
  PROVE  NumbersInv'
<1> DEFINE s == Last(Unacknowledged)
<1>1. /\ Unacknowledged # <<>> /\ toBoard' = Append(toBoard, s)
      /\ UNCHANGED <<client, toClient, seqnum>>
      /\ IF client.state = "syn_sent" THEN CountSyn ELSE UNCHANGED syns
  BY DEF Repeat, board
<1>2. Unacknowledged \in Seq(BoardBound(ends))
  BY UnacknowledgedBounded DEF SessionInv
<1>3. s \in Range(Unacknowledged) /\ s \in BoardBound(ends)
  <2> DEFINE u == Unacknowledged
  <2>1. Len(u) \in DOMAIN u
    BY <1>1, <1>2, EmptySeq
  <2> QED BY <1>2, <2>1 DEF Last, Range
<1>4. CASE client.state = "syn_sent"
  <2>1. PICK t : Unacknowledged = <<t>> /\ "SYN" \in t.flags /\ t.len = 0
    BY <1>4, SentAre
  <2>2. s = t
    BY <2>1 DEF Last
  <2>3. ~InSession'
    BY <1>1, <1>4 DEF InSession
  <2> HIDE DEF s
  <2> QED BY <1>1, <1>3, <1>4, <2>1, <2>2, <2>3, SynSent DEF SessionInv
<1>5. CASE client.state # "syn_sent"
  <2>1. /\ "SYN" \notin s.flags
        /\ s.len > 0 => /\ client.state = "get_sent" /\ s.ack = client.rcv
                        /\ s.data = <<client.conn, client.cmd>>
    BY <1>3, <1>5, SentAre
  <2> HIDE DEF s
  <2>2. /\ DOMAIN toBoard' = 1 .. Len(toBoard) + 1 /\ Len(toBoard) \in Nat
        /\ toBoard'[Len(toBoard) + 1] = s
        /\ \A j \in DOMAIN toBoard : toBoard'[j] = toBoard[j]
        /\ DOMAIN toBoard = 1 .. Len(toBoard)
    BY <1>1, <1>3, AppendProperties DEF SessionInv
  <2>3. Range(toBoard') = Range(toBoard) \cup {s} /\ SynsIn(toBoard') = SynsIn(toBoard)
    BY <2>1, <2>2 DEF Range, SynsIn
  <2>4. Cardinality(SynsIn(toBoard)) \in Nat
    BY SynsFinite DEF SessionInv
  <2>5. syns' \in Nat /\ 2 * syns' < Byte /\ Made' >= 0 /\ KeepsRecent
    BY <1>1, <1>5, <2>3, <2>4, FewerSyns
  <2>6. s.len > 0 => InUse(s.ack, s.data)
    BY <2>1 DEF NumbersInv, InSession
  <2>7. SameSession
    BY <1>1 DEF SameSession, InSession
  <2> QED BY <1>1, <2>3, <2>5, <2>6, <2>7, NumbersStay DEF NumbersInv
<1> QED BY <1>4, <1>5

(* Whatever does not change the queues. *)
LEMMA QuietNumbers ==
  ASSUME SessionInv, NumbersInv, UNCHANGED <<toBoard, toClient, syns, seqnum>>, SameSession
  PROVE  NumbersInv'
<1>1. Cardinality(SynsIn(toBoard)) \in Nat
  BY SynsFinite DEF SessionInv
<1>2. syns' \in Nat /\ 2 * syns' < Byte /\ Made' >= 0 /\ KeepsRecent
  BY <1>1, FewerSyns
<1> QED BY <1>2, NumbersStay DEF NumbersInv

(* What is lost leaves fewer SYNs, requests and pages. *)
LEMMA LossNumbers ==
  ASSUME SessionInv, NumbersInv, LoseToBoard \/ LoseToClient
  PROVE  NumbersInv'
<1>1. Cardinality(SynsIn(toBoard)) \in Nat
  BY SynsFinite DEF SessionInv
<1>2. UNCHANGED <<client, seqnum, syns>>
  BY DEF LoseToBoard, LoseToClient, board
<1>3. SameSession
  BY <1>2 DEF SameSession, InSession
<1>4. CASE LoseToBoard
  <2>1. PICK i \in DOMAIN toBoard : toBoard' = RemoveAt(toBoard, i)
    BY <1>4 DEF LoseToBoard
  <2>2. Range(toBoard') \subseteq Range(toBoard)
    BY <2>1, RangeRemoved DEF SessionInv
  <2>3. /\ Cardinality(SynsIn(toBoard')) <= Cardinality(SynsIn(toBoard))
        /\ Cardinality(SynsIn(toBoard')) \in Nat
    <3>1. Cardinality(SynsIn(toBoard')) =
            IF "SYN" \in toBoard[i].flags THEN Cardinality(SynsIn(toBoard)) - 1
            ELSE Cardinality(SynsIn(toBoard))
      BY <2>1, SynsRemoved DEF SessionInv
    <3>2. toBoard' \in Seq(BoardBound(ends))
      BY <2>1, Removed DEF SessionInv
    <3>3. Cardinality(SynsIn(toBoard')) \in Nat
      BY <3>2, SynsFinite
    <3> QED BY <1>1, <3>1, <3>3
  <2>4. syns' \in Nat /\ 2 * syns' < Byte /\ Made' >= 0 /\ KeepsRecent
    BY <1>2, <2>3, FewerSyns
  <2>5. toClient' = toClient
    BY <1>4 DEF LoseToBoard
  <2> QED BY <1>3, <2>2, <2>4, <2>5, NumbersStay DEF NumbersInv
<1>5. CASE LoseToClient
  <2>1. PICK i \in DOMAIN toClient : toClient' = RemoveAt(toClient, i)
    BY <1>5 DEF LoseToClient
  <2>2. Range(toClient') \subseteq Range(toClient)
    BY <2>1, RangeRemoved DEF SessionInv
  <2>3. Distinct(toClient')
    BY <2>1, DistinctRemoved DEF SessionInv, NumbersInv
  <2>4. toBoard' = toBoard
    BY <1>5 DEF LoseToClient
  <2>5. syns' \in Nat /\ 2 * syns' < Byte /\ Made' >= 0 /\ KeepsRecent
    BY <1>1, <1>2, <2>4, FewerSyns
  <2> QED BY <1>3, <2>2, <2>3, <2>4, <2>5, NumbersStay
<1> QED BY <1>4, <1>5

(* The client takes a SYN-ACK: its pages begin behind a number that no     *)
(* other request or page under way has.                                    *)
LEMMA EstablishedNumbers ==
  ASSUME SessionInv, NumbersInv, NEW i \in DOMAIN toClient, Established(toClient[i]),
         toClient' = RemoveAt(toClient, i), UNCHANGED <<seqnum, syns>>, SessionInv'
  PROVE  NumbersInv'
<1>0. PICK seg, b, data :
        /\ seg = toClient[i] /\ b = seg.seq[3]
        /\ data = <<client.conn, client.cmd>>
  OBVIOUS
<1>1. /\ seg \in Range(toClient) /\ "SYN" \in seg.flags /\ client.state = "syn_sent"
      /\ Range(toClient') \subseteq Range(toClient)
  BY <1>0, RangeRemoved DEF SessionInv, Established, IsSynAck
<1>2. seg.seq = Initial(b) /\ Recent(b) /\ b \in Bytes
  BY <1>0, <1>1 DEF NumbersInv, IsOffer, Recent
<1>3. Distinct(toClient') /\ NotOffered(b, toClient')
  BY <1>0, <1>1, DistinctRemoved DEF SessionInv, NumbersInv
<1>4. /\ client'.state = "get_sent" /\ client'.rcv = Plus(seg.seq, 1)
      /\ client'.conn = client.conn /\ client'.cmd = client.cmd
      /\ toBoard' = toBoard \o Unacknowledged'
  BY <1>0 DEF Established, Become, SessionInv, ClientOK, Clients
<1>5. PICK n : n = <<0, 0, b, 1>> /\ client'.rcv = n
  BY <1>2, <1>4, FirstNumber
<1>6. n[3] = b /\ n = <<0, 0, n[3], 1>>
  BY <1>5
<1>7. \A s \in Range(Unacknowledged') :
        "SYN" \notin s.flags /\ (s.len > 0 => s.ack = n /\ s.data = data)
  BY <1>0, <1>4, <1>5, SentAreAfter
<1>8. Range(toBoard') = Range(toBoard) \cup Range(Unacknowledged')
      /\ SynsIn(toBoard') = SynsIn(toBoard)
  <2>1. ends \subseteq ends'
    BY DEF Established, Become
  <2>2. toBoard \in Seq(BoardBound(ends'))
    BY <2>1, Bounds, SeqOfMore DEF SessionInv
  <2>3. Unacknowledged' \in Seq(BoardBound(ends'))
    BY UnacknowledgedAfter DEF SessionInv
  <2> DEFINE u == Unacknowledged'
  <2>4. \A s \in Range(u) : "SYN" \notin s.flags
    BY <1>7
  <2> HIDE DEF u
  <2>5. u \in Seq(BoardBound(ends'))
    BY <2>3 DEF u
  <2>6. Range(toBoard \o u) = Range(toBoard) \cup Range(u)
    BY <2>2, <2>5, RangeJoined, Zenon
  <2>7. SynsIn(toBoard \o u) = SynsIn(toBoard)
    BY <2>2, <2>4, <2>5, SynsJoined, Zenon
  <2> QED BY <1>4, <2>6, <2>7 DEF u
<1>9. Cardinality(SynsIn(toBoard)) \in Nat
  BY SynsFinite DEF SessionInv
<1>10. syns' \in Nat /\ 2 * syns' < Byte /\ Made' >= 0 /\ KeepsRecent
  BY <1>8, <1>9, FewerSyns
<1>11. /\ Recent(b)' /\ ~InSession /\ InSession'
       /\ \A m, d : InUse(m, d) => m[3] # b
  BY <1>0, <1>1, <1>2, <1>4, <1>10 DEF KeepsRecent, InSession, InUse, NotOffered
<1>12. ASSUME NEW m, NEW d, InUse(m, d) PROVE InUse(m, d)'
  <2>1. m = <<0, 0, m[3], 1>> /\ Recent(m[3])' /\ NotOffered(m[3], toClient')
    BY <1>1, <1>10, <1>12 DEF InUse, KeepsRecent, NotOffered
  <2>2. m # client'.rcv
    BY <1>5, <1>6, <1>11, <1>12
  <2> QED BY <2>1, <2>2 DEF InUse
<1>13. InUse(n, data)'
  <2>1. Recent(n[3])' /\ NotOffered(n[3], toClient')
    BY <1>3, <1>6, <1>11
  <2> QED BY <1>0, <1>4, <1>6, <2>1 DEF InUse
<1>14. \A s \in Range(toBoard') : s.len > 0 => InUse(s.ack, s.data)'
  <2> SUFFICES ASSUME NEW s \in Range(toBoard'), s.len > 0 PROVE InUse(s.ack, s.data)'
    OBVIOUS
  <2>1. CASE s \in Range(toBoard)
    BY <1>12, <2>1 DEF NumbersInv
  <2>2. CASE s \in Range(Unacknowledged')
    <3>1. s.ack = n /\ s.data = data
      BY <1>7, <2>2
    <3> QED BY <1>13, <3>1
  <2> QED BY <1>8, <2>1, <2>2
<1>15. \A s \in Range(toClient') : s.len > 0 => IsPage(s)'
  BY <1>1, <1>12 DEF NumbersInv, IsPage
<1>16. \A s \in Range(toClient') : "SYN" \in s.flags => IsOffer(s)'
  BY <1>1, <1>10 DEF NumbersInv, IsOffer, KeepsRecent
<1>17. InUse(client.rcv, <<client.conn, client.cmd>>)'
  <2>1. client'.rcv = n /\ <<client'.conn, client'.cmd>> = data
    BY <1>0, <1>4, <1>5
  <2> QED BY <1>13, <2>1 DEF InUse
<1> QED BY <1>3, <1>10, <1>14, <1>15, <1>16, <1>17 DEF NumbersInv

(* The other segments that the client takes end its session or leave it.   *)
LEMMA TakenNumbers ==
  ASSUME SessionInv, NumbersInv, NEW i \in DOMAIN toClient,
         \/ GetAcknowledged(toClient[i]) \/ PageArrives(toClient[i])
         \/ FinAcknowledged(toClient[i]) \/ Unexpected(toClient[i]),
         toClient' = RemoveAt(toClient, i), UNCHANGED <<seqnum, syns>>, SessionInv'
  PROVE  NumbersInv'
<1> DEFINE seg == toClient[i]
<1>1. Range(toClient') \subseteq Range(toClient) /\ Distinct(toClient')
  BY RangeRemoved, DistinctRemoved DEF SessionInv, NumbersInv
<1> HIDE DEF seg
<1>2. SameSession
  <2>1. CASE PageArrives(seg)
    BY <2>1 DEF PageArrives, Become, SessionInv, ClientOK, Clients, SameSession, InSession
  <2>2. CASE FinAcknowledged(seg)
    BY <2>2 DEF FinAcknowledged, SessionInv, ClientOK, Clients, SameSession, InSession
  <2>3. CASE GetAcknowledged(seg)
    BY <2>3 DEF GetAcknowledged, AcknowledgesGet, SessionInv, ClientOK, Clients,
                SameSession, InSession
  <2>4. CASE Unexpected(seg)
    BY <2>4 DEF Unexpected, SameSession, InSession
  <2> QED BY <2>1, <2>2, <2>3, <2>4 DEF seg
<1>3. PICK u \in Seq(BoardBound(ends')) :
        /\ toBoard' = toBoard \o u
        /\ \A s \in Range(u) : "SYN" \notin s.flags /\ ~(s.len > 0)
  <2>1. CASE PageArrives(seg)
    <3>1. client'.state = "last_ack" /\ toBoard' = toBoard \o Unacknowledged'
      BY <2>1 DEF PageArrives, Become, SessionInv, ClientOK, Clients
    <3>2. Unacknowledged' \in Seq(BoardBound(ends'))
      BY UnacknowledgedAfter DEF SessionInv
    <3>3. \A s \in Range(Unacknowledged') : "SYN" \notin s.flags /\ ~(s.len > 0)
      BY <3>1, SentAreAfter
    <3> QED BY <3>1, <3>2, <3>3
  <2>2. CASE toBoard' = toBoard
    <3>1. toBoard' = toBoard \o <<>> /\ <<>> \in Seq(BoardBound(ends')) /\ Range(<<>>) = {}
      BY <2>2 DEF SessionInv, Range
    <3> QED BY <3>1
  <2>3. CASE Unexpected(seg) /\ toBoard' # toBoard
    <3> DEFINE r == Segment({"ACK"}, IF client.state = "last_ack"
                                     THEN Plus(client.nxt, 1) ELSE client.nxt,
                            client.rcv, 0, <<>>)
    <3>1. toBoard' = Append(toBoard, r)
      BY <2>3 DEF Unexpected
    <3>2. "SYN" \notin r.flags /\ r.len = 0
      BY DEF Segment
    <3> HIDE DEF r
    <3>3. r \in BoardBound(ends')
      <4>1. toBoard' \in Seq(BoardBound(ends')) /\ Len(toBoard) \in Nat
        BY DEF SessionInv
      <4>2. Len(toBoard') = Len(toBoard) + 1 /\ toBoard'[Len(toBoard) + 1] = r
        BY <3>1 DEF SessionInv
      <4> QED BY <4>1, <4>2
    <3>4. toBoard' = toBoard \o <<r>> /\ <<r>> \in Seq(BoardBound(ends'))
      BY <3>1, <3>3 DEF SessionInv
    <3>5. \A s \in Range(<<r>>) : "SYN" \notin s.flags /\ ~(s.len > 0)
      BY <3>2 DEF Range
    <3> DEFINE u == <<r>>
    <3>6. /\ u \in Seq(BoardBound(ends')) /\ toBoard' = toBoard \o u
          /\ \A s \in Range(u) : "SYN" \notin s.flags /\ ~(s.len > 0)
      BY <3>4, <3>5
    <3> HIDE DEF u
    <3> QED BY <3>6
  <2>4. GetAcknowledged(seg) \/ FinAcknowledged(seg) => toBoard' = toBoard
    BY DEF GetAcknowledged, FinAcknowledged
  <2> QED BY <2>1, <2>2, <2>3, <2>4 DEF seg
<1>4. toBoard \in Seq(BoardBound(ends'))
  <2>1. ends \subseteq ends'
    BY DEF GetAcknowledged, PageArrives, FinAcknowledged, Unexpected, Become, seg
  <2> QED BY <2>1, Bounds, SeqOfMore DEF SessionInv
<1>5. Range(toBoard \o u) = Range(toBoard) \cup Range(u)
  BY <1>4, RangeJoined, Zenon
<1>6. SynsIn(toBoard \o u) = SynsIn(toBoard)
  BY <1>3, <1>4, SynsJoined, Zenon
<1>7. Cardinality(SynsIn(toBoard)) \in Nat
  BY SynsFinite DEF SessionInv
<1>8. SynsIn(toBoard') = SynsIn(toBoard) /\ Range(toBoard') = Range(toBoard) \cup Range(u)
  BY <1>3, <1>5, <1>6
<1>9. syns' \in Nat /\ 2 * syns' < Byte /\ Made' >= 0 /\ KeepsRecent
  BY <1>7, <1>8, FewerSyns
<1> QED BY <1>1, <1>2, <1>3, <1>8, <1>9, NumbersStay

(* What the server answers, as far as numbers go. *)
LEMMA AnswerKinds ==
  ASSUME NEW seg \in Segments, NEW n, NEW len, NEW data
  PROVE  LET answers == Answers(seg, n, len, data)
         IN  /\ "SYN" \in seg.flags =>
                  \E a : answers = <<Segment({"SYN", "ACK"}, Initial(n), a, 0, <<>>)>>
             /\ "SYN" \notin seg.flags =>
                  \A s \in Range(answers) :
                    /\ "SYN" \notin s.flags
                    /\ s.len > 0 => /\ seg.len > 0 /\ s.seq = seg.ack
                                    /\ s.len = len /\ s.data = data
<1>1. IsSegment(seg) /\ seg.len \in Nat
  BY ItsFields DEF Segments
<1> DEFINE syn == SynAck(seg, n)
           ack == AckFromAny(seg)
           page == AckWithData(ack, len, data)
<1>2. syn = Segment({"SYN", "ACK"}, Initial(n), Relative(seg.seq, 1), 0, <<>>)
  BY <1>1, SynAckIs
<1>3. /\ IsSegment(ack) /\ ack.flags = {"ACK"} /\ ack.len = 0
      /\ ack.seq = seg.ack
  <2> DEFINE r == Relative(seg.seq, IF seg.len = 0 THEN 1 ELSE seg.len)
  <2>1. ack = Segment({"ACK"}, seg.ack, r, 0, <<>>)
    BY <1>1, AckIs
  <2> HIDE DEF ack, r
  <2> QED BY <2>1 DEF Segment, IsSegment, SegmentFields
<1> HIDE DEF ack
<1>4. page = Segment({"ACK", "PSH", "FIN"}, ack.seq, ack.ack, len, data)
  BY <1>3, DataIs
<1>5. page.flags = {"ACK", "PSH", "FIN"} /\ page.len = len /\ page.data = data
      /\ page.seq = seg.ack
  <2> HIDE DEF page
  <2> QED BY <1>3, <1>4 DEF Segment
<1> HIDE DEF syn, page
<1>6. Answers(seg, n, len, data) =
        IF "SYN" \in seg.flags THEN <<syn>>
        ELSE IF "ACK" \notin seg.flags THEN <<>>
        ELSE IF seg.len # 0 THEN <<ack, page>>
        ELSE IF "FIN" \in seg.flags THEN <<ack>> ELSE <<>>
  BY DEF Answers, syn, ack, page
<1> DEFINE answers == Answers(seg, n, len, data)
<1>7. CASE "SYN" \in seg.flags
  <2>1. answers = <<syn>>
    BY <1>6, <1>7
  <2> HIDE DEF answers
  <2>2. answers = <<Segment({"SYN", "ACK"}, Initial(n), Relative(seg.seq, 1), 0, <<>>)>>
    BY <1>2, <2>1
  <2> QED BY <1>7, <2>2 DEF answers
<1>8. CASE "SYN" \notin seg.flags
  <2>1. \/ answers = <<>> \/ answers = <<ack>>
        \/ answers = <<ack, page>> /\ seg.len > 0
    BY <1>1, <1>6, <1>8
  <2>2. /\ Range(<<>>) = {} /\ \A s \in Range(<<ack>>) : s = ack
        /\ \A s \in Range(<<ack, page>>) : s = ack \/ s = page
    BY DEF Range
  <2>3. "SYN" \notin ack.flags /\ "SYN" \notin page.flags
    BY <1>3, <1>5
  <2> HIDE DEF answers
  <2>4. \A s \in Range(answers) :
          /\ "SYN" \notin s.flags
          /\ s.len > 0 => /\ seg.len > 0 /\ s.seq = seg.ack
                          /\ s.len = len /\ s.data = data
    BY <1>3, <1>5, <2>1, <2>2, <2>3
  <2> QED BY <1>8, <2>4 DEF answers
<1> QED BY <1>7, <1>8

(* The server takes a SYN: its SYN-ACK has a number that nothing under way *)
(* begins with.                                                            *)
LEMMA SynTakenNumbers ==
  ASSUME SessionInv, NumbersInv, NEW i \in DOMAIN toBoard, "SYN" \in toBoard[i].flags,
         NEW s, "SYN" \in s.flags, s.seq = Initial(seqnum), s.len = 0,
         toClient' = Append(toClient, s), toBoard' = RemoveAt(toBoard, i),
         seqnum' = NextSeqnum(seqnum), UNCHANGED <<client, syns>>, SessionInv'
  PROVE  NumbersInv'
<1>1. /\ Cardinality(SynsIn(toBoard)) \in Nat /\ Cardinality(SynsIn(toBoard')) \in Nat
      /\ Cardinality(SynsIn(toBoard')) = Cardinality(SynsIn(toBoard)) - 1
  <2>1. Cardinality(SynsIn(toBoard)) \in Nat /\ Cardinality(SynsIn(toBoard')) \in Nat
    BY SynsFinite DEF SessionInv
  <2>2. Cardinality(SynsIn(toBoard')) = Cardinality(SynsIn(toBoard)) - 1
    BY SynsRemoved DEF SessionInv
  <2> QED BY <2>1, <2>2
<1>2. /\ Made \in Nat /\ Made' = Made + 1 /\ 2 * Made + 2 < Byte
      /\ syns' \in Nat /\ 2 * syns' < Byte /\ Made' >= 0
  BY <1>1, Sizes DEF Made, NumbersInv
<1>3. PICK b : b = seqnum
  OBVIOUS
<1>4. (\A c : Recent(c) => Recent(c)' /\ c # b) /\ Recent(b)'
  BY <1>2, <1>3, RecentStep DEF SessionInv
<1>5. s.seq = Initial(b) /\ s.seq[3] = b
  BY <1>3 DEF Initial
<1>6. Range(toBoard') \subseteq Range(toBoard)
  BY RangeRemoved DEF SessionInv
<1>7. toClient \in Seq(ClientBound(ends) \cup {s})
  BY SeqOfMore DEF SessionInv
<1>8. Range(toClient') = Range(toClient) \cup {s}
  <2>1. /\ DOMAIN toClient' = 1 .. Len(toClient) + 1 /\ Len(toClient) \in Nat
        /\ toClient'[Len(toClient) + 1] = s
        /\ \A j \in DOMAIN toClient : toClient'[j] = toClient[j]
        /\ DOMAIN toClient = 1 .. Len(toClient)
    BY <1>7, AppendProperties
  <2> QED BY <2>1 DEF Range
<1>9. Distinct(toClient')
  <2>1. NotOffered(b, toClient)
    BY <1>4 DEF NotOffered, NumbersInv, IsOffer
  <2>2. NotOffered(s.seq[3], toClient) /\ Distinct(toClient)
    BY <1>5, <2>1 DEF NumbersInv
  <2>3. s \in ClientBound(ends) \cup {s}
    OBVIOUS
  <2>4. Distinct(Append(toClient, s))
    BY <1>7, <2>2, <2>3, DistinctAppended, Zenon
  <2> QED BY <2>4
<1>10. ASSUME NEW n, NEW data, InUse(n, data) PROVE InUse(n, data)'
  <2>1. NotOffered(n[3], toClient')
    BY <1>4, <1>5, <1>8, <1>10 DEF InUse, NotOffered
  <2> QED BY <1>4, <1>10, <2>1 DEF InUse, InSession
<1>11. \A r \in Range(toClient') : "SYN" \in r.flags => IsOffer(r)'
  BY <1>4, <1>5, <1>8 DEF NumbersInv, IsOffer
<1>12. \A r \in Range(toBoard') : r.len > 0 => InUse(r.ack, r.data)'
  BY <1>6, <1>10 DEF NumbersInv
<1>13. \A r \in Range(toClient') : r.len > 0 => IsPage(r)'
  <2> SUFFICES ASSUME NEW r \in Range(toClient'), r.len > 0 PROVE IsPage(r)'
    OBVIOUS
  <2>1. r \in Range(toClient)
    BY <1>8
  <2> QED BY <1>10, <2>1 DEF NumbersInv, IsPage
<1>14. InSession' => InUse(client.rcv, <<client.conn, client.cmd>>)'
  <2> SUFFICES ASSUME InSession' PROVE InUse(client.rcv, <<client.conn, client.cmd>>)'
    OBVIOUS
  <2>1. PICK n, data : n = client.rcv /\ data = <<client.conn, client.cmd>>
    OBVIOUS
  <2>2. InUse(n, data)
    BY <2>1 DEF NumbersInv, InSession
  <2>3. InUse(n, data)'
    BY <1>10, <2>2
  <2> QED BY <2>1, <2>3 DEF InUse
<1> QED BY <1>2, <1>9, <1>11, <1>12, <1>13, <1>14 DEF NumbersInv

(* It takes anything else: its pages begin where the request says, and are *)
(* for the connection the request is of.                                   *)
LEMMA RestTakenNumbers ==
  ASSUME SessionInv, NumbersInv, NEW i \in DOMAIN toBoard, "SYN" \notin toBoard[i].flags,
         NEW answers \in Seq(ClientBound(ends)),
         \A s \in Range(answers) :
           /\ "SYN" \notin s.flags
           /\ s.len > 0 => /\ toBoard[i].len > 0 /\ s.seq = toBoard[i].ack
                           /\ s.len = PageLen[s.data[2]] /\ s.data = toBoard[i].data,
         toClient' = toClient \o answers, toBoard' = RemoveAt(toBoard, i),
         UNCHANGED <<client, syns, seqnum>>, SessionInv'
  PROVE  NumbersInv'
<1>1. PICK seg : seg = toBoard[i]
  OBVIOUS
<1>2. Range(toBoard') \subseteq Range(toBoard) /\ seg \in Range(toBoard)
  BY <1>1, RangeRemoved DEF SessionInv
<1>3. /\ Cardinality(SynsIn(toBoard)) \in Nat /\ Cardinality(SynsIn(toBoard')) \in Nat
      /\ Cardinality(SynsIn(toBoard')) = Cardinality(SynsIn(toBoard))
  <2>1. Cardinality(SynsIn(toBoard)) \in Nat /\ Cardinality(SynsIn(toBoard')) \in Nat
    BY SynsFinite DEF SessionInv
  <2>2. Cardinality(SynsIn(toBoard')) = Cardinality(SynsIn(toBoard))
    BY SynsRemoved DEF SessionInv
  <2> QED BY <2>1, <2>2
<1>4. syns' \in Nat /\ 2 * syns' < Byte /\ Made' >= 0 /\ KeepsRecent
  BY <1>3, FewerSyns
<1>5. toClient \in Seq(ClientBound(ends))
  BY DEF SessionInv
<1>6. Range(toClient \o answers) = Range(toClient) \cup Range(answers)
  BY <1>5, RangeJoined, Zenon
<1>7. Distinct(toClient \o answers)
  <2>1. Distinct(toClient) /\ \A s \in Range(answers) : "SYN" \notin s.flags
    BY DEF NumbersInv
  <2> QED BY <1>5, <2>1, DistinctJoined, Zenon
<1>8. Range(toClient') = Range(toClient) \cup Range(answers) /\ Distinct(toClient')
  BY <1>6, <1>7
<1>9. ASSUME NEW n, NEW data, InUse(n, data) PROVE InUse(n, data)'
  <2>1. NotOffered(n[3], toClient')
    BY <1>8, <1>9 DEF InUse, NotOffered
  <2> QED BY <1>4, <1>9, <2>1 DEF InUse, InSession, KeepsRecent
<1>10. \A s \in Range(toClient') : "SYN" \in s.flags => IsOffer(s)'
  BY <1>4, <1>8 DEF NumbersInv, IsOffer, KeepsRecent
<1>11. \A s \in Range(toBoard') : s.len > 0 => InUse(s.ack, s.data)'
  BY <1>2, <1>9 DEF NumbersInv
<1>12. \A s \in Range(toClient') : s.len > 0 => IsPage(s)'
  <2> SUFFICES ASSUME NEW s \in Range(toClient'), s.len > 0 PROVE IsPage(s)'
    OBVIOUS
  <2>1. CASE s \in Range(toClient)
    BY <1>9, <2>1 DEF NumbersInv, IsPage
  <2>2. CASE s \in Range(answers)
    <3>1. /\ seg.len > 0 /\ s.seq = seg.ack /\ s.data = seg.data
          /\ s.len = PageLen[s.data[2]]
      BY <1>1, <2>2
    <3>2. InUse(seg.ack, seg.data)
      BY <1>2, <3>1 DEF NumbersInv
    <3>3. InUse(s.seq, s.data)'
      BY <1>9, <3>1, <3>2
    <3> QED BY <3>1, <3>3 DEF IsPage
  <2> QED BY <1>8, <2>1, <2>2
<1>13. InSession' => InUse(client.rcv, <<client.conn, client.cmd>>)'
  <2> SUFFICES ASSUME InSession' PROVE InUse(client.rcv, <<client.conn, client.cmd>>)'
    OBVIOUS
  <2>1. PICK n, data : n = client.rcv /\ data = <<client.conn, client.cmd>>
    OBVIOUS
  <2>2. InUse(n, data)
    BY <2>1 DEF NumbersInv, InSession
  <2>3. InUse(n, data)'
    BY <1>9, <2>2
  <2> QED BY <2>1, <2>3 DEF InUse
<1> QED BY <1>4, <1>8, <1>10, <1>11, <1>12, <1>13 DEF NumbersInv

(* Both together are the handler. *)
LEMMA BoardReceivesNumbers ==
  ASSUME SessionInv, NumbersInv, BoardReceives, SessionInv'
  PROVE  NumbersInv'
<1>1. PICK i \in DOMAIN toBoard :
        /\ seqnum' = SeqnumAfter(toBoard[i], seqnum)
        /\ toClient' = toClient \o
             Answers(toBoard[i], seqnum, PageLen[LedAfter(toBoard[i])], Page(toBoard[i]))
        /\ toBoard' = RemoveAt(toBoard, i)
        /\ UNCHANGED <<client, ends, syns>>
  BY DEF BoardReceives, Arriving
<1>2. PICK seg, n, len, data :
        /\ seg = toBoard[i] /\ n = seqnum
        /\ len = PageLen[LedAfter(seg)] /\ data = Page(seg)
  OBVIOUS
<1>3. seg \in BoardBound(ends) /\ seg \in Segments
  BY <1>2 DEF SessionInv, BoardBound
<1>4. PICK answers : answers = Answers(seg, n, len, data)
  OBVIOUS
<1>5. toClient' = toClient \o answers
  BY <1>1, <1>2, <1>4
<1>6. /\ "SYN" \in seg.flags =>
           \E a : answers = <<Segment({"SYN", "ACK"}, Initial(n), a, 0, <<>>)>>
      /\ "SYN" \notin seg.flags =>
           \A s \in Range(answers) :
             /\ "SYN" \notin s.flags
             /\ s.len > 0 => /\ seg.len > 0 /\ s.seq = seg.ack
                             /\ s.len = len /\ s.data = data
  BY <1>3, <1>4, AnswerKinds
<1>7. CASE "SYN" \in seg.flags
  <2>1. PICK a : answers = <<Segment({"SYN", "ACK"}, Initial(n), a, 0, <<>>)>>
    BY <1>6, <1>7
  <2>2. PICK s : s = Segment({"SYN", "ACK"}, Initial(n), a, 0, <<>>)
    OBVIOUS
  <2>3. "SYN" \in s.flags /\ s.seq = Initial(seqnum) /\ s.len = 0
    BY <1>2, <2>2 DEF Segment
  <2>4. toClient' = Append(toClient, s)
    BY <1>5, <2>1, <2>2 DEF SessionInv
  <2>5. seqnum' = NextSeqnum(seqnum)
    BY <1>1, <1>2, <1>7 DEF SeqnumAfter
  <2> QED BY <1>1, <1>2, <1>7, <2>3, <2>4, <2>5, SynTakenNumbers
<1>8. CASE "SYN" \notin seg.flags
  <2>1. answers \in Seq(ClientBound(ends))
    <3>1. LedAfter(seg) \in BOOLEAN /\ data \in Data
      <4>1. CASE seg.len > 0
        <5>1. seg.data \in Nat \X BOOLEAN
          BY <1>3, <4>1 DEF BoardBound, Segments, Data
        <5>2. seg.data[1] \in Nat /\ seg.data[2] \in BOOLEAN
          BY <5>1
        <5> QED BY <1>2, <4>1, <5>2 DEF LedAfter, Page, Data
      <4>2. CASE ~ seg.len > 0
        BY <1>2, <4>2 DEF LedAfter, Page, SessionInv, Data
      <4> QED BY <4>1, <4>2
    <3>2. len \in 1 .. Word - Byte - 1
      BY <1>2, <3>1, Lengths
    <3> QED BY <1>2, <1>3, <1>4, <3>1, <3>2, AnswersBounded DEF SessionInv
  <2>2. ASSUME seg.len > 0 PROVE data = seg.data /\ len = PageLen[seg.data[2]]
    <3>1. seg.data \in Nat \X BOOLEAN
      BY <1>3, <2>2 DEF BoardBound, Segments, Data
    <3>2. seg.data = <<seg.data[1], seg.data[2]>>
      BY <3>1
    <3> QED BY <1>2, <2>2, <3>2 DEF LedAfter, Page
  <2>3. \A s \in Range(answers) :
          /\ "SYN" \notin s.flags
          /\ s.len > 0 => /\ toBoard[i].len > 0 /\ s.seq = toBoard[i].ack
                          /\ s.len = PageLen[s.data[2]] /\ s.data = toBoard[i].data
    BY <1>2, <1>6, <1>8, <2>2
  <2>4. seqnum' = seqnum
    BY <1>1, <1>2, <1>8 DEF SeqnumAfter
  <2> QED BY <1>1, <1>2, <1>5, <1>8, <2>1, <2>3, <2>4, RestTakenNumbers
<1> QED BY <1>7, <1>8

(* What a client takes is its page or a long one. *)
LEMMA PageTaken ==
  ASSUME SessionInv, NumbersInv, NEW seg \in Range(toClient), BringsPage(seg)
  PROVE  seg.data = <<client.conn, client.cmd>> \/ PageLen[seg.data[2]] > 2 * Byte
<1>1. InSession /\ Distance(seg.seq, client.rcv) < seg.len /\ seg.len \in Nat
  <2>1. seg \in ClientBound(ends)
    BY DEF SessionInv, Range
  <2> QED BY <2>1 DEF BringsPage, Continues, InSession, ClientBound, Segments
<1>2. /\ client.rcv \in Numbers /\ seg.seq \in Numbers
      /\ Distance(seg.seq, client.rcv) \in Nat
  <2>1. client.rcv \in Numbers /\ seg.seq \in Numbers
    BY DEF SessionInv, ClientOK, Clients, ClientBound, Segments, Range
  <2> QED BY <2>1, DistanceType
<1>3. PICK n : n = client.rcv
  OBVIOUS
<1>4. IsPage(seg) /\ InUse(n, <<client.conn, client.cmd>>)
  BY <1>1, <1>2, <1>3 DEF NumbersInv
<1>5. PICK b : b = seg.seq[3]
  OBVIOUS
<1>6. PICK c : c = n[3]
  OBVIOUS
<1>7. /\ seg.seq = <<0, 0, b, 1>> /\ n = <<0, 0, c, 1>> /\ Recent(b) /\ Recent(c)
      /\ b \in Bytes /\ c \in Bytes
  BY <1>4, <1>5, <1>6 DEF IsPage, InUse, Recent
<1>8. CASE b = c
  <2>1. seg.seq = client.rcv
    BY <1>3, <1>7, <1>8
  <2> QED BY <1>1, <1>4, <2>1 DEF IsPage, InUse
<1>9. CASE b # c
  <2>1. Distance(<<0, 0, b, 1>>, <<0, 0, c, 1>>) >= 2 * Byte
    <3>1. /\ syns \in Nat /\ 2 * syns < Byte /\ seqnum \in Bytes
          /\ Made \in Nat /\ Made <= syns
      BY MadeIs DEF NumbersInv, SessionInv
    <3> QED BY <1>7, <1>9, <3>1, RecentApart
  <2>2. Distance(seg.seq, client.rcv) >= 2 * Byte
    BY <1>3, <1>7, <2>1
  <2>3. seg.len > 2 * Byte
    BY <1>1, <1>2, <2>2, Sizes
  <2> QED BY <1>4, <2>3 DEF IsPage
<1> QED BY <1>8, <1>9

(* The client takes a segment, and with it no page but its own or a long   *)
(* one.                                                                    *)
LEMMA ClientReceivesNumbers ==
  ASSUME SessionInv, NumbersInv, OnlyLongPagesMistaken, ClientReceives, SessionInv'
  PROVE  NumbersInv' /\ OnlyLongPagesMistaken'
<1>1. PICK i \in DOMAIN toClient :
        /\ \/ Established(toClient[i]) \/ GetAcknowledged(toClient[i])
           \/ PageArrives(toClient[i]) \/ FinAcknowledged(toClient[i])
           \/ Unexpected(toClient[i])
        /\ toClient' = RemoveAt(toClient, i)
        /\ UNCHANGED <<seqnum, syns>>
  BY DEF ClientReceives, Arriving, board
<1>2. NumbersInv'
  BY <1>1, EstablishedNumbers, TakenNumbers
<1>3. PICK seg \in Range(toClient) : seg = toClient[i]
  BY DEF Range
<1>4. CASE PageArrives(seg)
  <2>1. seg.data = <<client.conn, client.cmd>> \/ PageLen[seg.data[2]] > 2 * Byte
    BY <1>4, PageTaken DEF PageArrives
  <2>2. client'.page = seg.data /\ client'.conn = client.conn /\ client'.cmd = client.cmd
    BY <1>4 DEF PageArrives, Become, SessionInv, ClientOK, Clients
  <2> QED BY <1>2, <2>1, <2>2 DEF OnlyLongPagesMistaken
<1>5. CASE ~PageArrives(seg)
  <2>1. /\ client'.page = client.page /\ client'.conn = client.conn
        /\ client'.cmd = client.cmd
    BY <1>1, <1>3, <1>5 DEF Established, GetAcknowledged, FinAcknowledged, Unexpected,
                            Become, SessionInv, ClientOK, Clients
  <2> QED BY <1>2, <2>1 DEF OnlyLongPagesMistaken
<1> QED BY <1>4, <1>5

(* In the beginning no number is in use. *)
LEMMA InitNumbers == Init => NumbersInv /\ OnlyLongPagesMistaken
<1> SUFFICES ASSUME Init PROVE NumbersInv /\ OnlyLongPagesMistaken
  OBVIOUS
<1>1. /\ toBoard = <<>> /\ toClient = <<>> /\ syns = 0
      /\ client.state = "closed" /\ client.page = <<>>
  BY DEF Init
<1>2. Range(<<>>) = {} /\ SynsIn(<<>>) = {}
  BY DEF Range, SynsIn
<1>3. Made = 0
  <2>1. SynsIn(toBoard) = {}
    BY <1>1, <1>2
  <2>2. Cardinality(SynsIn(toBoard)) = 0
    BY <2>1, FS_EmptySet, Zenon
  <2>3. syns - Cardinality(SynsIn(toBoard)) = 0
    BY <1>1, <2>2
  <2> QED BY <2>3 DEF Made
<1> QED BY <1>1, <1>2, <1>3, Sizes
        DEF NumbersInv, Distinct, InSession, OnlyLongPagesMistaken

(* No step breaks the invariant. *)
LEMMA NumbersStep ==
  ASSUME FewSyns, SessionInv, SessionInv', NumbersInv, OnlyLongPagesMistaken, [Next]_vars
  PROVE  NumbersInv' /\ OnlyLongPagesMistaken'
<1>1. CASE UNCHANGED vars
  <2>1. /\ UNCHANGED <<client, toBoard, toClient, syns, seqnum>>
    BY <1>1 DEF vars
  <2>2. SameSession
    BY <2>1 DEF SameSession, InSession
  <2> QED BY <2>1, <2>2, QuietNumbers DEF OnlyLongPagesMistaken
<1>2. ASSUME NEW cmd \in BOOLEAN, NEW iss \in ClientIsns, Open(cmd, iss)
      PROVE  NumbersInv' /\ OnlyLongPagesMistaken'
  <2>1. client'.page = <<>>
    BY <1>2 DEF Open, Become, SessionInv, ClientOK, Clients
  <2> QED BY <1>2, <2>1, OpenNumbers DEF OnlyLongPagesMistaken
<1>3. CASE Repeat
  BY <1>3, RepeatNumbers DEF Repeat, OnlyLongPagesMistaken
<1>4. CASE GiveUp
  <2>1. /\ UNCHANGED <<toBoard, toClient, syns, seqnum>>
        /\ client'.page = client.page /\ client'.conn = client.conn
        /\ client'.cmd = client.cmd /\ client'.state = "closed"
    BY <1>4 DEF GiveUp, network, board, SessionInv, ClientOK, Clients
  <2>2. SameSession
    BY <2>1 DEF SameSession, InSession
  <2> QED BY <2>1, <2>2, QuietNumbers DEF OnlyLongPagesMistaken
<1>5. CASE ClientReceives
  BY <1>5, ClientReceivesNumbers
<1>6. CASE BoardReceives
  BY <1>6, BoardReceivesNumbers DEF BoardReceives, OnlyLongPagesMistaken
<1>7. CASE LoseToBoard \/ LoseToClient
  BY <1>7, LossNumbers DEF LoseToBoard, LoseToClient, OnlyLongPagesMistaken
<1> QED BY <1>1, <1>2, <1>3, <1>4, <1>5, <1>6, <1>7 DEF Next

(* seqnum in make_tcphead: if the numbers do not come round, the client    *)
(* takes no page of another connection but one longer than two steps of    *)
(* the third byte, for pages of every length, any loss, repetition and     *)
(* order. The inductive invariant is NumbersInv: the numbers of two        *)
(* connections under way are two steps apart.                              *)
THEOREM LongPagesMistaken ==
  ASSUME FewSyns
  PROVE  Spec => []OnlyLongPagesMistaken
<1>1. /\ SessionInv /\ SessionInv' /\ NumbersInv /\ OnlyLongPagesMistaken /\ [Next]_vars
      => NumbersInv' /\ OnlyLongPagesMistaken'
  BY NumbersStep
<1> QED BY <1>1, InitNumbers, SessionInvariant, PTL DEF Spec

(* With the pages the comment in make_tcphead allows, it takes no page but *)
(* its own.                                                                *)
THEOREM PageOfThisConnection ==
  ASSUME FewSyns, ShortPages
  PROVE  Spec => []PageIsForThisConnection
<1>1. SessionInv /\ OnlyLongPagesMistaken => PageIsForThisConnection
  <2> SUFFICES ASSUME SessionInv, OnlyLongPagesMistaken, client.page # <<>>
               PROVE  client.page = <<client.conn, client.cmd>>
    BY DEF PageIsForThisConnection
  <2>1. client.page \in Nat \X BOOLEAN
    BY DEF SessionInv, ClientOK, Clients, Data
  <2>2. client.page[2] \in BOOLEAN
    BY <2>1
  <2>3. PageLen[client.page[2]] \in Nat /\ PageLen[client.page[2]] <= 2 * Byte
    BY <2>2, Lengths DEF ShortPages
  <2> QED BY <2>3, Sizes DEF OnlyLongPagesMistaken
<1> QED BY <1>1, LongPagesMistaken, SessionInvariant, PTL
-----------------------------------------------------------------------------
(* Requests are under way in the order of their connections; those of this *)
(* one ask for its state, those of earlier ones for the state there is.    *)
Ordered(q) ==
  \A i, j \in DOMAIN q :
    i < j /\ q[i].len > 0 /\ q[j].len > 0 => q[i].data[1] <= q[j].data[1]

(* The request of this connection has been carried out, as far as the      *)
(* client can tell.                                                        *)
Settled == client.state \in {"last_ack", "done", "closed"} \/ orphaned

AsksFor(s) ==
  /\ s.data[1] <= client.conn
  /\ s.data[2] = IF s.data[1] = client.conn THEN client.cmd ELSE svitLED
Tells(s) ==
  /\ s.data \in Nat \X BOOLEAN /\ s.data[1] <= client.conn
  /\ s.data[1] = client.conn => svitLED = client.cmd

LampInv ==
  /\ Ordered(toBoard)
  /\ \A s \in Range(toBoard) : s.len > 0 => AsksFor(s)
  /\ \A s \in Range(toClient) : s.len > 0 => Tells(s)
  /\ Settled => svitLED = client.cmd

(* The order remains when something is lost, and when requests of the last *)
(* connection join.                                                        *)
LEMMA OrderedRemoved ==
  ASSUME NEW S, NEW q \in Seq(S), NEW i \in DOMAIN q, Ordered(q)
  PROVE  Ordered(RemoveAt(q, i))
<1> DEFINE r == RemoveAt(q, i)
           at(j) == IF j < i THEN j ELSE j + 1
<1>1. /\ DOMAIN r = 1 .. Len(q) - 1 /\ \A j \in DOMAIN r : r[j] = q[at(j)]
      /\ Len(q) \in Nat /\ i \in 1 .. Len(q) /\ DOMAIN q = 1 .. Len(q)
  BY RemovedIs
<1> HIDE DEF r
<1>2. \A j \in DOMAIN r : at(j) \in DOMAIN q /\ r[j] = q[at(j)]
  BY <1>1
<1>3. \A j, k \in DOMAIN r : j < k => at(j) < at(k)
  BY <1>1
<1> HIDE DEF at
<1>4. Ordered(r)
  BY <1>2, <1>3 DEF Ordered
<1> QED BY <1>4 DEF r

LEMMA OrderedJoined ==
  ASSUME NEW S, NEW q \in Seq(S), NEW r \in Seq(S), Ordered(q), NEW c \in Nat,
         \A s \in Range(q) : s.len > 0 => s.data[1] <= c,
         \A s \in Range(r) : s.len > 0 => s.data[1] = c
  PROVE  Ordered(q \o r)
<1>1. /\ Len(q \o r) = Len(q) + Len(r) /\ q \o r \in Seq(S)
      /\ \A j \in 1 .. Len(q) + Len(r) :
           (q \o r)[j] = IF j <= Len(q) THEN q[j] ELSE r[j - Len(q)]
  BY ConcatProperties, Zenon
<1> DEFINE t == q \o r
<1>2. t \in Seq(S) /\ Len(t) = Len(q) + Len(r)
  BY <1>1
<1>3. \A j \in 1 .. Len(q) + Len(r) :
        t[j] = IF j <= Len(q) THEN q[j] ELSE r[j - Len(q)]
  BY <1>1
<1> HIDE DEF t
<1>4. Len(q) \in Nat /\ Len(r) \in Nat /\ DOMAIN t = 1 .. Len(q) + Len(r)
  BY <1>2
<1>5. ASSUME NEW j \in DOMAIN t, ~(j <= Len(q)), t[j].len > 0 PROVE t[j].data[1] = c
  <2>1. j - Len(q) \in 1 .. Len(r) /\ t[j] = r[j - Len(q)]
    BY <1>3, <1>4, <1>5
  <2> QED BY <1>5, <2>1 DEF Range
<1>6. ASSUME NEW j \in DOMAIN t, j <= Len(q)
      PROVE  j \in DOMAIN q /\ t[j] = q[j] /\ (t[j].len > 0 => t[j].data[1] <= c)
  <2>1. j \in DOMAIN q /\ t[j] = q[j]
    BY <1>3, <1>4, <1>6
  <2> QED BY <2>1 DEF Range
<1>7. ASSUME NEW i \in DOMAIN t, NEW j \in DOMAIN t, i < j, t[i].len > 0, t[j].len > 0
      PROVE  t[i].data[1] <= t[j].data[1]
  <2>1. CASE j <= Len(q)
    <3>1. i <= Len(q)
      BY <1>4, <1>7, <2>1
    <3> QED BY <1>6, <1>7, <2>1, <3>1 DEF Ordered
  <2>2. CASE ~(j <= Len(q)) /\ i <= Len(q)
    BY <1>5, <1>6, <1>7, <2>2
  <2>3. CASE ~(j <= Len(q)) /\ ~(i <= Len(q))
    BY <1>5, <1>7, <2>3
  <2> QED BY <2>1, <2>2, <2>3
<1>8. Ordered(t)
  BY <1>7 DEF Ordered
<1> QED BY <1>8 DEF t

(* What the client sends in a step is of the connection it is then in. *)
Sends(u) ==
  /\ u \in Seq(BoardBound(ends')) /\ toBoard' = toBoard \o u
  /\ \A s \in Range(u) : s.len > 0 => s.data = <<client'.conn, client'.cmd>>

LEMMA SendsNothing ==
  ASSUME SessionInv, toBoard' = toBoard
  PROVE  Sends(<<>>)
<1>1. <<>> \in Seq(BoardBound(ends')) /\ Range(<<>>) = {} /\ toBoard' = toBoard \o <<>>
  BY DEF Range, SessionInv
<1> QED BY <1>1 DEF Sends

LEMMA SendsNext ==
  ASSUME SessionInv', toBoard' = toBoard \o Unacknowledged'
  PROVE  Sends(Unacknowledged')
<1>1. Unacknowledged' \in Seq(BoardBound(ends'))
  BY UnacknowledgedAfter DEF SessionInv
<1>2. \A s \in Range(Unacknowledged') : s.len > 0 => s.data = <<client'.conn, client'.cmd>>
  <2>1. CASE client'.state = "syn_sent"
    <3>1. PICK s : Unacknowledged' = <<s>> /\ s.len = 0
      BY <2>1, SentAreAfter
    <3>2. \A r \in Range(<<s>>) : r.len = 0
      BY <3>1 DEF Range
    <3> QED BY <3>1, <3>2
  <2>2. CASE client'.state # "syn_sent"
    BY <2>2, SentAreAfter
  <2> QED BY <2>1, <2>2
<1> QED BY <1>1, <1>2 DEF Sends

LEMMA SendsOne ==
  ASSUME SessionInv, SessionInv', NEW r, toBoard' = Append(toBoard, r),
         r.len > 0 => r.data = <<client'.conn, client'.cmd>>
  PROVE  Sends(<<r>>)
<1>1. r \in BoardBound(ends')
  <2>1. toBoard' \in Seq(BoardBound(ends')) /\ Len(toBoard) \in Nat
    BY DEF SessionInv
  <2>2. Len(toBoard') = Len(toBoard) + 1 /\ toBoard'[Len(toBoard) + 1] = r
    BY DEF SessionInv
  <2> QED BY <2>1, <2>2
<1>2. toBoard' = toBoard \o <<r>> /\ <<r>> \in Seq(BoardBound(ends'))
  BY <1>1 DEF SessionInv
<1>3. \A s \in Range(<<r>>) : s = r
  BY DEF Range
<1> QED BY <1>2, <1>3 DEF Sends

(* Steps within a connection that leave the LED. *)
LEMMA LampStays ==
  ASSUME SessionInv, SessionInv', LampInv, NEW u, Sends(u),
         client'.conn = client.conn, client'.cmd = client.cmd, svitLED' = svitLED,
         Range(toClient') \subseteq Range(toClient),
         Settled' => svitLED = client.cmd
  PROVE  LampInv'
<1>1. toBoard \in Seq(BoardBound(ends)) /\ client.conn \in Nat
  BY SessionAssumption DEF SessionInv, ClientOK, Clients
<1>2. PICK S : toBoard \in Seq(S) /\ u \in Seq(S)
  <2>1. toBoard \in Seq(BoardBound(ends) \cup BoardBound(ends'))
    BY <1>1, SeqOfMore
  <2>2. u \in Seq(BoardBound(ends) \cup BoardBound(ends'))
    BY SeqOfMore DEF Sends
  <2> QED BY <2>1, <2>2
<1>3. Range(toBoard \o u) = Range(toBoard) \cup Range(u)
  BY <1>2, RangeJoined, Zenon
<1>4. \A s \in Range(u) : s.len > 0 => s.data[1] = client.conn /\ s.data[2] = client.cmd
  BY DEF Sends
<1>5. \A s \in Range(toBoard) : s.len > 0 => s.data[1] <= client.conn
  BY DEF LampInv, AsksFor
<1>6. Ordered(toBoard \o u)
  <2>1. Ordered(toBoard) /\ \A s \in Range(u) : s.len > 0 => s.data[1] = client.conn
    BY <1>4 DEF LampInv
  <2>2. PICK c : c = client.conn
    OBVIOUS
  <2> QED BY <1>1, <1>2, <1>5, <2>1, <2>2, OrderedJoined, Zenon
<1>7. Range(toBoard') = Range(toBoard) \cup Range(u) /\ Ordered(toBoard')
  BY <1>3, <1>6 DEF Sends
<1>8. \A s \in Range(toBoard') : s.len > 0 => AsksFor(s)'
  BY <1>1, <1>4, <1>7 DEF LampInv, AsksFor
<1>9. \A s \in Range(toClient') : s.len > 0 => Tells(s)'
  BY DEF LampInv, Tells
<1> QED BY <1>7, <1>8, <1>9 DEF LampInv

(* A client opens a connection when its last request is settled. *)
LEMMA OpenLamp ==
  ASSUME SessionInv, SessionInv', LampInv, NEW cmd \in BOOLEAN, NEW iss \in ClientIsns,
         Open(cmd, iss)
  PROVE  LampInv'
<1>1. /\ client'.conn = client.conn + 1 /\ client'.cmd = cmd /\ client'.state = "syn_sent"
      /\ toBoard' = toBoard \o Unacknowledged' /\ toClient' = toClient
      /\ svitLED' = svitLED /\ orphaned' = FALSE /\ client.state \in {"closed", "done"}
  BY DEF Open, Become, board, SessionInv, ClientOK, Clients
<1>2. client.conn \in Nat
  BY SessionAssumption DEF SessionInv, ClientOK, Clients
<1>3. PICK s : Unacknowledged' = <<s>> /\ s.len = 0
  BY <1>1, SentAreAfter
<1>4. Range(Unacknowledged') = {s}
  BY <1>3 DEF Range
<1>5. svitLED = client.cmd
  BY <1>1 DEF LampInv, Settled
<1>6. PICK u : u = Unacknowledged' /\ Sends(u)
  BY <1>1, SendsNext
<1>7. PICK S : toBoard \in Seq(S) /\ u \in Seq(S)
  <2>1. toBoard \in Seq(BoardBound(ends) \cup BoardBound(ends'))
    BY SeqOfMore DEF SessionInv
  <2>2. u \in Seq(BoardBound(ends) \cup BoardBound(ends'))
    BY <1>6, SeqOfMore DEF Sends
  <2> QED BY <2>1, <2>2
<1>8. Range(toBoard \o u) = Range(toBoard) \cup Range(u)
  BY <1>7, RangeJoined, Zenon
<1>9. Ordered(toBoard \o u)
  <2>1. PICK c \in Nat : c = client.conn + 1
    BY <1>2
  <2>2. Ordered(toBoard) /\ \A r \in Range(u) : r.len > 0 => r.data[1] = c
    BY <1>3, <1>4, <1>6 DEF LampInv
  <2>3. \A r \in Range(toBoard) : r.len > 0 => r.data[1] <= c
    <3> SUFFICES ASSUME NEW r \in Range(toBoard), r.len > 0 PROVE r.data[1] <= c
      OBVIOUS
    <3>1. r.data[1] <= client.conn
      BY DEF LampInv, AsksFor
    <3>2. r.data \in Nat \X BOOLEAN
      BY DEF SessionInv, BoardBound, Segments, Data, Range
    <3>3. r.data[1] \in Nat
      BY <3>2
    <3> QED BY <1>2, <2>1, <3>1, <3>3
  <2> QED BY <1>7, <2>1, <2>2, <2>3, OrderedJoined, Zenon
<1>10. Range(toBoard') = Range(toBoard) \cup {s} /\ Ordered(toBoard')
  BY <1>1, <1>4, <1>6, <1>8, <1>9
<1>11. ASSUME NEW r \in Range(toBoard'), r.len > 0 PROVE AsksFor(r)'
  <2>1. r \in Range(toBoard) /\ AsksFor(r)
    BY <1>3, <1>10, <1>11 DEF LampInv
  <2>2. r.data \in Nat \X BOOLEAN
    BY <1>11, <2>1 DEF SessionInv, BoardBound, Segments, Data, Range
  <2>3. r.data[1] \in Nat
    BY <2>2
  <2> QED BY <1>1, <1>2, <1>5, <2>1, <2>3 DEF AsksFor
<1>12. ASSUME NEW r \in Range(toClient'), r.len > 0 PROVE Tells(r)'
  <2>1. Tells(r)
    BY <1>1, <1>12 DEF LampInv
  <2>2. r.data \in Nat \X BOOLEAN /\ r.data[1] <= client.conn
    BY <2>1 DEF Tells
  <2>3. r.data[1] \in Nat
    BY <2>2
  <2> QED BY <1>1, <1>2, <2>2, <2>3 DEF Tells
<1>13. ~Settled'
  BY <1>1 DEF Settled
<1> QED BY <1>10, <1>11, <1>12, <1>13 DEF LampInv

(* It repeats what it asks for. *)
LEMMA RepeatLamp ==
  ASSUME SessionInv, SessionInv', LampInv, Repeat
  PROVE  LampInv'
<1>1. /\ toBoard' = Append(toBoard, Last(Unacknowledged)) /\ Unacknowledged # <<>>
      /\ UNCHANGED <<client, toClient, svitLED, orphaned>>
  BY DEF Repeat, board
<1>2. PICK r : r = Last(Unacknowledged)
  OBVIOUS
<1>3. r \in Range(Unacknowledged)
  <2> DEFINE v == Unacknowledged
  <2>1. v \in Seq(BoardBound(ends))
    BY UnacknowledgedBounded DEF SessionInv
  <2>2. Len(v) \in DOMAIN v
    BY <1>1, <2>1, EmptySeq
  <2> QED BY <1>2, <2>2 DEF Last, Range
<1>4. r.len > 0 => r.data = <<client.conn, client.cmd>>
  <2>1. CASE client.state = "syn_sent"
    <3>1. PICK s : Unacknowledged = <<s>> /\ s.len = 0
      BY <2>1, SentAre
    <3> QED BY <1>3, <3>1 DEF Range
  <2>2. CASE client.state # "syn_sent"
    BY <1>3, <2>2, SentAre
  <2> QED BY <2>1, <2>2
<1>5. PICK u : Sends(u)
  BY <1>1, <1>2, <1>4, SendsOne
<1>6. Settled' => svitLED = client.cmd
  BY <1>1 DEF Settled, LampInv
<1> QED BY <1>1, <1>5, <1>6, LampStays

(* It takes its page: the lamp is what it asked for, and the page tells    *)
(* so.                                                                     *)
LEMMA ClientReceivesLamp ==
  ASSUME SessionInv, SessionInv', LampInv, NumbersInv, ShortPages, ClientReceives
  PROVE  /\ LampInv'
         /\ [Lamp!Next]_(Lamp!vars)
<1>1. PICK i \in DOMAIN toClient :
        /\ \/ Established(toClient[i]) \/ GetAcknowledged(toClient[i])
           \/ PageArrives(toClient[i]) \/ FinAcknowledged(toClient[i])
           \/ Unexpected(toClient[i])
        /\ toClient' = RemoveAt(toClient, i)
        /\ UNCHANGED <<svitLED, orphaned>>
  BY DEF ClientReceives, Arriving, board
<1>2. PICK seg \in Range(toClient) : seg = toClient[i]
  BY DEF Range
<1>3. Range(toClient') \subseteq Range(toClient)
  BY <1>1, RangeRemoved DEF SessionInv
<1>4. /\ client'.conn = client.conn /\ client'.cmd = client.cmd
      /\ client'.state \in {"last_ack", "done", "closed"} =>
           client.state \in {"last_ack", "done", "closed"} \/ PageArrives(seg)
      /\ ~PageArrives(seg) =>
           /\ client'.page = client.page
           /\ client'.state \in {"syn_sent", "get_sent", "waiting"} <=>
                client.state \in {"syn_sent", "get_sent", "waiting"}
  BY <1>1, <1>2 DEF Established, GetAcknowledged, PageArrives, FinAcknowledged, Unexpected,
              IsSynAck, AcknowledgesGet, AcknowledgesFin, Become, SessionInv, ClientOK, Clients
<1>5. ASSUME PageArrives(seg)
      PROVE  /\ seg.data = <<client.conn, client.cmd>> /\ svitLED = client.cmd
             /\ client'.page = seg.data /\ client'.state = "last_ack"
             /\ client.state \in {"get_sent", "waiting"}
  <2>1. seg.data = <<client.conn, client.cmd>> \/ PageLen[seg.data[2]] > 2 * Byte
    BY <1>5, PageTaken DEF PageArrives
  <2>2. seg.len > 0 /\ IsPage(seg) /\ seg.len \in Nat
    <3>1. seg.len \in Nat /\ Distance(seg.seq, client.rcv) < seg.len
      BY <1>5 DEF PageArrives, BringsPage, Continues, SessionInv, ClientBound, Segments, Range
    <3>2. Distance(seg.seq, client.rcv) \in Nat
      <4>1. seg.seq \in Numbers /\ client.rcv \in Numbers
        BY DEF SessionInv, ClientOK, Clients, ClientBound, Segments, Range
      <4> QED BY <4>1, DistanceType
    <3>3. seg.len > 0
      BY <3>1, <3>2
    <3> QED BY <3>1, <3>3 DEF NumbersInv
  <2>3. Tells(seg)
    BY <2>2 DEF LampInv
  <2>4. seg.data = <<client.conn, client.cmd>>
    <3>1. seg.data \in Nat \X BOOLEAN
      BY <2>3 DEF Tells
    <3>2. seg.data[2] \in BOOLEAN
      BY <3>1
    <3>3. PageLen[seg.data[2]] \in Nat /\ PageLen[seg.data[2]] <= 2 * Byte
      BY <3>2, Lengths DEF ShortPages
    <3> QED BY <2>1, <3>3, Sizes
  <2>5. seg.data[1] = client.conn
    BY <2>4
  <2>6. /\ client'.page = seg.data /\ client'.state = "last_ack"
        /\ client.state \in {"get_sent", "waiting"}
    BY <1>5 DEF PageArrives, BringsPage, Become, SessionInv, ClientOK, Clients
  <2> QED BY <2>3, <2>4, <2>5, <2>6 DEF Tells
<1>6. PICK u : Sends(u)
  <2>1. CASE Established(seg) \/ PageArrives(seg)
    BY <2>1, SendsNext DEF Established, PageArrives, Become
  <2>2. CASE toBoard' = toBoard
    BY <2>2, SendsNothing
  <2>3. CASE Unexpected(seg) /\ toBoard' # toBoard
    <3>1. PICK r : toBoard' = Append(toBoard, r) /\ r.len = 0
      BY <2>3 DEF Unexpected, Segment
    <3>2. r.len > 0 => r.data = <<client'.conn, client'.cmd>>
      BY <3>1
    <3>3. Sends(<<r>>)
      BY <3>1, <3>2, SendsOne, Zenon
    <3> QED BY <3>3, Zenon
  <2> QED BY <1>1, <1>2, <2>1, <2>2, <2>3 DEF GetAcknowledged, FinAcknowledged
<1>7. LampInv'
  <2>1. Settled' => svitLED = client.cmd
    BY <1>1, <1>4, <1>5 DEF Settled, LampInv
  <2> QED BY <1>1, <1>3, <1>4, <1>6, <2>1, LampStays
<1>8. [Lamp!Next]_(Lamp!vars)
  <2>1. CASE PageArrives(seg)
    <3>1. /\ client'.page = <<client.conn, client.cmd>>
          /\ client'.page # <<>> /\ client'.page[2] = client.cmd
      BY <1>5, <2>1
    <3> QED BY <1>1, <1>5, <2>1, <3>1 DEF Lamp!Next, Lamp!Answer
  <2>2. CASE ~PageArrives(seg)
    BY <1>1, <1>4, <2>2 DEF Lamp!vars
  <2> QED BY <2>1, <2>2
<1> QED BY <1>7, <1>8

(* The handler carries a request out: the one that is under way, or one    *)
(* that asks for the state there is.                                       *)
LEMMA BoardReceivesLamp ==
  ASSUME SessionInv, SessionInv', LampInv, "board" \notin Reorder, BoardReceives
  PROVE  /\ LampInv'
         /\ [Lamp!Next]_(Lamp!vars)
<1>1. /\ 1 \in DOMAIN toBoard
      /\ svitLED' = LedAfter(toBoard[1])
      /\ toClient' = toClient \o
           Answers(toBoard[1], seqnum, PageLen[LedAfter(toBoard[1])], Page(toBoard[1]))
      /\ toBoard' = RemoveAt(toBoard, 1)
      /\ UNCHANGED <<client, ends, orphaned>>
  BY DEF BoardReceives, Arriving
<1>2. PICK seg, n, len, data, answers :
        /\ seg = toBoard[1] /\ n = seqnum /\ len = PageLen[LedAfter(seg)]
        /\ data = Page(seg) /\ answers = Answers(seg, n, len, data)
  OBVIOUS
<1>3. seg \in BoardBound(ends) /\ seg \in Segments /\ seg \in Range(toBoard)
  BY <1>1, <1>2 DEF SessionInv, BoardBound, Range
<1>4. ASSUME seg.len > 0
      PROVE  /\ seg.data \in Nat \X BOOLEAN /\ seg.data[1] \in Nat
             /\ seg.data[2] \in BOOLEAN
             /\ AsksFor(seg) /\ svitLED' = seg.data[2] /\ data = seg.data
  <2>1. seg.data \in Nat \X BOOLEAN
    BY <1>3, <1>4 DEF BoardBound, Segments, Data
  <2>2. /\ seg.data[1] \in Nat /\ seg.data[2] \in BOOLEAN
        /\ seg.data = <<seg.data[1], seg.data[2]>>
    BY <2>1
  <2>3. svitLED' = seg.data[2] /\ data = seg.data
    BY <1>1, <1>2, <1>4, <2>2 DEF LedAfter, Page
  <2>4. AsksFor(seg)
    BY <1>3, <1>4 DEF LampInv
  <2> QED BY <2>1, <2>2, <2>3, <2>4
<1>5. ~(seg.len > 0) => svitLED' = svitLED
  BY <1>1, <1>2 DEF LedAfter
<1>6. \A s \in Range(answers) : s.len > 0 => seg.len > 0 /\ s.data = seg.data
  <2>1. /\ "SYN" \in seg.flags =>
             \E a : answers = <<Segment({"SYN", "ACK"}, Initial(n), a, 0, <<>>)>>
        /\ "SYN" \notin seg.flags =>
             \A s \in Range(answers) :
               /\ "SYN" \notin s.flags
               /\ s.len > 0 => /\ seg.len > 0 /\ s.seq = seg.ack
                               /\ s.len = len /\ s.data = data
    BY <1>2, <1>3, AnswerKinds
  <2>2. CASE "SYN" \in seg.flags
    <3>1. PICK a : answers = <<Segment({"SYN", "ACK"}, Initial(n), a, 0, <<>>)>>
      BY <2>1, <2>2
    <3>2. PICK s : s = Segment({"SYN", "ACK"}, Initial(n), a, 0, <<>>)
      OBVIOUS
    <3>3. s.len = 0
      BY <3>2 DEF Segment
    <3> QED BY <3>1, <3>2, <3>3 DEF Range
  <2>3. CASE "SYN" \notin seg.flags
    BY <1>4, <2>1, <2>3
  <2> QED BY <2>2, <2>3
<1>7. Range(toClient') = Range(toClient) \cup Range(answers)
  <2>1. LedAfter(seg) \in BOOLEAN /\ data \in Data
    <3>1. CASE seg.len > 0
      BY <1>2, <1>4, <3>1 DEF LedAfter, Data
    <3>2. CASE ~(seg.len > 0)
      BY <1>2, <3>2 DEF LedAfter, Page, SessionInv, Data
    <3> QED BY <3>1, <3>2
  <2>2. len \in 1 .. Word - Byte - 1
    BY <1>2, <2>1, Lengths
  <2>3. answers \in Seq(ClientBound(ends)) /\ toClient \in Seq(ClientBound(ends))
    BY <1>2, <1>3, <2>1, <2>2, AnswersBounded DEF SessionInv
  <2>4. Range(toClient \o answers) = Range(toClient) \cup Range(answers)
    BY <2>3, RangeJoined, Zenon
  <2>5. toClient' = toClient \o answers
    BY <1>1, <1>2
  <2> QED BY <2>4, <2>5
<1>8. Ordered(toBoard') /\ Range(toBoard') \subseteq Range(toBoard)
  BY <1>1, OrderedRemoved, RangeRemoved DEF SessionInv, LampInv
<1>9. svitLED' = svitLED \/ (svitLED' = client.cmd /\ seg.len > 0 /\ seg.data[1] = client.conn)
  BY <1>4, <1>5 DEF AsksFor
<1>10. CASE svitLED' = svitLED
  <2>1. \A s \in Range(toBoard') : s.len > 0 => AsksFor(s)'
    BY <1>1, <1>8, <1>10 DEF LampInv, AsksFor
  <2>2. ASSUME NEW s \in Range(toClient'), s.len > 0 PROVE Tells(s)'
    <3>1. CASE s \in Range(toClient)
      BY <1>1, <1>10, <2>2, <3>1 DEF LampInv, Tells
    <3>2. CASE s \in Range(answers)
      <4>1. seg.len > 0 /\ s.data = seg.data
        BY <1>6, <2>2, <3>2
      <4> QED BY <1>1, <1>4, <1>10, <4>1 DEF Tells, AsksFor
    <3> QED BY <1>7, <2>2, <3>1, <3>2
  <2>3. Settled' => svitLED' = client'.cmd
    BY <1>1, <1>10 DEF LampInv, Settled
  <2>4. LampInv'
    BY <1>8, <2>1, <2>2, <2>3 DEF LampInv
  <2> QED BY <1>1, <1>10, <2>4 DEF Lamp!vars
<1>11. CASE svitLED' = client.cmd /\ seg.len > 0 /\ seg.data[1] = client.conn
  <2>1. ASSUME NEW s \in Range(toBoard'), s.len > 0 PROVE AsksFor(s)'
    <3>1. AsksFor(s) /\ s \in Range(toBoard)
      BY <1>8, <2>1 DEF LampInv
    <3>2. s.data \in Nat \X BOOLEAN
      BY <2>1, <3>1 DEF SessionInv, BoardBound, Segments, Data, Range
    <3>3. s.data[1] \in Nat
      BY <3>2
    <3>4. seg.data[1] <= s.data[1]
      <4>1. PICK j \in DOMAIN toBoard' : s = RemoveAt(toBoard, 1)[j]
        BY <1>1, <2>1 DEF Range
      <4>2. /\ j \in 1 .. Len(toBoard) - 1 /\ Len(toBoard) \in Nat
            /\ s = toBoard[IF j < 1 THEN j ELSE j + 1]
        BY <1>1, <4>1, RemovedIs DEF SessionInv
      <4>3. s = toBoard[j + 1] /\ j + 1 \in DOMAIN toBoard /\ 1 < j + 1
        <5>1. DOMAIN toBoard = 1 .. Len(toBoard)
          BY DEF SessionInv
        <5> QED BY <4>2, <5>1
      <4> QED BY <1>1, <1>2, <1>11, <2>1, <4>3 DEF LampInv, Ordered
    <3> QED BY <1>1, <1>11, <3>1, <3>3, <3>4 DEF AsksFor, SessionInv, ClientOK, Clients
  <2>2. ASSUME NEW s \in Range(toClient'), s.len > 0 PROVE Tells(s)'
    <3>1. CASE s \in Range(toClient)
      BY <1>1, <1>11, <2>2, <3>1 DEF LampInv, Tells
    <3>2. CASE s \in Range(answers)
      <4>1. seg.len > 0 /\ s.data = seg.data
        BY <1>6, <2>2, <3>2
      <4> QED BY <1>1, <1>4, <1>11, <4>1 DEF Tells, AsksFor
    <3> QED BY <1>7, <2>2, <3>1, <3>2
  <2>3. LampInv'
    BY <1>1, <1>8, <1>11, <2>1, <2>2 DEF LampInv
  <2>4. CASE client.state \in {"syn_sent", "get_sent", "waiting"}
    BY <1>1, <1>11, <2>3, <2>4 DEF Lamp!Next, Lamp!Apply
  <2>5. CASE client.state \notin {"syn_sent", "get_sent", "waiting"}
    <3>1. client.state \in {"last_ack", "done", "closed"}
      BY <2>5 DEF SessionInv, ClientOK, Clients, States
    <3>2. svitLED' = svitLED
      BY <1>11, <3>1 DEF LampInv, Settled
    <3> QED BY <1>1, <2>3, <3>2 DEF Lamp!vars
  <2> QED BY <2>4, <2>5
<1> QED BY <1>9, <1>10, <1>11

(* A page that is lost shows that its request was carried out. *)
LEMMA LossLamp ==
  ASSUME SessionInv, SessionInv', LampInv, LoseToBoard \/ LoseToClient
  PROVE  LampInv' /\ [Lamp!Next]_(Lamp!vars)
<1>1. UNCHANGED <<client, svitLED>>
  BY DEF LoseToBoard, LoseToClient, board
<1>2. CASE LoseToBoard
  <2>1. PICK i \in DOMAIN toBoard : toBoard' = RemoveAt(toBoard, i)
    BY <1>2 DEF LoseToBoard
  <2>2. Ordered(toBoard') /\ Range(toBoard') \subseteq Range(toBoard)
    BY <2>1, OrderedRemoved, RangeRemoved DEF SessionInv, LampInv
  <2>3. UNCHANGED <<toClient, orphaned>>
    BY <1>2 DEF LoseToBoard
  <2> QED BY <1>1, <2>2, <2>3 DEF LampInv, AsksFor, Tells, Settled, Lamp!vars
<1>3. CASE LoseToClient
  <2>1. PICK i \in DOMAIN toClient :
          /\ toClient' = RemoveAt(toClient, i)
          /\ orphaned' = (orphaned \/ PageHere(toClient[i]))
          /\ toBoard' = toBoard
    BY <1>3 DEF LoseToClient
  <2>2. Range(toClient') \subseteq Range(toClient) /\ toClient[i] \in Range(toClient)
    BY <2>1, RangeRemoved DEF SessionInv
  <2>3. PageHere(toClient[i]) => svitLED = client.cmd
    BY <2>2 DEF PageHere, LampInv, Tells
  <2>4. Settled' => svitLED = client.cmd
    BY <1>1, <2>1, <2>3 DEF Settled, LampInv
  <2> QED BY <1>1, <2>1, <2>2, <2>4 DEF LampInv, AsksFor, Tells, Lamp!vars
<1> QED BY <1>2, <1>3

(* In the beginning nothing is asked. *)
LEMMA InitLamp == Init => LampInv /\ Lamp!Init
<1> SUFFICES ASSUME Init PROVE LampInv /\ Lamp!Init
  OBVIOUS
<1>1. /\ toBoard = <<>> /\ toClient = <<>> /\ svitLED = FALSE /\ client.cmd = FALSE
      /\ client.state = "closed" /\ client.page = <<>>
  BY DEF Init
<1>2. Range(<<>>) = {} /\ Ordered(<<>>)
  BY DEF Range, Ordered
<1>3. Lamp!Init
  BY <1>1 DEF Lamp!Init
<1> QED BY <1>1, <1>2, <1>3 DEF LampInv

(* Every step is a step of the lamp or none. *)
LEMMA LampStep ==
  ASSUME ShortPages, "board" \notin Reorder,
         SessionInv, SessionInv', NumbersInv, LampInv, [Next]_vars
  PROVE  LampInv' /\ [Lamp!Next]_(Lamp!vars)
<1>1. CASE UNCHANGED vars
  BY <1>1 DEF vars, LampInv, AsksFor, Tells, Settled, Lamp!vars
<1>2. ASSUME NEW cmd \in BOOLEAN, NEW iss \in ClientIsns, Open(cmd, iss)
      PROVE  LampInv' /\ [Lamp!Next]_(Lamp!vars)
  <2>1. /\ client.state \in {"closed", "done"} /\ client'.state = "syn_sent"
        /\ client'.cmd = cmd /\ client'.page = <<>> /\ svitLED' = svitLED
    BY <1>2 DEF Open, Become, board, SessionInv, ClientOK, Clients
  <2>2. Lamp!Ask
    BY <2>1 DEF Lamp!Ask
  <2> QED BY <1>2, <2>2, OpenLamp DEF Lamp!Next
<1>3. CASE Repeat
  BY <1>3, RepeatLamp DEF Repeat, board, Lamp!vars
<1>4. CASE GiveUp
  <2>1. /\ UNCHANGED <<toBoard, toClient, svitLED, orphaned>>
        /\ client'.page = client.page /\ client'.conn = client.conn
        /\ client'.cmd = client.cmd /\ client'.state = "closed"
        /\ client.state = "waiting" /\ orphaned
    BY <1>4 DEF GiveUp, network, board, SessionInv, ClientOK, Clients
  <2>2. svitLED = client.cmd
    BY <2>1 DEF LampInv, Settled
  <2>3. LampInv'
    BY <2>1, <2>2 DEF LampInv, AsksFor, Tells, Settled
  <2>4. Lamp!Abandon
    BY <2>1, <2>2 DEF Lamp!Abandon
  <2> QED BY <2>3, <2>4 DEF Lamp!Next
<1>5. CASE ClientReceives
  BY <1>5, ClientReceivesLamp
<1>6. CASE BoardReceives
  BY <1>6, BoardReceivesLamp
<1>7. CASE LoseToBoard \/ LoseToClient
  BY <1>7, LossLamp
<1> QED BY <1>1, <1>2, <1>3, <1>4, <1>5, <1>6, <1>7 DEF Next

(* enc28j60_interrupt_handler and the segments of ip_arp_udp_tcp.c: in a   *)
(* network that keeps the order on the way to the server, and with the     *)
(* pages and numbers of PageOfThisConnection, the LED is a lamp a client   *)
(* sets by a request and sees in the answer. The inductive invariant is    *)
(* LampInv beside NumbersInv.                                              *)
THEOREM SessionImplementsLamp ==
  ASSUME FewSyns, ShortPages, "board" \notin Reorder
  PROVE  Spec => LampSpec
<1>1. /\ SessionInv /\ SessionInv' /\ NumbersInv /\ LampInv /\ [Next]_vars
      => LampInv' /\ [Lamp!Next]_(Lamp!vars)
  BY LampStep
<1>2. /\ SessionInv /\ SessionInv' /\ NumbersInv /\ OnlyLongPagesMistaken /\ [Next]_vars
      => NumbersInv' /\ OnlyLongPagesMistaken'
  BY NumbersStep
<1> QED BY <1>1, <1>2, InitLamp, InitNumbers, SessionInvariant, PTL
        DEF Spec, LampSpec, Lamp!Spec
==============================================================================
