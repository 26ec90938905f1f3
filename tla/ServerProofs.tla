---------------------------- MODULE ServerProofs ----------------------------
(***************************************************************************)
(* Theorems about Server, for every set of received frames with the fields *)
(* the handler looks at and a length within the buffer, every password,    *)
(* address and port.                                                       *)
(***************************************************************************)
EXTENDS Server, WellFoundedInduction, TLAPS

-----------------------------------------------------------------------------
(* The readers of Commands: what they make of every text, password and     *)
(* limit of the scan.                                                      *)

(* A set of naturals that is not empty has a least member. *)
LEMMA LeastExists ==
  ASSUME NEW S \in SUBSET Nat, S # {}
  PROVE  \E k \in S : \A i \in S : k <= i
<1> DEFINE R == OpToRel(<, Nat)
<1>1. \E k \in S : \A i \in S : ~ (<<i, k>> \in R)
  <2>1. IsWellFoundedOn(R, Nat)
    BY NatLessThanWellFounded
  <2> HIDE DEF R
  <2> QED  BY <2>1, WFMin
<1>2. ASSUME NEW i \in Nat, NEW k \in Nat, ~ (<<i, k>> \in R)
      PROVE  k <= i
  BY <1>2 DEF OpToRel
<1> HIDE DEF R
<1> QED  BY <1>1, <1>2

(* Min gives it. *)
LEMMA MinIsLeast ==
  ASSUME NEW S \in SUBSET Nat, S # {}
  PROVE  Min(S) \in S /\ \A i \in S : Min(S) <= i
BY LeastExists DEF Min

(* A known least member is the one that Min gives. *)
LEMMA LeastIsMin ==
  ASSUME NEW S \in SUBSET Nat, NEW k \in S, \A i \in S : k <= i
  PROVE  Min(S) = k
<1>1. Min(S) \in S /\ Min(S) <= k
  BY MinIsLeast
<1>2. k <= Min(S) /\ k \in Nat /\ Min(S) \in Nat
  BY <1>1
<1> QED  BY <1>1, <1>2
-----------------------------------------------------------------------------
(* The characters of the password do not end the scan of a path. *)
LEMMA PasswordRunsOn ==
  ASSUME NEW i \in 1 .. Len(Password)
  PROVE  Password[i] \notin Ends \cup {"/"}
BY CommandsAssumption

(* Where the scan of a path ends that does not run on. *)
LEMMA ScanEnds ==
  ASSUME NEW text, ~RunsOn(text)
  PROVE  /\ ScanEnd(text) \in 1 .. ScanLimit
         /\ text[ScanEnd(text)] \in Ends \cup {"/"}
         /\ \A i \in 1 .. ScanEnd(text) - 1 : text[i] \notin Ends \cup {"/"}
         /\ HasPassword(text) => ScanEnd(text) > CheckLen
<1> DEFINE S == {i \in 1 .. ScanLimit : text[i] \in Ends \cup {"/"}}
           T == S \cup {ScanLimit + 1}
<1>1. ScanEnd(text) = Min(T)
  BY DEF ScanEnd
<1>2. PICK j \in S : TRUE
  BY DEF RunsOn
<1>3. T \in SUBSET Nat /\ T # {}
  BY CommandsAssumption
<1>4. Min(T) \in T /\ \A i \in T : Min(T) <= i
  BY <1>3, MinIsLeast
<1>5. Min(T) \in S
  BY <1>2, <1>4, CommandsAssumption
<1>6. \A i \in 1 .. Min(T) - 1 : text[i] \notin Ends \cup {"/"}
  BY <1>4, <1>5, CommandsAssumption
<1>7. ASSUME HasPassword(text), Min(T) <= CheckLen  PROVE FALSE
  <2>1. Min(T) \in 1 .. CheckLen /\ Min(T) \in 1 .. Len(Password)
    BY <1>5, <1>7, CommandsAssumption
  <2>2. text[Min(T)] = Password[Min(T)]
    BY <1>7, <2>1 DEF HasPassword
  <2> QED  BY <1>5, <2>1, <2>2, PasswordRunsOn
<1> QED  BY <1>1, <1>5, <1>6, <1>7, CommandsAssumption

(* The value of the documented form, found by the scan. *)
LEMMA FormAtScanEnd ==
  ASSUME NEW text, ~RunsOn(text), HasPassword(text)
  PROVE  LET e == ScanEnd(text)
         IN  /\ HasForm(text) <=> text[e] = "/" /\ text[e + 1] \in Digits
             /\ text[e] = "/" => FormValue(text) = DigitValue[text[e + 1]]
<1> DEFINE e == ScanEnd(text)
<1>1. /\ e \in 1 .. ScanLimit /\ e \in CheckLen + 1 .. ScanLimit
      /\ text[e] \in Ends \cup {"/"}
      /\ \A i \in 1 .. e - 1 : text[i] \notin Ends \cup {"/"}
  BY ScanEnds, CommandsAssumption
<1> HIDE DEF e
<1>2. ASSUME HasForm(text)  PROVE text[e] = "/" /\ text[e + 1] \in Digits
  <2>1. PICK k \in CheckLen + 1 .. ScanLimit :
          /\ text[k] = "/" /\ text[k + 1] \in Digits
          /\ \A i \in 1 .. k - 1 : text[i] \notin Ends \cup {"/"}
    BY <1>2 DEF HasForm
  <2>2. ~(k < e) /\ ~(e < k)
    BY <1>1, <2>1, CommandsAssumption
  <2>3. k = e
    BY <1>1, <2>2, CommandsAssumption
  <2> QED  BY <2>1, <2>3
<1>3. ASSUME text[e] = "/", text[e + 1] \in Digits  PROVE HasForm(text)
  BY <1>1, <1>3 DEF HasForm
<1>4. ASSUME text[e] = "/"
      PROVE  FormValue(text) = DigitValue[text[e + 1]]
  <2> DEFINE S == {i \in 1 .. ScanLimit : text[i] = "/"}
  <2>1. S \in SUBSET Nat /\ e \in S
    BY <1>1, <1>4, CommandsAssumption
  <2>2. \A i \in S : e <= i
    BY <1>1, CommandsAssumption
  <2>3. Min(S) = e
    BY <2>1, <2>2, LeastIsMin
  <2>4. 1 + e = e + 1
    BY <1>1
  <2> QED  BY <2>3, <2>4 DEF FormValue
<1> QED  BY <1>2, <1>3, <1>4 DEF e

(* analyse_get_url: whatever the text and whatever lies behind it, if the  *)
(* path ends or has a '/' among the first ScanLimit characters, a number   *)
(* is returned exactly for the documented form, and it is the one there.   *)
THEOREM UrlReadAsDocumented == \A text : ReadAsDocumented(text)
<1> SUFFICES ASSUME NEW text, ~RunsOn(text)
             PROVE  AnalyseGetUrl(text) =
                      IF HasForm(text) THEN FormValue(text)
                      ELSE IF HasPassword(text) THEN NoCommand
                      ELSE InvalidPassword
  BY DEF ReadAsDocumented
<1> DEFINE e == ScanEnd(text)
<1>1. CASE ~HasPassword(text)
  BY <1>1 DEF HasForm, AnalyseGetUrl
<1>2. CASE HasPassword(text) /\ text[e] = "/"
  <2>1. CommandAt(text) = e + 1
    BY <1>2, ScanEnds DEF CommandAt
  <2>2. AnalyseGetUrl(text) =
          IF text[e + 1] \in Digits THEN DigitValue[text[e + 1]] ELSE NoCommand
    BY <1>2, <2>1 DEF AnalyseGetUrl
  <2> QED  BY <1>2, <2>2, FormAtScanEnd
<1>3. CASE HasPassword(text) /\ text[e] # "/"
  <2>1. CommandAt(text) = e
    BY <1>3 DEF CommandAt
  <2>2. text[e] \in Ends
    BY <1>3, ScanEnds
  <2>3. text[e] \notin Digits
    BY <2>2 DEF Ends, Digits
  <2> QED  BY <1>3, <2>1, <2>3, FormAtScanEnd DEF AnalyseGetUrl
<1> QED  BY <1>1, <1>2, <1>3

(* A path of the password, a '/' and a digit that is a command, as the     *)
(* page's own link is, is taken for that command.                          *)
LEMMA LinkIsCommand ==
  ASSUME NEW d \in Digits
  PROVE  AnalyseGetUrl(Password \o <<"/", d>>) = DigitValue[d]
<1> DEFINE text == Password \o <<"/", d>>
           n == Len(Password)
           T == {i \in 1 .. ScanLimit : text[i] \in Ends \cup {"/"}}
                  \cup {ScanLimit + 1}
<1>1. /\ n \in Nat /\ n >= CheckLen /\ n < ScanLimit
      /\ CheckLen \in Nat \ {0} /\ ScanLimit \in Nat
      /\ Password \in Seq(Chars) /\ d \in Chars /\ "/" \in {"/"}
  BY CommandsAssumption
<1>2. \A i \in 1 .. n : text[i] = Password[i]
  BY <1>1
<1>3. text[n + 1] = "/" /\ text[n + 2] = d
  BY <1>1
<1> HIDE DEF text
<1>4. T \in SUBSET Nat /\ n + 1 \in T
  BY <1>1, <1>3
<1>5. \A i \in T : n + 1 <= i
  <2>1. \A i \in 1 .. n : text[i] \notin Ends \cup {"/"}
    BY <1>2, PasswordRunsOn
  <2> QED  BY <1>1, <2>1
<1>6. ScanEnd(text) = n + 1
  BY <1>4, <1>5, LeastIsMin DEF ScanEnd
<1>7. CommandAt(text) = n + 2
  BY <1>1, <1>3, <1>6 DEF CommandAt
<1>8. HasPassword(text)
  BY <1>1, <1>2 DEF HasPassword
<1>9. AnalyseGetUrl(text) = DigitValue[d]
  BY <1>3, <1>7, <1>8 DEF AnalyseGetUrl
<1> QED  BY <1>9 DEF text
-----------------------------------------------------------------------------
(* The search for a command, where the length is kept as it is. *)
LEMMA SearchInside ==
  ASSUME NEW text, NEW n \in 0 .. LenMod - 1
  PROVE  LET asked == AnalyseDatagram(text, UdpHeaderLen + n)
         IN  /\ asked[1] = "t=" =>
                  \E k \in 2 .. n - 3 :
                    FirstCommand(text, k) /\ asked[2] = text[k + 3]
             /\ \A k \in 2 .. n - 3 :
                  FirstCommand(text, k) => asked = <<"t=", text[k + 3]>>
<1> DEFINE Comma(i) == text[i + 1] = ","
           commas == {i \in 1 .. n : Comma(i)}
           asked == AnalyseDatagram(text, UdpHeaderLen + n)
           p == CmdPos(text, n)
<1>1. n \in Nat /\ LenMod \in Nat \ {0} /\ n < LenMod
  BY CommandsAssumption
<1>2. PayloadLen(UdpHeaderLen + n) = n
  <2>1. PayloadLen(UdpHeaderLen + n) = n % LenMod
    BY <1>1 DEF PayloadLen, UdpHeaderLen
  <2> QED  BY <1>1, <2>1
<1>3. asked[1] = "t=" <=> /\ HasPassword(text) /\ HasCommand(text, n)
                          /\ text[p + 1] = "t"
  BY <1>2 DEF AnalyseDatagram
<1>4. asked[1] = "t=" => asked = <<"t=", text[p + 3]>>
  BY <1>2, <1>3 DEF AnalyseDatagram
<1> HIDE DEF asked
<1>5. CASE commas = {}
  <2>1. p = n
    BY <1>5 DEF CmdPos
  <2>2. ~HasCommand(text, n)
    BY <1>1, <2>1 DEF HasCommand
  <2>3. ASSUME NEW k \in 2 .. n - 3, text[k] = ","  PROVE FALSE
    <3>1. k - 1 \in 1 .. n /\ (k - 1) + 1 = k
      BY <1>1
    <3> QED  BY <1>5, <2>3, <3>1
  <2>4. \A k \in 2 .. n - 3 : ~FirstCommand(text, k)
    BY <2>3 DEF FirstCommand
  <2>5. asked[1] # "t="
    BY <1>3, <2>2
  <2> QED  BY <2>4, <2>5 DEF asked
<1>6. CASE commas # {}
  <2> DEFINE m == Min(commas)
  <2>1. m \in commas /\ \A i \in commas : m <= i
    <3> HIDE DEF Comma
    <3>1. commas \in SUBSET Nat
      BY <1>1
    <3> HIDE DEF commas
    <3> QED  BY <1>6, <3>1, MinIsLeast
  <2> HIDE DEF m
  <2>2. m \in 1 .. n /\ m \in Nat /\ n \in Nat
    <3> HIDE DEF Comma
    <3> QED  BY <1>1, <2>1
  <2>2a. text[m + 1] = ","
    BY <2>1
  <2>2b. ASSUME NEW i \in 2 .. n + 1, text[i] = ","  PROVE m + 1 <= i
    <3>1. i \in Int /\ i - 1 \in 1 .. n /\ (i - 1) + 1 = i
      BY <1>1
    <3>2. Comma(i - 1)
      BY <2>2b, <3>1
    <3> HIDE DEF Comma
    <3>3. m <= i - 1
      BY <2>1, <3>1, <3>2
    <3> QED  BY <2>2, <3>1, <3>3
  <2>3. p = (m + 1) % LenMod
    BY <1>6 DEF CmdPos, m
  <2>4. ASSUME NEW k \in 2 .. n - 3, FirstCommand(text, k)  PROVE k = m + 1
    <3>1. k \in Int /\ k \in 2 .. n + 1
      BY <1>1
    <3>2. m + 1 <= k
      BY <2>4, <2>2b, <3>1 DEF FirstCommand
    <3>3. m + 1 < k => m + 1 \in 2 .. k - 1
      BY <2>2, <3>1
    <3>4. ~(m + 1 < k)
      BY <2>2a, <2>4, <3>3 DEF FirstCommand
    <3> QED  BY <2>2, <3>1, <3>2, <3>4
  <2>5. CASE m + 1 = LenMod
    <3>1. p = 0
      BY <1>1, <2>3, <2>5
    <3>2. ~HasCommand(text, n)
      BY <3>1 DEF HasCommand
    <3>3. ~(m + 1 \in 2 .. n - 3)
      BY <1>1, <2>2, <2>5
    <3>4. \A k \in 2 .. n - 3 : ~FirstCommand(text, k)
      BY <2>4, <3>3
    <3>5. asked[1] # "t="
      BY <1>3, <3>2
    <3> QED  BY <3>4, <3>5 DEF asked
  <2>6. CASE m + 1 # LenMod
    <3>1. p = m + 1 /\ p \in Nat
      <4>1. m + 1 \in Nat /\ m + 1 < LenMod
        BY <1>1, <2>2, <2>6
      <4>2. (m + 1) % LenMod = m + 1
        BY <1>1, <4>1
      <4> QED  BY <2>3, <4>1, <4>2
    <3>2. ASSUME asked[1] = "t="
          PROVE  /\ p \in 2 .. n - 3 /\ FirstCommand(text, p)
                 /\ asked[2] = text[p + 3]
      <4>1. HasPassword(text) /\ HasCommand(text, n) /\ text[p + 1] = "t"
        BY <1>3, <3>2
      <4>2. p >= 2 /\ p <= n - 3 /\ text[p + 2] = "="
        BY <4>1 DEF HasCommand
      <4>3. ASSUME NEW i \in 2 .. p - 1, text[i] = ","  PROVE FALSE
        <5>1. i \in Int /\ i \in 2 .. n + 1 /\ i < m + 1
          BY <1>1, <2>2, <3>1
        <5>2. m + 1 <= i
          BY <2>2b, <4>3, <5>1
        <5> QED  BY <2>2, <5>1, <5>2
      <4>4. p \in 2 .. n - 3
        BY <1>1, <3>1, <4>2
      <4>5. text[p] = ","
        BY <2>2a, <3>1
      <4> HIDE DEF p
      <4>6. FirstCommand(text, p)
        BY <4>1, <4>2, <4>3, <4>5 DEF FirstCommand
      <4>7. asked[2] = text[p + 3]
        BY <1>4, <3>2
      <4> QED  BY <4>4, <4>6, <4>7
    <3>3. ASSUME NEW k \in 2 .. n - 3, FirstCommand(text, k)
          PROVE  asked = <<"t=", text[k + 3]>>
      <4>1. k = p
        BY <2>4, <3>1, <3>3
      <4>2. HasCommand(text, n)
        <5>1. p >= 2 /\ p <= n - 3
          BY <1>1, <3>1, <4>1
        <5> QED  BY <3>3, <4>1, <5>1 DEF HasCommand, FirstCommand
      <4>3. asked[1] = "t="
        BY <1>3, <3>3, <4>1, <4>2 DEF FirstCommand
      <4> QED  BY <1>4, <4>1, <4>3
    <3> QED  BY <3>2, <3>3 DEF asked
  <2> QED  BY <2>5, <2>6
<1> QED  BY <1>5, <1>6

(* The search for a command in a datagram: what it takes comes from behind *)
(* the first comma of the payload and from before its end, for payloads of *)
(* any length, although the length is kept in a byte; and no command is    *)
(* missed in a payload whose length fits that byte.                        *)
THEOREM DatagramReadInside ==
  \A text : \A n \in Nat : TakenFromPayload(text, n)
<1> SUFFICES ASSUME NEW text, NEW n \in Nat
             PROVE  TakenFromPayload(text, n)
  OBVIOUS
<1> DEFINE m == n % LenMod
           asked == AnalyseDatagram(text, UdpHeaderLen + n)
<1>1. m \in 0 .. LenMod - 1 /\ m <= n /\ m % LenMod = m /\ (n < LenMod => m = n)
  BY CommandsAssumption
<1>2. asked = AnalyseDatagram(text, UdpHeaderLen + m)
  <2>1. PayloadLen(UdpHeaderLen + n) = m
    BY CommandsAssumption DEF PayloadLen, UdpHeaderLen
  <2>2. PayloadLen(UdpHeaderLen + m) = m % LenMod
    BY <1>1, CommandsAssumption DEF PayloadLen, UdpHeaderLen
  <2> QED  BY <1>1, <2>1, <2>2 DEF AnalyseDatagram
<1> HIDE DEF m, asked
<1>3. asked[1] = "t=" =>
        \E k \in 2 .. m - 3 : FirstCommand(text, k) /\ asked[2] = text[k + 3]
  BY <1>1, <1>2, SearchInside
<1>4. \A k \in 2 .. m - 3 :
        FirstCommand(text, k) => asked = <<"t=", text[k + 3]>>
  BY <1>1, <1>2, SearchInside
<1>5. \A k \in 2 .. m - 3 : k \in 2 .. n - 3
  BY <1>1
<1>6. n < LenMod => \A k \in 2 .. n - 3 :
        FirstCommand(text, k) => asked = <<"t=", text[k + 3]>>
  BY <1>1, <1>4
<1> QED  BY <1>3, <1>5, <1>6 DEF TakenFromPayload, asked
-----------------------------------------------------------------------------

(* What a received frame is known to be. *)
LEMMA ReceivedFrames ==
  /\ \A f \in Received :
       IsFrame(f) /\ IsSegment(f.seg) /\ f.len \in 0 .. BufferSize
  /\ BufferSize \in Nat /\ BufferSize >= 579
BY ServerAssumption DEF EthHeaderLen, IpHeaderLen, TcpHeaderLen, TextLen, PageOf, Ok, Usage,
   Unauthorized

(* make_eth and make_ip turn the addresses round and touch nothing else.   *)
LEMMA MakeEthTurns ==
  ASSUME NEW b, IsFrame(b)
  PROVE  /\ IsFrame(MakeEth(b))
         /\ MakeEth(b).dstMac = b.srcMac /\ MakeEth(b).srcMac = MyMac
         /\ \A x \in Fields \ {"dstMac", "srcMac"} : MakeEth(b)[x] = b[x]
BY DEF IsFrame, Fields, MakeEth

LEMMA MakeIpTurns ==
  ASSUME NEW b, IsFrame(b)
  PROVE  /\ IsFrame(MakeIp(b))
         /\ MakeIp(b).dstIp = b.srcIp /\ MakeIp(b).srcIp = MyIp
         /\ \A x \in Fields \ {"dstIp", "srcIp"} : MakeIp(b)[x] = b[x]
BY DEF IsFrame, Fields, MakeIp

(* Both together, as every answer to a packet begins.                      *)
LEMMA HeadersTurned ==
  ASSUME NEW b, IsFrame(b)
  PROVE  LET h == MakeIp(MakeEth(b))
         IN  /\ IsFrame(h)
             /\ h.dstMac = b.srcMac /\ h.srcMac = MyMac
             /\ h.dstIp = b.srcIp /\ h.srcIp = MyIp
             /\ \A x \in Fields \ {"dstMac", "srcMac", "dstIp", "srcIp"} :
                  h[x] = b[x]
<1>1. IsFrame(MakeEth(b))
  BY MakeEthTurns
<1>2. \A x \in Fields \ {"dstMac", "srcMac", "dstIp", "srcIp"} :
        MakeIp(MakeEth(b))[x] = b[x]
  BY <1>1, MakeEthTurns, MakeIpTurns
<1>3. {"dstMac", "srcMac"} \subseteq Fields \ {"dstIp", "srcIp"}
  BY DEF Fields
<1>4. {"dstIp", "srcIp"} \subseteq Fields \ {"dstMac", "srcMac"}
  BY DEF Fields
<1> QED  BY <1>1, <1>2, <1>3, <1>4, MakeEthTurns, MakeIpTurns
-----------------------------------------------------------------------------
(* GoesBack, LengthsAgree and PageTellsLed say this of each frame sent.    *)
Returns(a, f) ==
  /\ a.srcMac = MyMac /\ a.dstMac = f.srcMac
  /\ a.type = "arp" =>
       /\ f.tpa = MyIp
       /\ <<a.sha, a.spa>> = <<MyMac, MyIp>>
       /\ <<a.tha, a.tpa>> = <<f.sha, f.spa>>
  /\ a.type = "ip" =>
       /\ f.dstIp = MyIp
       /\ a.srcIp = MyIp /\ a.dstIp = f.srcIp
       /\ a.proto = "tcp" => a.sport = f.dport /\ a.dport = f.sport

(* No answer is longer than a page unless it is a frame sent back.         *)
NoLonger(a) ==
  a.len \in Nat /\ (a.len <= 579 \/ \E f \in Received : a.len = f.len)

LengthsOf(a) ==
  /\ a.len <= BufferSize /\ NoLonger(a)
  /\ a.type = "ip" /\ a.proto # "icmp" => a.len = EthHeaderLen + a.total
  /\ a.type = "ip" /\ a.proto = "udp" => a.total = IpHeaderLen + a.udplen
  /\ a.type = "ip" /\ a.proto = "tcp" => a.total = IpHeaderLen + a.hdr + a.seg.len

NoPage(a) ==
  a.type = "ip" /\ a.proto = "tcp" => \A on \in BOOLEAN : a.seg.data # PageOf(on)

(* A text is never longer than the page for a LED that is on. *)
LEMMA TextLenBound == \A t : TextLen(t) \in 0 .. 525
BY DEF TextLen

(* make_arp_answer_from_request *)
LEMMA ArpAnswerReturns ==
  ASSUME NEW f \in Received, IsArpForUs(f)
  PROVE  LET a == ArpAnswer(f) IN Returns(a, f) /\ LengthsOf(a) /\ a.type = "arp"
<1> DEFINE b == MakeEth(f)
<1>1. IsFrame(f) /\ f.type = "arp" /\ f.tpa = MyIp
  BY ReceivedFrames DEF IsArpForUs
<1>2. /\ IsFrame(b) /\ b.dstMac = f.srcMac /\ b.srcMac = MyMac
      /\ b.type = "arp"
  BY <1>1, MakeEthTurns DEF Fields
<1> HIDE DEF b
<1>3. ArpAnswer(f) =
        [b EXCEPT !.op = "reply", !.tha = f.sha, !.sha = MyMac, !.tpa = f.spa,
                  !.spa = MyIp, !.len = EthHeaderLen + ArpLen]
  BY DEF ArpAnswer, b
<1>4. LET a == ArpAnswer(f)
      IN  /\ a.srcMac = MyMac /\ a.dstMac = f.srcMac /\ a.type = "arp"
          /\ a.sha = MyMac /\ a.spa = MyIp /\ a.tha = f.sha /\ a.tpa = f.spa
          /\ a.len = 42
  BY <1>2, <1>3 DEF IsFrame, Fields, EthHeaderLen, ArpLen
<1> QED  BY <1>1, <1>4, ReceivedFrames DEF Returns, LengthsOf, NoLonger

(* make_echo_reply_from_request *)
LEMMA EchoReplyReturns ==
  ASSUME NEW f \in Received, IsIpForUs(f), f.proto = "icmp"
  PROVE  LET a == EchoReply(f, f.len)
         IN  Returns(a, f) /\ LengthsOf(a) /\ a.proto = "icmp"
<1> DEFINE h == MakeIp(MakeEth(f))
<1>1. IsFrame(f) /\ f.type = "ip" /\ f.dstIp = MyIp /\ f.len \in 0 .. BufferSize
  BY ReceivedFrames DEF IsIpForUs
<1>2. /\ IsFrame(h) /\ h.dstMac = f.srcMac /\ h.srcMac = MyMac
      /\ h.dstIp = f.srcIp /\ h.srcIp = MyIp
      /\ h.type = "ip" /\ h.proto = "icmp"
  BY <1>1, HeadersTurned DEF Fields
<1> HIDE DEF h
<1>3. EchoReply(f, f.len) = [h EXCEPT !.icmp = "reply", !.len = f.len]
  BY DEF EchoReply, h
<1>4. LET a == EchoReply(f, f.len)
      IN  /\ a.srcMac = MyMac /\ a.dstMac = f.srcMac
          /\ a.srcIp = MyIp /\ a.dstIp = f.srcIp
          /\ a.type = "ip" /\ a.proto = "icmp" /\ a.len = f.len
  BY <1>2, <1>3 DEF IsFrame, Fields
<1> QED  BY <1>1, <1>4, ReceivedFrames DEF Returns, LengthsOf, NoLonger

(* make_udp_reply_from_request, for a reply of any length *)
LEMMA UdpReplyReturns ==
  ASSUME NEW f \in Received, IsIpForUs(f), f.proto = "udp",
         NEW data, NEW n \in Nat, NEW port
  PROVE  LET a == UdpReply(f, data, n, port)
         IN  Returns(a, f) /\ LengthsOf(a) /\ a.proto = "udp"
<1> DEFINE h == MakeIp(MakeEth(f))
           m == IF n > 220 THEN 220 ELSE n
<1>1. IsFrame(f) /\ f.type = "ip" /\ f.dstIp = MyIp
  BY ReceivedFrames DEF IsIpForUs
<1>2. /\ IsFrame(h) /\ h.dstMac = f.srcMac /\ h.srcMac = MyMac
      /\ h.dstIp = f.srcIp /\ h.srcIp = MyIp
      /\ h.type = "ip" /\ h.proto = "udp"
  BY <1>1, HeadersTurned DEF Fields
<1>3. m \in 0 .. 220
  OBVIOUS
<1> HIDE DEF h, m
<1>4. UdpReply(f, data, n, port) =
        [h EXCEPT !.total = 20 + 8 + m, !.udplen = 8 + m, !.dport = port,
                  !.text = data, !.len = 8 + 20 + 14 + m]
  BY DEF UdpReply, h, m, IpHeaderLen, UdpHeaderLen, EthHeaderLen
<1>5. LET a == UdpReply(f, data, n, port)
      IN  /\ a.srcMac = MyMac /\ a.dstMac = f.srcMac
          /\ a.srcIp = MyIp /\ a.dstIp = f.srcIp
          /\ a.type = "ip" /\ a.proto = "udp"
          /\ a.total = 20 + 8 + m /\ a.udplen = 8 + m /\ a.len = 8 + 20 + 14 + m
  BY <1>2, <1>4 DEF IsFrame, Fields
<1> QED
  BY <1>1, <1>3, <1>5, ReceivedFrames
     DEF Returns, LengthsOf, NoLonger, IpHeaderLen, EthHeaderLen

(* make_tcphead and what the builders of segments add to it *)
LEMMA TcpFrameReturns ==
  ASSUME NEW f \in Received, IsWww(f), NEW seg, seg.len \in 0 .. 525,
         "SYN" \in seg.flags => seg.len = 0
  PROVE  LET a == TcpFrame(f, seg)
         IN  /\ IsFrame(a) /\ Returns(a, f) /\ LengthsOf(a)
             /\ a.type = "ip" /\ a.proto = "tcp" /\ a.seg = seg
             /\ "SYN" \notin seg.flags => a.hdr = 20
<1> DEFINE h == MakeIp(MakeEth(f))
           n == IF "SYN" \in seg.flags THEN TcpHeaderLen + 4 ELSE TcpHeaderLen
<1>1. /\ IsFrame(f) /\ f.type = "ip" /\ f.dstIp = MyIp
      /\ f.proto = "tcp" /\ f.dport = WwwPort
  BY ReceivedFrames DEF IsWww, IsIpForUs
<1>2. /\ IsFrame(h) /\ h.dstMac = f.srcMac /\ h.srcMac = MyMac
      /\ h.dstIp = f.srcIp /\ h.srcIp = MyIp
      /\ h.type = "ip" /\ h.proto = "tcp"
  BY <1>1, HeadersTurned DEF Fields
<1>3. n \in {20, 24} /\ ("SYN" \notin seg.flags => n = 20)
  BY DEF TcpHeaderLen
<1> HIDE DEF h, n
<1>4. TcpFrame(f, seg) =
        [h EXCEPT !.dport = f.sport, !.sport = WwwPort, !.seg = seg, !.hdr = n,
                  !.total = 20 + n + seg.len, !.len = 14 + 20 + n + seg.len]
  BY DEF TcpFrame, h, n, IpHeaderLen, EthHeaderLen
<1>5. LET a == TcpFrame(f, seg)
      IN  /\ IsFrame(a)
          /\ a.srcMac = MyMac /\ a.dstMac = f.srcMac
          /\ a.srcIp = MyIp /\ a.dstIp = f.srcIp
          /\ a.type = "ip" /\ a.proto = "tcp"
          /\ a.sport = WwwPort /\ a.dport = f.sport
          /\ a.seg = seg /\ a.hdr = n
          /\ a.total = 20 + n + seg.len /\ a.len = 14 + 20 + n + seg.len
  BY <1>2, <1>4 DEF IsFrame, Fields
<1> HIDE DEF IsFrame
<1>6. Returns(TcpFrame(f, seg), f)
  BY <1>1, <1>5 DEF Returns
<1>7. LengthsOf(TcpFrame(f, seg))
  <2> DEFINE a == TcpFrame(f, seg)
             l == seg.len
  <2>1. l \in 0 .. 525 /\ a.seg.len = l
    BY <1>5
  <2>2. a.total = 20 + n + l /\ a.len = 34 + n + l /\ a.hdr = n
    BY <1>3, <1>5, <2>1
  <2>3. a.type = "ip" /\ a.proto = "tcp"
    BY <1>5
  <2>4. /\ n \in Nat /\ n <= 24 /\ (n = 20 \/ l = 0)
        /\ BufferSize \in Nat /\ BufferSize >= 579
    BY <1>3, ReceivedFrames
  <2> HIDE DEF l, a
  <2>5. /\ a.len <= BufferSize /\ NoLonger(a)
        /\ a.len = 14 + a.total
        /\ a.total = 20 + a.hdr + a.seg.len
    BY <2>1, <2>2, <2>4 DEF NoLonger
  <2> QED  BY <2>3, <2>5 DEF a, LengthsOf, IpHeaderLen, EthHeaderLen
<1> QED  BY <1>3, <1>5, <1>6, <1>7

(* make_tcp_ack_with_data, behind the acknowledgement just sent *)
LEMMA TcpDataFrameReturns ==
  ASSUME NEW f \in Received, NEW ack, NEW seg, seg.len \in 0 .. 525,
         IsFrame(ack), Returns(ack, f), ack.type = "ip", ack.proto = "tcp",
         ack.hdr = 20
  PROVE  LET a == TcpDataFrame(ack, seg)
         IN  /\ Returns(a, f) /\ LengthsOf(a)
             /\ a.type = "ip" /\ a.proto = "tcp" /\ a.seg = seg
<1> DEFINE a == TcpDataFrame(ack, seg)
<1>1. a = [ack EXCEPT !.seg = seg, !.total = 20 + 20 + seg.len,
                      !.len = 14 + 20 + 20 + seg.len]
  BY DEF TcpDataFrame, IpHeaderLen, TcpHeaderLen, EthHeaderLen
<1> HIDE DEF a
<1>2. /\ a.srcMac = ack.srcMac /\ a.dstMac = ack.dstMac
      /\ a.srcIp = ack.srcIp /\ a.dstIp = ack.dstIp
      /\ a.type = ack.type /\ a.proto = ack.proto
      /\ a.sport = ack.sport /\ a.dport = ack.dport
      /\ a.sha = ack.sha /\ a.spa = ack.spa /\ a.tha = ack.tha /\ a.tpa = ack.tpa
      /\ a.seg = seg /\ a.hdr = ack.hdr
      /\ a.total = 20 + 20 + seg.len /\ a.len = 14 + 20 + 20 + seg.len
  BY <1>1 DEF IsFrame, Fields
<1> HIDE DEF IsFrame
<1>3. Returns(a, f)
  BY <1>2 DEF Returns
<1>4. LengthsOf(a)
  <2> DEFINE n == seg.len
  <2>1. n \in 0 .. 525 /\ a.seg.len = n
    BY <1>2
  <2>2. a.total = 40 + n /\ a.len = 54 + n
    BY <1>2, <2>1
  <2> HIDE DEF n
  <2>3. a.hdr = 20 /\ a.type = "ip" /\ a.proto = "tcp"
    BY <1>2
  <2> QED
    BY <2>1, <2>2, <2>3, ReceivedFrames
    DEF LengthsOf, NoLonger, IpHeaderLen, EthHeaderLen
<1> QED  BY <1>2, <1>3, <1>4 DEF a

(* The segments that TcpAnswers gives for one: none or one without data,   *)
(* or for a request an acknowledgement and the page.                       *)
LEMMA AnswersToSegment ==
  ASSUME NEW seg, IsSegment(seg), NEW s, NEW n, NEW data
  PROVE  LET answers == Answers(seg, s, n, data)
         IN  /\ "SYN" \in seg.flags \/ "ACK" \notin seg.flags \/ seg.len = 0 =>
                  \/ answers = <<>>
                  \/ \E a : answers = <<a>> /\ a.len = 0 /\ a.data = <<>>
             /\ seg.flags \cap {"SYN", "ACK"} = {"ACK"} /\ seg.len # 0 =>
                  \E a, d :
                    /\ answers = <<a, d>>
                    /\ "SYN" \notin a.flags /\ a.len = 0 /\ a.data = <<>>
                    /\ "SYN" \notin d.flags /\ d.len = n /\ d.data = data
<1> DEFINE ack == AckFromAny(seg)
           page == AckWithData(ack, n, data)
           synack == SynAck(seg, s)
<1>1. IsSegment(ack) /\ ack.flags = {"ACK"} /\ ack.len = 0 /\ ack.data = <<>>
  BY DEF AckFromAny, Bare, HeadInSession, IsSegment, SegmentFields
<1>2. synack.len = 0 /\ synack.data = <<>>
  BY DEF SynAck, Bare, HeadOfSession, IsSegment, SegmentFields
<1> HIDE DEF ack
<1>3. page.flags = {"ACK", "PSH", "FIN"} /\ page.len = n /\ page.data = data
  BY <1>1 DEF AckWithData, IsSegment, SegmentFields
<1> HIDE DEF page, synack
<1>4. Answers(seg, s, n, data) =
        IF "SYN" \in seg.flags THEN <<synack>>
        ELSE IF "ACK" \notin seg.flags THEN <<>>
        ELSE IF seg.len # 0 THEN <<ack, page>>
        ELSE IF "FIN" \in seg.flags THEN <<ack>> ELSE <<>>
  BY DEF Answers, ack, page, synack
<1>5. ASSUME "SYN" \in seg.flags \/ "ACK" \notin seg.flags \/ seg.len = 0
      PROVE  Answers(seg, s, n, data) \in {<<>>, <<synack>>, <<ack>>}
  BY <1>4, <1>5
<1>6. ASSUME seg.flags \cap {"SYN", "ACK"} = {"ACK"}, seg.len # 0
      PROVE  Answers(seg, s, n, data) = <<ack, page>>
  BY <1>4, <1>6
<1>7. "SYN" \notin ack.flags /\ "SYN" \notin page.flags
  BY <1>1, <1>3
<1> QED  BY <1>1, <1>2, <1>3, <1>5, <1>6, <1>7

(* What the data of a request make of the header of a segment.             *)
LEMMA SegmentOfFrame ==
  ASSUME NEW f \in Received
  PROVE  /\ IsSegment(SegmentOf(f)) /\ SegmentOf(f).len = InfoDataLen(f)
         /\ SegmentOf(f).flags = f.seg.flags
<1>1. IsSegment(f.seg)
  BY ReceivedFrames
<1> QED  BY <1>1 DEF SegmentOf, IsSegment, SegmentFields

(* What holds whatever is received, and why it holds when nothing is sent, *)
(* or one frame that is no page.                                           *)
ShortAnswers == \A i \in DOMAIN sent : NoLonger(sent[i])
Safe == GoesBack /\ LengthsAgree /\ PageTellsLed /\ ShortAnswers

LEMMA SilentIsSafe ==
  ASSUME sent' = <<>>  PROVE Safe'
BY DEF Safe, GoesBack, LengthsAgree, PageTellsLed, ShortAnswers

LEMMA OneIsSafe ==
  ASSUME NEW a, sent' = <<a>>, Returns(a, request'), LengthsOf(a), NoPage(a)
  PROVE  Safe'
<1>1. /\ \A i \in DOMAIN sent' : Returns(sent'[i], request')
      /\ \A i \in DOMAIN sent' : LengthsOf(sent'[i])
      /\ \A i \in DOMAIN sent' : NoPage(sent'[i])
  <2>1. \A i \in DOMAIN sent' : sent'[i] = a
    OBVIOUS
  <2> QED  BY <2>1
<1>2. GoesBack' /\ LengthsAgree' /\ ShortAnswers'
  BY <1>1 DEF GoesBack, Returns, LengthsAgree, LengthsOf, ShortAnswers, NoLonger
<1>3. PageTellsLed'
  BY <1>1 DEF PageTellsLed, NoPage
<1> QED  BY <1>2, <1>3 DEF Safe

(* print_webpage: the page's link is a command for the other state.        *)
LEMMA LinkTurnsOver ==
  ASSUME NEW on \in BOOLEAN
  PROVE  AnalyseGetUrl(PageLink(on)) = IF on THEN 0 ELSE 1
<1>1. CASE on
  <2>1. PageLink(on) = Password \o <<"/", "0">>
    BY <1>1 DEF PageLink
  <2> QED  BY <1>1, <2>1, LinkIsCommand DEF Digits, DigitValue
<1>2. CASE ~on
  <2>1. PageLink(on) = Password \o <<"/", "1">>
    BY <1>2 DEF PageLink
  <2> QED  BY <1>2, <2>1, LinkIsCommand DEF Digits, DigitValue
<1> QED  BY <1>1, <1>2

(* The page rendered for a request is that of the LED as it is afterwards. *)
LEMMA RenderedTellsLed ==
  ASSUME NEW f, NEW on, Rendered(f) = PageOf(on)
  PROVE  on = LedAfter(f)
<1>1. Rendered(f)[1] = "page" /\ Rendered(f)[2] = on
  BY DEF PageOf
<1>2. Rendered(f) \in {Ok, Usage, Unauthorized, PageOf(LedAfter(f))}
  BY DEF Rendered
<1>3. Ok[1] # "page" /\ Usage[1] # "page" /\ Unauthorized[1] # "page"
  BY DEF Ok, Usage, Unauthorized
<1>4. Rendered(f) = PageOf(LedAfter(f))
  BY <1>1, <1>2, <1>3
<1> QED  BY <1>1, <1>4 DEF PageOf

(* A page sent behind an acknowledgement. *)
LEMMA PageIsSafe ==
  ASSUME NEW f \in Received, AnswerRequest(f)
  PROVE  Safe'
<1> DEFINE text == Rendered(f)
           answers == Answers(SegmentOf(f), seqnum, TextLen(text), text)
<1>1. /\ IsWww(f) /\ svitLED' = LedAfter(f) /\ request' = f
      /\ f.seg.flags \cap {"SYN", "ACK"} = {"ACK"} /\ InfoDataLen(f) # 0
      /\ sent' = <<TcpFrame(f, answers[1]),
                   TcpDataFrame(TcpFrame(f, answers[1]), answers[2])>>
  BY DEF AnswerRequest, Answer
<1> HIDE DEF text
<1>2. PICK a, d :
        /\ answers = <<a, d>>
        /\ "SYN" \notin a.flags /\ a.len = 0 /\ a.data = <<>>
        /\ "SYN" \notin d.flags /\ d.len = TextLen(text) /\ d.data = text
  BY <1>1, SegmentOfFrame, AnswersToSegment
<1> HIDE DEF answers
<1> DEFINE ack == TcpFrame(f, a)
           page == TcpDataFrame(ack, d)
<1>3. sent' = <<ack, page>>
  BY <1>1, <1>2
<1>4. /\ IsFrame(ack) /\ Returns(ack, f) /\ LengthsOf(ack)
      /\ ack.type = "ip" /\ ack.proto = "tcp" /\ ack.hdr = 20 /\ ack.seg = a
  BY <1>1, <1>2, TcpFrameReturns
<1> HIDE DEF ack
<1>5. d.len \in 0 .. 525
  <2>1. d.len = TextLen(text)
    BY <1>2, Zenon
  <2>2. TextLen(text) \in 0 .. 525
    BY TextLenBound, Zenon
  <2> QED  BY <2>1, <2>2, Zenon
<1>6. /\ Returns(page, f) /\ LengthsOf(page)
      /\ page.type = "ip" /\ page.proto = "tcp" /\ page.seg = d
  BY <1>4, <1>5, TcpDataFrameReturns
<1> HIDE DEF page
<1>7. ASSUME NEW i \in DOMAIN sent'
      PROVE  sent'[i] = ack \/ sent'[i] = page
  BY <1>3
<1>8. GoesBack' /\ LengthsAgree' /\ ShortAnswers'
  <2>1. /\ \A i \in DOMAIN sent' : Returns(sent'[i], request')
        /\ \A i \in DOMAIN sent' : LengthsOf(sent'[i])
    BY <1>1, <1>4, <1>6, <1>7
  <2> QED
    BY <2>1 DEF GoesBack, Returns, LengthsAgree, LengthsOf, ShortAnswers, NoLonger
<1>9. PageTellsLed'
  <2> SUFFICES ASSUME NEW i \in DOMAIN sent', NEW on \in BOOLEAN,
                      sent'[i].seg.data = PageOf(on)
               PROVE  /\ on = svitLED'
                      /\ AnalyseGetUrl(PageLink(on)) = IF on THEN 0 ELSE 1
    BY Zenon DEF PageTellsLed
  <2>1. PageOf(on) # <<>>
    BY DEF PageOf
  <2>2. sent'[i].seg.data = text
    BY <1>2, <1>4, <1>6, <1>7, <2>1
  <2>3. on = LedAfter(f)
    BY <2>2, RenderedTellsLed DEF text
  <2> QED  BY <1>1, <2>3, LinkTurnsOver
<1> QED  BY <1>8, <1>9 DEF Safe

(* No segment of the server but that one carries a page.                   *)
LEMMA SegmentIsSafe ==
  ASSUME NEW f \in Received, AnswerSegment(f)
  PROVE  Safe'
<1> DEFINE answers == Answers(SegmentOf(f), seqnum, 0, <<>>)
<1>1. /\ IsWww(f) /\ request' = f
      /\ "SYN" \in f.seg.flags \/ "ACK" \notin f.seg.flags \/ InfoDataLen(f) = 0
      /\ sent' = [i \in DOMAIN answers |-> TcpFrame(f, answers[i])]
  BY DEF AnswerSegment, Answer
<1>2. \/ answers = <<>>
      \/ \E a : answers = <<a>> /\ a.len = 0 /\ a.data = <<>>
  BY <1>1, SegmentOfFrame, AnswersToSegment
<1> HIDE DEF answers
<1>3. CASE answers = <<>>
  <2>1. sent' = <<>>
    BY <1>1, <1>3
  <2> QED  BY <2>1, SilentIsSafe
<1>4. ASSUME NEW a, answers = <<a>>, a.len = 0, a.data = <<>>
      PROVE  Safe'
  <2> DEFINE b == TcpFrame(f, a)
  <2>1. sent' = <<b>>
    BY <1>1, <1>4
  <2>2. Returns(b, f) /\ LengthsOf(b) /\ b.seg = a
    BY <1>1, <1>4, TcpFrameReturns
  <2> HIDE DEF b
  <2>3. NoPage(b)
    BY <1>4, <2>2 DEF NoPage, PageOf
  <2> QED  BY <1>1, <2>1, <2>2, <2>3, OneIsSafe
<1> QED  BY <1>2, <1>3, <1>4

(* The other answers are single frames and no segments.                    *)
LEMMA OthersAreSafe ==
  ASSUME NEW f \in Received, AnswerArp(f) \/ AnswerPing(f) \/ AnswerDatagram(f)
  PROVE  Safe'
<1>1. CASE AnswerArp(f)
  <2>1. IsArpForUs(f) /\ request' = f /\ sent' = <<ArpAnswer(f)>>
    BY <1>1 DEF AnswerArp, Answer
  <2>2. NoPage(ArpAnswer(f))
    BY <2>1, ArpAnswerReturns DEF NoPage
  <2> QED  BY <2>1, <2>2, ArpAnswerReturns, OneIsSafe
<1>2. CASE AnswerPing(f)
  <2>1. /\ IsIpForUs(f) /\ f.proto = "icmp"
        /\ request' = f /\ sent' = <<EchoReply(f, f.len)>>
    BY <1>2 DEF AnswerPing, Answer
  <2>2. NoPage(EchoReply(f, f.len))
    BY <2>1, EchoReplyReturns DEF NoPage
  <2> QED  BY <2>1, <2>2, EchoReplyReturns, OneIsSafe
<1>3. CASE AnswerDatagram(f)
  <2> DEFINE a == UdpReply(f, str', TextLen(str'), UdpPort)
  <2>1. /\ IsIpForUs(f) /\ f.proto = "udp"
        /\ request' = f /\ sent' = <<a>>
    BY <1>3 DEF AnswerDatagram, Answer
  <2>2. TextLen(str') \in Nat
    BY TextLenBound
  <2>3. Returns(a, f) /\ LengthsOf(a) /\ a.proto = "udp"
    BY <2>1, <2>2, UdpReplyReturns
  <2> HIDE DEF a
  <2>4. NoPage(a)
    BY <2>3 DEF NoPage
  <2> QED  BY <2>1, <2>3, <2>4, OneIsSafe
<1> QED  BY <1>1, <1>2, <1>3
-----------------------------------------------------------------------------
(* Every step leaves a safe answer, so all three properties hold, whatever *)
(* frames come in and whatever the LED was before.                         *)
LEMMA StepIsSafe == Safe /\ [Next]_vars => Safe'
<1> SUFFICES ASSUME Safe, [Next]_vars  PROVE Safe'
  OBVIOUS
<1>1. ASSUME NEW f \in Received, Handle(f)  PROVE Safe'
  <2>1. CASE AnswerRequest(f)
    BY <2>1, PageIsSafe
  <2>2. CASE AnswerSegment(f)
    BY <2>2, SegmentIsSafe
  <2>3. CASE AnswerArp(f) \/ AnswerPing(f) \/ AnswerDatagram(f)
    BY <2>3, OthersAreSafe
  <2>4. CASE Ignore(f)
    BY <2>4, SilentIsSafe DEF Ignore, Answer
  <2> QED  BY <1>1, <2>1, <2>2, <2>3, <2>4 DEF Handle
<1>2. CASE Restart
  BY <1>2, SilentIsSafe DEF Restart
<1>3. CASE UNCHANGED vars
  BY <1>3 DEF vars, Safe, GoesBack, LengthsAgree, PageTellsLed, ShortAnswers,
              NoLonger
<1> QED  BY <1>1, <1>2, <1>3 DEF Next

THEOREM AnswersSafe == Spec => []Safe
<1>1. Init => Safe
  BY DEF Init, Safe, GoesBack, LengthsAgree, PageTellsLed, ShortAnswers
<1> QED  BY <1>1, StepIsSafe, PTL DEF Spec

(* The builders, which work in place: the addresses of every answer are    *)
(* those of the sender of a request for us, and so are the ports of one in *)
(* TCP.                                                                    *)
THEOREM AnswersGoBack == Spec => []GoesBack
<1>1. Safe => GoesBack
  BY DEF Safe
<1> QED  BY <1>1, AnswersSafe, PTL

(* The builders: the lengths in the headers and of the frame agree, and it *)
(* fits the buffer.                                                        *)
THEOREM AnswerLengthsAgree == Spec => []LengthsAgree
<1>1. Safe => LengthsAgree
  BY DEF Safe
<1> QED  BY <1>1, AnswersSafe, PTL

(* print_webpage: a page tells the state of the LED, and its link is taken *)
(* for the command to turn it over.                                        *)
THEOREM PagesTellLed == Spec => []PageTellsLed
<1>1. Safe => PageTellsLed
  BY DEF Safe
<1> QED  BY <1>1, AnswersSafe, PTL
-----------------------------------------------------------------------------
(* make_udp_reply_from_request: the frame that carries a reply.            *)
LEMMA UdpReplyText ==
  ASSUME NEW f \in Received, NEW data, NEW n, NEW port
  PROVE  UdpReply(f, data, n, port).text = data
<1> DEFINE h   == MakeIp(MakeEth(f))
           put == IF n > 220 THEN 220 ELSE n
<1>1. IsFrame(h)
  BY ReceivedFrames, HeadersTurned
<1>2. UdpReply(f, data, n, port) =
        [h EXCEPT !.total = IpHeaderLen + UdpHeaderLen + put,
                  !.udplen = UdpHeaderLen + put, !.dport = port, !.text = data,
                  !.len = UdpHeaderLen + IpHeaderLen + EthHeaderLen + put]
  BY Zenon DEF UdpReply
<1> HIDE DEF h, put
<1> QED  BY <1>1, <1>2, SMTT(30) DEF IsFrame, Fields

(* What a datagram can ask for. *)
LEMMA Asked ==
  ASSUME NEW text, NEW n
  PROVE  LET asked == AnalyseDatagram(text, n)
         IN  \/ asked \in {<<"e=invalid_pw">>, <<"e=no_cmd">>, <<"e=no_such_cmd">>}
             \/ \E v : asked = <<"t=", v>>
BY DEF AnalyseDatagram

(* A reply that tells a state tells the one the LED now has.               *)
LEMMA ReplyAgrees ==
  ASSUME NEW f \in Received, AnswerDatagram(f)
  PROVE  ReplyTellsLed'
<1> DEFINE asked == AnalyseDatagram(f.text, f.udplen)
<1>1. /\ svitLED' = LedAsked(asked) /\ str' = StrAfter(asked) /\ request' = f
      /\ sent' = <<UdpReply(f, str', TextLen(str'), UdpPort)>>
  BY DEF AnswerDatagram, Answer
<1>2. \A i \in DOMAIN sent' : sent'[i].text = StrAfter(asked)
  BY <1>1, UdpReplyText
<1>3. ASSUME asked[1] = "t=" => asked[2] \in {"0", "1", "?"}
      PROVE  StrAfter(asked) # IF LedAsked(asked) THEN <<"L=0">> ELSE <<"L=1">>
  <2> HIDE DEF asked
  <2>1. CASE asked \in {<<"e=invalid_pw">>, <<"e=no_cmd">>, <<"e=no_such_cmd">>}
    <3>1. asked[1] # "t=" /\ asked \notin {<<"L=0">>, <<"L=1">>}
      BY <2>1
    <3>2. asked \notin {<<"t=", "1">>, <<"t=", "0">>, <<"t=", "?">>}
      BY <3>1
    <3>3. StrAfter(asked) = asked
      BY <3>1, <3>2 DEF StrAfter
    <3> QED  BY <3>1, <3>3
  <2>2. ASSUME NEW v, asked = <<"t=", v>>
        PROVE  StrAfter(asked) # IF LedAsked(asked) THEN <<"L=0">> ELSE <<"L=1">>
    <3>1. v \in {"0", "1", "?"}
      BY <1>3, <2>2
    <3>2. CASE v = "0"
      BY <2>2, <3>2 DEF StrAfter, LedAsked
    <3>3. CASE v = "1"
      BY <2>2, <3>3 DEF StrAfter, LedAsked
    <3>4. CASE v = "?"
      <4>1. StrAfter(asked) = <<"t=0">>
        BY <2>2, <3>4 DEF StrAfter
      <4> QED  BY <4>1
    <3> QED  BY <3>1, <3>2, <3>3, <3>4
  <2> QED  BY <2>1, <2>2, Asked DEF asked
<1> HIDE DEF asked
<1>4. ASSUME NEW i \in DOMAIN sent', asked[1] = "t=" => asked[2] \in {"0", "1", "?"}
      PROVE  sent'[i].text # IF svitLED' THEN <<"L=0">> ELSE <<"L=1">>
  BY <1>1, <1>2, <1>3, <1>4
<1> QED  BY <1>1, <1>4 DEF ReplyTellsLed, asked

(* The handler: a datagram is the only frame answered with a datagram.     *)
LEMMA OthersAreNoReplies ==
  ASSUME NEW f \in Received,
         AnswerArp(f) \/ AnswerPing(f) \/ AnswerSegment(f) \/ AnswerRequest(f)
  PROVE  ReplyTellsLed'
<1>1. ASSUME NEW i \in DOMAIN sent'
      PROVE  sent'[i].type = "arp" \/ sent'[i].proto \in {"icmp", "tcp"}
  <2>1. CASE AnswerArp(f)
    BY <1>1, <2>1, ArpAnswerReturns DEF AnswerArp, Answer
  <2>2. CASE AnswerPing(f)
    BY <1>1, <2>2, EchoReplyReturns DEF AnswerPing, Answer
  <2>3. CASE AnswerSegment(f)
    <3> DEFINE answers == Answers(SegmentOf(f), seqnum, 0, <<>>)
    <3>1. sent' = [j \in DOMAIN answers |-> TcpFrame(f, answers[j])] /\ IsWww(f)
      BY <2>3 DEF AnswerSegment, Answer
    <3>2. \/ answers = <<>>
          \/ \E a : answers = <<a>> /\ a.len = 0 /\ a.data = <<>>
      BY <2>3, SegmentOfFrame, AnswersToSegment DEF AnswerSegment
    <3> HIDE DEF answers
    <3>3. PICK a : answers[i] = a /\ a.len = 0
      BY <1>1, <3>1, <3>2
    <3> QED  BY <1>1, <3>1, <3>3, TcpFrameReturns
  <2>4. CASE AnswerRequest(f)
    <3> DEFINE text == Rendered(f)
               answers == Answers(SegmentOf(f), seqnum, TextLen(text), text)
    <3>1. /\ IsWww(f)
          /\ sent' = <<TcpFrame(f, answers[1]),
                       TcpDataFrame(TcpFrame(f, answers[1]), answers[2])>>
      BY <2>4 DEF AnswerRequest, Answer
    <3>2. PICK a, d :
            /\ answers = <<a, d>>
            /\ "SYN" \notin a.flags /\ a.len = 0 /\ a.data = <<>>
            /\ "SYN" \notin d.flags /\ d.len = TextLen(text) /\ d.data = text
      BY <2>4, SegmentOfFrame, AnswersToSegment DEF AnswerRequest
    <3> HIDE DEF text, answers
    <3>3. LET ack == TcpFrame(f, a)
          IN  /\ IsFrame(ack) /\ Returns(ack, f)
              /\ ack.type = "ip" /\ ack.proto = "tcp" /\ ack.hdr = 20
      BY <3>1, <3>2, TcpFrameReturns
    <3>4. TcpDataFrame(TcpFrame(f, a), d).proto = "tcp"
      <4>1. d.len \in 0 .. 525
        <5>1. d.len = TextLen(text)
          BY <3>2, Zenon
        <5>2. TextLen(text) \in 0 .. 525
          BY TextLenBound, Zenon
        <5> QED  BY <5>1, <5>2, Zenon
      <4> QED  BY <3>3, <4>1, TcpDataFrameReturns
    <3> QED  BY <1>1, <3>1, <3>2, <3>3, <3>4
  <2> QED  BY <2>1, <2>2, <2>3, <2>4
<1> QED  BY <1>1 DEF ReplyTellsLed

(* The handler: a reply kept from one datagram to the next never tells     *)
(* the wrong state, but for a command t= with an unknown value.            *)
THEOREM RepliesTellLed == Spec => []ReplyTellsLed
<1>1. Init => ReplyTellsLed
  BY DEF Init, ReplyTellsLed
<1>2. ASSUME ReplyTellsLed, [Next]_vars  PROVE ReplyTellsLed'
  <2>1. ASSUME sent' = <<>>  PROVE ReplyTellsLed'
    BY <2>1 DEF ReplyTellsLed
  <2>2. ASSUME NEW f \in Received, Handle(f)  PROVE ReplyTellsLed'
    <3>1. CASE AnswerDatagram(f)
      BY <3>1, ReplyAgrees
    <3>2. CASE AnswerArp(f) \/ AnswerPing(f) \/ AnswerSegment(f) \/ AnswerRequest(f)
      BY <3>2, OthersAreNoReplies
    <3>3. CASE Ignore(f)
      BY <2>1, <3>3 DEF Ignore, Answer
    <3> QED  BY <2>2, <3>1, <3>2, <3>3 DEF Handle
  <2>3. CASE Restart
    BY <2>1, <2>3 DEF Restart
  <2>4. CASE UNCHANGED vars
    BY <1>2, <2>4 DEF vars, ReplyTellsLed
  <2> QED  BY <1>2, <2>2, <2>3, <2>4 DEF Next
<1> QED  BY <1>1, <1>2, PTL DEF Spec
-----------------------------------------------------------------------------
(* analyse_get_url, for every request received.                            *)
THEOREM UrlsReadAsDocumented == Spec => []UrlAsDocumented
<1>1. UrlAsDocumented
  BY UrlReadAsDocumented DEF UrlAsDocumented
<1> QED  BY <1>1, PTL

(* What is remembered of the last frame was received.                      *)
LEMMA RequestReceived == Spec => [](request = <<>> \/ request \in Received)
<1> DEFINE R == request = <<>> \/ request \in Received
<1>1. Init => R
  BY DEF Init
<1>2. R /\ [Next]_vars => R'
  BY DEF Next, vars, Handle, Restart, AnswerArp, AnswerPing, AnswerSegment,
         AnswerRequest, AnswerDatagram, Ignore, Answer
<1> QED  BY <1>1, <1>2, PTL DEF Spec

(* The length of the payload of a whole datagram. *)
LEMMA PayloadLength ==
  ASSUME WholeDatagrams, NEW f \in Received, f.proto = "udp"
  PROVE  /\ f.udplen - UdpHeaderLen \in Nat
         /\ UdpHeaderLen + (f.udplen - UdpHeaderLen) = f.udplen
<1> DEFINE u == f.udplen
<1>1. u \in Nat /\ u >= 8
  BY DEF WholeDatagrams, UdpHeaderLen
<1> HIDE DEF u
<1>2. u - 8 \in Nat /\ 8 + (u - 8) = u
  BY <1>1
<1> QED  BY <1>2 DEF u, UdpHeaderLen

(* The handler's search for a command stays inside the datagram, however   *)
(* long it is, as long as no datagram says it is shorter than its header.  *)
THEOREM DatagramCommandsInside ==
  ASSUME WholeDatagrams
  PROVE  Spec => []DatagramCommandIsInPayload
<1>1. (request = <<>> \/ request \in Received) => DatagramCommandIsInPayload
  BY PayloadLength, DatagramReadInside DEF DatagramCommandIsInPayload
<1> QED  BY <1>1, RequestReceived, PTL
-----------------------------------------------------------------------------
(* A number that analyse_get_url returns comes from a valid password and   *)
(* from the form the comment describes, or from a path that runs on.       *)
LEMMA NumberComesFrom ==
  ASSUME NEW text, NEW d \in {"0", "1"}, AnalyseGetUrl(text) = DigitValue[d]
  PROVE  /\ HasPassword(text)
         /\ \/ HasForm(text) /\ FormValue(text) = DigitValue[d]
            \/ RunsOn(text) /\ text[ScanLimit + 1] = d
<1>1. DigitValue[d] \in {0, 1} /\ InvalidPassword = -1 /\ NoCommand = -2
  BY DEF DigitValue, Digits, InvalidPassword, NoCommand
<1>2. HasPassword(text)
  BY <1>1 DEF AnalyseGetUrl
<1>3. CASE ~RunsOn(text)
  <2>1. AnalyseGetUrl(text) = IF HasForm(text) THEN FormValue(text) ELSE NoCommand
    BY <1>2, <1>3, UrlReadAsDocumented DEF ReadAsDocumented
  <2> QED  BY <1>1, <1>2, <2>1
<1>4. CASE RunsOn(text)
  <2> DEFINE T == {i \in 1 .. ScanLimit : text[i] \in Ends \cup {"/"}}
                    \cup {ScanLimit + 1}
  <2>1. T = {ScanLimit + 1}
    BY <1>4 DEF RunsOn
  <2>2. ScanLimit + 1 \in Nat
    BY CommandsAssumption
  <2>3. ScanEnd(text) = ScanLimit + 1
    BY <2>1, <2>2, LeastIsMin DEF ScanEnd
  <2>4. CommandAt(text) = ScanLimit + 1
    BY <2>3, CommandsAssumption DEF CommandAt
  <2> DEFINE c == text[ScanLimit + 1]
  <2>5. AnalyseGetUrl(text) = IF c \in Digits THEN DigitValue[c] ELSE NoCommand
    BY <1>2, <2>4 DEF AnalyseGetUrl
  <2> HIDE DEF c
  <2>6. c \in Digits /\ DigitValue[c] = DigitValue[d]
    BY <1>1, <2>5
  <2>7. c = d
    BY <2>6 DEF DigitValue, Digits
  <2> QED  BY <1>2, <1>4, <2>7 DEF c
<1> QED  BY <1>3, <1>4

(* A request switches the LED only to the state it names.                  *)
LEMMA RequestSwitches ==
  ASSUME NEW f \in Received, AnswerRequest(f), svitLED' # svitLED
  PROVE  f.dstIp = MyIp /\ NamesState(f, svitLED')
<1>1. /\ IsIpForUs(f) /\ f.proto = "tcp" /\ f.dstIp = MyIp
      /\ svitLED' = LedAfter(f)
  BY DEF AnswerRequest, IsWww, IsIpForUs
<1>2. \/ UrlCommand(f) = 1 /\ svitLED' = TRUE
      \/ UrlCommand(f) = 0 /\ svitLED' = FALSE
  <2>1. CASE UrlCommand(f) = 1
    BY <1>1, <2>1 DEF LedAfter
  <2>2. CASE UrlCommand(f) = 0
    BY <1>1, <2>2 DEF LedAfter
  <2>3. CASE UrlCommand(f) \notin {0, 1}
    <3>1. LedAfter(f) = svitLED
      BY <2>3, Zenon DEF LedAfter
    <3> QED  BY <1>1, <3>1
  <2> QED  BY <2>1, <2>2, <2>3
<1> DEFINE d == IF svitLED' THEN "1" ELSE "0"
<1>3. UrlCommand(f) = DigitValue[d] /\ d \in {"0", "1"} /\ UrlCommand(f) \in {0, 1}
  BY <1>2 DEF DigitValue, Digits
<1>4. f.method = "GET" /\ UrlCommand(f) = AnalyseGetUrl(Tail(f.text))
  BY <1>3 DEF UrlCommand, NoCommand
<1> HIDE DEF d
<1>5. /\ HasPassword(Tail(f.text))
      /\ \/ /\ HasForm(Tail(f.text))
            /\ FormValue(Tail(f.text)) = DigitValue[d]
         \/ RunsOn(Tail(f.text)) /\ Tail(f.text)[ScanLimit + 1] = d
  BY <1>3, <1>4, NumberComesFrom
<1> QED  BY <1>1, <1>4, <1>5 DEF NamesState, d

(* And so does a datagram. *)
LEMMA DatagramSwitches ==
  ASSUME WholeDatagrams,
         NEW f \in Received, AnswerDatagram(f), svitLED' # svitLED
  PROVE  f.dstIp = MyIp /\ NamesState(f, svitLED')
<1> DEFINE asked == AnalyseDatagram(f.text, f.udplen)
           n == f.udplen - UdpHeaderLen
           d == IF svitLED' THEN "1" ELSE "0"
<1>1. /\ IsIpForUs(f) /\ f.proto = "udp" /\ f.dstIp = MyIp
      /\ svitLED' = LedAsked(asked)
  BY DEF AnswerDatagram, IsIpForUs
<1>2. asked = <<"t=", d>>
  <2> HIDE DEF asked
  <2> QED  BY <1>1 DEF LedAsked
<1>3. TakenFromPayload(f.text, n)
  BY <1>1, PayloadLength, DatagramReadInside
<1>4. UdpHeaderLen + n = f.udplen
  BY <1>1, PayloadLength
<1>5. PICK k \in 2 .. n - 3 : FirstCommand(f.text, k) /\ d = f.text[k + 3]
  <2>1. AnalyseDatagram(f.text, UdpHeaderLen + n) = <<"t=", d>>
    BY <1>2, <1>4
  <2> DEFINE b == AnalyseDatagram(f.text, UdpHeaderLen + n)
  <2>2. b[1] = "t=" /\ b[2] = d
    BY <2>1
  <2>3. b[1] = "t=" =>
          \E k \in 2 .. n - 3 : FirstCommand(f.text, k) /\ b[2] = f.text[k + 3]
    BY <1>3, Zenon DEF TakenFromPayload
  <2> HIDE DEF n, d, asked, b
  <2> QED  BY <2>2, <2>3, Zenon
<1> QED  BY <1>1, <1>5 DEF NamesState

(* The handler's branches: between two starts of the microcontroller the   *)
(* LED only changes to the state named by a request that is for us and     *)
(* carries the password.                                                   *)
THEOREM LedFollowsCommands ==
  ASSUME WholeDatagrams
  PROVE  Spec => LedFollowsCommand
<1> DEFINE A == svitLED' # svitLED =>
                  \/ request' = <<>>
                  \/ request'.dstIp = MyIp /\ NamesState(request', svitLED')
<1>1. [Next]_vars => [A]_vars
  <2> SUFFICES ASSUME Next  PROVE A
    OBVIOUS
  <2>1. ASSUME NEW f \in Received, Handle(f), svitLED' # svitLED
        PROVE  request' = f /\ f.dstIp = MyIp /\ NamesState(f, svitLED')
    <3>1. CASE AnswerRequest(f)
      BY <2>1, <3>1, RequestSwitches DEF AnswerRequest, Answer
    <3>2. CASE AnswerDatagram(f)
      BY <2>1, <3>2, DatagramSwitches DEF AnswerDatagram, Answer
    <3> QED
      BY <2>1, <3>1, <3>2
         DEF Handle, AnswerArp, AnswerPing, AnswerSegment, Ignore
  <2>2. CASE Restart
    BY <2>2 DEF Restart
  <2> QED  BY <2>1, <2>2 DEF Next
<1> QED  BY <1>1, PTL DEF Spec, LedFollowsCommand
=============================================================================
