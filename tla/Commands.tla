------------------------------ MODULE Commands ------------------------------
(***************************************************************************)
(* What the server takes for a command: analyse_get_url for the path of a  *)
(* GET request, and the part of the handler that looks for a command in a  *)
(* datagram.  A text is what the buffer holds from some position on: the   *)
(* payload, and behind it whatever an earlier frame left there, so it goes *)
(* on further than either of them reads.                                   *)
(***************************************************************************)
EXTENDS Integers, Sequences, FiniteSetsExt

CONSTANTS
  Chars,      (* the characters of a text                                  *)
  Password,   (* password: "123456"                                        *)
  CheckLen,   (* "only the first 5 char checked"                           *)
  ScanLimit,  (* how far the first '/' is looked for: 10                   *)
  LenMod      (* a length kept in an unsigned byte: 256                    *)

(* The digits; "2" stands for those that are no command of the server.     *)
Digits == {"0", "1", "2"}
DigitValue == [c \in Digits |-> CASE c = "0" -> 0 [] c = "1" -> 1 [] c = "2" -> 2]

(* *str && *str >',' && *str<'{' does not hold: a zero byte, a blank, a    *)
(* comma.                                                                  *)
Ends == {"NUL", " ", ","}

ASSUME CommandsAssumption ==
  /\ Digits \subseteq Chars
  /\ Password \in Seq(Chars \ (Ends \cup {"/"}))
  /\ CheckLen \in Nat \ {0}
  /\ ScanLimit \in Nat
  /\ Len(Password) \in CheckLen .. ScanLimit - 1
  /\ LenMod \in Nat \ {0}
-----------------------------------------------------------------------------
(* strncmp(password, str, 5) == 0 *)
HasPassword(text) == \A i \in 1 .. CheckLen : text[i] = Password[i]

InvalidPassword == -1
NoCommand == -2

(* Where the scan ends: at the first '/' or character of Ends, and if      *)
(* there is none among the first ScanLimit characters, behind them.        *)
ScanEnd(text) ==
  Min({i \in 1 .. ScanLimit : text[i] \in Ends \cup {"/"}}
        \cup {ScanLimit + 1})

(* Mutant of CommandAt: the '/' is not stepped over. *)
CommandAtSlash(text) == ScanEnd(text)

CommandAt(text) ==
  LET i == ScanEnd(text)
  IN  IF i <= ScanLimit /\ text[i] = "/" THEN i + 1 ELSE i

(* analyse_get_url *)
AnalyseGetUrl(text) ==
  LET c == text[CommandAt(text)]
  IN  IF ~HasPassword(text) THEN InvalidPassword
      ELSE IF c \in Digits THEN DigitValue[c]
      ELSE NoCommand
-----------------------------------------------------------------------------
UdpHeaderLen == 8

(* payloadlen=buf[UDP_LEN_L_P]-UDP_HEADER_LEN, in an unsigned byte. *)
PayloadLen(udplen) == (udplen - UdpHeaderLen) % LenMod

(* The position in the payload, counted from 0 as the code does, at which  *)
(* the search for the first comma leaves cmd_pos.                          *)
CmdPos(text, n) ==
  LET commas == {i \in 1 .. n : text[i + 1] = ","}
  IN  IF commas = {} THEN n ELSE (Min(commas) + 1) % LenMod

(* Mutant of HasCommand: nothing keeps the command inside the payload. *)
HasCommandAnywhere(text, n) ==
  LET p == CmdPos(text, n)
  IN  p >= 2 /\ text[p + 2] = "="

(* "a command is one char and a value. At least 3 characters long. It has  *)
(* an '=' on position 2"                                                   *)
HasCommand(text, n) ==
  LET p == CmdPos(text, n)
  IN  p >= 2 /\ p <= n - 3 /\ text[p + 2] = "="

(* What the datagram asks for, or the answer to a datagram that asks for   *)
(* nothing.                                                                *)
AnalyseDatagram(text, udplen) ==
  LET n == PayloadLen(udplen)
      p == CmdPos(text, n)
  IN  IF ~HasPassword(text) THEN <<"e=invalid_pw">>
      ELSE IF ~HasCommand(text, n) THEN <<"e=no_cmd">>
      ELSE IF text[p + 1] # "t" THEN <<"e=no_such_cmd">>
      ELSE <<"t=", text[p + 3]>>
-----------------------------------------------------------------------------
(* What server.c:205 calls "a string of the form password/commandNumber",  *)
(* and its number: not how the code reads a path but what the properties   *)
(* compare that with.                                                      *)
HasForm(text) ==
  /\ HasPassword(text)
  /\ \E k \in CheckLen + 1 .. ScanLimit :
       /\ text[k] = "/"
       /\ \A i \in 1 .. k - 1 : text[i] \notin Ends \cup {"/"}
       /\ text[k + 1] \in Digits
FormValue(text) ==
  DigitValue[text[1 + Min({i \in 1 .. ScanLimit : text[i] = "/"})]]

(* No '/' and no end of the path among the first ScanLimit characters.     *)
RunsOn(text) == \A i \in 1 .. ScanLimit : text[i] \notin Ends \cup {"/"}

(* analyse_get_url: as long as a '/' or the end of the path comes among    *)
(* the first ScanLimit characters, a number is returned exactly for a path *)
(* of the documented form, and it is the number in the path.               *)
ReadAsDocumented(text) ==
  ~RunsOn(text) =>
    AnalyseGetUrl(text) =
      IF HasForm(text) THEN FormValue(text)
      ELSE IF HasPassword(text) THEN NoCommand ELSE InvalidPassword

(* The first comma of a datagram is at k, and the command t= behind it.    *)
FirstCommand(text, k) ==
  /\ HasPassword(text)
  /\ text[k] = "," /\ \A i \in 2 .. k - 1 : text[i] # ","
  /\ text[k + 1] = "t" /\ text[k + 2] = "="

(* The search of the handler for a command in a datagram of n characters:  *)
(* a command is only taken from the payload, from behind its first comma,  *)
(* never from what an earlier frame left in the buffer, also when the      *)
(* length kept is smaller than the payload; when it is not, no command in  *)
(* the payload is missed.                                                  *)
TakenFromPayload(text, n) ==
  LET asked == AnalyseDatagram(text, UdpHeaderLen + n)
  IN  /\ asked[1] = "t=" =>
           \E k \in 2 .. n - 3 : FirstCommand(text, k) /\ asked[2] = text[k + 3]
      /\ n < LenMod =>
           \A k \in 2 .. n - 3 :
             FirstCommand(text, k) => asked = <<"t=", text[k + 3]>>
=============================================================================
