---------------------------- MODULE MCTcpSession ----------------------------
(* TcpSession with bytes of four bits.  The page of print_webpage has 525  *)
(* bytes if the LED is on and 499 if it is off: just above and just below  *)
(* twice the number of values of a byte.  The second initial sequence      *)
(* number of the client makes a carry run through all four bytes.          *)
EXTENDS TcpSession

MCPageLen == [on \in BOOLEAN |-> IF on THEN 2 * Byte + 1 ELSE 2 * Byte - 1]

(* No page is longer than the step of the server's sequence numbers.       *)
MCShortPageLen == [on \in BOOLEAN |-> 2 * Byte - 1]

MCClientIsns == {<<0, 1, 0, 0>>, <<Byte - 1, Byte - 1, Byte - 1, Byte - 2>>}
=============================================================================
