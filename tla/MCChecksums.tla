---------------------------- MODULE MCChecksums ----------------------------
(* Checksums with bytes of two bits: words of four bits overflow often and *)
(* every content of the headers is tried. Payloads are empty, odd and      *)
(* even, with zero bytes and with the largest bytes.                       *)
EXTENDS Checksums

MCDatas == {<<>>} \cup [1 .. 1 -> Bytes] \cup [1 .. 2 -> Bytes]
             \cup [1 .. 3 -> Bytes]
             \cup {<<0, 3, 0, 3>>, <<3, 2, 3, 1, 2>>}
MCMssOption == <<2, 0, 1, 3>>
=============================================================================
