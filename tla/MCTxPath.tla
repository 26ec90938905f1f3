------------------------------ MODULE MCTxPath ------------------------------
(* TxPath with four frames, of which up to two fail: a failure before and   *)
(* after a success, two in a row, and the last frame's.                     *)
EXTENDS TxPath
=============================================================================
