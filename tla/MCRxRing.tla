------------------------------ MODULE MCRxRing ------------------------------
(* RxRing on a ring of 12 bytes with headers of two bytes. A frame takes   *)
(* 4 or 8 bytes, so frames wrap around the end at different places, a long *)
(* and a short frame together fill the ring, and two short ones leave room *)
(* while EPKTCNT is at its limit. The long frame is longer than the buffer *)
(* of the handler, the short one is below the handler's length filter.     *)
EXTENDS RxRing
=============================================================================
