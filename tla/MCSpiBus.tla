------------------------------ MODULE MCSpiBus ------------------------------
(* SpiBus with the five start-up frames of main and three received ones:   *)
(* a handler that is called, finds a second frame while it works, and is   *)
(* called again, and that comes in between main's sends and in its waits   *)
(* (HeldOff). The run in which it comes in anywhere, as in the program,    *)
(* needs one start-up frame only.                                          *)
EXTENDS SpiBus
=============================================================================
