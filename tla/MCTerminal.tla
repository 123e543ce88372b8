------------------------------- MODULE MCTerminal -------------------------------
(* A letter, the byte taken for a timeout and the byte taken for an error. *)
EXTENDS Terminal

SmallKeys == {0, 65, 255}
================================================================================
