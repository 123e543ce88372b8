------------------------------ MODULE MCOpenFiles ------------------------------
(* OpenFiles with short integers and doubles.                              *)
EXTENDS OpenFiles

(* A double whose bytes look like tags, and an empty string.               *)
SmallValues == {[type |-> "float", bytes |-> <<0, 64>>],
                [type |-> "string", bytes |-> <<>>]}

(* No file; a string of one byte, and a file that ends within an item.     *)
SmallDisks == {<<>>, [f \in {"A"} |-> <<0, 1, 7, 64>>]}

(* Beyond the end, and as small as STATUS_ERROR.                           *)
SmallWanted == {-3, 0, 1, 2}
==============================================================================
