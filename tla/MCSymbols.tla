------------------------------- MODULE MCSymbols -------------------------------
(* Symbols with a variable, a string, a resident integer and a letter with *)
(* %, two procedures in the chain of the variables, and three frames.      *)
EXTENDS Symbols

x == <<"x">>
s == <<"s", "$">>
n == <<"n", "%">>
A == <<"A", "%">>
SmallVariables == {x, s, A, TIME}
SmallArrays == {x}
FNf == <<"F", "N", "f">>
PROCp == <<"P", "R", "O", "C", "p">>
PROCq == <<"P", "R", "O", "C", "q">>
SmallCalled == {FNf, PROCp, PROCq}

(* Everything but TIME and the resident integer is in one chain.           *)
SmallHash == [id \in SmallVariables \cup SmallCalled |-> IF id = TIME THEN 2 ELSE 1]

SmallDefs == <<[id |-> FNf, params |-> <<>>], [id |-> PROCp, params |-> <<x>>],
               [id |-> FNf, params |-> <<A, s>>]>>

One == value_int_new(1)
Half == value_float_new(1, 2)
Letter == value_string_new(<<65>>)

SmallAssigned == {Half, Letter}
SmallArgs == {<<One>>, <<One, Letter>>, <<One, One>>, <<Half, NULL>>}
SmallLocals == {<<x, s>>, <<s, A>>}

(* An array of each kind: with two dimensions, of no size, too big for the *)
(* memory, too big for a size in bytes, and with a bound that is a float.  *)
SmallDims == {<<One>>, <<value_int_new(2), One>>,
              <<value_int_new(511), value_int_new(511)>>, <<value_int_new(IntMax)>>,
              <<value_int_new(255), value_int_new(127)>>, <<Half>>}
SmallIndices == {<<Half>>, <<One, Half>>, <<Letter>>}

(* The result of the last operation is read by no operation.               *)
State == <<frames, residents, set_time_value, outcome>>
================================================================================
