----------------------------- MODULE MCExpressions -----------------------------
(* All integers of five bits, fractions about one half and out of range,   *)
(* and all strings of up to three of two letters, with counts about their  *)
(* length and at the ends.                                                 *)
EXTENDS Expressions

Ints == {value_int_new(i) : i \in IntRange}
Floats == {value_float_new(n, 2) : n \in {-19, -5, -1, 0, 1, 2, 5, 19}}
Texts == {value_string_new(s) : s \in UNION {[1..i -> {1, 2}] : i \in 0..3}}
Short == {v \in Texts : Len(v.str) <= 2}
Counts == {value_int_new(i) : i \in (-3..7) \cup {IntMin, IntMax}}
Some == Floats \cup Ints

Exponents == {value_int_new(i) : i \in -2..3} \cup {value_float_new(n, 2) : n \in {-1, 3, 4}}

Case(ops, argSets) ==
  {[op |-> t, args |-> a] : t \in ops, a \in argSets}

SmallCases ==
  Case((Arithmetic \ {"^"}) \cup Comparisons,
       ((Some \cup Short) \X (Some \cup Short)))
  \cup Case({"^"}, Some \X Exponents)
  \cup Case({"minus", "NOT"} \cup Unary, {<<v>> : v \in Some \cup Texts})
  \cup Case(Binary, (Texts \X Some) \cup (Short \X Short))
  \cup Case({"MID$"}, Texts \X (Counts \cup Short) \X Counts)
  \cup Case({"INSTR"}, Texts \X (Short \cup Counts) \X Counts)
================================================================================
