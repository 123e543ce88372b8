---------------------------- MODULE StringFunctions ----------------------------
(***************************************************************************)
(* The string functions of expr_builtin.c, and the number functions that   *)
(* depend on the width of an integer.  Counts are integers that the C code *)
(* converts to size_t, so a negative one becomes a large one.              *)
(***************************************************************************)
EXTENDS Operators

CONSTANTS
  Byte,      (* how many values a byte has, and the size of SPC's buffer: 256 *)
  SizeMod    (* how many values a size_t has: 2^64                         *)

(* An int has whole bytes, and a size_t is wider than an int.              *)
ASSUME SizesAssumption ==
  /\ Byte \in Nat \ {0, 1} /\ SizeMod \in Nat
  /\ Byte <= IntMax + 1 /\ (IntMax + 1) % Byte = 0
  /\ 2 * (IntMax + 1) <= SizeMod

Unary == {"ABS", "ASC", "CHR$", "INT", "LEN", "SGN", "SPC"}
Binary == {"LEFT$", "RIGHT$", "STRING$"}
Ternary == {"MID$", "INSTR"}

(* A write outside the memory it is meant for; a loop of 2^64 rounds; no   *)
(* memory, on which the program ends.                                      *)
Overrun == [type |-> "overrun"]
Endless == [type |-> "endless"]
NoMemory == [type |-> "no memory"]

size_t(n) == n % SizeMod

(* C strings: nothing after a byte that is zero.                           *)
CString(b) == value_string_new(IF b = 0 THEN <<>> ELSE <<b>>)

(* The bytes of s from index i, counted from 0, at most n of them.         *)
Cut(s, i, n) == SubSeq(s, i + 1, IF i + n < Len(s) THEN i + n ELSE Len(s))

(* A char is signed.                                                       *)
FirstChar(s) == IF s = <<>> THEN -1
                ELSE IF 2 * Head(s) >= Byte THEN Head(s) - Byte ELSE Head(s)

expr_eval_func_abs(v) ==
  IF value_is_float(v) THEN [v EXCEPT !.num = Magnitude(@)]
  ELSE value_int_new(Wrap(Magnitude(v.num)))

expr_eval_func_asc(s) == value_int_new(FirstChar(s))

expr_eval_func_chrs(v) == CString(value_int(v) % Byte)

expr_eval_func_int(v) ==
  LET floor == v.num \div v.den
  IN  value_int_new(IF floor \in IntRange THEN floor ELSE IntMin)

expr_eval_func_len(s) == value_int_new(Len(s))

expr_eval_func_sgn(v) ==
  value_int_new(IF v.num = 0 THEN 0 ELSE IF v.num < 0 THEN -1 ELSE 1)

(* n copies of s.                                                          *)
Copies(n, s) == [i \in 1..(n * Len(s)) |-> s[((i - 1) % Len(s)) + 1]]

(* The remainder of a negative count is negative, and the loop compares it *)
(* as a size_t.                                                            *)
expr_eval_func_spc(v) ==
  LET n == Remainder(value_int(v), Byte)
  IN  IF n < 0 THEN Overrun ELSE value_string_new([i \in 1..n |-> 32])

expr_eval_func_strings(s, v) ==
  LET n == size_t(Remainder(value_int(v), Byte))
  IN  IF n < Byte THEN value_string_new(Copies(n, s))
      ELSE IF s = <<>> THEN Endless
      ELSE IF size_t(n * Len(s) + 1) = 0 THEN Overrun
      ELSE NoMemory

(* A bug: the count is an index from 1.                                    *)
LeftOfIndex(s, v) == value_string_new(Cut(s, 0, size_t(value_int(v) - 1)))

expr_eval_func_lefts(s, v) == value_string_new(Cut(s, 0, size_t(value_int(v))))

expr_eval_func_rights(s, v) ==
  LET n == size_t(value_int(v))
  IN  value_string_new(IF n < Len(s) THEN Cut(s, Len(s) - n, n) ELSE s)

(* A bug: the end of the string is not a limit.                            *)
MidUnlimited(s, v, w) ==
  LET from == size_t(value_int(v))
      len == size_t(value_int(w))
      start == IF from # 0 THEN from - 1 ELSE 0
  IN  IF start > Len(s) \/ len > Len(s) - start THEN Overrun
      ELSE value_string_new(Cut(s, start, len))

(* s[len] is written when start + len, which may wrap, is below the length.*)
expr_eval_func_mids(s, v, w) ==
  LET from == size_t(value_int(v))
      len == size_t(value_int(w))
      start == IF from > Len(s) THEN Len(s) ELSE IF from # 0 THEN from - 1 ELSE 0
  IN  IF size_t(start + len) >= Len(s) THEN value_string_new(Cut(s, start, Len(s)))
      ELSE IF len > Len(s) - start THEN Overrun
      ELSE value_string_new(Cut(s, start, len))

Occurs(n, h, i) == i + Len(n) <= Len(h) /\ Cut(h, i, Len(n)) = n

expr_eval_func_instr(h, n, v) ==
  LET k == size_t(value_int(v))
      start == IF k = 0 THEN 0 ELSE k - 1
      found == {i \in 0..(Len(h) - 1) : i >= start /\ Occurs(n, h, i)}
  IN  IF n = <<>> THEN value_int_new(1)
      ELSE IF found = {} THEN value_int_new(0)
      ELSE value_int_new((CHOOSE i \in found : \A j \in found : i <= j) + 1)

UnaryFunction(t, v) ==
  CASE t = "ABS"  -> expr_eval_func_abs(v)
    [] t = "SGN"  -> expr_eval_func_sgn(v)
    [] t = "INT"  -> expr_eval_func_int(v)
    [] t = "SPC"  -> expr_eval_func_spc(v)
    [] t = "CHR$" -> expr_eval_func_chrs(v)
    [] t = "ASC"  -> expr_eval_func_asc(v.str)
    [] t = "LEN"  -> expr_eval_func_len(v.str)

(* The types every function wants, tested once all arguments have values.  *)
Wanted(t) ==
  CASE t \in {"ASC", "LEN"} -> <<"string">>
    [] t \in Unary \ {"ASC", "LEN"} -> <<"number">>
    [] t \in Binary -> <<"string", "number">>
    [] t = "MID$"  -> <<"string", "number", "number">>
    [] t = "INSTR" -> <<"string", "string", "number">>

Suits(a, kind) == value_is_string(a) = (kind = "string")

Function(t, args) ==
  IF \E i \in DOMAIN args : ~Suits(args[i], Wanted(t)[i]) THEN Error("type mismatch")
  ELSE CASE t \in Unary -> UnaryFunction(t, args[1])
         [] t = "LEFT$"   -> expr_eval_func_lefts(args[1].str, args[2])
         [] t = "RIGHT$"  -> expr_eval_func_rights(args[1].str, args[2])
         [] t = "STRING$" -> expr_eval_func_strings(args[1].str, args[2])
         [] t = "MID$"    -> expr_eval_func_mids(args[1].str, args[2], args[3])
         [] t = "INSTR"   -> expr_eval_func_instr(args[1].str, args[2].str, args[3])
================================================================================
