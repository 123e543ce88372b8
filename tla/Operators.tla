------------------------------- MODULE Operators -------------------------------
(***************************************************************************)
(* The operators of expressions (expr_ops.c) on operands that have a       *)
(* value.  A float is an exact fraction; the rounding kept is that to      *)
(* single precision, when an integer is divided by another.                *)
(***************************************************************************)
EXTENDS Values, FiniteSets

CONSTANT SingleMax   (* up to here a float holds every integer: 2^24       *)

ASSUME SingleAssumption == SingleMax \in Nat /\ SingleMax >= 5

Arithmetic == {"+", "-", "*", "/", "DIV", "MOD", "^", "AND", "OR", "EOR"}
Integral == {"DIV", "MOD", "AND", "OR", "EOR"}
Comparisons == {"=", "<>", "<", "<=", ">", ">="}

(* What an evaluation gives instead of a value: an error, or a signal that *)
(* the division raises and that ends the process.                          *)
Error(code) == [type |-> "error", code |-> code]
Trap == [type |-> "trap"]

(* The bits of an integer, in two's complement.                            *)
Weight[i \in 0..128] == IF i = 0 THEN 1 ELSE 2 * Weight[i - 1]
Width == CHOOSE w \in 1..64 : Weight[w] = 2 * (IntMax + 1)
Bits(n) == {i \in 0..(Width - 1) : (n \div Weight[i]) % 2 = 1}
FromBits(B) ==
  LET sum[i \in 0..Width] ==
        IF i = 0 THEN 0
        ELSE sum[i - 1] + (IF i - 1 \in B THEN Weight[i - 1] ELSE 0)
  IN  Wrap(sum[Width])

(* The integers are all numbers of some number of bits.                    *)
ASSUME WidthAssumption == \E w \in 1..64 : Weight[w] = 2 * (IntMax + 1)

Bitwise(t, n, m) ==
  LET b == Bits(n)
      c == Bits(m)
  IN  FromBits(IF t = "AND" THEN b \cap c
               ELSE IF t = "OR" THEN b \cup c
               ELSE (b \cup c) \ (b \cap c))

(* A bug: rounding down instead of towards zero.                           *)
FlooredDivide(t, n, m) ==
  IF m = 0 \/ (n = IntMin /\ m = -1) THEN Trap
  ELSE value_int_new(IF t = "DIV" THEN (IF m < 0 THEN (-n) \div (-m) ELSE n \div m)
                     ELSE Remainder(n, m))

(* C's integer division, which the processor refuses for these operands.   *)
Divide(t, n, m) ==
  IF m = 0 \/ (n = IntMin /\ m = -1) THEN Trap
  ELSE value_int_new(IF t = "DIV" THEN Quotient(n, m) ELSE Remainder(n, m))

IntegralOp(t, n, m) ==
  IF t \in {"DIV", "MOD"} THEN Divide(t, n, m) ELSE value_int_new(Bitwise(t, n, m))

(* The number of single precision nearest to a fraction, the even one of   *)
(* two, where that is an integer: a multiple of the power of two by which  *)
(* the numbers of this size are apart.                                     *)
Nearest(n, d) ==
  LET step == CHOOSE s \in {Weight[i] : i \in 0..(2 * Width)} :
                /\ n <= s * SingleMax * d
                /\ s > 1 => n > (s \div 2) * SingleMax * d
      low == n \div (step * d)
      rest == n % (step * d)
  IN  step * (IF 2 * rest < step * d \/ (2 * rest = step * d /\ low % 2 = 0)
              THEN low ELSE low + 1)

(* The cast of an integer to float.                                        *)
Single(n) == IF n < 0 THEN -Nearest(-n, 1) ELSE Nearest(n, 1)

(* A bug: the cast comes after the division.                               *)
LateCast(n, d) == value_float_new(Quotient(n, d), 1)

(* The division of floats, counted in parts of one so small that every     *)
(* quotient of two integers is rounded to a number of them.                *)
SingleQuotient(n, d) ==
  LET parts == Weight[Width] * SingleMax
      q == Nearest(Magnitude(n) * parts, Magnitude(d))
  IN  value_float_new(IF (n < 0) = (d < 0) THEN q ELSE -q, parts)

Plus(l, r) == value_float_new(l.num * r.den + r.num * l.den, l.den * r.den)
Minus(v) == [v EXCEPT !.num = -v.num]
Times(l, r) == value_float_new(l.num * r.num, l.den * r.den)
Over(l, r) == value_float_new(l.num * r.den, l.den * r.num)

(* pow() of the C library: a root that is no fraction is just some float.  *)
Irrational == [type |-> "float", num |-> 0, den |-> 0]
Power(l, r) ==
  LET n == Magnitude(r.num)
  IN  IF (value_is_zero(l) /\ r.num < 0) \/ (l.num < 0 /\ r.den # 1)
      THEN Error("log range")
      ELSE IF n = 0 THEN value_float_new(1, 1)
      ELSE IF r.den # 1 THEN Irrational
      ELSE IF r.num < 0 THEN value_float_new(l.den^n, l.num^n)
      ELSE value_float_new(l.num^n, l.den^n)

IntArith(t, l, r) ==
  CASE t = "+" -> value_int_new(Wrap(l.num + r.num))
    [] t = "-" -> value_int_new(Wrap(l.num - r.num))
    [] t = "*" -> value_int_new(Wrap(l.num * r.num))
    [] t = "/" -> IF l.num = IntMin /\ r.num = -1 THEN Trap
                  ELSE IF Remainder(l.num, r.num) = 0
                  THEN value_int_new(Quotient(l.num, r.num))
                  ELSE SingleQuotient(Single(l.num), Single(r.num))
    [] t = "^" -> Power(l, r)
    [] t \in Integral -> IntegralOp(t, l.num, r.num)

FloatArith(t, l, r) ==
  CASE t = "+" -> Plus(l, r)
    [] t = "-" -> Plus(l, Minus(r))
    [] t = "*" -> Times(l, r)
    [] t = "/" -> Over(l, r)
    [] t = "^" -> Power(l, r)
    [] t \in Integral -> IntegralOp(t, value_int(l), value_int(r))

(* The divisor is tested before it is made an integer.                     *)
expr_eval_op_binary_arith(t, l, r) ==
  IF value_is_string(l) /\ value_is_string(r) /\ t = "+"
    THEN value_string_new(l.str \o r.str)
  ELSE IF ~(value_is_numeric(l) /\ value_is_numeric(r))
    THEN Error("type mismatch")
  ELSE IF t \in {"/", "DIV", "MOD"} /\ value_is_zero(r)
    THEN Error("division by zero")
  ELSE IF value_is_int(l) /\ value_is_int(r) THEN IntArith(t, l, r)
  ELSE FloatArith(t, l, r)

(* A byte string comes before another as strcmp says, on unsigned bytes.   *)
Before(s, u) ==
  \E i \in 1..Len(u) :
    /\ \A j \in 1..(i - 1) : j <= Len(s) /\ s[j] = u[j]
    /\ i > Len(s) \/ (i <= Len(s) /\ s[i] < u[i])

Less(l, r) ==
  IF value_is_string(l) THEN Before(l.str, r.str) ELSE l.num * r.den < r.num * l.den
Equals(l, r) ==
  IF value_is_string(l) THEN l.str = r.str ELSE l.num * r.den = r.num * l.den

Truth(b) == value_int_new(IF b THEN -1 ELSE 0)

expr_eval_op_binary_comp(t, l, r) ==
  IF value_is_string(l) # value_is_string(r) THEN Error("type mismatch")
  ELSE CASE t = "="  -> Truth(Equals(l, r))
         [] t = "<>" -> Truth(~Equals(l, r))
         [] t = "<"  -> Truth(Less(l, r))
         [] t = "<=" -> Truth(Less(l, r) \/ Equals(l, r))
         [] t = ">"  -> Truth(~(Less(l, r) \/ Equals(l, r)))
         [] t = ">=" -> Truth(~Less(l, r))

expr_eval_op_unary_minus(v) ==
  IF value_is_float(v) THEN Minus(v)
  ELSE IF value_is_int(v) THEN value_int_new(Wrap(-v.num))
  ELSE Error("type mismatch")

expr_eval_op_unary_not(v) ==
  IF value_is_numeric(v)
  THEN value_int_new(FromBits((0..(Width - 1)) \ Bits(value_int(v))))
  ELSE Error("type mismatch")
================================================================================
