--------------------------- MODULE ExpressionsProofs ----------------------------
(***************************************************************************)
(* Theorems about Expressions.  What an evaluation gives depends on the    *)
(* operator and its operands alone, so that the invariant says no more     *)
(* than that it has been made, and what remains is about the operators and *)
(* the functions themselves.                                               *)
(***************************************************************************)
EXTENDS Expressions, SequenceTheorems, FiniteSetTheorems, Induction

(* The evaluation of t on the operands a.                                  *)
Evaluation(t, a) ==
  IF t \in Arithmetic THEN expr_eval_op_binary_arith(t, a[1], a[2])
  ELSE IF t \in Comparisons THEN expr_eval_op_binary_comp(t, a[1], a[2])
  ELSE IF t = "minus" THEN expr_eval_op_unary_minus(a[1])
  ELSE IF t = "NOT" THEN expr_eval_op_unary_not(a[1])
  ELSE Function(t, a)

(* The operands are those of some case, and the result is pending or that  *)
(* of the evaluation.                                                      *)
Evaluated ==
  /\ op \in Operations
  /\ args \in [1..Arity(op) -> Operand]
  /\ result \in {Pending, Evaluation(op, args)}

(* Every operation is evaluated as Evaluation says.                        *)
LEMMA EvaluatedHolds == Spec => []Evaluated
<1>1. Init => Evaluated
  BY CasesAssumption, Zenon DEF Init, Evaluated
<1>2. Evaluated /\ [Next]_vars => Evaluated'
  <2> SUFFICES ASSUME Evaluated, [Next]_vars PROVE Evaluated'
    OBVIOUS
  <2>1. CASE UNCHANGED vars
    BY <2>1, Zenon DEF vars, Evaluated, Pending
  <2>2. ASSUME NEW v, Gives(v), v = Evaluation(op, args) PROVE Evaluated'
    BY <2>2, Zenon DEF Gives, Evaluated
  <2>3. CASE EvalArithmetic
    BY <2>2, <2>3, Zenon DEF EvalArithmetic, Evaluation
  <2>4. CASE EvalComparison
    <3>1. op \notin Arithmetic
      BY <2>4 DEF EvalComparison, Comparisons, Arithmetic
    <3> QED BY <2>2, <2>4, <3>1, Zenon DEF EvalComparison, Evaluation
  <2>5. CASE EvalMinus
    <3>1. op = "minus" /\ op \notin Arithmetic /\ op \notin Comparisons
      BY <2>5 DEF EvalMinus, Comparisons, Arithmetic
    <3> QED BY <2>2, <2>5, <3>1, Zenon DEF EvalMinus, Evaluation
  <2>6. CASE EvalNot
    <3>1. op = "NOT" /\ op \notin Arithmetic /\ op \notin Comparisons /\ op # "minus"
      BY <2>6 DEF EvalNot, Comparisons, Arithmetic
    <3> QED BY <2>2, <2>6, <3>1, Zenon DEF EvalNot, Evaluation
  <2>7. CASE EvalFunction
    <3>1. op \notin Arithmetic /\ op \notin Comparisons /\ op \notin {"minus", "NOT"}
      BY <2>7 DEF EvalFunction, Comparisons, Arithmetic, Unary, Binary, Ternary
    <3> QED BY <2>2, <2>7, <3>1, Zenon DEF EvalFunction, Evaluation
  <2> QED BY <2>1, <2>3, <2>4, <2>5, <2>6, <2>7 DEF Next
<1> QED BY <1>1, <1>2, PTL DEF Spec

-----------------------------------------------------------------------------
(* Integers and numbers.                                                   *)

(* The range of the integers.                                              *)
LEMMA Bounds ==
  /\ IntMax \in Nat /\ IntMin = -IntMax - 1 /\ IntMin \in Int
  /\ \A n : n \in IntRange <=> n \in Int /\ IntMin <= n /\ n <= IntMax
  /\ 0 \in IntRange /\ -1 \in IntRange
  BY IntMaxAssumption DEF IntMin, IntRange

(* What remains of a number is an integer, which it is if it fits, and     *)
(* differs from it by a multiple of the number of all integers.            *)
LEMMA WrapIs ==
  ASSUME NEW n \in Int
  PROVE  /\ Wrap(n) \in IntRange
         /\ n \in IntRange => Wrap(n) = n
         /\ \E k \in Int : Wrap(n) = n + k * (2 * (IntMax + 1))
<1> DEFINE M == 2 * (IntMax + 1)
           a == n - IntMin
<1>1. M \in Nat \ {0} /\ a \in Int
  BY Bounds
<1>2. Wrap(n) = (a % M) + IntMin
  BY DEF Wrap
<1>3. IntMin + M = IntMax + 1
  BY Bounds
<1> HIDE DEF M
<1>4. (a % M) \in 0..(M - 1) /\ (a \div M) \in Int /\ a = M * (a \div M) + (a % M)
  BY <1>1
<1>5. Wrap(n) \in IntRange
  BY <1>2, <1>3, <1>4, <1>1, Bounds
<1>6. ASSUME n \in IntRange PROVE Wrap(n) = n
  <2>1. a \in 0..(M - 1)
    BY <1>6, <1>1, <1>3, Bounds
  <2>2. (a % M) = a
    BY <2>1, <1>1
  <2> QED BY <2>2, <1>2, Bounds
<1>7. Wrap(n) = n + (-(a \div M)) * M
  <2> DEFINE q == a \div M
             r == a % M
  <2>1. q \in Int /\ r \in Int /\ a = M * q + r /\ Wrap(n) = r + IntMin
    BY <1>2, <1>4
  <2>2. n = a + IntMin
    BY Bounds
  <2>3. (-q) * M = -(M * q) /\ M * q \in Int
    <3> HIDE DEF q, r, a
    <3> QED BY <2>1, <1>1
  <2> HIDE DEF q, r, a
  <2>4. Wrap(n) = n + (-q) * M
    BY <2>1, <2>2, <2>3, <1>1, Bounds
  <2> QED BY <2>4 DEF q
<1>8. -(a \div M) \in Int
  BY <1>4
<1> QED BY <1>5, <1>6, <1>7, <1>8 DEF M

(* A magnitude is a count, and zero only for zero.                         *)
LEMMA MagnitudeIs ==
  ASSUME NEW n \in Int
  PROVE  /\ Magnitude(n) \in Nat
         /\ n >= 0 => Magnitude(n) = n
         /\ n < 0 => Magnitude(n) = -n
         /\ Magnitude(n) = 0 <=> n = 0
  BY DEF Magnitude

(* Division towards zero, and its remainder.                               *)
LEMMA DivisionIs ==
  ASSUME NEW n \in Int, NEW d \in Int, d # 0
  PROVE  /\ Quotient(n, d) \in Int /\ Remainder(n, d) \in Int
         /\ n = Quotient(n, d) * d + Remainder(n, d)
         /\ Magnitude(Remainder(n, d)) < Magnitude(d)
         /\ Remainder(n, d) = 0 \/ (Remainder(n, d) < 0) = (n < 0)
         /\ Magnitude(Quotient(n, d)) <= Magnitude(n)
         /\ n < 0 /\ d < 0 => Quotient(n, d) = (-n) \div (-d)
         /\ Remainder(n, d) = 0 <=> (n % Magnitude(d)) = 0
<1> DEFINE a == Magnitude(n)
           b == Magnitude(d)
           q == a \div b
           r == a % b
<1>1. a \in Nat /\ b \in Nat \ {0}
  BY MagnitudeIs
<1>2. q \in Nat /\ r \in 0..(b - 1) /\ a = b * q + r
  <2> HIDE DEF a, b
  <2> QED BY <1>1
<1>3. Quotient(n, d) = IF (n < 0) = (d < 0) THEN q ELSE -q
  BY DEF Quotient
<1>4. Remainder(n, d) = n - d * Quotient(n, d)
  BY DEF Remainder
<1>5. /\ n = IF n < 0 THEN -a ELSE a
      /\ d = IF d < 0 THEN -b ELSE b
  BY MagnitudeIs
<1>6. b * q \in Nat /\ (-b) * q = -(b * q) /\ b * (-q) = -(b * q) /\ (-b) * (-q) = b * q
  <2> HIDE DEF a, b, q
  <2> QED BY <1>1, <1>2
<1>7. q <= a
  <2>1. b * q >= q
    <3> HIDE DEF a, b, q
    <3> QED BY <1>1, <1>2
  <2> HIDE DEF a, b, q, r
  <2> QED BY <1>1, <1>2, <1>6, <2>1
<1> HIDE DEF a, b, q, r
<1>8. d * Quotient(n, d) = (IF n < 0 THEN -(b * q) ELSE b * q)
  <2>1. CASE n < 0 /\ d < 0
    BY <2>1, <1>3, <1>5, <1>6
  <2>2. CASE n < 0 /\ ~(d < 0)
    <3>1. Quotient(n, d) = -q /\ d = b
      BY <2>2, <1>3, <1>5
    <3> QED BY <2>2, <1>6, <3>1
  <2>3. CASE ~(n < 0) /\ d < 0
    <3>1. Quotient(n, d) = -q /\ d = -b
      BY <2>3, <1>3, <1>5
    <3> QED BY <2>3, <1>6, <3>1
  <2>4. CASE ~(n < 0) /\ ~(d < 0)
    BY <2>4, <1>3, <1>5, <1>6
  <2> QED BY <2>1, <2>2, <2>3, <2>4
<1>9. Remainder(n, d) = IF n < 0 THEN 0 - r ELSE r
  BY <1>1, <1>2, <1>4, <1>5, <1>6, <1>8
<1>10. Quotient(n, d) \in Int /\ Remainder(n, d) \in Int
  BY <1>2, <1>3, <1>9
<1>11. n = Quotient(n, d) * d + Remainder(n, d)
  <2>1. Quotient(n, d) * d = d * Quotient(n, d)
    BY <1>10
  <2> QED BY <2>1, <1>8, <1>9, <1>1, <1>2, <1>5, <1>6
<1>12. Magnitude(Remainder(n, d)) = r
  BY <1>2, <1>9 DEF Magnitude
<1>13. Magnitude(Quotient(n, d)) <= Magnitude(n)
  BY <1>1, <1>2, <1>3, <1>7 DEF Magnitude, a
<1>14. n < 0 /\ d < 0 => Quotient(n, d) = (-n) \div (-d)
  <2>1. n < 0 /\ d < 0 => a = -n /\ b = -d
    BY <1>1, <1>5
  <2> QED BY <2>1, <1>3 DEF q
<1>15. Remainder(n, d) = 0 <=> (n % b) = 0
  <2>1. CASE ~(n < 0)
    BY <2>1, <1>5, <1>9, <1>2 DEF r
  <2>2. CASE n < 0
    <3>1. n = b * (-q) + (-r)
      BY <2>2, <1>1, <1>2, <1>5, <1>6
    <3>2. CASE r = 0
      <4>1. n = b * (-q) + 0 /\ -q \in Int /\ 0 \in 0..(b - 1)
        BY <3>1, <3>2, <1>1, <1>2
      <4> DEFINE p == -q
      <4> HIDE DEF p
      <4>2. p \in Int /\ n = b * p + 0
        BY <4>1 DEF p
      <4>3. (n % b) = 0
        BY <4>2, <1>1
      <4>4. 0 - r = 0
        BY <3>2, <1>2
      <4> QED BY <4>3, <4>4, <2>2, <1>9
    <3>3. CASE r # 0
      <4> DEFINE p == -q - 1
                 s == b - r
      <4>1. p \in Int /\ b * p = b * (-q) - b
        BY <1>1, <1>2
      <4>2. n = b * p + s /\ s \in 1..(b - 1)
        BY <4>1, <3>1, <3>3, <1>1, <1>2, <1>6
      <4> HIDE DEF p, s
      <4>3. (n % b) = s
        BY <4>1, <4>2, <1>1
      <4> QED BY <4>2, <4>3, <3>3, <2>2, <1>2, <1>9
    <3> QED BY <3>2, <3>3
  <2> QED BY <2>1, <2>2
<1>16. Magnitude(Remainder(n, d)) < Magnitude(d)
  BY <1>1, <1>2, <1>12 DEF b
<1>17. Remainder(n, d) = 0 \/ (Remainder(n, d) < 0) = (n < 0)
  BY <1>2, <1>9
<1> QED BY <1>10, <1>11, <1>13, <1>14, <1>15, <1>16, <1>17, Zenon DEF b

(* A quotient of integers is one, but for the smallest over -1.            *)
LEMMA QuotientFits ==
  ASSUME NEW n \in IntRange, NEW d \in IntRange, d # 0, ~(n = IntMin /\ d = -1)
  PROVE  Quotient(n, d) \in IntRange /\ Remainder(n, d) \in IntRange
<1> DEFINE q == Quotient(n, d)
           r == Remainder(n, d)
<1>1. n \in Int /\ d \in Int
  BY Bounds
<1>2. q \in Int /\ r \in Int /\ Magnitude(q) <= Magnitude(n) /\ Magnitude(r) < Magnitude(d) /\ n = q * d + r
  BY <1>1, DivisionIs
<1> HIDE DEF q, r
<1>3. r \in IntRange
  BY <1>1, <1>2, MagnitudeIs, Bounds
<1>4. ASSUME q \notin IntRange PROVE FALSE
  <2>1. n = IntMin /\ q = -IntMin
    BY <1>1, <1>2, <1>4, MagnitudeIs, Bounds
  <2>2. d # -1 /\ q = IntMax + 1 /\ q > 0
    BY <2>1, Bounds
  <2>3. CASE d >= 1
    <3>1. q * d >= q
      BY <2>2, <2>3, <1>1, <1>2
    <3>2. r = n - q * d /\ q * d \in Int
      BY <1>1, <1>2
    <3>3. Magnitude(r) = -n + q * d /\ Magnitude(d) = d
      BY <3>1, <3>2, <2>1, <2>2, <2>3, <1>1, <1>2, MagnitudeIs, Bounds
    <3>4. q * d >= d
      BY <2>2, <2>3, <1>1, <1>2
    <3> QED BY <3>2, <3>3, <3>4, <1>1, <1>2, <2>1, Bounds
  <2>4. CASE d <= -2
    <3> DEFINE e == -d - 1
    <3>1. e \in Nat \ {0} /\ d = -1 - e
      BY <2>4, <1>1
    <3> HIDE DEF e
    <3>2. q * d = -q - q * e /\ q * e >= e
      BY <3>1, <2>2, <1>2
    <3>3. r = q * e /\ q * e \in Nat /\ q * e >= e /\ q * e >= q
      BY <3>1, <3>2, <1>1, <1>2, <2>1, <2>2, Bounds
    <3>4. Magnitude(r) = q * e /\ Magnitude(d) = 1 + e
      BY <3>1, <3>3, MagnitudeIs, <1>1
    <3>5. q * e < 1 + e
      BY <3>4, <1>2
    <3>6. q * e = e
      BY <3>1, <3>3, <3>5
    <3>7. q = 1
      BY <3>1, <3>6, <1>2, <2>2
    <3>8. IntMin = -1 /\ IntMax = 0
      BY <3>7, <2>2, <2>1, Bounds
    <3> QED BY <2>4, <3>8, <1>1, Bounds
  <2> QED BY <2>2, <2>3, <2>4, <1>1
<1> QED BY <1>3, <1>4 DEF q, r

-----------------------------------------------------------------------------
(* Operands.                                                               *)

(* An operand is an integer, a float or a string, and only one of these.   *)
LEMMA OperandIs ==
  ASSUME NEW v \in Operand
  PROVE  \/ /\ value_is_int(v) /\ ~value_is_float(v) /\ ~value_is_string(v)
            /\ v.num \in IntRange /\ v.den = 1 /\ v = value_int_new(v.num)
         \/ /\ value_is_float(v) /\ ~value_is_int(v) /\ ~value_is_string(v)
            /\ v.num \in Int /\ v.den \in Nat \ {0} /\ v = value_float_new(v.num, v.den)
         \/ /\ value_is_string(v) /\ ~value_is_int(v) /\ ~value_is_float(v)
            /\ v.str \in Seq(1..(Byte - 1)) /\ Len(v.str) <= IntMax
            /\ v = value_string_new(v.str)
<1> USE DEF value_is_int, value_is_float, value_is_string
<1>1. CASE v \in [type : {"int"}, num : IntRange, den : {1}]
  BY <1>1 DEF value_int_new
<1>2. CASE v \in [type : {"float"}, num : Int, den : Nat \ {0}]
            /\ v = value_float_new(v.num, v.den)
  BY <1>2
<1>3. CASE v \in [type : {"string"}, str : Seq(1..(Byte - 1))] /\ Len(v.str) <= IntMax
  BY <1>3 DEF value_string_new
<1> QED BY <1>1, <1>2, <1>3 DEF Operand

(* A number that is an operand.                                            *)
Number(v) == v \in Operand /\ value_is_numeric(v)
Text(v) == v \in Operand /\ value_is_string(v)

(* A number is an integer, or a fraction in lowest terms.                  *)
LEMMA NumberIs ==
  ASSUME NEW v, Number(v)
  PROVE  /\ v.num \in Int /\ v.den \in Nat \ {0} /\ ~value_is_string(v)
         /\ value_is_int(v) \/ value_is_float(v)
         /\ value_is_int(v) => v.num \in IntRange /\ v.den = 1 /\ v = value_int_new(v.num)
         /\ value_is_float(v) => v = value_float_new(v.num, v.den)
<1>1. v \in Operand /\ (value_is_float(v) \/ value_is_int(v))
  BY DEF Number, value_is_numeric
<1>2. IntRange \subseteq Int /\ 1 \in Nat \ {0}
  BY Bounds
<1> QED BY <1>1, <1>2, OperandIs, Zenon

(* An operand that is no string is a number.                               *)
LEMMA NumberOrText ==
  ASSUME NEW v \in Operand
  PROVE  /\ Number(v) <=> ~value_is_string(v)
         /\ Text(v) <=> value_is_string(v)
         /\ Number(v) <=> value_is_numeric(v)
<1>1. value_is_int(v) \/ value_is_float(v) <=> ~value_is_string(v)
  BY OperandIs, Zenon
<1> QED BY <1>1, Zenon DEF Number, Text, value_is_numeric

(* Every number makes an integer.                                          *)
LEMMA IntegerOf ==
  ASSUME NEW v, Number(v)
  PROVE  /\ value_int(v) \in IntRange
         /\ value_is_int(v) => value_int(v) = v.num
         /\ v.num = 0 => value_int(v) = 0
<1> DEFINE n == v.num
           d == v.den
<1>1. n \in Int /\ d \in Nat \ {0} /\ (value_is_int(v) => n \in IntRange /\ d = 1)
  BY NumberIs
<1>2. value_int(v) = IF Quotient(n, d) \in IntRange THEN Quotient(n, d) ELSE IntMin
  BY DEF value_int
<1> HIDE DEF n, d
<1>3. d \in Int /\ d # 0 /\ IntMin \in IntRange /\ 0 \in IntRange
  BY <1>1, Bounds
<1> DEFINE q == Quotient(n, d)
           r == Remainder(n, d)
<1>4. q \in Int /\ r \in Int /\ n = q * d + r /\ Magnitude(r) < Magnitude(d) /\ Magnitude(q) <= Magnitude(n)
  BY <1>1, <1>3, DivisionIs
<1> HIDE DEF q, r
<1>5. d = 1 => q = n
  <2>1. d = 1 => Magnitude(r) < 1
    BY <1>4, MagnitudeIs
  <2>2. d = 1 => r = 0
    BY <2>1, <1>4, MagnitudeIs
  <2> QED BY <2>2, <1>4, <1>1
<1>6. n = 0 => q = 0
  BY <1>4, <1>1, MagnitudeIs
<1> QED BY <1>1, <1>2, <1>3, <1>5, <1>6 DEF q, n

-----------------------------------------------------------------------------
(* DIV and MOD.                                                            *)

(* On numbers they are the division of the integers the operands make.     *)
LEMMA IntegralIs ==
  ASSUME NEW t \in Integral, NEW l, Number(l), NEW r, Number(r)
  PROVE  Arith(t, l, r) =
           IF t \in {"DIV", "MOD"} /\ r.num = 0 THEN Error("division by zero")
           ELSE IntegralOp(t, value_int(l), value_int(r))
<1>1. t \notin {"+", "-", "*", "/", "^"}
  BY DEF Integral
<1>2. /\ ~value_is_string(l) /\ ~value_is_string(r)
      /\ value_is_numeric(l) /\ value_is_numeric(r)
      /\ value_is_int(l) => l.num = value_int(l)
      /\ value_is_int(r) => r.num = value_int(r)
  BY NumberIs, IntegerOf, Zenon DEF Number
<1>3. value_is_int(l) /\ value_is_int(r)
        => IntArith(t, l, r) = IntegralOp(t, value_int(l), value_int(r))
  BY <1>1, <1>2 DEF IntArith
<1>4. FloatArith(t, l, r) = IntegralOp(t, value_int(l), value_int(r))
  BY <1>1 DEF FloatArith
<1>5. value_is_zero(r) = (r.num = 0)
  BY <1>2, Zenon DEF value_is_zero
<1>6. Arith(t, l, r) =
        IF t \in {"/", "DIV", "MOD"} /\ value_is_zero(r) THEN Error("division by zero")
        ELSE IF value_is_int(l) /\ value_is_int(r) THEN IntArith(t, l, r)
        ELSE FloatArith(t, l, r)
  BY <1>2, Zenon DEF Arith, expr_eval_op_binary_arith
<1>7. t \in {"/", "DIV", "MOD"} <=> t \in {"DIV", "MOD"}
  BY <1>1
<1> QED BY <1>3, <1>4, <1>5, <1>6, <1>7, Zenon

(* What the division of two integers gives.                                *)
LEMMA DivideIs ==
  ASSUME NEW n \in IntRange, NEW m \in IntRange
  PROVE  /\ \A t \in {"DIV", "MOD"} :
              Divide(t, n, m) = Trap <=> (m = 0 \/ (n = IntMin /\ m = -1))
         /\ \A t \in {"DIV", "MOD"} : Divide(t, n, m) # Trap =>
              Divide(t, n, m) = value_int_new(IF t = "DIV" THEN Quotient(n, m) ELSE Remainder(n, m))
  BY DEF Divide, Trap, value_int_new

(* DIV and MOD belong together, of all numbers, and neither gives an       *)
(* error nor kills the process but for the divisors named (expr_ops.c,     *)
(* the integral operators).                                                *)
THEOREM DivisionIsConsistent == Spec => []DivisionAgrees
<1>1. Evaluated => DivisionAgrees
  <2> SUFFICES ASSUME Evaluated, op \in {"DIV", "MOD"}, Done, Numbers
               PROVE  DivisionAgrees
    BY Zenon DEF DivisionAgrees
  <2> DEFINE l == args[1]
             r == args[2]
             n == value_int(l)
             m == value_int(r)
  <2>1. op \in Integral /\ op \in Arithmetic
    BY DEF Integral, Arithmetic
  <2>2. Arity(op) = 2
    BY DEF Arity, Ternary, Unary
  <2>3. DOMAIN args = 1..2 /\ l \in Operand /\ r \in Operand
    BY <2>2 DEF Evaluated
  <2>4. Number(l) /\ Number(r)
    <3>1. 1 \in DOMAIN args /\ 2 \in DOMAIN args
      BY <2>3
    <3> QED BY <2>3, <3>1, Zenon DEF Number, Numbers
  <2>5. result = Arith(op, l, r)
    BY <2>1, Zenon DEF Evaluated, Done, Evaluation, Arith
  <2>6. n \in IntRange /\ m \in IntRange /\ (r.num = 0 => m = 0)
    BY <2>4, IntegerOf, Zenon
  <2>7. \A t \in {"DIV", "MOD"} :
          Arith(t, l, r) = IF r.num = 0 THEN Error("division by zero") ELSE Divide(t, n, m)
    <3> SUFFICES ASSUME NEW t \in {"DIV", "MOD"}
                 PROVE  Arith(t, l, r) =
                          IF r.num = 0 THEN Error("division by zero") ELSE Divide(t, n, m)
      OBVIOUS
    <3>1. t \in Integral
      BY DEF Integral
    <3> QED BY <3>1, <2>4, IntegralIs, Zenon DEF IntegralOp
  <2> DEFINE q == Arith("DIV", l, r)
             s == Arith("MOD", l, r)
  <2>8. DivisionAgrees =
          (/\ result.type = "error" <=> r.num = 0
           /\ result = Trap <=> r.num # 0 /\ (m = 0 \/ (n = IntMin /\ m = -1))
           /\ HasValue =>
                /\ q.num * m + s.num = n
                /\ Magnitude(s.num) < Magnitude(m)
                /\ s.num = 0 \/ (s.num < 0) = (n < 0))
    BY Zenon DEF DivisionAgrees
  <2> HIDE DEF l, r, n, m, q, s
  <2>9. CASE r.num = 0
    <3>1. result = Error("division by zero")
      BY <2>5, <2>7, <2>9
    <3>2. result.type = "error" /\ result # Trap /\ ~HasValue
      BY <3>1 DEF Error, Trap, HasValue
    <3> QED BY <3>2, <2>8, <2>9
  <2>10. CASE r.num # 0 /\ (m = 0 \/ (n = IntMin /\ m = -1))
    <3>1. result = Trap
      BY <2>5, <2>6, <2>7, <2>10, DivideIs
    <3>2. result.type # "error" /\ ~HasValue
      BY <3>1 DEF Trap, HasValue
    <3> QED BY <3>1, <3>2, <2>8, <2>10
  <2>11. CASE r.num # 0 /\ ~(m = 0 \/ (n = IntMin /\ m = -1))
    <3>1. q = value_int_new(Quotient(n, m)) /\ s = value_int_new(Remainder(n, m))
      BY <2>6, <2>7, <2>11, DivideIs DEF q, s
    <3>2. result = q \/ result = s
      BY <2>5 DEF q, s
    <3>3. result.type # "error" /\ result # Trap
      BY <3>1, <3>2 DEF value_int_new, Trap
    <3>4. q.num = Quotient(n, m) /\ s.num = Remainder(n, m)
      BY <3>1 DEF value_int_new
    <3>5. n \in Int /\ m \in Int /\ m # 0
      BY <2>6, <2>11, Bounds
    <3>6. /\ q.num * m + s.num = n
          /\ Magnitude(s.num) < Magnitude(m)
          /\ s.num = 0 \/ (s.num < 0) = (n < 0)
      BY <3>4, <3>5, DivisionIs
    <3> QED BY <3>3, <3>6, <2>8, <2>11
  <2> QED BY <2>9, <2>10, <2>11
<1> QED BY <1>1, EvaluatedHolds, PTL

-----------------------------------------------------------------------------
(* Functions.                                                              *)

Bytes == 1..(Byte - 1)

(* The sizes of a byte and of a size_t.                                    *)
LEMMA Sizes ==
  /\ Byte \in Nat /\ Byte >= 2 /\ Byte <= IntMax + 1
  /\ SizeMod \in Nat /\ 2 * (IntMax + 1) <= SizeMod /\ IntMax >= 1
  BY SizesAssumption, Bounds

(* A count keeps its value as a size_t, and a negative one becomes larger  *)
(* than every length.                                                      *)
LEMMA SizeIs ==
  ASSUME NEW n \in Int
  PROVE  /\ n \in 0..(SizeMod - 1) => size_t(n) = n
         /\ n \in IntRange /\ n < 0 => size_t(n) = SizeMod + n
         /\ size_t(n) \in 0..(SizeMod - 1)
<1> DEFINE M == SizeMod
<1>1. M \in Nat \ {0} /\ size_t(n) = (n % M)
  BY Sizes, Bounds DEF size_t
<1>2. n \in IntRange /\ n < 0 => n = M * (-1) + (M + n) /\ M + n \in 0..(M - 1)
  BY Sizes, Bounds
<1> HIDE DEF M
<1>3. n \in 0..(M - 1) => (n % M) = n
  BY <1>1
<1>4. (n % M) \in 0..(M - 1)
  BY <1>1
<1>5. ASSUME n \in IntRange, n < 0 PROVE (n % M) = M + n
  <2> DEFINE r == M + n
             q == -1
  <2>1. n = M * q + r /\ r \in 0..(M - 1) /\ q \in Int
    BY <1>2, <1>5
  <2> HIDE DEF r, q
  <2>2. (n % M) = r
    BY <2>1, <1>1
  <2> QED BY <2>2 DEF r
<1> QED BY <1>1, <1>3, <1>4, <1>5 DEF M

(* An integer made of an argument is a number of that value.               *)
LEMMA WholeIs ==
  ASSUME NEW n \in IntRange
  PROVE  /\ Number(Whole(n)) /\ value_is_int(Whole(n)) /\ ~value_is_string(Whole(n))
         /\ value_int(Whole(n)) = n /\ Whole(n).num = n
<1>1. Whole(n) \in Operand /\ value_is_int(Whole(n)) /\ Whole(n).num = n
  BY Bounds DEF Whole, value_int_new, value_is_int, Operand
<1>2. ~value_is_string(Whole(n)) /\ Number(Whole(n))
  BY <1>1, OperandIs, NumberOrText, Zenon
<1> QED BY <1>1, <1>2, IntegerOf, Zenon

(* A string is made of bytes that are not zero, and LEN can count them.    *)
LEMMA TextIs ==
  ASSUME NEW v, Text(v)
  PROVE  /\ v.str \in Seq(Bytes) /\ Len(v.str) \in 0..IntMax
         /\ v = value_string_new(v.str) /\ value_is_string(v)
         /\ ~value_is_int(v) /\ ~value_is_float(v)
<1>1. /\ v.str \in Seq(Bytes) /\ Len(v.str) <= IntMax /\ v = value_string_new(v.str)
      /\ value_is_string(v) /\ ~value_is_int(v) /\ ~value_is_float(v)
  BY OperandIs, Zenon DEF Text, Bytes
<1>2. Len(v.str) \in Nat
  BY <1>1, LenProperties
<1> QED BY <1>1, <1>2, Bounds

(* A function has a value, or any outcome but the error of a wrong         *)
(* operand, only if all operands are of the types it wants.                *)
LEMMA FunctionIs ==
  ASSUME NEW t, NEW a
  PROVE  /\ \/ Function(t, a) = Error("type mismatch")
            \/ \A i \in DOMAIN a : Suits(a[i], Wanted(t)[i])
         /\ (\A i \in DOMAIN a : Suits(a[i], Wanted(t)[i])) =>
              Function(t, a) =
                CASE t \in Unary -> UnaryFunction(t, a[1])
                  [] t = "LEFT$" -> expr_eval_func_lefts(a[1].str, a[2])
                  [] t = "RIGHT$" -> expr_eval_func_rights(a[1].str, a[2])
                  [] t = "STRING$" -> expr_eval_func_strings(a[1].str, a[2])
                  [] t = "MID$" -> expr_eval_func_mids(a[1].str, a[2], a[3])
                  [] t = "INSTR" -> expr_eval_func_instr(a[1].str, a[2].str, a[3])
  BY Zenon DEF Function

(* The types that the functions want of their operands.                    *)
LEMMA WantedIs ==
  /\ \A t \in Binary : Wanted(t) = <<"string", "number">>
  /\ Wanted("MID$") = <<"string", "number", "number">>
  /\ Wanted("INSTR") = <<"string", "string", "number">>
  BY DEF Wanted, Binary, Unary

(* The functions of two and three operands, on operands that suit.         *)
LEMMA BinaryIs ==
  ASSUME NEW t \in Binary, NEW a, DOMAIN a = 1..2
  PROVE  /\ \/ Function(t, a) = Error("type mismatch")
            \/ value_is_string(a[1]) /\ ~value_is_string(a[2])
         /\ value_is_string(a[1]) /\ ~value_is_string(a[2]) =>
              Function(t, a) =
                IF t = "LEFT$" THEN expr_eval_func_lefts(a[1].str, a[2])
                ELSE IF t = "RIGHT$" THEN expr_eval_func_rights(a[1].str, a[2])
                ELSE expr_eval_func_strings(a[1].str, a[2])
<1>1. Wanted(t)[1] = "string" /\ Wanted(t)[2] = "number"
  BY WantedIs
<1>2. (\A i \in DOMAIN a : Suits(a[i], Wanted(t)[i]))
        <=> value_is_string(a[1]) /\ ~value_is_string(a[2])
  <2>1. Suits(a[1], Wanted(t)[1]) <=> value_is_string(a[1])
    BY <1>1 DEF Suits, value_is_string
  <2>2. Suits(a[2], Wanted(t)[2]) <=> ~value_is_string(a[2])
    BY <1>1 DEF Suits, value_is_string
  <2>3. DOMAIN a = {1, 2}
    OBVIOUS
  <2> QED BY <2>1, <2>2, <2>3
<1>3. t \notin Unary /\ t \in {"LEFT$", "RIGHT$", "STRING$"}
  BY DEF Unary, Binary
<1> QED BY <1>2, <1>3, FunctionIs

(* MID$ of a string and two numbers.                                       *)
LEMMA MidsIs ==
  ASSUME NEW a, DOMAIN a = 1..3,
         value_is_string(a[1]), ~value_is_string(a[2]), ~value_is_string(a[3])
  PROVE  Function("MID$", a) = expr_eval_func_mids(a[1].str, a[2], a[3])
<1>1. \A i \in DOMAIN a : Suits(a[i], Wanted("MID$")[i])
  <2>1. \A i \in {1, 2, 3} : Suits(a[i], Wanted("MID$")[i])
    BY WantedIs DEF Suits, value_is_string
  <2>2. DOMAIN a = {1, 2, 3}
    OBVIOUS
  <2> QED BY <2>1, <2>2, Zenon
<1>2. "MID$" \notin Unary
  BY DEF Unary
<1> QED BY <1>1, <1>2, FunctionIs

(* INSTR has a value only for two strings and a number.                    *)
LEMMA InstrIs ==
  ASSUME NEW a, DOMAIN a = 1..3
  PROVE  /\ \/ Function("INSTR", a) = Error("type mismatch")
            \/ value_is_string(a[1]) /\ value_is_string(a[2]) /\ ~value_is_string(a[3])
         /\ value_is_string(a[1]) /\ value_is_string(a[2]) /\ ~value_is_string(a[3]) =>
              Function("INSTR", a) = expr_eval_func_instr(a[1].str, a[2].str, a[3])
<1>1. (\A i \in DOMAIN a : Suits(a[i], Wanted("INSTR")[i]))
        <=> value_is_string(a[1]) /\ value_is_string(a[2]) /\ ~value_is_string(a[3])
  <2> DEFINE w == Wanted("INSTR")
  <2>1. w[1] = "string" /\ w[2] = "string" /\ w[3] = "number"
    BY WantedIs
  <2>2. /\ Suits(a[1], w[1]) <=> value_is_string(a[1])
        /\ Suits(a[2], w[2]) <=> value_is_string(a[2])
        /\ Suits(a[3], w[3]) <=> ~value_is_string(a[3])
    BY <2>1 DEF Suits, value_is_string
  <2> HIDE DEF w
  <2>3. DOMAIN a = {1, 2, 3}
    OBVIOUS
  <2>4. (\A i \in DOMAIN a : Suits(a[i], w[i]))
          <=> Suits(a[1], w[1]) /\ Suits(a[2], w[2]) /\ Suits(a[3], w[3])
    BY <2>3, Zenon
  <2> QED BY <2>2, <2>4, Zenon DEF w
<1>2. "INSTR" \notin Unary
  BY DEF Unary
<1> QED BY <1>1, <1>2, FunctionIs

-----------------------------------------------------------------------------
(* The string functions.                                                   *)

(* The smaller of two numbers.                                             *)
Smaller(i, j) == IF i < j THEN i ELSE j

(* What Cut gives of a string.                                             *)
LEMMA CutIs ==
  ASSUME NEW s \in Seq(Bytes), NEW i \in 0..Len(s), NEW n \in Nat
  PROVE  /\ Cut(s, i, n) = SubSeq(s, i + 1, Smaller(i + n, Len(s)))
         /\ Cut(s, i, n) \in Seq(Bytes)
         /\ Len(Cut(s, i, n)) = Smaller(i + n, Len(s)) - i
<1> DEFINE e == Smaller(i + n, Len(s))
<1>1. Len(s) \in Nat
  BY LenProperties
<1>2. e \in i..Len(s)
  BY <1>1 DEF Smaller
<1>3. Cut(s, i, n) = SubSeq(s, i + 1, e)
  BY DEF Cut, Smaller
<1> HIDE DEF e
<1>4. \A j \in (i + 1)..e : s[j] \in Bytes
  BY <1>1, <1>2, ElementOfSeq
<1>5. i + 1 \in Int /\ e \in Int
  BY <1>1, <1>2
<1>6. /\ SubSeq(s, i + 1, e) \in Seq(Bytes)
      /\ Len(SubSeq(s, i + 1, e)) = IF i + 1 <= e THEN e - (i + 1) + 1 ELSE 0
  BY <1>4, <1>5, SubSeqProperties
<1>7. Len(SubSeq(s, i + 1, e)) = e - i
  BY <1>1, <1>2, <1>6
<1> QED BY <1>3, <1>6, <1>7 DEF e

(* MID$ of whole numbers cuts the string.                                  *)
LEMMA MidIs ==
  ASSUME NEW v, Text(v), NEW i \in 1..IntMax, NEW n \in 0..IntMax
  PROVE  Mid(v, i, n) = value_string_new(Cut(v.str, Smaller(i - 1, Len(v.str)), n))
<1> DEFINE s == v.str
           k == Smaller(i - 1, Len(s))
           a == <<v, Whole(i), Whole(n)>>
<1>1. s \in Seq(Bytes) /\ Len(s) \in 0..IntMax /\ value_is_string(v)
  BY TextIs
<1>2. i \in IntRange /\ n \in IntRange /\ i \in 0..(SizeMod - 1) /\ n \in 0..(SizeMod - 1)
  BY Sizes, Bounds
<1>3. /\ value_int(a[2]) = i /\ value_int(a[3]) = n
      /\ ~value_is_string(a[2]) /\ ~value_is_string(a[3])
  <2>1. a[2] = Whole(i) /\ a[3] = Whole(n)
    OBVIOUS
  <2> HIDE DEF a
  <2> QED BY <2>1, <1>2, WholeIs
<1>4. Mid(v, i, n) = expr_eval_func_mids(s, a[2], a[3])
  <2>1. DOMAIN a = 1..3 /\ a[1] = v
    OBVIOUS
  <2>2. Mid(v, i, n) = Function("MID$", a)
    BY DEF Mid
  <2> HIDE DEF a
  <2> QED BY <2>1, <2>2, <1>1, <1>3, MidsIs
<1>5. size_t(i) = i /\ size_t(n) = n
  BY <1>2, SizeIs
<1> HIDE DEF a
<1>6. expr_eval_func_mids(s, a[2], a[3]) =
        LET start == IF i > Len(s) THEN Len(s) ELSE IF i # 0 THEN i - 1 ELSE 0
        IN  IF size_t(start + n) >= Len(s) THEN value_string_new(Cut(s, start, Len(s)))
            ELSE IF n > Len(s) - start THEN Overrun
            ELSE value_string_new(Cut(s, start, n))
  BY <1>3, <1>5 DEF expr_eval_func_mids
<1>7. k = (IF i > Len(s) THEN Len(s) ELSE IF i # 0 THEN i - 1 ELSE 0) /\ k \in 0..Len(s)
  BY <1>1, Bounds DEF Smaller
<1>8. size_t(k + n) = k + n
  <2>1. k + n \in 0..(SizeMod - 1) /\ k + n \in Int
    BY <1>1, <1>7, Sizes, Bounds
  <2> QED BY <2>1, SizeIs
<1> HIDE DEF k, s
<1>9. Mid(v, i, n) = IF k + n >= Len(s) THEN value_string_new(Cut(s, k, Len(s)))
                     ELSE IF n > Len(s) - k THEN Overrun
                     ELSE value_string_new(Cut(s, k, n))
  BY <1>4, <1>6, <1>7, <1>8
<1>10. ~(k + n >= Len(s)) => ~(n > Len(s) - k)
  BY <1>1, <1>7
<1>11. k + n >= Len(s) => Cut(s, k, Len(s)) = Cut(s, k, n)
  <2>1. k + n >= Len(s) => ~(k + n < Len(s)) /\ ~(k + Len(s) < Len(s))
    BY <1>1, <1>7
  <2> QED BY <2>1, Zenon DEF Cut
<1> QED BY <1>9, <1>10, <1>11 DEF k, s

(* Copies of a string: one more adds the string once.                      *)
LEMMA CopiesIs ==
  ASSUME NEW s \in Seq(Bytes), NEW n \in Nat
  PROVE  /\ Copies(n, s) \in Seq(Bytes) /\ Len(Copies(n, s)) = n * Len(s)
         /\ Copies(n + 1, s) = Copies(n, s) \o s
<1> DEFINE L == Len(s)
           at(i) == ((i - 1) % L) + 1
<1>1. L \in Nat /\ \A i \in 1..L : s[i] \in Bytes
  BY LenProperties, ElementOfSeq
<1>2. ASSUME NEW m \in Nat
      PROVE  m * L \in Nat /\ \A i \in 1..(m * L) : at(i) \in 1..L
  <2>1. m * L \in Nat
    <3> HIDE DEF L
    <3> QED BY <1>1
  <2>2. ASSUME NEW i \in 1..(m * L) PROVE at(i) \in 1..L
    <3>1. L # 0
      <4> SUFFICES ASSUME L = 0 PROVE FALSE
        OBVIOUS
      <4>1. m * L = 0
        <5> HIDE DEF L
        <5> QED BY <1>1
      <4> QED BY <4>1
    <3>2. i - 1 \in Int
      BY <2>1
    <3> HIDE DEF L
    <3>3. ((i - 1) % L) \in 0..(L - 1)
      BY <3>1, <3>2, <1>1
    <3> QED BY <3>3, <1>1
  <2> QED BY <2>1, <2>2
<1>3. ASSUME NEW m \in Nat
      PROVE  /\ Copies(m, s) \in Seq(Bytes) /\ Len(Copies(m, s)) = m * L
             /\ \A i \in 1..(m * L) : Copies(m, s)[i] = s[at(i)]
  <2>1. Copies(m, s) = [i \in 1..(m * L) |-> s[at(i)]]
    BY DEF Copies
  <2>2. \A i \in 1..(m * L) : s[at(i)] \in Bytes
    BY <1>1, <1>2
  <2>3. m * L \in Nat
    BY <1>2
  <2> DEFINE c == [i \in 1..(m * L) |-> s[at(i)]]
             N == m * L
  <2> HIDE DEF at, L
  <2>4. c \in [1..N -> Bytes] /\ N \in Nat
    BY <2>2, <2>3
  <2>5. \A i \in 1..N : c[i] = s[at(i)]
    OBVIOUS
  <2> HIDE DEF c, N
  <2>6. c \in Seq(Bytes) /\ Len(c) = N
    BY <2>4
  <2> QED BY <2>1, <2>5, <2>6 DEF c, N
<1> DEFINE p == Copies(n + 1, s)
           o == Copies(n, s)
<1>4. (n + 1) * L = n * L + L /\ n + 1 \in Nat
  <2> HIDE DEF L
  <2> QED BY <1>1
<1>5. /\ o \in Seq(Bytes) /\ Len(o) = n * L /\ n * L \in Nat
      /\ \A i \in 1..(n * L) : o[i] = s[at(i)]
  BY <1>2, <1>3
<1>6. /\ p \in Seq(Bytes) /\ Len(p) = n * L + L
      /\ \A i \in 1..(n * L + L) : p[i] = s[at(i)]
  <2>1. /\ p \in Seq(Bytes) /\ Len(p) = (n + 1) * L
        /\ \A i \in 1..((n + 1) * L) : p[i] = s[at(i)]
    BY <1>3, <1>4
  <2> HIDE DEF p, at, L
  <2> QED BY <2>1, <1>4
<1>7. /\ o \o s \in Seq(Bytes) /\ Len(o \o s) = n * L + L
      /\ \A i \in 1..(n * L + L) : (o \o s)[i] = IF i <= n * L THEN o[i] ELSE s[i - n * L]
  <2> HIDE DEF o, at
  <2>1. /\ o \o s \in Seq(Bytes)
        /\ Len(o \o s) = Len(o) + Len(s)
        /\ \A i \in 1..(Len(o) + Len(s)) :
             (o \o s)[i] = IF i <= Len(o) THEN o[i] ELSE s[i - Len(o)]
    BY <1>5, ConcatProperties
  <2>2. Len(o) = n * L /\ Len(s) = L
    BY <1>5
  <2> HIDE DEF L
  <2> QED BY <2>1, <2>2, Zenon
<1>8. ASSUME NEW i \in 1..(n * L + L), ~(i <= n * L) PROVE at(i) = i - n * L
  <2> DEFINE N == n * L
             r == i - 1 - N
  <2>1. N \in Nat
    BY <1>5
  <2>2. i - 1 = N + r /\ r \in 0..(L - 1)
    <3> HIDE DEF N
    <3>1. i \in 1..(N + L) /\ ~(i <= N)
      BY <1>8 DEF N
    <3> HIDE DEF L
    <3> QED BY <2>1, <3>1, <1>1
  <2>3. N = L * n
    <3> HIDE DEF L
    <3> QED BY <1>1 DEF N
  <2> DEFINE x == i - 1
  <2>4. x \in Int /\ x = L * n + r /\ r \in 0..(L - 1) /\ L \in Nat \ {0}
    <3>1. i \in Int
      BY <2>1, <1>1
    <3> HIDE DEF N, r, L
    <3> QED BY <2>2, <2>3, <3>1, <1>1
  <2>5. (x % L) = r
    <3> HIDE DEF x, r, L
    <3> QED BY <2>4
  <2>6. at(i) = r + 1
    BY <2>5
  <2>7. i \in Int
    BY <2>1, <1>1
  <2> HIDE DEF N, at
  <2> QED BY <2>1, <2>6, <2>7 DEF N
<1>9. \A i \in 1..(n * L + L) : p[i] = (o \o s)[i]
  <2> HIDE DEF p, o, at, L
  <2>1. ASSUME NEW i \in 1..(n * L + L) PROVE p[i] = (o \o s)[i]
    <3>1. CASE i <= n * L
      <4> DEFINE N == n * L
      <4>1. N \in Nat /\ i \in 1..(N + L) /\ i <= N
        BY <3>1, <1>5
      <4>2. p[i] = s[at(i)]
        BY <1>6
      <4>3. (o \o s)[i] = o[i]
        BY <3>1, <1>7
      <4> HIDE DEF N
      <4>4. i \in 1..N
        BY <4>1, <1>1
      <4>5. o[i] = s[at(i)]
        BY <4>4, <1>5 DEF N
      <4> QED BY <4>2, <4>3, <4>5
    <3>2. CASE ~(i <= n * L)
      BY <3>2, <1>6, <1>7, <1>8
    <3> QED BY <3>1, <3>2
  <2> QED BY <2>1
<1>10. p = o \o s
  <2> DEFINE c == o \o s
  <2> HIDE DEF p, o, at, L, c
  <2>1. p \in Seq(Bytes) /\ c \in Seq(Bytes) /\ Len(p) = Len(c) /\ \A i \in 1..Len(p) : p[i] = c[i]
    BY <1>6, <1>7, <1>9 DEF c
  <2>2. p = c
    BY <2>1, SeqEqual
  <2> QED BY <2>2 DEF c
<1> QED BY <1>3, <1>10

(* Strings are joined by +.                                                *)
LEMMA JoinedIs ==
  ASSUME NEW s, NEW u
  PROVE  Joined(value_string_new(s), value_string_new(u)) = value_string_new(s \o u)
<1> DEFINE v == value_string_new(s)
           w == value_string_new(u)
<1>1. value_is_string(v) /\ value_is_string(w) /\ v.str = s /\ w.str = u
  BY DEF value_string_new, value_is_string
<1> HIDE DEF v, w
<1>2. Joined(v, w) = value_string_new(v.str \o w.str)
  BY <1>1 DEF Joined, Arith, expr_eval_op_binary_arith
<1> QED BY <1>1, <1>2 DEF v, w

(* Two strings are the same value only if their bytes are the same.        *)
LEMMA SameText ==
  ASSUME NEW s, NEW u
  PROVE  value_string_new(s) = value_string_new(u) <=> s = u
  BY DEF value_string_new

(* LEFT$ gives the first bytes, and MID$ and RIGHT$ the others.            *)
LEMMA LeftAndRest ==
  ASSUME NEW v, Text(v), NEW w, Number(w), value_int(w) \in 0..(IntMax - 1)
  PROVE  LET n == value_int(w)
         IN  /\ Joined(expr_eval_func_lefts(v.str, w), Mid(v, n + 1, IntMax)) = v
             /\ n <= Len(v.str) => Right(v, Len(v.str) - n) = Mid(v, n + 1, IntMax)
<1> DEFINE s == v.str
           n == value_int(w)
           l == Len(s)
           k == Smaller(n, l)
<1>1. s \in Seq(Bytes) /\ l \in 0..IntMax /\ v = value_string_new(s) /\ value_is_string(v)
  BY TextIs
<1>2. n \in 0..(IntMax - 1) /\ n \in IntRange /\ n + 1 \in 1..IntMax /\ IntMax \in 0..IntMax
      /\ n \in 0..(SizeMod - 1) /\ n \in Int
  BY Sizes, Bounds
<1>3. k \in 0..l
  BY <1>1, <1>2 DEF Smaller
<1>4. Mid(v, n + 1, IntMax) = value_string_new(SubSeq(s, k + 1, l))
  <2>1. Mid(v, n + 1, IntMax) = value_string_new(Cut(s, Smaller(n + 1 - 1, l), IntMax))
    <3> HIDE DEF n
    <3> QED BY <1>2, MidIs
  <2>2. Smaller(n + 1 - 1, l) = k
    <3> HIDE DEF n
    <3>1. n + 1 - 1 = n
      BY <1>2
    <3> QED BY <3>1
  <2>3. Cut(s, k, IntMax) = SubSeq(s, k + 1, l)
    <3> HIDE DEF k, s, n
    <3>1. ~(k + IntMax < l)
      BY <1>1, <1>3, Bounds
    <3> QED BY <3>1 DEF Cut
  <2> QED BY <2>1, <2>2, <2>3, Zenon
<1>5. expr_eval_func_lefts(s, w) = value_string_new(SubSeq(s, 1, k))
  <2>1. size_t(n) = n
    <3> HIDE DEF n
    <3> QED BY <1>2, SizeIs
  <2>2. expr_eval_func_lefts(s, w) = value_string_new(Cut(s, 0, n))
    BY <2>1 DEF expr_eval_func_lefts
  <2> HIDE DEF s, n, k
  <2>3. 0 \in 0..Len(s) /\ n \in Nat
    BY <1>1, <1>2
  <2>4. Cut(s, 0, n) = SubSeq(s, 0 + 1, Smaller(0 + n, Len(s)))
    BY <2>3, <1>1, CutIs
  <2>5. 0 + n = n /\ 0 + 1 = 1
    BY <1>2
  <2> QED BY <2>2, <2>4, <2>5 DEF k
<1>6. SubSeq(s, 1, k) \o SubSeq(s, k + 1, l) = s
  <2> HIDE DEF s, k
  <2>1. 1 \in 1..(Len(s) + 1) /\ k \in (1 - 1)..Len(s) /\ Len(s) \in k..Len(s)
    BY <1>1, <1>3
  <2>2. SubSeq(s, 1, k) \o SubSeq(s, k + 1, Len(s)) = SubSeq(s, 1, Len(s))
    BY <1>1, <2>1, ConcatAdjacentSubSeq
  <2>3. SubSeq(s, 1, Len(s)) = s
    BY <1>1, SubSeqFull
  <2> QED BY <2>2, <2>3
<1>7. Joined(expr_eval_func_lefts(s, w), Mid(v, n + 1, IntMax)) = v
  BY <1>1, <1>4, <1>5, <1>6, JoinedIs
<1>8. ASSUME n <= l PROVE Right(v, l - n) = Mid(v, n + 1, IntMax)
  <2> HIDE DEF s, n, k
  <2> DEFINE m == l - n
             a == <<v, Whole(m)>>
  <2>1. m \in 0..l /\ m \in IntRange /\ m \in 0..(SizeMod - 1) /\ m \in Int
    BY <1>1, <1>2, <1>8, Sizes, Bounds
  <2>2. ~value_is_string(a[2]) /\ value_int(a[2]) = m /\ a[1] = v /\ DOMAIN a = 1..2
    <3>1. a[2] = Whole(m) /\ a[1] = v /\ DOMAIN a = 1..2
      OBVIOUS
    <3> HIDE DEF a, m
    <3> QED BY <2>1, <3>1, WholeIs
  <2>3. Right(v, m) = Function("RIGHT$", a)
    BY DEF Right
  <2> HIDE DEF a, m
  <2>4. Function("RIGHT$", a) = expr_eval_func_rights(s, a[2])
    BY <1>1, <2>2, BinaryIs DEF Binary, s
  <2>5. size_t(m) = m
    BY <2>1, SizeIs
  <2>6. expr_eval_func_rights(s, a[2]) =
          value_string_new(IF m < Len(s) THEN Cut(s, Len(s) - m, m) ELSE s)
    BY <2>2, <2>5 DEF expr_eval_func_rights
  <2>7. k = n /\ Len(s) - m = n
    BY <1>1, <1>2, <1>8 DEF k, m, Smaller
  <2>8. m < Len(s) => Cut(s, Len(s) - m, m) = SubSeq(s, k + 1, l)
    <3>1. ~(n + m < Len(s))
      BY <1>1, <1>2 DEF m
    <3> QED BY <2>7, <3>1 DEF Cut
  <2>9. ~(m < Len(s)) => s = SubSeq(s, k + 1, l)
    <3>1. ~(m < Len(s)) => k = 0
      BY <1>1, <1>2, <2>7 DEF m
    <3>2. SubSeq(s, 0 + 1, l) = s
      BY <1>1, SubSeqFull
    <3> QED BY <3>1, <3>2
  <2>10. Right(v, m) = value_string_new(SubSeq(s, k + 1, l))
    BY <2>3, <2>4, <2>6, <2>8, <2>9
  <2> QED BY <2>10, <1>4 DEF m
<1> QED BY <1>7, <1>8

(* One more copy in STRING$ adds the string once.                          *)
LEMMA OneMoreCopy ==
  ASSUME NEW v, Text(v), NEW w, Number(w), value_int(w) \in 0..(Byte - 2)
  PROVE  /\ value_is_string(expr_eval_func_strings(v.str, w))
         /\ Function("STRING$", <<v, Whole(value_int(w) + 1)>>)
              = Joined(expr_eval_func_strings(v.str, w), v)
<1> DEFINE s == v.str
           n == value_int(w)
           a == <<v, Whole(n + 1)>>
<1>1. s \in Seq(Bytes) /\ v = value_string_new(s) /\ value_is_string(v)
  BY TextIs
<1>2. n \in 0..(Byte - 2) /\ n \in Nat /\ n + 1 \in IntRange /\ n + 1 \in 0..(Byte - 1)
  BY Sizes, Bounds
<1>3. ASSUME NEW x, value_int(x) \in 0..(Byte - 1)
      PROVE  expr_eval_func_strings(s, x) = value_string_new(Copies(value_int(x), s))
  <2> DEFINE m == value_int(x)
  <2>1. m \in 0..(Byte - 1) /\ m \in Int /\ Byte \in Int /\ Byte # 0 /\ Magnitude(m) = m /\ Magnitude(Byte) = Byte
    BY <1>3, Sizes DEF Magnitude
  <2> HIDE DEF m
  <2>2. (m \div Byte) = 0
    BY <2>1, Sizes
  <2>3. Quotient(m, Byte) = 0
    BY <2>1, <2>2, Sizes DEF Quotient
  <2>4. Remainder(m, Byte) = m
    BY <2>1, <2>3 DEF Remainder
  <2>5. m \in 0..(SizeMod - 1)
    BY <2>1, Sizes, Bounds
  <2>6. size_t(Remainder(m, Byte)) = m /\ m < Byte
    BY <2>1, <2>4, <2>5, Sizes, SizeIs
  <2> QED BY <2>6, Zenon DEF expr_eval_func_strings, m
<1>4. a[1] = v /\ a[2] = Whole(n + 1) /\ DOMAIN a = 1..2
  OBVIOUS
<1> HIDE DEF a, n, s
<1>5. ~value_is_string(a[2]) /\ value_int(a[2]) = n + 1
  BY <1>2, <1>4, WholeIs
<1>6. Function("STRING$", a) = expr_eval_func_strings(s, a[2])
  BY <1>1, <1>4, <1>5, BinaryIs DEF Binary, s
<1>7. expr_eval_func_strings(s, a[2]) = value_string_new(Copies(n + 1, s))
  BY <1>2, <1>3, <1>5
<1>8. expr_eval_func_strings(s, w) = value_string_new(Copies(n, s))
  <2>1. n \in 0..(Byte - 1)
    BY <1>2, Sizes
  <2> QED BY <2>1, <1>3 DEF n
<1>9. Copies(n + 1, s) = Copies(n, s) \o s
  BY <1>1, <1>2, CopiesIs
<1>10. Function("STRING$", a) = Joined(expr_eval_func_strings(s, w), v)
  BY <1>1, <1>6, <1>7, <1>8, <1>9, JoinedIs
<1>11. value_is_string(expr_eval_func_strings(s, w))
  BY <1>8 DEF value_string_new, value_is_string
<1> QED BY <1>10, <1>11 DEF a, n, s

(* INSTR gives the least of the places from k on where MID$ finds u.       *)
LEMMA FirstPlace ==
  ASSUME NEW v, Text(v), NEW u, Text(u), u.str # <<>>, NEW w, Number(w)
  PROVE  LET k == value_int(w)
             places == {i \in 1..Len(v.str) :
                          k >= 0 /\ i >= k /\ Mid(v, i, Len(u.str)) = u}
             r == expr_eval_func_instr(v.str, u.str, w)
         IN  IF places = {} THEN r = Whole(0)
             ELSE r.num \in places /\ \A i \in places : r.num <= i
<1> DEFINE h == v.str
           b == u.str
           l == Len(h)
           n == Len(b)
           c == value_int(w)
           k == size_t(c)
           start == IF k = 0 THEN 0 ELSE k - 1
           found == {i \in 0..(l - 1) : i >= start /\ Occurs(b, h, i)}
           places == {i \in 1..l : c >= 0 /\ i >= c /\ Mid(v, i, n) = u}
           r == expr_eval_func_instr(h, b, w)
<1>1. h \in Seq(Bytes) /\ b \in Seq(Bytes) /\ l \in 0..IntMax /\ n \in 0..IntMax
      /\ u = value_string_new(b) /\ b # <<>>
  BY TextIs
<1>2. c \in IntRange /\ c \in Int
  BY IntegerOf, Bounds
<1>3. r = IF found = {} THEN value_int_new(0)
          ELSE value_int_new((CHOOSE i \in found : \A j \in found : i <= j) + 1)
  BY <1>1 DEF expr_eval_func_instr
<1>4. ASSUME NEW i \in 1..l PROVE Mid(v, i, n) = u <=> Occurs(b, h, i - 1)
  <2> HIDE DEF h, b
  <2>1. i \in 1..IntMax /\ i \in Int /\ i - 1 \in 0..l /\ Smaller(i - 1, l) = i - 1
    BY <1>1, Bounds DEF Smaller
  <2>2. Mid(v, i, n) = value_string_new(Cut(h, i - 1, n))
    BY <1>1, <2>1, MidIs DEF h
  <2>3. Mid(v, i, n) = u <=> Cut(h, i - 1, n) = b
    BY <2>2, <1>1, SameText
  <2>4. Cut(h, i - 1, n) = b => i - 1 + n <= l
    <3>1. Len(Cut(h, i - 1, n)) = Smaller(i - 1 + n, l) - (i - 1)
      <4> DEFINE j == i - 1
      <4>1. j \in 0..Len(h) /\ n \in Nat /\ h \in Seq(Bytes)
        BY <1>1, <2>1
      <4> HIDE DEF j
      <4>2. Len(Cut(h, j, n)) = Smaller(j + n, Len(h)) - j
        BY <4>1, CutIs
      <4> QED BY <4>2 DEF j
    <3>2. Cut(h, i - 1, n) = b => n = Smaller(i - 1 + n, l) - (i - 1)
      BY <3>1
    <3> QED BY <1>1, <2>1, <3>2 DEF Smaller
  <2> QED BY <2>3, <2>4 DEF Occurs
<1>5. ASSUME NEW i \in 1..l PROVE c >= 0 /\ i >= c <=> i - 1 >= start
  <2>1. CASE c >= 0
    <3>1. c \in 0..(SizeMod - 1)
      BY <2>1, <1>2, Sizes, Bounds
    <3>2. k = c
      <4> HIDE DEF c
      <4> QED BY <3>1, <1>2, SizeIs
    <3> HIDE DEF k, c
    <3> QED BY <2>1, <3>2, <1>1, <1>2
  <2>2. CASE c < 0
    <3>1. k = SizeMod + c
      <4> HIDE DEF c
      <4> QED BY <2>2, <1>2, SizeIs
    <3>2. k > IntMax /\ k \in Nat /\ i <= IntMax /\ i \in Int
      <4> HIDE DEF k, c, h
      <4> QED BY <3>1, <1>2, <1>1, Sizes, Bounds
    <3> HIDE DEF k, c, h
    <3> QED BY <2>2, <3>2, <1>2, Bounds
  <2> QED BY <2>1, <2>2, <1>2
<1>6. \A i \in 1..l : i \in places <=> i - 1 \in found
  <2> SUFFICES ASSUME NEW i \in 1..l PROVE i \in places <=> i - 1 \in found
    OBVIOUS
  <2>1. i - 1 \in 0..(l - 1)
    <3> HIDE DEF h
    <3> QED BY <1>1
  <2> HIDE DEF h, b, c, start
  <2> QED BY <2>1, <1>4, <1>5, Zenon
<1>7. places \subseteq 1..l /\ found \subseteq 0..(l - 1)
  OBVIOUS
<1> HIDE DEF h, b, c, start, found, places, r
<1>8. \A j \in found : j \in Nat /\ j + 1 \in 1..l /\ j + 1 - 1 = j
  BY <1>1, <1>7
<1>9. \A j \in found : j + 1 \in places
  BY <1>6, <1>8
<1>10. CASE found = {}
  <2>1. places = {}
    BY <1>6, <1>7, <1>10
  <2>2. r = Whole(0)
    BY <1>3, <1>10 DEF Whole
  <2> QED BY <2>1, <2>2 DEF places, r, h, b, c
<1>11. CASE found # {}
  <2> DEFINE f == CHOOSE i \in found : \A j \in found : i <= j
  <2>1. \E i \in found : \A j \in found : i <= j
    BY <1>8, <1>11, LeastOfNaturals
  <2>2. f \in found /\ \A j \in found : f <= j
    BY <2>1
  <2>3. r = value_int_new(f + 1)
    BY <1>3, <1>11
  <2> HIDE DEF f
  <2>4. r.num = f + 1
    BY <2>3 DEF value_int_new
  <2>5. r.num \in places
    BY <1>9, <2>2, <2>4
  <2>6. ASSUME NEW i \in places PROVE r.num <= i
    <3>1. i \in 1..l /\ i - 1 \in found
      BY <1>6, <1>7
    <3>2. f <= i - 1 /\ f \in Nat
      BY <2>2, <3>1, <1>8
    <3> QED BY <3>1, <3>2, <2>4, <1>1
  <2>7. places # {}
    BY <2>5
  <2> QED BY <2>5, <2>6, <2>7 DEF places, r, h, b, c
<1> QED BY <1>10, <1>11

(* An evaluation that gives a value is no error.                           *)
LEMMA ValueIsNoError ==
  ASSUME HasValue
  PROVE  \A code : result # Error(code)
  BY DEF HasValue, Error

(* LEFT$, MID$ and RIGHT$ give the parts of a string, STRING$ its copies,  *)
(* and INSTR the first place where a string is found (expr_builtin.c).     *)
THEOREM StringFunctionsFit == Spec => []StringsAgree
<1>1. Evaluated => StringsAgree
  <2> SUFFICES ASSUME Evaluated, Done, HasValue PROVE StringsAgree
    BY Zenon DEF StringsAgree
  <2> DEFINE s == args[1]
             l == Len(s.str)
             n == value_int(args[2])
  <2>1. result = Evaluation(op, args)
    BY Zenon DEF Evaluated, Done
  <2>2. ASSUME op \in Binary
        PROVE  /\ result = Function(op, args) /\ DOMAIN args = 1..2
               /\ Text(s) /\ Number(args[2])
    <3>1. op \notin Arithmetic /\ op \notin Comparisons /\ op \notin {"minus", "NOT"}
          /\ Arity(op) = 2
      BY <2>2 DEF Binary, Arithmetic, Comparisons, Arity, Ternary, Unary
    <3>2. result = Function(op, args)
      BY <2>1, <3>1, Zenon DEF Evaluation
    <3>3. DOMAIN args = 1..2 /\ s \in Operand /\ args[2] \in Operand
      BY <3>1 DEF Evaluated
    <3>4. value_is_string(s) /\ ~value_is_string(args[2])
      BY <2>2, <3>2, <3>3, BinaryIs, ValueIsNoError
    <3> QED BY <3>2, <3>3, <3>4, NumberOrText, Zenon
  <2>3. ASSUME op = "LEFT$", n \in 0..(IntMax - 1)
        PROVE  /\ Joined(result, Mid(s, n + 1, IntMax)) = s
               /\ n <= l => Right(s, l - n) = Mid(s, n + 1, IntMax)
    <3>1. op \in Binary
      BY <2>3 DEF Binary
    <3>2. result = expr_eval_func_lefts(s.str, args[2])
      BY <2>2, <2>3, <3>1, BinaryIs, TextIs, NumberIs
    <3> QED BY <2>2, <2>3, <3>1, <3>2, LeftAndRest, Zenon
  <2>4. ASSUME op = "STRING$", n \in 0..(Byte - 2)
        PROVE  Function(op, <<s, Whole(n + 1)>>) = Joined(result, s)
    <3>1. op \in Binary /\ op # "LEFT$" /\ op # "RIGHT$"
      BY <2>4 DEF Binary
    <3>2. result = expr_eval_func_strings(s.str, args[2])
      BY <2>2, <3>1, BinaryIs, TextIs, NumberIs
    <3> QED BY <2>2, <2>4, <3>1, <3>2, OneMoreCopy, Zenon
  <2>5. ASSUME op = "INSTR", args[2].str # <<>>
        PROVE  LET u == args[2]
                   k == value_int(args[3])
                   places == {i \in 1..l : k >= 0 /\ i >= k /\ Mid(s, i, Len(u.str)) = u}
               IN  IF places = {} THEN result = Whole(0)
                   ELSE result.num \in places /\ \A i \in places : result.num <= i
    <3>1. op \notin Arithmetic /\ op \notin Comparisons /\ op \notin {"minus", "NOT"}
          /\ Arity(op) = 3
      BY <2>5 DEF Arithmetic, Comparisons, Arity, Ternary
    <3>2. result = Function(op, args)
      BY <2>1, <3>1, Zenon DEF Evaluation
    <3>3. DOMAIN args = 1..3 /\ s \in Operand /\ args[2] \in Operand /\ args[3] \in Operand
      BY <3>1 DEF Evaluated
    <3>4. value_is_string(s) /\ value_is_string(args[2]) /\ ~value_is_string(args[3])
      BY <2>5, <3>2, <3>3, InstrIs, ValueIsNoError
    <3>5. Text(s) /\ Text(args[2]) /\ Number(args[3])
      BY <3>3, <3>4, NumberOrText, Zenon
    <3>6. result = expr_eval_func_instr(s.str, args[2].str, args[3])
      BY <2>5, <3>2, <3>3, <3>4, InstrIs
    <3> QED BY <2>5, <3>5, <3>6, FirstPlace, Zenon
  <2> QED BY <2>3, <2>4, <2>5, Zenon DEF StringsAgree
<1> QED BY <1>1, EvaluatedHolds, PTL

-----------------------------------------------------------------------------
(* The bits of an integer.                                                 *)

(* The recursive function Weight, unfolded once.                           *)
LEMMA WeightIs ==
  /\ Weight[0] = 1 /\ \A i \in 1..128 : Weight[i] = 2 * Weight[i - 1]
  /\ \A i \in 0..128 : Weight[i] \in Nat \ {0}
<1> DEFINE n == 128
           H == [i \in 1..n |-> [q \in Nat |-> 2 * q]]
           K(g) == [i \in 0..n |-> IF i = 0 THEN 1 ELSE 2 * g[i - 1]]
           P == {i \in 0..n : Weight[i] \in Nat \ {0}}
<1>1. n \in Nat /\ 1 \in Nat /\ H \in [1..n -> [Nat -> Nat]]
  OBVIOUS
<1>2. PICK g \in [0..n -> Nat] : Iterates(g, n, 1, H)
  <2> HIDE DEF n, H
  <2> QED BY <1>1, RecursionExists
<1>3. g = K(g)
  <2>1. ASSUME NEW i \in 1..n PROVE g[i] = 2 * g[i - 1]
    <3>1. g[i - 1] \in Nat
      BY <1>1
    <3> QED BY <1>2, <3>1 DEF Iterates
  <2>2. g[0] = 1
    BY <1>2 DEF Iterates
  <2> HIDE DEF n
  <2>3. ASSUME NEW i \in 0..n PROVE g[i] = K(g)[i]
    <3>1. i # 0 => i \in 1..n
      BY <1>1
    <3> QED BY <2>1, <2>2, <3>1
  <2> QED BY <2>3
<1>4. Weight = K(Weight)
  <2>1. \E f : f = K(f)
    BY <1>3
  <2> QED BY <2>1, Zenon DEF Weight
<1>5. Weight[0] = 1 /\ \A i \in 1..n : Weight[i] = 2 * Weight[i - 1]
  <2>1. \A i \in 0..n : Weight[i] = K(Weight)[i]
    BY <1>4, Zenon
  <2>2. \A i \in 0..n : K(Weight)[i] = IF i = 0 THEN 1 ELSE 2 * Weight[i - 1]
    OBVIOUS
  <2> HIDE DEF K
  <2> QED BY <1>1, <2>1, <2>2
<1>6. \A i \in 0..n : i \in P
  <2>1. 0 \in P
    BY <1>5
  <2>2. \A i \in 1..n : i - 1 \in P => i \in P
    BY <1>5
  <2> HIDE DEF P, n
  <2> QED BY <1>1, <2>1, <2>2, InductionUpTo
<1> QED BY <1>5, <1>6

(* All integers are the numbers of Width bits.                             *)
LEMMA WidthIs == Width \in 1..64 /\ Weight[Width] = 2 * (IntMax + 1)
  BY WidthAssumption, Zenon DEF Width

(* The sum of the bits of B below each place.                              *)
SumBelow(B) ==
  CHOOSE sum : sum = [i \in 0..Width |->
                        IF i = 0 THEN 0
                        ELSE sum[i - 1] + (IF i - 1 \in B THEN Weight[i - 1] ELSE 0)]

(* The recursive function of FromBits, unfolded once.                      *)
LEMMA FromBitsIs ==
  ASSUME NEW B
  PROVE  /\ FromBits(B) = Wrap(SumBelow(B)[Width]) /\ SumBelow(B)[0] = 0
         /\ \A i \in 1..Width : SumBelow(B)[i] =
              SumBelow(B)[i - 1] + (IF i - 1 \in B THEN Weight[i - 1] ELSE 0)
         /\ \A i \in 0..Width : SumBelow(B)[i] \in Nat
<1> DEFINE n == Width
           bit(i) == IF i - 1 \in B THEN Weight[i - 1] ELSE 0
           H == [i \in 1..n |-> [q \in Nat |-> q + bit(i)]]
           K(g) == [i \in 0..n |-> IF i = 0 THEN 0 ELSE g[i - 1] + bit(i)]
           S == SumBelow(B)
           P == {i \in 0..n : S[i] \in Nat}
<1>1. n \in Nat /\ 0 \in Nat /\ \A i \in 1..n : bit(i) \in Nat
  <2>1. n \in 1..64
    BY WidthIs
  <2>2. \A i \in 1..n : i - 1 \in 0..64
    BY <2>1
  <2>3. \A i \in 1..n : Weight[i - 1] \in Nat
    <3>1. \A i \in 1..n : i - 1 \in 0..128
      BY <2>2
    <3> QED BY <3>1, WeightIs
  <2> QED BY <2>1, <2>3
<1>2. H \in [1..n -> [Nat -> Nat]]
  <2> HIDE DEF bit
  <2> QED BY <1>1
<1>3. PICK g \in [0..n -> Nat] : Iterates(g, n, 0, H)
  <2> HIDE DEF n, H
  <2> QED BY <1>1, <1>2, RecursionExists
<1>4. g = K(g)
  <2> HIDE DEF bit
  <2>1. ASSUME NEW i \in 1..n PROVE g[i] = g[i - 1] + bit(i)
    <3>1. g[i - 1] \in Nat
      BY <1>1
    <3> QED BY <1>3, <3>1 DEF Iterates
  <2>2. g[0] = 0
    BY <1>3 DEF Iterates
  <2> HIDE DEF n
  <2>3. ASSUME NEW i \in 0..n PROVE g[i] = K(g)[i]
    <3>1. i # 0 => i \in 1..n
      BY <1>1
    <3> QED BY <2>1, <2>2, <3>1
  <2> QED BY <2>3
<1>5. S = K(S)
  <2>1. \E f : f = K(f)
    BY <1>4
  <2> QED BY <2>1, Zenon DEF SumBelow
<1>6. FromBits(B) = Wrap(S[Width])
  BY Zenon DEF FromBits, SumBelow
<1> HIDE DEF S
<1>7. S[0] = 0 /\ \A i \in 1..n : S[i] = S[i - 1] + bit(i)
  <2> HIDE DEF bit
  <2>1. \A i \in 0..n : S[i] = K(S)[i]
    BY <1>5, Zenon
  <2>2. \A i \in 0..n : K(S)[i] = IF i = 0 THEN 0 ELSE S[i - 1] + bit(i)
    OBVIOUS
  <2> HIDE DEF K, n
  <2> QED BY <1>1, <2>1, <2>2
<1>8. \A i \in 0..n : i \in P
  <2> HIDE DEF bit
  <2>1. 0 \in P
    BY <1>1, <1>7
  <2>2. \A i \in 1..n : i - 1 \in P => i \in P
    BY <1>1, <1>7
  <2> HIDE DEF P, n
  <2> QED BY <1>1, <2>1, <2>2, InductionUpTo
<1> QED BY <1>6, <1>7, <1>8 DEF S

(* Bits make an integer.                                                   *)
LEMMA FromBitsFits ==
  ASSUME NEW B
  PROVE  FromBits(B) \in IntRange
<1>1. SumBelow(B)[Width] \in Int
  <2>1. Width \in 0..Width
    BY WidthIs
  <2> QED BY <2>1, FromBitsIs
<1> QED BY <1>1, FromBitsIs, WrapIs

-----------------------------------------------------------------------------
(* The types of results.                                                   *)

IsInteger(x) == \E k \in IntRange : x = value_int_new(k)
IsText(x) == \E s \in Seq(Nat \ {0}) : x = value_string_new(s)
IsFailure(x) == x = Trap \/ \E code : x = Error(code)

(* A result that is no write where it must not be and no endless loop.     *)
Proper(x) == IsInteger(x) \/ IsText(x) \/ x.type = "float" \/ IsFailure(x)

(* A proper outcome is as TypeOK wants it.                                 *)
LEMMA ProperIs ==
  ASSUME NEW x, Proper(x)
  PROVE  /\ x \notin {Overrun, Endless, NoMemory}
         /\ x.type = "int" => x.num \in IntRange /\ x.den = 1
         /\ x.type = "string" => \A i \in DOMAIN x.str : x.str[i] # 0
<1>1. x.type \in {"int", "string", "float", "error", "trap"}
        => x \notin {Overrun, Endless, NoMemory}
  <2>1. Overrun.type = "overrun" /\ Endless.type = "endless" /\ NoMemory.type = "no memory"
    BY DEF Overrun, Endless, NoMemory
  <2> QED BY <2>1
<1>2. CASE IsInteger(x)
  <2>1. PICK k \in IntRange : x = value_int_new(k)
    BY <1>2 DEF IsInteger
  <2>2. x.type = "int" /\ x.num = k /\ x.den = 1
    BY <2>1 DEF value_int_new
  <2> QED BY <1>1, <2>2
<1>3. CASE IsText(x)
  <2>1. PICK s \in Seq(Nat \ {0}) : x = value_string_new(s)
    BY <1>3 DEF IsText
  <2>2. x.type = "string" /\ x.str = s
    BY <2>1 DEF value_string_new
  <2>3. \A i \in DOMAIN s : s[i] # 0
    <3>1. \A i \in 1..Len(s) : s[i] \in Nat \ {0}
      BY ElementOfSeq
    <3>2. DOMAIN s = 1..Len(s)
      BY LenProperties
    <3> QED BY <3>1, <3>2
  <2> QED BY <1>1, <2>2, <2>3
<1>4. CASE x.type = "float"
  BY <1>1, <1>4
<1>5. CASE IsFailure(x)
  <2>1. x.type \in {"error", "trap"}
    BY <1>5 DEF IsFailure, Trap, Error
  <2> QED BY <1>1, <2>1
<1> QED BY <1>2, <1>3, <1>4, <1>5 DEF Proper

(* A new float is a float.                                                 *)
LEMMA FloatIs ==
  ASSUME NEW n, NEW d
  PROVE  value_float_new(n, d).type = "float"
  BY DEF value_float_new

(* What remains of a number is an integer.                                 *)
LEMMA WrappedIs ==
  ASSUME NEW n \in Int
  PROVE  IsInteger(value_int_new(Wrap(n)))
  BY WrapIs DEF IsInteger

(* The numbers that make an integer (comments at expr_ops.c:255 and 337).  *)
MakesInteger(t, l, r) ==
  \/ t \in Integral
  \/ /\ value_is_int(l) /\ value_is_int(r) /\ t # "^"
     /\ t = "/" => (l.num % Magnitude(r.num)) = 0

(* Each operator, of two integers and of other numbers.                    *)
LEMMA IntArithIs ==
  ASSUME NEW l, NEW r
  PROVE  /\ IntArith("+", l, r) = value_int_new(Wrap(l.num + r.num))
         /\ IntArith("-", l, r) = value_int_new(Wrap(l.num - r.num))
         /\ IntArith("*", l, r) = value_int_new(Wrap(l.num * r.num))
         /\ IntArith("/", l, r) =
              IF l.num = IntMin /\ r.num = -1 THEN Trap
              ELSE IF Remainder(l.num, r.num) = 0
              THEN value_int_new(Quotient(l.num, r.num))
              ELSE SingleQuotient(Single(l.num), Single(r.num))
         /\ IntArith("^", l, r) = Power(l, r)
<1>1. {"+", "-", "*", "/", "^"} \cap Integral = {}
  BY DEF Integral
<1> QED BY <1>1 DEF IntArith

(* The arithmetic of floats, operator by operator.                         *)
LEMMA FloatArithIs ==
  ASSUME NEW l, NEW r
  PROVE  /\ FloatArith("+", l, r) = Plus(l, r)
         /\ FloatArith("-", l, r) = Plus(l, Minus(r))
         /\ FloatArith("*", l, r) = Times(l, r)
         /\ FloatArith("/", l, r) = Over(l, r)
         /\ FloatArith("^", l, r) = Power(l, r)
<1>1. {"+", "-", "*", "/", "^"} \cap Integral = {}
  BY DEF Integral
<1> QED BY <1>1 DEF FloatArith

(* The type of the result of arithmetic on numbers.                        *)
LEMMA ArithmeticOfNumbers ==
  ASSUME NEW t \in Arithmetic, NEW l, Number(l), NEW r, Number(r)
  PROVE  LET x == Arith(t, l, r)
         IN  \/ IsFailure(x)
             \/ IsInteger(x) /\ MakesInteger(t, l, r)
             \/ x.type = "float" /\ ~MakesInteger(t, l, r)
<1> DEFINE x == Arith(t, l, r)
           a == l.num
           b == r.num
           both == value_is_int(l) /\ value_is_int(r)
<1>1. /\ a \in Int /\ b \in Int /\ ~value_is_string(l) /\ ~value_is_string(r)
      /\ value_is_numeric(l) /\ value_is_numeric(r)
      /\ both => a \in IntRange /\ b \in IntRange
  BY NumberIs DEF Number
<1>2. value_is_zero(r) <=> b = 0
  BY <1>1, Zenon DEF value_is_zero
<1>3. x = IF t \in {"/", "DIV", "MOD"} /\ value_is_zero(r) THEN Error("division by zero")
          ELSE IF both THEN IntArith(t, l, r) ELSE FloatArith(t, l, r)
  BY <1>1, Zenon DEF Arith, expr_eval_op_binary_arith
<1>4. CASE t \in Integral
  <2> DEFINE n == value_int(l)
             m == value_int(r)
  <2>1. n \in IntRange /\ m \in IntRange
    BY IntegerOf
  <2>2. x = Error("division by zero") \/ x = IntegralOp(t, n, m)
    BY <1>4, IntegralIs
  <2>3. IsInteger(IntegralOp(t, n, m)) \/ IntegralOp(t, n, m) = Trap
    <3>1. CASE t \in {"DIV", "MOD"}
      <4> HIDE DEF n, m
      <4>1. IntegralOp(t, n, m) = Divide(t, n, m)
        BY <3>1 DEF IntegralOp
      <4>2. CASE m = 0 \/ (n = IntMin /\ m = -1)
        BY <4>1, <4>2 DEF Divide
      <4>3. CASE ~(m = 0 \/ (n = IntMin /\ m = -1))
        <5>1. Quotient(n, m) \in IntRange /\ Remainder(n, m) \in IntRange
          BY <2>1, <4>3, QuotientFits
        <5> QED BY <4>1, <4>3, <5>1 DEF Divide, IsInteger
      <4> QED BY <4>2, <4>3
    <3>2. CASE t \notin {"DIV", "MOD"}
      <4> HIDE DEF n, m
      <4>1. IntegralOp(t, n, m) = value_int_new(Bitwise(t, n, m))
        BY <3>2 DEF IntegralOp
      <4>2. Bitwise(t, n, m) \in IntRange
        BY FromBitsFits, Zenon DEF Bitwise
      <4> QED BY <4>1, <4>2 DEF IsInteger
    <3> QED BY <3>1, <3>2
  <2>4. MakesInteger(t, l, r)
    BY <1>4 DEF MakesInteger
  <2> HIDE DEF x, n, m
  <2> QED BY <2>2, <2>3, <2>4, Zenon DEF IsFailure, x
<1>5. CASE t = "^"
  <2>1. ~MakesInteger(t, l, r)
    BY <1>5 DEF MakesInteger, Integral
  <2>2. x = Power(l, r)
    BY <1>3, <1>5, IntArithIs, FloatArithIs
  <2>3. IsFailure(Power(l, r)) \/ Power(l, r).type = "float"
    BY FloatIs DEF Power, IsFailure, Irrational
  <2> HIDE DEF x
  <2> QED BY <2>1, <2>2, <2>3 DEF x
<1>6. CASE t \in {"+", "-", "*"}
  <2>1. MakesInteger(t, l, r) <=> both
    BY <1>6 DEF MakesInteger, Integral
  <2>2. x = IF both THEN IntArith(t, l, r) ELSE FloatArith(t, l, r)
    BY <1>3, <1>6
  <2>3. ASSUME both PROVE IsInteger(IntArith(t, l, r))
    <3>1. a + b \in Int /\ a - b \in Int /\ a * b \in Int
      BY <1>1
    <3>2. IntArith(t, l, r) \in {value_int_new(Wrap(a + b)), value_int_new(Wrap(a - b)), value_int_new(Wrap(a * b))}
      BY <1>6, IntArithIs
    <3> HIDE DEF a, b
    <3> QED BY <3>1, <3>2, WrappedIs
  <2>4. FloatArith(t, l, r).type = "float"
    <3>1. FloatArith(t, l, r) \in {Plus(l, r), Plus(l, Minus(r)), Times(l, r)}
      BY <1>6, FloatArithIs
    <3> QED BY <3>1, FloatIs DEF Plus, Times
  <2> HIDE DEF x
  <2> QED BY <2>1, <2>2, <2>3, <2>4 DEF x
<1>7. CASE t = "/"
  <2>1. CASE b = 0
    <3>1. x = Error("division by zero")
      BY <1>2, <1>3, <1>7, <2>1
    <3> HIDE DEF x
    <3> QED BY <3>1, Zenon DEF IsFailure, x
  <2>2. CASE b # 0 /\ ~both
    <3>1. x = Over(l, r)
      BY <1>2, <1>3, <1>7, <2>2, FloatArithIs
    <3>2. x.type = "float"
      BY <3>1, FloatIs DEF Over
    <3>3. ~MakesInteger(t, l, r)
      BY <1>7, <2>2 DEF MakesInteger, Integral
    <3> HIDE DEF x
    <3> QED BY <3>2, <3>3 DEF x
  <2>3. CASE b # 0 /\ both
    <3>1. x = IF a = IntMin /\ b = -1 THEN Trap
              ELSE IF Remainder(a, b) = 0 THEN value_int_new(Quotient(a, b))
              ELSE SingleQuotient(Single(a), Single(b))
      BY <1>2, <1>3, <1>7, <2>3, IntArithIs
    <3>2. Remainder(a, b) = 0 <=> (a % Magnitude(b)) = 0
      BY <1>1, <2>3, DivisionIs
    <3>3. MakesInteger(t, l, r) <=> Remainder(a, b) = 0
      BY <3>2, <1>7, <2>3 DEF MakesInteger, Integral
    <3>4. ~(a = IntMin /\ b = -1) => Quotient(a, b) \in IntRange
      BY <1>1, <2>3, QuotientFits
    <3>5. SingleQuotient(Single(a), Single(b)).type = "float"
      BY FloatIs DEF SingleQuotient
    <3>6. /\ a = IntMin /\ b = -1 => x = Trap
          /\ ~(a = IntMin /\ b = -1) /\ Remainder(a, b) = 0 => x = value_int_new(Quotient(a, b))
          /\ ~(a = IntMin /\ b = -1) /\ Remainder(a, b) # 0 =>
               x = SingleQuotient(Single(a), Single(b))
      BY <3>1
    <3> HIDE DEF x, a, b, both
    <3>7. ~(a = IntMin /\ b = -1) /\ Remainder(a, b) = 0 => IsInteger(x)
      BY <3>4, <3>6, Zenon DEF IsInteger
    <3>8. ~(a = IntMin /\ b = -1) /\ Remainder(a, b) # 0 => x.type = "float"
      BY <3>5, <3>6, Zenon
    <3>9. a = IntMin /\ b = -1 => IsFailure(x)
      BY <3>6, Zenon DEF IsFailure
    <3> QED BY <3>3, <3>7, <3>8, <3>9, Zenon DEF x
  <2> QED BY <2>1, <2>2, <2>3
<1>8. t \in Integral \/ t = "^" \/ t \in {"+", "-", "*"} \/ t = "/"
  BY DEF Arithmetic, Integral
<1> QED BY <1>4, <1>5, <1>6, <1>7, <1>8, Zenon

(* A string of bytes that are not zero is one.                             *)
LEMMA TextOfBytes ==
  ASSUME NEW s \in Seq(Bytes)
  PROVE  IsText(value_string_new(s)) /\ Proper(value_string_new(s))
<1>1. Bytes \subseteq Nat \ {0}
  BY DEF Bytes
<1>2. s \in Seq(Nat \ {0})
  BY <1>1, SeqMonotonic
<1> QED BY <1>2, Zenon DEF IsText, Proper

(* Operators.                                                              *)
LEMMA ArithmeticIsProper ==
  ASSUME NEW t \in Arithmetic, NEW l \in Operand, NEW r \in Operand
  PROVE  Proper(Arith(t, l, r))
<1>1. CASE Number(l) /\ Number(r)
  <2> DEFINE x == Arith(t, l, r)
  <2>1. IsFailure(x) \/ IsInteger(x) \/ x.type = "float"
    BY <1>1, ArithmeticOfNumbers
  <2> HIDE DEF x
  <2> QED BY <2>1, Zenon DEF Proper, x
<1>2. CASE ~(Number(l) /\ Number(r))
  <2>1. ~(value_is_numeric(l) /\ value_is_numeric(r))
    BY <1>2, NumberOrText
  <2>2. CASE Text(l) /\ Text(r) /\ t = "+"
    <3>1. Arith(t, l, r) = value_string_new(l.str \o r.str)
      BY <2>2, TextIs DEF Arith, expr_eval_op_binary_arith
    <3>2. l.str \o r.str \in Seq(Bytes)
      BY <2>2, TextIs, ConcatProperties
    <3> QED BY <3>1, <3>2, TextOfBytes
  <2>3. CASE ~(Text(l) /\ Text(r) /\ t = "+")
    <3>1. ~(value_is_string(l) /\ value_is_string(r) /\ t = "+")
      BY <2>3, NumberOrText
    <3>2. Arith(t, l, r) = Error("type mismatch")
      BY <2>1, <3>1 DEF Arith, expr_eval_op_binary_arith
    <3> QED BY <3>2, Zenon DEF Proper, IsFailure
  <2> QED BY <2>2, <2>3
<1> QED BY <1>1, <1>2

(* A comparison gives TRUE, FALSE or an error.                             *)
LEMMA ComparisonIs ==
  ASSUME NEW t \in Comparisons, NEW l, NEW r
  PROVE  Comp(t, l, r) \in {Error("type mismatch"), value_int_new(-1), value_int_new(0)}
<1>1. \A b : Truth(b) \in {value_int_new(-1), value_int_new(0)}
  BY DEF Truth
<1>2. CASE value_is_string(l) # value_is_string(r)
  BY <1>2, Zenon DEF Comp, expr_eval_op_binary_comp
<1>3. CASE value_is_string(l) = value_is_string(r)
  <2>1. Comp(t, l, r) =
          CASE t = "="  -> Truth(Equals(l, r))
            [] t = "<>" -> Truth(~Equals(l, r))
            [] t = "<"  -> Truth(Less(l, r))
            [] t = "<=" -> Truth(Less(l, r) \/ Equals(l, r))
            [] t = ">"  -> Truth(~(Less(l, r) \/ Equals(l, r)))
            [] t = ">=" -> Truth(~Less(l, r))
    BY <1>3, Zenon DEF Comp, expr_eval_op_binary_comp
  <2>2. \/ Comp(t, l, r) = Truth(Equals(l, r)) \/ Comp(t, l, r) = Truth(~Equals(l, r))
        \/ Comp(t, l, r) = Truth(Less(l, r)) \/ Comp(t, l, r) = Truth(~Less(l, r))
        \/ Comp(t, l, r) = Truth(Less(l, r) \/ Equals(l, r))
        \/ Comp(t, l, r) = Truth(~(Less(l, r) \/ Equals(l, r)))
    BY <2>1 DEF Comparisons
  <2> QED BY <1>1, <2>2
<1> QED BY <1>2, <1>3

(* An integer is a proper outcome.                                         *)
LEMMA IntegerIsProper ==
  ASSUME NEW k \in IntRange
  PROVE  Proper(value_int_new(k))
  BY Zenon DEF Proper, IsInteger

(* An error is a proper outcome.                                           *)
LEMMA ErrorIsProper == \A code : Proper(Error(code))
  BY Zenon DEF Proper, IsFailure

(* The outcome of a unary minus is proper.                                 *)
LEMMA MinusIsProper ==
  ASSUME NEW v \in Operand
  PROVE  Proper(expr_eval_op_unary_minus(v))
<1>1. CASE value_is_float(v)
  <2>1. expr_eval_op_unary_minus(v) = [v EXCEPT !.num = -v.num]
    BY <1>1 DEF expr_eval_op_unary_minus, Minus
  <2>2. v = value_float_new(v.num, v.den)
    BY <1>1, OperandIs
  <2> DEFINE f == value_float_new(v.num, v.den)
  <2>3. [f EXCEPT !.num = -v.num].type = "float"
    BY DEF value_float_new
  <2>4. [v EXCEPT !.num = -v.num].type = "float"
    <3> HIDE DEF f
    <3>1. v = f
      BY <2>2 DEF f
    <3> QED BY <2>3, <3>1
  <2> QED BY <2>1, <2>4 DEF Proper
<1>2. CASE ~value_is_float(v) /\ value_is_int(v)
  <2>1. expr_eval_op_unary_minus(v) = value_int_new(Wrap(-v.num))
    BY <1>2 DEF expr_eval_op_unary_minus
  <2>2. v.num \in Int
    BY <1>2, OperandIs, Bounds
  <2>3. -v.num \in Int
    BY <2>2
  <2> QED BY <2>1, <2>3, WrappedIs, Zenon DEF Proper
<1>3. CASE ~value_is_float(v) /\ ~value_is_int(v)
  BY <1>3, ErrorIsProper DEF expr_eval_op_unary_minus
<1> QED BY <1>1, <1>2, <1>3

(* The outcome of NOT is proper.                                           *)
LEMMA NotIsProper ==
  ASSUME NEW v
  PROVE  Proper(expr_eval_op_unary_not(v))
  BY FromBitsFits, IntegerIsProper, ErrorIsProper, Zenon DEF expr_eval_op_unary_not

(* An integer below zero comes from a number below zero, or it is the      *)
(* smallest integer, which a number out of range gives; that one is a      *)
(* multiple of every size there is.                                        *)
LEMMA NegativeIs ==
  ASSUME NEW v, Number(v), value_int(v) < 0
  PROVE  v.num < 0 \/ value_int(v) = IntMin
<1> DEFINE n == v.num
           d == v.den
           q == Quotient(n, d)
<1>1. n \in Int /\ d \in Int /\ d > 0 /\ d # 0
  BY NumberIs
<1>2. value_int(v) = IF q \in IntRange THEN q ELSE IntMin
  BY DEF value_int
<1>3. ~(n < 0) => q >= 0
  <2>1. ~(n < 0) => q = (n \div d)
    BY <1>1 DEF Quotient, Magnitude
  <2> HIDE DEF n, d
  <2>2. ~(n < 0) => (n \div d) \in Nat
    BY <1>1
  <2> QED BY <2>1, <2>2
<1>4. q \in Int
  BY <1>1, DivisionIs
<1> HIDE DEF n, q
<1> QED BY <1>2, <1>3, <1>4, Bounds DEF n

(* The byte of a count is below 256, and negative only for such a count.   *)
LEMMA RemainderOfCount ==
  ASSUME NEW v, Number(v)
  PROVE  LET n == Remainder(value_int(v), Byte)
         IN  n \in Int /\ -Byte < n /\ n < Byte /\ (n < 0 => v.num < 0)
<1> DEFINE c == value_int(v)
           n == Remainder(c, Byte)
<1>1. c \in IntRange /\ c \in Int /\ Byte \in Int /\ Byte # 0 /\ Magnitude(Byte) = Byte
  BY IntegerOf, Bounds, Sizes DEF Magnitude
<1>2. c < 0 => v.num < 0 \/ c = IntMin
  BY NegativeIs
<1> HIDE DEF c
<1>3. /\ n \in Int /\ Magnitude(n) < Byte /\ (n = 0 \/ (n < 0) = (c < 0))
      /\ n = 0 <=> (c % Byte) = 0
  BY <1>1, DivisionIs
<1>4. (IntMin % Byte) = 0
  <2> DEFINE m == IntMax + 1
             q == m \div Byte
             p == -q
  <2>1. (m % Byte) = 0 /\ m \in Nat /\ IntMin = -m
    BY SizesAssumption, Bounds
  <2> HIDE DEF m
  <2>2. m = Byte * q + 0 /\ q \in Int
    BY <2>1, Sizes
  <2> HIDE DEF q
  <2>3. IntMin = Byte * p + 0 /\ p \in Int
    BY <2>1, <2>2, Sizes
  <2> HIDE DEF p
  <2>4. IntMin \in Int /\ Byte \in Nat \ {0} /\ 0 \in 0..(Byte - 1)
    BY Bounds, Sizes
  <2> QED BY <2>3, <2>4
<1>5. -Byte < n /\ n < Byte
  <2> HIDE DEF n
  <2> QED BY <1>1, <1>3 DEF Magnitude
<1>6. n < 0 => v.num < 0
  <2> HIDE DEF n
  <2> QED BY <1>2, <1>3, <1>4
<1> QED BY <1>3, <1>5, <1>6 DEF n, c

(* What only a negative count can cause.                                   *)
Runaway(x, a) ==
  /\ x \in {Overrun, Endless, NoMemory}
  /\ \E i \in DOMAIN a : value_is_numeric(a[i]) /\ a[i].num < 0

(* Functions of one operand.                                               *)
LEMMA UnaryIsProper ==
  ASSUME NEW t \in Unary, NEW a, DOMAIN a = 1..1, a[1] \in Operand
  PROVE  Proper(Function(t, a)) \/ Runaway(Function(t, a), a)
<1> DEFINE v == a[1]
           x == UnaryFunction(t, v)
<1>1. 1 \in DOMAIN a
  OBVIOUS
<1>2. CASE Function(t, a) = Error("type mismatch")
  BY <1>2, ErrorIsProper
<1>3. CASE \A i \in DOMAIN a : Suits(a[i], Wanted(t)[i])
  <2>1. Function(t, a) = x
    <3>1. t \notin {"LEFT$", "RIGHT$", "STRING$", "MID$", "INSTR"}
      BY DEF Unary
    <3> QED BY <1>3, <3>1, FunctionIs
  <2>2. Suits(v, Wanted(t)[1])
    BY <1>1, <1>3
  <2>3. CASE t \in {"ASC", "LEN"}
    <3>1. Text(v)
      <4>1. Wanted(t)[1] = "string"
        BY <2>3 DEF Wanted
      <4>2. value_is_string(v)
        BY <2>2, <4>1 DEF Suits, value_is_string
      <4> QED BY <4>2, NumberOrText
    <3>2. v.str \in Seq(Bytes) /\ Len(v.str) \in IntRange
      BY <3>1, TextIs, Bounds
    <3>3. x \in {value_int_new(FirstChar(v.str)), value_int_new(Len(v.str))}
      BY <2>3 DEF UnaryFunction, expr_eval_func_asc, expr_eval_func_len
    <3>4. FirstChar(v.str) \in IntRange
      <4> DEFINE s == v.str
      <4>1. CASE s = <<>>
        BY <4>1, Bounds DEF FirstChar
      <4>2. CASE s # <<>>
        <5>1. Head(s) \in 1..(Byte - 1)
          BY <3>2, <4>2, HeadTailProperties DEF Bytes
        <5> HIDE DEF s
        <5>2. /\ Head(s) \in IntRange /\ 2 * Head(s) \in Int
              /\ Head(s) - Byte \in IntRange
          BY <5>1, Sizes, Bounds
        <5> QED BY <4>2, <5>2 DEF FirstChar, s
      <4> QED BY <4>1, <4>2
    <3> QED BY <2>1, <3>2, <3>3, <3>4, IntegerIsProper
  <2>4. CASE t \notin {"ASC", "LEN"}
    <3>1. Number(v)
      <4>1. Wanted(t)[1] = "number"
        <5>1. t \notin Binary /\ t # "MID$" /\ t # "INSTR"
          BY DEF Unary, Binary
        <5>2. Wanted(t) = <<"number">>
          BY <2>4, <5>1 DEF Wanted
        <5> QED BY <5>2
      <4>2. ~value_is_string(v)
        BY <2>2, <4>1 DEF Suits, value_is_string
      <4> QED BY <4>2, NumberOrText
    <3>2. v.num \in Int /\ v.den \in Nat \ {0}
      BY <3>1, NumberIs
    <3>3. value_int(v) \in Int
      BY <3>1, IntegerOf, Bounds
    <3>4. CASE t = "ABS"
      <4>1. x = expr_eval_func_abs(v)
        BY <3>4 DEF UnaryFunction
      <4>2. CASE value_is_float(v)
        <5> DEFINE f == value_float_new(v.num, v.den)
        <5>1. v = f
          BY <3>1, <4>2, NumberIs
        <5>2. [f EXCEPT !.num = Magnitude(@)].type = "float"
          BY DEF value_float_new
        <5> HIDE DEF f
        <5>3. x = [f EXCEPT !.num = Magnitude(@)]
          BY <4>1, <4>2, <5>1, Zenon DEF expr_eval_func_abs
        <5> HIDE DEF x
        <5>4. x.type = "float"
          BY <5>2, <5>3
        <5> QED BY <2>1, <5>4 DEF Proper
      <4>3. CASE ~value_is_float(v)
        <5>1. x = value_int_new(Wrap(Magnitude(v.num)))
          BY <4>1, <4>3 DEF expr_eval_func_abs
        <5>2. Magnitude(v.num) \in Int
          BY <3>2, MagnitudeIs
        <5> QED BY <2>1, <5>1, <5>2, WrappedIs, Zenon DEF Proper
      <4> QED BY <4>2, <4>3
    <3>5. CASE t = "SGN"
      <4>1. x \in {value_int_new(0), value_int_new(-1), value_int_new(1)}
        BY <3>5 DEF UnaryFunction, expr_eval_func_sgn
      <4>2. 0 \in IntRange /\ -1 \in IntRange /\ 1 \in IntRange
        BY Bounds, Sizes
      <4> QED BY <2>1, <4>1, <4>2, IntegerIsProper
    <3>6. CASE t = "INT"
      <4> DEFINE floor == v.num \div v.den
      <4>1. x = value_int_new(IF floor \in IntRange THEN floor ELSE IntMin)
        BY <3>6 DEF UnaryFunction, expr_eval_func_int
      <4> HIDE DEF floor
      <4>2. (IF floor \in IntRange THEN floor ELSE IntMin) \in IntRange
        BY Bounds
      <4> QED BY <2>1, <4>1, <4>2, IntegerIsProper
    <3>7. CASE t = "SPC"
      <4> DEFINE n == Remainder(value_int(v), Byte)
      <4>1. x = IF n < 0 THEN Overrun ELSE value_string_new([i \in 1..n |-> 32])
        BY <3>7 DEF UnaryFunction, expr_eval_func_spc
      <4>2. n \in Int /\ (n < 0 => v.num < 0)
        BY <3>1, RemainderOfCount
      <4> HIDE DEF n
      <4>3. CASE n < 0
        <5>1. Runaway(x, a)
          BY <1>1, <3>1, <4>1, <4>2, <4>3 DEF Runaway, Number
        <5> QED BY <2>1, <5>1
      <4>4. CASE ~(n < 0)
        <5>1. [i \in 1..n |-> 32] \in Seq(Nat \ {0})
          BY <4>2, <4>4
        <5>2. x = value_string_new([i \in 1..n |-> 32])
          BY <4>1, <4>4
        <5> QED BY <2>1, <5>1, <5>2, Zenon DEF Proper, IsText
      <4> QED BY <4>3, <4>4
    <3>8. CASE t = "CHR$"
      <4> DEFINE b == value_int(v) % Byte
                 s == IF b = 0 THEN <<>> ELSE <<b>>
      <4>1. x = value_string_new(s)
        BY <3>8 DEF UnaryFunction, expr_eval_func_chrs, CString
      <4>2. b \in 0..(Byte - 1)
        BY <3>3, Sizes
      <4> HIDE DEF b
      <4>3. b # 0 => b \in Bytes
        BY <4>2, Sizes DEF Bytes
      <4>4. s \in Seq(Bytes)
        BY <4>3
      <4> QED BY <2>1, <4>1, <4>4, TextOfBytes
    <3> QED BY <2>4, <3>4, <3>5, <3>6, <3>7, <3>8 DEF Unary
  <2> QED BY <2>3, <2>4
<1> QED BY <1>2, <1>3, FunctionIs

(* Functions of a string and a count.                                      *)
LEMMA BinaryIsProper ==
  ASSUME NEW t \in Binary, NEW a, DOMAIN a = 1..2, a[1] \in Operand, a[2] \in Operand
  PROVE  Proper(Function(t, a)) \/ Runaway(Function(t, a), a)
<1> DEFINE s == a[1].str
           w == a[2]
<1>1. 2 \in DOMAIN a
  OBVIOUS
<1>2. CASE Function(t, a) = Error("type mismatch")
  BY <1>2, ErrorIsProper
<1>3. CASE value_is_string(a[1]) /\ ~value_is_string(w)
  <2>1. Number(w) /\ s \in Seq(Bytes) /\ Len(s) \in Nat
    BY <1>3, NumberOrText, TextIs, Bounds
  <2>2. Function(t, a) =
          IF t = "LEFT$" THEN expr_eval_func_lefts(s, w)
          ELSE IF t = "RIGHT$" THEN expr_eval_func_rights(s, w)
          ELSE expr_eval_func_strings(s, w)
    BY <1>3, BinaryIs
  <2> DEFINE c == value_int(w)
             k == size_t(c)
  <2>3. c \in Int
    BY <2>1, IntegerOf, Bounds
  <2>4. k \in Nat
    <3> HIDE DEF c
    <3> QED BY <2>3, SizeIs
  <2>5. ASSUME NEW i \in 0..Len(s) PROVE Proper(value_string_new(Cut(s, i, k)))
    <3> HIDE DEF s, k
    <3> QED BY <2>1, <2>4, <2>5, CutIs, TextOfBytes
  <2>6. CASE t = "LEFT$"
    <3>1. Function(t, a) = value_string_new(Cut(s, 0, k))
      BY <2>2, <2>6 DEF expr_eval_func_lefts
    <3>2. 0 \in 0..Len(s)
      BY <2>1
    <3> QED BY <2>5, <3>1, <3>2
  <2>7. CASE t = "RIGHT$"
    <3>1. Function(t, a) = value_string_new(IF k < Len(s) THEN Cut(s, Len(s) - k, k) ELSE s)
      BY <2>2, <2>7 DEF expr_eval_func_rights
    <3> HIDE DEF s, k
    <3>2. k < Len(s) => Len(s) - k \in 0..Len(s)
      BY <2>1, <2>4
    <3> QED BY <2>1, <2>5, <3>1, <3>2, TextOfBytes
  <2>8. CASE t = "STRING$"
    <3> DEFINE n == Remainder(c, Byte)
               m == size_t(n)
    <3>1. Function(t, a) =
            IF m < Byte THEN value_string_new(Copies(m, s))
            ELSE IF s = <<>> THEN Endless
            ELSE IF size_t(m * Len(s) + 1) = 0 THEN Overrun
            ELSE NoMemory
      BY <2>2, <2>8 DEF expr_eval_func_strings
    <3>2. n \in Int /\ n < Byte /\ (n < 0 => w.num < 0)
      BY <2>1, RemainderOfCount
    <3> HIDE DEF n
    <3>3. m \in Nat /\ (~(n < 0) => m < Byte)
      <4>1. ~(n < 0) => n \in 0..(SizeMod - 1)
        BY <3>2, Sizes, Bounds
      <4> QED BY <3>2, <4>1, SizeIs
    <3> HIDE DEF m, s
    <3>4. CASE m < Byte
      <4>1. Copies(m, s) \in Seq(Bytes)
        BY <2>1, <3>3, CopiesIs
      <4> QED BY <3>1, <3>4, <4>1, TextOfBytes
    <3>5. CASE ~(m < Byte)
      <4>1. Function(t, a) \in {Overrun, Endless, NoMemory}
        BY <3>1, <3>5
      <4>2. value_is_numeric(w) /\ w.num < 0
        BY <2>1, <3>2, <3>3, <3>5 DEF Number
      <4> QED BY <1>1, <4>1, <4>2, Zenon DEF Runaway
    <3> QED BY <3>4, <3>5
  <2> QED BY <2>6, <2>7, <2>8 DEF Binary
<1> QED BY <1>2, <1>3, BinaryIs

(* MID$.                                                                   *)
LEMMA MidsIsProper ==
  ASSUME NEW a, DOMAIN a = 1..3, \A i \in DOMAIN a : a[i] \in Operand
  PROVE  Proper(Function("MID$", a)) \/ Runaway(Function("MID$", a), a)
<1> DEFINE s == a[1].str
           w == a[3]
           v == a[2]
<1>1. a[1] \in Operand /\ v \in Operand /\ w \in Operand /\ 3 \in DOMAIN a
  OBVIOUS
<1>2. CASE ~(value_is_string(a[1]) /\ ~value_is_string(v) /\ ~value_is_string(w))
  <2>1. Wanted("MID$")[1] = "string" /\ Wanted("MID$")[2] = "number" /\ Wanted("MID$")[3] = "number"
    BY WantedIs
  <2>2. ~(\A i \in DOMAIN a : Suits(a[i], Wanted("MID$")[i]))
    <3>1. 1 \in DOMAIN a /\ 2 \in DOMAIN a
      OBVIOUS
    <3>2. ~Suits(a[1], Wanted("MID$")[1]) \/ ~Suits(v, Wanted("MID$")[2]) \/ ~Suits(w, Wanted("MID$")[3])
      BY <1>2, <2>1 DEF Suits, value_is_string
    <3> QED BY <1>1, <3>1, <3>2, Zenon
  <2> QED BY <2>2, FunctionIs, ErrorIsProper
<1>3. CASE value_is_string(a[1]) /\ ~value_is_string(v) /\ ~value_is_string(w)
  <2>1. Number(v) /\ Number(w) /\ s \in Seq(Bytes) /\ Len(s) \in 0..IntMax
    BY <1>1, <1>3, NumberOrText, TextIs
  <2> DEFINE c == value_int(w)
             from == size_t(value_int(v))
             len == size_t(c)
             start == IF from > Len(s) THEN Len(s) ELSE IF from # 0 THEN from - 1 ELSE 0
  <2>2. Function("MID$", a) = expr_eval_func_mids(s, v, w)
    BY <1>3, MidsIs
  <2>3. expr_eval_func_mids(s, v, w) =
          IF size_t(start + len) >= Len(s) THEN value_string_new(Cut(s, start, Len(s)))
          ELSE IF len > Len(s) - start THEN Overrun
          ELSE value_string_new(Cut(s, start, len))
    BY Zenon DEF expr_eval_func_mids
  <2>4. c \in IntRange /\ c \in Int /\ value_int(v) \in Int
    BY <2>1, IntegerOf, Bounds
  <2>5. from \in Nat
    BY <2>4, SizeIs
  <2> HIDE DEF from
  <2>6. start \in 0..Len(s)
    BY <2>1, <2>5
  <2> HIDE DEF c
  <2>7. /\ len \in 0..(SizeMod - 1)
        /\ c >= 0 => len = c
        /\ c < 0 => len = SizeMod + c
    <3>1. c >= 0 => c \in 0..(SizeMod - 1)
      BY <2>4, Sizes, Bounds
    <3> QED BY <2>4, <3>1, SizeIs
  <2> HIDE DEF len, start, s
  <2>8. Len(s) \in Nat /\ len \in Nat
    BY <2>1, <2>7
  <2>9. Proper(value_string_new(Cut(s, start, Len(s)))) /\ Proper(value_string_new(Cut(s, start, len)))
    BY <2>1, <2>6, <2>8, CutIs, TextOfBytes
  <2>10. ASSUME ~(size_t(start + len) >= Len(s)), len > Len(s) - start PROVE w.num < 0
    <3>1. start + len \in Int /\ ~(start + len \in 0..(SizeMod - 1))
      <4>1. start + len \in 0..(SizeMod - 1) => size_t(start + len) = start + len
        BY SizeIs
      <4> QED BY <2>1, <2>6, <2>8, <2>10, <4>1
    <3>2. c < 0 /\ c # IntMin
      BY <2>1, <2>4, <2>6, <2>7, <3>1, Sizes, Bounds
    <3> QED BY <2>1, <3>2, NegativeIs DEF c
  <2>11. value_is_numeric(w)
    BY <2>1 DEF Number
  <2>12. CASE ~(size_t(start + len) >= Len(s)) /\ len > Len(s) - start
    <3>1. Function("MID$", a) = Overrun /\ w.num < 0
      BY <2>2, <2>3, <2>10, <2>12
    <3> QED BY <1>1, <2>11, <3>1 DEF Runaway
  <2>13. CASE ~(~(size_t(start + len) >= Len(s)) /\ len > Len(s) - start)
    <3>1. \/ Function("MID$", a) = value_string_new(Cut(s, start, Len(s)))
          \/ Function("MID$", a) = value_string_new(Cut(s, start, len))
      BY <2>2, <2>3, <2>13
    <3> QED BY <2>9, <3>1
  <2> QED BY <2>12, <2>13
<1> QED BY <1>2, <1>3

(* INSTR.                                                                  *)
LEMMA InstrIsProper ==
  ASSUME NEW a, DOMAIN a = 1..3, \A i \in DOMAIN a : a[i] \in Operand
  PROVE  Proper(Function("INSTR", a))
<1> DEFINE h == a[1].str
           n == a[2].str
           w == a[3]
<1>1. a[1] \in Operand /\ a[2] \in Operand /\ w \in Operand
  OBVIOUS
<1>2. CASE Function("INSTR", a) = Error("type mismatch")
  BY <1>2, ErrorIsProper
<1>3. CASE value_is_string(a[1]) /\ value_is_string(a[2]) /\ ~value_is_string(w)
  <2>1. Text(a[1]) /\ Text(a[2]) /\ Number(w) /\ Len(h) \in 0..IntMax
    BY <1>1, <1>3, NumberOrText, TextIs
  <2> DEFINE r == expr_eval_func_instr(h, n, w)
  <2>2. Function("INSTR", a) = r
    BY <1>3, InstrIs
  <2>3. CASE n = <<>>
    <3>1. r = value_int_new(1)
      BY <2>3, Zenon DEF expr_eval_func_instr
    <3>2. 1 \in IntRange
      BY Bounds, Sizes
    <3> QED BY <2>2, <3>1, <3>2, IntegerIsProper
  <2>4. CASE n # <<>>
    <3> DEFINE k == size_t(value_int(w))
               start == IF k = 0 THEN 0 ELSE k - 1
               found == {i \in 0..(Len(h) - 1) : i >= start /\ Occurs(n, h, i)}
               f == CHOOSE i \in found : \A j \in found : i <= j
    <3>1. r = IF found = {} THEN value_int_new(0) ELSE value_int_new(f + 1)
      BY <2>4, Zenon DEF expr_eval_func_instr
    <3>2. found \subseteq 0..(Len(h) - 1)
      OBVIOUS
    <3>3. found # {} => f \in found
      <4>1. found \subseteq Nat
        BY <2>1, <3>2
      <4> HIDE DEF found
      <4>2. found # {} => \E i \in found : \A j \in found : i <= j
        BY <4>1, LeastOfNaturals
      <4> QED BY <4>2, Zenon
    <3> HIDE DEF f, found, h
    <3>4. found # {} => f + 1 \in IntRange
      <4>1. found # {} => f \in 0..(Len(h) - 1)
        BY <3>2, <3>3, Zenon
      <4> QED BY <2>1, <4>1, Bounds
    <3>5. 0 \in IntRange
      BY Bounds
    <3> HIDE DEF r
    <3> QED BY <2>2, <3>1, <3>4, <3>5, IntegerIsProper
  <2> QED BY <2>3, <2>4
<1> QED BY <1>2, <1>3, InstrIs

(* What any evaluation of operands gives.                                  *)
LEMMA EvaluationIsProper ==
  ASSUME NEW t \in Operations, NEW a \in [1..Arity(t) -> Operand]
  PROVE  Proper(Evaluation(t, a)) \/ Runaway(Evaluation(t, a), a)
<1>1. Arity(t) \in {1, 2, 3} /\ DOMAIN a = 1..Arity(t)
  BY DEF Arity
<1>2. \A i \in DOMAIN a : a[i] \in Operand
  OBVIOUS
<1>3. a[1] \in Operand
  BY <1>1
<1>4. CASE t \in Arithmetic
  <2>1. Arity(t) = 2
    BY <1>4 DEF Arithmetic, Arity, Unary, Ternary
  <2>2. a[2] \in Operand
    BY <2>1
  <2> QED BY <1>3, <1>4, <2>2, ArithmeticIsProper DEF Evaluation, Arith
<1>5. CASE t \in Comparisons
  <2>1. t \notin Arithmetic
    BY <1>5 DEF Arithmetic, Comparisons
  <2>2. Evaluation(t, a) = Comp(t, a[1], a[2])
    BY <1>5, <2>1 DEF Evaluation, Comp
  <2>3. Evaluation(t, a) \in {Error("type mismatch"), value_int_new(-1), value_int_new(0)}
    BY <1>5, <2>2, ComparisonIs
  <2>4. -1 \in IntRange /\ 0 \in IntRange
    BY Bounds
  <2> QED BY <2>3, <2>4, IntegerIsProper, ErrorIsProper
<1>6. CASE t \in {"minus", "NOT"}
  <2>1. t \notin Arithmetic /\ t \notin Comparisons
    BY <1>6 DEF Arithmetic, Comparisons
  <2> QED BY <1>3, <1>6, <2>1, MinusIsProper, NotIsProper DEF Evaluation
<1>7. CASE t \in Unary \cup Binary \cup Ternary
  <2>1. t \notin Arithmetic /\ t \notin Comparisons /\ t \notin {"minus", "NOT"}
    BY <1>7 DEF Arithmetic, Comparisons, Unary, Binary, Ternary
  <2>2. Evaluation(t, a) = Function(t, a)
    BY <2>1, Zenon DEF Evaluation
  <2>3. CASE t \in Unary
    <3>1. Arity(t) = 1
      BY <2>3 DEF Arity, Unary, Ternary
    <3> QED BY <1>1, <1>3, <2>2, <2>3, <3>1, UnaryIsProper
  <2>4. CASE t \in Binary
    <3>1. Arity(t) = 2
      BY <2>4 DEF Arity, Unary, Binary, Ternary
    <3>2. a[2] \in Operand
      BY <3>1
    <3> QED BY <1>1, <1>3, <2>2, <2>4, <3>1, <3>2, BinaryIsProper
  <2>5. CASE t \in Ternary
    <3>1. Arity(t) = 3 /\ t \in {"MID$", "INSTR"}
      BY <2>5 DEF Arity, Ternary
    <3> QED BY <1>1, <1>2, <2>2, <3>1, MidsIsProper, InstrIsProper
  <2> QED BY <1>7, <2>3, <2>4, <2>5
<1> QED BY <1>4, <1>5, <1>6, <1>7 DEF Operations

(* Integers and floats make what the comments at expr_ops.c:255 and 337    *)
(* say, comparisons TRUE or FALSE, no string holds a zero byte, and only a *)
(* negative count makes a function write where it must not or never end.   *)
THEOREM ResultsHaveTheirTypes == Spec => []TypeOK
<1>1. Evaluated => TypeOK
  <2> SUFFICES ASSUME Evaluated PROVE TypeOK
    OBVIOUS
  <2>1. op \in Operations /\ args \in [1..Arity(op) -> Operand]
        /\ (Done => result = Evaluation(op, args))
    BY Zenon DEF Evaluated, Done
  <2>2. Proper(Evaluation(op, args)) \/ Runaway(Evaluation(op, args), args)
    BY <2>1, EvaluationIsProper
  <2>3. Pending \notin {Overrun, Endless, NoMemory}
    BY DEF Pending, Overrun, Endless, NoMemory
  <2>4. result \in {Overrun, Endless, NoMemory} =>
          \E i \in DOMAIN args : value_is_numeric(args[i]) /\ args[i].num < 0
    <3>1. CASE Done /\ Runaway(result, args)
      BY <3>1, Zenon DEF Runaway
    <3>2. CASE Done /\ Proper(result)
      BY <3>2, ProperIs
    <3>3. CASE ~Done
      BY <3>3, <2>3, Zenon DEF Done
    <3> QED BY <3>1, <3>2, <3>3, <2>1, <2>2, Zenon
  <2>5. ASSUME Done, HasValue PROVE Proper(result)
    <3>1. result \notin {Overrun, Endless, NoMemory}
      <4>1. /\ Overrun.type = "overrun" /\ Endless.type = "endless"
            /\ NoMemory.type = "no memory"
        BY DEF Overrun, Endless, NoMemory
      <4> QED BY <2>5, <4>1 DEF HasValue
    <3> QED BY <2>1, <2>2, <2>5, <3>1, Zenon DEF Runaway
  <2>6. ASSUME Done, HasValue, op \in Comparisons
        PROVE  result \in {value_int_new(-1), value_int_new(0)}
    <3>1. op \notin Arithmetic
      BY <2>6 DEF Arithmetic, Comparisons
    <3>2. result = Comp(op, args[1], args[2])
      BY <2>1, <2>6, <3>1, Zenon DEF Evaluation, Comp
    <3>3. result # Error("type mismatch")
      BY <2>6, ValueIsNoError
    <3> QED BY <2>6, <3>2, <3>3, ComparisonIs
  <2>7. ASSUME Done, HasValue, op \in Arithmetic, Numbers
        PROVE  result.type = "int" <=> MakesInteger(op, args[1], args[2])
    <3>1. Arity(op) = 2
      BY <2>7 DEF Arithmetic, Arity, Unary, Ternary
    <3>2. 1 \in DOMAIN args /\ 2 \in DOMAIN args /\ args[1] \in Operand /\ args[2] \in Operand
      BY <2>1, <3>1
    <3>3. Number(args[1]) /\ Number(args[2])
      BY <2>7, <3>2 DEF Number, Numbers
    <3>4. result = Arith(op, args[1], args[2])
      BY <2>1, <2>7, Zenon DEF Evaluation, Arith
    <3>5. \/ IsFailure(result)
          \/ IsInteger(result) /\ MakesInteger(op, args[1], args[2])
          \/ result.type = "float" /\ ~MakesInteger(op, args[1], args[2])
      BY <2>7, <3>3, <3>4, ArithmeticOfNumbers
    <3>6. ~IsFailure(result)
      BY <2>7 DEF HasValue, IsFailure, Trap, Error
    <3>7. IsInteger(result) => result.type = "int"
      BY DEF IsInteger, value_int_new
    <3>8. result.type = "float" => result.type # "int"
      OBVIOUS
    <3> QED BY <3>5, <3>6, <3>7, <3>8, Zenon
  <2>8. Done /\ HasValue =>
          /\ result.type = "int" => result.num \in IntRange /\ result.den = 1
          /\ result.type = "string" =>
               \A i \in DOMAIN result.str : result.str[i] # 0
    BY <2>5, ProperIs, Zenon
  <2> QED BY <2>4, <2>6, <2>7, <2>8, Zenon DEF TypeOK, MakesInteger
<1> QED BY <1>1, EvaluatedHolds, PTL

-----------------------------------------------------------------------------
(* The Boolean operators.                                                  *)

(* Numbers that differ by a multiple of the number of all integers are     *)
(* the same integer.                                                       *)
LEMMA SameWrap ==
  ASSUME NEW x \in Int, NEW y \in Int, NEW k \in Int, x = y + k * (2 * (IntMax + 1))
  PROVE  Wrap(x) = Wrap(y)
<1> DEFINE M == 2 * (IntMax + 1)
           a == x - IntMin
           b == y - IntMin
           q == b \div M
           r == b % M
           p == q + k
<1>1. M \in Nat \ {0} /\ a \in Int /\ b \in Int
  BY Bounds
<1>2. Wrap(x) = (a % M) + IntMin /\ Wrap(y) = (b % M) + IntMin
  BY DEF Wrap
<1>3. a = b + k * M
  BY Bounds
<1> HIDE DEF M, a, b
<1>4. q \in Int /\ r \in 0..(M - 1) /\ b = M * q + r
  BY <1>1
<1> HIDE DEF q
<1>5. p \in Int /\ M * p = M * q + k * M
  BY <1>1, <1>4
<1> HIDE DEF p, r
<1>6. a = M * p + r
  <2>1. M * q \in Int /\ k * M \in Int /\ M * p \in Int
    BY <1>1, <1>4, <1>5
  <2> QED BY <1>1, <1>3, <1>4, <1>5, <2>1
<1>7. (a % M) = r
  BY <1>1, <1>4, <1>5, <1>6
<1> QED BY <1>2, <1>7 DEF r

(* Wrapping part of a sum changes nothing.                                 *)
LEMMA WrapOfSum ==
  ASSUME NEW x \in Int, NEW y \in Int
  PROVE  Wrap(x - Wrap(y)) = Wrap(x - y) /\ Wrap(Wrap(x) - y) = Wrap(x - y)
<1> DEFINE M == 2 * (IntMax + 1)
<1>1. M \in Int
  BY Bounds
<1>2. PICK j \in Int : Wrap(x) = x + j * M
  BY WrapIs
<1>3. PICK k \in Int : Wrap(y) = y + k * M
  BY WrapIs
<1>4. Wrap(x) \in Int /\ Wrap(y) \in Int
  BY WrapIs, Bounds
<1>5. x - Wrap(y) = (x - y) + (-k) * M
  <2>1. (-k) * M = -(k * M) /\ k * M \in Int
    <3> HIDE DEF M
    <3> QED BY <1>1
  <2> HIDE DEF M
  <2> QED BY <1>3, <2>1
<1>6. Wrap(x) - y = (x - y) + j * M
  <2>1. j * M \in Int
    <3> HIDE DEF M
    <3> QED BY <1>1
  <2> HIDE DEF M
  <2> QED BY <1>2, <2>1
<1>7. -k \in Int /\ x - y \in Int /\ x - Wrap(y) \in Int /\ Wrap(x) - y \in Int
  BY <1>4
<1> QED BY <1>5, <1>6, <1>7, SameWrap

(* The sums of bits, place by place.                                       *)
LEMMA SumsAgree ==
  ASSUME NEW B, NEW C
  PROVE  /\ SumBelow(B \cup C)[Width]
              = SumBelow(B)[Width] + SumBelow(C)[Width] - SumBelow(B \cap C)[Width]
         /\ SumBelow(B \ C)[Width] = SumBelow(B)[Width] - SumBelow(B \cap C)[Width]
<1> DEFINE n == Width
           s == SumBelow(B)
           t == SumBelow(C)
           u == SumBelow(B \cup C)
           v == SumBelow(B \cap C)
           w == SumBelow(B \ C)
           P == {i \in 0..n : u[i] + v[i] = s[i] + t[i] /\ w[i] + v[i] = s[i]}
           bit(X, i) == IF i - 1 \in X THEN Weight[i - 1] ELSE 0
<1>1. n \in Nat
  BY WidthIs
<1>2. /\ s[0] = 0 /\ t[0] = 0 /\ u[0] = 0 /\ v[0] = 0 /\ w[0] = 0
      /\ \A i \in 1..n : /\ s[i] = s[i - 1] + bit(B, i) /\ t[i] = t[i - 1] + bit(C, i)
                         /\ u[i] = u[i - 1] + bit(B \cup C, i)
                         /\ v[i] = v[i - 1] + bit(B \cap C, i)
                         /\ w[i] = w[i - 1] + bit(B \ C, i)
      /\ \A i \in 0..n : s[i] \in Nat /\ t[i] \in Nat /\ u[i] \in Nat
                         /\ v[i] \in Nat /\ w[i] \in Nat
  BY FromBitsIs
<1> HIDE DEF s, t, u, v, w
<1>3. 0 \in P
  BY <1>1, <1>2
<1>4. ASSUME NEW i \in 1..n, i - 1 \in P PROVE i \in P
  <2>1. i - 1 \in 0..n /\ i \in 0..n
    BY <1>1
  <2>2. Weight[i - 1] \in Nat
    <3>1. i - 1 \in 0..64
      BY WidthIs
    <3> QED BY <3>1, WeightIs
  <2> DEFINE a == Weight[i - 1]
  <2> HIDE DEF a
  <2>3. /\ bit(B, i) \in Nat /\ bit(C, i) \in Nat
        /\ bit(B \cup C, i) \in Nat /\ bit(B \cap C, i) \in Nat /\ bit(B \ C, i) \in Nat
        /\ bit(B \cup C, i) + bit(B \cap C, i) = bit(B, i) + bit(C, i)
        /\ bit(B \ C, i) + bit(B \cap C, i) = bit(B, i)
    BY <2>2
  <2> HIDE DEF bit
  <2> QED BY <1>2, <1>4, <2>1, <2>3
<1>5. n \in P
  <2>1. \A i \in 0..n : i \in P
    <3> HIDE DEF P, n
    <3> QED BY <1>1, <1>3, <1>4, InductionUpTo
  <2>2. n \in 0..n
    BY <1>1
  <2> HIDE DEF P
  <2> QED BY <2>1, <2>2
<1>6. n \in 0..n
  BY <1>1
<1>7. s[n] \in Nat /\ t[n] \in Nat /\ u[n] \in Nat /\ v[n] \in Nat /\ w[n] \in Nat
  BY <1>2, <1>6
<1>8. u[n] + v[n] = s[n] + t[n] /\ w[n] + v[n] = s[n]
  BY <1>5
<1> HIDE DEF n
<1>9. u[n] = s[n] + t[n] - v[n] /\ w[n] = s[n] - v[n]
  <2> DEFINE a == s[n]
             b == t[n]
             c == u[n]
             d == v[n]
             e == w[n]
  <2>1. a \in Nat /\ b \in Nat /\ c \in Nat /\ d \in Nat /\ e \in Nat
    BY <1>7
  <2>2. c + d = a + b /\ e + d = a
    BY <1>8
  <2> HIDE DEF a, b, c, d, e
  <2>3. c = a + b - d /\ e = a - d
    BY <2>1, <2>2
  <2> QED BY <2>3 DEF a, b, c, d, e
<1> QED BY <1>9, Zenon DEF s, t, u, v, w, n

(* The bits of an integer below a place are what remains of it there.      *)
LEMMA BitsAre ==
  ASSUME NEW n \in Int
  PROVE  SumBelow(Bits(n))[Width] = n % (2 * (IntMax + 1))
<1> DEFINE W == Width
           s == SumBelow(Bits(n))
           P == {i \in 0..W : s[i] = n % Weight[i]}
<1>1. W \in 1..64 /\ W \in Nat
  BY WidthIs
<1>2. /\ s[0] = 0
      /\ \A i \in 1..W :
           s[i] = s[i - 1] + (IF i - 1 \in Bits(n) THEN Weight[i - 1] ELSE 0)
  BY FromBitsIs
<1> HIDE DEF s
<1>3. 0 \in P
  <2>1. n % 1 = 0
    OBVIOUS
  <2> QED BY <1>1, <1>2, <2>1, WeightIs
<1>4. ASSUME NEW i \in 1..W, i - 1 \in P PROVE i \in P
  <2> DEFINE a == Weight[i - 1]
             q == n \div a
             r == n % a
             b == q % 2
             c == q \div 2
             e == a * b + r
  <2>1. i - 1 \in 0..64 /\ i \in 1..64 /\ i - 1 \in 0..(W - 1)
    BY <1>1
  <2>2. a \in Nat \ {0} /\ Weight[i] = 2 * a
    BY <2>1, WeightIs
  <2>3. s[i - 1] = r
    BY <1>4
  <2>4. i - 1 \in Bits(n) <=> b = 1
    BY <2>1 DEF Bits
  <2> HIDE DEF a
  <2>5. q \in Int /\ r \in 0..(a - 1) /\ n = a * q + r
    BY <2>2
  <2> HIDE DEF q, r
  <2>6. b \in {0, 1} /\ c \in Int /\ q = 2 * c + b
    BY <2>5
  <2> HIDE DEF b, c
  <2>7. s[i] = r + a * b
    BY <1>2, <2>2, <2>3, <2>4, <2>5, <2>6 DEF a
  <2>8. a * q = (2 * a) * c + a * b /\ a * b \in {0, a} /\ (2 * a) * c \in Int
    <3>1. a * (2 * c + b) = (2 * a) * c + a * b
      BY <2>2, <2>6
    <3> QED BY <2>2, <2>6, <3>1
  <2>9. e \in 0..(2 * a - 1) /\ n = (2 * a) * c + e
    BY <2>2, <2>5, <2>8
  <2> HIDE DEF e
  <2> DEFINE d == 2 * a
  <2>10. d \in Nat \ {0} /\ e \in 0..(d - 1) /\ n = d * c + e
    BY <2>2, <2>9
  <2> HIDE DEF d
  <2>11. (n % d) = e
    BY <2>6, <2>10
  <2>12. s[i] = e
    BY <2>2, <2>5, <2>7, <2>8 DEF e
  <2>13. i \in 0..W
    BY <1>1
  <2> QED BY <2>2, <2>11, <2>12, <2>13 DEF d
<1>5. W \in P
  <2>1. \A i \in 0..W : i \in P
    <3> HIDE DEF P, W
    <3> QED BY <1>1, <1>3, <1>4, InductionUpTo
  <2>2. W \in 0..W
    BY <1>1
  <2> HIDE DEF P
  <2> QED BY <2>1, <2>2
<1> QED BY <1>5, WidthIs DEF s

(* All bits together are one less than the weight of the next.             *)
LEMMA AllBitsAre == SumBelow(0..(Width - 1))[Width] = 2 * (IntMax + 1) - 1
<1> DEFINE W == Width
           s == SumBelow(0..(W - 1))
           P == {i \in 0..W : s[i] = Weight[i] - 1}
<1>1. W \in 1..64 /\ W \in Nat
  BY WidthIs
<1>2. /\ s[0] = 0
      /\ \A i \in 1..W :
           s[i] = s[i - 1] + (IF i - 1 \in 0..(W - 1) THEN Weight[i - 1] ELSE 0)
  BY FromBitsIs
<1> HIDE DEF s
<1>3. 0 \in P
  BY <1>1, <1>2, WeightIs
<1>4. ASSUME NEW i \in 1..W, i - 1 \in P PROVE i \in P
  <2>1. i - 1 \in 0..64 /\ i \in 1..64 /\ i - 1 \in 0..(W - 1) /\ i \in 0..W
    BY <1>1
  <2>2. Weight[i - 1] \in Nat /\ Weight[i] = 2 * Weight[i - 1]
    BY <2>1, WeightIs
  <2>3. s[i] = s[i - 1] + Weight[i - 1] /\ s[i - 1] = Weight[i - 1] - 1
    BY <1>2, <1>4, <2>1
  <2>4. s[i] = Weight[i] - 1
    BY <2>2, <2>3
  <2> QED BY <2>1, <2>4
<1>5. W \in P
  <2>1. \A i \in 0..W : i \in P
    <3> HIDE DEF P, W
    <3> QED BY <1>1, <1>3, <1>4, InductionUpTo
  <2>2. W \in 0..W
    BY <1>1
  <2> HIDE DEF P
  <2> QED BY <2>1, <2>2
<1> QED BY <1>5, WidthIs DEF s

(* OR is the sum without AND, EOR is OR without AND.                       *)
LEMMA BitwiseAre ==
  ASSUME NEW n \in IntRange, NEW m \in IntRange
  PROVE  /\ Bitwise("OR", n, m) = Wrap(n + m - Bitwise("AND", n, m))
         /\ Bitwise("EOR", n, m) = Wrap(Bitwise("OR", n, m) - Bitwise("AND", n, m))
<1> DEFINE M == 2 * (IntMax + 1)
           b == Bits(n)
           c == Bits(m)
           s == SumBelow(b)[Width]
           t == SumBelow(c)[Width]
           u == SumBelow(b \cup c)[Width]
           v == SumBelow(b \cap c)[Width]
           w == SumBelow((b \cup c) \ (b \cap c))[Width]
<1>1. Width \in 0..Width /\ n \in Int /\ m \in Int /\ M \in Nat \ {0}
  BY WidthIs, Bounds
<1>2. s \in Nat /\ t \in Nat /\ u \in Nat /\ v \in Nat /\ w \in Nat
  BY <1>1, FromBitsIs
<1>3. u = s + t - v
  BY SumsAgree
<1>4. w = u - v
  <2>1. (b \cup c) \cap (b \cap c) = b \cap c
    OBVIOUS
  <2> HIDE DEF b, c
  <2>2. w = u - SumBelow((b \cup c) \cap (b \cap c))[Width]
    BY SumsAgree
  <2> QED BY <2>1, <2>2
<1>5. s = (n % M) /\ t = (m % M)
  BY <1>1, BitsAre
<1>6. /\ Bitwise("AND", n, m) = Wrap(v)
      /\ Bitwise("OR", n, m) = Wrap(u)
      /\ Bitwise("EOR", n, m) = Wrap(w)
  BY FromBitsIs DEF Bitwise
<1> DEFINE j == n \div M
           k == m \div M
           i == j + k
<1> HIDE DEF s, t, u, v, w, M
<1>7. j \in Int /\ k \in Int /\ n = M * j + s /\ m = M * k + t
  BY <1>1, <1>5
<1> HIDE DEF j, k
<1>8. n + m - v = u + i * M /\ i \in Int
  <2>1. i * M = M * j + M * k /\ M * j \in Int /\ M * k \in Int /\ i \in Int
    BY <1>1, <1>7
  <2> HIDE DEF i
  <2> QED BY <1>2, <1>3, <1>7, <2>1
<1>9. Wrap(n + m - v) = Wrap(u)
  <2>1. n + m - v \in Int /\ u \in Int
    BY <1>1, <1>2
  <2> HIDE DEF i
  <2> QED BY <1>8, <2>1, SameWrap DEF M
<1>10. Wrap(n + m - Wrap(v)) = Wrap(n + m - v)
  <2> DEFINE a == n + m
  <2>1. a \in Int /\ v \in Int
    BY <1>1, <1>2
  <2> HIDE DEF a
  <2>2. Wrap(a - Wrap(v)) = Wrap(a - v)
    BY <2>1, WrapOfSum
  <2>3. Wrap(v) \in Int /\ n \in Int /\ m \in Int
    BY <1>1, <2>1, WrapIs, Bounds
  <2> DEFINE p == Wrap(v)
  <2> HIDE DEF p
  <2>4. a - p = n + m - p /\ a - v = n + m - v
    BY <2>1, <2>3 DEF a, p
  <2> QED BY <2>2, <2>4 DEF p
<1>11. Wrap(Wrap(u) - Wrap(v)) = Wrap(w)
  <2>1. Wrap(u) \in Int /\ u \in Int /\ v \in Int
    BY <1>2, WrapIs, Bounds
  <2>2. Wrap(Wrap(u) - Wrap(v)) = Wrap(Wrap(u) - v)
    BY <2>1, WrapOfSum
  <2>3. Wrap(Wrap(u) - v) = Wrap(u - v)
    BY <2>1, WrapOfSum
  <2> QED BY <2>2, <2>3, <1>4
<1> QED BY <1>6, <1>9, <1>10, <1>11

(* NOT is the distance from -1.                                            *)
LEMMA NotIs ==
  ASSUME NEW n \in IntRange
  PROVE  FromBits((0..(Width - 1)) \ Bits(n)) = -1 - n
<1> DEFINE M == 2 * (IntMax + 1)
           all == 0..(Width - 1)
           b == Bits(n)
           s == SumBelow(b)[Width]
           w == SumBelow(all \ b)[Width]
<1>1. Width \in 0..Width /\ n \in Int /\ M \in Nat \ {0}
  BY WidthIs, Bounds
<1>2. s \in Nat /\ w \in Nat
  BY <1>1, FromBitsIs
<1>3. w = M - 1 - s
  <2>1. all \cap b = b
    BY DEF Bits
  <2> HIDE DEF all, b
  <2>2. w = SumBelow(all)[Width] - SumBelow(all \cap b)[Width]
    BY SumsAgree
  <2>3. SumBelow(all)[Width] = M - 1
    BY AllBitsAre DEF all
  <2> QED BY <2>1, <2>2, <2>3
<1>4. s = (n % M)
  BY <1>1, BitsAre
<1>5. FromBits(all \ b) = Wrap(w)
  BY FromBitsIs
<1> DEFINE j == n \div M
           i == 1 + j
           x == -1 - n
<1>6. x \in IntRange /\ x \in Int
  BY Bounds
<1> HIDE DEF s, w, M
<1>7. j \in Int /\ n = M * j + s
  BY <1>1, <1>4
<1> HIDE DEF j
<1>8. i \in Int /\ i * M = M + M * j /\ M * j \in Int
  BY <1>1, <1>7
<1>9. w = x + i * M
  <2> HIDE DEF i
  <2> QED BY <1>1, <1>2, <1>3, <1>7, <1>8
<1> HIDE DEF i, x
<1>10. Wrap(w) = Wrap(x)
  BY <1>2, <1>6, <1>8, <1>9, SameWrap DEF M
<1>11. Wrap(x) = x
  BY <1>6, WrapIs
<1> QED BY <1>5, <1>10, <1>11 DEF x, all, b

-----------------------------------------------------------------------------
(* Comparisons.                                                            *)

(* Of two strings exactly one is before the other, or they are the same.   *)
LEMMA StringsAreOrdered ==
  ASSUME NEW s \in Seq(Bytes), NEW u \in Seq(Bytes)
  PROVE  /\ s # u => Before(s, u) \/ Before(u, s)
         /\ ~(Before(s, u) /\ Before(u, s))
         /\ Before(s, u) => s # u
<1>1. Len(s) \in Nat /\ Len(u) \in Nat /\ Bytes \subseteq Nat
  BY LenProperties DEF Bytes
<1>2. (\A i \in 1..Len(s) : s[i] \in Nat) /\ (\A i \in 1..Len(u) : u[i] \in Nat)
  BY <1>1, ElementOfSeq
<1> DEFINE At(a, b, i) == /\ i \in 1..Len(b)
                          /\ \A j \in 1..(i - 1) : j <= Len(a) /\ a[j] = b[j]
                          /\ i > Len(a) \/ (i <= Len(a) /\ a[i] < b[i])
<1>3. /\ Before(s, u) <=> \E i : At(s, u, i)
      /\ Before(u, s) <=> \E i : At(u, s, i)
  BY Zenon DEF Before
<1>4. ASSUME s # u PROVE Before(s, u) \/ Before(u, s)
  <2> DEFINE D == {i \in 1..Len(s) : i > Len(u) \/ s[i] # u[i]}
             E == {i \in 1..Len(u) : i > Len(s) \/ s[i] # u[i]}
  <2>1. D \cup E # {}
    <3> SUFFICES ASSUME D = {}, E = {} PROVE FALSE
      OBVIOUS
    <3>1. Len(s) = Len(u)
      <4>1. Len(s) > Len(u) => Len(s) \in D
        BY <1>1
      <4>2. Len(u) > Len(s) => Len(u) \in E
        BY <1>1
      <4> QED BY <1>1, <4>1, <4>2
    <3>2. \A i \in 1..Len(s) : s[i] = u[i]
      OBVIOUS
    <3> QED BY <1>4, <3>1, <3>2, SeqEqual
  <2>2. D \cup E \subseteq Nat
    BY <1>1
  <2>3. PICK i \in D \cup E : \A j \in D \cup E : i <= j
    <3> HIDE DEF D, E
    <3> QED BY <2>1, <2>2, LeastOfNaturals
  <2>4. i \in Nat \ {0} /\ (i \in 1..Len(s) \/ i \in 1..Len(u))
    BY <1>1, <2>3
  <2>5. ASSUME NEW j \in 1..(i - 1) PROVE j <= Len(s) /\ j <= Len(u) /\ s[j] = u[j]
    <3>1. j \in Nat \ {0} /\ j < i
      BY <2>4
    <3>2. j \notin D \cup E
      BY <2>2, <2>3, <2>4, <3>1
    <3>3. j <= Len(s) \/ j <= Len(u)
      BY <1>1, <2>4, <3>1
    <3> QED BY <1>1, <3>1, <3>2, <3>3
  <2>6. CASE i > Len(u)
    <3>1. At(u, s, i)
      BY <2>3, <2>4, <2>5, <2>6, <1>1
    <3> QED BY <1>3, <3>1, Zenon
  <2>7. CASE i > Len(s)
    <3>1. At(s, u, i)
      BY <2>3, <2>4, <2>5, <2>7, <1>1
    <3> QED BY <1>3, <3>1, Zenon
  <2>8. CASE i <= Len(s) /\ i <= Len(u)
    <3>1. i \in 1..Len(s) /\ i \in 1..Len(u)
      BY <1>1, <2>4, <2>8
    <3>2. s[i] # u[i] /\ s[i] \in Nat /\ u[i] \in Nat
      <4>1. i \in D \/ i \in E
        BY <2>3
      <4> QED BY <1>1, <1>2, <2>8, <3>1, <4>1
    <3>3. s[i] < u[i] => At(s, u, i)
      BY <2>5, <2>8, <3>1
    <3>4. u[i] < s[i] => At(u, s, i)
      BY <2>5, <2>8, <3>1
    <3> HIDE DEF At
    <3>5. s[i] < u[i] \/ u[i] < s[i]
      BY <3>2
    <3> QED BY <1>3, <3>3, <3>4, <3>5, Zenon
  <2> QED BY <1>1, <2>4, <2>6, <2>7, <2>8
<1>5. ASSUME NEW i, At(s, u, i), NEW j, At(u, s, j) PROVE FALSE
  <2>1. i \in 1..Len(u) /\ j \in 1..Len(s) /\ i \in Nat \ {0} /\ j \in Nat \ {0}
    BY <1>1, <1>5
  <2>2. CASE i < j
    <3>1. i \in 1..(j - 1)
      BY <2>1, <2>2
    <3>2. i <= Len(u) /\ u[i] = s[i] /\ i <= Len(s)
      BY <1>1, <1>5, <2>1, <2>2, <3>1
    <3>3. s[i] < u[i] /\ s[i] \in Nat
      BY <1>1, <1>2, <1>5, <2>1, <3>2
    <3> QED BY <3>2, <3>3
  <2>3. CASE j < i
    <3>1. j \in 1..(i - 1)
      BY <2>1, <2>3
    <3>2. j <= Len(s) /\ u[j] = s[j] /\ j <= Len(u)
      BY <1>1, <1>5, <2>1, <2>3, <3>1
    <3>3. u[j] < s[j] /\ s[j] \in Nat
      BY <1>1, <1>2, <1>5, <2>1, <3>2
    <3> QED BY <3>2, <3>3
  <2>4. CASE i = j
    <3>1. i <= Len(u) /\ i <= Len(s) /\ s[i] \in Nat /\ u[i] \in Nat
      BY <1>1, <1>2, <2>1, <2>4
    <3>2. s[i] < u[i] /\ u[i] < s[i]
      BY <1>1, <1>5, <2>1, <2>4, <3>1
    <3> QED BY <3>1, <3>2
  <2> QED BY <2>1, <2>2, <2>3, <2>4
<1>6. ASSUME NEW i, At(s, s, i) PROVE FALSE
  <2>1. i \in 1..Len(s) /\ i <= Len(s) /\ s[i] \in Nat
    BY <1>1, <1>2, <1>6
  <2> QED BY <1>1, <1>6, <2>1
<1>7. Before(s, s) <=> \E i : At(s, s, i)
  BY Zenon DEF Before
<1> HIDE DEF At
<1> QED BY <1>3, <1>4, <1>5, <1>6, <1>7, Zenon

-----------------------------------------------------------------------------
(* Fractions.                                                              *)

Divides(k, n) == \E u \in Int : n = k * u

(* A fraction in lowest terms.                                             *)
Lowest(p, q) ==
  /\ p \in Int /\ q \in Nat \ {0}
  /\ \A k \in Nat \ {0} : Divides(k, p) /\ Divides(k, q) => k = 1

(* GCD gives the greatest common divisor.                                  *)
LEMMA GCDIs ==
  ASSUME NEW m \in Nat, NEW n \in Nat \ {0}
  PROVE  LET g == GCD(m, n)
         IN  /\ g \in 1..n /\ (m % g) = 0 /\ (n % g) = 0
             /\ \A h \in 1..n : (m % h) = 0 /\ (n % h) = 0 => h <= g
<1> DEFINE D == {h \in 1..n : (m % h) = 0 /\ (n % h) = 0}
           Good(g) == /\ m % g = 0 /\ n % g = 0
                      /\ \A h \in (g + 1)..n : m % h # 0 \/ n % h # 0
<1>1. 1 \in D
  <2>1. (m % 1) = 0 /\ (n % 1) = 0 /\ 1 \in 1..n
    OBVIOUS
  <2> QED BY <2>1
<1>2. PICK d \in D : \A h \in D : h <= d
  <2>1. D \subseteq 0..n /\ D # {} /\ n \in Nat
    BY <1>1
  <2> HIDE DEF D
  <2> QED BY <2>1, GreatestOfNaturals
<1>3. d \in 1..n /\ Good(d)
  <2>1. ASSUME NEW h \in (d + 1)..n, m % h = 0, n % h = 0 PROVE FALSE
    <3>1. h \in 1..n /\ d \in Int /\ h > d
      OBVIOUS
    <3>2. h \in D
      BY <2>1, <3>1
    <3> QED BY <1>2, <3>1, <3>2
  <2> QED BY <2>1
<1>4. GCD(m, n) = CHOOSE g \in 1..n : Good(g)
  BY DEF GCD
<1> DEFINE g == CHOOSE g \in 1..n : Good(g)
<1>5. g \in 1..n /\ Good(g)
  <2>1. \E x \in 1..n : Good(x)
    BY <1>3
  <2> HIDE DEF Good
  <2> QED BY <2>1
<1> HIDE DEF g
<1>6. ASSUME NEW h \in 1..n, (m % h) = 0, (n % h) = 0 PROVE h <= g
  <2> SUFFICES ASSUME ~(h <= g) PROVE FALSE
    OBVIOUS
  <2>1. h \in (g + 1)..n
    BY <1>5
  <2> QED BY <1>5, <1>6, <2>1
<1> QED BY <1>4, <1>5, <1>6 DEF g

(* Of the fractions of the same value, one in lowest terms has the least   *)
(* denominator, and only one does.                                         *)
LEMMA LowestIsLeast ==
  ASSUME NEW p, NEW q, Lowest(p, q), NEW x \in Int, NEW y \in Nat \ {0}, x * q = p * y
  PROVE  q <= y
<1> DEFINE D == {w \in Nat \ {0} : \E v \in Int : v * q = p * w}
<1>1. p \in Int /\ q \in Nat \ {0}
  BY DEF Lowest
<1>2. y \in D
  OBVIOUS
<1>3. PICK w \in D : \A z \in D : w <= z
  <2>1. D \subseteq Nat /\ D # {}
    BY <1>2
  <2> HIDE DEF D
  <2> QED BY <2>1, LeastOfNaturals
<1>4. PICK v \in Int : v * q = p * w
  OBVIOUS
<1> DEFINE k == q \div w
           s == q % w
           r == p - k * v
<1>5. w \in Nat \ {0}
  OBVIOUS
<1>6. k \in Nat /\ s \in 0..(w - 1) /\ q = w * k + s
  BY <1>1, <1>5
<1> HIDE DEF k, s
<1>7. r \in Int /\ r * q = p * s
  <2>1. k * v \in Int /\ r \in Int
    BY <1>1, <1>6
  <2>2. r * q = p * q - (k * v) * q
    BY <1>1, <1>6
  <2>3. (k * v) * q = k * (v * q)
    BY <1>1, <1>6
  <2>4. k * (p * w) = p * (w * k)
    BY <1>1, <1>5, <1>6
  <2>5. p * q = p * (w * k) + p * s
    <3>1. w * k \in Int
      BY <1>5, <1>6
    <3> DEFINE a == w * k
    <3> HIDE DEF a
    <3>2. a \in Int /\ q = a + s
      BY <1>6, <3>1 DEF a
    <3>3. p * (a + s) = p * a + p * s
      BY <1>1, <1>6, <3>2
    <3> QED BY <3>2, <3>3 DEF a
  <2>6. p * (w * k) \in Int /\ p * s \in Int
    BY <1>1, <1>5, <1>6
  <2> HIDE DEF r
  <2>7. (k * v) * q = p * (w * k)
    BY <1>4, <2>3, <2>4
  <2> QED BY <2>1, <2>2, <2>5, <2>6, <2>7
<1> HIDE DEF r
<1>8. s = 0
  <2> SUFFICES ASSUME s # 0 PROVE FALSE
    OBVIOUS
  <2>1. s \in Nat \ {0} /\ s < w
    BY <1>5, <1>6
  <2>2. s \in D
    BY <1>7, <2>1
  <2> QED BY <1>3, <1>5, <2>1, <2>2
<1>9. r = 0
  <2>1. r * q = 0
    BY <1>1, <1>7, <1>8
  <2> QED BY <1>1, <1>7, <2>1
<1>10. p = k * v /\ q = k * w
  <2>1. k * v \in Int
    BY <1>6
  <2>2. p = k * v
    BY <1>1, <1>9, <2>1 DEF r
  <2> QED BY <1>1, <1>5, <1>6, <1>8, <2>2
<1>11. k # 0
  BY <1>1, <1>5, <1>10
<1>12. k = 1
  BY <1>5, <1>6, <1>10, <1>11 DEF Lowest, Divides
<1>13. q = w
  BY <1>5, <1>10, <1>12
<1> QED BY <1>2, <1>3, <1>13

(* Two fractions in lowest terms that are equal are the same.              *)
LEMMA LowestIsUnique ==
  ASSUME NEW p, NEW q, Lowest(p, q), NEW x, NEW y, Lowest(x, y), x * q = p * y
  PROVE  p = x /\ q = y
<1>1. p \in Int /\ q \in Nat \ {0} /\ x \in Int /\ y \in Nat \ {0}
  BY DEF Lowest
<1>2. q <= y
  BY <1>1, LowestIsLeast
<1>3. y <= q
  BY <1>1, LowestIsLeast
<1>4. q = y
  BY <1>1, <1>2, <1>3
<1>5. x * q = p * q
  BY <1>4
<1> QED BY <1>1, <1>4, <1>5

Fraction(p, q) == [type |-> "float", num |-> p, den |-> q]

(* A float is made in lowest terms, and keeps the value.                   *)
LEMMA FloatIsLowest ==
  ASSUME NEW n \in Int, NEW d \in Int, d # 0
  PROVE  \E p, q : /\ value_float_new(n, d) = Fraction(p, q) /\ Lowest(p, q)
                   /\ p * d = n * q
<1> DEFINE a == Magnitude(n)
           b == Magnitude(d)
           g == GCD(a, b)
           u == a \div g
           w == b \div g
           s == IF d < 0 THEN -1 ELSE 1
           c == IF n < 0 THEN -1 ELSE 1
           p == s * Quotient(n, g)
<1>1. a \in Nat /\ b \in Nat \ {0} /\ n = c * a /\ d = s * b
  BY MagnitudeIs
<1> HIDE DEF a, b
<1>2. g \in 1..b /\ (a % g) = 0 /\ (b % g) = 0
      /\ \A h \in 1..b : (a % h) = 0 /\ (b % h) = 0 => h <= g
  BY <1>1, GCDIs
<1> HIDE DEF g
<1>3. g \in Nat \ {0} /\ u \in Nat /\ w \in Nat /\ a = g * u /\ b = g * w
  <2>1. g \in Nat \ {0}
    BY <1>1, <1>2
  <2> QED BY <1>1, <1>2, <2>1
<1>4. w # 0
  BY <1>1, <1>3
<1>5. Quotient(n, g) = c * u
  <2>1. Quotient(n, g) = IF (n < 0) = (g < 0) THEN a \div Magnitude(g) ELSE -(a \div Magnitude(g))
    BY DEF Quotient, a
  <2>2. Magnitude(g) = g /\ ~(g < 0)
    BY <1>3 DEF Magnitude
  <2>3. Quotient(n, g) = IF n < 0 THEN -u ELSE u
    BY <2>1, <2>2
  <2> HIDE DEF u
  <2> QED BY <1>3, <2>3
<1>6. value_float_new(n, d) = Fraction(p, w)
  BY DEF value_float_new, Fraction, a, b, g
<1> HIDE DEF u, w
<1>7. s \in {-1, 1} /\ c \in {-1, 1} /\ s \in Int /\ c \in Int
  OBVIOUS
<1> HIDE DEF s, c
<1>8. p = s * (c * u) /\ p \in Int /\ (p = u \/ p = -u)
  BY <1>3, <1>5, <1>7
<1>9. p * d = n * w
  <2>1. p * d = (s * (c * u)) * (s * (g * w))
    BY <1>1, <1>3, <1>8
  <2>2. n * w = (c * (g * u)) * w
    BY <1>1, <1>3
  <2> DEFINE e == c * u
             f == g * w
  <2>3. e \in Int /\ f \in Int
    BY <1>3, <1>7
  <2> HIDE DEF e, f
  <2>4. (s * e) * (s * f) = e * f
    BY <1>7, <2>3
  <2>5. (c * u) * (g * w) = (c * (g * u)) * w
    <3>1. (c * u) * (g * w) = ((c * u) * g) * w
      BY <1>3, <1>7
    <3>2. (c * u) * g = c * (g * u)
      BY <1>3, <1>7
    <3> QED BY <3>1, <3>2
  <2> QED BY <2>1, <2>2, <2>4, <2>5 DEF e, f
<1> HIDE DEF p
<1>10. ASSUME NEW k \in Nat \ {0}, Divides(k, p), Divides(k, w) PROVE k = 1
  <2>1. PICK i \in Int : p = k * i
    BY <1>10 DEF Divides
  <2>2. PICK j \in Int : w = k * j
    BY <1>10 DEF Divides
  <2> DEFINE m == IF p = u THEN i ELSE -i
             h == k * g
  <2>3. m \in Int /\ u = k * m
    BY <1>3, <1>8, <2>1
  <2> HIDE DEF m
  <2>4. h \in Nat \ {0}
    BY <1>3
  <2>5. a = h * m + 0 /\ b = h * j + 0
    <3>1. g * (k * m) = (k * g) * m /\ g * (k * j) = (k * g) * j
      BY <1>3, <2>3
    <3> QED BY <1>1, <1>3, <2>2, <2>3, <3>1
  <2>6. h >= g /\ (h = g => k = 1)
    BY <1>3
  <2> HIDE DEF h
  <2>7. 0 \in 0..(h - 1)
    BY <2>4
  <2>8. (a % h) = 0 /\ (b % h) = 0
    BY <1>1, <2>3, <2>4, <2>5, <2>7
  <2>9. j >= 1
    BY <1>1, <2>4, <2>5
  <2>10. h <= b
    BY <1>1, <2>4, <2>5, <2>9
  <2>11. h <= g
    <3>1. h \in 1..b
      BY <1>1, <2>4, <2>10
    <3> QED BY <1>2, <2>8, <3>1, Zenon
  <2> QED BY <1>3, <2>4, <2>6, <2>11
<1>11. Lowest(p, w)
  BY <1>3, <1>4, <1>8, <1>10 DEF Lowest
<1> QED BY <1>6, <1>9, <1>11

(* Two pairs of the same value make the same float.                        *)
LEMMA SameFloat ==
  ASSUME NEW n \in Int, NEW d \in Int, d # 0, NEW m \in Int, NEW e \in Int, e # 0,
         n * e = m * d
  PROVE  value_float_new(n, d) = value_float_new(m, e)
<1>1. PICK p, q : /\ value_float_new(n, d) = Fraction(p, q) /\ Lowest(p, q)
                  /\ p * d = n * q
  BY FloatIsLowest
<1>2. PICK x, y : /\ value_float_new(m, e) = Fraction(x, y) /\ Lowest(x, y)
                  /\ x * e = m * y
  BY FloatIsLowest
<1>3. p \in Int /\ q \in Int /\ x \in Int /\ y \in Int
  BY <1>1, <1>2 DEF Lowest
<1>4. (x * q) * (d * e) = (p * y) * (d * e)
  <2>1. (x * q) * (d * e) = (x * e) * (q * d)
    BY <1>3
  <2>2. (m * y) * (q * d) = (m * d) * (q * y)
    BY <1>3
  <2>3. (n * e) * (q * y) = (n * q) * (e * y)
    BY <1>3
  <2>4. (p * d) * (e * y) = (p * y) * (d * e)
    BY <1>3
  <2> QED BY <1>1, <1>2, <2>1, <2>2, <2>3, <2>4
<1>5. x * q = p * y
  <2> DEFINE a == x * q
             b == p * y
             c == d * e
  <2>1. a \in Int /\ b \in Int /\ c \in Int /\ c # 0
    BY <1>3
  <2>2. a * c = b * c
    BY <1>4
  <2> HIDE DEF a, b, c
  <2>3. a = b
    BY <2>1, <2>2
  <2> QED BY <2>3 DEF a, b
<1> QED BY <1>1, <1>2, <1>5, LowestIsUnique

(* A whole number is in lowest terms.                                      *)
LEMMA WholeIsLowest ==
  ASSUME NEW n \in Int
  PROVE  value_float_new(n, 1) = Fraction(n, 1)
<1>1. PICK p, q : value_float_new(n, 1) = Fraction(p, q) /\ Lowest(p, q) /\ p * 1 = n * q
  BY FloatIsLowest
<1>2. Lowest(n, 1)
  <2>1. ASSUME NEW k \in Nat \ {0}, Divides(k, 1) PROVE k = 1
    <3>1. PICK u \in Int : 1 = k * u
      BY <2>1 DEF Divides
    <3> QED BY <3>1
  <2> QED BY <2>1 DEF Lowest
<1>3. p = n /\ q = 1
  <2>1. n * q = p * 1
    BY <1>1
  <2> QED BY <1>1, <1>2, <2>1, LowestIsUnique
<1> QED BY <1>1, <1>3

(* Every number has the value of its float.                                *)
LEMMA FloatOfNumber ==
  ASSUME NEW v, Number(v)
  PROVE  value_float(v) = value_float_new(v.num, v.den)
<1>1. CASE value_is_int(v)
  <2>1. v = value_int_new(v.num) /\ v.num \in Int /\ v.den = 1
    BY <1>1, NumberIs
  <2> DEFINE n == v.num
             i == value_int_new(n)
  <2>2. value_float(i) = Fraction(n, 1)
    <3> HIDE DEF n
    <3> QED BY DEF value_float, value_int_new, Fraction
  <2> HIDE DEF i
  <2>3. v = i
    BY <2>1 DEF i
  <2>4. value_float(v) = Fraction(v.num, 1)
    BY <2>2, <2>3
  <2> QED BY <2>1, <2>4, WholeIsLowest
<1>2. CASE value_is_float(v)
  <2> DEFINE f == value_float_new(v.num, v.den)
  <2>1. v = f
    BY <1>2, NumberIs
  <2>2. value_float(f) = f
    BY DEF value_float, value_float_new
  <2> HIDE DEF f
  <2>3. value_float(v) = f
    BY <2>1, <2>2
  <2> QED BY <2>3 DEF f
<1> QED BY <1>1, <1>2, NumberIs

-----------------------------------------------------------------------------
(* Operators undo each other.                                              *)

(* A float of numbers is a number of an expression.                        *)
LEMMA FloatParts ==
  ASSUME NEW n \in Int, NEW d \in Int, d # 0
  PROVE  LET f == value_float_new(n, d)
         IN  /\ f.num \in Int /\ f.den \in Nat \ {0} /\ f.num * d = n * f.den
             /\ value_is_float(f) /\ ~value_is_int(f) /\ ~value_is_string(f)
             /\ value_is_numeric(f) /\ value_float(f) = f
<1> DEFINE f == value_float_new(n, d)
<1>1. PICK p, q : f = Fraction(p, q) /\ Lowest(p, q) /\ p * d = n * q
  BY FloatIsLowest
<1> HIDE DEF f
<1>2. f.num = p /\ f.den = q /\ f.type = "float" /\ value_float(f) = f
  BY <1>1 DEF Fraction, value_float
<1>3. p \in Int /\ q \in Nat \ {0}
  BY <1>1 DEF Lowest
<1> QED BY <1>1, <1>2, <1>3
        DEF f, value_is_float, value_is_int, value_is_string, value_is_numeric

(* The arithmetic of two numbers, one of them a float.                     *)
LEMMA FloatEvaluation ==
  ASSUME NEW l, NEW r, value_is_numeric(l), value_is_numeric(r),
         ~value_is_string(l), ~value_is_string(r),
         ~(value_is_int(l) /\ value_is_int(r))
  PROVE  /\ Arith("+", l, r) = Plus(l, r)
         /\ Arith("-", l, r) = Plus(l, Minus(r))
         /\ Arith("*", l, r) = Times(l, r)
         /\ r.num # 0 => Arith("/", l, r) = Over(l, r)
<1>1. value_is_zero(r) <=> r.num = 0
  BY Zenon DEF value_is_zero
<1>2. \A t : Arith(t, l, r) =
        IF t \in {"/", "DIV", "MOD"} /\ value_is_zero(r) THEN Error("division by zero")
        ELSE FloatArith(t, l, r)
  BY Zenon DEF Arith, expr_eval_op_binary_arith
<1> QED BY <1>1, <1>2, FloatArithIs

(* The arithmetic of two integers.                                         *)
LEMMA IntEvaluation ==
  ASSUME NEW l, NEW r, value_is_int(l), value_is_int(r)
  PROVE  /\ Arith("+", l, r) = value_int_new(Wrap(l.num + r.num))
         /\ Arith("-", l, r) = value_int_new(Wrap(l.num - r.num))
         /\ Arith("*", l, r) = value_int_new(Wrap(l.num * r.num))
         /\ r.num # 0 => Arith("/", l, r) =
              IF l.num = IntMin /\ r.num = -1 THEN Trap
              ELSE IF Remainder(l.num, r.num) = 0
              THEN value_int_new(Quotient(l.num, r.num))
              ELSE SingleQuotient(Single(l.num), Single(r.num))
<1>1. value_is_numeric(l) /\ value_is_numeric(r) /\ ~value_is_string(l)
  BY DEF value_is_int, value_is_numeric, value_is_string
<1>2. value_is_zero(r) <=> r.num = 0
  BY <1>1, Zenon DEF value_is_zero
<1>3. \A t : Arith(t, l, r) =
        IF t \in {"/", "DIV", "MOD"} /\ value_is_zero(r) THEN Error("division by zero")
        ELSE IntArith(t, l, r)
  BY <1>1, Zenon DEF Arith, expr_eval_op_binary_arith
<1>4. \A t \in {"+", "-", "*"} : Arith(t, l, r) = IntArith(t, l, r)
  BY <1>3
<1>5. r.num # 0 => Arith("/", l, r) = IntArith("/", l, r)
  BY <1>2, <1>3
<1> QED BY <1>4, <1>5, IntArithIs

(* What + does, - undoes.                                                  *)
LEMMA MinusUndoesPlus ==
  ASSUME NEW l, Number(l), NEW r, Number(r)
  PROVE  LET x == Arith("+", l, r)
         IN  Arith("-", x, r) = IF value_is_float(x) THEN value_float(l) ELSE l
<1> DEFINE x == Arith("+", l, r)
           a == l.num
           b == r.num
           c == l.den
           d == r.den
<1>1. /\ a \in Int /\ b \in Int /\ c \in Nat \ {0} /\ d \in Nat \ {0}
      /\ value_is_numeric(l) /\ value_is_numeric(r) /\ ~value_is_string(l) /\ ~value_is_string(r)
  BY NumberIs DEF Number
<1>2. CASE value_is_int(l) /\ value_is_int(r)
  <2>1. x = value_int_new(Wrap(a + b))
    BY <1>2, IntEvaluation
  <2>2. value_is_int(x) /\ ~value_is_float(x) /\ x.num = Wrap(a + b)
    <3> HIDE DEF x
    <3> QED BY <2>1 DEF value_int_new, value_is_int, value_is_float
  <2> HIDE DEF x
  <2>3. Arith("-", x, r) = value_int_new(Wrap(Wrap(a + b) - b))
    BY <1>2, <2>2, IntEvaluation
  <2>4. a \in IntRange /\ l = value_int_new(a)
    BY <1>2, NumberIs
  <2> HIDE DEF a, b
  <2>5. Wrap(Wrap(a + b) - b) = Wrap((a + b) - b)
    <3> DEFINE e == a + b
    <3>1. e \in Int
      BY <1>1
    <3> HIDE DEF e
    <3>2. Wrap(Wrap(e) - b) = Wrap(e - b)
      BY <1>1, <3>1, WrapOfSum
    <3> QED BY <3>2 DEF e
  <2>6. (a + b) - b = a
    BY <1>1
  <2>7. Wrap(a) = a
    BY <1>1, <2>4, WrapIs
  <2> QED BY <2>2, <2>3, <2>4, <2>5, <2>6, <2>7 DEF x
<1>3. CASE ~(value_is_int(l) /\ value_is_int(r))
  <2> DEFINE n == a * d + b * c
             e == c * d
             y == Minus(r)
  <2>1. x = value_float_new(n, e)
    BY <1>1, <1>3, FloatEvaluation DEF Plus
  <2>2. n \in Int /\ e \in Int /\ e # 0
    <3> HIDE DEF a, b, c, d
    <3>1. a * d \in Int /\ b * c \in Int /\ c * d \in Int /\ c * d # 0
      BY <1>1
    <3> QED BY <3>1
  <2> DEFINE f == value_float_new(n, e)
  <2>3. /\ f.num \in Int /\ f.den \in Nat \ {0} /\ f.num * e = n * f.den
        /\ value_is_float(f) /\ ~value_is_int(f) /\ ~value_is_string(f) /\ value_is_numeric(f)
    <3> HIDE DEF n, e
    <3> QED BY <2>2, FloatParts
  <2> HIDE DEF f, x
  <2>4. y.num = -b /\ y.den = d
    <3>1. r = value_int_new(b) \/ r = value_float_new(b, d)
      BY NumberIs
    <3>2. r.den = d
      OBVIOUS
    <3> DEFINE g == value_int_new(b)
               h == value_float_new(b, d)
    <3>3. [g EXCEPT !.num = -b].num = -b /\ [g EXCEPT !.num = -b].den = g.den
      BY DEF value_int_new
    <3>4. [h EXCEPT !.num = -b].num = -b /\ [h EXCEPT !.num = -b].den = h.den
      BY DEF value_float_new
    <3>5. y = [r EXCEPT !.num = -b]
      BY DEF Minus
    <3> HIDE DEF y, g, h
    <3> QED BY <3>1, <3>3, <3>4, <3>5 DEF g, h
  <2> DEFINE p == f.num
             q == f.den
             m == p * d + (-b) * q
             k == q * d
  <2>5. Arith("-", f, r) = value_float_new(m, k)
    <3>1. Arith("-", f, r) = Plus(f, y)
      BY <1>1, <2>3, FloatEvaluation
    <3>2. Plus(f, y) = value_float_new(f.num * y.den + y.num * f.den, f.den * y.den)
      BY DEF Plus
    <3> HIDE DEF y, b, d
    <3> QED BY <2>4, <3>1, <3>2
  <2>6. p \in Int /\ q \in Nat \ {0} /\ p * (c * d) = (a * d + b * c) * q
    BY <2>3
  <2> HIDE DEF a, b, c, d, p, q
  <2>7. m \in Int /\ k \in Int /\ k # 0
    <3>1. p * d \in Int /\ (-b) * q \in Int /\ q * d \in Int /\ q * d # 0
      BY <1>1, <2>6
    <3> QED BY <3>1
  <2>8. m * c = a * k
    <3>1. m * c = (p * d) * c - (b * q) * c
      BY <1>1, <2>6
    <3>2. (p * d) * c = p * (c * d)
      BY <1>1, <2>6
    <3>3. (a * d + b * c) * q = (a * d) * q + (b * c) * q
      <4>1. a * d \in Int /\ b * c \in Int
        BY <1>1
      <4> DEFINE u == a * d
                 v == b * c
      <4> HIDE DEF u, v
      <4>2. (u + v) * q = u * q + v * q
        BY <2>6, <4>1 DEF u, v
      <4> QED BY <4>2 DEF u, v
    <3>4. (b * q) * c = (b * c) * q /\ (a * d) * q = a * (q * d)
      BY <1>1, <2>6
    <3>5. (b * c) * q \in Int /\ (a * d) * q \in Int
      BY <1>1, <2>6
    <3> HIDE DEF m
    <3> QED BY <2>6, <3>1, <3>2, <3>3, <3>4, <3>5
  <2>9. value_float_new(m, k) = value_float_new(a, c)
    <3> HIDE DEF m, k
    <3> QED BY <1>1, <2>7, <2>8, SameFloat
  <2>10. value_float_new(a, c) = value_float(l)
    BY FloatOfNumber DEF a, c
  <2>11. Arith("-", f, r) = value_float(l)
    BY <2>5, <2>9, <2>10
  <2>12. x = f
    BY <2>1 DEF f
  <2> QED BY <2>3, <2>11, <2>12 DEF x
<1> QED BY <1>2, <1>3

(* Twice as many bits, and the square of the number of integers.           *)
LEMMA SquareOfWidth ==
  Weight[2 * Width] = Weight[Width] * Weight[Width]
<1> DEFINE W == Width
           P == {i \in 0..W : Weight[W + i] = Weight[W] * Weight[i]}
<1>1. W \in 1..64
  BY WidthIs
<1> HIDE DEF W
<1>2. 0 \in P
  <2>1. Weight[W] \in Nat /\ W + 0 = W
    BY <1>1, WeightIs
  <2> QED BY <2>1, <1>1, WeightIs
<1>3. ASSUME NEW i \in 1..W, i - 1 \in P PROVE i \in P
  <2>1. W + i \in 1..128 /\ i \in 1..128 /\ (W + i) - 1 = W + (i - 1) /\ W \in 0..128 /\ i - 1 \in 0..128
    BY <1>1
  <2> DEFINE a == Weight[W]
             b == Weight[i - 1]
  <2>2. Weight[W + i] = 2 * Weight[W + (i - 1)] /\ Weight[i] = 2 * b /\ a \in Nat /\ b \in Nat
    BY <2>1, WeightIs
  <2>3. Weight[W + (i - 1)] = a * b
    BY <1>3
  <2> HIDE DEF a, b
  <2>4. 2 * (a * b) = a * (2 * b)
    BY <2>2
  <2> QED BY <2>2, <2>3, <2>4 DEF a
<1>4. \A i \in 0..W : i \in P
  <2> HIDE DEF P
  <2> QED BY <1>1, <1>2, <1>3, InductionUpTo
<1>5. W \in P /\ 2 * W = W + W
  BY <1>1, <1>4
<1> QED BY <1>5 DEF W

(* A fraction that fits has a nearest number, wrong by no more than one    *)
(* part in SingleMax; and up to SingleMax, an integer is its own.          *)
LEMMA NearestIs ==
  ASSUME NEW n \in Nat, NEW d \in Nat \ {0}, NEW k \in 0..(2 * Width),
         n <= Weight[k] * SingleMax * d
  PROVE  /\ Nearest(n, d) \in Nat
         /\ d = 1 \/ n >= SingleMax * d =>
              /\ SingleMax * (Nearest(n, d) * d - n) <= n
              /\ SingleMax * (n - Nearest(n, d) * d) <= n
         /\ d = 1 /\ n <= SingleMax => Nearest(n, d) = n
<1> DEFINE S == {Weight[i] : i \in 0..(2 * Width)}
           M == SingleMax
           Fits(s) == /\ n <= s * SingleMax * d
                      /\ s > 1 => n > (s \div 2) * SingleMax * d
           step == CHOOSE s \in S : Fits(s)
           part == step * d
           low == n \div part
           rest == n % part
           m == IF 2 * rest < part \/ (2 * rest = part /\ low % 2 = 0) THEN low ELSE low + 1
<1>1. Width \in 1..64 /\ SingleMax \in Nat \ {0} /\ 2 * Width \in 2..128
  BY WidthIs, SingleAssumption
<1>2. \A i \in 1..(2 * Width) : /\ i \in 1..128 /\ i - 1 \in 0..(2 * Width)
                                /\ Weight[i] = 2 * Weight[i - 1] /\ Weight[i - 1] \in Nat \ {0}
                                /\ Weight[i] \div 2 = Weight[i - 1]
  <2> SUFFICES ASSUME NEW i \in 1..(2 * Width)
               PROVE  /\ i \in 1..128 /\ i - 1 \in 0..(2 * Width)
                      /\ Weight[i] = 2 * Weight[i - 1] /\ Weight[i - 1] \in Nat \ {0}
                      /\ Weight[i] \div 2 = Weight[i - 1]
    OBVIOUS
  <2> DEFINE h == Weight[i - 1]
             w == Weight[i]
  <2>1. i \in 1..128 /\ i - 1 \in 0..(2 * Width) /\ i - 1 \in 0..128
    BY <1>1
  <2>2. w = 2 * h /\ h \in Nat \ {0}
    BY <2>1, WeightIs
  <2> HIDE DEF h, w
  <2>3. w \div 2 = h
    BY <2>2
  <2> QED BY <2>1, <2>2, <2>3 DEF h, w
<1>3. \E s \in S : Fits(s)
  <2> DEFINE T == {i \in 0..(2 * Width) : n <= Weight[i] * SingleMax * d}
  <2>1. T \subseteq Nat /\ T # {}
    BY <1>1
  <2>2. PICK i \in T : \A j \in T : i <= j
    <3> HIDE DEF T
    <3> QED BY <2>1, LeastOfNaturals
  <2>3. Fits(Weight[i])
    <3>1. CASE i = 0
      BY <3>1, WeightIs
    <3>2. CASE i # 0
      <4>1. i \in 1..(2 * Width) /\ i - 1 \in 0..(2 * Width) /\ i - 1 \notin T
        BY <3>2, <2>2, <1>1
      <4>2. ~(n <= Weight[i - 1] * SingleMax * d)
        BY <4>1
      <4>3. Weight[i] \div 2 = Weight[i - 1] /\ Weight[i - 1] \in Nat
        BY <4>1, <1>2
      <4> DEFINE u == Weight[i - 1] * SingleMax * d
      <4>4. u \in Int
        <5> DEFINE w == Weight[i - 1]
        <5>1. w \in Nat
          BY <4>3
        <5> HIDE DEF w
        <5>2. w * SingleMax \in Nat
          BY <5>1, <1>1
        <5>3. w * SingleMax * d \in Nat
          BY <5>2
        <5> QED BY <5>3 DEF w
      <4> HIDE DEF u
      <4>5. n > u
        BY <4>2, <4>4 DEF u
      <4> QED BY <4>3, <4>5, <2>2 DEF u
    <3> QED BY <3>1, <3>2
  <2> QED BY <2>3
<1>4. step \in S /\ Fits(step)
  <2> HIDE DEF S, Fits
  <2> QED BY <1>3, Zenon
<1>5. step \in Nat \ {0} /\ (step > 1 => \E h \in Nat \ {0} : step = 2 * h /\ step \div 2 = h)
  <2>1. PICK i \in 0..(2 * Width) : step = Weight[i]
    <3> HIDE DEF step
    <3> QED BY <1>4
  <2> HIDE DEF step
  <2>2. CASE i = 0
    BY <2>1, <2>2, WeightIs
  <2>3. CASE i # 0
    <3>1. i \in 1..(2 * Width)
      BY <2>3, <1>1
    <3> DEFINE h == Weight[i - 1]
    <3>2. h \in Nat \ {0} /\ step = 2 * h /\ step \div 2 = h
      BY <2>1, <3>1, <1>2
    <3> HIDE DEF h
    <3> QED BY <3>2
  <2> QED BY <2>2, <2>3
<1>6. Nearest(n, d) = step * m
  BY Zenon DEF Nearest
<1>7. n <= step * M * d /\ (step > 1 => n > (step \div 2) * M * d)
  BY <1>4
<1> HIDE DEF step, S, Fits
<1>8. part \in Nat \ {0}
  BY <1>5
<1> HIDE DEF part
<1>9. low \in Nat /\ rest \in Nat /\ rest < part /\ n = part * low + rest
  BY <1>8
<1> HIDE DEF low, rest
<1>10. m \in Nat /\ step * m \in Nat
  BY <1>5, <1>9
<1> DEFINE x == part * m
<1>11. x \in Nat /\ (step * m) * d = x
  BY <1>5, <1>8, <1>10 DEF part
<1>12. 2 * (x - n) <= part /\ 2 * (n - x) <= part
  <2> DEFINE y == part * low
  <2>1. y \in Nat /\ n = y + rest
    BY <1>8, <1>9
  <2>2. part * (low + 1) = y + part
    BY <1>8, <1>9
  <2>3. (x = y /\ 2 * rest <= part) \/ (x = y + part /\ 2 * rest >= part)
    <3> HIDE DEF y
    <3>1. CASE 2 * rest < part \/ (2 * rest = part /\ low % 2 = 0)
      <4>1. m = low
        BY <3>1
      <4> QED BY <3>1, <4>1, <1>8, <1>9 DEF y
    <3>2. CASE ~(2 * rest < part \/ (2 * rest = part /\ low % 2 = 0))
      <4>1. m = low + 1 /\ ~(2 * rest < part)
        BY <3>2
      <4> QED BY <2>2, <4>1, <1>8, <1>9
    <3> QED BY <3>1, <3>2
  <2> HIDE DEF y, x
  <2> QED BY <2>1, <2>3, <1>8, <1>9, <1>11
<1>13. step = 1 => /\ part = d
                   /\ d = 1 => x = n
                   /\ n >= M * d => x = n
  <2> SUFFICES ASSUME step = 1
               PROVE  part = d /\ (d = 1 => x = n) /\ (n >= M * d => x = n)
    OBVIOUS
  <2>1. part = d /\ n <= M * d
    BY <1>7, <1>1 DEF part
  <2>2. ASSUME d = 1 PROVE x = n
    <3> HIDE DEF x
    <3>1. part = 1
      BY <2>1, <2>2
    <3> QED BY <3>1, <1>11, <1>12
  <2>3. ASSUME n >= M * d PROVE x = n
    <3>1. M * d \in Nat
      BY <1>1
    <3>2. n = M * d
      BY <2>1, <2>3, <3>1
    <3>3. d * low + rest = M * d /\ rest < d /\ d * M = M * d
      BY <2>1, <3>2, <1>9, <1>1
    <3>4. low = M /\ rest = 0
      <4>1. d * (M - low) = rest
        BY <3>3, <1>1, <1>9
      <4> DEFINE e == M - low
      <4>2. e \in Int /\ d * e = rest
        BY <4>1, <1>1, <1>9
      <4> HIDE DEF e
      <4>3. e = 0
        <5>1. ~(e < 0)
          <6> SUFFICES ASSUME e < 0 PROVE FALSE
            OBVIOUS
          <6>1. d * e < 0
            BY <4>2
          <6> QED BY <6>1, <4>2, <1>9
        <5>2. ~(e >= 1)
          <6> SUFFICES ASSUME e >= 1 PROVE FALSE
            OBVIOUS
          <6>1. d * e >= d
            BY <4>2
          <6> QED BY <6>1, <4>2, <1>9, <3>3
        <5> QED BY <5>1, <5>2, <4>2
      <4> QED BY <4>2, <4>3, <1>1, <1>9 DEF e
    <3>5. 2 * rest < part
      BY <3>4, <1>8
    <3>6. m = low
      BY <3>5
    <3> QED BY <3>4, <3>6, <1>8, <1>9
  <2> QED BY <2>1, <2>2, <2>3
<1> HIDE DEF m, x
<1>14. ASSUME d = 1 \/ n >= M * d
       PROVE  M * (x - n) <= n /\ M * (n - x) <= n
  <2>1. CASE step = 1
    <3>1. x - n = 0 /\ n - x = 0
      BY <2>1, <1>13, <1>14
    <3> QED BY <3>1, <1>1
  <2>2. CASE step > 1
    <3>1. PICK h \in Nat \ {0} : step = 2 * h /\ step \div 2 = h
      BY <2>2, <1>5
    <3> DEFINE g == h * d
    <3>2. g \in Nat /\ part = 2 * g /\ n > M * g
      <4>1. n > h * M * d
        BY <3>1, <2>2, <1>7
      <4>2. h * M * d = M * g /\ part = 2 * g
        BY <3>1, <1>1 DEF part
      <4> QED BY <4>1, <4>2
    <3> HIDE DEF g
    <3>3. x - n <= g /\ n - x <= g
      BY <3>2, <1>11, <1>12
    <3>4. M * (x - n) <= M * g /\ M * (n - x) <= M * g
      <4> DEFINE u == x - n
                 v == n - x
      <4>1. u \in Int /\ v \in Int /\ u <= g /\ v <= g
        BY <3>3, <1>11
      <4> HIDE DEF u, v
      <4>2. M * u <= M * g /\ M * v <= M * g
        BY <4>1, <3>2, <1>1
      <4> QED BY <4>2 DEF u, v
    <3> DEFINE p == M * (x - n)
               q == M * (n - x)
               o == M * g
    <3>5. p \in Int /\ q \in Int /\ o \in Int
      BY <1>1, <1>11, <3>2
    <3>6. p <= o /\ q <= o /\ n > o
      BY <3>2, <3>4
    <3> HIDE DEF p, q, o
    <3>7. p <= n /\ q <= n
      BY <3>5, <3>6
    <3> QED BY <3>7 DEF p, q
  <2> QED BY <2>1, <2>2, <1>5
<1>15. ASSUME d = 1, n <= M PROVE step * m = n
  <2>1. step = 1
    <3> SUFFICES ASSUME step > 1 PROVE FALSE
      BY <1>5
    <3>1. PICK h \in Nat \ {0} : step = 2 * h /\ step \div 2 = h
      BY <1>5
    <3>2. n > h * M * d
      BY <3>1, <1>7
    <3>3. h * M * d = h * M /\ h * M \in Nat /\ h * M >= M
      BY <1>15, <1>1
    <3> QED BY <3>2, <3>3, <1>15, <1>1
  <2> QED BY <2>1, <1>13, <1>11, <1>10, <1>15
<1>16. Nearest(n, d) * d = x
  BY <1>6, <1>11
<1> QED BY <1>6, <1>10, <1>14, <1>15, <1>16

(* The cast of an integer to single precision keeps its sign, is wrong by  *)
(* no more than one part in SingleMax, and up to there not at all.         *)
LEMMA SingleIs ==
  ASSUME NEW n \in IntRange, n # 0
  PROVE  /\ Single(n) \in Int /\ Single(n) # 0 /\ (Single(n) < 0) = (n < 0)
         /\ Magnitude(Single(n)) \in 1..Weight[Width]
         /\ SingleMax * (Magnitude(Single(n)) - Magnitude(n)) <= Magnitude(n)
         /\ SingleMax * (Magnitude(n) - Magnitude(Single(n))) <= Magnitude(n)
         /\ Magnitude(n) <= SingleMax => Single(n) = n
<1> DEFINE M == SingleMax
           W == Weight[Width]
           a == Magnitude(n)
           x == Nearest(a, 1)
<1>1. /\ M \in Nat /\ M >= 5 /\ W \in Nat \ {0} /\ W = 2 * (IntMax + 1)
      /\ Width \in 1..64 /\ Width \in 0..(2 * Width) /\ n \in Int
  BY SingleAssumption, WidthIs, WeightIs, Bounds
<1>2. a \in Nat \ {0} /\ 2 * a <= W
  BY <1>1, Bounds, MagnitudeIs
<1> HIDE DEF a
<1>3. a <= W * M * 1
  <2> DEFINE p == W * M
  <2>1. p \in Int /\ p >= W /\ p * 1 = p
    <3> HIDE DEF W
    <3> QED BY <1>1
  <2> HIDE DEF p, W
  <2> QED BY <1>1, <1>2, <2>1 DEF p
<1>4. x \in Nat /\ M * (x * 1 - a) <= a /\ M * (a - x * 1) <= a /\ (a <= M => x = a)
  <2>1. a \in Nat /\ 1 \in Nat \ {0}
    BY <1>2
  <2> HIDE DEF x
  <2> QED BY <1>1, <1>3, <2>1, NearestIs DEF x
<1> HIDE DEF x, W, M
<1>5. x * 1 = x
  BY <1>4
<1>6. M * (x - a) <= a /\ M * (a - x) <= a
  BY <1>4, <1>5
<1>7. x >= 1 /\ x <= W
  <2> DEFINE e == x - a
  <2>1. e \in Int /\ a - x = 0 - e
    BY <1>2, <1>4
  <2> HIDE DEF e
  <2>2. e <= a
    <3> SUFFICES ASSUME e > a PROVE FALSE
      BY <2>1, <1>2
    <3>1. M * e >= e
      BY <1>1, <1>2, <2>1
    <3> QED BY <3>1, <1>6, <1>1, <1>2, <2>1 DEF e
  <2>3. 0 - e < a
    <3> DEFINE f == 0 - e
    <3>0. f \in Int /\ M * f <= a
      BY <1>6, <2>1
    <3> HIDE DEF f
    <3> SUFFICES ASSUME f >= a PROVE FALSE
      BY <3>0, <1>2 DEF f
    <3>1. M * f >= 5 * f
      BY <1>1, <1>2, <3>0
    <3> QED BY <3>0, <3>1, <1>1, <1>2
  <2> QED BY <2>1, <2>2, <2>3, <1>1, <1>2, <1>4 DEF e
<1>8. Single(n) = IF n < 0 THEN 0 - x ELSE x
  <2>1. CASE n < 0
    <3>1. -n = a
      BY <2>1, <1>1, MagnitudeIs DEF a
    <3>2. Single(n) = -Nearest(-n, 1)
      BY <2>1 DEF Single
    <3> QED BY <2>1, <3>1, <3>2, <1>4 DEF x
  <2>2. CASE ~(n < 0)
    <3>1. n = a
      BY <2>2, <1>1, MagnitudeIs DEF a
    <3> QED BY <2>2, <3>1, <1>4 DEF x, Single
  <2> QED BY <2>1, <2>2
<1>9. Magnitude(Single(n)) = x /\ Single(n) \in Int /\ Single(n) # 0 /\ (Single(n) < 0) = (n < 0)
  BY <1>1, <1>4, <1>7, <1>8, MagnitudeIs
<1>10. a <= M => Single(n) = n
  <2>1. n = IF n < 0 THEN 0 - a ELSE a
    BY <1>1, MagnitudeIs DEF a
  <2> QED BY <1>4, <1>8, <2>1
<1>11. Magnitude(Single(n)) \in 1..W
  BY <1>1, <1>4, <1>7, <1>9
<1> QED BY <1>6, <1>9, <1>10, <1>11, Zenon DEF a, M, W

(* A quotient in parts, wrong by no more than one part in SingleMax.       *)
LEMMA SingleQuotientIs ==
  ASSUME NEW n \in Int, n # 0, Magnitude(n) <= Weight[Width],
         NEW d \in Int, d # 0, Magnitude(d) <= Weight[Width]
  PROVE  \E x \in Nat, F \in Nat \ {0} :
           /\ SingleQuotient(n, d) = value_float_new(IF (n < 0) = (d < 0) THEN x ELSE -x, F)
           /\ SingleMax * (x * Magnitude(d) - Magnitude(n) * F) <= Magnitude(n) * F
           /\ SingleMax * (Magnitude(n) * F - x * Magnitude(d)) <= Magnitude(n) * F
<1> DEFINE M == SingleMax
           W == Weight[Width]
           a == Magnitude(n)
           b == Magnitude(d)
           F == W * M
           x == Nearest(a * F, b)
<1>1. M \in Nat \ {0} /\ W \in Nat \ {0} /\ Width \in 1..64
  BY SingleAssumption, WidthIs, WeightIs
<1>2. a \in Nat \ {0} /\ b \in Nat \ {0} /\ a <= W /\ b <= W
  BY MagnitudeIs
<1>3. SingleQuotient(n, d) = value_float_new(IF (n < 0) = (d < 0) THEN x ELSE -x, F)
  BY Zenon DEF SingleQuotient
<1>4. Weight[2 * Width] = W * W
  BY SquareOfWidth
<1> HIDE DEF a, b, W, M
<1>5. F \in Nat \ {0} /\ a * F \in Nat
  BY <1>1, <1>2
<1>6. a * F <= (W * W) * M * b
  <2>1. a * F <= W * F
    <3> HIDE DEF F
    <3> QED BY <1>1, <1>2, <1>5
  <2>2. W * F = (W * W) * M
    BY <1>1
  <2> DEFINE p == (W * W) * M
  <2>3. p \in Nat
    BY <1>1
  <2> HIDE DEF p
  <2>4. p <= p * b
    BY <2>3, <1>2
  <2>5. p * b \in Int
    BY <2>3, <1>2
  <2> HIDE DEF F
  <2>6. a * F <= p
    BY <2>1, <2>2 DEF p
  <2>7. a * F <= p * b
    BY <2>3, <2>4, <2>5, <2>6, <1>5
  <2> QED BY <2>7 DEF p
<1>7. a * F >= M * b
  <2>1. a * F >= F
    <3> HIDE DEF F
    <3> QED BY <1>2, <1>5
  <2>2. F >= M * b
    <3>1. M * b <= M * W /\ F = M * W
      BY <1>1, <1>2
    <3> QED BY <3>1, <1>1, <1>2
  <2>3. M * b \in Int
    BY <1>1, <1>2
  <2> HIDE DEF F
  <2> QED BY <1>5, <2>1, <2>2, <2>3
<1> HIDE DEF F
<1>8. 2 * Width \in 0..(2 * Width)
  BY <1>1
<1>9. x \in Nat /\ M * (x * b - a * F) <= a * F /\ M * (a * F - x * b) <= a * F
  <2> DEFINE p == a * F
  <2>1. p \in Nat /\ p <= Weight[2 * Width] * SingleMax * b /\ p >= SingleMax * b
    BY <1>4, <1>5, <1>6, <1>7 DEF M
  <2> HIDE DEF p
  <2>2. /\ Nearest(p, b) \in Nat
        /\ SingleMax * (Nearest(p, b) * b - p) <= p
        /\ SingleMax * (p - Nearest(p, b) * b) <= p
    BY <2>1, <1>2, <1>8, NearestIs
  <2> QED BY <2>2 DEF p, M
<1> HIDE DEF x
<1> QED BY <1>3, <1>5, <1>9 DEF a, b, M

(* An integer quotient without a remainder, times the divisor.             *)
LEMMA TimesUndoesQuotient ==
  ASSUME NEW l, Number(l), NEW r, Number(r), value_is_int(l), value_is_int(r),
         r.num # 0, Remainder(l.num, r.num) = 0, ~(l.num = IntMin /\ r.num = -1)
  PROVE  Arith("*", value_int_new(Quotient(l.num, r.num)), r) = l
<1> DEFINE a == l.num
           b == r.num
           q == Quotient(a, b)
           x == value_int_new(q)
<1>1. a \in IntRange /\ b \in IntRange /\ a \in Int /\ b \in Int /\ l = value_int_new(a)
  BY NumberIs
<1>2. q \in Int /\ a = q * b + Remainder(a, b)
  BY <1>1, DivisionIs
<1> HIDE DEF a, b
<1>3. x.num = q /\ value_is_int(x)
  BY DEF value_int_new, value_is_int
<1> HIDE DEF q, x
<1>4. a = q * b
  <2> DEFINE y == q * b
  <2>1. y \in Int
    BY <1>1, <1>2
  <2> HIDE DEF y
  <2>2. a = y + 0
    BY <1>2 DEF y, a, b
  <2> QED BY <2>1, <2>2 DEF y
<1>5. Arith("*", x, r) = value_int_new(Wrap(q * b))
  BY <1>3, IntEvaluation DEF b
<1>6. Wrap(a) = a
  BY <1>1, WrapIs
<1> QED BY <1>1, <1>4, <1>5, <1>6 DEF x, q, a, b

(* A fraction of two numbers, times the divisor.                           *)
LEMMA TimesUndoesFraction ==
  ASSUME NEW a \in Int, NEW c \in Nat \ {0}, NEW b \in Int, b # 0, NEW d \in Nat \ {0},
         NEW r, r.num = b, r.den = d, value_is_numeric(r), ~value_is_string(r)
  PROVE  Arith("*", value_float_new(a * d, c * b), r) = value_float_new(a, c)
<1> DEFINE n == a * d
           e == c * b
           f == value_float_new(n, e)
           p == f.num
           q == f.den
           m == p * b
           k == q * d
<1>1. n \in Int /\ e \in Int /\ e # 0
  OBVIOUS
<1>2. /\ p \in Int /\ q \in Nat \ {0} /\ p * e = n * q
      /\ ~value_is_int(f) /\ ~value_is_string(f) /\ value_is_numeric(f)
  <2> HIDE DEF n, e
  <2> QED BY <1>1, FloatParts
<1> HIDE DEF f
<1>3. Arith("*", f, r) = value_float_new(m, k)
  <2>1. Arith("*", f, r) = Times(f, r)
    BY <1>2, FloatEvaluation
  <2> QED BY <2>1 DEF Times
<1> HIDE DEF p, q
<1>4. m \in Int /\ k \in Int /\ k # 0
  BY <1>2
<1>5. m * c = a * k
  <2>1. m * c = p * (c * b)
    BY <1>2
  <2>2. a * k = (a * d) * q
    BY <1>2
  <2> QED BY <1>2, <2>1, <2>2
<1> HIDE DEF m, k
<1>6. value_float_new(m, k) = value_float_new(a, c)
  BY <1>4, <1>5, SameFloat
<1> QED BY <1>3, <1>6 DEF f

(* What / does, * undoes, but for a quotient of integers with a remainder. *)
LEMMA TimesUndoesOver ==
  ASSUME NEW l, Number(l), NEW r, Number(r), r.num # 0,
         Arith("/", l, r) # Trap,
         ~(value_is_int(l) /\ value_is_int(r)) \/ value_is_int(Arith("/", l, r))
  PROVE  value_float(Arith("*", Arith("/", l, r), r)) = value_float(l)
<1> DEFINE x == Arith("/", l, r)
           a == l.num
           b == r.num
           c == l.den
           d == r.den
           f == value_float_new(a, c)
<1>1. /\ a \in Int /\ b \in Int /\ b # 0 /\ c \in Nat \ {0} /\ d \in Nat \ {0}
      /\ value_is_numeric(l) /\ value_is_numeric(r)
      /\ ~value_is_string(l) /\ ~value_is_string(r)
  BY NumberIs DEF Number
<1>2. value_float(l) = f /\ value_float(f) = f
  <2>1. value_float(l) = f
    BY FloatOfNumber
  <2> HIDE DEF a, c
  <2>2. value_float(f) = f
    BY <1>1, FloatParts
  <2> QED BY <2>1, <2>2
<1>3. CASE value_is_int(l) /\ value_is_int(r)
  <2>1. x = IF a = IntMin /\ b = -1 THEN Trap
            ELSE IF Remainder(a, b) = 0 THEN value_int_new(Quotient(a, b))
            ELSE SingleQuotient(Single(a), Single(b))
    BY <1>3, IntEvaluation
  <2>2. ~(a = IntMin /\ b = -1)
    BY <2>1
  <2>3. CASE Remainder(a, b) = 0
    <3>1. x = value_int_new(Quotient(a, b))
      BY <2>1, <2>2, <2>3
    <3>2. Arith("*", value_int_new(Quotient(a, b)), r) = l
      BY <1>3, <2>2, <2>3, TimesUndoesQuotient
    <3> QED BY <3>1, <3>2, Zenon
  <2>4. CASE Remainder(a, b) # 0
    <3>1. x.type = "float"
      BY <2>1, <2>2, <2>4, FloatIs DEF SingleQuotient
    <3>2. value_is_int(x)
      BY <1>3
    <3> HIDE DEF x
    <3> QED BY <3>1, <3>2 DEF value_is_int
  <2> QED BY <2>3, <2>4
<1>4. CASE ~(value_is_int(l) /\ value_is_int(r))
  <2>1. x = Over(l, r)
    BY <1>1, <1>4, FloatEvaluation
  <2>2. x = value_float_new(a * d, c * b)
    BY <2>1, Zenon DEF Over
  <2>3. Arith("*", value_float_new(a * d, c * b), r) = f
    BY <1>1, TimesUndoesFraction
  <2> HIDE DEF x
  <2>4. Arith("*", x, r) = f
    BY <2>2, <2>3, Zenon
  <2> QED BY <1>2, <2>4, Zenon DEF x
<1> QED BY <1>3, <1>4

(* A factor keeps the order of numbers, and may be dropped.                *)
LEMMA FactorKeepsOrder ==
  ASSUME NEW a \in Int, NEW b \in Int, NEW k \in Nat \ {0}
  PROVE  k * a <= k * b <=> a <= b
<1> DEFINE e == b - a
<1>1. e \in Int /\ k * b = k * a + k * e /\ k * a \in Int /\ k * e \in Int /\ b = a + e
  OBVIOUS
<1> HIDE DEF e
<1>2. e >= 0 => k * e >= 0
  BY <1>1
<1>3. e < 0 => k * e < 0
  BY <1>1
<1> QED BY <1>1, <1>2, <1>3

(* One part in s, of two numbers that are both multiplied by f.            *)
LEMMA PartOfProduct ==
  ASSUME NEW s \in Nat, NEW a \in Nat, NEW b \in Nat, NEW f \in Nat,
         s * (b - a) <= a, s * (a - b) <= a
  PROVE  s * (b * f) - s * (a * f) <= a * f /\ s * (a * f) - s * (b * f) <= a * f
<1>1. CASE f = 0
  BY <1>1
<1>2. CASE f # 0
  <2> DEFINE u == s * (b - a)
             v == s * (a - b)
  <2>1. u \in Int /\ v \in Int /\ f \in Nat \ {0}
    BY <1>2
  <2>2. f * u <= f * a /\ f * v <= f * a
    <3> HIDE DEF u, v
    <3>1. u <= a /\ v <= a
      BY DEF u, v
    <3> QED BY <2>1, <3>1, FactorKeepsOrder
  <2>3. f * u = s * (b * f) - s * (a * f) /\ f * v = s * (a * f) - s * (b * f) /\ f * a = a * f
    OBVIOUS
  <2> QED BY <2>2, <2>3
<1> QED BY <1>1, <1>2

(* Three roundings, of dividend, divisor and quotient, are worth four.     *)
LEMMA ThreeRoundings ==
  ASSUME NEW s \in Nat, s >= 5, NEW p \in Nat, NEW q \in Nat, NEW u \in Nat, NEW v \in Nat,
         s * v - s * u <= u, s * u - s * v <= u,
         s * q - s * p <= p, s * p - s * q <= p,
         s * q - s * v <= v, s * v - s * q <= v
  PROVE  s * p - s * u <= 4 * u /\ s * u - s * p <= 4 * u
<1>1. s - 1 \in Nat \ {0} /\ s + 1 \in Nat \ {0} /\ s \in Nat \ {0}
  OBVIOUS
<1>2. s * p \in Nat /\ s * q \in Nat /\ s * u \in Nat /\ s * v \in Nat
  OBVIOUS
<1>3. s * p - s * u <= 4 * u
  <2>1. (s - 1) * p <= (s + 1) * v
    BY <1>2
  <2>2. s * v <= (s + 1) * u
    BY <1>2
  <2>3. s * ((s - 1) * p) <= s * ((s + 1) * v)
    <3>1. (s - 1) * p \in Int /\ (s + 1) * v \in Int
      BY <1>1
    <3> QED BY <2>1, <3>1, <1>1, FactorKeepsOrder
  <2>4. (s + 1) * (s * v) <= (s + 1) * ((s + 1) * u)
    <3>1. s * v \in Int /\ (s + 1) * u \in Int
      BY <1>1
    <3> QED BY <2>2, <3>1, <1>1, FactorKeepsOrder
  <2>5. (s + 1) * ((s + 1) * u) <= (s - 1) * ((s + 4) * u)
    <3>1. (s - 1) * ((s + 4) * u) - (s + 1) * ((s + 1) * u) = (s - 5) * u
      OBVIOUS
    <3>2. (s - 5) * u >= 0 /\ (s - 5) * u \in Int
      OBVIOUS
    <3>3. (s - 1) * ((s + 4) * u) \in Int /\ (s + 1) * ((s + 1) * u) \in Int
      BY <1>1
    <3> QED BY <3>1, <3>2, <3>3
  <2>6. s * ((s - 1) * p) = (s - 1) * (s * p) /\ s * ((s + 1) * v) = (s + 1) * (s * v)
    OBVIOUS
  <2>7. (s - 1) * (s * p) <= (s - 1) * ((s + 4) * u)
    <3> DEFINE a == (s - 1) * (s * p)
               b == (s + 1) * (s * v)
               c == (s + 1) * ((s + 1) * u)
               d == (s - 1) * ((s + 4) * u)
    <3>1. a \in Int /\ b \in Int /\ c \in Int /\ d \in Int
      BY <1>1
    <3>2. a <= b /\ b <= c /\ c <= d
      BY <2>3, <2>4, <2>5, <2>6
    <3> HIDE DEF a, b, c, d
    <3>3. a <= d
      BY <3>1, <3>2
    <3> QED BY <3>3 DEF a, d
  <2>8. s * p <= (s + 4) * u
    <3>1. s * p \in Int /\ (s + 4) * u \in Int
      BY <1>1
    <3> QED BY <2>7, <3>1, <1>1, FactorKeepsOrder
  <2> QED BY <2>8, <1>2
<1>4. s * u - s * p <= 4 * u
  <2>1. (s - 1) * v <= (s + 1) * p
    BY <1>2
  <2>2. (s - 1) * u <= s * v
    BY <1>2
  <2>3. s * ((s - 1) * v) <= s * ((s + 1) * p)
    <3>1. (s - 1) * v \in Int /\ (s + 1) * p \in Int
      BY <1>1
    <3> QED BY <2>1, <3>1, <1>1, FactorKeepsOrder
  <2>4. (s - 1) * ((s - 1) * u) <= (s - 1) * (s * v)
    <3>1. s * v \in Int /\ (s - 1) * u \in Int
      BY <1>1
    <3> QED BY <2>2, <3>1, <1>1, FactorKeepsOrder
  <2>5. (s + 1) * ((s - 4) * u) <= (s - 1) * ((s - 1) * u)
    <3>1. (s - 1) * ((s - 1) * u) - (s + 1) * ((s - 4) * u) = (s + 5) * u
      OBVIOUS
    <3>2. (s + 5) * u >= 0 /\ (s + 5) * u \in Int
      OBVIOUS
    <3>3. (s + 1) * ((s - 4) * u) \in Int /\ (s - 1) * ((s - 1) * u) \in Int
      BY <1>1
    <3> QED BY <3>1, <3>2, <3>3
  <2>6. s * ((s - 1) * v) = (s - 1) * (s * v) /\ s * ((s + 1) * p) = (s + 1) * (s * p)
    OBVIOUS
  <2>7. (s + 1) * ((s - 4) * u) <= (s + 1) * (s * p)
    <3> DEFINE a == (s + 1) * ((s - 4) * u)
               b == (s - 1) * ((s - 1) * u)
               c == (s - 1) * (s * v)
               d == (s + 1) * (s * p)
    <3>1. a \in Int /\ b \in Int /\ c \in Int /\ d \in Int
      BY <1>1
    <3>2. a <= b /\ b <= c /\ c <= d
      BY <2>3, <2>4, <2>5, <2>6
    <3> HIDE DEF a, b, c, d
    <3>3. a <= d
      BY <3>1, <3>2
    <3> QED BY <3>3 DEF a, d
  <2>8. (s - 4) * u <= s * p
    <3>1. s * p \in Int /\ (s - 4) * u \in Int
      BY <1>1
    <3> QED BY <2>7, <3>1, <1>1, FactorKeepsOrder
  <2> QED BY <2>8, <1>2
<1> QED BY <1>3, <1>4

(* An integer is its magnitude with its sign.                              *)
LEMMA SignAndMagnitude ==
  ASSUME NEW n \in Int
  PROVE  n = IF n < 0 THEN 0 - Magnitude(n) ELSE Magnitude(n)
  BY MagnitudeIs

(* The quotient of two integers in parts, as their cast makes it: wrong by *)
(* no more than Slack says.                                                *)
LEMMA PartsAreClose ==
  ASSUME NEW a \in IntRange, a # 0, NEW b \in IntRange, b # 0
  PROVE  \E x \in Nat, F \in Nat \ {0} :
           /\ SingleQuotient(Single(a), Single(b))
                = value_float_new(IF (a < 0) = (b < 0) THEN x ELSE 0 - x, F)
           /\ Magnitude(Magnitude(b) * x - Magnitude(a) * F) * SingleMax
                <= Slack(a, b) * (Magnitude(a) * F)
<1> DEFINE S == SingleMax
           n == Single(a)
           d == Single(b)
           A == Magnitude(a)
           B == Magnitude(b)
           L == Magnitude(n)
           R == Magnitude(d)
<1>1. S \in Nat /\ S >= 5 /\ a \in Int /\ b \in Int
  BY SingleAssumption, Bounds
<1>2. /\ n \in Int /\ n # 0 /\ (n < 0) = (a < 0) /\ L \in 1..Weight[Width]
      /\ S * (L - A) <= A /\ S * (A - L) <= A /\ (A <= S => n = a)
  BY SingleIs, Zenon
<1>3. /\ d \in Int /\ d # 0 /\ (d < 0) = (b < 0) /\ R \in 1..Weight[Width]
      /\ S * (R - B) <= B /\ S * (B - R) <= B /\ (B <= S => d = b)
  BY SingleIs, Zenon
<1>4. A \in Nat /\ B \in Nat /\ L \in Nat /\ R \in Nat /\ Weight[Width] \in Nat
  BY <1>1, <1>2, <1>3, MagnitudeIs, WidthIs, WeightIs
<1> HIDE DEF n, d, A, B
<1>5. L <= Weight[Width] /\ R <= Weight[Width]
  BY <1>2, <1>3, <1>4
<1>6. PICK x \in Nat, F \in Nat \ {0} :
        /\ SingleQuotient(n, d) = value_float_new(IF (n < 0) = (d < 0) THEN x ELSE -x, F)
        /\ S * (x * R - L * F) <= L * F
        /\ S * (L * F - x * R) <= L * F
  BY <1>2, <1>3, <1>5, SingleQuotientIs
<1>7. A <= S /\ B <= S => L = A /\ R = B
  BY <1>2, <1>3 DEF A, B
<1> HIDE DEF L, R, S
<1> DEFINE p == B * x
           q == R * x
           u == A * F
           v == L * F
<1>8. p \in Nat /\ q \in Nat /\ u \in Nat /\ v \in Nat
  BY <1>4
<1>9. S * v - S * u <= u /\ S * u - S * v <= u
  BY <1>1, <1>2, <1>4, PartOfProduct
<1>10. S * q - S * p <= p /\ S * p - S * q <= p
  BY <1>1, <1>3, <1>4, PartOfProduct
<1>11. S * q - S * v <= v /\ S * v - S * q <= v
  <2>1. x * R = q
    BY <1>4
  <2>2. S * (q - v) <= v /\ S * (v - q) <= v
    BY <1>6, <2>1
  <2> HIDE DEF q, v
  <2> QED BY <2>2, <1>1, <1>8
<1>12. A <= S /\ B <= S => p = q /\ u = v
  BY <1>7
<1> HIDE DEF p, q, u, v
<1>13. S * p - S * u <= 4 * u /\ S * u - S * p <= 4 * u
  BY <1>1, <1>8, <1>9, <1>10, <1>11, ThreeRoundings
<1>14. A <= S /\ B <= S => S * p - S * u <= 1 * u /\ S * u - S * p <= 1 * u
  BY <1>8, <1>11, <1>12
<1>15. \A k \in Nat : S * p - S * u <= k * u /\ S * u - S * p <= k * u
                        => Magnitude(p - u) * S <= k * u
  <2> SUFFICES ASSUME NEW k \in Nat, S * p - S * u <= k * u, S * u - S * p <= k * u
               PROVE  Magnitude(p - u) * S <= k * u
    OBVIOUS
  <2>1. CASE p - u < 0
    <3>1. Magnitude(p - u) = u - p
      BY <2>1, <1>8 DEF Magnitude
    <3>2. (u - p) * S = S * u - S * p
      BY <1>1, <1>8
    <3> QED BY <3>1, <3>2
  <2>2. CASE ~(p - u < 0)
    <3>1. Magnitude(p - u) = p - u
      BY <2>2, <1>8 DEF Magnitude
    <3>2. (p - u) * S = S * p - S * u
      BY <1>1, <1>8
    <3> QED BY <3>1, <3>2
  <2> QED BY <2>1, <2>2
<1>16. Magnitude(p - u) * S <= Slack(a, b) * u
  <2>1. CASE A <= S /\ B <= S
    <3>1. Slack(a, b) = 1
      <4>1. Magnitude(a) \in 0..SingleMax /\ Magnitude(b) \in 0..SingleMax
        BY <2>1, <1>1, <1>4 DEF A, B, S
      <4> QED BY <4>1 DEF Slack
    <3>2. Magnitude(p - u) * S <= 1 * u
      BY <2>1, <1>14, <1>15
    <3> QED BY <3>1, <3>2
  <2>2. CASE ~(A <= S /\ B <= S)
    <3>1. Slack(a, b) = 4
      <4>1. ~({Magnitude(a), Magnitude(b)} \subseteq 0..SingleMax)
        BY <2>2, <1>1, <1>4 DEF A, B, S
      <4> QED BY <4>1 DEF Slack
    <3>2. Magnitude(p - u) * S <= 4 * u
      BY <1>13, <1>15
    <3> QED BY <3>1, <3>2
  <2> QED BY <2>1, <2>2
<1>17. ((n < 0) = (d < 0)) = ((a < 0) = (b < 0))
  <2>1. (n < 0) = (a < 0) /\ (d < 0) = (b < 0)
    BY <1>2, <1>3
  <2> QED BY <2>1, Zenon
<1>18. SingleQuotient(n, d) = value_float_new(IF (a < 0) = (b < 0) THEN x ELSE 0 - x, F)
  <2>1. -x = 0 - x
    OBVIOUS
  <2> QED BY <1>6, <1>17, <2>1, Zenon
<1> QED BY <1>16, <1>18, Zenon DEF n, d, p, u, A, B, S

(* * gives the dividend of integers back but for what Slack says.          *)
LEMMA TimesNearlyUndoesOver ==
  ASSUME NEW l, Number(l), NEW r, Number(r), value_is_int(l), value_is_int(r), r.num # 0,
         value_is_float(Arith("/", l, r))
  PROVE  LET back == Arith("*", Arith("/", l, r), r)
         IN  Magnitude(back.num - l.num * back.den) * SingleMax
               <= Slack(l.num, r.num) * (Magnitude(l.num) * back.den)
<1> DEFINE f == Arith("/", l, r)
           back == Arith("*", f, r)
           a == l.num
           b == r.num
           A == Magnitude(a)
           B == Magnitude(b)
           S == SingleMax
           k == Slack(a, b)
<1>1. /\ a \in IntRange /\ b \in IntRange /\ a \in Int /\ b \in Int /\ b # 0 /\ r.den = 1
      /\ value_is_numeric(r) /\ ~value_is_string(r)
  BY NumberIs DEF Number, value_is_int, value_is_numeric, value_is_string
<1>2. f = SingleQuotient(Single(a), Single(b)) /\ Remainder(a, b) # 0
  <2>1. f = IF a = IntMin /\ b = -1 THEN Trap
            ELSE IF Remainder(a, b) = 0 THEN value_int_new(Quotient(a, b))
            ELSE SingleQuotient(Single(a), Single(b))
    BY IntEvaluation
  <2>2. value_is_float(f)
    OBVIOUS
  <2> HIDE DEF f
  <2>3. ~value_is_float(Trap) /\ ~value_is_float(value_int_new(Quotient(a, b)))
    BY DEF Trap, value_int_new, value_is_float
  <2> QED BY <2>1, <2>2, <2>3, Zenon
<1>3. a # 0
  <2> SUFFICES ASSUME a = 0 PROVE FALSE
    OBVIOUS
  <2>1. (0 % Magnitude(b)) = 0
    <3>1. Magnitude(b) \in Nat \ {0}
      BY <1>1, MagnitudeIs
    <3> HIDE DEF b
    <3> QED BY <3>1
  <2>2. Remainder(a, b) = 0 <=> (a % Magnitude(b)) = 0
    BY <1>1, DivisionIs
  <2> QED BY <2>1, <2>2, <1>2
<1> HIDE DEF f, a, b
<1>4. PICK x \in Nat, F \in Nat \ {0} :
        /\ f = value_float_new(IF (a < 0) = (b < 0) THEN x ELSE 0 - x, F)
        /\ Magnitude(B * x - A * F) * S <= k * (A * F)
  BY <1>1, <1>2, <1>3, PartsAreClose
<1> DEFINE y == IF (a < 0) = (b < 0) THEN x ELSE 0 - x
           p == f.num
           q == f.den
<1>5. y \in Int
  OBVIOUS
<1>6. /\ p \in Int /\ q \in Nat \ {0} /\ p * F = y * q
      /\ ~value_is_int(f) /\ ~value_is_string(f) /\ value_is_numeric(f)
  <2> HIDE DEF y
  <2>1. f = value_float_new(y, F) /\ F \in Int /\ F # 0
    BY <1>4 DEF y
  <2> QED BY <1>5, <2>1, FloatParts
<1>7. back = value_float_new(p * b, q * 1)
  <2>1. back = Times(f, r)
    BY <1>1, <1>6, FloatEvaluation
  <2> QED BY <2>1, <1>1 DEF Times, b
<1> DEFINE N == back.num
           D == back.den
<1>8. N \in Int /\ D \in Nat \ {0} /\ N * q = (p * b) * D
  <2>1. p * b \in Int /\ q * 1 \in Int /\ q * 1 # 0 /\ q * 1 = q
    BY <1>1, <1>6
  <2> HIDE DEF back
  <2> QED BY <2>1, <1>7, FloatParts
<1>9. k \in Nat /\ A \in Nat /\ B \in Nat /\ S \in Nat
  BY <1>1, MagnitudeIs, SingleAssumption DEF Slack
<1> HIDE DEF y, p, q, N, D, k, A, B, S, back
<1>10. N * F = (y * b) * D
  <2>1. (N * F) * q = ((y * b) * D) * q
    <3>1. (N * F) * q = (N * q) * F
      BY <1>6, <1>8
    <3>2. ((p * b) * D) * F = ((p * F) * b) * D
      BY <1>1, <1>6, <1>8
    <3>3. ((y * q) * b) * D = ((y * b) * D) * q
      BY <1>1, <1>5, <1>6, <1>8
    <3> QED BY <3>1, <3>2, <3>3, <1>6, <1>8
  <2> DEFINE g == N * F
             h == (y * b) * D
  <2>2. g \in Int /\ h \in Int /\ g * q = h * q
    BY <2>1, <1>1, <1>5, <1>8
  <2> HIDE DEF g, h
  <2>3. g = h
    BY <2>2, <1>6
  <2> QED BY <2>3 DEF g, h
<1> DEFINE e == B * x - A * F
           c == N - a * D
<1>11. y * b - a * F = e \/ y * b - a * F = 0 - e
  <2>1. a = (IF a < 0 THEN 0 - A ELSE A) /\ b = (IF b < 0 THEN 0 - B ELSE B)
    BY <1>1, SignAndMagnitude DEF A, B
  <2>2. /\ (0 - x) * (0 - B) = B * x /\ x * (0 - B) = 0 - B * x
        /\ (0 - x) * B = 0 - B * x /\ x * B = B * x /\ (0 - A) * F = 0 - A * F
        /\ B * x \in Int /\ A * F \in Int
    BY <1>9
  <2>3. CASE a < 0 /\ b < 0
    BY <2>1, <2>2, <2>3 DEF y
  <2>4. CASE a < 0 /\ ~(b < 0)
    BY <2>1, <2>2, <2>4 DEF y
  <2>5. CASE ~(a < 0) /\ b < 0
    BY <2>1, <2>2, <2>5 DEF y
  <2>6. CASE ~(a < 0) /\ ~(b < 0)
    BY <2>1, <2>2, <2>6 DEF y
  <2> QED BY <2>3, <2>4, <2>5, <2>6
<1>12. c * F = (y * b - a * F) * D
  <2>1. c * F = N * F - (a * D) * F
    BY <1>1, <1>8
  <2>2. (y * b - a * F) * D = (y * b) * D - (a * F) * D
    <3> DEFINE g == y * b
               h == a * F
    <3>1. g \in Int /\ h \in Int
      BY <1>1, <1>5
    <3> HIDE DEF g, h
    <3>2. (g - h) * D = g * D - h * D
      BY <3>1, <1>8
    <3> QED BY <3>2 DEF g, h
  <2>3. (a * D) * F = (a * F) * D
    BY <1>1, <1>8
  <2> QED BY <2>1, <2>2, <2>3, <1>10
<1>13. c \in Int /\ e \in Int
  BY <1>1, <1>8, <1>9
<1>14. Magnitude(c) * F = Magnitude(e) * D
  <2> DEFINE g == y * b - a * F
  <2>1. g \in Int /\ (g = e \/ g = 0 - e) /\ c * F = g * D
    BY <1>1, <1>5, <1>11, <1>12
  <2> HIDE DEF g, c, e
  <2>2. Magnitude(g) = Magnitude(e)
    BY <2>1, <1>13, MagnitudeIs
  <2>3. Magnitude(c) * F = Magnitude(c * F)
    <3>1. (0 - c) * F = 0 - c * F /\ c * F \in Int
      BY <1>13
    <3>2. c < 0 => c * F < 0
      BY <1>13
    <3>3. c >= 0 => c * F >= 0
      BY <1>13
    <3>4. c < 0 => Magnitude(c) = 0 - c
      BY <1>13, MagnitudeIs
    <3>5. c >= 0 => Magnitude(c) = c
      BY <1>13, MagnitudeIs
    <3>6. c * F < 0 => Magnitude(c * F) = 0 - c * F
      BY <3>1, MagnitudeIs
    <3>7. c * F >= 0 => Magnitude(c * F) = c * F
      BY <3>1, MagnitudeIs
    <3> QED BY <3>1, <3>2, <3>3, <3>4, <3>5, <3>6, <3>7, <1>13
  <2>4. Magnitude(g) * D = Magnitude(g * D)
    <3>1. (0 - g) * D = 0 - g * D /\ g * D \in Int
      BY <2>1, <1>8
    <3>2. g < 0 => g * D < 0
      BY <2>1, <1>8
    <3>3. g >= 0 => g * D >= 0
      BY <2>1, <1>8
    <3>4. g < 0 => Magnitude(g) = 0 - g
      BY <2>1, MagnitudeIs
    <3>5. g >= 0 => Magnitude(g) = g
      BY <2>1, MagnitudeIs
    <3>6. g * D < 0 => Magnitude(g * D) = 0 - g * D
      BY <3>1, MagnitudeIs
    <3>7. g * D >= 0 => Magnitude(g * D) = g * D
      BY <3>1, MagnitudeIs
    <3> QED BY <3>1, <3>2, <3>3, <3>4, <3>5, <3>6, <3>7, <2>1
  <2> QED BY <2>1, <2>2, <2>3, <2>4
<1> DEFINE cc == Magnitude(c)
           ee == Magnitude(e)
<1>15. cc \in Nat /\ ee \in Nat /\ cc * F = ee * D /\ ee * S <= k * (A * F)
  BY <1>4, <1>13, <1>14, MagnitudeIs DEF S
<1> HIDE DEF c, e, cc, ee
<1>16. D * (ee * S) <= D * (k * (A * F))
  <2>1. ee * S \in Int
    BY <1>9, <1>15
  <2>2. A * F \in Int
    BY <1>9
  <2> DEFINE g == A * F
  <2>3. k * g \in Int
    BY <2>2, <1>9
  <2> QED BY <2>1, <2>3, <1>8, <1>15, FactorKeepsOrder
<1>17. F * (cc * S) <= F * (k * (A * D))
  <2>1. F * (cc * S) = (cc * F) * S
    BY <1>9, <1>15
  <2>2. (ee * D) * S = D * (ee * S)
    BY <1>8, <1>9, <1>15
  <2>3. D * (k * (A * F)) = F * (k * (A * D))
    BY <1>8, <1>9
  <2> QED BY <2>1, <2>2, <2>3, <1>15, <1>16
<1>18. cc * S <= k * (A * D)
  <2>1. cc * S \in Int
    BY <1>9, <1>15
  <2>2. A * D \in Nat
    BY <1>8, <1>9
  <2> DEFINE g == A * D
  <2>3. k * g \in Int
    BY <2>2, <1>9
  <2> QED BY <2>1, <2>3, <1>17, FactorKeepsOrder
<1> QED BY <1>18 DEF cc, c, k, A, N, D, S, back, f, a, b

(* Operands that compare: two numbers or two strings.                      *)
Comparable(l, r) == (Number(l) /\ Number(r)) \/ (Text(l) /\ Text(r))

(* One of two operands is less, or they are equal.                         *)
LEMMA OneOrder ==
  ASSUME NEW l, NEW r, Comparable(l, r)
  PROVE  /\ Less(l, r) \in BOOLEAN /\ Equals(l, r) \in BOOLEAN
         /\ Less(r, l) \in BOOLEAN /\ Equals(r, l) \in BOOLEAN
         /\ Less(l, r) \/ Equals(l, r) \/ Less(r, l)
         /\ ~(Less(l, r) /\ Equals(l, r)) /\ ~(Less(l, r) /\ Less(r, l))
         /\ ~(Equals(l, r) /\ Less(r, l)) /\ (Equals(r, l) <=> Equals(l, r))
<1>1. CASE Number(l) /\ Number(r)
  <2> DEFINE x == l.num * r.den
             y == r.num * l.den
  <2>1. x \in Int /\ y \in Int /\ ~value_is_string(l) /\ ~value_is_string(r)
    BY <1>1, NumberIs
  <2>2. /\ Less(l, r) = (x < y) /\ Less(r, l) = (y < x)
        /\ Equals(l, r) = (x = y) /\ Equals(r, l) = (y = x)
    BY <2>1 DEF Less, Equals
  <2>3. /\ (x < y) \in BOOLEAN /\ (y < x) \in BOOLEAN
        /\ (x = y) \in BOOLEAN /\ (y = x) \in BOOLEAN
    BY <2>1
  <2>4. /\ x < y \/ x = y \/ y < x
        /\ ~(x < y /\ x = y) /\ ~(x < y /\ y < x) /\ ~(x = y /\ y < x)
    BY <2>1
  <2> HIDE DEF x, y
  <2> QED BY <2>2, <2>3, <2>4, Zenon
<1>2. CASE Text(l) /\ Text(r)
  <2> DEFINE s == l.str
             u == r.str
  <2>1. s \in Seq(Bytes) /\ u \in Seq(Bytes) /\ value_is_string(l) /\ value_is_string(r)
    BY <1>2, TextIs
  <2>2. /\ Less(l, r) = Before(s, u) /\ Less(r, l) = Before(u, s)
        /\ Equals(l, r) = (s = u) /\ Equals(r, l) = (u = s)
    BY <2>1 DEF Less, Equals
  <2> HIDE DEF s, u
  <2>3. Before(s, u) \in BOOLEAN /\ Before(u, s) \in BOOLEAN
    BY Zenon DEF Before
  <2>4. /\ s # u => Before(s, u) \/ Before(u, s)
        /\ ~(Before(s, u) /\ Before(u, s))
        /\ (Before(s, u) => s # u) /\ (Before(u, s) => u # s)
    BY <2>1, StringsAreOrdered
  <2> QED BY <2>2, <2>3, <2>4
<1> QED BY <1>1, <1>2 DEF Comparable

(* A comparison says -1 if it holds.                                       *)
LEMMA HoldsIf ==
  ASSUME NEW l, NEW r, Comparable(l, r)
  PROVE  /\ (Comp("=", l, r).num = -1) = Equals(l, r)
         /\ (Comp("<>", l, r).num = -1) = ~Equals(l, r)
         /\ (Comp("<", l, r).num = -1) = Less(l, r)
         /\ (Comp("<=", l, r).num = -1) = (Less(l, r) \/ Equals(l, r))
         /\ (Comp(">", l, r).num = -1) = ~(Less(l, r) \/ Equals(l, r))
         /\ (Comp(">=", l, r).num = -1) = ~Less(l, r)
<1>1. \A b \in BOOLEAN : (Truth(b).num = -1) = b
  BY DEF Truth, value_int_new
<1>2. Less(l, r) \in BOOLEAN /\ Equals(l, r) \in BOOLEAN
  BY OneOrder
<1> value_is_string(l) = value_is_string(r)
  BY NumberIs, TextIs DEF Comparable, value_is_string
<1>3. \A t : Comp(t, l, r) =
        CASE t = "="  -> Truth(Equals(l, r))
          [] t = "<>" -> Truth(~Equals(l, r))
          [] t = "<"  -> Truth(Less(l, r))
          [] t = "<=" -> Truth(Less(l, r) \/ Equals(l, r))
          [] t = ">"  -> Truth(~(Less(l, r) \/ Equals(l, r)))
          [] t = ">=" -> Truth(~Less(l, r))
  BY Zenon DEF Comp, expr_eval_op_binary_comp
<1>4. /\ Comp("=", l, r) = Truth(Equals(l, r))
      /\ Comp("<>", l, r) = Truth(~Equals(l, r))
      /\ Comp("<", l, r) = Truth(Less(l, r))
      /\ Comp("<=", l, r) = Truth(Less(l, r) \/ Equals(l, r))
      /\ Comp(">", l, r) = Truth(~(Less(l, r) \/ Equals(l, r)))
      /\ Comp(">=", l, r) = Truth(~Less(l, r))
  BY <1>3
<1> QED BY <1>1, <1>2, <1>4

(* Of the comparisons of two operands, one in three holds.                 *)
LEMMA ComparisonsAgree ==
  ASSUME NEW l, NEW r, Comparable(l, r)
  PROVE  LET holds(t) == Comp(t, l, r).num = -1
         IN  /\ Cardinality({t \in {"<", "=", ">"} : holds(t)}) = 1
             /\ holds("<=") = ~holds(">") /\ holds("<>") = ~holds("=")
             /\ holds(">=") = ~holds("<")
             /\ holds("<") = (Comp(">", r, l).num = -1)
<1> DEFINE holds(t) == Comp(t, l, r).num = -1
           T == {t \in {"<", "=", ">"} : holds(t)}
<1>1. Comparable(r, l)
  BY DEF Comparable
<1>2. /\ holds("=") = Equals(l, r) /\ holds("<>") = ~Equals(l, r)
      /\ holds("<") = Less(l, r) /\ holds("<=") = (Less(l, r) \/ Equals(l, r))
      /\ holds(">") = ~(Less(l, r) \/ Equals(l, r)) /\ holds(">=") = ~Less(l, r)
  BY HoldsIf
<1>3. (Comp(">", r, l).num = -1) = ~(Less(r, l) \/ Equals(r, l))
  BY <1>1, HoldsIf
<1>4. /\ Less(l, r) \in BOOLEAN /\ Equals(l, r) \in BOOLEAN
      /\ Less(r, l) \in BOOLEAN /\ Equals(r, l) \in BOOLEAN
      /\ Less(l, r) \/ Equals(l, r) \/ Less(r, l)
      /\ ~(Less(l, r) /\ Equals(l, r)) /\ ~(Less(l, r) /\ Less(r, l))
      /\ ~(Equals(l, r) /\ Less(r, l)) /\ (Equals(r, l) <=> Equals(l, r))
  BY OneOrder
<1> HIDE DEF holds
<1>5. T = {"<"} \/ T = {"="} \/ T = {">"}
  BY <1>2, <1>4
<1>6. Cardinality(T) = 1
  <2> HIDE DEF T
  <2> QED BY <1>5, FS_Singleton
<1>7. holds("<=") = ~holds(">") /\ holds("<>") = ~holds("=") /\ holds(">=") = ~holds("<")
  BY <1>2, <1>4
<1>8. holds("<") = ~(Less(r, l) \/ Equals(r, l))
  BY <1>2, <1>4
<1> QED BY <1>3, <1>6, <1>7, <1>8 DEF holds, T

(* An operator but + has a value only for numbers, and division only for a *)
(* divisor that is not zero.                                               *)
LEMMA OperandsOfValue ==
  ASSUME Evaluated, Done, HasValue, op \in Arithmetic, op # "+"
  PROVE  /\ result = Arith(op, args[1], args[2])
         /\ Number(args[1]) /\ Number(args[2])
         /\ op \in {"/", "DIV", "MOD"} => args[2].num # 0
<1> DEFINE l == args[1]
           r == args[2]
<1>1. op \notin Ternary /\ op \notin Unary \cup {"minus", "NOT"}
  BY DEF Arithmetic, Ternary, Unary
<1>2. Arity(op) = 2
  BY <1>1, Zenon DEF Arity
<1>3. l \in Operand /\ r \in Operand
  BY <1>2 DEF Evaluated
<1>4. result = Arith(op, l, r)
  BY Zenon DEF Evaluated, Done, Evaluation, Arith
<1>5. \A code : result # Error(code)
  BY ValueIsNoError
<1>6. (Number(l) <=> value_is_numeric(l)) /\ (Number(r) <=> value_is_numeric(r))
  BY <1>3, NumberOrText, Zenon
<1>7. Number(l) /\ Number(r)
  <2> SUFFICES ASSUME ~(Number(l) /\ Number(r)) PROVE FALSE
    OBVIOUS
  <2>1. Arith(op, l, r) = Error("type mismatch")
    BY <1>6, Zenon DEF Arith, expr_eval_op_binary_arith
  <2> QED BY <1>4, <1>5, <2>1, Zenon
<1>8. ASSUME op \in {"/", "DIV", "MOD"}, r.num = 0 PROVE FALSE
  <2>1. ~value_is_string(l) /\ value_is_zero(r)
    BY <1>6, <1>7, <1>8, NumberIs DEF value_is_zero
  <2>2. Arith(op, l, r) = Error("division by zero")
    BY <1>6, <1>7, <1>8, <2>1, Zenon DEF Arith, expr_eval_op_binary_arith
  <2> QED BY <1>4, <1>5, <2>2, Zenon
<1> QED BY <1>4, <1>7, <1>8

(* OR, AND and EOR of numbers are those of their integers.                 *)
LEMMA BooleanIs ==
  ASSUME NEW l, Number(l), NEW r, Number(r)
  PROVE  \A t \in {"AND", "OR", "EOR"} :
           Arith(t, l, r).num = Bitwise(t, value_int(l), value_int(r))
<1> SUFFICES ASSUME NEW t \in {"AND", "OR", "EOR"}
             PROVE  Arith(t, l, r).num = Bitwise(t, value_int(l), value_int(r))
  OBVIOUS
<1>1. t \in Integral /\ t \notin {"DIV", "MOD"}
  BY DEF Integral
<1>2. Arith(t, l, r) = IntegralOp(t, value_int(l), value_int(r))
  BY <1>1, IntegralIs, Zenon
<1>3. Arith(t, l, r) = value_int_new(Bitwise(t, value_int(l), value_int(r)))
  BY <1>1, <1>2, Zenon DEF IntegralOp
<1> QED BY <1>3 DEF value_int_new

(* Operators fit together (expr_ops.c): NOT, AND, OR and EOR are those of  *)
(* the bits, - undoes + and * undoes / where no number is rounded, a       *)
(* rounded quotient times the divisor is as far from the dividend as the   *)
(* roundings explain, and the comparisons are those of one order.          *)
THEOREM OperatorsFitTogether == Spec => []OperatorsAgree
<1>1. Evaluated => OperatorsAgree
  <2> SUFFICES ASSUME Evaluated, Done, HasValue PROVE OperatorsAgree
    BY Zenon DEF OperatorsAgree
  <2> DEFINE l == args[1]
             r == args[2]
             n == value_int(l)
             m == value_int(r)
             of(t) == Arith(t, l, r).num
             back == Arith("*", result, r)
             whole == value_is_int(l) /\ value_is_int(r)
             holds(t) == Comp(t, l, r).num = -1
  <2>1. \A code : result # Error(code)
    BY ValueIsNoError
  <2>2. ASSUME op \in {"AND", "OR", "EOR"}
        PROVE  /\ of("OR") = Wrap(n + m - of("AND"))
               /\ of("EOR") = Wrap(of("OR") - of("AND"))
    <3>1. op \in Arithmetic /\ op # "+"
      BY <2>2 DEF Arithmetic
    <3>2. Number(l) /\ Number(r)
      BY <3>1, OperandsOfValue, Zenon
    <3>3. n \in IntRange /\ m \in IntRange
      BY <3>2, IntegerOf
    <3>4. /\ of("OR") = Bitwise("OR", n, m) /\ of("AND") = Bitwise("AND", n, m)
          /\ of("EOR") = Bitwise("EOR", n, m)
      BY <3>2, BooleanIs
    <3> HIDE DEF n, m, of
    <3> QED BY <3>3, <3>4, BitwiseAre
  <2>3. ASSUME op = "NOT" PROVE result = value_int_new(-1 - n)
    <3>1. op \notin Arithmetic /\ op \notin Comparisons /\ op # "minus" /\ Arity(op) = 1
      BY <2>3 DEF Arithmetic, Comparisons, Arity, Ternary, Unary
    <3>2. l \in Operand /\ result = expr_eval_op_unary_not(l)
      BY <2>3, <3>1 DEF Evaluated, Done, Evaluation
    <3>3. value_is_numeric(l)
      BY <2>1, <3>2, Zenon DEF expr_eval_op_unary_not
    <3>4. n \in IntRange
      BY <3>2, <3>3, IntegerOf DEF Number
    <3>5. result = value_int_new(FromBits((0..(Width - 1)) \ Bits(n)))
      BY <3>2, <3>3, Zenon DEF expr_eval_op_unary_not
    <3> HIDE DEF n
    <3> QED BY <3>4, <3>5, NotIs
  <2>4. ASSUME op = "+", Numbers, \A v \in {l, r, result} : Held(v)
        PROVE  Arith("-", result, r) = IF value_is_float(result) THEN value_float(l) ELSE l
    <3>1. op \in Arithmetic /\ op \notin Ternary /\ op \notin Unary \cup {"minus", "NOT"}
      BY <2>4 DEF Arithmetic, Ternary, Unary
    <3>2. Arity(op) = 2
      BY <3>1, Zenon DEF Arity
    <3>3. l \in Operand /\ r \in Operand /\ value_is_numeric(l) /\ value_is_numeric(r)
      BY <2>4, <3>2 DEF Evaluated, Numbers
    <3>4. Number(l) /\ Number(r)
      BY <3>3 DEF Number
    <3>5. result = Arith("+", l, r)
      BY <2>4, <3>1, Zenon DEF Evaluated, Done, Evaluation, Arith
    <3> QED BY <3>4, <3>5, MinusUndoesPlus
  <2>5. ASSUME op = "/", ~whole \/ value_is_int(result)
        PROVE  value_float(back) = value_float(l)
    <3>1. op \in Arithmetic /\ op # "+"
      BY <2>5 DEF Arithmetic
    <3>2. Number(l) /\ Number(r) /\ r.num # 0 /\ result = Arith("/", l, r)
      BY <2>5, <3>1, OperandsOfValue
    <3>3. result # Trap
      BY DEF HasValue, Trap
    <3> QED BY <2>5, <3>2, <3>3, TimesUndoesOver
  <2>7. ASSUME op = "/", whole, value_is_float(result)
        PROVE  Magnitude(back.num - l.num * back.den) * SingleMax
                 <= Slack(l.num, r.num) * (Magnitude(l.num) * back.den)
    <3>1. op \in Arithmetic /\ op # "+"
      BY <2>7 DEF Arithmetic
    <3>2. Number(l) /\ Number(r) /\ r.num # 0 /\ result = Arith("/", l, r)
      BY <2>7, <3>1, OperandsOfValue
    <3> QED BY <2>7, <3>2, TimesNearlyUndoesOver
  <2>6. ASSUME op \in Comparisons
        PROVE  /\ Cardinality({t \in {"<", "=", ">"} : holds(t)}) = 1
               /\ holds("<=") = ~holds(">") /\ holds("<>") = ~holds("=")
               /\ holds(">=") = ~holds("<")
               /\ holds("<") = (Comp(">", r, l).num = -1)
    <3>1. op \notin Arithmetic /\ Arity(op) = 2
      BY <2>6 DEF Arithmetic, Comparisons, Arity, Ternary, Unary
    <3>2. l \in Operand /\ r \in Operand
      BY <3>1 DEF Evaluated
    <3>3. result = expr_eval_op_binary_comp(op, l, r)
      BY <2>6, <3>1, Zenon DEF Evaluated, Done, Evaluation
    <3>4. value_is_string(l) = value_is_string(r)
      BY <2>1, <3>3, Zenon DEF expr_eval_op_binary_comp
    <3>5. Comparable(l, r)
      BY <3>2, <3>4, NumberOrText, Zenon DEF Comparable
    <3> QED BY <3>5, ComparisonsAgree
  <2> QED BY <2>2, <2>3, <2>4, <2>5, <2>6, <2>7, Zenon DEF OperatorsAgree
<1> QED BY <1>1, EvaluatedHolds, PTL
================================================================================
