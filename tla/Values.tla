--------------------------------- MODULE Values ---------------------------------
(***************************************************************************)
(* Typed values (value.c): integers of a fixed width, floating point       *)
(* numbers and strings.  A float is an exact fraction in lowest terms: the *)
(* rounding of a double is left out.  A string is a sequence of bytes.     *)
(***************************************************************************)
EXTENDS Integers, Sequences

CONSTANT IntMax    (* the largest integer: 2147483647 in the program       *)

ASSUME IntMaxAssumption == IntMax \in Nat

IntMin == -IntMax - 1
IntRange == IntMin..IntMax

(* What remains of a result that does not fit: two's complement.           *)
Wrap(n) == ((n - IntMin) % (2 * (IntMax + 1))) + IntMin

Magnitude(n) == IF n < 0 THEN -n ELSE n

(* C's division of integers goes towards zero.                             *)
Quotient(n, d) == LET q == Magnitude(n) \div Magnitude(d)
                  IN  IF (n < 0) = (d < 0) THEN q ELSE -q
Remainder(n, d) == n - d * Quotient(n, d)

(* The greatest common divisor, where n is positive.                       *)
GCD(m, n) == CHOOSE g \in 1..n :
               /\ m % g = 0 /\ n % g = 0
               /\ \A h \in (g + 1)..n : m % h # 0 \/ n % h # 0

value_int_new(n) == [type |-> "int", num |-> n, den |-> 1]
value_float_new(n, d) ==
  LET g == GCD(Magnitude(n), Magnitude(d))
      s == IF d < 0 THEN -1 ELSE 1
  IN  [type |-> "float", num |-> s * Quotient(n, g), den |-> Magnitude(d) \div g]
value_string_new(s) == [type |-> "string", str |-> s]

Value == [type : {"int"}, num : IntRange, den : {1}]
         \cup [type : {"float"}, num : Int, den : Nat \ {0}]
         \cup [type : {"string"}, str : Seq(0..255)]

value_is_int(v) == v.type = "int"
value_is_float(v) == v.type = "float"
value_is_string(v) == v.type = "string"
value_is_numeric(v) == value_is_float(v) \/ value_is_int(v)
value_is_zero(v) == value_is_numeric(v) /\ v.num = 0

(* The conversion of a double out of range gives the smallest integer on   *)
(* the processors the build is for.                                        *)
value_int(v) == LET q == Quotient(v.num, v.den)
                IN  IF q \in IntRange THEN q ELSE IntMin

value_float(v) == [v EXCEPT !.type = "float"]
================================================================================
