------------------------------ MODULE Expressions ------------------------------
(***************************************************************************)
(* One evaluation of an operator or a function on operands that have been  *)
(* evaluated.  Its properties relate operators and functions to each other *)
(* and to their definitions.                                               *)
(***************************************************************************)
EXTENDS StringFunctions

CONSTANTS
  Cases,       (* the evaluations to make: an operator and its operands    *)
  DoubleMax    (* up to here a double holds every integer: 2^53            *)

Operations == Arithmetic \cup Comparisons \cup {"minus", "NOT"}
                \cup Unary \cup Binary \cup Ternary

Arity(t) == IF t \in Ternary THEN 3
            ELSE IF t \in Unary \cup {"minus", "NOT"} THEN 1 ELSE 2

(* A float is in lowest terms.  No byte of a string is zero, and LEN can   *)
(* say how many there are.                                                 *)
Operand ==
  [type : {"int"}, num : IntRange, den : {1}]
  \cup {v \in [type : {"float"}, num : Int, den : Nat \ {0}] :
         v = value_float_new(v.num, v.den)}
  \cup {v \in [type : {"string"}, str : Seq(1..(Byte - 1))] : Len(v.str) <= IntMax}

ASSUME DoubleAssumption == DoubleMax \in Nat

ASSUME CasesAssumption ==
  \A c \in Cases : c.op \in Operations /\ c.args \in [1..Arity(c.op) -> Operand]

VARIABLES op, args, result
vars == <<op, args, result>>

Pending == [type |-> "none"]

Init == \E c \in Cases : op = c.op /\ args = c.args /\ result = Pending

Gives(v) == result = Pending /\ result' = v /\ UNCHANGED <<op, args>>

EvalArithmetic ==
  /\ op \in Arithmetic
  /\ Gives(expr_eval_op_binary_arith(op, args[1], args[2]))

EvalComparison ==
  /\ op \in Comparisons
  /\ Gives(expr_eval_op_binary_comp(op, args[1], args[2]))

EvalMinus == op = "minus" /\ Gives(expr_eval_op_unary_minus(args[1]))
EvalNot == op = "NOT" /\ Gives(expr_eval_op_unary_not(args[1]))

EvalFunction ==
  op \in Unary \cup Binary \cup Ternary /\ Gives(Function(op, args))

Next == EvalArithmetic \/ EvalComparison \/ EvalMinus \/ EvalNot \/ EvalFunction

Spec == Init /\ [][Next]_vars

-----------------------------------------------------------------------------
Done == result # Pending
HasValue == result.type \in {"int", "float", "string"}
Strings == \A i \in DOMAIN args : value_is_string(args[i])
Numbers == \A i \in DOMAIN args : value_is_numeric(args[i])

(* The type of every result.  Of numbers it is the one the comments at     *)
(* expr_ops.c:255 and 337 give: integers make an integer but for a         *)
(* division with a remainder and ^, a float makes a float but for DIV, MOD *)
(* and the Boolean operators.  Comparisons give TRUE, -1, or FALSE, 0.     *)
(* Only a negative count makes a string function write where it must not,  *)
(* or try for ever.                                                        *)
TypeOK ==
  /\ result \in {Overrun, Endless, NoMemory} =>
       \E i \in DOMAIN args : value_is_numeric(args[i]) /\ args[i].num < 0
  /\ Done /\ HasValue =>
       /\ result.type = "int" => result.num \in IntRange /\ result.den = 1
       /\ result.type = "string" =>
            \A i \in DOMAIN result.str : result.str[i] # 0
       /\ op \in Comparisons => result \in {value_int_new(-1), value_int_new(0)}
       /\ op \in Arithmetic /\ Numbers =>
            (result.type = "int" <=>
               \/ op \in Integral
               \/ /\ value_is_int(args[1]) /\ value_is_int(args[2]) /\ op # "^"
                  /\ op = "/" => args[1].num % Magnitude(args[2].num) = 0)

(* expr_eval_func_strings: "Limit n to 256".  However many copies are asked*)
(* for, there is a string of so many as the limit leaves.                  *)
CopiesAreLimited ==
  op = "STRING$" => result \notin {Overrun, Endless, NoMemory}

-----------------------------------------------------------------------------
Arith(t, l, r) == expr_eval_op_binary_arith(t, l, r)
Comp(t, l, r) == expr_eval_op_binary_comp(t, l, r)

(* DIV and MOD belong together: quotient times divisor plus remainder is   *)
(* the dividend, the remainder is smaller than the divisor and has the     *)
(* sign of the dividend.  A divisor of zero is an error.  The process is   *)
(* killed only by a fraction below one, which is not zero when it is       *)
(* tested, and by the smallest integer over -1.                            *)
DivisionAgrees ==
  op \in {"DIV", "MOD"} /\ Done /\ Numbers =>
    LET n == value_int(args[1])
        m == value_int(args[2])
        q == Arith("DIV", args[1], args[2])
        r == Arith("MOD", args[1], args[2])
    IN  /\ result.type = "error" <=> args[2].num = 0
        /\ result = Trap <=>
             args[2].num # 0 /\ (m = 0 \/ (n = IntMin /\ m = -1))
        /\ HasValue =>
             /\ q.num * m + r.num = n
             /\ Magnitude(r.num) < Magnitude(m)
             /\ r.num = 0 \/ (r.num < 0) = (n < 0)

(* Integers, and the fractions that a double holds: operations whose       *)
(* operands and result it holds do not round.                              *)
Held(v) ==
  value_is_int(v) \/ (v.den \in {Weight[i] : i \in 0..Width} /\ Magnitude(v.num) <= DoubleMax)

(* How often one part in SingleMax a quotient may be wrong.                *)
Slack(n, m) == IF {Magnitude(n), Magnitude(m)} \subseteq 0..SingleMax THEN 1 ELSE 4

(* The Boolean operators work on all bits: OR is the sum without AND, EOR  *)
(* is OR without AND, NOT is the distance from -1.  What + does, - undoes, *)
(* and so do / and *, where no number is rounded.  A quotient of integers  *)
(* is rounded to single precision (expr_ops.c:280): * gives the dividend   *)
(* back but for one part in 2^24, and for four if the operands are rounded *)
(* as well.  Of two operands exactly one comparison in three holds, and    *)
(* turned round the opposite.                                              *)
OperatorsAgree ==
  Done /\ HasValue =>
    LET l == args[1]
        r == args[2]
        n == value_int(l)
        m == value_int(r)
        of(t) == Arith(t, l, r).num
        back == Arith("*", result, r)
        whole == value_is_int(l) /\ value_is_int(r)
        holds(t) == Comp(t, l, r).num = -1
    IN  /\ op \in {"AND", "OR", "EOR"} =>
             /\ of("OR") = Wrap(n + m - of("AND"))
             /\ of("EOR") = Wrap(of("OR") - of("AND"))
        /\ op = "NOT" => result = value_int_new(-1 - n)
        /\ op = "+" /\ Numbers /\ (\A v \in {l, r, result} : Held(v)) =>
             Arith("-", result, r)
               = IF value_is_float(result) THEN value_float(l) ELSE l
        /\ op = "/" /\ (~whole \/ value_is_int(result))
             /\ (\A v \in {l, r, result} : Held(v)) =>
             value_float(back) = value_float(l)
        /\ op = "/" /\ whole /\ value_is_float(result) =>
             Magnitude(back.num - l.num * back.den) * SingleMax
               <= Slack(l.num, r.num) * (Magnitude(l.num) * back.den)
        /\ op \in Comparisons =>
             /\ Cardinality({t \in {"<", "=", ">"} : holds(t)}) = 1
             /\ holds("<=") = ~holds(">") /\ holds("<>") = ~holds("=")
             /\ holds(">=") = ~holds("<")
             /\ holds("<") = (Comp(">", r, l).num = -1)

-----------------------------------------------------------------------------
Whole(n) == value_int_new(n)
Left(s, n) == Function("LEFT$", <<s, Whole(n)>>)
Right(s, n) == Function("RIGHT$", <<s, Whole(n)>>)
Mid(s, i, n) == Function("MID$", <<s, Whole(i), Whole(n)>>)
Instr(s, u, i) == Function("INSTR", <<s, u, Whole(i)>>).num
Joined(s, u) == Arith("+", s, u)

(* The string functions fit together.  What LEFT$ leaves, MID$ and RIGHT$  *)
(* give; one more copy in STRING$ adds the string once; INSTR gives the    *)
(* first place, from the one asked for on, where MID$ finds the string.    *)
StringsAgree ==
  Done /\ HasValue =>
    LET s == args[1]
        l == Len(s.str)
        n == value_int(args[2])
    IN  /\ op = "LEFT$" /\ n \in 0..(IntMax - 1) =>
             /\ Joined(result, Mid(s, n + 1, IntMax)) = s
             /\ n <= l => Right(s, l - n) = Mid(s, n + 1, IntMax)
        /\ op = "STRING$" /\ n \in 0..(Byte - 2) =>
             Function(op, <<s, Whole(n + 1)>>) = Joined(result, s)
        /\ op = "INSTR" /\ args[2].str # <<>> =>
             LET u == args[2]
                 k == value_int(args[3])
                 places == {i \in 1..l : k >= 0 /\ i >= k /\ Mid(s, i, Len(u.str)) = u}
             IN  IF places = {} THEN result = Whole(0)
                 ELSE result.num \in places /\ \A i \in places : result.num <= i
================================================================================
