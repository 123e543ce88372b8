---------------------------- MODULE MCInterpreter ----------------------------
(***************************************************************************)
(* Small programs for Interpreter.  A program is a sequence of one-        *)
(* statement lines 10, 20, ... at addresses 1, 2, ..., followed by the     *)
(* statements attached to them (THEN, ELSE, the handler of ON ERROR, the   *)
(* statement of REPEAT); Linked gives them the links and line numbers of   *)
(* build_statements() and statement_fixup().                               *)
(***************************************************************************)
EXTENDS InterpreterProperties

Blank == [op |-> "null", line |-> 0, next |-> NULL, sub1 |-> NULL,
          sub2 |-> NULL, expr |-> <<>>, limit |-> <<>>, step |-> <<>>,
          var |-> "", targets |-> <<>>, callee |-> NULL, params |-> 0]

Leaf(kind) == [kind |-> kind, call |-> NULL]
Ok   == Leaf("ok")
Bad  == Leaf("bad")
Str  == Leaf("str")
Zero == Leaf("zero")
Mute == Leaf("mute")
Fn(i) == [kind |-> "fn", call |-> i]

Plain(op)         == [Blank EXCEPT !.op = op]
Null              == Plain("null")
End               == Plain("end")
Endproc           == Plain("endproc")
Local             == Plain("local")
Return            == Plain("return")
Eval(e)           == [Blank EXCEPT !.op = "eval", !.expr = e]
Result(e)         == [Blank EXCEPT !.op = "fnreturn", !.expr = e]
Def(op, n)        == [Blank EXCEPT !.op = op, !.params = n]
Goto(t)           == [Blank EXCEPT !.op = "goto", !.expr = <<Ok>>, !.targets = <<t>>]
Gosub(t)          == [Blank EXCEPT !.op = "gosub", !.expr = <<Ok>>, !.targets = <<t>>]
On(op, ts, a)     == [Blank EXCEPT !.op = op, !.expr = <<Ok>>, !.targets = ts, !.sub1 = a]
If(e, a, b)       == [Blank EXCEPT !.op = "if", !.expr = e, !.sub1 = a, !.sub2 = b]
OnError(a)        == [Blank EXCEPT !.op = "onerror", !.sub1 = a]
Proc(callee, e)   == [Blank EXCEPT !.op = "proc", !.callee = callee, !.expr = e]
Repeat(a)         == [Blank EXCEPT !.op = "repeat", !.sub1 = a]
Until(e)          == [Blank EXCEPT !.op = "until", !.expr = e]
For(v, l, s)      == [Blank EXCEPT !.op = "for", !.var = v, !.expr = <<Ok>>,
                                   !.limit = l, !.step = s]
NextOf(v)         == [Blank EXCEPT !.op = "next", !.var = v]

Linked(mains, subs) ==
  LET n       == Len(mains)
      after(a) == IF a < n THEN a + 1 ELSE NULL
      parent(a) == CHOOSE i \in 1..n : a \in {mains[i].sub1, mains[i].sub2}
      owned(a) == \E i \in 1..n : a \in {mains[i].sub1, mains[i].sub2}
  IN  [a \in 1..(n + Len(subs)) |->
         IF a > n /\ ~owned(a) THEN Blank
         ELSE IF a <= n
           THEN [mains[a] EXCEPT !.line = 10 * a, !.next = after(a)]
           ELSE [subs[a - n] EXCEPT !.line = 10 * parent(a),
                                    !.next = after(parent(a))]]

Program(mains, subs, table) == [stmts |-> Linked(mains, subs), calls |-> table]

-----------------------------------------------------------------------------
(* Two functions, FNa at 4 and FNb at 7, with and without handlers: at 10  *)
(* that of line 1, at 11 that of an ON ERROR inside FNa.                   *)

FnTable == <<[callee |-> 4, args |-> <<>>], [callee |-> 7, args |-> <<>>]>>

FnProgram(a, b, c, d, e, f, h) ==
  Program(<<a, Eval(b), End, Def("deffn", 0), c, d, Def("deffn", 0), e, f>>,
          <<h, Gosub(9)>>, FnTable)

FnPrograms(A, C, H) ==
  { FnProgram(a, b, c, d, e, f, h) :
      a \in A,
      b \in {<<Fn(1)>>, <<Fn(1), Fn(2)>>, <<Bad, Fn(1)>>, <<Fn(1), Bad>>},
      c \in C,
      d \in {Result(<<Ok>>), Result(<<Fn(2), Fn(2)>>)},
      e \in {Result(<<Ok>>), Result(<<Bad>>), Result(<<Fn(2)>>),
             Eval(<<Mute>>), End},
      f \in {End, Result(<<Ok>>)},
      h \in H }

PlainFnPrograms ==
  FnPrograms({Null}, {Null, Eval(<<Bad>>), Eval(<<Fn(2)>>)}, {Null})

HandledFnPrograms ==
  FnPrograms({OnError(10)},
             {Null, Eval(<<Bad>>), Eval(<<Fn(2)>>), OnError(11), OnError(NULL)},
             {Goto(9), Goto(6), Goto(1), Gosub(9)})

(* The handler goes to a "=": it returns from a function other than its    *)
(* own, with the functions called from the main program or a procedure.    *)
UnwindPrograms ==
  { Program(<<OnError(12), b, End, Def("deffn", 0), Null, Result(<<Fn(2)>>),
              Def("deffn", 0), Result(<<Bad>>), Result(<<Ok>>),
              Def("defproc", 0), Eval(<<Fn(1)>>)>>, <<Goto(9)>>, FnTable) :
      b \in {Eval(<<Fn(1)>>), Eval(<<Fn(2)>>), Proc(10, <<>>)} }

HandlerPrograms == HandledFnPrograms \cup UnwindPrograms

-----------------------------------------------------------------------------
(* Properly nested REPEAT and FOR loops: all sequences of six statements,  *)
(* with NEXT naming its variable or not.                                   *)

LoopOps == {"repeat", "until", "for", "next", "eval"}

(* The loops open after the first i statements of s; <<0>> if not nested.  *)
OpenLoops(s) ==
  LET closes(i, open, op) == open # <<>> /\ Top(open) # 0 /\ s[Top(open)] = op
      open[i \in 0..Len(s)] ==
        IF i = 0 THEN <<>>
        ELSE LET o == open[i - 1]
             IN  IF o # <<>> /\ Top(o) = 0 THEN o
                 ELSE IF s[i] \in {"repeat", "for"} THEN Append(o, i)
                 ELSE IF s[i] = "until"
                   THEN IF closes(i, o, "repeat") THEN Pop(o) ELSE <<0>>
                 ELSE IF s[i] = "next"
                   THEN IF closes(i, o, "for") THEN Pop(o) ELSE <<0>>
                 ELSE o
  IN  open

LoopVar(a) == IF a % 2 = 1 THEN "I" ELSE "J"

NestedStmt(s, i, named) ==
  CASE s[i] = "repeat" -> Repeat(NULL)
    [] s[i] = "until"  -> Until(<<Ok>>)
    [] s[i] = "for"    -> For(LoopVar(i), <<Ok>>, <<Ok>>)
    [] s[i] = "next"   -> NextOf(IF named THEN LoopVar(Top(OpenLoops(s)[i - 1]))
                                          ELSE "")
    [] s[i] = "eval"   -> Eval(<<Ok>>)

NestedLoopPrograms ==
  { Program([i \in 1..6 |-> NestedStmt(s, i, named)], <<>>, <<>>) :
      s \in {t \in [1..6 -> LoopOps] : OpenLoops(t)[6] = <<>>},
      named \in BOOLEAN }

ASSUME NestedAssumption == \A p \in NestedLoopPrograms : ProperlyNested(p)

(* Loops whose limit, step or condition calls a function or fails, whose   *)
(* function opens or unwinds loops of its own, and a REPEAT with a         *)
(* statement attached.                                                     *)
OddLoopPrograms ==
  { Program(<<For(v, l, s), Repeat(9), NextOf(w), Until(c), End,
              Def("deffn", 0), x, Result(<<Ok>>)>>,
            <<Eval(<<Ok>>)>>, <<[callee |-> 6, args |-> <<>>]>>) :
      v \in {"I", "S"},
      l \in {<<Ok>>, <<Str>>, <<Mute>>, <<Fn(1)>>},
      s \in {<<Ok>>, <<Zero>>, <<Str>>, <<Bad>>},
      w \in {"", "I", "J"},
      c \in {<<Ok>>, <<Bad>>, <<Fn(1)>>},
      x \in {NextOf("K"), For("J", <<Ok>>, <<Ok>>), Repeat(NULL), Until(<<Ok>>)} }

-----------------------------------------------------------------------------
(* Procedures, subroutines and branches: PROC at 5, a subroutine at 8, FN  *)
(* at 10; statements 12 to 15 belong to lines 2 and 6.                     *)

CallTable(args) == <<[callee |-> 10, args |-> args],
                     [callee |-> NULL, args |-> <<>>],
                     [callee |-> 10, args |-> <<Ok>>]>>

CallProgram(a, b, c, d, args, then, n) ==
  Program(<<a, b, c, End,
            Def("defproc", n), d, Endproc,
            Eval(<<Ok>>), Return,
            Def("deffn", 1), Result(<<Ok>>)>>,
          <<then, Eval(<<Ok>>), then, Goto(7)>>, CallTable(args))

(* Ways to call, with every kind of argument; then bodies of the procedure,*)
(* among them one entered by GOTO and one that calls itself.               *)
CallPrograms ==
  { CallProgram(Null, b, c, Local, args, Goto(5), n) :
      b \in {Proc(5, e) : e \in {<<>>, <<Ok>>, <<Str>>, <<Fn(1)>>, <<Fn(2), Fn(1)>>}}
           \cup {On("ongosub", <<8, NULL>>, 12), On("ongoto", <<8>>, NULL)},
      c \in {Eval(<<Fn(1)>>), Proc(NULL, <<>>)},
      args \in {<<Ok>>, <<Str>>, <<Fn(3)>>, <<Fn(2)>>, <<>>},
      n \in 0..1 }
  \cup
  { CallProgram(a, b, Eval(<<Fn(1)>>), d, <<Ok>>, then, 1) :
      a \in {Null, Local},
      b \in {Proc(5, <<Ok>>), Gosub(8), If(<<Ok>>, 12, 13)},
      d \in {Eval(<<Fn(3)>>), Gosub(8), Goto(NULL), If(<<Str>>, 14, NULL),
             On("ongosub", <<8>>, 14), If(<<Ok>>, 14, 15)},
      then \in {Goto(5), Proc(5, <<Ok>>)} }

(* Everything without ON ERROR.                                            *)
UnhandledPrograms == PlainFnPrograms \cup OddLoopPrograms \cup CallPrograms

-----------------------------------------------------------------------------
(* Programs that do not end by themselves: loops in the main program, in a *)
(* function and in procedures that call themselves, errors that come again *)
(* after the handler.                                                      *)

EndlessPrograms ==
  { Program(<<a, c, Eval(e), d, Def("deffn", 0), f, Result(<<Ok>>),
              Def("defproc", 0), Proc(8, <<>>)>>, <<h>>,
            <<[callee |-> 5, args |-> <<>>]>>) :
      a \in {Null, OnError(10)},
      c \in {Null, Repeat(NULL), Proc(8, <<>>)},
      e \in {<<Ok>>, <<Fn(1)>>, <<Bad>>},
      d \in {Goto(2), Until(<<Ok>>)},
      f \in {Null, Goto(5), Eval(<<Bad>>)},
      h \in {Goto(3), Gosub(7), Goto(2)} }

-----------------------------------------------------------------------------
(* Programs on which the code does not do what the source says.            *)

FnOne(callee) == <<[callee |-> callee, args |-> <<>>]>>

EndInFn == { Program(<<Eval(<<Fn(1)>>), End, Def("deffn", 0), End>>, <<>>, FnOne(3)) }

(* GET at the end of the input, a function without "=", no program.        *)
SilentFailures ==
  { Program(<<Eval(<<Mute>>), End>>, <<>>, <<>>),
    Program(<<Eval(<<Fn(1)>>), End, Def("deffn", 0)>>, <<>>, FnOne(3)),
    Program(<<>>, <<>>, <<>>) }

FnThenError ==
  { Program(<<Eval(<<Fn(1), Bad>>), End, Def("deffn", 0), Result(<<Ok>>)>>,
            <<>>, FnOne(3)) }

HandlerToNowhere ==
  { Program(<<OnError(4), Eval(<<Bad>>), End>>, <<Goto(NULL)>>, <<>>) }

(* The handler of an error in a procedure goes on at the top level.        *)
LocalAfterError ==
  { Program(<<OnError(8), Proc(5, <<>>), Local, End,
              Def("defproc", 0), Eval(<<Bad>>), Endproc>>, <<Goto(3)>>, <<>>) }

RepeatInRecursion ==
  { Program(<<Proc(3, <<>>), End, Def("defproc", 0), Repeat(NULL),
              If(<<Ok>>, 8, NULL), Until(<<Ok>>), Endproc>>,
            <<Proc(3, <<>>)>>, <<>>) }
=============================================================================
