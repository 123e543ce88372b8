------------------------------ MODULE Interpreter ------------------------------
(***************************************************************************)
(* The control core of the BBASIC interpreter: run_statements() and the    *)
(* statement handlers of statements.c that move the program counter, call  *)
(* procedures and functions, open and close loops, and set and take the    *)
(* ON ERROR handler, together with the SIGINT flag.                        *)
(*                                                                         *)
(* The program is a graph of statement nodes, linked as build_statements() *)
(* leaves them.  Data is abstracted: an expression is the sequence of its  *)
(* operands in evaluation order, an operand is known only by how its       *)
(* evaluation ends, and the outcome of a test is a free choice.            *)
(*                                                                         *)
(* An FN call runs the program recursively from inside the evaluation of   *)
(* an expression: stmt, phase, status and work describe the innermost      *)
(* activation of run_statements(), suspended holds the outer ones.         *)
(***************************************************************************)
EXTENDS Integers, Sequences

CONSTANTS
  Programs,    (* the programs to run, each as linked by build_statements  *)
  MaxDepth,    (* memory bound: entries on a stack, nested activations     *)
  StringVars,  (* the loop variables that are string variables             *)
  Signals      (* whether the user may press Ctrl-C                        *)

NULL == 0      \* the null statement address

Ops == {"null", "deffn", "defproc", "eval", "if", "goto", "gosub", "ongoto",
        "ongosub", "proc", "endproc", "fnreturn", "for", "next", "repeat",
        "until", "onerror", "return", "end", "local"}

(* How the evaluation of a leaf ends: a number, zero, a string, a BASIC    *)
(* error, or no value and no error (GET at the end of standard input).     *)
LeafKinds == {"ok", "zero", "str", "bad", "mute"}

Operand(m) == [kind: LeafKinds, call: {NULL}] \cup [kind: {"fn"}, call: 1..m]

Statement(n, m) ==
  [op: Ops, line: Nat, next: 0..n, sub1: 0..n, sub2: 0..n,
   expr: Seq(Operand(m)), limit: Seq(Operand(m)), step: Seq(Operand(m)),
   var: STRING, targets: Seq(0..n), callee: 0..n, params: Nat]

FnCall(n, m) == [callee: 0..n, args: Seq(Operand(m))]

(* A GOTO or GOSUB has one line, and only they can handle an error; a call *)
(* is a node of an expression tree, so its arguments are later ones, and   *)
(* names a DEF of its kind, if there is one.                               *)
IsProgram(p) ==
  LET n == Len(p.stmts)
      m == Len(p.calls)
  IN  /\ p \in [stmts: Seq(Statement(n, m)), calls: Seq(FnCall(n, m))]
      /\ \A i \in 1..m : \A j \in 1..Len(p.calls[i].args) :
           p.calls[i].args[j].kind = "fn" => p.calls[i].args[j].call > i
      /\ \A i \in 1..m : p.calls[i].callee # NULL
                        => p.stmts[p.calls[i].callee].op = "deffn"
      /\ \A a \in 1..n :
           /\ p.stmts[a].op \in {"goto", "gosub"} => p.stmts[a].targets # <<>>
           /\ p.stmts[a].op = "proc" /\ p.stmts[a].callee # NULL
                => p.stmts[p.stmts[a].callee].op = "defproc"
           /\ p.stmts[a].op = "onerror" /\ p.stmts[a].sub1 # NULL
                => p.stmts[p.stmts[a].sub1].op \in {"goto", "gosub"}

ASSUME ProgramsAssumption == \A p \in Programs : IsProgram(p)
ASSUME BoundsAssumption == MaxDepth \in Nat \ {0} /\ Signals \in BOOLEAN

Codes == {"none", "BadExpr", "Arguments", "CantMatchFor", "Escape",
          "ForVariable", "NoFn", "NoFor", "NoGosub", "NoProc", "NoRepeat",
          "NoSuchFnProc", "NoSuchLine", "NotLocal", "OnRange", "SyntaxError",
          "TypeMismatch"}

(* How the process ended.  The aborts are the ABORT() calls of the source. *)
Outcomes == {"running", "exit", "error", "nomem", "segv",
             "abort: no error reported", "abort: runtime stack empty",
             "abort: stack frame underflow", "abort: stack empty",
             "abort: loop increment is zero"}

VARIABLES
  prog,           (* the program being run; never changes                  *)
  next,           (* the next field of every statement                     *)
  pc,             (* program_counter                                       *)
  current_line,   (* line stored for error reporting                       *)
  stmt,           (* statement being executed, NULL between statements     *)
  phase,          (* "idle": before the loop test, "busy": in a handler,   *)
                  (* "done": handler returned, result not yet inspected    *)
  status,         (* status of run_statements, "unset" until a statement   *)
  work,           (* expression evaluations in progress in this activation *)
  suspended,      (* the outer activations, innermost last                 *)
  fn_stack, for_stack, gosub_stack, proc_stack, repeat_stack,
  return_stack,   (* function results, known by the "=" that pushed them   *)
  frames,         (* symbol table frames, known by the DEF they belong to  *)
  error_register, error_stmt, interrupt, outcome

calls == <<fn_stack, proc_stack, frames>>
loops == <<for_stack, repeat_stack>>
outer == <<prog, suspended, interrupt, outcome>>
vars  == <<prog, next, pc, current_line, stmt, phase, status, work, suspended,
           fn_stack, for_stack, gosub_stack, proc_stack, repeat_stack,
           return_stack, frames, error_register, error_stmt, interrupt,
           outcome>>

-----------------------------------------------------------------------------
(* Stacks of addresses: the top is the last element.                       *)

Top(s) == s[Len(s)]
Pop(s) == SubSeq(s, 1, Len(s) - 1)
ReplaceTop(s, x) == [s EXCEPT ![Len(s)] = x]

(* Statements and expressions.                                             *)

Stmt(a) == prog.stmts[a]
Numeric(e) == \A i \in 1..Len(e) : e[i].kind # "str"

ExprWork(kind, e) ==
  [kind |-> kind, rest |-> e, failed |-> FALSE, callee |-> NULL,
   arity |-> TRUE, typed |-> Numeric(e)]

(* The evaluation of the arguments of a call: it stops where the shorter   *)
(* of the two lists does, and only then is a mismatch an error.            *)
ArgsWork(callee, args) ==
  LET n    == Stmt(callee).params
      used == SubSeq(args, 1, IF n < Len(args) THEN n ELSE Len(args))
  IN  [kind |-> "args", rest |-> used, failed |-> FALSE, callee |-> callee,
       arity |-> n = Len(args), typed |-> Numeric(used)]

(* What NEXT evaluates of its FOR: the limit, then the step.               *)
NextWork(branch) ==
  << [ExprWork("step", Stmt(branch).step) EXCEPT !.callee = branch],
     [ExprWork("limit", Stmt(branch).limit) EXCEPT !.callee = branch] >>

(* An operand of w has been evaluated.  A list of arguments is abandoned   *)
(* at the first failure; an operator evaluates its other operand anyway.   *)
Advance(w, ok) ==
  [w EXCEPT !.failed = @ \/ ~ok,
            !.rest = IF ok \/ w.kind # "args" THEN Tail(@) ELSE <<>>]

SetError(code, line) ==
  error_register' = [code |-> code, line |-> line,
                     last_code |-> code, last_line |-> line]

ErrorIsSet == error_register.code # "none"

Init ==
  /\ prog \in Programs
  /\ next = [a \in 1..Len(prog.stmts) |-> prog.stmts[a].next]
  /\ pc = IF prog.stmts = <<>> THEN NULL ELSE 1
  /\ current_line = 0
  /\ stmt = NULL /\ phase = "idle" /\ status = "unset" /\ work = <<>>
  /\ suspended = <<>>
  /\ fn_stack = <<>> /\ for_stack = <<>> /\ gosub_stack = <<>>
  /\ proc_stack = <<>> /\ repeat_stack = <<>> /\ return_stack = <<>>
  /\ frames = <<>>
  /\ error_register = [code |-> "none", line |-> 0,
                       last_code |-> "none", last_line |-> 0]
  /\ error_stmt = NULL /\ interrupt = FALSE /\ outcome = "running"

-----------------------------------------------------------------------------
(* The head of the loop in run_statements: take the next statement, set    *)
(* the default program counter and the line for error reporting, and enter *)
(* the handler of the statement.                                           *)

(* A push allocates; at the bound the allocation fails and the process     *)
(* exits.  The bound is tested here, once per statement.                   *)
Exhausted ==
  \/ Len(suspended) >= MaxDepth
  \/ \E s \in {fn_stack, for_stack, gosub_stack, proc_stack, repeat_stack,
               return_stack, frames} : Len(s) >= MaxDepth

Fetch ==
  /\ outcome = "running" /\ phase = "idle" /\ pc # NULL /\ ~Exhausted
  /\ stmt' = pc
  /\ pc' = next[pc]
  /\ current_line' = Stmt(pc).line
  /\ UNCHANGED <<prog, next, suspended, calls, gosub_stack, repeat_stack,
                 return_stack, error_stmt, interrupt, outcome>>

(* The handler starts by evaluating e ...                                  *)
Evaluate(w) ==
  /\ phase' = "busy" /\ work' = w
  /\ UNCHANGED <<status, error_register>>

(* ... or returns an error before evaluating anything.                     *)
Refuse(code) ==
  /\ phase' = "done" /\ status' = "error" /\ work' = <<>>
  /\ SetError(code, Stmt(pc).line)

FetchStatement ==
  /\ Fetch
  /\ Stmt(pc).op \notin {"proc", "fnreturn", "next"}
  /\ Evaluate(<<ExprWork("expr", Stmt(pc).expr)>>)
  /\ UNCHANGED for_stack

FetchProc ==
  /\ Fetch
  /\ Stmt(pc).op = "proc"
  /\ IF Stmt(pc).callee = NULL
       THEN Refuse("NoSuchFnProc")
       ELSE Evaluate(<<ArgsWork(Stmt(pc).callee, Stmt(pc).expr)>>)
  /\ UNCHANGED for_stack

FetchFnReturn ==
  /\ Fetch
  /\ Stmt(pc).op = "fnreturn"
  /\ IF fn_stack = <<>>
       THEN Refuse("NoFn")
       ELSE Evaluate(<<ExprWork("expr", Stmt(pc).expr)>>)
  /\ UNCHANGED for_stack

(* for_stack_peek: NEXT with a variable drops the entries of other         *)
(* variables, even if it finds none of its own.                            *)
MatchingForOutermost(v, i) ==
  /\ i # 0 => Stmt(for_stack[i]).var = v
  /\ \A j \in 1..Len(for_stack) : j < i \/ i = 0 => Stmt(for_stack[j]).var # v
MatchingFor(v, i) ==
  /\ i # 0 => Stmt(for_stack[i]).var = v
  /\ \A j \in (i+1)..Len(for_stack) : Stmt(for_stack[j]).var # v

FetchNext ==
  LET v == Stmt(pc).var
  IN  /\ Fetch
      /\ Stmt(pc).op = "next"
      /\ \E i \in 0..Len(for_stack) :
           /\ IF v = "" THEN i = Len(for_stack) ELSE MatchingFor(v, i)
           /\ for_stack' = SubSeq(for_stack, 1, i)
           /\ IF i = 0
                THEN Refuse(IF v = "" THEN "NoFor" ELSE "CantMatchFor")
                ELSE Evaluate(NextWork(for_stack[i]))

MemoryExhausted ==
  /\ outcome = "running" /\ phase = "idle" /\ pc # NULL /\ Exhausted
  /\ outcome' = "nomem"
  /\ UNCHANGED <<prog, next, pc, current_line, stmt, phase, status, work,
                 suspended, calls, loops, gosub_stack, return_stack,
                 error_register, error_stmt, interrupt>>

-----------------------------------------------------------------------------
(* Evaluation of an expression.                                            *)

Evaluating ==
  /\ outcome = "running" /\ phase = "busy" /\ Top(work).rest # <<>>

Operands == Head(Top(work).rest)

EvalLeaf ==
  /\ Evaluating
  /\ Operands.kind # "fn"
  /\ work' = ReplaceTop(work, Advance(Top(work),
                                      Operands.kind \notin {"bad", "mute"}))
  /\ IF Operands.kind = "bad"
       THEN SetError("BadExpr", current_line)
       ELSE UNCHANGED error_register
  /\ UNCHANGED <<outer, calls, loops, next, pc, current_line, stmt, phase,
                 status, gosub_stack, return_stack, error_stmt>>

(* expr_eval_fn looks the function up, then evaluates its arguments.       *)
EvalFn ==
  LET c == prog.calls[Operands.call]
  IN  /\ Evaluating
      /\ Operands.kind = "fn"
      /\ IF c.callee = NULL
           THEN /\ work' = ReplaceTop(work, Advance(Top(work), FALSE))
                /\ SetError("NoSuchFnProc", current_line)
           ELSE /\ work' = Append(work, ArgsWork(c.callee, c.args))
                /\ UNCHANGED error_register
      /\ UNCHANGED <<outer, calls, loops, next, pc, current_line, stmt, phase,
                     status, gosub_stack, return_stack, error_stmt>>

(* A call pushes a frame for the DEF at address c; ENDPROC and "=" pop it. *)
PushFrameAtBottom(c) == frames' = <<c>> \o frames
PushFrameForParams(c) ==
  frames' = IF Stmt(c).params = 0 THEN frames ELSE Append(frames, c)
PushFrame(c) == frames' = Append(frames, c)

PopFrameOnSuccess == frames' = IF work[1].failed THEN frames ELSE Pop(frames)
PopFrame == frames' = Pop(frames)

(* push_function: what follows the calling statement.                      *)
PushStatement == fn_stack' = Append(fn_stack, stmt)
PushFunctionOnce ==
  fn_stack' = IF fn_stack # <<>> /\ Top(fn_stack) = pc
                THEN fn_stack ELSE Append(fn_stack, pc)
PushFunction == fn_stack' = Append(fn_stack, pc)

(* The statement in whose expression the call is, and what remains of it.  *)
CallerLost == [stmt |-> NULL, work |-> Pop(work)]
Caller == [stmt |-> stmt, work |-> Pop(work)]

(* The arguments of an FN call have been evaluated.                        *)
ArgsReady ==
  /\ outcome = "running" /\ phase = "busy" /\ Len(work) > 1
  /\ Top(work).kind = "args" /\ Top(work).rest = <<>>

BoundWith(w) == ~w.failed /\ w.arity /\ w.typed

(* pass_arguments fails: the argument list failed, its length is wrong, or *)
(* a value cannot be assigned to its parameter (the frame pushed for it is *)
(* popped again).                                                          *)
CallFails ==
  /\ ArgsReady
  /\ ~BoundWith(Top(work))
  /\ work' = ReplaceTop(Pop(work), Advance(Top(Pop(work)), FALSE))
  /\ IF Top(work).failed
       THEN UNCHANGED error_register
       ELSE SetError(IF Top(work).arity THEN "TypeMismatch" ELSE "Arguments",
                     current_line)
  /\ UNCHANGED <<outer, calls, loops, next, pc, current_line, stmt, phase,
                 status, gosub_stack, return_stack, error_stmt>>

(* pass_arguments pushes the frame, push_function the program counter, and *)
(* run_statements is entered again at the DEF.                             *)
CallFn ==
  /\ ArgsReady
  /\ BoundWith(Top(work))
  /\ PushFrame(Top(work).callee)
  /\ PushFunction
  /\ suspended' = Append(suspended, Caller)
  /\ pc' = Top(work).callee
  /\ stmt' = NULL /\ phase' = "idle" /\ status' = "unset" /\ work' = <<>>
  /\ UNCHANGED <<prog, interrupt, outcome, loops, proc_stack, next,
                 current_line, gosub_stack, return_stack, error_register,
                 error_stmt>>

-----------------------------------------------------------------------------
(* The statement handlers, once their expression has been evaluated.       *)

Ready(ops) ==
  /\ outcome = "running" /\ phase = "busy" /\ Len(work) = 1
  /\ work[1].rest = <<>>
  /\ Stmt(stmt).op \in ops

Succeeds(ops) == Ready(ops) /\ ~work[1].failed /\ work[1].typed

(* The handler returns to run_statements ...                               *)
Complete(st) ==
  /\ phase' = "done" /\ status' = st /\ work' = <<>>
  /\ UNCHANGED <<outer, stmt, current_line>>

(* ... with an error code it has set.                                      *)
Fail(code) == SetError(code, current_line) /\ Complete("error")

Branching(ops) ==
  /\ Succeeds(ops)
  /\ UNCHANGED <<calls, loops, next, return_stack, error_stmt>>

(* The expression could not be evaluated, or has the wrong type.           *)
ExecFails ==
  /\ Ready(Ops \ {"fnreturn", "next", "proc"})
  /\ \/ /\ work[1].failed
        /\ Complete("error")
        /\ UNCHANGED error_register
     \/ /\ ~work[1].failed /\ ~work[1].typed
        /\ Stmt(stmt).op # "eval"
        /\ Fail(IF Stmt(stmt).op \in {"goto", "gosub"} THEN "SyntaxError"
                                                      ELSE "TypeMismatch")
  /\ UNCHANGED <<calls, loops, next, pc, gosub_stack, return_stack, error_stmt>>

(* Statements that only evaluate, and those with no handler: DEF, REM ...  *)
ExecEval ==
  /\ Ready({"eval", "null", "deffn", "defproc"})
  /\ ~work[1].failed
  /\ Complete("ok")
  /\ UNCHANGED <<calls, loops, next, pc, gosub_stack, return_stack,
                 error_register, error_stmt>>

ExecIf ==
  /\ Branching({"if"})
  /\ \E truth \in BOOLEAN :
       pc' = IF truth THEN Stmt(stmt).sub1
             ELSE IF Stmt(stmt).sub2 # NULL THEN Stmt(stmt).sub2 ELSE pc
  /\ Complete("ok")
  /\ UNCHANGED <<gosub_stack, error_register>>

(* Branch to a line, remembering the return address for the GOSUB forms.   *)
BranchTo(a, gosub) ==
  /\ pc' = a
  /\ gosub_stack' = IF gosub THEN Append(gosub_stack, next[stmt])
                             ELSE gosub_stack
  /\ Complete("ok")
  /\ UNCHANGED error_register

ExecGoto ==
  /\ Branching({"goto", "gosub"})
  /\ IF Stmt(stmt).targets[1] = NULL
       THEN Fail("NoSuchLine") /\ UNCHANGED <<pc, gosub_stack>>
       ELSE BranchTo(Stmt(stmt).targets[1], Stmt(stmt).op = "gosub")

(* The index selects a line of the list, or, out of range, the ELSE.       *)
ExecOn ==
  LET s == Stmt(stmt)
  IN  /\ Branching({"ongoto", "ongosub"})
      /\ \E i \in 0..Len(s.targets) :
           LET target == IF i = 0 THEN s.sub1 ELSE s.targets[i]
           IN  IF target = NULL
                 THEN /\ Fail(IF i = 0 THEN "OnRange" ELSE "NoSuchLine")
                      /\ UNCHANGED <<pc, gosub_stack>>
                 ELSE BranchTo(target, s.op = "ongosub")

ExecReturn ==
  /\ Succeeds({"return"})
  /\ IF gosub_stack = <<>>
       THEN Fail("NoGosub") /\ UNCHANGED <<pc, gosub_stack>>
       ELSE /\ pc' = Top(gosub_stack)
            /\ gosub_stack' = Pop(gosub_stack)
            /\ Complete("ok")
            /\ UNCHANGED error_register
  /\ UNCHANGED <<calls, loops, next, return_stack, error_stmt>>

(* PROC: pass_arguments, then push the return address and branch.          *)
ExecProc ==
  /\ Ready({"proc"})
  /\ IF BoundWith(work[1])
       THEN /\ PushFrame(work[1].callee)
            /\ proc_stack' = Append(proc_stack, next[stmt])
            /\ pc' = work[1].callee
            /\ Complete("ok")
            /\ UNCHANGED error_register
       ELSE /\ IF work[1].failed
                 THEN Complete("error") /\ UNCHANGED error_register
                 ELSE Fail(IF work[1].arity THEN "TypeMismatch"
                                            ELSE "Arguments")
            /\ UNCHANGED <<frames, proc_stack, pc>>
  /\ UNCHANGED <<fn_stack, loops, next, gosub_stack, return_stack, error_stmt>>

(* ABORT(): the process is gone, what it leaves in memory does not matter. *)
Abort(reason) ==
  /\ outcome' = reason
  /\ UNCHANGED <<prog, next, pc, current_line, stmt, phase, status, work,
                 suspended, calls, loops, gosub_stack, return_stack,
                 error_register, error_stmt, interrupt>>

ExecEndproc ==
  /\ Succeeds({"endproc"})
  /\ IF proc_stack = <<>>
       THEN Fail("NoProc") /\ UNCHANGED <<pc, proc_stack, frames>>
       ELSE /\ frames # <<>>
            /\ PopFrame
            /\ pc' = Top(proc_stack)
            /\ proc_stack' = Pop(proc_stack)
            /\ Complete("ok")
            /\ UNCHANGED error_register
  /\ UNCHANGED <<fn_stack, loops, next, gosub_stack, return_stack, error_stmt>>

(* "=": with or without a value, the frame and the return address go.      *)
ExecFnReturn ==
  /\ Ready({"fnreturn"})
  /\ frames # <<>> /\ fn_stack # <<>>
  /\ PopFrame
  /\ pc' = Top(fn_stack)
  /\ fn_stack' = Pop(fn_stack)
  /\ IF work[1].failed
       THEN /\ UNCHANGED return_stack
            /\ Complete("error")
       ELSE /\ return_stack' = Append(return_stack, stmt)
            /\ Complete("exit")
  /\ UNCHANGED <<proc_stack, loops, next, gosub_stack, error_register,
                 error_stmt>>

(* The frame and the return address of "=" are popped unconditionally: the *)
(* test for an empty stack was made before the expression was evaluated.   *)
FrameUnderflow ==
  \/ /\ Ready({"endproc", "fnreturn"})
     /\ Stmt(stmt).op = "endproc" => proc_stack # <<>>
     /\ frames = <<>>
     /\ Abort("abort: stack frame underflow")
  \/ /\ Ready({"fnreturn"}) /\ frames # <<>> /\ fn_stack = <<>>
     /\ Abort("abort: stack empty")

ExecLocal ==
  /\ Succeeds({"local"})
  /\ IF fn_stack = <<>> /\ proc_stack = <<>>
       THEN Fail("NotLocal")
       ELSE Complete("ok") /\ UNCHANGED error_register
  /\ UNCHANGED <<calls, loops, next, pc, gosub_stack, return_stack, error_stmt>>

(* FOR: the initial assignment has been executed, so push the statement.   *)
ExecFor ==
  /\ Succeeds({"for"})
  /\ for_stack' = Append(for_stack, stmt)
  /\ Complete("ok")
  /\ UNCHANGED <<calls, repeat_stack, next, pc, gosub_stack, return_stack,
                 error_register, error_stmt>>

(* NEXT: the limit has been evaluated; without a value NEXT returns,       *)
(* otherwise it goes on to the step.                                       *)
NextLimit ==
  /\ outcome = "running" /\ phase = "busy" /\ Len(work) = 2
  /\ Top(work).kind = "limit" /\ Top(work).rest = <<>>
  /\ IF Top(work).failed
       THEN Complete("error")
       ELSE /\ work' = Pop(work)
            /\ UNCHANGED <<outer, stmt, phase, status, current_line>>
  /\ UNCHANGED <<calls, loops, next, pc, gosub_stack, return_stack,
                 error_register, error_stmt>>

(* NEXT: limit and step are there.  The test after the step looks at the   *)
(* limit again, so a step without a value is dereferenced.  Incrementing   *)
(* the variable fails with "FOR variable" if the sum is not of its type,   *)
(* and with an error of its own if CLEAR has taken the variable away.      *)
ExecNext ==
  LET w         == work[1]
      branch    == Stmt(w.callee)
      mistyped  == ~Numeric(branch.limit) \/ (~w.failed /\ ~Numeric(branch.step))
      zero_step == branch.step # <<>> /\ branch.step[1].kind = "zero"
  IN  /\ Ready({"next"})
      /\ \/ /\ mistyped
            /\ Fail("TypeMismatch")
            /\ UNCHANGED <<pc, for_stack>>
         \/ /\ ~mistyped /\ ~w.failed /\ ~zero_step
            /\ \E code \in {"BadExpr", "ForVariable"} : Fail(code)
            /\ UNCHANGED <<pc, for_stack>>
         \/ /\ ~mistyped /\ ~w.failed /\ ~zero_step
            /\ branch.var \notin StringVars
            /\ pc' = next[w.callee]
            /\ Complete("ok")
            /\ UNCHANGED <<for_stack, error_register>>
         \/ /\ ~mistyped /\ ~w.failed /\ ~zero_step
            /\ branch.var \notin StringVars
            /\ for_stack # <<>>
            /\ for_stack' = Pop(for_stack)
            /\ Complete("ok")
            /\ UNCHANGED <<pc, error_register>>
      /\ UNCHANGED <<calls, repeat_stack, next, gosub_stack, return_stack,
                     error_stmt>>

NextAborts ==
  LET w         == work[1]
      branch    == Stmt(w.callee)
      zero_step == branch.step # <<>> /\ branch.step[1].kind = "zero"
  IN  /\ Ready({"next"})
      /\ Numeric(branch.limit)
      /\ \/ w.failed /\ Abort("segv")
         \/ ~w.failed /\ zero_step /\ Abort("abort: loop increment is zero")
         \/ /\ ~w.failed /\ ~zero_step /\ Numeric(branch.step)
            /\ branch.var \notin StringVars
            /\ for_stack = <<>>
            /\ Abort("abort: stack empty")

(* REPEAT: pushed unless it is already on top, then run its statement.     *)
PushRepeatAlways == repeat_stack' = Append(repeat_stack, stmt)
PushRepeat ==
  repeat_stack' = IF repeat_stack = <<>> \/ Top(repeat_stack) # stmt
                    THEN Append(repeat_stack, stmt) ELSE repeat_stack

ExecRepeat ==
  /\ Succeeds({"repeat"})
  /\ PushRepeat
  /\ pc' = IF Stmt(stmt).sub1 # NULL THEN Stmt(stmt).sub1 ELSE pc
  /\ Complete("ok")
  /\ UNCHANGED <<calls, for_stack, next, gosub_stack, return_stack,
                 error_register, error_stmt>>

ExecUntil ==
  /\ Succeeds({"until"})
  /\ \/ /\ repeat_stack = <<>>
        /\ Fail("NoRepeat")
        /\ UNCHANGED <<pc, repeat_stack>>
     \/ /\ repeat_stack # <<>>
        /\ \/ repeat_stack' = Pop(repeat_stack) /\ UNCHANGED pc
           \/ pc' = Top(repeat_stack) /\ UNCHANGED repeat_stack
        /\ Complete("ok")
        /\ UNCHANGED error_register
  /\ UNCHANGED <<calls, for_stack, next, gosub_stack, return_stack, error_stmt>>

(* error_stmt_clear: the handler gets back the NULL link it was created    *)
(* with.                                                                   *)
Unlinked ==
  IF error_stmt = NULL THEN next ELSE [next EXCEPT ![error_stmt] = NULL]

(* error_stmt_set: after error_stmt_clear, h is linked to what follows ON  *)
(* ERROR.                                                                  *)
RelinkedThenCleared(h) ==
  [a \in DOMAIN next |->
     IF a = error_stmt THEN NULL ELSE IF a = h THEN next[stmt] ELSE next[a]]
Relinked(h) == [Unlinked EXCEPT ![h] = next[stmt]]

(* ON ERROR installs a handler, ON ERROR OFF removes it.                   *)
ExecOnError ==
  LET h == Stmt(stmt).sub1
  IN  /\ Succeeds({"onerror"})
      /\ error_stmt' = h
      /\ next' = IF h = NULL THEN Unlinked ELSE Relinked(h)
      /\ Complete("ok")
      /\ UNCHANGED <<calls, loops, pc, gosub_stack, return_stack,
                     error_register>>

(* END and STOP.                                                           *)
ExecEnd ==
  /\ Succeeds({"end"})
  /\ Complete("exit")
  /\ UNCHANGED <<calls, loops, next, pc, gosub_stack, return_stack,
                 error_register, error_stmt>>

-----------------------------------------------------------------------------
(* Back in run_statements: inspect the result of the statement.            *)

Caught ==
  /\ error_stmt # NULL
  /\ status = "error" \/ ErrorIsSet

Inspecting == outcome = "running" /\ phase = "done"

(* ON ERROR handling is active: go on at the handler.                      *)
CatchError ==
  /\ Inspecting
  /\ Caught
  /\ pc' = error_stmt
  /\ error_register' = [error_register EXCEPT !.code = "none", !.line = 0]
  /\ stmt' = NULL /\ phase' = "idle"
  /\ UNCHANGED <<outer, next, current_line, status, work, calls, loops,
                 gosub_stack, return_stack, error_stmt>>

ContinueRegardless ==
  /\ Inspecting
  /\ ~Caught /\ status = "ok"
  /\ stmt' = NULL /\ phase' = "idle"
  /\ UNCHANGED <<outer, next, pc, current_line, status, work, calls, loops,
                 gosub_stack, return_stack, error_register, error_stmt>>

Continue ==
  /\ Inspecting
  /\ ~Caught /\ ~interrupt /\ status = "ok"
  /\ stmt' = NULL /\ phase' = "idle"
  /\ UNCHANGED <<outer, next, pc, current_line, status, work, calls, loops,
                 gosub_stack, return_stack, error_register, error_stmt>>

(* What the program ends with: an error status without a code is fatal.    *)
OutcomeOfStatus(st, register) ==
  IF st # "error" THEN "exit"
  ELSE IF register.code = "none" THEN "abort: no error reported" ELSE "error"
Outcome(st, register) ==
  IF register.code # "none" THEN "error"
  ELSE IF st = "error" THEN "abort: no error reported" ELSE "exit"

(* run_statements returns st to program_run, which frees the runtime and   *)
(* reports the error, if any.                                              *)
EndProgram(st, register) ==
  /\ suspended = <<>>
  /\ outcome' = Outcome(st, register)
  /\ error_register' = register
  /\ error_stmt' = NULL /\ next' = Unlinked
  /\ fn_stack' = <<>> /\ for_stack' = <<>> /\ gosub_stack' = <<>>
  /\ proc_stack' = <<>> /\ repeat_stack' = <<>> /\ return_stack' = <<>>
  /\ frames' = <<>>
  /\ UNCHANGED <<prog, pc, current_line, stmt, phase, status, work, suspended,
                 interrupt>>

(* runtime_stack_pop, when the call has a value to take.                   *)
PeekValue(value) == UNCHANGED return_stack
TakeValue(value) ==
  return_stack' = IF value THEN Pop(return_stack) ELSE return_stack

(* run_statements returns st to expr_eval_fn: only after an exit is there  *)
(* a value to take from the runtime stack.                                 *)
Resume(st, register) ==
  LET caller == Top(suspended)
      value  == st = "exit"
  IN  /\ suspended # <<>>
      /\ value => return_stack # <<>>
      /\ suspended' = Pop(suspended)
      /\ stmt' = caller.stmt /\ phase' = "busy" /\ status' = "unset"
      /\ work' = ReplaceTop(caller.work, Advance(Top(caller.work), value))
      /\ TakeValue(value)
      /\ error_register' = register
      /\ UNCHANGED <<prog, interrupt, outcome, next, pc, current_line, calls,
                     loops, gosub_stack, error_stmt>>

NoValue(st) ==
  /\ suspended # <<>> /\ st = "exit" /\ return_stack = <<>>
  /\ Abort("abort: runtime stack empty")

Leave(st, register) ==
  EndProgram(st, register) \/ Resume(st, register) \/ NoValue(st)

EscapeIfNoError ==
  IF ErrorIsSet THEN error_register
  ELSE [code |-> "Escape", line |-> current_line,
        last_code |-> "Escape", last_line |-> current_line]
Escape == [code |-> "Escape", line |-> current_line,
           last_code |-> "Escape", last_line |-> current_line]

(* A signal was received: break, whatever the statement returned.          *)
BreakInterrupted == Inspecting /\ ~Caught /\ interrupt /\ Leave(status, Escape)

(* Normal program termination or an error.                                 *)
BreakStatus ==
  Inspecting /\ ~Caught /\ ~interrupt /\ status # "ok"
             /\ Leave(status, error_register)

(* The loop test fails.  Before the first statement the status is not      *)
(* initialised: any value may be returned.                                 *)
RunOff ==
  /\ outcome = "running" /\ phase = "idle" /\ pc = NULL
  /\ \E st \in IF status = "unset" THEN {"ok", "exit", "error"} ELSE {status} :
       Leave(st, error_register)

(* SIGINT: the handler sets the flag, which nothing resets.                *)
Signal ==
  /\ Signals /\ outcome = "running" /\ ~interrupt
  /\ interrupt' = TRUE
  /\ UNCHANGED <<prog, next, pc, current_line, stmt, phase, status, work,
                 suspended, calls, loops, gosub_stack, return_stack,
                 error_register, error_stmt, outcome>>

Stopped == outcome # "running" /\ UNCHANGED vars

Step ==
  \/ FetchStatement \/ FetchProc \/ FetchFnReturn \/ FetchNext
  \/ MemoryExhausted
  \/ EvalLeaf \/ EvalFn \/ CallFails \/ CallFn
  \/ ExecFails \/ ExecEval \/ ExecIf \/ ExecGoto \/ ExecOn \/ ExecReturn
  \/ ExecProc \/ ExecEndproc \/ ExecFnReturn \/ FrameUnderflow \/ ExecLocal
  \/ ExecFor \/ NextLimit \/ ExecNext \/ NextAborts \/ ExecRepeat \/ ExecUntil
  \/ ExecOnError \/ ExecEnd
  \/ CatchError \/ Continue \/ BreakInterrupted \/ BreakStatus \/ RunOff

Next == Step \/ Signal \/ Stopped

Spec == Init /\ [][Next]_vars

(* The interpreter is a process that keeps running; no operand modelled    *)
(* here waits for input.  Nobody has to press Ctrl-C.                      *)
FairSpec == Spec /\ WF_vars(Step)
=============================================================================
