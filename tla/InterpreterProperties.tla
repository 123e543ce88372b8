------------------------ MODULE InterpreterProperties ------------------------
(***************************************************************************)
(* What the control core promises, over the states of Interpreter.         *)
(***************************************************************************)
EXTENDS Interpreter, FiniteSets

Addresses == 1..Len(prog.stmts)

(* The program has no ON ERROR statement.                                  *)
HandlerFree == \A a \in Addresses : Stmt(a).op # "onerror"

-----------------------------------------------------------------------------
(* Types.                                                                  *)

Phases   == {"idle", "busy", "done"}
Statuses == {"unset", "ok", "exit", "error"}

WorkItem(p) ==
  [kind: {"expr", "args", "limit", "step"},
   rest: Seq(Operand(Len(p.calls))), failed: BOOLEAN,
   callee: 0..Len(p.stmts), arity: BOOLEAN, typed: BOOLEAN]

Suspended(p) == [stmt: 1..Len(p.stmts), work: Seq(WorkItem(p))]

Register == [code: Codes, line: Nat, last_code: Codes, last_line: Nat]

TypeProgram ==
  /\ IsProgram(prog)
  /\ next \in [Addresses -> 0..Len(prog.stmts)]
  /\ pc \in 0..Len(prog.stmts)
  /\ current_line \in Nat
  /\ error_register \in Register
  /\ error_stmt \in 0..Len(prog.stmts)
  /\ interrupt \in BOOLEAN
  /\ outcome \in Outcomes

TypeActivation ==
  /\ stmt \in 0..Len(prog.stmts)
  /\ phase \in Phases
  /\ status \in Statuses
  /\ work \in Seq(WorkItem(prog))
  /\ suspended \in Seq(Suspended(prog))
  /\ phase # "idle" => stmt # NULL
  /\ phase = "busy" => work # <<>>
  /\ \A i \in 1..Len(suspended) : suspended[i].work # <<>>

TypeStacks ==
  /\ fn_stack \in Seq(0..Len(prog.stmts))
  /\ proc_stack \in Seq(0..Len(prog.stmts))
  /\ gosub_stack \in Seq(0..Len(prog.stmts))
  /\ for_stack \in Seq(Addresses)
  /\ repeat_stack \in Seq(Addresses)
  /\ return_stack \in Seq(Addresses)
  /\ frames \in Seq(Addresses)

(* Every variable has the type of the C object it stands for.              *)
TypeOK == TypeProgram /\ TypeActivation /\ TypeStacks

-----------------------------------------------------------------------------
(* Calls.                                                                  *)

(* pass_arguments pushes a frame and its caller pushes a return address;   *)
(* ENDPROC and "=" pop both: between statements and inside expressions     *)
(* there is one frame per pending PROC or FN, errors included.             *)
FrameBalance ==
  outcome = "running" => Len(frames) = Len(fn_stack) + Len(proc_stack)

(* "=" is executing in the main program, or was suspended there.           *)
ReturnPending ==
  \/ suspended = <<>> /\ phase = "busy" /\ Stmt(stmt).op = "fnreturn"
  \/ suspended # <<>> /\ Stmt(suspended[1].stmt).op = "fnreturn"

(* Without ON ERROR every activation of run_statements still has its       *)
(* return address, until "=" takes it: no function returns for another.    *)
FnDepth ==
  HandlerFree /\ outcome = "running" =>
    Len(fn_stack) >=
      Len(suspended) + (IF ReturnPending THEN 1 ELSE 0)
        - (IF phase = "done" /\ Stmt(stmt).op = "fnreturn" THEN 1 ELSE 0)

(* Without ON ERROR, "=" never finds the frame or the return address of    *)
(* its function gone, whatever else the program does.                      *)
FnReturnFindsFrame ==
  HandlerFree => outcome # "abort: stack frame underflow"

(* An ENDPROC pops the frame of a PROC and "=" that of an FN.              *)
FramePoppedByOwner ==
  [][ outcome = "running" /\ outcome' = "running" /\ Len(frames') < Len(frames)
      => Stmt(Top(frames)).op = IF Stmt(stmt).op = "endproc" THEN "defproc"
                                                             ELSE "deffn" ]_vars

(* Some part of the expression under evaluation in w has failed.           *)
Failing(w) == \E i \in 1..Len(w) : w[i].failed

(* Without ON ERROR, when a function hands back a value its caller goes on *)
(* where it was: the program counter is the one the statement started with,*)
(* unless that statement is bound to fail already.                         *)
FnReturnRestoresPc ==
  [][ /\ HandlerFree
      /\ Len(suspended') < Len(suspended) /\ status = "exit"
      /\ \A i \in 1..Len(suspended) : ~Failing(suspended[i].work)
      => pc = next[Top(suspended).stmt] ]_vars

(* The runtime stack is a hand-over: what "=" pushes is taken at once by   *)
(* the call that waits for it, so no call can take another one's value.    *)
(* (After Ctrl-C a handler may run between the two.)                       *)
ValueHandedOver ==
  outcome = "running" /\ (HandlerFree \/ ~interrupt) =>
    Len(return_stack) = IF /\ phase = "done" /\ status = "exit"
                           /\ Stmt(stmt).op = "fnreturn" THEN 1 ELSE 0

(* expr_eval_fn: "Return the result from the stack - the FN return         *)
(* function pushed it".                                                    *)
ValueIsThere == outcome # "abort: runtime stack empty"

(* stmt_exec_fn_return: "The evaluation function pushed the stack frame,   *)
(* here pop it".                                                           *)
FrameIsThere == outcome # "abort: stack frame underflow"

-----------------------------------------------------------------------------
(* Errors.                                                                 *)

(* Without ON ERROR an error anywhere, at any depth of function calls,     *)
(* ends the program with an error: it is never lost on its way out.        *)
ErrorNeverLost ==
  HandlerFree /\ outcome = "exit" => error_register.last_code = "none"

(* The installed handler is linked to the statement after an ON ERROR that *)
(* owns it: that is where a GOSUB handler will return to.                  *)
HandlerLinked ==
  error_stmt # NULL =>
    \E a \in Addresses : /\ Stmt(a).op = "onerror"
                         /\ Stmt(a).sub1 = error_stmt
                         /\ next[error_stmt] = next[a]

(* Once Ctrl-C has been pressed, a program that ends after one more        *)
(* statement ends with "Escape", whatever that statement returned.         *)
InterruptWins ==
  [][ interrupt /\ phase = "done" /\ outcome' # outcome
      => \/ outcome' = "error" /\ error_register'.code = "Escape"
         \/ outcome' = "abort: runtime stack empty" ]_vars

(* Ctrl-C stops the program.                                               *)
InterruptStops == interrupt ~> outcome # "running"

(* error_output: a failing program has reported an error.                  *)
ErrorReported == outcome # "abort: no error reported"

(* run_statements: "Store current line number for error reporting": an     *)
(* error is reported at the line of the statement that met it.             *)
ErrorAtItsLine ==
  [][ phase = "busy" /\ error_register' # error_register
      => error_register'.line = Stmt(stmt).line ]_vars

(* stmt_exec_local: "Return an error if LOCAL appears outside a procedure  *)
(* or function".  What precedes every DEF of the text is outside.          *)
Outside(a) == \A d \in 1..a : Stmt(d).op \notin {"defproc", "deffn"}
LocalOnlyInside ==
  [][ phase = "busy" /\ phase' = "done" /\ Stmt(stmt).op = "local" /\ Outside(stmt)
      => status' = "error" ]_vars

-----------------------------------------------------------------------------
(* Loops.                                                                  *)

(* The end of a loop, and the loops that enclose the statement at address  *)
(* a of a program written without branches.                                *)
Count(lo, hi, ops) == Cardinality({a \in lo..hi : Stmt(a).op \in ops})

Balances(o, c) ==
  /\ c > o
  /\ Count(o, c, {"repeat", "for"}) = Count(o, c, {"until", "next"})
  /\ \A d \in o..(c - 1) :
       Count(o, d, {"repeat", "for"}) # Count(o, d, {"until", "next"})

Partner(o) == CHOOSE c \in Addresses : Balances(o, c)

Enclosing(a, op) == {o \in 1..(a - 1) : Stmt(o).op = op /\ Partner(o) >= a}

(* A stack of loops, the outermost first.                                  *)
Holds(stack, addresses) ==
  /\ \A i, j \in DOMAIN stack : i < j => stack[i] < stack[j]
  /\ {stack[i] : i \in DOMAIN stack} = addresses

(* In a program of properly nested loops the two loop stacks hold exactly  *)
(* the loops around the next statement, at every iteration.                *)
LoopStacksAreLexical ==
  outcome = "running" /\ phase = "idle" /\ pc # NULL =>
    /\ Holds(for_stack, Enclosing(pc, "for"))
    /\ \/ Holds(repeat_stack, Enclosing(pc, "repeat"))
       \/ /\ Stmt(pc).op = "repeat"    \* re-entered: still on the stack
          /\ Holds(repeat_stack, Enclosing(pc, "repeat") \cup {pc})

(* In a program of properly nested loops no loop statement fails for want  *)
(* of its loop.                                                            *)
LoopsMatch ==
  error_register.code \notin {"NoRepeat", "NoFor", "CantMatchFor"}

(* Which programs these are: statements one after the other, without calls *)
(* and branches, and each loop has its own end, within the loop around it. *)
Opens(p)  == {a \in 1..Len(p.stmts) : p.stmts[a].op \in {"repeat", "for"}}
Closes(p) == {a \in 1..Len(p.stmts) : p.stmts[a].op \in {"until", "next"}}

Ends(c, o) == \/ o.op = "repeat" /\ c.op = "until"
              \/ o.op = "for" /\ c.op = "next" /\ c.var \in {"", o.var}

Pairs(p, end) ==
  /\ \A c \in Closes(p) : \E o \in Opens(p) : end[o] = c
  /\ \A o \in Opens(p) :
       /\ o < end[o] /\ Ends(p.stmts[end[o]], p.stmts[o])
       /\ \A i \in Opens(p) : o < i /\ i < end[o] => end[i] < end[o]

ProperlyNested(p) ==
  /\ p.calls = <<>>
  /\ \A a \in 1..Len(p.stmts) :
       LET s == p.stmts[a]
       IN  /\ s.op \in {"repeat", "until", "for", "next", "eval", "null", "end"}
           /\ s.next = (IF a < Len(p.stmts) THEN a + 1 ELSE NULL) /\ s.sub1 = NULL
  /\ \E end \in [Opens(p) -> Closes(p)] : Pairs(p, end)
=============================================================================
