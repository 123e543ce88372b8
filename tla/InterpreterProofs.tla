--------------------------- MODULE InterpreterProofs ---------------------------
(***************************************************************************)
(* Proofs about the control core, for every set of programs and every      *)
(* memory bound: types, calls, errors and Ctrl-C, and at the end loops.    *)
(***************************************************************************)
EXTENDS InterpreterProperties, SequenceTheorems, FiniteSetTheorems, TLAPS

-----------------------------------------------------------------------------
(* Stacks and sequences.                                                   *)

(* A stack without its top.                                                *)
LEMMA PopType ==
  ASSUME NEW S, NEW s \in Seq(S)
  PROVE  /\ Pop(s) \in Seq(S)
         /\ Len(Pop(s)) = IF s = <<>> THEN 0 ELSE Len(s) - 1
         /\ \A i \in 1..Len(Pop(s)) : Pop(s)[i] = s[i]
<1>1. Len(s) - 1 \in Int /\ \A i \in 1..(Len(s) - 1) : s[i] \in S
  OBVIOUS
<1>2. /\ SubSeq(s, 1, Len(s) - 1) \in Seq(S)
      /\ Len(SubSeq(s, 1, Len(s) - 1)) =
           IF 1 <= Len(s) - 1 THEN Len(s) - 1 - 1 + 1 ELSE 0
      /\ \A i \in 1..(Len(s) - 1 - 1 + 1) :
           SubSeq(s, 1, Len(s) - 1)[i] = s[1 + i - 1]
  BY <1>1, SubSeqProperties
<1>3. s = <<>> <=> Len(s) = 0
  BY EmptySeq
<1> QED BY <1>2, <1>3 DEF Pop

(* Pop as it is used: on a stack that is not empty.                        *)
LEMMA PopNonEmpty ==
  ASSUME NEW S, NEW s \in Seq(S), s # <<>>
  PROVE  /\ Pop(s) \in Seq(S)
         /\ Len(Pop(s)) = Len(s) - 1
         /\ \A i \in 1..(Len(s) - 1) : Pop(s)[i] = s[i]
         /\ Top(s) \in S
         /\ Len(s) \in Nat \ {0}
<1>1. Len(s) \in Nat \ {0}
  BY EmptySeq
<1>2. Top(s) \in S
  BY <1>1 DEF Top
<1> QED BY <1>1, <1>2, PopType

(* A stack with another top.                                               *)
LEMMA ReplaceTopType ==
  ASSUME NEW S, NEW s \in Seq(S), s # <<>>, NEW x \in S
  PROVE  /\ ReplaceTop(s, x) \in Seq(S)
         /\ Len(ReplaceTop(s, x)) = Len(s)
         /\ ReplaceTop(s, x) # <<>>
         /\ ReplaceTop(s, x)[Len(s)] = x
         /\ \A i \in 1..(Len(s) - 1) : ReplaceTop(s, x)[i] = s[i]
<1>1. Len(s) \in Nat \ {0}
  BY EmptySeq
<1>2. /\ ReplaceTop(s, x) \in Seq(S)
      /\ Len(ReplaceTop(s, x)) = Len(s)
      /\ \A j \in 1..Len(s) : ReplaceTop(s, x)[j] = IF j = Len(s) THEN x ELSE s[j]
  BY <1>1, ExceptSeq DEF ReplaceTop
<1>3. ReplaceTop(s, x) # <<>>
  BY <1>1, <1>2, EmptySeq
<1> QED BY <1>1, <1>2, <1>3

(* A stack with one more item.                                             *)
LEMMA AppendType ==
  ASSUME NEW S, NEW s \in Seq(S), NEW x \in S
  PROVE  /\ Append(s, x) \in Seq(S)
         /\ Len(Append(s, x)) = Len(s) + 1
         /\ Append(s, x) # <<>>
         /\ Append(s, x)[Len(s) + 1] = x
         /\ \A i \in 1..Len(s) : Append(s, x)[i] = s[i]
<1>1. Append(s, x) \in Seq(S) /\ Len(Append(s, x)) = Len(s) + 1
  BY AppendProperties
<1>2. Append(s, x) # <<>>
  BY <1>1, EmptySeq
<1> QED BY <1>1, <1>2, AppendProperties

-----------------------------------------------------------------------------
(* Statements, operands and items of work.                                 *)

OperandsOf(p) == Seq(Operand(Len(p.calls)))

(* A statement of the program is one.                                      *)
LEMMA StmtType ==
  ASSUME IsProgram(prog), NEW a \in Addresses
  PROVE  /\ Stmt(a).op \in Ops
         /\ Stmt(a).line \in Nat
         /\ Stmt(a).next \in 0..Len(prog.stmts)
         /\ Stmt(a).sub1 \in 0..Len(prog.stmts)
         /\ Stmt(a).sub2 \in 0..Len(prog.stmts)
         /\ Stmt(a).callee \in 0..Len(prog.stmts)
         /\ Stmt(a).params \in Nat
         /\ Stmt(a).targets \in Seq(0..Len(prog.stmts))
         /\ Stmt(a).op \in {"goto", "gosub"} => Stmt(a).targets # <<>>
         /\ Stmt(a).expr \in OperandsOf(prog)
         /\ Stmt(a).limit \in OperandsOf(prog)
         /\ Stmt(a).step \in OperandsOf(prog)
<1> DEFINE n == Len(prog.stmts)
           m == Len(prog.calls)
<1>1. prog.stmts \in Seq(Statement(n, m))
  BY DEF IsProgram
<1>2. Stmt(a) \in Statement(n, m)
  BY <1>1 DEF Stmt, Addresses
<1>3. Stmt(a).op \in {"goto", "gosub"} => Stmt(a).targets # <<>>
  BY DEF IsProgram, Stmt, Addresses
<1> QED BY <1>2, <1>3 DEF Statement, OperandsOf

(* A call in an expression has a callee and arguments.                     *)
LEMMA CallType ==
  ASSUME IsProgram(prog), NEW o \in Operand(Len(prog.calls)), o.kind = "fn"
  PROVE  /\ prog.calls[o.call].callee \in 0..Len(prog.stmts)
         /\ prog.calls[o.call].args \in OperandsOf(prog)
         /\ prog.calls[o.call].callee # NULL
              => prog.stmts[prog.calls[o.call].callee].op = "deffn"
<1> DEFINE n == Len(prog.stmts)
           m == Len(prog.calls)
<1>1. prog.calls \in Seq(FnCall(n, m))
  BY DEF IsProgram
<1>2. o.call \in 1..m
  BY DEF Operand, LeafKinds
<1>3. prog.calls[o.call] \in FnCall(n, m)
  BY <1>1, <1>2
<1>4. prog.calls[o.call].callee # NULL
        => prog.stmts[prog.calls[o.call].callee].op = "deffn"
  BY <1>2 DEF IsProgram
<1> QED BY <1>3, <1>4 DEF FnCall, OperandsOf

(* The work of an expression has its type.                                 *)
LEMMA ExprWorkType ==
  ASSUME NEW e \in OperandsOf(prog), NEW kind \in {"expr", "limit", "step"}
  PROVE  /\ ExprWork(kind, e) \in WorkItem(prog)
         /\ ExprWork(kind, e).kind = kind
<1>1. Numeric(e) \in BOOLEAN /\ NULL \in 0..Len(prog.stmts)
  BY LenProperties DEF Numeric, NULL
<1> QED BY <1>1 DEF ExprWork, WorkItem, OperandsOf

(* The work of the expressions of a loop has its type.                     *)
LEMMA LoopWorkType ==
  ASSUME NEW e \in OperandsOf(prog), NEW kind \in {"limit", "step"},
         NEW b \in Addresses
  PROVE  /\ [ExprWork(kind, e) EXCEPT !.callee = b] \in WorkItem(prog)
         /\ [ExprWork(kind, e) EXCEPT !.callee = b].kind = kind
         /\ [ExprWork(kind, e) EXCEPT !.callee = b].callee = b
<1>1. Numeric(e) \in BOOLEAN /\ b \in 0..Len(prog.stmts)
  BY LenProperties DEF Numeric, Addresses
<1> DEFINE num == Numeric(e)
           q == [kind |-> kind, rest |-> e, failed |-> FALSE, callee |-> NULL,
                 arity |-> TRUE, typed |-> num]
<1>2. ExprWork(kind, e) = q
  BY Zenon DEF ExprWork
<1> HIDE DEF num
<1>3. num \in BOOLEAN
  BY <1>1 DEF num
<1>4. [q EXCEPT !.callee = b] \in WorkItem(prog)
  BY <1>1, <1>3 DEF WorkItem, OperandsOf
<1>5. [q EXCEPT !.callee = b].kind = kind /\ [q EXCEPT !.callee = b].callee = b
  OBVIOUS
<1> QED BY <1>2, <1>4, <1>5

(* The work of arguments has its type.                                     *)
LEMMA ArgsWorkType ==
  ASSUME IsProgram(prog), NEW callee \in Addresses, NEW args \in OperandsOf(prog)
  PROVE  /\ ArgsWork(callee, args) \in WorkItem(prog)
         /\ ArgsWork(callee, args).kind = "args"
         /\ ArgsWork(callee, args).callee = callee
<1> DEFINE k == IF Stmt(callee).params < Len(args) THEN Stmt(callee).params
                                                   ELSE Len(args)
           used == SubSeq(args, 1, k)
<1>1. k \in 0..Len(args)
  BY StmtType
<1>2. used \in OperandsOf(prog)
  BY <1>1, SubSeqProperties DEF OperandsOf
<1>3. Numeric(used) \in BOOLEAN
  BY DEF Numeric
<1>4. callee \in 0..Len(prog.stmts)
  BY DEF Addresses
<1> QED BY <1>2, <1>3, <1>4 DEF ArgsWork, WorkItem, OperandsOf

(* Work that goes on keeps its type.                                       *)
LEMMA AdvanceType ==
  ASSUME NEW w \in WorkItem(prog), w.rest # <<>>, NEW ok \in BOOLEAN
  PROVE  /\ Advance(w, ok) \in WorkItem(prog)
         /\ Advance(w, ok).kind = w.kind
         /\ Advance(w, ok).callee = w.callee
<1>1. Tail(w.rest) \in OperandsOf(prog) /\ <<>> \in OperandsOf(prog)
  BY HeadTailProperties, EmptySeq DEF WorkItem, OperandsOf
<1> QED BY <1>1 DEF Advance, WorkItem, OperandsOf

-----------------------------------------------------------------------------
(* Type correctness.  An activation evaluates the statement s of program p *)
(* with the work items w: an operand that is being evaluated by an item    *)
(* above is still at the head of its list, and the call is that of an FN.  *)

FirstKind(p, s) == IF p.stmts[s].op = "proc" THEN "args"
                   ELSE IF p.stmts[s].op = "next" THEN "step" ELSE "expr"

WorkOK(p, s, w) ==
  /\ w # <<>>
  /\ w[1].kind = FirstKind(p, s)
  /\ \A i \in 1..Len(w) : w[i].kind # "expr" => w[i].callee # NULL
  /\ \A i \in 2..Len(w) : w[i].kind = "args" => w[i - 1].rest # <<>>
  /\ \A i \in 2..Len(w) : w[i].kind = "args"
                             => p.stmts[w[i].callee].op = "deffn"

Waiting(p, a) == WorkOK(p, a.stmt, a.work) /\ Top(a.work).rest # <<>>

TypeInv ==
  /\ TypeOK
  /\ phase = "busy" => WorkOK(prog, stmt, work)
  /\ \A i \in 1..Len(suspended) : Waiting(prog, suspended[i])

(* Work that goes on fits what is suspended below it.                      *)
LEMMA WorkReplaceTop ==
  ASSUME NEW s, NEW w \in Seq(WorkItem(prog)), WorkOK(prog, s, w),
         Top(w).rest # <<>>, NEW ok \in BOOLEAN
  PROVE  /\ ReplaceTop(w, Advance(Top(w), ok)) \in Seq(WorkItem(prog))
         /\ WorkOK(prog, s, ReplaceTop(w, Advance(Top(w), ok)))
<1> DEFINE x == Advance(Top(w), ok)
           v == ReplaceTop(w, Advance(Top(w), ok))
<1>1. w # <<>> /\ Len(w) \in Nat \ {0} /\ Top(w) \in WorkItem(prog)
  BY PopNonEmpty DEF WorkOK
<1>2. x \in WorkItem(prog) /\ x.kind = Top(w).kind /\ x.callee = Top(w).callee
  BY <1>1, AdvanceType
<1>3. /\ v \in Seq(WorkItem(prog)) /\ Len(v) = Len(w) /\ v # <<>>
      /\ v[Len(w)] = x /\ \A i \in 1..(Len(w) - 1) : v[i] = w[i]
  BY <1>1, <1>2, ReplaceTopType
<1>4. \A i \in 1..Len(w) : v[i].kind = w[i].kind /\ v[i].callee = w[i].callee
  <2> TAKE i \in 1..Len(w)
  <2>1. CASE i = Len(w)
    BY <2>1, <1>2, <1>3 DEF Top
  <2>2. CASE i # Len(w)
    BY <2>2, <1>1, <1>3
  <2> QED BY <2>1, <2>2
<1> HIDE DEF v, x
<1>5. \A i \in 2..Len(v) : v[i].kind = "args" => v[i - 1].rest # <<>>
  <2> TAKE i \in 2..Len(v)
  <2>1. i \in 1..Len(w) /\ i \in 2..Len(w) /\ i - 1 \in 1..(Len(w) - 1)
    BY <1>1, <1>3
  <2>2. v[i].kind = w[i].kind
    BY <2>1, <1>4
  <2>3. v[i - 1] = w[i - 1]
    BY <2>1, <1>3
  <2> QED BY <2>1, <2>2, <2>3 DEF WorkOK
<1>6. \A i \in 2..Len(v) : v[i].kind = "args"
                            => prog.stmts[v[i].callee].op = "deffn"
  <2> TAKE i \in 2..Len(v)
  <2>1. i \in 1..Len(w) /\ i \in 2..Len(w)
    BY <1>1, <1>3
  <2>2. v[i].kind = w[i].kind /\ v[i].callee = w[i].callee
    BY <2>1, <1>4
  <2> QED BY <2>1, <2>2 DEF WorkOK
<1>7. WorkOK(prog, s, v)
  BY <1>1, <1>3, <1>4, <1>5, <1>6 DEF WorkOK
<1> QED BY <1>3, <1>7 DEF v

(* The work of a call's arguments fits what is below it.                   *)
LEMMA WorkAppend ==
  ASSUME NEW s, NEW w \in Seq(WorkItem(prog)), WorkOK(prog, s, w),
         Top(w).rest # <<>>,
         NEW x \in WorkItem(prog), x.kind = "args", x.callee # NULL,
         prog.stmts[x.callee].op = "deffn"
  PROVE  /\ Append(w, x) \in Seq(WorkItem(prog))
         /\ WorkOK(prog, s, Append(w, x))
<1> DEFINE v == Append(w, x)
<1>1. w # <<>> /\ Len(w) \in Nat \ {0}
  BY PopNonEmpty DEF WorkOK
<1>2. /\ v \in Seq(WorkItem(prog)) /\ Len(v) = Len(w) + 1 /\ v # <<>>
      /\ v[Len(w) + 1] = x /\ \A i \in 1..Len(w) : v[i] = w[i]
  BY AppendType
<1> HIDE DEF v
<1>3. \A i \in 1..Len(v) : v[i].kind # "expr" => v[i].callee # NULL
  BY <1>1, <1>2 DEF WorkOK
<1>4. \A i \in 2..Len(v) : v[i].kind = "args" => v[i - 1].rest # <<>>
  <2> TAKE i \in 2..Len(v)
  <2>1. CASE i = Len(w) + 1
    BY <2>1, <1>1, <1>2 DEF Top
  <2>2. CASE i # Len(w) + 1
    <3>1. i \in 2..Len(w) /\ i - 1 \in 1..Len(w)
      BY <2>2, <1>1, <1>2
    <3> QED BY <3>1, <1>2 DEF WorkOK
  <2> QED BY <2>1, <2>2
<1>5. v[1].kind = w[1].kind
  BY <1>1, <1>2
<1>6. \A i \in 2..Len(v) : v[i].kind = "args"
                            => prog.stmts[v[i].callee].op = "deffn"
  <2> TAKE i \in 2..Len(v)
  <2>1. CASE i = Len(w) + 1
    BY <2>1, <1>2
  <2>2. CASE i # Len(w) + 1
    <3>1. i \in 2..Len(w) /\ i \in 1..Len(w)
      BY <2>2, <1>1, <1>2
    <3> QED BY <3>1, <1>2 DEF WorkOK
  <2> QED BY <2>1, <2>2
<1>7. WorkOK(prog, s, v)
  BY <1>2, <1>3, <1>4, <1>5, <1>6 DEF WorkOK
<1> QED BY <1>2, <1>7 DEF v

(* Work that is finished leaves work that fits.                            *)
LEMMA WorkPop ==
  ASSUME NEW s, NEW w \in Seq(WorkItem(prog)), WorkOK(prog, s, w), Len(w) > 1
  PROVE  /\ Pop(w) \in Seq(WorkItem(prog))
         /\ WorkOK(prog, s, Pop(w))
         /\ Top(w).kind = "args" => Top(Pop(w)).rest # <<>>
<1>1. /\ Pop(w) \in Seq(WorkItem(prog))
      /\ Len(Pop(w)) = Len(w) - 1
      /\ \A i \in 1..(Len(w) - 1) : Pop(w)[i] = w[i]
      /\ Len(w) \in Nat \ {0}
  BY PopNonEmpty DEF WorkOK
<1>2. Pop(w) # <<>>
  BY <1>1, EmptySeq
<1>3. WorkOK(prog, s, Pop(w))
  BY <1>1, <1>2 DEF WorkOK
<1>4. Top(w).kind = "args" => Top(Pop(w)).rest # <<>>
  BY <1>1 DEF WorkOK, Top
<1> QED BY <1>1, <1>3, <1>4

(* The type invariant holds when the program starts.                       *)
LEMMA TypeInit == Init => TypeInv
<1> SUFFICES ASSUME Init PROVE TypeInv
  OBVIOUS
<1>1. IsProgram(prog)
  BY ProgramsAssumption DEF Init
<1>2. /\ Len(prog.stmts) \in Nat
      /\ prog.stmts = <<>> <=> Len(prog.stmts) = 0
  <2>1. prog.stmts \in Seq(Statement(Len(prog.stmts), Len(prog.calls)))
    BY <1>1 DEF IsProgram
  <2> QED BY <2>1, EmptySeq
<1>3. next \in [Addresses -> 0..Len(prog.stmts)]
  BY <1>1, StmtType DEF Init, Addresses, Stmt
<1>4. TypeProgram
  <2>1. pc \in 0..Len(prog.stmts)
    BY <1>2 DEF Init, NULL
  <2>2. error_register \in Register
    BY DEF Init, Register, Codes
  <2>3. error_stmt \in 0..Len(prog.stmts) /\ current_line \in Nat
    BY <1>2 DEF Init, NULL
  <2>4. interrupt \in BOOLEAN /\ outcome \in Outcomes
    BY DEF Init, Outcomes
  <2> QED BY <1>1, <1>3, <2>1, <2>2, <2>3, <2>4 DEF TypeProgram
<1>5. TypeActivation
  BY <1>2 DEF Init, TypeActivation, Phases, Statuses, NULL
<1>6. TypeStacks
  BY DEF Init, TypeStacks
<1> QED BY <1>4, <1>5, <1>6 DEF TypeInv, TypeOK, Init

(* Entering a handler at a statement address.                              *)
LEMMA TypeFetched ==
  ASSUME TypeInv, Fetch,
         for_stack' \in Seq(Addresses),
         \/ \E code \in Codes : Refuse(code)
         \/ \E w \in Seq(WorkItem(prog)) : WorkOK(prog, pc, w) /\ Evaluate(w)
  PROVE  TypeInv'
<1>1. /\ prog' = prog /\ suspended' = suspended /\ stmt' = pc
      /\ pc' = next[pc] /\ current_line' = Stmt(pc).line
  BY DEF Fetch
<1>2. pc \in Addresses /\ pc # NULL /\ IsProgram(prog)
  BY DEF Fetch, TypeInv, TypeOK, TypeProgram, Addresses, NULL
<1>3. Stmt(pc).line \in Nat
  BY <1>2, StmtType
<1>4. error_register \in Register /\ status \in Statuses
  BY DEF TypeInv, TypeOK, TypeProgram, TypeActivation
<1>5. /\ error_register' \in Register
      /\ phase' \in {"busy", "done"} /\ status' \in Statuses
      /\ work' \in Seq(WorkItem(prog))
      /\ phase' = "busy" => WorkOK(prog, pc, work')
  <2>1. CASE \E code \in Codes : Refuse(code)
    BY <2>1, <1>3 DEF Refuse, SetError, Register, Statuses
  <2>2. CASE \E w \in Seq(WorkItem(prog)) : WorkOK(prog, pc, w) /\ Evaluate(w)
    BY <2>2, <1>4 DEF Evaluate
  <2> QED BY <2>1, <2>2
<1>6. TypeProgram'
  BY <1>1, <1>2, <1>3, <1>5 DEF Fetch, TypeInv, TypeOK, TypeProgram, Addresses
<1>7. TypeActivation'
  BY <1>1, <1>2, <1>5
     DEF TypeInv, TypeOK, TypeActivation, Phases, Addresses, WorkOK
<1>8. TypeStacks'
  BY <1>1 DEF Fetch, calls, TypeInv, TypeOK, TypeStacks, Addresses
<1> QED BY <1>1, <1>5, <1>6, <1>7, <1>8 DEF TypeInv, TypeOK

(* Fetching a statement keeps the type invariant.                          *)
LEMMA TypeFetch ==
  ASSUME TypeInv, FetchStatement \/ FetchProc \/ FetchFnReturn \/ FetchNext
  PROVE  TypeInv'
<1>1. /\ pc \in Addresses /\ pc # NULL /\ IsProgram(prog)
      /\ for_stack \in Seq(Addresses)
  <2>1. Fetch
    BY DEF FetchStatement, FetchProc, FetchFnReturn, FetchNext
  <2> QED BY <2>1 DEF Fetch, TypeInv, TypeOK, TypeProgram, TypeStacks,
                      Addresses, NULL
<1>2. Stmt(pc).expr \in OperandsOf(prog)
  BY <1>1, StmtType
<1>3. ASSUME FirstKind(prog, pc) = "expr"
      PROVE  \E w \in Seq(WorkItem(prog)) :
               w = <<ExprWork("expr", Stmt(pc).expr)>> /\ WorkOK(prog, pc, w)
  <2> DEFINE x == ExprWork("expr", Stmt(pc).expr)
  <2>1. x \in WorkItem(prog) /\ x.kind = "expr"
    BY <1>2, ExprWorkType
  <2> HIDE DEF x
  <2>2. <<x>> \in Seq(WorkItem(prog)) /\ WorkOK(prog, pc, <<x>>)
    BY <2>1, <1>3 DEF WorkOK
  <2> QED BY <2>2 DEF x
<1>4. CASE FetchStatement
  <2>1. FirstKind(prog, pc) = "expr"
    BY <1>4 DEF FetchStatement, FirstKind, Stmt
  <2>2. for_stack' \in Seq(Addresses) /\ Fetch
        /\ Evaluate(<<ExprWork("expr", Stmt(pc).expr)>>)
    BY <1>1, <1>4 DEF FetchStatement
  <2> QED BY <2>1, <2>2, <1>3, TypeFetched
<1>5. CASE FetchFnReturn
  <2>1. FirstKind(prog, pc) = "expr"
    BY <1>5 DEF FetchFnReturn, FirstKind, Stmt
  <2>2. /\ for_stack' \in Seq(Addresses) /\ Fetch
        /\ Refuse("NoFn") \/ Evaluate(<<ExprWork("expr", Stmt(pc).expr)>>)
    BY <1>1, <1>5 DEF FetchFnReturn
  <2>3. "NoFn" \in Codes
    BY DEF Codes
  <2> QED BY <2>1, <2>2, <2>3, <1>3, TypeFetched
<1>6. CASE FetchProc
  <2> DEFINE callee == Stmt(pc).callee
             x == ArgsWork(callee, Stmt(pc).expr)
  <2>1. for_stack' \in Seq(Addresses) /\ Fetch
    BY <1>1, <1>6 DEF FetchProc
  <2>2. CASE callee = NULL
    <3>1. Refuse("NoSuchFnProc") /\ "NoSuchFnProc" \in Codes
      BY <2>2, <1>6 DEF FetchProc, Codes
    <3> QED BY <2>1, <3>1, TypeFetched
  <2>3. CASE callee # NULL
    <3>1. callee \in Addresses
      BY <2>3, <1>1, StmtType DEF Addresses, NULL
    <3>2. x \in WorkItem(prog) /\ x.kind = "args" /\ x.callee = callee
      BY <3>1, <1>1, <1>2, ArgsWorkType
    <3>3. FirstKind(prog, pc) = "args"
      BY <1>6 DEF FetchProc, FirstKind, Stmt
    <3>4. <<x>> \in Seq(WorkItem(prog)) /\ WorkOK(prog, pc, <<x>>)
      BY <2>3, <3>2, <3>3 DEF WorkOK
    <3>5. Evaluate(<<x>>)
      BY <2>3, <1>6 DEF FetchProc
    <3> HIDE DEF x
    <3> QED BY <2>1, <3>4, <3>5, TypeFetched
  <2> QED BY <2>2, <2>3
<1>7. CASE FetchNext
  <2> DEFINE v == Stmt(pc).var
  <2>1. PICK i \in 0..Len(for_stack) :
          /\ for_stack' = SubSeq(for_stack, 1, i)
          /\ IF i = 0 THEN Refuse(IF v = "" THEN "NoFor" ELSE "CantMatchFor")
                      ELSE Evaluate(NextWork(for_stack[i]))
    BY <1>7 DEF FetchNext
  <2>2. for_stack' \in Seq(Addresses) /\ Fetch
    <3>1. \A k \in 1..i : for_stack[k] \in Addresses
      BY <1>1
    <3>2. SubSeq(for_stack, 1, i) \in Seq(Addresses)
      BY <3>1, SubSeqProperties
    <3> QED BY <2>1, <3>2, <1>7 DEF FetchNext
  <2>3. CASE i = 0
    <3>1. \E code \in Codes : Refuse(code)
      BY <2>1, <2>3 DEF Codes
    <3> QED BY <2>2, <3>1, TypeFetched
  <2>4. CASE i # 0
    <3> DEFINE b == for_stack[i]
               x == [ExprWork("step", Stmt(b).step) EXCEPT !.callee = b]
               y == [ExprWork("limit", Stmt(b).limit) EXCEPT !.callee = b]
    <3>1. b \in Addresses
      BY <2>1, <2>4, <1>1
    <3>2. Stmt(b).step \in OperandsOf(prog) /\ Stmt(b).limit \in OperandsOf(prog)
      BY <3>1, <1>1, StmtType
    <3>3. x \in WorkItem(prog) /\ x.kind = "step" /\ x.callee = b
      BY <3>1, <3>2, LoopWorkType
    <3>4. y \in WorkItem(prog) /\ y.kind = "limit" /\ y.callee = b
      BY <3>1, <3>2, LoopWorkType
    <3>5. Evaluate(<<x, y>>)
      <4>1. Evaluate(NextWork(b))
        BY <2>1, <2>4
      <4>2. NextWork(b) = <<x, y>>
        BY Zenon DEF NextWork
      <4> QED BY <4>1, <4>2, Zenon
    <3>6. FirstKind(prog, pc) = "step" /\ b # NULL
      <4>1. prog.stmts[pc].op = "next"
        BY <1>7 DEF FetchNext, Stmt
      <4>2. b # NULL
        BY <3>1 DEF Addresses, NULL
      <4> QED BY <4>1, <4>2 DEF FirstKind
    <3> HIDE DEF b, x, y
    <3>7. <<x, y>> \in Seq(WorkItem(prog)) /\ WorkOK(prog, pc, <<x, y>>)
      BY <3>3, <3>4, <3>6 DEF WorkOK
    <3> QED BY <2>2, <3>5, <3>7, TypeFetched
  <2> QED BY <2>3, <2>4
<1> QED BY <1>4, <1>5, <1>6, <1>7

(* Nothing but the outcome or the interrupt flag changes.                  *)
LEMMA TypeEnded ==
  ASSUME TypeInv,
         UNCHANGED <<prog, next, pc, current_line, stmt, phase, status, work,
                     suspended, calls, loops, gosub_stack, return_stack,
                     error_register, error_stmt>>,
         interrupt' \in BOOLEAN, outcome' \in Outcomes
  PROVE  TypeInv'
<1>1. TypeProgram' /\ TypeActivation' /\ TypeStacks'
  BY DEF TypeInv, TypeOK, TypeProgram, TypeActivation, TypeStacks, calls,
         loops, Addresses
<1>2. /\ phase' = "busy" => WorkOK(prog', stmt', work')
      /\ \A i \in 1..Len(suspended') : Waiting(prog', suspended'[i])
  BY DEF TypeInv
<1> QED BY <1>1, <1>2 DEF TypeInv, TypeOK

(* The work of the current statement changes, and perhaps the register.    *)
LEMMA TypeWorked ==
  ASSUME TypeInv, phase = "busy",
         UNCHANGED <<outer, calls, loops, next, pc, current_line, stmt, phase,
                     status, gosub_stack, return_stack, error_stmt>>,
         error_register' \in Register,
         work' \in Seq(WorkItem(prog)), WorkOK(prog, stmt, work')
  PROVE  TypeInv'
<1>1. TypeProgram' /\ TypeStacks'
  BY DEF TypeInv, TypeOK, TypeProgram, TypeStacks, outer, calls, loops, Addresses
<1>2. TypeActivation'
  BY DEF TypeInv, TypeOK, TypeActivation, outer, WorkOK, Addresses
<1>3. \A i \in 1..Len(suspended') : Waiting(prog', suspended'[i])
  BY DEF TypeInv, outer
<1> QED BY <1>1, <1>2, <1>3 DEF TypeInv, TypeOK, outer

(* An error that is set is one of the register.                            *)
LEMMA SetErrorType ==
  ASSUME NEW code \in Codes, NEW line \in Nat, SetError(code, line)
  PROVE  error_register' \in Register
BY DEF SetError, Register

(* Evaluating a leaf or coming to a call of a function keeps the type      *)
(* invariant.                                                              *)
LEMMA TypeEval ==
  ASSUME TypeInv, EvalLeaf \/ EvalFn
  PROVE  TypeInv'
<1> DEFINE w == Top(work)
<1>1. /\ phase = "busy" /\ work \in Seq(WorkItem(prog)) /\ work # <<>>
      /\ WorkOK(prog, stmt, work) /\ w.rest # <<>> /\ IsProgram(prog)
      /\ current_line \in Nat /\ error_register \in Register
  <2>1. Evaluating
    BY DEF EvalLeaf, EvalFn
  <2> QED BY <2>1 DEF Evaluating, TypeInv, TypeOK, TypeProgram, TypeActivation
<1>2. w \in WorkItem(prog)
  BY <1>1, PopNonEmpty
<1>3. Operands \in Operand(Len(prog.calls))
  BY <1>1, <1>2, HeadTailProperties DEF Operands, WorkItem
<1>4. \A ok \in BOOLEAN :
        /\ ReplaceTop(work, Advance(w, ok)) \in Seq(WorkItem(prog))
        /\ WorkOK(prog, stmt, ReplaceTop(work, Advance(w, ok)))
  BY <1>1, WorkReplaceTop
<1>5. CASE EvalLeaf
  <2>1. \E ok \in BOOLEAN : work' = ReplaceTop(work, Advance(w, ok))
    BY <1>5 DEF EvalLeaf
  <2>2. error_register' \in Register
    BY <1>1, <1>5, SetErrorType DEF EvalLeaf, Codes
  <2> HIDE DEF w
  <2>3. work' \in Seq(WorkItem(prog)) /\ WorkOK(prog, stmt, work')
    BY <1>4, <2>1
  <2> QED BY <1>1, <1>5, <2>2, <2>3, TypeWorked DEF EvalLeaf
<1>6. CASE EvalFn
  <2> DEFINE c == prog.calls[Operands.call]
             x == ArgsWork(c.callee, c.args)
  <2>1. /\ c.callee \in 0..Len(prog.stmts) /\ c.args \in OperandsOf(prog)
        /\ c.callee # NULL => prog.stmts[c.callee].op = "deffn"
    BY <1>1, <1>3, <1>6, CallType DEF EvalFn
  <2>2. CASE c.callee = NULL
    <3>1. work' = ReplaceTop(work, Advance(w, FALSE))
      BY <1>6, <2>2 DEF EvalFn
    <3>2. error_register' \in Register
      BY <1>1, <1>6, <2>2, SetErrorType DEF EvalFn, Codes
    <3>3. work' \in Seq(WorkItem(prog)) /\ WorkOK(prog, stmt, work')
      BY <1>4, <3>1
    <3> QED BY <1>1, <1>6, <3>2, <3>3, TypeWorked DEF EvalFn
  <2>3. CASE c.callee # NULL
    <3>1. c.callee \in Addresses
      BY <2>1, <2>3 DEF Addresses, NULL
    <3>2. /\ x \in WorkItem(prog) /\ x.kind = "args" /\ x.callee # NULL
          /\ prog.stmts[x.callee].op = "deffn"
      BY <1>1, <2>1, <2>3, <3>1, ArgsWorkType
    <3>3. work' = Append(work, x) /\ error_register' \in Register
      BY <1>1, <1>6, <2>3 DEF EvalFn
    <3> HIDE DEF x
    <3>4. work' \in Seq(WorkItem(prog)) /\ WorkOK(prog, stmt, work')
      BY <1>1, <3>2, <3>3, WorkAppend
    <3> QED BY <1>1, <1>6, <3>3, <3>4, TypeWorked DEF EvalFn
  <2> QED BY <2>2, <2>3
<1> QED BY <1>5, <1>6

(* The arguments of a call are complete: what the item below them becomes. *)
LEMMA ArgsReadyType ==
  ASSUME TypeInv, ArgsReady
  PROVE  /\ work \in Seq(WorkItem(prog)) /\ Len(work) > 1
         /\ phase = "busy" /\ WorkOK(prog, stmt, work)
         /\ Pop(work) \in Seq(WorkItem(prog))
         /\ WorkOK(prog, stmt, Pop(work))
         /\ Top(Pop(work)).rest # <<>>
         /\ Top(work).callee \in Addresses
         /\ Stmt(Top(work).callee).op = "deffn"
<1>1. work \in Seq(WorkItem(prog)) /\ Len(work) > 1 /\ Top(work).kind = "args"
      /\ WorkOK(prog, stmt, work) /\ work # <<>> /\ phase = "busy"
  BY DEF TypeInv, TypeOK, TypeActivation, ArgsReady
<1>2. /\ Pop(work) \in Seq(WorkItem(prog)) /\ WorkOK(prog, stmt, Pop(work))
      /\ Top(Pop(work)).rest # <<>>
  BY <1>1, WorkPop
<1>3. Top(work) \in WorkItem(prog) /\ Len(work) \in Nat \ {0}
  BY <1>1, PopNonEmpty
<1>4. Top(work).callee # NULL
  BY <1>1, <1>3 DEF WorkOK, Top
<1>5. Top(work).callee \in Addresses
  BY <1>3, <1>4 DEF WorkItem, Addresses, NULL
<1>6. Stmt(Top(work).callee).op = "deffn"
  <2>1. Len(work) \in 2..Len(work) /\ work[Len(work)].kind = "args"
    BY <1>1, <1>3 DEF Top
  <2> QED BY <1>1, <2>1 DEF WorkOK, Top, Stmt
<1> QED BY <1>1, <1>2, <1>5, <1>6

(* Calling a function, or failing to, keeps the type invariant.            *)
LEMMA TypeCalls ==
  ASSUME TypeInv, CallFails \/ CallFn
  PROVE  TypeInv'
<1>1. /\ work \in Seq(WorkItem(prog)) /\ phase = "busy" /\ IsProgram(prog)
      /\ Pop(work) \in Seq(WorkItem(prog)) /\ WorkOK(prog, stmt, Pop(work))
      /\ Top(Pop(work)).rest # <<>> /\ Top(work).callee \in Addresses
  BY ArgsReadyType DEF CallFails, CallFn, TypeInv, TypeOK, TypeProgram
<1>2. current_line \in Nat /\ error_register \in Register
  BY DEF TypeInv, TypeOK, TypeProgram
<1>3. CASE CallFails
  <2> DEFINE w == Pop(work)
  <2>1. work' = ReplaceTop(w, Advance(Top(w), FALSE))
    BY <1>3 DEF CallFails
  <2>2. error_register' \in Register
    BY <1>2, <1>3, SetErrorType DEF CallFails, Codes
  <2> HIDE DEF w
  <2>3. work' \in Seq(WorkItem(prog)) /\ WorkOK(prog, stmt, work')
    BY <1>1, <2>1, WorkReplaceTop DEF w
  <2> QED BY <1>1, <1>3, <2>2, <2>3, TypeWorked DEF CallFails
<1>4. CASE CallFn
  <2> DEFINE c == Top(work).callee
             a == [stmt |-> stmt, work |-> Pop(work)]
  <2>1. /\ stmt \in Addresses /\ pc \in 0..Len(prog.stmts)
        /\ suspended \in Seq(Suspended(prog))
        /\ fn_stack \in Seq(0..Len(prog.stmts)) /\ frames \in Seq(Addresses)
    BY <1>1 DEF TypeInv, TypeOK, TypeProgram, TypeActivation, TypeStacks,
                Addresses, NULL
  <2>2. /\ prog' = prog /\ suspended' = Append(suspended, a) /\ pc' = c
        /\ frames' = Append(frames, c) /\ fn_stack' = Append(fn_stack, pc)
    BY <1>4 DEF CallFn, PushFrame, PushFunction, Caller
  <2>3. a \in Suspended(prog) /\ Waiting(prog, a) /\ a.work # <<>>
    BY <1>1, <2>1 DEF Suspended, Waiting, Addresses, WorkOK
  <2> HIDE DEF a, c
  <2>4. /\ suspended' \in Seq(Suspended(prog))
        /\ Len(suspended') = Len(suspended) + 1
        /\ \A i \in 1..Len(suspended) : suspended'[i] = suspended[i]
        /\ suspended'[Len(suspended) + 1] = a
    BY <2>1, <2>2, <2>3, AppendType
  <2>5. \A i \in 1..Len(suspended') :
          Waiting(prog, suspended'[i]) /\ suspended'[i].work # <<>>
    <3> TAKE i \in 1..Len(suspended')
    <3>1. CASE i = Len(suspended) + 1
      BY <2>3, <2>4, <3>1
    <3>2. CASE i # Len(suspended) + 1
      <4>1. i \in 1..Len(suspended)
        BY <2>1, <2>4, <3>2, LenProperties
      <4> QED BY <2>4, <4>1 DEF TypeInv, TypeOK, TypeActivation
    <3> QED BY <3>1, <3>2
  <2>6. TypeStacks'
    <3>1. fn_stack' \in Seq(0..Len(prog.stmts)) /\ frames' \in Seq(Addresses)
      BY <1>1, <2>1, <2>2, AppendProperties DEF c
    <3> QED BY <1>4, <2>2, <3>1
            DEF CallFn, loops, TypeInv, TypeOK, TypeStacks, Addresses
  <2>7. TypeProgram'
    BY <1>1, <1>4, <2>2 DEF CallFn, c, TypeInv, TypeOK, TypeProgram, Addresses
  <2>8. TypeActivation'
    <3>1. NULL \in 0..Len(prog.stmts) /\ <<>> \in Seq(WorkItem(prog))
      BY <2>1, EmptySeq DEF Addresses, NULL
    <3> QED BY <1>4, <2>2, <2>4, <2>5, <3>1
            DEF CallFn, TypeActivation, Phases, Statuses
  <2> QED BY <1>4, <2>2, <2>5, <2>6, <2>7, <2>8 DEF CallFn, TypeInv, TypeOK
<1> QED BY <1>3, <1>4

(* A handler returns to run_statements.                                    *)
LEMMA TypeCompleted ==
  ASSUME TypeInv, phase = "busy", NEW st \in Statuses, Complete(st),
         TypeStacks',
         error_register' \in Register, pc' \in 0..Len(prog.stmts),
         next' \in [Addresses -> 0..Len(prog.stmts)],
         error_stmt' \in 0..Len(prog.stmts)
  PROVE  TypeInv'
<1>1. /\ prog' = prog /\ suspended' = suspended /\ interrupt' = interrupt
      /\ outcome' = outcome /\ stmt' = stmt /\ current_line' = current_line
      /\ phase' = "done" /\ status' = st /\ work' = <<>>
  BY DEF Complete, outer
<1>2. TypeProgram'
  BY <1>1 DEF TypeInv, TypeOK, TypeProgram, Addresses
<1>3. TypeActivation'
  <2>1. <<>> \in Seq(WorkItem(prog))
    BY EmptySeq
  <2> QED BY <1>1, <2>1 DEF TypeInv, TypeOK, TypeActivation, Phases
<1> QED BY <1>1, <1>2, <1>3 DEF TypeInv, TypeOK

Exec ==
  \/ ExecFails \/ ExecEval \/ ExecIf \/ ExecGoto \/ ExecOn \/ ExecReturn
  \/ ExecProc \/ ExecEndproc \/ ExecFnReturn \/ ExecLocal \/ ExecFor
  \/ ExecNext \/ ExecRepeat \/ ExecUntil \/ ExecOnError \/ ExecEnd

(* A statement is executed when its expressions have been evaluated.       *)
LEMMA ExecReady == Exec => Ready(Ops)
<1> SUFFICES ASSUME Exec PROVE Ready(Ops)
  OBVIOUS
<1>1. ASSUME NEW ops \in SUBSET Ops, Ready(ops) PROVE Ready(Ops)
  BY <1>1 DEF Ready
<1>2. CASE ExecFails \/ ExecEval \/ ExecProc \/ ExecFnReturn \/ ExecNext
  BY <1>1, <1>2
     DEF Ops, ExecFails, ExecEval, ExecProc, ExecFnReturn, ExecNext
<1>3. CASE ExecIf \/ ExecGoto \/ ExecOn
  BY <1>1, <1>3 DEF Ops, ExecIf, ExecGoto, ExecOn, Branching, Succeeds
<1>4. CASE \/ ExecReturn \/ ExecEndproc \/ ExecLocal \/ ExecFor \/ ExecRepeat
           \/ ExecUntil \/ ExecOnError \/ ExecEnd
  BY <1>1, <1>4 DEF Ops, ExecReturn, ExecEndproc, ExecLocal, ExecFor,
                    ExecRepeat, ExecUntil, ExecOnError, ExecEnd, Succeeds
<1> QED BY <1>2, <1>3, <1>4 DEF Exec

(* What the handlers change besides the register.                          *)
LEMMA ReadyType ==
  ASSUME TypeInv, Ready(Ops)
  PROVE  /\ phase = "busy" /\ IsProgram(prog) /\ stmt \in Addresses
         /\ stmt # NULL /\ next[stmt] \in 0..Len(prog.stmts)
         /\ pc \in 0..Len(prog.stmts) /\ next \in [Addresses -> 0..Len(prog.stmts)]
         /\ error_stmt \in 0..Len(prog.stmts)
         /\ current_line \in Nat /\ error_register \in Register
         /\ work[1] \in WorkItem(prog) /\ work[1].kind = FirstKind(prog, stmt)
         /\ work[1].kind # "expr" => work[1].callee \in Addresses
<1>1. /\ phase = "busy" /\ IsProgram(prog) /\ stmt \in Addresses /\ stmt # NULL
      /\ pc \in 0..Len(prog.stmts) /\ next \in [Addresses -> 0..Len(prog.stmts)]
      /\ error_stmt \in 0..Len(prog.stmts)
      /\ current_line \in Nat /\ error_register \in Register
      /\ work \in Seq(WorkItem(prog)) /\ Len(work) = 1
      /\ WorkOK(prog, stmt, work)
  BY DEF Ready, TypeInv, TypeOK, TypeProgram, TypeActivation, Addresses, NULL
<1>2. work[1] \in WorkItem(prog) /\ work[1].kind = FirstKind(prog, stmt)
  BY <1>1 DEF WorkOK
<1>3. work[1].kind # "expr" => work[1].callee \in Addresses
  BY <1>1, <1>2 DEF WorkOK, WorkItem, Addresses, NULL
<1> QED BY <1>1, <1>2, <1>3

(* The stacks of FN and PROC hold addresses.                               *)
LEMMA StackType ==
  ASSUME TypeInv
  PROVE  /\ fn_stack \in Seq(0..Len(prog.stmts))
         /\ proc_stack \in Seq(0..Len(prog.stmts))
         /\ gosub_stack \in Seq(0..Len(prog.stmts))
         /\ for_stack \in Seq(Addresses)
         /\ repeat_stack \in Seq(Addresses)
         /\ return_stack \in Seq(Addresses)
         /\ frames \in Seq(Addresses)
BY DEF TypeInv, TypeOK, TypeStacks

(* A statement that fails sets the register and completes.                 *)
LEMMA FailType ==
  ASSUME TypeInv, NEW code \in Codes, Fail(code)
  PROVE  error_register' \in Register /\ Complete("error")
<1>1. current_line \in Nat
  BY DEF TypeInv, TypeOK, TypeProgram
<1> QED BY <1>1, SetErrorType DEF Fail

(* Completing a statement leaves the program alone.                        *)
LEMMA CompletePreserves ==
  ASSUME NEW st, Complete(st)
  PROVE  prog' = prog /\ Addresses' = Addresses
BY DEF Complete, outer, Addresses

(* Statements without a branch keep the type invariant.                    *)
LEMMA TypeExecSimple ==
  ASSUME TypeInv,
         ExecFails \/ ExecEval \/ ExecLocal \/ ExecEnd
  PROVE  TypeInv'
<1>1. Ready(Ops)
  BY ExecReady DEF Exec
<1>2. \E st \in Statuses : Complete(st) /\ error_register' \in Register
  <2>1. CASE ExecFails
    BY <1>1, <2>1, FailType, ReadyType DEF ExecFails, Statuses, Codes
  <2>2. CASE ExecEval \/ ExecEnd
    BY <1>1, <2>2, ReadyType DEF ExecEval, ExecEnd, Statuses
  <2>3. CASE ExecLocal
    BY <1>1, <2>3, FailType, ReadyType DEF ExecLocal, Statuses, Codes
  <2> QED BY <2>1, <2>2, <2>3
<1>3. UNCHANGED <<calls, loops, next, pc, gosub_stack, return_stack, error_stmt>>
  BY DEF ExecFails, ExecEval, ExecLocal, ExecEnd
<1>4. TypeStacks'
  BY <1>2, <1>3, CompletePreserves
     DEF TypeInv, TypeOK, TypeStacks, calls, loops
<1> QED BY <1>1, <1>2, <1>3, <1>4, ReadyType, TypeCompleted

(* IF, GOTO, GOSUB, ON and RETURN keep the type invariant.                 *)
LEMMA TypeExecBranch ==
  ASSUME TypeInv, ExecIf \/ ExecGoto \/ ExecOn \/ ExecReturn
  PROVE  TypeInv'
<1> DEFINE n == Len(prog.stmts)
<1>1. Ready(Ops)
  BY ExecReady DEF Exec
<1>2. UNCHANGED <<calls, loops, next, return_stack, error_stmt>>
  BY DEF ExecIf, ExecGoto, ExecOn, ExecReturn, Branching
<1>3. /\ phase = "busy" /\ IsProgram(prog) /\ stmt \in Addresses
      /\ next[stmt] \in 0..n /\ pc \in 0..n /\ error_register \in Register
      /\ gosub_stack \in Seq(0..n)
  BY <1>1, ReadyType, StackType
<1>4. /\ Stmt(stmt).sub1 \in 0..n /\ Stmt(stmt).sub2 \in 0..n
      /\ Stmt(stmt).targets \in Seq(0..n)
      /\ Stmt(stmt).op \in {"goto", "gosub"} => Stmt(stmt).targets # <<>>
  BY <1>3, StmtType
<1> DEFINE Good == \E st \in Statuses :
                     /\ Complete(st) /\ error_register' \in Register
                     /\ pc' \in 0..n /\ gosub_stack' \in Seq(0..n)
<1>5. ASSUME NEW a \in 0..n, NEW gosub, BranchTo(a, gosub) PROVE Good
  <2>1. gosub_stack' \in Seq(0..n)
    BY <1>3, <1>5, AppendType DEF BranchTo
  <2> QED BY <1>3, <1>5, <2>1 DEF BranchTo, Statuses
<1>6. ASSUME NEW code \in Codes, Fail(code), UNCHANGED <<pc, gosub_stack>>
      PROVE  Good
  BY <1>3, <1>6, FailType DEF Statuses
<1>7. Good
  <2>1. CASE ExecIf
    <3>1. PICK truth \in BOOLEAN :
            pc' = IF truth THEN Stmt(stmt).sub1
                  ELSE IF Stmt(stmt).sub2 # NULL THEN Stmt(stmt).sub2 ELSE pc
      BY <2>1 DEF ExecIf
    <3>2. pc' \in 0..n
      BY <3>1, <1>3, <1>4
    <3>3. Complete("ok") /\ UNCHANGED <<gosub_stack, error_register>>
      BY <2>1 DEF ExecIf
    <3> QED BY <1>3, <3>2, <3>3 DEF Statuses
  <2>2. CASE ExecGoto
    <3> DEFINE t == Stmt(stmt).targets[1]
    <3>1. t \in 0..n
      <4>1. Stmt(stmt).targets # <<>>
        BY <1>4, <2>2 DEF ExecGoto, Branching, Succeeds, Ready
      <4> QED BY <1>4, <4>1, EmptySeq
    <3>2. CASE t = NULL
      BY <1>6, <2>2, <3>2 DEF ExecGoto, Codes
    <3>3. CASE t # NULL
      BY <1>5, <2>2, <3>1, <3>3 DEF ExecGoto
    <3> QED BY <3>2, <3>3
  <2>3. CASE ExecOn
    <3> DEFINE ts == Stmt(stmt).targets
               Target(i) == IF i = 0 THEN Stmt(stmt).sub1 ELSE ts[i]
    <3>1. PICK i \in 0..Len(ts) :
            IF Target(i) = NULL
              THEN /\ Fail(IF i = 0 THEN "OnRange" ELSE "NoSuchLine")
                   /\ UNCHANGED <<pc, gosub_stack>>
              ELSE BranchTo(Target(i), Stmt(stmt).op = "ongosub")
      BY <2>3 DEF ExecOn
    <3>2. Target(i) \in 0..n
      BY <1>4
    <3> HIDE DEF Target
    <3>3. CASE Target(i) = NULL
      BY <1>6, <3>1, <3>3 DEF Codes
    <3>4. CASE Target(i) # NULL
      BY <1>5, <3>1, <3>2, <3>4
    <3> QED BY <3>3, <3>4
  <2>4. CASE ExecReturn
    <3>1. CASE gosub_stack = <<>>
      BY <1>6, <2>4, <3>1 DEF ExecReturn, Codes
    <3>2. CASE gosub_stack # <<>>
      <4>1. Top(gosub_stack) \in 0..n /\ Pop(gosub_stack) \in Seq(0..n)
        BY <1>3, <3>2, PopNonEmpty
      <4> QED BY <1>3, <2>4, <3>2, <4>1 DEF ExecReturn, Statuses
    <3> QED BY <3>1, <3>2
  <2> QED BY <2>1, <2>2, <2>3, <2>4
<1>8. TypeStacks'
  BY <1>2, <1>7, CompletePreserves
     DEF TypeInv, TypeOK, TypeStacks, calls, loops
<1> QED BY <1>1, <1>2, <1>7, <1>8, ReadyType, TypeCompleted

(* PROC, ENDPROC and the return of a function keep the type invariant.     *)
LEMMA TypeExecCall ==
  ASSUME TypeInv, ExecProc \/ ExecEndproc \/ ExecFnReturn
  PROVE  TypeInv'
<1> DEFINE n == Len(prog.stmts)
<1>1. Ready(Ops)
  BY ExecReady DEF Exec
<1>2. UNCHANGED <<loops, next, gosub_stack, error_stmt>>
  BY DEF ExecProc, ExecEndproc, ExecFnReturn
<1>3. /\ phase = "busy" /\ IsProgram(prog) /\ stmt \in Addresses
      /\ next[stmt] \in 0..n /\ pc \in 0..n /\ error_register \in Register
      /\ fn_stack \in Seq(0..n) /\ proc_stack \in Seq(0..n)
      /\ frames \in Seq(Addresses) /\ return_stack \in Seq(Addresses)
  BY <1>1, ReadyType, StackType
<1> DEFINE Good == \E st \in Statuses :
                     /\ Complete(st) /\ error_register' \in Register
                     /\ pc' \in 0..n /\ frames' \in Seq(Addresses)
                     /\ fn_stack' \in Seq(0..n) /\ proc_stack' \in Seq(0..n)
                     /\ return_stack' \in Seq(Addresses)
<1>4. Addresses \subseteq 0..n
  BY DEF Addresses
<1>5. CASE ExecProc
  <2> DEFINE c == work[1].callee
  <2>1. UNCHANGED <<fn_stack, return_stack>>
    BY <1>5 DEF ExecProc
  <2>2. ASSUME BoundWith(work[1]) PROVE Good
    <3>1. work[1].kind = "args"
      <4>1. FirstKind(prog, stmt) = "args"
        BY <1>5 DEF ExecProc, Ready, FirstKind, Stmt
      <4> QED BY <4>1, <1>1, ReadyType
    <3>2. c \in Addresses
      BY <3>1, <1>1, ReadyType
    <3>3. /\ frames' = Append(frames, c) /\ pc' = c
          /\ proc_stack' = Append(proc_stack, next[stmt])
          /\ Complete("ok") /\ UNCHANGED error_register
      BY <1>5, <2>2 DEF ExecProc, PushFrame
    <3> HIDE DEF c
    <3>4. frames' \in Seq(Addresses) /\ proc_stack' \in Seq(0..n)
      BY <1>3, <3>2, <3>3, AppendType
    <3> QED BY <1>3, <1>4, <2>1, <3>2, <3>3, <3>4 DEF Statuses
  <2>3. ASSUME ~BoundWith(work[1]) PROVE Good
    <3>1. UNCHANGED <<frames, proc_stack, pc>>
      BY <1>5, <2>3 DEF ExecProc
    <3>2. Complete("error") /\ error_register' \in Register
      BY <1>3, <1>5, <2>3, FailType DEF ExecProc, Codes
    <3> QED BY <1>3, <2>1, <3>1, <3>2 DEF Statuses
  <2>4. Good
    BY <2>2, <2>3
  <2>5. TypeStacks'
    BY <1>2, <2>4, CompletePreserves
       DEF TypeInv, TypeOK, TypeStacks, loops
  <2> QED BY <1>1, <1>2, <2>4, <2>5, ReadyType, TypeCompleted
<1>6. CASE ExecEndproc
  <2>1. Good
    <3>1. UNCHANGED <<fn_stack, return_stack>>
      BY <1>6 DEF ExecEndproc
    <3>2. CASE proc_stack = <<>>
      <4>1. Fail("NoProc") /\ UNCHANGED <<pc, proc_stack, frames>>
        BY <1>6, <3>2 DEF ExecEndproc
      <4>2. Complete("error") /\ error_register' \in Register
        BY <4>1, FailType DEF Codes
      <4> QED BY <1>3, <3>1, <4>1, <4>2 DEF Statuses
    <3>3. CASE proc_stack # <<>>
      <4>1. /\ frames # <<>> /\ frames' = Pop(frames) /\ pc' = Top(proc_stack)
            /\ proc_stack' = Pop(proc_stack) /\ Complete("ok")
            /\ UNCHANGED error_register
        BY <1>6, <3>3 DEF ExecEndproc, PopFrame
      <4>2. /\ frames' \in Seq(Addresses) /\ proc_stack' \in Seq(0..n)
            /\ pc' \in 0..n
        BY <1>3, <3>3, <4>1, PopNonEmpty
      <4> QED BY <1>3, <3>1, <4>1, <4>2 DEF Statuses
    <3> QED BY <3>2, <3>3
  <2>2. TypeStacks'
    BY <1>2, <2>1, CompletePreserves DEF TypeInv, TypeOK, TypeStacks, loops
  <2> QED BY <1>1, <1>2, <2>1, <2>2, ReadyType, TypeCompleted
<1>7. CASE ExecFnReturn
  <2>1. /\ frames # <<>> /\ fn_stack # <<>> /\ frames' = Pop(frames)
        /\ pc' = Top(fn_stack) /\ fn_stack' = Pop(fn_stack)
        /\ UNCHANGED <<proc_stack, error_register>>
        /\ \/ UNCHANGED return_stack /\ Complete("error")
           \/ return_stack' = Append(return_stack, stmt) /\ Complete("exit")
    BY <1>7 DEF ExecFnReturn, PopFrame
  <2>2. /\ frames' \in Seq(Addresses) /\ fn_stack' \in Seq(0..n)
        /\ pc' \in 0..n
    BY <1>3, <2>1, PopNonEmpty
  <2>3. return_stack' \in Seq(Addresses)
    <3>1. Append(return_stack, stmt) \in Seq(Addresses)
      BY <1>3, AppendType
    <3> QED BY <1>3, <2>1, <3>1
  <2>4. Good
    BY <1>3, <2>1, <2>2, <2>3 DEF Statuses
  <2>5. TypeStacks'
    BY <1>2, <2>4, CompletePreserves DEF TypeInv, TypeOK, TypeStacks, loops
  <2> QED BY <1>1, <1>2, <2>4, <2>5, ReadyType, TypeCompleted
<1> QED BY <1>5, <1>6, <1>7

(* The statements of loops keep the type invariant.                        *)
LEMMA TypeExecLoop ==
  ASSUME TypeInv, ExecFor \/ ExecNext \/ ExecRepeat \/ ExecUntil
  PROVE  TypeInv'
<1> DEFINE n == Len(prog.stmts)
<1>1. Ready(Ops)
  BY ExecReady DEF Exec
<1>2. UNCHANGED <<calls, next, gosub_stack, return_stack, error_stmt>>
  BY DEF ExecFor, ExecNext, ExecRepeat, ExecUntil
<1>3. /\ phase = "busy" /\ IsProgram(prog) /\ stmt \in Addresses
      /\ next \in [Addresses -> 0..n] /\ pc \in 0..n
      /\ error_register \in Register
      /\ for_stack \in Seq(Addresses) /\ repeat_stack \in Seq(Addresses)
      /\ Stmt(stmt).sub1 \in 0..n
  BY <1>1, ReadyType, StackType, StmtType
<1>4. Addresses \subseteq 0..n
  BY DEF Addresses
<1> DEFINE Good == \E st \in Statuses :
                     /\ Complete(st) /\ error_register' \in Register
                     /\ pc' \in 0..n /\ for_stack' \in Seq(Addresses)
                     /\ repeat_stack' \in Seq(Addresses)
<1>5. ASSUME NEW code \in Codes, Fail(code), UNCHANGED <<pc, loops>>
      PROVE  Good
  BY <1>3, <1>5, FailType DEF Statuses, loops
<1>6. Good
  <2>1. CASE ExecFor
    <3>1. /\ for_stack' = Append(for_stack, stmt) /\ Complete("ok")
          /\ UNCHANGED <<pc, repeat_stack, error_register>>
      BY <2>1 DEF ExecFor
    <3>2. for_stack' \in Seq(Addresses)
      BY <1>3, <3>1, AppendType
    <3> QED BY <1>3, <3>1, <3>2 DEF Statuses
  <2>2. CASE ExecNext
    <3> DEFINE b == work[1].callee
    <3>1. UNCHANGED repeat_stack
      BY <2>2 DEF ExecNext
    <3>2. \/ \E code \in Codes : Fail(code) /\ UNCHANGED <<pc, for_stack>>
          \/ /\ Complete("ok") /\ pc' = next[b]
             /\ UNCHANGED <<for_stack, error_register>>
          \/ /\ Complete("ok") /\ for_stack # <<>>
             /\ for_stack' = Pop(for_stack) /\ UNCHANGED <<pc, error_register>>
      BY <2>2 DEF ExecNext, Codes
    <3>3. b \in Addresses
      <4>1. FirstKind(prog, stmt) = "step"
        BY <2>2 DEF ExecNext, Ready, FirstKind, Stmt
      <4> QED BY <4>1, <1>1, ReadyType
    <3>4. next[b] \in 0..n
      BY <1>3, <3>3
    <3>5. for_stack # <<>> => Pop(for_stack) \in Seq(Addresses)
      BY <1>3, PopNonEmpty
    <3> HIDE DEF b
    <3> QED BY <1>3, <1>5, <3>1, <3>2, <3>4, <3>5 DEF Statuses, loops
  <2>3. CASE ExecRepeat
    <3>1. /\ \/ repeat_stack' = Append(repeat_stack, stmt)
             \/ repeat_stack' = repeat_stack
          /\ pc' \in {Stmt(stmt).sub1, pc} /\ Complete("ok")
          /\ UNCHANGED <<for_stack, error_register>>
      BY <2>3 DEF ExecRepeat, PushRepeat
    <3>2. repeat_stack' \in Seq(Addresses)
      <4>1. Append(repeat_stack, stmt) \in Seq(Addresses)
        BY <1>3, AppendType
      <4> QED BY <1>3, <3>1, <4>1
    <3> QED BY <1>3, <3>1, <3>2 DEF Statuses
  <2>4. CASE ExecUntil
    <3>1. UNCHANGED for_stack
      BY <2>4 DEF ExecUntil
    <3>2. \/ Fail("NoRepeat") /\ UNCHANGED <<pc, repeat_stack>>
          \/ /\ repeat_stack # <<>> /\ Complete("ok") /\ UNCHANGED error_register
             /\ \/ repeat_stack' = Pop(repeat_stack) /\ UNCHANGED pc
                \/ pc' = Top(repeat_stack) /\ UNCHANGED repeat_stack
      BY <2>4 DEF ExecUntil
    <3>3. repeat_stack # <<>> =>
            Pop(repeat_stack) \in Seq(Addresses) /\ Top(repeat_stack) \in 0..n
      BY <1>3, <1>4, PopNonEmpty
    <3>4. CASE Fail("NoRepeat") /\ UNCHANGED <<pc, repeat_stack>>
      BY <1>5, <3>1, <3>4 DEF loops, Codes
    <3>5. CASE ~(Fail("NoRepeat") /\ UNCHANGED <<pc, repeat_stack>>)
      BY <1>3, <3>1, <3>2, <3>3, <3>5 DEF Statuses
    <3> QED BY <3>4, <3>5
  <2> QED BY <2>1, <2>2, <2>3, <2>4
<1>7. TypeStacks'
  BY <1>2, <1>6, CompletePreserves DEF TypeInv, TypeOK, TypeStacks, calls
<1> QED BY <1>1, <1>2, <1>6, <1>7, ReadyType, TypeCompleted

(* The links of an ON ERROR handler are addresses.                         *)
LEMMA LinksType ==
  ASSUME TypeInv
  PROVE  /\ Unlinked \in [Addresses -> 0..Len(prog.stmts)]
         /\ \A h \in Addresses : stmt \in Addresses =>
              Relinked(h) \in [Addresses -> 0..Len(prog.stmts)]
<1>1. /\ next \in [Addresses -> 0..Len(prog.stmts)]
      /\ Len(prog.stmts) \in Nat
  <2>1. prog.stmts \in Seq(Statement(Len(prog.stmts), Len(prog.calls)))
    BY DEF TypeInv, TypeOK, TypeProgram, IsProgram
  <2> QED BY <2>1 DEF TypeInv, TypeOK, TypeProgram
<1>2. Unlinked \in [Addresses -> 0..Len(prog.stmts)]
  <2>1. 0 \in 0..Len(prog.stmts)
    BY <1>1
  <2> QED BY <1>1, <2>1 DEF Unlinked, NULL
<1> QED BY <1>1, <1>2 DEF Relinked

(* ON ERROR keeps the type invariant.                                      *)
LEMMA TypeExecOnError ==
  ASSUME TypeInv, ExecOnError
  PROVE  TypeInv'
<1> DEFINE n == Len(prog.stmts)
           h == Stmt(stmt).sub1
<1>1. Ready(Ops)
  BY ExecReady DEF Exec
<1>2. /\ phase = "busy" /\ stmt \in Addresses /\ pc \in 0..n /\ h \in 0..n
      /\ error_register \in Register
  BY <1>1, ReadyType, StmtType
<1>3. /\ error_stmt' = h /\ next' = IF h = NULL THEN Unlinked ELSE Relinked(h)
      /\ Complete("ok")
      /\ UNCHANGED <<calls, loops, pc, gosub_stack, return_stack,
                     error_register>>
  BY DEF ExecOnError
<1>4. next' \in [Addresses -> 0..n]
  <2>1. CASE h = NULL
    BY <1>3, <2>1, LinksType
  <2>2. CASE h # NULL
    <3>1. h \in Addresses
      BY <1>2, <2>2 DEF Addresses, NULL
    <3> QED BY <1>2, <1>3, <2>2, <3>1, LinksType
  <2> QED BY <2>1, <2>2
<1>5. TypeStacks'
  BY <1>3, CompletePreserves DEF TypeInv, TypeOK, TypeStacks, calls, loops
<1> QED BY <1>2, <1>3, <1>4, <1>5, TypeCompleted DEF Statuses

(* The second test of a NEXT keeps the type invariant.                     *)
LEMMA TypeNextLimit ==
  ASSUME TypeInv, NextLimit
  PROVE  TypeInv'
<1>1. /\ phase = "busy" /\ Len(work) = 2
      /\ work \in Seq(WorkItem(prog)) /\ WorkOK(prog, stmt, work)
      /\ UNCHANGED <<calls, loops, next, pc, gosub_stack, return_stack,
                     error_register, error_stmt>>
  BY DEF NextLimit, TypeInv, TypeOK, TypeActivation
<1>2. /\ error_register \in Register /\ pc \in 0..Len(prog.stmts)
      /\ next \in [Addresses -> 0..Len(prog.stmts)]
      /\ error_stmt \in 0..Len(prog.stmts)
  BY DEF TypeInv, TypeOK, TypeProgram
<1>3. CASE Top(work).failed
  <2>1. Complete("error")
    BY <1>3 DEF NextLimit
  <2>2. TypeStacks'
    BY <1>1, <2>1, CompletePreserves
       DEF TypeInv, TypeOK, TypeStacks, calls, loops
  <2> QED BY <1>1, <1>2, <2>1, <2>2, TypeCompleted DEF Statuses
<1>4. CASE ~Top(work).failed
  <2>1. /\ work' = Pop(work)
        /\ UNCHANGED <<outer, stmt, phase, status, current_line>>
    BY <1>4 DEF NextLimit
  <2>2. work' \in Seq(WorkItem(prog)) /\ WorkOK(prog, stmt, work')
    BY <1>1, <2>1, WorkPop
  <2> QED BY <1>1, <1>2, <2>1, <2>2, TypeWorked
<1> QED BY <1>3, <1>4

(* Ending the process keeps the type invariant.                            *)
LEMMA TypeAborts ==
  ASSUME TypeInv, NEW reason \in Outcomes, Abort(reason)
  PROVE  TypeInv'
<1>1. interrupt' \in BOOLEAN /\ outcome' \in Outcomes
  BY DEF Abort, TypeInv, TypeOK, TypeProgram
<1> QED BY <1>1, TypeEnded DEF Abort

(* Whatever ends the process or interrupts it keeps the type invariant.    *)
LEMMA TypeStops ==
  ASSUME TypeInv,
         FrameUnderflow \/ NextAborts \/ MemoryExhausted \/ Signal \/ Stopped
  PROVE  TypeInv'
<1>1. interrupt \in BOOLEAN /\ outcome \in Outcomes
  BY DEF TypeInv, TypeOK, TypeProgram
<1>2. CASE FrameUnderflow \/ NextAborts
  <2>1. \E reason \in Outcomes : Abort(reason)
    BY <1>2 DEF FrameUnderflow, NextAborts, Outcomes
  <2> QED BY <2>1, TypeAborts
<1>3. CASE MemoryExhausted
  BY <1>1, <1>3, TypeEnded DEF MemoryExhausted, Outcomes
<1>4. CASE Signal
  BY <1>1, <1>4, TypeEnded DEF Signal
<1>5. CASE Stopped
  BY <1>1, <1>5, TypeEnded DEF Stopped, vars, calls, loops
<1> QED BY <1>2, <1>3, <1>4, <1>5

(* Going on with the run loop, or to the handler, keeps the type           *)
(* invariant.                                                              *)
LEMMA TypeLoopBack ==
  ASSUME TypeInv, CatchError \/ Continue
  PROVE  TypeInv'
<1>1. /\ UNCHANGED <<outer, next, current_line, status, work, calls, loops,
                     gosub_stack, return_stack, error_stmt>>
      /\ stmt' = NULL /\ phase' = "idle"
  BY DEF CatchError, Continue
<1>2. pc' \in 0..Len(prog.stmts) /\ error_register' \in Register
  <2>1. /\ pc \in 0..Len(prog.stmts) /\ error_stmt \in 0..Len(prog.stmts)
        /\ error_register \in Register
    BY DEF TypeInv, TypeOK, TypeProgram
  <2>2. CASE CatchError
    <3>1. [error_register EXCEPT !.code = "none", !.line = 0] \in Register
      BY <2>1 DEF Register, Codes
    <3> QED BY <2>1, <2>2, <3>1 DEF CatchError
  <2>3. CASE Continue
    BY <2>1, <2>3 DEF Continue
  <2> QED BY <2>2, <2>3
<1>3. TypeProgram' /\ TypeStacks'
  BY <1>1, <1>2 DEF outer, calls, loops, TypeInv, TypeOK, TypeProgram,
                    TypeStacks, Addresses
<1>4. TypeActivation'
  <2>1. NULL \in 0..Len(prog.stmts)
    <3>1. prog.stmts \in Seq(Statement(Len(prog.stmts), Len(prog.calls)))
      BY DEF TypeInv, TypeOK, TypeProgram, IsProgram
    <3> QED BY <3>1 DEF NULL
  <2> QED BY <1>1, <2>1 DEF outer, TypeInv, TypeOK, TypeActivation, Phases
<1> QED BY <1>1, <1>3, <1>4 DEF outer, TypeInv, TypeOK

(* The end of the program keeps the type invariant.                        *)
LEMMA TypeEndProgram ==
  ASSUME TypeInv, phase # "busy", NEW st, NEW register \in Register,
         EndProgram(st, register)
  PROVE  TypeInv'
<1>1. /\ outcome' \in Outcomes /\ error_register' = register
      /\ error_stmt' = NULL /\ next' = Unlinked
      /\ UNCHANGED <<prog, pc, current_line, stmt, phase, status, work,
                     suspended, interrupt>>
  BY DEF EndProgram, Outcome, Outcomes
<1>2. TypeStacks'
  BY EmptySeq DEF EndProgram, TypeStacks
<1>3. TypeProgram'
  <2>1. 0 \in 0..Len(prog.stmts)
    <3>1. prog.stmts \in Seq(Statement(Len(prog.stmts), Len(prog.calls)))
      BY DEF TypeInv, TypeOK, TypeProgram, IsProgram
    <3> QED BY <3>1
  <2>2. next' \in [Addresses -> 0..Len(prog.stmts)]
    BY <1>1, LinksType
  <2> QED BY <1>1, <2>1, <2>2
          DEF TypeInv, TypeOK, TypeProgram, Addresses, NULL
<1>4. TypeActivation'
  BY <1>1 DEF TypeInv, TypeOK, TypeActivation
<1> QED BY <1>1, <1>2, <1>3, <1>4 DEF TypeInv, TypeOK

(* Going back to a suspended evaluation keeps the type invariant.          *)
LEMMA TypeResume ==
  ASSUME TypeInv, NEW st, NEW register \in Register, Resume(st, register)
  PROVE  TypeInv'
<1> DEFINE caller == Top(suspended)
           value  == st = "exit"
<1>1. /\ suspended # <<>> /\ suspended \in Seq(Suspended(prog))
      /\ return_stack \in Seq(Addresses)
  BY StackType DEF Resume, TypeInv, TypeOK, TypeActivation
<1>2. /\ caller \in Suspended(prog) /\ Waiting(prog, caller)
      /\ Pop(suspended) \in Seq(Suspended(prog))
      /\ Len(Pop(suspended)) = Len(suspended) - 1
      /\ \A i \in 1..Len(Pop(suspended)) : Pop(suspended)[i] = suspended[i]
      /\ Len(suspended) \in Nat
  <2>1. Len(suspended) \in 1..Len(suspended)
    BY <1>1, PopNonEmpty
  <2>2. Waiting(prog, suspended[Len(suspended)])
    BY <2>1 DEF TypeInv
  <2> QED BY <1>1, <2>2, PopNonEmpty DEF Top
<1>3. /\ prog' = prog /\ interrupt' = interrupt /\ outcome' = outcome
      /\ suspended' = Pop(suspended) /\ stmt' = caller.stmt
      /\ phase' = "busy" /\ status' = "unset"
      /\ work' = ReplaceTop(caller.work, Advance(Top(caller.work), value))
      /\ return_stack' = IF value THEN Pop(return_stack) ELSE return_stack
      /\ value => return_stack # <<>>
      /\ error_register' = register
      /\ UNCHANGED <<next, pc, current_line, calls, loops, gosub_stack,
                     error_stmt>>
  BY DEF Resume, TakeValue
<1> HIDE DEF value
<1>4. value \in BOOLEAN
  BY DEF value
<1>5. /\ caller.stmt \in 1..Len(prog.stmts)
      /\ caller.work \in Seq(WorkItem(prog)) /\ caller.work # <<>>
      /\ WorkOK(prog, caller.stmt, caller.work)
      /\ Top(caller.work).rest # <<>>
  BY <1>2 DEF Suspended, Waiting, WorkOK
<1> HIDE DEF caller
<1>6. work' \in Seq(WorkItem(prog)) /\ WorkOK(prog, stmt', work')
  BY <1>3, <1>4, <1>5, WorkReplaceTop
<1>7. \A i \in 1..Len(suspended') :
        Waiting(prog, suspended'[i]) /\ suspended'[i].work # <<>>
  <2> TAKE i \in 1..Len(suspended')
  <2>1. i \in 1..Len(suspended) /\ suspended'[i] = suspended[i]
    BY <1>2, <1>3
  <2> QED BY <2>1 DEF TypeInv, TypeOK, TypeActivation
<1>8. TypeStacks'
  <2>1. return_stack' \in Seq(Addresses)
    BY <1>1, <1>3, PopNonEmpty
  <2> QED BY <1>3, <2>1 DEF calls, loops, TypeInv, TypeOK, TypeStacks, Addresses
<1>9. TypeProgram'
  BY <1>3 DEF TypeInv, TypeOK, TypeProgram, Addresses
<1>10. TypeActivation'
  BY <1>2, <1>3, <1>5, <1>6, <1>7
     DEF TypeActivation, Phases, Statuses, NULL, WorkOK
<1> QED BY <1>3, <1>6, <1>7, <1>8, <1>9, <1>10 DEF TypeInv, TypeOK

(* The error of Ctrl-C is one of the register.                             *)
LEMMA EscapeType == TypeInv => Escape \in Register
BY DEF Escape, Register, Codes, TypeInv, TypeOK, TypeProgram

(* Leaving the run loop keeps the type invariant.                          *)
LEMMA TypeLeave ==
  ASSUME TypeInv, BreakInterrupted \/ BreakStatus \/ RunOff
  PROVE  TypeInv'
<1>1. \E st, register : register \in Register /\ Leave(st, register)
  BY EscapeType DEF BreakInterrupted, BreakStatus, RunOff, TypeInv, TypeOK,
                    TypeProgram
<1>2. PICK st, register : register \in Register /\ Leave(st, register)
  BY <1>1
<1>3. phase # "busy"
  BY DEF BreakInterrupted, BreakStatus, RunOff, Inspecting
<1>4. "abort: runtime stack empty" \in Outcomes
  BY DEF Outcomes
<1> QED BY <1>2, <1>3, <1>4, TypeEndProgram, TypeResume, TypeAborts
        DEF Leave, NoValue

(* Every step keeps the type invariant.                                    *)
LEMMA TypeStep == TypeInv /\ [Next]_vars => TypeInv'
<1> SUFFICES ASSUME TypeInv, [Next]_vars PROVE TypeInv'
  OBVIOUS
<1>1. CASE FetchStatement \/ FetchProc \/ FetchFnReturn \/ FetchNext
  BY <1>1, TypeFetch
<1>2. CASE EvalLeaf \/ EvalFn
  BY <1>2, TypeEval
<1>3. CASE CallFails \/ CallFn
  BY <1>3, TypeCalls
<1>4. CASE ExecFails \/ ExecEval \/ ExecLocal \/ ExecEnd
  BY <1>4, TypeExecSimple
<1>5. CASE ExecIf \/ ExecGoto \/ ExecOn \/ ExecReturn
  BY <1>5, TypeExecBranch
<1>6. CASE ExecProc \/ ExecEndproc \/ ExecFnReturn
  BY <1>6, TypeExecCall
<1>7. CASE ExecFor \/ ExecNext \/ ExecRepeat \/ ExecUntil
  BY <1>7, TypeExecLoop
<1>8. CASE NextLimit
  BY <1>8, TypeNextLimit
<1>9. CASE ExecOnError
  BY <1>9, TypeExecOnError
<1>10. CASE \/ FrameUnderflow \/ NextAborts \/ MemoryExhausted \/ Signal
            \/ Stopped
  BY <1>10, TypeStops
<1>11. CASE CatchError \/ Continue
  BY <1>11, TypeLoopBack
<1>12. CASE BreakInterrupted \/ BreakStatus \/ RunOff
  BY <1>12, TypeLeave
<1>13. CASE UNCHANGED vars
  BY <1>13, TypeStops, TypeEnded
     DEF vars, calls, loops, TypeInv, TypeOK, TypeProgram
<1> QED BY <1>1, <1>2, <1>3, <1>4, <1>5, <1>6, <1>7, <1>8, <1>9, <1>10,
           <1>11, <1>12, <1>13 DEF Next, Step

(* In every state of every program each variable has the type of the C     *)
(* object it stands for: no handler reads a null statement, an empty list  *)
(* of work or a return address outside the program.                        *)
THEOREM TypeCorrect == Spec => []TypeOK
<1>1. Init => TypeInv
  BY TypeInit
<1>2. TypeInv /\ [Next]_vars => TypeInv'
  BY TypeStep
<1>3. TypeInv => TypeOK
  BY DEF TypeInv
<1> QED BY <1>1, <1>2, <1>3, PTL DEF Spec

-----------------------------------------------------------------------------
(* Frames and return addresses.                                            *)

(* The four actions that move them; every other one leaves them alone or   *)
(* ends the program.                                                       *)
CallOrReturn == CallFn \/ ExecProc \/ ExecEndproc \/ ExecFnReturn

(* What changes the calls is a call, a return, or the end.                 *)
LEMMA CallKinds ==
  ASSUME [Next]_vars
  PROVE  CallOrReturn \/ outcome' # "running" \/ UNCHANGED <<outcome, calls>>
<1>1. CASE FetchStatement \/ FetchProc \/ FetchFnReturn \/ FetchNext
  BY <1>1 DEF FetchStatement, FetchProc, FetchFnReturn, FetchNext, Fetch
<1>2. CASE EvalLeaf \/ EvalFn \/ CallFails
  BY <1>2 DEF EvalLeaf, EvalFn, CallFails, outer
<1>3. CASE ExecFails \/ ExecEval \/ ExecLocal \/ ExecEnd
  BY <1>3 DEF ExecFails, ExecEval, ExecLocal, ExecEnd, Fail, Complete, outer
<1>4. CASE ExecIf \/ ExecGoto \/ ExecOn
  <2>1. UNCHANGED calls
    BY <1>4 DEF ExecIf, ExecGoto, ExecOn, Branching
  <2>2. \E st : Complete(st)
    BY <1>4 DEF ExecIf, ExecGoto, ExecOn, BranchTo, Fail
  <2> QED BY <2>1, <2>2 DEF Complete, outer
<1>5. CASE \/ ExecReturn \/ ExecFor \/ ExecNext \/ ExecRepeat \/ ExecUntil
           \/ ExecOnError
  <2>1. UNCHANGED calls
    BY <1>5 DEF ExecReturn, ExecFor, ExecNext, ExecRepeat, ExecUntil,
                ExecOnError
  <2>2. \E st : Complete(st)
    BY <1>5 DEF ExecReturn, ExecFor, ExecNext, ExecRepeat, ExecUntil,
                ExecOnError, Fail
  <2> QED BY <2>1, <2>2 DEF Complete, outer
<1>6. CASE NextLimit
  BY <1>6 DEF NextLimit, Complete, outer
<1>7. CASE FrameUnderflow \/ NextAborts \/ MemoryExhausted \/ Signal \/ Stopped
  BY <1>7 DEF FrameUnderflow, NextAborts, MemoryExhausted, Signal, Stopped,
              Abort, vars, calls
<1>8. CASE CatchError \/ Continue
  BY <1>8 DEF CatchError, Continue, outer
<1>9. CASE BreakInterrupted \/ BreakStatus \/ RunOff
  <2>1. \E st, register : Leave(st, register)
    BY <1>9 DEF BreakInterrupted, BreakStatus, RunOff
  <2> QED BY <2>1 DEF Leave, EndProgram, Outcome, Resume, NoValue, Abort
<1>10. CASE UNCHANGED vars
  BY <1>10 DEF vars, calls
<1> QED BY <1>1, <1>2, <1>3, <1>4, <1>5, <1>6, <1>7, <1>8, <1>9, <1>10
        DEF Next, Step, CallOrReturn

(* There is no frame when the program starts.                              *)
LEMMA FrameInit == Init => FrameBalance
BY EmptySeq DEF Init, FrameBalance

(* Every step keeps as many frames as there are calls to FN and PROC.      *)
LEMMA FrameStep == TypeInv /\ FrameBalance /\ [Next]_vars => FrameBalance'
<1> SUFFICES ASSUME TypeInv, FrameBalance, [Next]_vars, outcome' = "running"
             PROVE  Len(frames') = Len(fn_stack') + Len(proc_stack')
  BY DEF FrameBalance
<1> DEFINE n == Len(prog.stmts)
<1>1. /\ frames \in Seq(Addresses) /\ fn_stack \in Seq(0..n)
      /\ proc_stack \in Seq(0..n)
  BY StackType
<1>2. Len(frames) \in Nat /\ Len(fn_stack) \in Nat /\ Len(proc_stack) \in Nat
  BY <1>1
<1>3. CASE UNCHANGED <<outcome, calls>>
  BY <1>3 DEF FrameBalance, calls
<1>4. CASE CallFn
  <2> DEFINE c == Top(work).callee
  <2>1. /\ frames' = Append(frames, c) /\ fn_stack' = Append(fn_stack, pc)
        /\ UNCHANGED proc_stack /\ outcome = "running"
    BY <1>4 DEF CallFn, PushFrame, PushFunction, ArgsReady
  <2>2. c \in Addresses /\ pc \in 0..n
    BY <1>4, ArgsReadyType DEF CallFn, TypeInv, TypeOK, TypeProgram
  <2> HIDE DEF c
  <2>3. Len(frames') = Len(frames) + 1 /\ Len(fn_stack') = Len(fn_stack) + 1
    BY <1>1, <2>1, <2>2, AppendType
  <2> QED BY <1>2, <2>1, <2>3 DEF FrameBalance
<1>5. CASE ExecProc
  <2> DEFINE c == work[1].callee
  <2>1. Ready(Ops) /\ outcome = "running" /\ UNCHANGED fn_stack
    BY <1>5, ExecReady DEF Exec, ExecProc, Ready
  <2>2. CASE BoundWith(work[1])
    <3>1. /\ frames' = Append(frames, c)
          /\ proc_stack' = Append(proc_stack, next[stmt])
      BY <1>5, <2>2 DEF ExecProc, PushFrame
    <3>2. c \in Addresses /\ next[stmt] \in 0..n
      <4>1. FirstKind(prog, stmt) = "args"
        BY <1>5 DEF ExecProc, Ready, FirstKind, Stmt
      <4> QED BY <4>1, <2>1, ReadyType
    <3> HIDE DEF c
    <3>3. /\ Len(frames') = Len(frames) + 1
          /\ Len(proc_stack') = Len(proc_stack) + 1
      BY <1>1, <3>1, <3>2, AppendType
    <3> QED BY <1>2, <2>1, <3>3 DEF FrameBalance
  <2>3. CASE ~BoundWith(work[1])
    <3>1. UNCHANGED <<frames, proc_stack>>
      BY <1>5, <2>3 DEF ExecProc
    <3> QED BY <2>1, <3>1 DEF FrameBalance
  <2> QED BY <2>2, <2>3
<1>6. CASE ExecEndproc
  <2>1. outcome = "running" /\ UNCHANGED fn_stack
    BY <1>6 DEF ExecEndproc, Succeeds, Ready
  <2>2. CASE proc_stack = <<>>
    <3>1. UNCHANGED <<frames, proc_stack>>
      BY <1>6, <2>2 DEF ExecEndproc
    <3> QED BY <2>1, <3>1 DEF FrameBalance
  <2>3. CASE proc_stack # <<>>
    <3>1. frames # <<>> /\ frames' = Pop(frames) /\ proc_stack' = Pop(proc_stack)
      BY <1>6, <2>3 DEF ExecEndproc, PopFrame
    <3>2. /\ Len(frames') = Len(frames) - 1
          /\ Len(proc_stack') = Len(proc_stack) - 1
      BY <1>1, <2>3, <3>1, PopNonEmpty
    <3> QED BY <1>2, <2>1, <3>2 DEF FrameBalance
  <2> QED BY <2>2, <2>3
<1>7. CASE ExecFnReturn
  <2>1. /\ frames # <<>> /\ fn_stack # <<>> /\ outcome = "running"
        /\ frames' = Pop(frames) /\ fn_stack' = Pop(fn_stack)
        /\ UNCHANGED proc_stack
    BY <1>7 DEF ExecFnReturn, PopFrame, Ready
  <2>2. Len(frames') = Len(frames) - 1 /\ Len(fn_stack') = Len(fn_stack) - 1
    BY <1>1, <2>1, PopNonEmpty
  <2> QED BY <1>2, <2>1, <2>2 DEF FrameBalance
<1> QED BY <1>3, <1>4, <1>5, <1>6, <1>7, CallKinds DEF CallOrReturn

(* There is one symbol table frame per pending PROC or FN, whatever errors *)
(* are caught, and however calls and returns are mixed.                    *)
THEOREM FramesBalanced == Spec => []FrameBalance
<1>1. Init => TypeInv /\ FrameBalance
  BY TypeInit, FrameInit
<1>2. TypeInv /\ FrameBalance /\ [Next]_vars => (TypeInv /\ FrameBalance)'
  BY TypeStep, FrameStep
<1> QED BY <1>1, <1>2, PTL DEF Spec

-----------------------------------------------------------------------------
(* Programs without ON ERROR.                                              *)

HandlerOff == HandlerFree => error_stmt = NULL

(* "=" never lets run_statements go on: its status is an exit or an error. *)
ReturnLeaves == phase = "done" /\ Stmt(stmt).op = "fnreturn" => status # "ok"

(* The program is never changed, and the interrupt flag is never reset.    *)
LEMMA ProgConstant ==
  ASSUME [Next]_vars
  PROVE  prog' = prog /\ interrupt' \in {interrupt, TRUE}
<1>1. CASE FetchStatement \/ FetchProc \/ FetchFnReturn \/ FetchNext
  BY <1>1 DEF FetchStatement, FetchProc, FetchFnReturn, FetchNext, Fetch
<1>2. CASE EvalLeaf \/ EvalFn \/ CallFails \/ CallFn
  BY <1>2 DEF EvalLeaf, EvalFn, CallFails, CallFn, outer
<1>3. CASE Exec
  <2>1. \E st : Complete(st)
    BY <1>3 DEF Exec, ExecFails, ExecEval, ExecLocal, ExecEnd, ExecIf, ExecGoto,
                ExecOn, BranchTo, Fail, ExecReturn, ExecFor, ExecNext,
                ExecRepeat, ExecUntil, ExecOnError, ExecProc, ExecEndproc,
                ExecFnReturn
  <2> QED BY <2>1 DEF Complete, outer
<1>4. CASE NextLimit
  BY <1>4 DEF NextLimit, Complete, outer
<1>5. CASE FrameUnderflow \/ NextAborts \/ MemoryExhausted \/ Signal \/ Stopped
  BY <1>5 DEF FrameUnderflow, NextAborts, MemoryExhausted, Signal, Stopped,
              Abort, vars
<1>6. CASE CatchError \/ Continue
  BY <1>6 DEF CatchError, Continue, outer
<1>7. CASE BreakInterrupted \/ BreakStatus \/ RunOff
  <2>1. \E st, register : Leave(st, register)
    BY <1>7 DEF BreakInterrupted, BreakStatus, RunOff
  <2> QED BY <2>1 DEF Leave, EndProgram, Resume, NoValue, Abort
<1>8. CASE UNCHANGED vars
  BY <1>8 DEF vars
<1> QED BY <1>1, <1>2, <1>3, <1>4, <1>5, <1>6, <1>7, <1>8
        DEF Next, Step, Exec

(* Each handler completes, and only ON ERROR touches the handler.          *)
LEMMA ExecCompletes ==
  ASSUME Exec
  PROVE  \E st \in Statuses :
           /\ Complete(st)
           /\ Stmt(stmt).op = "fnreturn" => ExecFnReturn /\ st # "ok"
<1>1. ASSUME NEW ops, Ready(ops), "fnreturn" \notin ops
      PROVE  Stmt(stmt).op # "fnreturn"
  BY <1>1 DEF Ready
<1>2. CASE ExecFnReturn
  BY <1>2 DEF ExecFnReturn, Statuses
<1>3. CASE ExecFails \/ ExecEval \/ ExecLocal \/ ExecEnd
  BY <1>1, <1>3 DEF ExecFails, ExecEval, ExecLocal, ExecEnd, Succeeds, Fail,
                    Statuses
<1>4. CASE ExecIf \/ ExecGoto \/ ExecOn \/ ExecReturn
  BY <1>1, <1>4 DEF ExecIf, ExecGoto, ExecOn, ExecReturn, Branching, BranchTo,
                    Succeeds, Fail, Statuses
<1>5. CASE ExecProc \/ ExecEndproc \/ ExecOnError
  BY <1>1, <1>5 DEF ExecProc, ExecEndproc, ExecOnError, Succeeds, Fail,
                    Statuses
<1>6. CASE ExecFor \/ ExecNext \/ ExecRepeat \/ ExecUntil
  BY <1>1, <1>6 DEF ExecFor, ExecNext, ExecRepeat, ExecUntil, Succeeds, Fail,
                    Statuses
<1> QED BY <1>2, <1>3, <1>4, <1>5, <1>6 DEF Exec

(* Every step keeps "=" from letting run_statements go on.                 *)
LEMMA ReturnLeavesStep ==
  ASSUME TypeInv, ReturnLeaves, [Next]_vars
  PROVE  ReturnLeaves'
<1>1. prog' = prog
  BY ProgConstant
<1>2. CASE FetchStatement \/ FetchProc \/ FetchFnReturn \/ FetchNext
  BY <1>2 DEF FetchStatement, FetchProc, FetchFnReturn, FetchNext, Evaluate,
              Refuse, ReturnLeaves
<1>3. CASE EvalLeaf \/ EvalFn \/ CallFails
  BY <1>3 DEF EvalLeaf, EvalFn, CallFails, Evaluating, ArgsReady, ReturnLeaves
<1>4. CASE CallFn
  BY <1>4 DEF CallFn, ReturnLeaves
<1>5. CASE Exec
  BY <1>1, <1>5, ExecCompletes DEF Complete, ReturnLeaves, Stmt
<1>6. CASE NextLimit
  BY <1>6 DEF NextLimit, Complete, ReturnLeaves
<1>7. CASE FrameUnderflow \/ NextAborts \/ MemoryExhausted \/ Signal \/ Stopped
  BY <1>1, <1>7 DEF FrameUnderflow, NextAborts, MemoryExhausted, Signal,
                    Stopped, Abort, vars, ReturnLeaves, Stmt
<1>8. CASE CatchError \/ Continue
  BY <1>8 DEF CatchError, Continue, ReturnLeaves
<1>9. CASE BreakInterrupted \/ BreakStatus \/ RunOff
  <2>1. \E st, register : Leave(st, register)
    BY <1>9 DEF BreakInterrupted, BreakStatus, RunOff
  <2> QED BY <1>1, <2>1 DEF Leave, EndProgram, Resume, NoValue, Abort,
                            ReturnLeaves, Stmt
<1>10. CASE UNCHANGED vars
  BY <1>1, <1>10 DEF vars, ReturnLeaves, Stmt
<1> QED BY <1>2, <1>3, <1>4, <1>5, <1>6, <1>7, <1>8, <1>9, <1>10
        DEF Next, Step, Exec

(* What can change the installed handler.                                  *)
LEMMA HandlerKinds ==
  ASSUME [Next]_vars
  PROVE  \/ ExecOnError
         \/ error_stmt' = NULL
         \/ UNCHANGED <<error_stmt, next>>
<1>1. CASE FetchStatement \/ FetchProc \/ FetchFnReturn \/ FetchNext
  BY <1>1 DEF FetchStatement, FetchProc, FetchFnReturn, FetchNext, Fetch
<1>2. CASE EvalLeaf \/ EvalFn \/ CallFails \/ CallFn
  BY <1>2 DEF EvalLeaf, EvalFn, CallFails, CallFn
<1>3. CASE Exec
  BY <1>3 DEF Exec, ExecFails, ExecEval, ExecLocal, ExecEnd, ExecIf, ExecGoto,
              ExecOn, Branching, ExecReturn, ExecFor, ExecNext, ExecRepeat,
              ExecUntil, ExecProc, ExecEndproc, ExecFnReturn
<1>4. CASE NextLimit \/ CatchError \/ Continue
  BY <1>4 DEF NextLimit, CatchError, Continue
<1>5. CASE FrameUnderflow \/ NextAborts \/ MemoryExhausted \/ Signal \/ Stopped
  BY <1>5 DEF FrameUnderflow, NextAborts, MemoryExhausted, Signal, Stopped,
              Abort, vars
<1>6. CASE BreakInterrupted \/ BreakStatus \/ RunOff
  <2>1. \E st, register : Leave(st, register)
    BY <1>6 DEF BreakInterrupted, BreakStatus, RunOff
  <2> QED BY <2>1 DEF Leave, EndProgram, Resume, NoValue, Abort
<1>7. CASE UNCHANGED vars
  BY <1>7 DEF vars
<1> QED BY <1>1, <1>2, <1>3, <1>4, <1>5, <1>6, <1>7 DEF Next, Step, Exec

(* Every step keeps the handler off where no ON ERROR is.                  *)
LEMMA HandlerOffStep ==
  ASSUME TypeInv, HandlerOff, [Next]_vars
  PROVE  HandlerOff'
<1>1. prog' = prog /\ (HandlerFree' => HandlerFree)
  BY ProgConstant DEF HandlerFree, Addresses, Stmt
<1>2. CASE ExecOnError
  <2>1. stmt \in Addresses /\ Stmt(stmt).op = "onerror"
    BY <1>2, ExecReady, ReadyType DEF Exec, ExecOnError, Succeeds, Ready
  <2> QED BY <1>1, <2>1 DEF HandlerFree, HandlerOff
<1>3. CASE ~ExecOnError
  BY <1>1, <1>3, HandlerKinds DEF HandlerOff
<1> QED BY <1>2, <1>3

(* The return addresses that the activations still need.                   *)
Returning == phase = "done" /\ Stmt(stmt).op = "fnreturn"

Owed == Len(suspended) + (IF ReturnPending THEN 1 ELSE 0)
                       - (IF Returning THEN 1 ELSE 0)

(* The depth of the FN stack, in terms of the returns it owes.             *)
LEMMA DepthIsOwed ==
  FnDepth <=> (HandlerFree /\ outcome = "running" => Len(fn_stack) >= Owed)
BY DEF FnDepth, Owed, Returning

(* The returns owed are a number.                                          *)
LEMMA OwedInt == ASSUME TypeInv PROVE Owed \in Int /\ Len(fn_stack) \in Nat
<1>1. Len(suspended) \in Nat /\ Len(fn_stack) \in Nat
  BY StackType DEF TypeInv, TypeOK, TypeActivation
<1> QED BY <1>1 DEF Owed

(* Entering a handler: "=" has found a return address.                     *)
LEMMA OwedFetch ==
  ASSUME TypeInv,
         FetchStatement \/ FetchProc \/ FetchFnReturn \/ FetchNext,
         Len(fn_stack) >= Owed
  PROVE  Len(fn_stack') >= Owed'
<1>1. /\ prog' = prog /\ suspended' = suspended /\ fn_stack' = fn_stack
      /\ phase = "idle" /\ stmt' = pc /\ phase' \in {"busy", "done"}
  BY DEF FetchStatement, FetchProc, FetchFnReturn, FetchNext, Fetch, calls,
         Evaluate, Refuse
<1>2. Len(suspended) \in Nat /\ Len(fn_stack) \in Nat
      /\ (suspended = <<>> => Len(suspended) = 0)
  BY StackType, EmptySeq DEF TypeInv, TypeOK, TypeActivation
<1>3. CASE FetchFnReturn
  <2>1. CASE fn_stack = <<>>
    <3>1. phase' = "done" /\ Stmt(stmt)' .op = "fnreturn"
      BY <1>1, <1>3, <2>1 DEF FetchFnReturn, Refuse, Stmt
    <3> QED BY <1>1, <1>2, <3>1 DEF Owed, ReturnPending, Returning, Stmt
  <2>2. CASE fn_stack # <<>>
    <3>1. Len(fn_stack) >= 1
      BY <1>2, <2>2, StackType, EmptySeq
    <3> QED BY <1>1, <1>2, <3>1 DEF Owed, ReturnPending, Returning, Stmt
  <2> QED BY <2>1, <2>2
<1>4. CASE FetchStatement \/ FetchProc \/ FetchNext
  <2>1. Stmt(stmt)' .op # "fnreturn"
    BY <1>1, <1>4 DEF FetchStatement, FetchProc, FetchNext, Stmt
  <2> QED BY <1>1, <1>2, <2>1 DEF Owed, ReturnPending, Returning, Stmt
<1> QED BY <1>3, <1>4

(* A statement leaves enough on the FN stack.                              *)
LEMMA OwedExec ==
  ASSUME TypeInv, Exec, Len(fn_stack) >= Owed
  PROVE  Len(fn_stack') >= Owed'
<1>1. /\ prog' = prog /\ suspended' = suspended /\ stmt' = stmt
      /\ phase = "busy" /\ phase' = "done"
  BY ExecReady, ExecCompletes DEF Complete, outer, Ready
<1>2. Len(suspended) \in Nat /\ Len(fn_stack) \in Nat
      /\ (suspended = <<>> => Len(suspended) = 0)
  BY StackType, EmptySeq DEF TypeInv, TypeOK, TypeActivation
<1>3. CASE Stmt(stmt).op = "fnreturn"
  <2>1. fn_stack # <<>> /\ fn_stack' = Pop(fn_stack)
    BY <1>3, ExecCompletes DEF ExecFnReturn
  <2>2. Len(fn_stack') = Len(fn_stack) - 1
    BY <2>1, StackType, PopNonEmpty
  <2> QED BY <1>1, <1>2, <1>3, <2>2 DEF Owed, ReturnPending, Returning, Stmt
<1>4. CASE Stmt(stmt).op # "fnreturn"
  <2>1. fn_stack' = fn_stack
    BY <1>4 DEF Exec, ExecFails, ExecEval, ExecLocal, ExecEnd, ExecIf, ExecGoto,
                ExecOn, Branching, ExecReturn, ExecFor, ExecNext, ExecRepeat,
                ExecUntil, ExecOnError, ExecProc, ExecEndproc, ExecFnReturn,
                Ready, calls
  <2> QED BY <1>1, <1>2, <1>4, <2>1 DEF Owed, ReturnPending, Returning, Stmt
<1> QED BY <1>3, <1>4

(* A call puts on the FN stack what it will return from.                   *)
LEMMA OwedCall ==
  ASSUME TypeInv, CallFn, Len(fn_stack) >= Owed
  PROVE  Len(fn_stack') >= Owed'
<1> DEFINE a == [stmt |-> stmt, work |-> Pop(work)]
<1>1. /\ prog' = prog /\ suspended' = Append(suspended, a)
      /\ fn_stack' = Append(fn_stack, pc)
      /\ phase = "busy" /\ phase' = "idle"
  BY DEF CallFn, PushFunction, Caller, ArgsReady
<1>2. /\ suspended \in Seq(Suspended(prog)) /\ fn_stack \in Seq(0..Len(prog.stmts))
      /\ pc \in 0..Len(prog.stmts)
  BY StackType DEF TypeInv, TypeOK, TypeActivation, TypeProgram
<1>3. a \in Suspended(prog)
  BY ArgsReadyType DEF CallFn, Suspended, TypeInv, TypeOK, TypeActivation, NULL
<1>4. a.stmt = stmt
  OBVIOUS
<1> HIDE DEF a
<1>5. /\ Len(suspended') = Len(suspended) + 1 /\ suspended' # <<>>
      /\ suspended'[Len(suspended) + 1] = a
      /\ \A i \in 1..Len(suspended) : suspended'[i] = suspended[i]
      /\ Len(fn_stack') = Len(fn_stack) + 1
  BY <1>1, <1>2, <1>3, AppendType
<1>6. Len(suspended) \in Nat /\ Len(fn_stack) \in Nat
      /\ (suspended = <<>> <=> Len(suspended) = 0)
  BY <1>2, EmptySeq
<1>7. ReturnPending' => ReturnPending
  <2>1. CASE suspended = <<>>
    BY <1>1, <1>4, <1>5, <1>6, <2>1 DEF ReturnPending, Stmt
  <2>2. CASE suspended # <<>>
    <3>1. suspended'[1] = suspended[1]
      BY <1>5, <1>6, <2>2
    <3> QED BY <1>1, <1>5, <2>2, <3>1 DEF ReturnPending, Stmt
  <2> QED BY <2>1, <2>2
<1> QED BY <1>1, <1>5, <1>6, <1>7 DEF Owed, Returning

(* A return takes from the FN stack one that it was owed.                  *)
LEMMA OwedResume ==
  ASSUME TypeInv, phase # "busy", NEW st, NEW register, Resume(st, register),
         Len(fn_stack) >= Owed
  PROVE  Len(fn_stack') >= Owed'
<1>1. /\ prog' = prog /\ suspended' = Pop(suspended) /\ suspended # <<>>
      /\ fn_stack' = fn_stack /\ stmt' = Top(suspended).stmt /\ phase' = "busy"
  BY DEF Resume, calls
<1>2. suspended \in Seq(Suspended(prog))
  BY DEF TypeInv, TypeOK, TypeActivation
<1>3. /\ suspended' \in Seq(Suspended(prog))
      /\ Len(suspended') = Len(suspended) - 1
      /\ \A i \in 1..(Len(suspended) - 1) : suspended'[i] = suspended[i]
      /\ Len(suspended) \in Nat \ {0}
  BY <1>1, <1>2, PopNonEmpty
<1>4. suspended' = <<>> <=> Len(suspended') = 0
  BY <1>3, EmptySeq
<1>5. ReturnPending' => ReturnPending
  <2>1. CASE Len(suspended) = 1
    BY <1>1, <1>3, <1>4, <2>1 DEF ReturnPending, Stmt, Top
  <2>2. CASE Len(suspended) # 1
    <3>1. suspended'[1] = suspended[1] /\ suspended' # <<>>
      BY <1>3, <1>4, <2>2
    <3> QED BY <1>1, <3>1 DEF ReturnPending, Stmt
  <2> QED BY <2>1, <2>2
<1> QED BY <1>1, <1>3, <1>5, OwedInt DEF Owed, Returning

(* Every step keeps enough on the FN stack.                                *)
LEMMA DepthStep ==
  ASSUME TypeInv, HandlerOff, ReturnLeaves, FnDepth, [Next]_vars
  PROVE  FnDepth'
<1>1. prog' = prog /\ (HandlerFree' => HandlerFree)
  BY ProgConstant DEF HandlerFree, Addresses, Stmt
<1>2. FnDepth' <=> (HandlerFree' /\ outcome' = "running"
                     => Len(fn_stack') >= Owed')
  BY DepthIsOwed DEF FnDepth, Owed, Returning
<1> SUFFICES ASSUME HandlerFree, outcome' = "running", outcome = "running"
             PROVE  Len(fn_stack') >= Owed'
  <2>1. outcome' = "running" => outcome = "running"
    <3>1. CASE CallOrReturn
      BY <3>1, ExecReady DEF CallOrReturn, CallFn, ArgsReady, Exec, Ready
    <3> QED BY <3>1, CallKinds
  <2> QED BY <1>1, <1>2, <2>1
<1>3. Len(fn_stack) >= Owed /\ error_stmt = NULL
  BY DepthIsOwed DEF HandlerOff
<1>4. CASE FetchStatement \/ FetchProc \/ FetchFnReturn \/ FetchNext
  BY <1>3, <1>4, OwedFetch
<1>5. CASE UNCHANGED <<prog, suspended, stmt, phase, fn_stack>>
  BY <1>3, <1>5 DEF Owed, ReturnPending, Returning, Stmt
<1>6. CASE EvalLeaf \/ EvalFn \/ CallFails
  BY <1>5, <1>6 DEF EvalLeaf, EvalFn, CallFails, outer, calls
<1>7. CASE CallFn
  BY <1>3, <1>7, OwedCall
<1>8. CASE Exec
  BY <1>3, <1>8, OwedExec
<1>9. CASE NextLimit
  <2>1. CASE Top(work).failed
    <3>1. /\ UNCHANGED <<prog, suspended, stmt, fn_stack>>
          /\ phase = "busy" /\ phase' = "done"
      BY <1>9, <2>1 DEF NextLimit, Complete, outer, calls
    <3>2. ReturnPending' => ReturnPending
      BY <3>1 DEF ReturnPending, Stmt
    <3> QED BY <1>3, <3>1, <3>2, OwedInt DEF Owed, Returning, Stmt
  <2>2. CASE ~Top(work).failed
    BY <1>5, <1>9, <2>2 DEF NextLimit, outer, calls
  <2> QED BY <2>1, <2>2
<1>10. CASE FrameUnderflow \/ NextAborts \/ MemoryExhausted \/ Signal \/ Stopped
  BY <1>5, <1>10 DEF FrameUnderflow, NextAborts, MemoryExhausted, Signal,
                     Stopped, Abort, vars, calls
<1>11. CASE CatchError
  BY <1>3, <1>11 DEF CatchError, Caught
<1>12. CASE Continue
  <2>1. /\ UNCHANGED <<prog, suspended, fn_stack>> /\ phase = "done"
        /\ phase' = "idle" /\ status = "ok"
    BY <1>12 DEF Continue, Inspecting, outer, calls
  <2>2. (ReturnPending' => ReturnPending) /\ ~Returning
    BY <2>1 DEF ReturnPending, ReturnLeaves, Returning, Stmt
  <2> QED BY <1>3, <2>1, <2>2, OwedInt DEF Owed, Returning
<1>13. CASE BreakInterrupted \/ BreakStatus \/ RunOff
  <2>1. (\E st, register : Leave(st, register)) /\ phase # "busy"
    BY <1>13 DEF BreakInterrupted, BreakStatus, RunOff, Inspecting
  <2>2. PICK st, register : Leave(st, register)
    BY <2>1
  <2>3. ~EndProgram(st, register) /\ ~NoValue(st)
    BY DEF EndProgram, Outcome, NoValue, Abort
  <2> QED BY <1>3, <2>1, <2>2, <2>3, OwedResume DEF Leave
<1>14. CASE UNCHANGED vars
  BY <1>5, <1>14 DEF vars, calls
<1> QED BY <1>4, <1>6, <1>7, <1>8, <1>9, <1>10, <1>11, <1>12, <1>13, <1>14
        DEF Next, Step, Exec

(* The invariants of the FN stack hold when the program starts.            *)
LEMMA DepthInit == Init => HandlerOff /\ ReturnLeaves /\ FnDepth
<1> SUFFICES ASSUME Init PROVE HandlerOff /\ ReturnLeaves /\ FnDepth
  OBVIOUS
<1>1. Owed = 0 /\ Len(fn_stack) = 0
  BY EmptySeq DEF Init, Owed, ReturnPending, Returning
<1> QED BY <1>1, DepthIsOwed DEF Init, HandlerOff, ReturnLeaves

(* What is left when "=" or ENDPROC is ready to pop: there is a frame.     *)
LEMMA FrameIsLeft ==
  ASSUME TypeInv, FrameBalance, FnDepth, HandlerFree,
         Ready({"endproc", "fnreturn"}),
         Stmt(stmt).op = "endproc" => proc_stack # <<>>
  PROVE  frames # <<>>
<1>1. outcome = "running" /\ phase = "busy"
  BY DEF Ready
<1>2. /\ Len(frames) = Len(fn_stack) + Len(proc_stack)
      /\ Len(fn_stack) \in Nat /\ Len(proc_stack) \in Nat
      /\ Len(suspended) \in Nat /\ (suspended = <<>> <=> Len(suspended) = 0)
  BY <1>1, StackType, EmptySeq
     DEF FrameBalance, TypeInv, TypeOK, TypeActivation
<1>3. CASE Stmt(stmt).op = "endproc"
  <2>1. Len(proc_stack) # 0
    BY <1>3, StackType, EmptySeq
  <2> QED BY <1>2, <2>1, StackType, EmptySeq
<1>4. CASE Stmt(stmt).op = "fnreturn"
  <2>1. Len(fn_stack) >= Owed /\ ~Returning
    BY <1>1, DepthIsOwed DEF Returning
  <2>2. Owed >= 1
    BY <1>1, <1>2, <1>4, <2>1 DEF Owed, ReturnPending
  <2>3. Len(frames) # 0
    BY <1>2, <2>1, <2>2, OwedInt
  <2> QED BY <2>3, StackType, EmptySeq
<1> QED BY <1>3, <1>4 DEF Ready

(* Every step keeps a frame for the return of each function.               *)
LEMMA UnderflowStep ==
  ASSUME TypeInv, FrameBalance, FnDepth, FnReturnFindsFrame, [Next]_vars
  PROVE  FnReturnFindsFrame'
<1>1. prog' = prog /\ (HandlerFree' => HandlerFree)
  BY ProgConstant DEF HandlerFree, Addresses, Stmt
<1> SUFFICES ASSUME HandlerFree
             PROVE  outcome' # "abort: stack frame underflow"
  BY <1>1 DEF FnReturnFindsFrame
<1>2. CASE UNCHANGED outcome
  BY <1>2 DEF FnReturnFindsFrame
<1>3. CASE FrameUnderflow
  BY <1>3, FrameIsLeft DEF FrameUnderflow, Abort
<1>4. CASE NextAborts \/ MemoryExhausted \/ Signal \/ Stopped
  BY <1>2, <1>4 DEF NextAborts, MemoryExhausted, Signal, Stopped, Abort, vars
<1>5. CASE FetchStatement \/ FetchProc \/ FetchFnReturn \/ FetchNext
  BY <1>2, <1>5 DEF FetchStatement, FetchProc, FetchFnReturn, FetchNext, Fetch
<1>6. CASE EvalLeaf \/ EvalFn \/ CallFails \/ CallFn
  BY <1>2, <1>6 DEF EvalLeaf, EvalFn, CallFails, CallFn, outer
<1>7. CASE Exec
  BY <1>2, <1>7, ExecCompletes DEF Complete, outer
<1>8. CASE NextLimit \/ CatchError \/ Continue
  BY <1>2, <1>8 DEF NextLimit, Complete, CatchError, Continue, outer
<1>9. CASE BreakInterrupted \/ BreakStatus \/ RunOff
  <2>1. \E st, register : Leave(st, register)
    BY <1>9 DEF BreakInterrupted, BreakStatus, RunOff
  <2> QED BY <1>2, <2>1 DEF Leave, EndProgram, Outcome, Resume, NoValue, Abort
<1>10. CASE UNCHANGED vars
  BY <1>2, <1>10 DEF vars
<1> QED BY <1>3, <1>4, <1>5, <1>6, <1>7, <1>8, <1>9, <1>10
        DEF Next, Step, Exec

(* Without ON ERROR every call in progress has its return address, however *)
(* PROC, FN, loops and branches are mixed.                                 *)
THEOREM CallsKeepTheirReturn == Spec => []FnDepth
<1> DEFINE Inv == TypeInv /\ HandlerOff /\ ReturnLeaves /\ FnDepth
<1>1. Init => Inv
  BY TypeInit, DepthInit
<1>2. Inv /\ [Next]_vars => Inv'
  BY TypeStep, HandlerOffStep, ReturnLeavesStep, DepthStep
<1>3. Inv => FnDepth
  OBVIOUS
<1> QED BY <1>1, <1>2, <1>3, PTL DEF Spec

(* Without ON ERROR neither ENDPROC nor "=" aborts the interpreter for     *)
(* want of a symbol table frame.                                           *)
THEOREM FramesAreThere == Spec => []FnReturnFindsFrame
<1>1. Init => FnReturnFindsFrame
  BY DEF Init, FnReturnFindsFrame
<1>2. TypeInv /\ FrameBalance /\ FnDepth /\ FnReturnFindsFrame /\ [Next]_vars
      => FnReturnFindsFrame'
  BY UnderflowStep
<1>3. Spec => []TypeInv
  BY TypeInit, TypeStep, PTL DEF Spec
<1> QED BY <1>1, <1>2, <1>3, FramesBalanced, CallsKeepTheirReturn, PTL DEF Spec

-----------------------------------------------------------------------------
(* The ON ERROR handler.                                                   *)

(* Every step keeps the handler linked.                                    *)
LEMMA HandlerLinkedStep ==
  ASSUME TypeInv, HandlerLinked, [Next]_vars
  PROVE  HandlerLinked'
<1>1. prog' = prog
  BY ProgConstant
<1>2. ASSUME ExecOnError, Stmt(stmt).sub1 # NULL
      PROVE  HandlerLinked'
  <2> DEFINE h == Stmt(stmt).sub1
  <2>1. /\ stmt \in Addresses /\ Stmt(stmt).op = "onerror"
        /\ IsProgram(prog) /\ next \in [Addresses -> 0..Len(prog.stmts)]
        /\ h \in Addresses
    <3>1. Ready(Ops) /\ Stmt(stmt).op = "onerror"
      BY <1>2, ExecReady DEF Exec, ExecOnError, Succeeds, Ready
    <3>2. h \in 0..Len(prog.stmts)
      BY <3>1, ReadyType, StmtType
    <3> QED BY <1>2, <3>1, <3>2, ReadyType DEF Addresses, NULL
  <2>2. ASSUME NEW a \in Addresses, Stmt(a).op = "onerror", Stmt(a).sub1 # NULL
        PROVE  Stmt(Stmt(a).sub1).op # "onerror"
    BY <2>1, <2>2 DEF IsProgram, Stmt, Addresses
  <2>3. h # stmt
    BY <1>2, <2>1, <2>2
  <2>4. error_stmt # NULL => error_stmt # stmt
    BY <2>1, <2>2 DEF HandlerLinked
  <2>5. next' = [Unlinked EXCEPT ![h] = next[stmt]] /\ error_stmt' = h
        /\ stmt' = stmt
    BY <1>2 DEF ExecOnError, Relinked, Complete
  <2>6. DOMAIN Unlinked = Addresses /\ Unlinked[stmt] = next[stmt]
    BY <2>1, <2>4 DEF Unlinked
  <2>7. next'[h] = next[stmt] /\ next'[stmt] = next[stmt]
    BY <2>1, <2>3, <2>5, <2>6
  <2> QED BY <1>1, <2>1, <2>5, <2>7 DEF HandlerLinked, Addresses, Stmt
<1>3. CASE error_stmt' = NULL
  BY <1>3 DEF HandlerLinked
<1>4. CASE UNCHANGED <<error_stmt, next>>
  BY <1>1, <1>4 DEF HandlerLinked, Addresses, Stmt
<1>5. CASE ExecOnError /\ Stmt(stmt).sub1 = NULL
  BY <1>3, <1>5 DEF ExecOnError
<1> QED BY <1>2, <1>3, <1>4, <1>5, HandlerKinds

(* The installed handler always returns to what follows its ON ERROR, even *)
(* after other ON ERRORs, errors inside the handler, and calls.            *)
THEOREM HandlerReturnsAfterOnError == Spec => []HandlerLinked
<1>1. Init => TypeInv /\ HandlerLinked
  BY TypeInit DEF Init, HandlerLinked
<1>2. TypeInv /\ HandlerLinked /\ [Next]_vars => (TypeInv /\ HandlerLinked)'
  BY TypeStep, HandlerLinkedStep
<1> QED BY <1>1, <1>2, PTL DEF Spec

-----------------------------------------------------------------------------
(* Errors without a handler.                                               *)

(* The last error is still the current one.                                *)
LastIsCurrent ==
  HandlerFree => /\ error_register.last_code = error_register.code
                 /\ outcome = "exit" => error_register.code = "none"

(* Every step keeps the last error the current one.                        *)
LEMMA LastIsCurrentStep ==
  ASSUME TypeInv, HandlerOff, LastIsCurrent, [Next]_vars
  PROVE  LastIsCurrent'
<1>1. prog' = prog /\ (HandlerFree' => HandlerFree)
  BY ProgConstant DEF HandlerFree, Addresses, Stmt
<1> DEFINE Same == error_register'.last_code = error_register'.code
<1> SUFFICES ASSUME HandlerFree
             PROVE  Same /\ (outcome' = "exit" => error_register'.code = "none")
  BY <1>1 DEF LastIsCurrent
<1>2. ASSUME NEW code, NEW line, SetError(code, line) PROVE Same
  BY <1>2 DEF SetError
<1>3. ASSUME UNCHANGED error_register PROVE Same
  BY <1>3 DEF LastIsCurrent
<1>4. error_stmt = NULL
  BY DEF HandlerOff
<1>5. CASE FetchStatement \/ FetchProc \/ FetchFnReturn \/ FetchNext
  <2>1. outcome' = "running"
    BY <1>5 DEF FetchStatement, FetchProc, FetchFnReturn, FetchNext, Fetch
  <2> QED BY <1>2, <1>3, <1>5, <2>1
          DEF FetchStatement, FetchProc, FetchFnReturn, FetchNext, Evaluate,
              Refuse
<1>6. CASE EvalLeaf \/ EvalFn \/ CallFails \/ CallFn
  <2>1. outcome' = "running"
    BY <1>6 DEF EvalLeaf, EvalFn, CallFails, CallFn, Evaluating, ArgsReady,
                outer
  <2>2. Same
    BY <1>2, <1>3, <1>6 DEF EvalLeaf, EvalFn, CallFails, CallFn
  <2> QED BY <2>1, <2>2
<1>7. CASE Exec
  <2>1. outcome' = "running"
    BY <1>7, ExecReady, ExecCompletes DEF Complete, outer, Ready
  <2>2. UNCHANGED error_register \/ \E code : SetError(code, current_line)
    <3>1. CASE ExecFails \/ ExecEval \/ ExecLocal \/ ExecEnd
      BY <3>1 DEF ExecFails, ExecEval, ExecLocal, ExecEnd, Fail
    <3>2. CASE ExecIf \/ ExecGoto \/ ExecOn \/ ExecReturn
      BY <3>2 DEF ExecIf, ExecGoto, ExecOn, ExecReturn, BranchTo, Fail
    <3>3. CASE ExecProc \/ ExecEndproc \/ ExecFnReturn \/ ExecOnError
      BY <3>3 DEF ExecProc, ExecEndproc, ExecFnReturn, ExecOnError, Fail
    <3>4. CASE ExecFor \/ ExecNext \/ ExecRepeat \/ ExecUntil
      BY <3>4 DEF ExecFor, ExecNext, ExecRepeat, ExecUntil, Fail
    <3> QED BY <1>7, <3>1, <3>2, <3>3, <3>4 DEF Exec
  <2> QED BY <1>2, <1>3, <2>1, <2>2
<1>8. CASE NextLimit
  BY <1>3, <1>8 DEF NextLimit, Complete, outer
<1>9. CASE FrameUnderflow \/ NextAborts \/ MemoryExhausted
  <2>1. outcome' # "exit" /\ UNCHANGED error_register
    BY <1>9 DEF FrameUnderflow, NextAborts, MemoryExhausted, Abort
  <2> QED BY <1>3, <2>1
<1>10. CASE Signal \/ Stopped \/ UNCHANGED vars
  <2>1. UNCHANGED <<outcome, error_register>>
    BY <1>10 DEF Signal, Stopped, vars
  <2> QED BY <1>3, <2>1 DEF LastIsCurrent
<1>11. CASE CatchError
  BY <1>4, <1>11 DEF CatchError, Caught
<1>12. CASE Continue
  BY <1>3, <1>12 DEF Continue, Inspecting, outer
<1>13. CASE BreakInterrupted \/ BreakStatus \/ RunOff
  <2>1. \E st, register : /\ Leave(st, register) /\ outcome = "running"
                          /\ register.last_code = register.code
    BY <1>13 DEF BreakInterrupted, BreakStatus, RunOff, Inspecting, Escape,
                 LastIsCurrent
  <2>2. PICK st, register : /\ Leave(st, register) /\ outcome = "running"
                            /\ register.last_code = register.code
    BY <2>1
  <2>3. CASE EndProgram(st, register)
    BY <2>2, <2>3 DEF EndProgram, Outcome
  <2>4. CASE Resume(st, register)
    BY <2>2, <2>4 DEF Resume
  <2>5. CASE NoValue(st)
    BY <1>3, <2>5 DEF NoValue, Abort
  <2> QED BY <2>2, <2>3, <2>4, <2>5 DEF Leave
<1> QED BY <1>5, <1>6, <1>7, <1>8, <1>9, <1>10, <1>11, <1>12, <1>13
        DEF Next, Step, Exec

(* Without ON ERROR a program that met an error never ends as if it had    *)
(* not, however deep in function calls the error was.                      *)
THEOREM ErrorsReachTheUser == Spec => []ErrorNeverLost
<1> DEFINE Inv == TypeInv /\ HandlerOff /\ LastIsCurrent
<1>1. Init => Inv
  BY TypeInit, DepthInit DEF Init, LastIsCurrent
<1>2. Inv /\ [Next]_vars => Inv'
  BY TypeStep, HandlerOffStep, LastIsCurrentStep
<1>3. Inv => ErrorNeverLost
  BY DEF LastIsCurrent, ErrorNeverLost
<1> QED BY <1>1, <1>2, <1>3, PTL DEF Spec

-----------------------------------------------------------------------------
(* The runtime stack.                                                      *)

Delivering == phase = "done" /\ status = "exit" /\ Stmt(stmt).op = "fnreturn"

(* A value is handed over exactly while a return is under way.             *)
LEMMA ValueIsDelivering ==
  ValueHandedOver <=>
    (outcome = "running" /\ (HandlerFree \/ ~interrupt)
     => Len(return_stack) = IF Delivering THEN 1 ELSE 0)
BY DEF ValueHandedOver, Delivering

(* A statement puts a value on the return stack exactly if it returns.     *)
LEMMA ValueExec ==
  ASSUME TypeInv, Exec, return_stack = <<>>
  PROVE  Len(return_stack') = IF Delivering' THEN 1 ELSE 0
<1>1. PICK st \in Statuses :
        /\ Complete(st)
        /\ Stmt(stmt).op = "fnreturn" => ExecFnReturn
  BY ExecCompletes
<1>2. prog' = prog /\ stmt' = stmt /\ phase' = "done" /\ status' = st
  BY <1>1 DEF Complete, outer
<1>3. CASE Stmt(stmt).op # "fnreturn"
  <2>1. return_stack' = return_stack
    BY <1>3 DEF Exec, ExecFails, ExecEval, ExecLocal, ExecEnd, ExecIf, ExecGoto,
                ExecOn, Branching, ExecReturn, ExecFor, ExecNext, ExecRepeat,
                ExecUntil, ExecOnError, ExecProc, ExecEndproc, ExecFnReturn,
                Ready
  <2> QED BY <1>2, <1>3, <2>1, EmptySeq DEF Delivering, Stmt
<1>4. CASE Stmt(stmt).op = "fnreturn"
  <2>1. ExecFnReturn
    BY <1>1, <1>4
  <2>2. CASE work[1].failed
    <3>1. Complete("error") /\ return_stack' = return_stack
      BY <2>1, <2>2 DEF ExecFnReturn
    <3> QED BY <3>1, EmptySeq DEF Delivering, Complete
  <2>3. CASE ~work[1].failed
    <3>1. Complete("exit") /\ return_stack' = Append(return_stack, stmt)
      BY <2>1, <2>3 DEF ExecFnReturn
    <3>2. stmt \in Addresses
      BY ExecReady, ReadyType
    <3>3. Len(return_stack') = 1
      BY <3>1, <3>2, StackType, AppendType, EmptySeq
    <3> QED BY <1>2, <1>4, <3>1, <3>3 DEF Delivering, Complete, Stmt
  <2> QED BY <2>2, <2>3
<1> QED BY <1>3, <1>4

(* The suspended evaluation takes the value.                               *)
LEMMA ValueResume ==
  ASSUME TypeInv, NEW st, NEW register, Resume(st, register),
         Len(return_stack) = IF Delivering THEN 1 ELSE 0,
         Delivering => st = "exit"
  PROVE  Len(return_stack') = IF Delivering' THEN 1 ELSE 0
<1>1. phase' = "busy" /\ return_stack \in Seq(Addresses)
  BY StackType DEF Resume
<1>2. CASE st = "exit"
  <2>1. return_stack # <<>> /\ return_stack' = Pop(return_stack)
    BY <1>2 DEF Resume, TakeValue
  <2>2. Len(return_stack) = 1
    BY <1>1, <2>1, EmptySeq
  <2>3. Len(return_stack') = 0
    BY <1>1, <2>1, <2>2, PopNonEmpty
  <2> QED BY <1>1, <2>3 DEF Delivering
<1>3. CASE st # "exit"
  <2>1. return_stack' = return_stack
    BY <1>3 DEF Resume, TakeValue
  <2> QED BY <1>1, <1>3, <2>1 DEF Delivering
<1> QED BY <1>2, <1>3

(* A failed statement is an error.                                         *)
LEMMA FailedExec ==
  ASSUME Exec, work[1].failed
  PROVE  status' = "error"
<1>1. CASE ExecFails \/ ExecEval \/ ExecFnReturn
  BY <1>1 DEF ExecFails, ExecEval, ExecFnReturn, Fail, Complete
<1>2. CASE \/ ExecIf \/ ExecGoto \/ ExecOn \/ ExecReturn \/ ExecEndproc
           \/ ExecLocal \/ ExecFor \/ ExecRepeat \/ ExecUntil \/ ExecOnError
           \/ ExecEnd
  BY <1>2 DEF ExecIf, ExecGoto, ExecOn, Branching, ExecReturn, ExecEndproc,
              ExecLocal, ExecFor, ExecRepeat, ExecUntil, ExecOnError, ExecEnd,
              Succeeds
<1>3. CASE ExecProc
  BY <1>3 DEF ExecProc, BoundWith, Complete
<1>4. CASE ExecNext
  BY <1>4 DEF ExecNext, Fail, Complete
<1> QED BY <1>1, <1>2, <1>3, <1>4 DEF Exec

(* With a handler, and before Ctrl-C, an error is set only where it is     *)
(* about to be caught: a failing statement, or the DEF of a function that  *)
(* is called although an earlier operand of its caller has failed.         *)
ErrorPlace ==
  error_stmt # NULL /\ ~interrupt /\ ErrorIsSet =>
    /\ phase = "idle" => pc # NULL /\ Stmt(pc).op = "deffn"
    /\ phase = "busy" => Failing(work) \/ Stmt(stmt).op = "deffn"
    /\ phase = "done" => \/ status = "error"
                         \/ Stmt(stmt).op \in {"deffn", "onerror"}

(* Fetching keeps the place of the error.                                  *)
LEMMA ErrorPlaceFetch ==
  ASSUME TypeInv, ErrorPlace,
         FetchStatement \/ FetchProc \/ FetchFnReturn \/ FetchNext
  PROVE  ErrorPlace'
<1>1. /\ prog' = prog /\ error_stmt' = error_stmt /\ interrupt' = interrupt
      /\ phase = "idle" /\ stmt' = pc
  BY DEF FetchStatement, FetchProc, FetchFnReturn, FetchNext, Fetch
<1>2. \/ phase' = "done" /\ status' = "error"
      \/ phase' = "busy" /\ error_register' = error_register
  BY DEF FetchStatement, FetchProc, FetchFnReturn, FetchNext, Evaluate, Refuse
<1> QED BY <1>1, <1>2 DEF ErrorPlace, ErrorIsSet, Stmt

(* A failure stays in the work until the statement ends.                   *)
LEMMA FailingReplaceTop ==
  ASSUME NEW w \in Seq(WorkItem(prog)), w # <<>>, Top(w).rest # <<>>,
         NEW ok \in BOOLEAN, Failing(w) \/ ~ok
  PROVE  Failing(ReplaceTop(w, Advance(Top(w), ok)))
<1> DEFINE x == Advance(Top(w), ok)
           v == ReplaceTop(w, x)
<1>1. Top(w) \in WorkItem(prog) /\ Len(w) \in Nat \ {0}
  BY PopNonEmpty
<1>2. x \in WorkItem(prog) /\ x.failed = (Top(w).failed \/ ~ok)
  <2>1. x \in WorkItem(prog)
    BY <1>1, AdvanceType
  <2>2. x.failed = (Top(w).failed \/ ~ok)
    BY <1>1 DEF Advance, WorkItem
  <2> QED BY <2>1, <2>2
<1> HIDE DEF x
<1>3. /\ Len(v) = Len(w) /\ v[Len(w)] = x
      /\ \A i \in 1..(Len(w) - 1) : v[i] = w[i]
  BY <1>2, ReplaceTopType
<1> HIDE DEF v
<1>4. CASE ~ok \/ Top(w).failed
  <2>1. x.failed
    BY <1>2, <1>4, Zenon
  <2>2. v[Len(w)].failed
    BY <2>1, <1>3, Zenon
  <2>3. Len(w) \in 1..Len(v)
    BY <1>1, <1>3
  <2> QED BY <2>2, <2>3, Zenon DEF Failing, v, x
<1>5. CASE ok /\ ~Top(w).failed
  <2>1. PICK i \in 1..Len(w) : w[i].failed
    BY <1>5 DEF Failing
  <2>2. i \in 1..(Len(w) - 1)
    BY <1>1, <1>5, <2>1 DEF Top
  <2>3. i \in 1..Len(v) /\ v[i].failed
    BY <1>3, <2>1, <2>2
  <2> QED BY <2>3 DEF Failing, v, x
<1> QED BY <1>4, <1>5

(* Evaluating keeps the place of the error.                                *)
LEMMA ErrorPlaceEval ==
  ASSUME TypeInv, ErrorPlace, EvalLeaf \/ EvalFn
  PROVE  ErrorPlace'
<1> DEFINE w == Top(work)
<1>1. /\ phase = "busy" /\ phase' = "busy" /\ prog' = prog /\ stmt' = stmt
      /\ error_stmt' = error_stmt /\ interrupt' = interrupt
      /\ work \in Seq(WorkItem(prog)) /\ work # <<>> /\ w.rest # <<>>
  BY DEF EvalLeaf, EvalFn, Evaluating, outer, TypeInv, TypeOK, TypeActivation
<1>2. /\ \A ok \in BOOLEAN : Failing(work) \/ ~ok =>
           Failing(ReplaceTop(work, Advance(w, ok)))
  BY <1>1, FailingReplaceTop
<1>3. CASE EvalLeaf
  <2> DEFINE ok == Operands.kind \notin {"bad", "mute"}
  <2>1. /\ ok \in BOOLEAN /\ work' = ReplaceTop(work, Advance(w, ok))
        /\ ~ok \/ error_register' = error_register
    BY <1>3 DEF EvalLeaf
  <2> HIDE DEF ok, w
  <2>2. CASE ~ok
    BY <1>1, <1>2, <2>1, <2>2 DEF ErrorPlace
  <2>3. CASE ok
    BY <1>1, <1>2, <2>1, <2>3 DEF ErrorPlace, ErrorIsSet, Stmt
  <2> QED BY <2>2, <2>3
<1>4. CASE EvalFn
  <2> DEFINE c == prog.calls[Operands.call]
             x == ArgsWork(c.callee, c.args)
  <2>1. CASE c.callee = NULL
    <3>1. work' = ReplaceTop(work, Advance(w, FALSE))
      BY <1>4, <2>1 DEF EvalFn
    <3> HIDE DEF w
    <3> QED BY <1>1, <1>2, <3>1 DEF ErrorPlace
  <2>2. CASE c.callee # NULL
    <3>1. work' = Append(work, x) /\ error_register' = error_register
      BY <1>4, <2>2 DEF EvalFn
    <3>2. Failing(work) => Failing(Append(work, x))
      <4>1. /\ Len(Append(work, x)) = Len(work) + 1
            /\ \A i \in 1..Len(work) : Append(work, x)[i] = work[i]
            /\ Len(work) \in Nat
        <5> HIDE DEF x
        <5> QED BY <1>1
      <4> HIDE DEF x
      <4> QED BY <4>1 DEF Failing
    <3> HIDE DEF x
    <3> QED BY <1>1, <3>1, <3>2 DEF ErrorPlace, ErrorIsSet, Stmt
  <2> QED BY <2>1, <2>2
<1> QED BY <1>3, <1>4

(* Calling a function keeps the place of the error.                        *)
LEMMA ErrorPlaceCalls ==
  ASSUME TypeInv, ErrorPlace, CallFails \/ CallFn
  PROVE  ErrorPlace'
<1>1. /\ phase = "busy" /\ prog' = prog /\ error_stmt' = error_stmt
      /\ interrupt' = interrupt
  BY DEF CallFails, CallFn, ArgsReady, outer
<1>2. CASE CallFails
  <2>1. /\ work' = ReplaceTop(Pop(work), Advance(Top(Pop(work)), FALSE))
        /\ phase' = "busy"
    BY <1>1, <1>2 DEF CallFails
  <2>2. /\ Pop(work) \in Seq(WorkItem(prog)) /\ Pop(work) # <<>>
        /\ Top(Pop(work)).rest # <<>>
    BY <1>2, ArgsReadyType DEF CallFails, WorkOK
  <2>3. Failing(work')
    BY <2>1, <2>2, FailingReplaceTop
  <2> QED BY <2>1, <2>3 DEF ErrorPlace, Failing
<1>3. CASE CallFn
  <2>1. /\ pc' = Top(work).callee /\ phase' = "idle"
        /\ error_register' = error_register
    BY <1>3 DEF CallFn
  <2>2. Top(work).callee # NULL /\ Stmt(Top(work).callee).op = "deffn"
    BY <1>3, ArgsReadyType DEF CallFn, Addresses, NULL
  <2> QED BY <1>1, <2>1, <2>2 DEF ErrorPlace, Stmt
<1> QED BY <1>2, <1>3

(* Executing a statement keeps the place of the error.                     *)
LEMMA ErrorPlaceExec ==
  ASSUME TypeInv, ErrorPlace, Exec
  PROVE  ErrorPlace'
<1>1. PICK st \in Statuses : Complete(st)
  BY ExecCompletes
<1>2. /\ prog' = prog /\ stmt' = stmt /\ interrupt' = interrupt
      /\ phase' = "done" /\ status' = st
  BY <1>1 DEF Complete, outer
<1>3. phase = "busy" /\ Len(work) = 1
  BY ExecReady DEF Ready
<1> SUFFICES ASSUME error_stmt' # NULL, ~interrupt', ErrorIsSet',
                    status' # "error"
             PROVE  Stmt(stmt).op \in {"deffn", "onerror"}
  BY <1>2 DEF ErrorPlace, Stmt
<1>4. CASE ExecOnError
  BY <1>4 DEF ExecOnError, Succeeds, Ready
<1>5. CASE ~ExecOnError
  <2>1. error_stmt' = error_stmt
    BY <1>5 DEF Exec, ExecFails, ExecEval, ExecLocal, ExecEnd, ExecIf, ExecGoto,
                ExecOn, Branching, ExecReturn, ExecFor, ExecNext, ExecRepeat,
                ExecUntil, ExecProc, ExecEndproc, ExecFnReturn
  <2>2. error_register' = error_register
    <3>1. ASSUME NEW code, Fail(code) PROVE FALSE
      BY <3>1 DEF Fail, Complete
    <3>2. CASE ExecFails \/ ExecEval \/ ExecLocal \/ ExecEnd
      BY <3>1, <3>2 DEF ExecFails, ExecEval, ExecLocal, ExecEnd
    <3>3. CASE ExecIf \/ ExecGoto \/ ExecOn \/ ExecReturn
      BY <3>1, <3>3 DEF ExecIf, ExecGoto, ExecOn, ExecReturn, BranchTo
    <3>4. CASE ExecProc \/ ExecEndproc \/ ExecFnReturn
      BY <3>1, <3>4 DEF ExecProc, ExecEndproc, ExecFnReturn
    <3>5. CASE ExecFor \/ ExecNext \/ ExecRepeat \/ ExecUntil
      BY <3>1, <3>5 DEF ExecFor, ExecNext, ExecRepeat, ExecUntil
    <3> QED BY <1>5, <3>2, <3>3, <3>4, <3>5 DEF Exec
  <2>3. ~work[1].failed
    BY FailedExec
  <2>4. ~Failing(work)
    BY <1>3, <2>3 DEF Failing
  <2> QED BY <1>2, <1>3, <2>1, <2>2, <2>4 DEF ErrorPlace, ErrorIsSet
<1> QED BY <1>4, <1>5

(* The second test of a NEXT keeps the place of the error.                 *)
LEMMA ErrorPlaceNextLimit ==
  ASSUME TypeInv, ErrorPlace, NextLimit
  PROVE  ErrorPlace'
<1>1. CASE Top(work).failed
  BY <1>1 DEF NextLimit, Complete, ErrorPlace
<1>2. CASE ~Top(work).failed
  <2>1. /\ work' = Pop(work) /\ Len(work) = 2 /\ phase = "busy"
        /\ UNCHANGED <<prog, interrupt, stmt, phase, error_stmt, error_register>>
    BY <1>2 DEF NextLimit, outer
  <2>2. work \in Seq(WorkItem(prog)) /\ work # <<>>
    BY <2>1 DEF TypeInv, TypeOK, TypeActivation
  <2>3. Failing(work) => Failing(Pop(work))
    <3> SUFFICES ASSUME Failing(work) PROVE Failing(Pop(work))
      OBVIOUS
    <3>1. PICK i \in 1..Len(work) : work[i].failed
      BY DEF Failing
    <3>2. i \in 1..(Len(work) - 1)
      BY <1>2, <2>1, <3>1 DEF Top
    <3>3. i \in 1..Len(Pop(work)) /\ Pop(work)[i] = work[i]
      BY <2>2, <3>2, PopNonEmpty
    <3> QED BY <3>1, <3>3 DEF Failing
  <2>4. Failing(work') <=> Failing(Pop(work))
    BY <2>1 DEF Failing
  <2> QED BY <2>1, <2>3, <2>4 DEF ErrorPlace, ErrorIsSet, Stmt, Failing
<1> QED BY <1>1, <1>2

(* Every step keeps the place of the error.                                *)
LEMMA ErrorPlaceStep ==
  ASSUME TypeInv, ErrorPlace, [Next]_vars
  PROVE  ErrorPlace'
<1>1. CASE FetchStatement \/ FetchProc \/ FetchFnReturn \/ FetchNext
  BY <1>1, ErrorPlaceFetch
<1>2. CASE EvalLeaf \/ EvalFn
  BY <1>2, ErrorPlaceEval
<1>3. CASE CallFails \/ CallFn
  BY <1>3, ErrorPlaceCalls
<1>4. CASE Exec
  BY <1>4, ErrorPlaceExec
<1>5. CASE NextLimit
  BY <1>5, ErrorPlaceNextLimit
<1>6. CASE UNCHANGED <<prog, pc, stmt, phase, status, work, error_register,
                       error_stmt, interrupt>>
  BY <1>6 DEF ErrorPlace, ErrorIsSet, Failing, Stmt
<1>7. CASE FrameUnderflow \/ NextAborts \/ MemoryExhausted \/ Stopped
  BY <1>6, <1>7 DEF FrameUnderflow, NextAborts, MemoryExhausted, Stopped, Abort,
                    vars
<1>8. CASE Signal
  BY <1>8 DEF Signal, ErrorPlace
<1>9. CASE CatchError
  BY <1>9 DEF CatchError, ErrorPlace, ErrorIsSet, TypeInv, TypeOK, TypeProgram,
              Register
<1>10. CASE Continue
  BY <1>10 DEF Continue, Caught, ErrorPlace, ErrorIsSet, outer
<1>11. CASE BreakInterrupted \/ BreakStatus \/ RunOff
  <2>1. CASE BreakInterrupted /\ \E r : Resume(status, r)
    BY <2>1 DEF BreakInterrupted, Resume, ErrorPlace
  <2>2. CASE BreakStatus /\ Resume(status, error_register)
    <3>1. /\ error_stmt' = error_stmt /\ error_register' = error_register
          /\ ~Caught
      BY <2>2 DEF BreakStatus, Resume
    <3> QED BY <3>1 DEF Caught, ErrorPlace, ErrorIsSet
  <2>3. CASE RunOff /\ \E r : Resume(r, error_register)
    <3>1. /\ error_stmt' = error_stmt /\ error_register' = error_register
          /\ interrupt' = interrupt /\ phase = "idle" /\ pc = NULL
      BY <2>3 DEF RunOff, Resume
    <3> QED BY <3>1 DEF ErrorPlace, ErrorIsSet
  <2>4. CASE \E r, q : EndProgram(r, q)
    BY <2>4 DEF EndProgram, ErrorPlace
  <2>5. CASE \E r : NoValue(r)
    BY <1>6, <2>5 DEF NoValue, Abort
  <2> QED BY <1>11, <2>1, <2>2, <2>3, <2>4, <2>5
          DEF BreakInterrupted, BreakStatus, RunOff, Leave
<1>12. CASE UNCHANGED vars
  BY <1>6, <1>12 DEF vars
<1> QED BY <1>1, <1>2, <1>3, <1>4, <1>5, <1>7, <1>8, <1>9, <1>10, <1>11, <1>12
        DEF Next, Step, Exec

(* Every step keeps a value on the return stack while it is handed over.   *)
LEMMA ValueStep ==
  ASSUME TypeInv, HandlerOff, ErrorPlace, ValueHandedOver, [Next]_vars
  PROVE  ValueHandedOver'
<1>1. /\ prog' = prog /\ interrupt' \in {interrupt, TRUE}
      /\ HandlerFree' => HandlerFree
      /\ interrupt \in BOOLEAN
  BY ProgConstant DEF HandlerFree, Addresses, Stmt, TypeInv, TypeOK,
                      TypeProgram
<1>2. ValueHandedOver' <=>
        (outcome' = "running" /\ (HandlerFree' \/ ~interrupt')
         => Len(return_stack') = IF Delivering' THEN 1 ELSE 0)
  BY DEF ValueHandedOver, Delivering
<1> SUFFICES ASSUME outcome' = "running", outcome = "running",
                    HandlerFree \/ ~interrupt
             PROVE  Len(return_stack') = IF Delivering' THEN 1 ELSE 0
  <2>1. outcome' = "running" => outcome = "running"
    <3>1. CASE CallOrReturn
      BY <3>1, ExecReady DEF CallOrReturn, CallFn, ArgsReady, Exec, Ready
    <3> QED BY <3>1, CallKinds
  <2>2. HandlerFree' \/ ~interrupt' => HandlerFree \/ ~interrupt
    BY <1>1
  <2> QED BY <1>2, <2>1, <2>2
<1>3. /\ Len(return_stack) = IF Delivering THEN 1 ELSE 0
      /\ return_stack = <<>> <=> Len(return_stack) = 0
  BY ValueIsDelivering, StackType, EmptySeq
<1>4. CASE FetchStatement \/ FetchProc \/ FetchFnReturn \/ FetchNext
  <2>1. /\ phase = "idle" /\ return_stack' = return_stack
        /\ phase' # "done" \/ status' # "exit"
    BY <1>4 DEF FetchStatement, FetchProc, FetchFnReturn, FetchNext, Fetch,
                Evaluate, Refuse
  <2> QED BY <1>3, <2>1 DEF Delivering
<1>5. CASE UNCHANGED <<prog, stmt, phase, status, return_stack>>
  BY <1>3, <1>5 DEF Delivering, Stmt
<1>6. CASE EvalLeaf \/ EvalFn \/ CallFails
  BY <1>5, <1>6 DEF EvalLeaf, EvalFn, CallFails, outer
<1>7. CASE CallFn
  <2>1. phase = "busy" /\ phase' = "idle" /\ return_stack' = return_stack
    BY <1>7 DEF CallFn, ArgsReady
  <2> QED BY <1>3, <2>1 DEF Delivering
<1>8. CASE Exec
  <2>1. phase = "busy"
    BY <1>8, ExecReady DEF Ready
  <2>2. return_stack = <<>>
    BY <1>3, <2>1 DEF Delivering
  <2> QED BY <1>8, <2>2, ValueExec
<1>9. CASE NextLimit
  <2>1. CASE Top(work).failed
    <3>1. phase = "busy" /\ status' = "error" /\ return_stack' = return_stack
      BY <1>9, <2>1 DEF NextLimit, Complete
    <3> QED BY <1>3, <3>1 DEF Delivering
  <2>2. CASE ~Top(work).failed
    BY <1>5, <1>9, <2>2 DEF NextLimit, outer
  <2> QED BY <2>1, <2>2
<1>10. CASE FrameUnderflow \/ NextAborts \/ MemoryExhausted \/ Signal \/ Stopped
  BY <1>5, <1>10 DEF FrameUnderflow, NextAborts, MemoryExhausted, Signal,
                     Stopped, Abort, vars
<1>11. CASE CatchError
  <2>1. /\ Caught /\ phase = "done" /\ phase' = "idle"
        /\ return_stack' = return_stack
    BY <1>11 DEF CatchError, Inspecting
  <2>2. error_stmt # NULL /\ (status = "error" \/ ErrorIsSet)
    BY <2>1 DEF Caught
  <2>3. ~interrupt
    BY <2>2 DEF HandlerOff
  <2>4. ~Delivering
    BY <2>1, <2>2, <2>3 DEF ErrorPlace, Delivering
  <2> QED BY <1>3, <2>1, <2>4 DEF Delivering
<1>12. CASE Continue
  <2>1. status = "ok" /\ phase' = "idle" /\ return_stack' = return_stack
    BY <1>12 DEF Continue
  <2> QED BY <1>3, <2>1 DEF Delivering
<1>13. CASE BreakInterrupted \/ BreakStatus \/ RunOff
  <2>1. \E st, register : /\ Leave(st, register)
                          /\ Delivering => st = "exit"
    BY <1>13 DEF BreakInterrupted, BreakStatus, RunOff, Delivering
  <2>2. PICK st, register : /\ Leave(st, register)
                            /\ Delivering => st = "exit"
    BY <2>1
  <2>3. ~EndProgram(st, register) /\ ~NoValue(st)
    BY DEF EndProgram, Outcome, NoValue, Abort
  <2> QED BY <1>3, <2>2, <2>3, ValueResume DEF Leave
<1>14. CASE UNCHANGED vars
  BY <1>5, <1>14 DEF vars
<1> QED BY <1>4, <1>6, <1>7, <1>8, <1>9, <1>10, <1>11, <1>12, <1>13, <1>14
        DEF Next, Step, Exec

(* The runtime stack never holds more than the one value that is being     *)
(* handed over, until Ctrl-C meets a handler: no call can take the value   *)
(* of another, whatever errors are caught in between.                      *)
THEOREM ValuesAreHandedOver == Spec => []ValueHandedOver
<1> DEFINE Inv == TypeInv /\ HandlerOff /\ ErrorPlace /\ ValueHandedOver
<1>1. Init => Inv
  BY TypeInit, DepthInit, EmptySeq DEF Init, ErrorPlace, ValueHandedOver
<1>2. Inv /\ [Next]_vars => Inv'
  BY TypeStep, HandlerOffStep, ErrorPlaceStep, ValueStep
<1>3. Inv => ValueHandedOver
  OBVIOUS
<1> QED BY <1>1, <1>2, <1>3, PTL DEF Spec

-----------------------------------------------------------------------------
(* Return addresses.                                                       *)

(* Nothing that is being evaluated or executed has failed.                 *)
Sound ==
  /\ \A i \in 1..Len(suspended) : ~Failing(suspended[i].work)
  /\ phase = "busy" => ~Failing(work)
  /\ phase = "done" => status # "error"

(* Each suspended statement will go on at the statement after it: that is  *)
(* what the FN stack holds, and where "=" has led.                         *)
AddressesKept ==
  /\ Len(fn_stack) = IF Delivering THEN Len(suspended) - 1 ELSE Len(suspended)
  /\ \A i \in 1..Len(fn_stack) : fn_stack[i] = next[suspended[i].stmt]
  /\ Delivering => suspended # <<>> /\ pc = next[Top(suspended).stmt]
  /\ phase = "busy" => pc = next[stmt]

ReturnsKept == HandlerFree /\ outcome = "running" /\ Sound => AddressesKept

(* Steps that leave the activations and the FN stack alone.                *)
LEMMA KeptWithin ==
  ASSUME ReturnsKept, HandlerFree, outcome = "running", Sound,
         UNCHANGED <<suspended, fn_stack, next>>, ~Delivering, ~Delivering',
         phase' = "busy" => pc' = next[stmt']
  PROVE  AddressesKept'
BY DEF ReturnsKept, AddressesKept

(* Fetching keeps the addresses of returns.                                *)
LEMMA KeptFetch ==
  ASSUME TypeInv, ReturnsKept, HandlerFree, outcome = "running", Sound',
         FetchStatement \/ FetchProc \/ FetchFnReturn \/ FetchNext
  PROVE  AddressesKept'
<1>1. /\ phase = "idle" /\ suspended' = suspended /\ fn_stack' = fn_stack
      /\ next' = next /\ stmt' = pc /\ pc' = next[pc]
  BY DEF FetchStatement, FetchProc, FetchFnReturn, FetchNext, Fetch, calls
<1>2. phase' # "done" \/ status' # "exit"
  BY DEF FetchStatement, FetchProc, FetchFnReturn, FetchNext, Evaluate, Refuse
<1>3. Sound
  BY <1>1 DEF Sound, Failing
<1> QED BY <1>1, <1>2, <1>3, KeptWithin DEF Delivering

(* Evaluating keeps the addresses of returns.                              *)
LEMMA KeptEval ==
  ASSUME TypeInv, ReturnsKept, HandlerFree, outcome = "running", Sound',
         EvalLeaf \/ EvalFn \/ CallFails
  PROVE  AddressesKept'
<1>1. /\ phase = "busy" /\ phase' = "busy" /\ prog' = prog /\ stmt' = stmt
      /\ suspended' = suspended /\ fn_stack' = fn_stack /\ next' = next
      /\ pc' = pc /\ work \in Seq(WorkItem(prog)) /\ work # <<>>
  BY DEF EvalLeaf, EvalFn, CallFails, Evaluating, ArgsReady, outer, calls,
         TypeInv, TypeOK, TypeActivation
<1>2. ~Failing(work')
  BY <1>1 DEF Sound
<1>3. ~Failing(work)
  <2>1. CASE EvalLeaf \/ EvalFn
    <3>1. Top(work).rest # <<>>
      BY <2>1 DEF EvalLeaf, EvalFn, Evaluating
    <3>2. CASE EvalLeaf
      <4> DEFINE ok == Operands.kind \notin {"bad", "mute"}
      <4>1. ok \in BOOLEAN /\ work' = ReplaceTop(work, Advance(Top(work), ok))
        BY <3>2 DEF EvalLeaf
      <4> HIDE DEF ok
      <4> QED BY <1>1, <1>2, <3>1, <4>1, FailingReplaceTop
    <3>3. CASE EvalFn
      <4> DEFINE c == prog.calls[Operands.call]
                 x == ArgsWork(c.callee, c.args)
      <4>1. CASE c.callee = NULL
        <5>1. work' = ReplaceTop(work, Advance(Top(work), FALSE))
          BY <3>3, <4>1 DEF EvalFn
        <5> QED BY <1>1, <1>2, <3>1, <5>1, FailingReplaceTop
      <4>2. CASE c.callee # NULL
        <5>1. work' = Append(work, x)
          BY <3>3, <4>2 DEF EvalFn
        <5> HIDE DEF x
        <5>2. /\ Len(work') = Len(work) + 1 /\ Len(work) \in Nat
              /\ \A i \in 1..Len(work) : work'[i] = work[i]
          BY <1>1, <5>1
        <5> QED BY <1>2, <5>2 DEF Failing
      <4> QED BY <4>1, <4>2
    <3> QED BY <2>1, <3>2, <3>3
  <2>2. CASE CallFails
    <3>1. work' = ReplaceTop(Pop(work), Advance(Top(Pop(work)), FALSE))
      BY <2>2 DEF CallFails
    <3>2. /\ Pop(work) \in Seq(WorkItem(prog)) /\ Pop(work) # <<>>
          /\ Top(Pop(work)).rest # <<>>
      BY <2>2, ArgsReadyType DEF CallFails, WorkOK
    <3> QED BY <1>2, <3>1, <3>2, FailingReplaceTop
  <2> QED BY <2>1, <2>2
<1>4. Sound
  BY <1>1, <1>3 DEF Sound
<1>5. pc = next[stmt]
  BY <1>1, <1>4 DEF ReturnsKept, AddressesKept
<1> QED BY <1>1, <1>4, <1>5, KeptWithin DEF Delivering

(* A call keeps the addresses of returns, and adds its own.                *)
LEMMA KeptCall ==
  ASSUME TypeInv, ReturnsKept, HandlerFree, outcome = "running", Sound', CallFn
  PROVE  AddressesKept'
<1> DEFINE n == Len(prog.stmts)
           c == Caller
<1>1. /\ phase = "busy" /\ phase' = "idle" /\ next' = next
      /\ suspended' = Append(suspended, c) /\ fn_stack' = Append(fn_stack, pc)
      /\ ~Top(work).failed
  BY DEF CallFn, ArgsReady, PushFunction, BoundWith
<1>2. /\ suspended \in Seq(Suspended(prog)) /\ fn_stack \in Seq(0..n)
      /\ pc \in 0..n
  BY StackType DEF TypeInv, TypeOK, TypeActivation, TypeProgram
<1>3. /\ Len(suspended') = Len(suspended) + 1
      /\ suspended'[Len(suspended) + 1] = c
      /\ \A i \in 1..Len(suspended) : suspended'[i] = suspended[i]
      /\ Len(suspended) \in Nat
  <2> HIDE DEF c
  <2> QED BY <1>1, <1>2
<1>4. /\ Len(fn_stack') = Len(fn_stack) + 1 /\ Len(fn_stack) \in Nat
      /\ fn_stack'[Len(fn_stack) + 1] = pc
      /\ \A i \in 1..Len(fn_stack) : fn_stack'[i] = fn_stack[i]
  BY <1>1, <1>2, AppendType
<1>5. c.stmt = stmt /\ c.work = Pop(work)
  BY DEF Caller
<1> HIDE DEF c, n
<1>6. Sound
  <2>1. ~Failing(Pop(work)) /\ \A i \in 1..Len(suspended) : ~Failing(suspended[i].work)
    <3>1. \A i \in 1..(Len(suspended) + 1) : ~Failing(suspended'[i].work)
      BY <1>3 DEF Sound
    <3>2. Len(suspended) + 1 \in 1..(Len(suspended) + 1)
      BY <1>3
    <3>3. \A i \in 1..Len(suspended) : i \in 1..(Len(suspended) + 1)
      BY <1>3
    <3> QED BY <1>3, <1>5, <3>1, <3>2, <3>3
  <2>2. ~Failing(work)
    <3> SUFFICES ASSUME Failing(work) PROVE FALSE
      OBVIOUS
    <3>1. work \in Seq(WorkItem(prog)) /\ Len(work) > 1 /\ work # <<>>
      BY ArgsReadyType, EmptySeq DEF CallFn
    <3>2. PICK i \in 1..Len(work) : work[i].failed
      BY DEF Failing
    <3>3. i \in 1..(Len(work) - 1)
      BY <1>1, <3>1, <3>2 DEF Top
    <3>4. i \in 1..Len(Pop(work)) /\ Pop(work)[i] = work[i]
      BY <3>1, <3>3, PopNonEmpty
    <3> QED BY <2>1, <3>2, <3>4 DEF Failing
  <2> QED BY <1>1, <2>1, <2>2 DEF Sound
<1>7. AddressesKept /\ ~Delivering /\ ~Delivering'
  BY <1>1, <1>6 DEF ReturnsKept, Delivering
<1>8. Len(fn_stack) = Len(suspended) /\ pc = next[stmt]
  BY <1>1, <1>7 DEF AddressesKept
<1>9. ASSUME NEW i \in 1..Len(fn_stack') PROVE fn_stack'[i] = next'[suspended'[i].stmt]
  <2>1. CASE i = Len(fn_stack) + 1
    BY <1>1, <1>3, <1>4, <1>5, <1>8, <2>1
  <2>2. CASE i # Len(fn_stack) + 1
    <3>1. i \in 1..Len(fn_stack)
      BY <1>4, <2>2
    <3>2. fn_stack[i] = next[suspended[i].stmt]
      BY <1>7, <3>1 DEF AddressesKept
    <3> QED BY <1>1, <1>3, <1>4, <1>8, <3>1, <3>2
  <2> QED BY <2>1, <2>2
<1> QED BY <1>1, <1>3, <1>4, <1>7, <1>8, <1>9 DEF AddressesKept

(* A statement takes only the addresses it returns to.                     *)
LEMMA KeptExec ==
  ASSUME TypeInv, ReturnsKept, HandlerFree, outcome = "running", Sound', Exec
  PROVE  AddressesKept'
<1> DEFINE n == Len(prog.stmts)
<1>1. PICK st \in Statuses :
        /\ Complete(st)
        /\ Stmt(stmt).op = "fnreturn" => ExecFnReturn
  BY ExecCompletes
<1>2. /\ prog' = prog /\ suspended' = suspended /\ stmt' = stmt
      /\ phase' = "done" /\ status' = st
  BY <1>1 DEF Complete, outer
<1>3. phase = "busy" /\ Len(work) = 1 /\ stmt \in Addresses
  BY ExecReady, ReadyType DEF Ready
<1>4. ~work[1].failed
  BY <1>2, FailedExec DEF Sound
<1>5. Sound
  BY <1>2, <1>3, <1>4 DEF Sound, Failing
<1>6. AddressesKept /\ ~Delivering
  BY <1>3, <1>5 DEF ReturnsKept, Delivering
<1>7. next' = next
  <2>1. ~ExecOnError
    BY <1>3 DEF ExecOnError, Succeeds, Ready, HandlerFree
  <2> QED BY <2>1 DEF Exec, ExecFails, ExecEval, ExecLocal, ExecEnd, ExecIf,
                      ExecGoto, ExecOn, Branching, ExecReturn, ExecFor,
                      ExecNext, ExecRepeat, ExecUntil, ExecProc, ExecEndproc,
                      ExecFnReturn
<1>8. CASE Stmt(stmt).op # "fnreturn"
  <2>1. ~Delivering'
    BY <1>2, <1>8 DEF Delivering, Stmt
  <2>2. ~ExecFnReturn
    BY <1>8 DEF ExecFnReturn, Ready
  <2>3. fn_stack' = fn_stack
    BY <2>2 DEF Exec, ExecFails, ExecEval, ExecLocal, ExecEnd, ExecIf, ExecGoto,
                ExecOn, Branching, ExecReturn, ExecFor, ExecNext, ExecRepeat,
                ExecUntil, ExecOnError, ExecProc, ExecEndproc, calls
  <2> QED BY <1>2, <1>5, <1>6, <1>7, <2>1, <2>3, KeptWithin
<1>9. CASE Stmt(stmt).op = "fnreturn"
  <2>1. /\ fn_stack # <<>> /\ fn_stack' = Pop(fn_stack) /\ pc' = Top(fn_stack)
        /\ status' = "exit"
    BY <1>1, <1>4, <1>9 DEF ExecFnReturn, PopFrame, Complete
  <2>2. Delivering'
    BY <1>2, <1>9, <2>1 DEF Delivering, Stmt
  <2>3. /\ Len(fn_stack) = Len(suspended)
        /\ \A i \in 1..Len(fn_stack) : fn_stack[i] = next[suspended[i].stmt]
    BY <1>6 DEF AddressesKept
  <2>4. /\ Len(fn_stack') = Len(fn_stack) - 1 /\ Len(fn_stack) \in Nat \ {0}
        /\ \A i \in 1..(Len(fn_stack) - 1) : fn_stack'[i] = fn_stack[i]
    BY <2>1, StackType, PopNonEmpty
  <2>5. suspended # <<>>
    BY <2>3, <2>4, EmptySeq
  <2> QED BY <1>2, <1>7, <2>1, <2>2, <2>3, <2>4, <2>5 DEF AddressesKept, Top
<1> QED BY <1>8, <1>9

(* The second test of a NEXT keeps the addresses of returns.               *)
LEMMA KeptNextLimit ==
  ASSUME TypeInv, ReturnsKept, HandlerFree, outcome = "running", Sound', NextLimit
  PROVE  AddressesKept'
<1>1. phase = "busy" /\ ~Delivering
  BY DEF NextLimit, Delivering
<1>2. ~Top(work).failed
  BY DEF NextLimit, Complete, Sound
<1>3. /\ work' = Pop(work) /\ Len(work) = 2
      /\ UNCHANGED <<prog, suspended, fn_stack, next, pc, stmt, phase, status>>
  BY <1>2 DEF NextLimit, outer, calls
<1>4. ~Failing(work)
  <2> SUFFICES ASSUME Failing(work) PROVE FALSE
    OBVIOUS
  <2>1. work \in Seq(WorkItem(prog)) /\ work # <<>>
    BY <1>1, <1>3 DEF TypeInv, TypeOK, TypeActivation
  <2>2. PICK i \in 1..Len(work) : work[i].failed
    BY DEF Failing
  <2>3. i \in 1..(Len(work) - 1)
    BY <1>2, <1>3, <2>2 DEF Top
  <2>4. i \in 1..Len(Pop(work)) /\ Pop(work)[i] = work[i]
    BY <2>1, <2>3, PopNonEmpty
  <2>5. Failing(work')
    BY <1>3, <2>2, <2>4 DEF Failing
  <2> QED BY <1>1, <1>3, <2>5 DEF Sound
<1>5. Sound
  BY <1>1, <1>3, <1>4 DEF Sound
<1>6. pc = next[stmt]
  BY <1>1, <1>5 DEF ReturnsKept, AddressesKept
<1> QED BY <1>1, <1>3, <1>5, <1>6, KeptWithin DEF Delivering

(* run_statements returns to expr_eval_fn.                                 *)
LEMMA KeptResume ==
  ASSUME TypeInv, ReturnsKept, HandlerFree, outcome = "running", Sound',
         NEW st, NEW register, Resume(st, register),
         phase = "done" => status = st,
         Len(return_stack) = IF Delivering THEN 1 ELSE 0
  PROVE  AddressesKept'
<1> DEFINE m == Len(suspended)
           caller == Top(suspended)
           ok == st = "exit"
<1>1. /\ suspended # <<>> /\ suspended' = Pop(suspended) /\ phase' = "busy"
      /\ stmt' = caller.stmt /\ next' = next /\ pc' = pc /\ fn_stack' = fn_stack
      /\ work' = ReplaceTop(caller.work, Advance(Top(caller.work), ok))
      /\ ok => return_stack # <<>>
  BY DEF Resume, calls
<1>2. suspended \in Seq(Suspended(prog))
  BY DEF TypeInv, TypeOK, TypeActivation
<1>3. /\ m \in Nat \ {0} /\ Len(suspended') = m - 1 /\ caller \in Suspended(prog)
      /\ \A i \in 1..(m - 1) : suspended'[i] = suspended[i]
      /\ caller = suspended[m]
  BY <1>1, <1>2, PopNonEmpty DEF Top
<1>4. caller.work \in Seq(WorkItem(prog)) /\ caller.work # <<>> /\ Top(caller.work).rest # <<>>
  BY <1>1, <1>3 DEF TypeInv, TypeOK, TypeActivation, Waiting, WorkOK, Suspended
<1> HIDE DEF m, caller
<1>5. ok /\ ~Failing(caller.work)
  <2>1. ~Failing(work')
    BY <1>1 DEF Sound
  <2> HIDE DEF ok
  <2>2. ok \in BOOLEAN
    BY DEF ok
  <2> QED BY <1>1, <1>4, <2>1, <2>2, FailingReplaceTop
<1>6. Delivering
  BY <1>1, <1>5, EmptySeq
<1>7. Sound
  <2>1. \A i \in 1..m : ~Failing(suspended[i].work)
    <3> SUFFICES ASSUME NEW i \in 1..m PROVE ~Failing(suspended[i].work)
      OBVIOUS
    <3>1. CASE i = m
      BY <1>3, <1>5, <3>1
    <3>2. CASE i # m
      <4>1. i \in 1..(m - 1)
        BY <1>3, <3>2
      <4> QED BY <1>3, <4>1 DEF Sound
    <3> QED BY <3>1, <3>2
  <2> QED BY <1>6, <2>1 DEF Sound, Delivering, m
<1>8. AddressesKept
  BY <1>7 DEF ReturnsKept
<1>9. /\ Len(fn_stack) = m - 1 /\ pc = next[caller.stmt]
      /\ \A i \in 1..Len(fn_stack) : fn_stack[i] = next[suspended[i].stmt]
  BY <1>6, <1>8 DEF AddressesKept, m, caller
<1>10. ~Delivering'
  BY <1>1 DEF Delivering
<1> QED BY <1>1, <1>3, <1>9, <1>10 DEF AddressesKept

(* Every step keeps the addresses of returns.                              *)
LEMMA KeptStep ==
  ASSUME TypeInv, HandlerOff, ReturnLeaves, ValueHandedOver, ReturnsKept, [Next]_vars
  PROVE  ReturnsKept'
<1> SUFFICES ASSUME HandlerFree, outcome = "running", outcome' = "running", Sound'
             PROVE  AddressesKept'
  <2>1. HandlerFree' => HandlerFree
    BY ProgConstant DEF HandlerFree, Addresses, Stmt
  <2>2. outcome' = "running" => outcome = "running"
    <3>1. CASE CallOrReturn
      BY <3>1, ExecReady DEF CallOrReturn, CallFn, ArgsReady, Exec, Ready
    <3> QED BY <3>1, CallKinds
  <2> QED BY <2>1, <2>2 DEF ReturnsKept
<1>1. CASE FetchStatement \/ FetchProc \/ FetchFnReturn \/ FetchNext
  BY <1>1, KeptFetch
<1>2. CASE EvalLeaf \/ EvalFn \/ CallFails
  BY <1>2, KeptEval
<1>3. CASE CallFn
  BY <1>3, KeptCall
<1>4. CASE Exec
  BY <1>4, KeptExec
<1>5. CASE NextLimit
  BY <1>5, KeptNextLimit
<1>6. CASE FrameUnderflow \/ NextAborts \/ MemoryExhausted
  BY <1>6 DEF FrameUnderflow, NextAborts, MemoryExhausted, Abort
<1>7. CASE UNCHANGED <<prog, suspended, fn_stack, next, pc, stmt, phase, status, work>>
  <2>1. Sound
    BY <1>7 DEF Sound, Failing
  <2> QED BY <1>7, <2>1 DEF ReturnsKept, AddressesKept, Delivering, Stmt, Top
<1>8. CASE Signal \/ Stopped \/ UNCHANGED vars
  BY <1>7, <1>8 DEF Signal, Stopped, vars, calls
<1>9. CASE CatchError
  BY <1>9 DEF CatchError, Caught, HandlerOff
<1>10. CASE Continue
  <2>1. /\ phase = "done" /\ status = "ok" /\ phase' = "idle"
        /\ UNCHANGED <<prog, suspended, fn_stack, next>>
    BY <1>10 DEF Continue, Inspecting, outer, calls
  <2>2. Sound /\ ~Delivering /\ ~Delivering'
    BY <2>1 DEF Sound, Delivering, Failing
  <2> QED BY <2>1, <2>2, KeptWithin
<1>11. CASE BreakInterrupted \/ BreakStatus \/ RunOff
  <2>1. \E st, register : /\ Leave(st, register)
                          /\ phase = "done" => status = st
    BY <1>11 DEF BreakInterrupted, BreakStatus, RunOff
  <2>2. PICK st, register : /\ Leave(st, register)
                            /\ phase = "done" => status = st
    BY <2>1
  <2>3. ~EndProgram(st, register) /\ ~NoValue(st)
    BY DEF EndProgram, Outcome, NoValue, Abort
  <2>4. Len(return_stack) = IF Delivering THEN 1 ELSE 0
    BY ValueIsDelivering
  <2> QED BY <2>2, <2>3, <2>4, KeptResume DEF Leave
<1> QED BY <1>1, <1>2, <1>3, <1>4, <1>5, <1>6, <1>8, <1>9, <1>10, <1>11
        DEF Next, Step, Exec

(* Only a return to expr_eval_fn makes the suspended activations fewer.    *)
LEMMA ResumeKinds ==
  ASSUME TypeInv, [Next]_vars, Len(suspended') < Len(suspended)
  PROVE  /\ outcome = "running"
         /\ \E st, register : /\ Resume(st, register)
                              /\ status # "unset" => st = status
<1>1. Len(suspended) \in Nat
  BY DEF TypeInv, TypeOK, TypeActivation
<1>2. suspended' # suspended
  BY <1>1
<1>3. CASE FetchStatement \/ FetchProc \/ FetchFnReturn \/ FetchNext
  BY <1>2, <1>3 DEF FetchStatement, FetchProc, FetchFnReturn, FetchNext, Fetch
<1>4. CASE EvalLeaf \/ EvalFn \/ CallFails
  BY <1>2, <1>4 DEF EvalLeaf, EvalFn, CallFails, outer
<1>5. CASE CallFn
  <2>1. suspended' = Append(suspended, Caller)
    BY <1>5 DEF CallFn
  <2>2. Len(suspended') = Len(suspended) + 1
    BY <2>1 DEF TypeInv, TypeOK, TypeActivation
  <2> QED BY <1>1, <2>2
<1>6. CASE Exec
  BY <1>2, <1>6, ExecCompletes DEF Complete, outer
<1>7. CASE NextLimit
  BY <1>2, <1>7 DEF NextLimit, Complete, outer
<1>8. CASE FrameUnderflow \/ NextAborts \/ MemoryExhausted \/ Signal \/ Stopped
  BY <1>2, <1>8 DEF FrameUnderflow, NextAborts, MemoryExhausted, Signal,
                    Stopped, Abort, vars
<1>9. CASE CatchError \/ Continue
  BY <1>2, <1>9 DEF CatchError, Continue, outer
<1>10. CASE BreakInterrupted \/ BreakStatus \/ RunOff
  <2>1. \E st, register : /\ Leave(st, register) /\ outcome = "running"
                          /\ status # "unset" => st = status
    BY <1>10 DEF BreakInterrupted, BreakStatus, RunOff, Inspecting
  <2>2. ASSUME NEW st, NEW register, Leave(st, register) PROVE Resume(st, register)
    BY <1>2, <2>2 DEF Leave, EndProgram, NoValue, Abort
  <2> QED BY <2>1, <2>2
<1>11. CASE UNCHANGED vars
  BY <1>2, <1>11 DEF vars
<1> QED BY <1>3, <1>4, <1>5, <1>6, <1>7, <1>8, <1>9, <1>10, <1>11
        DEF Next, Step, Exec

(* Without ON ERROR a function that hands back a value leaves the program  *)
(* counter at the statement after its caller, whatever GOSUBs, loops and   *)
(* calls it has left unfinished, unless the caller is bound to fail.       *)
THEOREM CallersGoOn == Spec => FnReturnRestoresPc
<1> DEFINE Inv == /\ TypeInv /\ HandlerOff /\ ReturnLeaves /\ ErrorPlace
                  /\ ValueHandedOver /\ ReturnsKept
<1>1. Init => Inv
  <2>1. Init => TypeInv /\ HandlerOff /\ ReturnLeaves /\ ErrorPlace /\ ValueHandedOver
    BY TypeInit, DepthInit, EmptySeq DEF Init, ErrorPlace, ValueHandedOver
  <2>2. Init => ReturnsKept
    BY EmptySeq DEF Init, ReturnsKept, AddressesKept, Delivering
  <2> QED BY <2>1, <2>2
<1>2. Inv /\ [Next]_vars => Inv'
  BY TypeStep, HandlerOffStep, ReturnLeavesStep, ErrorPlaceStep, ValueStep, KeptStep
<1> DEFINE A == /\ HandlerFree
                /\ Len(suspended') < Len(suspended) /\ status = "exit"
                /\ \A i \in 1..Len(suspended) : ~Failing(suspended[i].work)
                => pc = next[Top(suspended).stmt]
<1>3. Inv /\ [Next]_vars => [A]_vars
  <2> SUFFICES ASSUME Inv, [Next]_vars, HandlerFree,
                      Len(suspended') < Len(suspended), status = "exit",
                      \A i \in 1..Len(suspended) : ~Failing(suspended[i].work)
               PROVE  pc = next[Top(suspended).stmt]
    OBVIOUS
  <2>1. outcome = "running"
    BY ResumeKinds
  <2>2. PICK st, register : /\ Resume(st, register)
                            /\ status # "unset" => st = status
    BY ResumeKinds
  <2>3. Len(return_stack) = IF Delivering THEN 1 ELSE 0
    BY <2>1, ValueIsDelivering
  <2>4. st = "exit" /\ return_stack # <<>>
    BY <2>2 DEF Resume
  <2>5. Delivering
    BY <2>3, <2>4, EmptySeq
  <2>6. Sound
    BY <2>5 DEF Sound, Delivering
  <2> QED BY <2>1, <2>5, <2>6 DEF ReturnsKept, AddressesKept
<1>4. [][A]_vars <=> FnReturnRestoresPc
  BY PTL DEF FnReturnRestoresPc
<1> QED BY <1>1, <1>2, <1>3, PTL DEF Spec, FnReturnRestoresPc

-----------------------------------------------------------------------------
(* Ctrl-C.                                                                 *)

(* After Ctrl-C a program that ends once a statement is done ends with     *)
(* Escape, whatever that statement returned, or because there is no value  *)
(* for the call that waits for one.                                        *)
THEOREM EscapeWins == Spec => InterruptWins
<1> DEFINE A == interrupt /\ phase = "done" /\ outcome' # outcome
                => \/ outcome' = "error" /\ error_register'.code = "Escape"
                   \/ outcome' = "abort: runtime stack empty"
<1>1. [Next]_vars => [A]_vars
  <2> SUFFICES ASSUME [Next]_vars, interrupt, phase = "done", outcome' # outcome
               PROVE  \/ outcome' = "error" /\ error_register'.code = "Escape"
                      \/ outcome' = "abort: runtime stack empty"
    OBVIOUS
  <2>1. CASE FetchStatement \/ FetchProc \/ FetchFnReturn \/ FetchNext
    BY <2>1 DEF FetchStatement, FetchProc, FetchFnReturn, FetchNext, Fetch
  <2>2. CASE EvalLeaf \/ EvalFn \/ CallFails \/ CallFn
    BY <2>2 DEF EvalLeaf, EvalFn, CallFails, CallFn, Evaluating, ArgsReady
  <2>3. CASE Exec
    BY <2>3, ExecReady DEF Ready
  <2>4. CASE NextLimit \/ FrameUnderflow \/ NextAborts \/ MemoryExhausted
    BY <2>4 DEF NextLimit, FrameUnderflow, NextAborts, MemoryExhausted, Ready
  <2>5. CASE Signal \/ Stopped
    BY <2>5 DEF Signal, Stopped, vars
  <2>6. CASE CatchError \/ Continue
    BY <2>6 DEF CatchError, Continue, outer
  <2>7. CASE BreakInterrupted
    <3>1. CASE EndProgram(status, Escape)
      BY <3>1 DEF EndProgram, Outcome, Escape
    <3>2. CASE Resume(status, Escape)
      BY <3>2 DEF Resume
    <3>3. CASE NoValue(status)
      BY <3>3 DEF NoValue, Abort
    <3> QED BY <2>7, <3>1, <3>2, <3>3 DEF BreakInterrupted, Leave
  <2>8. CASE BreakStatus \/ RunOff
    BY <2>8 DEF BreakStatus, RunOff
  <2>9. CASE UNCHANGED vars
    BY <2>9 DEF vars
  <2> QED BY <2>1, <2>2, <2>3, <2>4, <2>5, <2>6, <2>7, <2>8, <2>9
          DEF Next, Step, Exec
<1> QED BY <1>1, PTL DEF Spec, InterruptWins

-----------------------------------------------------------------------------
(* Loops, for every program of properly nested loops.  Where the           *)
(* properties find the end of a loop by counting, the proofs have the      *)
(* function end that ProperlyNested provides; at the end the two are shown *)
(* to agree.                                                               *)

-----------------------------------------------------------------------------
(* Stacks in increasing order.                                             *)

(* A stack that holds a set in order, with a larger address on top.        *)
LEMMA HoldsAppend ==
  ASSUME NEW S \in SUBSET Nat, NEW s \in Seq(S), NEW A, Holds(s, A),
         NEW x \in S, \A y \in A : y < x
  PROVE  Holds(Append(s, x), A \cup {x})
<1> DEFINE t == Append(s, x)
<1>1. /\ t \in Seq(S) /\ Len(t) = Len(s) + 1 /\ t[Len(s) + 1] = x
      /\ \A i \in 1..Len(s) : t[i] = s[i]
      /\ Len(s) \in Nat
  BY AppendType
<1> HIDE DEF t
<1>2. DOMAIN s = 1..Len(s) /\ DOMAIN t = 1..(Len(s) + 1)
  BY <1>1
<1>3. \A i \in 1..Len(s) : s[i] \in A
  BY <1>2 DEF Holds
<1>4. \A i, j \in DOMAIN t : i < j => t[i] < t[j]
  <2> SUFFICES ASSUME NEW i \in DOMAIN t, NEW j \in DOMAIN t, i < j
               PROVE  t[i] < t[j]
    OBVIOUS
  <2>1. i \in 1..Len(s) /\ t[i] = s[i]
    BY <1>1, <1>2
  <2>2. CASE j = Len(s) + 1
    BY <1>1, <1>3, <2>1, <2>2
  <2>3. CASE j # Len(s) + 1
    <3>1. j \in 1..Len(s) /\ t[j] = s[j]
      BY <1>1, <1>2, <2>3
    <3> QED BY <1>2, <2>1, <3>1 DEF Holds
  <2> QED BY <2>2, <2>3
<1>5. {t[i] : i \in DOMAIN t} = A \cup {x}
  <2>1. \A i \in DOMAIN t : t[i] \in A \cup {x}
    <3> TAKE i \in DOMAIN t
    <3>1. i = Len(s) + 1 \/ i \in 1..Len(s)
      BY <1>1, <1>2
    <3> QED BY <3>1, <1>1, <1>3
  <2>2. \A y \in A : \E i \in DOMAIN t : y = t[i]
    <3> TAKE y \in A
    <3>1. PICK i \in DOMAIN s : y = s[i]
      BY DEF Holds
    <3>2. i \in DOMAIN t /\ t[i] = s[i]
      BY <1>1, <1>2
    <3> QED BY <3>1, <3>2
  <2>3. Len(s) + 1 \in DOMAIN t /\ x = t[Len(s) + 1]
    BY <1>1, <1>2
  <2> QED BY <2>1, <2>2, <2>3
<1> QED BY <1>4, <1>5 DEF Holds, t

(* The greatest of the loops is on top, and popping removes it.            *)
LEMMA HoldsTop ==
  ASSUME NEW S \in SUBSET Nat, NEW s \in Seq(S), NEW A, Holds(s, A),
         NEW m \in A, \A y \in A : y <= m
  PROVE  /\ s # <<>>
         /\ Top(s) = m
         /\ Holds(Pop(s), A \ {m})
<1>1. PICK k \in DOMAIN s : s[k] = m
  BY DEF Holds
<1>2. s # <<>>
  BY <1>1, EmptySeq
<1>3. /\ Len(s) \in Nat \ {0} /\ Pop(s) \in Seq(S)
      /\ Len(Pop(s)) = Len(s) - 1 /\ \A i \in 1..(Len(s) - 1) : Pop(s)[i] = s[i]
  BY <1>2, PopNonEmpty
<1> DEFINE t == Pop(s)
<1> HIDE DEF t
<1>4. DOMAIN s = 1..Len(s) /\ DOMAIN t = 1..(Len(s) - 1)
  BY <1>3 DEF t
<1>5. \A i \in DOMAIN s : s[i] \in A /\ s[i] \in Nat
  <2>1. \A i \in DOMAIN s : s[i] \in A
    BY DEF Holds
  <2>2. \A i \in 1..Len(s) : s[i] \in S
    OBVIOUS
  <2> QED BY <1>4, <2>1, <2>2
<1>6. k = Len(s)
  <2> SUFFICES ASSUME k # Len(s) PROVE FALSE
    OBVIOUS
  <2>1. k < Len(s) /\ Len(s) \in DOMAIN s
    BY <1>3, <1>4
  <2>2. s[k] < s[Len(s)]
    BY <2>1 DEF Holds
  <2> QED BY <1>1, <1>5, <2>1, <2>2
<1>7. \A i \in DOMAIN t : i \in DOMAIN s /\ i < k /\ t[i] = s[i]
  BY <1>3, <1>4, <1>6 DEF t
<1>8. \A i, j \in DOMAIN t : i < j => t[i] < t[j]
  BY <1>7 DEF Holds
<1>9. {t[i] : i \in DOMAIN t} = A \ {m}
  <2>1. \A i \in DOMAIN t : t[i] \in A /\ t[i] # m
    <3> TAKE i \in DOMAIN t
    <3>1. s[i] < s[k]
      BY <1>7 DEF Holds
    <3> QED BY <1>1, <1>5, <1>7, <3>1
  <2>2. \A y \in A \ {m} : \E i \in DOMAIN t : y = t[i]
    <3> TAKE y \in A \ {m}
    <3>1. PICK i \in DOMAIN s : y = s[i]
      BY DEF Holds
    <3>2. i \in DOMAIN t
      BY <1>1, <1>3, <1>4, <1>6, <3>1
    <3> QED BY <1>7, <3>1, <3>2
  <2> QED BY <2>1, <2>2
<1> QED BY <1>1, <1>2, <1>6, <1>8, <1>9 DEF Holds, Top, t

-----------------------------------------------------------------------------
(* The loops around an address, when end gives the end of every loop.      *)

Nested(p, end) ==
  /\ ProperlyNested(p) /\ IsProgram(p)
  /\ end \in [Opens(p) -> Closes(p)] /\ Pairs(p, end)

Around(p, end, a, op) ==
  {o \in Opens(p) : p.stmts[o].op = op /\ o < a /\ a <= end[o]}

(* A statement follows another one, and loops do not cross.                *)
LEMMA NestedFacts ==
  ASSUME NEW p, NEW end, Nested(p, end)
  PROVE  /\ Len(p.stmts) \in Nat
         /\ Opens(p) \subseteq 1..Len(p.stmts) /\ Closes(p) \subseteq 1..Len(p.stmts)
         /\ Opens(p) \cap Closes(p) = {}
         /\ \A o \in Opens(p) : end[o] \in Closes(p) /\ o < end[o]
         /\ \A o, i \in Opens(p) : o < i /\ i < end[o] => end[i] < end[o]
         /\ \A c \in Closes(p) : \E o \in Opens(p) : end[o] = c
         /\ \A o, i \in Opens(p) : end[o] = end[i] => o = i
<1>1. Len(p.stmts) \in Nat
  <2>1. p.stmts \in Seq(Statement(Len(p.stmts), Len(p.calls)))
    BY DEF Nested, IsProgram
  <2> QED BY <2>1
<1>2. /\ Opens(p) \subseteq 1..Len(p.stmts) /\ Closes(p) \subseteq 1..Len(p.stmts)
      /\ Opens(p) \cap Closes(p) = {}
  BY DEF Opens, Closes
<1>3. /\ \A o \in Opens(p) : end[o] \in Closes(p) /\ o < end[o]
      /\ \A o, i \in Opens(p) : o < i /\ i < end[o] => end[i] < end[o]
      /\ \A c \in Closes(p) : \E o \in Opens(p) : end[o] = c
  BY DEF Nested, Pairs
<1>4. ASSUME NEW o \in Opens(p), NEW i \in Opens(p), o < i PROVE end[o] # end[i]
  <2>1. o \in Int /\ i \in Int /\ end[o] \in Int /\ end[i] \in Int /\ i < end[i]
    BY <1>2, <1>3
  <2> QED BY <1>3, <1>4, <2>1
<1>5. \A o, i \in Opens(p) : end[o] = end[i] => o = i
  <2> TAKE o, i \in Opens(p)
  <2>1. o \in Int /\ i \in Int
    BY <1>2
  <2> QED BY <1>4, <2>1
<1> QED BY <1>1, <1>2, <1>3, <1>5

(* The statements that open loops are statements.                          *)
LEMMA LoopOps == "for" \in Ops /\ "repeat" \in Ops
BY DEF Ops

(* A statement that neither opens nor closes a loop is not in the way.     *)
LEMMA AroundPlain ==
  ASSUME NEW p, NEW end, Nested(p, end), NEW op \in Ops,
         NEW a \in 1..Len(p.stmts), a \notin Opens(p), a \notin Closes(p)
  PROVE  Around(p, end, a + 1, op) = Around(p, end, a, op)
<1>1. \A o \in Opens(p) : o \in Int /\ end[o] \in Int /\ o # a /\ end[o] # a
  BY NestedFacts
<1>2. \A o \in Opens(p) : o < a + 1 /\ a + 1 <= end[o] <=> o < a /\ a <= end[o]
  BY <1>1
<1> QED BY <1>2 DEF Around

(* After a statement that opens a loop, that loop is one more around.      *)
LEMMA AroundOpen ==
  ASSUME NEW p, NEW end, Nested(p, end), NEW op \in Ops, NEW a \in Opens(p)
  PROVE  /\ p.stmts[a].op = op
              => Around(p, end, a + 1, op) = Around(p, end, a, op) \cup {a}
         /\ p.stmts[a].op # op
              => Around(p, end, a + 1, op) = Around(p, end, a, op)
<1>1. a \in Int
  BY NestedFacts
<1>2. \A o \in Opens(p) : o \in Int /\ end[o] \in Int /\ end[o] # a /\ o < end[o]
  BY NestedFacts
<1>3. \A o \in Opens(p) :
        o < a + 1 /\ a + 1 <= end[o] <=> o = a \/ (o < a /\ a <= end[o])
  BY <1>1, <1>2
<1> QED BY <1>3 DEF Around

(* Every loop around the end of o but o itself began before o.             *)
LEMMA AroundEnd ==
  ASSUME NEW p, NEW end, Nested(p, end), NEW op \in Ops, NEW o \in Opens(p)
  PROVE  /\ p.stmts[o].op = op => o \in Around(p, end, end[o], op)
         /\ \A i \in Around(p, end, end[o], op) : i <= o
         /\ Around(p, end, end[o] + 1, op) = Around(p, end, end[o], op) \ {o}
         /\ Around(p, end, o + 1, op) = Around(p, end, end[o], op)
<1>1. /\ o \in Int /\ end[o] \in Int /\ o < end[o]
      /\ \A i \in Opens(p) : i \in Int /\ end[i] \in Int /\ i < end[i]
      /\ \A i \in Opens(p) : end[i] = end[o] => i = o
      /\ \A i \in Opens(p) : i # end[o] /\ o # end[i]
  BY NestedFacts
<1>2. \A i \in Opens(p) : o < i /\ i < end[o] => end[i] < end[o]
  BY NestedFacts
<1>3. \A i \in Opens(p) : i < o /\ o < end[i] => end[o] < end[i]
  BY NestedFacts
<1>4. \A i \in Around(p, end, end[o], op) : i <= o
  <2> TAKE i \in Around(p, end, end[o], op)
  <2>1. i \in Opens(p) /\ i < end[o] /\ end[o] <= end[i]
    BY DEF Around
  <2> QED BY <1>1, <1>2, <2>1
<1>5. p.stmts[o].op = op => o \in Around(p, end, end[o], op)
  BY <1>1 DEF Around
<1>6. \A i \in Opens(p) : i < end[o] + 1 /\ end[o] + 1 <= end[i]
                            <=> i < end[o] /\ end[o] <= end[i] /\ i # o
  BY <1>1
<1>7. \A i \in Opens(p) : i < o + 1 /\ o + 1 <= end[i]
                            <=> i < end[o] /\ end[o] <= end[i]
  <2> TAKE i \in Opens(p)
  <2>1. CASE i < o
    BY <1>1, <1>3, <2>1
  <2>2. CASE i = o
    BY <1>1, <2>2
  <2>3. CASE o < i
    BY <1>1, <1>2, <2>3
  <2> QED BY <1>1, <2>1, <2>2, <2>3
<1>8. Around(p, end, end[o] + 1, op) = Around(p, end, end[o], op) \ {o}
  BY <1>6 DEF Around
<1>9. Around(p, end, o + 1, op) = Around(p, end, end[o], op)
  BY <1>7 DEF Around
<1> QED BY <1>4, <1>5, <1>8, <1>9

-----------------------------------------------------------------------------
(* A program without calls and branches runs in one activation, along the  *)
(* links it was built with.                                                *)

PlainOps == {"eval", "null", "end"}

Straight ==
  /\ ProperlyNested(prog)
  /\ suspended = <<>> /\ error_stmt = NULL
  /\ \A a \in Addresses : next[a] = IF a < Len(prog.stmts) THEN a + 1 ELSE NULL

(* The statements of a program of plain loops.                             *)
LEMMA StraightStmt ==
  ASSUME Straight, NEW a \in Addresses
  PROVE  /\ Stmt(a).op \in {"repeat", "until", "for", "next"} \cup PlainOps
         /\ Stmt(a).sub1 = NULL
         /\ next[a] = IF a < Len(prog.stmts) THEN a + 1 ELSE NULL
BY DEF Straight, ProperlyNested, Addresses, Stmt, PlainOps

(* A program of nested loops is one of plain loops.                        *)
LEMMA StraightInit == Init /\ ProperlyNested(prog) => Straight
BY DEF Init, Straight, ProperlyNested, Addresses

(* A program of plain loops calls no function.                             *)
LEMMA NoCalls ==
  ASSUME TypeInv, Straight
  PROVE  ~EvalFn /\ ~CallFails /\ ~CallFn
<1>1. ASSUME EvalFn PROVE FALSE
  <2>1. phase = "busy" /\ Top(work).rest # <<>> /\ Operands.kind = "fn"
    BY <1>1 DEF EvalFn, Evaluating
  <2>2. work \in Seq(WorkItem(prog)) /\ work # <<>>
    BY <2>1 DEF TypeInv, TypeOK, TypeActivation
  <2>3. Top(work) \in WorkItem(prog)
    BY <2>2, PopNonEmpty
  <2>4. Operands \in Operand(Len(prog.calls))
    BY <2>1, <2>3, HeadTailProperties DEF WorkItem, Operands
  <2>5. Len(prog.calls) = 0
    BY DEF Straight, ProperlyNested
  <2> QED BY <2>1, <2>4, <2>5 DEF Operand, LeafKinds
<1>2. ASSUME ArgsReady PROVE FALSE
  <2>1. phase = "busy" /\ Len(work) > 1 /\ Top(work).kind = "args"
    BY <1>2 DEF ArgsReady
  <2>2. work \in Seq(WorkItem(prog)) /\ WorkOK(prog, stmt, work)
    BY <2>1 DEF TypeInv, TypeOK, TypeActivation
  <2>3. Len(work) \in 2..Len(work) /\ Len(work) \in 1..Len(work)
    BY <2>1, <2>2
  <2>4. Top(work) \in WorkItem(prog)
    BY <2>2, <2>3 DEF Top
  <2>5. Top(work).callee # NULL /\ Stmt(Top(work).callee).op = "deffn"
    BY <2>1, <2>2, <2>3 DEF WorkOK, Top, Stmt
  <2>6. Top(work).callee \in Addresses
    BY <2>4, <2>5 DEF WorkItem, Addresses, NULL
  <2> QED BY <2>5, <2>6, StraightStmt DEF PlainOps
<1> QED BY <1>1, <1>2 DEF CallFails, CallFn

(* A program of plain loops executes only plain statements and loops.      *)
LEMMA StraightExec ==
  ASSUME TypeInv, Straight, Exec
  PROVE  /\ stmt \in Addresses /\ phase = "busy" /\ outcome = "running"
         /\ \/ ExecFails \/ ExecEval \/ ExecEnd
            \/ ExecFor \/ ExecNext \/ ExecRepeat \/ ExecUntil
<1>1. stmt \in Addresses /\ phase = "busy" /\ outcome = "running"
  BY ExecReady, ReadyType DEF Ready
<1>2. Stmt(stmt).op \in {"repeat", "until", "for", "next"} \cup PlainOps
  BY <1>1, StraightStmt
<1>3. ASSUME NEW ops, Ready(ops),
             ops \cap ({"repeat", "until", "for", "next"} \cup PlainOps) = {}
      PROVE  FALSE
  BY <1>2, <1>3 DEF Ready
<1>4. ~ExecIf /\ ~ExecGoto /\ ~ExecOn /\ ~ExecReturn
  BY <1>3 DEF ExecIf, ExecGoto, ExecOn, ExecReturn, Branching, Succeeds, PlainOps
<1>5. /\ ~ExecProc /\ ~ExecEndproc /\ ~ExecFnReturn /\ ~ExecLocal
      /\ ~ExecOnError
  BY <1>3 DEF ExecProc, ExecEndproc, ExecFnReturn, ExecLocal, ExecOnError,
              Succeeds, PlainOps
<1> QED BY <1>1, <1>4, <1>5 DEF Exec

(* A program of plain loops stays one, and its links do not change.        *)
LEMMA StraightStep ==
  ASSUME TypeInv, Straight, [Next]_vars
  PROVE  Straight' /\ next' = next
<1>1. prog' = prog
  BY ProgConstant
<1> SUFFICES suspended' = suspended /\ error_stmt' = error_stmt /\ next' = next
  BY <1>1 DEF Straight, ProperlyNested, Opens, Closes, Addresses
<1>2. CASE FetchStatement \/ FetchProc \/ FetchFnReturn \/ FetchNext
  BY <1>2 DEF FetchStatement, FetchProc, FetchFnReturn, FetchNext, Fetch
<1>3. CASE EvalLeaf \/ NextLimit \/ CatchError \/ Continue
  BY <1>3 DEF EvalLeaf, NextLimit, Complete, CatchError, Continue, outer
<1>4. CASE Exec
  <2>1. suspended' = suspended
    BY <1>4, ExecCompletes DEF Complete, outer
  <2>2. UNCHANGED <<error_stmt, next>>
    BY <1>4, StraightExec DEF ExecFails, ExecEval, ExecEnd, ExecFor, ExecNext,
                              ExecRepeat, ExecUntil
  <2> QED BY <2>1, <2>2
<1>5. CASE FrameUnderflow \/ NextAborts \/ MemoryExhausted \/ Signal \/ Stopped
  BY <1>5 DEF FrameUnderflow, NextAborts, MemoryExhausted, Signal, Stopped,
              Abort, vars
<1>6. CASE BreakInterrupted \/ BreakStatus \/ RunOff
  <2>1. \E st, register : Leave(st, register)
    BY <1>6 DEF BreakInterrupted, BreakStatus, RunOff
  <2> QED BY <2>1 DEF Straight, Leave, EndProgram, Resume, NoValue, Abort, Unlinked
<1>7. CASE UNCHANGED vars
  BY <1>7 DEF vars
<1> QED BY <1>2, <1>3, <1>4, <1>5, <1>6, <1>7, NoCalls DEF Next, Step, Exec

-----------------------------------------------------------------------------
(* The loop stacks fors and repeats before the statement at address a: an  *)
(* UNTIL comes back to a REPEAT that is still on the stack.                *)

Lexical(p, end, a, fors, repeats) ==
  /\ Holds(fors, Around(p, end, a, "for"))
  /\ \/ Holds(repeats, Around(p, end, a, "repeat"))
     \/ /\ p.stmts[a].op = "repeat"
        /\ Holds(repeats, Around(p, end, a, "repeat") \cup {a})

(* The loops around a place begin before it.                               *)
LEMMA AroundType ==
  ASSUME NEW p, NEW end, Nested(p, end), NEW a \in Int, NEW op \in Ops
  PROVE  \A o \in Around(p, end, a, op) :
           o \in 1..Len(p.stmts) /\ o \in Opens(p) /\ o < a /\ p.stmts[o].op = op
BY NestedFacts DEF Around

(* A plain statement keeps the loop stacks lexical.                        *)
LEMMA LexicalPlain ==
  ASSUME NEW p, NEW end, Nested(p, end), NEW fors, NEW repeats,
         NEW a \in 1..Len(p.stmts), p.stmts[a].op \in PlainOps,
         Lexical(p, end, a, fors, repeats)
  PROVE  Lexical(p, end, a + 1, fors, repeats)
<1>1. a \notin Opens(p) /\ a \notin Closes(p) /\ p.stmts[a].op # "repeat"
  BY DEF Opens, Closes, PlainOps
<1>2. \A op \in {"for", "repeat"} : Around(p, end, a + 1, op) = Around(p, end, a, op)
  BY <1>1, AroundPlain, LoopOps
<1> QED BY <1>1, <1>2 DEF Lexical

(* FOR keeps the loop stacks lexical.                                      *)
LEMMA LexicalFor ==
  ASSUME NEW p, NEW end, Nested(p, end),
         NEW fors \in Seq(1..Len(p.stmts)), NEW repeats,
         NEW a \in 1..Len(p.stmts), p.stmts[a].op = "for",
         Lexical(p, end, a, fors, repeats)
  PROVE  Lexical(p, end, a + 1, Append(fors, a), repeats)
<1>1. a \in Opens(p)
  BY DEF Opens
<1>2. /\ Around(p, end, a + 1, "for") = Around(p, end, a, "for") \cup {a}
      /\ Around(p, end, a + 1, "repeat") = Around(p, end, a, "repeat")
  <2>1. p.stmts[a].op # "repeat"
    OBVIOUS
  <2>2. Around(p, end, a + 1, "for") = Around(p, end, a, "for") \cup {a}
    BY <1>1, AroundOpen, LoopOps
  <2>3. Around(p, end, a + 1, "repeat") = Around(p, end, a, "repeat")
    BY <1>1, <2>1, AroundOpen, LoopOps
  <2> QED BY <2>2, <2>3
<1>3. \A o \in Around(p, end, a, "for") : o < a
  BY AroundType, LoopOps
<1>4. Len(p.stmts) \in Nat
  BY NestedFacts
<1>5. Holds(Append(fors, a), Around(p, end, a, "for") \cup {a})
  BY <1>3, <1>4, HoldsAppend DEF Lexical
<1> QED BY <1>2, <1>5 DEF Lexical

(* REPEAT keeps the loop stacks lexical.                                   *)
LEMMA LexicalRepeat ==
  ASSUME NEW p, NEW end, Nested(p, end),
         NEW fors, NEW repeats \in Seq(1..Len(p.stmts)),
         NEW a \in 1..Len(p.stmts), p.stmts[a].op = "repeat",
         Lexical(p, end, a, fors, repeats)
  PROVE  Lexical(p, end, a + 1, fors,
                 IF repeats = <<>> \/ Top(repeats) # a THEN Append(repeats, a)
                                                       ELSE repeats)
<1> DEFINE R == Around(p, end, a, "repeat")
<1>1. a \in Opens(p)
  BY DEF Opens
<1>2. /\ Around(p, end, a + 1, "for") = Around(p, end, a, "for")
      /\ Around(p, end, a + 1, "repeat") = R \cup {a}
  <2>1. p.stmts[a].op # "for"
    OBVIOUS
  <2>2. Around(p, end, a + 1, "repeat") = Around(p, end, a, "repeat") \cup {a}
    BY <1>1, AroundOpen, LoopOps
  <2>3. Around(p, end, a + 1, "for") = Around(p, end, a, "for")
    BY <1>1, <2>1, AroundOpen, LoopOps
  <2> QED BY <2>2, <2>3
<1>3. \A o \in R : o \in 1..Len(p.stmts) /\ o < a
  BY AroundType, LoopOps
<1>4. Len(p.stmts) \in Nat /\ 1..Len(p.stmts) \subseteq Nat
  BY NestedFacts
<1> HIDE DEF R
<1>5. CASE Holds(repeats, R)
  <2>1. repeats = <<>> \/ Top(repeats) # a
    <3> SUFFICES ASSUME repeats # <<>>, Top(repeats) = a PROVE FALSE
      OBVIOUS
    <3>1. Len(repeats) \in DOMAIN repeats
      BY PopNonEmpty
    <3>2. a \in R
      BY <1>5, <3>1 DEF Holds, Top
    <3> QED BY <1>3, <3>2
  <2>2. Holds(Append(repeats, a), R \cup {a})
    BY <1>3, <1>4, <1>5, HoldsAppend
  <2> QED BY <1>2, <2>1, <2>2 DEF Lexical
<1>6. CASE Holds(repeats, R \cup {a})
  <2>1. a \in R \cup {a} /\ \A o \in R \cup {a} : o <= a
    BY <1>3
  <2> DEFINE A == R \cup {a}
  <2> HIDE DEF A
  <2>2. Holds(repeats, A) /\ a \in A /\ \A o \in A : o <= a
    BY <1>6, <2>1 DEF A
  <2>3. repeats # <<>> /\ Top(repeats) = a
    BY <1>4, <2>2, HoldsTop
  <2> QED BY <1>2, <1>6, <2>3 DEF Lexical
<1> QED BY <1>5, <1>6 DEF Lexical, R

(* The end of a loop finds its own loop on top of the stack.               *)
LEMMA LexicalEnd ==
  ASSUME NEW p, NEW end, Nested(p, end), NEW op \in Ops,
         NEW stack \in Seq(1..Len(p.stmts)),
         NEW o \in Opens(p), p.stmts[o].op = op,
         Holds(stack, Around(p, end, end[o], op))
  PROVE  /\ stack # <<>> /\ Top(stack) = o
         /\ Holds(Pop(stack), Around(p, end, end[o] + 1, op))
<1> DEFINE A == Around(p, end, end[o], op)
<1>1. /\ o \in A /\ \A i \in A : i <= o
      /\ Around(p, end, end[o] + 1, op) = A \ {o}
  <2>1. o \in A
    BY AroundEnd
  <2>2. \A i \in A : i <= o
    BY AroundEnd
  <2>3. Around(p, end, end[o] + 1, op) = A \ {o}
    BY AroundEnd
  <2> QED BY <2>1, <2>2, <2>3
<1>2. Len(p.stmts) \in Nat /\ 1..Len(p.stmts) \subseteq Nat
  BY NestedFacts
<1>3. Holds(stack, A)
  OBVIOUS
<1> HIDE DEF A
<1>4. stack # <<>> /\ Top(stack) = o /\ Holds(Pop(stack), A \ {o})
  BY <1>1, <1>2, <1>3, HoldsTop
<1> QED BY <1>1, <1>4

(* The other stack has no loop to lose there.                              *)
LEMMA LexicalOther ==
  ASSUME NEW p, NEW end, Nested(p, end), NEW op \in Ops, NEW o \in Opens(p),
         p.stmts[o].op # op
  PROVE  /\ Around(p, end, end[o] + 1, op) = Around(p, end, end[o], op)
         /\ Around(p, end, o, op) = Around(p, end, end[o], op)
<1>1. o \notin Around(p, end, end[o], op)
  BY DEF Around
<1>2. Around(p, end, end[o] + 1, op) = Around(p, end, end[o], op) \ {o}
  BY AroundEnd
<1>3. Around(p, end, o + 1, op) = Around(p, end, end[o], op)
  BY AroundEnd
<1>4. Around(p, end, o + 1, op) = Around(p, end, o, op)
  BY AroundOpen
<1> QED BY <1>1, <1>2, <1>3, <1>4

(* NEXT keeps the loop stacks lexical, whether it loops or leaves.         *)
LEMMA LexicalNext ==
  ASSUME NEW p, NEW end, Nested(p, end),
         NEW fors \in Seq(1..Len(p.stmts)), NEW repeats,
         NEW a \in 1..Len(p.stmts), p.stmts[a].op = "next",
         Lexical(p, end, a, fors, repeats)
  PROVE  /\ fors # <<>> /\ Top(fors) \in Opens(p)
         /\ Ends(p.stmts[a], p.stmts[Top(fors)])
         /\ Top(fors) < Len(p.stmts)
         /\ Lexical(p, end, a + 1, Pop(fors), repeats)
         /\ Lexical(p, end, Top(fors) + 1, fors, repeats)
<1>1. PICK o \in Opens(p) : end[o] = a
  BY NestedFacts DEF Closes
<1>2. Ends(p.stmts[a], p.stmts[o]) /\ o < a
  BY <1>1 DEF Nested, Pairs
<1>3. p.stmts[o].op = "for"
  BY <1>2 DEF Ends
<1>4. /\ Holds(fors, Around(p, end, a, "for"))
      /\ Holds(repeats, Around(p, end, a, "repeat"))
  BY DEF Lexical
<1>5. fors # <<>> /\ Top(fors) = o /\ Holds(Pop(fors), Around(p, end, a + 1, "for"))
  BY <1>1, <1>3, <1>4, LexicalEnd, LoopOps
<1>6. Around(p, end, a + 1, "repeat") = Around(p, end, a, "repeat")
  <2>1. p.stmts[o].op # "repeat"
    BY <1>3
  <2> QED BY <1>1, <2>1, LexicalOther, LoopOps
<1>7. \A op \in {"for", "repeat"} : Around(p, end, o + 1, op) = Around(p, end, a, op)
  BY <1>1, AroundEnd, LoopOps
<1>8. Lexical(p, end, a + 1, Pop(fors), repeats)
  BY <1>4, <1>5, <1>6 DEF Lexical
<1>9. Lexical(p, end, o + 1, fors, repeats)
  BY <1>4, <1>7 DEF Lexical
<1>10. o < Len(p.stmts)
  BY <1>2, NestedFacts
<1> QED BY <1>2, <1>5, <1>8, <1>9, <1>10

(* UNTIL keeps the loop stacks lexical, whether it loops or leaves.        *)
LEMMA LexicalUntil ==
  ASSUME NEW p, NEW end, Nested(p, end),
         NEW fors, NEW repeats \in Seq(1..Len(p.stmts)),
         NEW a \in 1..Len(p.stmts), p.stmts[a].op = "until",
         Lexical(p, end, a, fors, repeats)
  PROVE  /\ repeats # <<>>
         /\ Lexical(p, end, a + 1, fors, Pop(repeats))
         /\ Lexical(p, end, Top(repeats), fors, repeats)
<1>1. PICK o \in Opens(p) : end[o] = a
  BY NestedFacts DEF Closes
<1>2. Ends(p.stmts[a], p.stmts[o])
  BY <1>1 DEF Nested, Pairs
<1>3. p.stmts[o].op = "repeat"
  BY <1>2 DEF Ends
<1>4. /\ Holds(fors, Around(p, end, a, "for"))
      /\ Holds(repeats, Around(p, end, a, "repeat"))
  BY DEF Lexical
<1>5. /\ repeats # <<>> /\ Top(repeats) = o
      /\ Holds(Pop(repeats), Around(p, end, a + 1, "repeat"))
  BY <1>1, <1>3, <1>4, LexicalEnd, LoopOps
<1>6. /\ Around(p, end, a + 1, "for") = Around(p, end, a, "for")
      /\ Around(p, end, o, "for") = Around(p, end, a, "for")
  <2>1. p.stmts[o].op # "for"
    BY <1>3
  <2> QED BY <1>1, <2>1, LexicalOther, LoopOps
<1>7. Around(p, end, o, "repeat") \cup {o} = Around(p, end, a, "repeat")
  <2>1. Around(p, end, o + 1, "repeat") = Around(p, end, a, "repeat")
    BY <1>1, AroundEnd, LoopOps
  <2>2. Around(p, end, o + 1, "repeat") = Around(p, end, o, "repeat") \cup {o}
    BY <1>3, AroundOpen, LoopOps
  <2> QED BY <2>1, <2>2
<1>8. Lexical(p, end, a + 1, fors, Pop(repeats))
  BY <1>4, <1>5, <1>6 DEF Lexical
<1>9. Lexical(p, end, o, fors, repeats)
  BY <1>3, <1>4, <1>6, <1>7 DEF Lexical
<1> QED BY <1>5, <1>8, <1>9

-----------------------------------------------------------------------------
(* The loop stacks, from one statement to the next.                        *)

LexicalAt(end, a) == Lexical(prog, end, a, for_stack, repeat_stack)

(* While a statement runs the stacks are those before it, and NEXT works   *)
(* for the FOR on top; a statement that succeeds leaves those before the   *)
(* next one.                                                               *)
LoopState(end) ==
  outcome = "running" =>
    /\ phase = "idle" /\ pc # NULL => LexicalAt(end, pc)
    /\ phase = "busy" =>
         /\ LexicalAt(end, stmt) /\ pc = next[stmt]
         /\ Stmt(stmt).op = "next" => work[1].callee = Top(for_stack)
    /\ phase = "done" /\ status = "ok" /\ pc # NULL => LexicalAt(end, pc)

(* Fetching keeps the loop stacks lexical.                                 *)
LEMMA LoopFetch ==
  ASSUME TypeInv, Straight, NEW end, Nested(prog, end), LoopState(end),
         FetchStatement \/ FetchProc \/ FetchFnReturn \/ FetchNext
  PROVE  LoopState(end)' /\ error_register' = error_register
<1>1. /\ outcome = "running" /\ phase = "idle" /\ pc # NULL /\ stmt' = pc
      /\ pc' = next[pc] /\ prog' = prog /\ next' = next
      /\ repeat_stack' = repeat_stack
  BY DEF FetchStatement, FetchProc, FetchFnReturn, FetchNext, Fetch
<1>2. pc \in Addresses
  BY <1>1 DEF TypeInv, TypeOK, TypeProgram, Addresses, NULL
<1>3. LexicalAt(end, pc)
  BY <1>1 DEF LoopState
<1>4. CASE Stmt(pc).op # "next"
  <2>1. Stmt(pc).op \notin {"proc", "fnreturn"}
    BY <1>2, StraightStmt DEF PlainOps
  <2>2. FetchStatement
    BY <1>4, <2>1 DEF FetchProc, FetchFnReturn, FetchNext
  <2>3. phase' = "busy" /\ for_stack' = for_stack /\ error_register' = error_register
    BY <2>2 DEF FetchStatement, Evaluate
  <2> QED BY <1>1, <1>3, <1>4, <2>3 DEF LoopState, LexicalAt, Stmt
<1>5. CASE Stmt(pc).op = "next"
  <2> DEFINE o == Top(for_stack)
  <2>1. for_stack \in Seq(Addresses)
    BY StackType
  <2>2. for_stack # <<>> /\ o \in Opens(prog) /\ Ends(Stmt(pc), Stmt(o))
    BY <1>2, <1>3, <1>5, <2>1, LexicalNext DEF LexicalAt, Stmt, Addresses
  <2>3. FetchNext
    BY <1>5 DEF FetchStatement, FetchProc, FetchFnReturn
  <2>4. PICK i \in 0..Len(for_stack) :
          /\ IF Stmt(pc).var = "" THEN i = Len(for_stack)
                                  ELSE MatchingFor(Stmt(pc).var, i)
          /\ for_stack' = SubSeq(for_stack, 1, i)
          /\ i # 0 => Evaluate(NextWork(for_stack[i]))
    BY <2>3 DEF FetchNext
  <2>5. Len(for_stack) \in Nat \ {0}
    BY <2>1, <2>2, EmptySeq
  <2>6. i = Len(for_stack)
    <3>1. CASE Stmt(pc).var = ""
      BY <2>4, <3>1
    <3>2. CASE Stmt(pc).var # ""
      <4>1. Stmt(for_stack[Len(for_stack)]).var = Stmt(pc).var
        BY <1>5, <2>2, <3>2 DEF Ends, Top
      <4>2. MatchingFor(Stmt(pc).var, i)
        BY <2>4, <3>2
      <4>3. i < Len(for_stack) => Len(for_stack) \in (i + 1)..Len(for_stack)
        BY <2>5
      <4> QED BY <2>5, <4>1, <4>2, <4>3 DEF MatchingFor
    <3> QED BY <3>1, <3>2
  <2>7. for_stack' = for_stack
    BY <2>1, <2>4, <2>5, <2>6, SubSeqFull
  <2>8. Evaluate(NextWork(o))
    BY <2>4, <2>5, <2>6 DEF Top
  <2>9. /\ phase' = "busy" /\ work' = NextWork(o) /\ error_register' = error_register
    BY <2>8 DEF Evaluate
  <2>10. NextWork(o)[1].callee = o
    BY DEF NextWork, ExprWork
  <2> QED BY <1>1, <1>3, <2>7, <2>9, <2>10 DEF LoopState, LexicalAt
<1> QED BY <1>4, <1>5

(* The first item of work keeps its FOR while operands are evaluated.      *)
LEMMA LoopEval ==
  ASSUME TypeInv, Straight, NEW end, Nested(prog, end), LoopState(end), LoopsMatch,
         EvalLeaf \/ NextLimit
  PROVE  LoopState(end)' /\ LoopsMatch'
<1>1. /\ outcome = "running" /\ phase = "busy"
      /\ UNCHANGED <<prog, next, pc, stmt, for_stack, repeat_stack>>
  BY DEF EvalLeaf, Evaluating, NextLimit, Complete, outer, loops
<1>2. error_register'.code \in {"BadExpr", error_register.code}
  BY DEF EvalLeaf, NextLimit, SetError
<1>3. work \in Seq(WorkItem(prog)) /\ work # <<>> /\ Len(work) \in Nat \ {0}
  BY <1>1, EmptySeq DEF TypeInv, TypeOK, TypeActivation
<1>4. \/ phase' = "done" /\ status' = "error"
      \/ phase' = "busy" /\ work'[1].callee = work[1].callee
  <2>1. CASE EvalLeaf
    <3> DEFINE ok == Operands.kind \notin {"bad", "mute"}
               x  == Advance(Top(work), ok)
    <3>1. phase' = phase /\ work' = ReplaceTop(work, x) /\ Top(work).rest # <<>>
      BY <2>1 DEF EvalLeaf, Evaluating
    <3>2. ok \in BOOLEAN
      OBVIOUS
    <3> HIDE DEF ok
    <3>3. x \in WorkItem(prog) /\ x.callee = Top(work).callee
      BY <1>3, <3>1, <3>2, PopNonEmpty, AdvanceType
    <3> HIDE DEF x
    <3> DEFINE v == ReplaceTop(work, x)
    <3>4. v[Len(work)] = x /\ \A i \in 1..(Len(work) - 1) : v[i] = work[i]
      BY <1>3, <3>3, ReplaceTopType
    <3> HIDE DEF v
    <3>5. v[1].callee = work[1].callee
      <4>1. CASE Len(work) = 1
        BY <3>3, <3>4, <4>1 DEF Top
      <4>2. CASE Len(work) # 1
        <5>1. Len(work) \in Nat \ {0}
          BY <1>3
        <5>2. 1 \in 1..(Len(work) - 1)
          BY ONLY <4>2, <5>1
        <5>3. v[1] = work[1]
          BY <3>4, <5>2
        <5> QED BY <5>3
      <4> QED BY <4>1, <4>2
    <3> QED BY <1>1, <3>1, <3>5 DEF v
  <2>2. CASE NextLimit
    <3>1. CASE Top(work).failed
      BY <2>2, <3>1 DEF NextLimit, Complete
    <3>2. CASE ~Top(work).failed
      <4>1. phase' = phase /\ work' = Pop(work) /\ Len(work) = 2
        BY <2>2, <3>2 DEF NextLimit
      <4>2. \A i \in 1..(Len(work) - 1) : Pop(work)[i] = work[i]
        BY <1>3, PopNonEmpty
      <4>3. Pop(work)[1] = work[1]
        BY <4>1, <4>2
      <4> QED BY <1>1, <4>1, <4>3
    <3> QED BY <3>1, <3>2
  <2> QED BY <2>1, <2>2
<1>5. LoopState(end)'
  BY <1>1, <1>4 DEF LoopState, LexicalAt, Stmt
<1> QED BY <1>2, <1>5 DEF LoopsMatch

(* A statement keeps the loop stacks lexical, and finds its loop.          *)
LEMMA LoopExec ==
  ASSUME TypeInv, Straight, NEW end, Nested(prog, end), LoopState(end), LoopsMatch,
         Exec
  PROVE  LoopState(end)' /\ LoopsMatch'
<1>1. /\ stmt \in Addresses /\ phase = "busy" /\ outcome = "running"
      /\ \/ ExecFails \/ ExecEval \/ ExecEnd
         \/ ExecFor \/ ExecNext \/ ExecRepeat \/ ExecUntil
  BY StraightExec
<1>2. /\ LexicalAt(end, stmt) /\ pc = next[stmt]
      /\ Stmt(stmt).op = "next" => work[1].callee = Top(for_stack)
  BY <1>1 DEF LoopState
<1>3. PICK st \in Statuses : Complete(st)
  BY ExecCompletes
<1>4. phase' = "done" /\ status' = st /\ prog' = prog
  BY <1>3 DEF Complete, outer
<1>5. /\ for_stack \in Seq(Addresses) /\ repeat_stack \in Seq(Addresses)
      /\ prog.stmts[stmt] = Stmt(stmt) /\ Addresses = 1..Len(prog.stmts)
      /\ stmt \in 1..Len(prog.stmts)
  BY <1>1, StackType DEF Stmt, Addresses
<1>6. pc # NULL => pc = stmt + 1
  BY <1>1, <1>2, StraightStmt
<1>7. Lexical(prog, end, stmt, for_stack, repeat_stack)
  BY <1>2 DEF LexicalAt
<1>8. ASSUME status' # "ok" \/ pc' = NULL
             \/ Lexical(prog, end, pc', for_stack', repeat_stack')
      PROVE  LoopState(end)'
  BY <1>4, <1>8 DEF LoopState, LexicalAt
<1>9. CASE ExecFails
  <2>1. status' = "error"
    BY <1>9 DEF ExecFails, Fail, Complete
  <2>2. error_register'.code \in {"SyntaxError", "TypeMismatch", error_register.code}
    BY <1>9 DEF ExecFails, Fail, SetError
  <2> QED BY <1>8, <2>1, <2>2 DEF LoopsMatch
<1>10. CASE ExecEnd
  <2>1. status' = "exit" /\ error_register' = error_register
    BY <1>10 DEF ExecEnd, Complete
  <2> QED BY <1>8, <2>1 DEF LoopsMatch
<1>11. CASE ExecEval
  <2>1. /\ Stmt(stmt).op \in {"eval", "null", "deffn", "defproc"}
        /\ UNCHANGED <<pc, for_stack, repeat_stack, error_register>>
    BY <1>11 DEF ExecEval, Ready, loops
  <2>2. Stmt(stmt).op \in PlainOps
    BY <1>1, <2>1, StraightStmt DEF PlainOps
  <2>3. Lexical(prog, end, stmt + 1, for_stack, repeat_stack)
    BY <1>5, <1>7, <2>2, LexicalPlain
  <2> QED BY <1>6, <1>8, <2>1, <2>3 DEF LoopsMatch
<1>12. CASE ExecFor
  <2>1. /\ Stmt(stmt).op = "for" /\ for_stack' = Append(for_stack, stmt)
        /\ UNCHANGED <<pc, repeat_stack, error_register>>
    BY <1>12 DEF ExecFor, Succeeds, Ready
  <2>2. Lexical(prog, end, stmt + 1, Append(for_stack, stmt), repeat_stack)
    BY <1>5, <1>7, <2>1, LexicalFor
  <2> QED BY <1>6, <1>8, <2>1, <2>2 DEF LoopsMatch
<1>13. CASE ExecRepeat
  <2> DEFINE r == IF repeat_stack = <<>> \/ Top(repeat_stack) # stmt
                    THEN Append(repeat_stack, stmt) ELSE repeat_stack
  <2>1. /\ Stmt(stmt).op = "repeat" /\ repeat_stack' = r
        /\ UNCHANGED <<for_stack, error_register>>
    BY <1>13 DEF ExecRepeat, PushRepeat, Succeeds, Ready
  <2>2. pc' = pc
    BY <1>1, <1>13, StraightStmt DEF ExecRepeat
  <2>3. Lexical(prog, end, stmt + 1, for_stack, r)
    BY <1>5, <1>7, <2>1, LexicalRepeat
  <2> HIDE DEF r
  <2> QED BY <1>6, <1>8, <2>1, <2>2, <2>3 DEF LoopsMatch
<1>14. CASE ExecUntil
  <2>1. Stmt(stmt).op = "until" /\ for_stack' = for_stack
    BY <1>14 DEF ExecUntil, Succeeds, Ready
  <2>2. /\ repeat_stack # <<>>
        /\ Lexical(prog, end, stmt + 1, for_stack, Pop(repeat_stack))
        /\ Lexical(prog, end, Top(repeat_stack), for_stack, repeat_stack)
    BY <1>5, <1>7, <2>1, LexicalUntil
  <2>3. /\ \/ repeat_stack' = Pop(repeat_stack) /\ pc' = pc
           \/ pc' = Top(repeat_stack) /\ repeat_stack' = repeat_stack
        /\ error_register' = error_register
    BY <1>14, <2>2 DEF ExecUntil
  <2> QED BY <1>6, <1>8, <2>1, <2>2, <2>3 DEF LoopsMatch
<1>15. CASE ExecNext
  <2> DEFINE o == Top(for_stack)
  <2>1. Stmt(stmt).op = "next" /\ repeat_stack' = repeat_stack
    BY <1>15 DEF ExecNext, Ready
  <2>2. /\ for_stack # <<>> /\ o \in Opens(prog) /\ o < Len(prog.stmts)
        /\ Lexical(prog, end, stmt + 1, Pop(for_stack), repeat_stack)
        /\ Lexical(prog, end, o + 1, for_stack, repeat_stack)
    BY <1>5, <1>7, <2>1, LexicalNext
  <2>3. o \in Addresses /\ next[o] = o + 1
    BY <2>2, StraightStmt DEF Opens, Addresses
  <2>4. work[1].callee = o
    BY <1>2, <2>1
  <2>5. CASE status' = "error"
    <3>1. error_register'.code \in {"BadExpr", "TypeMismatch", "ForVariable"}
      BY <1>15, <2>5 DEF ExecNext, Fail, SetError, Complete
    <3> QED BY <1>8, <2>5, <3>1 DEF LoopsMatch
  <2>6. CASE status' # "error"
    <3>1. /\ error_register' = error_register
          /\ \/ pc' = next[o] /\ for_stack' = for_stack
             \/ pc' = pc /\ for_stack' = Pop(for_stack)
      BY <1>15, <2>4, <2>6 DEF ExecNext, Fail, Complete
    <3> QED BY <1>6, <1>8, <2>1, <2>2, <2>3, <3>1 DEF LoopsMatch
  <2> QED BY <2>5, <2>6
<1> QED BY <1>1, <1>9, <1>10, <1>11, <1>12, <1>13, <1>14, <1>15

(* Every step keeps the loop stacks lexical.                               *)
LEMMA LoopStep ==
  ASSUME TypeInv, Straight, NEW end, Nested(prog, end), LoopState(end), LoopsMatch,
         [Next]_vars
  PROVE  LoopState(end)' /\ LoopsMatch'
<1>1. CASE FetchStatement \/ FetchProc \/ FetchFnReturn \/ FetchNext
  BY <1>1, LoopFetch DEF LoopsMatch
<1>2. CASE EvalLeaf \/ NextLimit
  BY <1>2, LoopEval
<1>3. CASE Exec
  BY <1>3, LoopExec
<1>4. CASE FrameUnderflow \/ NextAborts \/ MemoryExhausted
  BY <1>4 DEF FrameUnderflow, NextAborts, MemoryExhausted, Abort, LoopState,
              LoopsMatch
<1>5. CASE UNCHANGED <<prog, next, pc, stmt, phase, status, work, loops,
                       error_register, outcome>>
  BY <1>5 DEF loops, LoopState, LexicalAt, Stmt, LoopsMatch
<1>6. CASE Signal \/ Stopped \/ UNCHANGED vars
  BY <1>5, <1>6 DEF Signal, Stopped, vars, loops
<1>7. CASE CatchError
  BY <1>7 DEF CatchError, Caught, Straight
<1>8. CASE Continue
  <2>1. /\ phase = "done" /\ status = "ok" /\ phase' = "idle" /\ outcome = "running"
        /\ UNCHANGED <<prog, pc, for_stack, repeat_stack, error_register>>
    BY <1>8 DEF Continue, Inspecting, outer, loops
  <2> QED BY <2>1 DEF LoopState, LexicalAt, LoopsMatch
<1>9. CASE BreakInterrupted \/ BreakStatus \/ RunOff
  <2>1. \E st : \E register \in {Escape, error_register} : Leave(st, register)
    BY <1>9 DEF BreakInterrupted, BreakStatus, RunOff
  <2>2. PICK st : \E register \in {Escape, error_register} : Leave(st, register)
    BY <2>1
  <2>3. PICK register \in {Escape, error_register} : Leave(st, register)
    BY <2>2
  <2>4. EndProgram(st, register)
    BY <2>3 DEF Leave, Resume, NoValue, Straight
  <2>5. outcome' # "running" /\ error_register' = register
    BY <2>4 DEF EndProgram, Outcome
  <2> QED BY <2>3, <2>5 DEF LoopState, LoopsMatch, Escape
<1> QED BY <1>1, <1>2, <1>3, <1>4, <1>6, <1>7, <1>8, <1>9, NoCalls
        DEF Next, Step, Exec

-----------------------------------------------------------------------------
(* The counting of the properties finds the same ends.                     *)

Opening(lo, hi) == {a \in lo..hi : Stmt(a).op \in {"repeat", "for"}}
Closing(lo, hi) == {a \in lo..hi : Stmt(a).op \in {"until", "next"}}

(* What Count counts is finite.                                            *)
LEMMA CountedFinite ==
  ASSUME NEW lo \in Int, NEW hi \in Int
  PROVE  /\ IsFiniteSet(Opening(lo, hi)) /\ IsFiniteSet(Closing(lo, hi))
         /\ Count(lo, hi, {"repeat", "for"}) = Cardinality(Opening(lo, hi))
         /\ Count(lo, hi, {"until", "next"}) = Cardinality(Closing(lo, hi))
         /\ Cardinality(Opening(lo, hi)) \in Nat
         /\ Cardinality(Closing(lo, hi)) \in Nat
<1>1. IsFiniteSet(lo..hi)
  BY FS_Interval
<1>2. Opening(lo, hi) \in SUBSET (lo..hi) /\ Closing(lo, hi) \in SUBSET (lo..hi)
  BY DEF Opening, Closing
<1>3. IsFiniteSet(Opening(lo, hi)) /\ IsFiniteSet(Closing(lo, hi))
  BY <1>1, <1>2, FS_Subset
<1> QED BY <1>3, FS_CardinalityType DEF Count, Opening, Closing

(* Up to the end of o, what a statement closes was opened from o on.       *)
LEMMA CountedPairs ==
  ASSUME NEW end, Nested(prog, end), NEW o \in Opens(prog), NEW d \in o..end[o]
  PROVE  /\ Opening(o, d) = {i \in Opens(prog) : o <= i /\ i <= d}
         /\ Closing(o, d) = {c \in Closes(prog) : o <= c /\ c <= d}
         /\ \A i \in Opens(prog) : end[i] \in Closing(o, d) => i \in Opening(o, d)
<1>1. /\ o \in 1..Len(prog.stmts) /\ end[o] \in 1..Len(prog.stmts)
      /\ Len(prog.stmts) \in Nat /\ d \in Int
  BY NestedFacts
<1>2. \A a \in o..d : a \in 1..Len(prog.stmts)
  BY <1>1
<1>3. /\ Opening(o, d) = {i \in Opens(prog) : o <= i /\ i <= d}
      /\ Closing(o, d) = {c \in Closes(prog) : o <= c /\ c <= d}
  <2>1. \A i \in Opens(prog) : i \in Int
    BY NestedFacts
  <2>2. \A i \in Closes(prog) : i \in Int
    BY NestedFacts
  <2> QED BY <1>1, <1>2, <2>1, <2>2 DEF Opening, Closing, Opens, Closes, Stmt
<1>4. ASSUME NEW i \in Opens(prog), end[i] \in Closing(o, d)
      PROVE  o <= i /\ i <= d
  <2>1. end[i] \in Closes(prog) /\ o <= end[i] /\ end[i] <= d
    BY <1>3, <1>4
  <2>2. i \in Int /\ end[i] \in Int /\ i < end[i] /\ end[i] # o
    BY NestedFacts
  <2>3. i < o /\ o < end[i] => end[o] < end[i]
    BY NestedFacts
  <2> QED BY <1>1, <2>1, <2>2, <2>3
<1> QED BY <1>3, <1>4

(* From the opening of a loop to its end, as many are opened as closed.    *)
LEMMA EndBalances ==
  ASSUME NEW end, Nested(prog, end), NEW o \in Opens(prog)
  PROVE  Count(o, end[o], {"repeat", "for"}) = Count(o, end[o], {"until", "next"})
<1> DEFINE X == Opening(o, end[o])
           Y == Closing(o, end[o])
           f == [i \in X |-> end[i]]
<1>1. /\ o \in Int /\ end[o] \in Int /\ o < end[o] /\ end[o] \in o..end[o]
  BY NestedFacts
<1>2. /\ X = {i \in Opens(prog) : o <= i /\ i <= end[o]}
      /\ Y = {c \in Closes(prog) : o <= c /\ c <= end[o]}
      /\ \A i \in Opens(prog) : end[i] \in Y => i \in X
  BY <1>1, CountedPairs
<1> HIDE DEF X, Y
<1>3. \A i \in X : end[i] \in Y
  <2> TAKE i \in X
  <2>1. i \in Opens(prog) /\ o <= i /\ i <= end[o]
    BY <1>2
  <2>2. i \in Int /\ end[i] \in Int /\ end[i] \in Closes(prog) /\ i < end[i]
    BY <2>1, NestedFacts
  <2>3. i # end[o] /\ (o < i /\ i < end[o] => end[i] < end[o])
    BY <2>1, NestedFacts
  <2>4. end[i] <= end[o]
    BY <1>1, <2>1, <2>2, <2>3
  <2> QED BY <1>1, <1>2, <2>1, <2>2, <2>4
<1>4. \A c \in Y : \E i \in X : f[i] = c
  <2> TAKE c \in Y
  <2>1. PICK i \in Opens(prog) : end[i] = c
    BY <1>2, NestedFacts
  <2> QED BY <1>2, <2>1
<1>5. \A i, j \in X : f[i] = f[j] => i = j
  BY <1>2, NestedFacts
<1>6. f \in Bijection(X, Y)
  BY <1>3, <1>4, <1>5 DEF Bijection, Injection, Surjection, IsInjective
<1>7. Cardinality(X) = Cardinality(Y)
  <2>1. IsFiniteSet(X)
    BY <1>1, CountedFinite DEF X
  <2> QED BY <1>6, <2>1, FS_Bijection DEF ExistsBijection
<1> QED BY <1>1, <1>7, CountedFinite DEF X, Y

(* Before its end, o itself is still open.                                 *)
LEMMA NothingElseBalances ==
  ASSUME NEW end, Nested(prog, end), NEW o \in Opens(prog),
         NEW d \in o..(end[o] - 1)
  PROVE  Count(o, d, {"repeat", "for"}) # Count(o, d, {"until", "next"})
<1> DEFINE X == Opening(o, d)
           Y == Closing(o, d)
           g == [c \in Y |-> CHOOSE i \in Opens(prog) : end[i] = c]
<1>1. o \in Int /\ end[o] \in Int /\ o < end[o] /\ d \in Int
  BY NestedFacts
<1>2. d \in o..end[o]
  BY <1>1
<1>3. /\ X = {i \in Opens(prog) : o <= i /\ i <= d}
      /\ Y = {c \in Closes(prog) : o <= c /\ c <= d}
      /\ \A i \in Opens(prog) : end[i] \in Y => i \in X
  BY <1>2, CountedPairs
<1> HIDE DEF X, Y
<1>4. \A c \in Y : g[c] \in Opens(prog) /\ end[g[c]] = c
  <2> TAKE c \in Y
  <2>1. \E i \in Opens(prog) : end[i] = c
    BY <1>3, NestedFacts
  <2> QED BY <2>1
<1>5. end[o] \notin Y /\ o \in X
  BY <1>1, <1>3
<1>6. \A c \in Y : g[c] \in X \ {o}
  BY <1>3, <1>4, <1>5
<1>7. \A b, c \in Y : g[b] = g[c] => b = c
  BY <1>4
<1> HIDE DEF g
<1>8. g \in [Y -> X \ {o}]
  BY <1>6 DEF g
<1>9. g \in Injection(Y, X \ {o})
  BY <1>7, <1>8 DEF Injection, IsInjective
<1>10. IsFiniteSet(X) /\ Cardinality(X) \in Nat /\ Cardinality(Y) \in Nat
  BY <1>1, CountedFinite DEF X, Y
<1>11. IsFiniteSet(X \ {o}) /\ Cardinality(X \ {o}) = Cardinality(X) - 1
  BY <1>5, <1>10, FS_RemoveElement
<1>12. Cardinality(Y) <= Cardinality(X \ {o})
  BY <1>9, <1>11, FS_Injection
<1> QED BY <1>1, <1>10, <1>11, <1>12, CountedFinite DEF X, Y

(* The partner of an opening statement is the end of its loop.             *)
LEMMA PartnerIsEnd ==
  ASSUME NEW end, Nested(prog, end), NEW o \in Opens(prog)
  PROVE  Partner(o) = end[o]
<1>1. o \in Int /\ end[o] \in Int /\ end[o] \in Addresses /\ o < end[o]
  BY NestedFacts DEF Addresses
<1>2. Balances(o, end[o])
  BY <1>1, EndBalances, NothingElseBalances DEF Balances
<1>3. ASSUME NEW c \in Addresses, Balances(o, c) PROVE c = end[o]
  <2>1. c \in Int /\ o < c
    BY <1>3 DEF Addresses, Balances
  <2>2. ~(c < end[o])
    <3>1. c < end[o] => c \in o..(end[o] - 1)
      BY <1>1, <2>1
    <3> QED BY <1>3, <3>1, NothingElseBalances DEF Balances
  <2>3. ~(end[o] < c)
    <3>1. end[o] < c => end[o] \in o..(c - 1)
      BY <1>1, <2>1
    <3> QED BY <1>3, <3>1, EndBalances DEF Balances
  <2> QED BY <1>1, <2>1, <2>2, <2>3
<1> QED BY <1>1, <1>2, <1>3 DEF Partner

(* The loops enclosing a statement are those around it.                    *)
LEMMA EnclosingIsAround ==
  ASSUME NEW end, Nested(prog, end), NEW a \in Addresses, NEW op \in {"for", "repeat"}
  PROVE  Enclosing(a, op) = Around(prog, end, a, op)
<1>1. \A o \in Opens(prog) : o \in 1..Len(prog.stmts) /\ end[o] \in Int
  BY NestedFacts
<1>2. a \in 1..Len(prog.stmts) /\ Len(prog.stmts) \in Nat
  BY NestedFacts DEF Addresses
<1>3. \A o \in 1..(a - 1) : Stmt(o).op = op => o \in Opens(prog)
  BY <1>2 DEF Opens, Stmt
<1>4. \A o \in Opens(prog) : Partner(o) >= a <=> a <= end[o]
  BY <1>1, <1>2, PartnerIsEnd
<1>5. \A o \in Opens(prog) : o < a <=> o \in 1..(a - 1)
  BY <1>1, <1>2
<1> QED BY <1>3, <1>4, <1>5 DEF Enclosing, Around, Stmt

-----------------------------------------------------------------------------
(* The two theorems.                                                       *)

LoopInv ==
  /\ TypeInv /\ Straight /\ LoopsMatch
  /\ \E end : Nested(prog, end) /\ LoopState(end)

(* The invariant of loops holds when the program starts.                   *)
LEMMA LoopInit == Init /\ ProperlyNested(prog) => LoopInv
<1> SUFFICES ASSUME Init, ProperlyNested(prog) PROVE LoopInv
  OBVIOUS
<1>1. TypeInv /\ Straight
  BY TypeInit, StraightInit
<1>2. LoopsMatch
  BY DEF Init, LoopsMatch
<1>3. IsProgram(prog)
  BY <1>1 DEF TypeInv, TypeOK, TypeProgram
<1>4. PICK end \in [Opens(prog) -> Closes(prog)] : Pairs(prog, end)
  BY DEF ProperlyNested
<1>5. Nested(prog, end)
  BY <1>3, <1>4 DEF Nested
<1>6. LoopState(end)
  <2> SUFFICES ASSUME pc # NULL PROVE LexicalAt(end, pc)
    BY DEF Init, LoopState
  <2>1. pc = 1 /\ for_stack = <<>> /\ repeat_stack = <<>>
    BY DEF Init
  <2>2. ASSUME NEW op PROVE Around(prog, end, 1, op) = {}
    BY <1>5, NestedFacts DEF Around
  <2>3. Holds(<<>>, {})
    BY DEF Holds
  <2> QED BY <2>1, <2>2, <2>3 DEF LexicalAt, Lexical
<1> QED BY <1>1, <1>2, <1>5, <1>6 DEF LoopInv

(* Every step keeps the invariant of loops.                                *)
LEMMA LoopInvStep == LoopInv /\ [Next]_vars => LoopInv'
<1> SUFFICES ASSUME LoopInv, [Next]_vars PROVE LoopInv'
  OBVIOUS
<1>1. TypeInv /\ Straight /\ LoopsMatch
  BY DEF LoopInv
<1>2. PICK end : Nested(prog, end) /\ LoopState(end)
  BY DEF LoopInv
<1>3. TypeInv' /\ Straight'
  BY <1>1, TypeStep, StraightStep
<1>4. LoopState(end)' /\ LoopsMatch'
  BY <1>1, <1>2, LoopStep
<1>5. Nested(prog, end)'
  BY <1>2, ProgConstant
<1> QED BY <1>3, <1>4, <1>5 DEF LoopInv

(* In a program of properly nested loops the two loop stacks hold exactly  *)
(* the loops around the next statement, the outermost first, at every      *)
(* iteration and however often a loop is left and entered again.           *)
THEOREM LoopsAreLexical ==
  Spec /\ ProperlyNested(prog) => []LoopStacksAreLexical
<1>1. LoopInv => LoopStacksAreLexical
  <2> SUFFICES ASSUME LoopInv, outcome = "running", phase = "idle", pc # NULL
               PROVE  /\ Holds(for_stack, Enclosing(pc, "for"))
                      /\ \/ Holds(repeat_stack, Enclosing(pc, "repeat"))
                         \/ /\ Stmt(pc).op = "repeat"
                            /\ Holds(repeat_stack, Enclosing(pc, "repeat") \cup {pc})
    BY DEF LoopStacksAreLexical
  <2>1. PICK end : Nested(prog, end) /\ LoopState(end)
    BY DEF LoopInv
  <2>2. pc \in Addresses
    BY DEF LoopInv, TypeInv, TypeOK, TypeProgram, Addresses, NULL
  <2>3. Lexical(prog, end, pc, for_stack, repeat_stack)
    BY <2>1 DEF LoopState, LexicalAt
  <2>4. /\ Enclosing(pc, "for") = Around(prog, end, pc, "for")
        /\ Enclosing(pc, "repeat") = Around(prog, end, pc, "repeat")
    BY <2>1, <2>2, EnclosingIsAround
  <2> QED BY <2>3, <2>4 DEF Lexical, Stmt
<1> QED BY <1>1, LoopInit, LoopInvStep, PTL DEF Spec

(* In such a program no loop statement fails for want of its loop.         *)
THEOREM LoopsAreMatched == Spec /\ ProperlyNested(prog) => []LoopsMatch
<1>1. LoopInv => LoopsMatch
  BY DEF LoopInv
<1> QED BY <1>1, LoopInit, LoopInvStep, PTL DEF Spec
=============================================================================
