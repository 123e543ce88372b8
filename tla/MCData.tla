--------------------------------- MODULE MCData ---------------------------------
(* Programs of three lines, numbered in any order, perhaps twice alike.    *)
EXTENDS Data

Numbers == {10, 20, 30}
SmallHash == [n \in Numbers |-> IF n = 20 THEN 2 ELSE 1]

Number(name) == [type |-> "int", name |-> name]
Text(name) == [type |-> "string", name |-> name]

Plain(n) == [s \in 1..n |-> "PLAIN"]
NoSubs(n) == [s \in 1..n |-> <<>>]
With(f, s, x) == [f EXCEPT ![s] = x]

(* IF with a REPEAT in its THEN and an ELSE; a line of two; DATA, REPEAT.  *)
Branches == [lists |-> <<<<1>>, <<6, 7>>, <<8, 9>>>>,
             type |-> With(With(Plain(10), 6, "DEF"), 7, "DATA"),
             subs |-> With(With(With(NoSubs(10), 1, <<<<2, 3>>, <<4>>>>), 3, <<<<5>>>>),
                           9, <<<<10>>>>),
             items |-> With(NoSubs(10), 7, <<Number("p"), Text("q")>>)]

(* An IF with ON ERROR in its THEN and DATA, for nothing, in its ELSE.     *)
Handler == [lists |-> <<<<1, 6>>, <<2, 5>>, <<9>>>>,
            type |-> With(With(With(With(Plain(10), 9, "DATA"), 10, "DATA"),
                              1, "DEF"), 6, "DATA"),
            subs |-> With(With(NoSubs(10), 5, <<<<3, 7>>, <<4, 10>>>>), 7, <<<<8>>>>),
            items |-> With(With(With(NoSubs(10), 9, <<Number("u")>>), 10, <<Number("x")>>),
                          6, <<Number("v"), Number("w")>>)]

SmallTexts ==
  {[lines |-> [i \in DOMAIN n |-> [number |-> n[i], stmts |-> p.lists[i]]],
    type |-> p.type, subs |-> p.subs, items |-> p.items] :
     p \in {Branches, Handler}, n \in [1..3 -> Numbers]}

(* READ a, READ a,b$ and READ a(i),b(j).                                   *)
Var(type, subscripted) == [type |-> type, subscripted |-> subscripted]
SmallReads == {<<Var("int", FALSE)>>, <<Var("int", FALSE), Var("string", FALSE)>>,
               <<Var("int", TRUE), Var("int", TRUE)>>}
================================================================================
