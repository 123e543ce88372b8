--------------------------------- MODULE Scopes ---------------------------------
(***************************************************************************)
(* What the symbol table promises to a BASIC program: a stack of scopes,   *)
(* each a function from names to what they are bound to, in which a name   *)
(* means its innermost binding.  Nothing is said of chains and buckets.    *)
(***************************************************************************)
EXTENDS Names

CONSTANTS Variables, Arrays, Defs, Called, Assigned, ArgLists, LocalLists, DimLists,
          IndexLists, Elapsed, Columns, MaxFrames

VARIABLES scopes, residents, time, result, outcome

vars == <<scopes, residents, time, result, outcome>>

Cell(type, u) == [type |-> type, u |-> u]
Variable(v) == Cell(Kind(v), v)
With(scope, new) == [id \in DOMAIN scope \cup DOMAIN new |->
                       IF id \in DOMAIN new THEN new[id] ELSE scope[id]]
Only(id, cell) == [n \in {id} |-> cell]

Innermost(id) == CHOOSE s \in DOMAIN scopes :
                   /\ id \in DOMAIN scopes[s]
                   /\ \A r \in DOMAIN scopes : r > s => id \notin DOMAIN scopes[r]
Bound(id) == \E s \in DOMAIN scopes : id \in DOMAIN scopes[s]
Meaning(id) == scopes[Innermost(id)][id]

Last1(S) == CHOOSE i \in S : \A j \in S : j <= i

(* What names mean after those of ids at the places S got their values.    *)
LocalsAt(ids, vals, S) ==
  [id \in {ids[i] : i \in S} |-> Variable(vals[Last1({i \in S : ids[i] = id})])]
Resident(ids, i) == variable_name_is_resident(ids[i])
ResidentsAt(ids, vals, S) ==
  [c \in DOMAIN residents |->
     LET at == {i \in S : Resident(ids, i) /\ ids[i][1] = c}
     IN  IF at = {} THEN residents[c] ELSE vals[Last1(at)].num]

Answers(error, v) == result' = [error |-> error, value |-> v]
Refuses(error) == Answers(error, NULL) /\ UNCHANGED <<scopes, residents, time, outcome>>
Stops(how) ==
  outcome' = how /\ Answers("none", NULL) /\ UNCHANGED <<scopes, residents, time>>

Init ==
  /\ scopes = <<[id \in {Defs[i].id : i \in DOMAIN Defs} |->
                   Cell("PROCEDURE", Defs[Last1({i \in DOMAIN Defs : Defs[i].id = id})].params)]>>
  /\ residents = [c \in Upper \cup {"@"} |-> IF c = "@" THEN 2314 ELSE 0]
  /\ time = 0 /\ outcome = "running"
  /\ result = [error |-> "none", value |-> NULL]

(* A call makes a scope of its parameters or, when one of them cannot take *)
(* its argument, no scope; resident integers before that one are set.      *)
Enter(params, args) ==
  LET Takes(i) == IF Resident(params, i) THEN value_is_int(args[i])
                  ELSE Fits(params[i], args[i])
      taken == {i \in DOMAIN params : \A j \in 1..i : Takes(j)}
  IN  IF ArgumentError(params, args) # "none" THEN Refuses(ArgumentError(params, args))
      ELSE /\ residents' = ResidentsAt(params, args, taken)
           /\ IF taken = DOMAIN params
              THEN /\ scopes' = Append(scopes, LocalsAt(params, args,
                                   {i \in taken : ~Resident(params, i)}))
                   /\ Answers("none", NULL)
              ELSE Answers("TYPE_MISMATCH", NULL) /\ UNCHANGED scopes
           /\ UNCHANGED <<time, outcome>>

Call(id, args) == /\ Len(scopes) < MaxFrames
                  /\ IF Bound(id) THEN Enter(Meaning(id).u, args)
                     ELSE Refuses("NO_SUCH_FN_PROC")

Leave == /\ Len(scopes) > 1
         /\ scopes' = SubSeq(scopes, 1, Len(scopes) - 1)
         /\ Answers("none", NULL) /\ UNCHANGED <<residents, time, outcome>>

Blank(id) == IF variable_name_is_string(id) THEN value_string_new(<<>>) ELSE value_int_new(0)

(* LOCAL stops the program at a resident integer.                          *)
Local(ids) ==
  LET done == {i \in DOMAIN ids : \A j \in 1..i : ~Resident(ids, j)}
      new == LocalsAt(ids, [i \in DOMAIN ids |-> Blank(ids[i])], done)
  IN  IF Len(scopes) = 1 THEN Refuses("NOT_LOCAL")
      ELSE /\ scopes' = [scopes EXCEPT ![Len(scopes)] = With(@, new)]
           /\ outcome' = IF done = DOMAIN ids THEN outcome ELSE "crash"
           /\ Answers("none", NULL) /\ UNCHANGED <<residents, time>>

(* The innermost local of that name, or else the global variable.          *)
Assign(id, v) ==
  IF variable_name_is_resident(id)
  THEN IF value_is_int(v)
       THEN /\ residents' = [residents EXCEPT ![id[1]] = v.num]
            /\ Answers("none", NULL) /\ UNCHANGED <<scopes, time, outcome>>
       ELSE Refuses("TYPE_MISMATCH")
  ELSE IF id = TIME
  THEN IF value_is_numeric(v)
       THEN /\ time' = value_int(v)
            /\ Answers("none", NULL) /\ UNCHANGED <<scopes, residents, outcome>>
       ELSE Refuses("TYPE_MISMATCH")
  ELSE IF Fits(id, v)
  THEN /\ scopes' = [scopes EXCEPT ![IF Bound(id) THEN Innermost(id) ELSE 1] =
                       With(@, Only(id, Variable(v)))]
       /\ Answers("none", NULL) /\ UNCHANGED <<residents, time, outcome>>
  ELSE Refuses("TYPE_MISMATCH")

Eval(id) ==
  IF variable_name_is_resident(id)
  THEN /\ Answers("none", value_int_new(residents[id[1]]))
       /\ UNCHANGED <<scopes, residents, time, outcome>>
  ELSE IF id = TIME
  THEN /\ \E t \in Elapsed : Answers("none", value_int_new(Wrap(time + t)))
       /\ UNCHANGED <<scopes, residents, time, outcome>>
  ELSE IF id = COUNT
  THEN /\ \E c \in Columns : Answers("none", value_int_new(c))
       /\ UNCHANGED <<scopes, residents, time, outcome>>
  ELSE IF ~Bound(id) THEN Refuses("NO_SUCH_VARIABLE")
  ELSE IF Meaning(id).type = "ARRAY" THEN Stops("abort")
  ELSE /\ Answers("none", Meaning(id).u)
       /\ UNCHANGED <<scopes, residents, time, outcome>>

(* An array is global, and made only where its name means nothing yet.     *)
Dim(id, vals) ==
  LET dims == [i \in DOMAIN vals |-> vals[i].num]
      nameless == ~(\/ variable_name_is_real(id) \/ variable_name_is_string(id)
                    \/ variable_name_is_resident(id) \/ variable_name_is_integer(id))
  IN  IF \E i \in DOMAIN vals : ~value_is_int(vals[i]) THEN Refuses("TYPE_MISMATCH")
      ELSE IF Bound(id) THEN Refuses("BAD_DIM")
      ELSE IF nameless THEN Stops("abort")
      ELSE IF Allocation(dims) # "made" THEN Stops(Allocation(dims))
      ELSE /\ scopes' = [scopes EXCEPT ![1] = With(@, Only(id, Cell("ARRAY",
                 [dims |-> dims,
                  data |-> [i \in 1..array_size(dims) |-> Zero(ArrayType(id))]])))]
           /\ Answers("none", NULL) /\ UNCHANGED <<residents, time, outcome>>

Refusal(id, indices) ==
  IF ~Bound(id) \/ (Bound(id) /\ Meaning(id).type # "ARRAY") THEN "ARRAY"
  ELSE ElementError(Meaning(id).u, indices)

At(id, indices) == array_index(Meaning(id).u.dims, indices) + 1

SetElement(id, indices, v) ==
  IF Refusal(id, indices) \in {"abort", "overrun"} THEN Stops(Refusal(id, indices))
  ELSE IF Refusal(id, indices) # "none" THEN Refuses(Refusal(id, indices))
  ELSE IF ~ElementFits(ArrayType(id), v) THEN Refuses("TYPE_MISMATCH")
  ELSE /\ scopes' = [scopes EXCEPT ![Innermost(id)][id].u.data[At(id, indices)] =
                       Element(ArrayType(id), v)]
       /\ Answers("none", NULL) /\ UNCHANGED <<residents, time, outcome>>

GetElement(id, indices) ==
  IF Refusal(id, indices) \in {"abort", "overrun"} THEN Stops(Refusal(id, indices))
  ELSE IF Refusal(id, indices) # "none" THEN Refuses(Refusal(id, indices))
  ELSE /\ Answers("none", Meaning(id).u.data[At(id, indices)])
       /\ UNCHANGED <<scopes, residents, time, outcome>>

(* CLEAR forgets the variables of every scope, not arrays and procedures.  *)
Clear ==
  /\ scopes' = [s \in DOMAIN scopes |->
       [id \in {n \in DOMAIN scopes[s] : scopes[s][n].type \in {"ARRAY", "PROCEDURE"}} |->
          scopes[s][id]]]
  /\ Answers("none", NULL) /\ UNCHANGED <<residents, time, outcome>>

End == /\ scopes' = <<<<>>>> /\ outcome' = "ended"
       /\ Answers("none", NULL) /\ UNCHANGED <<residents, time>>

Step ==
  \/ \E id \in Called, args \in ArgLists : Call(id, args)
  \/ Leave
  \/ \E ids \in LocalLists : Local(ids)
  \/ \E id \in Variables, v \in Assigned : Assign(id, v)
  \/ \E id \in Variables : Eval(id)
  \/ \E id \in Arrays, dims \in DimLists : Dim(id, dims)
  \/ \E id \in Arrays, indices \in IndexLists, v \in Assigned :
        SetElement(id, indices, v)
  \/ \E id \in Arrays, indices \in IndexLists : GetElement(id, indices)
  \/ Clear
  \/ End

Next == outcome = "running" /\ Step

Spec == Init /\ [][Next]_vars
================================================================================
