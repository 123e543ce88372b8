-------------------------------- MODULE Symbols --------------------------------
(***************************************************************************)
(* The symbol table (symbols.c) and the statements that use it: a stack of *)
(* frames, each a hash table of chains of symbols, and beside it the       *)
(* resident integers @% and A% to Z% and the clock behind TIME.            *)
(*                                                                         *)
(* A procedure is in the base table under a name no variable can have: the *)
(* lexer tells them apart.  The arguments of an operation are values       *)
(* already evaluated, NULL for an expression that failed.                  *)
(***************************************************************************)
EXTENDS Names

CONSTANTS
  Variables,   (* the names of variables and arrays                        *)
  Arrays,      (* bound: those used as arrays                              *)
  Buckets,     (* the buckets of a frame                                   *)
  Hash,        (* djb2hash: the bucket of a name                           *)
  Defs,        (* the DEFs of the program in its order: name, parameters   *)
  Called,      (* the procedures and functions that are called             *)
  Assigned,    (* the values that are assigned                             *)
  ArgLists,    (* the arguments of calls                                   *)
  LocalLists,  (* the names a LOCAL gives                                  *)
  DimLists,    (* the subscripts of a DIM                                  *)
  IndexLists,  (* the subscripts of an element                             *)
  Elapsed,     (* 1/100 s on the clock since TIME was set                  *)
  Columns,     (* the print columns COUNT stands for                       *)
  MaxFrames    (* bound: frames, the base table included                   *)

ASSUME SymbolsAssumption ==
  /\ Variables \cap (Called \cup {Defs[i].id : i \in DOMAIN Defs}) = {}
  /\ Hash \in [Variables \cup Called \cup {Defs[i].id : i \in DOMAIN Defs} -> Buckets]
  /\ Defs \in Seq([id : {Defs[i].id : i \in DOMAIN Defs}, params : Seq(Variables)])
  /\ LocalLists \subseteq Seq(Variables)
  /\ Arrays \subseteq Variables
  /\ Assigned \subseteq Value
  /\ ArgLists \subseteq Seq(Value \cup {NULL})
  /\ DimLists \cup IndexLists \subseteq Seq(Value)
  /\ MaxFrames \in Nat \ {0}
  /\ 2314 \in IntRange

VARIABLES
  frames,          \* the base table first, the frame of the running call last
  residents,       \* the resident integers by their letter
  set_time_value,  \* what TIME was last set to
  result,          \* the error and the value of the last operation
  outcome          \* whether the program runs, and how it stopped if not

vars == <<frames, residents, set_time_value, result, outcome>>

-----------------------------------------------------------------------------
(* Symbols and frames.                                                     *)

Symbol(id, type, u) == [id |-> id, type |-> type, u |-> u]
EmptyTable == [b \in Buckets |-> <<>>]
top_frame == Len(frames)
have_frames == Len(frames) > 1

Places(id, t) == {i \in DOMAIN t[Hash[id]] : t[Hash[id]][i].id = id}
InFrame(id, t) == Places(id, t) # {}
Place(id, t) == CHOOSE i \in Places(id, t) : \A j \in Places(id, t) : i <= j
symbol_find_frame(id, t) == t[Hash[id]][Place(id, t)]

(* A mutant: the frames are searched from the base table up.               *)
FoundFromBase(id) ==
  IF \E f \in DOMAIN frames : InFrame(id, frames[f])
  THEN CHOOSE f \in DOMAIN frames :
         InFrame(id, frames[f]) /\ \A g \in 1..(f - 1) : ~InFrame(id, frames[g])
  ELSE 0

(* The frame in which symbol_find finds a name, 0 if it is in none.        *)
FoundIn(id) ==
  IF \E f \in DOMAIN frames : InFrame(id, frames[f])
  THEN CHOOSE f \in DOMAIN frames :
         /\ InFrame(id, frames[f])
         /\ \A g \in (f + 1)..top_frame : ~InFrame(id, frames[g])
  ELSE 0
symbol_find(id) == symbol_find_frame(id, frames[FoundIn(id)])

symbol_insert_frame(s, t) ==
  IF InFrame(s.id, t)
  THEN [t EXCEPT ![Hash[s.id]][Place(s.id, t)] = s]
  ELSE [t EXCEPT ![Hash[s.id]] = Append(@, s)]

(* Arrays and procedures stay.                                             *)
Simple == {"FLOAT", "INTEGER", "STRING"}
Cleared(chain) ==
  LET kept[i \in 0..Len(chain)] ==
        IF i = 0 THEN <<>>
        ELSE IF chain[i].type \in Simple THEN kept[i - 1]
        ELSE Append(kept[i - 1], chain[i])
  IN  kept[Len(chain)]
clear_buckets(t) == [b \in Buckets |-> Cleared(t[b])]

(* Of the DEF statement only the parameters matter here.                   *)
procedure_add(id, params, t) == symbol_insert_frame(Symbol(id, "PROCEDURE", params), t)

BaseTable ==
  LET after[i \in 0..Len(Defs)] ==
        IF i = 0 THEN EmptyTable
        ELSE procedure_add(Defs[i].id, Defs[i].params, after[i - 1])
  IN  after[Len(Defs)]

-----------------------------------------------------------------------------
(* Variables.  An assignment gives the new table or residents and an error.*)

(* A mutant: variables are not checked against their names.                *)
AddedUnchecked(id, v, st) ==
  [st EXCEPT !.table = symbol_insert_frame(Symbol(id, Kind(v), v), @)]

(* st: a table, the residents and the error so far.                        *)
variable_add_frame(id, v, st) ==
  IF Fits(id, v)
  THEN [st EXCEPT !.table = symbol_insert_frame(Symbol(id, Kind(v), v), @)]
  ELSE [st EXCEPT !.error = "TYPE_MISMATCH"]

(* With no value it reads the type of a null pointer.                      *)
resident_assign(c, v, st) ==
  IF v = NULL THEN [st EXCEPT !.error = "crash"]
  ELSE IF value_is_int(v) THEN [st EXCEPT !.residents[c] = v.num]
  ELSE [st EXCEPT !.error = "TYPE_MISMATCH"]

symbol_variable_assign_local(id, v, st) ==
  IF variable_name_is_resident(id) THEN resident_assign(id[1], v, st)
  ELSE IF v # NULL THEN variable_add_frame(id, v, st)
  ELSE IF variable_name_is_string(id)
       THEN variable_add_frame(id, value_string_new(<<>>), st)
       ELSE variable_add_frame(id, value_int_new(0), st)

(* Locals given values one after the other, up to the first error.         *)
AssignLocals(ids, vals, table) ==
  LET after[i \in 0..Len(ids)] ==
        IF i = 0 THEN [table |-> table, residents |-> residents, error |-> "none"]
        ELSE IF after[i - 1].error # "none" THEN after[i - 1]
        ELSE symbol_variable_assign_local(ids[i], vals[i], after[i - 1])
  IN  after[Len(ids)]

(* A mutant: any frame may have the variable, the base table excepted.     *)
OutermostHome(id) ==
  IF \E f \in 2..top_frame : InFrame(id, frames[f])
  THEN CHOOSE f \in 2..top_frame :
         /\ InFrame(id, frames[f])
         /\ \A g \in 2..(f - 1) : ~InFrame(id, frames[g])
  ELSE 1

(* The frame variable_add puts a variable in.                              *)
Home(id) ==
  IF \E f \in 2..top_frame : InFrame(id, frames[f])
  THEN CHOOSE f \in 2..top_frame :
         /\ InFrame(id, frames[f])
         /\ \A g \in (f + 1)..top_frame : ~InFrame(id, frames[g])
  ELSE 1

-----------------------------------------------------------------------------
(* Operations.                                                             *)

Answers(error, v) == result' = [error |-> error, value |-> v]
Fails(error) == Answers(error, NULL) /\ UNCHANGED <<frames, residents, set_time_value>>
Stops(how) == outcome' = how /\ Answers("none", NULL)

(* Takes the table of frame f and the residents from st.                   *)
Takes(st, f) ==
  /\ IF st.error = "crash" THEN Stops("crash")
     ELSE Answers(st.error, NULL) /\ UNCHANGED outcome
  /\ frames' = [frames EXCEPT ![f] = st.table]
  /\ residents' = st.residents
  /\ UNCHANGED set_time_value

Init ==
  /\ frames = <<BaseTable>>
  /\ residents = [c \in Upper \cup {"@"} |-> IF c = "@" THEN 2314 ELSE 0]
  /\ set_time_value = 0
  /\ result = [error |-> "none", value |-> NULL]
  /\ outcome = "running"

(* A mutant: the frame of a failed call stays.                             *)
FailsWithFrame(params, args) ==
  LET st == AssignLocals(params, args, EmptyTable)
  IN  IF ArgumentError(params, args) # "none" THEN Fails(ArgumentError(params, args))
      ELSE /\ frames' = Append(frames, st.table)
           /\ residents' = st.residents /\ Answers(st.error, NULL)
           /\ UNCHANGED set_time_value

(* A call, which gets a new frame with the arguments as locals.            *)
pass_arguments(params, args) ==
  LET st == AssignLocals(params, args, EmptyTable)
  IN  IF ArgumentError(params, args) # "none" THEN Fails(ArgumentError(params, args))
      ELSE /\ frames' = IF st.error = "none" THEN Append(frames, st.table) ELSE frames
           /\ residents' = st.residents /\ Answers(st.error, NULL)
           /\ UNCHANGED set_time_value

Call(id, args) ==
  /\ outcome = "running" /\ top_frame < MaxFrames
  /\ IF FoundIn(id) = 0 THEN Fails("NO_SUCH_FN_PROC")
     ELSE pass_arguments(symbol_find(id).u, args)
  /\ UNCHANGED outcome

(* The end of a call: the statements pop only frames that calls pushed.    *)
symbol_table_pop_frame ==
  /\ outcome = "running" /\ have_frames
  /\ frames' = SubSeq(frames, 1, top_frame - 1)
  /\ Answers("none", NULL)
  /\ UNCHANGED <<residents, set_time_value, outcome>>

(* LOCAL goes on after an error; none but the crash can happen.            *)
Local(ids) ==
  /\ outcome = "running"
  /\ IF have_frames
     THEN Takes(AssignLocals(ids, [i \in DOMAIN ids |-> NULL], frames[top_frame]), top_frame)
     ELSE Fails("NOT_LOCAL") /\ UNCHANGED outcome

Assign(id, v) ==
  LET st(f) == [table |-> frames[f], residents |-> residents, error |-> "none"]
  IN  /\ outcome = "running"
      /\ IF variable_name_is_resident(id)
         THEN Takes(resident_assign(id[1], v, st(1)), 1)
         ELSE IF id = TIME
         THEN /\ IF value_is_numeric(v)
                 THEN /\ set_time_value' = value_int(v) /\ Answers("none", NULL)
                      /\ UNCHANGED <<frames, residents>>
                 ELSE Fails("TYPE_MISMATCH")
              /\ UNCHANGED outcome
         ELSE Takes(variable_add_frame(id, v, st(Home(id))), Home(id))

Eval(id) ==
  /\ outcome = "running"
  /\ UNCHANGED <<frames, residents, set_time_value>>
  /\ IF variable_name_is_resident(id)
     THEN Answers("none", value_int_new(residents[id[1]])) /\ UNCHANGED outcome
     ELSE IF id = TIME
     THEN /\ \E hsecs \in Elapsed :
               Answers("none", value_int_new(Wrap(set_time_value + hsecs)))
          /\ UNCHANGED outcome
     ELSE IF id = COUNT
     THEN (\E c \in Columns : Answers("none", value_int_new(c))) /\ UNCHANGED outcome
     ELSE IF FoundIn(id) = 0
     THEN Answers("NO_SUCH_VARIABLE", NULL) /\ UNCHANGED outcome
     ELSE IF symbol_find(id).type = "ARRAY" THEN Stops("abort")
     ELSE Answers("none", symbol_find(id).u) /\ UNCHANGED outcome

(* DIM, its subscripts evaluated.  A letter with % that is no resident     *)
(* integer is of no type that symbol_array_dimension knows.                *)
Dim(id, vals) ==
  LET dims == [i \in DOMAIN vals |-> vals[i].num]
      array == [dims |-> dims,
                data |-> [i \in 1..array_size(dims) |-> Zero(ArrayType(id))]]
      typed == \/ variable_name_is_real(id) \/ variable_name_is_string(id)
               \/ variable_name_is_resident(id) \/ variable_name_is_integer(id)
  IN  /\ outcome = "running"
      /\ UNCHANGED <<residents, set_time_value>>
      /\ IF \E i \in DOMAIN vals : ~value_is_int(vals[i])
         THEN Answers("TYPE_MISMATCH", NULL) /\ UNCHANGED <<frames, outcome>>
         ELSE IF FoundIn(id) # 0
         THEN Answers("BAD_DIM", NULL) /\ UNCHANGED <<frames, outcome>>
         ELSE IF ~typed THEN Stops("abort") /\ UNCHANGED frames
         ELSE IF Allocation(dims) # "made"
         THEN Stops(Allocation(dims)) /\ UNCHANGED frames
         ELSE /\ frames' = [frames EXCEPT ![1] =
                              symbol_insert_frame(Symbol(id, "ARRAY", array), @)]
              /\ Answers("none", NULL) /\ UNCHANGED outcome

(* The array a subscripted name stands for, and the error if there is none.*)
ArrayError(id, indices) ==
  IF FoundIn(id) = 0 THEN "ARRAY"
  ELSE IF symbol_find(id).type # "ARRAY" THEN "ARRAY"
  ELSE ElementError(symbol_find(id).u, indices)

symbol_array_assign(id, indices, v) ==
  /\ outcome = "running"
  /\ UNCHANGED <<residents, set_time_value>>
  /\ CASE ArrayError(id, indices) \in {"abort", "overrun"} ->
            Stops(ArrayError(id, indices)) /\ UNCHANGED frames
       [] ArrayError(id, indices) = "none" ->
            LET f == FoundIn(id)
                k == array_index(symbol_find(id).u.dims, indices)
            IN  /\ IF ElementFits(ArrayType(id), v)
                   THEN /\ frames' =
                             [frames EXCEPT ![f][Hash[id]][Place(id, frames[f])].u.data[k + 1]
                                = Element(ArrayType(id), v)]
                        /\ Answers("none", NULL)
                   ELSE Answers("TYPE_MISMATCH", NULL) /\ UNCHANGED frames
                /\ UNCHANGED outcome
       [] OTHER -> Answers(ArrayError(id, indices), NULL) /\ UNCHANGED <<frames, outcome>>

symbol_array_eval(id, indices) ==
  /\ outcome = "running"
  /\ UNCHANGED <<frames, residents, set_time_value>>
  /\ CASE ArrayError(id, indices) \in {"abort", "overrun"} ->
            Stops(ArrayError(id, indices))
       [] ArrayError(id, indices) = "none" ->
            /\ LET a == symbol_find(id).u
               IN  Answers("none", a.data[array_index(a.dims, indices) + 1])
            /\ UNCHANGED outcome
       [] OTHER -> Answers(ArrayError(id, indices), NULL) /\ UNCHANGED outcome

(* CLEAR                                                                   *)
symbol_table_clear ==
  /\ outcome = "running"
  /\ frames' = [f \in DOMAIN frames |-> clear_buckets(frames[f])]
  /\ Answers("none", NULL)
  /\ UNCHANGED <<residents, set_time_value, outcome>>

(* The end of the program frees every frame and every chain.               *)
symbol_table_free ==
  /\ outcome = "running"
  /\ frames' = <<EmptyTable>>
  /\ outcome' = "ended" /\ Answers("none", NULL)
  /\ UNCHANGED <<residents, set_time_value>>

Next ==
  \/ \E id \in Called, args \in ArgLists : Call(id, args)
  \/ symbol_table_pop_frame
  \/ \E ids \in LocalLists : Local(ids)
  \/ \E id \in Variables, v \in Assigned : Assign(id, v)
  \/ \E id \in Variables : Eval(id)
  \/ \E id \in Arrays, dims \in DimLists : Dim(id, dims)
  \/ \E id \in Arrays, indices \in IndexLists, v \in Assigned :
        symbol_array_assign(id, indices, v)
  \/ \E id \in Arrays, indices \in IndexLists : symbol_array_eval(id, indices)
  \/ symbol_table_clear
  \/ symbol_table_free

Spec == Init /\ [][Next]_vars

-----------------------------------------------------------------------------
(* Properties.                                                             *)

Symbols(t) == UNION {{t[b][i] : i \in DOMAIN t[b]} : b \in Buckets}

(* Whether a symbol is what its name and its frame allow: variables hold   *)
(* values their names may have, an array has as many elements as its       *)
(* dimensions say, arrays and procedures are global.                       *)
SymbolOK(s, f) ==
  CASE s.type \in Simple ->
         s.id \in Variables /\ s.type = Kind(s.u) /\ Fits(s.id, s.u)
    [] s.type = "ARRAY" ->
         /\ f = 1 /\ s.id \in Variables
         /\ Len(s.u.data) = array_size(s.u.dims)
         /\ \A k \in DOMAIN s.u.data : /\ ElementFits(ArrayType(s.id), s.u.data[k])
                                       /\ Element(ArrayType(s.id), s.u.data[k]) = s.u.data[k]
    [] s.type = "PROCEDURE" -> f = 1 /\ s.id \notin Variables

(* Types: a chain has each name once, in the bucket of its hash, and each  *)
(* symbol is one its name and its frame allow (variable_add_frame,         *)
(* symbol_array_dimension, symbol_insert_frame).                           *)
TypeOK ==
  /\ Len(frames) \in 1..MaxFrames
  /\ \A f \in DOMAIN frames :
       /\ DOMAIN frames[f] = Buckets
       /\ \A b \in Buckets : \A i, j \in DOMAIN frames[f][b] :
            /\ Hash[frames[f][b][i].id] = b
            /\ frames[f][b][i].id = frames[f][b][j].id => i = j
            /\ SymbolOK(frames[f][b][i], f)
  /\ residents \in [Upper \cup {"@"} -> IntRange]
  /\ set_time_value \in IntRange
  /\ outcome \in {"running", "abort", "exit", "overrun", "crash", "ended"}

(* The chains are scopes: every operation does to them what Scopes says of *)
(* a stack of functions (symbol_find, symbol_insert_frame, clear_buckets). *)
Abstract == INSTANCE Scopes WITH
  scopes <- [f \in DOMAIN frames |->
               [id \in {s.id : s \in Symbols(frames[f])} |->
                  LET s == symbol_find_frame(id, frames[f])
                  IN  [type |-> s.type, u |-> s.u]]],
  time <- set_time_value

ImplementsScopes == Abstract!Spec

(* While a local or a parameter hides a name, nothing changes what the     *)
(* name is bound to in the frames below, so the caller finds it again when *)
(* the call returns; CLEAR excepted (variable_add, symbol_array_assign,    *)
(* symbol_array_dimension).                                                *)
SameBinding(id, t, u) ==
  /\ InFrame(id, t) <=> InFrame(id, u)
  /\ InFrame(id, t) => symbol_find_frame(id, t) = symbol_find_frame(id, u)
HiddenIsKept ==
  [][\/ symbol_table_clear \/ symbol_table_free
     \/ \A id \in Variables : \A f \in 1..(FoundIn(id) - 1) :
          SameBinding(id, frames[f], frames'[f])]_vars

(* An operation that fails leaves every frame as it was: a call whose      *)
(* third argument does not fit its parameter, an assignment to an element  *)
(* with a value of the wrong type (pass_arguments, symbol_array_assign).   *)
FailureBindsNothing == [][result'.error # "none" => UNCHANGED frames]_vars

(* The lists of subscripts a DIM allows, and how many they are.            *)
Subscripts(dims) ==
  {[i \in DOMAIN dims |-> value_int_new(p[i])] :
     p \in {q \in [DOMAIN dims -> UNION {0..dims[i] : i \in DOMAIN dims}] :
              \A i \in DOMAIN dims : q[i] <= dims[i]}}
Count(dims) ==
  LET product[i \in 0..Len(dims)] == IF i = 0 THEN 1 ELSE product[i - 1] * (dims[i] + 1)
  IN  product[Len(dims)]
Bounded(dims) == \A i \in DOMAIN dims : dims[i] \in 0..(IntMax - 1)

(* The subscripts a DIM allows and the elements of the array correspond    *)
(* one to one, for every array with bounds that are not negative and no    *)
(* more elements than an int can number: for these the wrapping product    *)
(* and the quotients are those the subscripts need (array_index,           *)
(* array_size).                                                            *)
ElementsAreIndexed ==
  \A s \in {s \in Symbols(frames[1]) :
             s.type = "ARRAY" /\ Bounded(s.u.dims) /\ Count(s.u.dims) <= IntMax} :
    /\ \A p \in Subscripts(s.u.dims) : ElementError(s.u, p) = "none"
    /\ {array_index(s.u.dims, p) + 1 : p \in Subscripts(s.u.dims)} = DOMAIN s.u.data
    /\ \A p, q \in Subscripts(s.u.dims) :
         array_index(s.u.dims, p) = array_index(s.u.dims, q) => p = q

(* n + 1 elements are allocated for DIM var(n), and similarly for any      *)
(* higher dimensions, as the comment on array_size has it.                 *)
EveryElementIsAllocated ==
  \A s \in {s \in Symbols(frames[1]) : s.type = "ARRAY" /\ Bounded(s.u.dims)} :
    Len(s.u.data) = Count(s.u.dims)

(* LOCAL of a resident integer is an assignment like any other, as the     *)
(* comment in symbol_variable_assign_local has it.                         *)
LocalIsSafe == outcome # "crash"

(* CLEAR forgets all variables in use: README.md says so, arrays or not.   *)
ClearForgets ==
  [][symbol_table_clear => \A id \in Variables : \A f \in DOMAIN frames' :
                             ~InFrame(id, frames'[f])]_vars
================================================================================
