---------------------------------- MODULE Data ----------------------------------
(***************************************************************************)
(* READ and RESTORE (stmt_exec_read, stmt_exec_restore) over the DATA of a *)
(* program that ProgramBuild has put together.  A variable of a READ may   *)
(* be an element of an array, and evaluating its subscripts may call a     *)
(* function that itself READs or RESTOREs: pending holds the statements    *)
(* that wait for their subscripts, the innermost last.                     *)
(***************************************************************************)
EXTENDS ProgramBuild

CONSTANTS
  ReadLists,   (* the variables of a READ: type, and whether subscripted   *)
  RestoreTo,   (* the lines of a RESTORE                                   *)
  MaxNested,   (* bound: READ statements in progress                       *)
  MaxGiven     (* bound: items assigned since the last RESTORE             *)

ASSUME DataAssumption ==
  /\ \A r \in ReadLists : r \in Seq([type: {"int", "string"}, subscripted: BOOLEAN])
  /\ RestoreTo \subseteq DOMAIN Hash
  /\ MaxNested \in Nat /\ MaxGiven \in Nat

VARIABLES
  running,    \* whether the program runs; how it crashed if it did
  data_ptr,   \* the place of the next item in data_items, or NULL
  pending,    \* READs in progress: the variables left, the item being assigned
  failed,     \* whether the last step of a statement set an error
  given,      \* auxiliary: the items assigned since the last RESTORE
  nested      \* auxiliary: a READ or RESTORE came between an item and its
              \* variable

reading == <<running, data_ptr, pending, failed, given, nested>>

DataInit ==
  /\ Init
  /\ running = "no" /\ data_ptr = NULL /\ pending = <<>>
  /\ failed = FALSE /\ given = <<>> /\ nested = FALSE

Head1 == IF data_items = <<>> THEN NULL ELSE 1

(* A mutant: the end of the list is not seen.                              *)
NoEnd(p) == p + 1

value_next(p) == IF p = Len(data_items) THEN NULL ELSE p + 1

(* program_run, once the statements are built.                             *)
reset_data_pointer ==
  /\ running = "no" /\ phase = "building" /\ stmt = NULL
  /\ running' = "yes" /\ data_ptr' = Head1
  /\ UNCHANGED <<pending, failed, given, nested>> /\ UNCHANGED vars

InnerRead == pending[Len(pending)]
Outer == SubSeq(pending, 1, Len(pending) - 1)
WithInner(r) == pending' = Outer \o <<r>>

(* A statement runs in the program or in a function called by a subscript. *)
MayStart ==
  /\ running = "yes"
  /\ pending # <<>> => InnerRead.item # NULL

StartRead(variables) ==
  /\ MayStart /\ Len(pending) < MaxNested
  /\ pending' = Append(pending, [left |-> variables, item |-> NULL])
  /\ failed' = FALSE
  /\ nested' = (nested \/ pending # <<>>)
  /\ UNCHANGED <<running, data_ptr, given>>

(* A mutant: a READ that fails starts the DATA again.                      *)
StartsAgain == pending' = Outer /\ failed' = TRUE /\ data_ptr' = Head1
               /\ UNCHANGED <<running, given>>

ReadFails == pending' = Outer /\ failed' = TRUE /\ UNCHANGED <<running, data_ptr, given>>

(* A mutant: the pointer goes on though the item does not fit.             *)
SkipsItem(p) ==
  IF data_items[p].type = InnerRead.left[1].type
  THEN /\ given' = Append(given, p) /\ data_ptr' = value_next(data_ptr)
       /\ WithInner([left |-> Tail(InnerRead.left), item |-> NULL])
       /\ UNCHANGED <<running, failed>>
  ELSE /\ pending' = Outer /\ failed' = TRUE /\ data_ptr' = value_next(data_ptr)
       /\ UNCHANGED <<running, given>>

(* assign_value with the item at p, and the step to the item after the one *)
(* data_ptr is at by now: there may be none.                               *)
Gives(p) ==
  IF data_items[p].type # InnerRead.left[1].type THEN ReadFails
  ELSE /\ given' = Append(given, p)
       /\ IF data_ptr = NULL
          THEN running' = "crashed" /\ UNCHANGED <<data_ptr, pending>>
          ELSE /\ data_ptr' = value_next(data_ptr)
               /\ WithInner([left |-> Tail(InnerRead.left), item |-> NULL])
               /\ UNCHANGED running
       /\ UNCHANGED failed

(* The next variable of a READ: no more data, a plain variable, or one     *)
(* whose subscripts are evaluated first, with the item already chosen.     *)
ReadNext ==
  /\ running = "yes" /\ pending # <<>> /\ InnerRead.item = NULL
  /\ InnerRead.left # <<>> /\ Len(given) < MaxGiven
  /\ IF data_ptr = NULL THEN ReadFails
     ELSE IF InnerRead.left[1].subscripted
     THEN /\ WithInner([InnerRead EXCEPT !.item = data_ptr])
          /\ UNCHANGED <<running, data_ptr, failed, given>>
     ELSE Gives(data_ptr)
  /\ UNCHANGED nested

(* The subscripts are evaluated, or could not be.                          *)
Subscripted ==
  /\ running = "yes" /\ pending # <<>> /\ InnerRead.item # NULL
  /\ Len(given) < MaxGiven
  /\ Gives(InnerRead.item) \/ ReadFails
  /\ UNCHANGED nested

ReadEnds ==
  /\ running = "yes" /\ pending # <<>> /\ InnerRead.item = NULL /\ InnerRead.left = <<>>
  /\ pending' = Outer
  /\ UNCHANGED <<running, data_ptr, failed, given, nested>>

Restores(p) ==
  /\ data_ptr' = p /\ failed' = FALSE /\ given' = <<>>
  /\ nested' = (pending # <<>>)
  /\ UNCHANGED <<running, pending>>

stmt_exec_restore ==
  /\ MayStart
  /\ \/ Restores(Head1)
     \/ \E n \in RestoreTo :
          IF data_map_find(n) # NULL THEN Restores(data_map_find(n))
          ELSE failed' = TRUE /\ UNCHANGED <<running, data_ptr, pending, given, nested>>

(* The program ends between two statements, or is left in one by an error; *)
(* nothing READs from here on.                                             *)
RunEnds ==
  /\ running = "yes"
  /\ running' = "over" /\ data_ptr' = NULL /\ pending' = <<>>
  /\ failed' = FALSE /\ given' = <<>> /\ nested' = FALSE

RunStep ==
  \/ \E r \in ReadLists : StartRead(r)
  \/ ReadNext \/ Subscripted \/ ReadEnds \/ stmt_exec_restore \/ RunEnds

DataNext ==
  \/ reset_data_pointer
  \/ RunStep /\ UNCHANGED vars
  \/ /\ Next /\ (statement_free => running = "over")
     /\ UNCHANGED reading

DataSpec == DataInit /\ [][DataNext]_<<vars, reading>>

-----------------------------------------------------------------------------
(* Properties.                                                             *)

(* Types, and when data_ptr is a null pointer that is followed: only after *)
(* a READ in a subscript of a READ took the last item (value_next).        *)
DataTypeOK ==
  /\ TypeOK
  /\ running \in {"no", "yes", "over", "crashed"}
  /\ data_ptr \in {NULL} \cup DOMAIN data_items
  /\ Len(pending) <= MaxNested
  /\ \A r \in Elements(pending) : r.item \in {NULL} \cup DOMAIN data_items
  /\ running = "crashed" => nested

(* READ hands out the items one after the other, each once, starting where *)
(* the last RESTORE or the program began, over any number of statements,   *)
(* errors and retries: a READ that fails keeps the item that did not fit.  *)
(* Unless a subscript READs or RESTOREs, between the choice of an item and *)
(* the step to the next (stmt_exec_read).                                  *)
ItemsInOrder ==
  ~nested => /\ \A i \in 1..(Len(given) - 1) : given[i + 1] = given[i] + 1
             /\ running = "yes" /\ given # <<>> =>
                  data_ptr = value_next(given[Len(given)])

(* A READ takes each item once, whatever its subscripts do.                *)
ItemsOnce ==
  \A i, j \in DOMAIN given : given[i] = given[j] => i = j
================================================================================
