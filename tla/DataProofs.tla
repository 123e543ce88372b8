------------------------------- MODULE DataProofs -------------------------------
(***************************************************************************)
(* READ takes the items of DATA one after the other, for any program, any  *)
(* READs and any number of items; and the pointers it follows are to items.*)
(***************************************************************************)
EXTENDS Data, ProgramBuildProofs

-----------------------------------------------------------------------------
(* The inductive invariant.                                                *)

(* The program runs only when it is built, and the list of items is final. *)
RunsWhenBuilt ==
  /\ running = "yes" => phase = "building" /\ stmt = NULL
  /\ running = "no" => given = <<>> /\ pending = <<>>

(* Unless READs are nested, one READ waits at most, and for its subscripts *)
(* only with the item that data_ptr is still at.                           *)
OneWaits ==
  nested \/ pending = <<>>
    \/ /\ Len(pending) = 1 /\ pending = <<pending[1]>>
       /\ pending[1] = [left |-> pending[1].left, item |-> pending[1].item]
       /\ pending[1].item \in {NULL, data_ptr}

IsSequence(s) == \E P : s \in Seq(P)

ReadInv ==
  /\ RunsWhenBuilt /\ OneWaits /\ ItemsInOrder
  /\ nested \/ IsSequence(given)

-----------------------------------------------------------------------------
(* The bookkeeping of READ holds before the program runs.                  *)
LEMMA ReadInvInit == DataInit => ReadInv
<1> SUFFICES ASSUME DataInit PROVE ReadInv
  OBVIOUS
<1>1. given = <<>> /\ pending = <<>> /\ running = "no" /\ given \in Seq({})
  BY DEF DataInit
<1> QED BY <1>1 DEF ReadInv, RunsWhenBuilt, OneWaits, ItemsInOrder, IsSequence

(* An item more, the one the pointer was at.                               *)
LEMMA GivenOneMore ==
  ASSUME IsSequence(given), NEW p, given' = Append(given, p),
         \A i \in 1..(Len(given) - 1) : given[i + 1] = given[i] + 1,
         given # <<>> => p = given[Len(given)] + 1
  PROVE  /\ IsSequence(given')
         /\ \A i \in 1..(Len(given') - 1) : given'[i + 1] = given'[i] + 1
         /\ given'[Len(given')] = p
<1>1. PICK P : given \in Seq(P)
  BY DEF IsSequence
<1> DEFINE Q == P \cup {p}
           n == Len(given)
<1>2. given \in Seq(Q)
  BY <1>1, SeqMonotonic, P \subseteq Q
<1>3. /\ given' \in Seq(Q) /\ Len(given') = n + 1 /\ given'[n + 1] = p
      /\ \A i \in 1..n : given'[i] = given[i]
  BY <1>2
<1>4. n \in Nat /\ (n # 0 => given # <<>>)
  BY <1>1
<1>5. ASSUME NEW i \in 1..(Len(given') - 1) PROVE given'[i + 1] = given'[i] + 1
  <2>1. CASE i = n
    BY <1>3, <1>4, <1>5, <2>1
  <2>2. CASE i # n
    BY <1>3, <1>4, <1>5, <2>2
  <2> QED BY <2>1, <2>2
<1> QED BY <1>3, <1>5 DEF IsSequence

(* assign_value and the step to the next item keep the order when the item *)
(* is the one data_ptr is at.                                              *)
LEMMA GivesStep ==
  ASSUME ReadInv, running = "yes", ~nested, Len(pending) = 1, pending = <<pending[1]>>,
         data_ptr # NULL, Gives(data_ptr), UNCHANGED <<nested, vars>>
  PROVE  ReadInv'
<1>1. Outer = <<>> /\ InnerRead = pending[1]
  BY DEF Outer, InnerRead
<1>2. RunsWhenBuilt' /\ ~nested'
  BY DEF ReadInv, RunsWhenBuilt, Gives, ReadFails, vars, loading, building, freeing
<1>3. CASE data_items[data_ptr].type # InnerRead.left[1].type
  <2>1. pending' = <<>> /\ UNCHANGED <<data_ptr, given, running, data_items>>
    BY <1>1, <1>3 DEF Gives, ReadFails, vars, building
  <2> QED BY <1>2, <2>1 DEF ReadInv, OneWaits, ItemsInOrder, value_next
<1>4. CASE data_items[data_ptr].type = InnerRead.left[1].type
  <2>1. /\ given' = Append(given, data_ptr) /\ data_ptr' = value_next(data_ptr)
        /\ pending' = <<[left |-> Tail(InnerRead.left), item |-> NULL]>>
        /\ UNCHANGED <<running, data_items>>
    BY <1>1, <1>4 DEF Gives, WithInner, vars, building
  <2>2. given # <<>> => data_ptr = given[Len(given)] + 1
    BY DEF ReadInv, ItemsInOrder, value_next
  <2>3. /\ IsSequence(given')
        /\ \A i \in 1..(Len(given') - 1) : given'[i + 1] = given'[i] + 1
        /\ given'[Len(given')] = data_ptr
    BY <2>1, <2>2, GivenOneMore DEF ReadInv, ItemsInOrder
  <2>4. ItemsInOrder'
    BY <2>1, <2>3 DEF ItemsInOrder, value_next
  <2>5. OneWaits'
    BY <2>1 DEF OneWaits
  <2> QED BY <1>2, <2>3, <2>4, <2>5 DEF ReadInv
<1> QED BY <1>3, <1>4

-----------------------------------------------------------------------------
(* What is nested stays so until a RESTORE outside of any READ: until then *)
(* nothing is claimed.                                                     *)
LEMMA NestedStep ==
  ASSUME ReadInv, running = "yes", nested, nested', running' # "no", UNCHANGED vars
  PROVE  ReadInv'
<1>1. RunsWhenBuilt'
  BY DEF ReadInv, RunsWhenBuilt, vars
<1> QED BY <1>1, Zenon DEF ReadInv, OneWaits, ItemsInOrder

(* A step that leaves the items alone and waits as one READ may.           *)
LEMMA WaitingStep ==
  ASSUME ReadInv, running = "yes", ~nested, UNCHANGED <<vars, running, data_ptr, given>>,
         OneWaits'
  PROVE  ReadInv'
BY DEF ReadInv, RunsWhenBuilt, ItemsInOrder, value_next, vars, building

(* The start of a READ keeps its bookkeeping.                              *)
LEMMA StartReadStep ==
  ASSUME ReadInv, NEW r, StartRead(r), UNCHANGED vars
  PROVE  ReadInv'
<1>1. running = "yes" /\ UNCHANGED <<running, data_ptr, given>>
  BY DEF StartRead, MayStart
<1>2. CASE nested'
  <2>1. RunsWhenBuilt'
    BY <1>1 DEF ReadInv, RunsWhenBuilt, vars
  <2> QED BY <1>2, <2>1 DEF ReadInv, OneWaits, ItemsInOrder
<1>3. CASE ~nested'
  <2>1. ~nested /\ pending' = <<[left |-> r, item |-> NULL]>>
    <3>1. ~nested /\ pending = <<>>
      BY <1>3, Zenon DEF StartRead
    <3> QED BY <3>1 DEF StartRead
  <2> QED BY <1>1, <2>1, WaitingStep DEF OneWaits
<1> QED BY <1>2, <1>3

(* A variable given its item keeps the bookkeeping of READ.                *)
LEMMA ReadNextStep ==
  ASSUME ReadInv, ReadNext, UNCHANGED vars
  PROVE  ReadInv'
<1>1. running = "yes" /\ pending # <<>> /\ UNCHANGED nested
  BY DEF ReadNext
<1>2. CASE nested
  <2>1. running' # "no"
    BY <1>1 DEF ReadNext, Gives, ReadFails, WithInner
  <2> QED BY <1>1, <1>2, <2>1, NestedStep
<1>3. CASE ~nested
  <2>1. /\ Len(pending) = 1 /\ pending = <<pending[1]>>
        /\ Outer = <<>> /\ InnerRead = pending[1]
    BY <1>1, <1>3 DEF ReadInv, OneWaits, Outer, InnerRead
  <2>2. CASE data_ptr = NULL
    <3>1. pending' = <<>> /\ UNCHANGED <<running, data_ptr, given>>
      BY <2>1, <2>2 DEF ReadNext, ReadFails
    <3> QED BY <1>1, <1>3, <3>1, WaitingStep DEF OneWaits
  <2>3. CASE data_ptr # NULL /\ InnerRead.left[1].subscripted
    <3>1. /\ pending' = <<[InnerRead EXCEPT !.item = data_ptr]>>
          /\ UNCHANGED <<running, data_ptr, given>>
      BY <2>1, <2>3 DEF ReadNext, WithInner
    <3>2. InnerRead = [left |-> InnerRead.left, item |-> InnerRead.item]
      BY <1>1, <1>3, <2>1 DEF ReadInv, OneWaits
    <3> QED BY <1>1, <1>3, <3>1, <3>2, WaitingStep DEF OneWaits
  <2>4. CASE data_ptr # NULL /\ ~InnerRead.left[1].subscripted
    BY <1>1, <1>3, <2>1, <2>4, GivesStep DEF ReadNext
  <2> QED BY <2>2, <2>3, <2>4
<1> QED BY <1>2, <1>3

(* A variable whose subscript READs inside keeps the bookkeeping of READ.  *)
LEMMA SubscriptedStep ==
  ASSUME ReadInv, Subscripted, UNCHANGED vars
  PROVE  ReadInv'
<1>1. running = "yes" /\ pending # <<>> /\ UNCHANGED nested
  BY DEF Subscripted
<1>2. CASE nested
  <2>1. running' # "no"
    BY <1>1 DEF Subscripted, Gives, ReadFails, WithInner
  <2> QED BY <1>1, <1>2, <2>1, NestedStep
<1>3. CASE ~nested
  <2>1. /\ Len(pending) = 1 /\ pending = <<pending[1]>>
        /\ Outer = <<>> /\ InnerRead = pending[1]
    BY <1>1, <1>3 DEF ReadInv, OneWaits, Outer, InnerRead
  <2>2. InnerRead.item = data_ptr /\ data_ptr # NULL
    BY <1>1, <1>3, <2>1 DEF ReadInv, OneWaits, Subscripted
  <2>3. CASE Gives(InnerRead.item)
    BY <1>1, <1>3, <2>1, <2>2, <2>3, GivesStep
  <2>4. CASE ReadFails
    <3>1. pending' = <<>> /\ UNCHANGED <<running, data_ptr, given>>
      BY <2>1, <2>4 DEF ReadFails
    <3> QED BY <1>1, <1>3, <3>1, WaitingStep DEF OneWaits
  <2> QED BY <2>3, <2>4 DEF Subscripted
<1> QED BY <1>2, <1>3

(* The end of a READ keeps its bookkeeping.                                *)
LEMMA ReadEndsStep ==
  ASSUME ReadInv, ReadEnds, UNCHANGED vars
  PROVE  ReadInv'
<1>1. running = "yes" /\ pending # <<>> /\ UNCHANGED <<running, data_ptr, given, nested>>
  BY DEF ReadEnds
<1>2. CASE nested
  BY <1>1, <1>2, NestedStep
<1>3. CASE ~nested
  <2>1. pending' = <<>>
    BY <1>1, <1>3 DEF ReadInv, OneWaits, ReadEnds, Outer
  <2> QED BY <1>1, <1>3, <2>1, WaitingStep DEF OneWaits
<1> QED BY <1>2, <1>3

(* RESTORE begins a new count, or finds no such line.                      *)
LEMMA RestoreStep ==
  ASSUME ReadInv, stmt_exec_restore, UNCHANGED vars
  PROVE  ReadInv'
<1>1. running = "yes"
  BY DEF stmt_exec_restore, MayStart
<1>2. ASSUME NEW p, Restores(p) PROVE ReadInv'
  <2>1. given' = <<>> /\ given' \in Seq({}) /\ running' = running
    BY <1>2 DEF Restores
  <2>2. nested' \/ pending' = <<>>
    BY <1>2 DEF Restores
  <2>3. RunsWhenBuilt'
    BY <1>1, <2>1 DEF ReadInv, RunsWhenBuilt, vars
  <2> QED BY <2>1, <2>2, <2>3 DEF ReadInv, OneWaits, ItemsInOrder, IsSequence
<1>3. CASE UNCHANGED <<running, data_ptr, pending, given, nested>>
  BY <1>3 DEF ReadInv, RunsWhenBuilt, OneWaits, ItemsInOrder, value_next, vars, building
<1> QED BY <1>2, <1>3 DEF stmt_exec_restore

(* While it runs the program is neither read, built nor freed.             *)
LEMMA ProgramStep ==
  ASSUME ReadInv, Next, statement_free => running = "over", UNCHANGED reading
  PROVE  ReadInv'
<1>1. running # "yes"
  BY DEF ReadInv, RunsWhenBuilt, Next, line_add, StartBuild, build_statements, statement_free,
         Visit, FreeSub, FreeStatement, Freed
<1> QED BY <1>1 DEF ReadInv, RunsWhenBuilt, OneWaits, ItemsInOrder, reading

(* Every step keeps the bookkeeping of READ.                               *)
LEMMA ReadInvNext == ReadInv /\ [DataNext]_<<vars, reading>> => ReadInv'
<1> SUFFICES ASSUME ReadInv, [DataNext]_<<vars, reading>> PROVE ReadInv'
  OBVIOUS
<1>1. CASE reset_data_pointer
  <2>1. /\ given' = <<>> /\ pending' = <<>> /\ given' \in Seq({})
        /\ running' = "yes" /\ phase' = "building" /\ stmt' = NULL
    BY <1>1 DEF ReadInv, RunsWhenBuilt, reset_data_pointer, vars, building
  <2> QED BY <2>1 DEF ReadInv, RunsWhenBuilt, OneWaits, ItemsInOrder, IsSequence
<1>2. ASSUME NEW r \in ReadLists, StartRead(r), UNCHANGED vars PROVE ReadInv'
  BY <1>2, StartReadStep
<1>3. CASE ReadNext /\ UNCHANGED vars
  BY <1>3, ReadNextStep
<1>4. CASE Subscripted /\ UNCHANGED vars
  BY <1>4, SubscriptedStep
<1>5. CASE ReadEnds /\ UNCHANGED vars
  BY <1>5, ReadEndsStep
<1>6. CASE stmt_exec_restore /\ UNCHANGED vars
  BY <1>6, RestoreStep
<1>7. CASE RunEnds /\ UNCHANGED vars
  <2>1. given' = <<>> /\ pending' = <<>> /\ given' \in Seq({}) /\ running' = "over"
    BY <1>7 DEF RunEnds
  <2> QED BY <2>1 DEF ReadInv, RunsWhenBuilt, OneWaits, ItemsInOrder, IsSequence
<1>8. CASE Next /\ (statement_free => running = "over") /\ UNCHANGED reading
  BY <1>8, ProgramStep
<1>9. CASE UNCHANGED <<vars, reading>>
  BY <1>9 DEF ReadInv, RunsWhenBuilt, OneWaits, ItemsInOrder, value_next, vars, building, reading
<1> QED BY <1>1, <1>2, <1>3, <1>4, <1>5, <1>6, <1>7, <1>8, <1>9 DEF DataNext, RunStep

-----------------------------------------------------------------------------
(* The items and the pointers to them.                                     *)

(* Each entry of the data map is an item.                                  *)
Mapped == data_map \in [Buckets -> Seq([line : DOMAIN Hash, at : DOMAIN data_items])]

(* READs in progress have chosen items.                                    *)
Waits == \E L : pending \in Seq([left : L, item : {NULL} \cup DOMAIN data_items])

(* Nothing READs before the program is built or when it is over, and a null*)
(* pointer is followed only after a nested READ.                           *)
Runs ==
  /\ running \in {"no", "yes", "over", "crashed"}
  /\ running \in {"yes", "crashed"} => phase = "building" /\ stmt = NULL
  /\ running \in {"no", "over"} => data_ptr = NULL /\ pending = <<>>
  /\ running = "crashed" => nested

ItemPointers ==
  /\ Runs /\ IsSequence(data_items) /\ Mapped
  /\ data_ptr \in {NULL} \cup DOMAIN data_items
  /\ Waits /\ Len(pending) <= MaxNested

DataInv == Inv /\ ReadInv /\ ItemPointers

(* The invariant of the data pointer holds at the start.                   *)
LEMMA DataInvInit == DataInit => DataInv
<1> SUFFICES ASSUME DataInit PROVE DataInv
  OBVIOUS
<1>1. Inv /\ ReadInv
  BY InvInit, ReadInvInit DEF DataInit
<1>2. data_items = <<>> /\ data_map = [b \in Buckets |-> <<>>]
  BY DEF DataInit, Init
<1>3. IsSequence(data_items) /\ Mapped
  <2>1. data_items \in Seq({})
    BY <1>2
  <2>2. data_map \in [Buckets -> Seq([line : DOMAIN Hash, at : DOMAIN data_items])]
    BY <1>2
  <2> QED BY <2>1, <2>2 DEF IsSequence, Mapped
<1>4. Waits /\ Len(pending) <= MaxNested
  <2>1. pending = <<>> /\ MaxNested \in Nat
    BY DataAssumption DEF DataInit
  <2>2. pending \in Seq([left : {}, item : {NULL} \cup DOMAIN data_items])
    BY <2>1
  <2> QED BY <2>1, <2>2 DEF Waits
<1> QED BY <1>1, <1>3, <1>4 DEF DataInv, ItemPointers, Runs, DataInit

(* The items of a DATA statement come behind the others, and the entry of  *)
(* its line is the first of them.                                          *)
LEMMA ItemsTakenIs ==
  ASSUME IsSequence(data_items), Mapped, NEW s, NEW E, text.items[s] \in Seq(E),
         text.items[s] # <<>>, NEW n \in DOMAIN Hash, ItemsTaken(s, n)
  PROVE  IsSequence(data_items') /\ Mapped'
<1>1. PICK P : data_items \in Seq(P)
  BY DEF IsSequence
<1>2. PICK a, b : a = data_items /\ b = text.items[s]
  OBVIOUS
<1>3. /\ a \in Seq(P \cup E) /\ b \in Seq(P \cup E) /\ b # <<>>
  <2>1. P \subseteq P \cup E /\ E \subseteq P \cup E
    OBVIOUS
  <2> QED BY <1>1, <1>2, <2>1, SeqMonotonic
<1>4. /\ a \o b \in Seq(P \cup E) /\ Len(a \o b) = Len(a) + Len(b)
      /\ Len(a) \in Nat /\ Len(b) \in Nat \ {0}
  <2>1. a \o b \in Seq(P \cup E) /\ Len(a \o b) = Len(a) + Len(b)
    BY <1>3, ConcatProperties
  <2>2. Len(a) \in Nat /\ Len(b) \in Nat \ {0}
    BY <1>3, EmptySeq
  <2> QED BY <2>1, <2>2
<1>5. data_items' = a \o b
  BY <1>2 DEF ItemsTaken
<1>6. DOMAIN a \subseteq DOMAIN data_items' /\ Len(a) + 1 \in DOMAIN data_items'
  <2>1. DOMAIN (a \o b) = 1..(Len(a) + Len(b)) /\ DOMAIN a = 1..Len(a)
    <3> DEFINE c == a \o b
    <3>1. c \in Seq(P \cup E) /\ Len(c) = Len(a) + Len(b)
      BY <1>4
    <3> HIDE DEF c
    <3>2. DOMAIN c = 1..(Len(a) + Len(b))
      BY <3>1
    <3> QED BY <1>3, <3>2 DEF c
  <2> QED BY <1>4, <1>5, <2>1
<1>7. IsSequence(data_items')
  BY <1>4, <1>5 DEF IsSequence
<1> DEFINE C == [line : DOMAIN Hash, at : DOMAIN a]
           D == [line : DOMAIN Hash, at : DOMAIN data_items']
           e == [line |-> n, at |-> Len(a) + 1]
<1>8. data_map \in [Buckets -> Seq(D)]
  <2>1. data_map \in [Buckets -> Seq(C)]
    BY <1>2 DEF Mapped
  <2>2. C \subseteq D
    BY <1>6
  <2> HIDE DEF C, D
  <2>3. Seq(C) \subseteq Seq(D)
    BY <2>2, SeqMonotonic
  <2> QED BY <2>1, <2>3
<1>9. Mapped'
  <2>1. CASE InMap(n, data_map)
    <3>1. data_map' = [b0 \in Buckets |-> <<>>]
      BY <2>1 DEF ItemsTaken
    <3> QED BY <3>1 DEF Mapped
  <2>2. CASE ~InMap(n, data_map)
    <3>1. data_map' = [data_map EXCEPT ![Hash[n]] = Append(@, e)]
      BY <1>2, <2>2 DEF ItemsTaken, MapAdd
    <3>2. e \in D /\ Hash[n] \in Buckets
      BY <1>6, TextsAre
    <3> HIDE DEF D, e
    <3>3. Append(data_map[Hash[n]], e) \in Seq(D)
      BY <1>8, <3>2
    <3>4. data_map' \in [Buckets -> Seq(D)]
      BY <1>8, <3>1, <3>2, <3>3
    <3> QED BY <3>4 DEF Mapped, D
  <2> QED BY <2>1, <2>2
<1> QED BY <1>7, <1>9

(* Building a statement keeps the items a sequence, and the line map on    *)
(* it.                                                                     *)
LEMMA ItemsStep ==
  ASSUME Inv, IsSequence(data_items), Mapped, Next
  PROVE  IsSequence(data_items') /\ Mapped'
<1>1. CASE build_statements
  <2>1. PICK n : n = lines[line].number
    OBVIOUS
  <2>2. PICK s : s = stmt
    OBVIOUS
  <2>3. stmt \in Tops /\ line = LineAt(stmt) /\ Settled
    <3>1. phase = "building" /\ stmt # NULL
      BY <1>1 DEF build_statements
    <3> QED BY <3>1, InvSettled DEF InUse, Progress
  <2>4. n \in DOMAIN Hash
    <3>1. line \in DOMAIN lines
      BY <2>3, LineAtIs
    <3>2. lines[line] \in LineSet
      BY <2>3, <3>1, TopListIs
    <3> QED BY <2>1, <3>2 DEF LineSet
  <2>5. s \in DOMAIN text.type
    BY <2>2, <2>3 DEF Tops, Stmts
  <2>6. text.items[s] \in Seq(Elements(text.items[s]))
        /\ (text.type[s] = "DATA" => text.items[s] # <<>>)
    BY <2>3, <2>5 DEF Settled, IsProgram, IsText
  <2>7. CASE text.type[s] = "DATA"
    <3>1. ItemsTaken(s, n)
      BY <1>1, <2>1, <2>2, <2>7 DEF build_statements
    <3> QED BY <2>4, <2>6, <2>7, <3>1, ItemsTakenIs
  <2>8. CASE text.type[s] # "DATA"
    <3>1. UNCHANGED <<data_items, data_map>>
      BY <1>1, <2>2, <2>8 DEF build_statements
    <3> QED BY <3>1 DEF Mapped
  <2> QED BY <2>7, <2>8
<1>2. CASE ~build_statements
  <2>1. UNCHANGED <<data_items, data_map>>
    BY <1>2 DEF Next, line_add, StartBuild, statement_free, Visit, FreeSub, FreeStatement,
                Freed, building
  <2> QED BY <2>1 DEF Mapped
<1> QED BY <1>1, <1>2

(* Pointers to items lead to items.                                        *)
LEMMA ItemsAre ==
  ASSUME ItemPointers
  PROVE  /\ Len(data_items) \in Nat /\ DOMAIN data_items = 1..Len(data_items)
         /\ Head1 \in {NULL} \cup DOMAIN data_items
         /\ \A p \in DOMAIN data_items : value_next(p) \in {NULL} \cup DOMAIN data_items
         /\ \A n \in DOMAIN Hash : data_map_find(n) \in {NULL} \cup DOMAIN data_items
<1>1. PICK P : data_items \in Seq(P)
  BY DEF ItemPointers, IsSequence
<1>2. Len(data_items) \in Nat /\ DOMAIN data_items = 1..Len(data_items)
  BY <1>1
<1>3. Head1 \in {NULL} \cup DOMAIN data_items
  BY <1>1, <1>2, EmptySeq DEF Head1
<1>4. \A p \in DOMAIN data_items : value_next(p) \in {NULL} \cup DOMAIN data_items
  BY <1>2 DEF value_next
<1>5. ASSUME NEW n \in DOMAIN Hash, InMap(n, data_map)
      PROVE  MapFind(n, data_map) \in DOMAIN data_items
  <2> DEFINE D == [line : DOMAIN Hash, at : DOMAIN data_items]
             chain == data_map[Hash[n]]
             i == CHOOSE j \in DOMAIN chain : chain[j].line = n
  <2>1. chain \in Seq(D)
    BY TextsAre DEF ItemPointers, Mapped
  <2>2. i \in DOMAIN chain
    BY <1>5 DEF InMap
  <2>3. MapFind(n, data_map) = chain[i].at
    BY DEF MapFind
  <2> HIDE DEF D, chain, i
  <2>4. chain[i] \in D
    BY <2>1, <2>2
  <2> QED BY <2>3, <2>4 DEF D
<1>6. \A n \in DOMAIN Hash : data_map_find(n) \in {NULL} \cup DOMAIN data_items
  BY <1>5 DEF data_map_find
<1> QED BY <1>2, <1>3, <1>4, <1>6

(* The innermost READ ends, or another takes its place or waits in it.     *)
LEMMA PendingIs ==
  ASSUME Waits, pending # <<>>, NEW x, NEW v \in {NULL} \cup DOMAIN data_items,
         UNCHANGED data_items
  PROVE  /\ InnerRead = [left |-> InnerRead.left, item |-> InnerRead.item]
         /\ InnerRead.item \in {NULL} \cup DOMAIN data_items
         /\ Len(pending) \in Nat
         /\ pending' = Outer => Waits' /\ Len(pending') = Len(pending) - 1
         /\ pending' = Outer \o <<[left |-> x, item |-> v]>> =>
              Waits' /\ Len(pending') = Len(pending)
<1> DEFINE T == {NULL} \cup DOMAIN data_items
<1>1. PICK L : pending \in Seq([left : L, item : T])
  BY DEF Waits
<1> DEFINE K == L \cup {x}
           C == [left : L, item : T]
           D == [left : K, item : T]
           c == [left |-> x, item |-> v]
           n == Len(pending)
<1>2. pending \in Seq(D) /\ c \in D
  <2>1. C \subseteq D /\ c \in D
    OBVIOUS
  <2>2. pending \in Seq(C)
    BY <1>1
  <2> HIDE DEF C, D, c
  <2> QED BY <2>1, <2>2, SeqMonotonic
<1>3. /\ n \in Nat \ {0} /\ pending[n] \in D
      /\ Outer \in Seq(D) /\ Len(Outer) = n - 1
      /\ Outer \o <<c>> \in Seq(D) /\ Len(Outer \o <<c>>) = n
  <2>1. PICK W, q, e : W = D /\ q = pending /\ e = c
    OBVIOUS
  <2>2. q \in Seq(W) /\ q # <<>> /\ e \in W
    BY <1>2, <2>1, Zenon
  <2> DEFINE m == Len(q)
             u == SubSeq(q, 1, m - 1)
  <2>3. m \in Nat \ {0} /\ q[m] \in W /\ DOMAIN q = 1..m
    BY ONLY <2>2, EmptySeq
  <2>4. u \in Seq(W) /\ Len(u) = m - 1
    BY ONLY <2>2, <2>3
  <2>5. u \o <<e>> \in Seq(W) /\ Len(u \o <<e>>) = m
    <3> HIDE DEF u, m
    <3> QED BY ONLY <2>2, <2>3, <2>4
  <2>6. Outer = u /\ m = n
    BY <2>1 DEF Outer
  <2> HIDE DEF u, m, n, D, c
  <2> QED BY <2>1, <2>3, <2>4, <2>5, <2>6
<1>4. InnerRead = [left |-> InnerRead.left, item |-> InnerRead.item] /\ InnerRead.item \in T
  <2>1. InnerRead \in D
    BY <1>3 DEF InnerRead
  <2> QED BY <2>1
<1>5. \A p \in Seq(D) : pending' = p => Waits'
  <2>1. DOMAIN data_items' = DOMAIN data_items
    OBVIOUS
  <2> HIDE DEF K
  <2> QED BY <2>1 DEF Waits
<1> HIDE DEF D, n
<1> QED BY <1>3, <1>4, <1>5 DEF n

(* A step of a READ: the innermost goes on or ends.                        *)
LEMMA PendingStep ==
  ASSUME DataInv, Inv', ReadInv', UNCHANGED vars, pending # <<>>, running = "yes",
         \/ pending' = Outer
         \/ \E x : \E v \in {NULL} \cup DOMAIN data_items :
              pending' = Outer \o <<[left |-> x, item |-> v]>>,
         running' = "yes", data_ptr' \in {NULL} \cup DOMAIN data_items
  PROVE  DataInv'
<1>1. Waits' /\ Len(pending') <= MaxNested
  <2>1. Len(pending) <= MaxNested /\ MaxNested \in Nat /\ Waits
    BY DataAssumption DEF DataInv, ItemPointers
  <2>2. UNCHANGED data_items
    BY DEF vars, building
  <2>3. CASE pending' = Outer
    <3>1. Len(pending) \in Nat /\ Waits' /\ Len(pending') = Len(pending) - 1
      <4>1. NULL \in {NULL} \cup DOMAIN data_items
        OBVIOUS
      <4> QED BY <2>1, <2>2, <2>3, <4>1, PendingIs
    <3> QED BY <2>1, <3>1
  <2>4. ASSUME NEW x, NEW v \in {NULL} \cup DOMAIN data_items,
               pending' = Outer \o <<[left |-> x, item |-> v]>>
        PROVE  Waits' /\ Len(pending') <= MaxNested
    <3>1. Waits' /\ Len(pending') = Len(pending)
      BY <2>1, <2>2, <2>4, PendingIs
    <3> QED BY <2>1, <3>1
  <2> QED BY <2>3, <2>4
<1>2. UNCHANGED <<data_items, data_map, phase, stmt>>
  BY DEF vars, building
<1>3. Runs'
  BY <1>2 DEF DataInv, ItemPointers, Runs
<1>4. IsSequence(data_items') /\ Mapped'
  BY <1>2 DEF DataInv, ItemPointers, Mapped
<1> QED BY <1>1, <1>2, <1>3, <1>4 DEF DataInv, ItemPointers

(* An item given to a variable keeps the invariant.                        *)
LEMMA GivesTypes ==
  ASSUME DataInv, Inv', ReadInv', UNCHANGED vars, UNCHANGED nested, pending # <<>>,
         running = "yes", NEW p \in DOMAIN data_items, Gives(p), data_ptr = NULL => nested
  PROVE  DataInv'
<1>1. data_ptr \in {NULL} \cup DOMAIN data_items
  BY DEF DataInv, ItemPointers
<1>2. CASE ReadFails
  BY <1>1, <1>2, PendingStep DEF ReadFails
<1>3. CASE ~ReadFails /\ data_ptr = NULL
  <2>1. running' = "crashed" /\ UNCHANGED <<data_ptr, pending>>
    BY <1>3 DEF Gives
  <2>2. UNCHANGED <<data_items, data_map, phase, stmt>>
    BY DEF vars, building
  <2>3. Runs'
    BY <1>3, <2>1, <2>2 DEF DataInv, ItemPointers, Runs
  <2>4. IsSequence(data_items') /\ Mapped' /\ Waits'
    BY <2>1, <2>2 DEF DataInv, ItemPointers, Mapped, Waits
  <2> QED BY <2>1, <2>2, <2>3, <2>4 DEF DataInv, ItemPointers
<1>4. CASE ~ReadFails /\ data_ptr # NULL
  <2>1. /\ data_ptr' = value_next(data_ptr) /\ running' = running
        /\ pending' = Outer \o <<[left |-> Tail(InnerRead.left), item |-> NULL]>>
    BY <1>4 DEF Gives, WithInner
  <2>2. data_ptr' \in {NULL} \cup DOMAIN data_items
    BY <1>1, <1>4, <2>1, ItemsAre DEF DataInv
  <2> QED BY <2>1, <2>2, PendingStep
<1> QED BY <1>2, <1>3, <1>4

(* A variable given its item by READ keeps the data pointer's invariant.   *)
LEMMA DataReadNext ==
  ASSUME DataInv, Inv', ReadInv', UNCHANGED vars, ReadNext
  PROVE  DataInv'
<1>1. /\ running = "yes" /\ pending # <<>> /\ UNCHANGED nested
      /\ data_ptr \in {NULL} \cup DOMAIN data_items /\ Waits
  BY DEF ReadNext, DataInv, ItemPointers
<1>2. CASE data_ptr = NULL
  <2>1. pending' = Outer /\ UNCHANGED <<running, data_ptr>>
    BY <1>2 DEF ReadNext, ReadFails
  <2> QED BY <1>1, <2>1, PendingStep
<1>3. CASE data_ptr # NULL /\ InnerRead.left[1].subscripted
  <2>1. /\ pending' = Outer \o <<[InnerRead EXCEPT !.item = data_ptr]>>
        /\ UNCHANGED <<running, data_ptr>>
    BY <1>3 DEF ReadNext, WithInner
  <2>2. UNCHANGED data_items
    BY DEF vars, building
  <2>3. PICK l, m : InnerRead = [left |-> l, item |-> m]
    BY <1>1, <2>2, PendingIs
  <2>4. [InnerRead EXCEPT !.item = data_ptr] = [left |-> l, item |-> data_ptr]
    BY <2>3
  <2> QED BY <1>1, <2>1, <2>4, PendingStep
<1>4. CASE data_ptr # NULL /\ ~InnerRead.left[1].subscripted
  <2>1. Gives(data_ptr) /\ data_ptr \in DOMAIN data_items
    BY <1>1, <1>4 DEF ReadNext
  <2> QED BY <1>1, <1>4, <2>1, GivesTypes
<1> QED BY <1>2, <1>3, <1>4

(* So does a variable whose subscript READs inside.                        *)
LEMMA DataSubscripted ==
  ASSUME DataInv, Inv', ReadInv', UNCHANGED vars, Subscripted
  PROVE  DataInv'
<1>1. /\ running = "yes" /\ pending # <<>> /\ UNCHANGED nested /\ InnerRead.item # NULL
      /\ data_ptr \in {NULL} \cup DOMAIN data_items /\ Waits
  BY DEF Subscripted, DataInv, ItemPointers
<1>2. CASE ReadFails
  <2>1. pending' = Outer /\ UNCHANGED <<running, data_ptr>>
    BY <1>2 DEF ReadFails
  <2> QED BY <1>1, <2>1, PendingStep
<1>3. CASE Gives(InnerRead.item)
  <2>1. InnerRead.item \in DOMAIN data_items
    <3>1. UNCHANGED data_items
      BY DEF vars, building
    <3>2. InnerRead.item \in {NULL} \cup DOMAIN data_items
      BY <1>1, <3>1, PendingIs
    <3> QED BY <1>1, <3>2
  <2>2. data_ptr = NULL => nested
    <3>1. nested \/ (InnerRead = pending[1] /\ pending[1].item \in {NULL, data_ptr})
      BY <1>1 DEF DataInv, ReadInv, OneWaits, InnerRead
    <3> QED BY <1>1, <3>1
  <2> QED BY <1>1, <1>3, <2>1, <2>2, GivesTypes
<1> QED BY <1>2, <1>3 DEF Subscripted

(* READ begins, and waits for its first item.                              *)
LEMMA DataStartRead ==
  ASSUME DataInv, Inv', ReadInv', UNCHANGED vars, NEW r, StartRead(r)
  PROVE  DataInv'
<1>1. /\ running = "yes" /\ UNCHANGED <<running, data_ptr>> /\ Len(pending) < MaxNested
      /\ pending' = Append(pending, [left |-> r, item |-> NULL])
  BY DEF StartRead, MayStart
<1>2. UNCHANGED <<data_items, data_map, phase, stmt>>
  BY DEF vars, building
<1> DEFINE T == {NULL} \cup DOMAIN data_items
<1>3. PICK L : pending \in Seq([left : L, item : T])
  BY DEF DataInv, ItemPointers, Waits
<1> DEFINE K == L \cup {r}
           C == [left : L, item : T]
           D == [left : K, item : T]
           c == [left |-> r, item |-> NULL]
<1>4. PICK W, e : W = D /\ e = c
  OBVIOUS
<1>5. pending \in Seq(W) /\ e \in W
  <2>1. C \subseteq D /\ c \in D
    OBVIOUS
  <2>2. pending \in Seq(C)
    BY <1>3
  <2> HIDE DEF C, D, c
  <2> QED BY <1>4, <2>1, <2>2, SeqMonotonic
<1>6. pending' \in Seq(W) /\ Len(pending') = Len(pending) + 1 /\ Len(pending) \in Nat
  <2>1. pending' = Append(pending, e)
    BY <1>1, <1>4
  <2> QED BY ONLY <1>5, <2>1
<1>7. Waits'
  <2>1. pending' \in Seq([left : K, item : ({NULL} \cup DOMAIN data_items)'])
    BY <1>2, <1>4, <1>6
  <2> HIDE DEF K
  <2> QED BY <2>1 DEF Waits
<1>8. Len(pending') <= MaxNested
  BY <1>1, <1>6, DataAssumption
<1> QED BY <1>1, <1>2, <1>7, <1>8 DEF DataInv, ItemPointers, Runs, Mapped

(* What changes no READ in progress and leaves data_ptr at an item.        *)
LEMMA DataQuiet ==
  ASSUME DataInv, Inv', ReadInv', UNCHANGED <<data_items, data_map, pending>>, Runs',
         data_ptr' \in {NULL} \cup DOMAIN data_items
  PROVE  DataInv'
<1>1. IsSequence(data_items') /\ Mapped'
  BY DEF DataInv, ItemPointers, Mapped
<1>2. Waits' /\ Len(pending') <= MaxNested
  BY DEF DataInv, ItemPointers, Waits
<1> QED BY <1>1, <1>2 DEF DataInv, ItemPointers

(* RESTORE keeps the data pointer's invariant.                             *)
LEMMA DataRestore ==
  ASSUME DataInv, Inv', ReadInv', UNCHANGED vars, stmt_exec_restore
  PROVE  DataInv'
<1>1. running = "yes" /\ ItemPointers
  BY DEF stmt_exec_restore, MayStart, DataInv
<1>2. UNCHANGED <<data_items, data_map, phase, stmt>>
  BY DEF vars, building
<1>3. UNCHANGED <<pending, running>> /\ data_ptr' \in {NULL} \cup DOMAIN data_items
  <2>1. CASE Restores(Head1)
    BY <1>1, <2>1, ItemsAre DEF Restores
  <2>2. ASSUME NEW n \in RestoreTo, Restores(data_map_find(n))
        PROVE  UNCHANGED <<pending, running>> /\ data_ptr' \in {NULL} \cup DOMAIN data_items
    <3>1. n \in DOMAIN Hash
      BY DataAssumption
    <3> QED BY <1>1, <2>2, <3>1, ItemsAre DEF Restores
  <2>3. CASE UNCHANGED <<running, data_ptr, pending, given, nested>>
    BY <1>1, <2>3 DEF ItemPointers
  <2> QED BY <2>1, <2>2, <2>3 DEF stmt_exec_restore
<1>4. Runs'
  BY <1>1, <1>2, <1>3 DEF ItemPointers, Runs
<1> QED BY <1>2, <1>3, <1>4, DataQuiet

(* Building, freeing and waiting for the program to run.                   *)
LEMMA DataProgram ==
  ASSUME DataInv, Inv', ReadInv', Next, statement_free => running = "over", UNCHANGED reading
  PROVE  DataInv'
<1>1. running \notin {"yes", "crashed"}
  BY DEF DataInv, ItemPointers, Runs, Next, line_add, StartBuild, build_statements,
         statement_free, Visit, FreeSub, FreeStatement, Freed
<1>2. data_ptr' = NULL /\ pending' = <<>> /\ Runs'
  BY <1>1 DEF DataInv, ItemPointers, Runs, reading
<1>3. IsSequence(data_items') /\ Mapped'
  BY ItemsStep DEF DataInv, ItemPointers
<1>4. Waits' /\ Len(pending') <= MaxNested
  <2>1. pending' \in Seq([left : {}, item : ({NULL} \cup DOMAIN data_items)'])
    BY <1>2
  <2> QED BY <1>2, <2>1, DataAssumption DEF Waits
<1> QED BY <1>2, <1>3, <1>4 DEF DataInv, ItemPointers

(* Every step keeps the invariant of the data pointer.                     *)
LEMMA DataInvNext == DataInv /\ [DataNext]_<<vars, reading>> => DataInv'
<1> SUFFICES ASSUME DataInv, [DataNext]_<<vars, reading>> PROVE DataInv'
  OBVIOUS
<1>1. ReadInv'
  BY ReadInvNext DEF DataInv
<1>2. Inv'
  <2>1. [Next]_vars
    BY DEF DataNext, reset_data_pointer
  <2> QED BY <2>1, InvNext DEF DataInv
<1>3. CASE reset_data_pointer
  <2>1. /\ running = "no" /\ phase = "building" /\ stmt = NULL /\ running' = "yes"
        /\ data_ptr' = Head1
        /\ UNCHANGED <<data_items, data_map, pending, phase, stmt, nested>>
    BY <1>3 DEF reset_data_pointer, vars, building
  <2>2. Runs' /\ data_ptr' \in {NULL} \cup DOMAIN data_items
    BY <2>1, ItemsAre DEF DataInv, ItemPointers, Runs
  <2> QED BY <1>1, <1>2, <2>1, <2>2, DataQuiet
<1>4. ASSUME NEW r \in ReadLists, StartRead(r), UNCHANGED vars PROVE DataInv'
  BY <1>1, <1>2, <1>4, DataStartRead
<1>5. CASE ReadNext /\ UNCHANGED vars
  BY <1>1, <1>2, <1>5, DataReadNext
<1>6. CASE Subscripted /\ UNCHANGED vars
  BY <1>1, <1>2, <1>6, DataSubscripted
<1>7. CASE ReadEnds /\ UNCHANGED vars
  <2>1. /\ running = "yes" /\ running' = "yes" /\ pending # <<>> /\ pending' = Outer
        /\ data_ptr' = data_ptr
    BY <1>7 DEF ReadEnds
  <2>2. data_ptr' \in {NULL} \cup DOMAIN data_items
    BY <2>1 DEF DataInv, ItemPointers
  <2> QED BY <1>1, <1>2, <1>7, <2>1, <2>2, PendingStep
<1>8. CASE stmt_exec_restore /\ UNCHANGED vars
  BY <1>1, <1>2, <1>8, DataRestore
<1>9. CASE RunEnds /\ UNCHANGED vars
  <2>1. /\ running' = "over" /\ data_ptr' = NULL /\ pending' = <<>>
        /\ UNCHANGED <<data_items, data_map>>
    BY <1>9 DEF RunEnds, vars, building
  <2>2. Waits' /\ Len(pending') <= MaxNested
    <3>1. pending' \in Seq([left : {}, item : ({NULL} \cup DOMAIN data_items)'])
      BY <2>1
    <3> QED BY <2>1, <3>1, DataAssumption DEF Waits
  <2>3. IsSequence(data_items') /\ Mapped' /\ Runs'
    BY <2>1 DEF DataInv, ItemPointers, Mapped, Runs
  <2> QED BY <1>1, <1>2, <2>1, <2>2, <2>3 DEF DataInv, ItemPointers
<1>10. CASE Next /\ (statement_free => running = "over") /\ UNCHANGED reading
  BY <1>1, <1>2, <1>10, DataProgram
<1>11. CASE UNCHANGED <<vars, reading>>
  <2>1. UNCHANGED <<data_items, data_map, pending, data_ptr, running, nested, phase, stmt>>
    BY <1>11 DEF vars, building, reading
  <2>2. Runs' /\ data_ptr' \in {NULL} \cup DOMAIN data_items
    BY <2>1 DEF DataInv, ItemPointers, Runs
  <2> QED BY <1>1, <1>2, <2>1, <2>2, DataQuiet
<1> QED BY <1>3, <1>4, <1>5, <1>6, <1>7, <1>8, <1>9, <1>10, <1>11 DEF DataNext, RunStep

-----------------------------------------------------------------------------
(* READ never skips an item and never takes one twice, over any number of  *)
(* statements, errors and retries since the last RESTORE, unless a         *)
(* function called in a subscript READs or RESTOREs.                       *)
THEOREM ItemsComeInOrder == DataSpec => []ItemsInOrder
<1>1. ReadInv => ItemsInOrder
  BY DEF ReadInv
<1> QED BY <1>1, ReadInvInit, ReadInvNext, PTL DEF DataSpec

(* The pointers READ and RESTORE follow are to items of the list or null,  *)
(* and a null one is followed only after a READ in a subscript of a READ   *)
(* took the last item (stmt_exec_read, value_next).                        *)
THEOREM ItemPointersAreTyped == DataSpec => []DataTypeOK
<1>1. ASSUME DataInv PROVE DataTypeOK
  <2>1. TypeOK
    BY <1>1 DEF DataInv, Inv, Pointers
  <2>2. \A r \in Elements(pending) : r.item \in {NULL} \cup DOMAIN data_items
    <3> DEFINE T == {NULL} \cup DOMAIN data_items
    <3>1. PICK L : pending \in Seq([left : L, item : T])
      BY <1>1 DEF DataInv, ItemPointers, Waits
    <3>2. ASSUME NEW i \in DOMAIN pending PROVE pending[i].item \in T
      <4> DEFINE C == [left : L, item : T]
      <4>1. pending[i] \in C
        <5>1. pending \in Seq(C)
          BY <3>1
        <5> HIDE DEF C
        <5> QED BY <5>1
      <4> QED BY <4>1
    <3> QED BY <3>2 DEF Elements
  <2> QED BY <1>1, <2>1, <2>2 DEF DataInv, ItemPointers, Runs, DataTypeOK
<1> QED BY <1>1, DataInvInit, DataInvNext, PTL DEF DataSpec

(* A program is built and freed in the same way though it runs in between. *)
THEOREM DataImplementsBuild == DataSpec => Spec
<1>1. DataInit => Init
  BY DEF DataInit
<1>2. [DataNext]_<<vars, reading>> => [Next]_vars
  BY DEF DataNext, reset_data_pointer
<1> QED BY <1>1, <1>2, PTL DEF DataSpec, Spec
=================================================================================
