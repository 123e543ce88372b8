------------------------------ MODULE ProgramBuild ------------------------------
(***************************************************************************)
(* How a program is put together and taken apart: the lines as they are    *)
(* read, sorted and entered in the line map (line_add), their statements   *)
(* linked into one graph (build_statements, statement_fixup), the DATA     *)
(* collected, and the graph freed at the end (statement_free).             *)
(*                                                                         *)
(* A statement is an address in 1..n; its sub-statements (the branches of  *)
(* IF, the body of REPEAT, the ELSE of ON, the handler of ON ERROR) are    *)
(* lists of addresses, which the parser has linked by their next fields.   *)
(***************************************************************************)
EXTENDS Integers, Sequences, FiniteSets

CONSTANTS
  Texts,     (* the programs there may be in a file                        *)
  Buckets,   (* the buckets of the line map and the data map               *)
  Hash       (* int_hash: the bucket of a line number                      *)

NULL == 0    \* the null pointer

Elements(seq) == {seq[i] : i \in DOMAIN seq}

(* The lists of statements in a program: its lines and its sub-statements. *)
Lists(t) == {t.lines[i].stmts : i \in DOMAIN t.lines}
              \cup UNION {{t.subs[s][k] : k \in DOMAIN t.subs[s]} : s \in DOMAIN t.subs}

(* Statement s is a sub-statement of r.                                    *)
Contains(t, r, s) == \E k \in DOMAIN t.subs[r] : s \in Elements(t.subs[r][k])

(* A program: its lines in the order of the file, each with its number and *)
(* its statements; for each statement its type, sub-statements and items.  *)
IsText(t) ==
  LET list == Seq(DOMAIN t.type) \ {<<>>}
  IN  /\ DOMAIN t.type \subseteq Nat \ {NULL}
      /\ DOMAIN t.subs = DOMAIN t.type /\ DOMAIN t.items = DOMAIN t.type
      /\ t.lines \in Seq([number : DOMAIN Hash, stmts : list])
      /\ \A s \in DOMAIN t.type : /\ t.subs[s] \in Seq(list)
                                  /\ t.items[s] \in Seq(Elements(t.items[s]))
                                  /\ t.type[s] = "DATA" => t.items[s] # <<>>

(* The parser makes each statement at one place of one list.               *)
OnePlaceEach(t) ==
  /\ \A s \in DOMAIN t.type : \E l \in Lists(t) : s \in Elements(l)
  /\ \A l, m \in Lists(t) : \A p \in DOMAIN l, q \in DOMAIN m :
       l[p] = m[q] => l = m /\ p = q
  /\ \A i, j \in DOMAIN t.lines : t.lines[i].stmts = t.lines[j].stmts => i = j
  /\ \A r, s \in DOMAIN t.type : \A k \in DOMAIN t.subs[r], m \in DOMAIN t.subs[s] :
       t.subs[r][k] = t.subs[s][m] => r = s /\ k = m
  /\ \A i \in DOMAIN t.lines : \A s \in DOMAIN t.type : \A k \in DOMAIN t.subs[s] :
       t.lines[i].stmts # t.subs[s][k]

(* No statement is a part of itself, however deep: of any statements one   *)
(* is in none of the others, and one has none of them in it.               *)
Grounded(t) ==
  \A X \in (SUBSET DOMAIN t.type) \ {{}} :
    /\ \E s \in X : \A r \in X : ~Contains(t, r, s)
    /\ \E s \in X : \A r \in X : ~Contains(t, s, r)

(* The lexer takes all up to the end of the line for the items of a DATA.  *)
DataEndsLine(t) ==
  \A l \in Lists(t) : \A p \in DOMAIN l : t.type[l[p]] = "DATA" => p = Len(l)

ASSUME TextsAssumption ==
  /\ Hash \in [DOMAIN Hash -> Buckets] /\ DOMAIN Hash \subseteq Int
  /\ \A t \in Texts : IsText(t) /\ OnePlaceEach(t) /\ Grounded(t) /\ DataEndsLine(t)

VARIABLES
  text,       \* the program in the file
  phase,      \* reading, building, freeing, done or rejected
  read,       \* how many lines are read
  lines,      \* the lines in order: number and first statement
  line_map,   \* chains of line numbers and first statements
  next,       \* the next field of each statement
  number,     \* the line number of each statement, 0 while not set
  stmts,      \* the first statement
  line, stmt, tail,   \* the variables of build_statements
  procs,      \* the procedures and functions: the DEF of each name
  data_items, \* the items of DATA statements
  data_map,   \* chains of line numbers and their first item
  calls,      \* the activations of free_internal: statement, next, sub-statement
  set,        \* the addresses free_internal has been to
  freed       \* the statements freed

vars == <<text, phase, read, lines, line_map, next, number, stmts, line, stmt, tail,
          procs, data_items, data_map, calls, set, freed>>
loading == <<read, lines, line_map>>
building == <<line, stmt, tail, procs, data_items, data_map>>
freeing == <<calls, set, freed>>

Stmts == DOMAIN text.type
First(list) == list[1]

(* statement_append in the parser: each list is linked, its last is NULL.  *)
Parsed(t) ==
  [s \in DOMAIN t.type |->
     IF \E l \in Lists(t) : \E i \in 1..(Len(l) - 1) : l[i] = s
     THEN CHOOSE n \in DOMAIN t.type :
            \E l \in Lists(t) : \E i \in 1..(Len(l) - 1) : l[i] = s /\ l[i + 1] = n
     ELSE NULL]

Init ==
  /\ text \in Texts
  /\ phase = "reading" /\ read = 0
  /\ lines = <<>> /\ line_map = [b \in Buckets |-> <<>>]
  /\ next = Parsed(text) /\ number = [s \in Stmts |-> 0]
  /\ stmts = NULL /\ line = 1 /\ stmt = NULL /\ tail = NULL
  /\ procs = <<>> /\ data_items = <<>> /\ data_map = [b \in Buckets |-> <<>>]
  /\ calls = <<>> /\ set = {} /\ freed = {}

-----------------------------------------------------------------------------
(* Maps from line numbers: chains in buckets.                              *)

InMap(n, map) == \E i \in DOMAIN map[Hash[n]] : map[Hash[n]][i].line = n
MapAdd(n, what, map) ==
  [map EXCEPT ![Hash[n]] = Append(@, [line |-> n, at |-> what])]
MapFind(n, map) ==
  map[Hash[n]][CHOOSE i \in DOMAIN map[Hash[n]] : map[Hash[n]][i].line = n].at

line_map_find(n) == IF InMap(n, line_map) THEN MapFind(n, line_map) ELSE NULL
data_map_find(n) == IF InMap(n, data_map) THEN MapFind(n, data_map) ELSE NULL

(* A mutant: behind the first line with a higher number.                   *)
InsertedLate(l, ls) ==
  LET higher == {i \in DOMAIN ls : l.number < ls[i].number}
      place == IF higher = {} THEN Len(ls) + 1
               ELSE 1 + CHOOSE i \in higher : \A j \in higher : i <= j
  IN  SubSeq(ls, 1, place - 1) \o <<l>> \o SubSeq(ls, place, Len(ls))

(* Before the first line with a higher number, or at the end.              *)
Inserted(l, ls) ==
  LET higher == {i \in DOMAIN ls : l.number < ls[i].number}
      place == IF higher = {} THEN Len(ls) + 1
               ELSE CHOOSE i \in higher : \A j \in higher : i <= j
  IN  SubSeq(ls, 1, place - 1) \o <<l>> \o SubSeq(ls, place, Len(ls))

(* A line is read.  A number that is there already ends the program: the   *)
(* maps and the lines are freed and the parser gives up.                   *)
line_add ==
  LET l == text.lines[read + 1]
      first == First(l.stmts)
  IN  /\ phase = "reading" /\ read < Len(text.lines)
      /\ IF InMap(l.number, line_map)
         THEN /\ phase' = "rejected" /\ lines' = <<>>
              /\ line_map' = [b \in Buckets |-> <<>>] /\ UNCHANGED read
         ELSE /\ line_map' = MapAdd(l.number, first, line_map)
              /\ lines' = Inserted([number |-> l.number, stmt |-> first], lines)
              /\ read' = read + 1 /\ UNCHANGED phase
      /\ UNCHANGED <<text, next, number, stmts, building, freeing>>

-----------------------------------------------------------------------------
(* Building: one action for each statement of a line.                      *)

StartBuild ==
  /\ phase = "reading" /\ read = Len(text.lines)
  /\ phase' = "building"
  /\ stmt' = IF lines = <<>> THEN NULL ELSE lines[1].stmt
  /\ UNCHANGED <<text, loading, next, number, stmts, line, tail, procs, data_items,
                 data_map, freeing>>

(* From s by the next fields nx: the statements, and the last of them.     *)
Walk(s, nx) ==
  LET walk[t \in Stmts \cup {NULL}] == IF t = NULL THEN {} ELSE {t} \cup walk[nx[t]]
  IN  walk[s]
End(s, nx) == LET end[t \in Stmts] == IF nx[t] = NULL THEN t ELSE end[nx[t]]
              IN  end[s]

(* The statements of the lists of s, and of their lists.                   *)
Below(s, nx) ==
  LET below[t \in Stmts] ==
        UNION {UNION {{b} \cup below[b] : b \in Walk(First(l), nx)} :
                 l \in Elements(text.subs[t])}
  IN  below[s]

(* A mutant: only the first of the lists gets its link.                    *)
FirstLinked(s, after, nx) ==
  IF text.subs[s] = <<>> THEN nx ELSE [nx EXCEPT ![End(First(text.subs[s][1]), nx)] = after]

(* statement_fixup links the end of each list of s to the statement after; *)
(* the lists inside those lists keep their ends.                           *)
FixedUp(s, after, nx) ==
  LET ends == {End(First(l), nx) : l \in Elements(text.subs[s])}
  IN  [t \in DOMAIN nx |-> IF t \in ends THEN after ELSE nx[t]]

(* A mutant: sub-statements of sub-statements keep no line number.         *)
NumberedOnce(s, n, nx) ==
  [t \in Stmts |-> IF t = s \/ \E l \in Elements(text.subs[s]) : t \in Elements(l)
                   THEN n ELSE number[t]]

Numbered(s, n, nx) ==
  [t \in Stmts |-> IF t = s \/ t \in Below(s, nx) THEN n ELSE number[t]]

(* A mutant: the entry of a line is made after its items are appended.     *)
ItemsMappedLate(s, n) ==
  /\ data_items' = data_items \o text.items[s]
  /\ data_map' = MapAdd(n, Len(data_items) + Len(text.items[s]), data_map)

(* The items of a DATA statement go to the list and into the map.          *)
ItemsTaken(s, n) ==
  /\ data_items' = data_items \o text.items[s]
  /\ data_map' = IF InMap(n, data_map) THEN [b \in Buckets |-> <<>>]
                 ELSE MapAdd(n, Len(data_items) + 1, data_map)

(* The next field of the last statement is set before stmt->next is read,  *)
(* and statement_fixup comes after both.                                   *)
build_statements ==
  LET n == lines[line].number
      linked == IF tail = NULL THEN next ELSE [next EXCEPT ![tail] = stmt]
      following == linked[stmt]
      after == IF following = NULL /\ line < Len(lines) THEN lines[line + 1].stmt
               ELSE following
  IN  /\ phase = "building" /\ stmt # NULL
      /\ stmts' = IF tail = NULL THEN stmt ELSE stmts
      /\ tail' = stmt
      /\ next' = FixedUp(stmt, after, linked)
      /\ number' = Numbered(stmt, n, linked)
      /\ procs' = IF text.type[stmt] = "DEF" THEN Append(procs, stmt) ELSE procs
      /\ IF text.type[stmt] = "DATA" THEN ItemsTaken(stmt, n)
         ELSE UNCHANGED <<data_items, data_map>>
      /\ IF following = NULL /\ line < Len(lines)
         THEN line' = line + 1 /\ stmt' = lines[line + 1].stmt
         ELSE stmt' = following /\ UNCHANGED line
      /\ UNCHANGED <<text, phase, loading, freeing>>

-----------------------------------------------------------------------------
(* Freeing: free_internal calls itself for each list of sub-statements.    *)

Activation(s) == [stmt |-> s, sub |-> 0]
Top == calls[Len(calls)]
Under == SubSeq(calls, 1, Len(calls) - 1)
Visited == Top.sub # 0

(* runtime_free, after the program has run.                                *)
statement_free ==
  /\ phase = "building" /\ stmt = NULL
  /\ phase' = "freeing" /\ calls' = <<Activation(stmts)>>
  /\ UNCHANGED <<text, loading, next, number, stmts, building, set, freed>>

(* A mutant: a statement is visited whether it was before or not.          *)
IsNew(s) == TRUE

NotBefore(s) == s \notin set

(* The head of the loop: it returns at the end of a list or at a statement *)
(* it has been to.                                                         *)
Visit ==
  /\ phase = "freeing" /\ calls # <<>> /\ ~Visited
  /\ IF Top.stmt = NULL \/ ~NotBefore(Top.stmt)
     THEN calls' = Under /\ UNCHANGED set
     ELSE set' = set \cup {Top.stmt} /\ calls' = Under \o <<[Top EXCEPT !.sub = 1]>>
  /\ UNCHANGED <<text, phase, loading, next, number, stmts, building, freed>>

(* Its sub-statements one after the other, then the statement itself.      *)
FreeSub ==
  /\ phase = "freeing" /\ calls # <<>> /\ Visited
  /\ Top.sub <= Len(text.subs[Top.stmt])
  /\ calls' = Under \o <<[Top EXCEPT !.sub = @ + 1],
                         Activation(First(text.subs[Top.stmt][Top.sub]))>>
  /\ UNCHANGED <<text, phase, loading, next, number, stmts, building, set, freed>>

(* A mutant: the pointer goes on before the statement is freed.            *)
FreeNext ==
  /\ phase = "freeing" /\ calls # <<>> /\ Visited
  /\ Top.sub > Len(text.subs[Top.stmt])
  /\ freed' = freed \cup {next[Top.stmt]}
  /\ calls' = Under \o <<Activation(next[Top.stmt])>>
  /\ UNCHANGED <<text, phase, loading, next, number, stmts, building, set>>

FreeStatement ==
  /\ phase = "freeing" /\ calls # <<>> /\ Visited
  /\ Top.sub > Len(text.subs[Top.stmt])
  /\ freed' = freed \cup {Top.stmt}
  /\ calls' = Under \o <<Activation(next[Top.stmt])>>
  /\ UNCHANGED <<text, phase, loading, next, number, stmts, building, set>>

Freed ==
  /\ phase = "freeing" /\ calls = <<>>
  /\ phase' = "done"
  /\ UNCHANGED <<text, loading, next, number, stmts, building, freeing>>

Next == \/ line_add \/ StartBuild \/ build_statements
        \/ statement_free \/ Visit \/ FreeSub \/ FreeStatement \/ Freed

Spec == Init /\ [][Next]_vars

-----------------------------------------------------------------------------
(* The text, read as a BASIC programmer does.                              *)

Read == {text.lines[i] : i \in 1..read}
Built == phase \in {"freeing", "done"} \/ (phase = "building" /\ stmt = NULL)

(* The line of the text a statement of a line is in, and the line below.   *)
LineOf(s) == CHOOSE l \in Read : s \in Elements(l.stmts)
Lower(l) == {m \in Read : m.number > l.number}
Before(l) == {m \in Read : m.number < l.number}
LineBelow(l) == CHOOSE m \in Lower(l) : \A k \in Lower(l) : m.number <= k.number

ListOf(s) == CHOOSE l \in Lists(text) : s \in Elements(l)
PlaceOf(s) == CHOOSE i \in DOMAIN ListOf(s) : ListOf(s)[i] = s
IsLast(s) == PlaceOf(s) = Len(ListOf(s))
TopLevel(s) == \E l \in Read : s \in Elements(l.stmts)
Parent(s) == CHOOSE p \in Stmts : \E k \in DOMAIN text.subs[p] : s \in Elements(text.subs[p][k])

(* The statement after s in the text, once the one it is part of is done.  *)
Following ==
  LET after[s \in Stmts] ==
        IF ~IsLast(s) THEN ListOf(s)[PlaceOf(s) + 1]
        ELSE IF ~TopLevel(s) THEN after[Parent(s)]
        ELSE IF Lower(LineOf(s)) = {} THEN NULL
        ELSE First(LineBelow(LineOf(s)).stmts)
  IN  after

NumberOf ==
  LET of[s \in Stmts] == IF TopLevel(s) THEN LineOf(s).number ELSE of[Parent(s)]
  IN  of

(* Nested twice: a sub-statement of a sub-statement.                       *)
Nested(s) == ~TopLevel(s) /\ ~TopLevel(Parent(s))

-----------------------------------------------------------------------------
(* Properties.                                                             *)

(* Types: pointers are statements, line numbers and addresses are of the   *)
(* text.                                                                   *)
TypeOK ==
  /\ text \in Texts
  /\ phase \in {"reading", "building", "freeing", "done", "rejected"}
  /\ read \in 0..Len(text.lines)
  /\ next \in [Stmts -> Stmts \cup {NULL}]
  /\ {stmts, stmt, tail} \subseteq Stmts \cup {NULL}
  /\ line \in Nat \ {0} /\ (line <= Len(lines) \/ line = 1)
  /\ set \subseteq Stmts /\ freed \subseteq set

(* Whatever order the lines come in, they are kept in the order of their   *)
(* numbers, each once; the line map leads to the first statement of each   *)
(* and of no other; and an error in a statement, however deep, is reported *)
(* at its line (line_add, line_map_find, update_line_numbers).             *)
LinesAreNumbered ==
  /\ phase # "rejected" =>
       /\ \A i \in 1..(Len(lines) - 1) : lines[i].number < lines[i + 1].number
       /\ Elements(lines)
            = {[number |-> l.number, stmt |-> First(l.stmts)] : l \in Read}
       /\ \A n \in DOMAIN Hash :
            line_map_find(n) = IF \E l \in Read : l.number = n
                               THEN First((CHOOSE l \in Read : l.number = n).stmts)
                               ELSE NULL
  /\ Built => \A s \in Stmts : number[s] = NumberOf[s]

(* The links are the text: after a statement, or after the list of         *)
(* sub-statements it ends, comes the next statement of the program.  A     *)
(* sub-statement of a sub-statement leads nowhere instead if its list ends *)
(* with it (build_statements, statement_fixup).                            *)
LinksFollowTheText ==
  Built =>
    \A s \in Stmts : next[s] = IF Nested(s) /\ IsLast(s) THEN NULL ELSE Following[s]

(* The comments on build_statements and statement_fixup promise the link   *)
(* for lists within lists too.                                             *)
NestedLinksFollowTheText == Built => \A s \in Stmts : next[s] = Following[s]

(* The DATA of a program come in the order of the line numbers, and RESTORE*)
(* finds the first item of each line; a DATA within an IF counts for none  *)
(* (statement_fixup, data_map_add, data_map_find).                         *)
DataOf(l) == {s \in Elements(l.stmts) : text.type[s] = "DATA"}
ItemsOf(l) == text.items[CHOOSE s \in DataOf(l) : TRUE]
ItemPlaces(ls) ==
  UNION {{l} \X DOMAIN ItemsOf(l) : l \in {m \in ls : DataOf(m) # {}}}
CountItems(ls) == Cardinality(ItemPlaces(ls))
DataInLineOrder ==
  Built =>
    /\ Len(data_items) = CountItems(Read)
    /\ \A l \in Read :
         LET before == CountItems(Before(l))
         IN  IF DataOf(l) = {} THEN data_map_find(l.number) = NULL
             ELSE /\ data_map_find(l.number) = before + 1
                  /\ SubSeq(data_items, before + 1, before + Len(ItemsOf(l))) = ItemsOf(l)

(* Though the statements form a graph in which lists share their ends, none*)
(* is used after it is freed or freed again, and in the end all are freed  *)
(* (free_internal).                                                        *)
FreedOnce ==
  /\ \A c \in Elements(calls) : c.sub # 0 => c.stmt \notin freed
  /\ phase = "done" => freed = Stmts
================================================================================
