--------------------------- MODULE ProgramBuildProofs ---------------------------
(***************************************************************************)
(* Any program is put together as its text says and taken apart again:     *)
(* its lines come in order, its statements are linked as they follow each  *)
(* other, carry the number of their line, and are each freed once, and its *)
(* DATA come in the order of the lines.                                    *)
(***************************************************************************)
EXTENDS ProgramBuild, SequenceTheorems, FiniteSetTheorems, Induction

-----------------------------------------------------------------------------
(* The text of a program.                                                  *)

IsProgram(t) == IsText(t) /\ OnePlaceEach(t) /\ Grounded(t)

(* The texts are programs, and every line number has its bucket.           *)
LEMMA TextsAre ==
  /\ \A t \in Texts : IsProgram(t)
  /\ Hash \in [DOMAIN Hash -> Buckets] /\ DOMAIN Hash \subseteq Int
BY TextsAssumption DEF IsProgram

(* The pieces of a text have their types.                                  *)
LEMMA LineTypes ==
  ASSUME NEW t, IsProgram(t), NEW i \in DOMAIN t.lines
  PROVE  /\ t.lines[i].number \in DOMAIN Hash
         /\ t.lines[i].stmts \in Seq(DOMAIN t.type) /\ t.lines[i].stmts # <<>>
         /\ First(t.lines[i].stmts) \in DOMAIN t.type
         /\ t.lines[i].stmts \in Lists(t)
<1>1. t.lines \in Seq([number : DOMAIN Hash, stmts : Seq(DOMAIN t.type) \ {<<>>}])
  BY DEF IsProgram, IsText
<1>2. t.lines[i] \in [number : DOMAIN Hash, stmts : Seq(DOMAIN t.type) \ {<<>>}]
  <2> DEFINE ls == t.lines
             C == [number : DOMAIN Hash, stmts : Seq(DOMAIN t.type) \ {<<>>}]
  <2>1. ls \in Seq(C) /\ i \in DOMAIN ls
    BY <1>1
  <2> HIDE DEF ls, C
  <2>2. ls[i] \in C
    BY <2>1
  <2> QED BY <2>2 DEF ls, C
<1> DEFINE l == t.lines[i].stmts
<1>3. t.lines[i].number \in DOMAIN Hash /\ l \in Seq(DOMAIN t.type) /\ l # <<>>
  BY <1>2
<1> HIDE DEF l
<1>4. l[1] \in DOMAIN t.type
  BY <1>3
<1>5. l \in Lists(t)
  BY DEF l, Lists
<1> QED BY <1>3, <1>4, <1>5 DEF l, First

(* The statements inside a statement are lists that are not empty.         *)
LEMMA SubTypes ==
  ASSUME NEW t, IsProgram(t), NEW s \in DOMAIN t.type
  PROVE  /\ t.subs[s] \in Seq(Seq(DOMAIN t.type)) /\ DOMAIN t.subs = DOMAIN t.type
         /\ \A k \in DOMAIN t.subs[s] :
              /\ t.subs[s][k] \in Seq(DOMAIN t.type) /\ t.subs[s][k] # <<>>
              /\ First(t.subs[s][k]) \in DOMAIN t.type
              /\ t.subs[s][k] \in Lists(t)
<1> DEFINE C == Seq(DOMAIN t.type) \ {<<>>}
           b == t.subs[s]
<1>1. b \in Seq(C) /\ DOMAIN t.subs = DOMAIN t.type
  BY DEF IsProgram, IsText
<1>2. b \in Seq(Seq(DOMAIN t.type))
  <2> HIDE DEF b
  <2> QED BY <1>1, SeqMonotonic, C \subseteq Seq(DOMAIN t.type)
<1>3. ASSUME NEW k \in DOMAIN b
      PROVE  b[k] \in Seq(DOMAIN t.type) /\ b[k] # <<>> /\ First(b[k]) \in DOMAIN t.type
  <2>1. b[k] \in C
    <3> HIDE DEF b, C
    <3> QED BY <1>1, <1>3
  <2> DEFINE l == b[k]
  <2>2. l \in Seq(DOMAIN t.type) /\ l # <<>>
    BY <2>1
  <2> HIDE DEF l
  <2>3. l[1] \in DOMAIN t.type
    BY <2>2
  <2> QED BY <2>2, <2>3 DEF l, First
<1>4. \A k \in DOMAIN b : b[k] \in Lists(t)
  BY <1>1 DEF Lists
<1> QED BY <1>1, <1>2, <1>3, <1>4

(* A list of statements is not empty and made of statements.               *)
LEMMA ListTypes ==
  ASSUME NEW t, IsProgram(t), NEW l \in Lists(t)
  PROVE  /\ l \in Seq(DOMAIN t.type) /\ l # <<>> /\ Len(l) \in Nat \ {0}
         /\ DOMAIN l = 1..Len(l) /\ \A i \in DOMAIN l : l[i] \in DOMAIN t.type
         /\ First(l) = l[1] /\ 1 \in DOMAIN l /\ Len(l) \in DOMAIN l
<1>1. l \in Seq(DOMAIN t.type) /\ l # <<>>
  <2>1. CASE \E i \in DOMAIN t.lines : l = t.lines[i].stmts
    BY <2>1, LineTypes
  <2>2. CASE \E s \in DOMAIN t.subs : \E k \in DOMAIN t.subs[s] : l = t.subs[s][k]
    <3>1. DOMAIN t.subs = DOMAIN t.type
      BY DEF IsProgram, IsText
    <3> QED BY <2>2, <3>1, SubTypes
  <2> QED BY <2>1, <2>2 DEF Lists
<1> QED BY <1>1, EmptySeq DEF First

(* A statement is at one place of one list.                                *)
LEMMA OnePlace ==
  ASSUME NEW t, IsProgram(t), NEW l \in Lists(t), NEW m \in Lists(t),
         NEW p \in DOMAIN l, NEW q \in DOMAIN m, l[p] = m[q]
  PROVE  l = m /\ p = q
BY DEF IsProgram, OnePlaceEach

-----------------------------------------------------------------------------
(* Reading the lines.                                                      *)

LineRecord(l) == [number |-> l.number, stmt |-> First(l.stmts)]
MapEntry(l) == [line |-> l.number, at |-> First(l.stmts)]
LineSet == [number : DOMAIN Hash, stmt : Stmts]

Sorted(ls) == \A i, j \in DOMAIN ls : i < j => ls[i].number < ls[j].number

(* What the line map holds after some lines of a text.                     *)
Maps(map, ls) ==
  /\ map \in [Buckets -> Seq([line : DOMAIN Hash, at : Stmts])]
  /\ \A b \in Buckets : \A i \in DOMAIN map[b] : \E l \in ls : map[b][i] = MapEntry(l)
  /\ \A l \in ls : InMap(l.number, map)

NumbersOnce(ls) == \A l, m \in ls : l.number = m.number => l = m

(* The lines read are in order, and each is in the map.                    *)
LinesRead ==
  /\ lines \in Seq(LineSet)
  /\ phase # "rejected" =>
       /\ Sorted(lines) /\ Elements(lines) = {LineRecord(l) : l \in Read}
       /\ NumbersOnce(Read) /\ Maps(line_map, Read)

(* Where an insertion leaves the lines.                                    *)
LEMMA InsertedIs ==
  ASSUME NEW T, NEW ls \in Seq(T), NEW l \in T, Sorted(ls),
         l.number \in Int, \A i \in DOMAIN ls : ls[i].number \in Int /\ ls[i].number # l.number
  PROVE  /\ Inserted(l, ls) \in Seq(T) /\ Len(Inserted(l, ls)) = Len(ls) + 1
         /\ \E place \in 1..(Len(ls) + 1) :
              /\ Inserted(l, ls)[place] = l
              /\ \A i \in 1..(place - 1) :
                   Inserted(l, ls)[i] = ls[i] /\ ls[i].number < l.number
              /\ \A i \in place..Len(ls) :
                   Inserted(l, ls)[i + 1] = ls[i] /\ l.number < ls[i].number
<1> DEFINE n == Len(ls)
           higher == {i \in DOMAIN ls : l.number < ls[i].number}
           place == IF higher = {} THEN n + 1
                    ELSE CHOOSE i \in higher : \A j \in higher : i <= j
<1>1. n \in Nat /\ DOMAIN ls = 1..n
  OBVIOUS
<1>2. /\ place \in 1..(n + 1)
      /\ \A i \in 1..(place - 1) : i \in DOMAIN ls /\ i \notin higher
      /\ place # n + 1 => place \in higher
  <2>1. CASE higher = {}
    BY <1>1, <2>1
  <2>2. CASE higher # {}
    <3>1. higher \subseteq Nat
      BY <1>1
    <3>2. \E i \in higher : \A j \in higher : i <= j
      <4> HIDE DEF higher
      <4> QED BY <2>2, <3>1, LeastOfNaturals
    <3>3. place \in higher /\ \A j \in higher : place <= j
      <4> HIDE DEF higher
      <4> QED BY <2>2, <3>2
    <3>4. place \in 1..n
      BY <1>1, <3>3
    <3> HIDE DEF higher, place
    <3>5. \A i \in 1..(place - 1) : i \in DOMAIN ls /\ ~(place <= i)
      BY <1>1, <3>4
    <3> QED BY <1>1, <3>3, <3>4, <3>5
  <2> QED BY <2>1, <2>2
<1>3. \A i \in 1..(place - 1) : ls[i].number < l.number
  <2>1. \A i \in 1..(place - 1) : i \in DOMAIN ls /\ ~(l.number < ls[i].number)
    <3> HIDE DEF place
    <3> QED BY <1>2
  <2> HIDE DEF place, higher
  <2> QED BY <2>1
<1>4. \A i \in place..n : l.number < ls[i].number
  <2>1. SUFFICES ASSUME NEW i \in place..n PROVE l.number < ls[i].number
    OBVIOUS
  <2>2. place \in 1..n /\ i \in 1..n /\ place \in higher
    <3> HIDE DEF place, higher
    <3> QED BY <1>1, <1>2
  <2>3. ls[place].number \in Int /\ ls[i].number \in Int /\ l.number < ls[place].number
    BY <1>1, <2>2
  <2>4. CASE i = place
    BY <2>3, <2>4
  <2>5. CASE i # place
    <3>1. place < i
      BY <2>2, <2>5
    <3>2. ls[place].number < ls[i].number
      BY <1>1, <2>2, <3>1 DEF Sorted
    <3> QED BY <2>3, <3>2
  <2> QED BY <2>4, <2>5
<1> HIDE DEF place
<1> DEFINE a == SubSeq(ls, 1, place - 1)
           b == SubSeq(ls, place, n)
<1>5. a \in Seq(T) /\ Len(a) = place - 1 /\ \A i \in 1..(place - 1) : a[i] = ls[i]
  BY <1>1, <1>2
<1>6. b \in Seq(T) /\ Len(b) = n - place + 1 /\ \A i \in 1..(n - place + 1) : b[i] = ls[place + i - 1]
  BY <1>1, <1>2
<1>7. Inserted(l, ls) = a \o <<l>> \o b
  BY DEF Inserted, place
<1> DEFINE r == Inserted(l, ls)
           c == a \o <<l>>
<1> HIDE DEF a, b, n
<1>8. c \in Seq(T) /\ Len(c) = place /\ c[place] = l /\ \A i \in 1..(place - 1) : c[i] = a[i]
  BY <1>2, <1>5
<1>9. r = c \o b
  BY <1>7
<1> HIDE DEF c, r
<1>10. r \in Seq(T) /\ Len(r) = n + 1
  <2>1. c \in Seq(T) /\ b \in Seq(T)
    BY <1>6, <1>8
  <2>2. c \o b \in Seq(T) /\ Len(c \o b) = Len(c) + Len(b)
    BY <2>1, ConcatProperties
  <2> QED BY <1>1, <1>2, <1>6, <1>8, <1>9, <2>2
<1>11. \A i \in 1..place : r[i] = c[i]
  BY <1>1, <1>2, <1>6, <1>8, <1>9
<1>12. \A i \in place..n : r[i + 1] = ls[i]
  <2>1. SUFFICES ASSUME NEW i \in place..n PROVE r[i + 1] = ls[i]
    OBVIOUS
  <2>2. i - place + 1 \in 1..(n - place + 1) /\ i + 1 \in 1..(Len(c) + Len(b)) /\ i + 1 > Len(c)
    BY <1>1, <1>2, <1>6, <1>8
  <2>3. r[i + 1] = b[i + 1 - place]
    <3>1. c \in Seq(T) /\ b \in Seq(T) /\ Len(c) = place
      BY <1>6, <1>8
    <3>2. (c \o b)[i + 1] = b[i + 1 - Len(c)]
      BY ONLY <2>2, <3>1, ConcatProperties
    <3> QED BY ONLY <1>9, <3>1, <3>2
  <2>4. i + 1 - place = i - place + 1 /\ place + (i - place + 1) - 1 = i
    BY <1>1, <1>2
  <2> QED BY <1>6, <2>2, <2>3, <2>4
<1>13. \A i \in 1..(place - 1) : r[i] = ls[i]
  BY <1>2, <1>5, <1>8, <1>11
<1>14. r[place] = l
  BY <1>2, <1>8, <1>11
<1> QED BY <1>2, <1>3, <1>4, <1>10, <1>12, <1>13, <1>14 DEF r, n

(* The lines stay in order when one is inserted, and it joins them.        *)
LEMMA InsertedIsSorted ==
  ASSUME NEW T, NEW ls \in Seq(T), NEW l \in T, Sorted(ls),
         l.number \in Int, \A i \in DOMAIN ls : ls[i].number \in Int /\ ls[i].number # l.number
  PROVE  /\ Inserted(l, ls) \in Seq(T) /\ Sorted(Inserted(l, ls))
         /\ Elements(Inserted(l, ls)) = Elements(ls) \cup {l}
<1> DEFINE n == Len(ls)
           r == Inserted(l, ls)
<1>1. PICK place \in 1..(n + 1) :
        /\ r[place] = l
        /\ \A i \in 1..(place - 1) : r[i] = ls[i] /\ ls[i].number < l.number
        /\ \A i \in place..n : r[i + 1] = ls[i] /\ l.number < ls[i].number
  BY InsertedIs
<1>2. r \in Seq(T) /\ Len(r) = n + 1
  BY InsertedIs
<1>3. n \in Nat /\ DOMAIN ls = 1..n
  OBVIOUS
<1> HIDE DEF r, n
<1>4. DOMAIN r = 1..(n + 1)
  BY <1>2
<1>5. ASSUME NEW i \in 1..(n + 1), i # place
      PROVE  \/ i \in 1..(place - 1) /\ i \in 1..n
             \/ i - 1 \in place..n /\ i - 1 \in 1..n /\ (i - 1) + 1 = i
  BY <1>3, <1>5
<1>6. Sorted(r)
  <2>1. SUFFICES ASSUME NEW i \in 1..(n + 1), NEW j \in 1..(n + 1), i < j
                 PROVE  r[i].number < r[j].number
    BY <1>4 DEF Sorted
  <2>2. CASE i = place
    <3>1. j - 1 \in place..n /\ (j - 1) + 1 = j
      BY <1>3, <2>1, <2>2
    <3> QED BY <1>1, <2>2, <3>1
  <2>3. CASE j = place
    <3>1. i \in 1..(place - 1)
      BY <1>3, <2>1, <2>3
    <3> QED BY <1>1, <2>3, <3>1
  <2>4. CASE i # place /\ j # place
    <3> DEFINE x == IF i < place THEN i ELSE i - 1
               y == IF j < place THEN j ELSE j - 1
    <3>1. x \in 1..n /\ y \in 1..n /\ x < y
      BY <1>3, <2>1, <2>4
    <3>2. r[i] = ls[x]
      BY <1>1, <1>3, <2>4, <1>5
    <3>3. r[j] = ls[y]
      BY <1>1, <1>3, <2>4, <1>5
    <3> QED BY <1>3, <3>1, <3>2, <3>3 DEF Sorted
  <2> QED BY <2>2, <2>3, <2>4
<1>7. Elements(r) \subseteq Elements(ls) \cup {l}
  <2>1. SUFFICES ASSUME NEW i \in 1..(n + 1) PROVE r[i] = l \/ \E x \in 1..n : r[i] = ls[x]
    BY <1>3, <1>4 DEF Elements
  <2> QED BY <1>1, <1>5
<1>8. l \in Elements(r)
  BY <1>1, <1>4 DEF Elements
<1>9. ASSUME NEW x \in 1..n PROVE ls[x] \in Elements(r)
  <2>1. CASE x < place
    <3>1. x \in 1..(place - 1) /\ x \in 1..(n + 1)
      BY <1>3, <2>1
    <3> QED BY <1>1, <1>4, <3>1 DEF Elements
  <2>2. CASE ~(x < place)
    <3>1. x \in place..n /\ x + 1 \in 1..(n + 1)
      BY <1>3, <2>2
    <3> QED BY <1>1, <1>4, <3>1 DEF Elements
  <2> QED BY <2>1, <2>2
<1> QED BY <1>2, <1>3, <1>6, <1>7, <1>8, <1>9 DEF Elements, r

-----------------------------------------------------------------------------
(* The inductive invariant: the types, the lines read, the links made so   *)
(* far, and the statements visited and freed.                              *)

InUse == phase \in {"building", "freeing", "done"}

(* Pointers and phases; nothing is linked while the lines are read.        *)
Pointers ==
  /\ TypeOK
  /\ InUse => read = Len(text.lines)
  /\ phase \in {"reading", "rejected"} =>
       /\ line = 1 /\ stmt = NULL /\ tail = NULL /\ stmts = NULL
       /\ next = Parsed(text) /\ number = [s \in Stmts |-> 0]
  /\ phase \in {"freeing", "done"} => stmt = NULL

(* The list of the i-th line in order, the line a statement is in, and the *)
(* order of the statements of lines.                                       *)
TopList(i) == CHOOSE l \in Lists(text) : First(l) = lines[i].stmt
LineAt(s) == CHOOSE i \in DOMAIN lines : s \in Elements(TopList(i))
Tops == {s \in Stmts : TopLevel(s)}
Comes(s, t) == \/ LineAt(s) < LineAt(t)
               \/ LineAt(s) = LineAt(t) /\ PlaceOf(s) < PlaceOf(t)

(* The statement of a line that comes after s, in its line or the next.    *)
TopNext(s) == IF ~IsLast(s) THEN ListOf(s)[PlaceOf(s) + 1]
              ELSE IF LineAt(s) < Len(lines) THEN lines[LineAt(s) + 1].stmt
              ELSE NULL

(* The statements build_statements has been to.                            *)
Passed == IF stmt = NULL THEN Tops ELSE {s \in Tops : Comes(s, stmt)}

(* Where it stands.                                                        *)
Progress ==
  /\ stmt # NULL => stmt \in Tops /\ line = LineAt(stmt)
  /\ tail # NULL => tail \in Passed /\ TopNext(tail) = stmt
  /\ tail = NULL => Passed = {} /\ stmts = NULL
  /\ tail # NULL => stmts = lines[1].stmt
  /\ tail = NULL /\ stmt # NULL => stmt = lines[1].stmt

(* What is linked: each list, the end of a line to the next once that is   *)
(* begun, and the ends of the sub-statements of the statements passed.     *)
Link(s, begun, passed) ==
  IF ~IsLast(s) THEN ListOf(s)[PlaceOf(s) + 1]
  ELSE IF s \in Tops THEN IF TopNext(s) \in begun THEN TopNext(s) ELSE NULL
  ELSE IF Parent(s) \in passed THEN TopNext(Parent(s)) ELSE NULL

Links == next = [s \in Stmts |-> Link(s, Passed, Passed)]

(* Passed statements carry the number of their line, and a sub-statement   *)
(* that of the statement it is part of.                                    *)
NumbersKept ==
  /\ DOMAIN number = Stmts
  /\ \A s \in Passed : number[s] = lines[LineAt(s)].number
  /\ \A s \in Stmts \ Tops : number[s] = number[Parent(s)]

LinkedSoFar == InUse => Progress /\ Links /\ NumbersKept

(* Statement x has been visited, or a call is on its way to it.            *)
Reached(x, cs, st) == x = NULL \/ x \in st \/ \E i \in DOMAIN cs : cs[i].stmt = x

(* A call that visits a statement: no other does, it is not yet freed, and *)
(* the lists before the one it is at are reached.                          *)
Visits(i, cs, st, fr, t) ==
  /\ cs[i].stmt \in st \ fr
  /\ cs[i].sub <= Len(t.subs[cs[i].stmt]) + 1
  /\ \A j \in DOMAIN cs : cs[j].sub # 0 /\ cs[j].stmt = cs[i].stmt => i = j
  /\ \A k \in 1..(cs[i].sub - 1) : Reached(First(t.subs[cs[i].stmt][k]), cs, st)

(* All that s leads to is reached.                                         *)
LeadsOn(s, cs, st, t, nx) ==
  /\ Reached(nx[s], cs, st)
  /\ \A k \in DOMAIN t.subs[s] : Reached(First(t.subs[s][k]), cs, st)

CallSet(t) == [stmt : DOMAIN t.type \cup {NULL}, sub : Nat]

(* free_internal is in each statement it has been to until it frees it,    *)
(* and has been to all that those it freed lead to, or is on its way.      *)
Frees(cs, st, fr, t, nx) ==
  /\ cs \in Seq(CallSet(t))
  /\ \A i \in DOMAIN cs : cs[i].sub # 0 => Visits(i, cs, st, fr, t)
  /\ \A s \in st \ fr : \E i \in DOMAIN cs : cs[i].sub # 0 /\ cs[i].stmt = s
  /\ \A s \in fr : LeadsOn(s, cs, st, t, nx)

FreedSoFar ==
  /\ Frees(calls, set, freed, text, next)
  /\ phase \notin {"freeing", "done"} => calls = <<>> /\ set = {} /\ freed = {}
  /\ phase = "done" => calls = <<>>
  /\ phase \in {"freeing", "done"} => Reached(stmts, calls, set)

Inv == Pointers /\ LinesRead /\ LinkedSoFar /\ FreedSoFar

-----------------------------------------------------------------------------
(* Where the statements are in the text.                                   *)

Settled == IsProgram(text) /\ read = Len(text.lines) /\ phase # "rejected" /\ LinesRead

(* Each statement has its list and its place.                              *)
LEMMA ListOfIs ==
  ASSUME IsProgram(text), NEW s \in Stmts
  PROVE  /\ ListOf(s) \in Lists(text) /\ PlaceOf(s) \in DOMAIN ListOf(s)
         /\ ListOf(s)[PlaceOf(s)] = s
         /\ IsLast(s) <=> PlaceOf(s) = Len(ListOf(s))
<1>1. \E l \in Lists(text) : s \in Elements(l)
  BY DEF IsProgram, OnePlaceEach, Stmts
<1>2. ListOf(s) \in Lists(text) /\ s \in Elements(ListOf(s))
  BY <1>1 DEF ListOf
<1>3. \E i \in DOMAIN ListOf(s) : ListOf(s)[i] = s
  BY <1>2 DEF Elements
<1> QED BY <1>2, <1>3 DEF PlaceOf, IsLast

(* A statement knows its list and its place there.                         *)
LEMMA PlaceIs ==
  ASSUME IsProgram(text), NEW l \in Lists(text), NEW p \in DOMAIN l
  PROVE  l[p] \in Stmts /\ ListOf(l[p]) = l /\ PlaceOf(l[p]) = p
<1>1. l[p] \in Stmts
  BY ListTypes DEF Stmts
<1>2. /\ ListOf(l[p]) \in Lists(text) /\ PlaceOf(l[p]) \in DOMAIN ListOf(l[p])
      /\ ListOf(l[p])[PlaceOf(l[p])] = l[p]
  BY <1>1, ListOfIs
<1> QED BY <1>1, <1>2, OnePlace

(* The statement after s in its list is at the next place of it.           *)
LEMMA NextPlace ==
  ASSUME IsProgram(text), NEW s \in Stmts, ~IsLast(s)
  PROVE  LET n == ListOf(s)[PlaceOf(s) + 1]
         IN  n \in Stmts /\ ListOf(n) = ListOf(s) /\ PlaceOf(n) = PlaceOf(s) + 1
<1>1. /\ ListOf(s) \in Lists(text) /\ PlaceOf(s) \in DOMAIN ListOf(s)
      /\ PlaceOf(s) # Len(ListOf(s))
  BY ListOfIs
<1>2. DOMAIN ListOf(s) = 1..Len(ListOf(s)) /\ Len(ListOf(s)) \in Nat
  BY <1>1, ListTypes
<1>3. PlaceOf(s) + 1 \in DOMAIN ListOf(s)
  BY <1>1, <1>2
<1> QED BY <1>1, <1>3, PlaceIs

(* All lines are read, and no two begin with the same statement.           *)
LEMMA ReadIs ==
  ASSUME Settled
  PROVE  /\ Read = Elements(text.lines)
         /\ \A l \in Read : /\ l.stmts \in Lists(text) /\ First(l.stmts) \in Stmts
                            /\ l.number \in DOMAIN Hash
         /\ \A l, m \in Read : First(l.stmts) = First(m.stmts) => l = m
<1>1. DOMAIN text.lines = 1..Len(text.lines)
  BY DEF Settled, IsProgram, IsText
<1>2. Read = Elements(text.lines)
  BY <1>1 DEF Read, Elements, Settled
<1>3. \A l \in Read : /\ l.stmts \in Lists(text) /\ First(l.stmts) \in Stmts
                      /\ l.number \in DOMAIN Hash
  BY <1>2, LineTypes DEF Settled, Elements, Stmts
<1>4. ASSUME NEW i \in DOMAIN text.lines, NEW j \in DOMAIN text.lines,
             First(text.lines[i].stmts) = First(text.lines[j].stmts)
      PROVE  text.lines[i] = text.lines[j]
  <2> DEFINE l == text.lines[i].stmts
             m == text.lines[j].stmts
  <2>1. l \in Lists(text) /\ m \in Lists(text)
    BY DEF Lists
  <2>2. 1 \in DOMAIN l /\ 1 \in DOMAIN m /\ l[1] = m[1]
    <3> HIDE DEF l, m
    <3>1. First(l) = First(m)
      BY <1>4 DEF l, m
    <3>2. First(l) = l[1] /\ 1 \in DOMAIN l
      BY <2>1, ListTypes DEF Settled
    <3>3. First(m) = m[1] /\ 1 \in DOMAIN m
      BY <2>1, ListTypes DEF Settled
    <3> QED BY <3>1, <3>2, <3>3
  <2>3. l = m
    <3> HIDE DEF l, m
    <3> QED BY <2>1, <2>2, OnePlace DEF Settled
  <2>4. i = j
    BY <2>3 DEF Settled, IsProgram, OnePlaceEach
  <2> QED BY <2>4
<1>5. ASSUME NEW l \in Read, NEW m \in Read, First(l.stmts) = First(m.stmts) PROVE l = m
  <2>1. PICK i \in DOMAIN text.lines : l = text.lines[i]
    BY <1>2 DEF Elements
  <2>2. PICK j \in DOMAIN text.lines : m = text.lines[j]
    BY <1>2 DEF Elements
  <2> QED BY <1>4, <1>5, <2>1, <2>2
<1> QED BY <1>2, <1>3, <1>5

(* The i-th line in order is a line of the text, and its list begins with  *)
(* its statement.                                                          *)
LEMMA TopListIs ==
  ASSUME Settled, NEW i \in DOMAIN lines
  PROVE  /\ lines[i] \in LineSet
         /\ TopList(i) \in Lists(text) /\ TopList(i)[1] = lines[i].stmt
         /\ 1 \in DOMAIN TopList(i)
         /\ \E l \in Read : lines[i] = LineRecord(l) /\ TopList(i) = l.stmts
<1>1. lines[i] \in LineSet
  BY DEF Settled, LinesRead
<1>2. lines[i] \in {LineRecord(l) : l \in Read}
  BY DEF Settled, LinesRead, Elements
<1>3. PICK l \in Read : lines[i] = LineRecord(l)
  BY <1>2
<1>4. l.stmts \in Lists(text) /\ First(l.stmts) = lines[i].stmt
  BY <1>3, ReadIs DEF LineRecord
<1>5. TopList(i) \in Lists(text) /\ First(TopList(i)) = lines[i].stmt
  BY <1>4 DEF TopList
<1>6. /\ First(TopList(i)) = TopList(i)[1] /\ 1 \in DOMAIN TopList(i)
      /\ First(l.stmts) = l.stmts[1] /\ 1 \in DOMAIN l.stmts
  <2>1. First(TopList(i)) = TopList(i)[1] /\ 1 \in DOMAIN TopList(i)
    BY <1>5, ListTypes DEF Settled
  <2>2. First(l.stmts) = l.stmts[1] /\ 1 \in DOMAIN l.stmts
    BY <1>4, ListTypes DEF Settled
  <2> QED BY <2>1, <2>2
<1>7. TopList(i) = l.stmts
  BY <1>4, <1>5, <1>6, OnePlace DEF Settled
<1> QED BY <1>1, <1>3, <1>5, <1>6, <1>7

(* Different lines have different lists, and each line of the text is one  *)
(* of them.                                                                *)
LEMMA TopListsDiffer ==
  ASSUME Settled
  PROVE  /\ \A i, j \in DOMAIN lines : TopList(i) = TopList(j) => i = j
         /\ \A l \in Read : \E i \in DOMAIN lines :
              lines[i] = LineRecord(l) /\ TopList(i) = l.stmts
<1>1. ASSUME NEW i \in DOMAIN lines, NEW j \in DOMAIN lines, TopList(i) = TopList(j)
      PROVE  i = j
  <2>1. PICK l \in Read : lines[i] = LineRecord(l) /\ TopList(i) = l.stmts
    BY TopListIs
  <2>2. PICK m \in Read : lines[j] = LineRecord(m) /\ TopList(j) = m.stmts
    BY TopListIs
  <2>3. l = m
    BY <1>1, <2>1, <2>2, ReadIs
  <2>4. lines[i].number = lines[j].number /\ lines[i].number \in Int
    BY <2>1, <2>2, <2>3, TopListIs, TextsAre DEF LineSet
  <2>5. i \in Int /\ j \in Int
    BY DEF Settled, LinesRead
  <2>6. ~(i < j) /\ ~(j < i)
    BY <2>4 DEF Settled, LinesRead, Sorted
  <2> QED BY <2>5, <2>6
<1>2. ASSUME NEW l \in Read
      PROVE  \E i \in DOMAIN lines : lines[i] = LineRecord(l) /\ TopList(i) = l.stmts
  <2>1. LineRecord(l) \in Elements(lines)
    BY DEF Settled, LinesRead
  <2>2. PICK i \in DOMAIN lines : lines[i] = LineRecord(l)
    BY <2>1 DEF Elements
  <2>3. PICK m \in Read : lines[i] = LineRecord(m) /\ TopList(i) = m.stmts
    BY TopListIs
  <2>4. First(l.stmts) = First(m.stmts)
    BY <2>2, <2>3 DEF LineRecord
  <2> QED BY <2>2, <2>3, <2>4, ReadIs
<1> QED BY <1>1, <1>2

(* The line a statement of a line is in.                                   *)
LEMMA LineAtIs ==
  ASSUME Settled, NEW s \in Tops
  PROVE  /\ s \in Stmts /\ LineAt(s) \in DOMAIN lines /\ ListOf(s) = TopList(LineAt(s))
         /\ \E l \in Read : /\ s \in Elements(l.stmts) /\ l.stmts = ListOf(s)
                            /\ lines[LineAt(s)] = LineRecord(l)
<1>1. s \in Stmts
  BY DEF Tops
<1>2. PICK l \in Read : s \in Elements(l.stmts)
  BY DEF Tops, TopLevel
<1>3. \E i \in DOMAIN lines : s \in Elements(TopList(i))
  BY <1>2, TopListsDiffer
<1>4. LineAt(s) \in DOMAIN lines /\ s \in Elements(TopList(LineAt(s)))
  BY <1>3 DEF LineAt
<1>5. PICK p \in DOMAIN TopList(LineAt(s)) : TopList(LineAt(s))[p] = s
  BY <1>4 DEF Elements
<1>6. ListOf(s) = TopList(LineAt(s))
  BY <1>4, <1>5, TopListIs, PlaceIs DEF Settled
<1>7. \E m \in Read : lines[LineAt(s)] = LineRecord(m) /\ TopList(LineAt(s)) = m.stmts
  BY <1>4, TopListIs
<1> QED BY <1>1, <1>4, <1>6, <1>7

(* A statement at the top level knows its line, its list and its place.    *)
LEMMA TopAt ==
  ASSUME Settled, NEW i \in DOMAIN lines, NEW p \in DOMAIN TopList(i)
  PROVE  /\ TopList(i)[p] \in Tops /\ LineAt(TopList(i)[p]) = i
         /\ ListOf(TopList(i)[p]) = TopList(i) /\ PlaceOf(TopList(i)[p]) = p
<1> DEFINE s == TopList(i)[p]
<1>1. TopList(i) \in Lists(text)
  BY TopListIs
<1>2. s \in Stmts /\ ListOf(s) = TopList(i) /\ PlaceOf(s) = p
  BY <1>1, PlaceIs DEF Settled
<1>3. PICK l \in Read : TopList(i) = l.stmts
  BY TopListIs
<1>4. s \in Elements(l.stmts)
  BY <1>3 DEF Elements
<1>5. s \in Tops
  BY <1>2, <1>3, <1>4 DEF Tops, TopLevel
<1> HIDE DEF s
<1>6. LineAt(s) \in DOMAIN lines /\ ListOf(s) = TopList(LineAt(s))
  BY <1>5, LineAtIs
<1>7. LineAt(s) = i
  BY <1>2, <1>6, TopListsDiffer
<1> QED BY <1>2, <1>5, <1>7 DEF s

(* The statement a sub-statement is part of.                               *)
LEMMA ParentIs ==
  ASSUME Settled, NEW s \in Stmts, s \notin Tops
  PROVE  /\ Parent(s) \in Stmts
         /\ \E k \in DOMAIN text.subs[Parent(s)] :
              text.subs[Parent(s)][k] = ListOf(s) /\ s \in Elements(ListOf(s))
<1>1. ListOf(s) \in Lists(text) /\ s \in Elements(ListOf(s))
  BY ListOfIs DEF Settled, Elements
<1>2. ASSUME NEW i \in DOMAIN text.lines, ListOf(s) = text.lines[i].stmts PROVE FALSE
  <2>1. text.lines[i] \in Read
    BY ReadIs DEF Elements
  <2> QED BY <1>1, <1>2, <2>1 DEF Tops, TopLevel
<1>3. \E p \in DOMAIN text.subs : \E k \in DOMAIN text.subs[p] : ListOf(s) = text.subs[p][k]
  BY <1>1, <1>2 DEF Lists
<1>4. DOMAIN text.subs = Stmts
  BY DEF Settled, IsProgram, IsText, Stmts
<1>5. PICK p \in Stmts : \E k \in DOMAIN text.subs[p] : ListOf(s) = text.subs[p][k]
  BY <1>3, <1>4
<1>6. \E r \in Stmts : \E k \in DOMAIN text.subs[r] : s \in Elements(text.subs[r][k])
  BY <1>1, <1>5
<1>7. Parent(s) \in Stmts /\ \E k \in DOMAIN text.subs[Parent(s)] : s \in Elements(text.subs[Parent(s)][k])
  BY <1>6 DEF Parent
<1>8. PICK k \in DOMAIN text.subs[Parent(s)] : s \in Elements(text.subs[Parent(s)][k])
  BY <1>7
<1>9. text.subs[Parent(s)][k] \in Lists(text)
  BY <1>4, <1>7 DEF Lists
<1>10. text.subs[Parent(s)][k] = ListOf(s)
  BY <1>8, <1>9, PlaceIs DEF Settled, Elements
<1> QED BY <1>1, <1>7, <1>10

(* A statement inside another has that one as its parent.                  *)
LEMMA ParentOf ==
  ASSUME Settled, NEW r \in Stmts, NEW s, Contains(text, r, s)
  PROVE  s \in Stmts /\ s \notin Tops /\ Parent(s) = r
<1>1. PICK k \in DOMAIN text.subs[r] : s \in Elements(text.subs[r][k])
  BY DEF Contains
<1>2. text.subs[r][k] \in Lists(text)
  BY SubTypes DEF Settled, Stmts
<1>3. PICK p \in DOMAIN text.subs[r][k] : s = text.subs[r][k][p]
  BY <1>1 DEF Elements
<1>4. s \in Stmts /\ ListOf(s) = text.subs[r][k]
  BY <1>2, <1>3, PlaceIs DEF Settled
<1>5. ASSUME s \in Tops PROVE FALSE
  <2>1. PICK l \in Read : l.stmts = ListOf(s)
    BY <1>5, LineAtIs
  <2>2. PICK i \in DOMAIN text.lines : l = text.lines[i]
    BY ReadIs DEF Elements
  <2>3. text.lines[i].stmts # text.subs[r][k]
    BY DEF Settled, IsProgram, OnePlaceEach, Stmts
  <2> QED BY <1>4, <2>1, <2>2, <2>3
<1>6. Parent(s) = r
  <2>1. PICK m \in DOMAIN text.subs[Parent(s)] : text.subs[Parent(s)][m] = ListOf(s)
    BY <1>4, <1>5, ParentIs
  <2>2. Parent(s) \in Stmts
    BY <1>4, <1>5, ParentIs
  <2> QED BY <1>4, <2>1, <2>2 DEF Settled, IsProgram, OnePlaceEach, Stmts
<1> QED BY <1>4, <1>5, <1>6

-----------------------------------------------------------------------------
(* The order of the statements of lines.                                   *)

(* A statement at the top level has a line and a place.                    *)
LEMMA TopTypes ==
  ASSUME Settled, NEW s \in Tops
  PROVE  /\ Len(lines) \in Nat /\ LineAt(s) \in 1..Len(lines) /\ Len(ListOf(s)) \in Nat
         /\ PlaceOf(s) \in 1..Len(ListOf(s)) /\ s # NULL
         /\ ListOf(s)[PlaceOf(s)] = s
         /\ ListOf(s) = TopList(LineAt(s)) /\ s \in Stmts
         /\ IsLast(s) <=> PlaceOf(s) = Len(ListOf(s))
<1>1. s \in Stmts /\ LineAt(s) \in DOMAIN lines /\ ListOf(s) = TopList(LineAt(s))
  BY LineAtIs
<1>2. /\ ListOf(s) \in Lists(text) /\ PlaceOf(s) \in DOMAIN ListOf(s)
      /\ ListOf(s)[PlaceOf(s)] = s
      /\ IsLast(s) <=> PlaceOf(s) = Len(ListOf(s))
  BY <1>1, ListOfIs DEF Settled
<1>3. Len(ListOf(s)) \in Nat /\ DOMAIN ListOf(s) = 1..Len(ListOf(s))
  BY <1>2, ListTypes DEF Settled
<1>4. Len(lines) \in Nat /\ DOMAIN lines = 1..Len(lines)
  BY DEF Settled, LinesRead
<1>5. s # NULL
  BY <1>1 DEF Settled, IsProgram, IsText, Stmts
<1> QED BY <1>1, <1>2, <1>3, <1>4, <1>5

(* Of two statements of lines one comes first, unless they are the same.   *)
LEMMA OrderIsTotal ==
  ASSUME Settled, NEW s \in Tops, NEW t \in Tops
  PROVE  /\ Comes(s, t) \/ Comes(t, s) \/ s = t
         /\ ~(Comes(s, t) /\ Comes(t, s)) /\ ~Comes(s, s)
<1>1. /\ LineAt(s) \in Int /\ PlaceOf(s) \in Int /\ LineAt(t) \in Int /\ PlaceOf(t) \in Int
      /\ ListOf(s)[PlaceOf(s)] = s /\ ListOf(t)[PlaceOf(t)] = t
      /\ ListOf(s) = TopList(LineAt(s)) /\ ListOf(t) = TopList(LineAt(t))
  BY TopTypes
<1>2. LineAt(s) = LineAt(t) /\ PlaceOf(s) = PlaceOf(t) => s = t
  BY <1>1
<1> QED BY <1>1, <1>2 DEF Comes

(* Where the next statement is: at the next place, or at the first place of*)
(* the next line.                                                          *)
LEMMA TopNextPlace ==
  ASSUME Settled, NEW s \in Tops
  PROVE  /\ ~IsLast(s) => /\ TopNext(s) \in Tops /\ LineAt(TopNext(s)) = LineAt(s)
                          /\ PlaceOf(TopNext(s)) = PlaceOf(s) + 1
         /\ IsLast(s) /\ LineAt(s) < Len(lines) =>
               /\ TopNext(s) \in Tops /\ LineAt(TopNext(s)) = LineAt(s) + 1
               /\ PlaceOf(TopNext(s)) = 1 /\ TopNext(s) = lines[LineAt(s) + 1].stmt
         /\ IsLast(s) /\ ~(LineAt(s) < Len(lines)) => TopNext(s) = NULL
<1>1. CASE ~IsLast(s)
  <2>1. PlaceOf(s) + 1 \in DOMAIN TopList(LineAt(s)) /\ LineAt(s) \in DOMAIN lines
    <3>1. DOMAIN lines = 1..Len(lines)
      BY DEF Settled, LinesRead
    <3>2. TopList(LineAt(s)) \in Lists(text)
      BY <3>1, TopTypes, TopListIs
    <3>3. DOMAIN TopList(LineAt(s)) = 1..Len(TopList(LineAt(s)))
      BY <3>2, ListTypes DEF Settled
    <3> QED BY <1>1, <3>1, <3>3, TopTypes
  <2>2. TopNext(s) = TopList(LineAt(s))[PlaceOf(s) + 1]
    BY <1>1, TopTypes DEF TopNext
  <2> QED BY <1>1, <2>1, <2>2, TopAt
<1>2. CASE IsLast(s) /\ LineAt(s) < Len(lines)
  <2>1. LineAt(s) + 1 \in DOMAIN lines
    <3>1. DOMAIN lines = 1..Len(lines)
      BY DEF Settled, LinesRead
    <3> QED BY <1>2, <3>1, TopTypes
  <2>2. TopNext(s) = lines[LineAt(s) + 1].stmt
    BY <1>2 DEF TopNext
  <2>3. TopList(LineAt(s) + 1)[1] = lines[LineAt(s) + 1].stmt /\ 1 \in DOMAIN TopList(LineAt(s) + 1)
    BY <2>1, TopListIs
  <2> QED BY <1>2, <2>1, <2>2, <2>3, TopAt
<1>3. CASE IsLast(s) /\ ~(LineAt(s) < Len(lines))
  BY <1>3 DEF TopNext
<1> QED BY <1>1, <1>2, <1>3

(* Before the next statement come the ones before this and this; where     *)
(* there is none, this is the last.                                        *)
LEMMA TopNextIs ==
  ASSUME Settled, NEW s \in Tops
  PROVE  /\ TopNext(s) # NULL =>
              /\ TopNext(s) \in Tops
              /\ \A t \in Tops : Comes(t, TopNext(s)) <=> Comes(t, s) \/ t = s
         /\ TopNext(s) = NULL => \A t \in Tops : Comes(t, s) \/ t = s
<1>1. ASSUME NEW t \in Tops
      PROVE  /\ TopNext(s) # NULL => (Comes(t, TopNext(s)) <=> Comes(t, s) \/ t = s)
             /\ TopNext(s) = NULL => Comes(t, s) \/ t = s
  <2> DEFINE i == LineAt(s)
             p == PlaceOf(s)
             n == Len(ListOf(s))
             j == LineAt(t)
             q == PlaceOf(t)
             m == Len(ListOf(t))
  <2>1. /\ i \in 1..Len(lines) /\ p \in 1..n /\ n \in Nat
        /\ IsLast(s) <=> p = n
        /\ j \in 1..Len(lines) /\ q \in 1..m /\ m \in Nat /\ Len(lines) \in Nat
        /\ (i = j => n = m)
    BY TopTypes
  <2>2. i = j /\ p = q <=> t = s
    BY TopTypes
  <2>3. CASE ~IsLast(s)
    <3>1. TopNext(s) # NULL /\ LineAt(TopNext(s)) = i /\ PlaceOf(TopNext(s)) = p + 1
      BY <2>3, TopNextPlace, TopTypes
    <3> HIDE DEF i, p, n, j, q, m
    <3>2. Comes(t, TopNext(s)) <=> j < i \/ (j = i /\ q < p + 1)
      BY <3>1 DEF Comes, j, q
    <3>3. Comes(t, s) <=> j < i \/ (j = i /\ q < p)
      BY DEF Comes, i, j, p, q
    <3> QED BY <2>1, <2>2, <3>1, <3>2, <3>3
  <2>4. CASE IsLast(s) /\ LineAt(s) < Len(lines)
    <3>1. TopNext(s) # NULL /\ LineAt(TopNext(s)) = i + 1 /\ PlaceOf(TopNext(s)) = 1
      BY <2>4, TopNextPlace, TopTypes
    <3> HIDE DEF i, p, n, j, q, m
    <3>2. Comes(t, TopNext(s)) <=> j < i + 1 \/ (j = i + 1 /\ q < 1)
      BY <3>1 DEF Comes, j, q
    <3>3. Comes(t, s) <=> j < i \/ (j = i /\ q < p)
      BY DEF Comes, i, j, p, q
    <3> QED BY <2>1, <2>2, <2>4, <3>1, <3>2, <3>3
  <2>5. CASE IsLast(s) /\ ~(LineAt(s) < Len(lines))
    <3>1. TopNext(s) = NULL
      BY <2>5, TopNextPlace
    <3>2. ~(i < Len(lines))
      BY <2>5
    <3> HIDE DEF i, p, n, j, q, m
    <3>3. Comes(t, s) <=> j < i \/ (j = i /\ q < p)
      BY DEF Comes, i, j, p, q
    <3> QED BY <2>1, <2>2, <2>5, <3>1, <3>2, <3>3
  <2> QED BY <2>3, <2>4, <2>5
<1>2. TopNext(s) # NULL => TopNext(s) \in Tops
  BY TopNextPlace
<1> QED BY <1>1, <1>2

(* No two statements have the same next.                                   *)
LEMMA TopNextOnce ==
  ASSUME Settled, NEW s \in Tops, NEW t \in Tops, TopNext(s) = TopNext(t), TopNext(s) # NULL
  PROVE  s = t
BY TopNextIs, OrderIsTotal

(* The first statement of the first line is the first of all.              *)
LEMMA FirstTop ==
  ASSUME Settled
  PROVE  /\ lines = <<>> => Tops = {}
         /\ lines # <<>> => /\ lines[1].stmt \in Tops
                            /\ \A t \in Tops : ~Comes(t, lines[1].stmt)
                            /\ LineAt(lines[1].stmt) = 1
<1>1. lines \in Seq(LineSet)
  BY DEF Settled, LinesRead
<1>2. ASSUME lines = <<>>, NEW s \in Tops PROVE FALSE
  BY <1>2, LineAtIs
<1>3. ASSUME lines # <<>>
      PROVE  /\ lines[1].stmt \in Tops /\ LineAt(lines[1].stmt) = 1
             /\ \A t \in Tops : ~Comes(t, lines[1].stmt)
  <2>1. 1 \in DOMAIN lines
    BY <1>1, <1>3, EmptySeq
  <2>2. /\ lines[1].stmt \in Tops /\ LineAt(lines[1].stmt) = 1
        /\ PlaceOf(lines[1].stmt) = 1
    BY <2>1, TopListIs, TopAt
  <2>3. ASSUME NEW t \in Tops PROVE ~Comes(t, lines[1].stmt)
    <3>1. LineAt(t) \in 1..Len(lines) /\ PlaceOf(t) \in 1..Len(ListOf(t)) /\ Len(lines) \in Nat
          /\ Len(ListOf(t)) \in Nat
      BY TopTypes
    <3> QED BY <2>2, <3>1 DEF Comes
  <2> QED BY <2>2, <2>3
<1> QED BY <1>2, <1>3

-----------------------------------------------------------------------------
(* What the walks along next fields find.                                  *)

Pointers0 == [Stmts -> Stmts \cup {NULL}]

(* The next fields follow list l to its last statement, the last of all.   *)
Chained(l, nx) == \A i \in DOMAIN l : nx[l[i]] = IF i = Len(l) THEN NULL ELSE l[i + 1]

EndFn(nx) == CHOOSE end : end = [t \in Stmts |-> IF nx[t] = NULL THEN t ELSE end[nx[t]]]

(* The end of a chain is a recursive function, unfolded once.              *)
LEMMA EndFnIs ==
  ASSUME NEW nx \in Pointers0
  PROVE  /\ \A s : End(s, nx) = EndFn(nx)[s]
         /\ \A t \in Stmts : EndFn(nx)[t] = IF nx[t] = NULL THEN t ELSE EndFn(nx)[nx[t]]
<1>1. \A s : End(s, nx) = EndFn(nx)[s]
  BY Zenon DEF End, EndFn
<1> DEFINE Stop == {t \in Stmts : nx[t] = NULL}
           base == [t \in Stmts |-> t]
<1>2. \A s \in Stmts \ Stop : nx[s] \in Stmts
  BY DEF Pointers0
<1>3. PICK f : GoesOn(f, Stmts, Stop, base, nx)
  <2> HIDE DEF Stop, base
  <2> QED BY <1>2, TailRecursionExists
<1>4. f = [t \in Stmts |-> IF nx[t] = NULL THEN t ELSE f[nx[t]]]
  BY <1>3 DEF GoesOn
<1>5. \E end : end = [t \in Stmts |-> IF nx[t] = NULL THEN t ELSE end[nx[t]]]
  BY <1>4
<1>6. EndFn(nx) = [t \in Stmts |-> IF nx[t] = NULL THEN t ELSE EndFn(nx)[nx[t]]]
  BY <1>5, Zenon DEF EndFn
<1> QED BY <1>1, <1>6

(* Induction along a list, from its end to its beginning.                  *)
LEMMA FromTheEnd ==
  ASSUME NEW T, NEW l \in Seq(T), l # <<>>, NEW S, Len(l) \in S,
         \A i \in 1..(Len(l) - 1) : i + 1 \in S => i \in S
  PROVE  \A i \in 1..Len(l) : i \in S
<1> DEFINE n == Len(l)
           P == {k \in 0..(n - 1) : n - k \in S}
<1>1. n \in Nat \ {0}
  BY EmptySeq
<1> HIDE DEF n
<1>2. 0 \in P
  <2>1. n - 0 = n
    BY <1>1
  <2> QED BY <1>1, <2>1 DEF n
<1>3. ASSUME NEW k \in 1..(n - 1), k - 1 \in P PROVE k \in P
  <2>1. n - k \in 1..(n - 1) /\ n - (k - 1) = (n - k) + 1
    BY <1>1
  <2> QED BY <1>3, <2>1 DEF n
<1>4. \A k \in 0..(n - 1) : k \in P
  <2>1. n - 1 \in Nat
    BY <1>1
  <2> HIDE DEF P
  <2> QED BY <1>2, <1>3, <2>1, InductionUpTo
<1>5. ASSUME NEW i \in 1..n PROVE i \in S
  <2>1. n - i \in 0..(n - 1) /\ n - (n - i) = i
    BY <1>1
  <2> QED BY <1>4, <2>1
<1> QED BY <1>5 DEF n

(* statement_fixup finds the last statement of a list.                     *)
LEMMA EndIs ==
  ASSUME IsProgram(text), NEW nx \in Pointers0, NEW l \in Lists(text), Chained(l, nx)
  PROVE  End(First(l), nx) = l[Len(l)]
<1> DEFINE n == Len(l)
           g == EndFn(nx)
           S == {i \in 1..n : g[l[i]] = l[n]}
<1>1. /\ l \in Seq(Stmts) /\ l # <<>> /\ n \in Nat \ {0} /\ DOMAIN l = 1..n
      /\ \A i \in DOMAIN l : l[i] \in Stmts
      /\ First(l) = l[1]
  BY ListTypes DEF Stmts
<1>2. \A t \in Stmts : g[t] = IF nx[t] = NULL THEN t ELSE g[nx[t]]
  BY EndFnIs
<1>3. NULL \notin Stmts
  BY DEF IsProgram, IsText, Stmts
<1> HIDE DEF g, n
<1>4. n \in S
  <2>1. n \in DOMAIN l /\ nx[l[n]] = NULL
    BY <1>1 DEF Chained, n
  <2> QED BY <1>1, <1>2, <2>1
<1>5. ASSUME NEW i \in 1..(n - 1), i + 1 \in S PROVE i \in S
  <2>1. i \in DOMAIN l /\ i + 1 \in DOMAIN l /\ i # n
    BY <1>1
  <2>2. nx[l[i]] = l[i + 1] /\ l[i + 1] # NULL
    BY <1>1, <1>3, <2>1 DEF Chained, n
  <2> QED BY <1>1, <1>2, <1>5, <2>1, <2>2
<1>6. \A i \in 1..n : i \in S
  <2> HIDE DEF S
  <2> QED BY <1>1, <1>4, <1>5, FromTheEnd DEF n
<1>7. g[l[1]] = l[n]
  BY <1>1, <1>6
<1> QED BY <1>1, <1>7, EndFnIs DEF g, n

WalkFn(nx) == CHOOSE walk : walk = [t \in Stmts \cup {NULL} |->
                                      IF t = NULL THEN {} ELSE {t} \cup walk[nx[t]]]

(* The statements of a chain are a recursive function, unfolded once.      *)
LEMMA WalkFnIs ==
  ASSUME IsProgram(text), NEW nx \in Pointers0
  PROVE  /\ \A s : Walk(s, nx) = WalkFn(nx)[s]
         /\ WalkFn(nx)[NULL] = {}
         /\ \A t \in Stmts : WalkFn(nx)[t] = {t} \cup WalkFn(nx)[nx[t]]
<1>1. \A s : Walk(s, nx) = WalkFn(nx)[s]
  BY Zenon DEF Walk, WalkFn
<1>2. NULL \notin Stmts
  BY DEF IsProgram, IsText, Stmts
<1> DEFINE S == Stmts \cup {NULL}
           D == [t \in S |-> IF t = NULL THEN {} ELSE {nx[t]}]
           E == [t \in S |-> IF t = NULL THEN {} ELSE {t}]
<1>3. D \in [S -> SUBSET S]
  BY DEF Pointers0
<1>4. PICK f : Collects(f, S, D, E)
  <2> HIDE DEF D, E, S
  <2> QED BY <1>3, CollectionExists
<1>5. f[NULL] = {} /\ \A t \in Stmts : f[t] = {t} \cup f[nx[t]]
  <2>1. E[NULL] = {} /\ D[NULL] = {} /\ \A t \in Stmts : E[t] = {t} /\ D[t] = {nx[t]}
    BY <1>2
  <2>2. \A t \in S : f[t] = E[t] \cup UNION {f[b] : b \in D[t]}
    <3> HIDE DEF D, E, S
    <3> QED BY <1>4 DEF Collects
  <2> HIDE DEF D, E
  <2> QED BY <2>1, <2>2
<1>6. DOMAIN f = S /\ f = [t \in S |-> f[t]]
  <2> HIDE DEF D, E, S
  <2> QED BY <1>4 DEF Collects
<1>7. f = [t \in S |-> IF t = NULL THEN {} ELSE {t} \cup f[nx[t]]]
  <2> HIDE DEF D, E
  <2> QED BY <1>5, <1>6
<1>8. \E walk : walk = [t \in S |-> IF t = NULL THEN {} ELSE {t} \cup walk[nx[t]]]
  BY <1>7
<1>9. WalkFn(nx) = [t \in S |-> IF t = NULL THEN {} ELSE {t} \cup WalkFn(nx)[nx[t]]]
  BY <1>8, Zenon DEF WalkFn
<1>10. WalkFn(nx)[NULL] = {} /\ \A t \in Stmts : WalkFn(nx)[t] = {t} \cup WalkFn(nx)[nx[t]]
  <2> HIDE DEF D, E
  <2> QED BY <1>2, <1>9
<1> QED BY <1>1, <1>10

(* A walk from the beginning of a list finds its statements.               *)
LEMMA WalkIs ==
  ASSUME IsProgram(text), NEW nx \in Pointers0, NEW l \in Lists(text), Chained(l, nx)
  PROVE  Walk(First(l), nx) = Elements(l)
<1> DEFINE n == Len(l)
           g == WalkFn(nx)
           S == {i \in 1..n : g[l[i]] = {l[j] : j \in i..n}}
<1>1. /\ l \in Seq(Stmts) /\ l # <<>> /\ n \in Nat \ {0} /\ DOMAIN l = 1..n
      /\ \A i \in DOMAIN l : l[i] \in Stmts
      /\ First(l) = l[1]
  BY ListTypes DEF Stmts
<1>2. g[NULL] = {} /\ \A t \in Stmts : g[t] = {t} \cup g[nx[t]]
  BY WalkFnIs
<1> HIDE DEF g, n
<1>4. n \in S
  <2>1. n \in DOMAIN l /\ nx[l[n]] = NULL /\ n..n = {n}
    BY <1>1 DEF Chained, n
  <2>2. g[l[n]] = {l[n]}
    BY <1>1, <1>2, <2>1
  <2> QED BY <1>1, <2>1, <2>2
<1>5. ASSUME NEW i \in 1..(n - 1), i + 1 \in S PROVE i \in S
  <2>1. i \in DOMAIN l /\ i \in 1..n /\ i # n
    BY <1>1
  <2>2. nx[l[i]] = l[i + 1]
    BY <2>1 DEF Chained, n
  <2>3. g[l[i]] = {l[i]} \cup g[l[i + 1]]
    BY <1>1, <1>2, <2>1, <2>2
  <2>4. g[l[i + 1]] = {l[j] : j \in (i + 1)..n}
    BY <1>5
  <2>5. i..n = {i} \cup ((i + 1)..n)
    BY <1>1
  <2>6. {l[j] : j \in i..n} = {l[i]} \cup {l[j] : j \in (i + 1)..n}
    BY <2>5
  <2> QED BY <2>1, <2>3, <2>4, <2>6
<1>6. \A i \in 1..n : i \in S
  <2> HIDE DEF S
  <2> QED BY <1>1, <1>4, <1>5, FromTheEnd DEF n
<1>7. g[l[1]] = {l[j] : j \in 1..n}
  BY <1>1, <1>6
<1> QED BY <1>1, <1>7, WalkFnIs DEF g, n, Elements

(* Of any statements of lines one comes first and one last.                *)
LEMMA FirstAndLast ==
  ASSUME Settled, NEW Y, Y \subseteq Tops, Y # {}
  PROVE  /\ \E s \in Y : \A t \in Y : ~Comes(t, s)
         /\ \E s \in Y : \A t \in Y : ~Comes(s, t)
<1>1. ASSUME NEW t \in Y
      PROVE  /\ LineAt(t) \in 1..Len(lines) /\ PlaceOf(t) \in 1..Len(ListOf(t))
             /\ ListOf(t) = TopList(LineAt(t)) /\ Len(ListOf(t)) \in Nat /\ Len(lines) \in Nat
  BY <1>1, TopTypes
<1> DEFINE I == {LineAt(t) : t \in Y}
           J(i) == {PlaceOf(t) : t \in {u \in Y : LineAt(u) = i}}
<1>2. I \subseteq 0..Len(lines) /\ I \subseteq Nat /\ I # {} /\ Len(lines) \in Nat
  BY <1>1
<1>3. ASSUME NEW i \in I
      PROVE  /\ J(i) \subseteq Nat /\ J(i) # {} /\ Len(TopList(i)) \in Nat
             /\ J(i) \subseteq 0..Len(TopList(i))
  BY <1>1
<1>4. \E s \in Y : \A t \in Y : ~Comes(t, s)
  <2>1. PICK i \in I : \A x \in I : i <= x
    <3> HIDE DEF I
    <3> QED BY <1>2, LeastOfNaturals
  <2>2. PICK j \in J(i) : \A x \in J(i) : j <= x
    <3> HIDE DEF J, I
    <3> QED BY <1>3, LeastOfNaturals
  <2>3. PICK s \in Y : LineAt(s) = i /\ PlaceOf(s) = j
    OBVIOUS
  <2>4. ASSUME NEW t \in Y PROVE ~Comes(t, s)
    <3>1. i <= LineAt(t) /\ (LineAt(t) = i => j <= PlaceOf(t))
      BY <2>1, <2>2
    <3> HIDE DEF I, J
    <3> QED BY <1>1, <2>3, <3>1 DEF Comes
  <2> QED BY <2>4
<1>5. \E s \in Y : \A t \in Y : ~Comes(s, t)
  <2>1. PICK i \in I : \A x \in I : x <= i
    <3> HIDE DEF I
    <3> QED BY <1>2, GreatestOfNaturals
  <2>2. PICK j \in J(i) : \A x \in J(i) : x <= j
    <3> HIDE DEF J, I
    <3> QED BY <1>3, GreatestOfNaturals
  <2>3. PICK s \in Y : LineAt(s) = i /\ PlaceOf(s) = j
    OBVIOUS
  <2>4. ASSUME NEW t \in Y PROVE ~Comes(s, t)
    <3>1. LineAt(t) <= i /\ (LineAt(t) = i => PlaceOf(t) <= j)
      BY <2>1, <2>2
    <3> HIDE DEF I, J
    <3> QED BY <1>1, <2>3, <3>1 DEF Comes
  <2> QED BY <2>4
<1> QED BY <1>4, <1>5

(* The next fields lead on in the text or nowhere.                         *)
Forward(nx) ==
  \A s \in Stmts :
    /\ ~IsLast(s) => nx[s] = ListOf(s)[PlaceOf(s) + 1]
    /\ IsLast(s) /\ s \in Tops => nx[s] \in {NULL, TopNext(s)}
    /\ IsLast(s) /\ s \notin Tops => nx[s] \in {NULL} \cup Tops

(* So no walk is without end, and all find statements.                     *)
LEMMA WalkStays ==
  ASSUME Settled, NEW nx \in Pointers0, Forward(nx), NEW s0 \in Stmts
  PROVE  Walk(s0, nx) \subseteq Stmts
<1> DEFINE g == WalkFn(nx)
           X == {s \in Stmts : ~(g[s] \subseteq Stmts)}
<1>1. IsProgram(text)
  BY DEF Settled
<1>2. g[NULL] = {} /\ \A t \in Stmts : g[t] = {t} \cup g[nx[t]]
  BY <1>1, WalkFnIs
<1> HIDE DEF g
<1>3. ASSUME NEW s \in X PROVE nx[s] \in X /\ nx[s] # NULL
  BY <1>2 DEF Pointers0
<1>4. X \cap Tops = {}
  <2>1. SUFFICES ASSUME X \cap Tops # {} PROVE FALSE
    OBVIOUS
  <2>2. X \cap Tops \subseteq Tops
    OBVIOUS
  <2>3. PICK s \in X \cap Tops : \A t \in X \cap Tops : ~Comes(s, t)
    <3> HIDE DEF X
    <3> QED BY <2>1, <2>2, FirstAndLast
  <2>4. nx[s] = TopNext(s) /\ nx[s] \in X /\ nx[s] # NULL
    BY <1>3, <2>3 DEF Forward, TopNext
  <2>5. TopNext(s) \in Tops /\ Comes(s, TopNext(s))
    BY <2>3, <2>4, TopNextIs
  <2> QED BY <2>3, <2>4, <2>5
<1>5. ASSUME NEW s \in X PROVE FALSE
  <2>1. s \in Stmts /\ ListOf(s) \in Lists(text) /\ PlaceOf(s) \in DOMAIN ListOf(s)
        /\ ListOf(s)[PlaceOf(s)] = s
    BY <1>1, ListOfIs
  <2> DEFINE l == ListOf(s)
             P == {p \in DOMAIN l : l[p] \in X}
  <2>2. DOMAIN l = 1..Len(l) /\ Len(l) \in Nat
    BY <1>1, <2>1, ListTypes
  <2>3. P \subseteq 0..Len(l) /\ P # {}
    <3> HIDE DEF X
    <3> QED BY <2>1, <2>2
  <2>4. PICK p \in P : \A q \in P : q <= p
    <3> HIDE DEF P
    <3> QED BY <2>2, <2>3, GreatestOfNaturals
  <2>5. p \in DOMAIN l /\ l[p] \in X /\ p \in Nat
    BY <2>2, <2>4
  <2>6. l[p] \in Stmts /\ ListOf(l[p]) = l /\ PlaceOf(l[p]) = p
    BY <1>1, <2>1, <2>5, PlaceIs
  <2>7. CASE IsLast(l[p])
    <3>1. l[p] \notin Tops
      BY <1>4, <2>5
    <3>2. nx[l[p]] \in {NULL} \cup Tops
      BY <2>6, <2>7, <3>1 DEF Forward
    <3> QED BY <1>3, <1>4, <2>5, <3>2
  <2>8. CASE ~IsLast(l[p])
    <3>1. nx[l[p]] = l[p + 1]
      BY <2>6, <2>8 DEF Forward
    <3>2. l[p + 1] \in X
      BY <1>3, <2>5, <3>1
    <3>3. p + 1 \in DOMAIN l
      <4>1. p # Len(l)
        BY <1>1, <2>6, <2>8, ListOfIs
      <4> HIDE DEF X, l
      <4> QED BY <2>2, <2>5, <4>1
    <3>4. p + 1 <= p
      <4> HIDE DEF X, l
      <4> QED BY <2>4, <3>2, <3>3
    <3> QED BY <2>5, <3>4
  <2> QED BY <2>7, <2>8
<1> QED BY <1>1, <1>5, WalkFnIs DEF g

-----------------------------------------------------------------------------
(* The statements of the lists of s, and of their lists.                   *)

Kids(s) == UNION {Elements(l) : l \in Elements(text.subs[s])}

(* The statements directly inside a statement, from either end.            *)
LEMMA KidsAre ==
  ASSUME Settled, NEW s \in Stmts
  PROVE  /\ Kids(s) \subseteq Stmts \ Tops
         /\ \A b : b \in Kids(s) <=> Contains(text, s, b)
         /\ \A b \in Stmts : b \in Kids(s) <=> b \notin Tops /\ Parent(b) = s
<1>1. \A b : b \in Kids(s) <=> Contains(text, s, b)
  BY DEF Kids, Contains, Elements
<1>2. ASSUME NEW b \in Kids(s) PROVE b \in Stmts \ Tops /\ Parent(b) = s
  BY <1>1, ParentOf
<1>3. ASSUME NEW b \in Stmts, b \notin Tops, Parent(b) = s PROVE Contains(text, s, b)
  BY <1>3, ParentIs DEF Contains
<1> QED BY <1>1, <1>2, <1>3

(* The lists of s end where nothing is linked.                             *)
Open(s, nx) == \A l \in Elements(text.subs[s]) : nx[l[Len(l)]] = NULL

(* A list inside a statement that is not linked yet is chained.            *)
LEMMA OpenChained ==
  ASSUME Settled, NEW nx \in Pointers0, Forward(nx), NEW s \in Stmts, Open(s, nx),
         NEW l \in Elements(text.subs[s])
  PROVE  l \in Lists(text) /\ Chained(l, nx)
<1>1. l \in Lists(text)
  BY SubTypes DEF Settled, Stmts, Elements
<1>2. DOMAIN l = 1..Len(l) /\ Len(l) \in Nat
  BY <1>1, ListTypes DEF Settled
<1>3. ASSUME NEW i \in DOMAIN l PROVE nx[l[i]] = IF i = Len(l) THEN NULL ELSE l[i + 1]
  <2>1. CASE i = Len(l)
    BY <2>1 DEF Open
  <2>2. CASE i # Len(l)
    <3>1. l[i] \in Stmts /\ ListOf(l[i]) = l /\ PlaceOf(l[i]) = i
      BY <1>1, PlaceIs DEF Settled
    <3>2. ~IsLast(l[i])
      BY <2>2, <3>1, ListOfIs DEF Settled
    <3> QED BY <2>2, <3>1, <3>2 DEF Forward
  <2> QED BY <2>1, <2>2
<1> QED BY <1>1, <1>3 DEF Chained

(* One step down the walks.                                                *)
Walked(t, nx) == UNION {Walk(First(l), nx) : l \in Elements(text.subs[t])}

BelowFn(nx) ==
  CHOOSE below : below = [t \in Stmts |->
    UNION {UNION {{b} \cup below[b] : b \in Walk(First(l), nx)} : l \in Elements(text.subs[t])}]

(* The statements below a statement are one, unfolded once.                *)
LEMMA BelowFnIs ==
  ASSUME Settled, NEW nx \in Pointers0, Forward(nx)
  PROVE  /\ \A s : Below(s, nx) = BelowFn(nx)[s]
         /\ \A t \in Stmts :
              BelowFn(nx)[t] = Walked(t, nx) \cup UNION {BelowFn(nx)[b] : b \in Walked(t, nx)}
<1>1. \A s : Below(s, nx) = BelowFn(nx)[s]
  BY Zenon DEF Below, BelowFn
<1> DEFINE Shape(f, t) == UNION {UNION {{b} \cup f[b] : b \in Walk(First(l), nx)} :
                                   l \in Elements(text.subs[t])}
           D == [t \in Stmts |-> Walked(t, nx)]
<1>2. ASSUME NEW t \in Stmts PROVE Walked(t, nx) \subseteq Stmts
  <2>1. ASSUME NEW l \in Elements(text.subs[t]) PROVE Walk(First(l), nx) \subseteq Stmts
    <3>1. First(l) \in Stmts
      BY SubTypes DEF Settled, Stmts, Elements
    <3> QED BY <3>1, WalkStays
  <2> QED BY <2>1 DEF Walked
<1>3. ASSUME NEW f, NEW t
      PROVE  Shape(f, t) = Walked(t, nx) \cup UNION {f[b] : b \in Walked(t, nx)}
  <2>1. ASSUME NEW x \in Shape(f, t)
        PROVE  x \in Walked(t, nx) \cup UNION {f[b] : b \in Walked(t, nx)}
    <3>1. PICK l \in Elements(text.subs[t]) : \E b \in Walk(First(l), nx) : x \in {b} \cup f[b]
      OBVIOUS
    <3>2. PICK b \in Walk(First(l), nx) : x \in {b} \cup f[b]
      BY <3>1
    <3>3. b \in Walked(t, nx)
      BY DEF Walked
    <3> QED BY <3>2, <3>3
  <2>2. ASSUME NEW x \in Walked(t, nx) \cup UNION {f[b] : b \in Walked(t, nx)}
        PROVE  x \in Shape(f, t)
    <3>1. PICK b \in Walked(t, nx) : x \in {b} \cup f[b]
      BY <2>2
    <3>2. PICK l \in Elements(text.subs[t]) : b \in Walk(First(l), nx)
      BY DEF Walked
    <3> QED BY <3>1, <3>2
  <2> HIDE DEF Shape
  <2> QED BY <2>1, <2>2
<1>4. D \in [Stmts -> SUBSET Stmts]
  BY <1>2
<1>5. PICK f : Collects(f, Stmts, D, D)
  <2> HIDE DEF D
  <2> QED BY <1>4, CollectionExists
<1>6. /\ f = [t \in Stmts |-> f[t]]
      /\ \A t \in Stmts : f[t] = Walked(t, nx) \cup UNION {f[b] : b \in Walked(t, nx)}
  BY <1>5 DEF Collects
<1>7. \A t \in Stmts : f[t] = Shape(f, t)
  <2> HIDE DEF Shape
  <2> QED BY <1>3, <1>6
<1>8. f = [t \in Stmts |-> Shape(f, t)]
  <2> HIDE DEF Shape
  <2> QED BY <1>6, <1>7
<1>9. \E below : below = [t \in Stmts |-> Shape(below, t)]
  <2> HIDE DEF Shape
  <2> QED BY <1>8
<1>10. BelowFn(nx) = [t \in Stmts |-> Shape(BelowFn(nx), t)]
  <2> DEFINE Is(below) == below = [t \in Stmts |-> Shape(below, t)]
  <2>1. BelowFn(nx) = CHOOSE below : Is(below)
    BY Zenon DEF BelowFn
  <2>2. \E below : Is(below)
    BY <1>9
  <2>3. Is(BelowFn(nx))
    <3> HIDE DEF Is
    <3> QED BY <2>1, <2>2
  <2> QED BY <2>3
<1>11. \A t \in Stmts : BelowFn(nx)[t] = Shape(BelowFn(nx), t)
  <2> HIDE DEF Shape
  <2> QED BY <1>10
<1> HIDE DEF Shape
<1> QED BY <1>1, <1>3, <1>11

(* The chains of a statement hold what is directly inside it.              *)
LEMMA WalkedIs ==
  ASSUME Settled, NEW nx \in Pointers0, Forward(nx), NEW t \in Stmts, Open(t, nx)
  PROVE  Walked(t, nx) = Kids(t)
<1>1. ASSUME NEW l \in Elements(text.subs[t]) PROVE Walk(First(l), nx) = Elements(l)
  BY OpenChained, WalkIs DEF Settled
<1> QED BY <1>1 DEF Walked, Kids

(* Numbering reaches the sub-statements, and theirs, and nothing else.     *)
LEMMA BelowIs ==
  ASSUME Settled, NEW nx \in Pointers0, Forward(nx), NEW p \in Stmts,
         \A t \in {p} \cup (Stmts \ Tops) : Open(t, nx)
  PROVE  /\ Below(p, nx) \subseteq Stmts \ Tops
         /\ \A b \in Stmts \ Tops :
              b \in Below(p, nx) <=> Parent(b) \in {p} \cup Below(p, nx)
<1> DEFINE g == BelowFn(nx)
           R == {p} \cup (Stmts \ Tops)
           Q(t) == /\ g[t] \subseteq Stmts \ Tops
                   /\ \A b \in Stmts \ Tops : b \in g[t] <=> Parent(b) \in {t} \cup g[t]
           X == {t \in R : ~Q(t)}
<1>1. ASSUME NEW t \in R PROVE t \in Stmts /\ g[t] = Kids(t) \cup UNION {g[b] : b \in Kids(t)}
  <2>1. t \in Stmts /\ Open(t, nx)
    OBVIOUS
  <2>2. Walked(t, nx) = Kids(t)
    BY <2>1, WalkedIs
  <2> QED BY <2>1, <2>2, BelowFnIs
<1> HIDE DEF g
<1>2. ASSUME NEW s \in R, \A r \in Kids(s) : Q(r) PROVE Q(s)
  <2>1. s \in Stmts /\ g[s] = Kids(s) \cup UNION {g[b] : b \in Kids(s)}
    BY <1>1
  <2>2. /\ Kids(s) \subseteq Stmts \ Tops
        /\ \A b \in Stmts \ Tops : b \in Kids(s) <=> Parent(b) = s
    BY <2>1, KidsAre
  <2>3. g[s] \subseteq Stmts \ Tops
    BY <1>2, <2>1, <2>2
  <2>4. ASSUME NEW b \in Stmts \ Tops, b \in g[s] PROVE Parent(b) \in {s} \cup g[s]
    <3>1. CASE b \in Kids(s)
      BY <2>2, <3>1
    <3>2. ASSUME NEW r \in Kids(s), b \in g[r] PROVE Parent(b) \in g[s]
      BY <1>2, <2>1, <3>2
    <3> QED BY <2>1, <2>4, <3>1, <3>2
  <2>5. ASSUME NEW b \in Stmts \ Tops, Parent(b) \in {s} \cup g[s] PROVE b \in g[s]
    <3>1. CASE Parent(b) = s
      BY <2>1, <2>2, <3>1
    <3>2. ASSUME NEW r \in Kids(s), Parent(b) \in {r} \cup g[r] PROVE b \in g[s]
      BY <1>2, <2>1, <3>2
    <3> QED BY <2>1, <2>5, <3>1, <3>2
  <2> QED BY <2>3, <2>4, <2>5
<1>3. X = {}
  <2>1. SUFFICES ASSUME X # {} PROVE FALSE
    OBVIOUS
  <2>2. X \in (SUBSET DOMAIN text.type) \ {{}}
    <3> HIDE DEF Q
    <3> QED BY <1>1, <2>1 DEF Stmts
  <2>3. PICK s \in X : \A r \in X : ~Contains(text, s, r)
    <3> HIDE DEF X
    <3> QED BY <2>2 DEF Settled, IsProgram, Grounded
  <2>4. s \in Stmts /\ s \in R /\ ~Q(s)
    <3> HIDE DEF Q
    <3> QED BY <1>1
  <2>5. ASSUME NEW r \in Kids(s) PROVE Q(r)
    <3>1. r \in R /\ Contains(text, s, r)
      BY <2>4, KidsAre
    <3> HIDE DEF Q
    <3> QED BY <2>3, <3>1
  <2> HIDE DEF Q
  <2> QED BY <1>2, <2>4, <2>5
<1>4. Q(p)
  <2> HIDE DEF Q
  <2> QED BY <1>3
<1> QED BY <1>4, BelowFnIs DEF g

-----------------------------------------------------------------------------
(* One statement more is linked.                                           *)

(* The text, and where things are in it, stay as they are.                 *)
LEMMA SameText ==
  ASSUME UNCHANGED <<text, read, lines>>, NEW s
  PROVE  /\ Stmts' = Stmts /\ Tops' = Tops /\ Read' = Read
         /\ ListOf(s)' = ListOf(s) /\ PlaceOf(s)' = PlaceOf(s)
         /\ IsLast(s)' = IsLast(s) /\ LineAt(s)' = LineAt(s)
         /\ TopNext(s)' = TopNext(s) /\ Parent(s)' = Parent(s)
<1>1. Stmts' = Stmts /\ Read' = Read /\ Lists(text)' = Lists(text)
  BY DEF Stmts, Read, Lists
<1>2. ASSUME NEW r
      PROVE  ListOf(r)' = ListOf(r) /\ PlaceOf(r)' = PlaceOf(r) /\ TopLevel(r)' = TopLevel(r)
  BY <1>1 DEF ListOf, PlaceOf, TopLevel
<1>3. Tops' = Tops
  BY <1>1, <1>2 DEF Tops
<1>4. ASSUME NEW i PROVE TopList(i)' = TopList(i)
  BY <1>1 DEF TopList
<1>5. LineAt(s)' = LineAt(s)
  BY <1>4 DEF LineAt
<1>6. IsLast(s)' = IsLast(s)
  BY <1>2 DEF IsLast
<1>7. TopNext(s)' = TopNext(s)
  BY <1>2, <1>5, <1>6 DEF TopNext
<1>8. Parent(s)' = Parent(s)
  BY <1>1 DEF Parent
<1> QED BY <1>1, <1>2, <1>3, <1>5, <1>6, <1>7, <1>8

Building == Settled /\ Progress /\ Links /\ NumbersKept /\ stmt # NULL

LinkedTail == IF tail = NULL THEN next ELSE [next EXCEPT ![tail] = stmt]

(* Only statements at the top level are passed.                            *)
LEMMA PassedTops == Passed \subseteq Tops /\ Tops \subseteq Stmts
BY DEF Passed, Tops

(* The statement to build is not passed, and follows the one before.       *)
LEMMA NotPassed ==
  ASSUME Building
  PROVE  /\ stmt \in Tops /\ stmt \notin Passed
         /\ TopNext(stmt) \notin Passed \cup {stmt} \/ TopNext(stmt) = NULL
         /\ \A s \in Tops : TopNext(s) = stmt => s = tail /\ tail # NULL
<1>1. stmt \in Tops /\ Passed = {s \in Tops : Comes(s, stmt)}
  BY DEF Building, Progress, Passed
<1>2. stmt \notin Passed
  BY <1>1, OrderIsTotal DEF Building
<1>3. ASSUME TopNext(stmt) # NULL PROVE TopNext(stmt) \notin Passed \cup {stmt}
  <2>1. TopNext(stmt) \in Tops /\ Comes(stmt, TopNext(stmt))
    BY <1>1, <1>3, TopNextIs DEF Building
  <2> QED BY <1>1, <2>1, OrderIsTotal DEF Building
<1>4. ASSUME NEW s \in Tops, TopNext(s) = stmt PROVE s = tail /\ tail # NULL
  <2>1. Comes(s, stmt)
    BY <1>4, TopNextIs DEF Building
  <2>2. tail # NULL
    BY <1>1, <2>1 DEF Building, Progress
  <2>3. tail \in Tops /\ TopNext(tail) = stmt
    BY <2>2, PassedTops DEF Building, Progress
  <2> QED BY <1>4, <2>2, <2>3, TopNextOnce DEF Building
<1> QED BY <1>1, <1>2, <1>3, <1>4

(* The line before leads to stmt now.                                      *)
LEMMA TailLinked ==
  ASSUME Building
  PROVE  LinkedTail = [s \in Stmts |-> Link(s, Passed \cup {stmt}, Passed)]
<1>1. next = [s \in Stmts |-> Link(s, Passed, Passed)] /\ DOMAIN next = Stmts
  BY DEF Building, Links
<1>2. ASSUME NEW s \in Stmts, s # tail \/ tail = NULL
      PROVE  Link(s, Passed \cup {stmt}, Passed) = next[s]
  <2>1. s \in Tops => TopNext(s) # stmt
    BY <1>2, NotPassed
  <2> QED BY <1>1, <2>1 DEF Link
<1>3. CASE tail = NULL
  <2>1. LinkedTail = next
    BY <1>3 DEF LinkedTail
  <2>2. next = [s \in Stmts |-> next[s]]
    BY <1>1
  <2> QED BY <1>2, <1>3, <2>1, <2>2
<1>4. CASE tail # NULL
  <2>1. tail \in Tops /\ tail \in Stmts /\ TopNext(tail) = stmt
    BY <1>4, PassedTops DEF Building, Progress
  <2>2. Link(tail, Passed \cup {stmt}, Passed) = stmt
    BY <2>1 DEF Link, TopNext
  <2>3. LinkedTail = [s \in Stmts |-> IF s = tail THEN stmt ELSE next[s]]
    BY <1>1, <1>4, <2>1 DEF LinkedTail
  <2> QED BY <1>2, <2>1, <2>2, <2>3
<1> QED BY <1>3, <1>4

(* A link is a statement or null.                                          *)
LEMMA LinkTypes ==
  ASSUME Settled, NEW s \in Stmts, NEW begun, NEW passed, passed \subseteq Tops
  PROVE  Link(s, begun, passed) \in Stmts \cup {NULL}
<1>1. CASE ~IsLast(s)
  BY <1>1, NextPlace DEF Link, Settled
<1>2. \A t \in Tops : TopNext(t) \in Stmts \cup {NULL}
  BY TopNextIs, PassedTops
<1>3. CASE IsLast(s)
  BY <1>2, <1>3 DEF Link
<1> QED BY <1>1, <1>3

(* Before the sub-statements of stmt are linked.                           *)
LEMMA BeforeFixup ==
  ASSUME Building, NEW nx, nx = LinkedTail
  PROVE  /\ nx \in Pointers0 /\ Forward(nx)
         /\ \A t \in {stmt} \cup (Stmts \ Tops) : Open(t, nx)
         /\ nx[stmt] = IF IsLast(stmt) THEN NULL ELSE TopNext(stmt)
<1>1. nx = [s \in Stmts |-> Link(s, Passed \cup {stmt}, Passed)] /\ Settled
  BY TailLinked DEF Building
<1>2. Passed \subseteq Tops /\ Tops \subseteq Stmts
  BY PassedTops
<1>3. nx \in Pointers0
  BY <1>1, <1>2, LinkTypes DEF Pointers0
<1>4. \A t \in Tops : TopNext(t) \in Tops \cup {NULL}
  BY <1>1, TopNextIs
<1>5. Forward(nx)
  <2>1. ASSUME NEW s \in Stmts
        PROVE  /\ ~IsLast(s) => nx[s] = ListOf(s)[PlaceOf(s) + 1]
               /\ IsLast(s) /\ s \in Tops => nx[s] \in {NULL, TopNext(s)}
               /\ IsLast(s) /\ s \notin Tops => nx[s] \in {NULL} \cup Tops
    BY <1>1, <1>2, <1>4 DEF Link
  <2> QED BY <2>1 DEF Forward
<1>6. ASSUME NEW t \in {stmt} \cup (Stmts \ Tops), NEW l \in Elements(text.subs[t])
      PROVE  nx[l[Len(l)]] = NULL
  <2>1. t \in Stmts /\ t \notin Passed
    BY <1>2, NotPassed
  <2>2. l \in Lists(text)
    BY <1>1, <2>1, SubTypes DEF Settled, Stmts, Elements
  <2>3. Len(l) \in DOMAIN l
    BY <1>1, <2>2, ListTypes DEF Settled
  <2>4. l[Len(l)] \in Stmts /\ IsLast(l[Len(l)])
    BY <1>1, <2>2, <2>3, PlaceIs, ListOfIs DEF Settled
  <2>5. l[Len(l)] \in Kids(t)
    BY <2>3 DEF Kids, Elements
  <2>6. l[Len(l)] \notin Tops /\ Parent(l[Len(l)]) = t
    BY <1>1, <2>1, <2>4, <2>5, KidsAre
  <2> QED BY <1>1, <2>1, <2>4, <2>6 DEF Link
<1>7. nx[stmt] = IF IsLast(stmt) THEN NULL ELSE TopNext(stmt)
  <2>1. stmt \in Stmts /\ stmt \in Tops
    BY <1>2, NotPassed
  <2>2. nx[stmt] = Link(stmt, Passed \cup {stmt}, Passed)
    BY <1>1, <2>1
  <2>3. TopNext(stmt) \in Passed \cup {stmt} => TopNext(stmt) = NULL
    BY NotPassed
  <2> QED BY <2>1, <2>2, <2>3 DEF Link, TopNext
<1> QED BY <1>3, <1>5, <1>6, <1>7 DEF Open

(* statement_fixup links the ends of the lists of stmt, and only those.    *)
LEMMA AfterFixup ==
  ASSUME Building, NEW nx, nx = LinkedTail
  PROVE  FixedUp(stmt, TopNext(stmt), nx)
           = [s \in Stmts |-> Link(s, Passed \cup {stmt}, Passed \cup {stmt})]
<1>1. nx = [s \in Stmts |-> Link(s, Passed \cup {stmt}, Passed)] /\ Settled
  BY TailLinked DEF Building
<1>2. /\ nx \in Pointers0 /\ Forward(nx) /\ Open(stmt, nx)
      /\ stmt \in Tops /\ stmt \in Stmts /\ stmt \notin Passed
  BY BeforeFixup, NotPassed, PassedTops
<1> DEFINE ends == {End(First(l), nx) : l \in Elements(text.subs[stmt])}
<1>3. ASSUME NEW l \in Elements(text.subs[stmt])
      PROVE  l \in Lists(text) /\ End(First(l), nx) = l[Len(l)]
  <2>1. l \in Lists(text) /\ Chained(l, nx)
    BY <1>1, <1>2, OpenChained
  <2> QED BY <1>1, <1>2, <2>1, EndIs DEF Settled
<1>4. ASSUME NEW s \in Stmts
      PROVE  s \in ends <=> IsLast(s) /\ s \notin Tops /\ Parent(s) = stmt
  <2>1. ASSUME s \in ends PROVE IsLast(s) /\ s \notin Tops /\ Parent(s) = stmt
    <3>1. PICK l \in Elements(text.subs[stmt]) : s = l[Len(l)] /\ l \in Lists(text)
      BY <1>3, <2>1
    <3>2. Len(l) \in DOMAIN l
      BY <1>1, <3>1, ListTypes DEF Settled
    <3>3. IsLast(s)
      BY <1>1, <3>1, <3>2, PlaceIs, ListOfIs DEF Settled
    <3>4. s \in Kids(stmt)
      BY <3>1, <3>2 DEF Kids, Elements
    <3> QED BY <1>1, <1>2, <3>3, <3>4, KidsAre
  <2>2. ASSUME IsLast(s), s \notin Tops, Parent(s) = stmt PROVE s \in ends
    <3>1. PICK k \in DOMAIN text.subs[stmt] : text.subs[stmt][k] = ListOf(s)
      BY <1>1, <2>2, ParentIs
    <3>2. ListOf(s) \in Elements(text.subs[stmt])
      BY <3>1 DEF Elements
    <3>3. ListOf(s)[Len(ListOf(s))] = s
      BY <1>1, <2>2, ListOfIs DEF Settled
    <3> QED BY <1>3, <3>2, <3>3
  <2> QED BY <2>1, <2>2
<1>5. FixedUp(stmt, TopNext(stmt), nx)
        = [s \in Stmts |-> IF s \in ends THEN TopNext(stmt) ELSE nx[s]]
  BY <1>1 DEF FixedUp
<1>6. ASSUME NEW s \in Stmts
      PROVE  (IF s \in ends THEN TopNext(stmt) ELSE nx[s])
               = Link(s, Passed \cup {stmt}, Passed \cup {stmt})
  <2> HIDE DEF ends
  <2>1. nx[s] = Link(s, Passed \cup {stmt}, Passed)
    BY <1>1
  <2>2. CASE s \in ends
    BY <1>4, <2>2 DEF Link
  <2>3. CASE s \notin ends
    BY <1>4, <2>1, <2>3 DEF Link
  <2> QED BY <2>2, <2>3
<1> HIDE DEF ends
<1> QED BY <1>5, <1>6

(* The statement after stmt, in its line or the next.                      *)
LEMMA After ==
  ASSUME Building, NEW nx, nx = LinkedTail
  PROVE  /\ TopNext(stmt) = IF nx[stmt] = NULL /\ line < Len(lines) THEN lines[line + 1].stmt
                            ELSE nx[stmt]
         /\ TopNext(stmt) # NULL =>
              LineAt(TopNext(stmt)) = IF nx[stmt] = NULL /\ line < Len(lines) THEN line + 1
                                      ELSE line
<1>1. /\ nx[stmt] = (IF IsLast(stmt) THEN NULL ELSE TopNext(stmt))
      /\ stmt \in Tops /\ stmt \in Stmts /\ line = LineAt(stmt)
  BY BeforeFixup, NotPassed, PassedTops DEF Building, Progress
<1>2. CASE IsLast(stmt)
  BY <1>1, <1>2, TopNextPlace DEF TopNext, Building
<1>3. CASE ~IsLast(stmt)
  <2>1. TopNext(stmt) \in Tops /\ TopNext(stmt) # NULL /\ LineAt(TopNext(stmt)) = line
    BY <1>1, <1>3, TopNextPlace, TopTypes DEF Building
  <2> QED BY <1>1, <1>3, <2>1
<1> QED BY <1>2, <1>3

(* While a program is read or built, the invariant gives all its parts.    *)
LEMMA InvSettled ==
  ASSUME Inv, InUse
  PROVE  Settled /\ Progress /\ Links /\ NumbersKept
BY TextsAre DEF Inv, InUse, Pointers, LinkedSoFar, Settled, TypeOK

(* What build_statements does, in the terms of the text.                   *)
LEMMA BuildIs ==
  ASSUME Inv, build_statements
  PROVE  /\ Building /\ UNCHANGED <<text, phase, loading, freeing>>
         /\ stmts' = (IF tail = NULL THEN stmt ELSE stmts) /\ tail' = stmt
         /\ stmt' = TopNext(stmt)
         /\ stmt' # NULL => line' = LineAt(TopNext(stmt))
         /\ line' \in {line, line + 1} /\ (line' = line + 1 => line < Len(lines))
         /\ next' = [s \in Stmts |-> Link(s, Passed \cup {stmt}, Passed \cup {stmt})]
         /\ number' = Numbered(stmt, lines[line].number, LinkedTail)
<1>1. Building
  BY InvSettled DEF build_statements, Building, InUse
<1> DEFINE n == lines[line].number
           linked == IF tail = NULL THEN next ELSE [next EXCEPT ![tail] = stmt]
           following == linked[stmt]
           after == IF following = NULL /\ line < Len(lines) THEN lines[line + 1].stmt
                    ELSE following
<1>2. /\ stmts' = (IF tail = NULL THEN stmt ELSE stmts) /\ tail' = stmt
      /\ next' = FixedUp(stmt, after, linked)
      /\ number' = Numbered(stmt, n, linked)
      /\ IF following = NULL /\ line < Len(lines)
         THEN line' = line + 1 /\ stmt' = lines[line + 1].stmt
         ELSE stmt' = following /\ UNCHANGED line
      /\ UNCHANGED <<text, phase, loading, freeing>>
  BY DEF build_statements
<1>3. linked = LinkedTail
  BY DEF LinkedTail
<1> HIDE DEF linked
<1>4. after = TopNext(stmt)
  BY <1>1, <1>3, After
<1>5. /\ stmt' = TopNext(stmt)
      /\ stmt' # NULL => line' = LineAt(TopNext(stmt))
      /\ line' \in {line, line + 1} /\ (line' = line + 1 => line < Len(lines))
  <2>1. following = LinkedTail[stmt]
    BY <1>3
  <2>2. line \in Int
    BY DEF Inv, Pointers, TypeOK
  <2> HIDE DEF following
  <2>3. CASE following = NULL /\ line < Len(lines)
    <3>1. line' = line + 1 /\ stmt' = lines[line + 1].stmt
      BY <1>2, <2>3
    <3>2. stmt' = TopNext(stmt)
      <4>1. TopNext(stmt) = IF LinkedTail[stmt] = NULL /\ line < Len(lines)
                            THEN lines[line + 1].stmt ELSE LinkedTail[stmt]
        BY <1>1, After
      <4>2. TopNext(stmt) = lines[line + 1].stmt
        BY <2>1, <2>3, <4>1
      <4> QED BY <3>1, <4>2
    <3>3. TopNext(stmt) # NULL => LineAt(TopNext(stmt)) = line + 1
      BY <1>1, <2>1, <2>3, After
    <3> QED BY <2>3, <3>1, <3>2, <3>3
  <2>4. CASE ~(following = NULL /\ line < Len(lines))
    <3>1. line' = line /\ stmt' = following
      BY <1>2, <2>4
    <3>2. stmt' = TopNext(stmt)
      BY <1>1, <2>1, <2>4, <3>1, After
    <3>3. TopNext(stmt) # NULL => LineAt(TopNext(stmt)) = line
      BY <1>1, <2>1, <2>4, After
    <3> QED BY <2>2, <3>1, <3>2, <3>3
  <2> QED BY <2>3, <2>4
<1>6. next' = [s \in Stmts |-> Link(s, Passed \cup {stmt}, Passed \cup {stmt})]
  <2> HIDE DEF after
  <2>1. next' = FixedUp(stmt, TopNext(stmt), LinkedTail)
    BY <1>2, <1>3, <1>4
  <2> QED BY <1>1, <2>1, AfterFixup
<1> QED BY <1>1, <1>2, <1>3, <1>5, <1>6

(* build_statements passes the statement it builds.                        *)
LEMMA BuildPasses ==
  ASSUME Inv, build_statements
  PROVE  Passed' = Passed \cup {stmt} /\ Tops' = Tops /\ Stmts' = Stmts
<1>1. /\ Building /\ UNCHANGED <<text, read, lines>> /\ stmt' = TopNext(stmt)
      /\ stmt \in Tops
  BY BuildIs, NotPassed DEF loading
<1>2. Tops' = Tops /\ Stmts' = Stmts
  BY <1>1, SameText
<1>3. ASSUME NEW s \in Tops, NEW t, t = stmt' PROVE Comes(s, stmt)' <=> Comes(s, t)
  <2>1. /\ LineAt(s)' = LineAt(s) /\ PlaceOf(s)' = PlaceOf(s)
        /\ LineAt(t)' = LineAt(t) /\ PlaceOf(t)' = PlaceOf(t)
    BY <1>1, SameText
  <2>2. Comes(s, t)' <=> Comes(s, t)
    BY <2>1 DEF Comes
  <2>3. Comes(s, stmt)' <=> Comes(s, t)'
    BY <1>3 DEF Comes
  <2> QED BY <2>2, <2>3
<1>4. Passed = {s \in Tops : Comes(s, stmt)}
  BY <1>1 DEF Building, Passed
<1>5. CASE TopNext(stmt) = NULL
  <2>1. Passed' = Tops
    BY <1>1, <1>2, <1>5 DEF Passed
  <2>2. \A t \in Tops : Comes(t, stmt) \/ t = stmt
    BY <1>1, <1>5, TopNextIs DEF Building
  <2> QED BY <1>1, <1>2, <1>4, <2>1, <2>2
<1>6. CASE TopNext(stmt) # NULL
  <2>1. Passed' = {s \in Tops : Comes(s, stmt)'}
    BY <1>1, <1>2, <1>6 DEF Passed
  <2>2. PICK n : n = TopNext(stmt)
    OBVIOUS
  <2>3. \A t \in Tops : Comes(t, n) <=> Comes(t, stmt) \/ t = stmt
    BY <1>1, <1>6, <2>2, TopNextIs DEF Building
  <2>4. \A s \in Tops : Comes(s, stmt)' <=> Comes(s, n)
    BY <1>1, <1>3, <2>2
  <2>5. \A s : s \in Passed' <=> s \in Tops /\ Comes(s, n)
    BY <2>1, <2>4
  <2>6. \A s : s \in Passed <=> s \in Tops /\ Comes(s, stmt)
    BY <1>4
  <2> QED BY <1>1, <1>2, <2>3, <2>5, <2>6
<1> QED BY <1>2, <1>5, <1>6

(* build_statements goes on to the statement after the one it builds.      *)
LEMMA BuildProgress ==
  ASSUME Inv, build_statements
  PROVE  Progress'
<1>1. /\ Building /\ UNCHANGED <<text, read, lines>> /\ stmt' = TopNext(stmt)
      /\ stmt' # NULL => line' = LineAt(TopNext(stmt))
      /\ stmts' = (IF tail = NULL THEN stmt ELSE stmts) /\ tail' = stmt
  BY BuildIs DEF loading
<1>2. Passed' = Passed \cup {stmt} /\ Tops' = Tops
  BY BuildPasses
<1>3. stmt \in Tops /\ stmt # NULL
  BY <1>1, NotPassed DEF Building
<1>4. PICK a, b : a = TopNext(stmt) /\ b = stmt
  OBVIOUS
<1>5. TopNext(b)' = TopNext(b) /\ LineAt(a)' = LineAt(a)
  BY <1>1, SameText
<1>6. stmt' # NULL => stmt' \in Tops' /\ line' = LineAt(stmt)'
  <2>1. a # NULL => a \in Tops
    BY <1>1, <1>3, <1>4, TopNextIs DEF Building
  <2>2. LineAt(stmt)' = LineAt(a)'
    BY <1>1, <1>4 DEF LineAt
  <2> QED BY <1>1, <1>2, <1>4, <1>5, <2>1, <2>2
<1>7. TopNext(tail)' = stmt'
  <2>1. TopNext(tail)' = TopNext(b)'
    BY <1>1, <1>4 DEF TopNext, IsLast, ListOf, PlaceOf, LineAt
  <2> QED BY <1>1, <1>4, <1>5, <2>1
<1>8. stmts' = lines'[1].stmt
  BY <1>1 DEF Building, Progress
<1> QED BY <1>1, <1>2, <1>3, <1>6, <1>7, <1>8 DEF Progress

(* build_statements links what it has passed, and nothing else.            *)
LEMMA BuildLinks ==
  ASSUME Inv, build_statements
  PROVE  Links'
<1>1. /\ UNCHANGED <<text, read, lines>>
      /\ next' = [s \in Stmts |-> Link(s, Passed \cup {stmt}, Passed \cup {stmt})]
  BY BuildIs DEF loading
<1>2. Passed' = Passed \cup {stmt} /\ Tops' = Tops /\ Stmts' = Stmts
  BY BuildPasses
<1>3. ASSUME NEW s
      PROVE  Link(s, Passed, Passed)' = Link(s, Passed \cup {stmt}, Passed \cup {stmt})
  <2>1. PICK p : p = Parent(s)
    OBVIOUS
  <2>2. /\ IsLast(s)' = IsLast(s) /\ ListOf(s)' = ListOf(s) /\ PlaceOf(s)' = PlaceOf(s)
        /\ TopNext(s)' = TopNext(s) /\ Parent(s)' = p
        /\ TopNext(p)' = TopNext(p)
    BY <1>1, <2>1, SameText
  <2>3. TopNext(Parent(s))' = TopNext(Parent(s))
    <3>1. TopNext(Parent(s))' = TopNext(p)'
      BY <2>2 DEF TopNext, IsLast, ListOf, PlaceOf, LineAt
    <3> QED BY <2>1, <2>2, <3>1
  <2> QED BY <1>2, <2>1, <2>2, <2>3 DEF Link
<1> QED BY <1>1, <1>2, <1>3 DEF Links

(* build_statements numbers the statements inside the one it builds.       *)
LEMMA BuildNumbers ==
  ASSUME Inv, build_statements
  PROVE  NumbersKept'
<1>1. /\ Building /\ UNCHANGED <<text, read, lines>>
      /\ number' = Numbered(stmt, lines[line].number, LinkedTail)
      /\ Settled /\ NumbersKept /\ line = LineAt(stmt)
      /\ stmt \in Tops /\ stmt \in Stmts
  BY BuildIs, NotPassed, PassedTops DEF loading, Building, Progress
<1>2. Passed' = Passed \cup {stmt} /\ Tops' = Tops /\ Stmts' = Stmts /\ Passed \subseteq Tops
  BY BuildPasses, PassedTops
<1>3. PICK nx : nx = LinkedTail
  OBVIOUS
<1> DEFINE B == Below(stmt, nx)
           n == lines[LineAt(stmt)].number
<1>4. /\ B \subseteq Stmts \ Tops
      /\ \A b \in Stmts \ Tops : b \in B <=> Parent(b) \in {stmt} \cup B
  BY <1>1, <1>3, BeforeFixup, BelowIs
<1>5. number' = [t \in Stmts |-> IF t = stmt \/ t \in B THEN n ELSE number[t]]
  BY <1>1, <1>3 DEF Numbered
<1> HIDE DEF B
<1>6. ASSUME NEW s \in Passed \cup {stmt} PROVE number'[s] = lines[LineAt(s)].number
  <2>1. s \in Stmts /\ s \notin B
    BY <1>1, <1>2, <1>4, PassedTops
  <2>2. CASE s = stmt
    BY <1>5, <2>1, <2>2
  <2>3. CASE s # stmt
    <3>1. number[s] = lines[LineAt(s)].number
      BY <1>1, <2>3 DEF NumbersKept
    <3> HIDE DEF n
    <3> QED BY <1>5, <2>1, <2>3, <3>1
  <2> QED BY <2>2, <2>3
<1>7. ASSUME NEW s \in Stmts \ Tops PROVE number'[s] = number'[Parent(s)]
  <2>1. Parent(s) \in Stmts
    BY <1>1, <1>7, ParentIs
  <2>2. s # stmt /\ (s \in B <=> Parent(s) \in {stmt} \cup B)
    BY <1>1, <1>4
  <2>3. number[s] = number[Parent(s)]
    BY <1>1 DEF NumbersKept
  <2> HIDE DEF n
  <2> QED BY <1>5, <2>1, <2>2, <2>3
<1>8. \A s : LineAt(s)' = LineAt(s) /\ Parent(s)' = Parent(s)
  BY <1>1, SameText
<1>9. DOMAIN number' = Stmts'
  BY <1>2, <1>5
<1>10. \A s \in Passed' : number'[s] = lines'[LineAt(s)'].number
  BY <1>1, <1>2, <1>6, <1>8
<1>11. \A s \in Stmts' \ Tops' : number'[s] = number'[Parent(s)']
  BY <1>2, <1>7, <1>8
<1> QED BY <1>9, <1>10, <1>11 DEF NumbersKept

-----------------------------------------------------------------------------
(* The parser's links.                                                     *)

(* The parser chains every list.                                           *)
LEMMA ParsedIs ==
  ASSUME NEW t, IsProgram(t)
  PROVE  /\ Parsed(t) \in [DOMAIN t.type -> DOMAIN t.type \cup {NULL}]
         /\ \A l \in Lists(t) : \A i \in DOMAIN l :
              Parsed(t)[l[i]] = IF i = Len(l) THEN NULL ELSE l[i + 1]
<1> DEFINE Inner(s) == \E l \in Lists(t) : \E i \in 1..(Len(l) - 1) : l[i] = s
           Succ(s, n) == \E l \in Lists(t) : \E i \in 1..(Len(l) - 1) : l[i] = s /\ l[i + 1] = n
           The(s) == CHOOSE n \in DOMAIN t.type : Succ(s, n)
<1>1. Parsed(t) = [s \in DOMAIN t.type |-> IF Inner(s) THEN The(s) ELSE NULL]
  BY DEF Parsed
<1>2. ASSUME NEW l \in Lists(t)
      PROVE  /\ DOMAIN l = 1..Len(l) /\ Len(l) \in Nat
             /\ \A i \in DOMAIN l : l[i] \in DOMAIN t.type
  BY ListTypes
<1>3. ASSUME NEW l \in Lists(t), NEW i \in DOMAIN l, i # Len(l)
      PROVE  Inner(l[i]) /\ The(l[i]) = l[i + 1]
  <2>1. i \in 1..(Len(l) - 1) /\ i + 1 \in DOMAIN l
    BY <1>2, <1>3
  <2>2. Succ(l[i], l[i + 1]) /\ l[i + 1] \in DOMAIN t.type
    BY <1>2, <2>1
  <2>3. ASSUME NEW n, Succ(l[i], n) PROVE n = l[i + 1]
    <3>1. PICK m \in Lists(t) : \E j \in 1..(Len(m) - 1) : m[j] = l[i] /\ m[j + 1] = n
      BY <2>3
    <3>2. PICK j \in 1..(Len(m) - 1) : m[j] = l[i] /\ m[j + 1] = n
      BY <3>1
    <3>3. j \in DOMAIN m
      BY <1>2, <3>2
    <3>4. m = l /\ j = i
      BY <3>2, <3>3, OnePlace
    <3> QED BY <3>2, <3>4
  <2>4. The(l[i]) = l[i + 1]
    <3> HIDE DEF Succ
    <3> QED BY <2>2, <2>3
  <2> QED BY <2>1, <2>4
<1>4. ASSUME NEW l \in Lists(t), NEW i \in DOMAIN l, i = Len(l)
      PROVE  ~Inner(l[i])
  <2>1. ASSUME NEW m \in Lists(t), NEW j \in 1..(Len(m) - 1), m[j] = l[i] PROVE FALSE
    <3>1. j \in DOMAIN m /\ j # Len(m)
      BY <1>2
    <3>2. m = l /\ j = i
      BY <2>1, <3>1, OnePlace
    <3> QED BY <1>4, <3>1, <3>2
  <2> QED BY <2>1
<1>5. ASSUME NEW s \in DOMAIN t.type, Inner(s) PROVE The(s) \in DOMAIN t.type
  <2>1. PICK l \in Lists(t) : \E i \in 1..(Len(l) - 1) : l[i] = s
    BY <1>5
  <2>2. PICK i \in 1..(Len(l) - 1) : l[i] = s
    BY <2>1
  <2>3. i \in DOMAIN l /\ i # Len(l) /\ i + 1 \in DOMAIN l
    BY <1>2
  <2> HIDE DEF The
  <2> QED BY <1>2, <1>3, <2>2, <2>3
<1> HIDE DEF Inner, The
<1>6. Parsed(t) \in [DOMAIN t.type -> DOMAIN t.type \cup {NULL}]
  BY <1>1, <1>5
<1>7. ASSUME NEW l \in Lists(t), NEW i \in DOMAIN l
      PROVE  Parsed(t)[l[i]] = IF i = Len(l) THEN NULL ELSE l[i + 1]
  BY <1>1, <1>2, <1>3, <1>4
<1> QED BY <1>6, <1>7

(* The invariant holds before the first line.                              *)
LEMMA InvInit == Init => Inv
<1> SUFFICES ASSUME Init PROVE Inv
  OBVIOUS
<1>1. text \in Texts /\ IsProgram(text)
  BY TextsAre DEF Init
<1>2. next = Parsed(text) /\ next \in [Stmts -> Stmts \cup {NULL}]
  BY <1>1, ParsedIs DEF Init, Stmts
<1>3. Len(text.lines) \in Nat
  BY <1>1 DEF IsProgram, IsText
<1>4. TypeOK
  BY <1>1, <1>2, <1>3 DEF TypeOK, Init
<1>5. Pointers
  BY <1>2, <1>4 DEF Pointers, Init, InUse
<1>6. LinesRead
  <2>1. Read = {}
    BY DEF Init, Read
  <2>2. lines \in Seq(LineSet) /\ DOMAIN lines = {}
    BY DEF Init
  <2>3. line_map \in [Buckets -> Seq([line : DOMAIN Hash, at : Stmts])]
        /\ \A b \in Buckets : DOMAIN line_map[b] = {}
    BY DEF Init
  <2> QED BY <2>1, <2>2, <2>3 DEF LinesRead, Sorted, Elements, NumbersOnce, Maps
<1>7. LinkedSoFar
  BY DEF LinkedSoFar, InUse, Init
<1>8. FreedSoFar
  <2>1. calls \in Seq(CallSet(text)) /\ DOMAIN calls = {}
    BY DEF Init
  <2>2. Frees(calls, set, freed, text, next)
    BY <2>1 DEF Frees, Init
  <2> QED BY <2>2 DEF FreedSoFar, Init
<1> QED BY <1>5, <1>6, <1>7, <1>8 DEF Inv

-----------------------------------------------------------------------------
(* Reading a line.                                                         *)

(* An entry more in the map.                                               *)
LEMMA MapAddIs ==
  ASSUME NEW S, NEW n \in DOMAIN Hash, NEW x \in S, NEW E, NEW map,
         map \in [Buckets -> Seq([line : DOMAIN Hash, at : S])],
         \A b \in Buckets : \A i \in DOMAIN map[b] : map[b][i] \in E
  PROVE  LET new == MapAdd(n, x, map)
         IN  /\ new \in [Buckets -> Seq([line : DOMAIN Hash, at : S])]
             /\ \A b \in Buckets : \A i \in DOMAIN new[b] :
                  new[b][i] \in E \cup {[line |-> n, at |-> x]}
             /\ \A m \in DOMAIN Hash : InMap(m, map) \/ m = n => InMap(m, new)
<1> DEFINE new == MapAdd(n, x, map)
           b0 == Hash[n]
           e == [line |-> n, at |-> x]
           C == [line : DOMAIN Hash, at : S]
<1>1. b0 \in Buckets /\ e \in C /\ \A m \in DOMAIN Hash : Hash[m] \in Buckets
  BY TextsAre
<1>2. new = [map EXCEPT ![b0] = Append(@, e)]
  BY DEF MapAdd
<1> HIDE DEF new, b0, e, C
<1>3. map \in [Buckets -> Seq(C)]
  BY DEF C
<1>4. new[b0] = Append(map[b0], e) /\ \A b \in Buckets : b # b0 => new[b] = map[b]
  BY <1>1, <1>2, <1>3
<1>5. map[b0] \in Seq(C) /\ Append(map[b0], e) \in Seq(C)
  BY <1>1, <1>3
<1>6. new \in [Buckets -> Seq(C)]
  BY <1>1, <1>2, <1>3, <1>5
<1>7. /\ Len(map[b0]) \in Nat /\ DOMAIN map[b0] = 1..Len(map[b0])
      /\ DOMAIN new[b0] = 1..(Len(map[b0]) + 1)
      /\ new[b0][Len(map[b0]) + 1] = e
      /\ \A i \in DOMAIN map[b0] : i \in DOMAIN new[b0] /\ new[b0][i] = map[b0][i]
  BY <1>1, <1>4, <1>5
<1>8. ASSUME NEW b \in Buckets, NEW i \in DOMAIN new[b]
      PROVE  new[b][i] \in E \cup {e}
  <2>1. CASE b # b0
    BY <1>4, <2>1
  <2>2. CASE b = b0 /\ i \in DOMAIN map[b0]
    BY <1>7, <2>2
  <2>3. CASE b = b0 /\ i \notin DOMAIN map[b0]
    <3>1. i = Len(map[b0]) + 1
      BY <1>7, <1>8, <2>3
    <3> QED BY <1>7, <2>3, <3>1
  <2> QED BY <2>1, <2>2, <2>3
<1>9. ASSUME NEW m \in DOMAIN Hash, InMap(m, map) PROVE InMap(m, new)
  <2>1. PICK i \in DOMAIN map[Hash[m]] : map[Hash[m]][i].line = m
    BY <1>9 DEF InMap
  <2>2. CASE Hash[m] = b0
    BY <1>7, <2>1, <2>2 DEF InMap
  <2>3. CASE Hash[m] # b0
    BY <1>1, <1>4, <2>1, <2>3 DEF InMap
  <2> QED BY <2>2, <2>3
<1>10. InMap(n, new)
  <2>1. Len(map[b0]) + 1 \in DOMAIN new[b0] /\ e.line = n
    BY <1>7 DEF e
  <2> QED BY <1>7, <2>1 DEF InMap, b0
<1> QED BY <1>6, <1>8, <1>9, <1>10 DEF new, e, C

(* A line added to the map leaves the others there.                        *)
LEMMA LineMapAdd ==
  ASSUME NEW S, NEW map, NEW ls, NEW l, First(l.stmts) \in S, l.number \in DOMAIN Hash,
         map \in [Buckets -> Seq([line : DOMAIN Hash, at : S])],
         \A b \in Buckets : \A i \in DOMAIN map[b] : \E m \in ls : map[b][i] = MapEntry(m),
         \A m \in ls : InMap(m.number, map) /\ m.number \in DOMAIN Hash
  PROVE  LET new == MapAdd(l.number, First(l.stmts), map)
         IN  /\ new \in [Buckets -> Seq([line : DOMAIN Hash, at : S])]
             /\ \A b \in Buckets : \A i \in DOMAIN new[b] :
                  \E m \in ls \cup {l} : new[b][i] = MapEntry(m)
             /\ \A m \in ls \cup {l} : InMap(m.number, new)
<1> DEFINE E == {MapEntry(m) : m \in ls}
           new == MapAdd(l.number, First(l.stmts), map)
<1>1. \A b \in Buckets : \A i \in DOMAIN map[b] : map[b][i] \in E
  OBVIOUS
<1> HIDE DEF new
<1>2. /\ new \in [Buckets -> Seq([line : DOMAIN Hash, at : S])]
      /\ \A b \in Buckets : \A i \in DOMAIN new[b] : new[b][i] \in E \cup {MapEntry(l)}
      /\ \A m \in DOMAIN Hash : InMap(m, map) \/ m = l.number => InMap(m, new)
  <2> HIDE DEF E
  <2> QED BY <1>1, MapAddIs DEF MapEntry, new
<1>3. \A m \in ls \cup {l} : InMap(m.number, new)
  BY <1>2
<1> QED BY <1>2, <1>3 DEF new

(* line_add keeps the lines in order, one for each number.                 *)
LEMMA LineAddLines ==
  ASSUME Inv, line_add
  PROVE  LinesRead'
<1> DEFINE l == text.lines[read + 1]
           rest == UNCHANGED <<text, next, number, stmts, building, freeing>>
<1>1. phase = "reading" /\ read < Len(text.lines) /\ text' = text
  BY DEF line_add
<1>2. CASE InMap(l.number, line_map)
  <2>1. phase' = "rejected" /\ lines' = <<>>
    BY <1>2 DEF line_add
  <2> QED BY <2>1 DEF LinesRead
<1>3. CASE ~InMap(l.number, line_map)
  <2>1. /\ line_map' = MapAdd(l.number, First(l.stmts), line_map)
        /\ lines' = Inserted(LineRecord(l), lines) /\ read' = read + 1 /\ phase' = phase
    BY <1>3 DEF line_add, LineRecord
  <2>2. /\ lines \in Seq(LineSet) /\ Sorted(lines)
        /\ Elements(lines) = {LineRecord(m) : m \in Read}
        /\ NumbersOnce(Read) /\ Maps(line_map, Read)
    BY <1>1 DEF Inv, LinesRead
  <2>3. IsProgram(text) /\ read \in Nat /\ Len(text.lines) \in Nat
        /\ DOMAIN text.lines = 1..Len(text.lines) /\ read + 1 \in DOMAIN text.lines
    <3>1. IsProgram(text) /\ read \in 0..Len(text.lines)
      BY TextsAre DEF Inv, Pointers, TypeOK
    <3>2. Len(text.lines) \in Nat /\ DOMAIN text.lines = 1..Len(text.lines)
      BY <3>1 DEF IsProgram, IsText
    <3> QED BY <1>1, <3>1, <3>2
  <2>4. l.number \in DOMAIN Hash /\ l.number \in Int /\ First(l.stmts) \in Stmts
    BY <2>3, LineTypes, TextsAre DEF Stmts
  <2>5. \A i \in 1..read : i \in DOMAIN text.lines
    BY <1>1, <2>3
  <2>6. \A m \in Read : m.number \in DOMAIN Hash /\ m.number \in Int
    BY <2>3, <2>5, LineTypes, TextsAre DEF Read
  <2> HIDE DEF l
  <2>7. Read' = Read \cup {l}
    <3>1. 1..(read + 1) = (1..read) \cup {read + 1}
      BY <2>3
    <3> QED BY <1>1, <2>1, <3>1 DEF Read, l
  <2>8. \A m \in Read : m.number # l.number
    BY <1>3, <2>2 DEF Maps
  <2>9. LineRecord(l) \in LineSet /\ LineRecord(l).number = l.number
    BY <2>4 DEF LineRecord, LineSet
  <2>10. \A i \in DOMAIN lines : lines[i].number \in Int /\ lines[i].number # l.number
    <3>1. ASSUME NEW i \in DOMAIN lines
          PROVE  lines[i].number \in Int /\ lines[i].number # l.number
      <4>1. lines[i] \in {LineRecord(m) : m \in Read}
        BY <2>2 DEF Elements
      <4>2. PICK m \in Read : lines[i] = LineRecord(m)
        BY <4>1
      <4> QED BY <2>6, <2>8, <4>2 DEF LineRecord
    <3> QED BY <3>1
  <2>11. /\ lines' \in Seq(LineSet) /\ Sorted(lines')
         /\ Elements(lines') = Elements(lines) \cup {LineRecord(l)}
    <3> DEFINE r == LineRecord(l)
    <3>1. r \in LineSet /\ r.number = l.number /\ lines' = Inserted(r, lines)
      BY <2>1, <2>9
    <3> HIDE DEF r
    <3>2. r.number \in Int /\ \A i \in DOMAIN lines : lines[i].number # r.number
      BY <2>4, <2>10, <3>1
    <3> HIDE DEF LineSet
    <3> QED BY <2>2, <2>10, <3>1, <3>2, InsertedIsSorted DEF r
  <2>12. Elements(lines') = {LineRecord(m) : m \in Read \cup {l}}
    BY <2>2, <2>11
  <2>13. NumbersOnce(Read \cup {l})
    BY <2>2, <2>8 DEF NumbersOnce
  <2>14. Maps(line_map, Read)' 
    <3>1. Maps(line_map', Read \cup {l})
      <4>1. /\ line_map \in [Buckets -> Seq([line : DOMAIN Hash, at : Stmts])]
            /\ \A b \in Buckets : \A i \in DOMAIN line_map[b] :
                 \E m \in Read : line_map[b][i] = MapEntry(m)
            /\ \A m \in Read : InMap(m.number, line_map) /\ m.number \in DOMAIN Hash
        BY <2>2, <2>6 DEF Maps
      <4> DEFINE new == MapAdd(l.number, First(l.stmts), line_map)
      <4>2. /\ new \in [Buckets -> Seq([line : DOMAIN Hash, at : Stmts])]
            /\ \A b \in Buckets : \A i \in DOMAIN new[b] :
                 \E m \in Read \cup {l} : new[b][i] = MapEntry(m)
            /\ \A m \in Read \cup {l} : InMap(m.number, new)
        BY <2>4, <4>1, LineMapAdd
      <4> HIDE DEF new
      <4>3. line_map' = new
        BY <2>1 DEF new
      <4> QED BY <4>2, <4>3 DEF Maps
    <3>2. Stmts' = Stmts
      BY <1>1 DEF Stmts
    <3> QED BY <2>7, <3>1, <3>2 DEF Maps
  <2>15. LineSet' = LineSet
    BY <1>1 DEF LineSet, Stmts
  <2> QED BY <2>7, <2>11, <2>12, <2>13, <2>14, <2>15 DEF LinesRead, NumbersOnce
<1> QED BY <1>2, <1>3

(* line_add keeps the invariant.                                           *)
LEMMA LineAddStep ==
  ASSUME Inv, line_add
  PROVE  Inv'
<1>1. LinesRead'
  BY LineAddLines
<1>2. /\ phase = "reading" /\ phase' \in {"reading", "rejected"} /\ Stmts' = Stmts
      /\ UNCHANGED <<text, next, number, stmts, line, stmt, tail, calls, set, freed>>
      /\ read' \in {read, read + 1} /\ read < Len(text.lines)
  BY DEF line_add, building, freeing, Stmts
<1>3. Pointers'
  <2>1. Len(text.lines) \in Nat
    <3>1. IsProgram(text)
      BY TextsAre DEF Inv, Pointers, TypeOK
    <3> QED BY <3>1 DEF IsProgram, IsText
  <2>2. read' \in 0..Len(text'.lines)
    BY <1>2, <2>1 DEF Inv, Pointers, TypeOK
  <2>3. line = 1
    BY <1>2 DEF Inv, Pointers
  <2> QED BY <1>2, <2>2, <2>3 DEF Inv, Pointers, TypeOK, InUse
<1>4. LinkedSoFar'
  BY <1>2 DEF LinkedSoFar, InUse
<1>5. FreedSoFar'
  BY <1>2 DEF Inv, FreedSoFar, Frees
<1> QED BY <1>1, <1>3, <1>4, <1>5 DEF Inv

(* Nothing is passed when building starts.                                 *)
(* It begins with the first statement of the first line.                   *)
LEMMA StartAt ==
  ASSUME Inv, StartBuild
  PROVE  /\ stmt' \in Tops \cup {NULL} /\ (stmt' # NULL => LineAt(stmt)' = 1)
         /\ Passed' = {}
<1>1. /\ phase = "reading" /\ read = Len(text.lines)
      /\ stmt' = IF lines = <<>> THEN NULL ELSE lines[1].stmt
      /\ UNCHANGED <<text, read, lines>>
  BY DEF StartBuild, loading
<1>2. Settled
  BY <1>1, TextsAre DEF Inv, Pointers, TypeOK, Settled
<1>3. Stmts' = Stmts /\ Tops' = Tops /\ Read' = Read
  BY <1>1, SameText
<1>4. CASE lines = <<>>
  <2>1. Tops = {}
    BY <1>2, <1>4, FirstTop
  <2> QED BY <1>1, <1>3, <1>4, <2>1 DEF Passed
<1>5. CASE lines # <<>>
  <2>1. PICK f : f = lines[1].stmt
    OBVIOUS
  <2>2. f \in Tops /\ LineAt(f) = 1 /\ \A t \in Tops : ~Comes(t, f)
    BY <1>2, <1>5, <2>1, FirstTop
  <2>3. stmt' = f /\ f # NULL
    BY <1>1, <1>2, <1>5, <2>1, <2>2, TopTypes
  <2>4. LineAt(stmt)' = 1
    <3>1. LineAt(stmt)' = LineAt(f)'
      BY <2>3 DEF LineAt
    <3> QED BY <1>1, <2>2, <3>1, SameText
  <2>5. ASSUME NEW t \in Tops PROVE ~Comes(t, stmt)'
    <3>1. /\ LineAt(t)' = LineAt(t) /\ PlaceOf(t)' = PlaceOf(t)
          /\ LineAt(f)' = LineAt(f) /\ PlaceOf(f)' = PlaceOf(f)
      BY <1>1, SameText
    <3>2. ~Comes(t, f)'
      BY <2>2, <3>1 DEF Comes
    <3>3. Comes(t, stmt)' <=> Comes(t, f)'
      BY <2>3 DEF Comes
    <3> QED BY <3>2, <3>3
  <2>6. Passed' = {}
    <3>1. Passed' = {t \in Tops : Comes(t, stmt)'}
      BY <1>3, <2>3 DEF Passed
    <3> QED BY <2>5, <3>1
  <2> QED BY <2>2, <2>3, <2>4, <2>6
<1> QED BY <1>4, <1>5

(* The start of the build keeps the invariant.                             *)
LEMMA StartBuildStep ==
  ASSUME Inv, StartBuild
  PROVE  Inv'
<1>1. /\ phase = "reading" /\ phase' = "building" /\ read = Len(text.lines)
      /\ stmt' = IF lines = <<>> THEN NULL ELSE lines[1].stmt
      /\ UNCHANGED <<text, read, lines, line_map, next, number, stmts, line, tail,
                     calls, set, freed>>
  BY DEF StartBuild, loading, freeing
<1>2. /\ Settled /\ line = 1 /\ stmt = NULL /\ tail = NULL /\ stmts = NULL
      /\ next = Parsed(text) /\ number = [s \in Stmts |-> 0]
  BY <1>1, TextsAre DEF Inv, Pointers, TypeOK, Settled
<1>3. Stmts' = Stmts /\ Tops' = Tops /\ Read' = Read
  BY <1>1, SameText
<1>4. LinesRead'
  BY <1>1, <1>3 DEF Inv, LinesRead, LineSet, Sorted, Elements, NumbersOnce, Maps
<1>5. stmt' \in Tops \cup {NULL} /\ (stmt' # NULL => LineAt(stmt)' = 1)
      /\ Passed' = {}
  BY StartAt
<1>6. Pointers'
  <2>1. stmt' \in Stmts \cup {NULL}
    BY <1>5 DEF Tops
  <2> QED BY <1>1, <1>2, <1>3, <2>1 DEF Inv, Pointers, TypeOK, InUse
<1>7. Progress'
  <2>1. line' = 1 /\ tail' = NULL /\ stmts' = NULL
    BY <1>1, <1>2
  <2>2. stmt' # NULL => stmt' = lines[1].stmt
    BY <1>1
  <2> QED BY <1>1, <1>3, <1>5, <2>1, <2>2 DEF Progress
<1>8. Links'
  <2>1. next \in [Stmts -> Stmts \cup {NULL}]
    BY DEF Inv, Pointers, TypeOK
  <2>2. ASSUME NEW s \in Stmts PROVE next[s] = Link(s, Passed, Passed)'
    <3> DEFINE l == ListOf(s)
    <3>1. /\ l \in Lists(text) /\ PlaceOf(s) \in DOMAIN l /\ l[PlaceOf(s)] = s
          /\ IsLast(s) <=> PlaceOf(s) = Len(l)
      BY <1>2, ListOfIs DEF Settled
    <3> HIDE DEF l
    <3>2. next[s] = IF PlaceOf(s) = Len(l) THEN NULL ELSE l[PlaceOf(s) + 1]
      BY <1>2, <3>1, ParsedIs DEF Settled
    <3>3. IsLast(s)' = IsLast(s) /\ ListOf(s)' = l /\ PlaceOf(s)' = PlaceOf(s)
      BY <1>1, SameText DEF l
    <3>4. Link(s, Passed, Passed)' = IF IsLast(s) THEN NULL ELSE l[PlaceOf(s) + 1]
      BY <1>5, <3>3 DEF Link
    <3> QED BY <3>1, <3>2, <3>4
  <2>3. next = [s \in Stmts |-> next[s]]
    BY <2>1
  <2> QED BY <1>1, <1>3, <2>2, <2>3 DEF Links
<1>9. NumbersKept'
  <2>1. \A s \in Stmts \ Tops : Parent(s) \in Stmts
    BY <1>2, ParentIs
  <2>2. \A s : Parent(s)' = Parent(s)
    BY <1>1, SameText
  <2> QED BY <1>1, <1>2, <1>3, <1>5, <2>1, <2>2 DEF NumbersKept
<1>10. FreedSoFar'
  BY <1>1 DEF Inv, FreedSoFar, Frees
<1> QED BY <1>4, <1>6, <1>7, <1>8, <1>9, <1>10 DEF Inv, LinkedSoFar

(* build_statements keeps the invariant.                                   *)
LEMMA BuildStep ==
  ASSUME Inv, build_statements
  PROVE  Inv'
<1>1. /\ Building /\ UNCHANGED <<text, phase, read, lines, line_map, calls, set, freed>>
      /\ stmts' = (IF tail = NULL THEN stmt ELSE stmts) /\ tail' = stmt
      /\ stmt' = TopNext(stmt)
      /\ line' \in {line, line + 1} /\ (line' = line + 1 => line < Len(lines))
      /\ next' = [s \in Stmts |-> Link(s, Passed \cup {stmt}, Passed \cup {stmt})]
      /\ phase = "building"
  <2>1. phase = "building"
    BY DEF build_statements
  <2> QED BY <2>1, BuildIs DEF loading, freeing
<1>2. Stmts' = Stmts /\ Read' = Read
  BY <1>1, SameText
<1>3. LinesRead'
  BY <1>1, <1>2 DEF Inv, LinesRead, LineSet, Sorted, Elements, NumbersOnce, Maps
<1>4. Pointers'
  <2>1. stmt \in Tops /\ stmt \in Stmts /\ Passed \cup {stmt} \subseteq Tops
    BY <1>1, NotPassed, PassedTops
  <2>2. stmt' \in Stmts \cup {NULL}
    BY <1>1, <2>1, TopNextIs, PassedTops DEF Building
  <2>3. next' \in [Stmts -> Stmts \cup {NULL}]
    BY <1>1, <2>1, LinkTypes DEF Building
  <2>4. line' \in Nat \ {0} /\ (line' <= Len(lines) \/ line' = 1)
    <3>1. line \in Nat \ {0} /\ (line <= Len(lines) \/ line = 1) /\ Len(lines) \in Nat
      BY DEF Inv, Pointers, TypeOK, LinesRead
    <3> QED BY <1>1, <3>1
  <2> QED BY <1>1, <1>2, <2>1, <2>2, <2>3, <2>4 DEF Inv, Pointers, TypeOK, InUse
<1>5. LinkedSoFar'
  BY BuildProgress, BuildLinks, BuildNumbers DEF LinkedSoFar
<1>6. FreedSoFar'
  BY <1>1 DEF Inv, FreedSoFar, Frees
<1> QED BY <1>3, <1>4, <1>5, <1>6 DEF Inv

-----------------------------------------------------------------------------
(* Freeing.                                                                *)

(* The links and numbers stand while what they speak of does.              *)
LEMMA SamePassed ==
  ASSUME UNCHANGED <<text, read, lines, stmt>>
  PROVE  Passed' = Passed
<1>1. Tops' = Tops
  BY SameText
<1>2. PICK x : x = stmt
  OBVIOUS
<1>3. \A s : Comes(s, stmt)' <=> Comes(s, x)'
  BY <1>2 DEF Comes, LineAt, PlaceOf, ListOf
<1>4. \A s : /\ LineAt(s)' = LineAt(s) /\ PlaceOf(s)' = PlaceOf(s)
             /\ LineAt(x)' = LineAt(x) /\ PlaceOf(x)' = PlaceOf(x)
  BY SameText
<1>5. \A s : Comes(s, x)' <=> Comes(s, x)
  BY <1>4 DEF Comes
<1> QED BY <1>1, <1>2, <1>3, <1>5 DEF Passed

(* What does not touch the statements keeps what is known of them.         *)
LEMMA SameLinks ==
  ASSUME UNCHANGED <<text, read, lines, next, number, stmts, line, stmt, tail>>,
         Progress, Links, NumbersKept
  PROVE  Progress' /\ Links' /\ NumbersKept'
<1>1. Stmts' = Stmts /\ Tops' = Tops
  BY SameText
<1>2. ASSUME NEW s
      PROVE  LineAt(s)' = LineAt(s) /\ Parent(s)' = Parent(s) /\ TopNext(s)' = TopNext(s)
             /\ IsLast(s)' = IsLast(s) /\ ListOf(s)' = ListOf(s) /\ PlaceOf(s)' = PlaceOf(s)
  BY SameText
<1>3. Passed' = Passed
  BY SamePassed
<1>4. ASSUME NEW s PROVE Link(s, Passed, Passed)' = Link(s, Passed, Passed)
  <2>1. PICK p : p = Parent(s)
    OBVIOUS
  <2>2. TopNext(Parent(s))' = TopNext(p)'
    <3>1. Parent(s)' = p
      BY <1>2, <2>1
    <3> QED BY <3>1 DEF TopNext, IsLast, ListOf, PlaceOf, LineAt
  <2>3. TopNext(Parent(s))' = TopNext(Parent(s))
    BY <1>2, <2>1, <2>2
  <2> QED BY <1>1, <1>2, <1>3, <2>3 DEF Link
<1>5. Progress'
  <2>1. PICK t : t = tail
    OBVIOUS
  <2>2. TopNext(tail)' = TopNext(tail)
    <3>1. TopNext(tail)' = TopNext(t)'
      BY <2>1 DEF TopNext, IsLast, ListOf, PlaceOf, LineAt
    <3> QED BY <1>2, <2>1, <3>1
  <2>3. LineAt(stmt)' = LineAt(stmt)
    <3>1. PICK x : x = stmt
      OBVIOUS
    <3>2. LineAt(stmt)' = LineAt(x)'
      BY <3>1 DEF LineAt
    <3> QED BY <1>2, <3>1, <3>2
  <2> QED BY <1>1, <1>3, <2>2, <2>3 DEF Progress
<1>6. Links'
  BY <1>1, <1>4 DEF Links
<1>7. NumbersKept'
  BY <1>1, <1>2, <1>3 DEF NumbersKept
<1> QED BY <1>5, <1>6, <1>7

(* The program as it was built is not touched.                             *)
LEMMA FreeingKeeps ==
  ASSUME Inv, InUse, InUse', stmt = NULL, phase' \in {"freeing", "done"},
         UNCHANGED <<text, loading, next, number, stmts, building>>,
         set' \subseteq Stmts, freed' \subseteq set'
  PROVE  Pointers' /\ LinesRead' /\ LinkedSoFar'
<1>1. UNCHANGED <<text, read, lines, line_map, next, number, stmts, line, stmt, tail>>
  BY DEF loading, building
<1>2. Stmts' = Stmts /\ Read' = Read
  BY <1>1, SameText
<1>3. LinesRead'
  BY <1>1, <1>2 DEF Inv, LinesRead, LineSet, Sorted, Elements, NumbersOnce, Maps, InUse
<1>4. Pointers'
  BY <1>1, <1>2 DEF Inv, Pointers, TypeOK, InUse
<1>5. LinkedSoFar'
  BY <1>1, InvSettled, SameLinks DEF LinkedSoFar
<1> QED BY <1>3, <1>4, <1>5

(* Nothing changes when no variable the invariant speaks of does.          *)
LEMMA SameInv ==
  ASSUME Inv, UNCHANGED <<text, phase, read, lines, line_map, next, number, stmts, line,
                          stmt, tail, calls, set, freed>>
  PROVE  Inv'
<1>1. Stmts' = Stmts /\ Read' = Read
  BY SameText
<1>2. LinesRead'
  BY <1>1 DEF Inv, LinesRead, LineSet, Sorted, Elements, NumbersOnce, Maps
<1>3. Pointers'
  BY <1>1 DEF Inv, Pointers, TypeOK, InUse
<1>4. LinkedSoFar'
  BY SameLinks DEF Inv, LinkedSoFar, InUse
<1>5. FreedSoFar'
  BY DEF Inv, FreedSoFar, Frees
<1> QED BY <1>2, <1>3, <1>4, <1>5 DEF Inv

(* The calls under the top one, and those with another in its place or a   *)
(* further one on top.                                                     *)
LEMMA CallsAre ==
  ASSUME NEW C, NEW cs \in Seq(C), cs # <<>>, NEW c \in C, NEW d \in C
  PROVE  LET n == Len(cs)
             u == SubSeq(cs, 1, n - 1)
         IN  /\ n \in Nat \ {0} /\ cs[n] \in C /\ DOMAIN cs = 1..n
             /\ u \in Seq(C) /\ DOMAIN u = 1..(n - 1)
             /\ \A i \in 1..(n - 1) : u[i] = cs[i]
             /\ u \o <<c>> \in Seq(C) /\ DOMAIN (u \o <<c>>) = 1..n
             /\ \A i \in 1..n : (u \o <<c>>)[i] = IF i = n THEN c ELSE cs[i]
             /\ u \o <<c, d>> \in Seq(C) /\ DOMAIN (u \o <<c, d>>) = 1..(n + 1)
             /\ \A i \in 1..(n + 1) :
                  (u \o <<c, d>>)[i] = IF i = n THEN c ELSE IF i = n + 1 THEN d ELSE cs[i]
<1> DEFINE n == Len(cs)
           u == SubSeq(cs, 1, n - 1)
           v == u \o <<c>>
           w == u \o <<c, d>>
<1>1. n \in Nat \ {0} /\ cs[n] \in C /\ DOMAIN cs = 1..n
  BY EmptySeq
<1>2. u \in Seq(C) /\ Len(u) = n - 1 /\ \A i \in 1..(n - 1) : u[i] = cs[i]
  BY <1>1
<1> HIDE DEF n, u
<1>3. v \in Seq(C) /\ Len(v) = n /\ \A i \in 1..n : v[i] = IF i = n THEN c ELSE cs[i]
  BY <1>1, <1>2
<1>4. w \in Seq(C) /\ Len(w) = n + 1
      /\ \A i \in 1..(n + 1) : w[i] = IF i = n THEN c ELSE IF i = n + 1 THEN d ELSE cs[i]
  BY <1>1, <1>2
<1> HIDE DEF v, w
<1>5. DOMAIN u = 1..(n - 1) /\ DOMAIN v = 1..n /\ DOMAIN w = 1..(n + 1)
  BY <1>2, <1>3, <1>4
<1> QED BY <1>1, <1>2, <1>3, <1>4, <1>5 DEF n, u, v, w


(* What was reached before a step is so after it.                          *)
StaysReached(cs, st, ds, su) == \A x : Reached(x, cs, st) => Reached(x, ds, su)

(* What was reached stays so when a call only ends at a null pointer or a  *)
(* statement free_internal has been to.                                    *)
LEMMA ReachedStays ==
  ASSUME NEW cs, NEW ds, NEW st, NEW su, st \subseteq su,
         \A i \in DOMAIN cs : \/ cs[i].stmt \in su \cup {NULL}
                              \/ \E j \in DOMAIN ds : ds[j].stmt = cs[i].stmt
  PROVE  StaysReached(cs, st, ds, su)
BY DEF Reached, StaysReached

(* A call that goes on visiting after a step.                              *)
LEMMA VisitsStill ==
  ASSUME NEW cs, NEW ds, NEW st, NEW su, NEW fr, NEW fu, NEW t, NEW i \in DOMAIN cs,
         Visits(i, cs, st, fr, t), st \subseteq su, cs[i].stmt \notin fu, ds[i] = cs[i],
         StaysReached(cs, st, ds, su),
         \A j \in DOMAIN ds : ds[j].sub # 0 /\ ds[j].stmt = cs[i].stmt =>
           j \in DOMAIN cs /\ cs[j].sub # 0 /\ cs[j].stmt = cs[i].stmt
  PROVE  Visits(i, ds, su, fu, t)
BY DEF Visits, StaysReached

(* The call at the end of a list, or at a statement visited before, ends.  *)
LEMMA LeaveIs ==
  ASSUME NEW t, NEW nx, NEW cs, NEW st, NEW fr, Frees(cs, st, fr, t, nx),
         NEW n \in DOMAIN cs, cs[n].sub = 0, cs[n].stmt \in st \cup {NULL},
         NEW ds \in Seq(CallSet(t)), DOMAIN ds = DOMAIN cs \ {n},
         \A i \in DOMAIN ds : ds[i] = cs[i]
  PROVE  /\ Frees(ds, st, fr, t, nx)
         /\ StaysReached(cs, st, ds, st)
<1>1. ASSUME NEW i \in DOMAIN cs
      PROVE  cs[i].stmt \in st \cup {NULL} \/ \E j \in DOMAIN ds : ds[j].stmt = cs[i].stmt
  <2>1. CASE i = n
    BY <2>1
  <2>2. CASE i # n
    <3>1. i \in DOMAIN ds /\ ds[i].stmt = cs[i].stmt
      BY <2>2
    <3> QED BY <3>1
  <2> QED BY <2>1, <2>2
<1>2. StaysReached(cs, st, ds, st)
  BY <1>1, ReachedStays
<1>3. \A i \in DOMAIN ds : i \in DOMAIN cs
  OBVIOUS
<1>4. ASSUME NEW i \in DOMAIN cs, cs[i].sub # 0
      PROVE  i \in DOMAIN ds
  BY <1>4
<1>5. ASSUME NEW i \in DOMAIN ds, ds[i].sub # 0 PROVE Visits(i, ds, st, fr, t)
  <2>1. i \in DOMAIN cs /\ ds[i] = cs[i]
    BY <1>3
  <2>2. Visits(i, cs, st, fr, t)
    BY <1>5, <2>1 DEF Frees
  <2>3. cs[i].stmt \notin fr
    BY <2>2 DEF Visits
  <2>4. \A j \in DOMAIN ds : ds[j].sub # 0 /\ ds[j].stmt = cs[i].stmt =>
          j \in DOMAIN cs /\ cs[j].sub # 0 /\ cs[j].stmt = cs[i].stmt
    BY <1>3
  <2> QED BY <1>2, <2>1, <2>2, <2>3, <2>4, VisitsStill
<1>6. ASSUME NEW s \in st \ fr PROVE \E i \in DOMAIN ds : ds[i].sub # 0 /\ ds[i].stmt = s
  <2>1. PICK i \in DOMAIN cs : cs[i].sub # 0 /\ cs[i].stmt = s
    BY DEF Frees
  <2>2. i \in DOMAIN ds /\ ds[i] = cs[i]
    BY <1>4, <2>1
  <2> QED BY <2>1, <2>2
<1>7. \A s \in fr : LeadsOn(s, ds, st, t, nx)
  BY <1>2 DEF Frees, LeadsOn, StaysReached
<1> QED BY <1>2, <1>5, <1>6, <1>7 DEF Frees

(* A statement not visited before is visited.                              *)
LEMMA EnterIs ==
  ASSUME NEW t, NEW nx, NEW cs, NEW st, NEW fr, Frees(cs, st, fr, t, nx),
         NEW n \in DOMAIN cs, cs[n].sub = 0, NEW s0, cs[n].stmt = s0,
         s0 \notin st, fr \subseteq st, Len(t.subs[s0]) \in Nat,
         NEW ds \in Seq(CallSet(t)), DOMAIN ds = DOMAIN cs,
         ds[n].stmt = s0, ds[n].sub = 1, \A i \in DOMAIN ds : i # n => ds[i] = cs[i]
  PROVE  /\ Frees(ds, st \cup {s0}, fr, t, nx)
         /\ StaysReached(cs, st, ds, st \cup {s0})
<1> DEFINE su == st \cup {s0}
<1>1. ASSUME NEW i \in DOMAIN cs PROVE \E j \in DOMAIN ds : ds[j].stmt = cs[i].stmt
  <2>1. ds[i].stmt = cs[i].stmt
    OBVIOUS
  <2> QED BY <2>1
<1>2. st \subseteq su
  OBVIOUS
<1>3. StaysReached(cs, st, ds, su)
  <2> HIDE DEF su
  <2> QED BY <1>1, <1>2, ReachedStays
<1>4. \A j \in DOMAIN cs : cs[j].sub # 0 => cs[j].stmt \in st \ fr /\ cs[j].stmt # s0
  BY DEF Frees, Visits
<1>5. ASSUME NEW i \in DOMAIN ds, ds[i].sub # 0 PROVE Visits(i, ds, su, fr, t)
  <2>1. CASE i = n
    <3>1. ASSUME NEW j \in DOMAIN ds, ds[j].sub # 0, ds[j].stmt = s0 PROVE n = j
      BY <1>4, <3>1
    <3>2. 1 <= Len(t.subs[s0]) + 1 /\ 1..(1 - 1) = {}
      OBVIOUS
    <3>3. s0 \in su \ fr
      OBVIOUS
    <3> HIDE DEF su
    <3>4. \A k \in 1..(ds[n].sub - 1) : Reached(First(t.subs[s0][k]), ds, su)
      BY <3>2
    <3> QED BY <2>1, <3>1, <3>2, <3>3, <3>4 DEF Visits
  <2>2. CASE i # n
    <3>1. i \in DOMAIN cs /\ ds[i] = cs[i]
      BY <2>2
    <3>2. Visits(i, cs, st, fr, t)
      BY <1>5, <3>1 DEF Frees
    <3>3. cs[i].stmt \notin fr /\ cs[i].stmt # s0
      BY <1>4, <1>5, <3>1
    <3>4. \A j \in DOMAIN ds : ds[j].sub # 0 /\ ds[j].stmt = cs[i].stmt =>
            j \in DOMAIN cs /\ cs[j].sub # 0 /\ cs[j].stmt = cs[i].stmt
      BY <3>3
    <3> HIDE DEF su
    <3> QED BY <1>2, <1>3, <3>1, <3>2, <3>3, <3>4, VisitsStill
  <2> QED BY <2>1, <2>2
<1>6. ASSUME NEW s \in su \ fr PROVE \E i \in DOMAIN ds : ds[i].sub # 0 /\ ds[i].stmt = s
  <2>1. CASE s = s0
    BY <2>1
  <2>2. CASE s # s0
    <3>1. PICK i \in DOMAIN cs : cs[i].sub # 0 /\ cs[i].stmt = s
      BY <2>2 DEF Frees
    <3>2. ds[i] = cs[i]
      BY <3>1
    <3> QED BY <3>1, <3>2
  <2> QED BY <2>1, <2>2
<1>7. \A s \in fr : LeadsOn(s, ds, su, t, nx)
  <2> HIDE DEF su
  <2> QED BY <1>3 DEF Frees, LeadsOn, StaysReached
<1> HIDE DEF su
<1>8. Frees(ds, su, fr, t, nx)
  BY <1>5, <1>6, <1>7 DEF Frees
<1> QED BY <1>3, <1>8 DEF su

(* The next of its lists is gone into.                                     *)
LEMMA DescendIs ==
  ASSUME NEW t, NEW nx, NEW cs, NEW st, NEW fr, Frees(cs, st, fr, t, nx),
         NEW n \in DOMAIN cs, NEW k \in Nat, k # 0, NEW s0,
         cs[n].stmt = s0, cs[n].sub = k, k <= Len(t.subs[s0]), Len(t.subs[s0]) \in Nat,
         NEW f, f = First(t.subs[s0][k]),
         NEW ds \in Seq(CallSet(t)), NEW m, m \notin DOMAIN cs,
         DOMAIN ds = DOMAIN cs \cup {m}, ds[m].stmt = f, ds[m].sub = 0,
         ds[n].stmt = s0, ds[n].sub = k + 1, \A i \in DOMAIN cs : i # n => ds[i] = cs[i]
  PROVE  /\ Frees(ds, st, fr, t, nx)
         /\ StaysReached(cs, st, ds, st)
<1>1. k + 1 # 0 /\ k + 1 <= Len(t.subs[s0]) + 1 /\ 1..((k + 1) - 1) = (1..(k - 1)) \cup {k}
  OBVIOUS
<1>2. \A i \in DOMAIN cs : /\ i \in DOMAIN ds /\ ds[i].stmt = cs[i].stmt
                           /\ (ds[i].sub # 0 <=> cs[i].sub # 0)
  BY <1>1
<1>3. StaysReached(cs, st, ds, st)
  <2>1. \A i \in DOMAIN cs : \E j \in DOMAIN ds : ds[j].stmt = cs[i].stmt
    BY <1>2
  <2> QED BY <2>1, ReachedStays
<1>4. Reached(f, ds, st)
  BY DEF Reached
<1>5. ASSUME NEW i \in DOMAIN ds, ds[i].sub # 0
      PROVE  i \in DOMAIN cs /\ ds[i].stmt = cs[i].stmt /\ cs[i].sub # 0
  <2>1. i # m
    BY <1>5
  <2>2. i \in DOMAIN cs
    BY <2>1
  <2> QED BY <1>2, <1>5, <2>2
<1>6. ASSUME NEW i \in DOMAIN ds, ds[i].sub # 0 PROVE Visits(i, ds, st, fr, t)
  <2>1. i \in DOMAIN cs /\ ds[i].stmt = cs[i].stmt /\ cs[i].sub # 0
    BY <1>5, <1>6
  <2>2. Visits(i, cs, st, fr, t)
    BY <2>1 DEF Frees
  <2>3. \A j \in DOMAIN ds : ds[j].sub # 0 /\ ds[j].stmt = cs[i].stmt =>
          j \in DOMAIN cs /\ cs[j].sub # 0 /\ cs[j].stmt = cs[i].stmt
    BY <1>5
  <2>4. cs[i].stmt \in st \ fr
    BY <2>2 DEF Visits
  <2>5. CASE i = n
    <3>1. \A q \in 1..(k - 1) : Reached(First(t.subs[s0][q]), ds, st)
      BY <1>3, <2>2, <2>5 DEF Visits, StaysReached
    <3>2. \A q \in 1..((k + 1) - 1) : Reached(First(t.subs[s0][q]), ds, st)
      BY <1>1, <1>4, <3>1
    <3>3. \A j \in DOMAIN ds : ds[j].sub # 0 /\ ds[j].stmt = s0 => n = j
      BY <2>2, <2>3, <2>5 DEF Visits
    <3> QED BY <1>1, <2>4, <2>5, <3>2, <3>3 DEF Visits
  <2>6. CASE i # n
    <3>1. ds[i] = cs[i] /\ cs[i].stmt \notin fr
      BY <2>1, <2>4, <2>6
    <3> QED BY <1>3, <2>1, <2>2, <2>3, <3>1, VisitsStill
  <2> QED BY <2>5, <2>6
<1>7. ASSUME NEW s \in st \ fr PROVE \E i \in DOMAIN ds : ds[i].sub # 0 /\ ds[i].stmt = s
  <2>1. PICK i \in DOMAIN cs : cs[i].sub # 0 /\ cs[i].stmt = s
    BY DEF Frees
  <2> QED BY <1>2, <2>1
<1>8. \A s \in fr : LeadsOn(s, ds, st, t, nx)
  BY <1>3 DEF Frees, LeadsOn, StaysReached
<1> QED BY <1>3, <1>6, <1>7, <1>8 DEF Frees

(* A call has been to all sub-statements of its statement.                 *)
AtEnd(c, t) == DOMAIN t.subs[c.stmt] \subseteq 1..(c.sub - 1)

(* The statement is freed, and its next one comes.                         *)
LEMMA FreeIs ==
  ASSUME NEW t, NEW nx, NEW cs, NEW st, NEW fr, Frees(cs, st, fr, t, nx),
         NEW n \in DOMAIN cs, cs[n].sub # 0, NEW s0, cs[n].stmt = s0,
         AtEnd(cs[n], t),
         NEW ds \in Seq(CallSet(t)), DOMAIN ds = DOMAIN cs,
         ds[n].stmt = nx[s0], ds[n].sub = 0, \A i \in DOMAIN ds : i # n => ds[i] = cs[i]
  PROVE  /\ Frees(ds, st, fr \cup {s0}, t, nx)
         /\ StaysReached(cs, st, ds, st)
<1> DEFINE fu == fr \cup {s0}
<1>1. Visits(n, cs, st, fr, t)
  BY DEF Frees
<1>2. s0 \in st
  BY <1>1 DEF Visits
<1>3. ASSUME NEW i \in DOMAIN cs
      PROVE  cs[i].stmt \in st \cup {NULL} \/ \E j \in DOMAIN ds : ds[j].stmt = cs[i].stmt
  <2>1. CASE i = n
    BY <1>2, <2>1
  <2>2. CASE i # n
    <3>1. ds[i].stmt = cs[i].stmt
      BY <2>2
    <3> QED BY <3>1
  <2> QED BY <2>1, <2>2
<1>4. StaysReached(cs, st, ds, st)
  BY <1>3, ReachedStays
<1>5. ASSUME NEW i \in DOMAIN ds, ds[i].sub # 0
      PROVE  i \in DOMAIN cs /\ ds[i] = cs[i] /\ Visits(i, cs, st, fr, t) /\ cs[i].stmt \notin fu
  <2>1. i # n /\ i \in DOMAIN cs /\ ds[i] = cs[i]
    BY <1>5
  <2>2. Visits(i, cs, st, fr, t)
    BY <1>5, <2>1 DEF Frees
  <2>3. cs[i].stmt \notin fr
    BY <2>2 DEF Visits
  <2>4. cs[i].stmt # s0
    BY <1>1, <1>5, <2>1 DEF Visits
  <2> QED BY <2>1, <2>2, <2>3, <2>4
<1>6. ASSUME NEW i \in DOMAIN ds, ds[i].sub # 0 PROVE Visits(i, ds, st, fu, t)
  <2>1. i \in DOMAIN cs /\ ds[i] = cs[i] /\ Visits(i, cs, st, fr, t) /\ cs[i].stmt \notin fu
    BY <1>5, <1>6
  <2>2. \A j \in DOMAIN ds : ds[j].sub # 0 /\ ds[j].stmt = cs[i].stmt =>
          j \in DOMAIN cs /\ cs[j].sub # 0 /\ cs[j].stmt = cs[i].stmt
    <3> HIDE DEF fu
    <3> QED BY <1>5
  <2> HIDE DEF fu
  <2> QED BY <1>4, <2>1, <2>2, VisitsStill
<1>7. ASSUME NEW s \in st \ fu PROVE \E i \in DOMAIN ds : ds[i].sub # 0 /\ ds[i].stmt = s
  <2>1. PICK i \in DOMAIN cs : cs[i].sub # 0 /\ cs[i].stmt = s
    BY <1>7 DEF Frees
  <2>2. ds[i] = cs[i]
    BY <1>7, <2>1
  <2> QED BY <2>1, <2>2
<1>8. LeadsOn(s0, ds, st, t, nx)
  <2>1. Reached(nx[s0], ds, st)
    BY DEF Reached
  <2>2. ASSUME NEW k \in DOMAIN t.subs[s0] PROVE Reached(First(t.subs[s0][k]), ds, st)
    <3>1. k \in 1..(cs[n].sub - 1)
      BY DEF AtEnd
    <3>2. Reached(First(t.subs[s0][k]), cs, st)
      BY <1>1, <3>1 DEF Visits
    <3> QED BY <1>4, <3>2 DEF StaysReached
  <2> QED BY <2>1, <2>2 DEF LeadsOn
<1>9. \A s \in fu : LeadsOn(s, ds, st, t, nx)
  BY <1>4, <1>8 DEF Frees, LeadsOn, StaysReached
<1> HIDE DEF fu
<1>10. Frees(ds, st, fu, t, nx)
  BY <1>6, <1>7, <1>9 DEF Frees
<1> QED BY <1>4, <1>10 DEF fu

(* The activation on top.                                                  *)
LEMMA TopCall ==
  ASSUME Inv, phase = "freeing", calls # <<>>
  PROVE  LET n == Len(calls)
         IN  /\ IsProgram(text) /\ InUse /\ stmt = NULL /\ Frees(calls, set, freed, text, next)
             /\ calls \in Seq(CallSet(text)) /\ n \in DOMAIN calls /\ n \in Nat \ {0}
             /\ DOMAIN calls = 1..n /\ Top = calls[n]
             /\ calls[n].stmt \in Stmts \cup {NULL} /\ calls[n].sub \in Nat
             /\ calls[n] = [stmt |-> calls[n].stmt, sub |-> calls[n].sub]
<1>1. /\ Frees(calls, set, freed, text, next) /\ text \in Texts /\ stmt = NULL
  BY DEF Inv, FreedSoFar, Pointers, TypeOK
<1>2. calls \in Seq(CallSet(text))
  BY <1>1 DEF Frees
<1>3. /\ Len(calls) \in Nat \ {0} /\ calls[Len(calls)] \in CallSet(text)
      /\ DOMAIN calls = 1..Len(calls)
  BY <1>2, EmptySeq
<1> DEFINE c == calls[Len(calls)]
<1>4. c.stmt \in Stmts \cup {NULL} /\ c.sub \in Nat /\ c = [stmt |-> c.stmt, sub |-> c.sub]
  <2> HIDE DEF c
  <2> QED BY <1>3 DEF c, CallSet, Stmts
<1>5. Len(calls) \in DOMAIN calls
  BY <1>3
<1> QED BY <1>1, <1>2, <1>3, <1>4, <1>5, TextsAre DEF Top, InUse

(* A visited statement has its sub-statements in front of it.              *)
LEMMA TopVisits ==
  ASSUME Inv, phase = "freeing", calls # <<>>, Visited
  PROVE  LET s == Top.stmt
         IN  /\ s \in Stmts /\ s \in set \ freed
             /\ text.subs[s] \in Seq(Seq(Stmts)) /\ Len(text.subs[s]) \in Nat
             /\ DOMAIN text.subs[s] = 1..Len(text.subs[s])
             /\ \A k \in DOMAIN text.subs[s] : First(text.subs[s][k]) \in Stmts
<1> DEFINE n == Len(calls)
<1>1. /\ Frees(calls, set, freed, text, next) /\ n \in DOMAIN calls /\ Top = calls[n]
      /\ IsProgram(text)
  BY TopCall
<1> HIDE DEF n
<1>2. Visits(n, calls, set, freed, text)
  BY <1>1 DEF Frees, Visited
<1>3. Top.stmt \in set \ freed
  BY <1>1, <1>2 DEF Visits
<1>4. Top.stmt \in Stmts
  BY <1>3 DEF Inv, Pointers, TypeOK
<1>5. PICK s : s = Top.stmt
  OBVIOUS
<1>6. s \in DOMAIN text.type
  BY <1>4, <1>5 DEF Stmts
<1>7. /\ text.subs[s] \in Seq(Seq(DOMAIN text.type))
      /\ \A k \in DOMAIN text.subs[s] : First(text.subs[s][k]) \in DOMAIN text.type
  BY <1>1, <1>6, SubTypes
<1>8. Len(text.subs[s]) \in Nat /\ DOMAIN text.subs[s] = 1..Len(text.subs[s])
  <2> DEFINE b == text.subs[s]
             C == Seq(DOMAIN text.type)
  <2>1. b \in Seq(C)
    BY <1>7
  <2> HIDE DEF b, C
  <2>2. Len(b) \in Nat /\ DOMAIN b = 1..Len(b)
    BY <2>1
  <2> QED BY <2>2 DEF b
<1> QED BY <1>3, <1>4, <1>5, <1>7, <1>8 DEF Stmts

(* What a step of free_internal has to keep.                               *)
LEMMA FreesOn ==
  ASSUME Inv, phase = "freeing", phase' = "freeing",
         UNCHANGED <<text, loading, next, number, stmts, building>>,
         Frees(calls', set', freed', text, next), set' \subseteq Stmts, freed' \subseteq set',
         StaysReached(calls, set, calls', set')
  PROVE  Inv'
<1>1. stmt = NULL
  BY DEF Inv, Pointers
<1>2. Pointers' /\ LinesRead' /\ LinkedSoFar'
  BY <1>1, FreeingKeeps DEF InUse
<1>3. Reached(stmts, calls, set)
  BY DEF Inv, FreedSoFar
<1>4. FreedSoFar'
  <2>1. Reached(stmts, calls', set')
    BY <1>3 DEF StaysReached
  <2>2. text' = text /\ next' = next /\ stmts' = stmts
    OBVIOUS
  <2> QED BY <2>1, <2>2 DEF FreedSoFar
<1> QED BY <1>2, <1>4 DEF Inv

(* Visiting a statement to free it keeps the invariant.                    *)
LEMMA VisitStep ==
  ASSUME Inv, Visit
  PROVE  Inv'
<1> DEFINE n == Len(calls)
<1>1. /\ phase = "freeing" /\ phase' = "freeing" /\ calls # <<>> /\ ~Visited
      /\ UNCHANGED <<text, loading, next, number, stmts, building, freed>>
  BY DEF Visit
<1>2. /\ IsProgram(text) /\ Frees(calls, set, freed, text, next)
      /\ calls \in Seq(CallSet(text)) /\ n \in DOMAIN calls /\ n \in Nat \ {0}
      /\ DOMAIN calls = 1..n /\ Top = calls[n]
      /\ calls[n].stmt \in Stmts \cup {NULL} /\ calls[n].sub \in Nat
      /\ calls[n] = [stmt |-> calls[n].stmt, sub |-> calls[n].sub]
  BY <1>1, TopCall
<1>3. set \subseteq Stmts /\ freed \subseteq set
  BY DEF Inv, Pointers, TypeOK
<1>4. calls[n].sub = 0
  BY <1>1, <1>2 DEF Visited
<1>5. CASE Top.stmt = NULL \/ ~NotBefore(Top.stmt)
  <2>1. calls' = SubSeq(calls, 1, n - 1) /\ set' = set
    BY <1>5 DEF Visit, Under
  <2> DEFINE ds == SubSeq(calls, 1, n - 1)
  <2>2. /\ ds \in Seq(CallSet(text)) /\ DOMAIN ds = 1..(n - 1)
        /\ \A i \in 1..(n - 1) : ds[i] = calls[i]
    <3> DEFINE c == calls[n]
    <3>1. c \in CallSet(text)
      BY <1>2 DEF CallSet, Stmts
    <3> HIDE DEF c
    <3> QED BY <1>1, <1>2, <3>1, CallsAre
  <2>3. calls[n].stmt \in set \cup {NULL}
    BY <1>2, <1>5 DEF NotBefore
  <2> HIDE DEF ds
  <2> HIDE DEF n
  <2>4. DOMAIN ds = DOMAIN calls \ {n}
    BY <1>2, <2>2
  <2>5. \A i \in DOMAIN ds : ds[i] = calls[i]
    BY <2>2
  <2>6. Frees(ds, set, freed, text, next) /\ StaysReached(calls, set, ds, set)
    BY <1>2, <1>4, <2>2, <2>3, <2>4, <2>5, LeaveIs
  <2>7. calls' = ds
    BY <2>1 DEF ds
  <2> QED BY <1>1, <1>3, <2>1, <2>6, <2>7, FreesOn
<1>6. CASE ~(Top.stmt = NULL \/ ~NotBefore(Top.stmt))
  <2> DEFINE s0 == calls[n].stmt
             c == [stmt |-> s0, sub |-> 1]
             ds == SubSeq(calls, 1, n - 1) \o <<c>>
  <2>1. s0 \in Stmts /\ s0 \notin set
    BY <1>2, <1>6 DEF NotBefore
  <2>2. [Top EXCEPT !.sub = 1] = c
    <3>1. PICK s, b : calls[n] = [stmt |-> s, sub |-> b]
      BY <1>2
    <3> HIDE DEF n
    <3> QED BY <1>2, <3>1
  <2>3. calls' = ds /\ set' = set \cup {s0}
    <3> HIDE DEF c
    <3> QED BY <1>2, <1>6, <2>2 DEF Visit, Under
  <2>4. c \in CallSet(text)
    BY <2>1 DEF CallSet, Stmts
  <2>5. c.stmt = s0 /\ c.sub = 1
    OBVIOUS
  <2>6. Len(text.subs[s0]) \in Nat
    <3>1. s0 \in DOMAIN text.type
      BY <2>1 DEF Stmts
    <3>2. PICK b : b = text.subs[s0]
      OBVIOUS
    <3> HIDE DEF s0
    <3>3. b \in Seq(Seq(DOMAIN text.type))
      BY <1>2, <3>1, <3>2, SubTypes
    <3>4. Len(b) \in Nat
      BY <3>3
    <3> QED BY <3>2, <3>4
  <2> HIDE DEF c
  <2>7. /\ ds \in Seq(CallSet(text)) /\ DOMAIN ds = 1..n
        /\ \A i \in 1..n : ds[i] = IF i = n THEN c ELSE calls[i]
    <3>1. calls # <<>> /\ calls \in Seq(CallSet(text))
      BY <1>1, <1>2
    <3> HIDE DEF s0
    <3> QED BY <2>4, <3>1, CallsAre
  <2>8. n \in 1..n
    BY <1>2
  <2> HIDE DEF ds, n, s0
  <2>9. /\ DOMAIN ds = DOMAIN calls /\ ds[n].stmt = s0 /\ ds[n].sub = 1
        /\ \A i \in DOMAIN ds : i # n => ds[i] = calls[i]
    BY <1>2, <2>5, <2>7, <2>8
  <2>10. calls[n].stmt = s0
    BY DEF s0
  <2>11. /\ Frees(ds, set \cup {s0}, freed, text, next)
         /\ StaysReached(calls, set, ds, set \cup {s0})
    BY <1>2, <1>3, <1>4, <2>1, <2>6, <2>7, <2>9, <2>10, EnterIs
  <2>12. set' \subseteq Stmts /\ freed' \subseteq set'
    BY <1>1, <1>3, <2>1, <2>3
  <2> QED BY <1>1, <1>3, <2>3, <2>11, <2>12, FreesOn
<1> QED BY <1>5, <1>6

(* Going into a list inside a statement to free it keeps the invariant.    *)
LEMMA FreeSubStep ==
  ASSUME Inv, FreeSub
  PROVE  Inv'
<1> DEFINE n == Len(calls)
           k == calls[n].sub
           s0 == calls[n].stmt
           f == First(text.subs[s0][k])
           c == [stmt |-> s0, sub |-> k + 1]
           d == [stmt |-> f, sub |-> 0]
           ds == SubSeq(calls, 1, n - 1) \o <<c, d>>
<1>1. /\ phase = "freeing" /\ phase' = "freeing" /\ calls # <<>> /\ Visited
      /\ UNCHANGED <<text, loading, next, number, stmts, building, set, freed>>
      /\ Top.sub <= Len(text.subs[Top.stmt])
      /\ calls' = Under \o <<[Top EXCEPT !.sub = @ + 1],
                             Activation(First(text.subs[Top.stmt][Top.sub]))>>
  BY DEF FreeSub
<1>2. /\ IsProgram(text) /\ Frees(calls, set, freed, text, next)
      /\ calls \in Seq(CallSet(text)) /\ n \in DOMAIN calls /\ n \in Nat \ {0}
      /\ DOMAIN calls = 1..n /\ Top = calls[n] /\ k \in Nat
      /\ calls[n] = [stmt |-> s0, sub |-> k]
  BY <1>1, TopCall
<1>3. set \subseteq Stmts /\ freed \subseteq set
  BY DEF Inv, Pointers, TypeOK
<1>4. /\ s0 \in Stmts /\ Len(text.subs[s0]) \in Nat
      /\ DOMAIN text.subs[s0] = 1..Len(text.subs[s0])
      /\ \A q \in DOMAIN text.subs[s0] : First(text.subs[s0][q]) \in Stmts
  BY <1>1, <1>2, TopVisits
<1>5. k # 0 /\ k <= Len(text.subs[s0])
  BY <1>1, <1>2 DEF Visited
<1>6. f \in Stmts
  <2>1. k \in 1..Len(text.subs[s0])
    <3> HIDE DEF k, s0
    <3> QED BY <1>2, <1>4, <1>5
  <2> HIDE DEF k, s0
  <2> QED BY <1>4, <2>1
<1>7. c \in CallSet(text) /\ d \in CallSet(text)
  <2> HIDE DEF f, s0, k
  <2> QED BY <1>2, <1>4, <1>6 DEF CallSet, Stmts
<1>8. calls' = ds
  <2>1. [Top EXCEPT !.sub = @ + 1] = c
    <3>1. PICK s, b : calls[n] = [stmt |-> s, sub |-> b]
      BY <1>2
    <3> HIDE DEF n
    <3> QED BY <1>2, <3>1
  <2>2. Activation(First(text.subs[Top.stmt][Top.sub])) = d
    BY <1>2 DEF Activation
  <2> HIDE DEF c, d
  <2> QED BY <1>1, <2>1, <2>2 DEF Under
<1>9. /\ ds \in Seq(CallSet(text)) /\ DOMAIN ds = 1..(n + 1)
      /\ \A i \in 1..(n + 1) : ds[i] = IF i = n THEN c ELSE IF i = n + 1 THEN d ELSE calls[i]
  <2>1. calls # <<>> /\ calls \in Seq(CallSet(text))
    BY <1>1, <1>2
  <2> HIDE DEF c, d, k, s0, f
  <2> QED BY <1>7, <2>1, CallsAre
<1>10. c.stmt = s0 /\ c.sub = k + 1 /\ d.stmt = f /\ d.sub = 0
  OBVIOUS
<1>11. n \in 1..n /\ n \in 1..(n + 1) /\ n + 1 \in 1..(n + 1) /\ n + 1 # n /\ n + 1 \notin 1..n
       /\ 1..(n + 1) = (1..n) \cup {n + 1}
  <2> HIDE DEF n
  <2> QED BY <1>2
<1> HIDE DEF c, d, ds
<1>12. /\ ds[n].stmt = s0 /\ ds[n].sub = k + 1 /\ ds[n + 1].stmt = f /\ ds[n + 1].sub = 0
       /\ DOMAIN ds = DOMAIN calls \cup {n + 1} /\ n + 1 \notin DOMAIN calls
  <2> HIDE DEF n, k, s0, f
  <2> QED BY <1>2, <1>9, <1>10, <1>11
<1>13. \A i \in DOMAIN calls : i # n => ds[i] = calls[i]
  <2> HIDE DEF n, k, s0, f
  <2>1. ASSUME NEW i \in 1..n PROVE i # n + 1 /\ i \in 1..(n + 1)
    BY <1>2
  <2> QED BY <1>2, <1>9, <2>1
<1>14. calls[n].stmt = s0 /\ calls[n].sub = k /\ f = First(text.subs[s0][k])
  OBVIOUS
<1> HIDE DEF n, k, s0, f
<1>15. /\ Frees(ds, set, freed, text, next)
       /\ StaysReached(calls, set, ds, set)
  <2>1. Frees(calls, set, freed, text, next) /\ n \in DOMAIN calls /\ k \in Nat
    BY <1>2
  <2>2. k # 0 /\ k <= Len(text.subs[s0]) /\ Len(text.subs[s0]) \in Nat
    BY <1>4, <1>5
  <2>3. ds \in Seq(CallSet(text))
    BY <1>9
  <2> QED BY ONLY <1>12, <1>13, <1>14, <2>1, <2>2, <2>3, DescendIs
<1> QED BY <1>1, <1>3, <1>8, <1>15, FreesOn

(* Freeing a statement keeps the invariant.                                *)
LEMMA FreeStatementStep ==
  ASSUME Inv, FreeStatement
  PROVE  Inv'
<1> DEFINE n == Len(calls)
           k == calls[n].sub
           s0 == calls[n].stmt
           f == next[s0]
           c == [stmt |-> f, sub |-> 0]
           ds == SubSeq(calls, 1, n - 1) \o <<c>>
<1>1. /\ phase = "freeing" /\ phase' = "freeing" /\ calls # <<>> /\ Visited
      /\ UNCHANGED <<text, loading, next, number, stmts, building, set>>
      /\ Top.sub > Len(text.subs[Top.stmt])
      /\ calls' = Under \o <<Activation(next[Top.stmt])>>
      /\ freed' = freed \cup {Top.stmt}
  BY DEF FreeStatement
<1>2. /\ IsProgram(text) /\ Frees(calls, set, freed, text, next)
      /\ calls \in Seq(CallSet(text)) /\ n \in DOMAIN calls /\ n \in Nat \ {0}
      /\ DOMAIN calls = 1..n /\ Top = calls[n] /\ k \in Nat
  BY <1>1, TopCall
<1>3. set \subseteq Stmts /\ freed \subseteq set /\ next \in [Stmts -> Stmts \cup {NULL}]
  BY DEF Inv, Pointers, TypeOK
<1>4. /\ s0 \in Stmts /\ s0 \in set /\ Len(text.subs[s0]) \in Nat
      /\ DOMAIN text.subs[s0] = 1..Len(text.subs[s0])
  BY <1>1, <1>2, TopVisits
<1>5. k # 0 /\ k > Len(text.subs[s0])
  BY <1>1, <1>2 DEF Visited
<1>6. f \in Stmts \cup {NULL}
  <2> HIDE DEF s0
  <2> QED BY <1>3, <1>4
<1>7. c \in CallSet(text)
  <2> HIDE DEF f, s0
  <2> QED BY <1>6 DEF CallSet, Stmts
<1>8. calls' = ds /\ freed' = freed \cup {s0}
  <2>1. Activation(next[Top.stmt]) = c
    BY <1>2 DEF Activation
  <2>2. Top.stmt = s0
    BY <1>2
  <2> HIDE DEF c, s0
  <2> QED BY <1>1, <2>1, <2>2 DEF Under
<1>9. /\ ds \in Seq(CallSet(text)) /\ DOMAIN ds = 1..n
      /\ \A i \in 1..n : ds[i] = IF i = n THEN c ELSE calls[i]
  <2>1. calls # <<>> /\ calls \in Seq(CallSet(text))
    BY <1>1, <1>2
  <2> HIDE DEF c, k, s0, f
  <2> QED BY <1>7, <2>1, CallsAre
<1>10. c.stmt = f /\ c.sub = 0
  OBVIOUS
<1> HIDE DEF c, ds
<1>11. /\ ds[n].stmt = f /\ ds[n].sub = 0 /\ DOMAIN ds = DOMAIN calls
       /\ \A i \in DOMAIN ds : i # n => ds[i] = calls[i]
  <2> HIDE DEF n, k, s0, f
  <2> QED BY <1>2, <1>9, <1>10
<1>12. calls[n].stmt = s0 /\ calls[n].sub = k /\ f = next[s0]
  OBVIOUS
<1> HIDE DEF n, k, s0, f
<1>13. /\ Frees(ds, set, freed \cup {s0}, text, next)
       /\ StaysReached(calls, set, ds, set)
  <2>1. DOMAIN text.subs[s0] \subseteq 1..(k - 1)
    BY <1>2, <1>4, <1>5
  <2>2. Frees(calls, set, freed, text, next) /\ n \in DOMAIN calls
    BY <1>2
  <2>3. calls[n].sub # 0 /\ AtEnd(calls[n], text) /\ calls[n].stmt = s0
    BY <1>5, <1>12, <2>1 DEF AtEnd
  <2>4. ds \in Seq(CallSet(text))
    BY <1>9
  <2>5. /\ ds[n].stmt = next[s0] /\ ds[n].sub = 0 /\ DOMAIN ds = DOMAIN calls
        /\ \A i \in DOMAIN ds : i # n => ds[i] = calls[i]
    BY <1>11, <1>12
  <2> QED BY ONLY <2>2, <2>3, <2>4, <2>5, FreeIs
<1>14. set' = set /\ freed' \subseteq set'
  BY <1>1, <1>3, <1>4, <1>8
<1> QED BY <1>1, <1>3, <1>8, <1>13, <1>14, FreesOn

(* free_internal is called with the first statement.                       *)
LEMMA StartFreeStep ==
  ASSUME Inv, statement_free
  PROVE  Inv'
<1>1. /\ phase = "building" /\ stmt = NULL /\ phase' = "freeing"
      /\ calls' = <<Activation(stmts)>>
      /\ UNCHANGED <<text, loading, next, number, stmts, building, set, freed>>
  BY DEF statement_free
<1>2. calls = <<>> /\ set = {} /\ freed = {} /\ text \in Texts /\ stmts \in Stmts \cup {NULL}
  BY <1>1 DEF Inv, FreedSoFar, Pointers, TypeOK
<1>3. Pointers' /\ LinesRead' /\ LinkedSoFar'
  <2>1. set' \subseteq Stmts /\ freed' \subseteq set'
    BY <1>1, <1>2
  <2> QED BY <1>1, <2>1, FreeingKeeps DEF InUse
<1> DEFINE c == [stmt |-> stmts, sub |-> 0]
<1>4. c \in CallSet(text) /\ c.sub = 0 /\ c.stmt = stmts
  BY <1>2 DEF CallSet, Stmts
<1>5. calls' = <<c>>
  BY <1>1 DEF Activation
<1> HIDE DEF c
<1>6. calls' \in Seq(CallSet(text)) /\ DOMAIN calls' = {1} /\ calls'[1] = c
  BY <1>4, <1>5
<1>7. Frees(calls', set', freed', text, next)
  BY <1>1, <1>2, <1>4, <1>6 DEF Frees
<1>8. Reached(stmts, calls', set')
  BY <1>4, <1>6 DEF Reached
<1>9. FreedSoFar'
  <2>1. text' = text /\ next' = next /\ stmts' = stmts
    BY <1>1
  <2> QED BY <1>1, <1>7, <1>8, <2>1 DEF FreedSoFar
<1> QED BY <1>3, <1>9 DEF Inv

(* The end of all freeing keeps the invariant.                             *)
LEMMA FreedStep ==
  ASSUME Inv, Freed
  PROVE  Inv'
<1>1. /\ phase = "freeing" /\ phase' = "done" /\ calls = <<>>
      /\ UNCHANGED <<text, loading, next, number, stmts, building, calls, set, freed>>
  BY DEF Freed, freeing
<1>2. stmt = NULL /\ set \subseteq Stmts /\ freed \subseteq set
  BY <1>1 DEF Inv, Pointers, TypeOK
<1>3. Pointers' /\ LinesRead' /\ LinkedSoFar'
  <2>1. set' \subseteq Stmts /\ freed' \subseteq set'
    BY <1>1, <1>2
  <2> QED BY <1>1, <1>2, <2>1, FreeingKeeps DEF InUse
<1>4. FreedSoFar'
  BY <1>1 DEF Inv, FreedSoFar
<1> QED BY <1>3, <1>4 DEF Inv

(* Every step keeps the invariant.                                         *)
LEMMA InvNext == Inv /\ [Next]_vars => Inv'
<1> SUFFICES ASSUME Inv, [Next]_vars PROVE Inv'
  OBVIOUS
<1>1. CASE line_add
  BY <1>1, LineAddStep
<1>2. CASE StartBuild
  BY <1>2, StartBuildStep
<1>3. CASE build_statements
  BY <1>3, BuildStep
<1>4. CASE statement_free
  BY <1>4, StartFreeStep
<1>5. CASE Visit
  BY <1>5, VisitStep
<1>6. CASE FreeSub
  BY <1>6, FreeSubStep
<1>7. CASE FreeStatement
  BY <1>7, FreeStatementStep
<1>8. CASE Freed
  BY <1>8, FreedStep
<1>9. CASE UNCHANGED vars
  <2>1. UNCHANGED <<text, phase, read, lines, line_map, next, number, stmts, line, stmt,
                    tail, calls, set, freed>>
    BY <1>9 DEF vars
  <2> QED BY <2>1, SameInv
<1> QED BY <1>1, <1>2, <1>3, <1>4, <1>5, <1>6, <1>7, <1>8, <1>9 DEF Next


-----------------------------------------------------------------------------
(* The theorems.                                                           *)

(* The invariant of reading, building and freeing a program (program.c,    *)
(* line.c, statements.c), on which the theorems below rest.                *)
THEOREM Invariant == Spec => []Inv
BY InvInit, InvNext, PTL DEF Spec

(* Pointers are null or statements of the program, what is freed has been  *)
(* visited, and a line is one of those read (line_add, build_statements,   *)
(* free_internal).                                                         *)
THEOREM ProgramsAreWellTyped == Spec => []TypeOK
<1>1. Inv => TypeOK
  BY DEF Inv, Pointers
<1> QED BY <1>1, Invariant, PTL

(* The line of the text a statement is in, and the one below it.           *)
LEMMA LineOfIs ==
  ASSUME Settled, NEW s \in Tops
  PROVE  LineOf(s) \in Read /\ lines[LineAt(s)] = LineRecord(LineOf(s))
<1>1. PICK l \in Read : /\ s \in Elements(l.stmts) /\ l.stmts = ListOf(s)
                        /\ lines[LineAt(s)] = LineRecord(l)
  BY LineAtIs
<1>2. LineOf(s) \in Read /\ s \in Elements(LineOf(s).stmts)
  BY <1>1 DEF LineOf
<1>3. PICK m : m = LineOf(s)
  OBVIOUS
<1>4. m \in Read /\ s \in Elements(m.stmts)
  BY <1>2, <1>3
<1>5. l.stmts \in Lists(text) /\ m.stmts \in Lists(text)
  BY <1>4, ReadIs
<1>6. l.stmts = m.stmts
  BY <1>1, <1>4, <1>5, OnePlace DEF Elements, Settled
<1>7. l = m
  BY <1>4, <1>6, ReadIs
<1> QED BY <1>1, <1>3, <1>7

(* After the last statement of a line comes the first of the next line.    *)
LEMMA TopAfter ==
  ASSUME Settled, NEW s \in Tops, IsLast(s)
  PROVE  TopNext(s) = IF Lower(LineOf(s)) = {} THEN NULL ELSE First(LineBelow(LineOf(s)).stmts)
<1>1. PICK l : l = LineOf(s)
  OBVIOUS
<1>2. PICK i : i = LineAt(s)
  OBVIOUS
<1>3. l \in Read /\ lines[i] = LineRecord(l) /\ i \in 1..Len(lines) /\ Len(lines) \in Nat
      /\ DOMAIN lines = 1..Len(lines)
  BY <1>1, <1>2, LineOfIs, TopTypes DEF Settled, LinesRead
<1>4. \A m \in Read : m.number \in Int
  BY ReadIs, TextsAre
<1>5. ASSUME NEW m \in Lower(l)
      PROVE  \E j \in DOMAIN lines : i < j /\ lines[j].number = m.number
  <2>1. m \in Read /\ m.number > l.number
    BY DEF Lower
  <2>2. PICK j \in DOMAIN lines : lines[j] = LineRecord(m)
    BY <2>1, TopListsDiffer
  <2>3. lines[j].number = m.number /\ lines[i].number = l.number
    BY <1>3, <2>2 DEF LineRecord
  <2>4. m.number \in Int /\ l.number \in Int
    BY <1>3, <1>4, <2>1
  <2>5. i # j
    BY <2>1, <2>3, <2>4
  <2>6. ~(j < i)
    <3>1. j < i => lines[j].number < lines[i].number
      BY <1>3 DEF Settled, LinesRead, Sorted
    <3> QED BY <2>1, <2>3, <2>4, <3>1
  <2> QED BY <1>3, <2>3, <2>5, <2>6
<1>6. CASE i < Len(lines)
  <2>1. i + 1 \in DOMAIN lines
    BY <1>3, <1>6
  <2>2. PICK m \in Read : lines[i + 1] = LineRecord(m)
    BY <2>1, TopListIs
  <2>3. lines[i + 1].number = m.number /\ lines[i].number = l.number
        /\ lines[i + 1].stmt = First(m.stmts)
    BY <1>3, <2>2 DEF LineRecord
  <2>4. m \in Lower(l)
    <3>1. lines[i].number < lines[i + 1].number
      <4>1. i < i + 1 /\ i \in DOMAIN lines
        BY <1>3
      <4> QED BY <2>1, <4>1 DEF Settled, LinesRead, Sorted
    <3> QED BY <1>3, <1>4, <2>3, <3>1 DEF Lower
  <2>5. ASSUME NEW k \in Lower(l) PROVE m.number <= k.number
    <3>1. PICK j \in DOMAIN lines : i < j /\ lines[j].number = k.number
      BY <1>5
    <3>2. j = i + 1 \/ i + 1 < j
      BY <1>3, <3>1
    <3>3. i + 1 < j => lines[i + 1].number < lines[j].number
      BY <2>1 DEF Settled, LinesRead, Sorted
    <3>4. k.number \in Int /\ m.number \in Int
      BY <1>4 DEF Lower
    <3> QED BY <2>3, <3>1, <3>2, <3>3, <3>4
  <2>6. PICK b : b = LineBelow(l)
    OBVIOUS
  <2>7. b \in Lower(l) /\ \A k \in Lower(l) : b.number <= k.number
    BY <2>4, <2>5, <2>6 DEF LineBelow
  <2>8. b.number = m.number /\ b \in Read
    <3>1. b.number <= m.number /\ m.number <= b.number
      BY <2>4, <2>5, <2>7
    <3>2. b \in Read /\ b.number \in Int /\ m.number \in Int
      BY <1>4, <2>7 DEF Lower
    <3> QED BY <3>1, <3>2
  <2>9. b = m
    BY <2>8 DEF Settled, LinesRead, NumbersOnce
  <2>10. TopNext(s) = lines[i + 1].stmt
    BY <1>2, <1>6 DEF TopNext
  <2> QED BY <1>1, <2>3, <2>4, <2>6, <2>9, <2>10
<1>7. CASE ~(i < Len(lines))
  <2>1. Lower(l) = {}
    <3>1. ASSUME NEW m \in Lower(l) PROVE FALSE
      <4>1. PICK j \in DOMAIN lines : i < j
        BY <1>5
      <4> QED BY <1>3, <1>7, <4>1
    <3> QED BY <3>1
  <2>2. TopNext(s) = NULL
    BY <1>2, <1>7 DEF TopNext
  <2> QED BY <1>1, <2>1, <2>2
<1> QED BY <1>6, <1>7

(* What comes after a statement in the text, and its number, unfold: that  *)
(* the text has an end is not needed for it.                               *)
LEMMA FollowingIs ==
  ASSUME Settled, NEW s \in Stmts
  PROVE  Following[s] = IF ~IsLast(s) THEN ListOf(s)[PlaceOf(s) + 1]
                        ELSE IF ~TopLevel(s) THEN Following[Parent(s)]
                        ELSE IF Lower(LineOf(s)) = {} THEN NULL
                        ELSE First(LineBelow(LineOf(s)).stmts)
<1> DEFINE Stop == {x \in Stmts : ~IsLast(x) \/ TopLevel(x)}
           base == [x \in Stmts |-> IF ~IsLast(x) THEN ListOf(x)[PlaceOf(x) + 1]
                                    ELSE IF Lower(LineOf(x)) = {} THEN NULL
                                    ELSE First(LineBelow(LineOf(x)).stmts)]
           up == [x \in Stmts |-> Parent(x)]
<1>1. \A x \in Stmts \ Stop : up[x] \in Stmts
  BY ParentIs DEF Tops
<1>2. PICK f : GoesOn(f, Stmts, Stop, base, up)
  <2> HIDE DEF Stop, base, up
  <2> QED BY <1>1, TailRecursionExists
<1>3. f = [x \in Stmts |-> IF x \in Stop THEN base[x] ELSE f[up[x]]]
  BY <1>2 DEF GoesOn
<1>4. f = [x \in Stmts |->
             IF ~IsLast(x) THEN ListOf(x)[PlaceOf(x) + 1]
             ELSE IF ~TopLevel(x) THEN f[Parent(x)]
             ELSE IF Lower(LineOf(x)) = {} THEN NULL
             ELSE First(LineBelow(LineOf(x)).stmts)]
  BY <1>3
<1>5. \E after : after =
        [x \in Stmts |->
           IF ~IsLast(x) THEN ListOf(x)[PlaceOf(x) + 1]
           ELSE IF ~TopLevel(x) THEN after[Parent(x)]
           ELSE IF Lower(LineOf(x)) = {} THEN NULL
           ELSE First(LineBelow(LineOf(x)).stmts)]
  BY <1>4
<1>6. Following =
        [x \in Stmts |->
           IF ~IsLast(x) THEN ListOf(x)[PlaceOf(x) + 1]
           ELSE IF ~TopLevel(x) THEN Following[Parent(x)]
           ELSE IF Lower(LineOf(x)) = {} THEN NULL
           ELSE First(LineBelow(LineOf(x)).stmts)]
  BY <1>5, Zenon DEF Following
<1> QED BY <1>6

(* The line number of a statement is that of its parent, or of its line.   *)
LEMMA NumberOfIs ==
  ASSUME Settled, NEW s \in Stmts
  PROVE  NumberOf[s] = IF TopLevel(s) THEN LineOf(s).number ELSE NumberOf[Parent(s)]
<1> DEFINE base == [x \in Stmts |-> LineOf(x).number]
           up == [x \in Stmts |-> Parent(x)]
<1>1. \A x \in Stmts \ Tops : up[x] \in Stmts
  BY ParentIs
<1>2. PICK f : GoesOn(f, Stmts, Tops, base, up)
  <2> HIDE DEF base, up
  <2> QED BY <1>1, TailRecursionExists
<1>3. f = [x \in Stmts |-> IF x \in Tops THEN base[x] ELSE f[up[x]]]
  BY <1>2 DEF GoesOn
<1>4. f = [x \in Stmts |-> IF TopLevel(x) THEN LineOf(x).number ELSE f[Parent(x)]]
  BY <1>3 DEF Tops
<1>5. \E of : of = [x \in Stmts |-> IF TopLevel(x) THEN LineOf(x).number ELSE of[Parent(x)]]
  BY <1>4
<1>6. NumberOf = [x \in Stmts |-> IF TopLevel(x) THEN LineOf(x).number
                                  ELSE NumberOf[Parent(x)]]
  BY <1>5, Zenon DEF NumberOf
<1> QED BY <1>6

-----------------------------------------------------------------------------
(* The lines and their numbers.                                            *)

(* The line map leads to the first statement of a line that was read.      *)
LEMMA LineMapFinds ==
  ASSUME NumbersOnce(Read), Maps(line_map, Read), NEW n \in DOMAIN Hash
  PROVE  line_map_find(n) = IF \E l \in Read : l.number = n
                            THEN First((CHOOSE l \in Read : l.number = n).stmts)
                            ELSE NULL
<1> DEFINE chain == line_map[Hash[n]]
<1>1. Hash[n] \in Buckets
  BY TextsAre
<1>2. \A i \in DOMAIN chain : \E l \in Read : chain[i] = MapEntry(l)
  BY <1>1 DEF Maps
<1>3. \A i \in DOMAIN chain : \E l \in Read : chain[i].line = l.number /\ chain[i].at = First(l.stmts)
  <2> HIDE DEF chain
  <2>1. ASSUME NEW i \in DOMAIN chain
        PROVE  \E l \in Read : chain[i].line = l.number /\ chain[i].at = First(l.stmts)
    <3>1. PICK l \in Read : chain[i] = MapEntry(l)
      BY <1>2
    <3>2. chain[i].line = l.number /\ chain[i].at = First(l.stmts)
      BY <3>1 DEF MapEntry
    <3> QED BY <3>2
  <2> QED BY <2>1
<1>4. CASE \E l \in Read : l.number = n
  <2>1. PICK l \in Read : l.number = n
    BY <1>4
  <2>2. InMap(n, line_map)
    BY <2>1 DEF Maps
  <2>3. \E i \in DOMAIN chain : chain[i].line = n
    BY <2>2 DEF InMap
  <2> DEFINE i == CHOOSE j \in DOMAIN chain : chain[j].line = n
  <2>4. i \in DOMAIN chain /\ chain[i].line = n
    <3> HIDE DEF chain
    <3> QED BY <2>3
  <2>5. line_map_find(n) = chain[i].at
    BY <2>2 DEF line_map_find, MapFind
  <2> HIDE DEF i, chain
  <2>6. PICK m \in Read : chain[i].line = m.number /\ chain[i].at = First(m.stmts)
    BY <1>3, <2>4
  <2>7. (CHOOSE k \in Read : k.number = n) = m
    <3> DEFINE k == CHOOSE k \in Read : k.number = n
    <3>1. k \in Read /\ k.number = n
      BY <2>1
    <3> HIDE DEF k
    <3>2. k = m
      BY <2>4, <2>6, <3>1 DEF NumbersOnce
    <3> QED BY <3>2 DEF k
  <2> QED BY <1>4, <2>5, <2>6, <2>7
<1>5. CASE ~\E l \in Read : l.number = n
  <2>1. ~InMap(n, line_map)
    BY <1>3, <1>5 DEF InMap
  <2> QED BY <1>5, <2>1 DEF line_map_find
<1> QED BY <1>4, <1>5

(* Once the program is built, every statement at the top level is passed.  *)
LEMMA BuiltIs ==
  ASSUME Inv, Built
  PROVE  Settled /\ Progress /\ Links /\ NumbersKept /\ stmt = NULL /\ Passed = Tops
<1>1. InUse /\ stmt = NULL
  BY DEF Built, Inv, Pointers, InUse
<1> QED BY <1>1, InvSettled DEF Passed

(* Whatever order the lines of a program come in, they are kept in the     *)
(* order of their numbers, each once, the line map leads to the first      *)
(* statement of each, and every statement of a program that is built, how- *)
(* ever deep, has the number of its line (line_add, line_map_find,         *)
(* update_line_numbers).                                                   *)
THEOREM LinesComeInOrder == Spec => []LinesAreNumbered
<1>1. ASSUME Inv PROVE LinesAreNumbered
  <2>1. ASSUME phase # "rejected"
        PROVE  /\ \A i \in 1..(Len(lines) - 1) : lines[i].number < lines[i + 1].number
               /\ Elements(lines)
                    = {[number |-> l.number, stmt |-> First(l.stmts)] : l \in Read}
               /\ \A n \in DOMAIN Hash :
                    line_map_find(n) = IF \E l \in Read : l.number = n
                                       THEN First((CHOOSE l \in Read : l.number = n).stmts)
                                       ELSE NULL
    <3>1. /\ Sorted(lines) /\ Elements(lines) = {LineRecord(l) : l \in Read}
          /\ NumbersOnce(Read) /\ Maps(line_map, Read) /\ lines \in Seq(LineSet)
      BY <1>1, <2>1 DEF Inv, LinesRead
    <3>2. ASSUME NEW i \in 1..(Len(lines) - 1) PROVE lines[i].number < lines[i + 1].number
      <4>1. DOMAIN lines = 1..Len(lines) /\ Len(lines) \in Nat
        BY <3>1
      <4>2. i \in DOMAIN lines /\ i + 1 \in DOMAIN lines /\ i < i + 1
        BY <4>1
      <4> QED BY <3>1, <4>2 DEF Sorted
    <3>3. Elements(lines) = {[number |-> l.number, stmt |-> First(l.stmts)] : l \in Read}
      BY <3>1, Zenon DEF LineRecord
    <3> QED BY <3>1, <3>2, <3>3, LineMapFinds
  <2>2. ASSUME Built PROVE \A s \in Stmts : number[s] = NumberOf[s]
    <3>1. Settled /\ NumbersKept /\ Passed = Tops
      BY <1>1, <2>2, BuiltIs
    <3> DEFINE X == {s \in Stmts : number[s] # NumberOf[s]}
    <3>2. SUFFICES ASSUME X # {} PROVE FALSE
      OBVIOUS
    <3>3. \E s \in X : \A r \in X : ~Contains(text, r, s)
      <4>1. X \in (SUBSET DOMAIN text.type) \ {{}}
        BY <3>2 DEF Stmts
      <4> HIDE DEF X
      <4> QED BY <3>1, <4>1 DEF Settled, IsProgram, Grounded
    <3>4. PICK s \in X : \A r \in X : ~Contains(text, r, s)
      BY <3>3
    <3>5. s \in Stmts /\ number[s] # NumberOf[s]
      OBVIOUS
    <3>6. CASE s \in Tops
      <4>1. number[s] = lines[LineAt(s)].number
        BY <3>1, <3>6 DEF NumbersKept
      <4>2. lines[LineAt(s)].number = LineOf(s).number
        <5>1. PICK l : l = LineOf(s)
          OBVIOUS
        <5>2. lines[LineAt(s)] = LineRecord(l)
          BY <3>1, <3>6, <5>1, LineOfIs
        <5>3. lines[LineAt(s)].number = l.number
          BY <5>2 DEF LineRecord
        <5> QED BY <5>1, <5>3
      <4>3. NumberOf[s] = LineOf(s).number
        BY <3>1, <3>5, <3>6, NumberOfIs DEF Tops
      <4> QED BY <3>5, <4>1, <4>2, <4>3
    <3>7. CASE s \notin Tops
      <4>1. number[s] = number[Parent(s)]
        BY <3>1, <3>5, <3>7 DEF NumbersKept
      <4>2. NumberOf[s] = NumberOf[Parent(s)]
        BY <3>1, <3>5, <3>7, NumberOfIs DEF Tops
      <4>3. Parent(s) \in Stmts /\ Contains(text, Parent(s), s)
        BY <3>1, <3>5, <3>7, ParentIs DEF Contains
      <4>4. Parent(s) \in X
        BY <3>5, <4>1, <4>2, <4>3
      <4> HIDE DEF X
      <4> QED BY <3>4, <4>3, <4>4
    <3> QED BY <3>6, <3>7
  <2> QED BY <2>1, <2>2 DEF LinesAreNumbered
<1> QED BY <1>1, Invariant, PTL

-----------------------------------------------------------------------------
(* The links.                                                              *)

(* Once built, the statements at the top level are linked one to the next. *)
LEMMA TopLinks ==
  ASSUME Settled, Links, Passed = Tops, NEW s \in Tops
  PROVE  next[s] = TopNext(s)
<1>1. s \in Stmts
  BY DEF Tops
<1>2. next[s] = Link(s, Tops, Tops)
  BY <1>1 DEF Links
<1>3. TopNext(s) \notin Tops => TopNext(s) = NULL
  BY TopNextIs
<1>4. ~IsLast(s) => TopNext(s) = ListOf(s)[PlaceOf(s) + 1]
  BY DEF TopNext
<1> QED BY <1>2, <1>3, <1>4 DEF Link

(* What follows a statement at the top level is the next one of the text.  *)
LEMMA TopFollows ==
  ASSUME Settled, NEW s \in Tops
  PROVE  Following[s] = TopNext(s)
<1>1. s \in Stmts /\ TopLevel(s)
  BY DEF Tops
<1>2. CASE ~IsLast(s)
  BY <1>1, <1>2, FollowingIs DEF TopNext
<1>3. CASE IsLast(s)
  BY <1>1, <1>3, FollowingIs, TopAfter
<1> QED BY <1>2, <1>3

(* After each statement of a program that is built comes the one that      *)
(* follows it in the text, however its lists and lines end, but for one    *)
(* kind: the last statement of a list within a list of sub-statements      *)
(* leads nowhere, and the program ends after it (build_statements,         *)
(* statement_fixup).                                                       *)
THEOREM LinksAreTheText == Spec => []LinksFollowTheText
<1>1. ASSUME Inv, Built, NEW s \in Stmts
      PROVE  next[s] = IF Nested(s) /\ IsLast(s) THEN NULL ELSE Following[s]
  <2>1. Settled /\ Links /\ Passed = Tops
    BY <1>1, BuiltIs
  <2>2. next[s] = Link(s, Tops, Tops)
    BY <2>1 DEF Links
  <2>3. TopLevel(s) <=> s \in Tops
    BY DEF Tops
  <2>4. CASE ~IsLast(s)
    BY <2>1, <2>2, <2>4, FollowingIs DEF Link
  <2>5. CASE s \in Tops
    BY <2>1, <2>3, <2>5, TopLinks, TopFollows DEF Nested
  <2>6. CASE IsLast(s) /\ s \notin Tops
    <3>1. next[s] = IF Parent(s) \in Tops THEN TopNext(Parent(s)) ELSE NULL
      BY <2>2, <2>6 DEF Link
    <3>2. Parent(s) \in Stmts
      BY <2>1, <2>6, ParentIs
    <3>3. TopLevel(Parent(s)) <=> Parent(s) \in Tops
      BY <3>2 DEF Tops
    <3>4. Following[s] = Following[Parent(s)]
      BY <2>1, <2>3, <2>6, FollowingIs
    <3>5. Parent(s) \in Tops => Following[Parent(s)] = TopNext(Parent(s))
      BY <2>1, TopFollows
    <3> QED BY <2>3, <2>6, <3>1, <3>3, <3>4, <3>5 DEF Nested
  <2> QED BY <2>4, <2>5, <2>6
<1>2. Inv => LinksFollowTheText
  BY <1>1 DEF LinksFollowTheText
<1> QED BY <1>2, Invariant, PTL

-----------------------------------------------------------------------------
(* All is freed.                                                           *)

(* Each statement of a line but the first is the next one of another.      *)
LEMMA TopBefore ==
  ASSUME Settled, NEW s \in Tops, lines = <<>> \/ s # lines[1].stmt
  PROVE  \E t \in Tops : TopNext(t) = s /\ Comes(t, s)
<1> DEFINE U == {t \in Tops : Comes(t, s)}
<1>1. lines # <<>> /\ s # lines[1].stmt
  BY FirstTop
<1>2. PICK f : f = lines[1].stmt
  OBVIOUS
<1>3. f \in Tops /\ ~Comes(s, f)
  BY <1>1, <1>2, FirstTop
<1>4. f \in U
  BY <1>1, <1>2, <1>3, OrderIsTotal
<1>5. PICK t \in U : \A u \in U : ~Comes(t, u)
  <2>1. U \subseteq Tops /\ U # {}
    BY <1>4
  <2> HIDE DEF U
  <2> QED BY <2>1, FirstAndLast
<1>6. t \in Tops /\ Comes(t, s) /\ ~Comes(s, t) /\ s # t
  BY OrderIsTotal
<1>7. TopNext(t) # NULL
  BY <1>6, TopNextIs
<1>8. PICK n : n = TopNext(t)
  OBVIOUS
<1>9. n \in Tops /\ Comes(t, n) /\ ~Comes(s, n)
  BY <1>6, <1>7, <1>8, TopNextIs
<1>10. ~Comes(n, s)
  BY <1>5, <1>9
<1>11. n = s
  BY <1>9, <1>10, OrderIsTotal
<1> QED BY <1>6, <1>8, <1>11

(* A set of statements with the first of the program, and with each the    *)
(* next one and the first of its lists, has them all.                      *)
LEMMA AllReached ==
  ASSUME Settled, Links, Passed = Tops, NEW R,
         lines # <<>> => lines[1].stmt \in R,
         \A s \in R \cap Stmts : /\ next[s] \in R \cup {NULL}
                                 /\ \A k \in DOMAIN text.subs[s] : First(text.subs[s][k]) \in R
  PROVE  Stmts \subseteq R
<1>1. Tops \subseteq R
  <2> DEFINE Y == Tops \ R
  <2>1. SUFFICES ASSUME Y # {} PROVE FALSE
    OBVIOUS
  <2>2. PICK s \in Y : \A t \in Y : ~Comes(t, s)
    <3>1. Y \subseteq Tops
      OBVIOUS
    <3> HIDE DEF Y
    <3> QED BY <2>1, <3>1, FirstAndLast
  <2>3. s \in Tops /\ s \notin R
    OBVIOUS
  <2>4. PICK t \in Tops : TopNext(t) = s /\ Comes(t, s)
    <3>1. lines = <<>> \/ s # lines[1].stmt
      BY <2>3
    <3> QED BY <2>3, <3>1, TopBefore
  <2>5. t \in R /\ t \in Stmts
    BY <2>2, <2>4 DEF Tops
  <2>6. next[t] = s /\ s # NULL
    BY <2>3, <2>4, TopLinks, TopTypes
  <2> QED BY <2>3, <2>5, <2>6
<1> DEFINE X == Stmts \ R
<1>2. SUFFICES ASSUME X # {} PROVE FALSE
  OBVIOUS
<1>3. PICK s \in X : \A r \in X : ~Contains(text, r, s)
  <2>1. X \in (SUBSET DOMAIN text.type) \ {{}}
    BY <1>2 DEF Stmts
  <2> HIDE DEF X
  <2> QED BY <2>1 DEF Settled, IsProgram, Grounded
<1>4. s \in Stmts /\ s \notin R /\ s \notin Tops
  BY <1>1
<1>5. PICK p \in Stmts : /\ \E k \in DOMAIN text.subs[p] : text.subs[p][k] = ListOf(s)
                         /\ Contains(text, p, s)
  <2>1. Parent(s) \in Stmts
    BY <1>4, ParentIs
  <2>2. PICK k \in DOMAIN text.subs[Parent(s)] :
          text.subs[Parent(s)][k] = ListOf(s) /\ s \in Elements(ListOf(s))
    BY <1>4, ParentIs
  <2>3. Contains(text, Parent(s), s)
    BY <2>2 DEF Contains
  <2> QED BY <2>1, <2>2, <2>3
<1>6. p \in R
  BY <1>3, <1>5
<1>7. PICK l : l = ListOf(s)
  OBVIOUS
<1>8. /\ l \in Lists(text) /\ PlaceOf(s) \in DOMAIN l /\ l[PlaceOf(s)] = s
  BY <1>4, <1>7, ListOfIs DEF Settled
<1>9. Len(l) \in Nat /\ DOMAIN l = 1..Len(l) /\ First(l) = l[1]
  BY <1>8, ListTypes DEF Settled
<1>10. l[1] \in R
  BY <1>5, <1>6, <1>7, <1>9
<1> DEFINE T == {i \in DOMAIN l : l[i] \notin R}
<1>11. T \subseteq Nat /\ T # {}
  BY <1>4, <1>8, <1>9
<1>12. PICK x \in T : \A y \in T : x <= y
  <2> HIDE DEF T
  <2> QED BY <1>11, LeastOfNaturals
<1>13. x \in DOMAIN l /\ x # 1 /\ l[x] \notin R
  BY <1>10
<1>14. x - 1 \in DOMAIN l /\ ~(x <= x - 1) /\ (x - 1) + 1 = x /\ x - 1 # Len(l)
  BY <1>9, <1>13
<1>15. l[x - 1] \in R
  BY <1>12, <1>14
<1>16. PICK b : b = l[x - 1]
  OBVIOUS
<1>17. b \in Stmts /\ ListOf(b) = l /\ PlaceOf(b) = x - 1
  BY <1>8, <1>14, <1>16, PlaceIs DEF Settled
<1>18. ~IsLast(b)
  BY <1>14, <1>17 DEF IsLast
<1>19. next[b] = l[x]
  BY <1>14, <1>17, <1>18 DEF Links, Link
<1>20. l[x] # NULL
  BY <1>8, <1>13, ListTypes DEF Settled, IsProgram, IsText
<1> QED BY <1>13, <1>15, <1>16, <1>17, <1>19, <1>20

(* No statement is visited after it was freed or freed twice though lists  *)
(* share their ends, and in the end all are freed (free_internal).         *)
THEOREM AllIsFreedOnce == Spec => []FreedOnce
<1>1. ASSUME Inv PROVE FreedOnce
  <2>1. Frees(calls, set, freed, text, next)
    BY <1>1 DEF Inv, FreedSoFar
  <2>2. \A c \in Elements(calls) : c.sub # 0 => c.stmt \notin freed
    BY <2>1 DEF Frees, Visits, Elements
  <2>3. ASSUME phase = "done" PROVE freed = Stmts
    <3>1. Settled /\ Progress /\ Links /\ Passed = Tops /\ stmt = NULL
      BY <1>1, <2>3, BuiltIs DEF Built
    <3>2. freed \subseteq set /\ set \subseteq Stmts
      BY <1>1 DEF Inv, Pointers, TypeOK
    <3>3. calls = <<>> /\ Reached(stmts, calls, set)
      BY <1>1, <2>3 DEF Inv, FreedSoFar
    <3>4. DOMAIN calls = {}
      BY <3>3
    <3>5. set = freed
      BY <2>1, <3>2, <3>4 DEF Frees
    <3>6. \A x : Reached(x, calls, set) => x \in freed \cup {NULL}
      BY <3>4, <3>5 DEF Reached
    <3>7. lines # <<>> => lines[1].stmt \in freed
      <4>1. ASSUME lines # <<>> PROVE lines[1].stmt \in freed
        <5>1. lines[1].stmt \in Tops
          BY <3>1, <4>1, FirstTop
        <5>2. stmts = lines[1].stmt
          BY <3>1, <5>1 DEF Progress
        <5>3. stmts # NULL
          BY <3>1, <5>1, <5>2, TopTypes
        <5> QED BY <3>3, <3>6, <5>2, <5>3
      <4> QED BY <4>1
    <3>8. ASSUME NEW s \in freed \cap Stmts
          PROVE  /\ next[s] \in freed \cup {NULL}
                 /\ \A k \in DOMAIN text.subs[s] : First(text.subs[s][k]) \in freed
      <4>1. LeadsOn(s, calls, set, text, next)
        BY <2>1 DEF Frees
      <4>2. next[s] \in freed \cup {NULL}
        BY <3>6, <4>1 DEF LeadsOn
      <4>3. ASSUME NEW k \in DOMAIN text.subs[s] PROVE First(text.subs[s][k]) \in freed
        <5>1. First(text.subs[s][k]) \in freed \cup {NULL}
          BY <3>6, <4>1 DEF LeadsOn
        <5>2. First(text.subs[s][k]) \in Stmts
          BY <3>1, SubTypes DEF Settled, Stmts
        <5>3. NULL \notin Stmts
          BY <3>1 DEF Settled, IsProgram, IsText, Stmts
        <5> QED BY <5>1, <5>2, <5>3
      <4> QED BY <4>2, <4>3
    <3>9. Stmts \subseteq freed
      BY <3>1, <3>7, <3>8, AllReached
    <3> QED BY <3>2, <3>9
  <2> QED BY <2>2, <2>3 DEF FreedOnce
<1> QED BY <1>1, Invariant, PTL

-----------------------------------------------------------------------------
(* The DATA.                                                               *)

(* Nothing follows DATA on its line.                                       *)
LEMMA DataIsLast == \A t \in Texts : DataEndsLine(t)
BY TextsAssumption

DataSettled == Settled /\ DataEndsLine(text)

(* A line has one DATA at most, which comes last.                          *)
LEMMA DataIs ==
  ASSUME DataSettled, NEW l \in Read, NEW d \in DataOf(l)
  PROVE  /\ d \in Tops /\ LineOf(d) = l /\ text.type[d] = "DATA"
         /\ DataOf(l) = {d} /\ ItemsOf(l) = text.items[d]
         /\ text.items[d] \in Seq(Elements(text.items[d]))
         /\ LineAt(d) \in DOMAIN lines /\ lines[LineAt(d)] = LineRecord(l)
<1>1. l.stmts \in Lists(text) /\ d \in Elements(l.stmts) /\ text.type[d] = "DATA"
  BY ReadIs DEF DataSettled, DataOf
<1>2. d \in Stmts
  BY <1>1, ListTypes DEF DataSettled, Settled, Elements, Stmts
<1>3. d \in Tops
  BY <1>1, <1>2 DEF Tops, TopLevel
<1>4. LineOf(d) = l
  <2>1. PICK m : m = LineOf(d)
    OBVIOUS
  <2>2. m \in Read /\ d \in Elements(m.stmts)
    BY <1>1, <2>1 DEF LineOf
  <2>3. m.stmts \in Lists(text)
    BY <2>2, ReadIs DEF DataSettled
  <2>4. m.stmts = l.stmts
    BY <1>1, <2>2, <2>3, OnePlace DEF Elements, DataSettled, Settled
  <2> QED BY <2>1, <2>2, <2>4, ReadIs DEF DataSettled
<1>5. DataOf(l) = {d}
  <2>1. ASSUME NEW e \in DataOf(l) PROVE e = d
    <3>1. e \in Elements(l.stmts) /\ text.type[e] = "DATA"
      BY DEF DataOf
    <3>2. PICK p \in DOMAIN l.stmts : l.stmts[p] = d
      BY <1>1 DEF Elements
    <3>3. PICK q \in DOMAIN l.stmts : l.stmts[q] = e
      BY <3>1 DEF Elements
    <3> QED BY <1>1, <3>1, <3>2, <3>3 DEF DataSettled, DataEndsLine
  <2> QED BY <2>1
<1>6. ItemsOf(l) = text.items[d]
  BY <1>5 DEF ItemsOf
<1>7. text.items[d] \in Seq(Elements(text.items[d]))
  BY <1>2 DEF DataSettled, Settled, IsProgram, IsText, Stmts
<1>8. LineAt(d) \in DOMAIN lines /\ lines[LineAt(d)] = LineRecord(l)
  BY <1>3, <1>4, LineOfIs, LineAtIs DEF DataSettled
<1> QED BY <1>1, <1>3, <1>4, <1>5, <1>6, <1>7, <1>8

(* The DATA before a statement, that is a DATA, are those of lines before. *)
LEMMA DataBefore ==
  ASSUME DataSettled, NEW l \in Read, NEW d \in DataOf(l), NEW m \in Read, NEW e \in DataOf(m)
  PROVE  Comes(e, d) <=> m.number < l.number
<1>1. /\ LineAt(d) \in DOMAIN lines /\ lines[LineAt(d)].number = l.number
      /\ LineAt(e) \in DOMAIN lines /\ lines[LineAt(e)].number = m.number
  <2>1. LineAt(d) \in DOMAIN lines /\ lines[LineAt(d)] = LineRecord(l)
    BY DataIs
  <2>2. LineAt(e) \in DOMAIN lines /\ lines[LineAt(e)] = LineRecord(m)
    BY DataIs
  <2> QED BY <2>1, <2>2 DEF LineRecord
<1>2. LineAt(d) \in Int /\ LineAt(e) \in Int /\ l.number \in Int /\ m.number \in Int
  BY <1>1, ReadIs, TextsAre DEF DataSettled, Settled, LinesRead
<1>3. LineAt(e) < LineAt(d) => m.number < l.number
  BY <1>1 DEF DataSettled, Settled, LinesRead, Sorted
<1>4. LineAt(d) < LineAt(e) => l.number < m.number
  BY <1>1 DEF DataSettled, Settled, LinesRead, Sorted
<1>5. LineAt(e) = LineAt(d) => m = l /\ e = d
  <2> SUFFICES ASSUME LineAt(e) = LineAt(d) PROVE m = l /\ e = d
    OBVIOUS
  <2>1. m = l
    BY <1>1 DEF DataSettled, Settled, LinesRead, NumbersOnce
  <2> QED BY <2>1, DataIs
<1>6. d \in Tops /\ e \in Tops /\ Settled
  BY DataIs DEF DataSettled
<1>7. e = d => ~Comes(e, d)
  BY <1>6, OrderIsTotal
<1>8. LineAt(e) < LineAt(d) => Comes(e, d)
  BY DEF Comes
<1>9. Comes(e, d) => LineAt(e) < LineAt(d) \/ LineAt(e) = LineAt(d)
  BY DEF Comes
<1> QED BY <1>2, <1>3, <1>4, <1>5, <1>7, <1>8, <1>9

-----------------------------------------------------------------------------
(* How many items there are.                                               *)

(* A function on a finite set has finitely many values.                    *)
LEMMA RangeIsFinite ==
  ASSUME NEW S, IsFiniteSet(S), NEW f, DOMAIN f = S, f = [x \in S |-> f[x]]
  PROVE  IsFiniteSet({f[x] : x \in S})
<1> DEFINE T == {f[x] : x \in S}
<1>1. f \in Surjection(S, T)
  BY DEF Surjection
<1> QED BY <1>1, FS_Surjection

(* The lines read are finitely many,                                       *)
LEMMA ReadIsFinite ==
  ASSUME DataSettled
  PROVE  IsFiniteSet(Read)
<1>1. DOMAIN text.lines = 1..Len(text.lines) /\ Len(text.lines) \in Nat
      /\ text.lines = [i \in 1..Len(text.lines) |-> text.lines[i]]
  <2>1. PICK f, C : f = text.lines /\ f \in Seq(C)
    BY DEF DataSettled, Settled, IsProgram, IsText
  <2>2. DOMAIN f = 1..Len(f) /\ Len(f) \in Nat /\ f = [i \in 1..Len(f) |-> f[i]]
    BY <2>1
  <2> QED BY <2>1, <2>2
<1>2. IsFiniteSet(1..Len(text.lines))
  BY <1>1, FS_Interval
<1> DEFINE f == text.lines
           S == 1..Len(f)
<1>3. IsFiniteSet({f[x] : x \in S})
  <2> HIDE DEF f, S
  <2>1. DOMAIN f = S /\ f = [x \in S |-> f[x]] /\ IsFiniteSet(S)
    BY <1>1, <1>2 DEF f, S
  <2> QED BY <2>1, RangeIsFinite
<1> QED BY <1>3 DEF DataSettled, Settled, Read

(* The items of the lines read are finitely many.                          *)
LEMMA ItemsFinite ==
  ASSUME DataSettled, NEW ls \in SUBSET Read
  PROVE  IsFiniteSet(ItemPlaces(ls)) /\ CountItems(ls) \in Nat
<1> DEFINE D == {m \in ls : DataOf(m) # {}}
           f == [l \in D |-> {l} \X DOMAIN ItemsOf(l)]
<1>1. IsFiniteSet(D)
  BY ReadIsFinite, FS_Subset
<1>2. \A l \in D : IsFiniteSet(f[l])
  <2> SUFFICES ASSUME NEW l \in D PROVE IsFiniteSet({l} \X DOMAIN ItemsOf(l))
    OBVIOUS
  <2>1. PICK d : d \in DataOf(l)
    OBVIOUS
  <2>2. DOMAIN ItemsOf(l) = 1..Len(ItemsOf(l)) /\ Len(ItemsOf(l)) \in Nat
    BY <2>1, DataIs
  <2>3. IsFiniteSet(DOMAIN ItemsOf(l))
    BY <2>2, FS_Interval
  <2>4. IsFiniteSet({l})
    BY FS_Singleton
  <2> QED BY <2>3, <2>4, FS_Product
<1>3. IsFiniteSet({f[l] : l \in D})
  <2>1. DOMAIN f = D /\ f = [l \in D |-> f[l]]
    OBVIOUS
  <2> HIDE DEF f, D
  <2> QED BY <1>1, <2>1, RangeIsFinite
<1>4. IsFiniteSet(UNION {f[l] : l \in D})
  <2> HIDE DEF f, D
  <2> QED BY <1>2, <1>3, FS_UNION
<1>5. ItemPlaces(ls) = UNION {f[l] : l \in D}
  BY DEF ItemPlaces
<1> QED BY <1>4, <1>5, FS_CardinalityType DEF CountItems

(* A line more has its items more, and only lines with DATA count.         *)
LEMMA CountLine ==
  ASSUME DataSettled, NEW ls \in SUBSET Read, NEW l \in Read \ ls, NEW d \in DataOf(l)
  PROVE  CountItems(ls \cup {l}) = CountItems(ls) + Len(ItemsOf(l))
<1> DEFINE new == {l} \X DOMAIN ItemsOf(l)
<1>1. DOMAIN ItemsOf(l) = 1..Len(ItemsOf(l)) /\ Len(ItemsOf(l)) \in Nat
  BY DataIs
<1>2. IsFiniteSet(DOMAIN ItemsOf(l)) /\ Cardinality(DOMAIN ItemsOf(l)) = Len(ItemsOf(l))
  <2>1. PICK k \in Nat : k = Len(ItemsOf(l))
    BY <1>1
  <2>2. IsFiniteSet(1..k) /\ Cardinality(1..k) = IF 1 > k THEN 0 ELSE k - 1 + 1
    BY FS_Interval
  <2>3. Cardinality(1..k) = k
    BY <2>2
  <2> QED BY <1>1, <2>1, <2>2, <2>3
<1>3. IsFiniteSet({l}) /\ Cardinality({l}) = 1
  BY FS_Singleton
<1>4. IsFiniteSet(new) /\ Cardinality(new) = Len(ItemsOf(l))
  <2>1. PICK k \in Nat : k = Len(ItemsOf(l))
    BY <1>1
  <2>2. IsFiniteSet(new) /\ Cardinality(new) = Cardinality({l}) * Cardinality(DOMAIN ItemsOf(l))
    BY <1>2, <1>3, FS_Product
  <2>3. Cardinality(new) = 1 * k
    BY <1>2, <1>3, <2>1, <2>2
  <2> QED BY <2>1, <2>2, <2>3
<1>5. ItemPlaces(ls \cup {l}) = ItemPlaces(ls) \cup new
  <2>1. {m \in ls \cup {l} : DataOf(m) # {}} = {m \in ls : DataOf(m) # {}} \cup {l}
    OBVIOUS
  <2> QED BY <2>1 DEF ItemPlaces
<1>6. ItemPlaces(ls) \cap new = {}
  BY DEF ItemPlaces
<1> HIDE DEF new
<1>7. IsFiniteSet(ItemPlaces(ls)) /\ CountItems(ls) \in Nat
  BY ItemsFinite
<1>8. Cardinality(ItemPlaces(ls) \cup new)
        = Cardinality(ItemPlaces(ls)) + Cardinality(new) - Cardinality(ItemPlaces(ls) \cap new)
  BY <1>4, <1>7, FS_Union
<1>9. CountItems(ls \cup {l}) = CountItems(ls) + Len(ItemsOf(l)) - 0
  <2>1. Cardinality(ItemPlaces(ls) \cap new) = 0
    BY <1>6, FS_EmptySet
  <2> QED BY <1>4, <1>5, <1>8, <2>1 DEF CountItems
<1> QED BY <1>1, <1>7, <1>9

(* Only lines with DATA count.                                             *)
LEMMA CountWithData ==
  ASSUME NEW ks, NEW ls, \A l : DataOf(l) # {} => (l \in ks <=> l \in ls)
  PROVE  CountItems(ks) = CountItems(ls)
<1>1. {l \in ks : DataOf(l) # {}} = {l \in ls : DataOf(l) # {}}
  OBVIOUS
<1> QED BY <1>1 DEF CountItems, ItemPlaces

-----------------------------------------------------------------------------
(* What is collected of some lines T: their items in order, and an entry   *)
(* of the map for the first item of each.                                  *)

ItemSet == UNION {Elements(text.items[s]) : s \in Stmts}
DataEntry(l) == [line |-> l.number, at |-> CountItems(Before(l)) + 1]

HasItems(items, l) ==
  \A i \in DOMAIN ItemsOf(l) : /\ CountItems(Before(l)) + i \in DOMAIN items
                               /\ items[CountItems(Before(l)) + i] = ItemsOf(l)[i]

Collected(items, map, T) ==
  /\ items \in Seq(ItemSet) /\ Len(items) = CountItems(T)
  /\ map \in [Buckets -> Seq([line : DOMAIN Hash, at : Nat])]
  /\ \A b \in Buckets : \A i \in DOMAIN map[b] : map[b][i] \in {DataEntry(l) : l \in T}
  /\ \A l \in T : InMap(l.number, map) /\ HasItems(items, l)

(* The lines of which build_statements has been to the DATA.               *)
Taken == {l \in Read : DataOf(l) \cap Passed # {}}

DataKept == IF InUse THEN Collected(data_items, data_map, Taken)
            ELSE data_items = <<>> /\ data_map = [b \in Buckets |-> <<>>]

(* A line of the DATA map is one whose items were collected.               *)
LEMMA MappedLine ==
  ASSUME DataSettled, NEW items, NEW map, NEW T \in SUBSET Read, Collected(items, map, T),
         NEW l \in Read, NEW i \in DOMAIN map[Hash[l.number]],
         map[Hash[l.number]][i].line = l.number
  PROVE  l \in T /\ map[Hash[l.number]][i] = DataEntry(l)
<1>1. l.number \in DOMAIN Hash /\ Hash[l.number] \in Buckets
  BY ReadIs, TextsAre DEF DataSettled
<1>2. PICK m \in T : map[Hash[l.number]][i] = DataEntry(m)
  BY <1>1 DEF Collected
<1>3. m.number = l.number
  BY <1>2 DEF DataEntry
<1>4. m = l
  BY <1>3 DEF DataSettled, Settled, LinesRead, NumbersOnce
<1> QED BY <1>2, <1>4

(* The items of the next line are added behind the others.                 *)
LEMMA CollectLine ==
  ASSUME DataSettled, NEW items, NEW map, NEW T \in SUBSET Read, Collected(items, map, T),
         NEW l \in Read \ T, NEW d \in DataOf(l), CountItems(T) = CountItems(Before(l))
  PROVE  /\ ~InMap(l.number, map)
         /\ Collected(items \o ItemsOf(l), MapAdd(l.number, Len(items) + 1, map), T \cup {l})
<1> DEFINE new == MapAdd(l.number, Len(items) + 1, map)
           all == items \o ItemsOf(l)
           E == {DataEntry(m) : m \in T}
<1>1. ~InMap(l.number, map)
  BY MappedLine DEF InMap
<1>2. items \in Seq(ItemSet) /\ ItemsOf(l) \in Seq(ItemSet) /\ Len(items) = CountItems(T)
      /\ Len(items) \in Nat /\ Len(ItemsOf(l)) \in Nat
      /\ DOMAIN items = 1..Len(items) /\ DOMAIN ItemsOf(l) = 1..Len(ItemsOf(l))
  <2>1. items \in Seq(ItemSet) /\ Len(items) = CountItems(T)
    BY DEF Collected
  <2>2. ItemsOf(l) \in Seq(Elements(text.items[d])) /\ d \in Stmts
    BY DataIs, PassedTops
  <2>3. Elements(text.items[d]) \subseteq ItemSet
    BY <2>2 DEF ItemSet
  <2>4. ItemsOf(l) \in Seq(ItemSet)
    BY <2>2, <2>3, SeqMonotonic
  <2> QED BY <2>1, <2>4
<1>3. /\ all \in Seq(ItemSet) /\ Len(all) = Len(items) + Len(ItemsOf(l))
      /\ \A i \in 1..(Len(items) + Len(ItemsOf(l))) :
           all[i] = IF i <= Len(items) THEN items[i] ELSE ItemsOf(l)[i - Len(items)]
  BY <1>2, ConcatProperties
<1> HIDE DEF all
<1>4. DOMAIN all = 1..(Len(items) + Len(ItemsOf(l)))
  BY <1>3
<1>5. Len(all) = CountItems(T \cup {l})
  BY <1>2, <1>3, CountLine
<1>6. DataEntry(l) = [line |-> l.number, at |-> Len(items) + 1]
  BY <1>2 DEF DataEntry
<1>7. /\ new \in [Buckets -> Seq([line : DOMAIN Hash, at : Nat])]
      /\ \A b \in Buckets : \A i \in DOMAIN new[b] : new[b][i] \in E \cup {DataEntry(l)}
      /\ \A n \in DOMAIN Hash : InMap(n, map) \/ n = l.number => InMap(n, new)
  <2>1. l.number \in DOMAIN Hash /\ Len(items) + 1 \in Nat
    BY <1>2, ReadIs DEF DataSettled
  <2>2. /\ map \in [Buckets -> Seq([line : DOMAIN Hash, at : Nat])]
        /\ \A b \in Buckets : \A i \in DOMAIN map[b] : map[b][i] \in E
    BY DEF Collected
  <2>3. PICK n, x : n = l.number /\ x = Len(items) + 1
    OBVIOUS
  <2> DEFINE added == MapAdd(n, x, map)
  <2>4. /\ added \in [Buckets -> Seq([line : DOMAIN Hash, at : Nat])]
        /\ \A b \in Buckets : \A i \in DOMAIN added[b] :
             added[b][i] \in E \cup {[line |-> n, at |-> x]}
        /\ \A m \in DOMAIN Hash : InMap(m, map) \/ m = n => InMap(m, added)
    <3> HIDE DEF E
    <3>1. n \in DOMAIN Hash /\ x \in Nat
      BY <2>1, <2>3
    <3> QED BY <2>2, <3>1, MapAddIs
  <2>5. added = new /\ DataEntry(l) = [line |-> n, at |-> x]
    BY <1>6, <2>3
  <2> HIDE DEF E, added, new
  <2> QED BY <2>3, <2>4, <2>5
<1> HIDE DEF new
<1>8. \A b \in Buckets : \A i \in DOMAIN new[b] : new[b][i] \in {DataEntry(m) : m \in T \cup {l}}
  BY <1>7
<1>9. ASSUME NEW m \in T \cup {l} PROVE InMap(m.number, new)
  BY <1>7, <1>9, ReadIs DEF Collected, DataSettled
<1>10. ASSUME NEW m \in T PROVE HasItems(all, m)
  BY <1>2, <1>3, <1>4 DEF Collected, HasItems
<1>11. HasItems(all, l)
  <2> SUFFICES ASSUME NEW i \in 1..Len(ItemsOf(l))
               PROVE  Len(items) + i \in DOMAIN all /\ all[Len(items) + i] = ItemsOf(l)[i]
    BY <1>2 DEF HasItems
  <2> QED BY <1>2, <1>3, <1>4
<1> QED BY <1>1, <1>3, <1>5, <1>7, <1>8, <1>9, <1>10, <1>11 DEF Collected, new, all

(* What has been collected depends on the text and the lines read.         *)
LEMMA SameCollected ==
  ASSUME UNCHANGED <<text, read>>, NEW items, NEW map, NEW T, NEW l
  PROVE  /\ Read' = Read /\ DataOf(l)' = DataOf(l) /\ Before(l)' = Before(l)
         /\ ItemsOf(l)' = ItemsOf(l)
         /\ Collected(items, map, T)' <=> Collected(items, map, T)
<1>1. Read' = Read /\ Stmts' = Stmts
  BY DEF Read, Stmts
<1>2. ASSUME NEW m PROVE DataOf(m)' = DataOf(m) /\ ItemsOf(m)' = ItemsOf(m)
  BY DEF DataOf, ItemsOf
<1>3. ASSUME NEW ls PROVE CountItems(ls)' = CountItems(ls)
  BY <1>2 DEF CountItems, ItemPlaces
<1>4. ASSUME NEW m
      PROVE  /\ Before(m)' = Before(m) /\ DataEntry(m)' = DataEntry(m)
             /\ HasItems(items, m)' <=> HasItems(items, m)
  <2>1. PICK b : b = Before(m)
    OBVIOUS
  <2>2. Before(m)' = b
    BY <1>1, <2>1 DEF Before
  <2>3. CountItems(Before(m))' = CountItems(b)'
    BY <2>2 DEF CountItems, ItemPlaces
  <2>4. CountItems(Before(m))' = CountItems(Before(m))
    BY <1>3, <2>1, <2>3
  <2> QED BY <1>2, <2>1, <2>2, <2>4 DEF DataEntry, HasItems
<1>5. ItemSet' = ItemSet
  BY <1>1 DEF ItemSet, Elements
<1>6. InMap(l, map)' <=> InMap(l, map)
  BY DEF InMap
<1>7. Collected(items, map, T)' <=> Collected(items, map, T)
  BY <1>3, <1>4, <1>5 DEF Collected, InMap
<1> QED BY <1>1, <1>2, <1>4, <1>7

(* No item is collected at the start.                                      *)
LEMMA DataBegins == Init => DataKept
BY DEF Init, DataKept, InUse

(* While a program is in use, its DATA ends its lines.                     *)
LEMMA DataSettles ==
  ASSUME Inv, InUse
  PROVE  DataSettled
BY InvSettled, DataIsLast DEF Inv, Pointers, TypeOK, DataSettled

(* Steps that collect nothing.                                             *)
LEMMA SameData ==
  ASSUME UNCHANGED <<text, read, data_items, data_map>>, Taken' = Taken,
         Collected(data_items, data_map, Taken)
  PROVE  Collected(data_items, data_map, Taken)'
<1>1. PICK items, map, T : items = data_items /\ map = data_map /\ T = Taken
  OBVIOUS
<1>2. Collected(items, map, T)'
  BY <1>1, SameCollected
<1>3. items = data_items' /\ map = data_map' /\ T = Taken'
  BY <1>1
<1> QED BY <1>2, <1>3 DEF Collected, CountItems, ItemPlaces

(* The lines taken depend on the statements passed.                        *)
LEMMA SameTaken ==
  ASSUME UNCHANGED <<text, read>>, Passed' = Passed
  PROVE  Taken' = Taken
<1>1. Read' = Read /\ \A l : DataOf(l)' = DataOf(l)
  BY SameCollected
<1> QED BY <1>1 DEF Taken

(* The start of the build keeps the items collected.                       *)
LEMMA DataStart ==
  ASSUME Inv, DataKept, StartBuild
  PROVE  DataKept'
<1>1. /\ phase = "reading" /\ phase' = "building" /\ UNCHANGED <<text, read>>
      /\ UNCHANGED <<data_items, data_map>>
  BY DEF StartBuild, loading
<1>2. data_items = <<>> /\ data_map = [b \in Buckets |-> <<>>]
  BY <1>1 DEF DataKept, InUse
<1>3. Taken' = {}
  BY StartAt DEF Taken
<1>4. CountItems({}) = 0
  BY FS_EmptySet DEF CountItems, ItemPlaces
<1>5. Collected(<<>>, [b \in Buckets |-> <<>>], {})
  BY <1>4 DEF Collected
<1>6. Collected(<<>>, [b \in Buckets |-> <<>>], {})'
  BY <1>1, <1>5, SameCollected
<1>7. Collected(data_items, data_map, Taken)'
  <2>1. data_items' = <<>> /\ data_map' = [b \in Buckets |-> <<>>]
    BY <1>1, <1>2
  <2> QED BY <1>3, <1>6, <2>1 DEF Collected, CountItems, ItemPlaces
<1> QED BY <1>1, <1>7 DEF DataKept, InUse

(* A statement built adds its own items.                                   *)
LEMMA DataBuild ==
  ASSUME Inv, DataKept, build_statements
  PROVE  DataKept'
<1>1. /\ Building /\ DataSettled /\ InUse /\ UNCHANGED <<text, phase, read, lines>>
      /\ line = LineAt(stmt)
  <2>1. phase = "building"
    BY DEF build_statements
  <2> QED BY <2>1, BuildIs, DataSettles DEF InUse, loading, Building, Progress
<1>2. stmt \in Tops /\ stmt \in Stmts /\ Passed' = Passed \cup {stmt}
      /\ Passed = {s \in Tops : Comes(s, stmt)}
  BY <1>1, NotPassed, PassedTops, BuildPasses DEF Building, Passed
<1>3. Collected(data_items, data_map, Taken)
  BY <1>1 DEF DataKept
<1>4. Read' = Read /\ \A l : DataOf(l)' = DataOf(l)
  BY <1>1, SameCollected
<1>5. CASE text.type[stmt] # "DATA"
  <2>1. \A l \in Read : DataOf(l) \cap Passed' = DataOf(l) \cap Passed
    BY <1>2, <1>5 DEF DataOf
  <2>2. Taken' = Taken
    BY <1>4, <2>1 DEF Taken
  <2>3. UNCHANGED <<data_items, data_map>>
    BY <1>5 DEF build_statements
  <2> QED BY <1>1, <1>3, <2>2, <2>3, SameData DEF DataKept, InUse
<1>6. CASE text.type[stmt] = "DATA"
  <2>1. PICK l : l = LineOf(stmt)
    OBVIOUS
  <2>2. PICK d : d = stmt
    OBVIOUS
  <2>3. l \in Read /\ d \in DataOf(l)
    <3>1. \E m \in Read : stmt \in Elements(m.stmts)
      BY <1>2 DEF Tops, TopLevel
    <3>2. l \in Read /\ stmt \in Elements(l.stmts)
      BY <2>1, <3>1 DEF LineOf
    <3> QED BY <1>6, <2>2, <3>2 DEF DataOf
  <2>4. DataOf(l) = {d} /\ ItemsOf(l) = text.items[d] /\ lines[line].number = l.number
    <3>1. /\ DataOf(l) = {d} /\ ItemsOf(l) = text.items[d]
          /\ lines[LineAt(d)] = LineRecord(l)
      BY <1>1, <2>3, DataIs
    <3>2. line = LineAt(d)
      BY <1>1, <2>2
    <3> QED BY <3>1, <3>2 DEF LineRecord
  <2>5. \A m \in Read : \A e \in DataOf(m) : e \in Passed <=> m.number < l.number
    BY <1>1, <1>2, <2>2, <2>3, DataIs, DataBefore
  <2>6. \A m \in Read : DataOf(m) # {} => (m \in Taken <=> m \in Before(l))
    BY <2>5 DEF Taken, Before
  <2>7. CountItems(Taken) = CountItems(Before(l))
    <3>1. \A m : DataOf(m) # {} => (m \in Taken <=> m \in Before(l))
      BY <2>6 DEF Taken, Before
    <3> QED BY <3>1, CountWithData
  <2>8. l \in Read \ Taken /\ Taken \in SUBSET Read
    <3>1. d \notin Passed
      BY <1>1, <2>2, NotPassed
    <3> QED BY <2>3, <2>4, <3>1 DEF Taken
  <2>9. Taken' = Taken \cup {l}
    <3>1. ASSUME NEW m \in Read
          PROVE  DataOf(m) \cap Passed' # {} <=> DataOf(m) \cap Passed # {} \/ m = l
      <4>1. d \in DataOf(m) => m = l
        BY <1>1, <2>3, DataIs
      <4> QED BY <1>2, <2>2, <2>3, <4>1
    <3> QED BY <1>4, <2>3, <3>1 DEF Taken
  <2> DEFINE items == data_items \o ItemsOf(l)
             map == MapAdd(l.number, Len(data_items) + 1, data_map)
  <2>10. ~InMap(l.number, data_map) /\ Collected(items, map, Taken \cup {l})
    BY <1>1, <1>3, <2>3, <2>7, <2>8, CollectLine
  <2>11. data_items' = items /\ data_map' = map
    <3>1. ItemsTaken(stmt, lines[line].number)
      BY <1>6 DEF build_statements
    <3>2. ItemsTaken(d, l.number)
      BY <2>2, <2>4, <3>1
    <3> QED BY <2>4, <2>10, <3>2 DEF ItemsTaken
  <2> HIDE DEF items, map
  <2>12. PICK i, p, T : i = items /\ p = map /\ T = Taken \cup {l}
    OBVIOUS
  <2>13. Collected(i, p, T)'
    BY <1>1, <2>10, <2>12, SameCollected
  <2>14. i = data_items' /\ p = data_map' /\ T = Taken'
    BY <2>9, <2>11, <2>12
  <2>15. Collected(data_items, data_map, Taken)'
    BY <2>13, <2>14 DEF Collected, CountItems, ItemPlaces
  <2> QED BY <1>1, <2>15 DEF DataKept, InUse
<1> QED BY <1>5, <1>6

(* Every step keeps the items those of the lines passed, in order.         *)
LEMMA DataStep == Inv /\ DataKept /\ [Next]_vars => DataKept'
<1> SUFFICES ASSUME Inv, DataKept, [Next]_vars PROVE DataKept'
  OBVIOUS
<1>1. CASE line_add
  BY <1>1 DEF line_add, building, DataKept, InUse
<1>2. CASE StartBuild
  BY <1>2, DataStart
<1>3. CASE build_statements
  BY <1>3, DataBuild
<1>4. CASE statement_free \/ Visit \/ FreeSub \/ FreeStatement \/ Freed
  <2>1. InUse /\ InUse' /\ UNCHANGED <<text, read, lines, stmt, data_items, data_map>>
    BY <1>4 DEF statement_free, Visit, FreeSub, FreeStatement, Freed, loading, building, InUse
  <2>2. Collected(data_items, data_map, Taken)'
    BY <2>1, SamePassed, SameTaken, SameData DEF DataKept
  <2> QED BY <2>1, <2>2 DEF DataKept
<1>5. CASE UNCHANGED vars
  <2>1. UNCHANGED <<text, phase, read, lines, stmt, data_items, data_map>>
    BY <1>5 DEF vars
  <2>2. InUse => Collected(data_items, data_map, Taken)'
    BY <2>1, SamePassed, SameTaken, SameData DEF DataKept
  <2> QED BY <2>1, <2>2 DEF DataKept, InUse
<1> QED BY <1>1, <1>2, <1>3, <1>4, <1>5 DEF Next

(* In whatever order the lines come, the DATA of a program that is built   *)
(* are all there, in the order of the line numbers, and RESTORE finds the  *)
(* first item of each line that has any, and no others (statement_fixup,   *)
(* data_map_add, data_map_find).                                           *)
THEOREM DataComesInOrder == Spec => []DataInLineOrder
<1>1. ASSUME Inv, DataKept PROVE DataInLineOrder
  <2> SUFFICES ASSUME Built
               PROVE  /\ Len(data_items) = CountItems(Read)
                      /\ \A l \in Read :
                           LET before == CountItems(Before(l))
                           IN  IF DataOf(l) = {} THEN data_map_find(l.number) = NULL
                               ELSE /\ data_map_find(l.number) = before + 1
                                    /\ SubSeq(data_items, before + 1,
                                              before + Len(ItemsOf(l))) = ItemsOf(l)
    BY DEF DataInLineOrder
  <2>1. InUse /\ Passed = Tops /\ DataSettled
    <3>1. InUse
      BY <1>1 DEF Built, InUse
    <3> QED BY <1>1, <3>1, BuiltIs, DataSettles
  <2>2. Collected(data_items, data_map, Taken)
    BY <1>1, <2>1 DEF DataKept
  <2>3. \A l : l \in Taken <=> l \in Read /\ DataOf(l) # {}
    BY <2>1, DataIs DEF Taken
  <2>4. Len(data_items) = CountItems(Read)
    <3>1. CountItems(Taken) = CountItems(Read)
      BY <2>3, CountWithData
    <3> QED BY <2>2, <3>1 DEF Collected
  <2>5. ASSUME NEW l \in Read, DataOf(l) = {} PROVE data_map_find(l.number) = NULL
    <3>1. ~InMap(l.number, data_map)
      BY <2>1, <2>2, <2>3, <2>5, MappedLine DEF InMap
    <3> QED BY <3>1 DEF data_map_find
  <2>6. ASSUME NEW l \in Read, DataOf(l) # {}
        PROVE  data_map_find(l.number) = CountItems(Before(l)) + 1
    <3>1. InMap(l.number, data_map)
      BY <2>2, <2>3, <2>6 DEF Collected
    <3>2. PICK i : i = CHOOSE j \in DOMAIN data_map[Hash[l.number]] :
                         data_map[Hash[l.number]][j].line = l.number
      OBVIOUS
    <3>3. /\ i \in DOMAIN data_map[Hash[l.number]]
          /\ data_map[Hash[l.number]][i].line = l.number
      BY <3>1, <3>2 DEF InMap
    <3>4. data_map[Hash[l.number]][i] = DataEntry(l)
      BY <2>1, <2>2, <2>3, <3>3, MappedLine
    <3> QED BY <3>1, <3>2, <3>4 DEF data_map_find, MapFind, DataEntry
  <2>7. ASSUME NEW l \in Read, DataOf(l) # {}
        PROVE  SubSeq(data_items, CountItems(Before(l)) + 1,
                      CountItems(Before(l)) + Len(ItemsOf(l))) = ItemsOf(l)
    <3>1. PICK b, k : b = CountItems(Before(l)) /\ k = Len(ItemsOf(l))
      OBVIOUS
    <3>2. PICK d : d \in DataOf(l)
      BY <2>7
    <3>3. PICK S : ItemsOf(l) \in Seq(S)
      BY <2>1, <3>2, DataIs
    <3>4. k \in Nat /\ DOMAIN ItemsOf(l) = 1..k
      BY <3>1, <3>3
    <3>5. b \in Nat
      BY <2>1, <3>1, ItemsFinite DEF Before
    <3>6. \A i \in 1..k : data_items[b + i] = ItemsOf(l)[i]
      BY <2>2, <2>3, <2>7, <3>1, <3>4 DEF Collected, HasItems
    <3>7. \A i \in (b + 1)..(b + k) : data_items[i] \in S
      <4> SUFFICES ASSUME NEW i \in (b + 1)..(b + k) PROVE data_items[i] \in S
        OBVIOUS
      <4>1. i - b \in 1..k /\ b + (i - b) = i
        BY <3>4, <3>5
      <4>2. ItemsOf(l)[i - b] \in S
        BY <3>3, <3>4, <4>1
      <4> QED BY <3>6, <4>1, <4>2
    <3> DEFINE s == SubSeq(data_items, b + 1, b + k)
    <3>8. s \in Seq(S) /\ Len(s) = k /\ \A i \in 1..k : s[i] = data_items[b + i]
      <4>1. /\ s \in Seq(S) /\ Len(s) = IF b + 1 <= b + k THEN (b + k) - (b + 1) + 1 ELSE 0
            /\ \A i \in 1..((b + k) - (b + 1) + 1) : s[i] = data_items[(b + 1) + i - 1]
        BY <3>4, <3>5, <3>7, SubSeqProperties
      <4> HIDE DEF s
      <4>2. Len(s) = k /\ (b + k) - (b + 1) + 1 = k
        BY <3>4, <3>5, <4>1
      <4>3. ASSUME NEW i \in 1..k PROVE s[i] = data_items[b + i]
        <5>1. (b + 1) + i - 1 = b + i
          BY <3>4, <3>5
        <5> QED BY <4>1, <4>2, <5>1
      <4> QED BY <4>1, <4>2, <4>3
    <3> HIDE DEF s
    <3>9. s = ItemsOf(l)
      BY <3>1, <3>3, <3>6, <3>8, SeqEqual
    <3> QED BY <3>1, <3>9 DEF s
  <2> QED BY <2>4, <2>5, <2>6, <2>7
<1> QED BY <1>1, Invariant, InvInit, InvNext, DataBegins, DataStep, PTL DEF Spec
====
