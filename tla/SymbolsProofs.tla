----------------------------- MODULE SymbolsProofs ------------------------------
(***************************************************************************)
(* Proofs that the symbol table, a stack of hash tables of chains, is the  *)
(* stack of functions Scopes says it is, for all names, hashes, programs   *)
(* and values.                                                             *)
(*                                                                         *)
(* The inductive invariant IInv is the shape of the tables: every chain is *)
(* a sequence of symbols with the names of its bucket, each name once, and *)
(* every symbol is what its name and its frame allow.  Under it a table is *)
(* a function from its names (FindIs, ScopeIs), and the three ways to      *)
(* change one are functional updates: inserting a symbol (InsertedInTable, *)
(* ScopeWith), clearing (ClearedTable, ClearedScope), and changing an      *)
(* element of an array, which is an insertion (SymbolReplaced).  What loops*)
(* over names do, the arguments of a call and the DEFs of a program, is    *)
(* found by induction (LocalsBound, BaseTableIs).  Then there is one lemma *)
(* per operation (CallStep to FreeStep): it keeps IInv, it is the operation*)
(* of Scopes, it keeps hidden names, and a failure changes no frame.       *)
(*                                                                         *)
(* Last are the elements of arrays.  The subscripts up to a place leave a  *)
(* row of elements, one row within the other (RowsAreNested): so each      *)
(* element has its subscripts, and only these (SamePlace, EveryPlace).     *)
(***************************************************************************)
EXTENDS Symbols, Induction

IdSet == Variables \cup Called \cup {Defs[i].id : i \in DOMAIN Defs}
ArraySet == [dims : Seq(Int), data : Seq(Value)]
SymbolSet == [id : IdSet, type : Simple, u : Value]
             \cup [id : IdSet, type : {"ARRAY"}, u : ArraySet]
             \cup [id : IdSet, type : {"PROCEDURE"}, u : Seq(Variables)]
Table == [Buckets -> Seq(SymbolSet)]

(* A chain has each name once and in the bucket of its hash.               *)
Hashed(t) ==
  /\ t \in Table
  /\ \A b \in Buckets : \A i, j \in DOMAIN t[b] :
       /\ Hash[t[b][i].id] = b
       /\ t[b][i].id = t[b][j].id => i = j

FramesOK(fs) ==
  /\ fs \in Seq(Table)
  /\ \A f \in DOMAIN fs :
       /\ Hashed(fs[f])
       /\ \A s \in Symbols(fs[f]) : SymbolOK(s, f)

(* The inductive invariant.                                                *)
IInv ==
  /\ Len(frames) \in 1..MaxFrames
  /\ FramesOK(frames)
  /\ residents \in [Upper \cup {"@"} -> IntRange]
  /\ set_time_value \in IntRange
  /\ outcome \in {"running", "abort", "exit", "overrun", "crash", "ended"}

-----------------------------------------------------------------------------
(* Tables.                                                                 *)

(* Changing one place of a sequence.                                       *)
LEMMA ChangedPlace ==
  ASSUME NEW S, NEW q \in Seq(S), NEW k \in DOMAIN q, NEW e \in S
  PROVE  /\ [q EXCEPT ![k] = e] \in Seq(S)
         /\ DOMAIN [q EXCEPT ![k] = e] = DOMAIN q
         /\ [q EXCEPT ![k] = e][k] = e
         /\ \A i \in DOMAIN q : i # k => [q EXCEPT ![k] = e][i] = q[i]
  OBVIOUS

(* A sequence over a set is a function into it.                            *)
LEMMA SequenceIsFunction ==
  ASSUME NEW S, NEW q \in Seq(S)
  PROVE  q = [i \in 1..Len(q) |-> q[i]] /\ Len(q) \in Nat
  OBVIOUS

(* The name of a symbol is a name of the program.                          *)
LEMMA SymbolFields ==
  ASSUME NEW s \in SymbolSet
  PROVE  s.id \in IdSet
  BY DEF SymbolSet

(* Every name of the program has a bucket.                                 *)
LEMMA HashOfId ==
  ASSUME NEW id \in IdSet
  PROVE  Hash[id] \in Buckets
  BY SymbolsAssumption DEF IdSet

(* The members of a table are what its chains hold.                        *)
LEMMA Members ==
  ASSUME NEW t, Hashed(t), NEW s
  PROVE  s \in Symbols(t) <=>
           \E b \in Buckets : \E i \in DOMAIN t[b] : s = t[b][i]
  BY DEF Symbols

(* The members of a table are symbols.                                     *)
LEMMA MembersAreSymbols ==
  ASSUME NEW t, Hashed(t), NEW s \in Symbols(t)
  PROVE  s \in SymbolSet /\ s.id \in IdSet
<1>b. PICK b \in Buckets : \E i \in DOMAIN t[b] : s = t[b][i]
  BY Members
<1>1. PICK i \in DOMAIN t[b] : s = t[b][i]
  BY <1>b
<1>2. t[b] \in Seq(SymbolSet)
  BY DEF Hashed, Table
<1> QED BY <1>1, <1>2, SymbolFields

(* A name is in a table when a symbol of that name is, in one place of the *)
(* chain of its hash, and that symbol is the one found.                    *)
LEMMA FindIs ==
  ASSUME NEW t, Hashed(t), NEW s \in Symbols(t)
  PROVE  /\ InFrame(s.id, t)
         /\ Place(s.id, t) \in DOMAIN t[Hash[s.id]]
         /\ t[Hash[s.id]][Place(s.id, t)] = s
         /\ symbol_find_frame(s.id, t) = s
<1>b. PICK b \in Buckets : \E i \in DOMAIN t[b] : s = t[b][i]
  BY Members
<1>1. PICK i \in DOMAIN t[b] : s = t[b][i]
  BY <1>b
<1>2. Hash[s.id] = b
  BY <1>1 DEF Hashed
<1>3. t[b] \in Seq(SymbolSet) /\ i \in Nat
  BY DEF Hashed, Table
<1>4. Places(s.id, t) = {i}
  BY <1>1, <1>2 DEF Places, Hashed
<1>5. Place(s.id, t) = i
  BY <1>3, <1>4 DEF Place
<1> QED BY <1>1, <1>2, <1>4, <1>5 DEF InFrame, symbol_find_frame

(* A name is in a frame when one of its symbols has it.                    *)
LEMMA InFrameIs ==
  ASSUME NEW t, Hashed(t), NEW id \in IdSet
  PROVE  InFrame(id, t) <=> \E s \in Symbols(t) : s.id = id
<1>1. ASSUME InFrame(id, t) PROVE \E s \in Symbols(t) : s.id = id
  BY <1>1, HashOfId, Members DEF InFrame, Places
<1> QED BY <1>1, FindIs

(* The place symbol_find_frame finds is in the chain of the name.          *)
LEMMA FoundInFrame ==
  ASSUME NEW t, Hashed(t), NEW id \in IdSet, InFrame(id, t)
  PROVE  symbol_find_frame(id, t) \in Symbols(t) /\ symbol_find_frame(id, t).id = id
  BY InFrameIs, FindIs

(* A well-formed table has one symbol of a name.                           *)
LEMMA OneOfAName ==
  ASSUME NEW t, Hashed(t), NEW p \in Symbols(t), NEW q \in Symbols(t), p.id = q.id
  PROVE  p = q
  BY FindIs

(* Putting a symbol in a table replaces the one of its name or adds it.    *)
LEMMA InsertedInTable ==
  ASSUME NEW t, Hashed(t), NEW s \in SymbolSet
  PROVE  /\ Hashed(symbol_insert_frame(s, t))
         /\ Symbols(symbol_insert_frame(s, t)) = {s} \cup {q \in Symbols(t) : q.id # s.id}
<1> DEFINE h == Hash[s.id]
           t2 == symbol_insert_frame(s, t)
<1>1. s.id \in IdSet /\ h \in Buckets /\ t \in Table /\ DOMAIN t = Buckets
  BY SymbolFields, HashOfId DEF Hashed, Table
<1>2. t[h] \in Seq(SymbolSet)
  BY <1>1 DEF Table
<1>3. CASE InFrame(s.id, t)
  <2> DEFINE p == Place(s.id, t)
  <2>1. p \in DOMAIN t[h] /\ t[h][p].id = s.id
    <3>1. PICK q \in Symbols(t) : q.id = s.id
      BY <1>1, <1>3, InFrameIs
    <3>2. /\ Place(q.id, t) \in DOMAIN t[Hash[q.id]]
          /\ t[Hash[q.id]][Place(q.id, t)] = q
      BY FindIs
    <3> QED BY <3>1, <3>2
  <2>2. t2 = [t EXCEPT ![h] = [t[h] EXCEPT ![p] = s]]
    BY <1>3, <1>1 DEF symbol_insert_frame
  <2> DEFINE c == [t[h] EXCEPT ![p] = s]
  <2>3. /\ c \in Seq(SymbolSet) /\ DOMAIN c = DOMAIN t[h] /\ c[p] = s
        /\ \A i \in DOMAIN t[h] : i # p => c[i] = t[h][i]
    <3> HIDE DEF h, p
    <3> QED BY <1>2, <2>1, ChangedPlace DEF c
  <2>4. t2 \in Table /\ t2[h] = c /\ \A b \in Buckets : b # h => t2[b] = t[b]
    BY <1>1, <2>2, <2>3 DEF Table
  <2> HIDE DEF t2, c, p
  <2>6. Hashed(t2)
    BY <2>1, <2>3, <2>4 DEF Hashed
  <2>7. Symbols(t2) = {s} \cup {q \in Symbols(t) : q.id # s.id}
    <3>1. ASSUME NEW q \in Symbols(t2) PROVE q = s \/ (q \in Symbols(t) /\ q.id # s.id)
      <4>b. PICK b \in Buckets : \E i \in DOMAIN t2[b] : q = t2[b][i]
        BY <2>6, Members
      <4>1. PICK i \in DOMAIN t2[b] : q = t2[b][i]
        BY <4>b
      <4>2. CASE b = h
        BY <4>1, <4>2, <2>1, <2>3, <2>4, Members DEF Hashed
      <4>3. CASE b # h
        BY <4>1, <4>3, <2>4, Members DEF Hashed
      <4> QED BY <4>2, <4>3
    <3>2. s \in Symbols(t2)
      BY <2>1, <2>3, <2>4, <2>6, <1>1, Members
    <3>3. ASSUME NEW q \in Symbols(t), q.id # s.id PROVE q \in Symbols(t2)
      <4>b. PICK b \in Buckets : \E i \in DOMAIN t[b] : q = t[b][i]
        BY Members
      <4>1. PICK i \in DOMAIN t[b] : q = t[b][i]
        BY <4>b
      <4> QED BY <4>1, <3>3, <2>1, <2>3, <2>4, <2>6, Members
    <3> QED BY <3>1, <3>2, <3>3
  <2> QED BY <2>6, <2>7 DEF t2
<1>4. CASE ~InFrame(s.id, t)
  <2>1. t2 = [t EXCEPT ![h] = Append(t[h], s)]
    BY <1>4, <1>1 DEF symbol_insert_frame
  <2> DEFINE c == Append(t[h], s)
             n == Len(t[h])
  <2>2. c \in Seq(SymbolSet) /\ n \in Nat /\ DOMAIN c = 1..(n + 1) /\ DOMAIN t[h] = 1..n
    BY <1>2
  <2>3. t2 \in Table /\ t2[h] = c /\ \A b \in Buckets : b # h => t2[b] = t[b]
    BY <1>1, <2>1, <2>2 DEF Table
  <2>4. c[n + 1] = s /\ \A i \in 1..n : c[i] = t[h][i]
    BY <1>2
  <2>5. \A q \in Symbols(t) : q.id # s.id
    BY <1>1, <1>4, InFrameIs
  <2>6. \A i \in 1..n : t[h][i].id # s.id
    BY <2>5, <2>2, <1>1, Members
  <2> HIDE DEF t2, c, n
  <2>7. Hashed(t2)
    <3>1. ASSUME NEW b \in Buckets, NEW i \in DOMAIN t2[b], NEW j \in DOMAIN t2[b]
          PROVE  /\ Hash[t2[b][i].id] = b
                 /\ t2[b][i].id = t2[b][j].id => i = j
      <4>1. CASE b # h
        BY <4>1, <2>3 DEF Hashed
      <4>2. CASE b = h
        <5>1. i \in 1..n \/ i = n + 1
          BY <4>2, <2>2, <2>3
        <5>2. j \in 1..n \/ j = n + 1
          BY <4>2, <2>2, <2>3
        <5> QED BY <4>2, <5>1, <5>2, <2>2, <2>3, <2>4, <2>6, <1>1 DEF Hashed
      <4> QED BY <4>1, <4>2
    <3> QED BY <3>1, <2>3 DEF Hashed
  <2>8. Symbols(t2) = {s} \cup Symbols(t)
    <3>1. ASSUME NEW q \in Symbols(t2) PROVE q = s \/ q \in Symbols(t)
      <4>b. PICK b \in Buckets : \E i \in DOMAIN t2[b] : q = t2[b][i]
        BY <2>7, Members
      <4>1. PICK i \in DOMAIN t2[b] : q = t2[b][i]
        BY <4>b
      <4>2. CASE b = h
        <5>1. i \in 1..n \/ i = n + 1
          BY <4>2, <2>2, <2>3
        <5> QED BY <4>1, <4>2, <5>1, <2>2, <2>3, <2>4, Members
      <4>3. CASE b # h
        BY <4>1, <4>3, <2>3, Members
      <4> QED BY <4>2, <4>3
    <3>2. s \in Symbols(t2)
      BY <2>2, <2>3, <2>4, <2>7, <1>1, Members
    <3>3. ASSUME NEW q \in Symbols(t) PROVE q \in Symbols(t2)
      <4>b. PICK b \in Buckets : \E i \in DOMAIN t[b] : q = t[b][i]
        BY Members
      <4>1. PICK i \in DOMAIN t[b] : q = t[b][i]
        BY <4>b
      <4>2. i \in DOMAIN t2[b] /\ t2[b][i] = q
        BY <4>1, <2>2, <2>3, <2>4
      <4> QED BY <4>2, <2>7, Members
    <3> QED BY <3>1, <3>2, <3>3
  <2> QED BY <2>5, <2>7, <2>8 DEF t2
<1> QED BY <1>3, <1>4

Kept(chain) ==
  CHOOSE g : g = [i \in 0..Len(chain) |->
                    IF i = 0 THEN <<>>
                    ELSE IF chain[i].type \in Simple THEN g[i - 1]
                    ELSE Append(g[i - 1], chain[i])]

(* The recursive function of Cleared, unfolded once.                       *)
LEMMA KeptIs ==
  ASSUME NEW chain \in Seq(SymbolSet)
  PROVE  /\ Cleared(chain) = Kept(chain)[Len(chain)]
         /\ Kept(chain)[0] = <<>>
         /\ \A i \in 1..Len(chain) :
              Kept(chain)[i] = IF chain[i].type \in Simple THEN Kept(chain)[i - 1]
                               ELSE Append(Kept(chain)[i - 1], chain[i])
<1> DEFINE n == Len(chain)
           C == Seq(SymbolSet)
           H == [i \in 1..n |-> [q \in C |-> IF chain[i].type \in Simple THEN q
                                          ELSE Append(q, chain[i])]]
           K(g) == [i \in 0..n |-> IF i = 0 THEN <<>>
                                  ELSE IF chain[i].type \in Simple THEN g[i - 1]
                                  ELSE Append(g[i - 1], chain[i])]
<1>1. n \in Nat /\ <<>> \in C
  OBVIOUS
<1>2. H \in [1..n -> [C -> C]]
  OBVIOUS
<1>3. PICK g \in [0..n -> C] : Iterates(g, n, <<>>, H)
  <2> HIDE DEF n, C, H
  <2> QED BY <1>1, <1>2, RecursionExists
<1>4. g = K(g)
  <2>1. ASSUME NEW i \in 1..n
        PROVE  g[i] = IF chain[i].type \in Simple THEN g[i - 1]
                      ELSE Append(g[i - 1], chain[i])
    <3>1. g[i - 1] \in C
      BY <1>1
    <3> QED BY <1>3, <3>1 DEF Iterates
  <2> HIDE DEF n
  <2>2. ASSUME NEW i \in 0..n PROVE g[i] = K(g)[i]
    <3>1. CASE i = 0
      BY <1>3, <3>1 DEF Iterates
    <3>2. CASE i # 0
      <4>1. i \in 1..n
        BY <1>1, <3>2
      <4>2. K(g)[i] = IF chain[i].type \in Simple THEN g[i - 1]
                      ELSE Append(g[i - 1], chain[i])
        BY <3>2
      <4> QED BY <2>1, <4>1, <4>2
    <3> QED BY <3>1, <3>2
  <2> QED BY <2>2
<1>5. Kept(chain) = K(Kept(chain))
  <2>1. \E f : f = K(f)
    BY <1>4
  <2> HIDE DEF n
  <2> QED BY <2>1, Zenon DEF Kept, n
<1>6. Cleared(chain) = Kept(chain)[n]
  BY Zenon DEF Cleared, Kept
<1> HIDE DEF n
<1>7. \A i \in 0..n : Kept(chain)[i] = K(Kept(chain))[i]
  BY <1>5, Zenon
<1>8. \A i \in 0..n : K(Kept(chain))[i] =
        IF i = 0 THEN <<>>
        ELSE IF chain[i].type \in Simple THEN Kept(chain)[i - 1]
        ELSE Append(Kept(chain)[i - 1], chain[i])
  OBVIOUS
<1> QED BY <1>1, <1>6, <1>7, <1>8 DEF n

(* What CLEAR leaves of a chain: its arrays and procedures, each once.     *)
LEMMA ClearedIs ==
  ASSUME NEW chain \in Seq(SymbolSet),
         \A i, j \in DOMAIN chain : chain[i].id = chain[j].id => i = j
  PROVE  /\ Cleared(chain) \in Seq(SymbolSet)
         /\ \A i, j \in DOMAIN Cleared(chain) :
              Cleared(chain)[i].id = Cleared(chain)[j].id => i = j
         /\ {Cleared(chain)[i] : i \in DOMAIN Cleared(chain)}
              = {s \in {chain[i] : i \in DOMAIN chain} : s.type \notin Simple}
<1> DEFINE n == Len(chain)
           Rest(i) == {s \in {chain[j] : j \in 1..i} : s.type \notin Simple}
           OK(c, i) == /\ c \in Seq(SymbolSet)
                       /\ \A j, k \in DOMAIN c : c[j].id = c[k].id => j = k
                       /\ {c[j] : j \in DOMAIN c} = Rest(i)
           P == {i \in 0..n : OK(Kept(chain)[i], i)}
<1>1. n \in Nat /\ DOMAIN chain = 1..n
  OBVIOUS
<1>2. 0 \in P
  <2>1. OK(<<>>, 0)
    OBVIOUS
  <2> HIDE DEF OK, n
  <2>2. Kept(chain)[0] = <<>>
    BY KeptIs
  <2> QED BY <1>1, <2>1, <2>2
<1>3. ASSUME NEW i \in 1..n, i - 1 \in P PROVE i \in P
  <2> DEFINE c == Kept(chain)[i - 1]
             e == chain[i]
  <2>1. c \in Seq(SymbolSet) /\ Len(c) \in Nat /\ DOMAIN c = 1..Len(c)
    BY <1>3
  <2>2. \A j, k \in DOMAIN c : c[j].id = c[k].id => j = k
    BY <1>3
  <2>3. {c[j] : j \in DOMAIN c} = Rest(i - 1)
    BY <1>3
  <2>4. e \in SymbolSet
    BY <1>1
  <2>5. Rest(i) = IF e.type \in Simple THEN Rest(i - 1) ELSE Rest(i - 1) \cup {e}
    <3>1. 1..i = (1..(i - 1)) \cup {i}
      BY <1>1
    <3> HIDE DEF n
    <3> QED BY <3>1
  <2>6. \A j \in DOMAIN c : c[j].id # e.id
    <3>1. ASSUME NEW j \in DOMAIN c PROVE c[j].id # e.id
      <4>1. c[j] \in Rest(i - 1)
        BY <2>3
      <4>2. PICK k \in 1..(i - 1) : c[j] = chain[k]
        BY <4>1
      <4>3. k \in DOMAIN chain /\ i \in DOMAIN chain /\ k # i
        BY <1>1
      <4> QED BY <4>2, <4>3
    <3> QED BY <3>1
  <2>7. Kept(chain)[i] = IF e.type \in Simple THEN c ELSE Append(c, e)
    BY KeptIs
  <2>8. CASE e.type \in Simple
    <3>1. OK(c, i)
      BY <2>8, <2>5, <2>1, <2>2, <2>3
    <3>2. Kept(chain)[i] = c
      BY <2>7, <2>8
    <3> HIDE DEF OK, n, c
    <3> QED BY <3>1, <3>2, <1>1
  <2>9. CASE e.type \notin Simple
    <3> DEFINE d == Append(c, e)
    <3> HIDE DEF n, c, e
    <3>1. d \in Seq(SymbolSet) /\ DOMAIN d = 1..(Len(c) + 1)
      BY <2>1, <2>4
    <3>2. d[Len(c) + 1] = e /\ \A j \in 1..Len(c) : d[j] = c[j]
      BY <2>1, <2>4
    <3> HIDE DEF d
    <3>3. ASSUME NEW j \in DOMAIN d, NEW k \in DOMAIN d, d[j].id = d[k].id PROVE j = k
      <4>1. (j \in 1..Len(c) \/ j = Len(c) + 1) /\ (k \in 1..Len(c) \/ k = Len(c) + 1)
        BY <3>1, <2>1
      <4> QED BY <4>1, <3>2, <3>3, <2>1, <2>2, <2>6
    <3>4. {d[j] : j \in DOMAIN d} = {c[j] : j \in DOMAIN c} \cup {e}
      <4>1. 1..(Len(c) + 1) = (1..Len(c)) \cup {Len(c) + 1}
        BY <2>1
      <4> QED BY <4>1, <3>1, <3>2, <2>1
    <3>5. OK(d, i)
      BY <3>1, <3>3, <3>4, <2>3, <2>5, <2>9
    <3>6. Kept(chain)[i] = d
      BY <2>7, <2>9 DEF d, e
    <3> HIDE DEF OK
    <3> QED BY <3>5, <3>6, <1>1
  <2> QED BY <2>8, <2>9
<1> HIDE DEF P
<1>4. n \in P
  <2> HIDE DEF n
  <2>1. n \in Nat /\ 0 \in P /\ \A i \in 1..n : i - 1 \in P => i \in P
    BY <1>1, <1>2, <1>3
  <2>2. \A i \in 0..n : i \in P
    BY <2>1, InductionUpTo
  <2> QED BY <2>1, <2>2
<1>5. OK(Cleared(chain), n)
  <2> HIDE DEF OK, n
  <2>1. OK(Kept(chain)[n], n)
    BY <1>4 DEF P
  <2> QED BY <2>1, KeptIs DEF n
<1> QED BY <1>1, <1>5

(* CLEAR keeps a table well formed and exactly its arrays and procedures.  *)
LEMMA ClearedTable ==
  ASSUME NEW t, Hashed(t)
  PROVE  /\ Hashed(clear_buckets(t))
         /\ Symbols(clear_buckets(t)) = {s \in Symbols(t) : s.type \notin Simple}
<1> DEFINE u == clear_buckets(t)
<1>1. ASSUME NEW b \in Buckets
      PROVE  /\ u[b] = Cleared(t[b])
             /\ Cleared(t[b]) \in Seq(SymbolSet)
             /\ \A i, j \in DOMAIN u[b] : u[b][i].id = u[b][j].id => i = j
             /\ {u[b][i] : i \in DOMAIN u[b]}
                  = {s \in {t[b][i] : i \in DOMAIN t[b]} : s.type \notin Simple}
  <2>1. t[b] \in Seq(SymbolSet)
    BY DEF Hashed, Table
  <2>2. \A i, j \in DOMAIN t[b] : t[b][i].id = t[b][j].id => i = j
    BY DEF Hashed
  <2>3. u[b] = Cleared(t[b])
    BY DEF clear_buckets
  <2> HIDE DEF u
  <2> QED BY <2>1, <2>2, <2>3, ClearedIs
<1>2. u \in Table
  BY <1>1 DEF clear_buckets, Table
<1> HIDE DEF u
<1>3. ASSUME NEW b \in Buckets, NEW i \in DOMAIN u[b] PROVE Hash[u[b][i].id] = b
  <2>1. PICK j \in DOMAIN t[b] : u[b][i] = t[b][j]
    BY <1>1
  <2> QED BY <2>1 DEF Hashed
<1>4. Hashed(u)
  BY <1>1, <1>2, <1>3 DEF Hashed
<1>5. Symbols(u) = {s \in Symbols(t) : s.type \notin Simple}
  <2>1. \A s : s \in Symbols(u) <=> \E b \in Buckets : s \in {u[b][i] : i \in DOMAIN u[b]}
    BY DEF Symbols
  <2>2. \A s : s \in Symbols(t) <=> \E b \in Buckets : s \in {t[b][i] : i \in DOMAIN t[b]}
    BY DEF Symbols
  <2> QED BY <1>1, <2>1, <2>2
<1> QED BY <1>4, <1>5 DEF u

-----------------------------------------------------------------------------
(* Values, and the elements of arrays.                                     *)

Blank(id) == IF variable_name_is_string(id) THEN value_string_new(<<>>)
             ELSE value_int_new(0)

(* The blank value of a name is a value the name allows.                   *)
LEMMA BlankIs ==
  ASSUME NEW id
  PROVE  Blank(id) \in Value /\ Fits(id, Blank(id)) /\ Blank(id) # NULL
<1>1. 0 \in IntRange
  BY IntMaxAssumption DEF IntRange, IntMin
<1>2. value_int_new(0) \in Value /\ value_int_new(0).type = "int"
  BY <1>1 DEF value_int_new, Value
<1>3. value_string_new(<<>>) \in Value /\ value_string_new(<<>>).type = "string"
  BY DEF value_string_new, Value
<1> QED
  BY <1>2, <1>3 DEF Blank, Fits, NULL, value_is_string, value_is_int, value_is_numeric

(* NULL stands for no value.                                               *)
LEMMA ValueIsNotNull ==
  ASSUME NEW v \in Value
  PROVE  v # NULL /\ v.type \in {"int", "float", "string"}
  BY DEF Value, NULL

(* An integer value is a value.                                            *)
LEMMA IntegerValue ==
  ASSUME NEW v \in Value, value_is_int(v)
  PROVE  v.num \in IntRange /\ v.num \in Int
  BY IntMaxAssumption DEF Value, value_is_int, IntRange, IntMin

(* The kind of a value is one of the three simple types.                   *)
LEMMA KindIsSimple ==
  ASSUME NEW v
  PROVE  Kind(v) \in Simple
  BY DEF Kind, Simple

(* Turning an integer into a float gives a value.                          *)
LEMMA ValueFloat ==
  ASSUME NEW v \in Value, value_is_numeric(v)
  PROVE  value_float(v) \in Value /\ value_is_numeric(value_float(v))
         /\ value_float(value_float(v)) = value_float(v)
<1>1. CASE v.type = "int"
  <2>1. v \in [type : {"int"}, num : IntRange, den : {1}]
    BY <1>1 DEF Value
  <2>2. value_float(v) = [type |-> "float", num |-> v.num, den |-> 1]
    BY <2>1 DEF value_float
  <2>3. v.num \in Int
    BY <1>1, IntegerValue DEF value_is_int
  <2> DEFINE w == [type |-> "float", num |-> v.num, den |-> 1]
  <2>4. w \in Value
    BY <2>3 DEF Value
  <2>5. value_is_numeric(w)
    BY DEF value_is_numeric, value_is_float
  <2>6. value_float(w) = w
    BY DEF value_float
  <2> QED BY <2>2, <2>4, <2>5, <2>6
<1>2. CASE v.type = "float"
  <2>1. v \in [type : {"float"}, num : Int, den : Nat \ {0}]
    BY <1>2 DEF Value
  <2>2. value_float(v) = v
    BY <2>1 DEF value_float
  <2> QED BY <2>2
<1> QED BY <1>1, <1>2 DEF value_is_numeric, value_is_float, value_is_int

(* What an element takes is a value of its type, and taking it again       *)
(* changes nothing.                                                        *)
LEMMA ElementIs ==
  ASSUME NEW type, NEW v \in Value, type \in {"FLOAT", "INTEGER", "STRING"},
         ElementFits(type, v)
  PROVE  /\ Element(type, v) \in Value
         /\ ElementFits(type, Element(type, v))
         /\ Element(type, Element(type, v)) = Element(type, v)
  BY ValueFloat DEF Element, ElementFits

(* A zero is a value that an element of its type takes as it is.           *)
LEMMA ZeroIs ==
  ASSUME NEW type \in {"FLOAT", "INTEGER", "STRING"}
  PROVE  /\ Zero(type) \in Value
         /\ ElementFits(type, Zero(type))
         /\ Element(type, Zero(type)) = Zero(type)
<1>1. 0 \in IntRange
  BY IntMaxAssumption DEF IntRange, IntMin
<1>2. value_int_new(0) \in Value /\ value_is_int(value_int_new(0))
  BY <1>1 DEF value_int_new, Value, value_is_int
<1>3. value_string_new(<<>>) \in Value /\ value_is_string(value_string_new(<<>>))
  BY DEF value_string_new, Value, value_is_string
<1>4. /\ value_float_new(0, 1) \in Value /\ value_is_numeric(value_float_new(0, 1))
      /\ value_float(value_float_new(0, 1)) = value_float_new(0, 1)
  <2>1. GCD(0, 1) = 1
    <3>1. 1..1 = {1} /\ 0 % 1 = 0 /\ 1 % 1 = 0 /\ (1 + 1)..1 = {}
      OBVIOUS
    <3> QED BY <3>1 DEF GCD
  <2>2. Magnitude(0) = 0 /\ Magnitude(1) = 1
    BY DEF Magnitude
  <2>3. Quotient(0, 1) = 0
    BY <2>2 DEF Quotient
  <2>4. value_float_new(0, 1) = [type |-> "float", num |-> 0, den |-> 1]
    BY <2>1, <2>2, <2>3 DEF value_float_new
  <2>5. value_float([type |-> "float", num |-> 0, den |-> 1])
          = [type |-> "float", num |-> 0, den |-> 1]
    BY DEF value_float
  <2> QED BY <2>4, <2>5 DEF Value, value_is_numeric, value_is_float
<1> QED BY <1>2, <1>3, <1>4 DEF Zero, ElementFits, Element

(* The elements of an array are of one of the three simple types.          *)
LEMMA ArrayTypeIs ==
  ASSUME NEW id
  PROVE  ArrayType(id) \in {"FLOAT", "INTEGER", "STRING"}
  BY DEF ArrayType

(* Wrapping to the width of an int stays an integer.                       *)
LEMMA WrapIsInt ==
  ASSUME NEW n \in Int
  PROVE  Wrap(n) \in IntRange /\ Wrap(n) \in Int
<1>1. IntMin \in Int /\ 2 * (IntMax + 1) \in Nat \ {0}
  BY IntMaxAssumption DEF IntMin
<1>2. (n - IntMin) % (2 * (IntMax + 1)) \in 0..(2 * (IntMax + 1) - 1)
  BY <1>1
<1> QED BY <1>1, <1>2, IntMaxAssumption DEF Wrap, IntRange, IntMin

(* and the subscripts of a dimension are counted by a size_t.              *)
LEMMA ExtentIs ==
  ASSUME NEW d \in Int
  PROVE  Extent(d) \in Nat
<1>1. SizeMod \in Nat \ {0}
  BY SizeAssumption, IntMaxAssumption
<1>2. Wrap(d + 1) \in Int
  BY WrapIsInt
<1> QED BY <1>1, <1>2 DEF Extent

(* What array_size has multiplied after each dimension.                    *)
Sizes(dims) ==
  CHOOSE g : g = [i \in 0..Len(dims) |->
                    IF i = 0 THEN 1 ELSE (g[i - 1] * Extent(dims[i])) % SizeMod]

(* The wrapping product of the dimensions.                                 *)
LEMMA SizesAre ==
  ASSUME NEW dims \in Seq(Int)
  PROVE  /\ array_size(dims) = Sizes(dims)[Len(dims)]
         /\ Sizes(dims)[0] = 1
         /\ \A i \in 1..Len(dims) :
              Sizes(dims)[i] = (Sizes(dims)[i - 1] * Extent(dims[i])) % SizeMod
<1> DEFINE n == Len(dims)
           H == [i \in 1..n |-> [q \in Int |-> (q * Extent(dims[i])) % SizeMod]]
           K(g) == [i \in 0..n |-> IF i = 0 THEN 1 ELSE (g[i - 1] * Extent(dims[i])) % SizeMod]
<1>1. n \in Nat /\ 1 \in Int
  OBVIOUS
<1>2. H \in [1..n -> [Int -> Int]]
  <2>1. ASSUME NEW i \in 1..n, NEW q \in Int PROVE (q * Extent(dims[i])) % SizeMod \in Int
    <3>1. dims[i] \in Int
      OBVIOUS
    <3>2. Extent(dims[i]) \in Nat
      BY <3>1, ExtentIs
    <3>3. SizeMod \in Nat \ {0}
      BY SizeAssumption, IntMaxAssumption
    <3> QED BY <3>2, <3>3
  <2> QED BY <2>1
<1>3. PICK g \in [0..n -> Int] : Iterates(g, n, 1, H)
  <2> HIDE DEF n, H
  <2> QED BY <1>1, <1>2, RecursionExists
<1>4. g = K(g)
  <2>1. ASSUME NEW i \in 1..n
        PROVE  g[i] = (g[i - 1] * Extent(dims[i])) % SizeMod
    <3>1. g[i - 1] \in Int
      BY <1>1
    <3> QED BY <1>3, <3>1 DEF Iterates
  <2> HIDE DEF n
  <2>2. ASSUME NEW i \in 0..n PROVE g[i] = K(g)[i]
    <3>1. CASE i = 0
      BY <1>3, <3>1 DEF Iterates
    <3>2. CASE i # 0
      <4>1. i \in 1..n
        BY <1>1, <3>2
      <4>2. K(g)[i] = (g[i - 1] * Extent(dims[i])) % SizeMod
        BY <3>2
      <4> QED BY <2>1, <4>1, <4>2
    <3> QED BY <3>1, <3>2
  <2> QED BY <2>2
<1>5. Sizes(dims) = K(Sizes(dims))
  <2>1. \E f : f = K(f)
    BY <1>4
  <2> HIDE DEF n
  <2> QED BY <2>1, Zenon DEF Sizes, n
<1>6. array_size(dims) = Sizes(dims)[n]
  BY Zenon DEF array_size, Sizes
<1> HIDE DEF n
<1>7. \A i \in 0..n : Sizes(dims)[i] = K(Sizes(dims))[i]
  BY <1>5, Zenon
<1>8. \A i \in 0..n : K(Sizes(dims))[i] =
        IF i = 0 THEN 1 ELSE (Sizes(dims)[i - 1] * Extent(dims[i])) % SizeMod
  OBVIOUS
<1> QED BY <1>1, <1>6, <1>7, <1>8 DEF n

(* The size that DIM computes is a natural number, wrapped or not.         *)
LEMMA ArraySizeIsNat ==
  ASSUME NEW dims \in Seq(Int)
  PROVE  array_size(dims) \in Nat
<1> DEFINE n == Len(dims)
           P == {i \in 0..n : Sizes(dims)[i] \in Nat}
<1>1. n \in Nat
  OBVIOUS
<1>2. 0 \in P
  BY <1>1, SizesAre
<1>3. ASSUME NEW i \in 1..n, i - 1 \in P PROVE i \in P
  <2>1. dims[i] \in Int
    OBVIOUS
  <2>2. Extent(dims[i]) \in Nat
    BY <2>1, ExtentIs
  <2>3. SizeMod \in Nat \ {0}
    BY SizeAssumption, IntMaxAssumption
  <2> QED BY <1>3, <2>2, <2>3, SizesAre
<1>4. n \in P
  <2> HIDE DEF P, n
  <2>1. \A i \in 0..n : i \in P
    BY <1>1, <1>2, <1>3, InductionUpTo
  <2> QED BY <1>1, <2>1
<1> QED BY <1>4, SizesAre

-----------------------------------------------------------------------------
(* Assignments.                                                            *)

Letters == Upper \cup {"@"}
States ==
  {st \in [table : Table, residents : [Letters -> IntRange],
           error : {"none", "crash", "TYPE_MISMATCH"}] : Hashed(st.table)}

(* The parts of a state of the binding of arguments.                       *)
LEMMA StateParts ==
  ASSUME NEW st \in States
  PROVE  /\ Hashed(st.table) /\ st.table \in Table
         /\ st.residents \in [Letters -> IntRange]
         /\ st.error \in {"none", "crash", "TYPE_MISMATCH"}
         /\ st = [table |-> st.table, residents |-> st.residents, error |-> st.error]
  BY DEF States

(* A state of these parts is a record of them.                             *)
LEMMA StateIs ==
  ASSUME NEW t, Hashed(t), NEW r \in [Letters -> IntRange],
         NEW e \in {"none", "crash", "TYPE_MISMATCH"}
  PROVE  [table |-> t, residents |-> r, error |-> e] \in States
  BY DEF States, Hashed

(* Setting the error leaves the frame and the residents.                   *)
LEMMA ErrorSet ==
  ASSUME NEW st \in States, NEW e \in {"none", "crash", "TYPE_MISMATCH"}
  PROVE  /\ [st EXCEPT !.error = e] \in States
         /\ [st EXCEPT !.error = e].table = st.table
         /\ [st EXCEPT !.error = e].residents = st.residents
         /\ [st EXCEPT !.error = e].error = e
<1>1. [st EXCEPT !.error = e]
        = [table |-> st.table, residents |-> st.residents, error |-> e]
  BY StateParts
<1>2. [table |-> st.table, residents |-> st.residents, error |-> e] \in States
  BY StateParts, StateIs, Zenon
<1> QED BY <1>1, <1>2

(* The symbol of a variable that is assigned is a symbol.                  *)
LEMMA VariableIsSymbol ==
  ASSUME NEW id \in Variables, NEW v \in Value
  PROVE  /\ Symbol(id, Kind(v), v) \in SymbolSet
         /\ Symbol(id, Kind(v), v).id = id
         /\ Symbol(id, Kind(v), v).type = Kind(v)
         /\ Symbol(id, Kind(v), v).u = v
  BY KindIsSimple DEF Symbol, SymbolSet, IdSet

(* variable_add_frame puts a value that fits in the table, and nothing else*)
(* changes; one that does not fit is an error.                             *)
LEMMA VariableAdded ==
  ASSUME NEW id \in Variables, NEW v \in Value, NEW st \in States,
         NEW new, new = variable_add_frame(id, v, st)
  PROVE  /\ new \in States
         /\ new.residents = st.residents
         /\ Fits(id, v) =>
              /\ new.error = st.error
              /\ Symbols(new.table) =
                   {Symbol(id, Kind(v), v)} \cup {q \in Symbols(st.table) : q.id # id}
         /\ ~Fits(id, v) => new.error = "TYPE_MISMATCH" /\ new.table = st.table
<1> DEFINE s == Symbol(id, Kind(v), v)
<1>1. CASE Fits(id, v)
  <2> DEFINE t == symbol_insert_frame(s, st.table)
  <2>1. s \in SymbolSet /\ s.id = id
    BY VariableIsSymbol
  <2>2. /\ Hashed(t)
        /\ Symbols(t) = {s} \cup {q \in Symbols(st.table) : q.id # id}
    <3> HIDE DEF s
    <3> QED BY <2>1, StateParts, InsertedInTable
  <2>3. new = [table |-> t, residents |-> st.residents, error |-> st.error]
    <3>1. new = [st EXCEPT !.table = t]
      BY <1>1 DEF variable_add_frame
    <3> HIDE DEF t
    <3> QED BY <3>1, StateParts
  <2> HIDE DEF t
  <2>4. new \in States
    <3>1. /\ Hashed(st.table) /\ st.residents \in [Letters -> IntRange]
          /\ st.error \in {"none", "crash", "TYPE_MISMATCH"}
      BY StateParts
    <3>2. [table |-> t, residents |-> st.residents, error |-> st.error] \in States
      BY <2>2, <3>1, StateIs, Zenon
    <3> QED BY <2>3, <3>2
  <2> QED BY <1>1, <2>2, <2>3, <2>4
<1>2. CASE ~Fits(id, v)
  <2>1. new = [st EXCEPT !.error = "TYPE_MISMATCH"]
    BY <1>2 DEF variable_add_frame
  <2> QED BY <1>2, <2>1, ErrorSet
<1> QED BY <1>1, <1>2

(* Assigning a resident integer changes that letter only.                  *)
LEMMA ResidentAssigned ==
  ASSUME NEW c \in Letters, NEW v \in Value \cup {NULL}, NEW st \in States,
         NEW new, new = resident_assign(c, v, st)
  PROVE  /\ new \in States
         /\ new.table = st.table
         /\ v = NULL => new.error = "crash" /\ new.residents = st.residents
         /\ v # NULL /\ value_is_int(v) =>
              new.error = st.error /\ new.residents = [st.residents EXCEPT ![c] = v.num]
         /\ v # NULL /\ ~value_is_int(v) =>
              new.error = "TYPE_MISMATCH" /\ new.residents = st.residents
<1>1. CASE v = NULL
  <2>1. new = [st EXCEPT !.error = "crash"]
    BY <1>1 DEF resident_assign
  <2> QED BY <1>1, <2>1, ErrorSet
<1>2. CASE v # NULL /\ value_is_int(v)
  <2> DEFINE r == [st.residents EXCEPT ![c] = v.num]
  <2>1. v \in Value /\ v.num \in IntRange
    BY <1>2, IntegerValue
  <2>2. r \in [Letters -> IntRange]
    BY <2>1, StateParts
  <2>3. new = [table |-> st.table, residents |-> r, error |-> st.error]
    <3>1. new = [st EXCEPT !.residents = r]
      BY <1>2, StateParts DEF resident_assign
    <3> HIDE DEF r
    <3> QED BY <3>1, StateParts
  <2> HIDE DEF r
  <2>4. new \in States
    <3>1. /\ Hashed(st.table) /\ st.residents \in [Letters -> IntRange]
          /\ st.error \in {"none", "crash", "TYPE_MISMATCH"}
      BY StateParts
    <3>2. [table |-> st.table, residents |-> r, error |-> st.error] \in States
      BY <2>2, <3>1, StateIs, Zenon
    <3> QED BY <2>3, <3>2
  <2> QED BY <1>2, <2>3, <2>4 DEF r
<1>3. CASE v # NULL /\ ~value_is_int(v)
  <2>1. new = [st EXCEPT !.error = "TYPE_MISMATCH"]
    BY <1>3 DEF resident_assign
  <2> QED BY <1>3, <2>1, ErrorSet
<1> QED BY <1>1, <1>2, <1>3

(* The letter of a resident integer is one of the residents.               *)
LEMMA ResidentLetter ==
  ASSUME NEW id, variable_name_is_resident(id)
  PROVE  id[1] \in Letters
  BY DEF variable_name_is_resident, Letters

Filled(id, v) == IF v = NULL THEN Blank(id) ELSE v

(* What a parameter is filled with is a value.                             *)
LEMMA FilledIs ==
  ASSUME NEW id, NEW v \in Value \cup {NULL}
  PROVE  Filled(id, v) \in Value
  BY BlankIs DEF Filled

(* Assigning a local that is not resident adds its filled value to the     *)
(* frame.                                                                  *)
LEMMA LocalAssigned ==
  ASSUME NEW id \in Variables, NEW v \in Value \cup {NULL}, NEW st \in States,
         ~variable_name_is_resident(id)
  PROVE  symbol_variable_assign_local(id, v, st) = variable_add_frame(id, Filled(id, v), st)
  BY DEF symbol_variable_assign_local, Filled, Blank

-----------------------------------------------------------------------------
(* Scopes reads names and values as Symbols does.                          *)

(* The operators that Symbols and Scopes share through Names and Values    *)
(* mean the same in both: here NULL,                                       *)
LEMMA SameNull == Abstract!NULL = NULL
  BY DEF NULL, Abstract!NULL

(* the classes of names,                                                   *)
LEMMA SameNames ==
  ASSUME NEW id
  PROVE  /\ Abstract!variable_name_is_resident(id) = variable_name_is_resident(id)
         /\ Abstract!variable_name_is_string(id) = variable_name_is_string(id)
         /\ Abstract!variable_name_is_integer(id) = variable_name_is_integer(id)
         /\ Abstract!variable_name_is_real(id) = variable_name_is_real(id)
         /\ Abstract!ArrayType(id) = ArrayType(id)
         /\ Abstract!TIME = TIME /\ Abstract!COUNT = COUNT
  BY Zenon DEF variable_name_is_resident, variable_name_is_string,
        variable_name_is_integer, variable_name_is_real, ArrayType, TIME, COUNT, Last,
        Abstract!variable_name_is_resident, Abstract!variable_name_is_string,
        Abstract!variable_name_is_integer, Abstract!variable_name_is_real,
        Abstract!ArrayType, Abstract!TIME, Abstract!COUNT, Abstract!Last

(* the tests of values,                                                    *)
LEMMA SameTests ==
  ASSUME NEW v
  PROVE  /\ Abstract!value_is_int(v) = value_is_int(v)
         /\ Abstract!value_is_float(v) = value_is_float(v)
         /\ Abstract!value_is_string(v) = value_is_string(v)
         /\ Abstract!value_is_numeric(v) = value_is_numeric(v)
         /\ Abstract!Kind(v) = Kind(v)
  BY Zenon DEF value_is_int, value_is_float, value_is_string, value_is_numeric, Kind,
        Abstract!value_is_int, Abstract!value_is_float, Abstract!value_is_string,
        Abstract!value_is_numeric, Abstract!Kind

(* what fits a name,                                                       *)
LEMMA SameFits ==
  ASSUME NEW id, NEW v
  PROVE  Abstract!Fits(id, v) = Fits(id, v)
  BY SameNames, SameTests, Zenon DEF Fits, Abstract!Fits

(* the values that are made,                                               *)
LEMMA SameValues ==
  /\ \A n : Abstract!value_int_new(n) = value_int_new(n)
  /\ \A c : Abstract!value_string_new(c) = value_string_new(c)
  /\ \A n : Abstract!Wrap(n) = Wrap(n)
  /\ \A v : Abstract!value_int(v) = value_int(v)
  /\ \A v : Abstract!value_float(v) = value_float(v)
  BY Zenon DEF value_int_new, value_string_new, Wrap, value_int, value_float, Quotient,
        Magnitude, IntMin, IntRange,
        Abstract!value_int_new, Abstract!value_string_new, Abstract!Wrap,
        Abstract!value_int, Abstract!value_float, Abstract!Quotient,
        Abstract!Magnitude, Abstract!IntMin, Abstract!IntRange

(* the error of an argument,                                               *)
LEMMA SameArgumentError ==
  ASSUME NEW params, NEW args
  PROVE  Abstract!ArgumentError(params, args) = ArgumentError(params, args)
  BY SameNull, Zenon DEF ArgumentError, Abstract!ArgumentError

(* the error of a subscript,                                               *)
LEMMA SameIndexError ==
  ASSUME NEW dims, NEW indices
  PROVE  Abstract!IndexError(dims, indices) = IndexError(dims, indices)
  BY Zenon DEF IndexError, value_is_numeric, value_is_float,
        value_is_int, value_int, Quotient, Magnitude, IntMin, IntRange,
        Abstract!IndexError,
        Abstract!value_is_numeric, Abstract!value_is_float, Abstract!value_is_int,
        Abstract!value_int, Abstract!Quotient, Abstract!Magnitude, Abstract!IntMin,
        Abstract!IntRange

(* the arrays that DIM makes,                                              *)
LEMMA SameArrays ==
  /\ \A dims : Abstract!array_size(dims) = array_size(dims)
  /\ \A dims, indices : Abstract!array_index(dims, indices) = array_index(dims, indices)
<1>1. \A d : Abstract!Extent(d) = Extent(d)
  BY SameValues, Zenon DEF Extent, Abstract!Extent
<1>2. \A dims : Abstract!array_size(dims) = array_size(dims)
  BY <1>1, Zenon DEF array_size, Abstract!array_size
<1>3. \A dims : Abstract!RowSizes(dims) = RowSizes(dims)
  BY <1>1, <1>2, Zenon DEF RowSizes, Abstract!RowSizes
<1>4. \A dims, indices : Abstract!array_index(dims, indices) = array_index(dims, indices)
  BY <1>3, SameValues, Zenon DEF array_index, Abstract!array_index
<1> QED BY <1>2, <1>4

(* how their memory is got,                                                *)
LEMMA SameAllocation ==
  ASSUME NEW dims
  PROVE  Abstract!Allocation(dims) = Allocation(dims)
  BY SameArrays, Zenon DEF Allocation, PointerSize, Abstract!Allocation, Abstract!PointerSize

(* why an element cannot be had,                                           *)
LEMMA SameElementError ==
  ASSUME NEW u, NEW indices
  PROVE  Abstract!ElementError(u, indices) = ElementError(u, indices)
  BY SameArrays, SameIndexError, Zenon DEF ElementError, STATUS_ERROR,
     Abstract!ElementError, Abstract!STATUS_ERROR

(* and the elements of an array.                                           *)
LEMMA SameElements ==
  ASSUME NEW type, NEW v
  PROVE  /\ Abstract!ElementFits(type, v) = ElementFits(type, v)
         /\ Abstract!Element(type, v) = Element(type, v)
         /\ Abstract!Zero(type) = Zero(type)
  BY SameTests, SameValues, Zenon
  DEF ElementFits, Element, Zero, value_float_new, value_int_new, value_string_new,
      GCD, Quotient, Magnitude,
      Abstract!ElementFits, Abstract!Element, Abstract!Zero, Abstract!value_float_new,
      Abstract!value_int_new, Abstract!value_string_new,
      Abstract!GCD, Abstract!Quotient, Abstract!Magnitude

-----------------------------------------------------------------------------
(* Scopes: what a table binds each name to.                                *)

Scope(t) == [id \in {s.id : s \in Symbols(t)} |->
               LET s == symbol_find_frame(id, t)
               IN  [type |-> s.type, u |-> s.u]]

(* The scope of a table binds the names in it to their symbols.            *)
LEMMA ScopeIs ==
  ASSUME NEW t, Hashed(t)
  PROVE  /\ DOMAIN Scope(t) = {s.id : s \in Symbols(t)}
         /\ \A s \in Symbols(t) : Scope(t)[s.id] = Abstract!Cell(s.type, s.u)
<1>1. ASSUME NEW s \in Symbols(t) PROVE Scope(t)[s.id] = Abstract!Cell(s.type, s.u)
  <2>1. symbol_find_frame(s.id, t) = s
    BY FindIs
  <2> QED BY <2>1 DEF Scope, Abstract!Cell
<1> QED BY <1>1 DEF Scope

(* A scope is a function on the names of its table.                        *)
LEMMA ScopeIsFunction ==
  ASSUME NEW t
  PROVE  Scope(t) = [id \in DOMAIN Scope(t) |-> Scope(t)[id]]
  BY DEF Scope

(* Inserting a symbol into a table is binding its name in the scope.       *)
LEMMA ScopeWith ==
  ASSUME NEW t, Hashed(t), NEW u, Hashed(u), NEW s \in SymbolSet,
         Symbols(u) = {s} \cup {q \in Symbols(t) : q.id # s.id}
  PROVE  Scope(u) = Abstract!With(Scope(t), Abstract!Only(s.id, Abstract!Cell(s.type, s.u)))
<1> DEFINE w == Abstract!With(Scope(t), Abstract!Only(s.id, Abstract!Cell(s.type, s.u)))
<1>1. DOMAIN w = DOMAIN Scope(t) \cup {s.id}
  BY DEF Abstract!With, Abstract!Only
<1>2. \A id \in DOMAIN w :
        w[id] = IF id = s.id THEN Abstract!Cell(s.type, s.u) ELSE Scope(t)[id]
  BY DEF Abstract!With, Abstract!Only
<1>3. w = [id \in DOMAIN w |-> w[id]]
  BY DEF Abstract!With
<1> HIDE DEF w
<1>4. DOMAIN Scope(u) = DOMAIN w
  <2>1. DOMAIN Scope(t) = {q.id : q \in Symbols(t)} /\ DOMAIN Scope(u) = {q.id : q \in Symbols(u)}
    BY ScopeIs
  <2> DEFINE old == Symbols(t)
             new == Symbols(u)
  <2>2. new = {s} \cup {q \in old : q.id # s.id}
    OBVIOUS
  <2> HIDE DEF old, new
  <2>3. {q.id : q \in new} = {q.id : q \in old} \cup {s.id}
    BY <2>2
  <2> QED BY <1>1, <2>1, <2>3 DEF old, new
<1>5. ASSUME NEW id \in DOMAIN w PROVE Scope(u)[id] = w[id]
  <2>1. CASE id = s.id
    <3>1. Scope(u)[s.id] = Abstract!Cell(s.type, s.u)
      BY ScopeIs
    <3> QED BY <2>1, <3>1, <1>2
  <2>2. CASE id # s.id
    <3>1. id \in DOMAIN Scope(t)
      BY <2>2, <1>1
    <3>2. id \in {q.id : q \in Symbols(t)}
      BY <3>1, ScopeIs
    <3>3. PICK q \in Symbols(t) : q.id = id
      BY <3>2
    <3>4. q \in Symbols(u)
      BY <2>2, <3>3
    <3>5. Scope(u)[q.id] = Abstract!Cell(q.type, q.u) /\ Scope(t)[q.id] = Abstract!Cell(q.type, q.u)
      BY <3>4, ScopeIs
    <3> QED BY <2>2, <3>3, <3>5, <1>2
  <2> QED BY <2>1, <2>2
<1> QED BY <1>3, <1>4, <1>5, ScopeIsFunction DEF w

(* A later binding replaces an earlier one.                                *)
LEMMA WithTwice ==
  ASSUME NEW a, NEW b, NEW c
  PROVE  Abstract!With(a, Abstract!With(b, c)) = Abstract!With(Abstract!With(a, b), c)
  BY DEF Abstract!With

(* Binding no name changes nothing.                                        *)
LEMMA WithNothing ==
  ASSUME NEW a, a = [id \in DOMAIN a |-> a[id]], NEW b, DOMAIN b = {}
  PROVE  Abstract!With(a, b) = a
  BY DEF Abstract!With

(* What Scopes does with the parameters, one place after the other.        *)
LEMMA LastOf ==
  ASSUME NEW S, S \subseteq Int, NEW i \in S, \A j \in S : j <= i
  PROVE  Abstract!Last1(S) = i
<1>1. ASSUME NEW k \in S, \A j \in S : j <= k PROVE k = i
  <2>1. k \in Int /\ i \in Int /\ k <= i /\ i <= k
    BY <1>1
  <2> QED BY <2>1
<1> QED BY <1>1 DEF Abstract!Last1

(* The locals of a call before any argument,                               *)
LEMMA LocalsAtNone ==
  ASSUME NEW ids, NEW vals
  PROVE  DOMAIN Abstract!LocalsAt(ids, vals, {}) = {}
  BY DEF Abstract!LocalsAt

(* and after one more argument.                                            *)
LEMMA LocalsAtNext ==
  ASSUME NEW ids, NEW vals, NEW i \in Int, NEW S, S \subseteq Int, \A j \in S : j < i
  PROVE  Abstract!LocalsAt(ids, vals, S \cup {i})
           = Abstract!With(Abstract!LocalsAt(ids, vals, S),
                           Abstract!Only(ids[i], Abstract!Variable(vals[i])))
<1> DEFINE T == S \cup {i}
           old == Abstract!LocalsAt(ids, vals, S)
           new == Abstract!LocalsAt(ids, vals, T)
           At(X, id) == {j \in X : ids[j] = id}
           w == Abstract!With(old, Abstract!Only(ids[i], Abstract!Variable(vals[i])))
<1>1. /\ old = [id \in DOMAIN old |-> old[id]]
      /\ DOMAIN old = {ids[j] : j \in S}
      /\ \A id \in DOMAIN old :
           old[id] = Abstract!Variable(vals[Abstract!Last1(At(S, id))])
  BY DEF Abstract!LocalsAt
<1>2. /\ new = [id \in DOMAIN new |-> new[id]]
      /\ DOMAIN new = {ids[j] : j \in T}
      /\ \A id \in DOMAIN new :
           new[id] = Abstract!Variable(vals[Abstract!Last1(At(T, id))])
  BY DEF Abstract!LocalsAt
<1>3. /\ w = [id \in DOMAIN w |-> w[id]]
      /\ DOMAIN w = DOMAIN old \cup {ids[i]}
      /\ \A id \in DOMAIN w :
           w[id] = IF id = ids[i] THEN Abstract!Variable(vals[i]) ELSE old[id]
  BY DEF Abstract!With, Abstract!Only
<1>4. Abstract!Last1(At(T, ids[i])) = i
  <2>1. ASSUME NEW j \in At(T, ids[i]) PROVE j \in Int /\ j <= i
    <3>1. CASE j = i
      BY <3>1
    <3>2. CASE j # i
      <4>1. j \in S /\ j \in Int /\ j < i
        BY <3>2
      <4> QED BY <4>1
    <3> QED BY <3>1, <3>2
  <2>2. At(T, ids[i]) \subseteq Int /\ i \in At(T, ids[i])
    BY <2>1
  <2> HIDE DEF At
  <2> QED BY <2>1, <2>2, LastOf
<1>5. \A id : id # ids[i] => At(T, id) = At(S, id)
  OBVIOUS
<1>6. DOMAIN new = DOMAIN w
  <2>1. {ids[j] : j \in T} = {ids[j] : j \in S} \cup {ids[i]}
    OBVIOUS
  <2> HIDE DEF new, old, w
  <2> QED BY <1>1, <1>2, <1>3, <2>1
<1> HIDE DEF w, new, old, At
<1>7. ASSUME NEW id \in DOMAIN w PROVE new[id] = w[id]
  <2>1. CASE id = ids[i]
    BY <2>1, <1>2, <1>3, <1>4, <1>6
  <2>2. CASE id # ids[i]
    <3>1. At(T, id) = At(S, id) /\ id \in DOMAIN old /\ id \in DOMAIN new
      BY <2>2, <1>3, <1>5, <1>6
    <3>2. w[id] = old[id]
      BY <2>2, <1>3
    <3> QED BY <3>1, <3>2, <1>1, <1>2
  <2> QED BY <2>1, <2>2
<1>8. new = w
  BY <1>2, <1>3, <1>6, <1>7
<1> QED BY <1>8 DEF new, old, w

(* The residents of a call before any argument,                            *)
LEMMA ResidentsAtNone ==
  ASSUME NEW ids, NEW vals, residents \in [Letters -> IntRange]
  PROVE  Abstract!ResidentsAt(ids, vals, {}) = residents
  BY DEF Abstract!ResidentsAt

ResidentsNext(ids, vals, i, S) ==
  /\ variable_name_is_resident(ids[i]) =>
       Abstract!ResidentsAt(ids, vals, S \cup {i})
         = [Abstract!ResidentsAt(ids, vals, S) EXCEPT ![ids[i][1]] = vals[i].num]
  /\ ~variable_name_is_resident(ids[i]) =>
       Abstract!ResidentsAt(ids, vals, S \cup {i}) = Abstract!ResidentsAt(ids, vals, S)

(* and after one more argument.                                            *)
LEMMA ResidentsAtNext ==
  ASSUME NEW ids, NEW vals, NEW i \in Int, NEW S, S \subseteq Int, \A j \in S : j < i,
         residents \in [Letters -> IntRange]
  PROVE  ResidentsNext(ids, vals, i, S)
<1> DEFINE T == S \cup {i}
           old == Abstract!ResidentsAt(ids, vals, S)
           new == Abstract!ResidentsAt(ids, vals, T)
           c0 == ids[i][1]
           At(X, c) == {j \in X : variable_name_is_resident(ids[j]) /\ ids[j][1] = c}
<1>1. /\ old = [c \in Letters |-> old[c]]
      /\ \A c \in Letters :
           old[c] = IF At(S, c) = {} THEN residents[c]
                    ELSE vals[Abstract!Last1(At(S, c))].num
  BY SameNames DEF Abstract!ResidentsAt, Abstract!Resident
<1>2. /\ new = [c \in Letters |-> new[c]]
      /\ \A c \in Letters :
           new[c] = IF At(T, c) = {} THEN residents[c]
                    ELSE vals[Abstract!Last1(At(T, c))].num
  BY SameNames DEF Abstract!ResidentsAt, Abstract!Resident
<1>3. ASSUME variable_name_is_resident(ids[i]) PROVE new = [old EXCEPT ![c0] = vals[i].num]
  <2>1. Abstract!Last1(At(T, c0)) = i /\ At(T, c0) # {}
    <3>1. ASSUME NEW j \in At(T, c0) PROVE j \in Int /\ j <= i
      <4>1. CASE j = i
        BY <4>1
      <4>2. CASE j # i
        <5>1. j \in S /\ j \in Int /\ j < i
          BY <4>2
        <5> QED BY <5>1
      <4> QED BY <4>1, <4>2
    <3>2. At(T, c0) \subseteq Int /\ i \in At(T, c0)
      BY <3>1, <1>3
    <3> HIDE DEF At
    <3> QED BY <3>1, <3>2, LastOf
  <2>2. \A c : c # c0 => At(T, c) = At(S, c)
    OBVIOUS
  <2> HIDE DEF At, new, old, T
  <2>3. ASSUME NEW c \in Letters
        PROVE  new[c] = IF c = c0 THEN vals[i].num ELSE old[c]
    <3>1. CASE c = c0
      BY <3>1, <2>1, <1>2
    <3>2. CASE c # c0
      <4>1. At(T, c) = At(S, c)
        BY <3>2, <2>2
      <4> QED BY <3>2, <4>1, <1>1, <1>2
    <3> QED BY <3>1, <3>2
  <2>4. [old EXCEPT ![c0] = vals[i].num]
          = [c \in Letters |-> IF c = c0 THEN vals[i].num ELSE old[c]]
    BY <1>1
  <2> QED BY <1>2, <2>3, <2>4
<1>4. ASSUME ~variable_name_is_resident(ids[i]) PROVE new = old
  <2>1. \A c : At(T, c) = At(S, c)
    BY <1>4
  <2> HIDE DEF At, new, old, T
  <2> QED BY <1>1, <1>2, <2>1
<1> QED BY <1>3, <1>4 DEF ResidentsNext

-----------------------------------------------------------------------------
(* Locals given values one after the other.                                *)

Lists(ids, vals) ==
  ids \in Seq(Variables) /\ \A i \in 1..Len(ids) : vals[i] \in Value \cup {NULL}

LocalStep(ids, vals, i, st) ==
  IF st.error # "none" THEN st ELSE symbol_variable_assign_local(ids[i], vals[i], st)

After(ids, vals, table) ==
  CHOOSE g : g = [i \in 0..Len(ids) |->
                    IF i = 0 THEN [table |-> table, residents |-> residents, error |-> "none"]
                    ELSE IF g[i - 1].error # "none" THEN g[i - 1]
                    ELSE symbol_variable_assign_local(ids[i], vals[i], g[i - 1])]

(* Assigning a parameter gives a state of the parts.                       *)
LEMMA AssignedInStates ==
  ASSUME NEW id \in Variables, NEW v \in Value \cup {NULL}, NEW st \in States
  PROVE  symbol_variable_assign_local(id, v, st) \in States
<1>1. CASE variable_name_is_resident(id)
  <2>1. id[1] \in Letters
    BY <1>1, ResidentLetter
  <2>2. symbol_variable_assign_local(id, v, st) = resident_assign(id[1], v, st)
    BY <1>1 DEF symbol_variable_assign_local
  <2>3. resident_assign(id[1], v, st) \in States
    BY <2>1, ResidentAssigned, Zenon
  <2> QED BY <2>2, <2>3
<1>2. CASE ~variable_name_is_resident(id)
  <2>1. Filled(id, v) \in Value
    BY FilledIs
  <2>2. symbol_variable_assign_local(id, v, st) = variable_add_frame(id, Filled(id, v), st)
    BY <1>2, LocalAssigned
  <2> QED BY <2>1, <2>2, VariableAdded
<1> QED BY <1>1, <1>2

(* The recursive function that binds the arguments, unfolded once.         *)
LEMMA AfterIs ==
  ASSUME NEW ids, NEW vals, Lists(ids, vals), NEW table, Hashed(table),
         residents \in [Letters -> IntRange]
  PROVE  /\ AssignLocals(ids, vals, table) = After(ids, vals, table)[Len(ids)]
         /\ After(ids, vals, table)[0]
              = [table |-> table, residents |-> residents, error |-> "none"]
         /\ \A i \in 1..Len(ids) :
              After(ids, vals, table)[i]
                = LocalStep(ids, vals, i, After(ids, vals, table)[i - 1])
<1> DEFINE n == Len(ids)
           e == [table |-> table, residents |-> residents, error |-> "none"]
           H == [i \in 1..n |-> [q \in States |-> LocalStep(ids, vals, i, q)]]
           K(g) == [i \in 0..n |-> IF i = 0 THEN e
                                  ELSE IF g[i - 1].error # "none" THEN g[i - 1]
                                  ELSE symbol_variable_assign_local(ids[i], vals[i], g[i - 1])]
           L(g) == [i \in 0..n |-> IF i = 0 THEN e ELSE LocalStep(ids, vals, i, g[i - 1])]
<1>1. n \in Nat
  BY DEF Lists
<1>2. e \in States
  BY StateIs
<1>3. H \in [1..n -> [States -> States]]
  <2>1. ASSUME NEW i \in 1..n, NEW q \in States PROVE LocalStep(ids, vals, i, q) \in States
    <3>1. ids[i] \in Variables /\ vals[i] \in Value \cup {NULL}
      BY DEF Lists
    <3> QED BY <3>1, AssignedInStates DEF LocalStep
  <2> QED BY <2>1
<1>4. PICK g \in [0..n -> States] : Iterates(g, n, e, H)
  <2> HIDE DEF n, H, e
  <2> QED BY <1>1, <1>2, <1>3, RecursionExists
<1>5. g = L(g)
  <2> HIDE DEF n, e
  <2>1. ASSUME NEW i \in 1..n
        PROVE  g[i] = LocalStep(ids, vals, i, g[i - 1])
    <3>1. g[i - 1] \in States
      BY <1>1
    <3> QED BY <1>4, <3>1 DEF Iterates
  <2>2. ASSUME NEW i \in 0..n PROVE g[i] = L(g)[i]
    <3>1. CASE i = 0
      BY <1>4, <3>1 DEF Iterates
    <3>2. CASE i # 0
      <4>1. i \in 1..n
        BY <1>1, <3>2
      <4>2. L(g)[i] = LocalStep(ids, vals, i, g[i - 1])
        BY <3>2
      <4> QED BY <2>1, <4>1, <4>2
    <3> QED BY <3>1, <3>2
  <2> QED BY <2>2
<1>6. g = K(g)
  <2>1. K(g) = L(g)
    BY DEF LocalStep
  <2> QED BY <1>5, <2>1
<1>7. After(ids, vals, table) = K(After(ids, vals, table))
  <2>1. \E f : f = K(f)
    BY <1>6
  <2> QED BY <2>1, Zenon DEF After
<1>8. AssignLocals(ids, vals, table) = After(ids, vals, table)[n]
  BY Zenon DEF AssignLocals, After
<1> HIDE DEF n, e
<1>9. After(ids, vals, table) = L(After(ids, vals, table))
  <2>1. K(After(ids, vals, table)) = L(After(ids, vals, table))
    BY DEF LocalStep
  <2> QED BY <1>7, <2>1
<1>10. \A i \in 0..n : After(ids, vals, table)[i] = L(After(ids, vals, table))[i]
  BY <1>9, Zenon
<1>11. \A i \in 0..n : L(After(ids, vals, table))[i] =
        IF i = 0 THEN e ELSE LocalStep(ids, vals, i, After(ids, vals, table)[i - 1])
  OBVIOUS
<1>12. After(ids, vals, table)[0] = e
  BY <1>1, <1>10, <1>11
<1>13. ASSUME NEW i \in 1..n
       PROVE  After(ids, vals, table)[i]
                = LocalStep(ids, vals, i, After(ids, vals, table)[i - 1])
  <2>1. i \in 0..n /\ i # 0
    BY <1>1
  <2> QED BY <2>1, <1>10, <1>11
<1> QED BY <1>8, <1>12, <1>13 DEF n, e

(* Whether a name takes its value, and the places up to i before the first *)
(* that does not.                                                          *)
TakesAt(ids, vals, i) ==
  IF variable_name_is_resident(ids[i]) THEN vals[i] # NULL /\ value_is_int(vals[i])
  ELSE Fits(ids[i], Filled(ids[i], vals[i]))
Taken(ids, vals, i) == {j \in 1..i : \A k \in 1..j : TakesAt(ids, vals, k)}
TakenLocals(ids, vals, i) ==
  {j \in Taken(ids, vals, i) : ~variable_name_is_resident(ids[j])}
Filling(ids, vals) == [i \in DOMAIN ids |-> Filled(ids[i], vals[i])]

VariableOK(q) ==
  q.type \in Simple /\ q.id \in Variables /\ q.type = Kind(q.u) /\ Fits(q.id, q.u)

StepTakes(ids, vals, i, st, new) ==
  /\ new \in States
  /\ TakesAt(ids, vals, i) => new.error = "none"
  /\ ~TakesAt(ids, vals, i) =>
       /\ new.error = IF vals[i] = NULL THEN "crash" ELSE "TYPE_MISMATCH"
       /\ new.table = st.table /\ new.residents = st.residents
  /\ TakesAt(ids, vals, i) /\ variable_name_is_resident(ids[i]) =>
       /\ new.residents = [st.residents EXCEPT ![ids[i][1]] = vals[i].num]
       /\ new.table = st.table
  /\ TakesAt(ids, vals, i) /\ ~variable_name_is_resident(ids[i]) =>
       /\ new.residents = st.residents
       /\ Scope(new.table) =
            Abstract!With(Scope(st.table),
              Abstract!Only(ids[i], Abstract!Variable(Filled(ids[i], vals[i]))))
       /\ \A q \in Symbols(new.table) : q \in Symbols(st.table) \/ VariableOK(q)

(* One argument: what it does to the frame, the residents and the error.   *)
LEMMA LocalStepTakes ==
  ASSUME NEW ids, NEW vals, Lists(ids, vals), NEW i \in 1..Len(ids),
         NEW st \in States, st.error = "none",
         NEW new, new = LocalStep(ids, vals, i, st)
  PROVE  StepTakes(ids, vals, i, st, new)
<1> DEFINE id == ids[i]
           v == vals[i]
           w == Filled(id, v)
<1>1. id \in Variables /\ v \in Value \cup {NULL}
  BY DEF Lists
<1>2. new = symbol_variable_assign_local(id, v, st)
  BY DEF LocalStep
<1>3. CASE variable_name_is_resident(id)
  <2>1. id[1] \in Letters
    BY <1>3, ResidentLetter
  <2>2. new = resident_assign(id[1], v, st)
    BY <1>2, <1>3 DEF symbol_variable_assign_local
  <2>3. /\ new \in States
        /\ new.table = st.table
        /\ v = NULL => new.error = "crash" /\ new.residents = st.residents
        /\ v # NULL /\ value_is_int(v) =>
             new.error = st.error /\ new.residents = [st.residents EXCEPT ![id[1]] = v.num]
        /\ v # NULL /\ ~value_is_int(v) =>
             new.error = "TYPE_MISMATCH" /\ new.residents = st.residents
    <3> HIDE DEF id, v
    <3> QED BY <1>1, <2>1, <2>2, ResidentAssigned
  <2> QED BY <1>3, <2>3 DEF TakesAt, StepTakes
<1>4. CASE ~variable_name_is_resident(id)
  <2>1. w \in Value
    BY <1>1, FilledIs
  <2>2. new = variable_add_frame(id, w, st)
    BY <1>1, <1>2, <1>4, LocalAssigned
  <2> DEFINE s == Symbol(id, Kind(w), w)
  <2>3. /\ new \in States
        /\ new.residents = st.residents
        /\ Fits(id, w) =>
             /\ new.error = st.error
             /\ Symbols(new.table) = {s} \cup {q \in Symbols(st.table) : q.id # id}
        /\ ~Fits(id, w) => new.error = "TYPE_MISMATCH" /\ new.table = st.table
    <3> HIDE DEF id, w
    <3> QED BY <1>1, <2>1, <2>2, VariableAdded
  <2>4. CASE Fits(id, w)
    <3>1. s \in SymbolSet /\ s.id = id /\ s.type = Kind(w) /\ s.u = w
      <4> HIDE DEF id, w
      <4> QED BY <1>1, <2>1, VariableIsSymbol
    <3>2. VariableOK(s)
      BY <1>1, <2>4, <3>1, KindIsSimple DEF VariableOK
    <3> HIDE DEF s, w
    <3>3. Scope(new.table)
            = Abstract!With(Scope(st.table), Abstract!Only(id, Abstract!Cell(Kind(w), w)))
      <4> HIDE DEF id
      <4>1. Hashed(new.table) /\ Hashed(st.table)
        BY <2>3, StateParts
      <4> QED BY <2>3, <2>4, <3>1, <4>1, ScopeWith
    <3>4. Abstract!Variable(w) = Abstract!Cell(Kind(w), w)
      BY SameTests DEF Abstract!Variable
    <3>5. TakesAt(ids, vals, i)
      BY <1>4, <2>4 DEF TakesAt, w
    <3> QED BY <1>4, <2>3, <2>4, <3>2, <3>3, <3>4, <3>5 DEF w, StepTakes
  <2>5. CASE ~Fits(id, w)
    <3>1. ~TakesAt(ids, vals, i)
      BY <1>4, <2>5 DEF TakesAt
    <3>2. v # NULL
      BY <2>5, BlankIs DEF Filled
    <3> QED BY <2>3, <2>5, <3>1, <3>2 DEF StepTakes
  <2> QED BY <2>4, <2>5
<1> QED BY <1>3, <1>4

(* An argument is taken when all those before it are and it fits.          *)
LEMMA TakenNext ==
  ASSUME NEW ids, NEW vals, NEW i \in Nat \ {0}
  PROVE  /\ Taken(ids, vals, i - 1) = 1..(i - 1) /\ TakesAt(ids, vals, i) =>
              /\ Taken(ids, vals, i) = 1..i
              /\ Taken(ids, vals, i) = Taken(ids, vals, i - 1) \cup {i}
         /\ Taken(ids, vals, i - 1) = 1..(i - 1) /\ ~TakesAt(ids, vals, i) =>
              /\ Taken(ids, vals, i) = Taken(ids, vals, i - 1)
              /\ Taken(ids, vals, i) # 1..i
         /\ Taken(ids, vals, i - 1) # 1..(i - 1) =>
              /\ Taken(ids, vals, i) = Taken(ids, vals, i - 1)
              /\ Taken(ids, vals, i) # 1..i
<1> DEFINE T(j) == TakesAt(ids, vals, j)
           old == Taken(ids, vals, i - 1)
           new == Taken(ids, vals, i)
<1>1. old = {j \in 1..(i - 1) : \A k \in 1..j : T(k)}
  BY DEF Taken
<1>2. new = {j \in 1..i : \A k \in 1..j : T(k)}
  BY DEF Taken
<1> HIDE DEF T, old, new
<1>3. 1..i = (1..(i - 1)) \cup {i} /\ i \notin 1..(i - 1)
  OBVIOUS
<1>4. new = old \cup {j \in {i} : \A k \in 1..j : T(k)}
  BY <1>1, <1>2, <1>3
<1>5. ASSUME old = 1..(i - 1) PROVE \A k \in 1..(i - 1) : T(k)
  <2>1. ASSUME NEW k \in 1..(i - 1) PROVE T(k)
    <3>1. k \in old /\ k \in 1..k
      BY <1>5
    <3> QED BY <3>1, <1>1
  <2> QED BY <2>1
<1>6. CASE old = 1..(i - 1) /\ T(i)
  <2>1. \A k \in 1..i : T(k)
    BY <1>3, <1>5, <1>6
  <2>2. new = old \cup {i}
    BY <1>4, <2>1
  <2> QED BY <1>6, <2>2, <1>3 DEF T, old, new
<1>7. CASE old = 1..(i - 1) /\ ~T(i)
  <2>1. i \in 1..i
    OBVIOUS
  <2>2. new = old
    BY <1>4, <1>7, <2>1
  <2>3. new # 1..i
    BY <2>1, <2>2, <1>3, <1>7
  <2> QED BY <1>7, <2>2, <2>3 DEF T, old, new
<1>8. CASE old # 1..(i - 1)
  <2>1. PICK j \in 1..(i - 1) : j \notin old
    BY <1>8, <1>1
  <2>2. PICK k \in 1..j : ~T(k)
    BY <2>1, <1>1
  <2>3. k \in 1..i
    BY <2>1, <2>2
  <2>4. new = old
    BY <1>4, <2>2, <2>3
  <2>5. new # 1..i
    BY <2>1, <2>4, <1>3
  <2> QED BY <1>8, <2>4, <2>5 DEF T, old, new
<1> QED BY <1>6, <1>7, <1>8 DEF T, old

(* What becomes of a table and of the resident integers: the names up to   *)
(* the first that does not take its value are bound, as Scopes has it.     *)
BoundUpTo(ids, vals, table, i, st) ==
  /\ st \in States
  /\ st.residents = Abstract!ResidentsAt(ids, vals, Taken(ids, vals, i))
  /\ Scope(st.table) = Abstract!With(Scope(table),
       Abstract!LocalsAt(ids, Filling(ids, vals), TakenLocals(ids, vals, i)))
  /\ st.error = "none" <=> Taken(ids, vals, i) = 1..i
  /\ st.error # "none" => \E j \in 1..i : /\ ~TakesAt(ids, vals, j)
                                          /\ st.error = IF vals[j] = NULL THEN "crash"
                                                        ELSE "TYPE_MISMATCH"
  /\ \A q \in Symbols(st.table) : q \in Symbols(table) \/ VariableOK(q)

(* By induction on the arguments: the frame, the residents and the error   *)
(* of a call are those Scopes gives.                                       *)
LEMMA LocalsBound ==
  ASSUME NEW ids, NEW vals, Lists(ids, vals), NEW table, Hashed(table),
         residents \in [Letters -> IntRange]
  PROVE  BoundUpTo(ids, vals, table, Len(ids), AssignLocals(ids, vals, table))
<1> DEFINE n == Len(ids)
           A == After(ids, vals, table)
           B(i, st) == BoundUpTo(ids, vals, table, i, st)
           P == {i \in 0..n : B(i, A[i])}
<1>1. n \in Nat /\ DOMAIN ids = 1..n
  BY DEF Lists
<1>2. 0 \in P
  <2> DEFINE e == [table |-> table, residents |-> residents, error |-> "none"]
  <2>1. A[0] = e
    BY AfterIs
  <2>2. e \in States
    BY StateIs
  <2>3. Taken(ids, vals, 0) = {} /\ TakenLocals(ids, vals, 0) = {}
    BY DEF Taken, TakenLocals
  <2>4. Abstract!ResidentsAt(ids, vals, {}) = residents
    BY ResidentsAtNone
  <2>5. Abstract!With(Scope(table), Abstract!LocalsAt(ids, Filling(ids, vals), {}))
          = Scope(table)
    BY WithNothing, LocalsAtNone, ScopeIsFunction
  <2>6. 1..0 = {}
    OBVIOUS
  <2>7. B(0, e)
    BY <2>2, <2>3, <2>4, <2>5, <2>6 DEF BoundUpTo
  <2> HIDE DEF B, A
  <2> QED BY <1>1, <2>1, <2>7
<1>3. ASSUME NEW i \in 1..n, i - 1 \in P PROVE i \in P
  <2> DEFINE st == A[i - 1]
             new == A[i]
             S == Taken(ids, vals, i - 1)
             F == TakenLocals(ids, vals, i - 1)
  <2>1. B(i - 1, st)
    BY <1>3
  <2>2. new = LocalStep(ids, vals, i, st)
    BY AfterIs
  <2>3. i \in Nat \ {0} /\ i \in Int /\ i \in 0..n
    BY <1>1
  <2>4. S \subseteq Int /\ (\A j \in S : j < i) /\ F \subseteq S
    BY <2>3 DEF Taken, TakenLocals
  <2>5. 1..(i - 1) \subseteq 1..i /\ i \in 1..i
    BY <2>3
  <2> HIDE DEF A, P, n
  <2>6. CASE st.error # "none"
    <3>1. S # 1..(i - 1)
      BY <2>1, <2>6 DEF BoundUpTo
    <3>2. Taken(ids, vals, i) = S /\ Taken(ids, vals, i) # 1..i
      BY <3>1, <2>3, TakenNext
    <3>3. TakenLocals(ids, vals, i) = F
      BY <3>2 DEF TakenLocals
    <3>4. new = st
      BY <2>2, <2>6 DEF LocalStep
    <3> HIDE DEF st, new, S, F
    <3>5. B(i, st)
      BY <2>1, <2>5, <2>6, <3>2, <3>3 DEF BoundUpTo, S, F
    <3> HIDE DEF B
    <3> QED BY <3>4, <3>5, <2>3 DEF P, new
  <2>7. CASE st.error = "none"
    <3>1. S = 1..(i - 1) /\ st \in States
      BY <2>1, <2>7 DEF BoundUpTo
    <3> HIDE DEF st, new
    <3>s. StepTakes(ids, vals, i, st, new)
      BY <2>2, <2>7, <3>1, LocalStepTakes, Zenon DEF n
    <3>2. CASE ~TakesAt(ids, vals, i)
      <4>1. /\ new \in States
            /\ new.error = IF vals[i] = NULL THEN "crash" ELSE "TYPE_MISMATCH"
            /\ new.table = st.table /\ new.residents = st.residents
        BY <3>s, <3>2 DEF StepTakes
      <4>2. Taken(ids, vals, i) = S /\ Taken(ids, vals, i) # 1..i
        BY <3>1, <3>2, <2>3, TakenNext
      <4>3. TakenLocals(ids, vals, i) = F
        BY <4>2 DEF TakenLocals
      <4> HIDE DEF S, F
      <4>4. B(i, new)
        BY <2>1, <2>5, <3>2, <4>1, <4>2, <4>3 DEF BoundUpTo, S, F
      <4> HIDE DEF B
      <4> QED BY <4>4, <2>3 DEF P, new
    <3>3. CASE TakesAt(ids, vals, i) /\ variable_name_is_resident(ids[i])
      <4>1. /\ new \in States /\ new.error = "none"
            /\ new.residents = [st.residents EXCEPT ![ids[i][1]] = vals[i].num]
            /\ new.table = st.table
        BY <3>s, <3>3 DEF StepTakes
      <4>2. Taken(ids, vals, i) = S \cup {i} /\ Taken(ids, vals, i) = 1..i
        BY <3>1, <3>3, <2>3, TakenNext
      <4>3. TakenLocals(ids, vals, i) = F
        BY <4>2, <3>3 DEF TakenLocals
      <4> HIDE DEF S, F
      <4>a. S \subseteq Int /\ \A j \in S : j < i
        BY <2>4
      <4>b. ResidentsNext(ids, vals, i, S)
        BY <2>3, <4>a, ResidentsAtNext
      <4>4. Abstract!ResidentsAt(ids, vals, S \cup {i})
              = [Abstract!ResidentsAt(ids, vals, S) EXCEPT ![ids[i][1]] = vals[i].num]
        BY <3>3, <4>b DEF ResidentsNext
      <4>5. B(i, new)
        BY <2>1, <4>1, <4>2, <4>3, <4>4 DEF BoundUpTo, S, F
      <4> HIDE DEF B
      <4> QED BY <4>5, <2>3 DEF P, new
    <3>4. CASE TakesAt(ids, vals, i) /\ ~variable_name_is_resident(ids[i])
      <4> DEFINE w == Filled(ids[i], vals[i])
                 one == Abstract!Only(ids[i], Abstract!Variable(w))
                 old == Abstract!LocalsAt(ids, Filling(ids, vals), F)
      <4>1. /\ new \in States /\ new.error = "none"
            /\ new.residents = st.residents
            /\ Scope(new.table) = Abstract!With(Scope(st.table), one)
            /\ \A q \in Symbols(new.table) : q \in Symbols(st.table) \/ VariableOK(q)
        BY <3>s, <3>4 DEF StepTakes
      <4>2. Taken(ids, vals, i) = S \cup {i} /\ Taken(ids, vals, i) = 1..i
        BY <3>1, <3>4, <2>3, TakenNext
      <4>3. TakenLocals(ids, vals, i) = F \cup {i}
        BY <4>2, <3>4 DEF TakenLocals
      <4>4. Filling(ids, vals)[i] = w
        BY <1>1 DEF Filling, n
      <4>5. Abstract!LocalsAt(ids, Filling(ids, vals), F \cup {i}) = Abstract!With(old, one)
        <5>1. F \subseteq Int /\ \A j \in F : j < i
          BY <2>4
        <5> HIDE DEF F
        <5>2. Abstract!LocalsAt(ids, Filling(ids, vals), F \cup {i})
                = Abstract!With(old, Abstract!Only(ids[i],
                    Abstract!Variable(Filling(ids, vals)[i])))
          BY <2>3, <5>1, LocalsAtNext
        <5> QED BY <5>2, <4>4
      <4> HIDE DEF S, F, w
      <4>a. S \subseteq Int /\ \A j \in S : j < i
        BY <2>4
      <4>b. ResidentsNext(ids, vals, i, S)
        BY <2>3, <4>a, ResidentsAtNext
      <4>6. Abstract!ResidentsAt(ids, vals, S \cup {i}) = Abstract!ResidentsAt(ids, vals, S)
        BY <3>4, <4>b DEF ResidentsNext
      <4>7. Scope(st.table) = Abstract!With(Scope(table), old)
        BY <2>1 DEF BoundUpTo, F
      <4> HIDE DEF one, old
      <4>8. Scope(new.table) = Abstract!With(Scope(table), Abstract!With(old, one))
        BY <4>1, <4>7, WithTwice
      <4>9. \A q \in Symbols(new.table) : q \in Symbols(table) \/ VariableOK(q)
        BY <2>1, <4>1 DEF BoundUpTo
      <4>10. new.residents = Abstract!ResidentsAt(ids, vals, S \cup {i})
        BY <2>1, <4>1, <4>6 DEF BoundUpTo, S
      <4>11. B(i, new)
        BY <4>1, <4>2, <4>3, <4>5, <4>8, <4>9, <4>10 DEF BoundUpTo, S, F
      <4> HIDE DEF B
      <4> QED BY <4>11, <2>3 DEF P, new
    <3> QED BY <3>2, <3>3, <3>4
  <2> QED BY <2>6, <2>7
<1> HIDE DEF P
<1>4. \A i \in 0..n : i \in P
  <2> HIDE DEF n
  <2> QED BY <1>1, <1>2, <1>3, InductionUpTo
<1>5. B(n, A[n])
  <2> HIDE DEF B, A, n
  <2> QED BY <1>1, <1>4 DEF P
<1> QED BY <1>5, AfterIs

-----------------------------------------------------------------------------
(* The base table.                                                         *)

Based ==
  CHOOSE g : g = [i \in 0..Len(Defs) |->
                    IF i = 0 THEN EmptyTable
                    ELSE procedure_add(Defs[i].id, Defs[i].params, g[i - 1])]

DefSymbol(i) == Symbol(Defs[i].id, "PROCEDURE", Defs[i].params)

(* The name and parameters of a DEF.                                       *)
LEMMA DefIs ==
  ASSUME NEW i \in 1..Len(Defs)
  PROVE  /\ DefSymbol(i) \in SymbolSet
         /\ DefSymbol(i).id = Defs[i].id /\ DefSymbol(i).type = "PROCEDURE"
         /\ DefSymbol(i).u = Defs[i].params
         /\ Defs[i].id \in IdSet /\ Defs[i].id \notin Variables
<1>1. Len(Defs) \in Nat /\ DOMAIN Defs = 1..Len(Defs)
  BY SymbolsAssumption
<1> DEFINE D == [id : {Defs[j].id : j \in DOMAIN Defs}, params : Seq(Variables)]
<1>2. Defs[i] \in D
  <2>1. Defs \in Seq(D)
    BY SymbolsAssumption
  <2> HIDE DEF D
  <2> QED BY <2>1
<1>3. Defs[i].id \in {Defs[j].id : j \in DOMAIN Defs} /\ Defs[i].params \in Seq(Variables)
  BY <1>2
<1>4. Defs[i].id \in IdSet /\ Defs[i].id \notin Variables
  <2>1. Variables \cap (Called \cup {Defs[j].id : j \in DOMAIN Defs}) = {}
    BY SymbolsAssumption
  <2> QED BY <1>3, <2>1 DEF IdSet
<1> QED BY <1>3, <1>4 DEF DefSymbol, Symbol, SymbolSet

(* The empty table is well formed.                                         *)
LEMMA EmptyTableIs ==
  Hashed(EmptyTable) /\ Symbols(EmptyTable) = {} /\ DOMAIN Scope(EmptyTable) = {}
<1>1. EmptyTable \in Table /\ \A b \in Buckets : EmptyTable[b] = <<>>
  BY DEF EmptyTable, Table
<1>2. Hashed(EmptyTable)
  BY <1>1 DEF Hashed
<1>3. Symbols(EmptyTable) = {}
  BY <1>1 DEF Symbols
<1> QED BY <1>2, <1>3 DEF Scope

Tables == {t \in Table : Hashed(t)}

(* The recursive function of BaseTable, unfolded once.                     *)
LEMMA BasedIs ==
  /\ BaseTable = Based[Len(Defs)]
  /\ Based[0] = EmptyTable
  /\ \A i \in 1..Len(Defs) : Based[i] = symbol_insert_frame(DefSymbol(i), Based[i - 1])
<1> DEFINE n == Len(Defs)
           H == [i \in 1..n |-> [t \in Tables |-> symbol_insert_frame(DefSymbol(i), t)]]
           K(g) == [i \in 0..n |-> IF i = 0 THEN EmptyTable
                                  ELSE procedure_add(Defs[i].id, Defs[i].params, g[i - 1])]
           L(g) == [i \in 0..n |-> IF i = 0 THEN EmptyTable
                                  ELSE symbol_insert_frame(DefSymbol(i), g[i - 1])]
<1>1. n \in Nat
  BY SymbolsAssumption
<1>2. EmptyTable \in Tables
  BY EmptyTableIs DEF Tables, Hashed
<1>3. H \in [1..n -> [Tables -> Tables]]
  <2>1. ASSUME NEW i \in 1..n, NEW t \in Tables
        PROVE  symbol_insert_frame(DefSymbol(i), t) \in Tables
    <3>1. DefSymbol(i) \in SymbolSet /\ Hashed(t)
      BY DefIs DEF Tables
    <3> QED BY <3>1, InsertedInTable DEF Tables, Hashed
  <2> QED BY <2>1
<1>4. PICK g \in [0..n -> Tables] : Iterates(g, n, EmptyTable, H)
  <2> HIDE DEF n, H
  <2> QED BY <1>1, <1>2, <1>3, RecursionExists
<1>5. g = L(g)
  <2> HIDE DEF n
  <2>1. ASSUME NEW i \in 1..n
        PROVE  g[i] = symbol_insert_frame(DefSymbol(i), g[i - 1])
    <3>1. g[i - 1] \in Tables
      BY <1>1
    <3> QED BY <1>4, <3>1 DEF Iterates
  <2>2. ASSUME NEW i \in 0..n PROVE g[i] = L(g)[i]
    <3>1. CASE i = 0
      BY <1>4, <3>1 DEF Iterates
    <3>2. CASE i # 0
      <4>1. i \in 1..n
        BY <1>1, <3>2
      <4>2. L(g)[i] = symbol_insert_frame(DefSymbol(i), g[i - 1])
        BY <3>2
      <4> QED BY <2>1, <4>1, <4>2
    <3> QED BY <3>1, <3>2
  <2> QED BY <2>2
<1>6. \A f : K(f) = L(f)
  BY DEF procedure_add, DefSymbol
<1>7. Based = K(Based)
  <2>1. \E f : f = K(f)
    BY <1>5, <1>6
  <2> QED BY <2>1, Zenon DEF Based
<1>8. BaseTable = Based[n]
  BY Zenon DEF BaseTable, Based
<1> HIDE DEF n
<1>9. Based = L(Based)
  BY <1>6, <1>7
<1>10. \A i \in 0..n : Based[i] = L(Based)[i]
  BY <1>9, Zenon
<1>11. \A i \in 0..n : L(Based)[i] =
        IF i = 0 THEN EmptyTable ELSE symbol_insert_frame(DefSymbol(i), Based[i - 1])
  OBVIOUS
<1>12. Based[0] = EmptyTable
  BY <1>1, <1>10, <1>11
<1>13. ASSUME NEW i \in 1..n PROVE Based[i] = symbol_insert_frame(DefSymbol(i), Based[i - 1])
  <2>1. i \in 0..n /\ i # 0
    BY <1>1
  <2> QED BY <2>1, <1>10, <1>11
<1> QED BY <1>8, <1>12, <1>13 DEF n

(* The last DEF of each name up to the one at i.                           *)
DefinedUpTo(i) ==
  [id \in {Defs[j].id : j \in 1..i} |->
     Abstract!Cell("PROCEDURE",
       Defs[Abstract!Last1({j \in 1..i : Defs[j].id = id})].params)]

(* One more DEF replaces what an earlier DEF of the name gave.             *)
LEMMA DefinedNext ==
  ASSUME NEW i \in Nat \ {0}
  PROVE  DefinedUpTo(i)
           = Abstract!With(DefinedUpTo(i - 1),
               Abstract!Only(Defs[i].id, Abstract!Cell("PROCEDURE", Defs[i].params)))
<1> DEFINE S == 1..(i - 1)
           T == 1..i
           old == DefinedUpTo(i - 1)
           new == DefinedUpTo(i)
           d == Defs[i].id
           At(X, id) == {j \in X : Defs[j].id = id}
           w == Abstract!With(old, Abstract!Only(d, Abstract!Cell("PROCEDURE", Defs[i].params)))
           C(x) == Abstract!Cell("PROCEDURE", Defs[x].params)
<1>1. /\ old = [id \in DOMAIN old |-> old[id]]
      /\ DOMAIN old = {Defs[j].id : j \in S}
      /\ \A id \in DOMAIN old : old[id] = C(Abstract!Last1(At(S, id)))
  BY DEF DefinedUpTo
<1>2. /\ new = [id \in DOMAIN new |-> new[id]]
      /\ DOMAIN new = {Defs[j].id : j \in T}
      /\ \A id \in DOMAIN new : new[id] = C(Abstract!Last1(At(T, id)))
  BY DEF DefinedUpTo
<1>3. /\ w = [id \in DOMAIN w |-> w[id]]
      /\ DOMAIN w = DOMAIN old \cup {d}
      /\ \A id \in DOMAIN w : w[id] = IF id = d THEN C(i) ELSE old[id]
  BY DEF Abstract!With, Abstract!Only
<1>4. T = S \cup {i} /\ S \subseteq Int /\ i \in Int /\ \A j \in T : j \in Int /\ j <= i
  OBVIOUS
<1>5. Abstract!Last1(At(T, d)) = i
  <2>1. /\ At(T, d) \subseteq Int /\ i \in At(T, d)
        /\ \A j \in At(T, d) : j \in Int /\ j <= i
    BY <1>4
  <2> HIDE DEF At
  <2> QED BY <2>1, LastOf
<1> HIDE DEF S, T
<1>6. \A id : id # d => At(T, id) = At(S, id)
  BY <1>4
<1>7. DOMAIN new = DOMAIN w
  <2>1. {Defs[j].id : j \in T} = {Defs[j].id : j \in S} \cup {d}
    BY <1>4
  <2> HIDE DEF new, old, w
  <2> QED BY <1>1, <1>2, <1>3, <2>1
<1> HIDE DEF w, new, old, At, d, C
<1>8. ASSUME NEW id \in DOMAIN w PROVE new[id] = w[id]
  <2>1. CASE id = d
    BY <2>1, <1>2, <1>3, <1>5, <1>7
  <2>2. CASE id # d
    <3>1. At(T, id) = At(S, id) /\ id \in DOMAIN old /\ id \in DOMAIN new
      BY <2>2, <1>3, <1>6, <1>7
    <3>2. w[id] = old[id]
      BY <2>2, <1>3
    <3> QED BY <3>1, <3>2, <1>1, <1>2
  <2> QED BY <2>1, <2>2
<1>9. new = w
  BY <1>2, <1>3, <1>7, <1>8
<1> QED BY <1>9 DEF new, old, w, d

(* By induction on the DEFs: the base table holds the last DEF of each     *)
(* name.                                                                   *)
LEMMA BaseTableIs ==
  /\ Hashed(BaseTable)
  /\ Scope(BaseTable) = DefinedUpTo(Len(Defs))
  /\ \A s \in Symbols(BaseTable) : SymbolOK(s, 1)
<1> DEFINE n == Len(Defs)
           OK(t, i) == /\ Hashed(t)
                       /\ Scope(t) = DefinedUpTo(i)
                       /\ \A s \in Symbols(t) : s.type = "PROCEDURE" /\ s.id \notin Variables
           P == {i \in 0..n : OK(Based[i], i)}
<1>1. n \in Nat
  BY SymbolsAssumption
<1>2. 0 \in P
  <2>1. DefinedUpTo(0) = Scope(EmptyTable)
    BY EmptyTableIs, ScopeIsFunction DEF DefinedUpTo
  <2>2. OK(EmptyTable, 0)
    BY <2>1, EmptyTableIs
  <2> HIDE DEF OK
  <2> QED BY <1>1, <2>2, BasedIs
<1>3. ASSUME NEW i \in 1..n, i - 1 \in P PROVE i \in P
  <2> DEFINE t == Based[i - 1]
             u == symbol_insert_frame(DefSymbol(i), t)
  <2>1. OK(t, i - 1)
    BY <1>3
  <2>2. /\ DefSymbol(i) \in SymbolSet
        /\ DefSymbol(i).id = Defs[i].id /\ DefSymbol(i).type = "PROCEDURE"
        /\ DefSymbol(i).u = Defs[i].params /\ Defs[i].id \notin Variables
    BY DefIs
  <2>3. i \in Nat \ {0} /\ i \in 0..n
    BY <1>1
  <2> HIDE DEF t
  <2>4. /\ Hashed(u)
        /\ Symbols(u) = {DefSymbol(i)} \cup {q \in Symbols(t) : q.id # DefSymbol(i).id}
    BY <2>1, <2>2, InsertedInTable
  <2> HIDE DEF u
  <2>5. Scope(u) = Abstract!With(Scope(t), Abstract!Only(DefSymbol(i).id,
                     Abstract!Cell(DefSymbol(i).type, DefSymbol(i).u)))
    BY <2>1, <2>2, <2>4, ScopeWith
  <2>6. Scope(u) = DefinedUpTo(i)
    BY <2>1, <2>2, <2>3, <2>5, DefinedNext
  <2>7. OK(u, i)
    BY <2>1, <2>2, <2>4, <2>6
  <2>8. Based[i] = u
    BY BasedIs DEF u, t
  <2> HIDE DEF OK
  <2> QED BY <2>3, <2>7, <2>8
<1> HIDE DEF P
<1>4. \A i \in 0..n : i \in P
  <2> HIDE DEF n
  <2> QED BY <1>1, <1>2, <1>3, InductionUpTo
<1>5. OK(BaseTable, n)
  <2> HIDE DEF OK, n
  <2>1. OK(Based[n], n)
    BY <1>1, <1>4 DEF P
  <2> QED BY <2>1, BasedIs DEF n
<1>6. \A s : s.type = "PROCEDURE" /\ s.id \notin Variables => SymbolOK(s, 1)
  BY DEF SymbolOK, Simple
<1> QED BY <1>5, <1>6

-----------------------------------------------------------------------------
(* Frames.                                                                 *)

Mapped(fs) == [f \in DOMAIN fs |-> Scope(fs[f])]

(* Each frame is a well-formed table.                                      *)
LEMMA FrameIs ==
  ASSUME NEW fs, FramesOK(fs), NEW f \in DOMAIN fs
  PROVE  /\ Hashed(fs[f]) /\ f \in Nat \ {0} /\ Len(fs) \in Nat /\ f <= Len(fs)
         /\ DOMAIN fs = 1..Len(fs) /\ fs[f] \in Table
         /\ \A s \in Symbols(fs[f]) : SymbolOK(s, f)
  BY DEF FramesOK

(* The frame where symbol_find finds a name is the topmost that has it.    *)
LEMMA FoundInIs ==
  ASSUME FramesOK(frames), NEW id
  PROVE  /\ FoundIn(id) \in 0..Len(frames)
         /\ FoundIn(id) # 0 => /\ FoundIn(id) \in DOMAIN frames
                               /\ InFrame(id, frames[FoundIn(id)])
         /\ \A f \in DOMAIN frames : f > FoundIn(id) => ~InFrame(id, frames[f])
<1> DEFINE n == Len(frames)
           T == {f \in DOMAIN frames : InFrame(id, frames[f])}
<1>1. n \in Nat /\ DOMAIN frames = 1..n
  BY DEF FramesOK
<1>2. CASE T = {}
  BY <1>1, <1>2 DEF FoundIn
<1>3. CASE T # {}
  <2>1. T \subseteq 0..n
    BY <1>1
  <2>2. PICK f \in T : \A g \in T : g <= f
    <3> HIDE DEF T, n
    <3> QED BY <1>1, <1>3, <2>1, GreatestOfNaturals
  <2> DEFINE Q(h) == /\ InFrame(id, frames[h])
                     /\ \A g \in (h + 1)..top_frame : ~InFrame(id, frames[g])
  <2>3. f \in DOMAIN frames /\ Q(f)
    BY <1>1, <2>2 DEF top_frame
  <2>4. FoundIn(id) = CHOOSE h \in DOMAIN frames : Q(h)
    BY <2>3 DEF FoundIn
  <2>5. FoundIn(id) \in DOMAIN frames /\ Q(FoundIn(id))
    <3> HIDE DEF Q
    <3> QED BY <2>3, <2>4
  <2> QED BY <1>1, <2>5 DEF top_frame
<1> QED BY <1>2, <1>3

(* An assignment goes to the frame where the name is found, and to the     *)
(* base table when it is in none.                                          *)
LEMMA HomeIs ==
  ASSUME FramesOK(frames), Len(frames) # 0, NEW id
  PROVE  /\ Home(id) \in DOMAIN frames
         /\ Home(id) = IF FoundIn(id) = 0 THEN 1 ELSE FoundIn(id)
<1> DEFINE n == Len(frames)
           Q(f) == /\ InFrame(id, frames[f])
                   /\ \A g \in (f + 1)..top_frame : ~InFrame(id, frames[g])
<1>1. n \in Nat \ {0} /\ DOMAIN frames = 1..n /\ top_frame = n /\ 1 \in DOMAIN frames
  BY DEF FramesOK, top_frame
<1>2. /\ FoundIn(id) \in 0..n
      /\ FoundIn(id) # 0 => InFrame(id, frames[FoundIn(id)])
      /\ \A f \in 1..n : f > FoundIn(id) => ~InFrame(id, frames[f])
  BY <1>1, FoundInIs
<1>3. CASE FoundIn(id) \in 2..n
  <2>1. FoundIn(id) \in 2..top_frame /\ Q(FoundIn(id))
    BY <1>1, <1>2, <1>3
  <2>2. Home(id) = CHOOSE f \in 2..top_frame : Q(f)
    BY <2>1 DEF Home
  <2>3. Home(id) \in 2..top_frame /\ Q(Home(id))
    <3> HIDE DEF Q
    <3> QED BY <2>1, <2>2
  <2>4. Home(id) = FoundIn(id)
    BY <1>1, <1>2, <2>1, <2>3
  <2> QED BY <1>1, <1>3, <2>4
<1>4. CASE FoundIn(id) \notin 2..n
  <2>1. \A f \in 2..top_frame : ~InFrame(id, frames[f])
    BY <1>1, <1>2, <1>4
  <2>2. Home(id) = 1
    BY <2>1 DEF Home
  <2> QED BY <1>1, <1>2, <1>4, <2>2
<1> QED BY <1>3, <1>4

(* The symbol a name stands for.                                           *)
LEMMA FoundSymbol ==
  ASSUME FramesOK(frames), NEW id \in IdSet, FoundIn(id) # 0
  PROVE  /\ FoundIn(id) \in DOMAIN frames
         /\ symbol_find(id) \in Symbols(frames[FoundIn(id)])
         /\ symbol_find(id) \in SymbolSet
         /\ symbol_find(id).id = id
         /\ SymbolOK(symbol_find(id), FoundIn(id))
<1> DEFINE f == FoundIn(id)
<1>1. f \in DOMAIN frames /\ InFrame(id, frames[f])
  BY FoundInIs
<1>2. Hashed(frames[f]) /\ \A s \in Symbols(frames[f]) : SymbolOK(s, f)
  BY <1>1, FrameIs
<1>3. symbol_find(id) = symbol_find_frame(id, frames[f])
  BY DEF symbol_find
<1> HIDE DEF f
<1>4. symbol_find(id) \in Symbols(frames[f]) /\ symbol_find(id).id = id
  BY <1>1, <1>2, <1>3, FoundInFrame
<1> QED BY <1>1, <1>2, <1>4, MembersAreSymbols DEF f

(* Scopes finds a name where symbol_find does.                             *)
LEMMA InScope ==
  ASSUME FramesOK(frames), NEW f \in DOMAIN frames, NEW id \in IdSet
  PROVE  id \in DOMAIN Mapped(frames)[f] <=> InFrame(id, frames[f])
<1>1. Hashed(frames[f])
  BY FrameIs
<1>2. DOMAIN Mapped(frames)[f] = {s.id : s \in Symbols(frames[f])}
  BY DEF Mapped, Scope
<1> QED BY <1>1, <1>2, InFrameIs

(* Looking a name up in Scopes, in terms of the mapped frames.             *)
LEMMA AbstractLooks ==
  ASSUME NEW id
  PROVE  /\ Abstract!Bound(id) <=>
              \E f \in DOMAIN Mapped(frames) : id \in DOMAIN Mapped(frames)[f]
         /\ Abstract!Innermost(id) =
              CHOOSE f \in DOMAIN Mapped(frames) :
                /\ id \in DOMAIN Mapped(frames)[f]
                /\ \A g \in DOMAIN Mapped(frames) : g > f => id \notin DOMAIN Mapped(frames)[g]
         /\ Abstract!Meaning(id) = Mapped(frames)[Abstract!Innermost(id)][id]
  BY Zenon DEF Abstract!Bound, Abstract!Innermost, Abstract!Meaning, Mapped, Scope

(* Inserting a symbol where its name is found is rebinding the name at     *)
(* home.                                                                   *)
LEMMA BoundWhereFound ==
  ASSUME FramesOK(frames), NEW id \in IdSet
  PROVE  /\ Abstract!Bound(id) <=> FoundIn(id) # 0
         /\ FoundIn(id) # 0 =>
              /\ Abstract!Innermost(id) = FoundIn(id)
              /\ Abstract!Meaning(id) = Abstract!Cell(symbol_find(id).type, symbol_find(id).u)
<1>1. /\ FoundIn(id) \in 0..Len(frames) /\ Len(frames) \in Nat
      /\ DOMAIN frames = 1..Len(frames)
      /\ FoundIn(id) # 0 => /\ FoundIn(id) \in DOMAIN frames
                            /\ InFrame(id, frames[FoundIn(id)])
      /\ \A f \in DOMAIN frames : f > FoundIn(id) => ~InFrame(id, frames[f])
  BY FoundInIs DEF FramesOK
<1>2. /\ DOMAIN Mapped(frames) = DOMAIN frames
      /\ \A f \in DOMAIN frames : id \in DOMAIN Mapped(frames)[f] <=> InFrame(id, frames[f])
  BY InScope DEF Mapped
<1>3. Abstract!Bound(id) <=> FoundIn(id) # 0
  <2>1. Abstract!Bound(id) <=> \E f \in DOMAIN frames : InFrame(id, frames[f])
    BY <1>2, AbstractLooks
  <2> QED BY <1>1, <2>1
<1>4. ASSUME FoundIn(id) # 0 PROVE Abstract!Innermost(id) = FoundIn(id)
  <2> DEFINE Q(f) == /\ id \in DOMAIN Mapped(frames)[f]
                     /\ \A g \in DOMAIN Mapped(frames) :
                          g > f => id \notin DOMAIN Mapped(frames)[g]
  <2>1. FoundIn(id) \in DOMAIN Mapped(frames) /\ Q(FoundIn(id))
    BY <1>1, <1>2, <1>4
  <2>2. ASSUME NEW f \in DOMAIN Mapped(frames), Q(f) PROVE f = FoundIn(id)
    <3>1. f \in Nat /\ ~(f > FoundIn(id)) /\ ~(FoundIn(id) > f)
      BY <1>1, <1>2, <2>1, <2>2
    <3> QED BY <1>1, <3>1
  <2>3. Abstract!Innermost(id) = CHOOSE f \in DOMAIN Mapped(frames) : Q(f)
    BY AbstractLooks
  <2> HIDE DEF Q
  <2> QED BY <2>1, <2>2, <2>3
<1>5. ASSUME FoundIn(id) # 0
      PROVE  Abstract!Meaning(id) = Abstract!Cell(symbol_find(id).type, symbol_find(id).u)
  <2> DEFINE f == FoundIn(id)
             s == symbol_find(id)
  <2>1. f \in DOMAIN frames /\ s \in Symbols(frames[f]) /\ s.id = id
    BY <1>5, FoundSymbol
  <2>2. Hashed(frames[f])
    BY <2>1, FrameIs
  <2> HIDE DEF f, s
  <2>3. Scope(frames[f])[s.id] = Abstract!Cell(s.type, s.u)
    BY <2>1, <2>2, ScopeIs
  <2>4. Mapped(frames)[f] = Scope(frames[f])
    BY <2>1 DEF Mapped
  <2>5. Abstract!Meaning(id) = Mapped(frames)[f][id]
    BY <1>4, <1>5, AbstractLooks DEF f
  <2> QED BY <2>1, <2>3, <2>4, <2>5 DEF s
<1> QED BY <1>3, <1>4, <1>5

(* One frame changes.                                                      *)
LEMMA FrameChanged ==
  ASSUME NEW fs, FramesOK(fs), NEW f \in DOMAIN fs, NEW t, Hashed(t),
         \A s \in Symbols(t) : SymbolOK(s, f)
  PROVE  /\ FramesOK([fs EXCEPT ![f] = t])
         /\ Len([fs EXCEPT ![f] = t]) = Len(fs)
         /\ Mapped([fs EXCEPT ![f] = t]) = [Mapped(fs) EXCEPT ![f] = Scope(t)]
<1> DEFINE gs == [fs EXCEPT ![f] = t]
<1>1. fs \in Seq(Table) /\ t \in Table
  BY DEF FramesOK, Hashed
<1>2. gs \in Seq(Table) /\ Len(gs) = Len(fs) /\ DOMAIN gs = DOMAIN fs
      /\ gs[f] = t /\ \A g \in DOMAIN fs : g # f => gs[g] = fs[g]
  BY <1>1
<1> HIDE DEF gs
<1>3. FramesOK(gs)
  BY <1>2 DEF FramesOK
<1>4. Mapped(gs) = [Mapped(fs) EXCEPT ![f] = Scope(t)]
  BY <1>2 DEF Mapped
<1> QED BY <1>2, <1>3, <1>4 DEF gs

(* A frame put on top is a scope put on top.                               *)
LEMMA FrameAdded ==
  ASSUME NEW fs, FramesOK(fs), NEW t, Hashed(t),
         \A s \in Symbols(t) : SymbolOK(s, Len(fs) + 1)
  PROVE  /\ FramesOK(Append(fs, t))
         /\ Len(Append(fs, t)) = Len(fs) + 1
         /\ Mapped(Append(fs, t)) = Append(Mapped(fs), Scope(t))
<1> DEFINE gs == Append(fs, t)
           n == Len(fs)
<1>1. fs \in Seq(Table) /\ t \in Table
  BY DEF FramesOK, Hashed
<1>2. gs \in Seq(Table) /\ n \in Nat /\ Len(gs) = n + 1 /\ DOMAIN gs = 1..(n + 1)
      /\ DOMAIN fs = 1..n /\ gs[n + 1] = t /\ \A g \in 1..n : gs[g] = fs[g]
  BY <1>1
<1> HIDE DEF gs
<1>3. FramesOK(gs)
  <2>1. ASSUME NEW g \in DOMAIN gs
        PROVE  Hashed(gs[g]) /\ \A s \in Symbols(gs[g]) : SymbolOK(s, g)
    <3>1. g \in 1..n \/ g = n + 1
      BY <1>2
    <3>2. CASE g \in 1..n
      BY <1>2, <3>2 DEF FramesOK
    <3>3. CASE g = n + 1
      BY <1>2, <3>3
    <3> QED BY <3>1, <3>2, <3>3
  <2> QED BY <1>2, <2>1 DEF FramesOK
<1>4. Mapped(gs) = Append(Mapped(fs), Scope(t))
  <2> DEFINE m == Mapped(fs)
             S == {Scope(gs[g]) : g \in 1..(n + 1)}
  <2> HIDE DEF n
  <2>1. m \in Seq(S) /\ Len(m) = n /\ \A g \in 1..n : m[g] = Scope(fs[g])
    BY <1>2 DEF Mapped
  <2>2. Scope(t) \in S
    BY <1>2
  <2> HIDE DEF m, S
  <2>3. DOMAIN Append(m, Scope(t)) = 1..(n + 1) /\ Append(m, Scope(t))[n + 1] = Scope(t)
        /\ (\A g \in 1..n : Append(m, Scope(t))[g] = m[g])
        /\ Append(m, Scope(t)) \in Seq(S)
    BY <1>2, <2>1, <2>2
  <2>4. DOMAIN Mapped(gs) = 1..(n + 1)
    BY <1>2 DEF Mapped
  <2>5. ASSUME NEW g \in 1..(n + 1) PROVE Mapped(gs)[g] = Append(m, Scope(t))[g]
    <3>1. Mapped(gs)[g] = Scope(gs[g])
      BY <1>2 DEF Mapped
    <3>2. g \in 1..n \/ g = n + 1
      BY <1>2
    <3> QED BY <1>2, <2>1, <2>3, <3>1, <3>2
  <2>6. Mapped(gs) = [g \in 1..(n + 1) |-> Mapped(gs)[g]]
    BY <1>2 DEF Mapped
  <2>7. Append(m, Scope(t)) = [g \in 1..(n + 1) |-> Append(m, Scope(t))[g]]
    <3>1. Len(Append(m, Scope(t))) = n + 1
      BY <1>2, <2>1, <2>2
    <3> QED BY <2>3, <3>1, SequenceIsFunction
  <2> QED BY <2>5, <2>6, <2>7 DEF m
<1> QED BY <1>2, <1>3, <1>4 DEF gs

-----------------------------------------------------------------------------
(* The steps.                                                              *)

Unchanged == UNCHANGED <<residents, set_time_value, outcome>>
AbstractSame == Mapped(frames)' = Mapped(frames)

(* The mapped scopes of the next state.                                    *)
LEMMA MappedNext == Mapped(frames)' = Mapped(frames')
  OBVIOUS

(* The invariant in the next state, from its parts.                        *)
LEMMA InvariantNext ==
  ASSUME IInv, FramesOK(frames'), Len(frames') \in 1..MaxFrames,
         residents' \in [Letters -> IntRange], set_time_value' \in IntRange,
         outcome' \in {"running", "abort", "exit", "overrun", "crash", "ended"}
  PROVE  IInv'
  BY DEF IInv, Letters

(* What the invariant gives of each part of the state.                     *)
LEMMA InvariantParts ==
  ASSUME IInv
  PROVE  /\ FramesOK(frames) /\ Len(frames) \in 1..MaxFrames /\ Len(frames) \in Nat \ {0}
         /\ DOMAIN frames = 1..Len(frames)
         /\ residents \in [Letters -> IntRange]
         /\ set_time_value \in IntRange
         /\ outcome \in {"running", "abort", "exit", "overrun", "crash", "ended"}
         /\ MaxFrames \in Nat \ {0}
  BY SymbolsAssumption DEF IInv, Letters, FramesOK

(* What answers an operation of Scopes,                                    *)
LEMMA AbstractAnswers ==
  ASSUME NEW e, NEW v
  PROVE  Abstract!Answers(e, v) <=> Answers(e, v)
  BY DEF Abstract!Answers, Answers

(* what makes it fail,                                                     *)
LEMMA AbstractRefuses ==
  ASSUME NEW e
  PROVE  Abstract!Refuses(e) <=>
           /\ Answers(e, NULL) /\ Mapped(frames)' = Mapped(frames)
           /\ UNCHANGED <<residents, set_time_value, outcome>>
  BY SameNull, Zenon DEF Abstract!Refuses, Abstract!Answers, Answers, Mapped, Scope

(* and what stops the program.                                             *)
LEMMA AbstractStops ==
  ASSUME NEW how
  PROVE  Abstract!Stops(how) <=>
           /\ outcome' = how /\ Answers("none", NULL) /\ Mapped(frames)' = Mapped(frames)
           /\ UNCHANGED <<residents, set_time_value>>
  BY SameNull, Zenon DEF Abstract!Stops, Abstract!Answers, Answers, Mapped, Scope

AbstractTaken(params, args) ==
  {i \in DOMAIN params : \A j \in 1..i :
     IF variable_name_is_resident(params[j]) THEN value_is_int(args[j])
     ELSE Fits(params[j], args[j])}

(* The call of Scopes, from the arguments it takes.                        *)
LEMMA AbstractEnter ==
  ASSUME NEW params, NEW args, ArgumentError(params, args) = "none",
         NEW taken, taken = AbstractTaken(params, args),
         residents' = Abstract!ResidentsAt(params, args, taken),
         IF taken = DOMAIN params
         THEN /\ Mapped(frames)' = Append(Mapped(frames), Abstract!LocalsAt(params, args,
                   {i \in taken : ~variable_name_is_resident(params[i])}))
              /\ Answers("none", NULL)
         ELSE Answers("TYPE_MISMATCH", NULL) /\ Mapped(frames)' = Mapped(frames),
         UNCHANGED <<set_time_value, outcome>>
  PROVE  Abstract!Enter(params, args)
<1> DEFINE t2 == {i \in DOMAIN params : \A j \in 1..i :
                    IF Abstract!Resident(params, j) THEN Abstract!value_is_int(args[j])
                    ELSE Abstract!Fits(params[j], args[j])}
<1>1. t2 = taken
  BY SameNames, SameTests, SameFits DEF AbstractTaken, Abstract!Resident
<1>2. {i \in taken : ~variable_name_is_resident(params[i])}
        = {i \in taken : ~Abstract!Resident(params, i)}
  BY SameNames DEF Abstract!Resident
<1>3. Abstract!ArgumentError(params, args) = "none"
  BY SameArgumentError
<1> HIDE DEF t2
<1>4. /\ residents' = Abstract!ResidentsAt(params, args, t2)
      /\ IF t2 = DOMAIN params
         THEN /\ Mapped(frames)' = Append(Mapped(frames), Abstract!LocalsAt(params, args,
                   {i \in t2 : ~Abstract!Resident(params, i)}))
              /\ Abstract!Answers("none", Abstract!NULL)
         ELSE /\ Abstract!Answers("TYPE_MISMATCH", Abstract!NULL)
              /\ Mapped(frames)' = Mapped(frames)
  BY <1>1, <1>2, SameNull, AbstractAnswers
<1> QED BY <1>3, <1>4, Zenon DEF Abstract!Enter, t2, Mapped, Scope

(* A failure changes nothing but the result.                               *)
LEMMA FailsIs ==
  ASSUME IInv, NEW e, Fails(e), UNCHANGED outcome
  PROVE  IInv' /\ Abstract!Refuses(e)
<1>1. UNCHANGED <<frames, residents, set_time_value, outcome>> /\ Answers(e, NULL)
  BY DEF Fails
<1>2. IInv'
  BY <1>1 DEF IInv
<1>3. Mapped(frames)' = Mapped(frames)
  BY <1>1
<1> QED BY <1>1, <1>2, <1>3, AbstractRefuses

(* The symbol of a variable is allowed in any frame.                       *)
LEMMA VariableIsOK ==
  ASSUME NEW q, VariableOK(q), NEW f
  PROVE  SymbolOK(q, f)
  BY DEF VariableOK, SymbolOK, Simple

(* The parameters of a call and the arguments it is given.                 *)
LEMMA ParametersAre ==
  ASSUME IInv, NEW id \in Called, FoundIn(id) # 0
  PROVE  symbol_find(id).u \in Seq(Variables)
<1>1. id \in IdSet /\ id \notin Variables
  BY SymbolsAssumption DEF IdSet
<1>2. /\ symbol_find(id) \in SymbolSet /\ symbol_find(id).id = id
      /\ SymbolOK(symbol_find(id), FoundIn(id))
  BY <1>1, InvariantParts, FoundSymbol
<1>3. symbol_find(id).type \notin Simple /\ symbol_find(id).type # "ARRAY"
  BY <1>1, <1>2 DEF SymbolOK, Simple
<1> QED BY <1>2, <1>3 DEF SymbolSet

(* The arguments that are given fill the parameters with values.           *)
LEMMA ArgumentsAre ==
  ASSUME NEW params \in Seq(Variables), NEW args \in ArgLists,
         ArgumentError(params, args) = "none"
  PROVE  /\ Lists(params, args) /\ Filling(params, args) = args
         /\ Len(params) \in Nat /\ DOMAIN params = 1..Len(params)
         /\ \A i \in 1..Len(params) :
              /\ args[i] # NULL
              /\ TakesAt(params, args, i) <=>
                   IF variable_name_is_resident(params[i]) THEN value_is_int(args[i])
                   ELSE Fits(params[i], args[i])
<1> DEFINE n == Len(params)
           D == Value \cup {NULL}
<1>1. args \in Seq(D)
  BY SymbolsAssumption
<1>2. n \in Nat /\ DOMAIN params = 1..n
  OBVIOUS
<1>3. Len(params) = Len(args) /\ ~\E i \in DOMAIN args : args[i] = NULL /\ i <= Len(params)
  BY DEF ArgumentError
<1> HIDE DEF D
<1>4. DOMAIN args = 1..n /\ \A i \in 1..n : args[i] \in D
  BY <1>1, <1>3
<1>5. \A i \in 1..n : args[i] # NULL /\ Filled(params[i], args[i]) = args[i]
  BY <1>3, <1>4 DEF Filled
<1>6. Filling(params, args) = args
  <2>1. args = [i \in 1..n |-> args[i]]
    BY <1>1, <1>3, SequenceIsFunction
  <2>2. Filling(params, args) = [i \in 1..n |-> args[i]]
    BY <1>2, <1>5 DEF Filling
  <2> QED BY <2>1, <2>2
<1>7. Lists(params, args)
  BY <1>4 DEF Lists, D
<1> QED BY <1>2, <1>5, <1>6, <1>7 DEF TakesAt

(* What every step but CLEAR and the end of the program does to the names  *)
(* hidden by others, and what a failure does.                              *)
KeepsHidden ==
  \A id \in Variables : \A f \in 1..(FoundIn(id) - 1) :
    SameBinding(id, frames[f], frames'[f])
KeepsFramesOnFailure == result'.error # "none" => UNCHANGED frames

(* A step that leaves the frames keeps the invariant and the hidden names. *)
LEMMA FramesSame ==
  ASSUME IInv, UNCHANGED frames, residents' \in [Letters -> IntRange],
         set_time_value' \in IntRange,
         outcome' \in {"running", "abort", "exit", "overrun", "crash", "ended"}
  PROVE  /\ IInv' /\ Mapped(frames)' = Mapped(frames)
         /\ KeepsHidden /\ KeepsFramesOnFailure
<1>1. IInv'
  BY DEF IInv, Letters
<1>2. Mapped(frames)' = Mapped(frames)
  OBVIOUS
<1> QED BY <1>1, <1>2 DEF KeepsHidden, KeepsFramesOnFailure, SameBinding

(* A call: the arguments are checked, then bound in a new frame.           *)
LEMMA CallStep ==
  ASSUME IInv, NEW id \in Called, NEW args \in ArgLists, Call(id, args)
  PROVE  IInv' /\ Abstract!Call(id, args)
<1> DEFINE params == symbol_find(id).u
           n == Len(params)
           st == AssignLocals(params, args, EmptyTable)
<1>1. id \in IdSet
  BY DEF IdSet
<1>2. /\ FramesOK(frames) /\ Len(frames) \in Nat \ {0} /\ Len(frames) < MaxFrames
      /\ residents \in [Letters -> IntRange] /\ MaxFrames \in Nat
  BY InvariantParts DEF Call, top_frame
<1>3. Len(Mapped(frames)) = Len(frames)
  BY <1>2 DEF Mapped, FramesOK
<1>4. Abstract!Call(id, args) <=>
        IF Abstract!Bound(id) THEN Abstract!Enter(Abstract!Meaning(id).u, args)
        ELSE Abstract!Refuses("NO_SUCH_FN_PROC")
  <2>1. Abstract!Call(id, args) <=>
          /\ Len(Mapped(frames)) < MaxFrames
          /\ IF Abstract!Bound(id) THEN Abstract!Enter(Abstract!Meaning(id).u, args)
             ELSE Abstract!Refuses("NO_SUCH_FN_PROC")
    BY Zenon DEF Abstract!Call, Mapped, Scope
  <2> QED BY <1>2, <1>3, <2>1
<1>5. CASE FoundIn(id) = 0
  <2>1. Fails("NO_SUCH_FN_PROC") /\ UNCHANGED outcome
    BY <1>5 DEF Call
  <2>2. IInv' /\ Abstract!Refuses("NO_SUCH_FN_PROC")
    BY <2>1, FailsIs
  <2>3. ~Abstract!Bound(id)
    BY <1>1, <1>2, <1>5, BoundWhereFound
  <2> QED BY <1>4, <2>2, <2>3
<1>6. CASE FoundIn(id) # 0
  <2>1. pass_arguments(params, args) /\ UNCHANGED outcome
    BY <1>6 DEF Call
  <2>2. params \in Seq(Variables)
    BY <1>6, ParametersAre
  <2>3. Abstract!Bound(id) /\ Abstract!Meaning(id).u = params
    <3>1. Abstract!Meaning(id) = Abstract!Cell(symbol_find(id).type, params)
      BY <1>1, <1>2, <1>6, BoundWhereFound
    <3> QED BY <1>1, <1>2, <1>6, <3>1, BoundWhereFound DEF Abstract!Cell
  <2> HIDE DEF params
  <2>4. CASE ArgumentError(params, args) # "none"
    <3>1. Fails(ArgumentError(params, args))
      BY <2>1, <2>4 DEF pass_arguments
    <3>2. IInv' /\ Abstract!Refuses(ArgumentError(params, args))
      BY <2>1, <3>1, FailsIs
    <3>3. Abstract!Enter(params, args)
      BY <2>4, <3>2, SameArgumentError DEF Abstract!Enter
    <3> QED BY <1>4, <2>3, <3>2, <3>3
  <2>5. CASE ArgumentError(params, args) = "none"
    <3> DEFINE taken == Taken(params, args, n)
    <3>1. /\ Lists(params, args) /\ Filling(params, args) = args
          /\ n \in Nat /\ DOMAIN params = 1..n
          /\ \A i \in 1..n :
               /\ args[i] # NULL
               /\ TakesAt(params, args, i) <=>
                    IF variable_name_is_resident(params[i]) THEN value_is_int(args[i])
                    ELSE Fits(params[i], args[i])
      BY <2>2, <2>5, ArgumentsAre
    <3>2. BoundUpTo(params, args, EmptyTable, n, st)
      BY <1>2, <3>1, EmptyTableIs, LocalsBound
    <3> HIDE DEF n, st, taken
    <3>3. taken = AbstractTaken(params, args)
      <4>1. \A j \in 1..n : 1..j \subseteq 1..n
        BY <3>1
      <4> QED BY <3>1, <4>1 DEF Taken, AbstractTaken, taken
    <3>4. /\ st \in States
          /\ st.residents = Abstract!ResidentsAt(params, args, taken)
          /\ Scope(st.table) = Abstract!With(Scope(EmptyTable),
               Abstract!LocalsAt(params, args, TakenLocals(params, args, n)))
          /\ st.error = "none" <=> taken = DOMAIN params
          /\ st.error # "none" => st.error = "TYPE_MISMATCH"
          /\ \A q \in Symbols(st.table) : VariableOK(q)
      BY <3>1, <3>2, EmptyTableIs DEF BoundUpTo, taken
    <3>5. Scope(st.table) = Abstract!LocalsAt(params, args, TakenLocals(params, args, n))
      <4> DEFINE L == Abstract!LocalsAt(params, args, TakenLocals(params, args, n))
      <4>1. L = [x \in DOMAIN L |-> L[x]]
        BY DEF Abstract!LocalsAt
      <4>2. Abstract!With(Scope(EmptyTable), L) = [x \in DOMAIN L |-> L[x]]
        BY EmptyTableIs DEF Abstract!With
      <4> QED BY <3>4, <4>1, <4>2
    <3>6. TakenLocals(params, args, n)
            = {i \in taken : ~variable_name_is_resident(params[i])}
      BY DEF TakenLocals, taken
    <3>7. /\ frames' = IF st.error = "none" THEN Append(frames, st.table) ELSE frames
          /\ residents' = st.residents /\ Answers(st.error, NULL)
          /\ UNCHANGED <<set_time_value, outcome>>
      BY <2>1, <2>5 DEF pass_arguments, st
    <3>8. residents' \in [Letters -> IntRange] /\ Hashed(st.table)
      BY <3>4, <3>7, StateParts
    <3>9. CASE st.error = "none"
      <4>1. /\ FramesOK(frames') /\ Len(frames') = Len(frames) + 1
            /\ Mapped(frames') = Append(Mapped(frames), Scope(st.table))
        <5>1. \A q \in Symbols(st.table) : SymbolOK(q, Len(frames) + 1)
          BY <3>4, VariableIsOK
        <5> QED BY <1>2, <3>7, <3>8, <3>9, <5>1, FrameAdded
      <4>2. IInv'
        BY <1>2, <3>7, <3>8, <4>1, InvariantParts, InvariantNext
      <4>3. Abstract!Enter(params, args)
        BY <2>5, <3>3, <3>4, <3>5, <3>6, <3>7, <3>9, <4>1, AbstractEnter, MappedNext
      <4> QED BY <1>4, <2>3, <4>2, <4>3
    <3>10. CASE st.error # "none"
      <4>1. frames' = frames /\ Answers("TYPE_MISMATCH", NULL)
        BY <3>4, <3>7, <3>10
      <4>2. IInv'
        BY <1>2, <3>7, <3>8, <4>1, InvariantParts, InvariantNext
      <4>3. Abstract!Enter(params, args)
        BY <2>5, <3>3, <3>4, <3>7, <3>10, <4>1, AbstractEnter, MappedNext
      <4> QED BY <1>4, <2>3, <4>2, <4>3
    <3> QED BY <3>9, <3>10
  <2> QED BY <2>4, <2>5
<1> QED BY <1>5, <1>6

(* Taking the top frame off is taking the top scope off.                   *)
LEMMA FrameRemoved ==
  ASSUME NEW fs, FramesOK(fs), Len(fs) > 1
  PROVE  /\ FramesOK(SubSeq(fs, 1, Len(fs) - 1))
         /\ Len(SubSeq(fs, 1, Len(fs) - 1)) = Len(fs) - 1
         /\ Mapped(SubSeq(fs, 1, Len(fs) - 1)) = SubSeq(Mapped(fs), 1, Len(fs) - 1)
         /\ \A f \in 1..(Len(fs) - 1) : SubSeq(fs, 1, Len(fs) - 1)[f] = fs[f]
<1> DEFINE n == Len(fs) - 1
           gs == SubSeq(fs, 1, n)
<1>1. fs \in Seq(Table) /\ n \in Nat \ {0} /\ Len(fs) = n + 1 /\ DOMAIN fs = 1..(n + 1)
  BY DEF FramesOK
<1>2. gs \in Seq(Table) /\ Len(gs) = n /\ DOMAIN gs = 1..n /\ \A g \in 1..n : gs[g] = fs[g]
  <2> HIDE DEF n
  <2> QED BY <1>1
<1> HIDE DEF gs
<1>3. FramesOK(gs)
  <2>1. 1..n \subseteq DOMAIN fs
    BY <1>1
  <2> QED BY <1>2, <2>1 DEF FramesOK
<1>4. Mapped(gs) = SubSeq(Mapped(fs), 1, n)
  <2> DEFINE m == Mapped(fs)
             S == {Scope(fs[g]) : g \in 1..(n + 1)}
  <2> HIDE DEF n
  <2>1. m \in Seq(S) /\ Len(m) = n + 1 /\ \A g \in 1..(n + 1) : m[g] = Scope(fs[g])
    BY <1>1 DEF Mapped
  <2> HIDE DEF m, S
  <2>2. SubSeq(m, 1, n) = [g \in 1..n |-> m[g]]
    BY <1>1, <2>1
  <2>3. Mapped(gs) = [g \in 1..n |-> Scope(fs[g])]
    BY <1>2 DEF Mapped
  <2> QED BY <1>1, <2>1, <2>2, <2>3 DEF m
<1> QED BY <1>2, <1>3, <1>4 DEF gs

(* The end of a call takes its frame off.                                  *)
LEMMA LeaveStep ==
  ASSUME IInv, symbol_table_pop_frame
  PROVE  IInv' /\ Abstract!Leave /\ KeepsHidden /\ KeepsFramesOnFailure
<1> DEFINE n == Len(frames)
<1>1. FramesOK(frames) /\ n \in Nat /\ n > 1 /\ n <= MaxFrames /\ MaxFrames \in Nat
  BY InvariantParts DEF symbol_table_pop_frame, have_frames
<1>2. /\ frames' = SubSeq(frames, 1, n - 1) /\ Answers("none", NULL)
      /\ UNCHANGED <<residents, set_time_value, outcome>>
  BY DEF symbol_table_pop_frame, top_frame
<1>3. /\ FramesOK(frames') /\ Len(frames') = n - 1
      /\ Mapped(frames') = SubSeq(Mapped(frames), 1, n - 1)
      /\ \A f \in 1..(n - 1) : frames'[f] = frames[f]
  BY <1>1, <1>2, FrameRemoved
<1>4. IInv'
  BY <1>1, <1>2, <1>3, InvariantParts, InvariantNext
<1>5. Abstract!Leave
  <2>1. Len(Mapped(frames)) = n
    BY <1>1 DEF Mapped, FramesOK
  <2>2. Abstract!Leave <=>
          /\ Len(Mapped(frames)) > 1
          /\ Mapped(frames)' = SubSeq(Mapped(frames), 1, Len(Mapped(frames)) - 1)
          /\ Abstract!Answers("none", Abstract!NULL)
          /\ UNCHANGED <<residents, set_time_value, outcome>>
    BY Zenon DEF Abstract!Leave, Mapped, Scope
  <2> QED BY <1>1, <1>2, <1>3, <2>1, <2>2, SameNull, AbstractAnswers, MappedNext
<1>6. KeepsHidden
  <2>1. ASSUME NEW id, NEW f \in 1..(FoundIn(id) - 1) PROVE frames'[f] = frames[f]
    <3>1. FoundIn(id) \in 0..n
      BY <1>1, FoundInIs
    <3> QED BY <1>1, <1>3, <3>1
  <2> QED BY <2>1 DEF KeepsHidden, SameBinding
<1> QED BY <1>2, <1>4, <1>5, <1>6 DEF KeepsFramesOnFailure, Answers

(* The frame of one variable changes, and there of that variable alone.    *)
LEMMA OthersKept ==
  ASSUME NEW t, Hashed(t), NEW u, Hashed(u), NEW s \in SymbolSet,
         Symbols(u) = {s} \cup {q \in Symbols(t) : q.id # s.id},
         NEW id \in IdSet, id # s.id
  PROVE  SameBinding(id, t, u)
<1>1. \A q : q.id = id => (q \in Symbols(t) <=> q \in Symbols(u))
  OBVIOUS
<1>2. InFrame(id, t) <=> InFrame(id, u)
  BY <1>1, InFrameIs
<1>3. ASSUME InFrame(id, t) PROVE symbol_find_frame(id, t) = symbol_find_frame(id, u)
  <2>1. symbol_find_frame(id, t) \in Symbols(t) /\ symbol_find_frame(id, t).id = id
    BY <1>3, FoundInFrame
  <2>2. symbol_find_frame(id, u) \in Symbols(u) /\ symbol_find_frame(id, u).id = id
    BY <1>2, <1>3, FoundInFrame
  <2> QED BY <1>1, <2>1, <2>2, OneOfAName
<1> QED BY <1>2, <1>3 DEF SameBinding

(* Changing the frame where a name is found changes no hidden binding.     *)
LEMMA HiddenKept ==
  ASSUME IInv, NEW h \in DOMAIN frames, NEW u, Hashed(u), NEW s \in SymbolSet,
         Symbols(u) = {s} \cup {q \in Symbols(frames[h]) : q.id # s.id},
         FoundIn(s.id) \in {0, h}, frames' = [frames EXCEPT ![h] = u]
  PROVE  KeepsHidden
<1>1. FramesOK(frames) /\ DOMAIN frames = 1..Len(frames) /\ Len(frames) \in Nat
  BY InvariantParts
<1>2. ASSUME NEW id \in Variables, NEW f \in 1..(FoundIn(id) - 1)
      PROVE  SameBinding(id, frames[f], frames'[f])
  <2>1. FoundIn(id) \in 0..Len(frames)
    BY <1>1, FoundInIs
  <2>2. f \in DOMAIN frames /\ f < FoundIn(id)
    BY <1>1, <2>1
  <2>3. CASE f # h
    BY <1>1, <2>2, <2>3 DEF SameBinding
  <2>4. CASE f = h
    <3>1. frames'[f] = u
      BY <1>1, <2>2, <2>4
    <3>2. id # s.id
      BY <1>1, <2>1, <2>2, <2>4
    <3>3. id \in IdSet /\ Hashed(frames[h])
      BY <1>1, FrameIs DEF IdSet
    <3> QED BY <2>4, <3>1, <3>2, <3>3, OthersKept
  <2> QED BY <2>3, <2>4
<1> QED BY <1>2 DEF KeepsHidden

(* The integer of a number is in the range of an int.                      *)
LEMMA ValueIntIs ==
  ASSUME NEW v
  PROVE  value_int(v) \in IntRange
<1>1. IntMin \in IntRange
  BY IntMaxAssumption DEF IntRange, IntMin
<1> QED BY <1>1 DEF value_int

(* An assignment of Scopes that succeeds.                                  *)
LEMMA AbstractAssign ==
  ASSUME NEW id, NEW v
  PROVE  Abstract!Assign(id, v) <=>
    IF variable_name_is_resident(id)
    THEN IF value_is_int(v)
         THEN /\ residents' = [residents EXCEPT ![id[1]] = v.num] /\ Answers("none", NULL)
              /\ Mapped(frames)' = Mapped(frames) /\ UNCHANGED <<set_time_value, outcome>>
         ELSE Abstract!Refuses("TYPE_MISMATCH")
    ELSE IF id = TIME
    THEN IF value_is_numeric(v)
         THEN /\ set_time_value' = value_int(v) /\ Answers("none", NULL)
              /\ Mapped(frames)' = Mapped(frames) /\ UNCHANGED <<residents, outcome>>
         ELSE Abstract!Refuses("TYPE_MISMATCH")
    ELSE IF Fits(id, v)
    THEN /\ Mapped(frames)' =
              [Mapped(frames) EXCEPT
                 ![IF Abstract!Bound(id) THEN Abstract!Innermost(id) ELSE 1] =
                   Abstract!With(@, Abstract!Only(id, Abstract!Variable(v)))]
         /\ Answers("none", NULL)
         /\ UNCHANGED <<residents, set_time_value, outcome>>
    ELSE Abstract!Refuses("TYPE_MISMATCH")
<1>1. Abstract!Assign(id, v) <=>
    IF Abstract!variable_name_is_resident(id)
    THEN IF Abstract!value_is_int(v)
         THEN /\ residents' = [residents EXCEPT ![id[1]] = v.num]
              /\ Abstract!Answers("none", Abstract!NULL)
              /\ Mapped(frames)' = Mapped(frames) /\ UNCHANGED <<set_time_value, outcome>>
         ELSE Abstract!Refuses("TYPE_MISMATCH")
    ELSE IF id = Abstract!TIME
    THEN IF Abstract!value_is_numeric(v)
         THEN /\ set_time_value' = Abstract!value_int(v)
              /\ Abstract!Answers("none", Abstract!NULL)
              /\ Mapped(frames)' = Mapped(frames) /\ UNCHANGED <<residents, outcome>>
         ELSE Abstract!Refuses("TYPE_MISMATCH")
    ELSE IF Abstract!Fits(id, v)
    THEN /\ Mapped(frames)' =
              [Mapped(frames) EXCEPT
                 ![IF Abstract!Bound(id) THEN Abstract!Innermost(id) ELSE 1] =
                   Abstract!With(@, Abstract!Only(id, Abstract!Variable(v)))]
         /\ Abstract!Answers("none", Abstract!NULL)
         /\ UNCHANGED <<residents, set_time_value, outcome>>
    ELSE Abstract!Refuses("TYPE_MISMATCH")
  BY Zenon DEF Abstract!Assign, Mapped, Scope
<1>2. Abstract!value_int(v) = value_int(v)
  BY SameValues, Zenon
<1> QED BY <1>1, <1>2, SameNull, SameNames, SameTests, SameFits, AbstractAnswers

(* An assignment: where the name is found, or else in the base table.      *)
LEMMA AssignStep ==
  ASSUME IInv, NEW id \in Variables, NEW v \in Assigned, Assign(id, v)
  PROVE  IInv' /\ Abstract!Assign(id, v) /\ KeepsHidden /\ KeepsFramesOnFailure
<1> DEFINE st(f) == [table |-> frames[f], residents |-> residents, error |-> "none"]
<1>1. /\ FramesOK(frames) /\ Len(frames) \in 1..MaxFrames /\ Len(frames) \in Nat \ {0}
      /\ DOMAIN frames = 1..Len(frames)
      /\ residents \in [Letters -> IntRange] /\ set_time_value \in IntRange
      /\ outcome \in {"running", "abort", "exit", "overrun", "crash", "ended"}
  BY InvariantParts
<1>2. v \in Value /\ v # NULL /\ v \in Value \cup {NULL} /\ id \in IdSet
  BY SymbolsAssumption, ValueIsNotNull DEF IdSet
<1>3. ASSUME NEW f \in DOMAIN frames
      PROVE  /\ st(f) \in States /\ st(f).table = frames[f]
             /\ st(f).residents = residents /\ st(f).error = "none"
  <2>1. Hashed(frames[f])
    BY <1>1, FrameIs
  <2> QED BY <1>1, <2>1, StateIs
<1>4. [frames EXCEPT ![1] = frames[1]] = frames
  BY <1>1 DEF FramesOK
<1>5. CASE variable_name_is_resident(id)
  <2> DEFINE new == resident_assign(id[1], v, st(1))
  <2>1. Takes(new, 1)
    BY <1>5 DEF Assign
  <2>2. id[1] \in Letters /\ 1 \in DOMAIN frames
    BY <1>1, <1>5, ResidentLetter
  <2>3. /\ new \in States /\ new.table = frames[1]
        /\ value_is_int(v) => /\ new.error = "none"
                              /\ new.residents = [residents EXCEPT ![id[1]] = v.num]
        /\ ~value_is_int(v) => new.error = "TYPE_MISMATCH" /\ new.residents = residents
    <3> HIDE DEF st
    <3>1. st(1) \in States
      BY <1>3, <2>2
    <3>2. /\ new \in States
          /\ new.table = st(1).table
          /\ value_is_int(v) =>
               new.error = st(1).error /\ new.residents = [st(1).residents EXCEPT ![id[1]] = v.num]
          /\ ~value_is_int(v) =>
               new.error = "TYPE_MISMATCH" /\ new.residents = st(1).residents
      BY <1>2, <2>2, <3>1, ResidentAssigned
    <3> QED BY <1>3, <2>2, <3>2
  <2> HIDE DEF new
  <2>4. /\ Answers(new.error, NULL) /\ UNCHANGED <<frames, set_time_value, outcome>>
        /\ residents' = new.residents
    BY <1>4, <2>1, <2>3 DEF Takes
  <2>5. residents' \in [Letters -> IntRange]
    BY <2>3, <2>4, StateParts
  <2>6. IInv' /\ Mapped(frames)' = Mapped(frames) /\ KeepsHidden /\ KeepsFramesOnFailure
    BY <1>1, <2>4, <2>5, FramesSame
  <2>7. Abstract!Assign(id, v)
    BY <1>5, <2>3, <2>4, <2>6, AbstractAssign, AbstractRefuses
  <2> QED BY <2>6, <2>7
<1>6. CASE ~variable_name_is_resident(id) /\ id = TIME
  <2>1. IF value_is_numeric(v)
        THEN /\ set_time_value' = value_int(v) /\ Answers("none", NULL)
             /\ UNCHANGED <<frames, residents, outcome>>
        ELSE Answers("TYPE_MISMATCH", NULL)
             /\ UNCHANGED <<frames, residents, set_time_value, outcome>>
    BY <1>6 DEF Assign, Fails
  <2>2. set_time_value' \in IntRange
    BY <1>1, <2>1, ValueIntIs
  <2>3. IInv' /\ Mapped(frames)' = Mapped(frames) /\ KeepsHidden /\ KeepsFramesOnFailure
    BY <1>1, <2>1, <2>2, FramesSame
  <2>4. Abstract!Assign(id, v)
    BY <1>6, <2>1, <2>3, AbstractAssign, AbstractRefuses
  <2> QED BY <2>3, <2>4
<1>7. CASE ~variable_name_is_resident(id) /\ id # TIME
  <2> DEFINE h == Home(id)
             new == variable_add_frame(id, v, st(h))
             s == Symbol(id, Kind(v), v)
  <2>1. Takes(new, h)
    BY <1>7 DEF Assign
  <2>2. h \in DOMAIN frames /\ h = IF FoundIn(id) = 0 THEN 1 ELSE FoundIn(id)
    BY <1>1, HomeIs
  <2> HIDE DEF h
  <2>3. /\ new \in States /\ new.residents = residents
        /\ Fits(id, v) =>
             /\ new.error = "none"
             /\ Symbols(new.table) = {s} \cup {q \in Symbols(frames[h]) : q.id # id}
        /\ ~Fits(id, v) => new.error = "TYPE_MISMATCH" /\ new.table = frames[h]
    <3> HIDE DEF st
    <3>1. st(h) \in States
      BY <1>3, <2>2
    <3>2. /\ new \in States
          /\ new.residents = st(h).residents
          /\ Fits(id, v) =>
               /\ new.error = st(h).error
               /\ Symbols(new.table) = {s} \cup {q \in Symbols(st(h).table) : q.id # id}
          /\ ~Fits(id, v) => new.error = "TYPE_MISMATCH" /\ new.table = st(h).table
      BY <1>2, <3>1, VariableAdded
    <3> QED BY <1>3, <2>2, <3>2
  <2> HIDE DEF new
  <2>4. /\ Answers(new.error, NULL) /\ UNCHANGED <<set_time_value, outcome>>
        /\ frames' = [frames EXCEPT ![h] = new.table]
        /\ residents' = residents
    BY <2>1, <2>3 DEF Takes
  <2>5. CASE Fits(id, v)
    <3>1. s \in SymbolSet /\ s.id = id /\ s.type = Kind(v) /\ s.u = v
      BY <1>2, VariableIsSymbol
    <3>2. VariableOK(s)
      BY <2>5, <3>1, KindIsSimple DEF VariableOK
    <3> HIDE DEF s
    <3>3. Hashed(new.table) /\ Hashed(frames[h])
      BY <1>1, <2>2, <2>3, StateParts, FrameIs
    <3>4. \A q \in Symbols(new.table) : SymbolOK(q, h)
      BY <1>1, <2>2, <2>3, <2>5, <3>2, VariableIsOK, FrameIs
    <3>5. /\ FramesOK(frames') /\ Len(frames') = Len(frames)
          /\ Mapped(frames') = [Mapped(frames) EXCEPT ![h] = Scope(new.table)]
      <4> DEFINE t == new.table
      <4> HIDE DEF t
      <4>1. /\ FramesOK([frames EXCEPT ![h] = t])
            /\ Len([frames EXCEPT ![h] = t]) = Len(frames)
            /\ Mapped([frames EXCEPT ![h] = t]) = [Mapped(frames) EXCEPT ![h] = Scope(t)]
        <5>1. /\ FramesOK(frames) /\ h \in DOMAIN frames /\ Hashed(t)
              /\ \A q \in Symbols(t) : SymbolOK(q, h)
          BY <1>1, <2>2, <3>3, <3>4 DEF t
        <5> QED BY <5>1, FrameChanged, Zenon
      <4> QED BY <2>4, <4>1 DEF t
    <3>6. IInv'
      BY <1>1, <2>4, <3>5, InvariantNext
    <3>7. Scope(new.table) = Abstract!With(Scope(frames[h]),
                               Abstract!Only(id, Abstract!Variable(v)))
      <4>1. Abstract!Variable(v) = Abstract!Cell(Kind(v), v)
        BY SameTests DEF Abstract!Variable
      <4>2. Symbols(new.table) = {s} \cup {q \in Symbols(frames[h]) : q.id # s.id}
        BY <2>3, <2>5, <3>1
      <4> QED BY <3>1, <3>3, <4>1, <4>2, ScopeWith
    <3>8. Abstract!Assign(id, v)
      <4>1. h = IF Abstract!Bound(id) THEN Abstract!Innermost(id) ELSE 1
        BY <1>1, <1>2, <2>2, BoundWhereFound
      <4>2. Mapped(frames)[h] = Scope(frames[h])
        BY <2>2 DEF Mapped
      <4>3. Mapped(frames)' = [Mapped(frames) EXCEPT ![h] =
              Abstract!With(@, Abstract!Only(id, Abstract!Variable(v)))]
        BY <3>5, <3>7, <4>2, MappedNext
      <4> QED BY <1>7, <2>3, <2>4, <2>5, <4>1, <4>3, AbstractAssign
    <3>9. KeepsHidden
      BY <1>1, <2>2, <2>3, <2>4, <2>5, <3>1, <3>3, HiddenKept
    <3> QED BY <2>3, <2>4, <2>5, <3>6, <3>8, <3>9 DEF KeepsFramesOnFailure, Answers
  <2>6. CASE ~Fits(id, v)
    <3>1. frames' = frames
      BY <1>1, <2>2, <2>3, <2>4, <2>6 DEF FramesOK
    <3>2. IInv' /\ Mapped(frames)' = Mapped(frames) /\ KeepsHidden /\ KeepsFramesOnFailure
      BY <1>1, <2>4, <3>1, FramesSame
    <3>3. Abstract!Assign(id, v)
      BY <1>7, <2>3, <2>4, <2>6, <3>2, AbstractAssign, AbstractRefuses
    <3> QED BY <3>2, <3>3
  <2> QED BY <2>5, <2>6
<1> QED BY <1>5, <1>6, <1>7

SameState ==
  Mapped(frames)' = Mapped(frames) /\ UNCHANGED <<residents, set_time_value, outcome>>

(* The value of a variable as Scopes gives it.                             *)
LEMMA AbstractEval ==
  ASSUME NEW id
  PROVE  Abstract!Eval(id) <=>
    IF variable_name_is_resident(id)
    THEN Answers("none", value_int_new(residents[id[1]])) /\ SameState
    ELSE IF id = TIME
    THEN /\ \E t \in Elapsed : Answers("none", value_int_new(Wrap(set_time_value + t)))
         /\ SameState
    ELSE IF id = COUNT
    THEN (\E c \in Columns : Answers("none", value_int_new(c))) /\ SameState
    ELSE IF ~Abstract!Bound(id) THEN Abstract!Refuses("NO_SUCH_VARIABLE")
    ELSE IF Abstract!Meaning(id).type = "ARRAY" THEN Abstract!Stops("abort")
    ELSE Answers("none", Abstract!Meaning(id).u) /\ SameState
<1>1. Abstract!Eval(id) <=>
    IF Abstract!variable_name_is_resident(id)
    THEN Abstract!Answers("none", Abstract!value_int_new(residents[id[1]])) /\ SameState
    ELSE IF id = Abstract!TIME
    THEN /\ \E t \in Elapsed :
              Abstract!Answers("none", Abstract!value_int_new(Abstract!Wrap(set_time_value + t)))
         /\ SameState
    ELSE IF id = Abstract!COUNT
    THEN (\E c \in Columns : Abstract!Answers("none", Abstract!value_int_new(c))) /\ SameState
    ELSE IF ~Abstract!Bound(id) THEN Abstract!Refuses("NO_SUCH_VARIABLE")
    ELSE IF Abstract!Meaning(id).type = "ARRAY" THEN Abstract!Stops("abort")
    ELSE Abstract!Answers("none", Abstract!Meaning(id).u) /\ SameState
  BY Zenon DEF Abstract!Eval, SameState, Mapped, Scope
<1>2. (\A n : Abstract!value_int_new(n) = value_int_new(n)) /\ \A n : Abstract!Wrap(n) = Wrap(n)
  BY SameValues, Zenon
<1> QED BY <1>1, <1>2, SameNull, SameNames, AbstractAnswers

(* Reading a variable changes no frame.                                    *)
LEMMA EvalStep ==
  ASSUME IInv, NEW id \in Variables, Eval(id)
  PROVE  IInv' /\ Abstract!Eval(id) /\ KeepsHidden /\ KeepsFramesOnFailure
<1>1. /\ FramesOK(frames) /\ residents \in [Letters -> IntRange]
      /\ set_time_value \in IntRange
      /\ outcome \in {"running", "abort", "exit", "overrun", "crash", "ended"}
  BY InvariantParts
<1>2. id \in IdSet
  BY DEF IdSet
<1>3. UNCHANGED <<frames, residents, set_time_value>> /\ outcome' \in {outcome, "abort"}
  BY DEF Eval, Stops
<1>4. IInv' /\ Mapped(frames)' = Mapped(frames) /\ KeepsHidden /\ KeepsFramesOnFailure
  BY <1>1, <1>3, FramesSame
<1>5. IF variable_name_is_resident(id)
      THEN Answers("none", value_int_new(residents[id[1]])) /\ UNCHANGED outcome
      ELSE IF id = TIME
      THEN (\E t \in Elapsed : Answers("none", value_int_new(Wrap(set_time_value + t))))
           /\ UNCHANGED outcome
      ELSE IF id = COUNT
      THEN (\E c \in Columns : Answers("none", value_int_new(c))) /\ UNCHANGED outcome
      ELSE IF FoundIn(id) = 0
      THEN Answers("NO_SUCH_VARIABLE", NULL) /\ UNCHANGED outcome
      ELSE IF symbol_find(id).type = "ARRAY" THEN outcome' = "abort" /\ Answers("none", NULL)
      ELSE Answers("none", symbol_find(id).u) /\ UNCHANGED outcome
  BY Zenon DEF Eval, Stops
<1>6. /\ Abstract!Bound(id) <=> FoundIn(id) # 0
      /\ FoundIn(id) # 0 => /\ Abstract!Meaning(id).type = symbol_find(id).type
                            /\ Abstract!Meaning(id).u = symbol_find(id).u
  BY <1>1, <1>2, BoundWhereFound DEF Abstract!Cell
<1>7. SameState <=> UNCHANGED outcome
  BY <1>3, <1>4 DEF SameState
<1>8. Abstract!Refuses("NO_SUCH_VARIABLE") <=>
        Answers("NO_SUCH_VARIABLE", NULL) /\ UNCHANGED outcome
  BY <1>3, <1>4, AbstractRefuses
<1>9. Abstract!Stops("abort") <=> outcome' = "abort" /\ Answers("none", NULL)
  BY <1>3, <1>4, AbstractStops
<1>10. Abstract!Eval(id)
  BY <1>5, <1>6, <1>7, <1>8, <1>9, AbstractEval
<1> QED BY <1>4, <1>10

(* The array a DIM makes.                                                  *)
Numbers(vals) == [i \in DOMAIN vals |-> vals[i].num]
NewArray(id, vals) ==
  [dims |-> Numbers(vals),
   data |-> [i \in 1..array_size(Numbers(vals)) |-> Zero(ArrayType(id))]]
Typed(id) ==
  \/ variable_name_is_real(id) \/ variable_name_is_string(id)
  \/ variable_name_is_resident(id) \/ variable_name_is_integer(id)

(* The array that DIM makes is a symbol.                                   *)
LEMMA NewArrayIs ==
  ASSUME NEW id \in Arrays, NEW vals \in DimLists,
         \A i \in DOMAIN vals : value_is_int(vals[i])
  PROVE  /\ Symbol(id, "ARRAY", NewArray(id, vals)) \in SymbolSet
         /\ SymbolOK(Symbol(id, "ARRAY", NewArray(id, vals)), 1)
<1> DEFINE a == NewArray(id, vals)
           type == ArrayType(id)
           n == array_size(Numbers(vals))
<1>1. Numbers(vals) \in Seq(Int) /\ n \in Nat
  <2>1. vals \in Seq(Value)
    BY SymbolsAssumption
  <2>2. \A i \in 1..Len(vals) : vals[i].num \in Int
    <3>1. \A i \in 1..Len(vals) : vals[i] \in Value /\ value_is_int(vals[i])
      BY <2>1
    <3> QED BY <3>1, IntegerValue
  <2>3. Numbers(vals) = [i \in 1..Len(vals) |-> vals[i].num] /\ Len(vals) \in Nat
    BY <2>1 DEF Numbers
  <2>4. Numbers(vals) \in Seq(Int)
    BY <2>2, <2>3
  <2> QED BY <2>4, ArraySizeIsNat
<1>2. /\ Zero(type) \in Value /\ ElementFits(type, Zero(type))
      /\ Element(type, Zero(type)) = Zero(type)
  BY ArrayTypeIs, ZeroIs
<1> HIDE DEF type, n
<1>3. /\ a.data = [i \in 1..n |-> Zero(type)]
      /\ a.dims = Numbers(vals)
      /\ a = [dims |-> Numbers(vals), data |-> [i \in 1..n |-> Zero(type)]]
  BY DEF NewArray, type, n
<1>4. a.data \in Seq(Value) /\ Len(a.data) = n /\ DOMAIN a.data = 1..n
  BY <1>1, <1>2, <1>3
<1>5. a \in ArraySet
  BY <1>1, <1>3, <1>4 DEF ArraySet
<1> HIDE DEF a
<1>6. id \in Variables /\ id \in IdSet
  BY SymbolsAssumption DEF IdSet
<1> DEFINE s == Symbol(id, "ARRAY", a)
<1>7. s \in SymbolSet /\ s.id = id /\ s.type = "ARRAY" /\ s.u = a
  BY <1>5, <1>6 DEF Symbol, SymbolSet
<1>8. n = array_size(a.dims)
  BY <1>3 DEF n
<1> HIDE DEF s
<1>9. SymbolOK(s, 1)
  <2>1. \A k \in DOMAIN s.u.data : /\ ElementFits(ArrayType(s.id), s.u.data[k])
                                   /\ Element(ArrayType(s.id), s.u.data[k]) = s.u.data[k]
    BY <1>2, <1>3, <1>4, <1>7 DEF type
  <2> QED BY <1>4, <1>6, <1>7, <1>8, <2>1 DEF SymbolOK, Simple
<1> QED BY <1>7, <1>9 DEF s, a

(* A DIM of Scopes that succeeds.                                          *)
LEMMA AbstractDim ==
  ASSUME NEW id, NEW vals
  PROVE  Abstract!Dim(id, vals) <=>
    IF \E i \in DOMAIN vals : ~value_is_int(vals[i]) THEN Abstract!Refuses("TYPE_MISMATCH")
    ELSE IF Abstract!Bound(id) THEN Abstract!Refuses("BAD_DIM")
    ELSE IF ~Typed(id) THEN Abstract!Stops("abort")
    ELSE IF Allocation(Numbers(vals)) # "made"
    THEN Abstract!Stops(Allocation(Numbers(vals)))
    ELSE /\ Mapped(frames)' = [Mapped(frames) EXCEPT ![1] =
              Abstract!With(@, Abstract!Only(id, Abstract!Cell("ARRAY", NewArray(id, vals))))]
         /\ Answers("none", NULL)
         /\ UNCHANGED <<residents, set_time_value, outcome>>
<1>1. Abstract!Dim(id, vals) <=>
    IF \E i \in DOMAIN vals : ~Abstract!value_is_int(vals[i])
    THEN Abstract!Refuses("TYPE_MISMATCH")
    ELSE IF Abstract!Bound(id) THEN Abstract!Refuses("BAD_DIM")
    ELSE IF ~(\/ Abstract!variable_name_is_real(id) \/ Abstract!variable_name_is_string(id)
              \/ Abstract!variable_name_is_resident(id)
              \/ Abstract!variable_name_is_integer(id)) THEN Abstract!Stops("abort")
    ELSE IF Abstract!Allocation(Numbers(vals)) # "made"
    THEN Abstract!Stops(Abstract!Allocation(Numbers(vals)))
    ELSE /\ Mapped(frames)' = [Mapped(frames) EXCEPT ![1] =
              Abstract!With(@, Abstract!Only(id, Abstract!Cell("ARRAY",
                [dims |-> Numbers(vals),
                 data |-> [i \in 1..Abstract!array_size(Numbers(vals)) |->
                             Abstract!Zero(Abstract!ArrayType(id))]])))]
         /\ Abstract!Answers("none", Abstract!NULL)
         /\ UNCHANGED <<residents, set_time_value, outcome>>
  BY Zenon DEF Abstract!Dim, Mapped, Scope, Numbers
<1>2. /\ Abstract!array_size(Numbers(vals)) = array_size(Numbers(vals))
      /\ Abstract!Allocation(Numbers(vals)) = Allocation(Numbers(vals))
  BY SameArrays, SameAllocation, Zenon
<1>3. Abstract!Zero(Abstract!ArrayType(id)) = Zero(ArrayType(id))
  BY SameNames, SameElements, Zenon
<1> QED BY <1>1, <1>2, <1>3, SameNull, SameNames, SameTests, AbstractAnswers
        DEF Typed, NewArray

(* A DIM makes an array in the base table.                                 *)
LEMMA DimStep ==
  ASSUME IInv, NEW id \in Arrays, NEW vals \in DimLists, Dim(id, vals)
  PROVE  IInv' /\ Abstract!Dim(id, vals) /\ KeepsHidden /\ KeepsFramesOnFailure
<1> DEFINE s == Symbol(id, "ARRAY", NewArray(id, vals))
           t == symbol_insert_frame(s, frames[1])
<1>1. /\ FramesOK(frames) /\ Len(frames) \in 1..MaxFrames /\ Len(frames) \in Nat \ {0}
      /\ DOMAIN frames = 1..Len(frames)
      /\ residents \in [Letters -> IntRange] /\ set_time_value \in IntRange
      /\ outcome \in {"running", "abort", "exit", "overrun", "crash", "ended"}
  BY InvariantParts
<1>2. id \in Variables /\ id \in IdSet
  BY SymbolsAssumption DEF IdSet
<1>3. /\ UNCHANGED <<residents, set_time_value>>
      /\ IF \E i \in DOMAIN vals : ~value_is_int(vals[i])
         THEN Answers("TYPE_MISMATCH", NULL) /\ UNCHANGED <<frames, outcome>>
         ELSE IF FoundIn(id) # 0
         THEN Answers("BAD_DIM", NULL) /\ UNCHANGED <<frames, outcome>>
         ELSE IF ~Typed(id)
         THEN outcome' = "abort" /\ Answers("none", NULL) /\ UNCHANGED frames
         ELSE IF Allocation(Numbers(vals)) # "made"
         THEN outcome' = Allocation(Numbers(vals)) /\ Answers("none", NULL) /\ UNCHANGED frames
         ELSE /\ frames' = [frames EXCEPT ![1] = t]
              /\ Answers("none", NULL) /\ UNCHANGED outcome
  BY Zenon DEF Dim, Stops, Typed, NewArray, Numbers
<1>4. Abstract!Bound(id) <=> FoundIn(id) # 0
  BY <1>1, <1>2, BoundWhereFound
<1> HIDE DEF t
<1>5. CASE UNCHANGED frames /\ ~(/\ \A i \in DOMAIN vals : value_is_int(vals[i])
                                 /\ FoundIn(id) = 0 /\ Typed(id)
                                 /\ Allocation(Numbers(vals)) = "made")
  <2>1. outcome' \in {"running", "abort", "exit", "overrun", "crash", "ended"}
    BY <1>1, <1>3, <1>5 DEF Allocation
  <2>2. IInv' /\ Mapped(frames)' = Mapped(frames) /\ KeepsHidden /\ KeepsFramesOnFailure
    BY <1>1, <1>3, <1>5, <2>1, FramesSame
  <2>3. Abstract!Dim(id, vals)
    BY <1>3, <1>4, <1>5, <2>2, AbstractDim, AbstractRefuses, AbstractStops
  <2> QED BY <2>2, <2>3
<1>6. CASE /\ \A i \in DOMAIN vals : value_is_int(vals[i])
           /\ FoundIn(id) = 0 /\ Typed(id)
           /\ Allocation(Numbers(vals)) = "made"
  <2>1. /\ frames' = [frames EXCEPT ![1] = t] /\ Answers("none", NULL)
        /\ UNCHANGED <<residents, set_time_value, outcome>>
    BY <1>3, <1>6
  <2>3. s \in SymbolSet /\ SymbolOK(s, 1)
    BY <1>6, NewArrayIs
  <2>4. s.id = id /\ s.type = "ARRAY" /\ s.u = NewArray(id, vals)
    BY DEF Symbol
  <2> HIDE DEF s
  <2>5. 1 \in DOMAIN frames /\ Hashed(frames[1]) /\ \A q \in Symbols(frames[1]) : SymbolOK(q, 1)
    BY <1>1, FrameIs
  <2>6. /\ Hashed(t)
        /\ Symbols(t) = {s} \cup {q \in Symbols(frames[1]) : q.id # s.id}
    BY <2>3, <2>5, InsertedInTable DEF t
  <2>7. /\ FramesOK([frames EXCEPT ![1] = t]) /\ Len([frames EXCEPT ![1] = t]) = Len(frames)
        /\ Mapped([frames EXCEPT ![1] = t]) = [Mapped(frames) EXCEPT ![1] = Scope(t)]
    <3>1. \A q \in Symbols(t) : SymbolOK(q, 1)
      BY <2>3, <2>5, <2>6
    <3> QED BY <1>1, <2>5, <2>6, <3>1, FrameChanged, Zenon
  <2>8. IInv'
    BY <1>1, <2>1, <2>7, InvariantNext
  <2>9. Abstract!Dim(id, vals)
    <3>1. Scope(t) = Abstract!With(Scope(frames[1]),
                       Abstract!Only(id, Abstract!Cell("ARRAY", NewArray(id, vals))))
      BY <2>3, <2>4, <2>5, <2>6, ScopeWith
    <3>2. Mapped(frames)[1] = Scope(frames[1])
      BY <2>5 DEF Mapped
    <3>3. Mapped(frames)' = [Mapped(frames) EXCEPT ![1] =
            Abstract!With(@, Abstract!Only(id, Abstract!Cell("ARRAY", NewArray(id, vals))))]
      BY <2>1, <2>7, <3>1, <3>2, MappedNext
    <3> QED BY <1>4, <1>6, <2>1, <3>3, AbstractDim
  <2>10. KeepsHidden
    BY <1>6, <2>1, <2>3, <2>4, <2>5, <2>6, HiddenKept
  <2> QED BY <2>1, <2>8, <2>9, <2>10 DEF KeepsFramesOnFailure, Answers
<1> QED BY <1>3, <1>5, <1>6

(* An element is set: the array with it takes the place of the old one.    *)
SetData(s, k, e) ==
  Symbol(s.id, "ARRAY", [dims |-> s.u.dims, data |-> [s.u.data EXCEPT ![k] = e]])

ElementChanged(s, k, e) == [s EXCEPT !.u.data[k] = e]
ElementChangedIn(t, id, k, e) == [t EXCEPT ![Hash[id]][Place(id, t)].u.data[k] = e]
DataSet(s, f, k, e, r) ==
  /\ r \in SymbolSet /\ r.id = s.id /\ r.type = "ARRAY"
  /\ r.u = [dims |-> s.u.dims, data |-> [s.u.data EXCEPT ![k] = e]]
  /\ r = ElementChanged(s, k, e)
  /\ SymbolOK(r, f)

(* The symbol of an array.                                                 *)
LEMMA ArraySymbol ==
  ASSUME NEW s \in SymbolSet, s.type = "ARRAY"
  PROVE  /\ s = [id |-> s.id, type |-> "ARRAY", u |-> s.u]
         /\ s.u = [dims |-> s.u.dims, data |-> s.u.data]
         /\ s.u \in ArraySet /\ s.u.dims \in Seq(Int) /\ s.u.data \in Seq(Value)
<1>1. s \in [id : IdSet, type : {"ARRAY"}, u : ArraySet]
  BY DEF SymbolSet, Simple
<1>2. s.u \in ArraySet /\ s = [id |-> s.id, type |-> "ARRAY", u |-> s.u]
  BY <1>1
<1> QED BY <1>2 DEF ArraySet

(* Changing one element gives an array of the same dimensions.             *)
LEMMA SetDataIs ==
  ASSUME NEW s \in SymbolSet, s.type = "ARRAY", NEW f, SymbolOK(s, f), NEW k, NEW e \in Value,
         ElementFits(ArrayType(s.id), e), Element(ArrayType(s.id), e) = e
  PROVE  DataSet(s, f, k, e, SetData(s, k, e))
<1> DEFINE old == s.u.data
           new == [s.u.data EXCEPT ![k] = e]
           type == ArrayType(s.id)
           r == SetData(s, k, e)
<1>1. /\ s = [id |-> s.id, type |-> "ARRAY", u |-> s.u]
      /\ s.u = [dims |-> s.u.dims, data |-> old]
      /\ s.u.dims \in Seq(Int) /\ old \in Seq(Value)
  BY ArraySymbol
<1>2. /\ f = 1 /\ s.id \in Variables /\ Len(old) = array_size(s.u.dims)
      /\ \A i \in DOMAIN old : ElementFits(type, old[i]) /\ Element(type, old[i]) = old[i]
  BY DEF SymbolOK, Simple
<1> HIDE DEF old, type
<1>3. /\ new \in Seq(Value) /\ Len(new) = Len(old) /\ DOMAIN new = DOMAIN old
      /\ \A i \in DOMAIN old : new[i] = old[i] \/ new[i] = e
  <2>1. new = [old EXCEPT ![k] = e]
    BY DEF old
  <2>2. CASE k \in DOMAIN old
    <3> HIDE DEF new
    <3>1. /\ new \in Seq(Value) /\ DOMAIN new = DOMAIN old /\ new[k] = e
          /\ \A i \in DOMAIN old : i # k => new[i] = old[i]
      BY <1>1, <2>1, <2>2, ChangedPlace
    <3>2. \A i \in DOMAIN old : new[i] = old[i] \/ new[i] = e
      BY <3>1
    <3>3. Len(new) = Len(old)
      BY <1>1, <3>1
    <3> QED BY <3>1, <3>2, <3>3
  <2>3. CASE k \notin DOMAIN old
    <3> HIDE DEF new
    <3>1. old = [i \in DOMAIN old |-> old[i]]
      BY <1>1, SequenceIsFunction
    <3>2. [old EXCEPT ![k] = e] = [i \in DOMAIN old |-> old[i]]
      BY <2>3
    <3> QED BY <1>1, <2>1, <3>1, <3>2
  <2> QED BY <2>2, <2>3
<1> HIDE DEF new
<1>4. r = [id |-> s.id, type |-> "ARRAY", u |-> [dims |-> s.u.dims, data |-> new]]
  BY DEF SetData, Symbol, new
<1>5. [dims |-> s.u.dims, data |-> new] \in ArraySet
  BY <1>1, <1>3 DEF ArraySet
<1>6. r \in SymbolSet
  BY <1>4, <1>5, SymbolFields DEF SymbolSet
<1>7. r = [s EXCEPT !.u.data[k] = e]
  <2> DEFINE u == s.u
             n == s.id
  <2>1. [s EXCEPT !.u.data[k] = e] = [s EXCEPT !.u = [u EXCEPT !.data = new]]
    BY DEF new
  <2>2. u = [dims |-> u.dims, data |-> old] /\ s = [id |-> n, type |-> "ARRAY", u |-> u]
    BY <1>1
  <2> HIDE DEF u, n
  <2>3. [u EXCEPT !.data = new] = [dims |-> u.dims, data |-> new]
    BY <2>2
  <2>4. \A w : [s EXCEPT !.u = w] = [id |-> n, type |-> "ARRAY", u |-> w]
    BY <2>2
  <2> QED BY <1>4, <2>1, <2>3, <2>4 DEF u, n
<1>8. SymbolOK(r, f)
  <2>1. \A i \in DOMAIN new : ElementFits(type, new[i]) /\ Element(type, new[i]) = new[i]
    BY <1>2, <1>3 DEF type
  <2> QED BY <1>2, <1>3, <1>4, <2>1 DEF SymbolOK, Simple, type
<1> QED BY <1>4, <1>6, <1>7, <1>8 DEF new, DataSet, ElementChanged

(* An assignment of Scopes to an element.                                  *)
LEMMA AbstractSetElement ==
  ASSUME NEW id, NEW indices, NEW v
  PROVE  Abstract!SetElement(id, indices, v) <=>
    IF Abstract!Refusal(id, indices) \in {"abort", "overrun"}
    THEN Abstract!Stops(Abstract!Refusal(id, indices))
    ELSE IF Abstract!Refusal(id, indices) # "none"
    THEN Abstract!Refuses(Abstract!Refusal(id, indices))
    ELSE IF ~ElementFits(ArrayType(id), v) THEN Abstract!Refuses("TYPE_MISMATCH")
    ELSE /\ Mapped(frames)' =
              [Mapped(frames) EXCEPT
                 ![Abstract!Innermost(id)][id].u.data[Abstract!At(id, indices)] =
                   Element(ArrayType(id), v)]
         /\ Answers("none", NULL)
         /\ UNCHANGED <<residents, set_time_value, outcome>>
<1>1. Abstract!SetElement(id, indices, v) <=>
    IF Abstract!Refusal(id, indices) \in {"abort", "overrun"}
    THEN Abstract!Stops(Abstract!Refusal(id, indices))
    ELSE IF Abstract!Refusal(id, indices) # "none"
    THEN Abstract!Refuses(Abstract!Refusal(id, indices))
    ELSE IF ~Abstract!ElementFits(Abstract!ArrayType(id), v)
    THEN Abstract!Refuses("TYPE_MISMATCH")
    ELSE /\ Mapped(frames)' =
              [Mapped(frames) EXCEPT
                 ![Abstract!Innermost(id)][id].u.data[Abstract!At(id, indices)] =
                   Abstract!Element(Abstract!ArrayType(id), v)]
         /\ Abstract!Answers("none", Abstract!NULL)
         /\ UNCHANGED <<residents, set_time_value, outcome>>
  BY Zenon DEF Abstract!SetElement, Mapped, Scope
<1> QED BY <1>1, SameNull, SameNames, SameElements, AbstractAnswers

(* Scopes refuses a subscript for the reason the array does.               *)
LEMMA RefusalIs ==
  ASSUME FramesOK(frames), NEW id \in IdSet, NEW indices
  PROVE  /\ Abstract!Refusal(id, indices) = ArrayError(id, indices)
         /\ ArrayError(id, indices) = "none" =>
              /\ FoundIn(id) # 0 /\ symbol_find(id).type = "ARRAY"
              /\ Abstract!At(id, indices)
                   = array_index(symbol_find(id).u.dims, indices) + 1
<1>1. /\ Abstract!Bound(id) <=> FoundIn(id) # 0
      /\ FoundIn(id) # 0 => /\ Abstract!Meaning(id).type = symbol_find(id).type
                            /\ Abstract!Meaning(id).u = symbol_find(id).u
  BY BoundWhereFound DEF Abstract!Cell
<1>2. Abstract!Refusal(id, indices) = ArrayError(id, indices)
  <2>1. Abstract!Refusal(id, indices) =
          IF ~Abstract!Bound(id) \/ (Abstract!Bound(id) /\ Abstract!Meaning(id).type # "ARRAY")
          THEN "ARRAY"
          ELSE ElementError(Abstract!Meaning(id).u, indices)
    BY SameElementError DEF Abstract!Refusal
  <2> QED BY <1>1, <2>1 DEF ArrayError
<1>3. ASSUME ArrayError(id, indices) = "none"
      PROVE  FoundIn(id) # 0 /\ symbol_find(id).type = "ARRAY"
  BY <1>3 DEF ArrayError
<1>4. Abstract!At(id, indices) = array_index(Abstract!Meaning(id).u.dims, indices) + 1
  BY SameArrays, Zenon DEF Abstract!At
<1> QED BY <1>1, <1>2, <1>3, <1>4

(* Putting a changed symbol in its place in the chain is inserting it.     *)
LEMMA SymbolReplaced ==
  ASSUME NEW t, Hashed(t), NEW s \in Symbols(t), NEW k, NEW e,
         NEW r, r = ElementChanged(s, k, e), r.id = s.id
  PROVE  ElementChangedIn(t, s.id, k, e) = symbol_insert_frame(r, t)
<1> DEFINE h == Hash[s.id]
           p == Place(s.id, t)
<1>1. InFrame(s.id, t) /\ t[h][p] = s /\ p \in DOMAIN t[h]
  BY FindIs
<1>2. symbol_insert_frame(r, t) = [t EXCEPT ![h][p] = r]
  BY <1>1 DEF symbol_insert_frame
<1> HIDE DEF h, p
<1>3. [t EXCEPT ![h][p].u.data[k] = e] = [t EXCEPT ![h][p] = [t[h][p] EXCEPT !.u.data[k] = e]]
  OBVIOUS
<1> QED BY <1>1, <1>2, <1>3 DEF h, p, ElementChanged, ElementChangedIn

(* An assignment to an element of an array.                                *)
LEMMA SetElementStep ==
  ASSUME IInv, NEW id \in Arrays, NEW indices \in IndexLists, NEW v \in Assigned,
         symbol_array_assign(id, indices, v)
  PROVE  /\ IInv' /\ Abstract!SetElement(id, indices, v)
         /\ KeepsHidden /\ KeepsFramesOnFailure
<1> DEFINE f == FoundIn(id)
           s == symbol_find(id)
           k == array_index(s.u.dims, indices) + 1
           e == Element(ArrayType(id), v)
           x == ArrayError(id, indices)
<1>1. /\ FramesOK(frames) /\ Len(frames) \in 1..MaxFrames /\ Len(frames) \in Nat \ {0}
      /\ DOMAIN frames = 1..Len(frames)
      /\ residents \in [Letters -> IntRange] /\ set_time_value \in IntRange
      /\ outcome \in {"running", "abort", "exit", "overrun", "crash", "ended"}
  BY InvariantParts
<1>2. id \in Variables /\ id \in IdSet /\ v \in Value
  BY SymbolsAssumption DEF IdSet
<1>3. /\ UNCHANGED <<residents, set_time_value>>
      /\ x \in {"abort", "overrun"} => outcome' = x /\ Answers("none", NULL) /\ UNCHANGED frames
      /\ x = "none" =>
           /\ IF ElementFits(ArrayType(id), v)
              THEN /\ frames' = [frames EXCEPT ![f][Hash[id]][Place(id, frames[f])].u.data[k] = e]
                   /\ Answers("none", NULL)
              ELSE Answers("TYPE_MISMATCH", NULL) /\ UNCHANGED frames
           /\ UNCHANGED outcome
      /\ x \notin {"abort", "overrun", "none"} => Answers(x, NULL) /\ UNCHANGED <<frames, outcome>>
  BY DEF symbol_array_assign, Stops
<1>4. /\ Abstract!Refusal(id, indices) = x
      /\ x = "none" => f # 0 /\ s.type = "ARRAY" /\ Abstract!At(id, indices) = k
  BY <1>1, <1>2, RefusalIs
<1> HIDE DEF x
<1>5. CASE UNCHANGED frames /\ ~(x = "none" /\ ElementFits(ArrayType(id), v))
  <2>1. outcome' \in {"running", "abort", "exit", "overrun", "crash", "ended"}
    BY <1>1, <1>3, <1>5
  <2>2. IInv' /\ Mapped(frames)' = Mapped(frames) /\ KeepsHidden /\ KeepsFramesOnFailure
    BY <1>1, <1>3, <1>5, <2>1, FramesSame
  <2>3. Abstract!SetElement(id, indices, v)
    BY <1>3, <1>4, <1>5, <2>2, AbstractSetElement, AbstractRefuses, AbstractStops
  <2> QED BY <2>2, <2>3
<1>6. CASE x = "none" /\ ElementFits(ArrayType(id), v)
  <2> DEFINE r == SetData(s, k, e)
             t == symbol_insert_frame(r, frames[f])
  <2>1. /\ f \in DOMAIN frames /\ s \in Symbols(frames[f]) /\ s \in SymbolSet /\ s.id = id
        /\ SymbolOK(s, f) /\ s.type = "ARRAY"
    BY <1>1, <1>2, <1>4, <1>6, FoundSymbol
  <2>2. e \in Value /\ ElementFits(ArrayType(id), e) /\ Element(ArrayType(id), e) = e
    BY <1>2, <1>6, ArrayTypeIs, ElementIs
  <2>3. /\ Hashed(frames[f]) /\ \A q \in Symbols(frames[f]) : SymbolOK(q, f)
    BY <1>1, <2>1, FrameIs
  <2>4. /\ frames' = [frames EXCEPT ![f][Hash[id]][Place(id, frames[f])].u.data[k] = e]
        /\ Answers("none", NULL)
        /\ UNCHANGED <<residents, set_time_value, outcome>>
    BY <1>3, <1>6
  <2>i. Abstract!Innermost(id) = f
    BY <1>1, <1>2, <1>4, <1>6, BoundWhereFound
  <2> HIDE DEF f, s, k, e
  <2>5. /\ r \in SymbolSet /\ r.id = id /\ r.type = "ARRAY"
        /\ r.u = [dims |-> s.u.dims, data |-> [s.u.data EXCEPT ![k] = e]]
        /\ r = ElementChanged(s, k, e)
        /\ SymbolOK(r, f)
    <3>1. /\ s \in SymbolSet /\ s.type = "ARRAY" /\ SymbolOK(s, f) /\ e \in Value
          /\ ElementFits(ArrayType(s.id), e) /\ Element(ArrayType(s.id), e) = e
      BY <2>1, <2>2
    <3>2. DataSet(s, f, k, e, r)
      BY <3>1, SetDataIs, Zenon
    <3> QED BY <2>1, <3>2 DEF DataSet
  <2> HIDE DEF r
  <2>6. [frames[f] EXCEPT ![Hash[id]][Place(id, frames[f])].u.data[k] = e] = t
    <3>1. /\ Hashed(frames[f]) /\ s \in Symbols(frames[f]) /\ r.id = s.id
          /\ r = ElementChanged(s, k, e)
      BY <2>1, <2>3, <2>5
    <3>2. ElementChangedIn(frames[f], s.id, k, e) = t
      <4> DEFINE old == frames[f]
      <4>1. /\ Hashed(old) /\ s \in Symbols(old) /\ r.id = s.id
            /\ r = ElementChanged(s, k, e)
        BY <3>1
      <4> HIDE DEF old
      <4>2. ElementChangedIn(old, s.id, k, e) = symbol_insert_frame(r, old)
        BY <4>1, SymbolReplaced
      <4> QED BY <4>2 DEF old
    <3> QED BY <2>1, <3>2 DEF ElementChangedIn
  <2>7. /\ Hashed(t)
        /\ Symbols(t) = {r} \cup {q \in Symbols(frames[f]) : q.id # r.id}
    BY <2>3, <2>5, InsertedInTable
  <2> HIDE DEF t
  <2>8. frames' = [frames EXCEPT ![f] = t]
    <3>1. [frames EXCEPT ![f][Hash[id]][Place(id, frames[f])].u.data[k] = e]
            = [frames EXCEPT ![f] =
                 [frames[f] EXCEPT ![Hash[id]][Place(id, frames[f])].u.data[k] = e]]
      OBVIOUS
    <3> QED BY <2>4, <2>6, <3>1
  <2>9. /\ FramesOK([frames EXCEPT ![f] = t]) /\ Len([frames EXCEPT ![f] = t]) = Len(frames)
        /\ Mapped([frames EXCEPT ![f] = t]) = [Mapped(frames) EXCEPT ![f] = Scope(t)]
    <3>1. \A q \in Symbols(t) : SymbolOK(q, f)
      BY <2>3, <2>5, <2>7
    <3> QED BY <1>1, <2>1, <2>7, <3>1, FrameChanged, Zenon
  <2>10. IInv'
    BY <1>1, <2>4, <2>8, <2>9, InvariantNext
  <2>11. Mapped(frames)' = [Mapped(frames) EXCEPT ![f][id].u.data[k] = e]
    <3> DEFINE a == Scope(frames[f])
               c == Abstract!Cell("ARRAY", s.u)
               d == Abstract!Cell("ARRAY", r.u)
    <3>1. Scope(t) = Abstract!With(a, Abstract!Only(id, d))
      <4>1. Scope(t) = Abstract!With(a, Abstract!Only(r.id, Abstract!Cell(r.type, r.u)))
        BY <2>3, <2>5, <2>7, ScopeWith, Zenon
      <4> QED BY <2>5, <4>1
    <3>2. id \in DOMAIN a /\ a[id] = c
      BY <2>1, <2>3, ScopeIs
    <3>3. a = [n \in DOMAIN a |-> a[n]]
      BY ScopeIsFunction
    <3>4. [c EXCEPT !.u.data[k] = e] = d
      <4> DEFINE u == s.u
      <4>1. u = [dims |-> u.dims, data |-> u.data]
        BY <2>1, ArraySymbol
      <4>2. r.u = [dims |-> u.dims, data |-> [u.data EXCEPT ![k] = e]]
        BY <2>5
      <4>3. c = [type |-> "ARRAY", u |-> u]
        BY DEF Abstract!Cell
      <4>4. d = [type |-> "ARRAY", u |-> r.u]
        BY DEF Abstract!Cell
      <4>5. [c EXCEPT !.u.data[k] = e]
              = [c EXCEPT !.u = [c.u EXCEPT !.data = [c.u.data EXCEPT ![k] = e]]]
        OBVIOUS
      <4> HIDE DEF u, c, d
      <4>6. [c.u EXCEPT !.data = [c.u.data EXCEPT ![k] = e]] = r.u
        BY <4>1, <4>2, <4>3
      <4>7. \A w : [c EXCEPT !.u = w] = [type |-> "ARRAY", u |-> w]
        BY <4>3
      <4> QED BY <4>4, <4>5, <4>6, <4>7
    <3> HIDE DEF a, c, d
    <3>5. Abstract!With(a, Abstract!Only(id, d)) = [a EXCEPT ![id] = d]
      <4>1. DOMAIN a \cup {id} = DOMAIN a
        BY <3>2
      <4>2. Abstract!With(a, Abstract!Only(id, d))
              = [n \in DOMAIN a \cup {id} |-> IF n \in {id} THEN d ELSE a[n]]
        BY DEF Abstract!With, Abstract!Only
      <4> QED BY <4>1, <4>2
    <3>6. [a EXCEPT ![id].u.data[k] = e] = [a EXCEPT ![id] = d]
      <4>1. [a EXCEPT ![id].u.data[k] = e] = [a EXCEPT ![id] = [a[id] EXCEPT !.u.data[k] = e]]
        OBVIOUS
      <4> QED BY <3>2, <3>4, <4>1
    <3>7. Mapped(frames)[f] = a
      BY <2>1 DEF Mapped, a
    <3>8. [Mapped(frames) EXCEPT ![f][id].u.data[k] = e]
            = [Mapped(frames) EXCEPT ![f] = [Mapped(frames)[f] EXCEPT ![id].u.data[k] = e]]
      OBVIOUS
    <3> QED BY <2>8, <2>9, <3>1, <3>5, <3>6, <3>7, <3>8, MappedNext
  <2>12. Abstract!SetElement(id, indices, v)
    <3>1. Abstract!At(id, indices) = k
      BY <1>4, <1>6 DEF s, k
    <3> QED BY <1>4, <1>6, <2>4, <2>i, <2>11, <3>1, AbstractSetElement DEF e
  <2>13. KeepsHidden
    BY <2>1, <2>5, <2>7, <2>8, HiddenKept DEF f
  <2> QED BY <2>4, <2>10, <2>12, <2>13 DEF KeepsFramesOnFailure, Answers
<1> QED BY <1>3, <1>5, <1>6

(* The value of an element as Scopes gives it.                             *)
LEMMA AbstractGetElement ==
  ASSUME NEW id, NEW indices
  PROVE  Abstract!GetElement(id, indices) <=>
    IF Abstract!Refusal(id, indices) \in {"abort", "overrun"}
    THEN Abstract!Stops(Abstract!Refusal(id, indices))
    ELSE IF Abstract!Refusal(id, indices) # "none"
    THEN Abstract!Refuses(Abstract!Refusal(id, indices))
    ELSE Answers("none", Abstract!Meaning(id).u.data[Abstract!At(id, indices)]) /\ SameState
<1>1. Abstract!GetElement(id, indices) <=>
    IF Abstract!Refusal(id, indices) \in {"abort", "overrun"}
    THEN Abstract!Stops(Abstract!Refusal(id, indices))
    ELSE IF Abstract!Refusal(id, indices) # "none"
    THEN Abstract!Refuses(Abstract!Refusal(id, indices))
    ELSE /\ Abstract!Answers("none", Abstract!Meaning(id).u.data[Abstract!At(id, indices)])
         /\ SameState
  BY Zenon DEF Abstract!GetElement, SameState, Mapped, Scope
<1> QED BY <1>1, AbstractAnswers

(* Reading an element changes no frame.                                    *)
LEMMA GetElementStep ==
  ASSUME IInv, NEW id \in Arrays, NEW indices \in IndexLists, symbol_array_eval(id, indices)
  PROVE  /\ IInv' /\ Abstract!GetElement(id, indices)
         /\ KeepsHidden /\ KeepsFramesOnFailure
<1> DEFINE x == ArrayError(id, indices)
           a == symbol_find(id).u
<1>1. /\ FramesOK(frames) /\ residents \in [Letters -> IntRange]
      /\ set_time_value \in IntRange
      /\ outcome \in {"running", "abort", "exit", "overrun", "crash", "ended"}
  BY InvariantParts
<1>2. id \in Variables /\ id \in IdSet
  BY SymbolsAssumption DEF IdSet
<1>3. /\ UNCHANGED <<frames, residents, set_time_value>>
      /\ x \in {"abort", "overrun"} => outcome' = x /\ Answers("none", NULL)
      /\ x = "none" => /\ Answers("none", a.data[array_index(a.dims, indices) + 1])
                       /\ UNCHANGED outcome
      /\ x \notin {"abort", "overrun", "none"} => Answers(x, NULL) /\ UNCHANGED outcome
  BY DEF symbol_array_eval, Stops
<1>4. /\ Abstract!Refusal(id, indices) = x
      /\ x = "none" => /\ FoundIn(id) # 0
                       /\ Abstract!At(id, indices) = array_index(a.dims, indices) + 1
  BY <1>1, <1>2, RefusalIs
<1>5. x = "none" => Abstract!Meaning(id).u = a
  BY <1>1, <1>2, <1>4, BoundWhereFound DEF Abstract!Cell
<1> HIDE DEF x, a
<1>6. outcome' \in {"running", "abort", "exit", "overrun", "crash", "ended"}
  BY <1>1, <1>3
<1>7. IInv' /\ Mapped(frames)' = Mapped(frames) /\ KeepsHidden /\ KeepsFramesOnFailure
  BY <1>1, <1>3, <1>6, FramesSame
<1>8. Abstract!GetElement(id, indices)
  BY <1>3, <1>4, <1>5, <1>7, AbstractGetElement, AbstractRefuses, AbstractStops DEF SameState
<1> QED BY <1>7, <1>8

(* CLEAR takes the variables out of every frame.                           *)
LEMMA SimpleOrNot ==
  ASSUME NEW s \in SymbolSet
  PROVE  s.type \in {"ARRAY", "PROCEDURE"} <=> s.type \notin Simple
  BY DEF SymbolSet, Simple

(* CLEAR restricts a scope to its arrays and procedures.                   *)
LEMMA ClearedScope ==
  ASSUME NEW t, Hashed(t)
  PROVE  Scope(clear_buckets(t)) =
           [id \in {n \in DOMAIN Scope(t) : Scope(t)[n].type \in {"ARRAY", "PROCEDURE"}} |->
              Scope(t)[id]]
<1> DEFINE u == clear_buckets(t)
           D == {n \in DOMAIN Scope(t) : Scope(t)[n].type \in {"ARRAY", "PROCEDURE"}}
<1>1. Hashed(u) /\ Symbols(u) = {s \in Symbols(t) : s.type \notin Simple}
  BY ClearedTable
<1> HIDE DEF u
<1>2. /\ DOMAIN Scope(t) = {s.id : s \in Symbols(t)}
      /\ \A s \in Symbols(t) : Scope(t)[s.id] = Abstract!Cell(s.type, s.u)
      /\ DOMAIN Scope(u) = {s.id : s \in Symbols(u)}
      /\ \A s \in Symbols(u) : Scope(u)[s.id] = Abstract!Cell(s.type, s.u)
  BY <1>1, ScopeIs
<1>3. \A s \in Symbols(t) : s.type \in {"ARRAY", "PROCEDURE"} <=> s.type \notin Simple
  BY MembersAreSymbols, SimpleOrNot
<1>4. \A s \in Symbols(t) : Scope(t)[s.id].type = s.type
  <2>1. \A type, w : Abstract!Cell(type, w).type = type
    BY DEF Abstract!Cell
  <2> QED BY <1>2, <2>1
<1>5. DOMAIN Scope(u) = D
  BY <1>1, <1>2, <1>3, <1>4
<1>6. ASSUME NEW id \in DOMAIN Scope(u) PROVE Scope(u)[id] = Scope(t)[id]
  BY <1>1, <1>2
<1>7. Scope(u) = [id \in DOMAIN Scope(u) |-> Scope(u)[id]]
  BY ScopeIsFunction
<1> HIDE DEF D
<1>8. Scope(u) = [id \in D |-> Scope(t)[id]]
  BY <1>5, <1>6, <1>7
<1> QED BY <1>8 DEF u, D

(* CLEAR empties every frame of its simple variables.                      *)
LEMMA ClearStep ==
  ASSUME IInv, symbol_table_clear
  PROVE  IInv' /\ Abstract!Clear /\ KeepsFramesOnFailure
<1>1. /\ FramesOK(frames) /\ Len(frames) \in 1..MaxFrames /\ Len(frames) \in Nat \ {0}
      /\ DOMAIN frames = 1..Len(frames)
      /\ residents \in [Letters -> IntRange] /\ set_time_value \in IntRange
      /\ outcome \in {"running", "abort", "exit", "overrun", "crash", "ended"}
  BY InvariantParts
<1>2. /\ frames' = [f \in DOMAIN frames |-> clear_buckets(frames[f])]
      /\ Answers("none", NULL) /\ UNCHANGED <<residents, set_time_value, outcome>>
  BY DEF symbol_table_clear
<1>3. ASSUME NEW f \in DOMAIN frames
      PROVE  /\ frames'[f] = clear_buckets(frames[f])
             /\ Hashed(frames'[f])
             /\ \A s \in Symbols(frames'[f]) : SymbolOK(s, f)
  <2>1. Hashed(frames[f]) /\ \A s \in Symbols(frames[f]) : SymbolOK(s, f)
    BY <1>1, FrameIs
  <2>2. frames'[f] = clear_buckets(frames[f])
    BY <1>2
  <2> QED BY <2>1, <2>2, ClearedTable
<1>4. FramesOK(frames') /\ Len(frames') = Len(frames) /\ DOMAIN frames' = DOMAIN frames
  <2>1. \A f \in DOMAIN frames : clear_buckets(frames[f]) \in Table
    BY <1>3 DEF Hashed
  <2>2. frames' = [f \in 1..Len(frames) |-> clear_buckets(frames[f])]
    BY <1>1, <1>2
  <2>3. frames' \in Seq(Table) /\ Len(frames') = Len(frames) /\ DOMAIN frames' = DOMAIN frames
    BY <1>1, <2>1, <2>2
  <2> QED BY <1>3, <2>3 DEF FramesOK
<1>5. IInv'
  BY <1>1, <1>2, <1>4, InvariantNext
<1>6. Mapped(frames)' =
        [f \in DOMAIN Mapped(frames) |->
           [id \in {n \in DOMAIN Mapped(frames)[f] :
                      Mapped(frames)[f][n].type \in {"ARRAY", "PROCEDURE"}} |->
              Mapped(frames)[f][id]]]
  <2> DEFINE C(m) == [id \in {n \in DOMAIN m : m[n].type \in {"ARRAY", "PROCEDURE"}} |-> m[id]]
  <2>1. ASSUME NEW f \in DOMAIN frames PROVE Scope(frames'[f]) = C(Mapped(frames)[f])
    <3>1. Hashed(frames[f]) /\ Mapped(frames)[f] = Scope(frames[f])
      BY <1>1, FrameIs DEF Mapped
    <3>2. Scope(clear_buckets(frames[f])) = C(Scope(frames[f]))
      BY <3>1, ClearedScope
    <3> QED BY <1>3, <3>1, <3>2
  <2> HIDE DEF C
  <2>2. Mapped(frames') = [f \in DOMAIN frames |-> Scope(frames'[f])]
    BY <1>4 DEF Mapped
  <2>3. DOMAIN Mapped(frames) = DOMAIN frames
    BY DEF Mapped
  <2>4. Mapped(frames') = [f \in DOMAIN Mapped(frames) |-> C(Mapped(frames)[f])]
    BY <2>1, <2>2, <2>3
  <2> QED BY <2>4, MappedNext DEF C
<1>7. Abstract!Clear
  <2>1. Abstract!Clear <=>
          /\ Mapped(frames)' =
               [f \in DOMAIN Mapped(frames) |->
                  [id \in {n \in DOMAIN Mapped(frames)[f] :
                             Mapped(frames)[f][n].type \in {"ARRAY", "PROCEDURE"}} |->
                     Mapped(frames)[f][id]]]
          /\ Abstract!Answers("none", Abstract!NULL)
          /\ UNCHANGED <<residents, set_time_value, outcome>>
    BY Zenon DEF Abstract!Clear, Mapped, Scope
  <2> QED BY <1>2, <1>6, <2>1, SameNull, AbstractAnswers
<1> QED BY <1>2, <1>5, <1>7 DEF KeepsFramesOnFailure, Answers

(* The end of the program leaves one table with nothing in it.             *)
LEMMA EmptyScopes == Mapped(<<EmptyTable>>) = <<<<>>>>
<1>1. DOMAIN Scope(EmptyTable) = {} /\ Scope(EmptyTable) = [id \in {} |-> Scope(EmptyTable)[id]]
  BY EmptyTableIs, ScopeIsFunction
<1>2. Scope(EmptyTable) = <<>>
  BY <1>1
<1>3. Mapped(<<EmptyTable>>) = <<Scope(EmptyTable)>>
  BY DEF Mapped
<1> QED BY <1>2, <1>3

(* The end of the program frees every frame.                               *)
LEMMA FreeStep ==
  ASSUME IInv, symbol_table_free
  PROVE  IInv' /\ Abstract!End /\ KeepsFramesOnFailure
<1>1. /\ residents \in [Letters -> IntRange] /\ set_time_value \in IntRange
      /\ MaxFrames \in Nat \ {0}
  BY InvariantParts
<1>2. /\ frames' = <<EmptyTable>> /\ outcome' = "ended" /\ Answers("none", NULL)
      /\ UNCHANGED <<residents, set_time_value>>
  BY DEF symbol_table_free
<1>3. FramesOK(<<EmptyTable>>) /\ Len(<<EmptyTable>>) = 1
  BY EmptyTableIs DEF FramesOK, Hashed
<1>4. IInv'
  BY <1>1, <1>2, <1>3, InvariantNext
<1>5. Abstract!End <=>
        /\ Mapped(frames)' = <<<<>>>> /\ outcome' = "ended"
        /\ Abstract!Answers("none", Abstract!NULL) /\ UNCHANGED <<residents, set_time_value>>
  BY Zenon DEF Abstract!End, Mapped, Scope
<1>6. Abstract!End
  BY <1>2, <1>5, EmptyScopes, MappedNext, SameNull, AbstractAnswers
<1> QED BY <1>2, <1>4, <1>6 DEF KeepsFramesOnFailure, Answers

(* LOCAL gives its names no values, up to a resident integer.              *)
NoValues(ids) == [i \in DOMAIN ids |-> NULL]
Done(ids) == {i \in DOMAIN ids : \A j \in 1..i : ~variable_name_is_resident(ids[j])}

(* LOCAL binds its names as a call with every argument left out would.     *)
LEMMA NoValuesAre ==
  ASSUME NEW ids \in Seq(Variables), residents \in [Letters -> IntRange]
  PROVE  /\ Lists(ids, NoValues(ids))
         /\ Filling(ids, NoValues(ids)) = [i \in DOMAIN ids |-> Blank(ids[i])]
         /\ Taken(ids, NoValues(ids), Len(ids)) = Done(ids)
         /\ TakenLocals(ids, NoValues(ids), Len(ids)) = Done(ids)
         /\ Abstract!ResidentsAt(ids, NoValues(ids), Done(ids)) = residents
<1> DEFINE n == Len(ids)
           vals == NoValues(ids)
<1>1. n \in Nat /\ DOMAIN ids = 1..n
  OBVIOUS
<1>2. \A i \in 1..n : vals[i] = NULL /\ Filled(ids[i], vals[i]) = Blank(ids[i])
  BY <1>1 DEF NoValues, Filled
<1>3. Lists(ids, vals)
  BY <1>2 DEF Lists
<1>4. Filling(ids, vals) = [i \in DOMAIN ids |-> Blank(ids[i])]
  BY <1>1, <1>2 DEF Filling
<1> HIDE DEF vals
<1>5. \A i \in 1..n : TakesAt(ids, vals, i) <=> ~variable_name_is_resident(ids[i])
  BY <1>2, BlankIs DEF TakesAt
<1>6. Taken(ids, vals, n) = Done(ids)
  <2>1. \A i \in 1..n : 1..i \subseteq 1..n
    BY <1>1
  <2> HIDE DEF n
  <2> QED BY <1>1, <1>5, <2>1 DEF Taken, Done
<1>7. \A i \in Done(ids) : ~variable_name_is_resident(ids[i])
  <2>1. \A i \in DOMAIN ids : i \in 1..i
    BY <1>1
  <2> QED BY <2>1 DEF Done
<1>8. TakenLocals(ids, vals, n) = Done(ids)
  BY <1>6, <1>7 DEF TakenLocals
<1>9. Abstract!ResidentsAt(ids, vals, Done(ids)) = residents
  <2>1. \A c : {i \in Done(ids) : Abstract!Resident(ids, i) /\ ids[i][1] = c} = {}
    BY <1>7, SameNames DEF Abstract!Resident
  <2>2. residents = [c \in DOMAIN residents |-> residents[c]]
    OBVIOUS
  <2> QED BY <2>1, <2>2 DEF Abstract!ResidentsAt
<1> QED BY <1>3, <1>4, <1>6, <1>8, <1>9 DEF vals

(* A LOCAL of Scopes.                                                      *)
LEMMA AbstractLocal ==
  ASSUME NEW ids
  PROVE  Abstract!Local(ids) <=>
    IF Len(Mapped(frames)) = 1 THEN Abstract!Refuses("NOT_LOCAL")
    ELSE /\ Mapped(frames)' =
              [Mapped(frames) EXCEPT ![Len(Mapped(frames))] =
                 Abstract!With(@, Abstract!LocalsAt(ids, [i \in DOMAIN ids |-> Blank(ids[i])],
                                                    Done(ids)))]
         /\ outcome' = IF Done(ids) = DOMAIN ids THEN outcome ELSE "crash"
         /\ Answers("none", NULL) /\ UNCHANGED <<residents, set_time_value>>
<1> DEFINE d == {i \in DOMAIN ids : \A j \in 1..i : ~Abstract!Resident(ids, j)}
<1>1. d = Done(ids)
  BY SameNames DEF Done, Abstract!Resident
<1>2. [i \in DOMAIN ids |-> Abstract!Blank(ids[i])] = [i \in DOMAIN ids |-> Blank(ids[i])]
  <2>1. (\A m : Abstract!value_int_new(m) = value_int_new(m))
        /\ \A c : Abstract!value_string_new(c) = value_string_new(c)
    BY SameValues, Zenon
  <2>2. \A id : Abstract!Blank(id) = Blank(id)
    BY <2>1, SameNames DEF Abstract!Blank, Blank
  <2> QED BY <2>2
<1>3. Abstract!Local(ids) <=>
    IF Len(Mapped(frames)) = 1 THEN Abstract!Refuses("NOT_LOCAL")
    ELSE /\ Mapped(frames)' =
              [Mapped(frames) EXCEPT ![Len(Mapped(frames))] =
                 Abstract!With(@, Abstract!LocalsAt(ids,
                   [i \in DOMAIN ids |-> Abstract!Blank(ids[i])], d))]
         /\ outcome' = IF d = DOMAIN ids THEN outcome ELSE "crash"
         /\ Abstract!Answers("none", Abstract!NULL)
         /\ UNCHANGED <<residents, set_time_value>>
  BY Zenon DEF Abstract!Local, Mapped, Scope
<1> HIDE DEF d
<1> QED BY <1>1, <1>2, <1>3, SameNull, AbstractAnswers

(* LOCAL binds its names in the top frame.                                 *)
LEMMA LocalsStep ==
  ASSUME IInv, NEW ids \in LocalLists, Local(ids)
  PROVE  IInv' /\ Abstract!Local(ids) /\ KeepsHidden /\ KeepsFramesOnFailure
<1> DEFINE n == Len(frames)
           st == AssignLocals(ids, NoValues(ids), frames[n])
<1>1. /\ FramesOK(frames) /\ n \in 1..MaxFrames /\ n \in Nat \ {0}
      /\ DOMAIN frames = 1..n
      /\ residents \in [Letters -> IntRange] /\ set_time_value \in IntRange
      /\ outcome \in {"running", "abort", "exit", "overrun", "crash", "ended"}
  BY InvariantParts
<1>2. ids \in Seq(Variables)
  BY SymbolsAssumption
<1>3. Len(Mapped(frames)) = n
  BY <1>1 DEF Mapped
<1>4. CASE ~(n > 1)
  <2>1. Fails("NOT_LOCAL") /\ UNCHANGED outcome
    BY <1>4 DEF Local, have_frames
  <2>2. IInv' /\ Abstract!Refuses("NOT_LOCAL")
    BY <2>1, FailsIs
  <2>3. Abstract!Local(ids)
    <3>1. Len(Mapped(frames)) = 1
      BY <1>1, <1>3, <1>4
    <3> QED BY <2>2, <3>1, AbstractLocal
  <2>4. UNCHANGED frames
    BY <2>1 DEF Fails
  <2> QED BY <2>2, <2>3, <2>4 DEF KeepsHidden, KeepsFramesOnFailure, SameBinding
<1>5. CASE n > 1
  <2>1. Takes(st, n) /\ outcome = "running"
    BY <1>5 DEF Local, have_frames, top_frame, NoValues
  <2>2. n \in DOMAIN frames /\ Hashed(frames[n]) /\ \A q \in Symbols(frames[n]) : SymbolOK(q, n)
    BY <1>1, FrameIs
  <2>3. /\ Lists(ids, NoValues(ids))
        /\ Filling(ids, NoValues(ids)) = [i \in DOMAIN ids |-> Blank(ids[i])]
        /\ Taken(ids, NoValues(ids), Len(ids)) = Done(ids)
        /\ TakenLocals(ids, NoValues(ids), Len(ids)) = Done(ids)
        /\ Abstract!ResidentsAt(ids, NoValues(ids), Done(ids)) = residents
    BY <1>1, <1>2, NoValuesAre
  <2>4. BoundUpTo(ids, NoValues(ids), frames[n], Len(ids), st)
    <3> DEFINE t == frames[n]
    <3>1. Hashed(t)
      BY <2>2
    <3> HIDE DEF t
    <3>2. BoundUpTo(ids, NoValues(ids), t, Len(ids), AssignLocals(ids, NoValues(ids), t))
      BY <1>1, <2>3, <3>1, LocalsBound
    <3> QED BY <3>2 DEF t
  <2> HIDE DEF st, n
  <2>5. DOMAIN ids = 1..Len(ids) /\ \A i \in 1..Len(ids) : NoValues(ids)[i] = NULL
    BY <1>2 DEF NoValues
  <2>6. /\ st \in States /\ st.residents = residents
        /\ Scope(st.table) = Abstract!With(Scope(frames[n]), Abstract!LocalsAt(ids,
             [i \in DOMAIN ids |-> Blank(ids[i])], Done(ids)))
        /\ st.error = "none" <=> Done(ids) = DOMAIN ids
        /\ st.error # "none" => st.error = "crash"
        /\ \A q \in Symbols(st.table) : q \in Symbols(frames[n]) \/ VariableOK(q)
    BY <2>3, <2>4, <2>5 DEF BoundUpTo
  <2>7. /\ outcome' = IF Done(ids) = DOMAIN ids THEN outcome ELSE "crash"
        /\ Answers("none", NULL)
        /\ frames' = [frames EXCEPT ![n] = st.table]
        /\ UNCHANGED <<residents, set_time_value>>
    BY <2>1, <2>6 DEF Takes, Stops
  <2>8. /\ FramesOK([frames EXCEPT ![n] = st.table])
        /\ Len([frames EXCEPT ![n] = st.table]) = Len(frames)
        /\ Mapped([frames EXCEPT ![n] = st.table]) = [Mapped(frames) EXCEPT ![n] = Scope(st.table)]
    <3> DEFINE t == st.table
    <3>1. Hashed(t) /\ \A q \in Symbols(t) : SymbolOK(q, n)
      BY <2>2, <2>6, StateParts, VariableIsOK
    <3> HIDE DEF t
    <3>2. /\ FramesOK([frames EXCEPT ![n] = t])
          /\ Len([frames EXCEPT ![n] = t]) = Len(frames)
          /\ Mapped([frames EXCEPT ![n] = t]) = [Mapped(frames) EXCEPT ![n] = Scope(t)]
      BY <1>1, <2>2, <3>1, FrameChanged, Zenon
    <3> QED BY <3>2 DEF t
  <2>9. IInv'
    BY <1>1, <2>7, <2>8, InvariantNext DEF n
  <2>10. Abstract!Local(ids)
    <3>1. Mapped(frames)[n] = Scope(frames[n])
      BY <2>2 DEF Mapped
    <3>2. Mapped(frames)' = [Mapped(frames) EXCEPT ![n] = Abstract!With(@,
             Abstract!LocalsAt(ids, [i \in DOMAIN ids |-> Blank(ids[i])], Done(ids)))]
      BY <2>6, <2>7, <2>8, <3>1, MappedNext
    <3>3. n # 1
      BY <1>1, <1>5
    <3> QED BY <1>3, <2>7, <3>2, <3>3, AbstractLocal
  <2>11. KeepsHidden
    <3>1. ASSUME NEW id, NEW f \in 1..(FoundIn(id) - 1) PROVE frames'[f] = frames[f]
      <4>1. FoundIn(id) \in 0..n
        BY <1>1, FoundInIs DEF n
      <4>2. f # n /\ f \in DOMAIN frames
        BY <1>1, <4>1
      <4> QED BY <2>7, <4>2
    <3> QED BY <3>1 DEF KeepsHidden, SameBinding
  <2> QED BY <2>7, <2>9, <2>10, <2>11 DEF KeepsFramesOnFailure, Answers
<1> QED BY <1>4, <1>5

(* A call keeps the hidden names, and the frames when it fails.            *)
LEMMA CallKeeps ==
  ASSUME IInv, NEW id \in Called, NEW args \in ArgLists, Call(id, args)
  PROVE  KeepsHidden /\ KeepsFramesOnFailure
<1>1. FramesOK(frames) /\ Len(frames) \in Nat /\ DOMAIN frames = 1..Len(frames)
      /\ frames \in Seq(Table)
  BY InvariantParts DEF FramesOK
<1>2. \/ UNCHANGED frames
      \/ result'.error = "none" /\ \E t : frames' = Append(frames, t)
  BY DEF Call, Fails, Answers, pass_arguments
<1>3. \A f \in DOMAIN frames : frames'[f] = frames[f]
  BY <1>1, <1>2
<1>4. KeepsHidden
  <2>1. ASSUME NEW id2, NEW f \in 1..(FoundIn(id2) - 1) PROVE f \in DOMAIN frames
    <3>1. FoundIn(id2) \in 0..Len(frames)
      BY <1>1, FoundInIs
    <3> QED BY <1>1, <3>1
  <2> QED BY <1>3, <2>1 DEF KeepsHidden, SameBinding
<1> QED BY <1>2, <1>4 DEF KeepsFramesOnFailure

-----------------------------------------------------------------------------
(* The theorems.                                                           *)

(* Every step the table makes is one of Scopes, and keeps the invariant.   *)
LEMMA EveryStep ==
  ASSUME IInv, Next
  PROVE  /\ IInv' /\ Abstract!Next /\ KeepsFramesOnFailure
         /\ symbol_table_clear \/ symbol_table_free \/ KeepsHidden
<1>1. outcome = "running"
  BY DEF Next, Call, symbol_table_pop_frame, Local, Assign, Eval, Dim, symbol_array_assign,
         symbol_array_eval, symbol_table_clear, symbol_table_free
<1>2. Abstract!Next <=> Abstract!Step
  BY <1>1 DEF Abstract!Next
<1>3. CASE \E id \in Called, args \in ArgLists : Call(id, args)
  <2>1. PICK id \in Called, args \in ArgLists : Call(id, args)
    BY <1>3
  <2>2. IInv' /\ Abstract!Call(id, args) /\ KeepsHidden /\ KeepsFramesOnFailure
    BY <2>1, CallStep, CallKeeps
  <2> QED BY <1>2, <2>2 DEF Abstract!Step
<1>4. CASE symbol_table_pop_frame
  BY <1>2, <1>4, LeaveStep DEF Abstract!Step
<1>5. CASE \E ids \in LocalLists : Local(ids)
  <2>1. PICK ids \in LocalLists : Local(ids)
    BY <1>5
  <2>2. IInv' /\ Abstract!Local(ids) /\ KeepsHidden /\ KeepsFramesOnFailure
    BY <2>1, LocalsStep
  <2> QED BY <1>2, <2>2 DEF Abstract!Step
<1>6. CASE \E id \in Variables, v \in Assigned : Assign(id, v)
  <2>1. PICK id \in Variables, v \in Assigned : Assign(id, v)
    BY <1>6
  <2>2. IInv' /\ Abstract!Assign(id, v) /\ KeepsHidden /\ KeepsFramesOnFailure
    BY <2>1, AssignStep
  <2> QED BY <1>2, <2>2 DEF Abstract!Step
<1>7. CASE \E id \in Variables : Eval(id)
  <2>1. PICK id \in Variables : Eval(id)
    BY <1>7
  <2>2. IInv' /\ Abstract!Eval(id) /\ KeepsHidden /\ KeepsFramesOnFailure
    BY <2>1, EvalStep
  <2> QED BY <1>2, <2>2 DEF Abstract!Step
<1>8. CASE \E id \in Arrays, dims \in DimLists : Dim(id, dims)
  <2>1. PICK id \in Arrays, dims \in DimLists : Dim(id, dims)
    BY <1>8
  <2>2. IInv' /\ Abstract!Dim(id, dims) /\ KeepsHidden /\ KeepsFramesOnFailure
    BY <2>1, DimStep
  <2> QED BY <1>2, <2>2 DEF Abstract!Step
<1>9. CASE \E id \in Arrays, indices \in IndexLists, v \in Assigned :
             symbol_array_assign(id, indices, v)
  <2>1. PICK id \in Arrays, indices \in IndexLists, v \in Assigned :
          symbol_array_assign(id, indices, v)
    BY <1>9
  <2>2. IInv' /\ Abstract!SetElement(id, indices, v) /\ KeepsHidden /\ KeepsFramesOnFailure
    BY <2>1, SetElementStep
  <2> QED BY <1>2, <2>2 DEF Abstract!Step
<1>10. CASE \E id \in Arrays, indices \in IndexLists : symbol_array_eval(id, indices)
  <2>1. PICK id \in Arrays, indices \in IndexLists : symbol_array_eval(id, indices)
    BY <1>10
  <2>2. IInv' /\ Abstract!GetElement(id, indices) /\ KeepsHidden /\ KeepsFramesOnFailure
    BY <2>1, GetElementStep
  <2> QED BY <1>2, <2>2 DEF Abstract!Step
<1>11. CASE symbol_table_clear
  BY <1>2, <1>11, ClearStep DEF Abstract!Step
<1>12. CASE symbol_table_free
  BY <1>2, <1>12, FreeStep DEF Abstract!Step
<1> QED BY <1>3, <1>4, <1>5, <1>6, <1>7, <1>8, <1>9, <1>10, <1>11, <1>12 DEF Next

(* The initial state satisfies the invariant and is that of Scopes.        *)
LEMMA Start ==
  ASSUME Init
  PROVE  IInv /\ Abstract!Init
<1>1. FramesOK(<<BaseTable>>) /\ Len(<<BaseTable>>) = 1
  BY BaseTableIs DEF FramesOK, Hashed
<1>2. 0 \in IntRange /\ 2314 \in IntRange /\ MaxFrames \in Nat \ {0}
  BY SymbolsAssumption, IntMaxAssumption DEF IntRange, IntMin
<1>3. IInv
  BY <1>1, <1>2 DEF Init, IInv
<1>4. Abstract!Init <=>
        /\ Mapped(frames) =
             <<[id \in {Defs[i].id : i \in DOMAIN Defs} |->
                  Abstract!Cell("PROCEDURE",
                    Defs[Abstract!Last1({i \in DOMAIN Defs : Defs[i].id = id})].params)]>>
        /\ residents = [c \in Upper \cup {"@"} |-> IF c = "@" THEN 2314 ELSE 0]
        /\ set_time_value = 0 /\ outcome = "running"
        /\ result = [error |-> "none", value |-> Abstract!NULL]
  BY Zenon DEF Abstract!Init, Mapped, Scope
<1>5. Mapped(frames) =
        <<[id \in {Defs[i].id : i \in DOMAIN Defs} |->
             Abstract!Cell("PROCEDURE",
               Defs[Abstract!Last1({i \in DOMAIN Defs : Defs[i].id = id})].params)]>>
  <2>1. DOMAIN Defs = 1..Len(Defs)
    BY SymbolsAssumption
  <2>2. Mapped(<<BaseTable>>) = <<Scope(BaseTable)>>
    BY DEF Mapped
  <2>3. Scope(BaseTable) = DefinedUpTo(Len(Defs))
    BY BaseTableIs
  <2> QED BY <2>1, <2>2, <2>3 DEF Init, DefinedUpTo
<1> QED BY <1>3, <1>4, <1>5, SameNull DEF Init

(* The table keeps its form in every reachable state.                      *)
THEOREM Invariant == Spec => []IInv
<1>1. Init => IInv
  BY Start
<1>2. IInv /\ [Next]_vars => IInv'
  <2>1. IInv /\ Next => IInv'
    BY EveryStep
  <2>2. IInv /\ UNCHANGED vars => IInv'
    BY DEF IInv, vars
  <2> QED BY <2>1, <2>2
<1> QED BY <1>1, <1>2, PTL DEF Spec

(* A chain has each name once and in its bucket, variables hold values     *)
(* their names allow, and only the base table has arrays and procedures.   *)
THEOREM ChainsAreWellFormed == Spec => []TypeOK
<1>1. IInv => TypeOK
  <2> SUFFICES ASSUME IInv PROVE TypeOK
    OBVIOUS
  <2>1. ASSUME NEW f \in DOMAIN frames
        PROVE  /\ DOMAIN frames[f] = Buckets
               /\ \A b \in Buckets : \A i, j \in DOMAIN frames[f][b] :
                    /\ Hash[frames[f][b][i].id] = b
                    /\ frames[f][b][i].id = frames[f][b][j].id => i = j
                    /\ SymbolOK(frames[f][b][i], f)
    <3>1. /\ Hashed(frames[f]) /\ frames[f] \in Table
          /\ \A s \in Symbols(frames[f]) : SymbolOK(s, f)
      BY InvariantParts, FrameIs
    <3>2. \A b \in Buckets : \A i \in DOMAIN frames[f][b] : frames[f][b][i] \in Symbols(frames[f])
      BY <3>1, Members
    <3> QED BY <3>1, <3>2 DEF Hashed, Table
  <2> QED BY <2>1 DEF IInv, TypeOK
<1> QED BY <1>1, Invariant, PTL

(* While a local or a parameter hides a name, no operation but CLEAR       *)
(* changes what the name is bound to below: the caller finds it again.     *)
THEOREM HiddenBindingsAreKept == Spec => HiddenIsKept
<1>1. IInv /\ Next => \/ symbol_table_clear \/ symbol_table_free
                      \/ \A id \in Variables : \A f \in 1..(FoundIn(id) - 1) :
                           SameBinding(id, frames[f], frames'[f])
  BY EveryStep DEF KeepsHidden
<1>2. IInv /\ [Next]_vars =>
        [\/ symbol_table_clear \/ symbol_table_free
         \/ \A id \in Variables : \A f \in 1..(FoundIn(id) - 1) :
              SameBinding(id, frames[f], frames'[f])]_vars
  BY <1>1
<1> QED BY <1>2, Invariant, PTL DEF Spec, HiddenIsKept

(* An operation that fails leaves every frame as it was: a call whose      *)
(* argument does not fit, an assignment or a DIM that is refused.          *)
THEOREM FailuresBindNothing == Spec => FailureBindsNothing
<1>1. IInv /\ Next => (result'.error # "none" => UNCHANGED frames)
  BY EveryStep DEF KeepsFramesOnFailure
<1>2. IInv /\ [Next]_vars => [result'.error # "none" => UNCHANGED frames]_vars
  BY <1>1
<1> QED BY <1>2, Invariant, PTL DEF Spec, FailureBindsNothing

(* The chains implement Scopes: each operation gives the same answer and   *)
(* the same error, and changes the meaning of the same names.              *)
THEOREM TableImplementsScopes == Spec => ImplementsScopes
<1>1. Init => Abstract!Init
  BY Start
<1>2. IInv /\ [Next]_vars => [Abstract!Next]_(Abstract!vars)
  <2>1. IInv /\ Next => Abstract!Next
    BY EveryStep
  <2>2. UNCHANGED vars => UNCHANGED Abstract!vars
    BY DEF vars, Abstract!vars, Symbols, symbol_find_frame, Place, Places
  <2> QED BY <2>1, <2>2
<1> QED BY <1>1, <1>2, Invariant, PTL DEF Spec, ImplementsScopes, Abstract!Spec
-----------------------------------------------------------------------------
(* Elements.  A bound of a dimension, with a number above it.              *)
BoundSet == 0..(IntMax - 1)

(* A bound is below the largest integer, so the number of subscripts fits. *)
LEMMA BoundIs ==
  ASSUME NEW d \in BoundSet
  PROVE  Wrap(d + 1) = d + 1 /\ d + 1 \in Nat \ {0} /\ d \in IntRange /\ d \in Int
<1> DEFINE M == 2 * (IntMax + 1)
           x == d + 1 - IntMin
<1>1. IntMax \in Nat /\ IntMin = -IntMax - 1 /\ d \in Int /\ 0 <= d /\ d + 1 <= IntMax
  BY IntMaxAssumption DEF IntMin, BoundSet
<1>2. x \in 0..(M - 1) /\ M \in Nat \ {0}
  BY <1>1
<1>3. x % M = x
  <2> HIDE DEF x, M
  <2> QED BY <1>2
<1>4. Wrap(d + 1) = d + 1
  BY <1>1, <1>3 DEF Wrap
<1> QED BY <1>1, <1>4 DEF IntRange

Product(dims) ==
  CHOOSE g : g = [i \in 0..Len(dims) |->
                    IF i = 0 THEN 1 ELSE g[i - 1] * (dims[i] + 1)]

(* The number of subscripts is the product, which does not wrap.           *)
LEMMA ProductIs ==
  ASSUME NEW dims \in Seq(Int)
  PROVE  /\ Count(dims) = Product(dims)[Len(dims)]
         /\ Product(dims)[0] = 1
         /\ \A i \in 1..Len(dims) :
              Product(dims)[i] = Product(dims)[i - 1] * (dims[i] + 1)
<1> DEFINE n == Len(dims)
           H == [i \in 1..n |-> [q \in Int |-> q * (dims[i] + 1)]]
           K(g) == [i \in 0..n |-> IF i = 0 THEN 1 ELSE g[i - 1] * (dims[i] + 1)]
<1>1. n \in Nat /\ 1 \in Int
  OBVIOUS
<1>2. H \in [1..n -> [Int -> Int]]
  <2>1. ASSUME NEW i \in 1..n, NEW q \in Int PROVE q * (dims[i] + 1) \in Int
    <3>1. dims[i] + 1 \in Int
      OBVIOUS
    <3> QED BY <3>1
  <2> QED BY <2>1
<1>3. PICK g \in [0..n -> Int] : Iterates(g, n, 1, H)
  <2> HIDE DEF n, H
  <2> QED BY <1>1, <1>2, RecursionExists
<1>4. g = K(g)
  <2>1. ASSUME NEW i \in 1..n
        PROVE  g[i] = g[i - 1] * (dims[i] + 1)
    <3>1. g[i - 1] \in Int
      BY <1>1
    <3> QED BY <1>3, <3>1 DEF Iterates
  <2> HIDE DEF n
  <2>2. ASSUME NEW i \in 0..n PROVE g[i] = K(g)[i]
    <3>1. CASE i = 0
      BY <1>3, <3>1 DEF Iterates
    <3>2. CASE i # 0
      <4>1. i \in 1..n
        BY <1>1, <3>2
      <4>2. K(g)[i] = g[i - 1] * (dims[i] + 1)
        BY <3>2
      <4> QED BY <2>1, <4>1, <4>2
    <3> QED BY <3>1, <3>2
  <2> QED BY <2>2
<1>5. Product(dims) = K(Product(dims))
  <2>1. \E f : f = K(f)
    BY <1>4
  <2> HIDE DEF n
  <2> QED BY <2>1, Zenon DEF Product, n
<1>6. Count(dims) = Product(dims)[n]
  BY Zenon DEF Count, Product
<1> HIDE DEF n
<1>7. \A i \in 0..n : Product(dims)[i] = K(Product(dims))[i]
  BY <1>5, Zenon
<1>8. \A i \in 0..n : K(Product(dims))[i] =
        IF i = 0 THEN 1 ELSE Product(dims)[i - 1] * (dims[i] + 1)
  OBVIOUS
<1> QED BY <1>1, <1>6, <1>7, <1>8 DEF n

(* An array with the first dimension is as many arrays without it as the   *)
(* dimension has subscripts.                                               *)
LEMMA SizeOfRows ==
  ASSUME NEW s \in Seq(Int), Len(s) > 0
  PROVE  Count(s) = (s[1] + 1) * Count(SubSeq(s, 2, Len(s)))
<1> DEFINE n == Len(s)
           r == SubSeq(s, 2, n)
           a == s[1] + 1
           P == {j \in 0..(n - 1) : /\ Product(r)[j] \in Int
                                    /\ Product(s)[j + 1] = a * Product(r)[j]}
<1>1. n \in Nat \ {0} /\ 1 \in 1..n
  OBVIOUS
<1>2. r \in Seq(Int) /\ Len(r) = n - 1 /\ \A j \in 1..(n - 1) : r[j] = s[j + 1]
  <2>1. r = [j \in 1..(n - 1) |-> s[j + 1]]
    BY <1>1
  <2>2. \A j \in 1..(n - 1) : s[j + 1] \in Int
    BY <1>1
  <2> HIDE DEF r, n
  <2> QED BY <1>1, <2>1, <2>2
<1>3. a \in Int
  BY <1>1
<1>4. /\ Count(s) = Product(s)[n] /\ Product(s)[0] = 1
      /\ \A i \in 1..n : Product(s)[i] = Product(s)[i - 1] * (s[i] + 1)
  BY ProductIs
<1>5. /\ Count(r) = Product(r)[n - 1] /\ Product(r)[0] = 1
      /\ \A i \in 1..(n - 1) : Product(r)[i] = Product(r)[i - 1] * (r[i] + 1)
  <2> HIDE DEF r, n
  <2> QED BY <1>2, ProductIs
<1> HIDE DEF r
<1>6. 0 \in P
  <2>1. Product(s)[1] = Product(s)[0] * a
    BY <1>1, <1>4
  <2>2. Product(s)[0 + 1] = a * Product(r)[0]
    <3> HIDE DEF a
    <3> QED BY <1>3, <1>4, <1>5, <2>1
  <2> QED BY <1>1, <1>5, <2>2
<1>7. ASSUME NEW j \in 1..(n - 1), j - 1 \in P PROVE j \in P
  <2> DEFINE w == s[j + 1] + 1
  <2>1. j + 1 \in 1..n /\ (j + 1) - 1 = j /\ (j - 1) + 1 = j
    BY <1>1
  <2>2. w \in Int
    BY <2>1
  <2>3. r[j] = s[j + 1]
    BY <1>2
  <2>4. Product(r)[j] = Product(r)[j - 1] * w
    BY <1>5, <2>3
  <2>5. Product(s)[j + 1] = Product(s)[j] * w
    BY <1>4, <2>1
  <2>6. Product(r)[j - 1] \in Int /\ Product(s)[j] = a * Product(r)[j - 1]
    BY <1>7, <2>1
  <2>7. Product(r)[j] \in Int /\ Product(s)[j + 1] = a * Product(r)[j]
    <3> DEFINE p == Product(r)[j - 1]
    <3> HIDE DEF w, a
    <3>1. (a * p) * w = a * (p * w) /\ p * w \in Int
      <4> HIDE DEF p
      <4> QED BY <1>3, <2>2, <2>6 DEF p
    <3> QED BY <2>4, <2>5, <2>6, <3>1
  <2> QED BY <1>1, <2>7
<1>8. n - 1 \in P
  <2>1. \A i \in 0..(n - 1) : i \in P
    <3>1. n - 1 \in Nat
      BY <1>1
    <3> DEFINE m == n - 1
    <3> HIDE DEF P, m
    <3>2. \A i \in 0..m : i \in P
      BY <1>6, <1>7, <3>1, InductionUpTo DEF m
    <3> QED BY <3>2 DEF m
  <2> QED BY <1>1, <2>1
<1>9. (n - 1) + 1 = n
  BY <1>1
<1> QED BY <1>4, <1>5, <1>8, <1>9 DEF r

(* The elements that share the subscripts up to place i.                   *)
Row(dims, i) == Count(SubSeq(dims, i + 1, Len(dims)))

(* A row is as many rows of the next dimension as that has subscripts, and *)
(* the last is one element.                                                *)
LEMMA RowIs ==
  ASSUME NEW dims \in Seq(BoundSet)
  PROVE  /\ Row(dims, 0) = Count(dims) /\ Row(dims, Len(dims)) = 1
         /\ \A i \in 0..Len(dims) : Row(dims, i) \in Nat \ {0}
         /\ \A i \in 1..Len(dims) :
              Row(dims, i - 1) = (dims[i] + 1) * Row(dims, i)
<1> DEFINE n == Len(dims)
           P == {j \in 0..n : Row(dims, n - j) \in Nat \ {0}}
<1>1. n \in Nat /\ dims \in Seq(Int)
  <2>1. \A d \in BoundSet : d \in Int
    BY BoundIs
  <2> QED BY <2>1
<1>2. Row(dims, 0) = Count(dims)
  <2>1. SubSeq(dims, 0 + 1, Len(dims)) = dims
    BY <1>1
  <2> QED BY <2>1 DEF Row
<1>3. Row(dims, n) = 1
  <2>1. SubSeq(dims, n + 1, n) = <<>>
    BY <1>1
  <2>2. <<>> \in Seq(Int) /\ Len(<<>>) = 0
    OBVIOUS
  <2>3. Count(<<>>) = 1
    BY <2>2, ProductIs
  <2> QED BY <2>1, <2>3 DEF Row
<1>4. ASSUME NEW i \in 1..n PROVE Row(dims, i - 1) = (dims[i] + 1) * Row(dims, i)
  <2> DEFINE s == SubSeq(dims, i, n)
  <2>1. s \in Seq(Int) /\ Len(s) = n - i + 1 /\ Len(s) > 0 /\ s[1] = dims[i]
    BY <1>1
  <2>2. SubSeq(s, 2, Len(s)) = SubSeq(dims, i + 1, n)
    <3> DEFINE u == SubSeq(s, 2, Len(s))
               v == SubSeq(dims, i + 1, n)
    <3>1. u \in Seq(Int) /\ Len(u) = n - i /\ \A j \in 1..(n - i) : u[j] = s[j + 1]
      <4> HIDE DEF s
      <4> QED BY <1>1, <2>1
    <3>2. v \in Seq(Int) /\ Len(v) = n - i /\ \A j \in 1..(n - i) : v[j] = dims[i + j]
      BY <1>1
    <3>3. \A j \in 1..(n - i) : s[j + 1] = dims[i + j]
      BY <1>1
    <3> HIDE DEF u, v, s
    <3>4. \A j \in 1..(n - i) : u[j] = v[j]
      BY <3>1, <3>2, <3>3
    <3>5. u = v
      BY <3>1, <3>2, <3>4, SequenceIsFunction
    <3> QED BY <3>5 DEF u, v
  <2>3. Count(s) = (s[1] + 1) * Count(SubSeq(s, 2, Len(s)))
    <3> HIDE DEF s
    <3> QED BY <2>1, SizeOfRows
  <2>6. (i - 1) + 1 = i
    BY <1>1
  <2> HIDE DEF s
  <2> QED BY <2>1, <2>2, <2>3, <2>6 DEF Row, s
<1>5. 0 \in P
  BY <1>1, <1>3
<1>6. ASSUME NEW j \in 1..n, j - 1 \in P PROVE j \in P
  <2> DEFINE i == n - j + 1
  <2>1. i \in 1..n /\ n - (j - 1) = i /\ n - j = i - 1
    BY <1>1
  <2>2. Row(dims, i) \in Nat \ {0}
    BY <1>6, <2>1
  <2>3. dims[i] + 1 \in Nat \ {0}
    <3>1. dims[i] \in BoundSet
      BY <2>1
    <3> QED BY <3>1, BoundIs
  <2>4. Row(dims, i - 1) = (dims[i] + 1) * Row(dims, i)
    BY <1>4, <2>1
  <2>5. Row(dims, i - 1) \in Nat \ {0}
    <3> DEFINE b == dims[i] + 1
               r == Row(dims, i)
    <3>1. b * r \in Nat \ {0}
      <4> HIDE DEF b, r
      <4> QED BY <2>2, <2>3 DEF b, r
    <3> QED BY <2>4, <3>1
  <2> QED BY <2>1, <2>5
<1>7. ASSUME NEW i \in 0..n PROVE Row(dims, i) \in Nat \ {0}
  <2>1. n - i \in 0..n /\ n - (n - i) = i
    BY <1>1
  <2>2. \A j \in 0..n : j \in P
    <3> HIDE DEF P, n
    <3> QED BY <1>1, <1>5, <1>6, InductionUpTo
  <2> QED BY <2>1, <2>2
<1> QED BY <1>2, <1>3, <1>4, <1>7

(* The value of an integer that a number is made of.                       *)
LEMMA IntegerOf ==
  ASSUME NEW x \in BoundSet
  PROVE  value_int(value_int_new(x)) = x /\ value_is_numeric(value_int_new(x))
<1>1. x \in IntRange /\ x \in Nat
  BY BoundIs DEF BoundSet
<1>2. Quotient(x, 1) = x
  BY <1>1 DEF Quotient, Magnitude
<1> QED BY <1>1, <1>2 DEF value_int, value_int_new, value_is_numeric, value_is_int

(* Numbers in the place of the subscripts.                                 *)
Digits(dims) == {x \in [DOMAIN dims -> BoundSet] : \A i \in DOMAIN dims : x[i] <= dims[i]}
Given(x) == [i \in DOMAIN x |-> value_int_new(x[i])]

(* The subscripts of an array are numbers up to its bounds.                *)
LEMMA SubscriptsAre ==
  ASSUME NEW dims \in Seq(BoundSet)
  PROVE  Subscripts(dims) = {Given(x) : x \in Digits(dims)}
<1> DEFINE D == DOMAIN dims
           B == UNION {0..dims[i] : i \in D}
           T == {q \in [D -> B] : \A i \in D : q[i] <= dims[i]}
<1>1. D = 1..Len(dims) /\ \A i \in D : dims[i] \in BoundSet /\ dims[i] \in Int
  <2>1. \A i \in D : dims[i] \in BoundSet
    OBVIOUS
  <2> QED BY <2>1, BoundIs
<1>2. Subscripts(dims) = {[i \in D |-> value_int_new(p[i])] : p \in T}
  BY Zenon DEF Subscripts
<1>3. T = Digits(dims)
  <2>1. B \subseteq BoundSet
    <3>1. ASSUME NEW i \in D, NEW b \in 0..dims[i] PROVE b \in BoundSet
      BY <1>1, IntMaxAssumption DEF BoundSet
    <3> QED BY <3>1
  <2>2. ASSUME NEW x \in Digits(dims) PROVE x \in T
    <3>1. x \in [D -> BoundSet] /\ \A i \in D : x[i] <= dims[i]
      BY DEF Digits
    <3>2. \A i \in D : x[i] \in 0..dims[i]
      BY <1>1, <3>1 DEF BoundSet
    <3>3. \A i \in D : x[i] \in B
      BY <3>2
    <3> HIDE DEF B, D
    <3> QED BY <3>1, <3>3
  <2>3. ASSUME NEW x \in T PROVE x \in Digits(dims)
    <3> HIDE DEF B
    <3> QED BY <2>1 DEF Digits
  <2> QED BY <2>2, <2>3
<1>4. ASSUME NEW x \in Digits(dims) PROVE DOMAIN x = D
  BY DEF Digits
<1> HIDE DEF T, D
<1> QED BY <1>2, <1>3, <1>4 DEF Given

Offset(dims, p) ==
  CHOOSE g : g = [i \in 0..Len(dims) |->
                    IF i = 0 THEN 0
                    ELSE g[i - 1] + value_int(p[i])
                                    * Count(SubSeq(dims, i + 1, Len(dims)))]

(* Each subscript moves the offset by as many rows.                        *)
LEMMA OffsetIs ==
  ASSUME NEW dims \in Seq(BoundSet), NEW x \in Digits(dims)
  PROVE  /\ Offset(dims, Given(x))[0] = 0
         /\ \A i \in 1..Len(dims) :
              Offset(dims, Given(x))[i] =
                Offset(dims, Given(x))[i - 1] + x[i] * Row(dims, i)
<1> DEFINE n == Len(dims)
           p == Given(x)
           d(i) == x[i] * Row(dims, i)
           H == [i \in 1..n |-> [q \in Int |-> q + d(i)]]
           K(g) == [i \in 0..n |-> IF i = 0 THEN 0
                                   ELSE g[i - 1] + value_int(p[i])
                                                 * Count(SubSeq(dims, i + 1, n))]
<1>1. n \in Nat /\ 0 \in Int
  OBVIOUS
<1>2. ASSUME NEW i \in 1..n
      PROVE  /\ d(i) \in Int
             /\ value_int(p[i]) * Count(SubSeq(dims, i + 1, n)) = d(i)
  <2>1. x[i] \in BoundSet /\ i \in DOMAIN x
    BY DEF Digits
  <2>2. p[i] = value_int_new(x[i])
    BY <2>1 DEF Given
  <2>3. value_int(p[i]) = x[i] /\ x[i] \in Int
    BY <2>1, <2>2, IntegerOf, BoundIs
  <2>4. Row(dims, i) \in Nat
    BY RowIs
  <2> HIDE DEF p
  <2> QED BY <2>3, <2>4 DEF Row
<1> HIDE DEF p, d
<1>3. H \in [1..n -> [Int -> Int]]
  <2> HIDE DEF n
  <2>1. ASSUME NEW i \in 1..n, NEW q \in Int PROVE q + d(i) \in Int
    BY <1>2
  <2> QED BY <2>1
<1>4. PICK g \in [0..n -> Int] : Iterates(g, n, 0, H)
  <2> HIDE DEF n, H
  <2> QED BY <1>1, <1>3, RecursionExists
<1>5. g = K(g)
  <2>1. ASSUME NEW i \in 1..n PROVE g[i] = g[i - 1] + d(i)
    <3>1. g[i - 1] \in Int
      BY <1>1
    <3> QED BY <1>4, <3>1 DEF Iterates
  <2> HIDE DEF n
  <2>2. ASSUME NEW i \in 0..n PROVE g[i] = K(g)[i]
    <3>1. CASE i = 0
      BY <1>4, <3>1 DEF Iterates
    <3>2. CASE i # 0
      <4>1. i \in 1..n
        BY <1>1, <3>2
      <4>2. K(g)[i] = g[i - 1] + d(i)
        BY <1>2, <3>2, <4>1
      <4> QED BY <2>1, <4>1, <4>2
    <3> QED BY <3>1, <3>2
  <2> QED BY <2>2
<1>6. Offset(dims, p) = K(Offset(dims, p))
  <2>1. \E f : f = K(f)
    BY <1>5
  <2> HIDE DEF n
  <2> QED BY <2>1, Zenon DEF Offset, n
<1> DEFINE o == Offset(dims, p)
<1>8. o[0] = 0 /\ \A i \in 1..n : o[i] = o[i - 1] + d(i)
  <2> HIDE DEF n, o
  <2>1. o = K(o)
    BY <1>6 DEF o
  <2>2. \A i \in 0..n : K(o)[i] = IF i = 0 THEN 0
                                  ELSE o[i - 1] + value_int(p[i])
                                                * Count(SubSeq(dims, i + 1, n))
    OBVIOUS
  <2>3. 0 \in 0..n /\ \A i \in 1..n : i \in 0..n /\ i # 0
    BY <1>1
  <2>4. o[0] = 0
    BY <2>1, <2>2, <2>3
  <2>5. ASSUME NEW i \in 1..n PROVE o[i] = o[i - 1] + d(i)
    BY <1>2, <2>1, <2>2, <2>3
  <2> QED BY <2>4, <2>5
<1> QED BY <1>8 DEF p, d

(* The subscripts up to place i leave a row of places, and each subscript  *)
(* leaves one within it.                                                   *)
LEMMA RowsAreNested ==
  ASSUME NEW dims \in Seq(BoundSet), NEW x \in Digits(dims),
         NEW i \in 0..Len(dims), NEW j \in i..Len(dims)
  PROVE  /\ Offset(dims, Given(x))[i] \in Nat
         /\ Offset(dims, Given(x))[j] \in Nat
         /\ Offset(dims, Given(x))[i] <= Offset(dims, Given(x))[j]
         /\ Offset(dims, Given(x))[j] + Row(dims, j)
              <= Offset(dims, Given(x))[i] + Row(dims, i)
<1> DEFINE n == Len(dims)
           o == Offset(dims, Given(x))
           S == {k \in 0..n : o[k] \in Nat}
           P == {k \in 0..(n - i) : /\ o[i] <= o[i + k]
                                    /\ o[i + k] + Row(dims, i + k) <= o[i] + Row(dims, i)}
<1>1. n \in Nat
  OBVIOUS
<1>2. o[0] = 0 /\ \A k \in 1..n : o[k] = o[k - 1] + x[k] * Row(dims, k)
  BY OffsetIs
<1>3. \A k \in 0..n : Row(dims, k) \in Nat \ {0}
  BY RowIs
<1> HIDE DEF o
<1>4. ASSUME NEW k \in 1..n, o[k - 1] \in Nat
      PROVE  /\ o[k] \in Nat /\ o[k - 1] <= o[k]
             /\ o[k] + Row(dims, k) <= o[k - 1] + Row(dims, k - 1)
  <2> DEFINE c == x[k]
             b == dims[k]
             r == Row(dims, k)
  <2>1. dims[k] \in BoundSet /\ x[k] \in BoundSet /\ x[k] <= dims[k]
    BY DEF Digits
  <2>2. c \in Nat /\ b \in Nat /\ c <= b
    BY <2>1 DEF BoundSet
  <2>3. r \in Nat /\ Row(dims, k - 1) = (b + 1) * r /\ o[k] = o[k - 1] + c * r
    BY <1>2, <1>3, RowIs
  <2> HIDE DEF c, b, r
  <2>4. c * r \in Nat /\ (b + 1) * r \in Nat /\ c * r + r <= (b + 1) * r
    <3>1. c * r \in Nat /\ (b + 1) * r \in Nat
      BY <2>2, <2>3
    <3>2. b - c \in Nat
      BY <2>2
    <3>3. (b - c) * r \in Nat
      BY <2>3, <3>2
    <3>4. (b + 1) * r = (b - c) * r + c * r + r
      BY <2>2, <2>3
    <3> QED BY <2>3, <3>1, <3>3, <3>4
  <2>5. r = Row(dims, k)
    BY DEF r
  <2> QED BY <1>4, <2>3, <2>4, <2>5
<1>5. \A k \in 0..n : k \in S
  <2>1. 0 \in S
    BY <1>1, <1>2
  <2>2. \A k \in 1..n : k - 1 \in S => k \in S
    BY <1>1, <1>4
  <2> HIDE DEF S, n
  <2> QED BY <1>1, <2>1, <2>2, InductionUpTo
<1>6. \A k \in 0..n : o[k] \in Nat
  BY <1>5
<1>7. n - i \in Nat
  BY <1>1
<1>8. 0 \in P
  BY <1>1, <1>3, <1>6
<1>9. ASSUME NEW k \in 1..(n - i), k - 1 \in P PROVE k \in P
  <2>1. i + k \in 1..n /\ (i + k) - 1 = i + (k - 1) /\ i + (k - 1) \in 0..n
    BY <1>1
  <2>2. /\ o[i + k] \in Nat /\ o[i + (k - 1)] <= o[i + k]
        /\ o[i + k] + Row(dims, i + k) <= o[i + (k - 1)] + Row(dims, i + (k - 1))
    BY <1>4, <1>6, <2>1
  <2>3. /\ o[i] <= o[i + (k - 1)]
        /\ o[i + (k - 1)] + Row(dims, i + (k - 1)) <= o[i] + Row(dims, i)
    BY <1>9
  <2>4. o[i] \in Nat /\ o[i + (k - 1)] \in Nat /\ Row(dims, i) \in Nat
        /\ Row(dims, i + k) \in Nat /\ Row(dims, i + (k - 1)) \in Nat
    BY <1>1, <1>3, <1>6, <2>1
  <2> QED BY <1>1, <2>2, <2>3, <2>4
<1>10. \A k \in 0..(n - i) : k \in P
  <2> DEFINE m == n - i
  <2> HIDE DEF P, m
  <2>1. \A k \in 0..m : k \in P
    BY <1>7, <1>8, <1>9, InductionUpTo DEF m
  <2> QED BY <2>1 DEF m
<1>11. j - i \in P
  <2>1. j - i \in 0..(n - i)
    BY <1>1
  <2> QED BY <1>10, <2>1
<1>12. i + (j - i) = j /\ j \in 0..n /\ i \in 0..n
  BY <1>1
<1>13. o[i] <= o[i + (j - i)] /\ o[i + (j - i)] + Row(dims, i + (j - i)) <= o[i] + Row(dims, i)
  BY <1>11
<1> QED BY <1>6, <1>12, <1>13 DEF o

(* The place of an element is one of the array.                            *)
LEMMA PlaceIs ==
  ASSUME NEW dims \in Seq(BoundSet), NEW x \in Digits(dims)
  PROVE  Offset(dims, Given(x))[Len(dims)] \in 0..(Count(dims) - 1)
<1> DEFINE n == Len(dims)
           o == Offset(dims, Given(x))
<1>1. n \in Nat /\ 0 \in 0..n /\ n \in 0..n
  OBVIOUS
<1>2. o[0] = 0 /\ Offset(dims, Given(x))[Len(dims)] = o[n]
  BY OffsetIs
<1>3. Row(dims, 0) = Count(dims) /\ Row(dims, n) = 1 /\ Row(dims, 0) \in Nat
  BY RowIs
<1>4. o[n] \in Nat /\ o[n] + Row(dims, n) <= o[0] + Row(dims, 0)
  BY <1>1, RowsAreNested
<1> HIDE DEF o, n
<1> QED BY <1>2, <1>3, <1>4

(* Elements at one place have the same subscripts.                         *)
LEMMA SamePlace ==
  ASSUME NEW dims \in Seq(BoundSet), NEW x \in Digits(dims), NEW y \in Digits(dims),
         Offset(dims, Given(x))[Len(dims)] = Offset(dims, Given(y))[Len(dims)]
  PROVE  x = y
<1> DEFINE n == Len(dims)
           o == Offset(dims, Given(x))
           u == Offset(dims, Given(y))
           P == {i \in 0..n : o[i] = u[i]}
<1>1. n \in Nat
  OBVIOUS
<1>2. /\ o[0] = 0 /\ u[0] = 0 /\ o[n] = u[n]
      /\ \A i \in 1..n : o[i] = o[i - 1] + x[i] * Row(dims, i)
      /\ \A i \in 1..n : u[i] = u[i - 1] + y[i] * Row(dims, i)
  BY OffsetIs
<1>3. ASSUME NEW i \in 0..n
      PROVE  /\ o[i] \in Nat /\ o[i] <= o[n] /\ o[n] < o[i] + Row(dims, i)
             /\ u[i] \in Nat /\ u[i] <= u[n] /\ u[n] < u[i] + Row(dims, i)
  <2>1. n \in i..n
    BY <1>1
  <2>2. Row(dims, n) = 1 /\ Row(dims, i) \in Nat
    BY RowIs
  <2>3. /\ o[i] \in Nat /\ o[n] \in Nat /\ o[i] <= o[n]
        /\ o[n] + Row(dims, n) <= o[i] + Row(dims, i)
    BY <2>1, RowsAreNested
  <2>4. /\ u[i] \in Nat /\ u[n] \in Nat /\ u[i] <= u[n]
        /\ u[n] + Row(dims, n) <= u[i] + Row(dims, i)
    BY <2>1, RowsAreNested
  <2> HIDE DEF o, u, n
  <2> QED BY <2>2, <2>3, <2>4
<1> HIDE DEF o, u
<1>4. ASSUME NEW i \in 1..n, o[i - 1] = u[i - 1] PROVE o[i] = u[i] /\ x[i] = y[i]
  <2> DEFINE r == Row(dims, i)
             a == x[i]
             b == y[i]
             c == o[i - 1]
             k == o[n]
  <2>1. a \in Nat /\ b \in Nat
    <3>1. x[i] \in BoundSet /\ y[i] \in BoundSet
      BY DEF Digits
    <3> QED BY <3>1 DEF BoundSet
  <2>2. r \in Nat \ {0}
    BY RowIs
  <2>3. o[i] = c + a * r /\ u[i] = c + b * r
    BY <1>2, <1>4
  <2>4. i \in 0..n /\ n \in 0..n /\ i - 1 \in 0..n
    BY <1>1
  <2>5. c \in Nat /\ k \in Nat
    BY <1>3, <2>4
  <2>6. /\ c + a * r <= k /\ k < c + a * r + r
        /\ c + b * r <= k /\ k < c + b * r + r
    BY <1>2, <1>3, <2>3, <2>4
  <2> HIDE DEF a, b, c, k, r
  <2>7. a = b
    <3>1. ASSUME NEW v \in Nat, NEW w \in Nat, v < w,
                 c + w * r <= k, k < c + v * r + r
          PROVE  FALSE
      <4>1. w - v - 1 \in Nat
        BY <3>1
      <4>2. (w - v - 1) * r \in Nat
        BY <2>2, <4>1
      <4>3. w * r = v * r + r + (w - v - 1) * r
        BY <2>2
      <4>4. v * r \in Nat /\ w * r \in Nat
        BY <2>2
      <4> QED BY <2>2, <2>5, <3>1, <4>2, <4>3, <4>4
    <3>2. ~(a < b) /\ ~(b < a)
      BY <2>1, <2>6, <3>1
    <3> QED BY <2>1, <3>2
  <2> QED BY <2>3, <2>7 DEF a, b
<1>5. 0 \in P
  BY <1>1, <1>2
<1>6. \A i \in 1..n : i - 1 \in P => i \in P
  BY <1>4
<1>7. \A i \in 0..n : i \in P
  <2> HIDE DEF P, n
  <2> QED BY <1>1, <1>5, <1>6, InductionUpTo
<1>8. ASSUME NEW i \in 1..n PROVE x[i] = y[i]
  <2>1. i - 1 \in 0..n
    BY <1>1
  <2> QED BY <1>4, <1>7, <2>1
<1>9. x \in [1..n -> BoundSet] /\ y \in [1..n -> BoundSet]
  BY DEF Digits
<1>10. x = [i \in 1..n |-> x[i]] /\ y = [i \in 1..n |-> y[i]]
  <2> HIDE DEF n
  <2> QED BY <1>9
<1> HIDE DEF n
<1> QED BY <1>8, <1>10

(* Every place of an array has subscripts: what is left of the place after *)
(* each row gives the next.                                                *)
LEMMA EveryPlace ==
  ASSUME NEW dims \in Seq(BoundSet), NEW k \in 0..(Count(dims) - 1)
  PROVE  \E x \in Digits(dims) : Offset(dims, Given(x))[Len(dims)] = k
<1> DEFINE n == Len(dims)
           H == [i \in 1..n |-> [q \in Nat |-> q % Row(dims, i)]]
<1>1. n \in Nat
  OBVIOUS
<1>2. /\ Row(dims, 0) = Count(dims) /\ Row(dims, n) = 1
      /\ \A i \in 0..n : Row(dims, i) \in Nat \ {0}
      /\ \A i \in 1..n : Row(dims, i - 1) = (dims[i] + 1) * Row(dims, i)
  BY RowIs
<1>3. k \in Nat /\ k < Row(dims, 0)
  BY <1>1, <1>2
<1>4. H \in [1..n -> [Nat -> Nat]]
  <2>1. ASSUME NEW i \in 1..n, NEW q \in Nat PROVE q % Row(dims, i) \in Nat
    <3>1. Row(dims, i) \in Nat \ {0}
      BY <1>2
    <3> QED BY <3>1
  <2> HIDE DEF n
  <2> QED BY <2>1
<1>5. PICK rest \in [0..n -> Nat] : Iterates(rest, n, k, H)
  <2> HIDE DEF n, H
  <2> QED BY <1>1, <1>3, <1>4, RecursionExists
<1>6. rest[0] = k /\ \A i \in 1..n : rest[i - 1] \in Nat /\ rest[i] = rest[i - 1] % Row(dims, i)
  <2>1. \A i \in 1..n : rest[i - 1] \in Nat
    BY <1>1
  <2> QED BY <1>5, <2>1 DEF Iterates
<1> DEFINE x == [i \in 1..n |-> rest[i - 1] \div Row(dims, i)]
<1>7. ASSUME NEW i \in 1..n, rest[i - 1] < Row(dims, i - 1)
      PROVE  /\ rest[i] < Row(dims, i) /\ x[i] \in 0..dims[i]
             /\ rest[i - 1] = x[i] * Row(dims, i) + rest[i]
  <2> DEFINE q == rest[i - 1]
             r == Row(dims, i)
             b == dims[i]
  <2>1. r \in Nat \ {0} /\ q \in Nat /\ q < (b + 1) * r
    BY <1>2, <1>6, <1>7
  <2>2. dims[i] \in BoundSet
    OBVIOUS
  <2>3. b \in Nat
    BY <2>2 DEF BoundSet
  <2>4. rest[i] = q % r /\ x[i] = q \div r
    BY <1>6
  <2> HIDE DEF q, r, b
  <2>5. q \div r \in Nat /\ q % r \in 0..(r - 1) /\ q = (q \div r) * r + (q % r)
    BY <2>1
  <2>6. q \div r <= b
    <3> SUFFICES ASSUME ~(q \div r <= b) PROVE FALSE
      OBVIOUS
    <3>1. (q \div r) - (b + 1) \in Nat
      BY <2>3, <2>5
    <3>2. ((q \div r) - (b + 1)) * r \in Nat
      BY <2>1, <3>1
    <3>3. (q \div r) * r = (b + 1) * r + ((q \div r) - (b + 1)) * r
      <4> DEFINE d == q \div r
      <4> HIDE DEF d
      <4>1. d * r = (b + 1) * r + (d - (b + 1)) * r
        BY <2>1, <2>3, <2>5 DEF d
      <4> QED BY <4>1 DEF d
    <3>4. (b + 1) * r \in Nat
      BY <2>1, <2>3
    <3> QED BY <2>1, <2>5, <3>2, <3>3, <3>4
  <2> QED BY <2>1, <2>3, <2>4, <2>5, <2>6 DEF q, r, b
<1> HIDE DEF x
<1> DEFINE P == {i \in 0..n : rest[i] < Row(dims, i)}
<1>8. \A i \in 0..n : i \in P
  <2>1. 0 \in P
    BY <1>1, <1>3, <1>6
  <2>2. \A i \in 1..n : i - 1 \in P => i \in P
    BY <1>7
  <2> HIDE DEF P, n
  <2> QED BY <1>1, <2>1, <2>2, InductionUpTo
<1>9. \A i \in 1..n : /\ x[i] \in 0..dims[i]
                      /\ rest[i - 1] = x[i] * Row(dims, i) + rest[i]
  <2>1. \A i \in 1..n : i - 1 \in 0..n
    BY <1>1
  <2> QED BY <1>7, <1>8, <2>1
<1>10. x \in Digits(dims)
  <2>1. ASSUME NEW i \in 1..n PROVE x[i] \in BoundSet /\ x[i] <= dims[i]
    <3>1. dims[i] \in BoundSet /\ x[i] \in 0..dims[i]
      BY <1>9
    <3> QED BY <3>1, IntMaxAssumption DEF BoundSet
  <2>2. x = [i \in 1..n |-> x[i]]
    BY DEF x
  <2>3. x \in [1..n -> BoundSet]
    <3> HIDE DEF n
    <3> QED BY <2>1, <2>2
  <2> QED BY <2>1, <2>3 DEF Digits
<1> DEFINE o == Offset(dims, Given(x))
           S == {i \in 0..n : o[i] = k - rest[i]}
<1>11. o[0] = 0 /\ \A i \in 1..n : o[i] = o[i - 1] + x[i] * Row(dims, i)
  BY <1>10, OffsetIs
<1> HIDE DEF o
<1>12. \A i \in 0..n : i \in S
  <2>1. 0 \in S
    BY <1>1, <1>3, <1>6, <1>11
  <2>2. ASSUME NEW i \in 1..n, i - 1 \in S PROVE i \in S
    <3> DEFINE m == x[i] * Row(dims, i)
    <3>1. i - 1 \in 0..n /\ i \in 0..n
      BY <1>1
    <3>2. x[i] \in Nat /\ Row(dims, i) \in Nat
      BY <1>2, <1>9, <3>1, BoundIs DEF BoundSet
    <3>3. m \in Nat
      BY <3>2
    <3>4. rest[i - 1] = m + rest[i] /\ o[i] = o[i - 1] + m
      BY <1>9, <1>11
    <3>5. o[i - 1] = k - rest[i - 1] /\ rest[i - 1] \in Nat /\ rest[i] \in Nat
      BY <2>2, <3>1
    <3> HIDE DEF m
    <3>6. o[i] = k - rest[i]
      BY <1>3, <3>3, <3>4, <3>5
    <3> QED BY <3>1, <3>6
  <2> HIDE DEF S, n
  <2> QED BY <1>1, <2>1, <2>2, InductionUpTo
<1>13. o[n] = k
  <2>1. n \in 0..n
    BY <1>1
  <2>2. o[n] = k - rest[n] /\ rest[n] < 1 /\ rest[n] \in Nat
    BY <1>2, <1>8, <1>12, <2>1
  <2> QED BY <1>3, <2>2
<1> QED BY <1>10, <1>13 DEF o

(* A number below the modulus is its own remainder.                        *)
LEMMA OwnRemainder ==
  ASSUME NEW m \in Nat \ {0}, NEW x \in Nat, x < m
  PROVE  x % m = x
OBVIOUS

(* The subscripts of a legal bound are counted without wrapping,           *)
LEMMA ExtentOfBound ==
  ASSUME NEW d \in BoundSet
  PROVE  Extent(d) = d + 1 /\ d + 1 \in Nat \ {0}
<1>1. Wrap(d + 1) = d + 1 /\ d + 1 \in Nat \ {0} /\ d + 1 <= IntMax
  BY BoundIs, IntMaxAssumption DEF BoundSet
<1>2. SizeMod \in Nat \ {0} /\ d + 1 < SizeMod
  BY <1>1, SizeAssumption, IntMaxAssumption
<1>3. (d + 1) % SizeMod = d + 1
  <2> DEFINE x == d + 1
  <2>1. x \in Nat /\ x < SizeMod
    BY <1>1, <1>2
  <2> HIDE DEF x
  <2>2. x % SizeMod = x
    BY <1>2, <2>1, OwnRemainder
  <2> QED BY <2>2 DEF x
<1> QED BY <1>1, <1>3 DEF Extent

(* a product of some dimensions is at most that of all,                    *)
LEMMA ProductGrows ==
  ASSUME NEW dims \in Seq(BoundSet)
  PROVE  \A i \in 0..Len(dims) : Product(dims)[i] \in Nat /\ Product(dims)[i] <= Count(dims)
<1> DEFINE n == Len(dims)
           f == Product(dims)
           S == {i \in 0..n : f[i] \in Nat}
           P == {j \in 0..n : f[n - j] <= f[n]}
<1>1. n \in Nat /\ dims \in Seq(Int)
  <2>1. \A d \in BoundSet : d \in Int
    BY BoundIs
  <2> QED BY <2>1
<1>2. Count(dims) = f[n] /\ f[0] = 1 /\ \A i \in 1..n : f[i] = f[i - 1] * (dims[i] + 1)
  BY <1>1, ProductIs
<1> HIDE DEF f
<1>3. ASSUME NEW i \in 1..n, f[i - 1] \in Nat PROVE f[i] \in Nat /\ f[i - 1] <= f[i]
  <2> DEFINE d == dims[i]
             q == f[i - 1]
  <2>1. dims[i] \in BoundSet
    OBVIOUS
  <2>2. d \in Nat /\ q \in Nat /\ f[i] = q * (d + 1)
    BY <1>2, <1>3, <2>1 DEF BoundSet
  <2> HIDE DEF d, q
  <2>3. q * d \in Nat /\ q * (d + 1) = q * d + q
    BY <2>2
  <2> QED BY <2>2, <2>3 DEF q
<1>4. \A i \in 0..n : i \in S
  <2>1. 0 \in S /\ \A i \in 1..n : i - 1 \in S => i \in S
    BY <1>1, <1>2, <1>3
  <2> HIDE DEF S, n
  <2> QED BY <1>1, <2>1, InductionUpTo
<1>5. \A j \in 0..n : j \in P
  <2>1. 0 \in P
    BY <1>1, <1>4
  <2>2. ASSUME NEW j \in 1..n, j - 1 \in P PROVE j \in P
    <3> DEFINE i == n - (j - 1)
    <3>1. i \in 1..n /\ i - 1 = n - j /\ i - 1 \in 0..n /\ n \in 0..n
      BY <1>1
    <3>2. f[i] \in Nat /\ f[i - 1] \in Nat /\ f[n] \in Nat
      BY <1>4, <3>1
    <3>3. f[i - 1] <= f[i] /\ f[i] <= f[n]
      BY <1>3, <2>2, <3>1, <3>2
    <3>4. f[i - 1] <= f[n]
      BY <3>2, <3>3
    <3> QED BY <3>1, <3>4
  <2> HIDE DEF P, n
  <2> QED BY <1>1, <2>1, <2>2, InductionUpTo
<1>6. ASSUME NEW i \in 0..n PROVE f[i] \in Nat /\ f[i] <= f[n]
  <2>1. n - i \in 0..n /\ n - (n - i) = i
    BY <1>1
  <2> QED BY <1>4, <1>5, <2>1
<1> QED BY <1>2, <1>6 DEF f

(* and the size is the number of subscripts when an int can hold that.     *)
LEMMA SizeIsCount ==
  ASSUME NEW dims \in Seq(BoundSet), Count(dims) <= IntMax
  PROVE  array_size(dims) = Count(dims)
<1> DEFINE n == Len(dims)
           f == Product(dims)
           g == Sizes(dims)
           P == {i \in 0..n : g[i] = f[i]}
<1>1. n \in Nat /\ dims \in Seq(Int)
  <2>1. \A d \in BoundSet : d \in Int
    BY BoundIs
  <2> QED BY <2>1
<1>2. /\ Count(dims) = f[n] /\ f[0] = 1
      /\ \A i \in 1..n : f[i] = f[i - 1] * (dims[i] + 1)
      /\ array_size(dims) = g[n] /\ g[0] = 1
      /\ \A i \in 1..n : g[i] = (g[i - 1] * Extent(dims[i])) % SizeMod
  BY <1>1, ProductIs, SizesAre
<1>3. \A i \in 0..n : f[i] \in Nat /\ f[i] <= Count(dims)
  BY ProductGrows
<1>4. SizeMod \in Nat \ {0} /\ IntMax \in Nat /\ IntMax < SizeMod
  BY SizeAssumption, IntMaxAssumption
<1> HIDE DEF f, g
<1>5. ASSUME NEW i \in 1..n, g[i - 1] = f[i - 1] PROVE g[i] = f[i]
  <2>1. dims[i] \in BoundSet /\ i \in 0..n
    BY <1>1
  <2>2. Extent(dims[i]) = dims[i] + 1
    BY <2>1, ExtentOfBound
  <2>3. g[i] = f[i] % SizeMod
    BY <1>2, <1>5, <2>2
  <2>4. f[i] \in Nat /\ f[i] < SizeMod
    <3>1. f[i] \in Nat /\ f[i] <= f[n] /\ f[n] <= IntMax /\ f[n] \in Nat
      BY <1>1, <1>2, <1>3, <2>1
    <3> QED BY <1>4, <3>1
  <2>5. f[i] % SizeMod = f[i]
    BY <1>4, <2>4, OwnRemainder
  <2> QED BY <2>3, <2>5
<1>6. \A i \in 0..n : i \in P
  <2>1. 0 \in P /\ \A i \in 1..n : i - 1 \in P => i \in P
    BY <1>1, <1>2, <1>5
  <2> HIDE DEF P, n
  <2> QED BY <1>1, <2>1, InductionUpTo
<1> QED BY <1>1, <1>2, <1>6

(* What array_index has added up after each dimension.                      *)
Sums(dims, p) ==
  CHOOSE g : g = [i \in 0..Len(dims) |->
                    IF i = 0 THEN 0
                    ELSE Wrap(g[i - 1] + value_int(p[i]) * RowSizes(dims)[i])]

(* Dividing the size leaves the elements of a row.                         *)
LEMMA RowsAre ==
  ASSUME NEW dims \in Seq(BoundSet), Count(dims) <= IntMax
  PROVE  \A i \in 0..Len(dims) : RowSizes(dims)[i] = Row(dims, i)
<1> DEFINE n == Len(dims)
           K(g) == [i \in 0..n |-> IF i = 0 THEN array_size(dims)
                                   ELSE g[i - 1] \div Extent(dims[i])]
           R == [i \in 0..n |-> Row(dims, i)]
           r == RowSizes(dims)
           P == {i \in 0..n : r[i] = Row(dims, i)}
<1>1. n \in Nat
  OBVIOUS
<1>2. /\ array_size(dims) = Row(dims, 0)
      /\ \A i \in 0..n : Row(dims, i) \in Nat \ {0}
      /\ \A i \in 1..n : Row(dims, i - 1) = (dims[i] + 1) * Row(dims, i)
  BY RowIs, SizeIsCount
<1>3. ASSUME NEW i \in 1..n PROVE Row(dims, i - 1) \div Extent(dims[i]) = Row(dims, i)
  <2> DEFINE e == dims[i] + 1
             w == Row(dims, i)
  <2>1. dims[i] \in BoundSet /\ i \in 0..n
    BY <1>1
  <2>2. Extent(dims[i]) = e /\ e \in Nat \ {0} /\ w \in Nat
    BY <1>2, <2>1, ExtentOfBound
  <2>3. Row(dims, i - 1) = e * w
    BY <1>2
  <2> HIDE DEF e, w
  <2>4. (e * w) \div e = w
    <3> DEFINE z == e * w
               q == z \div e
    <3>1. z \in Nat /\ q \in Nat /\ z = e * q + (z % e) /\ (z % e) \in 0..(e - 1)
      <4>1. z \in Nat
        BY <2>2
      <4> HIDE DEF z
      <4> QED BY <2>2, <4>1
    <3> HIDE DEF q
    <3>2. ASSUME NEW a \in Nat, NEW b \in Nat, a < b PROVE e * a + e <= e * b
      <4>1. b - a - 1 \in Nat /\ e * (b - a - 1) \in Nat
        <5>1. b - a - 1 \in Nat
          BY <3>2
        <5> QED BY <2>2, <5>1
      <4>2. e * b = e * a + e + e * (b - a - 1) /\ e * a \in Nat /\ e * b \in Nat
        BY <2>2
      <4> QED BY <2>2, <4>1, <4>2
    <3>3. e * q \in Nat /\ e * w \in Nat
      BY <2>2, <3>1
    <3>4. ~(q < w)
      <4> DEFINE m == e * q
                 k == z % e
      <4>1. ASSUME q < w PROVE FALSE
        <5>1. e * q + e <= e * w
          BY <2>2, <3>1, <3>2, <4>1
        <5>2. z = m + k /\ k \in 0..(e - 1) /\ m + e <= z /\ m \in Nat
          BY <3>1, <3>3, <5>1
        <5> HIDE DEF m, k, z
        <5> QED BY <2>2, <5>2
      <4> QED BY <4>1
    <3>5. ~(w < q)
      <4> DEFINE m == e * q
                 k == z % e
      <4>1. ASSUME w < q PROVE FALSE
        <5>1. e * w + e <= e * q
          BY <2>2, <3>1, <3>2, <4>1
        <5>2. z = m + k /\ k \in 0..(e - 1) /\ z + e <= m /\ m \in Nat /\ z \in Nat
          BY <3>1, <3>3, <5>1
        <5> HIDE DEF m, k, z
        <5> QED BY <2>2, <5>2
      <4> QED BY <4>1
    <3>6. q = w
      BY <2>2, <3>1, <3>4, <3>5
    <3> QED BY <3>6 DEF q
  <2> QED BY <2>2, <2>3, <2>4 DEF w
<1>4. R = K(R)
  <2> HIDE DEF n
  <2>1. ASSUME NEW i \in 0..n PROVE R[i] = K(R)[i]
    <3>1. CASE i = 0
      BY <1>2, <3>1
    <3>2. CASE i # 0
      <4>1. i \in 1..n /\ i - 1 \in 0..n
        BY <1>1, <3>2
      <4>2. R[i - 1] = Row(dims, i - 1)
        BY <4>1
      <4> QED BY <1>3, <3>2, <4>1, <4>2
    <3> QED BY <3>1, <3>2
  <2> QED BY <2>1
<1>5. r = K(r)
  <2>1. \E f : f = K(f)
    BY <1>4
  <2> HIDE DEF n
  <2> QED BY <2>1, Zenon DEF RowSizes, n
<1> HIDE DEF r
<1>6. \A i \in 0..n : i \in P
  <2> HIDE DEF n
  <2>1. \A i \in 0..n : r[i] = IF i = 0 THEN array_size(dims) ELSE r[i - 1] \div Extent(dims[i])
    BY <1>5
  <2>2. 0 \in 0..n /\ \A i \in 1..n : i \in 0..n /\ i # 0
    BY <1>1
  <2>3. 0 \in P
    BY <1>2, <2>1, <2>2
  <2>4. ASSUME NEW i \in 1..n, i - 1 \in P PROVE i \in P
    <3>1. r[i] = Row(dims, i - 1) \div Extent(dims[i])
      BY <2>1, <2>2, <2>4
    <3> QED BY <1>3, <2>2, <3>1
  <2> HIDE DEF P
  <2> QED BY <1>1, <2>3, <2>4, InductionUpTo
<1> QED BY <1>6 DEF r

(* An integer stays what it is.                                            *)
LEMMA WrapKeeps ==
  ASSUME NEW k \in Nat, k <= IntMax
  PROVE  Wrap(k) = k
<1> DEFINE M == 2 * (IntMax + 1)
           y == k - IntMin
<1>1. y \in Nat /\ M \in Nat \ {0} /\ y < M /\ y + IntMin = k
  BY IntMaxAssumption DEF IntMin
<1>2. y % M = y
  <2> HIDE DEF y, M
  <2> QED BY <1>1, OwnRemainder
<1> HIDE DEF y
<1> QED BY <1>1, <1>2 DEF Wrap, y

(* The sum is the offset: it stays below the number of elements.           *)
LEMMA IndexIsOffset ==
  ASSUME NEW dims \in Seq(BoundSet), Count(dims) <= IntMax, NEW x \in Digits(dims)
  PROVE  array_index(dims, Given(x)) = Offset(dims, Given(x))[Len(dims)]
<1> DEFINE n == Len(dims)
           p == Given(x)
           o == Offset(dims, p)
           u == Sums(dims, p)
           K(g) == [i \in 0..n |-> IF i = 0 THEN 0
                                   ELSE Wrap(g[i - 1] + value_int(p[i]) * RowSizes(dims)[i])]
           R == [i \in 0..n |-> o[i]]
           P == {i \in 0..n : u[i] = o[i]}
<1>1. n \in Nat
  OBVIOUS
<1>2. o[0] = 0 /\ \A i \in 1..n : o[i] = o[i - 1] + x[i] * Row(dims, i)
  BY OffsetIs
<1>3. ASSUME NEW i \in 0..n PROVE o[i] \in Nat /\ o[i] <= IntMax
  <2>1. 0 \in 0..n /\ i \in 0..Len(dims)
    BY <1>1
  <2>2. /\ o[i] \in Nat
        /\ o[i] + Row(dims, i) <= o[0] + Row(dims, 0)
    BY <2>1, RowsAreNested
  <2>3. Row(dims, 0) = Count(dims) /\ Row(dims, i) \in Nat \ {0} /\ Row(dims, 0) \in Nat
    BY <2>1, RowIs
  <2> HIDE DEF o
  <2> QED BY <1>2, <2>2, <2>3, IntMaxAssumption
<1>4. ASSUME NEW i \in 1..n
      PROVE  value_int(p[i]) * RowSizes(dims)[i] = x[i] * Row(dims, i)
  <2>1. x[i] \in BoundSet /\ i \in DOMAIN x /\ i \in 0..n
    BY <1>1 DEF Digits
  <2>2. p[i] = value_int_new(x[i])
    BY <2>1 DEF Given
  <2>3. value_int(p[i]) = x[i]
    BY <2>1, <2>2, IntegerOf
  <2>4. RowSizes(dims)[i] = Row(dims, i)
    BY <2>1, RowsAre
  <2> QED BY <2>3, <2>4
<1> HIDE DEF o, p
<1>5. ASSUME NEW i \in 1..n
      PROVE  Wrap(o[i - 1] + value_int(p[i]) * RowSizes(dims)[i]) = o[i]
  <2>1. o[i - 1] + value_int(p[i]) * RowSizes(dims)[i] = o[i] /\ i \in 0..n
    BY <1>1, <1>2, <1>4
  <2>2. o[i] \in Nat /\ o[i] <= IntMax
    BY <1>3, <2>1
  <2> QED BY <2>1, <2>2, WrapKeeps
<1>6. R = K(R)
  <2> HIDE DEF n
  <2>1. ASSUME NEW i \in 0..n PROVE R[i] = K(R)[i]
    <3>1. CASE i = 0
      BY <1>2, <3>1
    <3>2. CASE i # 0
      <4>1. i \in 1..n /\ i - 1 \in 0..n
        BY <1>1, <3>2
      <4>2. R[i - 1] = o[i - 1]
        BY <4>1
      <4> QED BY <1>5, <3>2, <4>1, <4>2
    <3> QED BY <3>1, <3>2
  <2> QED BY <2>1
<1>7. u = K(u)
  <2>1. \E f : f = K(f)
    BY <1>6
  <2> HIDE DEF n
  <2> QED BY <2>1, Zenon DEF Sums, n
<1>8. array_index(dims, p) = u[n]
  BY Zenon DEF array_index, Sums
<1> HIDE DEF u
<1>9. \A i \in 0..n : i \in P
  <2> HIDE DEF n
  <2>1. \A i \in 0..n : u[i] = IF i = 0 THEN 0
                               ELSE Wrap(u[i - 1] + value_int(p[i]) * RowSizes(dims)[i])
    BY <1>7
  <2>2. 0 \in 0..n /\ \A i \in 1..n : i \in 0..n /\ i # 0
    BY <1>1
  <2>3. 0 \in P
    BY <1>2, <2>1, <2>2
  <2>4. ASSUME NEW i \in 1..n, i - 1 \in P PROVE i \in P
    <3>1. u[i] = Wrap(o[i - 1] + value_int(p[i]) * RowSizes(dims)[i])
      BY <2>1, <2>2, <2>4
    <3> QED BY <1>5, <2>2, <3>1
  <2> HIDE DEF P
  <2> QED BY <1>1, <2>3, <2>4, InductionUpTo
<1> QED BY <1>1, <1>8, <1>9 DEF o, p

(* All the elements of an array can be named, each in one way.             *)
LEMMA ArrayIsIndexed ==
  ASSUME NEW dims \in Seq(BoundSet), Count(dims) <= IntMax,
         NEW data, DOMAIN data = 1..array_size(dims)
  PROVE  /\ \A p \in Subscripts(dims) :
              IndexError(dims, p) = "none" /\ array_index(dims, p) \in Nat
         /\ {array_index(dims, p) + 1 : p \in Subscripts(dims)} = DOMAIN data
         /\ \A p, q \in Subscripts(dims) : array_index(dims, p) = array_index(dims, q) => p = q
<1>1. Subscripts(dims) = {Given(x) : x \in Digits(dims)}
  BY SubscriptsAre
<1>2. array_size(dims) = Count(dims) /\ array_size(dims) \in Nat
  BY RowIs, SizeIsCount
<1>p. \A x \in Digits(dims) :
        array_index(dims, Given(x)) = Offset(dims, Given(x))[Len(dims)]
  BY IndexIsOffset
<1>3. ASSUME NEW x \in Digits(dims) PROVE IndexError(dims, Given(x)) = "none"
  <2> DEFINE p == Given(x)
  <2>1. DOMAIN dims = 1..Len(dims) /\ Len(dims) \in Nat /\ DOMAIN x = DOMAIN dims
    BY DEF Digits
  <2>2. p = [i \in 1..Len(dims) |-> value_int_new(x[i])]
    BY <2>1 DEF Given
  <2>3. DOMAIN p = DOMAIN dims /\ Len(p) = Len(dims)
    BY <2>1, <2>2
  <2>4. ASSUME NEW i \in DOMAIN dims
        PROVE  value_is_numeric(p[i]) /\ value_int(p[i]) \in 0..dims[i]
    <3>1. x[i] \in BoundSet /\ x[i] <= dims[i] /\ dims[i] \in BoundSet
      BY DEF Digits
    <3>2. p[i] = value_int_new(x[i])
      BY <2>1, <2>2
    <3>3. x[i] \in 0..dims[i]
      BY <3>1, BoundIs DEF BoundSet
    <3> HIDE DEF p
    <3> QED BY <3>1, <3>2, <3>3, IntegerOf
  <2> HIDE DEF p
  <2>5. IndexError(dims, p) = "none"
    BY <2>1, <2>3, <2>4 DEF IndexError
  <2> QED BY <2>5 DEF p
<1>4. {array_index(dims, p) + 1 : p \in Subscripts(dims)} = 1..array_size(dims)
  <2>1. ASSUME NEW x \in Digits(dims)
        PROVE  array_index(dims, Given(x)) + 1 \in 1..array_size(dims)
    <3>1. array_index(dims, Given(x)) \in 0..(array_size(dims) - 1)
      BY <1>2, <1>p, PlaceIs
    <3> QED BY <1>2, <3>1
  <2>2. ASSUME NEW k \in 1..array_size(dims)
        PROVE  \E x \in Digits(dims) : array_index(dims, Given(x)) + 1 = k
    <3>1. k - 1 \in 0..(array_size(dims) - 1) /\ (k - 1) + 1 = k
      BY <1>2
    <3>2. PICK x \in Digits(dims) : array_index(dims, Given(x)) = k - 1
      BY <1>2, <1>p, <3>1, EveryPlace
    <3> QED BY <3>1, <3>2
  <2> QED BY <1>1, <2>1, <2>2
<1>5. ASSUME NEW x \in Digits(dims), NEW y \in Digits(dims),
             array_index(dims, Given(x)) = array_index(dims, Given(y))
      PROVE  x = y
  BY <1>5, <1>p, SamePlace
<1>6. ASSUME NEW x \in Digits(dims) PROVE array_index(dims, Given(x)) \in Nat
  <2>1. array_index(dims, Given(x)) \in 0..(Count(dims) - 1)
    BY <1>p, PlaceIs
  <2> QED BY <1>2, <2>1
<1> QED BY <1>1, <1>3, <1>4, <1>5, <1>6

(* In an array of a bounded number of elements each has its own subscripts:*)
(* no subscripts a DIM allows reach outside it, no two share an element,   *)
(* and every element can be reached, for any number of dimensions.         *)
THEOREM ElementsHaveSubscripts == Spec => []ElementsAreIndexed
<1>1. IInv => ElementsAreIndexed
  <2> SUFFICES ASSUME IInv PROVE ElementsAreIndexed
    OBVIOUS
  <2>1. 1 \in DOMAIN frames /\ FramesOK(frames)
    BY InvariantParts
  <2>2. ASSUME NEW s \in Symbols(frames[1]), s.type = "ARRAY",
               Bounded(s.u.dims), Count(s.u.dims) <= IntMax
        PROVE  /\ \A p \in Subscripts(s.u.dims) : ElementError(s.u, p) = "none"
               /\ {array_index(s.u.dims, p) + 1 : p \in Subscripts(s.u.dims)} = DOMAIN s.u.data
               /\ \A p, q \in Subscripts(s.u.dims) :
                    array_index(s.u.dims, p) = array_index(s.u.dims, q) => p = q
    <3>1. Hashed(frames[1]) /\ SymbolOK(s, 1)
      BY <2>1, FrameIs
    <3>2. s \in SymbolSet
      BY <3>1, MembersAreSymbols
    <3>3. s.u \in ArraySet /\ s.u.dims \in Seq(Int)
      BY <2>2, <3>2, ArraySymbol
    <3>4. Len(s.u.data) = array_size(s.u.dims)
      BY <2>2, <3>1 DEF SymbolOK, Simple
    <3>5. DOMAIN s.u.data = 1..array_size(s.u.dims)
      BY <3>3, <3>4 DEF ArraySet
    <3> DEFINE u == s.u
               dims == u.dims
               data == u.data
    <3>6. dims \in Seq(BoundSet)
      <4>1. \A i \in 1..Len(dims) : dims[i] \in BoundSet
        BY <2>2, <3>3 DEF Bounded, BoundSet
      <4>2. dims = [i \in 1..Len(dims) |-> dims[i]] /\ Len(dims) \in Nat
        BY <3>3
      <4> HIDE DEF dims
      <4> QED BY <4>1, <4>2
    <3>7. Count(dims) <= IntMax /\ DOMAIN data = 1..array_size(dims)
      BY <2>2, <3>5
    <3> HIDE DEF dims, data
    <3>8. /\ \A p \in Subscripts(dims) :
               IndexError(dims, p) = "none" /\ array_index(dims, p) \in Nat
          /\ {array_index(dims, p) + 1 : p \in Subscripts(dims)} = DOMAIN data
          /\ \A p, q \in Subscripts(dims) :
               array_index(dims, p) = array_index(dims, q) => p = q
      BY <3>6, <3>7, ArrayIsIndexed
    <3>9. ASSUME NEW p \in Subscripts(dims) PROVE ElementError(u, p) = "none"
      <4>1. array_index(dims, p) # STATUS_ERROR /\ array_index(dims, p) + 1 \in DOMAIN data
        BY <3>8 DEF STATUS_ERROR
      <4> QED BY <3>8, <4>1, Zenon DEF ElementError, dims, data
    <3> QED BY <3>8, <3>9 DEF dims, data
  <2> QED BY <2>2 DEF ElementsAreIndexed
<1> QED BY <1>1, Invariant, PTL DEF Spec
================================================================================
