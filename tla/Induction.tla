------------------------------- MODULE Induction --------------------------------
(***************************************************************************)
(* Induction on the natural numbers for a set of them: the models' helpers *)
(* on sequences are functions defined by recursion, and what they compute  *)
(* is proved one place after the other.                                    *)
(***************************************************************************)
EXTENDS Integers, WellFoundedInduction, TLAPS

(* Among natural numbers there is a least: the order has no endless        *)
(* descent.                                                                *)
LEMMA LeastOfNaturals ==
  ASSUME NEW T, T \subseteq Nat, T # {}
  PROVE  \E x \in T : \A y \in T : x <= y
<1>1. IsWellFoundedOn(OpToRel(<, Nat), Nat)
  BY NatLessThanWellFounded
<1>2. \E x \in T : \A y \in T : <<y, x>> \notin OpToRel(<, Nat)
  BY <1>1, WFMin, Zenon
<1>3. ASSUME NEW x \in T, NEW y \in T, <<y, x>> \notin OpToRel(<, Nat)
      PROVE  x <= y
  BY <1>3 DEF OpToRel
<1> QED BY <1>2, <1>3

(* Among the numbers up to a bound there is a greatest.                    *)
LEMMA GreatestOfNaturals ==
  ASSUME NEW n \in Nat, NEW T, T \subseteq 0..n, T # {}
  PROVE  \E x \in T : \A y \in T : y <= x
<1> DEFINE U == {n - x : x \in T}
<1>1. U \subseteq Nat /\ U # {}
  <2>1. ASSUME NEW x \in T PROVE n - x \in Nat
    <3>1. x \in 0..n
      OBVIOUS
    <3> QED BY <3>1
  <2> QED BY <2>1
<1>2. PICK u \in U : \A y \in U : u <= y
  BY <1>1, LeastOfNaturals
<1>3. PICK x \in T : u = n - x
  OBVIOUS
<1>4. ASSUME NEW y \in T PROVE y <= x
  <2>1. n - y \in U
    OBVIOUS
  <2>2. n - x <= n - y
    BY <1>2, <1>3, <2>1
  <2> QED BY <2>2
<1> QED BY <1>4

(* A set that has 0 and with every number below n the next one has the     *)
(* numbers up to n.                                                        *)
LEMMA InductionUpTo ==
  ASSUME NEW n \in Nat, NEW S, 0 \in S,
         \A i \in 1..n : i - 1 \in S => i \in S
  PROVE  \A i \in 0..n : i \in S
<1> DEFINE T == (0..n) \ S
<1> SUFFICES ASSUME T # {} PROVE FALSE
  OBVIOUS
<1>1. T \subseteq Nat
  OBVIOUS
<1>2. PICK x \in T : \A y \in T : x <= y
  <2> HIDE DEF T
  <2> QED BY <1>1, LeastOfNaturals DEF T
<1>3. x \in 1..n /\ x - 1 \in 0..n /\ ~(x <= x - 1)
  OBVIOUS
<1>4. x - 1 \in S
  BY <1>2, <1>3
<1> QED BY <1>3, <1>4

(* g starts with e and goes on with the step H[i] at each i up to n.       *)
Iterates(g, n, e, H) == g[0] = e /\ \A i \in 1..n : g[i] = H[i][g[i - 1]]

(* A function defined by recursion on 0..n exists when each step takes one *)
(* member of a set to another.                                             *)
LEMMA RecursionExists ==
  ASSUME NEW n \in Nat, NEW S, NEW e \in S, NEW H \in [1..n -> [S -> S]]
  PROVE  \E g \in [0..n -> S] : Iterates(g, n, e, H)
<1> DEFINE Upto(m, g) == g[0] = e /\ \A i \in 1..m : g[i] = H[i][g[i - 1]]
           P == {m \in 0..n : \E g \in [0..m -> S] : Upto(m, g)}
<1>1. 0 \in P
  <2> DEFINE k == [i \in 0..0 |-> e]
  <2>1. k \in [0..0 -> S] /\ Upto(0, k)
    OBVIOUS
  <2> HIDE DEF k, Upto
  <2>2. \E g \in [0..0 -> S] : Upto(0, g)
    BY <2>1
  <2> QED BY <2>2
<1>2. ASSUME NEW m \in 1..n, m - 1 \in P PROVE m \in P
  <2>1. PICK g \in [0..(m - 1) -> S] : Upto(m - 1, g)
    BY <1>2
  <2> DEFINE k == [i \in 0..m |-> IF i = m THEN H[m][g[m - 1]] ELSE g[i]]
  <2>2. g[m - 1] \in S /\ H[m][g[m - 1]] \in S
    OBVIOUS
  <2>3. k \in [0..m -> S]
    BY <2>2
  <2>4. k[0] = e
    BY <2>1
  <2>5. ASSUME NEW i \in 1..m PROVE k[i] = H[i][k[i - 1]]
    <3>1. i - 1 \in 0..(m - 1) /\ i - 1 # m
      OBVIOUS
    <3>2. k[i - 1] = g[i - 1]
      BY <3>1
    <3>3. CASE i = m
      BY <3>2, <3>3
    <3>4. CASE i # m
      <4>1. i \in 1..(m - 1) /\ i \in 0..m
        BY <3>4
      <4>2. g[i] = H[i][g[i - 1]]
        BY <2>1, <4>1
      <4> QED BY <3>2, <3>4, <4>1, <4>2
    <3> QED BY <3>3, <3>4
  <2> HIDE DEF k
  <2>6. Upto(m, k)
    BY <2>4, <2>5
  <2> HIDE DEF Upto
  <2>7. \E f \in [0..m -> S] : Upto(m, f)
    BY <2>3, <2>6
  <2>8. m \in 0..n
    OBVIOUS
  <2> QED BY <2>7, <2>8
<1> HIDE DEF P
<1>3. n \in P
  <2>1. \A i \in 0..n : i \in P
    BY <1>1, <1>2, InductionUpTo
  <2> QED BY <2>1
<1> QED BY <1>3 DEF P, Iterates

-----------------------------------------------------------------------------
(* Recursion along the edges of a graph.                                   *)

(* What is reached from t by the edges D.                                  *)
ReachedFrom(t, D, S) ==
  {e \in S : \A C \in SUBSET S : t \in C /\ (\A x \in C : D[x] \subseteq C) => e \in C}

(* What a place reaches: itself, and what its direct ones reach.           *)
LEMMA ReachedFromIs ==
  ASSUME NEW S, NEW D \in [S -> SUBSET S], NEW t \in S
  PROVE  ReachedFrom(t, D, S) = {t} \cup UNION {ReachedFrom(b, D, S) : b \in D[t]}
<1> DEFINE R(x) == ReachedFrom(x, D, S)
           C == {t} \cup UNION {R(b) : b \in D[t]}
<1>1. \A x \in S : R(x) \subseteq S /\ x \in R(x) /\ D[x] \subseteq S
  BY DEF ReachedFrom
<1>2. ASSUME NEW x \in S, NEW e \in R(x), NEW y \in D[e] PROVE y \in R(x)
  BY <1>2, <1>1 DEF ReachedFrom
<1>3. ASSUME NEW x \in S, NEW b \in R(x), NEW e \in R(b) PROVE e \in R(x)
  <2>1. SUFFICES ASSUME NEW B \in SUBSET S, x \in B, \A y \in B : D[y] \subseteq B
                 PROVE  e \in B
    BY <1>3, <1>1 DEF ReachedFrom
  <2>2. b \in B
    BY <1>3, <2>1 DEF ReachedFrom
  <2> QED BY <1>3, <2>1, <2>2 DEF ReachedFrom
<1>4. C \subseteq R(t)
  <2>1. \A b \in D[t] : b \in R(t)
    BY <1>1, <1>2
  <2> HIDE DEF R
  <2> QED BY <1>1, <1>3, <2>1
<1>5. R(t) \subseteq C
  <2>1. t \in C /\ C \in SUBSET S
    <3> HIDE DEF R
    <3> QED BY <1>1
  <2>2. ASSUME NEW x \in C PROVE D[x] \subseteq C
    <3>1. CASE x = t
      <4> HIDE DEF R
      <4> QED BY <1>1, <3>1
    <3>2. CASE \E b \in D[t] : x \in R(b)
      <4>1. PICK b \in D[t] : x \in R(b)
        BY <3>2
      <4>2. b \in S
        BY <1>1
      <4>3. D[x] \subseteq R(b)
        BY <1>2, <4>1, <4>2
      <4> HIDE DEF R
      <4> QED BY <4>1, <4>3
    <3> QED BY <2>2, <3>1, <3>2
  <2> HIDE DEF C
  <2> QED BY <2>1, <2>2 DEF ReachedFrom
<1> QED BY <1>4, <1>5

(* f goes on from s to G[s] until it stops, and takes what base has there. *)
GoesOn(f, S, Stop, base, G) == f = [s \in S |-> IF s \in Stop THEN base[s] ELSE f[G[s]]]

(* Such a function exists though from some places no end may be reached.   *)
LEMMA TailRecursionExists ==
  ASSUME NEW S, NEW Stop, NEW base, NEW G, \A s \in S \ Stop : G[s] \in S
  PROVE  \E f : GoesOn(f, S, Stop, base, G)
<1> DEFINE D == [s \in S |-> IF s \in Stop THEN {} ELSE {G[s]}]
           Ends(s) == ReachedFrom(s, D, S) \cap Stop
           value(s) == CHOOSE v : \E e \in Ends(s) : v = base[e]
           f == [s \in S |-> value(s)]
<1>1. D \in [S -> SUBSET S]
  OBVIOUS
<1>2. ASSUME NEW s \in S, s \in Stop PROVE f[s] = base[s]
  <2>1. D[s] = {}
    BY <1>2
  <2>2. ReachedFrom(s, D, S) = {s}
    <3> HIDE DEF D
    <3> QED BY <1>1, <2>1, ReachedFromIs
  <2>3. Ends(s) = {s}
    BY <1>2, <2>2
  <2> HIDE DEF Ends
  <2> QED BY <2>3
<1>3. ASSUME NEW s \in S, s \notin Stop PROVE f[s] = f[G[s]]
  <2>1. D[s] = {G[s]} /\ G[s] \in S
    BY <1>3
  <2>2. ReachedFrom(s, D, S) = {s} \cup ReachedFrom(G[s], D, S)
    <3> HIDE DEF D
    <3> QED BY <1>1, <2>1, ReachedFromIs
  <2>3. Ends(s) = Ends(G[s])
    BY <1>3, <2>2
  <2> HIDE DEF Ends
  <2> QED BY <2>1, <2>3
<1>4. f = [s \in S |-> f[s]]
  <2> HIDE DEF value
  <2> QED OBVIOUS
<1> HIDE DEF f
<1>5. f = [s \in S |-> IF s \in Stop THEN base[s] ELSE f[G[s]]]
  BY <1>2, <1>3, <1>4
<1> QED BY <1>5 DEF GoesOn

(* f collects the sets E along the edges D.                                *)
Collects(f, S, D, E) == f = [s \in S |-> E[s] \cup UNION {f[b] : b \in D[s]}]

(* Such a function exists though the edges may lead in circles.            *)
LEMMA CollectionExists ==
  ASSUME NEW S, NEW D \in [S -> SUBSET S], NEW E
  PROVE  \E f : Collects(f, S, D, E)
<1> DEFINE R(x) == ReachedFrom(x, D, S)
           f == [s \in S |-> UNION {E[e] : e \in R(s)}]
<1>1. ASSUME NEW s \in S PROVE f[s] = E[s] \cup UNION {f[b] : b \in D[s]}
  <2>1. R(s) = {s} \cup UNION {R(b) : b \in D[s]}
    BY ReachedFromIs
  <2>2. D[s] \subseteq S
    OBVIOUS
  <2> HIDE DEF R
  <2>3. ASSUME NEW x \in f[s] PROVE x \in E[s] \cup UNION {f[b] : b \in D[s]}
    BY <2>1, <2>2
  <2>4. ASSUME NEW x \in E[s] \cup UNION {f[b] : b \in D[s]} PROVE x \in f[s]
    <3>1. CASE x \in E[s]
      BY <2>1, <3>1
    <3>2. CASE \E b \in D[s] : x \in f[b]
      <4>1. PICK b \in D[s] : x \in f[b]
        BY <3>2
      <4>2. PICK e \in R(b) : x \in E[e]
        BY <2>2, <4>1
      <4>3. e \in R(s)
        BY <2>1, <4>1
      <4> QED BY <4>2, <4>3
    <3> QED BY <2>4, <3>1, <3>2
  <2> HIDE DEF f
  <2> QED BY <2>3, <2>4
<1>2. f = [s \in S |-> f[s]]
  OBVIOUS
<1> HIDE DEF f
<1>3. f = [s \in S |-> E[s] \cup UNION {f[b] : b \in D[s]}]
  BY <1>1, <1>2
<1> QED BY <1>3 DEF Collects
====
