---------------------------- MODULE RecursionLemmas ----------------------------
(***************************************************************************)
(* Induction and recursion in a form the provers can use: over a set, not  *)
(* over a predicate.  A recursive function f[k \in D] == ... is, in TLA+,  *)
(* some function that satisfies the equation, if there is one; there is    *)
(* one when the arguments that a value depends on come before it in a      *)
(* founded order.  The step of a recursion is a function H : H[k][f] is    *)
(* the value at k if f gives those before it.  A fold over a finite set is *)
(* a recursion over its parts.                                             *)
(***************************************************************************)
EXTENDS Integers, WellFoundedInduction, FiniteSetTheorems, Functions, TLAPS

\* A set with 0 and with the successor of each of its numbers holds all numbers.
LEMMA NatSetInduction ==
  ASSUME NEW S, 0 \in S, \A n \in Nat : n \in S => n + 1 \in S
  PROVE  Nat \subseteq S
<1> SUFFICES ASSUME Nat \ S # {} PROVE FALSE
  OBVIOUS
<1> DEFINE T == Nat \ S
<1>1. \E x \in T : \A y \in T : <<y, x>> \notin OpToRel(<, Nat)
  <2> HIDE DEF T
  <2> T \subseteq Nat /\ T # {}
    BY DEF T
  <2> QED BY NatLessThanWellFounded, WFMin
<1>2. \E x \in T : \A y \in T : ~ (y < x)
  BY <1>1 DEF OpToRel
<1>3. PICK x \in T : \A y \in T : ~ (y < x)
  BY <1>2
<1>4. x \in Nat /\ x # 0
  OBVIOUS
<1>5. x - 1 \in Nat /\ x = (x - 1) + 1
  BY <1>4
<1>6. x - 1 \in T
  BY <1>5
<1> QED BY <1>3, <1>4, <1>6

\* R is founded on D: every part of D that is not empty has an element that
\* nothing in the part precedes.
Founded(R, D) ==
  \A T \in SUBSET D : T # {} => \E k \in T : \A j \in T : <<j, k>> \notin R

\* A value depends on the values before it only.
Follows(H, R, D, V) ==
  \A k \in D : \A f, g \in [D -> V] :
    (\A j \in D : <<j, k>> \in R => f[j] = g[j]) => H[k][f] = H[k][g]

\* What precedes an element of S is in S.
Closed(S, R, D) == S \in SUBSET D /\ \A k \in S, j \in D : <<j, k>> \in R => j \in S

\* f satisfies the equation on S.
Solves(f, H, S) == \A k \in S : f[k] = H[k][f]
Solution(f, H, S, D, V) == f \in [D -> V] /\ Solves(f, H, S)

\* Two functions that satisfy the equation agree where they both do.
LEMMA RecursionUnique ==
  ASSUME NEW R, NEW D, NEW V, NEW H, Founded(R, D), Follows(H, R, D, V),
         NEW S1, NEW S2, Closed(S1, R, D), Closed(S2, R, D),
         NEW f, NEW g, Solution(f, H, S1, D, V), Solution(g, H, S2, D, V)
  PROVE  \A k \in S1 \cap S2 : f[k] = g[k]
<1> DEFINE T == {k \in S1 \cap S2 : f[k] # g[k]}
<1> SUFFICES ASSUME T # {} PROVE FALSE
  OBVIOUS
<1>1. PICK k \in T : \A j \in T : <<j, k>> \notin R
  <2> T \in SUBSET D
    BY DEF Closed
  <2> HIDE DEF T
  <2> QED BY DEF Founded
<1>2. k \in S1 /\ k \in S2 /\ k \in D /\ f[k] # g[k]
  BY DEF Closed
<1>3. \A j \in D : <<j, k>> \in R => f[j] = g[j]
  BY <1>1, <1>2 DEF Closed
<1>4. H[k][f] = H[k][g]
  BY <1>2, <1>3 DEF Follows, Solution
<1> QED BY <1>2, <1>4 DEF Solves, Solution

\* A function satisfies the equation on all of D.
LEMMA RecursionExists ==
  ASSUME NEW R, NEW D, NEW V, V # {}, NEW H \in [D -> [[D -> V] -> V]],
         Founded(R, D), Follows(H, R, D, V)
  PROVE  \E f \in [D -> V] : Solves(f, H, D)
<1> DEFINE Good == {S \in SUBSET D : Closed(S, R, D) /\ \E f \in [D -> V] : Solves(f, H, S)}
           U == UNION Good
           Values(k) == {v \in V : \E S \in Good : \E f \in [D -> V] :
                           Solves(f, H, S) /\ k \in S /\ v = f[k]}
           F == [k \in D |-> IF k \in U THEN CHOOSE v : v \in Values(k) ELSE CHOOSE v : v \in V]
<1>0. ASSUME NEW S1, NEW S2, Closed(S1, R, D), Closed(S2, R, D),
             NEW f, NEW g, Solution(f, H, S1, D, V), Solution(g, H, S2, D, V)
      PROVE  \A k \in S1 \cap S2 : f[k] = g[k]
  BY <1>0, RecursionUnique
<1>1. U \subseteq D /\ Closed(U, R, D)
  BY DEF Closed
<1>2. ASSUME NEW S \in Good, NEW f \in [D -> V], Solves(f, H, S), NEW k \in S
      PROVE  F[k] = f[k]
  <2>1. k \in D /\ k \in U /\ f[k] \in V
    BY <1>2
  <2>2. f[k] \in Values(k)
    BY <1>2, <2>1
  <2>3. ASSUME NEW v \in Values(k) PROVE v = f[k]
    <3>1. PICK S2 \in Good, g \in [D -> V] : Solves(g, H, S2) /\ k \in S2 /\ v = g[k]
      BY <2>3
    <3>2. Closed(S, R, D) /\ Closed(S2, R, D) /\ S \in SUBSET D /\ S2 \in SUBSET D
      BY <1>2, <3>1
    <3>3. \A i \in S \cap S2 : f[i] = g[i]
      BY <1>0, <1>2, <3>1, <3>2 DEF Solution
    <3> QED BY <1>2, <3>1, <3>3
  <2>4. F[k] = CHOOSE v : v \in Values(k)
    BY <2>1
  <2> HIDE DEF Values, F
  <2>5. (CHOOSE v : v \in Values(k)) \in Values(k)
    BY <2>2
  <2> QED BY <2>3, <2>4, <2>5
<1>3. F \in [D -> V]
  <2> SUFFICES ASSUME NEW k \in D PROVE F[k] \in V
    OBVIOUS
  <2>1. CASE k \in U
    <3>1. PICK S \in Good : k \in S
      BY <2>1
    <3>2. PICK f \in [D -> V] : Solves(f, H, S)
      BY <3>1
    <3>3. F[k] = f[k]
      BY <3>1, <3>2, <1>2
    <3> QED BY <3>3
  <2>2. CASE k \notin U
    BY <2>2
  <2> QED BY <2>1, <2>2
<1>4. Solves(F, H, U)
  <2> SUFFICES ASSUME NEW k \in U PROVE F[k] = H[k][F]
    BY DEF Solves
  <2>1. PICK S \in Good : k \in S
    OBVIOUS
  <2>2. PICK f \in [D -> V] : Solves(f, H, S)
    BY <2>1
  <2>3. \A j \in S : F[j] = f[j]
    BY <2>2, <1>2
  <2>4. k \in D /\ \A j \in D : <<j, k>> \in R => f[j] = F[j]
    BY <2>1, <2>3 DEF Closed
  <2> HIDE DEF F
  <2>5. H[k][f] = H[k][F]
    BY <2>4, <1>3 DEF Follows
  <2> QED BY <2>1, <2>2, <2>3, <2>5 DEF Solves
<1> HIDE DEF F
<1>5. U = D
  <2> SUFFICES ASSUME D \ U # {} PROVE FALSE
    BY <1>1
  <2>1. PICK k \in D \ U : \A j \in D \ U : <<j, k>> \notin R
    <3> D \ U \in SUBSET D
      OBVIOUS
    <3> HIDE DEF U
    <3> QED BY DEF Founded
  <2> DEFINE G == [F EXCEPT ![k] = H[k][F]]
             S == U \cup {k}
  <2>2. G \in [D -> V] /\ G[k] = H[k][F] /\ \A j \in U : G[j] = F[j]
    BY <1>3, <2>1, <1>1
  <2>3. S \in SUBSET D /\ Closed(S, R, D)
    BY <1>1, <2>1 DEF Closed
  <2> HIDE DEF G
  <2>4. ASSUME NEW i \in S PROVE G[i] = H[i][G]
    <3>1. i \in D /\ \A j \in D : <<j, i>> \in R => F[j] = G[j]
      BY <1>1, <2>1, <2>2 DEF Closed
    <3>2. H[i][F] = H[i][G]
      <4> HIDE DEF Good, U, S
      <4> QED BY <3>1, <2>2, <1>3 DEF Follows
    <3>3. G[i] = H[i][F]
      BY <2>2, <1>4 DEF Solves
    <3> QED BY <3>2, <3>3
  <2>5. Solves(G, H, S)
    BY <2>4 DEF Solves
  <2>6. \E f \in [D -> V] : Solves(f, H, S)
    BY <2>2, <2>5
  <2> HIDE DEF S
  <2>7. S \in Good
    BY <2>3, <2>6
  <2>8. k \in U
    BY <2>7 DEF S
  <2> QED BY <2>1, <2>8
<1>6. Solves(F, H, D)
  BY <1>4, <1>5
<1> QED BY <1>3, <1>6

\* A set of numbers that is not empty has a least element, ...
LEMMA Least ==
  ASSUME NEW S, \A k \in S : k \in Nat, S # {}
  PROVE  \E m \in S : \A k \in S : m <= k
<1> DEFINE T == {n \in Nat : \A k \in S : n <= k}
<1> SUFFICES ASSUME \A m \in S : \E k \in S : ~ (m <= k) PROVE FALSE
  OBVIOUS
<1>1. 0 \in T
  OBVIOUS
<1>2. ASSUME NEW n \in Nat, n \in T PROVE n + 1 \in T
  <2> SUFFICES ASSUME NEW k \in S PROVE n + 1 <= k
    OBVIOUS
  <2>1. n <= k
    BY <1>2
  <2>2. n # k
    BY <1>2
  <2> QED BY <2>1, <2>2
<1> HIDE DEF T
<1>3. Nat \subseteq T
  BY <1>1, <1>2, NatSetInduction
<1>4. PICK k \in S : TRUE
  OBVIOUS
<1>5. k + 1 \in T
  BY <1>3
<1> QED BY <1>4, <1>5 DEF T

\* ... and a greatest, if it has a bound.
LEMMA Greatest ==
  ASSUME NEW b \in Nat, NEW S, \A k \in S : k \in Nat /\ k <= b, S # {}
  PROVE  \E m \in S : \A k \in S : k <= m
<1> DEFINE T == {b - k : k \in S}
<1>1. \E m \in T : \A k \in T : m <= k
  <2>1. \A k \in T : k \in Nat
    OBVIOUS
  <2>2. T # {}
    OBVIOUS
  <2> HIDE DEF T
  <2> QED BY <2>1, <2>2, Least
<1>2. PICK m \in S : \A k \in T : b - m <= k
  BY <1>1
<1>3. ASSUME NEW k \in S PROVE k <= m
  <2>1. b - m <= b - k
    BY <1>2
  <2> QED BY <2>1
<1> QED BY <1>3

\* From a first value on, each value gives the next one.
Iterated(f, b, H) == f[0] = b /\ \A k \in Nat : f[k + 1] = H[k][f[k]]

\* A step from each value to the next one makes a sequence of values.
LEMMA Iterates ==
  ASSUME NEW V, NEW b \in V, NEW H \in [Nat -> [V -> V]]
  PROVE  \E f \in [Nat -> V] : Iterated(f, b, H)
<1> DEFINE R == {p \in Nat \X Nat : p[1] < p[2]}
           G == [k \in Nat |-> [f \in [Nat -> V] |-> IF k = 0 THEN b ELSE H[k - 1][f[k - 1]]]]
<1>1. \A j, k \in Nat : <<j, k>> \in R <=> j < k
  OBVIOUS
<1>2. G \in [Nat -> [[Nat -> V] -> V]]
  OBVIOUS
<1>3. \A k \in Nat : \A f \in [Nat -> V] : G[k][f] = IF k = 0 THEN b ELSE H[k - 1][f[k - 1]]
  OBVIOUS
<1> HIDE DEF R, G
<1>4. Founded(R, Nat)
  <2> SUFFICES ASSUME NEW T \in SUBSET Nat, T # {} PROVE \E k \in T : \A j \in T : <<j, k>> \notin R
    BY DEF Founded
  <2>1. PICK k \in T : \A j \in T : k <= j
    BY Least
  <2> QED BY <1>1, <2>1
<1>5. Follows(G, R, Nat, V)
  <2> SUFFICES ASSUME NEW k \in Nat, NEW f \in [Nat -> V], NEW g \in [Nat -> V],
                      \A j \in Nat : <<j, k>> \in R => f[j] = g[j]
               PROVE  G[k][f] = G[k][g]
    BY DEF Follows
  <2>1. CASE k = 0
    BY <1>3, <2>1
  <2>2. CASE k # 0
    <3>1. k - 1 \in Nat /\ k - 1 < k
      BY <2>2
    <3>2. f[k - 1] = g[k - 1]
      BY <1>1, <3>1
    <3>3. G[k][f] = H[k - 1][f[k - 1]] /\ G[k][g] = H[k - 1][g[k - 1]]
      BY <1>3, <2>2
    <3> QED BY <3>2, <3>3
  <2> QED BY <2>1, <2>2
<1>6. PICK f \in [Nat -> V] : Solves(f, G, Nat)
  BY <1>2, <1>4, <1>5, RecursionExists
<1>7. f[0] = b
  BY <1>3, <1>6 DEF Solves
<1>8. ASSUME NEW k \in Nat PROVE f[k + 1] = H[k][f[k]]
  <2>1. k + 1 \in Nat /\ k + 1 # 0 /\ (k + 1) - 1 = k
    OBVIOUS
  <2> QED BY <1>3, <1>6, <2>1 DEF Solves
<1> QED BY <1>7, <1>8 DEF Iterated

-----------------------------------------------------------------------------
\* The smaller of the parts of a finite set come first.
Within(S) == {p \in (SUBSET S) \X (SUBSET S) : p[1] \subseteq p[2] /\ p[1] # p[2]}

\* Among some parts of a finite set there is one without a smaller one.
LEMMA WithinIsFounded ==
  ASSUME NEW S, IsFiniteSet(S) PROVE Founded(Within(S), SUBSET S)
<1> SUFFICES ASSUME NEW Q \in SUBSET (SUBSET S), Q # {}
             PROVE  \E A \in Q : \A B \in Q : <<B, A>> \notin Within(S)
  BY DEF Founded
<1> DEFINE K == {Cardinality(A) : A \in Q}
<1>1. \A A \in Q : IsFiniteSet(A) /\ Cardinality(A) \in Nat
  BY FS_Subset, FS_CardinalityType
<1>2. \A k \in K : k \in Nat
  BY <1>1
<1>3. K # {}
  OBVIOUS
<1>4. PICK m \in K : \A k \in K : m <= k
  <2> HIDE DEF K
  <2> QED BY <1>2, <1>3, Least
<1>5. PICK A \in Q : Cardinality(A) = m
  OBVIOUS
<1>6. ASSUME NEW B \in Q, <<B, A>> \in Within(S) PROVE FALSE
  <2>1. B \subseteq A /\ B # A
    BY <1>6 DEF Within
  <2>2. Cardinality(B) <= Cardinality(A) /\ Cardinality(B) # Cardinality(A)
    BY <1>1, <2>1, FS_Subset
  <2>3. m <= Cardinality(B) /\ m = Cardinality(A)
    BY <1>4, <1>5
  <2> QED BY <1>1, <2>2, <2>3
<1> QED BY <1>6

\* A fold over a finite set: what is taken out of a part first, and what it
\* makes of the value of the rest.
Picks(pick, S) == \A T \in SUBSET S : T # {} => pick[T] \in T
Fold(f, S, b, pick, G) ==
  \A T \in SUBSET S : f[T] = IF T = {} THEN b ELSE G[pick[T]][f[T \ {pick[T]}]]

\* A fold over a finite set has a value for every part of it.
LEMMA FoldExists ==
  ASSUME NEW S, IsFiniteSet(S), NEW V, NEW b \in V,
         NEW pick, Picks(pick, S),
         NEW G \in [S -> [V -> V]]
  PROVE  \E f \in [SUBSET S -> V] : Fold(f, S, b, pick, G)
<1> DEFINE D == SUBSET S
           H == [T \in D |-> [f \in [D -> V] |->
                   IF T = {} THEN b ELSE G[pick[T]][f[T \ {pick[T]}]]]]
<1>1. ASSUME NEW T \in D, T # {}
      PROVE  pick[T] \in S /\ T \ {pick[T]} \in D /\ <<T \ {pick[T]}, T>> \in Within(S)
  BY <1>1 DEF Within, Picks
<1>2. H \in [D -> [[D -> V] -> V]]
  <2>1. ASSUME NEW T \in D, NEW f \in [D -> V]
        PROVE  (IF T = {} THEN b ELSE G[pick[T]][f[T \ {pick[T]}]]) \in V
    <3>1. CASE T = {}
      BY <3>1
    <3>2. CASE T # {}
      <4>1. pick[T] \in S /\ f[T \ {pick[T]}] \in V
        BY <1>1, <3>2
      <4> QED BY <3>2, <4>1
    <3> QED BY <3>1, <3>2
  <2> QED BY <2>1
<1>3. \A T \in D : \A f \in [D -> V] : H[T][f] = IF T = {} THEN b ELSE G[pick[T]][f[T \ {pick[T]}]]
  OBVIOUS
<1> HIDE DEF H
<1>4. Follows(H, Within(S), D, V)
  <2> SUFFICES ASSUME NEW T \in D, NEW f \in [D -> V], NEW g \in [D -> V],
                      \A U \in D : <<U, T>> \in Within(S) => f[U] = g[U]
               PROVE  H[T][f] = H[T][g]
    BY DEF Follows
  <2>1. T # {} => f[T \ {pick[T]}] = g[T \ {pick[T]}]
    BY <1>1
  <2>2. H[T][f] = IF T = {} THEN b ELSE G[pick[T]][f[T \ {pick[T]}]]
    BY <1>3
  <2>3. H[T][g] = IF T = {} THEN b ELSE G[pick[T]][g[T \ {pick[T]}]]
    BY <1>3
  <2>4. CASE T = {}
    BY <2>2, <2>3, <2>4
  <2>5. CASE T # {}
    <3>1. f[T \ {pick[T]}] = g[T \ {pick[T]}]
      BY <2>1, <2>5
    <3>2. H[T][f] = G[pick[T]][f[T \ {pick[T]}]]
      BY <2>2, <2>5
    <3>3. H[T][g] = G[pick[T]][g[T \ {pick[T]}]]
      BY <2>3, <2>5
    <3> QED BY <3>1, <3>2, <3>3
  <2> QED BY <2>4, <2>5
<1>5. PICK f \in [D -> V] : Solves(f, H, D)
  BY <1>2, <1>4, WithinIsFounded, RecursionExists
<1>6. ASSUME NEW T \in D PROVE f[T] = IF T = {} THEN b ELSE G[pick[T]][f[T \ {pick[T]}]]
  <2>1. f[T] = H[T][f]
    BY <1>5 DEF Solves
  <2> QED BY <1>3, <2>1
<1>7. Fold(f, S, b, pick, G)
  BY <1>6 DEF Fold
<1> QED BY <1>7

\* Induction over the parts of a finite set: a set of them holds all if it has
\* each one whose smaller parts it has.
LEMMA FiniteSetInduction ==
  ASSUME NEW S, IsFiniteSet(S), NEW Q,
         \A T \in SUBSET S : (\A U \in SUBSET S : U \subseteq T /\ U # T => U \in Q) => T \in Q
  PROVE  \A T \in SUBSET S : T \in Q
<1> DEFINE B == {T \in SUBSET S : T \notin Q}
<1> SUFFICES ASSUME B # {} PROVE FALSE
  OBVIOUS
<1>1. PICK T \in B : \A U \in B : <<U, T>> \notin Within(S)
  <2> B \in SUBSET (SUBSET S)
    OBVIOUS
  <2> HIDE DEF B
  <2> QED BY WithinIsFounded DEF Founded
<1>2. ASSUME NEW U \in SUBSET S, U \subseteq T, U # T PROVE U \in Q
  <2>1. <<U, T>> \in Within(S)
    BY <1>2 DEF Within
  <2> QED BY <1>1, <2>1
<1> QED BY <1>2

\* The sum of finitely many numbers, as an equation for all parts of a set.
Sum(f, fun, S) ==
  /\ f \in [SUBSET S -> Nat]
  /\ \A T \in SUBSET S : f[T] = IF T = {} THEN 0
       ELSE fun[CHOOSE x \in T : TRUE] + f[T \ {CHOOSE x \in T : TRUE}]

\* The sums of finitely many numbers exist.
LEMMA SumExists ==
  ASSUME NEW S, IsFiniteSet(S), NEW fun, \A x \in S : fun[x] \in Nat
  PROVE  \E f : Sum(f, fun, S)
<1> DEFINE pick == [T \in SUBSET S |-> CHOOSE x \in T : TRUE]
           G == [x \in S |-> [v \in Nat |-> fun[x] + v]]
<1>1. Picks(pick, S)
  BY DEF Picks
<1>2. G \in [S -> [Nat -> Nat]]
  OBVIOUS
<1>3. PICK f \in [SUBSET S -> Nat] : Fold(f, S, 0, pick, G)
  <2> HIDE DEF pick, G
  <2> 0 \in Nat
    OBVIOUS
  <2> QED BY <1>1, <1>2, FoldExists
<1>4. ASSUME NEW T \in SUBSET S, T # {}
      PROVE  f[T] = fun[CHOOSE x \in T : TRUE] + f[T \ {CHOOSE x \in T : TRUE}]
  <2> DEFINE x == CHOOSE x \in T : TRUE
  <2>1. x \in T /\ pick[T] = x /\ T \ {x} \in SUBSET S
    BY <1>4
  <2> HIDE DEF x
  <2>2. f[T] = G[x][f[T \ {x}]]
    <3> HIDE DEF pick, G
    <3> QED BY <1>3, <1>4, <2>1 DEF Fold
  <2>3. f[T] = fun[x] + f[T \ {x}]
    BY <2>1, <2>2
  <2> QED BY <2>3 DEF x
<1>5. f[{}] = 0
  <2> {} \in SUBSET S
    OBVIOUS
  <2> HIDE DEF pick, G
  <2> QED BY <1>3 DEF Fold
<1>6. Sum(f, fun, S)
  BY <1>4, <1>5 DEF Sum
<1> QED BY <1>6

\* SumFunctionOnSet of the community modules is such a sum.
LEMMA SumFunctionIs ==
  ASSUME NEW S, IsFiniteSet(S), NEW fun, \A x \in S : fun[x] \in Nat
  PROVE  \E f : Sum(f, fun, S) /\ SumFunctionOnSet(fun, S) = f[S]
<1> DEFINE P(f) == f = [T \in SUBSET S |-> IF T = {} THEN 0
                          ELSE LET x == CHOOSE x \in T : TRUE
                               IN fun[x] + f[T \ {x}]]
           F == CHOOSE f : P(f)
<1>1. PICK f : Sum(f, fun, S)
  BY SumExists
<1>2. P(f)
  BY <1>1 DEF Sum
<1>3. P(F)
  <2> HIDE DEF P
  <2> QED BY <1>2
<1>4. SumFunctionOnSet(fun, S) = F[S]
  BY DEF SumFunctionOnSet, FoldFunctionOnSet, MapThenFoldSet
<1> HIDE DEF F
<1> DEFINE Q == {T \in SUBSET S : F[T] = f[T]}
<1>5. ASSUME NEW T \in SUBSET S, \A U \in SUBSET S : U \subseteq T /\ U # T => U \in Q
      PROVE  T \in Q
  <2>1. CASE T = {}
    BY <1>1, <1>3, <2>1 DEF Sum
  <2>2. CASE T # {}
    <3> DEFINE x == CHOOSE x \in T : TRUE
    <3>1. x \in T /\ T \ {x} \in SUBSET S /\ T \ {x} # T
      BY <2>2
    <3>2. F[T] = fun[x] + F[T \ {x}]
      BY <1>3, <2>2
    <3>3. f[T] = fun[x] + f[T \ {x}]
      BY <1>1, <2>2 DEF Sum
    <3> HIDE DEF x
    <3>4. T \ {x} \in Q
      BY <1>5, <3>1
    <3> QED BY <3>2, <3>3, <3>4
  <2> QED BY <2>1, <2>2
<1> HIDE DEF Q
<1>6. S \in Q
  BY <1>5, FiniteSetInduction
<1> QED BY <1>1, <1>4, <1>6 DEF Q

\* The sum of finitely many numbers is a number.
LEMMA SumFunctionType ==
  ASSUME NEW S, IsFiniteSet(S), NEW fun, \A x \in S : fun[x] \in Nat
  PROVE  SumFunctionOnSet(fun, S) \in Nat
<1>1. PICK f : Sum(f, fun, S) /\ SumFunctionOnSet(fun, S) = f[S]
  BY SumFunctionIs
<1> QED BY <1>1 DEF Sum

\* A sum is about the values at its numbers only.
LEMMA SumFunctionSame ==
  ASSUME NEW S, IsFiniteSet(S), NEW f, NEW g, \A x \in S : f[x] = g[x] /\ f[x] \in Nat
  PROVE  SumFunctionOnSet(f, S) = SumFunctionOnSet(g, S)
<1>1. PICK a : Sum(a, f, S) /\ SumFunctionOnSet(f, S) = a[S]
  BY SumFunctionIs
<1>2. PICK b : Sum(b, g, S) /\ SumFunctionOnSet(g, S) = b[S]
  BY SumFunctionIs
<1> DEFINE Q == {T \in SUBSET S : a[T] = b[T]}
<1>3. ASSUME NEW T \in SUBSET S, \A U \in SUBSET S : U \subseteq T /\ U # T => U \in Q
      PROVE  T \in Q
  <2>1. CASE T = {}
    BY <1>1, <1>2, <2>1 DEF Sum
  <2>2. CASE T # {}
    <3> DEFINE x == CHOOSE x \in T : TRUE
    <3>1. x \in T /\ T \ {x} \in SUBSET S /\ T \ {x} # T
      BY <2>2
    <3>2. a[T] = f[x] + a[T \ {x}]
      BY <1>1, <2>2 DEF Sum
    <3>3. b[T] = g[x] + b[T \ {x}]
      BY <1>2, <2>2 DEF Sum
    <3> HIDE DEF x
    <3>4. T \ {x} \in Q
      BY <1>3, <3>1
    <3>5. f[x] = g[x]
      BY <3>1
    <3> QED BY <3>2, <3>3, <3>4, <3>5
  <2> QED BY <2>1, <2>2
<1> HIDE DEF Q
<1>4. S \in Q
  BY <1>3, FiniteSetInduction
<1> QED BY <1>1, <1>2, <1>4 DEF Q

\* A sum is that without one of its numbers, and this number.
LEMMA SumWithout ==
  ASSUME NEW S, IsFiniteSet(S), NEW fun, NEW f, Sum(f, fun, S), \A y \in S : fun[y] \in Nat, NEW x \in S
  PROVE  f[S] = fun[x] + f[S \ {x}]
<1> DEFINE Q == {T \in SUBSET S : \A y \in T : f[T] = fun[y] + f[T \ {y}]}
<1>1. f \in [SUBSET S -> Nat]
  BY DEF Sum
<1>2. ASSUME NEW T \in SUBSET S, \A U \in SUBSET S : U \subseteq T /\ U # T => U \in Q
      PROVE  T \in Q
  <2> SUFFICES ASSUME NEW y \in T PROVE f[T] = fun[y] + f[T \ {y}]
    OBVIOUS
  <2> DEFINE z == CHOOSE z \in T : TRUE
  <2>1. z \in T /\ f[T] = fun[z] + f[T \ {z}]
    BY DEF Sum
  <2> HIDE DEF z
  <2>2. CASE y = z
    BY <2>1, <2>2
  <2>3. CASE y # z
    <3>1. T \ {z} \in Q /\ T \ {y} \in Q
      BY <1>2, <2>1
    <3>2. y \in T \ {z} /\ z \in T \ {y} /\ (T \ {z}) \ {y} = (T \ {y}) \ {z}
      BY <2>1, <2>3
    <3>3. f[T \ {z}] = fun[y] + f[(T \ {z}) \ {y}]
      BY <3>1, <3>2
    <3>4. f[T \ {y}] = fun[z] + f[(T \ {z}) \ {y}]
      BY <3>1, <3>2
    <3>5. fun[y] \in Nat /\ fun[z] \in Nat /\ f[(T \ {z}) \ {y}] \in Nat
      BY <1>1, <2>1
    <3> QED BY <2>1, <3>3, <3>4, <3>5
  <2> QED BY <2>2, <2>3
<1> HIDE DEF Q
<1>3. S \in Q
  BY <1>2, FiniteSetInduction
<1> QED BY <1>3 DEF Q

\* The sum of one number more.
LEMMA SumFunctionNext ==
  ASSUME NEW n \in Nat, NEW f, DOMAIN f = 1 .. n + 1, NEW g, DOMAIN g = 1 .. n,
         \A k \in 1 .. n + 1 : f[k] \in Nat, \A k \in 1 .. n : g[k] = f[k]
  PROVE  SumFunction(f) = SumFunction(g) + f[n + 1]
<1> DEFINE S == 1 .. n + 1
           R == 1 .. n
<1>1. IsFiniteSet(S) /\ IsFiniteSet(R)
  BY FS_Interval
<1>2. n + 1 \in S /\ S \ {n + 1} = R /\ R \in SUBSET S
  OBVIOUS
<1>3. /\ \A k \in S : f[k] \in Nat
      /\ \A k \in R : f[k] = g[k] /\ f[k] \in Nat
      /\ DOMAIN f = S /\ DOMAIN g = R
  BY <1>2
<1> DEFINE last == n + 1
<1> HIDE DEF R, S, last
<1>4. PICK a : Sum(a, f, S) /\ SumFunctionOnSet(f, S) = a[S]
  BY <1>1, <1>3, SumFunctionIs
<1>5. PICK b : Sum(b, f, R) /\ SumFunctionOnSet(f, R) = b[R]
  BY <1>1, <1>3, SumFunctionIs
<1>6. last \in S /\ S \ {last} = R
  BY <1>2 DEF last
<1>7. a[S] = f[last] + a[R]
  <2>1. a[S] = f[last] + a[S \ {last}]
    BY <1>1, <1>3, <1>4, <1>6, SumWithout
  <2> QED BY <1>6, <2>1
<1> DEFINE Q == {T \in SUBSET R : a[T] = b[T]}
<1>8. ASSUME NEW T \in SUBSET R, \A U \in SUBSET R : U \subseteq T /\ U # T => U \in Q
      PROVE  T \in Q
  <2>1. T \in SUBSET S
    BY <1>2
  <2>2. CASE T = {}
    BY <1>4, <1>5, <2>1, <2>2 DEF Sum
  <2>3. CASE T # {}
    <3> DEFINE x == CHOOSE x \in T : TRUE
    <3>1. x \in T /\ T \ {x} \in SUBSET R /\ T \ {x} # T
      BY <2>3
    <3>2. a[T] = f[x] + a[T \ {x}]
      BY <1>4, <2>1, <2>3 DEF Sum
    <3>3. b[T] = f[x] + b[T \ {x}]
      BY <1>5, <2>3 DEF Sum
    <3> HIDE DEF x
    <3>4. T \ {x} \in Q
      BY <1>8, <3>1
    <3> QED BY <3>2, <3>3, <3>4
  <2> QED BY <2>2, <2>3
<1> HIDE DEF Q
<1>9. R \in Q
  BY <1>1, <1>8, FiniteSetInduction
<1>10. SumFunctionOnSet(f, R) = SumFunctionOnSet(g, R)
  BY <1>1, <1>3, SumFunctionSame
<1>11. SumFunction(f) = SumFunctionOnSet(f, S) /\ SumFunction(g) = SumFunctionOnSet(g, R)
  BY <1>3 DEF SumFunction
<1>12. a[R] \in Nat /\ f[last] \in Nat /\ a[R] = b[R]
  <2>1. R \in SUBSET S
    BY <1>2
  <2>2. a[R] \in Nat
    BY <1>4, <2>1 DEF Sum
  <2> QED BY <1>3, <1>6, <1>9, <2>2 DEF Q
<1>13. SumFunction(f) = a[S] /\ SumFunction(g) = a[R]
  BY <1>4, <1>5, <1>10, <1>11, <1>12, Zenon
<1>14. a[S] = a[R] + f[last]
  BY <1>7, <1>12
<1> QED BY <1>13, <1>14 DEF last
================================================================================
