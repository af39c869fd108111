----------------------------- MODULE AdaptersProofs -----------------------------
(***************************************************************************)
(* Theorems about the adapters, for every document.                        *)
(*                                                                         *)
(* Each adapter adds numbers: the walks are recursions over a tree that go *)
(* to later nodes, the counters folds over the calls.  On a plain document *)
(* the four add the same links and images.  For gumbo and MyHTML this is   *)
(* about sets of nodes.  The calls of libxml2 and haut are put together    *)
(* along first children and next siblings: such a walk meets every node    *)
(* once, as it comes to a node in one way only, and each node it meets is  *)
(* counted at the call that begins it.  What haut counts depends on the    *)
(* calls before: it has met the body by then, as links are below it.       *)
(***************************************************************************)
EXTENDS Adapters, RecursionLemmas, SequenceTheorems

-----------------------------------------------------------------------------
\* The nodes of a document are 1 .. Len(doc), and parents come first.
LEMMA DocumentType ==
  ASSUME NEW doc \in Documents
  PROVE  /\ Len(doc) \in Nat /\ Nodes(doc) = 1 .. Len(doc) /\ 1 \in Nodes(doc)
         /\ IsFiniteSet(Nodes(doc))
         /\ \A k \in Nodes(doc) :
              /\ doc[k].parent \in Nat /\ doc[k].parent < k /\ doc[k].text \in Seq(STRING)
              /\ doc[k].attrs \in Seq([key : Keys, value : BOOLEAN])
<1>1. doc \in Seq(TreeNodes)
  BY DEF Documents
<1>2. Len(doc) \in Nat /\ Nodes(doc) = 1 .. Len(doc)
  BY <1>1 DEF Nodes
<1>3. doc # <<>> /\ \A k \in Nodes(doc) : doc[k].parent < k
  BY DEF Documents
<1>4. Len(doc) # 0
  BY <1>1, <1>3
<1>5. IsFiniteSet(Nodes(doc))
  BY <1>2, FS_Interval
<1>6. \A k \in Nodes(doc) : doc[k] \in TreeNodes
  BY <1>1, <1>2
<1>7. \A x \in TreeNodes : x.parent \in Nat /\ x.text \in Seq(STRING)
                             /\ x.attrs \in Seq([key : Keys, value : BOOLEAN])
  BY DEF TreeNodes
<1>8. 1 \in Nodes(doc)
  BY <1>2, <1>4
<1>9. ASSUME NEW k \in Nodes(doc)
      PROVE  /\ doc[k].parent \in Nat /\ doc[k].parent < k /\ doc[k].text \in Seq(STRING)
             /\ doc[k].attrs \in Seq([key : Keys, value : BOOLEAN])
  BY <1>3, <1>6, <1>7
<1> QED BY <1>2, <1>5, <1>8, <1>9

\* The first of a set of nodes is one of it.
LEMMA FirstIsIn ==
  ASSUME NEW S, \A k \in S : k \in Nat, S # {}
  PROVE  Min(S) \in S /\ FirstOf(S) = Min(S) /\ \A k \in S : Min(S) <= k
<1>1. \E m \in S : \A k \in S : m <= k
  BY Least
<1>2. Min(S) = CHOOSE x \in S : \A y \in S : x =< y
  BY DEF Min
<1> QED BY <1>1, <1>2 DEF FirstOf

\* From a node a walk goes on to later ones, or ends.
LEMMA WalkForward ==
  ASSUME NEW doc \in Documents, NEW k \in Nodes(doc) \cup {0}
  PROVE  /\ FirstChild(doc, k) \in Nodes(doc) \cup {0}
         /\ FirstChild(doc, k) # 0 => FirstChild(doc, k) > k
         /\ k # 0 => /\ NextSibling(doc, k) \in Nodes(doc) \cup {0}
                     /\ NextSibling(doc, k) # 0 => NextSibling(doc, k) > k
<1>1. \A j \in Nodes(doc) : j \in Nat /\ doc[j].parent < j
  BY DocumentType
<1>2. /\ FirstChild(doc, k) \in Nodes(doc) \cup {0}
      /\ FirstChild(doc, k) # 0 => FirstChild(doc, k) > k
  <2> DEFINE S == Children(doc, k)
  <2>1. \A j \in S : j \in Nat /\ j \in Nodes(doc) /\ j > k
    BY <1>1 DEF Children
  <2>2. FirstChild(doc, k) = FirstOf(S)
    BY DEF FirstChild
  <2> HIDE DEF S
  <2>3. CASE S = {}
    BY <2>2, <2>3 DEF FirstOf
  <2>4. CASE S # {}
    <3>1. Min(S) \in S /\ FirstOf(S) = Min(S)
      BY <2>1, <2>4, FirstIsIn
    <3> QED BY <2>1, <2>2, <3>1
  <2> QED BY <2>3, <2>4
<1>3. ASSUME k # 0
      PROVE  /\ NextSibling(doc, k) \in Nodes(doc) \cup {0}
             /\ NextSibling(doc, k) # 0 => NextSibling(doc, k) > k
  <2> DEFINE S == {j \in Children(doc, doc[k].parent) : j > k}
  <2>1. \A j \in S : j \in Nat /\ j \in Nodes(doc) /\ j > k
    BY <1>1 DEF Children
  <2>2. NextSibling(doc, k) = FirstOf(S)
    BY DEF NextSibling
  <2> HIDE DEF S
  <2>3. CASE S = {}
    BY <2>2, <2>3 DEF FirstOf
  <2>4. CASE S # {}
    <3>1. Min(S) \in S /\ FirstOf(S) = Min(S)
      BY <2>1, <2>4, FirstIsIn
    <3> QED BY <2>1, <2>2, <3>1
  <2> QED BY <2>3, <2>4
<1> QED BY <1>2, <1>3

\* Later nodes come first, 0 before all of them.
Later(n) == {p \in (0 .. n) \X (0 .. n) : p[2] # 0 /\ (p[1] = 0 \/ p[1] > p[2])}

\* Some node of any set of nodes has no node of the set behind it.
LEMMA LaterIsFounded ==
  ASSUME NEW n \in Nat, NEW D \in SUBSET (0 .. n) PROVE Founded(Later(n), D)
<1> SUFFICES ASSUME NEW T \in SUBSET D, T # {}
             PROVE  \E k \in T : \A j \in T : <<j, k>> \notin Later(n)
  BY DEF Founded
<1>1. CASE 0 \in T
  BY <1>1 DEF Later
<1>2. CASE 0 \notin T
  <2>1. \A k \in T : k \in Nat /\ k <= n
    OBVIOUS
  <2>2. PICK k \in T : \A j \in T : j <= k
    BY <2>1, Greatest
  <2> QED BY <1>2, <2>1, <2>2 DEF Later
<1> QED BY <1>1, <1>2

-----------------------------------------------------------------------------
\* The calls of the parsers that call back.
Called(doc) == [do : {"start", "end", "characters"}, node : {doc[k] : k \in Nodes(doc)}]

\* The calls for a node and its siblings, as an equation.
Here(doc, k, f) ==
  CASE doc[k].tag = "#text" -> <<Call("characters", doc[k])>>
    [] doc[k].tag = "#comment" -> <<>>
    [] OTHER -> <<Call("start", doc[k])>> \o f[FirstChild(doc, k)] \o <<Call("end", doc[k])>>
From(doc, f) ==
  \A k \in 0 .. Len(doc) :
    f[k] = IF k = 0 THEN <<>> ELSE Here(doc, k, f) \o f[NextSibling(doc, k)]

\* The calls of a document solve their equation: the recursion over first
\* children and next siblings goes to later nodes only.
LEMMA CallsFrom ==
  ASSUME NEW doc \in Documents
  PROVE  \E f \in [0 .. Len(doc) -> Seq(Called(doc))] :
           From(doc, f) /\ Calls(doc) = f[FirstChild(doc, 0)]
<1> DEFINE D == 0 .. Len(doc)
           V == Seq(Called(doc))
           R == Later(Len(doc))
           H == [k \in D |-> [f \in [D -> V] |->
                   IF k = 0 THEN <<>> ELSE Here(doc, k, f) \o f[NextSibling(doc, k)]]]
<1>1. Len(doc) \in Nat /\ D = Nodes(doc) \cup {0} /\ 0 \notin Nodes(doc)
  BY DocumentType
<1>2. ASSUME NEW k \in D, k # 0
      PROVE  /\ FirstChild(doc, k) \in D /\ <<FirstChild(doc, k), k>> \in R
             /\ NextSibling(doc, k) \in D /\ <<NextSibling(doc, k), k>> \in R
  BY <1>1, <1>2, WalkForward DEF Later
<1>3. ASSUME NEW k \in D, k # 0, NEW f, f[FirstChild(doc, k)] \in V
      PROVE  Here(doc, k, f) \in V
  <2>1. \A c \in {"start", "end", "characters"} : Call(c, doc[k]) \in Called(doc)
    BY <1>1, <1>3 DEF Called, Call
  <2>2. \A a, b \in V : a \o b \in V
    OBVIOUS
  <2>3. \A c \in Called(doc) : <<c>> \in V
    OBVIOUS
  <2>4. <<>> \in V
    OBVIOUS
  <2> QED BY <1>3, <2>1, <2>2, <2>3, <2>4 DEF Here
<1>4. ASSUME NEW k \in D, NEW f \in [D -> V]
      PROVE  (IF k = 0 THEN <<>> ELSE Here(doc, k, f) \o f[NextSibling(doc, k)]) \in V
  <2>1. CASE k = 0
    BY <2>1
  <2>2. CASE k # 0
    <3>1. Here(doc, k, f) \in V /\ f[NextSibling(doc, k)] \in V
      BY <1>2, <1>3, <2>2
    <3> QED BY <2>2, <3>1
  <2> QED BY <2>1, <2>2
<1>5. H \in [D -> [[D -> V] -> V]]
  BY <1>4
<1>6. \A k \in D : \A f \in [D -> V] :
        H[k][f] = IF k = 0 THEN <<>> ELSE Here(doc, k, f) \o f[NextSibling(doc, k)]
  OBVIOUS
<1> HIDE DEF H
<1>7. Follows(H, R, D, V)
  <2> SUFFICES ASSUME NEW k \in D, NEW f \in [D -> V], NEW g \in [D -> V],
                      \A j \in D : <<j, k>> \in R => f[j] = g[j]
               PROVE  H[k][f] = H[k][g]
    BY DEF Follows
  <2>1. CASE k = 0
    BY <1>6, <2>1
  <2>2. CASE k # 0
    <3>1. f[FirstChild(doc, k)] = g[FirstChild(doc, k)] /\ f[NextSibling(doc, k)] = g[NextSibling(doc, k)]
      BY <1>2, <2>2
    <3>2. Here(doc, k, f) = Here(doc, k, g)
      BY <3>1 DEF Here
    <3> QED BY <1>6, <2>2, <3>1, <3>2
  <2> QED BY <2>1, <2>2
<1>8. PICK f \in [D -> V] : Solves(f, H, D)
  <2>1. Founded(R, D)
    BY <1>1, LaterIsFounded
  <2>2. V # {}
    <3> <<>> \in V
      OBVIOUS
    <3> QED OBVIOUS
  <2> HIDE DEF D, V, R
  <2> QED BY <1>5, <1>7, <2>1, <2>2, RecursionExists
<1>9. From(doc, f)
  BY <1>6, <1>8 DEF Solves, From
<1> DEFINE P(g) == g = [k \in 0 .. Len(doc) |->
        IF k = 0 THEN <<>>
        ELSE LET inside == g[FirstChild(doc, k)]
                 here == CASE doc[k].tag = "#text" -> <<Call("characters", doc[k])>>
                           [] doc[k].tag = "#comment" -> <<>>
                           [] OTHER -> <<Call("start", doc[k])>> \o inside \o <<Call("end", doc[k])>>
             IN here \o g[NextSibling(doc, k)]]
           F == CHOOSE g : P(g)
<1>10. P(f)
  BY <1>9 DEF From, Here
<1>11. P(F)
  <2> HIDE DEF P
  <2> QED BY <1>10
<1>12. Calls(doc) = F[FirstChild(doc, 0)]
  BY DEF Calls
<1> HIDE DEF F
<1>13. From(doc, F)
  BY <1>11 DEF From, Here
<1> DEFINE T == {k \in D : F[k] = f[k]}
<1>14. D \subseteq T
  <2> SUFFICES ASSUME D \ T # {} PROVE FALSE
    OBVIOUS
  <2>1. PICK k \in D \ T : \A j \in D \ T : <<j, k>> \notin R
    <3>1. D \ T \in SUBSET D /\ Founded(R, D)
      BY <1>1, LaterIsFounded
    <3> HIDE DEF T, D, R
    <3> QED BY <3>1 DEF Founded
  <2>2. CASE k = 0
    BY <1>9, <1>13, <2>1, <2>2 DEF From
  <2>3. CASE k # 0
    <3>1. F[FirstChild(doc, k)] = f[FirstChild(doc, k)] /\ F[NextSibling(doc, k)] = f[NextSibling(doc, k)]
      BY <1>2, <2>1, <2>3
    <3>2. Here(doc, k, F) = Here(doc, k, f)
      BY <3>1 DEF Here
    <3> QED BY <1>9, <1>13, <2>1, <2>3, <3>1, <3>2 DEF From
  <2> QED BY <2>2, <2>3
<1>15. FirstChild(doc, 0) \in D
  BY <1>1, WalkForward
<1> QED BY <1>9, <1>12, <1>14, <1>15

-----------------------------------------------------------------------------
\* The numbers of the last of a sequence of calls: folds from the left.

\* The numbers 1 .. k: the last of them, and the others.
LEMMA FirstNumbers ==
  ASSUME NEW n \in Nat, NEW k \in 1 .. n
  PROVE  /\ 1 .. k \in SUBSET (1 .. n) /\ 1 .. k # {}
         /\ Max(1 .. k) = k /\ (1 .. k) \ {k} = 1 .. k - 1
<1>1. 1 .. k \in SUBSET (1 .. n)
  OBVIOUS
<1>2. k \in 1 .. k /\ \A y \in 1 .. k : k >= y
  OBVIOUS
<1>3. \A x \in 1 .. k : (\A y \in 1 .. k : x >= y) => x = k
  BY <1>2
<1>4. Max(1 .. k) = k
  BY <1>2, <1>3 DEF Max
<1>5. (1 .. k) \ {k} = 1 .. k - 1
  OBVIOUS
<1>6. 1 .. k # {}
  BY <1>2
<1> QED BY <1>1, <1>4, <1>5, <1>6

\* The last of a part of a sequence is one of it.
LEMMA LastPicks ==
  ASSUME NEW n \in Nat PROVE Picks([T \in SUBSET (1 .. n) |-> Max(T)], 1 .. n)
<1>1. ASSUME NEW T \in SUBSET (1 .. n), T # {} PROVE Max(T) \in T
  <2>1. \A k \in T : k \in Nat /\ k <= n
    OBVIOUS
  <2>2. \E m \in T : \A k \in T : k <= m
    BY <1>1, <2>1, Greatest
  <2>3. \E m \in T : \A k \in T : m >= k
    BY <2>1, <2>2
  <2> QED BY <2>3 DEF Max
<1> QED BY <1>1 DEF Picks

\* A fold from the left goes through the values at the beginnings 1 .. k.
LeftFold(F, n, V, b, G) ==
  /\ n \in Nat /\ b \in V /\ G \in [1 .. n -> [V -> V]]
  /\ F[{}] = b
  /\ \A k \in 1 .. n : F[1 .. k - 1] \in V => F[1 .. k] = G[k][F[1 .. k - 1]]
Run(g, n, b, G) == g[0] = b /\ \A k \in 1 .. n : g[k] = G[k][g[k - 1]]
RunTo(F, n, V, b, G) == \E g \in [0 .. n -> V] : Run(g, n, b, G) /\ g[n] = F[1 .. n]

\* A fold from the left is the last state of a run through the values.
LEMMA LeftFoldRuns ==
  ASSUME NEW n, NEW V, NEW b, NEW G, NEW F, LeftFold(F, n, V, b, G)
  PROVE  RunTo(F, n, V, b, G)
<1>0. n \in Nat /\ b \in V /\ G \in [1 .. n -> [V -> V]]
  BY DEF LeftFold
<1> DEFINE g == [k \in 0 .. n |-> F[1 .. k]]
           S == {k \in Nat : k <= n => g[k] \in V}
<1>1. g[0] = b /\ \A k \in 1 .. n : g[k - 1] \in V => g[k] = G[k][g[k - 1]]
  <2>1. 1 .. 0 = {}
    OBVIOUS
  <2>2. 0 \in 0 .. n /\ \A k \in 1 .. n : k \in 0 .. n /\ k - 1 \in 0 .. n
    BY <1>0
  <2> QED BY <2>1, <2>2 DEF LeftFold
<1>2. g[n] = F[1 .. n] /\ g = [k \in 0 .. n |-> g[k]]
  BY <1>0
<1> HIDE DEF g
<1>3. 0 \in S
  BY <1>0, <1>1
<1>4. ASSUME NEW k \in Nat, k \in S PROVE k + 1 \in S
  <2> SUFFICES ASSUME k + 1 <= n PROVE g[k + 1] \in V
    OBVIOUS
  <2>1. k + 1 \in 1 .. n /\ (k + 1) - 1 = k /\ g[k] \in V
    BY <1>0, <1>4
  <2>2. g[k + 1] = G[k + 1][g[k]]
    BY <1>1, <2>1
  <2> QED BY <1>0, <2>1, <2>2
<1>5. Nat \subseteq S
  <2> HIDE DEF S
  <2> QED BY <1>3, <1>4, NatSetInduction
<1>6. \A k \in 0 .. n : g[k] \in V
  BY <1>0, <1>5
<1>7. \A k \in 1 .. n : g[k] = G[k][g[k - 1]]
  <2>1. \A k \in 1 .. n : k - 1 \in 0 .. n
    BY <1>0
  <2> QED BY <1>1, <1>6, <2>1
<1>8. g \in [0 .. n -> V]
  BY <1>2, <1>6
<1> QED BY <1>1, <1>2, <1>7, <1>8 DEF Run, RunTo

-----------------------------------------------------------------------------
\* The states that the calls of libxml2 run through, ...
LibxmlRun(g, calls) ==
  g[0] = LibxmlBegin /\ \A k \in 1 .. Len(calls) : g[k] = LibxmlCall(g[k - 1], calls[k])

\* ... are states of the adapter (test_libxml2.c:24-113).
LEMMA LibxmlFolds ==
  ASSUME NEW V, LibxmlBegin \in V, NEW C, NEW calls \in Seq(C),
         \A s \in V : \A c \in C : LibxmlCall(s, c) \in V
  PROVE  \E g \in [0 .. Len(calls) -> V] :
           LibxmlRun(g, calls) /\ FoldLeft(LibxmlCall, LibxmlBegin, calls) = g[Len(calls)]
<1> DEFINE n == Len(calls)
           D == 1 .. n
           pick == [T \in SUBSET D |-> Max(T)]
           G == [i \in D |-> [v \in V |-> LibxmlCall(v, calls[i])]]
           P(f) == f = [T \in SUBSET DOMAIN calls |-> IF T = {} THEN LibxmlBegin
                          ELSE LET x == Max(T) IN LibxmlCall(f[T \ {x}], calls[x])]
           F == CHOOSE f : P(f)
<1>1. n \in Nat /\ DOMAIN calls = D /\ \A i \in D : calls[i] \in C
  OBVIOUS
<1>2. G \in [D -> [V -> V]]
  BY <1>1
<1>3. Picks(pick, D) /\ IsFiniteSet(D)
  <2>1. IsFiniteSet(D)
    BY <1>1, FS_Interval
  <2>2. Picks(pick, D)
    <3> HIDE DEF n
    <3> QED BY <1>1, LastPicks
  <2> QED BY <2>1, <2>2
<1>4. \E f \in [SUBSET D -> V] : Fold(f, D, LibxmlBegin, pick, G)
  <2> HIDE DEF D, pick, G
  <2> QED BY <1>2, <1>3, FoldExists
<1>5. PICK f \in [SUBSET D -> V] : Fold(f, D, LibxmlBegin, pick, G)
  <2> HIDE DEF D, pick, G
  <2> QED BY <1>4
<1>6. ASSUME NEW T \in SUBSET D, T # {} PROVE f[T] = LibxmlCall(f[T \ {Max(T)}], calls[Max(T)])
  <2>1. Max(T) \in T /\ pick[T] = Max(T) /\ T \ {Max(T)} \in SUBSET D
    BY <1>3, <1>6 DEF Picks
  <2>2. f[T] = G[Max(T)][f[T \ {Max(T)}]]
    <3> HIDE DEF pick, G
    <3> QED BY <1>5, <1>6, <2>1 DEF Fold
  <2> QED BY <2>1, <2>2
<1>7. P(f)
  <2>1. {} \in SUBSET D
    OBVIOUS
  <2>2. f[{}] = LibxmlBegin
    <3> HIDE DEF pick, G, D
    <3> QED BY <1>5, <2>1 DEF Fold
  <2> QED BY <1>1, <1>6, <2>2
<1>8. P(F)
  <2> HIDE DEF P
  <2> QED BY <1>7
<1>9. FoldLeft(LibxmlCall, LibxmlBegin, calls) = F[DOMAIN calls]
  BY DEF FoldLeft, MapThenFoldSet
<1> HIDE DEF F
<1>10. F[{}] = LibxmlBegin /\ \A T \in SUBSET D : T # {} => F[T] = LibxmlCall(F[T \ {Max(T)}], calls[Max(T)])
  BY <1>1, <1>8
<1> HIDE DEF P
<1>11. ASSUME NEW k \in D PROVE F[1 .. k] = LibxmlCall(F[1 .. k - 1], calls[k])
  <2>1. 1 .. k \in SUBSET D /\ 1 .. k # {} /\ Max(1 .. k) = k /\ (1 .. k) \ {k} = 1 .. k - 1
    BY <1>1, FirstNumbers
  <2>2. F[1 .. k] = LibxmlCall(F[(1 .. k) \ {Max(1 .. k)}], calls[Max(1 .. k)])
    BY <1>10, <2>1
  <2> QED BY <2>1, <2>2
<1>12. \A k \in D : F[1 .. k - 1] \in V => F[1 .. k] = G[k][F[1 .. k - 1]]
  BY <1>11
<1>13. LeftFold(F, n, V, LibxmlBegin, G)
  BY <1>1, <1>2, <1>10, <1>12 DEF LeftFold
<1>14. PICK g \in [0 .. n -> V] : Run(g, n, LibxmlBegin, G) /\ g[n] = F[1 .. n]
  <2> HIDE DEF G, n
  <2>1. RunTo(F, n, V, LibxmlBegin, G)
    BY <1>13, LeftFoldRuns
  <2> QED BY <2>1 DEF RunTo
<1>15. ASSUME NEW k \in D PROVE g[k] = LibxmlCall(g[k - 1], calls[k])
  <2>1. g[k] = G[k][g[k - 1]] /\ g[k - 1] \in V
    <3> HIDE DEF G
    <3> QED BY <1>1, <1>14 DEF Run
  <2> QED BY <2>1
<1>16. g[0] = LibxmlBegin
  BY <1>14 DEF Run
<1>17. LibxmlRun(g, calls)
  BY <1>1, <1>15, <1>16 DEF LibxmlRun
<1> QED BY <1>1, <1>9, <1>14, <1>17

\* The states that the calls of haut run through, ...
HautRun(g, calls) ==
  g[0] = HautBegin /\ \A k \in 1 .. Len(calls) : g[k] = HautCall(g[k - 1], calls[k])

\* ... are states of the adapter (test_haut.c:21-97).
LEMMA HautFolds ==
  ASSUME NEW V, HautBegin \in V, NEW C, NEW calls \in Seq(C),
         \A s \in V : \A c \in C : HautCall(s, c) \in V
  PROVE  \E g \in [0 .. Len(calls) -> V] :
           HautRun(g, calls) /\ FoldLeft(HautCall, HautBegin, calls) = g[Len(calls)]
<1> DEFINE n == Len(calls)
           D == 1 .. n
           pick == [T \in SUBSET D |-> Max(T)]
           G == [i \in D |-> [v \in V |-> HautCall(v, calls[i])]]
           P(f) == f = [T \in SUBSET DOMAIN calls |-> IF T = {} THEN HautBegin
                          ELSE LET x == Max(T) IN HautCall(f[T \ {x}], calls[x])]
           F == CHOOSE f : P(f)
<1>1. n \in Nat /\ DOMAIN calls = D /\ \A i \in D : calls[i] \in C
  OBVIOUS
<1>2. G \in [D -> [V -> V]]
  BY <1>1
<1>3. Picks(pick, D) /\ IsFiniteSet(D)
  <2>1. IsFiniteSet(D)
    BY <1>1, FS_Interval
  <2>2. Picks(pick, D)
    <3> HIDE DEF n
    <3> QED BY <1>1, LastPicks
  <2> QED BY <2>1, <2>2
<1>4. \E f \in [SUBSET D -> V] : Fold(f, D, HautBegin, pick, G)
  <2> HIDE DEF D, pick, G
  <2> QED BY <1>2, <1>3, FoldExists
<1>5. PICK f \in [SUBSET D -> V] : Fold(f, D, HautBegin, pick, G)
  <2> HIDE DEF D, pick, G
  <2> QED BY <1>4
<1>6. ASSUME NEW T \in SUBSET D, T # {} PROVE f[T] = HautCall(f[T \ {Max(T)}], calls[Max(T)])
  <2>1. Max(T) \in T /\ pick[T] = Max(T) /\ T \ {Max(T)} \in SUBSET D
    BY <1>3, <1>6 DEF Picks
  <2>2. f[T] = G[Max(T)][f[T \ {Max(T)}]]
    <3> HIDE DEF pick, G
    <3> QED BY <1>5, <1>6, <2>1 DEF Fold
  <2> QED BY <2>1, <2>2
<1>7. P(f)
  <2>1. {} \in SUBSET D
    OBVIOUS
  <2>2. f[{}] = HautBegin
    <3> HIDE DEF pick, G, D
    <3> QED BY <1>5, <2>1 DEF Fold
  <2> QED BY <1>1, <1>6, <2>2
<1>8. P(F)
  <2> HIDE DEF P
  <2> QED BY <1>7
<1>9. FoldLeft(HautCall, HautBegin, calls) = F[DOMAIN calls]
  BY DEF FoldLeft, MapThenFoldSet
<1> HIDE DEF F
<1>10. F[{}] = HautBegin /\ \A T \in SUBSET D : T # {} => F[T] = HautCall(F[T \ {Max(T)}], calls[Max(T)])
  BY <1>1, <1>8
<1> HIDE DEF P
<1>11. ASSUME NEW k \in D PROVE F[1 .. k] = HautCall(F[1 .. k - 1], calls[k])
  <2>1. 1 .. k \in SUBSET D /\ 1 .. k # {} /\ Max(1 .. k) = k /\ (1 .. k) \ {k} = 1 .. k - 1
    BY <1>1, FirstNumbers
  <2>2. F[1 .. k] = HautCall(F[(1 .. k) \ {Max(1 .. k)}], calls[Max(1 .. k)])
    BY <1>10, <2>1
  <2> QED BY <2>1, <2>2
<1>12. \A k \in D : F[1 .. k - 1] \in V => F[1 .. k] = G[k][F[1 .. k - 1]]
  BY <1>11
<1>13. LeftFold(F, n, V, HautBegin, G)
  BY <1>1, <1>2, <1>10, <1>12 DEF LeftFold
<1>14. PICK g \in [0 .. n -> V] : Run(g, n, HautBegin, G) /\ g[n] = F[1 .. n]
  <2> HIDE DEF G, n
  <2>1. RunTo(F, n, V, HautBegin, G)
    BY <1>13, LeftFoldRuns
  <2> QED BY <2>1 DEF RunTo
<1>15. ASSUME NEW k \in D PROVE g[k] = HautCall(g[k - 1], calls[k])
  <2>1. g[k] = G[k][g[k - 1]] /\ g[k - 1] \in V
    <3> HIDE DEF G
    <3> QED BY <1>1, <1>14 DEF Run
  <2> QED BY <2>1
<1>16. g[0] = HautBegin
  BY <1>14 DEF Run
<1>17. HautRun(g, calls)
  BY <1>1, <1>15, <1>16 DEF HautRun
<1> QED BY <1>1, <1>9, <1>14, <1>17

-----------------------------------------------------------------------------
\* What the adapters of the parsers that call back count is a number.

\* How many attributes have one of some keys is a number.
LEMMA AttributesFinite ==
  ASSUME NEW attrs \in Seq([key : Keys, value : BOOLEAN]), NEW W
  PROVE  Cardinality({j \in DOMAIN attrs : attrs[j].key \in W}) \in Nat
<1>1. IsFiniteSet(DOMAIN attrs)
  BY FS_Interval
<1>2. {j \in DOMAIN attrs : attrs[j].key \in W} \in SUBSET DOMAIN attrs
  OBVIOUS
<1> QED BY <1>1, <1>2, FS_Subset, FS_CardinalityType

\* The attributes before the first one without a value are attributes.
LEMMA ValuedType ==
  ASSUME NEW attrs \in Seq([key : Keys, value : BOOLEAN])
  PROVE  Valued(attrs) \in Seq([key : Keys, value : BOOLEAN])
<1> DEFINE A == [key : Keys, value : BOOLEAN]
           bare == {j \in DOMAIN attrs : ~ attrs[j].value}
<1>1. CASE bare = {}
  BY <1>1 DEF Valued
<1>2. CASE bare # {}
  <2>1. \A j \in bare : j \in Nat /\ j \in 1 .. Len(attrs)
    OBVIOUS
  <2>2. Min(bare) \in bare
    <3> HIDE DEF bare
    <3> QED BY <1>2, <2>1, FirstIsIn
  <2>3. Min(bare) - 1 \in 0 .. Len(attrs) /\ 1 \in 1 .. Len(attrs) + 1
    <3> HIDE DEF bare
    <3> QED BY <2>1, <2>2
  <2>4. Valued(attrs) = SubSeq(attrs, 1, Min(bare) - 1)
    BY <1>2 DEF Valued
  <2>5. ASSUME NEW m \in 0 .. Len(attrs) PROVE SubSeq(attrs, 1, m) \in Seq(A)
    <3>0. attrs \in Seq(A)
      OBVIOUS
    <3> HIDE DEF A
    <3>1. \A j \in 1 .. m : attrs[j] \in A
      BY <3>0
    <3>2. 1 \in Int /\ m \in Int
      OBVIOUS
    <3> QED BY <3>1, <3>2, SubSeqProperties
  <2> HIDE DEF bare
  <2> QED BY <2>3, <2>4, <2>5
<1> QED BY <1>1, <1>2

\* How often a key occurs is a number.
LEMMA OccurrencesType ==
  ASSUME NEW attrs \in Seq([key : Keys, value : BOOLEAN]), NEW key
  PROVE  Occurrences(attrs, key) \in Nat
<1>1. {j \in DOMAIN attrs : attrs[j].key = key} = {j \in DOMAIN attrs : attrs[j].key \in {key}}
  OBVIOUS
<1> QED BY <1>1, AttributesFinite DEF Occurrences

\* What an adapter adds, and the states of the two with callbacks.
Gots == [href : Nat, src : Nat, alt : Nat, text : Nat]
LibxmlStates ==
  [title : BOOLEAN, body : BOOLEAN, script : BOOLEAN, inText : BOOLEAN, got : Gots]
HautStates == [body : BOOLEAN, got : Gots]

\* Numbers on numbers are numbers.
LEMMA MoreType ==
  ASSUME NEW got \in Gots, NEW a \in Nat, NEW b \in Nat, NEW c \in Nat
  PROVE  More(got, a, b, c) \in Gots
BY DEF More, Gots

\* A call of libxml2 adds numbers (test_libxml2.c:24-113).
LEMMA LibxmlType ==
  ASSUME NEW s \in LibxmlStates, NEW node \in TreeNodes
  PROVE  /\ LibxmlStart(s, node) \in LibxmlStates
         /\ LibxmlEnd(s, node) \in LibxmlStates
         /\ LibxmlCharacters(s, node) \in LibxmlStates
<1>1. \A key : Occurrences(Valued(node.attrs), key) \in Nat
  BY ValuedType, OccurrencesType DEF TreeNodes
<1>2. Len(node.text) \in Nat
  BY DEF TreeNodes
<1>3. LibxmlStart(s, node) \in LibxmlStates
  <2> DEFINE title == s.title \/ node.tag = "title"
             body == s.body \/ node.tag = "body"
             script == s.script \/ node.tag = "script"
             count(tag, key) == IF node.tag = tag THEN Occurrences(Valued(node.attrs), key) ELSE 0
             a == count("a", "href")
             b == count("img", "src")
             c == count("img", "alt")
  <2>1. title \in BOOLEAN /\ body \in BOOLEAN /\ script \in BOOLEAN
    OBVIOUS
  <2>2. a \in Nat /\ b \in Nat /\ c \in Nat
    BY <1>1
  <2>3. LibxmlStart(s, node) =
          [s EXCEPT !.title = title, !.body = body, !.script = script, !.inText = FALSE,
                    !.got = More(@, a, b, c)]
    BY DEF LibxmlStart
  <2>4. More(s.got, a, b, c) \in Gots
    <3> HIDE DEF a, b, c
    <3> QED BY <2>2, MoreType DEF LibxmlStates
  <2> HIDE DEF title, body, script, a, b, c
  <2> QED BY <2>1, <2>3, <2>4 DEF LibxmlStates
<1>4. LibxmlEnd(s, node) \in LibxmlStates
  BY DEF LibxmlEnd, LibxmlStates
<1>5. LibxmlCharacters(s, node) \in LibxmlStates
  <2> DEFINE len == Len(node.text)
  <2>1. \A z \in LibxmlStates : \A l \in Nat : [z EXCEPT !.got.text = @ + l] \in LibxmlStates
    BY DEF LibxmlStates, Gots
  <2>2. [s EXCEPT !.inText = TRUE, !.got.text = @ + len] \in LibxmlStates
    <3> HIDE DEF len
    <3>1. len \in Nat
      BY <1>2 DEF len
    <3> DEFINE z == [s EXCEPT !.inText = TRUE]
    <3>2. z \in LibxmlStates
      BY DEF LibxmlStates
    <3>3. [s EXCEPT !.inText = TRUE, !.got.text = @ + len] = [z EXCEPT !.got.text = @ + len]
      BY DEF LibxmlStates
    <3> HIDE DEF z
    <3> QED BY <2>1, <3>1, <3>2, <3>3
  <2> QED BY <2>1, <2>2 DEF LibxmlCharacters
<1> QED BY <1>3, <1>4, <1>5

\* A call of haut adds numbers (test_haut.c:21-60).
LEMMA HautType ==
  ASSUME NEW s \in HautStates, NEW node \in TreeNodes
  PROVE  /\ HautStart(s, node) \in HautStates
         /\ HautCharacters(s, node) \in HautStates
<1>1. \A keys : Cardinality({j \in DOMAIN node.attrs : node.attrs[j].key \in keys}) \in Nat
  BY AttributesFinite DEF TreeNodes
<1>2. Len(node.text) \in Nat
  BY DEF TreeNodes
<1>3. HautStart(s, node) \in HautStates
  <2> DEFINE body == s.body \/ node.tag = "body"
             count(tag, keys) ==
               IF ~ body \/ node.tag # tag THEN 0
               ELSE Cardinality({j \in DOMAIN node.attrs : node.attrs[j].key \in keys})
             a == count("a", PrefixOf["href"])
             b == count("img", PrefixOf["src"])
             c == count("img", PrefixOf["alt"] \ PrefixOf["src"])
  <2>1. body \in BOOLEAN
    OBVIOUS
  <2>2. a \in Nat /\ b \in Nat /\ c \in Nat
    BY <1>1
  <2>3. HautStart(s, node) =
          [s EXCEPT !.body = body, !.got = More(@, a, b, c)]
    BY DEF HautStart
  <2>4. More(s.got, a, b, c) \in Gots
    <3> HIDE DEF a, b, c
    <3> QED BY <2>2, MoreType DEF HautStates
  <2> HIDE DEF body, a, b, c
  <2> QED BY <2>1, <2>3, <2>4 DEF HautStates
<1>4. HautCharacters(s, node) \in HautStates
  BY <1>2 DEF HautCharacters, HautStates, Gots
<1> QED BY <1>3, <1>4

\* A call is about a node of the tree.
LEMMA CallNode ==
  ASSUME NEW doc \in Documents, NEW c \in Called(doc)
  PROVE  c.do \in {"start", "end", "characters"} /\ c.node \in TreeNodes
BY DEF Called, Documents, Nodes

\* The adapters with callbacks add numbers to the result.
LEMMA CallsCount ==
  ASSUME NEW doc \in Documents
  PROVE  TestLibxml2(doc) \in Gots /\ TestHaut(doc) \in Gots
<1>1. Calls(doc) \in Seq(Called(doc))
  <2>1. PICK f \in [0 .. Len(doc) -> Seq(Called(doc))] :
          From(doc, f) /\ Calls(doc) = f[FirstChild(doc, 0)]
    BY CallsFrom
  <2>2. FirstChild(doc, 0) \in 0 .. Len(doc)
    BY WalkForward, DocumentType
  <2> QED BY <2>1, <2>2
<1>2. TestLibxml2(doc) \in Gots
  <2>1. LibxmlBegin \in LibxmlStates
    BY DEF LibxmlBegin, LibxmlStates, Gots, Nothing
  <2>2. \A s \in LibxmlStates : \A c \in Called(doc) : LibxmlCall(s, c) \in LibxmlStates
    BY CallNode, LibxmlType DEF LibxmlCall
  <2>3. FoldLeft(LibxmlCall, LibxmlBegin, Calls(doc)) \in LibxmlStates
    <3>1. PICK g \in [0 .. Len(Calls(doc)) -> LibxmlStates] :
            FoldLeft(LibxmlCall, LibxmlBegin, Calls(doc)) = g[Len(Calls(doc))]
      BY <1>1, <2>1, <2>2, LibxmlFolds
    <3>2. Len(Calls(doc)) \in 0 .. Len(Calls(doc))
      BY <1>1
    <3> QED BY <3>1, <3>2
  <2> QED BY <2>3 DEF TestLibxml2, LibxmlStates
<1>3. TestHaut(doc) \in Gots
  <2>1. HautBegin \in HautStates
    BY DEF HautBegin, HautStates, Gots, Nothing
  <2>2. \A s \in HautStates : \A c \in Called(doc) : HautCall(s, c) \in HautStates
    BY CallNode, HautType DEF HautCall
  <2>3. FoldLeft(HautCall, HautBegin, Calls(doc)) \in HautStates
    <3>1. PICK g \in [0 .. Len(Calls(doc)) -> HautStates] :
            FoldLeft(HautCall, HautBegin, Calls(doc)) = g[Len(Calls(doc))]
      BY <1>1, <2>1, <2>2, HautFolds
    <3>2. Len(Calls(doc)) \in 0 .. Len(Calls(doc))
      BY <1>1
    <3> QED BY <3>1, <3>2
  <2> QED BY <2>3 DEF TestHaut, HautStates
<1> QED BY <1>2, <1>3

-----------------------------------------------------------------------------
\* A text counted by a walk over the tree: the value at a node depends on the
\* nodes below it, which come later.

\* A node has finitely many children, all of them later.
LEMMA ChildrenLater ==
  ASSUME NEW doc \in Documents, NEW k \in Nodes(doc)
  PROVE  /\ Children(doc, k) \subseteq Nodes(doc) /\ IsFiniteSet(Children(doc, k))
         /\ \A j \in Children(doc, k) : <<j, k>> \in Later(Len(doc))
<1>1. \A j \in Nodes(doc) : doc[j].parent < j /\ j \in 1 .. Len(doc)
  BY DocumentType
<1>2. Children(doc, k) \subseteq Nodes(doc)
  BY DEF Children
<1>3. \A j \in Children(doc, k) : j > k
  BY <1>1 DEF Children
<1>4. IsFiniteSet(Children(doc, k))
  BY <1>2, DocumentType, FS_Subset
<1>5. Len(doc) \in Nat /\ k \in 1 .. Len(doc)
  BY DocumentType
<1>6. ASSUME NEW j \in Children(doc, k) PROVE <<j, k>> \in Later(Len(doc))
  <2>1. j \in 1 .. Len(doc) /\ j > k
    BY <1>1, <1>2, <1>3
  <2>2. j \in 0 .. Len(doc) /\ k \in 0 .. Len(doc) /\ k # 0
    BY <1>5, <2>1
  <2> QED BY <2>1, <2>2 DEF Later
<1> QED BY <1>2, <1>4, <1>6

\* A recursion over the tree in numbers has a solution, and any solution is it.
LEMMA TreeRecursion ==
  ASSUME NEW doc \in Documents, NEW H \in [Nodes(doc) -> [[Nodes(doc) -> Nat] -> Nat]],
         Follows(H, Later(Len(doc)), Nodes(doc), Nat)
  PROVE  \E f \in [Nodes(doc) -> Nat] : Solves(f, H, Nodes(doc))
<1>1. Nodes(doc) \in SUBSET (0 .. Len(doc)) /\ Len(doc) \in Nat
  BY DocumentType
<1>2. Founded(Later(Len(doc)), Nodes(doc))
  BY <1>1, LaterIsFounded
<1>3. Nat # {}
  OBVIOUS
<1> QED BY <1>2, <1>3, RecursionExists

\* The text of gumbo at a node, from the texts below it.
GumboPart(doc, k, f) ==
  [j \in Children(doc, k) |-> f[j] + (IF f[j] > 0 /\ j # Min(Children(doc, k)) THEN 1 ELSE 0)]
GumboAt(doc, k, f) ==
  CASE doc[k].tag = "#text" -> IF Blank(doc[k].text) THEN 0 ELSE Len(doc[k].text)
    [] doc[k].tag \in {"#comment", "script", "style", "title", "template"} -> 0
    [] OTHER -> SumFunction(GumboPart(doc, k, f))

\* The text that gumbo's innertext finds is a number (test_gumbo.c:80-111).
LEMMA GumboTextType ==
  ASSUME NEW doc \in Documents PROVE GumboText(doc) \in Nat
<1> DEFINE D == Nodes(doc)
           H == [k \in D |-> [f \in [D -> Nat] |-> GumboAt(doc, k, f)]]
<1>1. ASSUME NEW k \in D, NEW f, \A j \in Children(doc, k) : f[j] \in Nat
      PROVE  GumboAt(doc, k, f) \in Nat
  <2>1. Len(doc[k].text) \in Nat
    BY DocumentType
  <2>2. SumFunction(GumboPart(doc, k, f)) \in Nat
    <3> DEFINE p == GumboPart(doc, k, f)
    <3>1. DOMAIN p = Children(doc, k) /\ IsFiniteSet(Children(doc, k))
      BY ChildrenLater DEF GumboPart
    <3>2. \A j \in Children(doc, k) : p[j] \in Nat
      BY <1>1 DEF GumboPart
    <3> HIDE DEF p
    <3>3. SumFunctionOnSet(p, Children(doc, k)) \in Nat
      BY <3>1, <3>2, SumFunctionType
    <3> QED BY <3>1, <3>3 DEF SumFunction, p
  <2> QED BY <2>1, <2>2 DEF GumboAt
<1>2. ASSUME NEW k \in D, NEW f \in [D -> Nat] PROVE GumboAt(doc, k, f) \in Nat
  BY <1>1, ChildrenLater
<1>3. H \in [D -> [[D -> Nat] -> Nat]]
  BY <1>2
<1>4. \A k \in D : \A f \in [D -> Nat] : H[k][f] = GumboAt(doc, k, f)
  OBVIOUS
<1> HIDE DEF H
<1>5. Follows(H, Later(Len(doc)), D, Nat)
  <2> SUFFICES ASSUME NEW k \in D, NEW f \in [D -> Nat], NEW g \in [D -> Nat],
                      \A j \in D : <<j, k>> \in Later(Len(doc)) => f[j] = g[j]
               PROVE  H[k][f] = H[k][g]
    BY DEF Follows
  <2>1. \A j \in Children(doc, k) : f[j] = g[j]
    BY ChildrenLater
  <2>2. GumboPart(doc, k, f) = GumboPart(doc, k, g)
    BY <2>1 DEF GumboPart
  <2>3. GumboAt(doc, k, f) = GumboAt(doc, k, g)
    BY <2>2 DEF GumboAt
  <2> QED BY <1>4, <2>3
<1>6. PICK f \in [D -> Nat] : Solves(f, H, D)
  <2>1. \E f \in [D -> Nat] : Solves(f, H, D)
    BY <1>3, <1>5, TreeRecursion
  <2> QED BY <2>1
<1>7. \A k \in D : f[k] = GumboAt(doc, k, f)
  BY <1>4, <1>6 DEF Solves
<1> DEFINE P(g) == g = [k \in Nodes(doc) |->
        CASE doc[k].tag = "#text" -> IF Blank(doc[k].text) THEN 0 ELSE Len(doc[k].text)
          [] doc[k].tag \in {"#comment", "script", "style", "title", "template"} -> 0
          [] OTHER ->
               LET inside == Children(doc, k)
                   part == [j \in inside |->
                              g[j] + (IF g[j] > 0 /\ j # Min(inside) THEN 1 ELSE 0)]
               IN SumFunction(part)]
           F == CHOOSE g : P(g)
<1>8. P(f)
  BY <1>7 DEF GumboAt, GumboPart
<1>9. P(F)
  <2> HIDE DEF P
  <2> QED BY <1>8
<1>10. GumboText(doc) = F[1]
  BY DEF GumboText
<1> HIDE DEF F
<1>11. \A k \in D : F[k] = GumboAt(doc, k, F)
  BY <1>9 DEF GumboAt, GumboPart
<1> HIDE DEF P
<1> DEFINE T == {k \in D : F[k] \notin Nat}
<1>12. ASSUME T # {} PROVE FALSE
  <2>1. PICK k \in T : \A j \in T : <<j, k>> \notin Later(Len(doc))
    <3>1. T \in SUBSET D /\ Founded(Later(Len(doc)), D)
      BY DocumentType, LaterIsFounded
    <3> HIDE DEF T, D
    <3> QED BY <1>12, <3>1 DEF Founded
  <2>2. \A j \in Children(doc, k) : F[j] \in Nat
    BY <2>1, ChildrenLater
  <2> QED BY <1>1, <1>11, <2>1, <2>2
<1> QED BY <1>10, <1>12, DocumentType

\* The text of MyHTML at a node.
MyHtmlAt(doc, k, f) ==
  IF IsElement(doc[k]) THEN SumFunctionOnSet(f, Children(doc, k))
  ELSE IF doc[k].tag = "#text" /\ Blank(doc[k].text) THEN 0 ELSE Len(doc[k].text)

\* The text that MyHTML's innertext finds is a number (test_myhtml.c:32-67).
LEMMA MyHtmlTextType ==
  ASSUME NEW doc \in Documents PROVE MyHtmlText(doc) \in Nat
<1> DEFINE D == Nodes(doc)
           H == [k \in D |-> [f \in [D -> Nat] |-> MyHtmlAt(doc, k, f)]]
<1>1. ASSUME NEW k \in D, NEW f, \A j \in Children(doc, k) : f[j] \in Nat
      PROVE  MyHtmlAt(doc, k, f) \in Nat
  <2>1. Len(doc[k].text) \in Nat
    BY DocumentType
  <2>2. SumFunctionOnSet(f, Children(doc, k)) \in Nat
    BY <1>1, ChildrenLater, SumFunctionType
  <2> QED BY <2>1, <2>2 DEF MyHtmlAt
<1>2. ASSUME NEW k \in D, NEW f \in [D -> Nat] PROVE MyHtmlAt(doc, k, f) \in Nat
  BY <1>1, ChildrenLater
<1>3. H \in [D -> [[D -> Nat] -> Nat]]
  BY <1>2
<1>4. \A k \in D : \A f \in [D -> Nat] : H[k][f] = MyHtmlAt(doc, k, f)
  OBVIOUS
<1> HIDE DEF H
<1>5. Follows(H, Later(Len(doc)), D, Nat)
  <2> SUFFICES ASSUME NEW k \in D, NEW f \in [D -> Nat], NEW g \in [D -> Nat],
                      \A j \in D : <<j, k>> \in Later(Len(doc)) => f[j] = g[j]
               PROVE  H[k][f] = H[k][g]
    BY DEF Follows
  <2>1. \A j \in Children(doc, k) : f[j] = g[j] /\ f[j] \in Nat
    BY ChildrenLater
  <2>2. SumFunctionOnSet(f, Children(doc, k)) = SumFunctionOnSet(g, Children(doc, k))
    BY <2>1, ChildrenLater, SumFunctionSame
  <2>3. MyHtmlAt(doc, k, f) = MyHtmlAt(doc, k, g)
    BY <2>2 DEF MyHtmlAt
  <2> QED BY <1>4, <2>3
<1>6. PICK f \in [D -> Nat] : Solves(f, H, D)
  <2>1. \E f \in [D -> Nat] : Solves(f, H, D)
    BY <1>3, <1>5, TreeRecursion
  <2> QED BY <2>1
<1>7. \A k \in D : f[k] = MyHtmlAt(doc, k, f)
  BY <1>4, <1>6 DEF Solves
<1> DEFINE P(g) == g = [k \in Nodes(doc) |->
        IF IsElement(doc[k]) THEN SumFunctionOnSet(g, Children(doc, k))
        ELSE IF doc[k].tag = "#text" /\ Blank(doc[k].text) THEN 0 ELSE Len(doc[k].text)]
           F == CHOOSE g : P(g)
           bodies == {k \in Nodes(doc) : doc[k].tag = "body"}
           body == Min(bodies)
           from == {k \in Nodes(doc) : k >= body /\ doc[k].parent = doc[body].parent}
<1>8. P(f)
  BY <1>7 DEF MyHtmlAt
<1>9. P(F)
  <2> HIDE DEF P
  <2> QED BY <1>8
<1>10. MyHtmlText(doc) = IF bodies = {} THEN 0 ELSE SumFunctionOnSet(F, from)
  BY DEF MyHtmlText
<1> HIDE DEF F
<1>11. \A k \in D : F[k] = MyHtmlAt(doc, k, F)
  BY <1>9 DEF MyHtmlAt
<1> HIDE DEF P
<1> DEFINE T == {k \in D : F[k] \notin Nat}
<1>12. ASSUME T # {} PROVE FALSE
  <2>1. PICK k \in T : \A j \in T : <<j, k>> \notin Later(Len(doc))
    <3>1. T \in SUBSET D /\ Founded(Later(Len(doc)), D)
      BY DocumentType, LaterIsFounded
    <3> HIDE DEF T, D
    <3> QED BY <1>12, <3>1 DEF Founded
  <2>2. \A j \in Children(doc, k) : F[j] \in Nat
    BY <2>1, ChildrenLater
  <2> QED BY <1>1, <1>11, <2>1, <2>2
<1>13. SumFunctionOnSet(F, from) \in Nat
  <2>1. from \in SUBSET D
    OBVIOUS
  <2>2. IsFiniteSet(from)
    BY <2>1, DocumentType, FS_Subset
  <2>3. \A k \in from : F[k] \in Nat
    BY <1>12
  <2> HIDE DEF from
  <2> QED BY <2>2, <2>3, SumFunctionType
<1> QED BY <1>10, <1>13

\* The nodes with a property, among finitely many.
LEMMA NodesCount ==
  ASSUME NEW doc \in Documents, NEW S \in SUBSET Nodes(doc) PROVE Cardinality(S) \in Nat
BY DocumentType, FS_Subset, FS_CardinalityType

\* The adapters that walk over the tree add numbers to the result.
LEMMA WalksCount ==
  ASSUME NEW doc \in Documents PROVE TestGumbo(doc) \in Gots /\ TestMyHtml(doc) \in Gots
<1>1. ASSUME NEW tag, NEW key
      PROVE  /\ Cardinality({k \in Searched(doc) : doc[k].tag = tag /\ HasKey(doc[k], key)}) \in Nat
             /\ Cardinality({k \in Nodes(doc) : doc[k].tag = tag /\ HasKey(doc[k], key)}) \in Nat
  <2>1. Searched(doc) \subseteq Nodes(doc)
    BY DEF Searched
  <2> QED BY <2>1, NodesCount
<1>2. TestGumbo(doc) \in Gots
  BY <1>1, GumboTextType DEF TestGumbo, Gots
<1>3. TestMyHtml(doc) \in Gots
  BY <1>1, MyHtmlTextType DEF TestMyHtml, Gots
<1> QED BY <1>2, <1>3

\* For every document each adapter adds numbers to the result.
LEMMA AdaptersCount ==
  ASSUME NEW doc \in Documents
  PROVE  {TestLibxml2(doc), TestHaut(doc), TestGumbo(doc), TestMyHtml(doc)} \subseteq Gots
BY CallsCount, WalksCount

-----------------------------------------------------------------------------
\* The calls q lead from the state s to the state t.  G[s][c] is the state after
\* the call c in the state s.
Leads(G, V, q, s, t) ==
  \E g \in [0 .. Len(q) -> V] :
    /\ g[0] = s /\ g[Len(q)] = t
    /\ \A k \in 1 .. Len(q) : g[k] = G[g[k - 1]][q[k]]

\* No call leads nowhere, ...
LEMMA LeadsNowhere ==
  ASSUME NEW G, NEW V, NEW s \in V
  PROVE  Leads(G, V, <<>>, s, s)
<1> DEFINE g == [k \in 0 .. 0 |-> s]
<1>1. Len(<<>>) = 0 /\ 1 .. 0 = {}
  OBVIOUS
<1>2. g \in [0 .. 0 -> V] /\ g[0] = s
  OBVIOUS
<1> HIDE DEF g
<1> QED BY <1>1, <1>2 DEF Leads

\* ... one call to the state after it, ...
LEMMA LeadsOne ==
  ASSUME NEW V, NEW C, NEW G \in [V -> [C -> V]], NEW s \in V, NEW c \in C
  PROVE  Leads(G, V, <<c>>, s, G[s][c])
<1> DEFINE g == [k \in 0 .. 1 |-> IF k = 0 THEN s ELSE G[s][c]]
<1>1. Len(<<c>>) = 1 /\ \A k \in 1 .. 1 : k = 1 /\ k - 1 = 0 /\ <<c>>[k] = c
  OBVIOUS
<1>2. g \in [0 .. 1 -> V] /\ g[0] = s /\ g[1] = G[s][c]
  OBVIOUS
<1> HIDE DEF g
<1> QED BY <1>1, <1>2 DEF Leads

\* ... and calls after calls from where those led to where these lead.
LEMMA LeadsOn ==
  ASSUME NEW V, NEW C, NEW G \in [V -> [C -> V]], NEW p \in Seq(C), NEW q \in Seq(C),
         NEW s, NEW t, NEW u, Leads(G, V, p, s, t), Leads(G, V, q, t, u)
  PROVE  Leads(G, V, p \o q, s, u)
<1>1. PICK f \in [0 .. Len(p) -> V] :
        f[0] = s /\ f[Len(p)] = t /\ \A k \in 1 .. Len(p) : f[k] = G[f[k - 1]][p[k]]
  BY DEF Leads
<1>2. PICK g \in [0 .. Len(q) -> V] :
        g[0] = t /\ g[Len(q)] = u /\ \A k \in 1 .. Len(q) : g[k] = G[g[k - 1]][q[k]]
  BY DEF Leads
<1> DEFINE m == Len(p)
           n == Len(q)
           h == [k \in 0 .. m + n |-> IF k <= m THEN f[k] ELSE g[k - m]]
<1>3. /\ m \in Nat /\ n \in Nat /\ p \o q \in Seq(C) /\ Len(p \o q) = m + n
      /\ \A k \in 1 .. m : (p \o q)[k] = p[k]
      /\ \A k \in 1 .. n : (p \o q)[m + k] = q[k]
  OBVIOUS
<1>4. h \in [0 .. m + n -> V]
  <2> SUFFICES ASSUME NEW k \in 0 .. m + n PROVE h[k] \in V
    OBVIOUS
  <2>1. CASE k <= m
    <3>1. k \in 0 .. m
      BY <1>3, <2>1
    <3> QED BY <1>1, <2>1, <3>1
  <2>2. CASE ~ (k <= m)
    <3>1. k - m \in 0 .. n
      BY <1>3, <2>2
    <3> QED BY <1>2, <2>2, <3>1
  <2> QED BY <2>1, <2>2
<1>5. \A k \in 0 .. m : h[k] = f[k]
  BY <1>3
<1>6. \A k \in 0 .. n : h[m + k] = g[k]
  <2> SUFFICES ASSUME NEW k \in 0 .. n PROVE h[m + k] = g[k]
    OBVIOUS
  <2>1. CASE k = 0
    <3>1. m + k = m /\ m \in 0 .. m
      BY <1>3, <2>1
    <3> HIDE DEF h
    <3> QED BY <1>1, <1>2, <1>5, <2>1, <3>1
  <2>2. CASE k # 0
    <3>1. m + k \in 0 .. m + n /\ ~ (m + k <= m) /\ (m + k) - m = k
      BY <1>3, <2>2
    <3> QED BY <3>1
  <2> QED BY <2>1, <2>2
<1> HIDE DEF h
<1>7. ASSUME NEW k \in 1 .. m + n PROVE h[k] = G[h[k - 1]][(p \o q)[k]]
  <2>1. CASE k <= m
    <3>1. k \in 1 .. m /\ k \in 0 .. m /\ k - 1 \in 0 .. m
      BY <1>3, <2>1
    <3> QED BY <1>1, <1>3, <1>5, <3>1
  <2>2. CASE ~ (k <= m)
    <3> DEFINE j == k - m
    <3>1. j \in 1 .. n /\ j \in 0 .. n /\ j - 1 \in 0 .. n /\ k = m + j /\ k - 1 = m + (j - 1)
      BY <1>3, <2>2
    <3> HIDE DEF j
    <3>2. h[k] = g[j] /\ h[k - 1] = g[j - 1] /\ (p \o q)[k] = q[j]
      BY <1>3, <1>6, <3>1
    <3> QED BY <1>2, <3>1, <3>2
  <2> QED BY <2>1, <2>2
<1>8. h[0] = s /\ h[m + n] = u
  <2>1. 0 \in 0 .. m /\ n \in 0 .. n
    BY <1>3
  <2> QED BY <1>1, <1>2, <1>5, <1>6, <2>1
<1> DEFINE pq == p \o q
<1>9. Len(pq) = m + n
  BY <1>3
<1>10. \A k \in 1 .. m + n : h[k] = G[h[k - 1]][pq[k]]
  BY <1>7
<1> HIDE DEF m, n, pq
<1>11. Leads(G, V, pq, s, u)
  <2>1. /\ h \in [0 .. Len(pq) -> V] /\ h[0] = s /\ h[Len(pq)] = u
        /\ \A k \in 1 .. Len(pq) : h[k] = G[h[k - 1]][pq[k]]
    BY <1>4, <1>8, <1>9, <1>10, Zenon
  <2> QED BY <2>1, Zenon DEF Leads
<1> QED BY <1>11 DEF pq

\* Calls lead from a state to one state only.
LEMMA LeadsOnce ==
  ASSUME NEW V, NEW G, NEW q, Len(q) \in Nat, NEW s, NEW t, NEW u,
         Leads(G, V, q, s, t), Leads(G, V, q, s, u)
  PROVE  t = u
<1>1. PICK f : f[0] = s /\ f[Len(q)] = t /\ \A k \in 1 .. Len(q) : f[k] = G[f[k - 1]][q[k]]
  BY DEF Leads
<1>2. PICK g : g[0] = s /\ g[Len(q)] = u /\ \A k \in 1 .. Len(q) : g[k] = G[g[k - 1]][q[k]]
  BY DEF Leads
<1> DEFINE S == {k \in Nat : k <= Len(q) => f[k] = g[k]}
<1>3. 0 \in S
  BY <1>1, <1>2
<1>4. ASSUME NEW k \in Nat, k \in S PROVE k + 1 \in S
  <2> SUFFICES ASSUME k + 1 <= Len(q) PROVE f[k + 1] = g[k + 1]
    OBVIOUS
  <2>1. k + 1 \in 1 .. Len(q) /\ (k + 1) - 1 = k /\ k <= Len(q)
    OBVIOUS
  <2>2. f[k] = g[k]
    BY <1>4, <2>1
  <2> QED BY <1>1, <1>2, <2>1, <2>2
<1>5. Nat \subseteq S
  <2> HIDE DEF S
  <2> QED BY <1>3, <1>4, NatSetInduction
<1> QED BY <1>1, <1>2, <1>5

-----------------------------------------------------------------------------
\* The walk of the parsers that call back, as a tree of its own: a node leads to
\* its first child and to its next sibling.  Comes(doc, i, j): j is next to i.
Comes(doc, i, j) ==
  j # 0 /\ (j = FirstChild(doc, i) \/ (i # 0 /\ j = NextSibling(doc, i)))

\* The first child is the first of the children, ...
LEMMA FirstChildIs ==
  ASSUME NEW doc \in Documents, NEW i
  PROVE  /\ FirstChild(doc, i) = 0 <=> Children(doc, i) = {}
         /\ FirstChild(doc, i) # 0 =>
              /\ FirstChild(doc, i) \in Children(doc, i)
              /\ \A j \in Children(doc, i) : FirstChild(doc, i) <= j
<1> DEFINE S == Children(doc, i)
<1>1. \A j \in S : j \in Nat /\ j # 0
  BY DocumentType DEF Children
<1>2. FirstChild(doc, i) = FirstOf(S)
  BY DEF FirstChild
<1> HIDE DEF S
<1>3. CASE S = {}
  BY <1>2, <1>3 DEF FirstOf, S
<1>4. CASE S # {}
  <2>1. Min(S) \in S /\ FirstOf(S) = Min(S) /\ \A k \in S : Min(S) <= k
    BY <1>1, <1>4, FirstIsIn
  <2> QED BY <1>1, <1>2, <1>4, <2>1 DEF S
<1> QED BY <1>3, <1>4

\* ... and the next sibling the first of the siblings behind.
LEMMA NextSiblingIs ==
  ASSUME NEW doc \in Documents, NEW i \in Nodes(doc)
  PROVE  /\ NextSibling(doc, i) = 0 <=> {j \in Children(doc, doc[i].parent) : j > i} = {}
         /\ NextSibling(doc, i) # 0 =>
              /\ NextSibling(doc, i) \in Children(doc, doc[i].parent) /\ NextSibling(doc, i) > i
              /\ \A j \in Children(doc, doc[i].parent) : j > i => NextSibling(doc, i) <= j
<1> DEFINE S == {j \in Children(doc, doc[i].parent) : j > i}
<1>1. \A j \in S : j \in Nat /\ j # 0 /\ j > i /\ j \in Children(doc, doc[i].parent)
  BY DocumentType DEF Children
<1>2. NextSibling(doc, i) = FirstOf(S)
  BY DEF NextSibling
<1>5. \A j \in Children(doc, doc[i].parent) : j > i => j \in S
  OBVIOUS
<1> HIDE DEF S
<1>3. CASE S = {}
  <2>1. NextSibling(doc, i) = 0
    BY <1>2, <1>3 DEF FirstOf
  <2> QED BY <1>3, <2>1 DEF S
<1>4. CASE S # {}
  <2>1. Min(S) \in S /\ FirstOf(S) = Min(S) /\ \A k \in S : Min(S) <= k
    BY <1>1, <1>4, FirstIsIn
  <2>2. NextSibling(doc, i) \in S /\ NextSibling(doc, i) # 0
    BY <1>1, <1>2, <2>1
  <2>3. \A j \in Children(doc, doc[i].parent) : j > i => NextSibling(doc, i) <= j
    BY <1>2, <1>5, <2>1
  <2> QED BY <1>1, <1>4, <2>2, <2>3 DEF S
<1> QED BY <1>3, <1>4

\* A node is next to one node, or to the top, ...
LEMMA ComesOnce ==
  ASSUME NEW doc \in Documents, NEW j \in Nodes(doc),
         NEW i \in Nodes(doc) \cup {0}, NEW k \in Nodes(doc) \cup {0},
         Comes(doc, i, j), Comes(doc, k, j)
  PROVE  i = k
<1>1. \A x \in Nodes(doc) : x \in Nat /\ x # 0 /\ doc[x].parent \in Nat /\ doc[x].parent < x
  BY DocumentType
<1>2. ASSUME NEW x \in Nodes(doc) \cup {0}, j = FirstChild(doc, x)
      PROVE  doc[j].parent = x /\ \A c \in Children(doc, x) : j <= c
  BY <1>1, <1>2, FirstChildIs DEF Children
<1>3. ASSUME NEW x \in Nodes(doc), j = NextSibling(doc, x)
      PROVE  /\ doc[j].parent = doc[x].parent /\ x < j
             /\ \A c \in Children(doc, doc[x].parent) : c > x => j <= c
  BY <1>1, <1>3, NextSiblingIs DEF Children
<1>4. ASSUME NEW x \in Nodes(doc) PROVE x \in Children(doc, doc[x].parent)
  BY DEF Children
<1>5. CASE j = FirstChild(doc, i) /\ j = FirstChild(doc, k)
  <2>1. doc[j].parent = i
    BY <1>2, <1>5
  <2>2. doc[j].parent = k
    BY <1>2, <1>5
  <2> QED BY <2>1, <2>2
<1>6. ASSUME NEW x \in Nodes(doc) \cup {0}, NEW y \in Nodes(doc),
             j = FirstChild(doc, x), j = NextSibling(doc, y)
      PROVE  FALSE
  <2>1. doc[y].parent = x /\ y < j
    BY <1>2, <1>3, <1>6
  <2>2. j <= y
    BY <1>2, <1>4, <1>6, <2>1
  <2> QED BY <1>1, <2>1, <2>2
<1>7. ASSUME i # 0, k # 0, j = NextSibling(doc, i), j = NextSibling(doc, k), i < k PROVE FALSE
  <2>1. i \in Nodes(doc) /\ k \in Nodes(doc)
    BY <1>7
  <2>2. doc[i].parent = doc[k].parent /\ k < j
    BY <1>3, <1>7, <2>1
  <2>3. j <= k
    BY <1>3, <1>4, <1>7, <2>1, <2>2
  <2> QED BY <1>1, <2>1, <2>2, <2>3
<1>8. ASSUME i # 0, k # 0, j = NextSibling(doc, i), j = NextSibling(doc, k), k < i PROVE FALSE
  <2>1. i \in Nodes(doc) /\ k \in Nodes(doc)
    BY <1>8
  <2>2. doc[i].parent = doc[k].parent /\ i < j
    BY <1>3, <1>8, <2>1
  <2>3. j <= i
    BY <1>3, <1>4, <1>8, <2>1, <2>2
  <2> QED BY <1>1, <2>1, <2>2, <2>3
<1>9. i \in Nat /\ k \in Nat
  BY <1>1
<1>10. CASE i # 0 /\ k # 0 /\ j = NextSibling(doc, i) /\ j = NextSibling(doc, k)
  BY <1>7, <1>8, <1>9, <1>10
<1>11. CASE i # 0 /\ j = NextSibling(doc, i) /\ j = FirstChild(doc, k)
  BY <1>6, <1>11
<1>12. CASE k # 0 /\ j = NextSibling(doc, k) /\ j = FirstChild(doc, i)
  BY <1>6, <1>12
<1> QED BY <1>5, <1>10, <1>11, <1>12 DEF Comes

\* ... which is an earlier one.
LEMMA ComesFrom ==
  ASSUME NEW doc \in Documents, NEW j \in Nodes(doc)
  PROVE  \E i \in Nodes(doc) \cup {0} : i < j /\ Comes(doc, i, j)
<1> DEFINE p == doc[j].parent
           S == {i \in Nodes(doc) : doc[i].parent = p /\ i < j}
<1>1. \A x \in Nodes(doc) : x \in 1 .. Len(doc) /\ x \in Nat /\ x # 0
  BY DocumentType
<1>2. p \in Nat /\ p < j /\ Len(doc) \in Nat /\ Nodes(doc) = 1 .. Len(doc)
  BY DocumentType
<1>3. p \in Nodes(doc) \cup {0}
  BY <1>1, <1>2
<1>4. j \in Children(doc, p) /\ j # 0
  BY <1>1 DEF Children
<1>5. CASE S = {}
  <2>1. FirstChild(doc, p) # 0
    BY <1>4, FirstChildIs
  <2>2. FirstChild(doc, p) \in Children(doc, p) /\ FirstChild(doc, p) <= j
    BY <1>4, <2>1, FirstChildIs
  <2>3. FirstChild(doc, p) \in Nodes(doc) /\ doc[FirstChild(doc, p)].parent = p
    BY <2>2 DEF Children
  <2>4. ~ (FirstChild(doc, p) < j)
    BY <1>5, <2>3
  <2>5. FirstChild(doc, p) = j
    BY <1>1, <2>2, <2>3, <2>4
  <2> QED BY <1>2, <1>3, <1>4, <2>5 DEF Comes
<1>6. CASE S # {}
  <2>1. \A x \in S : x \in Nat /\ x <= j
    BY <1>1
  <2>2. PICK m \in S : \A x \in S : x <= m
    <3> HIDE DEF S
    <3>1. j \in Nat
      BY <1>1
    <3> QED BY <1>6, <2>1, <3>1, Greatest
  <2>3. m \in Nodes(doc) /\ doc[m].parent = p /\ m < j
    OBVIOUS
  <2>4. NextSibling(doc, m) # 0
    BY <1>4, <2>3, NextSiblingIs
  <2>5. NextSibling(doc, m) \in Children(doc, p) /\ NextSibling(doc, m) > m /\ NextSibling(doc, m) <= j
    BY <1>4, <2>3, <2>4, NextSiblingIs
  <2>6. NextSibling(doc, m) \in Nodes(doc) /\ doc[NextSibling(doc, m)].parent = p
    BY <2>5 DEF Children
  <2>7. ~ (NextSibling(doc, m) < j)
    <3>1. ASSUME NextSibling(doc, m) < j PROVE FALSE
      <4>1. NextSibling(doc, m) \in S
        BY <2>6, <3>1
      <4> QED BY <1>1, <2>2, <2>3, <2>5, <2>6, <4>1
    <3> QED BY <3>1
  <2>8. NextSibling(doc, m) = j
    BY <1>1, <2>5, <2>6, <2>7
  <2> QED BY <1>1, <1>4, <2>3, <2>8 DEF Comes
<1> QED BY <1>5, <1>6

\* A set holds all nodes and 0 if it has each one behind which it has all.
LEMMA LaterInduction ==
  ASSUME NEW n \in Nat, NEW S,
         \A k \in 0 .. n : (\A j \in 0 .. n : <<j, k>> \in Later(n) => j \in S) => k \in S
  PROVE  0 .. n \subseteq S
<1> DEFINE T == (0 .. n) \ S
<1> SUFFICES ASSUME T # {} PROVE FALSE
  OBVIOUS
<1>1. PICK k \in T : \A j \in T : <<j, k>> \notin Later(n)
  <2>1. Founded(Later(n), 0 .. n) /\ T \in SUBSET (0 .. n)
    BY LaterIsFounded
  <2> HIDE DEF T
  <2> QED BY <2>1 DEF Founded
<1> QED BY <1>1

\* A set holds all nodes if it has each one before which it has all.
LEMMA EarlierInduction ==
  ASSUME NEW N, \A k \in N : k \in Nat, NEW S,
         \A k \in N : (\A j \in N : j < k => j \in S) => k \in S
  PROVE  N \subseteq S
<1> DEFINE T == N \ S
<1> SUFFICES ASSUME T # {} PROVE FALSE
  OBVIOUS
<1>1. PICK k \in T : \A j \in T : k <= j
  <2>1. \A j \in T : j \in Nat
    OBVIOUS
  <2> HIDE DEF T
  <2> QED BY <2>1, Least
<1>2. \A j \in N : j < k => j \in S
  BY <1>1
<1> QED BY <1>1, <1>2

\* The nodes that a walk from k meets.
Walked(doc, R) ==
  /\ R \in [0 .. Len(doc) -> SUBSET Nodes(doc)]
  /\ \A k \in 0 .. Len(doc) :
       R[k] = IF k = 0 THEN {} ELSE {k} \cup R[FirstChild(doc, k)] \cup R[NextSibling(doc, k)]

\* A walk goes on to nodes behind.
LEMMA WalkLater ==
  ASSUME NEW doc \in Documents, NEW k \in 0 .. Len(doc), k # 0
  PROVE  /\ FirstChild(doc, k) \in 0 .. Len(doc) /\ <<FirstChild(doc, k), k>> \in Later(Len(doc))
         /\ NextSibling(doc, k) \in 0 .. Len(doc) /\ <<NextSibling(doc, k), k>> \in Later(Len(doc))
<1>1. Len(doc) \in Nat /\ 0 .. Len(doc) = Nodes(doc) \cup {0} /\ k \in Nodes(doc)
  BY DocumentType
<1> QED BY <1>1, WalkForward DEF Later

\* The sets of nodes that walks meet exist.
LEMMA WalkedExists ==
  ASSUME NEW doc \in Documents PROVE \E R : Walked(doc, R)
<1> DEFINE D == 0 .. Len(doc)
           V == SUBSET Nodes(doc)
           At(k, f) == IF k = 0 THEN {} ELSE {k} \cup f[FirstChild(doc, k)] \cup f[NextSibling(doc, k)]
           H == [k \in D |-> [f \in [D -> V] |-> At(k, f)]]
<1>1. Len(doc) \in Nat /\ D = Nodes(doc) \cup {0}
  BY DocumentType
<1>2. ASSUME NEW k \in D, NEW f \in [D -> V] PROVE At(k, f) \in V
  <2>1. CASE k = 0
    BY <2>1
  <2>2. CASE k # 0
    <3>1. FirstChild(doc, k) \in D /\ NextSibling(doc, k) \in D /\ k \in Nodes(doc)
      BY <1>1, <2>2, WalkLater
    <3> QED BY <2>2, <3>1
  <2> QED BY <2>1, <2>2
<1>3. H \in [D -> [[D -> V] -> V]]
  BY <1>2
<1>4. \A k \in D : \A f \in [D -> V] : H[k][f] = At(k, f)
  OBVIOUS
<1> HIDE DEF H
<1>5. Follows(H, Later(Len(doc)), D, V)
  <2> SUFFICES ASSUME NEW k \in D, NEW f \in [D -> V], NEW g \in [D -> V],
                      \A j \in D : <<j, k>> \in Later(Len(doc)) => f[j] = g[j]
               PROVE  H[k][f] = H[k][g]
    BY DEF Follows
  <2>1. At(k, f) = At(k, g)
    BY WalkLater
  <2> QED BY <1>4, <2>1
<1>6. Founded(Later(Len(doc)), D)
  BY <1>1, LaterIsFounded
<1>7. V # {}
  OBVIOUS
<1>8. PICK R \in [D -> V] : Solves(R, H, D)
  <2> HIDE DEF D, V
  <2> QED BY <1>3, <1>5, <1>6, <1>7, RecursionExists
<1>9. \A k \in D : R[k] = At(k, R)
  BY <1>4, <1>8 DEF Solves
<1> QED BY <1>8, <1>9 DEF Walked

\* A walk meets the node where it begins and then nodes behind it, ...
LEMMA WalkBehind ==
  ASSUME NEW doc \in Documents, NEW R, Walked(doc, R), NEW k \in 0 .. Len(doc)
  PROVE  /\ \A j \in R[k] : j >= k
         /\ k # 0 => k \in R[k]
<1> DEFINE S == {i \in 0 .. Len(doc) : \A j \in R[i] : j >= i}
<1>1. Len(doc) \in Nat
  BY DocumentType
<1>2. ASSUME NEW i \in 0 .. Len(doc), \A j \in 0 .. Len(doc) : <<j, i>> \in Later(Len(doc)) => j \in S
      PROVE  i \in S
  <2> SUFFICES ASSUME NEW j \in R[i] PROVE j >= i
    OBVIOUS
  <2>1. i # 0
    BY DEF Walked
  <2> DEFINE a == FirstChild(doc, i)
             b == NextSibling(doc, i)
  <2>2. a \in S /\ b \in S
    BY <1>2, <2>1, WalkLater
  <2>3. (a # 0 => a > i) /\ (b # 0 => b > i) /\ R[0] = {} /\ a \in Nat /\ b \in Nat
    <3>1. <<a, i>> \in Later(Len(doc)) /\ <<b, i>> \in Later(Len(doc)) /\ a \in Nat /\ b \in Nat
      BY <2>1, WalkLater
    <3> QED BY <3>1 DEF Later, Walked
  <2>4. R[i] = {i} \cup R[a] \cup R[b]
    BY <2>1 DEF Walked
  <2>5. R[i] \subseteq Nodes(doc)
    BY DEF Walked
  <2>6. j \in Nat
    BY <2>5, DocumentType
  <2> HIDE DEF a, b
  <2>7. CASE j = i
    BY <2>7
  <2>8. CASE j \in R[a]
    <3>1. a # 0 /\ j >= a
      BY <2>2, <2>3, <2>8
    <3> QED BY <2>3, <2>6, <3>1
  <2>9. CASE j \in R[b]
    <3>1. b # 0 /\ j >= b
      BY <2>2, <2>3, <2>9
    <3> QED BY <2>3, <2>6, <3>1
  <2> QED BY <2>4, <2>7, <2>8, <2>9
<1>3. 0 .. Len(doc) \subseteq S
  <2> HIDE DEF S
  <2> QED BY <1>1, <1>2, LaterInduction
<1> QED BY <1>3 DEF Walked

\* ... and all that the walks from these meet.
LEMMA WalkThrough ==
  ASSUME NEW doc \in Documents, NEW R, Walked(doc, R), NEW k \in 0 .. Len(doc), NEW j \in R[k]
  PROVE  R[j] \subseteq R[k]
<1> DEFINE S == {i \in 0 .. Len(doc) : \A x \in R[i] : R[x] \subseteq R[i]}
<1>1. Len(doc) \in Nat
  BY DocumentType
<1>2. ASSUME NEW i \in 0 .. Len(doc), \A x \in 0 .. Len(doc) : <<x, i>> \in Later(Len(doc)) => x \in S
      PROVE  i \in S
  <2> SUFFICES ASSUME NEW x \in R[i] PROVE R[x] \subseteq R[i]
    OBVIOUS
  <2>1. i # 0
    BY DEF Walked
  <2>2. FirstChild(doc, i) \in S /\ NextSibling(doc, i) \in S
    BY <1>2, <2>1, WalkLater
  <2>3. R[i] = {i} \cup R[FirstChild(doc, i)] \cup R[NextSibling(doc, i)]
    BY <2>1 DEF Walked
  <2> QED BY <2>2, <2>3
<1>3. 0 .. Len(doc) \subseteq S
  <2> HIDE DEF S
  <2> QED BY <1>1, <1>2, LaterInduction
<1> QED BY <1>3

\* A walk that meets a node, and does not begin there, meets the one before it.
LEMMA WalkBack ==
  ASSUME NEW doc \in Documents, NEW R, Walked(doc, R), NEW k \in 0 .. Len(doc),
         NEW j \in R[k], j # k, NEW i \in Nodes(doc) \cup {0}, Comes(doc, i, j)
  PROVE  i \in R[k]
<1> DEFINE S == {x \in 0 .. Len(doc) : j \in R[x] /\ j # x => i \in R[x]}
<1>1. Len(doc) \in Nat /\ 0 .. Len(doc) = Nodes(doc) \cup {0}
  BY DocumentType
<1>2. j \in Nodes(doc) /\ j # 0
  BY DocumentType DEF Walked
<1>3. ASSUME NEW x \in 0 .. Len(doc), \A y \in 0 .. Len(doc) : <<y, x>> \in Later(Len(doc)) => y \in S
      PROVE  x \in S
  <2> SUFFICES ASSUME j \in R[x], j # x PROVE i \in R[x]
    OBVIOUS
  <2>1. x # 0
    BY DEF Walked
  <2> DEFINE a == FirstChild(doc, x)
             b == NextSibling(doc, x)
  <2>2. a \in S /\ b \in S
    BY <1>3, <2>1, WalkLater
  <2>3. R[x] = {x} \cup R[a] \cup R[b]
    BY <2>1 DEF Walked
  <2>4. CASE j = a \/ j = b
    <3>1. Comes(doc, x, j)
      BY <1>2, <2>1, <2>4 DEF Comes
    <3>2. i = x
      BY <1>1, <1>2, <3>1, ComesOnce
    <3> QED BY <2>3, <3>2
  <2>5. CASE ~ (j = a \/ j = b)
    BY <2>2, <2>3, <2>5
  <2> QED BY <2>4, <2>5
<1>4. 0 .. Len(doc) \subseteq S
  <2> HIDE DEF S
  <2> QED BY <1>1, <1>3, LaterInduction
<1> QED BY <1>4

\* Of two walks that meet the same node one goes on as the other.
LEMMA WalksMeet ==
  ASSUME NEW doc \in Documents, NEW R, Walked(doc, R),
         NEW a \in 0 .. Len(doc), NEW b \in 0 .. Len(doc), NEW j \in R[a], j \in R[b]
  PROVE  a \in R[b] \/ b \in R[a]
<1> DEFINE S == {x \in Nodes(doc) : x \in R[a] /\ x \in R[b] => a \in R[b] \/ b \in R[a]}
<1>1. \A x \in Nodes(doc) : x \in Nat
  BY DocumentType
<1>2. ASSUME NEW x \in Nodes(doc), \A y \in Nodes(doc) : y < x => y \in S
      PROVE  x \in S
  <2> SUFFICES ASSUME x \in R[a], x \in R[b] PROVE a \in R[b] \/ b \in R[a]
    OBVIOUS
  <2>1. CASE x = a \/ x = b
    BY <2>1
  <2>2. CASE ~ (x = a \/ x = b)
    <3>1. PICK i \in Nodes(doc) \cup {0} : i < x /\ Comes(doc, i, x)
      BY ComesFrom
    <3>2. i \in R[a] /\ i \in R[b]
      BY <2>2, <3>1, WalkBack
    <3>3. i \in Nodes(doc)
      BY <3>2 DEF Walked
    <3> QED BY <1>2, <3>1, <3>2, <3>3
  <2> QED BY <2>1, <2>2
<1>3. Nodes(doc) \subseteq S
  <2> HIDE DEF S
  <2> QED BY <1>1, <1>2, EarlierInduction
<1>4. j \in Nodes(doc)
  BY DEF Walked
<1> QED BY <1>3, <1>4

\* The walk below a node and the walk beside it meet different nodes.
LEMMA WalksApart ==
  ASSUME NEW doc \in Documents, NEW R, Walked(doc, R), NEW k \in Nodes(doc)
  PROVE  /\ R[FirstChild(doc, k)] \cap R[NextSibling(doc, k)] = {}
         /\ k \notin R[FirstChild(doc, k)] /\ k \notin R[NextSibling(doc, k)]
<1> DEFINE a == FirstChild(doc, k)
           b == NextSibling(doc, k)
<1>1. \A x \in Nodes(doc) : x \in Nat /\ x # 0 /\ doc[x].parent \in Nat /\ doc[x].parent < x
  BY DocumentType
<1>2. 0 .. Len(doc) = Nodes(doc) \cup {0} /\ R[0] = {}
  BY DocumentType DEF Walked
<1>3. a \in 0 .. Len(doc) /\ b \in 0 .. Len(doc) /\ k \in 0 .. Len(doc) /\ k # 0
      /\ (a # 0 => a > k) /\ (b # 0 => b > k)
  BY <1>1, <1>2, WalkForward
<1>4. ASSUME NEW x \in 0 .. Len(doc), x # 0 => x > k PROVE k \notin R[x]
  <2>1. k \in R[x] => x # 0 /\ k >= x
    BY <1>2, <1>4, WalkBehind
  <2> QED BY <1>1, <1>4, <2>1
<1>5. k \notin R[a] /\ k \notin R[b]
  <2> HIDE DEF a, b
  <2> QED BY <1>3, <1>4
<1>6. ASSUME a # 0, b # 0 PROVE a # b /\ Comes(doc, k, a) /\ Comes(doc, k, b)
  <2>1. doc[a].parent = k
    BY <1>6, FirstChildIs DEF Children
  <2>2. doc[b].parent = doc[k].parent
    BY <1>6, NextSiblingIs DEF Children
  <2>3. a # b
    BY <1>1, <2>1, <2>2
  <2> QED BY <1>3, <1>6, <2>3 DEF Comes
<1>7. ASSUME NEW j \in R[a], j \in R[b] PROVE FALSE
  <2>1. a # 0 /\ b # 0
    BY <1>2, <1>7
  <2> HIDE DEF a, b
  <2>2. a \in R[b] \/ b \in R[a]
    BY <1>3, <1>7, WalksMeet
  <2>3. CASE a \in R[b]
    BY <1>3, <1>5, <1>6, <2>1, <2>3, WalkBack
  <2>4. CASE b \in R[a]
    BY <1>3, <1>5, <1>6, <2>1, <2>4, WalkBack
  <2> QED BY <2>2, <2>3, <2>4
<1> QED BY <1>5, <1>7

\* The walk from the first node at the top meets every node.
LEMMA WalkMeetsAll ==
  ASSUME NEW doc \in Documents, NEW R, Walked(doc, R)
  PROVE  R[FirstChild(doc, 0)] = Nodes(doc)
<1> DEFINE top == FirstChild(doc, 0)
           S == {x \in Nodes(doc) : x \in R[top]}
<1>1. \A x \in Nodes(doc) : x \in Nat /\ x # 0
  BY DocumentType
<1>2. 0 .. Len(doc) = Nodes(doc) \cup {0} /\ R[0] = {}
  BY DocumentType DEF Walked
<1>3. top \in 0 .. Len(doc)
  BY <1>2, WalkForward
<1>4. ASSUME NEW x \in Nodes(doc), \A y \in Nodes(doc) : y < x => y \in S
      PROVE  x \in S
  <2>1. PICK i \in Nodes(doc) \cup {0} : i < x /\ Comes(doc, i, x)
    BY ComesFrom
  <2>2. CASE i = 0
    <3>1. x = top
      BY <2>1, <2>2 DEF Comes
    <3> QED BY <1>1, <1>3, <3>1, WalkBehind
  <2>3. CASE i # 0
    <3>1. i \in R[top] /\ i \in Nodes(doc)
      BY <1>4, <2>1, <2>3
    <3>2. R[i] \subseteq R[top]
      BY <1>3, <3>1, WalkThrough
    <3>3. x \in 0 .. Len(doc) /\ x # 0 /\ i \in 0 .. Len(doc)
      BY <1>1, <1>2, <3>1
    <3>4. x \in R[x]
      BY <3>3, WalkBehind
    <3>5. R[i] = {i} \cup R[FirstChild(doc, i)] \cup R[NextSibling(doc, i)]
      BY <2>3, <3>3 DEF Walked
    <3>6. x = FirstChild(doc, i) \/ x = NextSibling(doc, i)
      BY <2>1 DEF Comes
    <3> QED BY <3>2, <3>4, <3>5, <3>6
  <2> QED BY <2>2, <2>3
<1>5. Nodes(doc) \subseteq S
  <2> HIDE DEF S
  <2> QED BY <1>1, <1>4, EarlierInduction
<1>6. R[top] \subseteq Nodes(doc)
  BY <1>3 DEF Walked
<1> QED BY <1>5, <1>6

\* Of some of the nodes a walk meets the one it begins with, and those that it
\* meets below and beside it.
LEMMA WalkCount ==
  ASSUME NEW doc \in Documents, NEW R, Walked(doc, R), NEW k \in Nodes(doc),
         NEW P \in SUBSET Nodes(doc)
  PROVE  Cardinality(P \cap R[k]) =
           (IF k \in P THEN 1 ELSE 0) + Cardinality(P \cap R[FirstChild(doc, k)])
             + Cardinality(P \cap R[NextSibling(doc, k)])
<1> DEFINE A == P \cap R[FirstChild(doc, k)]
           B == P \cap R[NextSibling(doc, k)]
           O == P \cap {k}
<1>1. k \in 0 .. Len(doc) /\ k # 0
  BY DocumentType
<1>2. P \cap R[k] = (A \cup B) \cup O
  BY <1>1 DEF Walked
<1>3. A \cap B = {} /\ k \notin A \cup B
  BY WalksApart
<1>4. IsFiniteSet(A) /\ IsFiniteSet(B)
  BY DocumentType, FS_Subset
<1>5. Cardinality(A) \in Nat /\ Cardinality(B) \in Nat
  BY <1>4, FS_CardinalityType
<1> HIDE DEF A, B
<1>6. IsFiniteSet(A \cup B) /\ Cardinality(A \cup B) = Cardinality(A) + Cardinality(B)
  <2>1. IsFiniteSet(A \cup B) /\ Cardinality(A \cup B) = Cardinality(A) + Cardinality(B) - Cardinality(A \cap B)
    BY <1>4, FS_Union
  <2>2. Cardinality(A \cap B) = 0
    BY <1>3, FS_EmptySet
  <2> QED BY <1>5, <2>1, <2>2
<1> DEFINE c == Cardinality(P \cap R[k])
           o == IF k \in P THEN 1 ELSE 0
           m == Cardinality(A \cup B)
           a == Cardinality(A)
           b == Cardinality(B)
<1>7. ASSUME k \in P PROVE c = m + 1 /\ o = 1
  <2>1. P \cap R[k] = (A \cup B) \cup {k}
    BY <1>2, <1>7
  <2>2. Cardinality((A \cup B) \cup {k}) = m + 1
    BY <1>3, <1>6, FS_AddElement
  <2>3. c = m + 1 /\ o = 1
    BY <1>7, <2>1, <2>2
  <2> QED BY <2>3
<1>8. ASSUME k \notin P PROVE c = m /\ o = 0
  <2>1. P \cap R[k] = A \cup B
    BY <1>2, <1>8
  <2>2. c = m /\ o = 0
    BY <1>8, <2>1
  <2> QED BY <2>2
<1>9. (c = m + 1 /\ o = 1) \/ (c = m /\ o = 0)
  BY <1>7, <1>8
<1>10. m = a + b /\ a \in Nat /\ b \in Nat
  BY <1>5, <1>6
<1>11. c = o + a + b
  <2> HIDE DEF c, o, m, a, b
  <2> QED BY <1>9, <1>10
<1> QED BY <1>11 DEF A, B

-----------------------------------------------------------------------------
\* Which nodes are a body or below one, and which are below one.
Inside(doc, B) ==
  /\ B \in [Nodes(doc) -> BOOLEAN]
  /\ \A k \in Nodes(doc) : B[k] = (doc[k].tag = "body" \/ (doc[k].parent # 0 /\ B[doc[k].parent]))
Under(doc, B, k) == doc[k].parent # 0 /\ B[doc[k].parent]

\* Some adapter counts the nodes P of a document: val[s] is what it has counted in
\* the state s, and on are the states in which it takes itself to be in a body.
\* It counts a node at the call of its beginning, if it is on below a body.
CountsAtStart(doc, B, V, G, on, val, P) ==
  \A k \in Nodes(doc) : \A s \in V :
    IsElement(doc[k]) /\ (Under(doc, B, k) => s \in on) =>
      /\ val[G[s][Call("start", doc[k])]] = val[s] + (IF k \in P THEN 1 ELSE 0)
      /\ s \in on \/ doc[k].tag = "body" => G[s][Call("start", doc[k])] \in on
IdleElsewhere(doc, V, G, on, val) ==
  \A k \in Nodes(doc) : \A s \in V : \A do \in {"end", "characters"} :
    /\ val[G[s][Call(do, doc[k])]] = val[s]
    /\ s \in on => G[s][Call(do, doc[k])] \in on

\* The states that calls lead to from s when c nodes are counted.
Adds(G, V, on, val, q, s, t, c) ==
  t \in V /\ Leads(G, V, q, s, t) /\ val[t] = val[s] + c /\ (s \in on => t \in on)

\* The calls of a walk from a node make such an adapter count the nodes it meets.
LEMMA WalkAdds ==
  ASSUME NEW doc \in Documents, NEW f \in [0 .. Len(doc) -> Seq(Called(doc))], From(doc, f),
         NEW R, Walked(doc, R), NEW B, Inside(doc, B), NEW P \in SUBSET Nodes(doc),
         \A k \in P : IsElement(doc[k]),
         NEW V, NEW G \in [V -> [Called(doc) -> V]], NEW on, NEW val \in [V -> Nat],
         CountsAtStart(doc, B, V, G, on, val, P), IdleElsewhere(doc, V, G, on, val)
  PROVE  \A k \in 0 .. Len(doc) : \A s \in V :
           (k # 0 /\ Under(doc, B, k) => s \in on) =>
             \E t : Adds(G, V, on, val, f[k], s, t, Cardinality(P \cap R[k]))
<1> DEFINE Good(k) == \A s \in V : (k # 0 /\ Under(doc, B, k) => s \in on) =>
                        \E t : Adds(G, V, on, val, f[k], s, t, Cardinality(P \cap R[k]))
           S == {k \in 0 .. Len(doc) : Good(k)}
           C == Called(doc)
<1>0. ASSUME NEW k \in Nodes(doc)
      PROVE  Cardinality(P \cap R[k]) =
               (IF k \in P THEN 1 ELSE 0) + Cardinality(P \cap R[FirstChild(doc, k)])
                 + Cardinality(P \cap R[NextSibling(doc, k)])
  BY WalkCount, ZenonT(40)
<1>1. Len(doc) \in Nat /\ 0 .. Len(doc) = Nodes(doc) \cup {0} /\ 0 \notin Nodes(doc)
  BY DocumentType
<1>2. \A k \in Nodes(doc) : \A do \in {"start", "end", "characters"} : Call(do, doc[k]) \in C
  BY DEF Called, Call
<1>3. Cardinality(P \cap R[0]) = 0
  <2>1. P \cap R[0] = {}
    BY <1>1 DEF Walked
  <2> QED BY <2>1, FS_EmptySet
<1>4. 0 \in S
  <2>1. f[0] = <<>>
    BY <1>1 DEF From
  <2>2. ASSUME NEW s \in V PROVE Adds(G, V, on, val, f[0], s, s, Cardinality(P \cap R[0]))
    <3>1. Leads(G, V, f[0], s, s)
      BY <2>1, LeadsNowhere
    <3>2. val[s] \in Nat
      OBVIOUS
    <3> QED BY <1>3, <3>1, <3>2 DEF Adds
  <2> QED BY <1>1, <2>2
<1>5. ASSUME NEW k \in Nodes(doc), FirstChild(doc, k) \in S, NextSibling(doc, k) \in S,
             NEW s \in V, Under(doc, B, k) => s \in on
      PROVE  \E t : Adds(G, V, on, val, f[k], s, t, Cardinality(P \cap R[k]))
  <2> DEFINE a == FirstChild(doc, k)
             b == NextSibling(doc, k)
             here == Here(doc, k, f)
             m == Cardinality(P \cap R[a])
             n == Cardinality(P \cap R[b])
             o == IF k \in P THEN 1 ELSE 0
  <2>1. /\ k \in 0 .. Len(doc) /\ k # 0 /\ a \in 0 .. Len(doc) /\ b \in 0 .. Len(doc)
        /\ f[k] = here \o f[b] /\ f[a] \in Seq(C) /\ f[b] \in Seq(C)
    BY <1>1, WalkLater DEF From
  <2>2. m \in Nat /\ n \in Nat /\ Cardinality(P \cap R[k]) = o + m + n
    <3>1. Cardinality(P \cap R[k]) = o + m + n
      BY <1>0
    <3>2. m \in Nat /\ n \in Nat
      BY NodesCount
    <3> QED BY <3>1, <3>2
  <2>3. ~ IsElement(doc[k]) => o = 0 /\ m = 0
    <3> SUFFICES ASSUME ~ IsElement(doc[k]) PROVE k \notin P /\ m = 0
      OBVIOUS
    <3>1. k \notin P
      OBVIOUS
    <3>2. Children(doc, k) = {}
      BY <1>1 DEF Documents, Children
    <3>3. a = 0
      BY <3>2, FirstChildIs
    <3> QED BY <1>3, <3>1, <3>3
  <2>4. here \in Seq(C) /\ \E t : Adds(G, V, on, val, here, s, t, o + m)
    <3>1. CASE doc[k].tag = "#text"
      <4> DEFINE c == Call("characters", doc[k])
      <4>1. here = <<c>> /\ c \in C
        BY <1>2, <3>1 DEF Here
      <4>2. o = 0 /\ m = 0
        BY <2>3, <3>1 DEF IsElement
      <4>3. G[s][c] \in V /\ val[G[s][c]] = val[s] /\ (s \in on => G[s][c] \in on)
        BY <4>1 DEF IdleElsewhere
      <4> HIDE DEF c
      <4>4. Leads(G, V, here, s, G[s][c])
        <5>1. Leads(G, V, <<c>>, s, G[s][c])
          BY <4>1, LeadsOne
        <5> HIDE DEF here
        <5> QED BY <4>1, <5>1
      <4>5. val[s] \in Nat /\ <<c>> \in Seq(C)
        BY <4>1
      <4> HIDE DEF here, m, o
      <4>6. Adds(G, V, on, val, here, s, G[s][c], o + m)
        BY <4>2, <4>3, <4>4, <4>5 DEF Adds
      <4> QED BY <4>1, <4>5, <4>6
    <3>2. CASE doc[k].tag = "#comment"
      <4>1. here = <<>>
        BY <3>2 DEF Here
      <4>2. o = 0 /\ m = 0
        BY <2>3, <3>2 DEF IsElement
      <4>3. Leads(G, V, here, s, s)
        BY <4>1, LeadsNowhere
      <4>4. val[s] \in Nat /\ <<>> \in Seq(C)
        OBVIOUS
      <4> HIDE DEF here, m, o
      <4>5. Adds(G, V, on, val, here, s, s, o + m)
        BY <4>2, <4>3, <4>4 DEF Adds
      <4> QED BY <4>1, <4>4, <4>5
    <3>3. CASE doc[k].tag # "#text" /\ doc[k].tag # "#comment"
      <4> DEFINE c == Call("start", doc[k])
                 e == Call("end", doc[k])
                 t1 == G[s][c]
      <4>1. here = <<c>> \o f[a] \o <<e>> /\ c \in C /\ e \in C
        BY <1>2, <3>3 DEF Here
      <4>2. IsElement(doc[k])
        BY <3>3 DEF IsElement
      <4>3. t1 \in V /\ val[t1] = val[s] + o /\ (s \in on \/ doc[k].tag = "body" => t1 \in on)
        BY <1>5, <4>1, <4>2 DEF CountsAtStart
      <4>4. a # 0 /\ Under(doc, B, a) => t1 \in on
        <5> SUFFICES ASSUME a # 0, Under(doc, B, a) PROVE s \in on \/ doc[k].tag = "body"
          BY <4>3
        <5>1. doc[a].parent = k
          BY FirstChildIs DEF Children
        <5>2. B[k]
          BY <5>1 DEF Under
        <5>3. doc[k].tag = "body" \/ Under(doc, B, k)
          BY <5>2 DEF Inside, Under
        <5> QED BY <1>5, <5>3
      <4> HIDE DEF t1
      <4>5. PICK t2 : Adds(G, V, on, val, f[a], t1, t2, m)
        BY <1>5, <4>3, <4>4
      <4>6. t2 \in V /\ val[t2] = val[t1] + m /\ (t1 \in on => t2 \in on) /\ Leads(G, V, f[a], t1, t2)
        BY <4>5 DEF Adds
      <4> DEFINE t3 == G[t2][e]
      <4>7. t3 \in V /\ val[t3] = val[t2] /\ (t2 \in on => t3 \in on)
        BY <4>1, <4>6 DEF IdleElsewhere
      <4> HIDE DEF c, e, t3, here
      <4>8. <<c>> \in Seq(C) /\ <<e>> \in Seq(C) /\ <<c>> \o f[a] \in Seq(C) /\ here \in Seq(C)
        BY <2>1, <4>1
      <4>9. Leads(G, V, <<c>>, s, t1) /\ Leads(G, V, <<e>>, t2, t3)
        BY <4>1, <4>6, LeadsOne DEF t1, t3
      <4>10. Leads(G, V, <<c>> \o f[a], s, t2)
        BY <2>1, <4>6, <4>8, <4>9, LeadsOn
      <4>11. Leads(G, V, here, s, t3)
        BY <4>1, <4>8, <4>9, <4>10, LeadsOn
      <4>12. val[s] \in Nat /\ o \in Nat
        OBVIOUS
      <4> HIDE DEF m, o
      <4>13. val[t3] = val[s] + (o + m)
        BY <2>2, <4>3, <4>6, <4>7, <4>12
      <4>14. Adds(G, V, on, val, here, s, t3, o + m)
        BY <4>3, <4>6, <4>7, <4>11, <4>13 DEF Adds
      <4> QED BY <4>8, <4>14
    <3> QED BY <3>1, <3>2, <3>3
  <2>5. PICK t : Adds(G, V, on, val, here, s, t, o + m)
    BY <2>4
  <2>6. t \in V /\ val[t] = val[s] + (o + m) /\ (s \in on => t \in on) /\ Leads(G, V, here, s, t)
    BY <2>5 DEF Adds
  <2>7. b # 0 /\ Under(doc, B, b) => t \in on
    <3> SUFFICES ASSUME b # 0, Under(doc, B, b) PROVE s \in on
      BY <2>6
    <3>1. doc[b].parent = doc[k].parent
      BY NextSiblingIs DEF Children
    <3> QED BY <1>5, <3>1 DEF Under
  <2>8. PICK u : Adds(G, V, on, val, f[b], t, u, n)
    BY <1>5, <2>6, <2>7
  <2>9. u \in V /\ val[u] = val[t] + n /\ (t \in on => u \in on) /\ Leads(G, V, f[b], t, u)
    BY <2>8 DEF Adds
  <2>10. Leads(G, V, f[k], s, u)
    <3> HIDE DEF here
    <3>1. Leads(G, V, here \o f[b], s, u)
      BY <2>1, <2>4, <2>6, <2>9, LeadsOn
    <3> QED BY <2>1, <3>1
  <2>11. val[u] = val[s] + Cardinality(P \cap R[k])
    <3>1. val[s] \in Nat /\ o \in Nat
      OBVIOUS
    <3> HIDE DEF m, n, o
    <3> QED BY <2>2, <2>6, <2>9, <3>1
  <2> QED BY <2>6, <2>9, <2>10, <2>11 DEF Adds
<1>6. ASSUME NEW k \in 0 .. Len(doc), \A j \in 0 .. Len(doc) : <<j, k>> \in Later(Len(doc)) => j \in S
      PROVE  k \in S
  <2>1. CASE k = 0
    BY <1>4, <2>1
  <2>2. CASE k # 0
    <3>1. FirstChild(doc, k) \in S /\ NextSibling(doc, k) \in S
      BY <1>6, <2>2, WalkLater
    <3>2. k \in Nodes(doc)
      BY <1>1, <2>2
    <3>3. Good(k)
      <4> HIDE DEF S
      <4> QED BY <1>5, <2>2, <3>1, <3>2
    <3> QED BY <3>3
  <2> QED BY <2>1, <2>2
<1>7. 0 .. Len(doc) \subseteq S
  <2> HIDE DEF S
  <2> QED BY <1>1, <1>6, LaterInduction
<1> QED BY <1>7

-----------------------------------------------------------------------------
\* The words are counted in elements of their own, those with the attribute.
TagOf(w) == IF w = "href" THEN "a" ELSE "img"
Linked(doc, w) == {k \in Nodes(doc) : doc[k].tag = TagOf(w) /\ HasKey(doc[k], w)}

\* What there is to count of a word.
LEMMA LinksAre ==
  ASSUME NEW doc, NEW w \in Words
  PROVE  Links(doc)[w] = Cardinality(Linked(doc, w))
<1>1. w \in {"href", "src", "alt"}
  BY DEF Words
<1>2. CASE w = "href"
  BY <1>2 DEF Links, Linked, TagOf
<1>3. CASE w = "src"
  BY <1>3 DEF Links, Linked, TagOf
<1>4. CASE w = "alt"
  BY <1>4 DEF Links, Linked, TagOf
<1> QED BY <1>1, <1>2, <1>3, <1>4

\* In a plain document links and images are below a body.
LEMMA PlainBodies ==
  ASSUME NEW doc \in Documents, Plain(doc)
  PROVE  \E B : Inside(doc, B) /\ \A k \in Nodes(doc) : doc[k].tag \in {"a", "img"} => Under(doc, B, k)
<1> DEFINE D == Nodes(doc)
           At(k, f) == doc[k].tag = "body" \/ (doc[k].parent # 0 /\ f[doc[k].parent])
           O == {p \in D \X D : p[1] < p[2]}
           H == [k \in D |-> [f \in [D -> BOOLEAN] |-> At(k, f)]]
           P(f) == f = [k \in Nodes(doc) |-> At(k, f)]
           below == CHOOSE f : P(f)
<1>1. \A k \in D : k \in Nat /\ doc[k].parent \in Nat /\ doc[k].parent < k
  BY DocumentType
<1>2. \A k \in D : doc[k].parent # 0 => doc[k].parent \in D /\ <<doc[k].parent, k>> \in O
  <2>1. D = 1 .. Len(doc) /\ Len(doc) \in Nat
    BY DocumentType
  <2> QED BY <1>1, <2>1
<1>3. H \in [D -> [[D -> BOOLEAN] -> BOOLEAN]]
  OBVIOUS
<1>4. \A k \in D : \A f \in [D -> BOOLEAN] : H[k][f] = At(k, f)
  OBVIOUS
<1> HIDE DEF H
<1>5. Follows(H, O, D, BOOLEAN)
  <2> SUFFICES ASSUME NEW k \in D, NEW f \in [D -> BOOLEAN], NEW g \in [D -> BOOLEAN],
                      \A j \in D : <<j, k>> \in O => f[j] = g[j]
               PROVE  H[k][f] = H[k][g]
    BY DEF Follows
  <2>1. doc[k].parent # 0 => f[doc[k].parent] = g[doc[k].parent]
    BY <1>2
  <2>2. At(k, f) = At(k, g)
    BY <2>1
  <2> QED BY <1>4, <2>2
<1>6. Founded(O, D)
  <2> SUFFICES ASSUME NEW T \in SUBSET D, T # {} PROVE \E k \in T : \A j \in T : <<j, k>> \notin O
    BY DEF Founded
  <2>1. PICK k \in T : \A j \in T : k <= j
    BY <1>1, Least
  <2> QED BY <1>1, <2>1
<1>7. PICK f \in [D -> BOOLEAN] : Solves(f, H, D)
  <2>1. BOOLEAN # {}
    OBVIOUS
  <2> HIDE DEF O, D
  <2> QED BY <1>3, <1>5, <1>6, <2>1, RecursionExists
<1>8. \A k \in D : f[k] = At(k, f)
  BY <1>4, <1>7 DEF Solves
<1>9. P(f)
  BY <1>8
<1>10. P(below)
  <2> HIDE DEF P
  <2> QED BY <1>9
<1>11. \A k \in D : doc[k].tag \in {"a", "img"} => below[k]
  BY DEF Plain
<1> HIDE DEF below
<1>12. Inside(doc, below)
  <2>1. \A k \in D : below[k] = At(k, below)
    BY <1>10
  <2>2. below \in [D -> BOOLEAN]
    BY <1>10
  <2> QED BY <2>1, <2>2 DEF Inside
<1>13. \A k \in D : doc[k].tag \in {"a", "img"} => Under(doc, below, k)
  BY <1>11, <1>12 DEF Inside, Under
<1> QED BY <1>12, <1>13

\* In a plain document a key that is looked for occurs once in an element or not
\* at all, whole, and with a value.
LEMMA PlainKeys ==
  ASSUME NEW doc \in Documents, Plain(doc), NEW k \in Nodes(doc), NEW w \in Words
  PROVE  /\ Valued(doc[k].attrs) = doc[k].attrs
         /\ Occurrences(doc[k].attrs, w) = IF HasKey(doc[k], w) THEN 1 ELSE 0
         /\ {j \in DOMAIN doc[k].attrs : doc[k].attrs[j].key \in PrefixOf[w]}
              = {j \in DOMAIN doc[k].attrs : doc[k].attrs[j].key = w}
         /\ {j \in DOMAIN doc[k].attrs : doc[k].attrs[j].key \in PrefixOf["alt"] \ PrefixOf["src"]}
              = {j \in DOMAIN doc[k].attrs : doc[k].attrs[j].key = "alt"}
<1> DEFINE attrs == doc[k].attrs
           S == {j \in DOMAIN attrs : attrs[j].key = w}
<1>1. \A j \in DOMAIN attrs :
        /\ attrs[j].value
        /\ \A l \in DOMAIN attrs : attrs[l].key = attrs[j].key => l = j
        /\ \A v \in Words : attrs[j].key \in PrefixOf[v] => attrs[j].key = v
  BY DEF Plain
<1>2. Words = {"href", "src", "alt"} /\ \A v \in Words : v \in PrefixOf[v]
  BY KeysAssumption DEF Words
<1>3. Valued(attrs) = attrs
  BY <1>1 DEF Valued
<1>4. Occurrences(attrs, w) = IF HasKey(doc[k], w) THEN 1 ELSE 0
  <2>1. CASE S = {}
    <3>1. Cardinality(S) = 0
      BY <2>1, FS_EmptySet
    <3> QED BY <2>1, <3>1 DEF Occurrences, HasKey
  <2>2. CASE S # {}
    <3>1. PICK j \in S : TRUE
      BY <2>2
    <3>2. S = {j}
      BY <1>1, <3>1
    <3>3. Cardinality(S) = 1
      BY <3>2, FS_Singleton
    <3> QED BY <3>1, <3>3 DEF Occurrences, HasKey
  <2> QED BY <2>1, <2>2
<1>5. \A j \in DOMAIN attrs : attrs[j].key \in PrefixOf[w] <=> attrs[j].key = w
  BY <1>1, <1>2
<1>6. \A j \in DOMAIN attrs : attrs[j].key \in PrefixOf["alt"] \ PrefixOf["src"] <=> attrs[j].key = "alt"
  BY <1>1, <1>2
<1> QED BY <1>3, <1>4, <1>5, <1>6

\* test_myhtml.c counts what there is.
LEMMA MyHtmlCounts ==
  ASSUME NEW doc, NEW w \in Words PROVE TestMyHtml(doc)[w] = Links(doc)[w]
BY DEF TestMyHtml, Links, Words

\* So does test_gumbo.c where there is no template.
LEMMA GumboCounts ==
  ASSUME NEW doc \in Documents, Plain(doc), NEW w \in Words
  PROVE  TestGumbo(doc)[w] = Links(doc)[w]
<1> DEFINE D == Nodes(doc)
           At(k, f) == IsElement(doc[k]) /\ doc[k].tag # "template" /\ (doc[k].parent = 0 \/ f[doc[k].parent])
           P(f) == f = [k \in Nodes(doc) |-> At(k, f)]
           reached == CHOOSE f : P(f)
           all == [k \in D |-> IsElement(doc[k])]
<1>1. ASSUME NEW k \in D
      PROVE  /\ k \in Nat /\ doc[k].parent \in Nat /\ doc[k].parent < k /\ doc[k].tag # "template"
             /\ doc[k].parent # 0 => doc[k].parent \in D /\ IsElement(doc[doc[k].parent])
  <2>1. D = 1 .. Len(doc) /\ Len(doc) \in Nat /\ k \in Nat /\ doc[k].parent \in Nat /\ doc[k].parent < k
    BY DocumentType
  <2>2. doc[k].tag # "template"
    BY DEF Plain
  <2>3. doc[k].parent = 0 \/ IsElement(doc[doc[k].parent])
    BY DEF Documents
  <2> QED BY <2>1, <2>2, <2>3
<1>2. P(all)
  <2>1. ASSUME NEW k \in D PROVE IsElement(doc[k]) = At(k, all)
    <3>1. doc[k].parent # 0 => all[doc[k].parent] = IsElement(doc[doc[k].parent])
      BY <1>1
    <3> QED BY <1>1, <3>1 DEF IsElement
  <2> QED BY <2>1
<1>3. P(reached)
  <2> HIDE DEF P
  <2> QED BY <1>2
<1>4. Searched(doc) = {k \in D : reached[k]}
  BY DEF Searched
<1> HIDE DEF reached
<1>5. \A k \in D : reached[k] = At(k, reached)
  BY <1>3
<1> DEFINE S == {k \in D : IsElement(doc[k]) => reached[k]}
<1>6. ASSUME NEW k \in D, \A j \in D : j < k => j \in S PROVE k \in S
  <2> SUFFICES ASSUME IsElement(doc[k]) PROVE reached[k]
    OBVIOUS
  <2>1. doc[k].parent = 0 \/ reached[doc[k].parent]
    BY <1>1, <1>6
  <2> QED BY <1>1, <1>5, <2>1
<1>7. D \subseteq S
  <2>1. \A k \in D : k \in Nat
    BY <1>1
  <2> HIDE DEF S, D
  <2> QED BY <1>6, <2>1, EarlierInduction
<1>8. \A k \in D : doc[k].tag \in {"a", "img"} => reached[k]
  <2>1. \A k \in D : doc[k].tag \in {"a", "img"} => IsElement(doc[k])
    BY DEF IsElement
  <2> QED BY <1>7, <2>1
<1>9. ASSUME NEW tag \in {"a", "img"}, NEW key
      PROVE  {k \in Searched(doc) : doc[k].tag = tag /\ HasKey(doc[k], key)}
               = {k \in Nodes(doc) : doc[k].tag = tag /\ HasKey(doc[k], key)}
  BY <1>4, <1>8
<1>10. CASE w = "href"
  BY <1>9, <1>10 DEF TestGumbo, Links
<1>11. CASE w = "src"
  BY <1>9, <1>11 DEF TestGumbo, Links
<1>12. CASE w = "alt"
  BY <1>9, <1>12 DEF TestGumbo, Links
<1> QED BY <1>10, <1>11, <1>12 DEF Words

\* The beginning of an element adds to the count of a word if it has the word,
\* nothing else does: libxml2 (test_libxml2.c:24-70), ...
LEMMA LibxmlAdds ==
  ASSUME NEW doc \in Documents, Plain(doc), NEW w \in Words, NEW k \in Nodes(doc),
         NEW s \in LibxmlStates
  PROVE  /\ LibxmlStart(s, doc[k]).got[w] = s.got[w] + (IF k \in Linked(doc, w) THEN 1 ELSE 0)
         /\ LibxmlEnd(s, doc[k]).got[w] = s.got[w]
         /\ LibxmlCharacters(s, doc[k]).got[w] = s.got[w]
<1> DEFINE node == doc[k]
           count(tag, key) == IF node.tag = tag THEN Occurrences(Valued(node.attrs), key) ELSE 0
           o == IF k \in Linked(doc, w) THEN 1 ELSE 0
<1>1. /\ s.got \in Gots
      /\ s \in [title : BOOLEAN, body : BOOLEAN, script : BOOLEAN, inText : BOOLEAN, got : Gots]
  BY DEF LibxmlStates
<1>2. LibxmlStart(s, node).got = More(s.got, count("a", "href"), count("img", "src"), count("img", "alt"))
  BY <1>1 DEF LibxmlStart
<1>3. count(TagOf(w), w) = o
  BY PlainKeys DEF Linked
<1> HIDE DEF count, o
<1>4. More(s.got, count("a", "href"), count("img", "src"), count("img", "alt"))[w]
        = s.got[w] + count(TagOf(w), w)
  <2>1. CASE w = "href"
    BY <2>1 DEF More, TagOf
  <2>2. CASE w = "src"
    BY <2>2 DEF More, TagOf
  <2>3. CASE w = "alt"
    BY <2>3 DEF More, TagOf
  <2> QED BY <2>1, <2>2, <2>3 DEF Words
<1>5. LibxmlStart(s, node).got[w] = s.got[w] + o
  BY <1>2, <1>3, <1>4
<1>6. LibxmlEnd(s, node).got[w] = s.got[w]
  BY <1>1 DEF LibxmlEnd
<1>7. LibxmlCharacters(s, node).got[w] = s.got[w]
  <2>1. ASSUME NEW x PROVE [s EXCEPT !.got.text = x].got[w] = s.got[w]
    BY <1>1 DEF Gots, Words
  <2>2. ASSUME NEW x PROVE [s EXCEPT !.inText = TRUE, !.got.text = x].got[w] = s.got[w]
    BY <1>1 DEF Gots, Words
  <2>3. LibxmlCharacters(s, node).got[w] \in
          {s.got[w], [s EXCEPT !.got.text = s.got.text + 1].got[w],
           [s EXCEPT !.inText = TRUE, !.got.text = s.got.text + Len(node.text)].got[w]}
    BY <1>1 DEF LibxmlCharacters
  <2> QED BY <2>1, <2>2, <2>3
<1> QED BY <1>5, <1>6, <1>7 DEF o

\* ... and haut, once it has met the body (test_haut.c:21-60).
LEMMA HautAdds ==
  ASSUME NEW doc \in Documents, Plain(doc), NEW w \in Words, NEW k \in Nodes(doc),
         NEW s \in HautStates, doc[k].tag \in {"a", "img"} => s.body
  PROVE  /\ HautStart(s, doc[k]).got[w] = s.got[w] + (IF k \in Linked(doc, w) THEN 1 ELSE 0)
         /\ s.body \/ doc[k].tag = "body" => HautStart(s, doc[k]).body
         /\ HautCharacters(s, doc[k]).got[w] = s.got[w] /\ HautCharacters(s, doc[k]).body = s.body
<1> DEFINE node == doc[k]
           body == s.body \/ node.tag = "body"
           count(tag, keys) ==
             IF ~ body \/ node.tag # tag THEN 0
             ELSE Cardinality({j \in DOMAIN node.attrs : node.attrs[j].key \in keys})
           a == count("a", PrefixOf["href"])
           b == count("img", PrefixOf["src"])
           c == count("img", PrefixOf["alt"] \ PrefixOf["src"])
           o == IF k \in Linked(doc, w) THEN 1 ELSE 0
<1>1. s.got \in Gots /\ s \in [body : BOOLEAN, got : Gots]
  BY DEF HautStates
<1>2. HautStart(s, node).got = More(s.got, a, b, c) /\ HautStart(s, node).body = body
  BY <1>1 DEF HautStart
<1>3. ASSUME NEW v \in Words, NEW keys,
             {j \in DOMAIN node.attrs : node.attrs[j].key \in keys}
               = {j \in DOMAIN node.attrs : node.attrs[j].key = v}
      PROVE  count(TagOf(v), keys) = IF k \in Linked(doc, v) THEN 1 ELSE 0
  <2>1. Occurrences(node.attrs, v) = IF HasKey(node, v) THEN 1 ELSE 0
    BY PlainKeys
  <2>2. Cardinality({j \in DOMAIN node.attrs : node.attrs[j].key \in keys}) = Occurrences(node.attrs, v)
    BY <1>3 DEF Occurrences
  <2>3. node.tag = TagOf(v) => body
    BY DEF TagOf
  <2> HIDE DEF body
  <2> QED BY <2>1, <2>2, <2>3 DEF Linked
<1>4. ASSUME NEW v \in Words
      PROVE  /\ {j \in DOMAIN node.attrs : node.attrs[j].key \in PrefixOf[v]}
                  = {j \in DOMAIN node.attrs : node.attrs[j].key = v}
             /\ {j \in DOMAIN node.attrs : node.attrs[j].key \in PrefixOf["alt"] \ PrefixOf["src"]}
                  = {j \in DOMAIN node.attrs : node.attrs[j].key = "alt"}
  BY PlainKeys
<1> HIDE DEF count
<1>5. More(s.got, a, b, c)[w] = s.got[w] + o
  <2>1. CASE w = "href"
    <3>1. a = o
      BY <1>3, <1>4, <2>1 DEF TagOf
    <3> HIDE DEF a, b, c, o
    <3> QED BY <2>1, <3>1 DEF More
  <2>2. CASE w = "src"
    <3>1. b = o
      BY <1>3, <1>4, <2>2 DEF TagOf
    <3> HIDE DEF a, b, c, o
    <3> QED BY <2>2, <3>1 DEF More
  <2>3. CASE w = "alt"
    <3>1. c = o
      BY <1>3, <1>4, <2>3 DEF TagOf
    <3> HIDE DEF a, b, c, o
    <3> QED BY <2>3, <3>1 DEF More
  <2> QED BY <2>1, <2>2, <2>3 DEF Words
<1>6. HautStart(s, node).got[w] = s.got[w] + o
  BY <1>2, <1>5
<1>7. HautCharacters(s, node).got[w] = s.got[w] /\ HautCharacters(s, node).body = s.body
  <2>1. ASSUME NEW x
        PROVE  [s EXCEPT !.got.text = x].got[w] = s.got[w] /\ [s EXCEPT !.got.text = x].body = s.body
    BY <1>1 DEF Gots, Words
  <2>2. HautCharacters(s, node) \in {s, [s EXCEPT !.got.text = s.got.text + 1 + Len(node.text)]}
    BY <1>1 DEF HautCharacters
  <2> QED BY <2>1, <2>2
<1> QED BY <1>2, <1>6, <1>7 DEF o

\* The calls of a document are calls about its nodes.
LEMMA CallsType ==
  ASSUME NEW doc \in Documents
  PROVE  Calls(doc) \in Seq(Called(doc)) /\ FirstChild(doc, 0) \in 0 .. Len(doc)
<1>1. PICK f \in [0 .. Len(doc) -> Seq(Called(doc))] :
        From(doc, f) /\ Calls(doc) = f[FirstChild(doc, 0)]
  BY CallsFrom
<1>2. FirstChild(doc, 0) \in 0 .. Len(doc)
  BY WalkForward, DocumentType
<1> QED BY <1>1, <1>2

\* A walk over a document that counts the nodes of a set at their start, with all
\* that its count rests on, ...
Counting(doc, B, V, G, on, val, P) ==
  /\ Inside(doc, B)
  /\ P \in SUBSET Nodes(doc) /\ \A k \in P : IsElement(doc[k])
  /\ G \in [V -> [Called(doc) -> V]] /\ val \in [V -> Nat]
  /\ CountsAtStart(doc, B, V, G, on, val, P)
  /\ IdleElsewhere(doc, V, G, on, val)

\* ... and the count that the state at its end has.
Totals(val, P, s, t) == val[t] = val[s] + Cardinality(P)

\* What a walk over a whole document from a first state adds up to.
LEMMA CallsAdd ==
  ASSUME NEW doc \in Documents, NEW B, NEW P, NEW V, NEW G, NEW on, NEW val, NEW s, NEW t,
         Counting(doc, B, V, G, on, val, P), s \in V, Leads(G, V, Calls(doc), s, t)
  PROVE  Totals(val, P, s, t)
<1>0. /\ G \in [V -> [Called(doc) -> V]] /\ val \in [V -> Nat] /\ \A k \in P : IsElement(doc[k])
      /\ Inside(doc, B) /\ P \in SUBSET Nodes(doc)
      /\ CountsAtStart(doc, B, V, G, on, val, P) /\ IdleElsewhere(doc, V, G, on, val)
  BY DEF Counting
<1>1. PICK f \in [0 .. Len(doc) -> Seq(Called(doc))] : From(doc, f) /\ Calls(doc) = f[FirstChild(doc, 0)]
  BY CallsFrom
<1>2. PICK R : Walked(doc, R)
  BY WalkedExists
<1> DEFINE top == FirstChild(doc, 0)
<1>3. top \in 0 .. Len(doc)
  BY CallsType
<1>4. top # 0 /\ Under(doc, B, top) => s \in on
  <2>1. top # 0 => doc[top].parent = 0
    BY FirstChildIs DEF Children
  <2> QED BY <2>1 DEF Under
<1>5. \A k \in 0 .. Len(doc) : \A x \in V :
        (k # 0 /\ Under(doc, B, k) => x \in on) =>
          \E u : Adds(G, V, on, val, f[k], x, u, Cardinality(P \cap R[k]))
  BY <1>0, <1>1, <1>2, WalkAdds
<1>6. PICK u : Adds(G, V, on, val, f[top], s, u, Cardinality(P \cap R[top]))
  BY <1>3, <1>4, <1>5
<1>7. Leads(G, V, Calls(doc), s, u) /\ val[u] = val[s] + Cardinality(P \cap R[top])
  BY <1>1, <1>6 DEF Adds
<1>8. P \cap R[top] = P
  BY <1>0, <1>2, WalkMeetsAll
<1>9. Len(Calls(doc)) \in Nat
  BY <1>1, <1>3
<1>10. t = u
  BY <1>7, <1>9, LeadsOnce
<1> QED BY <1>7, <1>8, <1>10 DEF Totals

\* The state of the libxml2 adapter after a call, as a function.
LibxmlSteps(doc) == [s \in LibxmlStates |-> [c \in Called(doc) |-> LibxmlCall(s, c)]]
\* The calls of libxml2 lead the adapter to the state at the end.
LEMMA LibxmlLeads ==
  ASSUME NEW doc \in Documents
  PROVE  /\ FoldLeft(LibxmlCall, LibxmlBegin, Calls(doc)) \in LibxmlStates
         /\ Leads(LibxmlSteps(doc), LibxmlStates, Calls(doc), LibxmlBegin,
                  FoldLeft(LibxmlCall, LibxmlBegin, Calls(doc)))
<1> DEFINE V == LibxmlStates
           C == Called(doc)
           q == Calls(doc)
           t == FoldLeft(LibxmlCall, LibxmlBegin, q)
<1>1. \A s \in V : \A c \in C : LibxmlCall(s, c) \in V
  BY CallNode, LibxmlType DEF LibxmlCall
<1>2. LibxmlBegin \in V
  BY DEF LibxmlBegin, LibxmlStates, Gots, Nothing
<1>3. \A s \in V : \A c \in C : LibxmlSteps(doc)[s][c] = LibxmlCall(s, c)
  BY DEF LibxmlSteps
<1>4. q \in Seq(C)
  BY CallsType
<1> HIDE DEF V, C, q
<1>5. PICK g \in [0 .. Len(q) -> V] :
         LibxmlRun(g, q) /\ t = g[Len(q)]
  BY <1>1, <1>2, <1>4, LibxmlFolds
<1>9. g[0] = LibxmlBegin /\ \A k \in 1 .. Len(q) : g[k] = LibxmlCall(g[k - 1], q[k])
  BY <1>5 DEF LibxmlRun
<1> HIDE DEF t
<1>6. ASSUME NEW k \in 1 .. Len(q) PROVE g[k] = LibxmlSteps(doc)[g[k - 1]][q[k]]
  <2>1. g[k - 1] \in V /\ q[k] \in C
    BY <1>4
  <2> QED BY <1>3, <1>9, <2>1
<1>7. t \in V
  BY <1>4, <1>5
<1>8. Leads(LibxmlSteps(doc), V, q, LibxmlBegin, t)
  BY <1>5, <1>6, <1>9 DEF Leads
<1> QED BY <1>7, <1>8 DEF V, q, t

\* test_libxml2.c counts what there is.
LEMMA LibxmlCounts ==
  ASSUME NEW doc \in Documents, Plain(doc), NEW w \in Words
  PROVE  TestLibxml2(doc)[w] = Links(doc)[w]
<1> DEFINE V == LibxmlStates
           C == Called(doc)
           G == [s \in V |-> [c \in C |-> LibxmlCall(s, c)]]
           val == [s \in V |-> s.got[w]]
           P == Linked(doc, w)
<1>1. \A s \in V : \A c \in C : LibxmlCall(s, c) \in V
  BY CallNode, LibxmlType DEF LibxmlCall
<1>2. LibxmlBegin \in V /\ LibxmlBegin.got[w] = 0
  BY DEF LibxmlBegin, LibxmlStates, Gots, Nothing, Words
<1>3. G \in [V -> [C -> V]] /\ \A s \in V : \A c \in C : G[s][c] = LibxmlCall(s, c)
  BY <1>1
<1>4. val \in [V -> Nat] /\ \A s \in V : val[s] = s.got[w]
  BY DEF LibxmlStates, Gots, Words
<1>5. PICK B : Inside(doc, B) /\ \A k \in Nodes(doc) : doc[k].tag \in {"a", "img"} => Under(doc, B, k)
  BY PlainBodies
<1>6. P \in SUBSET Nodes(doc) /\ \A k \in P : IsElement(doc[k])
  BY DEF Linked, TagOf, IsElement
<1>7. \A k \in Nodes(doc) : \A do \in {"start", "end", "characters"} :
        Call(do, doc[k]) \in C /\ Call(do, doc[k]).do = do /\ Call(do, doc[k]).node = doc[k]
  BY DEF Called, Call
<1>8. ASSUME NEW k \in Nodes(doc), NEW s \in V
      PROVE  /\ val[G[s][Call("start", doc[k])]] = val[s] + (IF k \in P THEN 1 ELSE 0)
             /\ G[s][Call("start", doc[k])] \in V
             /\ \A do \in {"end", "characters"} :
                  val[G[s][Call(do, doc[k])]] = val[s] /\ G[s][Call(do, doc[k])] \in V
  <2> HIDE DEF G, val, P
  <2>1. /\ G[s][Call("start", doc[k])] = LibxmlStart(s, doc[k])
        /\ G[s][Call("end", doc[k])] = LibxmlEnd(s, doc[k])
        /\ G[s][Call("characters", doc[k])] = LibxmlCharacters(s, doc[k])
    <3>1. \A do \in {"start", "end", "characters"} :
            G[s][Call(do, doc[k])] = LibxmlCall(s, Call(do, doc[k]))
      BY <1>3, <1>7
    <3>2. /\ LibxmlCall(s, Call("start", doc[k])) = LibxmlStart(s, doc[k])
          /\ LibxmlCall(s, Call("end", doc[k])) = LibxmlEnd(s, doc[k])
          /\ LibxmlCall(s, Call("characters", doc[k])) = LibxmlCharacters(s, doc[k])
      BY <1>7 DEF LibxmlCall
    <3> QED BY <3>1, <3>2
  <2>2. \A do \in {"start", "end", "characters"} : G[s][Call(do, doc[k])] \in V
    BY <1>3, <1>7
  <2>3. LibxmlStart(s, doc[k]).got[w] = s.got[w] + (IF k \in P THEN 1 ELSE 0)
    BY LibxmlAdds DEF P
  <2>4. LibxmlEnd(s, doc[k]).got[w] = s.got[w] /\ LibxmlCharacters(s, doc[k]).got[w] = s.got[w]
    BY LibxmlAdds
  <2> QED BY <1>4, <2>1, <2>2, <2>3, <2>4
<1> HIDE DEF G, val, P
<1>9. CountsAtStart(doc, B, V, G, V, val, P) /\ IdleElsewhere(doc, V, G, V, val)
  BY <1>8 DEF CountsAtStart, IdleElsewhere
<1> DEFINE t == FoldLeft(LibxmlCall, LibxmlBegin, Calls(doc))
<1>10. Leads(G, V, Calls(doc), LibxmlBegin, t) /\ t \in V
  BY LibxmlLeads DEF G, LibxmlSteps
<1> HIDE DEF t, V
<1>11. Counting(doc, B, V, G, V, val, P)
  BY <1>3, <1>4, <1>5, <1>6, <1>9 DEF Counting
<1>12. Totals(val, P, LibxmlBegin, t)
  BY <1>2, <1>10, <1>11, CallsAdd
<1>13. val[t] = val[LibxmlBegin] + Cardinality(P)
  BY <1>12 DEF Totals
<1>14. Cardinality(P) \in Nat
  BY <1>6, NodesCount
<1>15. t.got[w] = Cardinality(P)
  BY <1>2, <1>4, <1>10, <1>13, <1>14
<1> QED BY <1>15, LinksAre DEF TestLibxml2, t, P

\* The state of the haut adapter after a call, as a function.
HautSteps(doc) == [s \in HautStates |-> [c \in Called(doc) |-> HautCall(s, c)]]
\* The calls of haut lead the adapter to the state at the end.
LEMMA HautLeads ==
  ASSUME NEW doc \in Documents
  PROVE  /\ FoldLeft(HautCall, HautBegin, Calls(doc)) \in HautStates
         /\ Leads(HautSteps(doc), HautStates, Calls(doc), HautBegin,
                  FoldLeft(HautCall, HautBegin, Calls(doc)))
<1> DEFINE V == HautStates
           C == Called(doc)
           q == Calls(doc)
           t == FoldLeft(HautCall, HautBegin, q)
<1>1. \A s \in V : \A c \in C : HautCall(s, c) \in V
  BY CallNode, HautType DEF HautCall
<1>2. HautBegin \in V
  BY DEF HautBegin, HautStates, Gots, Nothing
<1>3. \A s \in V : \A c \in C : HautSteps(doc)[s][c] = HautCall(s, c)
  BY DEF HautSteps
<1>4. q \in Seq(C)
  BY CallsType
<1> HIDE DEF V, C, q
<1>5. PICK g \in [0 .. Len(q) -> V] :
         HautRun(g, q) /\ t = g[Len(q)]
  BY <1>1, <1>2, <1>4, HautFolds
<1>9. g[0] = HautBegin /\ \A k \in 1 .. Len(q) : g[k] = HautCall(g[k - 1], q[k])
  BY <1>5 DEF HautRun
<1> HIDE DEF t
<1>6. ASSUME NEW k \in 1 .. Len(q) PROVE g[k] = HautSteps(doc)[g[k - 1]][q[k]]
  <2>1. g[k - 1] \in V /\ q[k] \in C
    BY <1>4
  <2> QED BY <1>3, <1>9, <2>1
<1>7. t \in V
  BY <1>4, <1>5
<1>8. Leads(HautSteps(doc), V, q, HautBegin, t)
  BY <1>5, <1>6, <1>9 DEF Leads
<1> QED BY <1>7, <1>8 DEF V, q, t

\* test_haut.c counts what there is.
LEMMA HautCounts ==
  ASSUME NEW doc \in Documents, Plain(doc), NEW w \in Words
  PROVE  TestHaut(doc)[w] = Links(doc)[w]
<1> DEFINE V == HautStates
           C == Called(doc)
           G == [s \in V |-> [c \in C |-> HautCall(s, c)]]
           val == [s \in V |-> s.got[w]]
           on == {s \in V : s.body}
           P == Linked(doc, w)
<1>1. \A s \in V : \A c \in C : HautCall(s, c) \in V
  BY CallNode, HautType DEF HautCall
<1>2. HautBegin \in V /\ HautBegin.got[w] = 0
  BY DEF HautBegin, HautStates, Gots, Nothing, Words
<1>3. G \in [V -> [C -> V]] /\ \A s \in V : \A c \in C : G[s][c] = HautCall(s, c)
  BY <1>1
<1>4. val \in [V -> Nat] /\ \A s \in V : val[s] = s.got[w]
  BY DEF HautStates, Gots, Words
<1>5. PICK B : Inside(doc, B) /\ \A k \in Nodes(doc) : doc[k].tag \in {"a", "img"} => Under(doc, B, k)
  BY PlainBodies
<1>6. P \in SUBSET Nodes(doc) /\ \A k \in P : IsElement(doc[k])
  BY DEF Linked, TagOf, IsElement
<1>7. \A k \in Nodes(doc) : \A do \in {"start", "end", "characters"} :
        Call(do, doc[k]) \in C /\ Call(do, doc[k]).do = do /\ Call(do, doc[k]).node = doc[k]
  BY DEF Called, Call
<1>8. ASSUME NEW k \in Nodes(doc), NEW s \in V
      PROVE  /\ (Under(doc, B, k) => s \in on) =>
                  /\ val[G[s][Call("start", doc[k])]] = val[s] + (IF k \in P THEN 1 ELSE 0)
                  /\ s \in on \/ doc[k].tag = "body" => G[s][Call("start", doc[k])] \in on
             /\ \A do \in {"end", "characters"} :
                  /\ val[G[s][Call(do, doc[k])]] = val[s]
                  /\ s \in on => G[s][Call(do, doc[k])] \in on
  <2> HIDE DEF G, val, P
  <2>1. /\ G[s][Call("start", doc[k])] = HautStart(s, doc[k])
        /\ G[s][Call("end", doc[k])] = s
        /\ G[s][Call("characters", doc[k])] = HautCharacters(s, doc[k])
    <3>1. \A do \in {"start", "end", "characters"} :
            G[s][Call(do, doc[k])] = HautCall(s, Call(do, doc[k]))
      BY <1>3, <1>7
    <3>2. /\ HautCall(s, Call("start", doc[k])) = HautStart(s, doc[k])
          /\ HautCall(s, Call("end", doc[k])) = s
          /\ HautCall(s, Call("characters", doc[k])) = HautCharacters(s, doc[k])
      BY <1>7 DEF HautCall
    <3> QED BY <3>1, <3>2
  <2>2. \A do \in {"start", "end", "characters"} : G[s][Call(do, doc[k])] \in V
    BY <1>3, <1>7
  <2>3. ASSUME Under(doc, B, k) => s \in on
        PROVE  /\ HautStart(s, doc[k]).got[w] = s.got[w] + (IF k \in P THEN 1 ELSE 0)
               /\ s.body \/ doc[k].tag = "body" => HautStart(s, doc[k]).body
    <3>1. doc[k].tag \in {"a", "img"} => s.body
      BY <1>5, <2>3
    <3> QED BY <3>1, HautAdds DEF P
  <2>4. ASSUME Under(doc, B, k) => s \in on
        PROVE  /\ val[G[s][Call("start", doc[k])]] = val[s] + (IF k \in P THEN 1 ELSE 0)
               /\ s \in on \/ doc[k].tag = "body" => G[s][Call("start", doc[k])] \in on
    BY <1>4, <2>1, <2>2, <2>3, <2>4
  <2>5. HautCharacters(s, doc[k]).got[w] = s.got[w] /\ HautCharacters(s, doc[k]).body = s.body
    <3>1. s \in [body : BOOLEAN, got : Gots]
      BY DEF HautStates
    <3>2. ASSUME NEW x
          PROVE  [s EXCEPT !.got.text = x].got[w] = s.got[w] /\ [s EXCEPT !.got.text = x].body = s.body
      BY <3>1 DEF Gots, Words
    <3>3. HautCharacters(s, doc[k]) \in {s, [s EXCEPT !.got.text = s.got.text + 1 + Len(doc[k].text)]}
      BY <3>1 DEF HautCharacters
    <3> QED BY <3>2, <3>3
  <2>6. ASSUME NEW do \in {"end", "characters"}
        PROVE  /\ val[G[s][Call(do, doc[k])]] = val[s]
               /\ s \in on => G[s][Call(do, doc[k])] \in on
    BY <1>4, <2>1, <2>2, <2>5
  <2> QED BY <2>4, <2>6
<1> HIDE DEF G, val, P, on
<1>9. CountsAtStart(doc, B, V, G, on, val, P) /\ IdleElsewhere(doc, V, G, on, val)
  BY <1>8 DEF CountsAtStart, IdleElsewhere
<1> DEFINE t == FoldLeft(HautCall, HautBegin, Calls(doc))
<1>10. Leads(G, V, Calls(doc), HautBegin, t) /\ t \in V
  BY HautLeads DEF G, HautSteps
<1> HIDE DEF t, V
<1>11. Counting(doc, B, V, G, on, val, P)
  BY <1>3, <1>4, <1>5, <1>6, <1>9 DEF Counting
<1>12. Totals(val, P, HautBegin, t)
  BY <1>2, <1>10, <1>11, CallsAdd
<1>13. val[t] = val[HautBegin] + Cardinality(P)
  BY <1>12 DEF Totals
<1>14. Cardinality(P) \in Nat
  BY <1>6, NodesCount
<1>15. t.got[w] = Cardinality(P)
  BY <1>2, <1>4, <1>10, <1>13, <1>14
<1> QED BY <1>15, LinksAre DEF TestHaut, t, P

\* On a plain document the four adapters that build on a parser count the links
\* and images that there are, and so the same (test_libxml2.c:37-62,
\* test_haut.c:27-49, test_gumbo.c:52-83, test_myhtml.c:104-146).
THEOREM AdaptersAgree ==
  ASSUME NEW doc \in Documents, Plain(doc), NEW w \in Words
  PROVE  \A got \in {TestLibxml2(doc), TestHaut(doc), TestGumbo(doc), TestMyHtml(doc)} :
           got[w] = Links(doc)[w]
BY LibxmlCounts, HautCounts, GumboCounts, MyHtmlCounts

\* What there is in a document is a number.
LEMMA LinksType ==
  ASSUME NEW doc \in Documents, NEW w \in Words PROVE Links(doc)[w] \in Nat
<1>1. Linked(doc, w) \in SUBSET Nodes(doc)
  BY DEF Linked
<1> QED BY <1>1, LinksAre, NodesCount
=================================================================================
