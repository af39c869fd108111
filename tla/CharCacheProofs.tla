--------------------------- MODULE CharCacheProofs ---------------------------
(***************************************************************************)
(* Proofs about the cache of freed regions.  The searches of the cache are *)
(* recursive functions over the array; they are defined because no places  *)
(* point to each other in a circle, which is part of the invariant.  The   *)
(* lemmas say what they find in a chain, then how a chain changes when a   *)
(* region is put into it or taken out of it; the invariant says that the   *)
(* array holds a chain from the root, with every place that was given out  *)
(* either on it or on the stack.                                           *)
(***************************************************************************)
EXTENDS CharCache, RecursionLemmas, FiniteSetTheorems, SequenceTheorems

\* A place of an array with the places D.
Node(D) == [parent : D, left : D, right : D, size : Sizes \cup {0}, value : Values \cup {NULL}]

\* An array in which nothing is on the left and place 0 ends every search.
IsArray(nd) ==
  /\ nd \in [DOMAIN nd -> Node(DOMAIN nd)]
  /\ 0 \in DOMAIN nd /\ DOMAIN nd \subseteq Nat
  /\ nd[0].size = 0 /\ nd[0].right = 0
  /\ \A k \in DOMAIN nd : nd[k].left = 0

\* No places point to each other in a circle, not even those that are free.
NoCycle(nd) ==
  \A T \in SUBSET (DOMAIN nd \ {0}) : T # {} => \E k \in T : nd[k].right \notin T

\* From the root to the right are the n places of ch, each with a link back, in
\* the order of their sizes and with a region of their own.
IsChain(nd, root, n, ch) ==
  /\ n \in Nat /\ ch \in [1 .. n -> DOMAIN nd \ {0}]
  /\ root = (IF n = 0 THEN 0 ELSE ch[1])
  /\ \A j \in 1 .. n :
       /\ nd[ch[j]].right = (IF j = n THEN 0 ELSE ch[j + 1])
       /\ nd[ch[j]].parent = (IF j = 1 THEN 0 ELSE ch[j - 1])
       /\ nd[ch[j]].size \in Sizes /\ nd[ch[j]].value \in Values
  /\ \A i, j \in 1 .. n : i < j =>
       /\ ch[i] # ch[j] /\ nd[ch[i]].size <= nd[ch[j]].size
       /\ nd[ch[i]].value # nd[ch[j]].value

\* The places of a chain.
On(n, ch) == {ch[j] : j \in 1 .. n}

-----------------------------------------------------------------------------
\* What a search from a place needs: the place on its right.
RightOf(nd) == {<<nd[k].right, k>> : k \in DOMAIN nd \ {0}}

\* Without a circle, to go to the right comes to an end.
LEMMA RightIsFounded ==
  ASSUME NEW nd, IsArray(nd), NoCycle(nd)
  PROVE  Founded(RightOf(nd), DOMAIN nd)
<1> SUFFICES ASSUME NEW T \in SUBSET DOMAIN nd, T # {}
             PROVE  \E k \in T : \A j \in T : <<j, k>> \notin RightOf(nd)
  BY DEF Founded
<1>1. CASE 0 \in T
  BY <1>1 DEF RightOf
<1>2. CASE 0 \notin T
  <2>1. T \in SUBSET (DOMAIN nd \ {0})
    BY <1>2
  <2>2. PICK k \in T : nd[k].right \notin T
    BY <2>1 DEF NoCycle
  <2> QED BY <2>2 DEF RightOf
<1> QED BY <1>1, <1>2

\* The search of Reached, from every place.
Down(nd, s) ==
  LET down[k \in DOMAIN nd] ==
        IF s <= nd[k].size \/ nd[k].right = 0 THEN k ELSE down[nd[k].right]
  IN down

\* The equation of Reached has a solution, so that Reached satisfies it.
LEMMA DownSolves ==
  ASSUME NEW nd, IsArray(nd), NoCycle(nd), NEW s
  PROVE  Down(nd, s) = [k \in DOMAIN nd |->
            IF s <= nd[k].size \/ nd[k].right = 0 THEN k ELSE Down(nd, s)[nd[k].right]]
<1> DEFINE D == DOMAIN nd
           H == [k \in D |-> [f \in [D -> D] |->
                   IF s <= nd[k].size \/ nd[k].right = 0 THEN k ELSE f[nd[k].right]]]
           P(d) == d = [k \in D |-> IF s <= nd[k].size \/ nd[k].right = 0 THEN k ELSE d[nd[k].right]]
<1>1. \A k \in D : nd[k].right \in D
  BY DEF IsArray, Node
<1>2. H \in [D -> [[D -> D] -> D]]
  BY <1>1
<1>3. Follows(H, RightOf(nd), D, D)
  <2> SUFFICES ASSUME NEW k \in D, NEW f \in [D -> D], NEW g \in [D -> D],
                      \A j \in D : <<j, k>> \in RightOf(nd) => f[j] = g[j]
               PROVE  H[k][f] = H[k][g]
    BY DEF Follows
  <2>1. CASE nd[k].right = 0
    BY <2>1
  <2>2. CASE nd[k].right # 0
    <3>1. k # 0
      BY <2>2 DEF IsArray
    <3>2. f[nd[k].right] = g[nd[k].right]
      BY <3>1, <1>1 DEF RightOf
    <3> QED BY <3>2
  <2> QED BY <2>1, <2>2
<1>4. D # {}
  BY DEF IsArray
<1>5. \E f \in [D -> D] : Solves(f, H, D)
  <2> Founded(RightOf(nd), D)
    BY RightIsFounded
  <2> HIDE DEF H, D
  <2> QED BY <1>2, <1>3, <1>4, RecursionExists
<1>6. PICK f \in [D -> D] : Solves(f, H, D)
  BY <1>5
<1>7. \A k \in D : f[k] = IF s <= nd[k].size \/ nd[k].right = 0 THEN k ELSE f[nd[k].right]
  BY <1>6 DEF Solves
<1>8. P(f)
  BY <1>7
<1>9. Down(nd, s) = CHOOSE d : P(d)
  BY DEF Down
<1> HIDE DEF P
<1>10. P(Down(nd, s))
  BY <1>8, <1>9
<1> QED BY <1>10 DEF P

\* The search for the last place of the same size.
Same(nd, s) ==
  LET same[k \in DOMAIN nd] ==
        IF nd[nd[k].right].size = s THEN same[nd[k].right] ELSE k
  IN same

\* The equation of the search for the last of equal sizes has a solution.
LEMMA SameSolves ==
  ASSUME NEW nd, IsArray(nd), NoCycle(nd), NEW s, s # 0
  PROVE  Same(nd, s) = [k \in DOMAIN nd |->
            IF nd[nd[k].right].size = s THEN Same(nd, s)[nd[k].right] ELSE k]
<1> DEFINE D == DOMAIN nd
           H == [k \in D |-> [f \in [D -> D] |->
                   IF nd[nd[k].right].size = s THEN f[nd[k].right] ELSE k]]
           P(d) == d = [k \in D |-> IF nd[nd[k].right].size = s THEN d[nd[k].right] ELSE k]
<1>1. \A k \in D : nd[k].right \in D
  BY DEF IsArray, Node
<1>2. H \in [D -> [[D -> D] -> D]]
  BY <1>1
<1>3. Follows(H, RightOf(nd), D, D)
  <2> SUFFICES ASSUME NEW k \in D, NEW f \in [D -> D], NEW g \in [D -> D],
                      \A j \in D : <<j, k>> \in RightOf(nd) => f[j] = g[j]
               PROVE  H[k][f] = H[k][g]
    BY DEF Follows
  <2>1. CASE nd[k].right = 0
    BY <2>1 DEF IsArray
  <2>2. CASE nd[k].right # 0
    <3>1. k # 0
      BY <2>2 DEF IsArray
    <3>2. f[nd[k].right] = g[nd[k].right]
      BY <3>1, <1>1 DEF RightOf
    <3> QED BY <3>2
  <2> QED BY <2>1, <2>2
<1>4. D # {}
  BY DEF IsArray
<1>5. \E f \in [D -> D] : Solves(f, H, D)
  <2> Founded(RightOf(nd), D)
    BY RightIsFounded
  <2> HIDE DEF H, D
  <2> QED BY <1>2, <1>3, <1>4, RecursionExists
<1>6. PICK f \in [D -> D] : Solves(f, H, D)
  BY <1>5
<1>7. \A k \in D : f[k] = IF nd[nd[k].right].size = s THEN f[nd[k].right] ELSE k
  BY <1>6 DEF Solves
<1>8. P(f)
  BY <1>7
<1>9. Same(nd, s) = CHOOSE d : P(d)
  BY DEF Same
<1> HIDE DEF P
<1>10. P(Same(nd, s))
  BY <1>8, <1>9
<1> QED BY <1>10 DEF P

\* The search of Found, from every place.
First(nd, s) ==
  LET down[k \in DOMAIN nd] ==
        IF k = 0 THEN 0 ELSE IF s <= nd[k].size THEN Same(nd, s)[k] ELSE down[nd[k].right]
  IN down

\* The equation of Found has a solution.
LEMMA FirstSolves ==
  ASSUME NEW nd, IsArray(nd), NoCycle(nd), NEW s, s # 0
  PROVE  First(nd, s) = [k \in DOMAIN nd |->
            IF k = 0 THEN 0 ELSE IF s <= nd[k].size THEN Same(nd, s)[k]
                                 ELSE First(nd, s)[nd[k].right]]
<1> DEFINE D == DOMAIN nd
           V == D \cup {Same(nd, s)[k] : k \in D}
           H == [k \in D |-> [f \in [D -> V] |->
                   IF k = 0 THEN 0 ELSE IF s <= nd[k].size THEN Same(nd, s)[k] ELSE f[nd[k].right]]]
           P(d) == d = [k \in D |-> IF k = 0 THEN 0 ELSE IF s <= nd[k].size THEN Same(nd, s)[k]
                                                         ELSE d[nd[k].right]]
<1>1. 0 \in D /\ \A k \in D : nd[k].right \in D
  BY DEF IsArray, Node
<1>2. H \in [D -> [[D -> V] -> V]]
  BY <1>1
<1>3. Follows(H, RightOf(nd), D, V)
  <2> SUFFICES ASSUME NEW k \in D, NEW f \in [D -> V], NEW g \in [D -> V],
                      \A j \in D : <<j, k>> \in RightOf(nd) => f[j] = g[j]
               PROVE  H[k][f] = H[k][g]
    BY DEF Follows
  <2>1. CASE k = 0
    BY <2>1
  <2>2. CASE k # 0
    <3>1. f[nd[k].right] = g[nd[k].right]
      BY <2>2, <1>1 DEF RightOf
    <3> QED BY <3>1
  <2> QED BY <2>1, <2>2
<1>4. V # {}
  BY <1>1
<1>5. \E f \in [D -> V] : Solves(f, H, D)
  <2> Founded(RightOf(nd), D)
    BY RightIsFounded
  <2> HIDE DEF H, D, V
  <2> QED BY <1>2, <1>3, <1>4, RecursionExists
<1>6. PICK f \in [D -> V] : Solves(f, H, D)
  BY <1>5
<1>7. \A k \in D : f[k] = IF k = 0 THEN 0 ELSE IF s <= nd[k].size THEN Same(nd, s)[k]
                                               ELSE f[nd[k].right]
  BY <1>6 DEF Solves
<1>8. P(f)
  BY <1>7
<1>9. First(nd, s) = CHOOSE d : P(d)
  BY DEF First
<1> HIDE DEF P
<1>10. P(First(nd, s))
  BY <1>8, <1>9
<1> QED BY <1>10 DEF P

\* The places of the tree below one.
Below(nd) ==
  LET below[k \in DOMAIN nd] ==
        IF k = 0 THEN {} ELSE {k} \cup below[nd[k].left] \cup below[nd[k].right]
  IN below

\* The equation of Linked has a solution; nothing comes from the left.
LEMMA BelowSolves ==
  ASSUME NEW nd, IsArray(nd), NoCycle(nd)
  PROVE  /\ Below(nd) = [k \in DOMAIN nd |->
              IF k = 0 THEN {} ELSE {k} \cup Below(nd)[nd[k].left] \cup Below(nd)[nd[k].right]]
         /\ \A k \in DOMAIN nd : Below(nd)[k] = IF k = 0 THEN {} ELSE {k} \cup Below(nd)[nd[k].right]
<1> DEFINE D == DOMAIN nd
           V == SUBSET D
           H == [k \in D |-> [f \in [D -> V] |-> IF k = 0 THEN {} ELSE {k} \cup f[nd[k].right]]]
           P(d) == d = [k \in D |-> IF k = 0 THEN {} ELSE {k} \cup d[nd[k].left] \cup d[nd[k].right]]
<1>1. 0 \in D /\ \A k \in D : nd[k].right \in D /\ nd[k].left = 0
  BY DEF IsArray, Node
<1>2. H \in [D -> [[D -> V] -> V]]
  BY <1>1
<1>3. Follows(H, RightOf(nd), D, V)
  <2> SUFFICES ASSUME NEW k \in D, NEW f \in [D -> V], NEW g \in [D -> V],
                      \A j \in D : <<j, k>> \in RightOf(nd) => f[j] = g[j]
               PROVE  H[k][f] = H[k][g]
    BY DEF Follows
  <2>1. CASE k = 0
    BY <2>1
  <2>2. CASE k # 0
    <3>1. f[nd[k].right] = g[nd[k].right]
      BY <2>2, <1>1 DEF RightOf
    <3> QED BY <3>1
  <2> QED BY <2>1, <2>2
<1>4. V # {}
  OBVIOUS
<1>5. \E f \in [D -> V] : Solves(f, H, D)
  <2> Founded(RightOf(nd), D)
    BY RightIsFounded
  <2> HIDE DEF H, D, V
  <2> QED BY <1>2, <1>3, <1>4, RecursionExists
<1>6. PICK f \in [D -> V] : Solves(f, H, D)
  BY <1>5
<1>7. \A k \in D : f[k] = IF k = 0 THEN {} ELSE {k} \cup f[nd[k].right]
  BY <1>6 DEF Solves
<1>8. P(f)
  BY <1>1, <1>7
<1>9. Below(nd) = CHOOSE d : P(d)
  BY DEF Below
<1> HIDE DEF P
<1>10. P(Below(nd))
  BY <1>8, <1>9
<1>11. Below(nd)[0] = {}
  BY <1>10, <1>1 DEF P
<1>12. ASSUME NEW k \in D, k # 0 PROVE Below(nd)[k] = {k} \cup Below(nd)[nd[k].right]
  <2> HIDE DEF D
  <2>1. Below(nd)[k] = {k} \cup Below(nd)[nd[k].left] \cup Below(nd)[nd[k].right]
    BY <1>10, <1>12 DEF P
  <2> QED BY <2>1, <1>1, <1>11
<1> QED BY <1>10, <1>11, <1>12 DEF P

-----------------------------------------------------------------------------
\* The loop of mchar_async_cache_add stops at the first place that is not smaller.
LEMMA DownStops ==
  ASSUME NEW nd, IsArray(nd), NoCycle(nd), NEW root, NEW n, NEW ch, IsChain(nd, root, n, ch),
         n # 0, NEW s \in Sizes
  PROVE  \E p \in 1 .. n :
           /\ Down(nd, s)[root] = ch[p]
           /\ s <= nd[ch[p]].size \/ p = n
           /\ \A j \in 1 .. p - 1 : nd[ch[j]].size < s
<1> USE CacheAssumption
<1> DEFINE stop(j) == s <= nd[ch[j]].size \/ j = n
<1>0. n \in Nat /\ \A j \in 1 .. n : ch[j] \in DOMAIN nd /\ ch[j] # 0 /\ nd[ch[j]].size \in Nat
  BY DEF IsChain
<1>1. PICK p \in 1 .. n : stop(p) /\ \A j \in 1 .. n : stop(j) => p <= j
  <2> DEFINE S == {j \in 1 .. n : stop(j)}
  <2>1. n \in S /\ \A k \in S : k \in Nat
    BY <1>0
  <2>2. \E m \in S : \A k \in S : m <= k
    <3> HIDE DEF S
    <3> QED BY <2>1, Least
  <2> QED BY <2>2
<1>2. \A j \in 1 .. p - 1 : ~ stop(j)
  BY <1>0, <1>1
<1>3. ASSUME NEW j \in 1 .. p - 1 PROVE Down(nd, s)[ch[j]] = Down(nd, s)[ch[j + 1]]
  <2>1. j \in 1 .. n /\ j # n /\ ~ (s <= nd[ch[j]].size) /\ j + 1 \in 1 .. n
    BY <1>0, <1>2
  <2>2. nd[ch[j]].right = ch[j + 1] /\ ch[j + 1] # 0 /\ ch[j] \in DOMAIN nd
    BY <2>1, <1>0 DEF IsChain
  <2> QED BY <2>1, <2>2, DownSolves
<1>4. \A d \in Nat : d < p => Down(nd, s)[ch[1]] = Down(nd, s)[ch[d + 1]]
  <2> DEFINE S == {d \in Nat : d < p => Down(nd, s)[ch[1]] = Down(nd, s)[ch[d + 1]]}
  <2>1. 0 \in S
    OBVIOUS
  <2>2. ASSUME NEW d \in Nat, d \in S PROVE d + 1 \in S
    <3> SUFFICES ASSUME d + 1 < p PROVE Down(nd, s)[ch[1]] = Down(nd, s)[ch[d + 1 + 1]]
      OBVIOUS
    <3>1. d + 1 \in 1 .. p - 1
      BY <1>0
    <3> QED BY <3>1, <2>2, <1>3
  <2> HIDE DEF S
  <2>3. Nat \subseteq S
    BY <2>1, <2>2, NatSetInduction
  <2> QED BY <2>3 DEF S
<1>5. p - 1 \in Nat /\ (p - 1) + 1 = p
  BY <1>0
<1>6. Down(nd, s)[ch[1]] = Down(nd, s)[ch[p]]
  BY <1>4, <1>5
<1>7. Down(nd, s)[ch[p]] = ch[p]
  <2>1. p = n => nd[ch[p]].right = 0
    BY DEF IsChain
  <2>2. ch[p] \in DOMAIN nd
    BY <1>0
  <2> QED BY <2>1, <2>2, <1>1, DownSolves
<1>8. root = ch[1]
  BY DEF IsChain
<1>9. \A j \in 1 .. p - 1 : nd[ch[j]].size < s
  BY <1>0, <1>2
<1> QED BY <1>1, <1>6, <1>7, <1>8, <1>9

\* Among places of the same size the search of mchar_async_cache_delete goes on.
LEMMA SameStops ==
  ASSUME NEW nd, IsArray(nd), NoCycle(nd), NEW root, NEW n, NEW ch, IsChain(nd, root, n, ch),
         NEW s \in Sizes
  PROVE  \A j \in 1 .. n : \E q \in j .. n :
           Same(nd, s)[ch[j]] = ch[q] /\ (q = j \/ nd[ch[q]].size = s)
<1> USE CacheAssumption
<1> DEFINE ok(j) == \E q \in j .. n : Same(nd, s)[ch[j]] = ch[q] /\ (q = j \/ nd[ch[q]].size = s)
           S == {d \in Nat : \A j \in 1 .. n : n - j = d => ok(j)}
<1>0. n \in Nat /\ s # 0 /\ \A j \in 1 .. n : ch[j] \in DOMAIN nd
  BY DEF IsChain
<1>1. \A j \in 1 .. n : Same(nd, s)[ch[j]] =
         IF nd[nd[ch[j]].right].size = s THEN Same(nd, s)[nd[ch[j]].right] ELSE ch[j]
  BY <1>0, SameSolves
<1>2. 0 \in S
  <2> SUFFICES ASSUME n \in 1 .. n PROVE ok(n)
    BY <1>0
  <2>1. nd[ch[n]].right = 0 /\ nd[0].size = 0
    BY DEF IsChain, IsArray
  <2>2. Same(nd, s)[ch[n]] = ch[n]
    BY <2>1, <1>0, <1>1
  <2> QED BY <2>2
<1>3. ASSUME NEW d \in Nat, d \in S PROVE d + 1 \in S
  <2> SUFFICES ASSUME NEW j \in 1 .. n, n - j = d + 1 PROVE ok(j)
    OBVIOUS
  <2>1. j + 1 \in 1 .. n /\ n - (j + 1) = d /\ j # n
    BY <1>0
  <2>2. PICK q \in j + 1 .. n : Same(nd, s)[ch[j + 1]] = ch[q] /\ (q = j + 1 \/ nd[ch[q]].size = s)
    BY <1>3, <2>1
  <2>3. nd[ch[j]].right = ch[j + 1]
    BY <2>1 DEF IsChain
  <2>4. CASE nd[ch[j + 1]].size = s
    <3>1. Same(nd, s)[ch[j]] = Same(nd, s)[ch[j + 1]]
      BY <1>1, <2>3, <2>4
    <3>2. nd[ch[q]].size = s
      BY <2>2, <2>4
    <3>3. q \in j .. n
      BY <1>0
    <3> QED BY <2>2, <3>1, <3>2, <3>3
  <2>5. CASE nd[ch[j + 1]].size # s
    <3>1. Same(nd, s)[ch[j]] = ch[j] /\ j \in j .. n
      BY <1>0, <1>1, <2>3, <2>5
    <3> QED BY <3>1
  <2> QED BY <2>4, <2>5
<1>4. Nat \subseteq S
  <2> HIDE DEF S
  <2> QED BY <1>2, <1>3, NatSetInduction
<1> QED BY <1>0, <1>4

\* What mchar_async_cache_delete finds: no place, if all are too small, or one of
\* the smallest that are not.
LEMMA FirstStops ==
  ASSUME NEW nd, IsArray(nd), NoCycle(nd), NEW root, NEW n, NEW ch, IsChain(nd, root, n, ch),
         NEW s \in Sizes
  PROVE  \/ /\ First(nd, s)[root] = 0
            /\ \A j \in 1 .. n : nd[ch[j]].size < s
         \/ \E q \in 1 .. n :
              /\ First(nd, s)[root] = ch[q] /\ s <= nd[ch[q]].size
              /\ \A j \in 1 .. n : s <= nd[ch[j]].size => nd[ch[q]].size <= nd[ch[j]].size
<1> USE CacheAssumption
<1> DEFINE f == First(nd, s)
           S == {d \in Nat : d < n => ((\A j \in 1 .. d : nd[ch[j]].size < s) => f[ch[1]] = f[ch[d + 1]])}
<1>0. n \in Nat /\ s \in Nat /\ s # 0
      /\ \A j \in 1 .. n : ch[j] \in DOMAIN nd /\ ch[j] # 0 /\ nd[ch[j]].size \in Nat
  BY DEF IsChain
<1>1. \A k \in DOMAIN nd : f[k] = IF k = 0 THEN 0 ELSE IF s <= nd[k].size THEN Same(nd, s)[k]
                                                       ELSE f[nd[k].right]
  BY <1>0, FirstSolves
<1> HIDE DEF f
<1>2. 0 \in DOMAIN nd /\ f[0] = 0
  BY <1>1 DEF IsArray
<1>3. ASSUME NEW j \in 1 .. n, nd[ch[j]].size < s
      PROVE  f[ch[j]] = IF j = n THEN 0 ELSE f[ch[j + 1]]
  <2>1. nd[ch[j]].right = IF j = n THEN 0 ELSE ch[j + 1]
    BY DEF IsChain
  <2>2. f[ch[j]] = f[nd[ch[j]].right]
    BY <1>0, <1>1, <1>3
  <2> QED BY <2>1, <2>2, <1>2
<1>4. Nat \subseteq S
  <2>1. 0 \in S
    OBVIOUS
  <2>2. ASSUME NEW d \in Nat, d \in S PROVE d + 1 \in S
    <3> SUFFICES ASSUME d + 1 < n, \A j \in 1 .. d + 1 : nd[ch[j]].size < s
                 PROVE f[ch[1]] = f[ch[d + 1 + 1]]
      OBVIOUS
    <3>1. f[ch[1]] = f[ch[d + 1]]
      BY <2>2, <1>0
    <3>2. d + 1 \in 1 .. n /\ nd[ch[d + 1]].size < s /\ d + 1 # n
      BY <1>0
    <3>3. f[ch[d + 1]] = f[ch[d + 1 + 1]]
      BY <3>2, <1>3
    <3> QED BY <3>1, <3>3
  <2> HIDE DEF S
  <2> QED BY <2>1, <2>2, NatSetInduction
<1>5. CASE \A j \in 1 .. n : nd[ch[j]].size < s
  <2>1. CASE n = 0
    BY <2>1, <1>2, <1>5 DEF IsChain, f
  <2>2. CASE n # 0
    <3>1. n - 1 \in Nat /\ n - 1 < n /\ (n - 1) + 1 = n /\ n \in 1 .. n
      BY <2>2, <1>0
    <3>2. f[ch[1]] = f[ch[n]]
      BY <3>1, <1>4, <1>5
    <3>3. f[ch[n]] = 0
      BY <3>1, <1>3, <1>5
    <3>4. root = ch[1]
      BY <2>2 DEF IsChain
    <3> QED BY <3>2, <3>3, <3>4, <1>5 DEF f
  <2> QED BY <2>1, <2>2
<1>6. CASE \E j \in 1 .. n : s <= nd[ch[j]].size
  <2>1. PICK p \in 1 .. n : /\ s <= nd[ch[p]].size
                           /\ \A j \in 1 .. n : s <= nd[ch[j]].size => p <= j
    <3> DEFINE G == {j \in 1 .. n : s <= nd[ch[j]].size}
    <3>1. G # {} /\ \A k \in G : k \in Nat
      BY <1>6
    <3>2. \E m \in G : \A k \in G : m <= k
      <4> HIDE DEF G
      <4> QED BY <3>1, Least
    <3> QED BY <3>2
  <2>2. p - 1 \in Nat /\ p - 1 < n /\ (p - 1) + 1 = p /\ n # 0
    BY <1>0
  <2>3. \A j \in 1 .. p - 1 : nd[ch[j]].size < s
    BY <2>1, <1>0
  <2>4. f[ch[1]] = f[ch[p]]
    BY <2>2, <2>3, <1>4
  <2>5. f[ch[p]] = Same(nd, s)[ch[p]]
    BY <2>1, <1>0, <1>1
  <2>6. PICK q \in p .. n : Same(nd, s)[ch[p]] = ch[q] /\ (q = p \/ nd[ch[q]].size = s)
    BY SameStops
  <2>7. q \in 1 .. n /\ s <= nd[ch[q]].size
    BY <2>1, <2>6, <1>0
  <2>8. ASSUME NEW j \in 1 .. n, s <= nd[ch[j]].size PROVE nd[ch[q]].size <= nd[ch[j]].size
    <3>1. CASE nd[ch[q]].size = s
      BY <3>1, <2>8
    <3>2. CASE q = p
      <4>1. p <= j
        BY <2>1, <2>8
      <4>2. p < j => nd[ch[p]].size <= nd[ch[j]].size
        BY DEF IsChain
      <4> QED BY <4>1, <4>2, <3>2, <1>0
    <3> QED BY <3>1, <3>2, <2>6
  <2>9. root = ch[1]
    BY <2>2 DEF IsChain
  <2> QED BY <2>4, <2>5, <2>6, <2>7, <2>8, <2>9 DEF f
<1> QED BY <1>0, <1>5, <1>6

\* The places of the tree are those of the chain.
LEMMA BelowIsChain ==
  ASSUME NEW nd, IsArray(nd), NoCycle(nd), NEW root, NEW n, NEW ch, IsChain(nd, root, n, ch)
  PROVE  Below(nd)[root] = On(n, ch)
<1> DEFINE S == {d \in Nat : \A j \in 1 .. n : n - j = d => Below(nd)[ch[j]] = {ch[i] : i \in j .. n}}
<1>0. n \in Nat /\ 0 \in DOMAIN nd /\ \A j \in 1 .. n : ch[j] \in DOMAIN nd /\ ch[j] # 0
  BY DEF IsChain, IsArray
<1>1. Below(nd)[0] = {}
  BY <1>0, BelowSolves
<1>2. \A j \in 1 .. n : Below(nd)[ch[j]] = {ch[j]} \cup Below(nd)[nd[ch[j]].right]
  BY <1>0, BelowSolves
<1>3. 0 \in S
  <2> SUFFICES ASSUME n \in 1 .. n PROVE Below(nd)[ch[n]] = {ch[i] : i \in n .. n}
    BY <1>0
  <2>1. nd[ch[n]].right = 0
    BY DEF IsChain
  <2> QED BY <2>1, <1>1, <1>2
<1>4. ASSUME NEW d \in Nat, d \in S PROVE d + 1 \in S
  <2> SUFFICES ASSUME NEW j \in 1 .. n, n - j = d + 1 PROVE Below(nd)[ch[j]] = {ch[i] : i \in j .. n}
    OBVIOUS
  <2>1. j + 1 \in 1 .. n /\ n - (j + 1) = d /\ j # n
    BY <1>0
  <2>2. Below(nd)[ch[j + 1]] = {ch[i] : i \in j + 1 .. n}
    BY <1>4, <2>1
  <2>3. nd[ch[j]].right = ch[j + 1]
    BY <2>1 DEF IsChain
  <2>4. {ch[i] : i \in j .. n} = {ch[j]} \cup {ch[i] : i \in j + 1 .. n}
    BY <2>1, <1>0
  <2> QED BY <2>2, <2>3, <2>4, <1>2
<1>5. Nat \subseteq S
  <2> HIDE DEF S
  <2> QED BY <1>3, <1>4, NatSetInduction
<1>6. CASE n = 0
  BY <1>6, <1>1 DEF IsChain, On
<1>7. CASE n # 0
  <2>1. 1 \in 1 .. n /\ n - 1 \in Nat /\ root = ch[1]
    BY <1>0, <1>7 DEF IsChain
  <2> QED BY <2>1, <1>5 DEF On
<1> QED BY <1>6, <1>7

-----------------------------------------------------------------------------
\* A chain has no circle, and what is not on it was not changed.
LEMMA NoNewCycle ==
  ASSUME NEW nd, NEW nd2, NoCycle(nd), NEW root, NEW n, NEW ch, IsChain(nd2, root, n, ch),
         \A k \in DOMAIN nd2 \ {0} : k \notin On(n, ch) => k \in DOMAIN nd /\ nd2[k].right = nd[k].right
  PROVE  NoCycle(nd2)
<1> SUFFICES ASSUME NEW T \in SUBSET (DOMAIN nd2 \ {0}), T # {}
             PROVE  \E k \in T : nd2[k].right \notin T
  BY DEF NoCycle
<1>1. CASE T \cap On(n, ch) = {}
  <2>1. T \in SUBSET (DOMAIN nd \ {0})
    BY <1>1
  <2>2. PICK k \in T : nd[k].right \notin T
    BY <2>1 DEF NoCycle
  <2> QED BY <2>2, <1>1
<1>2. CASE T \cap On(n, ch) # {}
  <2> DEFINE G == {j \in 1 .. n : ch[j] \in T}
  <2>1. n \in Nat /\ \A k \in G : k \in Nat /\ k <= n
    BY DEF IsChain
  <2>2. G # {}
    BY <1>2 DEF On
  <2>3. \E m \in G : \A k \in G : k <= m
    <3> HIDE DEF G
    <3> QED BY <2>1, <2>2, Greatest
  <2>4. PICK m \in G : \A k \in G : k <= m
    BY <2>3
  <2>5. m \in 1 .. n /\ ch[m] \in T /\ nd2[ch[m]].right = (IF m = n THEN 0 ELSE ch[m + 1])
    BY DEF IsChain
  <2>6. nd2[ch[m]].right \notin T
    <3>1. CASE m = n
      BY <3>1, <2>5
    <3>2. CASE m # n
      <4>1. m + 1 \in 1 .. n /\ ~ (m + 1 <= m)
        BY <2>1, <2>5, <3>2
      <4>2. m + 1 \notin G
        BY <4>1, <2>4
      <4> QED BY <4>1, <4>2, <2>5, <3>2
    <3> QED BY <3>1, <3>2
  <2> QED BY <2>5, <2>6
<1> QED BY <1>1, <1>2

\* The place before the q-th of a chain, 0 if there is none.
Prev(ch, q) == IF q = 1 THEN 0 ELSE ch[q - 1]

\* The array with a region at place k between two that are next to each other.
Between(nd, up, down, k, s, v) ==
  [j \in DOMAIN nd \cup {k} |->
     IF j = k THEN Region(up, down, s, v)
     ELSE IF j # 0 /\ j = up THEN [nd[j] EXCEPT !.right = k]
     ELSE IF j # 0 /\ j = down THEN [nd[j] EXCEPT !.parent = k] ELSE nd[j]]

\* The writes of mchar_async_cache_add behind a region and before one.
Behind(nd, up, down, k, s, v) ==
  LET behind == Put(Set(nd, up, "right", k), k, Region(up, down, s, v))
  IN IF down = 0 THEN behind ELSE Set(behind, down, "parent", k)
Before(nd, up, down, k, s, v) ==
  LET before == Put(Set(nd, down, "parent", k), k, Region(up, down, s, v))
  IN IF up = 0 THEN before ELSE Set(before, up, "right", k)

\* They leave the array with the region between the two.
LEMMA BehindIsBetween ==
  ASSUME NEW nd, NEW up \in DOMAIN nd \ {0}, NEW down \in DOMAIN nd, up # down,
         NEW k, k \notin {0, up, down}, NEW s, NEW v
  PROVE  Behind(nd, up, down, k, s, v) = Between(nd, up, down, k, s, v)
<1> DEFINE b == Behind(nd, up, down, k, s, v)
           behind == Put(Set(nd, up, "right", k), k, Region(up, down, s, v))
           D == DOMAIN nd \cup {k}
<1>1. DOMAIN behind = D /\ behind = [j \in D |-> behind[j]] /\ behind[k] = Region(up, down, s, v)
  BY DEF Put, Set
<1>2. \A j \in DOMAIN nd : j # k => behind[j] = IF j = up THEN [nd[j] EXCEPT !.right = k] ELSE nd[j]
  BY DEF Put, Set
<1>3. b = IF down = 0 THEN behind ELSE Set(behind, down, "parent", k)
  BY DEF Behind
<1> HIDE DEF b, behind
<1>4. DOMAIN b = D /\ b = [j \in D |-> b[j]] /\ b[k] = Region(up, down, s, v)
  BY <1>1, <1>3 DEF Set
<1>5. ASSUME NEW j \in DOMAIN nd, j # k
      PROVE  b[j] = IF j # 0 /\ j = up THEN [nd[j] EXCEPT !.right = k]
                    ELSE IF j # 0 /\ j = down THEN [nd[j] EXCEPT !.parent = k] ELSE nd[j]
  <2>1. CASE down = 0
    BY <2>1, <1>2, <1>3, <1>5
  <2>2. CASE down # 0
    <3>1. b[j] = IF j = down THEN [behind[j] EXCEPT !.parent = k] ELSE behind[j]
      BY <2>2, <1>1, <1>3 DEF Set
    <3> QED BY <2>2, <3>1, <1>2, <1>5
  <2> QED BY <2>1, <2>2
<1>6. b = Between(nd, up, down, k, s, v)
  BY <1>4, <1>5 DEF Between
<1> QED BY <1>6 DEF b

\* The same before a region.
LEMMA BeforeIsBetween ==
  ASSUME NEW nd, NEW up \in DOMAIN nd, NEW down \in DOMAIN nd \ {0}, up # down,
         NEW k, k \notin {0, up, down}, NEW s, NEW v
  PROVE  Before(nd, up, down, k, s, v) = Between(nd, up, down, k, s, v)
<1> DEFINE b == Before(nd, up, down, k, s, v)
           before == Put(Set(nd, down, "parent", k), k, Region(up, down, s, v))
           D == DOMAIN nd \cup {k}
<1>1. DOMAIN before = D /\ before = [j \in D |-> before[j]] /\ before[k] = Region(up, down, s, v)
  BY DEF Put, Set
<1>2. \A j \in DOMAIN nd : j # k => before[j] = IF j = down THEN [nd[j] EXCEPT !.parent = k] ELSE nd[j]
  BY DEF Put, Set
<1>3. b = IF up = 0 THEN before ELSE Set(before, up, "right", k)
  BY DEF Before
<1> HIDE DEF b, before
<1>4. DOMAIN b = D /\ b = [j \in D |-> b[j]] /\ b[k] = Region(up, down, s, v)
  BY <1>1, <1>3 DEF Set
<1>5. ASSUME NEW j \in DOMAIN nd, j # k
      PROVE  b[j] = IF j # 0 /\ j = up THEN [nd[j] EXCEPT !.right = k]
                    ELSE IF j # 0 /\ j = down THEN [nd[j] EXCEPT !.parent = k] ELSE nd[j]
  <2>1. CASE up = 0
    BY <2>1, <1>2, <1>3, <1>5
  <2>2. CASE up # 0
    <3>1. b[j] = IF j = up THEN [before[j] EXCEPT !.right = k] ELSE before[j]
      BY <2>2, <1>1, <1>3 DEF Set
    <3> QED BY <2>2, <3>1, <1>2, <1>5
  <2> QED BY <2>1, <2>2
<1>6. b = Between(nd, up, down, k, s, v)
  BY <1>4, <1>5 DEF Between
<1> QED BY <1>6 DEF b

\* The array with a new region at place k, in front of the q-th of the chain.
Inserted(nd, n, ch, q, k, s, v) ==
  Between(nd, Prev(ch, q), IF q = n + 1 THEN 0 ELSE ch[q], k, s, v)
\* The chain with k as its q-th place.
Insert(n, ch, q, k) ==
  [j \in 1 .. n + 1 |-> IF j < q THEN ch[j] ELSE IF j = q THEN k ELSE ch[j - 1]]

\* What mchar_async_cache_add leaves is an array, ...
LEMMA InsertedArray ==
  ASSUME NEW nd, IsArray(nd), NEW root, NEW n, NEW ch, IsChain(nd, root, n, ch),
         NEW q \in 1 .. n + 1, NEW k \in Nat \ {0}, NEW s \in Sizes, NEW v \in Values
  PROVE  IsArray(Inserted(nd, n, ch, q, k, s, v))
<1> DEFINE nd2 == Inserted(nd, n, ch, q, k, s, v)
           next == IF q = n + 1 THEN 0 ELSE ch[q]
<1>1. n \in Nat /\ \A j \in 1 .. n : ch[j] \in DOMAIN nd
  BY DEF IsChain
<1>2. Prev(ch, q) \in DOMAIN nd /\ next \in DOMAIN nd /\ 0 \in DOMAIN nd
  BY <1>1 DEF Prev, IsArray
<1>3. DOMAIN nd2 = DOMAIN nd \cup {k} /\ nd2 = [j \in DOMAIN nd2 |-> nd2[j]]
  BY DEF Inserted, Between
<1>4. ASSUME NEW j \in DOMAIN nd2 PROVE nd2[j] \in Node(DOMAIN nd2) /\ nd2[j].left = 0
  <2>1. CASE j = k
    <3>1. nd2[j] = [parent |-> Prev(ch, q), left |-> 0, right |-> next, size |-> s, value |-> v]
      BY <2>1, <1>3 DEF Inserted, Between, Region
    <3> HIDE DEF nd2, next
    <3> QED BY <3>1, <1>2, <1>3 DEF Node
  <2>2. CASE j # k
    <3>1. nd2[j] = IF j # 0 /\ j = Prev(ch, q) THEN [nd[j] EXCEPT !.right = k]
                   ELSE IF j # 0 /\ j = next THEN [nd[j] EXCEPT !.parent = k] ELSE nd[j]
      BY <2>2, <1>3 DEF Inserted, Between
    <3>2. nd[j] \in Node(DOMAIN nd) /\ nd[j].left = 0
      BY <2>2, <1>3 DEF IsArray
    <3> HIDE DEF nd2, next
    <3> QED BY <3>1, <3>2, <1>2, <1>3 DEF Node
  <2> QED BY <2>1, <2>2
<1>5. nd2[0] = nd[0]
  BY <1>2 DEF Inserted, Between
<1> HIDE DEF nd2
<1>6. nd2[0].size = 0 /\ nd2[0].right = 0
  BY <1>5 DEF IsArray
<1>7. DOMAIN nd2 \subseteq Nat
  BY <1>3 DEF IsArray
<1>8. nd2 \in [DOMAIN nd2 -> Node(DOMAIN nd2)]
  BY <1>3, <1>4
<1> QED BY <1>2, <1>3, <1>4, <1>6, <1>7, <1>8 DEF IsArray, nd2

\* ... and a chain with one place more, if the region is put where its size belongs.
LEMMA InsertedChain ==
  ASSUME NEW nd, IsArray(nd), NEW root, NEW n, NEW ch, IsChain(nd, root, n, ch),
         NEW q \in 1 .. n + 1, NEW k \in Nat \ {0}, k \notin On(n, ch),
         NEW s \in Sizes, NEW v \in Values,
         \A j \in 1 .. n : j < q => nd[ch[j]].size <= s,
         \A j \in 1 .. n : q <= j => s <= nd[ch[j]].size,
         \A j \in 1 .. n : nd[ch[j]].value # v
  PROVE  /\ IsChain(Inserted(nd, n, ch, q, k, s, v), IF q = 1 THEN k ELSE root,
                    n + 1, Insert(n, ch, q, k))
         /\ On(n + 1, Insert(n, ch, q, k)) = On(n, ch) \cup {k}
<1> USE CacheAssumption
<1> DEFINE nd2 == Inserted(nd, n, ch, q, k, s, v)
           ch2 == Insert(n, ch, q, k)
           next == IF q = n + 1 THEN 0 ELSE ch[q]
           prev == Prev(ch, q)
           at(j) == IF j < q THEN j ELSE j - 1
<1>0. n \in Nat /\ n + 1 \in Nat /\ \A j \in 1 .. n : ch[j] \in DOMAIN nd \ {0} /\ ch[j] # k
  BY DEF IsChain, On
<1>1. /\ DOMAIN nd2 = DOMAIN nd \cup {k}
      /\ nd2[k] = [parent |-> prev, left |-> 0, right |-> next, size |-> s, value |-> v]
  BY DEF Inserted, Between, Region
<1>2. \A j \in 1 .. n : nd2[ch[j]] = IF ch[j] = prev THEN [nd[ch[j]] EXCEPT !.right = k]
                         ELSE IF ch[j] = next THEN [nd[ch[j]] EXCEPT !.parent = k] ELSE nd[ch[j]]
  BY <1>0 DEF Inserted, Between
<1>3. \A j \in 1 .. n : nd[ch[j]] \in Node(DOMAIN nd)
  BY <1>0 DEF IsArray
<1>4. \A i, j \in 1 .. n : ch[i] = ch[j] => i = j
  BY <1>0 DEF IsChain
<1>5. \A j \in 1 .. n : (ch[j] = prev <=> j + 1 = q) /\ (ch[j] = next <=> j = q)
  <2> SUFFICES ASSUME NEW j \in 1 .. n PROVE (ch[j] = prev <=> j + 1 = q) /\ (ch[j] = next <=> j = q)
    OBVIOUS
  <2>1. ch[j] = prev <=> j + 1 = q
    <3>1. CASE q = 1
      BY <3>1, <1>0 DEF Prev
    <3>2. CASE q # 1
      <4>1. q - 1 \in 1 .. n /\ prev = ch[q - 1]
        BY <3>2, <1>0 DEF Prev
      <4>2. ch[j] = ch[q - 1] <=> j = q - 1
        BY <4>1, <1>4
      <4> QED BY <4>1, <4>2, <1>0
    <3> QED BY <3>1, <3>2
  <2>2. ch[j] = next <=> j = q
    <3>1. CASE q = n + 1
      BY <3>1, <1>0
    <3>2. CASE q # n + 1
      <4>1. q \in 1 .. n
        BY <3>2, <1>0
      <4> QED BY <4>1, <1>4, <3>2
    <3> QED BY <3>1, <3>2
  <2> QED BY <2>1, <2>2
<1>6. ASSUME NEW j \in 1 .. n
      PROVE  /\ nd2[ch[j]].right = IF ch[j] = prev THEN k ELSE nd[ch[j]].right
             /\ nd2[ch[j]].parent = IF ch[j] = next THEN k ELSE nd[ch[j]].parent
             /\ nd2[ch[j]].size = nd[ch[j]].size
             /\ nd2[ch[j]].value = nd[ch[j]].value
  <2>1. ~ (ch[j] = prev /\ ch[j] = next)
    BY <1>0, <1>5
  <2> HIDE DEF nd2, prev, next
  <2> QED BY <2>1, <1>2, <1>3 DEF Node
<1>7. /\ DOMAIN ch2 = 1 .. n + 1 /\ ch2 = [j \in 1 .. n + 1 |-> ch2[j]]
      /\ \A j \in 1 .. n + 1 : ch2[j] = IF j < q THEN ch[j] ELSE IF j = q THEN k ELSE ch[j - 1]
  BY DEF Insert
<1>8. \A j \in 1 .. n + 1 : j # q => at(j) \in 1 .. n /\ ch2[j] = ch[at(j)]
  BY <1>0, <1>7
<1>9. ch2[q] = k
  BY <1>7
<1>10. nd2[k].right = next /\ nd2[k].parent = prev /\ nd2[k].size = s /\ nd2[k].value = v
  BY <1>1
<1> HIDE DEF nd2, ch2
<1>11. ch2 \in [1 .. n + 1 -> DOMAIN nd2 \ {0}]
  BY <1>0, <1>1, <1>7, <1>8, <1>9
<1>12. (IF q = 1 THEN k ELSE root) = (IF n + 1 = 0 THEN 0 ELSE ch2[1])
  <2>1. 1 \in 1 .. n + 1 /\ n + 1 # 0
    BY <1>0
  <2>2. q # 1 => n # 0 /\ ch2[1] = ch[1]
    BY <1>0, <1>7, <2>1
  <2> QED BY <2>1, <2>2, <1>9 DEF IsChain
<1>13. \A j \in 1 .. n : /\ nd[ch[j]].right = (IF j = n THEN 0 ELSE ch[j + 1])
                        /\ nd[ch[j]].parent = (IF j = 1 THEN 0 ELSE ch[j - 1])
                        /\ nd[ch[j]].size \in Sizes /\ nd[ch[j]].value \in Values
  BY DEF IsChain
<1>14. ASSUME NEW j \in 1 .. n + 1
       PROVE  /\ nd2[ch2[j]].right = (IF j = n + 1 THEN 0 ELSE ch2[j + 1])
              /\ nd2[ch2[j]].parent = (IF j = 1 THEN 0 ELSE ch2[j - 1])
              /\ nd2[ch2[j]].size \in Sizes /\ nd2[ch2[j]].value \in Values
  <2>1. CASE j = q
    <3>1. (IF j = n + 1 THEN 0 ELSE ch2[j + 1]) = next
      <4>1. CASE j # n + 1
        <5>1. j + 1 \in 1 .. n + 1 /\ ~ (j + 1 < q) /\ j + 1 # q /\ (j + 1) - 1 = j
          BY <4>1, <2>1, <1>0
        <5> QED BY <5>1, <4>1, <2>1, <1>7
      <4> QED BY <4>1, <2>1
    <3>2. (IF j = 1 THEN 0 ELSE ch2[j - 1]) = prev
      <4>1. CASE j # 1
        <5>1. j - 1 \in 1 .. n + 1 /\ j - 1 < q
          BY <4>1, <2>1, <1>0
        <5> QED BY <5>1, <4>1, <2>1, <1>7 DEF Prev
      <4> QED BY <4>1, <2>1 DEF Prev
    <3> QED BY <2>1, <3>1, <3>2, <1>9, <1>10
  <2>2. CASE j < q
    <3>1. j \in 1 .. n /\ ch2[j] = ch[j] /\ j # n + 1 /\ j # q
      BY <2>2, <1>0, <1>7
    <3>2. nd2[ch2[j]].right = ch2[j + 1]
      <4>1. CASE j + 1 = q
        BY <4>1, <3>1, <1>6, <1>5, <1>9
      <4>2. CASE j + 1 # q
        <5>1. j # n /\ j + 1 < q /\ j + 1 \in 1 .. n + 1
          BY <4>2, <2>2, <3>1, <1>0
        <5> QED BY <5>1, <4>2, <3>1, <1>6, <1>5, <1>7, <1>13
      <4> QED BY <4>1, <4>2
    <3>3. nd2[ch2[j]].parent = (IF j = 1 THEN 0 ELSE ch2[j - 1])
      <4>1. j # 1 => j - 1 \in 1 .. n + 1 /\ j - 1 < q
        BY <2>2, <3>1, <1>0
      <4> QED BY <4>1, <3>1, <1>6, <1>5, <1>7, <1>13
    <3> QED BY <3>1, <3>2, <3>3, <1>6, <1>13
  <2>3. CASE q < j
    <3> DEFINE i == j - 1
    <3>1. i \in 1 .. n /\ ch2[j] = ch[i] /\ i + 1 # q /\ j # 1 /\ i + 1 = j
      BY <2>3, <1>0, <1>7
    <3>2. nd2[ch2[j]].right = (IF j = n + 1 THEN 0 ELSE ch2[j + 1])
      <4>1. nd2[ch2[j]].right = (IF i = n THEN 0 ELSE ch[i + 1])
        BY <3>1, <1>6, <1>5, <1>13
      <4>2. CASE j # n + 1
        <5>1. j + 1 \in 1 .. n + 1 /\ ~ (j + 1 < q) /\ j + 1 # q /\ (j + 1) - 1 = i + 1 /\ i # n
          BY <4>2, <2>3, <1>0
        <5> QED BY <5>1, <4>1, <4>2, <1>7
      <4>3. CASE j = n + 1
        BY <4>3, <4>1, <1>0
      <4> QED BY <4>2, <4>3
    <3>3. nd2[ch2[j]].parent = ch2[j - 1]
      <4>1. CASE i = q
        BY <4>1, <3>1, <1>6, <1>5, <1>9
      <4>2. CASE i # q
        <5>1. i # 1 /\ i \in 1 .. n + 1 /\ ~ (i < q)
          BY <4>2, <2>3, <1>0
        <5>2. ch2[i] = ch[i - 1]
          BY <5>1, <4>2, <1>7
        <5> QED BY <5>1, <5>2, <4>2, <3>1, <1>6, <1>5, <1>13
      <4> QED BY <4>1, <4>2
    <3> QED BY <3>1, <3>2, <3>3, <1>6, <1>13
  <2> QED BY <2>1, <2>2, <2>3, <1>0
<1>15. ASSUME NEW i \in 1 .. n + 1, NEW j \in 1 .. n + 1, i < j
       PROVE  /\ ch2[i] # ch2[j] /\ nd2[ch2[i]].size <= nd2[ch2[j]].size
              /\ nd2[ch2[i]].value # nd2[ch2[j]].value
  <2>1. CASE i = q
    <3>1. at(j) \in 1 .. n /\ q <= at(j) /\ ch2[j] = ch[at(j)]
      BY <2>1, <1>0, <1>8, <1>15
    <3> HIDE DEF at
    <3> QED BY <2>1, <3>1, <1>0, <1>6, <1>9, <1>10
  <2>2. CASE j = q
    <3>1. at(i) \in 1 .. n /\ at(i) < q /\ ch2[i] = ch[at(i)]
      BY <2>2, <1>0, <1>8, <1>15
    <3> HIDE DEF at
    <3> QED BY <2>2, <3>1, <1>0, <1>6, <1>9, <1>10
  <2>3. CASE i # q /\ j # q
    <3>1. at(i) \in 1 .. n /\ at(j) \in 1 .. n /\ ch2[i] = ch[at(i)] /\ ch2[j] = ch[at(j)] /\ at(i) < at(j)
      BY <2>3, <1>0, <1>8, <1>15
    <3>2. /\ ch[at(i)] # ch[at(j)] /\ nd[ch[at(i)]].size <= nd[ch[at(j)]].size
          /\ nd[ch[at(i)]].value # nd[ch[at(j)]].value
      <4> HIDE DEF at
      <4> QED BY <3>1 DEF IsChain
    <3> HIDE DEF at
    <3> QED BY <3>1, <3>2, <1>6
  <2> QED BY <2>1, <2>2, <2>3
<1>16. IsChain(nd2, IF q = 1 THEN k ELSE root, n + 1, ch2)
  BY <1>0, <1>11, <1>12, <1>14, <1>15 DEF IsChain
<1>17. On(n + 1, ch2) = On(n, ch) \cup {k}
  <2>1. ASSUME NEW j \in 1 .. n + 1 PROVE ch2[j] \in On(n, ch) \cup {k}
    BY <1>8, <1>9 DEF On
  <2>2. ASSUME NEW j \in 1 .. n PROVE ch[j] \in On(n + 1, ch2)
    <3>1. CASE j < q
      <4>1. j \in 1 .. n + 1 /\ ch2[j] = ch[j]
        BY <3>1, <1>0, <1>7
      <4> QED BY <4>1 DEF On
    <3>2. CASE ~ (j < q)
      <4>1. j + 1 \in 1 .. n + 1 /\ ~ (j + 1 < q) /\ j + 1 # q /\ (j + 1) - 1 = j
        BY <3>2, <1>0
      <4>2. ch2[j + 1] = ch[j]
        BY <4>1, <1>7
      <4> QED BY <4>1, <4>2 DEF On
    <3> QED BY <3>1, <3>2
  <2>3. k \in On(n + 1, ch2)
    BY <1>9 DEF On
  <2> QED BY <2>1, <2>2, <2>3 DEF On
<1> QED BY <1>16, <1>17 DEF nd2, ch2

-----------------------------------------------------------------------------
\* The array without the q-th of the chain, whose own links stay as they are;
\* the place behind it, 0 if there is none, gets the parent.
Next(n, ch, q) == IF q = n THEN 0 ELSE ch[q + 1]
Without(nd, up, down) ==
  [j \in DOMAIN nd |-> IF j # 0 /\ j = up THEN [nd[j] EXCEPT !.right = down]
                       ELSE IF j = down THEN [nd[j] EXCEPT !.parent = up] ELSE nd[j]]
Removed(nd, n, ch, q) == Without(nd, Prev(ch, q), Next(n, ch, q))
\* The chain without its q-th place.
Cut(n, ch, q) == [j \in 1 .. n - 1 |-> IF j < q THEN ch[j] ELSE ch[j + 1]]

\* What mchar_async_cache_delete leaves is an array, ...
LEMMA RemovedArray ==
  ASSUME NEW nd, IsArray(nd), NEW root, NEW n, NEW ch, IsChain(nd, root, n, ch), NEW q \in 1 .. n
  PROVE  IsArray(Removed(nd, n, ch, q))
<1> DEFINE nd2 == Removed(nd, n, ch, q)
           next == Next(n, ch, q)
<1>1. n \in Nat /\ \A j \in 1 .. n : ch[j] \in DOMAIN nd
  BY DEF IsChain
<1>2. Prev(ch, q) \in DOMAIN nd /\ next \in DOMAIN nd /\ 0 \in DOMAIN nd
  BY <1>1 DEF Prev, Next, IsArray
<1>3. DOMAIN nd2 = DOMAIN nd /\ nd2 = [j \in DOMAIN nd2 |-> nd2[j]]
  BY DEF Removed, Without
<1>4. ASSUME NEW j \in DOMAIN nd2 PROVE nd2[j] \in Node(DOMAIN nd2) /\ nd2[j].left = 0
  <2>1. nd2[j] = IF j # 0 /\ j = Prev(ch, q) THEN [nd[j] EXCEPT !.right = next]
                 ELSE IF j = next THEN [nd[j] EXCEPT !.parent = Prev(ch, q)] ELSE nd[j]
    BY <1>3 DEF Removed, Without
  <2>2. nd[j] \in Node(DOMAIN nd) /\ nd[j].left = 0
    BY <1>3 DEF IsArray
  <2> HIDE DEF nd2, next
  <2> QED BY <2>1, <2>2, <1>2, <1>3 DEF Node
<1>5. nd2[0].size = 0 /\ nd2[0].right = 0
  <2>1. nd2[0] = IF 0 = next THEN [nd[0] EXCEPT !.parent = Prev(ch, q)] ELSE nd[0]
    BY <1>2 DEF Removed, Without
  <2>2. nd[0] \in Node(DOMAIN nd) /\ nd[0].size = 0 /\ nd[0].right = 0
    BY <1>2 DEF IsArray
  <2> HIDE DEF nd2, next
  <2> QED BY <2>1, <2>2 DEF Node
<1> HIDE DEF nd2
<1>6. DOMAIN nd2 \subseteq Nat
  BY <1>3 DEF IsArray
<1>7. nd2 \in [DOMAIN nd2 -> Node(DOMAIN nd2)]
  BY <1>3, <1>4
<1> QED BY <1>2, <1>3, <1>4, <1>5, <1>6, <1>7 DEF IsArray, nd2

\* ... and a chain with one place less.
LEMMA RemovedChain ==
  ASSUME NEW nd, IsArray(nd), NEW root, NEW n, NEW ch, IsChain(nd, root, n, ch), NEW q \in 1 .. n
  PROVE  /\ IsChain(Removed(nd, n, ch, q), IF q = 1 THEN Next(n, ch, q) ELSE root,
                    n - 1, Cut(n, ch, q))
         /\ On(n - 1, Cut(n, ch, q)) = On(n, ch) \ {ch[q]}
         /\ ch[q] \in On(n, ch)
<1> DEFINE nd2 == Removed(nd, n, ch, q)
           ch2 == Cut(n, ch, q)
           next == Next(n, ch, q)
           prev == Prev(ch, q)
           at(j) == IF j < q THEN j ELSE j + 1
<1>0. n \in Nat /\ n - 1 \in Nat /\ \A j \in 1 .. n : ch[j] \in DOMAIN nd \ {0}
  BY DEF IsChain
<1>1. DOMAIN nd2 = DOMAIN nd
  BY DEF Removed, Without
<1>2. \A j \in 1 .. n : nd2[ch[j]] = IF ch[j] = prev THEN [nd[ch[j]] EXCEPT !.right = next]
                         ELSE IF ch[j] = next THEN [nd[ch[j]] EXCEPT !.parent = prev] ELSE nd[ch[j]]
  BY <1>0 DEF Removed, Without
<1>3. \A j \in 1 .. n : nd[ch[j]] \in Node(DOMAIN nd)
  BY <1>0 DEF IsArray
<1>4. \A i, j \in 1 .. n : ch[i] = ch[j] => i = j
  BY <1>0 DEF IsChain
<1>5. \A j \in 1 .. n : (ch[j] = prev <=> j + 1 = q) /\ (ch[j] = next <=> j = q + 1)
  <2> SUFFICES ASSUME NEW j \in 1 .. n PROVE (ch[j] = prev <=> j + 1 = q) /\ (ch[j] = next <=> j = q + 1)
    OBVIOUS
  <2>1. ch[j] = prev <=> j + 1 = q
    <3>1. CASE q = 1
      BY <3>1, <1>0 DEF Prev
    <3>2. CASE q # 1
      <4>1. q - 1 \in 1 .. n /\ prev = ch[q - 1]
        BY <3>2, <1>0 DEF Prev
      <4>2. ch[j] = ch[q - 1] <=> j = q - 1
        BY <4>1, <1>4
      <4> QED BY <4>1, <4>2, <1>0
    <3> QED BY <3>1, <3>2
  <2>2. ch[j] = next <=> j = q + 1
    <3>1. CASE q = n
      BY <3>1, <1>0 DEF Next
    <3>2. CASE q # n
      <4>1. q + 1 \in 1 .. n /\ next = ch[q + 1]
        BY <3>2, <1>0 DEF Next
      <4>2. ch[j] = ch[q + 1] <=> j = q + 1
        BY <4>1, <1>4
      <4> QED BY <4>1, <4>2
    <3> QED BY <3>1, <3>2
  <2> QED BY <2>1, <2>2
<1>6. ASSUME NEW j \in 1 .. n
      PROVE  /\ nd2[ch[j]].right = IF ch[j] = prev THEN next ELSE nd[ch[j]].right
             /\ nd2[ch[j]].parent = IF ch[j] = next THEN prev ELSE nd[ch[j]].parent
             /\ nd2[ch[j]].size = nd[ch[j]].size
             /\ nd2[ch[j]].value = nd[ch[j]].value
  <2>1. ~ (ch[j] = prev /\ ch[j] = next)
    BY <1>0, <1>5
  <2> HIDE DEF nd2, prev, next
  <2> QED BY <2>1, <1>2, <1>3 DEF Node
<1>7. /\ DOMAIN ch2 = 1 .. n - 1 /\ ch2 = [j \in 1 .. n - 1 |-> ch2[j]]
      /\ \A j \in 1 .. n - 1 : ch2[j] = IF j < q THEN ch[j] ELSE ch[j + 1]
  BY DEF Cut
<1>8. \A j \in 1 .. n - 1 : at(j) \in 1 .. n /\ at(j) # q /\ ch2[j] = ch[at(j)]
  BY <1>0, <1>7
<1>9. next = (IF q = n THEN 0 ELSE ch[q + 1]) /\ prev = (IF q = 1 THEN 0 ELSE ch[q - 1])
  BY DEF Next, Prev
<1> HIDE DEF nd2, ch2
<1>10. ch2 \in [1 .. n - 1 -> DOMAIN nd2 \ {0}]
  BY <1>0, <1>1, <1>7, <1>8
<1>11. (IF q = 1 THEN next ELSE root) = (IF n - 1 = 0 THEN 0 ELSE ch2[1])
  <2>1. CASE n = 1
    BY <2>1, <1>0, <1>9
  <2>2. CASE n # 1
    <3>1. 1 \in 1 .. n - 1 /\ n - 1 # 0 /\ 1 + 1 = 2
      BY <2>2, <1>0
    <3>2. CASE q = 1
      BY <3>1, <3>2, <2>2, <1>7, <1>9
    <3>3. CASE q # 1
      BY <3>1, <3>3, <1>0, <1>7 DEF IsChain
    <3> QED BY <3>2, <3>3
  <2> QED BY <2>1, <2>2
<1>12. \A j \in 1 .. n : /\ nd[ch[j]].right = (IF j = n THEN 0 ELSE ch[j + 1])
                        /\ nd[ch[j]].parent = (IF j = 1 THEN 0 ELSE ch[j - 1])
                        /\ nd[ch[j]].size \in Sizes /\ nd[ch[j]].value \in Values
  BY DEF IsChain
<1>13. ASSUME NEW j \in 1 .. n - 1
       PROVE  /\ nd2[ch2[j]].right = (IF j = n - 1 THEN 0 ELSE ch2[j + 1])
              /\ nd2[ch2[j]].parent = (IF j = 1 THEN 0 ELSE ch2[j - 1])
              /\ nd2[ch2[j]].size \in Sizes /\ nd2[ch2[j]].value \in Values
  <2>1. CASE j < q
    <3>1. j \in 1 .. n /\ ch2[j] = ch[j] /\ j # n
      BY <2>1, <1>0, <1>7
    <3>2. nd2[ch2[j]].right = (IF j = n - 1 THEN 0 ELSE ch2[j + 1])
      <4>1. CASE j + 1 = q
        <5>1. nd2[ch2[j]].right = next
          BY <4>1, <3>1, <1>6, <1>5
        <5>2. j = n - 1 <=> q = n
          BY <4>1, <1>0
        <5>3. j # n - 1 => j + 1 \in 1 .. n - 1 /\ ~ (j + 1 < q)
          BY <4>1, <1>0
        <5>4. j # n - 1 => ch2[j + 1] = ch[q + 1]
          BY <5>3, <4>1, <1>7
        <5> QED BY <5>1, <5>2, <5>4, <1>9
      <4>2. CASE j + 1 # q
        <5>1. j + 1 < q /\ j + 1 \in 1 .. n - 1 /\ j # n - 1
          BY <4>2, <2>1, <3>1, <1>0
        <5> QED BY <5>1, <4>2, <3>1, <1>6, <1>5, <1>7, <1>12
      <4> QED BY <4>1, <4>2
    <3>3. nd2[ch2[j]].parent = (IF j = 1 THEN 0 ELSE ch2[j - 1])
      <4>1. j # 1 => j - 1 \in 1 .. n - 1 /\ j - 1 < q
        BY <2>1, <3>1, <1>0
      <4>2. j # q + 1
        BY <2>1, <1>0
      <4> QED BY <4>1, <4>2, <3>1, <1>6, <1>5, <1>7, <1>12
    <3> QED BY <3>1, <3>2, <3>3, <1>6, <1>12
  <2>2. CASE ~ (j < q)
    <3> DEFINE i == j + 1
    <3>1. i \in 1 .. n /\ ch2[j] = ch[i] /\ i + 1 # q /\ (i = n <=> j = n - 1) /\ i # 1 /\ i - 1 = j
      BY <2>2, <1>0, <1>7
    <3>2. nd2[ch2[j]].right = (IF j = n - 1 THEN 0 ELSE ch2[j + 1])
      <4>1. nd2[ch2[j]].right = (IF i = n THEN 0 ELSE ch[i + 1])
        BY <3>1, <1>6, <1>5, <1>12
      <4>2. j # n - 1 => j + 1 \in 1 .. n - 1 /\ ~ (j + 1 < q)
        BY <2>2, <1>0
      <4>3. j # n - 1 => ch2[j + 1] = ch[i + 1]
        BY <4>2, <1>7
      <4> QED BY <4>1, <4>3, <3>1
    <3>3. nd2[ch2[j]].parent = (IF j = 1 THEN 0 ELSE ch2[j - 1])
      <4>1. CASE i = q + 1
        <5>1. j = q /\ nd2[ch2[j]].parent = prev
          BY <4>1, <3>1, <1>6, <1>5, <1>0
        <5>2. j # 1 => j - 1 \in 1 .. n - 1 /\ j - 1 < q
          BY <5>1, <1>0
        <5> QED BY <5>1, <5>2, <1>7, <1>9
      <4>2. CASE i # q + 1
        <5>1. j # 1 /\ j - 1 \in 1 .. n - 1 /\ ~ (j - 1 < q) /\ (j - 1) + 1 = j
          BY <4>2, <2>2, <1>0
        <5>2. ch2[j - 1] = ch[j]
          BY <5>1, <1>7
        <5>3. nd2[ch2[j]].parent = ch[i - 1]
          BY <4>2, <3>1, <1>6, <1>5, <1>12
        <5> QED BY <5>1, <5>2, <5>3, <3>1
      <4> QED BY <4>1, <4>2
    <3> QED BY <3>1, <3>2, <3>3, <1>6, <1>12
  <2> QED BY <2>1, <2>2
<1>14. ASSUME NEW i \in 1 .. n - 1, NEW j \in 1 .. n - 1, i < j
       PROVE  /\ ch2[i] # ch2[j] /\ nd2[ch2[i]].size <= nd2[ch2[j]].size
              /\ nd2[ch2[i]].value # nd2[ch2[j]].value
  <2>1. at(i) \in 1 .. n /\ at(j) \in 1 .. n /\ ch2[i] = ch[at(i)] /\ ch2[j] = ch[at(j)] /\ at(i) < at(j)
    BY <1>0, <1>8, <1>14
  <2>2. /\ ch[at(i)] # ch[at(j)] /\ nd[ch[at(i)]].size <= nd[ch[at(j)]].size
        /\ nd[ch[at(i)]].value # nd[ch[at(j)]].value
    <3> HIDE DEF at
    <3> QED BY <2>1 DEF IsChain
  <2> HIDE DEF at
  <2> QED BY <2>1, <2>2, <1>6
<1>15. IsChain(nd2, IF q = 1 THEN next ELSE root, n - 1, ch2)
  BY <1>0, <1>10, <1>11, <1>13, <1>14 DEF IsChain
<1>16. On(n - 1, ch2) = On(n, ch) \ {ch[q]}
  <2>1. ASSUME NEW j \in 1 .. n - 1 PROVE ch2[j] \in On(n, ch) \ {ch[q]}
    BY <1>4, <1>8 DEF On
  <2>2. ASSUME NEW j \in 1 .. n, ch[j] # ch[q] PROVE ch[j] \in On(n - 1, ch2)
    <3>1. CASE j < q
      <4>1. j \in 1 .. n - 1 /\ ch2[j] = ch[j]
        BY <3>1, <1>0, <1>7
      <4> QED BY <4>1 DEF On
    <3>2. CASE ~ (j < q)
      <4>1. j - 1 \in 1 .. n - 1 /\ ~ (j - 1 < q) /\ (j - 1) + 1 = j
        BY <3>2, <2>2, <1>0
      <4>2. ch2[j - 1] = ch[j]
        BY <4>1, <1>7
      <4> QED BY <4>1, <4>2 DEF On
    <3> QED BY <3>1, <3>2
  <2> QED BY <2>1, <2>2 DEF On
<1> QED BY <1>15, <1>16 DEF nd2, ch2, On

-----------------------------------------------------------------------------
\* The stack of free places holds each place once.
Once(q) == \A i, j \in 1 .. Len(q) : i # j => q[i] # q[j]

\* A place taken off the stack is no longer on it.
LEMMA FrontOfStack ==
  ASSUME NEW q \in Seq(Nat), Once(q), q # <<>>
  PROVE  /\ Front(q) \in Seq(Nat) /\ Len(Front(q)) < Len(q) /\ Once(Front(q))
         /\ Last(q) \in Range(q) /\ Range(Front(q)) = Range(q) \ {Last(q)}
<1> DEFINE n == Len(q)
           f == Front(q)
<1>1. n \in Nat /\ n # 0 /\ n \in 1 .. n /\ DOMAIN q = 1 .. n /\ Last(q) = q[n]
  BY EmptySeq DEF Last
<1>2. f \in Seq(Nat) /\ Len(f) = n - 1 /\ \A i \in 1 .. n - 1 : f[i] = q[i]
  <2>1. f = SubSeq(q, 1, n - 1)
    BY DEF Front
  <2>2. \A i \in 1 .. n - 1 : q[i] \in Nat
    BY <1>1
  <2> QED BY <1>1, <2>1, <2>2, SubSeqProperties
<1>3. DOMAIN f = 1 .. n - 1
  BY <1>1, <1>2
<1>4. Range(q) = {q[i] : i \in 1 .. n} /\ Range(f) = {q[i] : i \in 1 .. n - 1}
  BY <1>1, <1>2, <1>3 DEF Range
<1>5. \A i \in 1 .. n : i \in 1 .. n - 1 <=> q[i] # q[n]
  BY <1>1 DEF Once
<1> HIDE DEF f
<1>6. Once(f)
  BY <1>1, <1>2 DEF Once
<1>7. Range(f) = Range(q) \ {q[n]} /\ q[n] \in Range(q)
  <2>1. \A i \in 1 .. n - 1 : i \in 1 .. n
    BY <1>1
  <2>2. ASSUME NEW x PROVE x \in Range(f) <=> x \in Range(q) /\ x # q[n]
    BY <1>4, <1>5, <2>1
  <2> QED BY <1>1, <1>4, <2>2
<1>8. n - 1 < n
  BY <1>1
<1> QED BY <1>1, <1>2, <1>6, <1>7, <1>8 DEF f

\* A place put on the stack is on it once.
LEMMA AppendToStack ==
  ASSUME NEW q \in Seq(Nat), Once(q), NEW x \in Nat, x \notin Range(q)
  PROVE  /\ Append(q, x) \in Seq(Nat) /\ Len(Append(q, x)) = Len(q) + 1 /\ Once(Append(q, x))
         /\ Range(Append(q, x)) = Range(q) \cup {x}
<1> DEFINE n == Len(q)
           f == Append(q, x)
<1>1. n \in Nat /\ DOMAIN q = 1 .. n /\ f \in Seq(Nat) /\ Len(f) = n + 1
      /\ DOMAIN f = 1 .. n + 1 /\ f[n + 1] = x /\ \A i \in 1 .. n : f[i] = q[i]
  OBVIOUS
<1>2. \A i \in 1 .. n : q[i] # x
  BY <1>1 DEF Range
<1> HIDE DEF f
<1>3. Once(f)
  <2> SUFFICES ASSUME NEW i \in 1 .. n + 1, NEW j \in 1 .. n + 1, i # j PROVE f[i] # f[j]
    BY <1>1 DEF Once
  <2>1. (i \in 1 .. n \/ i = n + 1) /\ (j \in 1 .. n \/ j = n + 1)
    BY <1>1
  <2>2. CASE i \in 1 .. n /\ j \in 1 .. n
    <3>1. q[i] # q[j]
      BY <2>2 DEF Once
    <3> QED BY <1>1, <2>2, <3>1
  <2>3. CASE i \in 1 .. n /\ j = n + 1
    BY <1>1, <1>2, <2>3
  <2>4. CASE i = n + 1 /\ j \in 1 .. n
    BY <1>1, <1>2, <2>4
  <2> QED BY <2>1, <2>2, <2>3, <2>4
<1>4. Range(q) = {q[i] : i \in 1 .. n} /\ Range(f) = {f[i] : i \in 1 .. n + 1}
  BY <1>1 DEF Range
<1>5. Range(f) = Range(q) \cup {x}
  <2>1. n + 1 \in 1 .. n + 1 /\ \A i \in 1 .. n + 1 : i \in 1 .. n \/ i = n + 1
    BY <1>1
  <2> QED BY <1>1, <1>4, <2>1
<1> QED BY <1>1, <1>3, <1>5 DEF f

-----------------------------------------------------------------------------
\* The inductive invariant: the array, the stack, and a chain from the root, with
\* every place on one of them.
Arrays ==
  /\ IsArray(nodes) /\ NoCycle(nodes)
  /\ nodes_length \in Nat \ {0} /\ nodes_size \in Nat /\ nodes_size >= 3
  /\ nodes_length < nodes_size
  /\ 0 .. nodes_length - 1 \subseteq DOMAIN nodes /\ DOMAIN nodes \subseteq 0 .. nodes_size - 1

Stack == index \in Seq(Nat) /\ Once(index) /\ index_size \in Nat /\ Len(index) < index_size

Chained(ch) ==
  /\ IsChain(nodes, nodes_root, count, ch)
  /\ On(count, ch) \cap Range(index) = {}
  /\ On(count, ch) \cup Range(index) = 1 .. nodes_length - 1

CacheInv == Arrays /\ Stack /\ given \in Values \cup {NULL} /\ \E ch : Chained(ch)

\* A new cache satisfies the invariant.
LEMMA CacheInitInv == CacheInit => CacheInv
<1> USE CacheAssumption
<1> SUFFICES ASSUME CacheInit PROVE CacheInv
  OBVIOUS
<1> USE DEF CacheInit
<1>1. DOMAIN nodes = {0} /\ nodes[0] = None
  OBVIOUS
<1>2. IsArray(nodes)
  <2>1. None \in Node({0})
    BY DEF None, Node
  <2> QED BY <1>1, <2>1 DEF IsArray, None
<1>3. NoCycle(nodes)
  BY <1>1 DEF NoCycle
<1>4. Arrays
  BY <1>1, <1>2, <1>3 DEF Arrays
<1>5. Stack
  BY DEF Stack, Once
<1>6. Chained(<<>>)
  <2>1. IsChain(nodes, nodes_root, count, <<>>)
    BY DEF IsChain
  <2>2. On(count, <<>>) = {} /\ Range(index) = {} /\ 1 .. nodes_length - 1 = {}
    BY DEF On, Range
  <2> QED BY <2>1, <2>2 DEF Chained
<1> QED BY <1>4, <1>5, <1>6 DEF CacheInv

\* The place mchar_async_cache_malloc gives is on no chain, and is taken off the
\* stack or is the first that was never used.
LEMMA MallocGives ==
  ASSUME Arrays, Stack, NEW ch, Chained(ch), CacheMalloc, UNCHANGED index_size
  PROVE  /\ Place \in Nat \ {0} /\ Place \notin On(count, ch)
         /\ Stack' /\ nodes_length' \in Nat \ {0} /\ nodes_size' \in Nat /\ nodes_size' >= 3
         /\ nodes_length' < nodes_size'
         /\ 0 .. nodes_length' - 1 \subseteq DOMAIN nodes \cup {Place}
         /\ DOMAIN nodes \cup {Place} \subseteq 0 .. nodes_size' - 1
         /\ (On(count, ch) \cup {Place}) \cap Range(index') = {}
         /\ (On(count, ch) \cup {Place}) \cup Range(index') = 1 .. nodes_length' - 1
<1> USE DEF Arrays, Stack, Chained, CacheMalloc, Place, Moves
<1>1. CASE index # <<>>
  <2>1. Last(index) \in 1 .. nodes_length - 1 /\ Last(index) \in Range(index)
    BY <1>1, FrontOfStack
  <2>2. index' = Front(index) /\ nodes_length' = nodes_length /\ nodes_size' = nodes_size
    BY <1>1
  <2>3. Stack'
    BY <1>1, <2>2, FrontOfStack
  <2>4. Range(index') = Range(index) \ {Last(index)}
    BY <1>1, <2>2, FrontOfStack
  <2> QED BY <1>1, <2>1, <2>2, <2>3, <2>4
<1>2. CASE index = <<>>
  <2>1. index' = index /\ Range(index) = {} /\ nodes_length' = nodes_length + 1
    BY <1>2 DEF Range
  <2>2. nodes_size' \in Nat /\ nodes_size' >= nodes_size /\ nodes_length' < nodes_size'
    <3>1. CASE nodes_length + 1 >= nodes_size
      BY <3>1, <1>2, <2>1
    <3>2. CASE ~ (nodes_length + 1 >= nodes_size)
      BY <3>2, <1>2, <2>1
    <3> QED BY <3>1, <3>2
  <2>3. Stack'
    BY <2>1
  <2>4. 1 .. nodes_length' - 1 = 1 .. nodes_length - 1 \cup {nodes_length}
    BY <2>1
  <2>5. nodes_length \notin 1 .. nodes_length - 1
    OBVIOUS
  <2>6. On(count, ch) = 1 .. nodes_length - 1
    BY <2>1
  <2>7. DOMAIN nodes \subseteq 0 .. nodes_size' - 1 /\ nodes_length \in 0 .. nodes_size' - 1
    BY <2>1, <2>2
  <2>8. 0 .. nodes_length' - 1 \subseteq DOMAIN nodes \cup {nodes_length}
    <3>1. 0 .. nodes_length' - 1 \subseteq 0 .. nodes_length - 1 \cup {nodes_length}
      BY <2>1
    <3> QED BY <3>1
  <2> QED BY <1>2, <2>1, <2>2, <2>3, <2>4, <2>5, <2>6, <2>7, <2>8
<1> QED BY <1>1, <1>2

\* The operators of the calls are those of the lemmas.
LEMMA Searches ==
  ASSUME NEW s
  PROVE  /\ Reached(s) = Down(nodes, s)[nodes_root]
         /\ Found(s) = First(nodes, s)[nodes_root]
         /\ Linked = Below(nodes)[nodes_root] /\ Linked' = Below(nodes')[nodes_root']
<1>1. Reached(s) = Down(nodes, s)[nodes_root]
  BY DEF Reached, Down
<1>2. Found(s) = First(nodes, s)[nodes_root]
  BY DEF Found, First, Same
<1>3. Linked = Below(nodes)[nodes_root]
  BY DEF Linked, Below
<1>4. Linked' = Below(nodes')[nodes_root']
  BY DEF Linked, Below
<1> QED BY <1>1, <1>2, <1>3, <1>4

\* mchar_async_cache_add puts the region where the order of sizes wants it.
LEMMA AddInserts ==
  ASSUME Arrays, NEW ch, Chained(ch), Place # 0, NEW s \in Sizes, NEW v \in Values,
         CacheMalloc, Place \notin On(count, ch), AddToEmpty(v, s) \/ Add(v, s)
  PROVE  \E q \in 1 .. count + 1 :
           /\ nodes' = Inserted(nodes, count, ch, q, Place, s, v)
           /\ nodes_root' = IF q = 1 THEN Place ELSE nodes_root
           /\ \A j \in 1 .. count : j < q => nodes[ch[j]].size <= s
           /\ \A j \in 1 .. count : q <= j => s <= nodes[ch[j]].size
<1> USE CacheAssumption
<1> DEFINE n == count
           k == Place
<1>0. /\ n \in Nat /\ IsArray(nodes) /\ NoCycle(nodes) /\ IsChain(nodes, nodes_root, n, ch)
      /\ 0 \in DOMAIN nodes
      /\ \A j \in DOMAIN nodes : nodes[j] \in Node(DOMAIN nodes) /\ nodes[j].left = 0
      /\ \A j \in 1 .. n : ch[j] \in DOMAIN nodes /\ ch[j] # 0
  BY DEF Arrays, Chained, IsChain, IsArray
<1>1. CASE nodes_root = 0
  <2>1. n = 0
    BY <1>0, <1>1 DEF IsChain
  <2>2. AddToEmpty(v, s)
    BY <1>1 DEF Add
  <2>3. ~ Moves
    <3>1. CASE index # <<>>
      BY <3>1 DEF Moves
    <3>2. CASE index = <<>>
      <4>1. 1 .. nodes_length - 1 = {}
        BY <2>1, <3>2 DEF Chained, On, Range
      <4>2. nodes_length = 1
        BY <4>1 DEF Arrays
      <4> QED BY <4>2 DEF Moves, Arrays
    <3> QED BY <3>1, <3>2
  <2>4. nodes' = Put(nodes, k, Region(0, 0, s, v)) /\ nodes_root' = k
    BY <2>2, <2>3 DEF AddToEmpty
  <2>6. Prev(ch, 1) = 0 /\ 1 = n + 1
    BY <2>1 DEF Prev
  <2>7. nodes' = Inserted(nodes, n, ch, 1, k, s, v)
    BY <2>4, <2>6 DEF Put, Inserted, Between
  <2>8. 1 \in 1 .. n + 1
    BY <2>1
  <2> QED BY <2>1, <2>4, <2>7, <2>8
<1>2. CASE nodes_root # 0
  <2>1. n # 0 /\ Add(v, s)
    BY <1>0, <1>2 DEF IsChain, AddToEmpty
  <2> DEFINE at == Reached(s)
             parent == nodes[at].parent
             right == nodes[at].right
             behind == Put(Set(nodes, at, "right", k), k, Region(at, right, s, v))
             before == Put(Set(nodes, at, "parent", k), k, Region(parent, at, s, v))
  <2>2. PICK p \in 1 .. n : at = ch[p] /\ (s <= nodes[ch[p]].size \/ p = n)
                            /\ \A j \in 1 .. p - 1 : nodes[ch[j]].size < s
    BY <1>0, <2>1, DownStops, Searches
  <2>3. /\ parent = (IF p = 1 THEN 0 ELSE ch[p - 1]) /\ right = (IF p = n THEN 0 ELSE ch[p + 1])
        /\ at \in DOMAIN nodes /\ at # 0 /\ \A j \in 1 .. n : nodes[ch[j]].size \in Nat
        /\ s \in Nat /\ parent \in DOMAIN nodes /\ right \in DOMAIN nodes
    <3> HIDE DEF at
    <3>1. at \in DOMAIN nodes /\ at # 0
      BY <2>2, <1>0
    <3>2. nodes[at] \in Node(DOMAIN nodes)
      BY <3>1, <1>0
    <3>3. parent \in DOMAIN nodes /\ right \in DOMAIN nodes
      BY <3>2 DEF Node
    <3>4. \A j \in 1 .. n : nodes[ch[j]].size \in Nat
      BY <1>0 DEF IsChain
    <3> QED BY <2>2, <1>0, <3>1, <3>3, <3>4 DEF IsChain
  <2>5. CASE s < nodes[at].size
    <3>1. IF parent = 0 THEN nodes_root' = k /\ nodes' = before
          ELSE nodes' = Set(before, parent, IF nodes[parent].left = at THEN "left" ELSE "right", k)
               /\ nodes_root' = nodes_root
      BY <2>1, <2>5 DEF Add
    <3>2. nodes[parent].left # at
      <4> HIDE DEF parent, at
      <4> QED BY <1>0, <2>3
    <3>3. parent = Prev(ch, p) /\ at = ch[p] /\ p # n + 1 /\ p \in 1 .. n + 1
      BY <2>2, <2>3, <1>0 DEF Prev
    <3>4. parent = 0 <=> p = 1
      BY <2>3, <1>0
    <3>5. nodes' = Inserted(nodes, n, ch, p, k, s, v)
      <4>1. k # at /\ k # parent /\ parent # at /\ k # 0
        <5>1. k # at
          BY <2>2 DEF On
        <5>2. p # 1 => p - 1 \in 1 .. n /\ p - 1 < p
          BY <2>2, <1>0
        <5>3. p # 1 => k # ch[p - 1] /\ ch[p - 1] # ch[p]
          BY <5>2, <1>0 DEF On, IsChain
        <5> HIDE DEF at, parent, k
        <5>4. k # 0
          BY DEF k
        <5> QED BY <5>1, <5>3, <5>4, <2>2, <2>3
      <4>2. nodes' = Before(nodes, parent, at, k, s, v)
        <5> HIDE DEF at, parent, k
        <5> QED BY <3>1, <3>2 DEF Before
      <4>3. at = (IF p = n + 1 THEN 0 ELSE ch[p])
        BY <3>3
      <4> HIDE DEF at, parent, k
      <4> QED BY <4>1, <4>2, <4>3, <2>3, <3>3, BeforeIsBetween DEF Inserted
    <3>6. \A j \in 1 .. n : p <= j => s <= nodes[ch[j]].size
      <4> SUFFICES ASSUME NEW j \in 1 .. n, p <= j PROVE s <= nodes[ch[j]].size
        OBVIOUS
      <4>1. nodes[ch[p]].size <= nodes[ch[j]].size
        <5>1. p = j \/ p < j
          BY <1>0
        <5> QED BY <5>1, <1>0, <2>3 DEF IsChain
      <4> QED BY <4>1, <2>2, <2>3, <2>5
    <3>7. \A j \in 1 .. n : j < p => nodes[ch[j]].size <= s
      <4> SUFFICES ASSUME NEW j \in 1 .. n, j < p PROVE nodes[ch[j]].size <= s
        OBVIOUS
      <4>1. j \in 1 .. p - 1
        BY <1>0
      <4> QED BY <4>1, <2>2, <2>3
    <3>8. nodes_root' = IF p = 1 THEN k ELSE nodes_root
      BY <3>1, <3>4
    <3> QED BY <3>3, <3>5, <3>6, <3>7, <3>8
  <2>6. CASE ~ (s < nodes[at].size)
    <3> DEFINE q == p + 1
    <3>1. /\ nodes_root' = nodes_root
          /\ nodes' = IF right = 0 THEN behind ELSE Set(behind, right, "parent", k)
      BY <2>1, <2>6 DEF Add
    <3>2. /\ q \in 1 .. n + 1 /\ q # 1 /\ (q = n + 1 <=> p = n) /\ q - 1 = p
          /\ right = (IF q = n + 1 THEN 0 ELSE ch[q]) /\ at = Prev(ch, q)
      BY <2>2, <2>3, <1>0 DEF Prev
    <3>3. nodes' = Inserted(nodes, n, ch, q, k, s, v)
      <4>1. k # at /\ k # right /\ right # at /\ k # 0
        <5>1. k # at
          BY <2>2 DEF On
        <5>2. p # n => p + 1 \in 1 .. n /\ p < p + 1
          BY <2>2, <1>0
        <5>3. p # n => k # ch[p + 1] /\ ch[p + 1] # ch[p]
          BY <5>2, <1>0 DEF On, IsChain
        <5> HIDE DEF at, right, k
        <5>4. k # 0
          BY DEF k
        <5> QED BY <5>1, <5>3, <5>4, <2>2, <2>3
      <4>2. nodes' = Behind(nodes, at, right, k, s, v)
        <5> HIDE DEF at, right, k
        <5> QED BY <3>1 DEF Behind
      <4> HIDE DEF at, right, k, q
      <4> QED BY <4>1, <4>2, <2>3, <3>2, BehindIsBetween DEF Inserted
    <3>4. \A j \in 1 .. n : q <= j => s <= nodes[ch[j]].size
      <4> SUFFICES ASSUME NEW j \in 1 .. n, q <= j PROVE s <= nodes[ch[j]].size
        OBVIOUS
      <4>1. p < j /\ p # n
        BY <1>0
      <4>2. nodes[ch[p]].size <= nodes[ch[j]].size
        BY <4>1, <1>0 DEF IsChain
      <4> QED BY <4>1, <4>2, <2>2, <2>3
    <3>5. \A j \in 1 .. n : j < q => nodes[ch[j]].size <= s
      <4> SUFFICES ASSUME NEW j \in 1 .. n, j < q PROVE nodes[ch[j]].size <= s
        OBVIOUS
      <4>1. j \in 1 .. p - 1 \/ j = p
        BY <1>0
      <4> QED BY <4>1, <2>2, <2>3, <2>6
    <3> HIDE DEF q
    <3> QED BY <3>1, <3>2, <3>3, <3>4, <3>5
  <2> QED BY <2>5, <2>6
<1> QED BY <1>1, <1>2

\* The places of the tree are those of the chain, before and after a step.
LEMMA LinkedIsChain ==
  ASSUME NEW ch
  PROVE  /\ Arrays /\ Chained(ch) => Linked = On(count, ch)
         /\ Arrays' /\ IsChain(nodes', nodes_root', count', ch) => Linked' = On(count', ch)
<1>1. Arrays /\ Chained(ch) => Linked = On(count, ch)
  BY BelowIsChain, Searches DEF Arrays, Chained
<1>2. Arrays' /\ IsChain(nodes', nodes_root', count', ch) => Linked' = On(count', ch)
  BY BelowIsChain, Searches DEF Arrays
<1> QED BY <1>1, <1>2

\* A call of mchar_async_cache_add keeps the invariant, and one region more.
LEMMA AddStep ==
  ASSUME CacheInv, NEW s \in Sizes, NEW v \in Values, \A e \in Kept : e.value # v, CacheAdd(v, s)
  PROVE  CacheInv' /\ Promise!Add(v, s)
<1> USE CacheAssumption
<1>1. PICK ch : Chained(ch)
  BY DEF CacheInv
<1>2. Arrays /\ Stack /\ count \in Nat
  BY <1>1 DEF CacheInv, Chained, IsChain
<1>3. CacheMalloc /\ (AddToEmpty(v, s) \/ Add(v, s)) /\ count' = count + 1 /\ given' = NULL
      /\ index_size' = index_size
  BY DEF CacheAdd, AddToEmpty, Add
<1>4. /\ Place \in Nat \ {0} /\ Place \notin On(count, ch)
      /\ Stack' /\ nodes_length' \in Nat \ {0} /\ nodes_size' \in Nat /\ nodes_size' >= 3
      /\ nodes_length' < nodes_size'
      /\ 0 .. nodes_length' - 1 \subseteq DOMAIN nodes \cup {Place}
      /\ DOMAIN nodes \cup {Place} \subseteq 0 .. nodes_size' - 1
      /\ (On(count, ch) \cup {Place}) \cap Range(index') = {}
      /\ (On(count, ch) \cup {Place}) \cup Range(index') = 1 .. nodes_length' - 1
  BY <1>1, <1>2, <1>3, MallocGives
<1>5. PICK q \in 1 .. count + 1 :
        /\ nodes' = Inserted(nodes, count, ch, q, Place, s, v)
        /\ nodes_root' = IF q = 1 THEN Place ELSE nodes_root
        /\ \A j \in 1 .. count : j < q => nodes[ch[j]].size <= s
        /\ \A j \in 1 .. count : q <= j => s <= nodes[ch[j]].size
  BY <1>1, <1>2, <1>3, <1>4, AddInserts
<1>6. Linked = On(count, ch)
  BY <1>1, <1>2, LinkedIsChain
<1>7. \A j \in 1 .. count : nodes[ch[j]].value # v
  <2> SUFFICES ASSUME NEW j \in 1 .. count PROVE nodes[ch[j]].value # v
    OBVIOUS
  <2>1. [value |-> nodes[ch[j]].value, size |-> nodes[ch[j]].size] \in Kept
    BY <1>6 DEF Kept, On
  <2> QED BY <2>1
<1>8. IsArray(nodes) /\ NoCycle(nodes) /\ IsChain(nodes, nodes_root, count, ch)
  BY <1>1, <1>2 DEF Arrays, Chained
<1>9. PICK ch2 : IsChain(nodes', nodes_root', count', ch2) /\ On(count', ch2) = On(count, ch) \cup {Place}
  BY <1>3, <1>4, <1>5, <1>7, <1>8, InsertedChain
<1>10. IsArray(nodes') /\ DOMAIN nodes' = DOMAIN nodes \cup {Place}
  <2>1. IsArray(nodes')
    BY <1>4, <1>5, <1>8, InsertedArray
  <2>2. DOMAIN nodes' = DOMAIN nodes \cup {Place}
    BY <1>5 DEF Inserted, Between
  <2> QED BY <2>1, <2>2
<1>11. \A k \in DOMAIN nodes' \ {0} :
         k \notin On(count', ch2) => k \in DOMAIN nodes /\ nodes'[k].right = nodes[k].right
  <2> SUFFICES ASSUME NEW k \in DOMAIN nodes' \ {0}, k \notin On(count', ch2)
               PROVE  k \in DOMAIN nodes /\ nodes'[k].right = nodes[k].right
    OBVIOUS
  <2>1. k \in DOMAIN nodes /\ k # Place /\ k \notin On(count, ch)
    BY <1>9, <1>10
  <2>2. k # Prev(ch, q)
    <3>1. CASE q = 1
      BY <3>1 DEF Prev
    <3>2. CASE q # 1
      <4>1. q - 1 \in 1 .. count
        BY <3>2, <1>2
      <4> QED BY <4>1, <3>2, <2>1 DEF Prev, On
    <3> QED BY <3>1, <3>2
  <2>3. nodes'[k] = nodes[k] \/ nodes'[k] = [nodes[k] EXCEPT !.parent = Place]
    BY <1>5, <2>1, <2>2 DEF Inserted, Between
  <2>4. nodes[k] \in Node(DOMAIN nodes)
    BY <1>8, <2>1 DEF IsArray
  <2> QED BY <2>1, <2>3, <2>4 DEF Node
<1>12. NoCycle(nodes')
  BY <1>8, <1>9, <1>11, NoNewCycle
<1>13. Arrays'
  BY <1>4, <1>10, <1>12 DEF Arrays
<1>14. CacheInv'
  <2>1. Chained(ch2)'
    BY <1>4, <1>9 DEF Chained
  <2> QED BY <1>3, <1>4, <1>13, <2>1 DEF CacheInv
<1>15. Kept' = Kept \cup {[value |-> v, size |-> s]}
  <2>1. Linked' = Linked \cup {Place}
    BY <1>6, <1>9, <1>13, LinkedIsChain
  <2>2. nodes'[Place].value = v /\ nodes'[Place].size = s
    BY <1>5 DEF Inserted, Between, Region
  <2>3. ASSUME NEW k \in Linked PROVE nodes'[k].value = nodes[k].value /\ nodes'[k].size = nodes[k].size
    <3>1. k \in DOMAIN nodes /\ k # Place
      BY <1>4, <1>6, <1>8 DEF On, IsChain
    <3>2. \/ nodes'[k] = nodes[k] \/ nodes'[k] = [nodes[k] EXCEPT !.parent = Place]
          \/ nodes'[k] = [nodes[k] EXCEPT !.right = Place]
      BY <1>5, <3>1 DEF Inserted, Between
    <3>3. nodes[k] \in Node(DOMAIN nodes)
      BY <1>8, <3>1 DEF IsArray
    <3> QED BY <3>2, <3>3 DEF Node
  <2> QED BY <2>1, <2>2, <2>3 DEF Kept
<1>16. Promise!Add(v, s)
  BY <1>3, <1>15 DEF Promise!Add
<1> QED BY <1>14, <1>16

\* mchar_async_cache_clean keeps the invariant, and no region.
LEMMA CleanStep ==
  ASSUME CacheInv, CacheClean
  PROVE  CacheInv' /\ Promise!Clean
<1> USE CacheAssumption
<1> USE DEF CacheClean
<1>1. Arrays /\ Stack
  BY DEF CacheInv
<1>2. IsArray(nodes) /\ NoCycle(nodes) /\ 0 \in DOMAIN nodes
  BY <1>1 DEF Arrays, IsArray
<1>3. DOMAIN nodes' = DOMAIN nodes /\ nodes'[0] = None
      /\ \A k \in DOMAIN nodes : k # 0 => nodes'[k] = nodes[k]
  BY <1>2
<1>4. IsArray(nodes')
  <2>1. None \in Node(DOMAIN nodes)
    BY <1>2 DEF None, Node
  <2>2. \A k \in DOMAIN nodes : nodes'[k] \in Node(DOMAIN nodes) /\ nodes'[k].left = 0
    BY <1>2, <1>3, <2>1 DEF IsArray, None
  <2>3. nodes' \in [DOMAIN nodes' -> Node(DOMAIN nodes')]
    BY <1>3, <2>2
  <2> QED BY <1>2, <1>3, <2>2, <2>3 DEF IsArray, None
<1>5. NoCycle(nodes')
  BY <1>2, <1>3 DEF NoCycle
<1>6. Arrays'
  <2>1. 0 .. nodes_length' - 1 = {0}
    OBVIOUS
  <2> QED BY <1>1, <1>2, <1>3, <1>4, <1>5, <2>1 DEF Arrays
<1>7. Stack'
  BY <1>1 DEF Stack, Once
<1>8. IsChain(nodes', nodes_root', count', <<>>) /\ On(count', <<>>) = {}
  BY DEF IsChain, On
<1>9. Chained(<<>>)'
  <2>1. Range(index') = {} /\ 1 .. nodes_length' - 1 = {}
    BY DEF Range
  <2> QED BY <1>8, <2>1 DEF Chained
<1>10. CacheInv'
  BY <1>6, <1>7, <1>9 DEF CacheInv
<1>11. Kept' = {}
  <2>1. Linked' = {}
    BY <1>6, <1>8, LinkedIsChain
  <2> QED BY <2>1 DEF Kept
<1> QED BY <1>10, <1>11 DEF Promise!Clean

\* mchar_async_cache_delete takes a place out of the chain, or finds none.
LEMMA DeleteRemoves ==
  ASSUME Arrays, NEW ch, Chained(ch), NEW s \in Sizes, CacheDelete(s), Found(s) # 0
  PROVE  \E q \in 1 .. count :
           /\ Found(s) = ch[q] /\ s <= nodes[ch[q]].size
           /\ \A j \in 1 .. count : s <= nodes[ch[j]].size => nodes[ch[q]].size <= nodes[ch[j]].size
           /\ nodes' = Removed(nodes, count, ch, q)
           /\ nodes_root' = IF q = 1 THEN Next(count, ch, q) ELSE nodes_root
           /\ index' = Append(index, ch[q]) /\ count' = count - 1
           /\ given' = nodes[ch[q]].value
<1> DEFINE n == count
           idx == Found(s)
           parent == nodes[idx].parent
           right == nodes[idx].right
<1>0. /\ n \in Nat /\ IsArray(nodes) /\ NoCycle(nodes) /\ IsChain(nodes, nodes_root, n, ch)
      /\ 0 \in DOMAIN nodes /\ nodes[0].left = 0
      /\ \A j \in DOMAIN nodes : nodes[j] \in Node(DOMAIN nodes) /\ nodes[j].left = 0
      /\ \A j \in 1 .. n : ch[j] \in DOMAIN nodes /\ ch[j] # 0
  BY DEF Arrays, Chained, IsChain, IsArray
<1>1. PICK q \in 1 .. n :
        /\ idx = ch[q] /\ s <= nodes[ch[q]].size
        /\ \A j \in 1 .. n : s <= nodes[ch[j]].size => nodes[ch[q]].size <= nodes[ch[j]].size
  BY <1>0, FirstStops, Searches
<1>2. /\ parent = (IF q = 1 THEN 0 ELSE ch[q - 1]) /\ right = (IF q = n THEN 0 ELSE ch[q + 1])
      /\ idx \in DOMAIN nodes /\ idx # 0 /\ parent \in DOMAIN nodes /\ right \in DOMAIN nodes
  <2> HIDE DEF idx
  <2>1. idx \in DOMAIN nodes /\ idx # 0
    BY <1>0, <1>1
  <2>2. nodes[idx] \in Node(DOMAIN nodes)
    BY <1>0, <2>1
  <2>3. parent \in DOMAIN nodes /\ right \in DOMAIN nodes
    BY <2>2 DEF Node
  <2> QED BY <1>0, <1>1, <2>1, <2>3 DEF IsChain
<1>3. parent = Prev(ch, q) /\ right = Next(n, ch, q)
  BY <1>2 DEF Prev, Next
<1>4. parent = right => parent = 0 /\ right = 0
  <2>1. CASE q # 1 /\ q # n
    <3>1. q - 1 \in 1 .. n /\ q + 1 \in 1 .. n /\ q - 1 < q + 1
      BY <2>1, <1>0
    <3>2. ch[q - 1] # ch[q + 1]
      BY <3>1, <1>0 DEF IsChain
    <3> QED BY <2>1, <3>2, <1>2
  <2>2. CASE ~ (q # 1 /\ q # n)
    BY <2>2, <1>2
  <2> QED BY <2>1, <2>2
<1>5. Joined(idx, "left", "right") = nodes
  <2> HIDE DEF idx
  <2> QED BY <1>0, <1>2 DEF Joined
<1>6. /\ nodes' = Set(IF parent = 0 THEN nodes ELSE Set(nodes, parent, "right", right),
                      right, "parent", parent)
      /\ nodes_root' = IF parent = 0 THEN right ELSE nodes_root
      /\ index' = Append(index, idx) /\ count' = count - 1 /\ given' = nodes[idx].value
  <2>1. ~ (parent # 0 /\ nodes[parent].left = idx) /\ nodes[idx].left = 0
    <3> HIDE DEF idx
    <3> QED BY <1>0, <1>2
  <2> HIDE DEF idx, parent, right
  <2>2. idx # 0
    BY <1>2
  <2> QED BY <2>1, <2>2, <1>5 DEF CacheDelete, idx, parent, right
<1>7. nodes' = Without(nodes, parent, right)
  <2> HIDE DEF idx, parent, right
  <2> QED BY <1>2, <1>4, <1>6 DEF Set, Without
<1>8. parent = 0 <=> q = 1
  <2> HIDE DEF idx, parent, right
  <2>1. q # 1 => q - 1 \in 1 .. n
    BY <1>0
  <2> QED BY <2>1, <1>0, <1>2
<1>9. nodes' = Removed(nodes, n, ch, q)
  <2> HIDE DEF idx, parent, right
  <2> QED BY <1>3, <1>7 DEF Removed
<1>10. nodes_root' = IF q = 1 THEN Next(n, ch, q) ELSE nodes_root
  <2> HIDE DEF idx, parent, right
  <2> QED BY <1>3, <1>6, <1>8
<1> QED BY <1>1, <1>6, <1>9, <1>10

\* A call of mchar_async_cache_delete keeps the invariant, and gives one of the
\* smallest regions that are large enough.
LEMMA DeleteStep ==
  ASSUME CacheInv, NEW s \in Sizes, CacheDelete(s)
  PROVE  CacheInv' /\ Promise!Delete(s)
<1> USE CacheAssumption
<1>1. PICK ch : Chained(ch)
  BY DEF CacheInv
<1>2. Arrays /\ Stack /\ count \in Nat /\ given \in Values \cup {NULL}
  BY <1>1 DEF CacheInv, Chained, IsChain
<1>3. IsArray(nodes) /\ NoCycle(nodes) /\ IsChain(nodes, nodes_root, count, ch)
  BY <1>1, <1>2 DEF Arrays, Chained
<1>4. Linked = On(count, ch)
  BY <1>1, <1>2, LinkedIsChain
<1>5. \A j \in 1 .. count : ch[j] \in DOMAIN nodes /\ ch[j] # 0 /\ nodes[ch[j]].size \in Nat
                            /\ nodes[ch[j]].value \in Values
  BY <1>3 DEF IsChain
<1> DEFINE entry(k) == [value |-> nodes[k].value, size |-> nodes[k].size]
<1>6. Kept = {entry(ch[j]) : j \in 1 .. count}
  BY <1>4 DEF Kept, On
<1>7. CASE Found(s) = 0
  <2>1. \A j \in 1 .. count : nodes[ch[j]].size < s
    BY <1>3, <1>5, <1>7, FirstStops, Searches
  <2>2. given' = NULL
        /\ UNCHANGED <<nodes, nodes_root, nodes_length, nodes_size, index, index_size, count>>
    BY <1>7 DEF CacheDelete
  <2>3. CacheInv'
    <3>1. Arrays' /\ Stack'
      BY <1>2, <2>2 DEF Arrays, Stack
    <3>2. Chained(ch)'
      BY <1>1, <2>2 DEF Chained
    <3> QED BY <2>2, <3>1, <3>2 DEF CacheInv
  <2>4. Kept' = Kept
    BY <2>2 DEF Kept, Linked
  <2>5. Promise!Best(s) = {}
    <3> SUFFICES ASSUME NEW e \in Kept, e.size >= s PROVE FALSE
      BY DEF Promise!Best
    <3>1. PICK j \in 1 .. count : e = entry(ch[j])
      BY <1>6
    <3> QED BY <3>1, <2>1, <1>5
  <2> QED BY <2>2, <2>3, <2>4, <2>5 DEF Promise!Delete
<1>8. CASE Found(s) # 0
  <2>1. PICK q \in 1 .. count :
           /\ Found(s) = ch[q] /\ s <= nodes[ch[q]].size
           /\ \A j \in 1 .. count : s <= nodes[ch[j]].size => nodes[ch[q]].size <= nodes[ch[j]].size
           /\ nodes' = Removed(nodes, count, ch, q)
           /\ nodes_root' = IF q = 1 THEN Next(count, ch, q) ELSE nodes_root
           /\ index' = Append(index, ch[q]) /\ count' = count - 1
           /\ given' = nodes[ch[q]].value
    BY <1>1, <1>2, <1>8, DeleteRemoves
  <2>2. PICK ch2 : /\ IsChain(nodes', nodes_root', count', ch2)
                  /\ On(count', ch2) = On(count, ch) \ {ch[q]} /\ ch[q] \in On(count, ch)
    BY <1>3, <2>1, RemovedChain
  <2>3. IsArray(nodes') /\ DOMAIN nodes' = DOMAIN nodes
    BY <1>3, <2>1, RemovedArray DEF Removed, Without
  <2>4. \A k \in DOMAIN nodes : k \notin On(count', ch2) =>
          nodes'[k] = nodes[k] \/ nodes'[k] = [nodes[k] EXCEPT !.parent = Prev(ch, q)]
    <3> SUFFICES ASSUME NEW k \in DOMAIN nodes, k \notin On(count', ch2)
                 PROVE  nodes'[k] = nodes[k] \/ nodes'[k] = [nodes[k] EXCEPT !.parent = Prev(ch, q)]
      OBVIOUS
    <3>1. k # 0 => k # Prev(ch, q)
      <4>1. CASE q = 1
        BY <4>1 DEF Prev
      <4>2. CASE q # 1
        <5>1. q - 1 \in 1 .. count /\ q - 1 < q
          BY <4>2, <1>2
        <5>2. ch[q - 1] \in On(count, ch) /\ ch[q - 1] # ch[q]
          BY <5>1, <1>3 DEF On, IsChain
        <5> QED BY <4>2, <5>2, <2>2 DEF Prev
      <4> QED BY <4>1, <4>2
    <3> QED BY <2>1, <3>1 DEF Removed, Without
  <2>5. NoCycle(nodes')
    <3>1. \A k \in DOMAIN nodes' \ {0} :
            k \notin On(count', ch2) => k \in DOMAIN nodes /\ nodes'[k].right = nodes[k].right
      <4> SUFFICES ASSUME NEW k \in DOMAIN nodes \ {0}, k \notin On(count', ch2)
                   PROVE  nodes'[k].right = nodes[k].right
        BY <2>3
      <4>1. nodes[k] \in Node(DOMAIN nodes)
        BY <1>3 DEF IsArray
      <4> QED BY <4>1, <2>4 DEF Node
    <3> QED BY <1>3, <2>2, <3>1, NoNewCycle
  <2>6. nodes_length' = nodes_length /\ nodes_size' = nodes_size
        /\ index_size' = (IF Len(index') >= index_size THEN 2 * index_size ELSE index_size)
    BY <1>8 DEF CacheDelete
  <2>7. Arrays'
    BY <1>2, <2>3, <2>5, <2>6 DEF Arrays
  <2>8. ch[q] \in Nat /\ ch[q] \notin Range(index)
    BY <1>1, <1>3, <1>5, <2>2 DEF Chained, IsArray
  <2>9. Stack' /\ Range(index') = Range(index) \cup {ch[q]}
    <3>1. /\ index' \in Seq(Nat) /\ Len(index') = Len(index) + 1 /\ Once(index')
          /\ Range(index') = Range(index) \cup {ch[q]}
      BY <1>2, <2>1, <2>8, AppendToStack DEF Stack
    <3>2. Len(index) \in Nat
      BY <1>2 DEF Stack
    <3> QED BY <1>2, <2>6, <3>1, <3>2 DEF Stack
  <2>10. Chained(ch2)'
    BY <1>1, <2>2, <2>6, <2>9 DEF Chained
  <2>11. CacheInv'
    BY <1>5, <2>1, <2>7, <2>9, <2>10 DEF CacheInv
  <2>12. entry(ch[q]) \in Promise!Best(s) /\ given' = entry(ch[q]).value
    <3>1. entry(ch[q]) \in Kept /\ entry(ch[q]).size >= s
      BY <1>5, <1>6, <2>1
    <3>2. \A d \in Kept : d.size >= s => entry(ch[q]).size <= d.size
      <4> SUFFICES ASSUME NEW j \in 1 .. count, nodes[ch[j]].size >= s
                   PROVE  nodes[ch[q]].size <= nodes[ch[j]].size
        BY <1>6
      <4>1. s <= nodes[ch[j]].size
        BY <1>5
      <4> QED BY <2>1, <4>1
    <3> QED BY <2>1, <3>1, <3>2 DEF Promise!Best
  <2>13. Kept' = Kept \ {entry(ch[q])}
    <3>1. Linked' = On(count, ch) \ {ch[q]}
      BY <2>2, <2>7, LinkedIsChain
    <3>2. ASSUME NEW k \in DOMAIN nodes
          PROVE nodes'[k].value = nodes[k].value /\ nodes'[k].size = nodes[k].size
      <4>1. \/ nodes'[k] = nodes[k] \/ nodes'[k] = [nodes[k] EXCEPT !.parent = Prev(ch, q)]
            \/ nodes'[k] = [nodes[k] EXCEPT !.right = Next(count, ch, q)]
        BY <2>1 DEF Removed, Without
      <4>2. nodes[k] \in Node(DOMAIN nodes)
        BY <1>3 DEF IsArray
      <4> QED BY <4>1, <4>2 DEF Node
    <3>3. \A j \in 1 .. count : ch[j] # ch[q] => entry(ch[j]) # entry(ch[q])
      <4> SUFFICES ASSUME NEW j \in 1 .. count, ch[j] # ch[q] PROVE nodes[ch[j]].value # nodes[ch[q]].value
        OBVIOUS
      <4>1. j < q \/ q < j
        BY <1>2
      <4> QED BY <4>1, <1>3 DEF IsChain
    <3>4. Kept' = {entry(k) : k \in On(count, ch) \ {ch[q]}}
      <4>1. On(count, ch) \subseteq DOMAIN nodes
        BY <1>5 DEF On
      <4>2. \A k \in Linked' : [value |-> nodes'[k].value, size |-> nodes'[k].size] = entry(k)
        BY <3>1, <3>2, <4>1
      <4> HIDE DEF entry
      <4> QED BY <3>1, <4>2 DEF Kept
    <3> HIDE DEF entry
    <3> QED BY <1>6, <3>3, <3>4 DEF On
  <2> HIDE DEF entry
  <2> QED BY <2>11, <2>12, <2>13 DEF Promise!Delete
<1> QED BY <1>7, <1>8

-----------------------------------------------------------------------------
\* Every call keeps the invariant and is a call of BestFit.
LEMMA CacheStep ==
  CacheInv /\ [CacheNext]_cvars => CacheInv' /\ [Promise!Next]_<<Kept, given>>
<1> SUFFICES ASSUME CacheInv, [CacheNext]_cvars
             PROVE  CacheInv' /\ [Promise!Next]_<<Kept, given>>
  OBVIOUS
<1>1. CASE CacheClean
  BY <1>1, CleanStep DEF Promise!Next
<1>2. ASSUME NEW s \in Sizes, CacheDelete(s)
      PROVE  CacheInv' /\ [Promise!Next]_<<Kept, given>>
  BY <1>2, DeleteStep DEF Promise!Next
<1>3. ASSUME NEW s \in Sizes, NEW v \in Values, \A e \in Kept : e.value # v, CacheAdd(v, s)
      PROVE  CacheInv' /\ [Promise!Next]_<<Kept, given>>
  <2>1. CacheInv' /\ Promise!Add(v, s)
    BY <1>3, AddStep
  <2> QED BY <2>1 DEF Promise!Next
<1>4. CASE UNCHANGED cvars
  <2>1. Kept' = Kept /\ given' = given
    BY <1>4 DEF cvars, Kept, Linked
  <2>2. PICK ch : Chained(ch)
    BY DEF CacheInv
  <2>3. Arrays' /\ Stack' /\ Chained(ch)'
    BY <1>4, <2>2 DEF CacheInv, cvars, Arrays, Stack, Chained
  <2> QED BY <1>4, <2>1, <2>3 DEF CacheInv, cvars
<1> QED BY <1>1, <1>2, <1>3, <1>4 DEF CacheNext

\* The array always holds a chain with every place on it or on the stack of
\* free places, in every order of calls and whatever the sizes.
THEOREM CacheInvariant == CacheSpec => []CacheInv
<1>1. CacheInit => CacheInv
  BY CacheInitInv
<1>2. CacheInv /\ [CacheNext]_cvars => CacheInv'
  BY CacheStep
<1> QED BY <1>1, <1>2, PTL DEF CacheSpec

\* A function that takes each value once has as many values as arguments.
LEMMA CountOnce ==
  ASSUME NEW n \in Nat, NEW f, \A i, j \in 1 .. n : i # j => f[i] # f[j]
  PROVE  Cardinality({f[i] : i \in 1 .. n}) = n
<1> DEFINE S == {f[i] : i \in 1 .. n}
           g == [i \in 1 .. n |-> f[i]]
<1>1. g \in Bijection(1 .. n, S)
  BY DEF Bijection, Injection, Surjection, IsInjective
<1>2. ExistsBijection(1 .. n, S)
  <2> HIDE DEF g, S
  <2> QED BY <1>1 DEF ExistsBijection
<1> HIDE DEF S
<1>3. Cardinality(S) = n
  BY <1>2, FS_CountingElements
<1> QED BY <1>3 DEF S

\* What is checked by the run follows from the invariant.
LEMMA CacheInvImplies ==
  ASSUME CacheInv
  PROVE  CacheTypeOK /\ PlacesConserved /\ SortedChain /\ InBounds
<1> USE CacheAssumption
<1>1. PICK ch : Chained(ch)
  BY DEF CacheInv
<1>2. Arrays /\ Stack /\ count \in Nat /\ given \in Values \cup {NULL}
  BY <1>1 DEF CacheInv, Chained, IsChain
<1>3. IsArray(nodes) /\ IsChain(nodes, nodes_root, count, ch)
  BY <1>1, <1>2 DEF Arrays, Chained
<1>4. Linked = On(count, ch)
  BY <1>1, <1>2, LinkedIsChain
<1>5. CacheTypeOK
  <2>1. nodes_root \in DOMAIN nodes
    BY <1>2, <1>3 DEF IsChain, IsArray
  <2>2. \A k \in DOMAIN nodes : nodes[k] \in Node(DOMAIN nodes)
    BY <1>3 DEF IsArray
  <2> QED BY <1>2, <2>1, <2>2 DEF CacheTypeOK, Arrays, Stack, Node
<1>6. PlacesConserved
  <2>1. Len(index) \in Nat /\ Range(index) = {index[i] : i \in 1 .. Len(index)}
    BY <1>2 DEF Stack, Range
  <2>2. Cardinality(Range(index)) = Len(index)
    BY <1>2, <2>1, CountOnce DEF Stack, Once
  <2>3. \A i, j \in 1 .. count : i # j => ch[i] # ch[j]
    <3> SUFFICES ASSUME NEW i \in 1 .. count, NEW j \in 1 .. count, i # j PROVE ch[i] # ch[j]
      OBVIOUS
    <3>1. i < j \/ j < i
      BY <1>2
    <3> QED BY <3>1, <1>3 DEF IsChain
  <2>4. Cardinality(Linked) = count
    BY <1>2, <1>4, <2>3, CountOnce DEF On
  <2> QED BY <1>1, <1>4, <2>2, <2>4 DEF PlacesConserved, Chained
<1>7. SortedChain
  <2>1. nodes[0].size = 0 /\ nodes[0].left = 0 /\ nodes[0].right = 0
    BY <1>3 DEF IsArray
  <2>2. nodes_root # 0 => nodes[nodes_root].parent = 0
    <3> SUFFICES ASSUME nodes_root # 0 PROVE nodes[nodes_root].parent = 0
      OBVIOUS
    <3>1. 1 \in 1 .. count /\ nodes_root = ch[1]
      BY <1>2, <1>3 DEF IsChain
    <3> QED BY <3>1, <1>3 DEF IsChain
  <2>3. ASSUME NEW j \in 1 .. count, nodes[ch[j]].right # 0
        PROVE  /\ nodes[nodes[ch[j]].right].parent = ch[j]
               /\ nodes[ch[j]].size <= nodes[nodes[ch[j]].right].size
    <3>1. j # count /\ nodes[ch[j]].right = ch[j + 1]
      BY <2>3, <1>3 DEF IsChain
    <3>2. j + 1 \in 1 .. count /\ j < j + 1 /\ (j + 1) - 1 = j /\ j + 1 # 1
      BY <3>1, <1>2
    <3>3. nodes[ch[j + 1]].parent = ch[j] /\ nodes[ch[j]].size <= nodes[ch[j + 1]].size
      BY <3>2, <1>3 DEF IsChain
    <3> QED BY <3>1, <3>3
  <2>4. \A j \in 1 .. count : nodes[ch[j]].left = 0
    BY <1>3 DEF IsChain, IsArray
  <2> QED BY <1>4, <2>1, <2>2, <2>3, <2>4 DEF SortedChain, On
<1>8. InBounds
  BY <1>2 DEF InBounds, Arrays, Stack
<1> QED BY <1>5, <1>6, <1>7, <1>8

\* The cache keeps its types.
THEOREM CacheTypeCorrect == CacheSpec => []CacheTypeOK
<1>1. CacheInv => CacheTypeOK
  BY CacheInvImplies
<1> QED BY <1>1, CacheInvariant, PTL

\* No place is lost and none is used twice, in any order of calls.
THEOREM CachePlaces == CacheSpec => []PlacesConserved
<1>1. CacheInv => PlacesConserved
  BY CacheInvImplies
<1> QED BY <1>1, CacheInvariant, PTL

\* The tree is always a sorted chain to the right.
THEOREM CacheChain == CacheSpec => []SortedChain
<1>1. CacheInv => SortedChain
  BY CacheInvImplies
<1> QED BY <1>1, CacheInvariant, PTL

\* Neither array is written behind its end.
THEOREM CacheBounds == CacheSpec => []InBounds
<1>1. CacheInv => InBounds
  BY CacheInvImplies
<1> QED BY <1>1, CacheInvariant, PTL

\* Every call of the cache is a call of BestFit: what mchar_async_cache_delete
\* gives is one of the smallest regions that are large enough.
THEOREM CacheIsBestFit == CacheSpec => Implements
<1>1. CacheInit => Promise!Init
  <2> SUFFICES ASSUME CacheInit PROVE Kept = {} /\ given = NULL
    BY DEF Promise!Init
  <2>1. CacheInv
    BY CacheInitInv
  <2>2. PICK ch : Chained(ch)
    BY <2>1 DEF CacheInv
  <2>3. Linked = On(count, ch) /\ count = 0
    BY <2>1, <2>2, LinkedIsChain DEF CacheInv, CacheInit
  <2> QED BY <2>3 DEF Kept, On, CacheInit
<1>2. CacheInv /\ [CacheNext]_cvars => [Promise!Next]_<<Kept, given>>
  BY CacheStep
<1> QED BY <1>1, <1>2, CacheInvariant, PTL DEF CacheSpec, Implements, Promise!Spec

===============================================================================
