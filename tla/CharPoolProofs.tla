---------------------------- MODULE CharPoolProofs ----------------------------
(***************************************************************************)
(* Proofs about CharPool, for every number of threads and every size, by   *)
(* the invariant IndInv of CharPoolInv: a lemma per part of the invariant, *)
(* and in it a step per action.                                            *)
(***************************************************************************)
EXTENDS CharPoolInv, TLAPS

\* The build and the documents the theorems are about: the lock is a mutex and
\* every thread keeps to its own node.
Excluding == ~Spinlock /\ ~MergeForeign

\* The initial state satisfies the invariant.
LEMMA InvInit == Init => IndInv
<1> SUFFICES ASSUME Init PROVE IndInv
  OBVIOUS
<1> USE PoolAssumption DEF Init, Threads, Chunks
<1>1. TypeOK
  <2>1. \A n \in Threads : <<1, n>> \in Chunks
    OBVIOUS
  <2>2. NoRegion \in RegionSet /\ NoRegion.c \in Chunks
    BY DEF NoRegion, Region, RegionSet
  <2> QED
    BY <2>1, <2>2 DEF TypeOK, Labels
<1>2. LockInv /\ CounterInv
  BY DEF LockInv, CounterInv, MutualExclusion, Critical
<1>3. ChunkInv
  BY DEF ChunkInv, ChunkExclusive, Held, InHand, Given
<1>4. ASSUME NEW n \in Threads PROVE NodeInv(n) /\ RegionInv(n) /\ JobInv(n)
  BY <1>4 DEF NodeInv, RegionInv, JobInv, Held, Regions
<1> QED
  BY <1>1, <1>2, <1>3, <1>4 DEF IndInv

\* A region of a chunk.
LEMMA RegionType ==
  ASSUME NEW c \in Chunks, NEW o \in Nat, NEW s \in Nat
  PROVE  Region(c, o, s) \in RegionSet
  BY DEF RegionSet, Region

\* The parts of a region.
LEMMA RegionParts ==
  ASSUME NEW r \in RegionSet
  PROVE  r.c \in Chunks /\ r.off \in Nat /\ r.size \in Nat /\ End(r) \in Nat
  BY DEF RegionSet, End

\* The initial values of the locals of a call.
LEMMA NoRegionType == NoRegion \in RegionSet /\ NoRegion.c \in Chunks
  BY PoolAssumption DEF NoRegion, Region, RegionSet, Chunks

\* What a call chooses: a region of the cache, the next cells of the current
\* chunk, or nothing yet.
LEMMA ChooseType ==
  ASSUME TypeOK, NEW u \in Threads, NEW n \in Threads, NEW s \in Sizes, Choose(u, n, s)
  PROVE  /\ at' \in [Threads -> RegionSet]
         /\ pc' \in [Threads -> Labels]
         /\ pc' = [pc EXCEPT ![u] = pc'[u]]
         /\ pc'[u] \in {"reuse", "carve", "turn"}
<1> USE DEF TypeOK, Labels, Goto
<1>1. CASE \E r \in Best(n, s) : at' = [at EXCEPT ![u] = r] /\ Goto(u, "reuse")
  BY <1>1 DEF Best, Fits
<1>2. CASE /\ at' = [at EXCEPT ![u] = Region(cur[n], length[cur[n]] + Header, s)]
           /\ Goto(u, "carve")
  <2>1. Region(cur[n], length[cur[n]] + Header, s) \in RegionSet
    BY RegionType, PoolAssumption
  <2> QED
    BY <1>2, <2>1
<1>3. CASE Goto(u, "turn") /\ UNCHANGED at
  BY <1>3
<1> QED
  BY <1>1, <1>2, <1>3 DEF Choose

\* The steps of a call keep the types.
LEMMA TypeStep ==
  ASSUME Excluding, IndInv, Next PROVE TypeOK'
<1> USE DEF IndInv, TypeOK, Goto, chunks, sizes, nodes, regions, args
<1>1. CASE Clean
  BY <1>1, PoolAssumption DEF Clean
<1>2. CASE Crop
  <2>1. PICK n \in Threads : \E r \in live[n] : \E k \in 1 .. r.size - 1 : CropBy(n, r, k)
    BY <1>2 DEF Crop
  <2>2. PICK r \in live[n] : \E k \in 1 .. r.size - 1 : CropBy(n, r, k)
    BY <2>1
  <2>3. PICK k \in 1 .. r.size - 1 : CropBy(n, r, k)
    BY <2>2
  <2>4. r \in RegionSet /\ r.c \in Chunks /\ r.off + k \in Nat /\ r.size - k \in Nat
    BY RegionParts
  <2>5. Region(r.c, r.off + k, r.size - k) \in RegionSet
    BY <2>4, RegionType
  <2> QED
    BY <2>3, <2>5 DEF CropBy
<1>3. ASSUME NEW u \in Threads, Step(u) PROVE TypeOK'
  <2>1. CASE Malloc(u)
    <3>1. PICK s \in Sizes : Call(u, u, s, {}) /\ Choose(u, u, s)
      BY <2>1 DEF Malloc
    <3> QED
      BY <3>1, ChooseType, PoolAssumption DEF Call
  <2>2. CASE Realloc(u)
    <3>1. PICK n \in Threads : \E r \in live[n], s \in Sizes :
            /\ Call(u, n, s, {r})
            /\ \/ at' = [at EXCEPT ![u] = Region(r.c, r.off, s)] /\ Goto(u, "extend")
               \/ Choose(u, n, s)
      BY <2>2 DEF Realloc, Enlarges
    <3>2. PICK r \in live[n], s \in Sizes :
            /\ Call(u, n, s, {r})
            /\ \/ at' = [at EXCEPT ![u] = Region(r.c, r.off, s)] /\ Goto(u, "extend")
               \/ Choose(u, n, s)
      BY <3>1
    <3>3. r \in RegionSet /\ s \in Nat /\ Region(r.c, r.off, s) \in RegionSet
      BY RegionParts, RegionType, PoolAssumption
    <3>4. at' \in [Threads -> RegionSet] /\ pc' \in [Threads -> Labels]
      <4>1. CASE Choose(u, n, s)
        BY <4>1, ChooseType
      <4>2. CASE at' = [at EXCEPT ![u] = Region(r.c, r.off, s)] /\ Goto(u, "extend")
        BY <4>2, <3>3 DEF Labels
      <4> QED
        BY <3>2, <4>1, <4>2
    <3> QED
      BY <3>2, <3>3, <3>4 DEF Call
  <2>3. CASE Extend(u) \/ Reuse(u) \/ Carve(u)
    <3>1. at[u].c \in Chunks /\ End(at[u]) \in Nat
      BY RegionParts
    <3> USE NoRegionType DEF Return
    <3>2. CASE Extend(u)
      BY <3>1, <3>2 DEF Extend, Labels
    <3>3. CASE Reuse(u)
      BY <3>3 DEF Reuse, Give, Labels
    <3>4. CASE Carve(u)
      BY <3>1, <3>4 DEF Carve, Give, Labels
    <3> QED
      BY <2>3, <3>2, <3>3, <3>4
  <2>4. CASE Turn(u)
    <3> DEFINE n == node[u]
               c == cur[n]
               rest == size[c] - length[c] - Header
    <3>1. rest > 0 => Region(c, length[c] + Header, rest) \in RegionSet
      BY RegionType, PoolAssumption
    <3>2. cache' \in [Threads -> SUBSET RegionSet]
      BY <2>4, <3>1 DEF Turn
    <3>3. CASE \E d \in spare[n] :
                 /\ Current(n, d) /\ Front(u, d)
                 /\ length' = [length EXCEPT ![c] = IF rest > 0 THEN size[c] ELSE @, ![d] = 0]
                 /\ UNCHANGED compare
      <4>1. PICK d \in spare[n] :
                 /\ Current(n, d) /\ Front(u, d)
                 /\ length' = [length EXCEPT ![c] = IF rest > 0 THEN size[c] ELSE @, ![d] = 0]
                 /\ UNCHANGED compare
        BY <3>3
      <4>2. Region(d, Header, want[u]) \in RegionSet
        BY RegionType, PoolAssumption
      <4>3. at' \in [Threads -> RegionSet] /\ pc' \in [Threads -> Labels]
        BY <4>1, <4>2 DEF Front, Labels
      <4>4. length' \in [Chunks -> Nat]
        BY <4>1
      <4>5. /\ cur' \in [Threads -> Chunks] /\ used' \in [Threads -> SUBSET Chunks]
            /\ spare' \in [Threads -> SUBSET Chunks] /\ first' = first
        BY <4>1 DEF Current
      <4> QED
        BY <2>4, <3>2, <4>1, <4>3, <4>4, <4>5 DEF Turn
    <3>4. CASE /\ length' = [length EXCEPT ![c] = IF rest > 0 THEN size[c] ELSE @]
               /\ compare' = [compare EXCEPT ![u] = 0]
               /\ Goto(u, "lock")
               /\ UNCHANGED <<nodes, at>>
      BY <2>4, <3>2, <3>4 DEF Turn, Labels
    <3> QED
      BY <2>4, <3>3, <3>4 DEF Turn, Behind
  <2>5. CASE Lock(u)
    BY <2>5 DEF Lock, Excluding, Labels, Critical
  <2>6. CASE Row(u) \/ Take(u) \/ Bump(u)
    <3>1. CASE Row(u)
      BY <3>1, PoolAssumption DEF Row, Labels, Critical
    <3>2. CASE Take(u)
      BY <3>2, PoolAssumption DEF Take, CounterInv, Labels, Critical, Chunks
    <3>3. CASE Bump(u)
      BY <3>3, PoolAssumption DEF Bump, CounterInv, Labels, Critical
    <3> QED
      BY <2>6, <3>1, <3>2, <3>3
  <2>7. CASE Mem(u) \/ Unlock(u)
    BY <2>7, PoolAssumption DEF Mem, Unlock, Ask, Labels, Critical
  <2>8. CASE Link(u)
    <3>1. Region(got[u], Header, want[u]) \in RegionSet
      BY RegionType, PoolAssumption
    <3> QED
      BY <2>8, <3>1 DEF Link, Current, Front, Labels
  <2>9. CASE Free(u)
    BY <2>9 DEF Free
  <2> QED
    BY <1>3, <2>1, <2>2, <2>3, <2>4, <2>5, <2>6, <2>7, <2>8, <2>9 DEF Step
<1> QED
  BY <1>1, <1>2, <1>3 DEF Next

\* A call of malloc or realloc is on the thread's own node; it replaces no
\* region, or one of those the node's callers hold, and chooses what to do.
LEMMA CallStep ==
  ASSUME Excluding, TypeOK, NEW u \in Threads, Malloc(u) \/ Realloc(u)
  PROVE  /\ \E s \in Sizes : \E o \in SUBSET live[u] :
              /\ Call(u, u, s, o)
              /\ \/ Choose(u, u, s)
                 \/ \E r \in live[u] :
                      /\ o = {r} /\ s > r.size /\ Extends(u, r, s)
                      /\ at' = [at EXCEPT ![u] = Region(r.c, r.off, s)] /\ Goto(u, "extend")
         /\ pc[u] = "idle"
         /\ pc' = [pc EXCEPT ![u] = pc'[u]]
         /\ pc'[u] \in {"extend", "reuse", "carve", "turn"}
<1>1. CASE Malloc(u)
  <2>1. PICK s \in Sizes : Call(u, u, s, {}) /\ Choose(u, u, s)
    BY <1>1 DEF Malloc
  <2> QED
    BY <2>1, ChooseType DEF Call
<1>2. CASE Realloc(u)
  <2>1. PICK r \in live[u] : \E s \in Sizes :
          /\ s > r.size
          /\ Call(u, u, s, {r})
          /\ \/ /\ Extends(u, r, s)
                /\ at' = [at EXCEPT ![u] = Region(r.c, r.off, s)] /\ Goto(u, "extend")
             \/ Choose(u, u, s)
    BY <1>2 DEF Realloc, Enlarges, Excluding
  <2>2. PICK s \in Sizes :
          /\ s > r.size
          /\ Call(u, u, s, {r})
          /\ \/ /\ Extends(u, r, s)
                /\ at' = [at EXCEPT ![u] = Region(r.c, r.off, s)] /\ Goto(u, "extend")
             \/ Choose(u, u, s)
    BY <2>1
  <2>3. {r} \in SUBSET live[u]
    OBVIOUS
  <2>4. pc' = [pc EXCEPT ![u] = pc'[u]] /\ pc'[u] \in {"extend", "reuse", "carve", "turn"}
    <3>1. CASE Choose(u, u, s)
      BY <3>1, ChooseType
    <3>2. CASE Goto(u, "extend")
      BY <3>2 DEF Goto, TypeOK
    <3> QED
      BY <2>2, <3>1, <3>2
  <2> QED
    BY <2>2, <2>3, <2>4 DEF Call
<1> QED
  BY <1>1, <1>2

\* The lock admits one thread, which knows the next chunk.
LEMMA LockStep ==
  ASSUME Excluding, IndInv, Next PROVE LockInv' /\ CounterInv'
<1> USE DEF IndInv, TypeOK, LockInv, CounterInv, MutualExclusion, Critical, chunks
<1>1. CASE Clean
  BY <1>1 DEF Clean
<1>2. CASE Crop
  BY <1>2 DEF Crop, CropBy
<1>3. ASSUME NEW u \in Threads, Step(u) PROVE LockInv' /\ CounterInv'
  <2> USE DEF Goto
  <2>1. CASE Malloc(u) \/ Realloc(u)
    <3>1. UNCHANGED <<chunks, lock, compare, got>>
      BY <2>1, CallStep DEF Call
    <3>2. /\ pc' = [pc EXCEPT ![u] = pc'[u]]
          /\ pc'[u] \in {"extend", "reuse", "carve", "turn"}
      BY <2>1, CallStep
    <3> QED
      BY <3>1, <3>2
  <2>2. CASE Extend(u) \/ Reuse(u) \/ Carve(u)
    <3>1. /\ UNCHANGED <<chunks, lock, compare>> /\ pc' = [pc EXCEPT ![u] = "idle"]
          /\ \A v \in Threads : v # u => got'[v] = got[v]
      BY <2>2 DEF Extend, Reuse, Carve, Give, Return
    <3> QED
      BY <3>1
  <2>3. CASE Turn(u)
    BY <2>3 DEF Turn, Front
  <2>4. CASE Lock(u)
    BY <2>4 DEF Lock, Excluding
  <2>5. CASE Row(u)
    BY <2>5, PoolAssumption DEF Row
  <2>6. CASE Take(u)
    BY <2>6 DEF Take
  <2>7. CASE Bump(u)
    BY <2>7 DEF Bump
  <2>8. CASE Mem(u)
    BY <2>8 DEF Mem
  <2>9. CASE Unlock(u)
    BY <2>9 DEF Unlock
  <2>10. CASE Link(u)
    BY <2>10 DEF Link, Front
  <2>11. CASE Free(u)
    BY <2>11 DEF Free
  <2> QED
    BY <1>3, <2>1, <2>2, <2>3, <2>4, <2>5, <2>6, <2>7, <2>8, <2>9, <2>10, <2>11 DEF Step
<1> QED
  BY <1>1, <1>2, <1>3 DEF Next

\* A step that moves no chunk in or out of a node and takes none in hand keeps
\* the chunks exclusive.
LEMMA ChunkSame ==
  ASSUME ChunkInv,
         \A c \in Chunks : Given(c) => Given(c)',
         TypeOK,
         \A n \in Threads : Held(n)' = Held(n) /\ InHand(n)' = InHand(n)
  PROVE  ChunkInv'
<1>1. \A n \in Threads : Held(n) \subseteq Chunks /\ InHand(n) \subseteq Chunks
  BY DEF TypeOK, Held, InHand
<1>2. \A n \in Threads : \A c \in Held(n)' : Given(c)'
  BY <1>1 DEF ChunkInv
<1>3. \A n \in Threads : \A c \in InHand(n)' : Given(c)'
  BY <1>1 DEF ChunkInv
<1>4. ChunkExclusive'
  BY DEF ChunkInv, ChunkExclusive
<1> QED
  BY <1>2, <1>3, <1>4 DEF ChunkInv

\* A chunk is given out once.
LEMMA ChunkStep ==
  ASSUME Excluding, IndInv, Next PROVE ChunkInv'
<1> USE DEF IndInv, TypeOK
<1>1. CASE Clean
  <2>1. \A n \in Threads : Held(n)' = Held(n) /\ InHand(n)' = InHand(n)
    BY <1>1 DEF Clean, Held, InHand, NodeInv
  <2>2. \A c \in Chunks : Given(c)' <=> Given(c)
    BY <1>1 DEF Clean, chunks, Given
  <2> QED
    BY <2>1, <2>2, ChunkSame
<1>2. CASE Crop
  <2>1. \A n \in Threads : Held(n)' = Held(n) /\ InHand(n)' = InHand(n)
    BY <1>2 DEF Crop, CropBy, Held, InHand, nodes
  <2>2. \A c \in Chunks : Given(c)' <=> Given(c)
    BY <1>2 DEF Crop, CropBy, chunks, Given
  <2> QED
    BY <2>1, <2>2, ChunkSame
<1>3. ASSUME NEW u \in Threads, Step(u) PROVE ChunkInv'
  <2>1. CASE Malloc(u) \/ Realloc(u)
    <3>1. UNCHANGED <<chunks, nodes, got>>
      BY <2>1, CallStep DEF Call
    <3>2. \A n \in Threads : Held(n)' = Held(n) /\ InHand(n)' = InHand(n)
      BY <2>1, <3>1, CallStep DEF Held, InHand, nodes
    <3>3. \A c \in Chunks : Given(c)' <=> Given(c)
      BY <3>1 DEF chunks, Given
    <3> QED
      BY <3>2, <3>3, ChunkSame
  <2>2. CASE Extend(u) \/ Reuse(u) \/ Carve(u) \/ Free(u)
    <3>1. UNCHANGED <<chunks, nodes>>
      BY <2>2 DEF Extend, Reuse, Carve, Free
    <3>2. \A n \in Threads : Held(n)' = Held(n) /\ InHand(n)' = InHand(n)
      BY <2>2, <3>1 DEF Extend, Reuse, Carve, Free, Give, Return, Goto, Held, InHand, nodes
    <3>3. \A c \in Chunks : Given(c)' <=> Given(c)
      BY <3>1 DEF chunks, Given
    <3> QED
      BY <3>2, <3>3, ChunkSame
  <2>3. CASE Turn(u)
    <3>1. UNCHANGED <<chunks, got>>
      BY <2>3 DEF Turn
    <3>2. \A n \in Threads : Held(n)' = Held(n)
      <4>1. UNCHANGED nodes \/ \E d \in spare[u] : Current(u, d)
        BY <2>3 DEF Turn, Behind, NodeInv
      <4> QED
        BY <4>1 DEF Held, Current, nodes
    <3>3. \A n \in Threads : InHand(n)' = InHand(n)
      BY <2>3, <3>1 DEF Turn, Front, Goto, InHand
    <3>4. \A c \in Chunks : Given(c)' <=> Given(c)
      BY <3>1 DEF chunks, Given
    <3> QED
      BY <3>2, <3>3, <3>4, ChunkSame
  <2>4. CASE Lock(u) \/ Mem(u) \/ Unlock(u)
    <3>1. UNCHANGED <<chunks, nodes, got>>
      BY <2>4 DEF Lock, Mem, Unlock
    <3>2. \A n \in Threads : Held(n)' = Held(n) /\ InHand(n)' = InHand(n)
      BY <2>4, <3>1 DEF Lock, Mem, Unlock, Goto, Held, InHand, nodes
    <3>3. \A c \in Chunks : Given(c)' <=> Given(c)
      BY <3>1 DEF chunks, Given
    <3> QED
      BY <3>2, <3>3, ChunkSame
  <2>5. CASE Row(u)
    <3>1. \A n \in Threads : Held(n)' = Held(n) /\ InHand(n)' = InHand(n)
      BY <2>5 DEF Row, Goto, Held, InHand, nodes
    <3>2. \A c \in Chunks : Given(c) => Given(c)'
      BY <2>5, PoolAssumption DEF Row, chunks, Given, Chunks
    <3> QED
      BY <3>1, <3>2, ChunkSame
  <2>6. CASE Take(u)
    <3>1. \A n \in Threads : Held(n)' = Held(n) /\ InHand(n)' = InHand(n)
      BY <2>6 DEF Take, Goto, Held, InHand, nodes
    <3>2. \A c \in Chunks : Given(c)' <=> Given(c)
      BY <2>6 DEF Take, chunks, Given
    <3> QED
      BY <3>1, <3>2, ChunkSame
  <2>7. CASE Bump(u)
    <3>1. /\ got[u] = <<chunks_pos_length, chunks_length>> /\ got' = got
          /\ chunks_length' = chunks_length + 1 /\ UNCHANGED chunks_pos_length
      BY <2>7 DEF Bump, CounterInv
    <3>2. ~Given(got[u]) /\ Given(got[u])'
      BY <3>1 DEF Given
    <3>3. \A c \in Chunks : Given(c) => Given(c)'
      BY <3>1 DEF Given, Chunks
    <3>4. \A n \in Threads : Held(n)' = Held(n)
      BY <2>7 DEF Bump, Held, nodes
    <3>5. /\ InHand(u) = {} /\ InHand(u)' = {got[u]}
          /\ \A v \in Threads : v # u => InHand(v)' = InHand(v)
      BY <2>7, <3>1 DEF Bump, Goto, InHand
    <3>6. \A n \in Threads : got[u] \notin Held(n) /\ got[u] \notin InHand(n)
      BY <3>2 DEF ChunkInv
    <3>7. \A n \in Threads : Held(n) \subseteq Chunks /\ InHand(n) \subseteq Chunks
      BY DEF Held, InHand
    <3>8. \A n \in Threads : /\ \A c \in Held(n)' : Given(c)'
                            /\ \A c \in InHand(n)' : Given(c)'
      <4>1. \A n \in Threads : \A c \in Held(n)' : Given(c)'
        BY <3>3, <3>4, <3>7 DEF ChunkInv
      <4>2. \A n \in Threads : \A c \in InHand(n)' : Given(c)'
        <5>1. Given(got[u])'  <=> (\A c \in {got[u]} : Given(c)')
          BY <3>1
        <5> QED
          BY <3>2, <3>3, <3>5, <3>7, <5>1 DEF ChunkInv
      <4> QED
        BY <4>1, <4>2
    <3>9. ChunkExclusive'
      <4>1. \A n, m \in Threads : n # m => Held(n)' \cap Held(m)' = {}
        BY <3>4 DEF ChunkInv, ChunkExclusive
      <4>2. ASSUME NEW v \in Threads, NEW w \in Threads
            PROVE  /\ InHand(v)' \cap Held(w)' = {}
                   /\ v # w => InHand(v)' \cap InHand(w)' = {}
        <5>1. CASE v = u
          BY <3>4, <3>5, <3>6, <5>1
        <5>2. CASE v # u
          BY <3>4, <3>5, <3>6, <5>2 DEF ChunkInv, ChunkExclusive
        <5> QED
          BY <5>1, <5>2
      <4> QED
        BY <4>1, <4>2 DEF ChunkExclusive
    <3> QED
      BY <3>8, <3>9 DEF ChunkInv
  <2>8. CASE Link(u)
    <3>1. /\ InHand(u) = {got[u]} /\ InHand(u)' = {}
          /\ \A v \in Threads : v # u => InHand(v)' = InHand(v)
      BY <2>8 DEF Link, Front, Goto, InHand
    <3>2. /\ Held(u)' = Held(u) \cup {got[u]}
          /\ \A v \in Threads : v # u => Held(v)' = Held(v)
      BY <2>8 DEF Link, Current, Held, NodeInv
    <3>3. \A c \in Chunks : Given(c)' <=> Given(c)
      BY <2>8 DEF Link, chunks, Given
    <3>4. \A n \in Threads : Held(n) \subseteq Chunks /\ InHand(n) \subseteq Chunks
      BY DEF Held, InHand
    <3>5. \A n \in Threads : /\ \A c \in Held(n)' : Given(c)'
                            /\ \A c \in InHand(n)' : Given(c)'
      BY <3>1, <3>2, <3>3, <3>4 DEF ChunkInv
    <3>6. ChunkExclusive'
      BY <3>1, <3>2 DEF ChunkInv, ChunkExclusive
    <3> QED
      BY <3>5, <3>6 DEF ChunkInv
  <2> QED
    BY <1>3, <2>1, <2>2, <2>3, <2>4, <2>5, <2>6, <2>7, <2>8 DEF Step
<1> QED
  BY <1>1, <1>2, <1>3 DEF Next

\* A step leaves node v and the call of thread v as they are.
SameNode(v) ==
  /\ pc'[v] = pc[v] /\ node'[v] = node[v] /\ want'[v] = want[v] /\ old'[v] = old[v]
  /\ at'[v] = at[v] /\ got'[v] = got[v]
  /\ first'[v] = first[v] /\ cur'[v] = cur[v]
  /\ used'[v] = used[v] /\ spare'[v] = spare[v]
  /\ cache'[v] = cache[v] /\ live'[v] = live[v]
  /\ \A c \in Held(v) \cup InHand(v) : length'[c] = length[c] /\ size'[c] = size[c]

\* What holds of a node and a call that a step leaves alone still holds.
LEMMA Frame ==
  ASSUME TypeOK, NEW v \in Threads, NodeInv(v), RegionInv(v), JobInv(v), SameNode(v)
  PROVE  NodeInv(v)' /\ RegionInv(v)' /\ JobInv(v)'
<1> USE DEF SameNode
<1>1. NodeInv(v)'
  BY DEF NodeInv, Held
<1>2. RegionInv(v)'
  <2>1. Regions(v)' = Regions(v)
    BY DEF Regions
  <2> QED
    BY <2>1 DEF RegionInv, Held, Regions, End, Apart
<1>3. JobInv(v)'
  <2>1. cur[v] \in Held(v) /\ (pc[v] \in {"unlock", "link"} => got[v] \in InHand(v))
    BY DEF NodeInv, Held, InHand
  <2> QED
    BY <2>1 DEF JobInv, End
<1> QED
  BY <1>1, <1>2, <1>3

\* A step that changes entries of u only leaves the other nodes alone.
LEMMA Others ==
  ASSUME IndInv, NEW u \in Threads, NEW v \in Threads, v # u,
         \A c \in Chunks : c \notin Held(u) \cup InHand(u)
                            => length'[c] = length[c] /\ size'[c] = size[c]
  PROVE  \A c \in Held(v) \cup InHand(v) : length'[c] = length[c] /\ size'[c] = size[c]
<1>1. Held(v) \subseteq Chunks /\ InHand(v) \subseteq Chunks
  BY DEF IndInv, TypeOK, Held, InHand
<1>2. (Held(v) \cup InHand(v)) \cap (Held(u) \cup InHand(u)) = {}
  BY DEF IndInv, ChunkInv, ChunkExclusive
<1> QED
  BY <1>1, <1>2

\* What holds of one node and of the call of its thread.
Good(v) == NodeInv(v) /\ RegionInv(v) /\ JobInv(v)

\* A region cut off behind the cells in use is apart from all regions.
LEMMA CutApart ==
  ASSUME TypeOK, NEW u \in Threads, RegionInv(u), NEW x \in RegionSet,
         x.off >= length[x.c] + Header
  PROVE  \A s \in Regions(u) : x # s /\ Apart(x, s) /\ Apart(s, x)
<1> SUFFICES ASSUME NEW s \in Regions(u) PROVE x # s /\ Apart(x, s) /\ Apart(s, x)
  OBVIOUS
<1>1. s \in RegionSet
  BY DEF Regions, TypeOK
<1>2. /\ x.c \in Chunks /\ x.off \in Nat /\ x.size \in Nat
      /\ s.c \in Chunks /\ s.off \in Nat /\ s.size \in Nat
  BY <1>1, RegionParts
<1>3. s.off + s.size <= length[s.c] /\ length[x.c] \in Nat
  BY <1>2 DEF RegionInv, End, TypeOK
<1> QED
  BY <1>2, <1>3, PoolAssumption DEF Apart, End

\* A call chooses a region that is free to give.
LEMMA CallGood ==
  ASSUME Excluding, IndInv, NEW u \in Threads, Malloc(u) \/ Realloc(u)
  PROVE  \A v \in Threads : Good(v)'
<1> USE DEF IndInv, Good
<1>1. PICK s \in Sizes : \E o \in SUBSET live[u] :
         /\ Call(u, u, s, o)
         /\ \/ Choose(u, u, s)
            \/ \E r \in live[u] :
                 /\ o = {r} /\ s > r.size /\ Extends(u, r, s)
                 /\ at' = [at EXCEPT ![u] = Region(r.c, r.off, s)] /\ Goto(u, "extend")
  BY CallStep
<1>2. PICK o \in SUBSET live[u] :
         /\ Call(u, u, s, o)
         /\ \/ Choose(u, u, s)
            \/ \E r \in live[u] :
                 /\ o = {r} /\ s > r.size /\ Extends(u, r, s)
                 /\ at' = [at EXCEPT ![u] = Region(r.c, r.off, s)] /\ Goto(u, "extend")
  BY <1>1
<1>3. /\ node' = [node EXCEPT ![u] = u] /\ want' = [want EXCEPT ![u] = s]
      /\ old' = [old EXCEPT ![u] = o]
      /\ UNCHANGED <<size, length, first, cur, used, spare, cache, live, got>>
  BY <1>2 DEF Call, sizes, nodes, regions
<1>4. /\ pc' = [pc EXCEPT ![u] = pc'[u]]
      /\ \A v \in Threads : v # u => at'[v] = at[v]
  <2>1. CASE Choose(u, u, s)
    BY <2>1, CallStep DEF Choose, TypeOK
  <2>2. CASE \E r \in live[u] : at' = [at EXCEPT ![u] = Region(r.c, r.off, s)]
    BY <2>2, CallStep DEF TypeOK
  <2> QED
    BY <1>2, <2>1, <2>2
<1>5. ASSUME NEW v \in Threads, v # u PROVE Good(v)'
  <2>1. SameNode(v)
    BY <1>3, <1>4, <1>5 DEF SameNode, TypeOK
  <2> QED
    BY <2>1, Frame
<1>6. NodeInv(u)' /\ RegionInv(u)'
  BY <1>3 DEF NodeInv, RegionInv, Regions, Held, End, Apart, TypeOK
<1>7. JobInv(u)'
  <2>1. old'[u] \subseteq live'[u]
    BY <1>3 DEF TypeOK
  <2>2. CASE \E r \in Best(u, s) : at' = [at EXCEPT ![u] = r] /\ Goto(u, "reuse")
    BY <1>3, <2>1, <2>2 DEF JobInv, Best, Fits, Goto, TypeOK
  <2>3. CASE /\ length[cur[u]] + s + Header <= size[cur[u]]
             /\ at' = [at EXCEPT ![u] = Region(cur[u], length[cur[u]] + Header, s)]
             /\ Goto(u, "carve")
    BY <1>3, <2>1, <2>3, PoolAssumption DEF JobInv, Region, End, Goto, TypeOK
  <2>4. CASE Goto(u, "turn")
    BY <1>3, <2>1, <2>4 DEF JobInv, Goto, TypeOK
  <2>5. CASE \E r \in live[u] :
                 /\ o = {r} /\ s > r.size /\ Extends(u, r, s)
                 /\ at' = [at EXCEPT ![u] = Region(r.c, r.off, s)] /\ Goto(u, "extend")
    <3>1. PICK r \in live[u] :
                 /\ o = {r} /\ s > r.size /\ Extends(u, r, s)
                 /\ at' = [at EXCEPT ![u] = Region(r.c, r.off, s)] /\ Goto(u, "extend")
      BY <2>5
    <3>2. r \in RegionSet /\ r.off \in Nat /\ r.size \in Nat /\ s \in Nat
      BY RegionParts, PoolAssumption DEF TypeOK
    <3>3. /\ at'[u].c = r.c /\ at'[u].off = r.off /\ at'[u].size = s
          /\ pc'[u] = "extend" /\ old'[u] = {r}
      BY <1>3, <3>1 DEF Region, Goto, TypeOK
    <3>4. /\ r.c = cur[u] /\ r.off + r.size = length[cur[u]] /\ r.off + s <= size[cur[u]]
      BY <3>1 DEF Extends, End
    <3> QED
      BY <1>3, <2>1, <3>1, <3>2, <3>3, <3>4 DEF JobInv, End
  <2> QED
    BY <1>2, <2>2, <2>3, <2>4, <2>5 DEF Choose
<1> QED
  BY <1>5, <1>6, <1>7

\* A call that ends leaves the calls of the other threads alone.
LEMMA ReturnFrame ==
  ASSUME TypeOK, NEW u \in Threads, NodeInv(u), Return(u)
  PROVE  /\ pc'[u] = "idle" /\ node'[u] = u
         /\ \A v \in Threads : v # u =>
              /\ pc'[v] = pc[v] /\ node'[v] = node[v] /\ want'[v] = want[v]
              /\ old'[v] = old[v] /\ at'[v] = at[v] /\ got'[v] = got[v]
  BY DEF Return, Goto, TypeOK

\* Enlarging the last region of the current chunk in place keeps the regions apart.
LEMMA ExtendGood ==
  ASSUME Excluding, IndInv, NEW u \in Threads, Extend(u)
  PROVE  \A v \in Threads : Good(v)'
<1> USE DEF IndInv, Good
<1> DEFINE c == cur[u]
           x == at[u]
<1>1. PICK r \in live[u] :
        old[u] = {r} /\ r.c = c /\ r.off = x.off /\ End(r) = length[c]
  BY DEF Extend, JobInv
<1>2. x.c = c /\ End(x) <= size[c] /\ length[c] <= End(x)
  BY DEF Extend, JobInv
<1>3. /\ live' = [live EXCEPT ![u] = (@ \ {r}) \cup {x}]
      /\ length' = [length EXCEPT ![c] = End(x)]
      /\ Return(u)
      /\ UNCHANGED <<size, first, cur, used, spare, cache>>
  BY <1>1, <1>2 DEF Extend, nodes, NodeInv
<1>4. /\ x \in RegionSet /\ r \in RegionSet /\ x.c \in Chunks /\ x.off \in Nat
      /\ x.size \in Nat /\ r.size \in Nat /\ r \notin cache[u] /\ c \in used[u]
  BY RegionParts DEF TypeOK, RegionInv, NodeInv
<1>5. ASSUME NEW q \in Regions(u), q # r
      PROVE  x # q /\ Apart(x, q) /\ Apart(q, x)
  <2>1. q \in RegionSet /\ q.c \in Chunks /\ q.off \in Nat /\ q.size \in Nat
    BY RegionParts DEF TypeOK, Regions
  <2>2. q.off + q.size <= length[q.c] /\ Apart(r, q)
    BY <1>5 DEF RegionInv, Regions, End
  <2> QED
    BY <1>1, <1>2, <1>4, <2>1, <2>2, PoolAssumption DEF Apart, End
<1>6. Regions(u)' = (Regions(u) \ {r}) \cup {x}
  BY <1>3, <1>4 DEF Regions, TypeOK
<1>7. ASSUME NEW v \in Threads, v # u PROVE Good(v)'
  <2>1. \A d \in Chunks : d \notin Held(u) \cup InHand(u)
                          => length'[d] = length[d] /\ size'[d] = size[d]
    BY <1>3, <1>4 DEF Held, TypeOK
  <2>2. SameNode(v)
    BY <1>3, <1>7, <2>1, Others, ReturnFrame DEF SameNode, TypeOK
  <2> QED
    BY <2>2, Frame
<1>8. NodeInv(u)'
  BY <1>2, <1>3, ReturnFrame DEF NodeInv, Held, TypeOK
<1>9. RegionInv(u)'
  <2>1. live'[u] \cap cache'[u] = {}
    BY <1>3, <1>4, <1>5 DEF RegionInv, Regions, TypeOK
  <2>2. ASSUME NEW q \in Regions(u)'
        PROVE  q.c \in used'[u] /\ Header <= q.off /\ End(q) <= length'[q.c]
    <3>1. CASE q = x
      <4>1. Header <= r.off
        BY DEF RegionInv, Regions
      <4> QED
        <5>1. length'[c] = End(x) /\ used'[u] = used[u] /\ End(x) <= length'[x.c]
          <6>1. c \in Chunks /\ length \in [Chunks -> Nat] /\ End(x) \in Nat
            BY <1>4, RegionParts DEF TypeOK
          <6> QED
            BY <1>2, <1>3, <6>1
        <5> QED
          BY <1>1, <1>2, <1>4, <3>1, <4>1, <5>1
    <3>2. CASE q # x
      <4>1. q \in Regions(u) /\ q \in RegionSet
        BY <1>6, <3>2 DEF TypeOK, Regions
      <4>2. /\ q.c \in used[u] /\ Header <= q.off /\ End(q) <= length[q.c]
            /\ q.c \in Chunks /\ End(q) \in Nat /\ End(x) \in Nat
        BY <1>4, <4>1, RegionParts DEF RegionInv
      <4> QED
        BY <1>2, <1>3, <4>2 DEF TypeOK
    <3> QED
      BY <3>1, <3>2
  <2>3. \A q, s \in Regions(u)' : q # s => Apart(q, s)
    BY <1>5, <1>6 DEF RegionInv
  <2> QED
    BY <1>3, <2>1, <2>2, <2>3 DEF RegionInv, Regions, End, Apart
<1>10. JobInv(u)'
  BY <1>3, ReturnFrame DEF JobInv
<1> QED
  BY <1>7, <1>8, <1>9, <1>10

\* Giving a cached region, or caching a freed one, moves a region between the
\* callers and the cache of a node.
LEMMA ReuseGood ==
  ASSUME Excluding, IndInv, NEW u \in Threads, Reuse(u) \/ Free(u)
  PROVE  \A v \in Threads : Good(v)'
<1> USE DEF IndInv, Good
<1>1. /\ UNCHANGED <<size, length, first, cur, used, spare>>
      /\ \A v \in Threads : v # u => cache'[v] = cache[v] /\ live'[v] = live[v]
      /\ Return(u) \/ (pc[u] = "idle" /\ UNCHANGED <<pc, node, want, old, at, got>>)
  <2>1. CASE Reuse(u)
    BY <2>1 DEF Reuse, Give, sizes, nodes, NodeInv
  <2>2. CASE Free(u)
    BY <2>2 DEF Free, sizes, nodes, args
  <2> QED
    BY <2>1, <2>2
<1>2. Regions(u)' = Regions(u) /\ live'[u] \cap cache'[u] = {}
  <2>1. CASE Reuse(u)
    <3>1. at[u] \in cache[u] /\ old[u] \subseteq live[u] /\ node[u] = u
      BY <2>1 DEF Reuse, JobInv, NodeInv
    <3> QED
      BY <2>1, <3>1 DEF Reuse, Give, Regions, RegionInv, TypeOK
  <2>2. CASE Free(u)
    BY <2>2 DEF Free, Regions, RegionInv, TypeOK
  <2> QED
    BY <2>1, <2>2
<1>3. ASSUME NEW v \in Threads, v # u PROVE Good(v)'
  <2>1. SameNode(v)
    BY <1>1, <1>3, ReturnFrame DEF SameNode
  <2> QED
    BY <2>1, Frame
<1>4. NodeInv(u)' /\ JobInv(u)'
  <2>1. pc'[u] = "idle" /\ node'[u] = u
    BY <1>1, ReturnFrame DEF NodeInv
  <2> QED
    BY <1>1, <2>1 DEF NodeInv, JobInv, Held
<1>5. RegionInv(u)'
  BY <1>1, <1>2 DEF RegionInv, Regions, End, Apart
<1> QED
  BY <1>3, <1>4, <1>5

\* Cutting a region off the current chunk keeps the regions apart.
LEMMA CarveGood ==
  ASSUME Excluding, IndInv, NEW u \in Threads, Carve(u)
  PROVE  \A v \in Threads : Good(v)'
<1> USE DEF IndInv, Good
<1> DEFINE c == cur[u]
           x == at[u]
<1>1. x.c = c /\ x.off = length[c] + Header /\ End(x) <= size[c] /\ old[u] \subseteq live[u]
  BY DEF Carve, JobInv
<1>2. /\ live' = [live EXCEPT ![u] = (@ \ old[u]) \cup {x}]
      /\ cache' = [cache EXCEPT ![u] = (@ \ {x}) \cup old[u]]
      /\ length' = [length EXCEPT ![c] = End(x)]
      /\ Return(u)
      /\ UNCHANGED <<size, first, cur, used, spare>>
  BY <1>1 DEF Carve, Give, nodes, NodeInv
<1>3. /\ x \in RegionSet /\ c \in Chunks /\ x.off \in Nat /\ x.size \in Nat
      /\ End(x) \in Nat /\ c \in used[u] /\ length[c] \in Nat /\ length \in [Chunks -> Nat]
  BY RegionParts DEF TypeOK, NodeInv
<1>4. \A q \in Regions(u) : x # q /\ Apart(x, q) /\ Apart(q, x)
  BY <1>1, <1>3, CutApart
<1>5. Regions(u)' = Regions(u) \cup {x} /\ live'[u] \cap cache'[u] = {}
  BY <1>1, <1>2, <1>4 DEF Regions, RegionInv, TypeOK
<1>6. length'[c] = End(x) /\ length[c] <= End(x) /\ \A d \in Chunks : length[d] <= length'[d]
  <2>1. length[c] <= End(x) /\ length'[c] = End(x)
    BY <1>1, <1>2, <1>3, PoolAssumption DEF End
  <2> QED
    BY <1>2, <1>3, <2>1
<1>7. ASSUME NEW v \in Threads, v # u PROVE Good(v)'
  <2>1. \A d \in Chunks : d \notin Held(u) \cup InHand(u)
                          => length'[d] = length[d] /\ size'[d] = size[d]
    BY <1>2, <1>3 DEF Held
  <2>2. SameNode(v)
    BY <1>2, <1>7, <2>1, Others, ReturnFrame DEF SameNode, TypeOK
  <2> QED
    BY <2>2, Frame
<1>8. NodeInv(u)'
  <2>1. \A d \in Held(u) : length'[d] <= size[d]
    BY <1>1, <1>2, <1>3 DEF NodeInv, Held, TypeOK
  <2>2. node'[u] = u
    BY <1>2, ReturnFrame
  <2> QED
    BY <1>2, <2>1, <2>2 DEF NodeInv, Held
<1>9. RegionInv(u)'
  <2>1. ASSUME NEW q \in Regions(u)'
        PROVE  q.c \in used'[u] /\ Header <= q.off /\ End(q) <= length'[q.c]
    <3>1. CASE q = x
      BY <1>1, <1>2, <1>3, <1>6, <3>1, PoolAssumption
    <3>2. CASE q \in Regions(u)
      <4>1. /\ q.c \in used[u] /\ Header <= q.off /\ End(q) <= length[q.c]
            /\ q.c \in Chunks /\ End(q) \in Nat
        BY <3>2, RegionParts DEF RegionInv, Regions, TypeOK
      <4>2. length[q.c] <= length'[q.c] /\ length[q.c] \in Nat /\ length'[q.c] \in Nat
        BY <1>2, <1>3, <1>6, <4>1
      <4> QED
        BY <1>2, <4>1, <4>2
    <3> QED
      BY <1>5, <3>1, <3>2
  <2>2. \A q, s \in Regions(u)' : q # s => Apart(q, s)
    BY <1>4, <1>5 DEF RegionInv
  <2> QED
    BY <1>5, <2>1, <2>2 DEF RegionInv, Regions, End, Apart
<1>10. JobInv(u)'
  BY <1>2, ReturnFrame DEF JobInv
<1> QED
  BY <1>7, <1>8, <1>9, <1>10

\* Turning to another chunk: what is left of the current one is cached, and
\* the chunk found behind it holds no region.
LEMMA TurnGood ==
  ASSUME Excluding, IndInv, NEW u \in Threads, Turn(u)
  PROVE  \A v \in Threads : Good(v)'
<1> USE DEF IndInv, Good
<1> DEFINE c == cur[u]
           rest == size[c] - length[c] - Header
           x == Region(c, length[c] + Header, rest)
           full == IF rest > 0 THEN size[c] ELSE length[c]
<1>1. /\ node[u] = u /\ c \in used[u] /\ c \in Chunks /\ c \notin spare[u]
      /\ length[c] \in Nat /\ size[c] \in Nat /\ length[c] <= size[c]
      /\ length \in [Chunks -> Nat] /\ full \in Nat /\ length[c] <= full /\ full <= size[c]
  BY DEF TypeOK, NodeInv, Held
<1>2. /\ cache' = [cache EXCEPT ![u] = IF rest > 0 THEN @ \cup {x} ELSE @]
      /\ UNCHANGED <<size, first, live, node, want, old, got>>
      /\ \/ /\ length' = [length EXCEPT ![c] = full]
            /\ pc' = [pc EXCEPT ![u] = "lock"]
            /\ UNCHANGED <<cur, used, spare, at>>
         \/ \E d \in spare[u] :
              /\ size[d] >= want[u] + Header
              /\ length' = [length EXCEPT ![c] = full, ![d] = 0]
              /\ Current(u, d) /\ Front(u, d)
  BY <1>1 DEF Turn, Behind, Goto, Current, nodes, args
<1>3. rest > 0 => /\ x \in RegionSet /\ x.c = c /\ x.off = length[c] + Header
                  /\ x.size = rest /\ End(x) = size[c]
  <2> SUFFICES ASSUME rest > 0
               PROVE  /\ x \in RegionSet /\ x.c = c /\ x.off = length[c] + Header
                      /\ x.size = rest /\ End(x) = size[c]
    OBVIOUS
  <2>1. length[c] + Header \in Nat /\ rest \in Nat
    BY <1>1, PoolAssumption
  <2>2. x \in RegionSet
    BY <1>1, <2>1, RegionType
  <2>3. x.c = c /\ x.off = length[c] + Header /\ x.size = rest
    BY DEF Region
  <2>4. End(x) = size[c]
    BY <1>1, <2>3, PoolAssumption DEF End
  <2> QED
    BY <2>2, <2>3, <2>4
<1>4. rest > 0 => \A q \in Regions(u) : x # q /\ Apart(x, q) /\ Apart(q, x)
  <2> SUFFICES ASSUME rest > 0
               PROVE  \A q \in Regions(u) : x # q /\ Apart(x, q) /\ Apart(q, x)
    OBVIOUS
  <2>1. x \in RegionSet /\ x.off >= length[x.c] + Header
    BY <1>1, <1>3, PoolAssumption
  <2> HIDE DEF x
  <2> QED
    BY <2>1, CutApart
<1>5. /\ Regions(u)' = IF rest > 0 THEN Regions(u) \cup {x} ELSE Regions(u)
      /\ live'[u] \cap cache'[u] = {}
  BY <1>2, <1>4 DEF Regions, RegionInv, TypeOK
<1>6. ASSUME NEW v \in Threads, v # u PROVE Good(v)'
  <2>1. \A d \in Chunks : d \notin Held(u) \cup InHand(u)
                          => length'[d] = length[d] /\ size'[d] = size[d]
    BY <1>1, <1>2 DEF Held
  <2>2. \A d \in Held(v) \cup InHand(v) : length'[d] = length[d] /\ size'[d] = size[d]
    BY <1>6, <2>1, Others
  <2>3. SameNode(v)
    BY <1>2, <1>6, <2>2 DEF SameNode, Current, Front, Goto, TypeOK
  <2> QED
    BY <2>3, Frame
<1>7. ASSUME \A d \in used[u] : length'[d] = IF d = c THEN full ELSE length[d],
             used[u] \subseteq used'[u]
      PROVE  RegionInv(u)'
  <2>1. ASSUME NEW q \in Regions(u)'
        PROVE  q.c \in used'[u] /\ Header <= q.off /\ End(q) <= length'[q.c]
    <3>1. CASE rest > 0 /\ q = x
      BY <1>1, <1>3, <1>7, <3>1, PoolAssumption
    <3>2. CASE q \in Regions(u)
      <4>1. /\ q.c \in used[u] /\ Header <= q.off /\ End(q) <= length[q.c]
            /\ q.c \in Chunks /\ End(q) \in Nat
        BY <3>2, RegionParts DEF RegionInv, Regions, TypeOK
      <4> QED
        BY <1>1, <1>7, <4>1
    <3> QED
      BY <1>5, <3>1, <3>2
  <2>2. \A q, s \in Regions(u)' : q # s => Apart(q, s)
    BY <1>4, <1>5 DEF RegionInv
  <2> QED
    BY <1>5, <2>1, <2>2 DEF RegionInv, Regions, End, Apart
<1>8. CASE /\ length' = [length EXCEPT ![c] = full]
           /\ pc' = [pc EXCEPT ![u] = "lock"]
           /\ UNCHANGED <<cur, used, spare, at>>
  <2>1. NodeInv(u)'
    BY <1>1, <1>2, <1>8 DEF NodeInv, Held, TypeOK
  <2>2. RegionInv(u)'
    BY <1>1, <1>7, <1>8 DEF TypeOK
  <2>3. JobInv(u)'
    <3>1. pc'[u] = "lock" /\ old'[u] = old[u] /\ live'[u] = live[u]
      BY <1>2, <1>8 DEF TypeOK
    <3>2. old[u] \subseteq live[u]
      BY DEF JobInv, Turn
    <3> QED
      BY <3>1, <3>2 DEF JobInv
  <2> QED
    BY <1>6, <2>1, <2>2, <2>3
<1>9. CASE \E d \in spare[u] :
              /\ size[d] >= want[u] + Header
              /\ length' = [length EXCEPT ![c] = full, ![d] = 0]
              /\ Current(u, d) /\ Front(u, d)
  <2>1. PICK d \in spare[u] :
              /\ size[d] >= want[u] + Header
              /\ length' = [length EXCEPT ![c] = full, ![d] = 0]
              /\ Current(u, d) /\ Front(u, d)
    BY <1>9
  <2>2. /\ d # c /\ d \in Chunks /\ d \notin used[u] /\ length'[d] = 0
        /\ cur'[u] = d /\ used'[u] = used[u] \cup {d} /\ spare'[u] = spare[u] \ {d}
        /\ at'[u] = Region(d, Header, want[u]) /\ pc'[u] = "carve"
    BY <1>1, <2>1 DEF Current, Front, Goto, NodeInv, TypeOK
  <2>3. NodeInv(u)'
    <3>1. Held(u)' = Held(u) /\ Held(u) \subseteq Chunks
      BY <2>1, <2>2 DEF Held, TypeOK
    <3>2. \A e \in Held(u) : length'[e] <= size[e]
      BY <1>1, <2>1, <2>2, <3>1 DEF NodeInv, TypeOK
    <3> QED
      BY <1>1, <1>2, <2>2, <3>1, <3>2 DEF NodeInv
  <2>4. RegionInv(u)'
    <3>1. \A e \in used[u] : length'[e] = IF e = c THEN full ELSE length[e]
      BY <1>1, <2>1, <2>2 DEF TypeOK
    <3> QED
      BY <1>7, <2>2, <3>1
  <2>5. JobInv(u)'
    <3>1. /\ at'[u].c = d /\ at'[u].off = Header /\ at'[u].size = want[u]
      BY <2>2 DEF Region
    <3>2. want[u] \in Nat /\ size'[d] = size[d] /\ size[d] \in Nat
      BY <1>2, <2>2 DEF TypeOK
    <3>3. old'[u] \subseteq live'[u]
      BY <1>2 DEF JobInv, Turn
    <3> QED
      BY <2>1, <2>2, <3>1, <3>2, <3>3, PoolAssumption DEF JobInv, End
  <2> QED
    BY <1>6, <2>3, <2>4, <2>5
<1> QED
  BY <1>2, <1>8, <1>9

\* The steps of a call in the pool write the chunk in hand and no node, until
\* the chunk is linked as the current one.
LEMMA PoolGood ==
  ASSUME Excluding, IndInv, NEW u \in Threads,
         \/ Lock(u) \/ Row(u) \/ Take(u) \/ Bump(u) \/ Mem(u)
         \/ Unlock(u) \/ Link(u)
  PROVE  \A v \in Threads : Good(v)'
<1> USE DEF IndInv, Good
<1> DEFINE g == got[u]
<1>1. CASE Lock(u) \/ Row(u) \/ Take(u) \/ Bump(u) \/ Unlock(u)
  <2>1. /\ UNCHANGED <<size, length, first, cur, used, spare, cache, live>>
        /\ UNCHANGED <<node, want, old, at>>
        /\ pc' = [pc EXCEPT ![u] = pc'[u]] /\ pc'[u] \in {"row", "take", "bump", "mem", "link"}
        /\ \A v \in Threads : v # u => got'[v] = got[v]
    BY <1>1 DEF Lock, Row, Take, Bump, Unlock, Excluding, Goto, sizes,
               nodes, regions, args, TypeOK
  <2>2. old[u] \subseteq live[u]
    BY <1>1 DEF Lock, Row, Take, Bump, Unlock, JobInv
  <2>3. pc'[u] = "link" => got' = got /\ length[g] = 0 /\ size[g] >= want[u] + Header
    BY <1>1 DEF Lock, Row, Take, Bump, Unlock, Excluding, Goto, JobInv, TypeOK
  <2>4. ASSUME NEW v \in Threads, v # u PROVE Good(v)'
    <3>1. SameNode(v)
      BY <2>1, <2>4 DEF SameNode, TypeOK
    <3> QED
      BY <3>1, Frame
  <2>5. NodeInv(u)' /\ RegionInv(u)'
    BY <2>1 DEF NodeInv, RegionInv, Regions, Held, End, Apart
  <2>6. JobInv(u)'
    BY <2>1, <2>2, <2>3 DEF JobInv, TypeOK
  <2> QED
    BY <2>4, <2>5, <2>6
<1>2. CASE Mem(u)
  <2>1. /\ UNCHANGED <<first, cur, used, spare, cache, live, node, want, old, at, got>>
        /\ pc' = [pc EXCEPT ![u] = "unlock"] /\ length' = [length EXCEPT ![g] = 0]
        /\ \A c \in Chunks : c # g => size'[c] = size[c]
        /\ old[u] \subseteq live[u] /\ InHand(u) = {g}
    BY <1>2 DEF Mem, Goto, nodes, regions, args, JobInv, InHand, TypeOK
  <2>2. size'[g] >= want[u] + Header
    <3>1. /\ g \in Chunks /\ size[g] \in Nat /\ want[u] \in Nat
          /\ size'[g] = IF size[g] = 0 THEN Ask(u)
                        ELSE IF Ask(u) > size[g] THEN Ask(u) + Origin ELSE size[g]
      BY <1>2 DEF Mem, TypeOK
    <3>2. Ask(u) \in Nat /\ Ask(u) >= want[u] + Header
      BY <3>1, PoolAssumption DEF Ask
    <3> QED
      BY <3>1, <3>2, PoolAssumption
  <2>3. \A c \in Held(u) : c \in Chunks /\ c # g
    BY <2>1 DEF ChunkInv, ChunkExclusive, Held, TypeOK
  <2>4. ASSUME NEW v \in Threads, v # u PROVE Good(v)'
    <3>1. \A c \in Chunks : c \notin Held(u) \cup InHand(u)
                            => length'[c] = length[c] /\ size'[c] = size[c]
      BY <2>1 DEF TypeOK
    <3>2. SameNode(v)
      BY <2>1, <2>4, <3>1, Others DEF SameNode, TypeOK
    <3> QED
      BY <3>2, Frame
  <2>5. \A c \in Held(u) : length'[c] = length[c] /\ size'[c] = size[c]
    BY <2>1, <2>3 DEF TypeOK
  <2>6. NodeInv(u)'
    BY <2>1, <2>5 DEF NodeInv, Held
  <2>7. RegionInv(u)'
    BY <2>1, <2>5 DEF RegionInv, Regions, Held, End, Apart
  <2>8. JobInv(u)'
    <3>1. length'[g] = 0 /\ pc'[u] = "unlock"
      BY <2>1 DEF TypeOK
    <3> QED
      BY <2>1, <2>2, <3>1 DEF JobInv
  <2> QED
    BY <2>4, <2>6, <2>7, <2>8
<1>3. CASE Link(u)
  <2>1. /\ UNCHANGED <<size, length, first, cache, live, node, want, old, got>>
        /\ Current(u, g) /\ at' = [at EXCEPT ![u] = Region(g, Header, want[u])]
        /\ pc' = [pc EXCEPT ![u] = "carve"]
    BY <1>3 DEF Link, Current, Front, Goto, sizes, regions, args, NodeInv
  <2>2. /\ length[g] = 0 /\ size[g] >= want[u] + Header /\ old[u] \subseteq live[u]
        /\ g \in Chunks /\ size[g] \in Nat /\ want[u] \in Nat /\ g \notin Held(u)
    BY <1>3 DEF Link, JobInv, ChunkInv, ChunkExclusive, InHand, TypeOK
  <2>3. /\ cur'[u] = g /\ used'[u] = used[u] \cup {g} /\ spare'[u] = spare[u]
        /\ \A v \in Threads : v # u => /\ cur'[v] = cur[v] /\ used'[v] = used[v]
                                       /\ spare'[v] = spare[v]
    BY <2>1, <2>2 DEF Current, Held, TypeOK
  <2>4. ASSUME NEW v \in Threads, v # u PROVE Good(v)'
    <3>1. SameNode(v)
      BY <2>1, <2>3, <2>4 DEF SameNode, TypeOK
    <3> QED
      BY <3>1, Frame
  <2>5. NodeInv(u)'
    BY <2>1, <2>2, <2>3 DEF NodeInv, Held
  <2>6. RegionInv(u)'
    BY <2>1, <2>3 DEF RegionInv, Regions, End, Apart
  <2>7. JobInv(u)'
    <3>1. at'[u].c = g /\ at'[u].off = Header /\ at'[u].size = want[u] /\ pc'[u] = "carve"
      BY <2>1 DEF Region, TypeOK
    <3> QED
      BY <2>1, <2>2, <2>3, <3>1, PoolAssumption DEF JobInv, End
  <2> QED
    BY <2>4, <2>5, <2>6, <2>7
<1> QED
  BY <1>1, <1>2, <1>3

\* A region that loses its first characters stays apart from the others, and no
\* call is replacing it.
LEMMA CropGood ==
  ASSUME IndInv, Crop
  PROVE  \A v \in Threads : Good(v)'
<1> USE DEF IndInv, Good
<1>1. PICK n \in Threads : \E r \in live[n] : \E k \in 1 .. r.size - 1 : CropBy(n, r, k)
  BY DEF Crop
<1>2. PICK r \in live[n] : \E k \in 1 .. r.size - 1 : CropBy(n, r, k)
  BY <1>1
<1>3. PICK k \in 1 .. r.size - 1 : CropBy(n, r, k)
  BY <1>2
<1> DEFINE x == Region(r.c, r.off + k, r.size - k)
<1>4. /\ live' = [live EXCEPT ![n] = (@ \ {r}) \cup {x}]
      /\ UNCHANGED <<size, length, first, cur, used, spare, cache, pc, node, want, old, at, got>>
      /\ \A u \in Threads : pc[u] # "idle" => r \notin old[u]
  BY <1>3 DEF CropBy, sizes, nodes, args
<1>5. /\ r \in RegionSet /\ r.c \in Chunks /\ r.off \in Nat /\ r.size \in Nat
      /\ k \in Nat /\ 0 < k /\ k < r.size
  BY RegionParts DEF TypeOK
<1>6. x.c = r.c /\ x.off = r.off + k /\ x.size = r.size - k /\ End(x) = End(r)
  BY <1>5 DEF Region, End
<1>7. ASSUME NEW q \in Regions(n), q # r
      PROVE  x # q /\ Apart(x, q) /\ Apart(q, x)
  <2>1. q \in RegionSet /\ q.c \in Chunks /\ q.off \in Nat /\ q.size \in Nat
    BY RegionParts DEF TypeOK, Regions
  <2>2. Apart(r, q)
    BY <1>7 DEF RegionInv, Regions
  <2> HIDE DEF x
  <2>3. x # q
    BY <1>5, <1>6, <2>1, <2>2, PoolAssumption DEF Apart, End
  <2>4. Apart(x, q) /\ Apart(q, x)
    BY <1>5, <1>6, <2>1, <2>2, PoolAssumption DEF Apart, End
  <2> QED
    BY <2>3, <2>4
<1>8. r \notin cache[n]
  BY DEF RegionInv
<1>9. Regions(n)' = (Regions(n) \ {r}) \cup {x} /\ live'[n] \cap cache'[n] = {}
  <2> HIDE DEF x
  <2>1. Regions(n)' = (Regions(n) \ {r}) \cup {x}
    BY <1>4, <1>8 DEF Regions, TypeOK
  <2>2. x \notin cache[n]
    BY <1>7, <1>8 DEF Regions
  <2> QED
    BY <1>4, <2>1, <2>2 DEF RegionInv, TypeOK
<1>10. ASSUME NEW v \in Threads, v # n PROVE Good(v)'
  <2>1. SameNode(v)
    BY <1>4, <1>10 DEF SameNode, TypeOK
  <2> QED
    BY <2>1, Frame
<1>11. NodeInv(n)'
  BY <1>4 DEF NodeInv, Held
<1>12. RegionInv(n)'
  <2>1. ASSUME NEW q \in Regions(n)'
        PROVE  q.c \in used'[n] /\ Header <= q.off /\ End(q) <= length'[q.c]
    <3>1. CASE q \in Regions(n)
      BY <1>4, <3>1 DEF RegionInv
    <3>2. CASE q = x
      <4>1. r.c \in used[n] /\ Header <= r.off /\ End(r) <= length[r.c]
        BY DEF RegionInv, Regions
      <4>2. x.c = r.c /\ x.off = r.off + k /\ End(x) = End(r)
        BY <1>6
      <4> HIDE DEF x
      <4> QED
        BY <1>4, <1>5, <3>2, <4>1, <4>2, PoolAssumption
    <3> QED
      BY <1>9, <3>1, <3>2
  <2>2. \A q, s \in Regions(n)' : q # s => Apart(q, s)
    BY <1>7, <1>9 DEF RegionInv
  <2> QED
    BY <1>9, <2>1, <2>2 DEF RegionInv, Regions, End, Apart
<1>13. JobInv(n)'
  <2>1. pc[n] # "idle" => r \notin old[n]
    BY <1>4
  <2> HIDE DEF x
  <2>2. \A q \in live[n] : q # r => q \in live'[n]
    BY <1>4 DEF TypeOK
  <2>3. pc[n] # "idle" => old[n] \subseteq live'[n]
    BY <2>1, <2>2 DEF JobInv
  <2>4. pc[n] = "extend" =>
          \E q \in live'[n] :
            old[n] = {q} /\ q.c = cur[n] /\ q.off = at[n].off /\ End(q) = length[cur[n]]
    BY <2>1, <2>2 DEF JobInv
  <2> QED
    BY <1>4, <2>3, <2>4 DEF JobInv, End
<1> QED
  BY <1>10, <1>11, <1>12, <1>13

\* A clean pool has no regions.
LEMMA CleanGood ==
  ASSUME IndInv, Clean
  PROVE  \A v \in Threads : Good(v)'
<1> USE DEF IndInv, Good
<1> SUFFICES ASSUME NEW v \in Threads PROVE Good(v)'
  OBVIOUS
<1>1. /\ pc' = pc /\ pc[v] = "idle" /\ node' = node /\ size' = size /\ first' = first
      /\ cur'[v] = first[v] /\ used'[v] = {first[v]}
      /\ spare'[v] = (used[v] \cup spare[v]) \ {first[v]}
      /\ cache'[v] = {} /\ live'[v] = {}
  BY DEF Clean, args
<1>2. \A c \in Chunks : length'[c] = 0 \/ length'[c] = length[c]
  BY DEF Clean
<1>3. Held(v)' = Held(v) /\ Held(v) \subseteq Chunks
  BY <1>1 DEF Held, NodeInv, TypeOK
<1>4. NodeInv(v)'
  <2>1. \A c \in Held(v) : length'[c] <= size'[c]
    BY <1>1, <1>2, <1>3 DEF NodeInv, TypeOK
  <2> QED
    BY <1>1, <1>3, <2>1 DEF NodeInv
<1>5. RegionInv(v)' /\ JobInv(v)'
  BY <1>1 DEF RegionInv, JobInv, Regions
<1> QED
  BY <1>4, <1>5

\* A step of the pool keeps the invariant.
LEMMA InvStep ==
  ASSUME Excluding, IndInv, [Next]_vars PROVE IndInv'
<1>1. CASE Next
  <2>1. TypeOK' /\ LockInv' /\ CounterInv' /\ ChunkInv'
    BY <1>1, TypeStep, LockStep, ChunkStep
  <2>2. \A v \in Threads : Good(v)'
    BY <1>1, CallGood, ExtendGood, ReuseGood, CarveGood, TurnGood, PoolGood, CropGood,
       CleanGood DEF Next, Step
  <2> QED
    BY <2>1, <2>2 DEF IndInv, Good
<1>2. CASE UNCHANGED vars
  <2> USE <1>2 DEF vars, chunks, sizes, nodes, regions, args
  <2>1. TypeOK' /\ LockInv' /\ CounterInv'
    BY DEF IndInv, TypeOK, LockInv, CounterInv, MutualExclusion
  <2>2. ChunkInv'
    BY DEF IndInv, ChunkInv, ChunkExclusive, Held, InHand, Given
  <2>3. ASSUME NEW v \in Threads PROVE NodeInv(v)' /\ RegionInv(v)' /\ JobInv(v)'
    <3>1. SameNode(v)
      BY DEF SameNode
    <3> QED
      BY <2>3, <3>1, Frame DEF IndInv
  <2> QED
    BY <2>1, <2>2, <2>3 DEF IndInv
<1> QED
  BY <1>1, <1>2

\* The properties follow from the invariant.
LEMMA InvProperties ==
  ASSUME IndInv
  PROVE  TypeOK /\ MutualExclusion /\ ChunkExclusive /\ RegionsApart /\ SpareEmpty
<1> USE DEF IndInv
<1>1. TypeOK /\ MutualExclusion /\ ChunkExclusive
  BY DEF LockInv, ChunkInv
<1>2. RegionsApart
  <2>1. ASSUME NEW n \in Threads, NEW r \in Regions(n)
        PROVE  Header <= r.off /\ End(r) <= length[r.c] /\ length[r.c] <= size[r.c]
    BY <2>1 DEF RegionInv, NodeInv, Held
  <2>2. ASSUME NEW n \in Threads, NEW m \in Threads, NEW r \in Regions(n),
               NEW s \in Regions(m), r # s \/ n # m
        PROVE  Apart(r, s)
    <3>1. CASE n = m
      BY <2>2, <3>1 DEF RegionInv
    <3>2. CASE n # m
      <4>1. r.c \in Held(n) /\ s.c \in Held(m)
        BY DEF RegionInv, Held
      <4> QED
        BY <3>2, <4>1 DEF ChunkInv, ChunkExclusive, Apart
    <3> QED
      BY <3>1, <3>2
  <2> QED
    BY <2>1, <2>2 DEF RegionsApart, RegionInv
<1>3. SpareEmpty
  BY DEF SpareEmpty, RegionInv, NodeInv
<1> QED
  BY <1>1, <1>2, <1>3

\* In a build whose lock excludes, and on documents that keep every thread to
\* its own node of the pool, the invariant holds.
THEOREM InvariantHolds == Excluding => (Spec => []IndInv)
<1> SUFFICES ASSUME Excluding PROVE Spec => []IndInv
  OBVIOUS
<1>1. IndInv /\ [Next]_vars => IndInv'
  BY InvStep
<1> QED
  BY <1>1, InvInit, PTL DEF Spec

\* The counters, chunks and regions of the pool keep their types.
THEOREM TypeCorrect == Excluding => (Spec => []TypeOK)
<1>1. IndInv => TypeOK
  BY InvProperties
<1> QED
  BY <1>1, InvariantHolds, PTL

\* mcsync_lock: one thread at a time takes a chunk from the pool.
THEOREM LockExcludes == Excluding => (Spec => []MutualExclusion)
<1>1. IndInv => MutualExclusion
  BY InvProperties
<1> QED
  BY <1>1, InvariantHolds, PTL

\* mchar_async_chunk_malloc: a chunk of the pool is given out once.
THEOREM ChunksExclusive == Excluding => (Spec => []ChunkExclusive)
<1>1. IndInv => ChunkExclusive
  BY InvProperties
<1> QED
  BY <1>1, InvariantHolds, PTL

\* mchar_async_malloc, mchar_async_realloc: the strings that the threads hold
\* and the regions they cache never overlap.
THEOREM StringsApart == Excluding => (Spec => []RegionsApart)
<1>1. IndInv => RegionsApart
  BY InvProperties
<1> QED
  BY <1>1, InvariantHolds, PTL

\* mchar_sync_chunk_find_by_size: a chunk that is emptied held no string.
THEOREM SparesEmpty == Excluding => (Spec => []SpareEmpty)
<1>1. IndInv => SpareEmpty
  BY InvProperties
<1> QED
  BY <1>1, InvariantHolds, PTL
===============================================================================
