------------------------------ MODULE CharCache ------------------------------
(***************************************************************************)
(* mycore/utils/mchar_async.c: the cache of a node of the pool, which      *)
(* keeps freed regions for the next call that wants as many cells.  It is  *)
(* a tree over an array of places; place 0 stands for none, and the places *)
(* of regions that were taken are kept on a stack, to be used again.  One  *)
(* thread works on a cache, so that a call is one step.                    *)
(***************************************************************************)
EXTENDS Integers, Sequences, FiniteSets, SequencesExt

CONSTANTS
  Values,        \* the regions
  Sizes,         \* the sizes of regions, and the sizes asked for
  InitialSize,   \* 1024, the size of the arrays of a new cache
  NULL

ASSUME CacheAssumption ==
  /\ Sizes \subseteq Nat \ {0} /\ InitialSize \in Nat \ {0, 1, 2} /\ NULL \notin Values

VARIABLES
  nodes,          \* the array: parent, left, right, size, value of a place
  nodes_root, nodes_length, nodes_size,
  index,          \* the stack of free places
  index_size,
  count,
  given           \* history: what the last call returned

cvars == <<nodes, nodes_root, nodes_length, nodes_size, index, index_size, count, given>>

None == [parent |-> 0, left |-> 0, right |-> 0, size |-> 0, value |-> NULL]

\* mchar_async_cache_init.
CacheInit ==
  /\ nodes = [k \in {0} |-> None]
  /\ nodes_root = 0 /\ nodes_length = 1 /\ nodes_size = InitialSize
  /\ index = <<>> /\ index_size = InitialSize /\ count = 0 /\ given = NULL

-----------------------------------------------------------------------------
\* A mutant: the array moves one place too late.
MovesLate == index = <<>> /\ nodes_length > nodes_size

\* mchar_async_cache_malloc: a place, a free one if there is one; otherwise the
\* array may have to move.
Place == IF index # <<>> THEN Last(index) ELSE nodes_length
Moves == index = <<>> /\ nodes_length + 1 >= nodes_size
CacheMalloc ==
  IF index # <<>>
  THEN index' = Front(index) /\ UNCHANGED <<nodes_length, nodes_size>>
  ELSE /\ nodes_length' = nodes_length + 1
       /\ nodes_size' = IF Moves THEN 2 * nodes_size ELSE nodes_size
       /\ UNCHANGED index

\* A mutant: always behind the root, or before it.
ReachedRoot(s) == nodes_root

\* Where a new region of size s goes: the first place from the root with a size
\* that is not smaller, or the last one.
Reached(s) ==
  LET down[k \in DOMAIN nodes] ==
        IF s <= nodes[k].size \/ nodes[k].right = 0 THEN k ELSE down[nodes[k].right]
  IN down[nodes_root]

\* Writes to the array: to all of a place, which it may not have reached yet,
\* and to a field of one that it has.
Put(list, k, x) == [j \in DOMAIN list \cup {k} |-> IF j = k THEN x ELSE list[j]]
Set(list, k, f, x) == [list EXCEPT ![k][f] = x]
Region(up, down, s, v) == [parent |-> up, left |-> 0, right |-> down, size |-> s, value |-> v]

\* mchar_async_cache_add.
AddToEmpty(v, s) ==
  /\ nodes_root = 0 /\ CacheMalloc
  /\ nodes_root' = Place
  /\ nodes' = IF Moves THEN nodes      \* written to the array that was left
              ELSE Put(nodes, Place, Region(0, 0, s, v))

Add(v, s) ==
  /\ nodes_root # 0 /\ CacheMalloc
  /\ LET at == Reached(s)
         parent == nodes[at].parent
         \* behind a region that is smaller or has the same size, ...
         behind == Put(Set(nodes, at, "right", Place), Place, Region(at, nodes[at].right, s, v))
         \* ... before one that is larger.
         before == Put(Set(nodes, at, "parent", Place), Place, Region(parent, at, s, v))
     IN IF s < nodes[at].size
        THEN IF parent = 0
             THEN nodes_root' = Place /\ nodes' = before
             ELSE /\ nodes' = Set(before, parent,
                                  IF nodes[parent].left = at THEN "left" ELSE "right", Place)
                  /\ UNCHANGED nodes_root
        ELSE /\ nodes' = IF nodes[at].right = 0 THEN behind
                         ELSE Set(behind, nodes[at].right, "parent", Place)
             /\ UNCHANGED nodes_root

\* A mutant: the first region is added but not counted.
CacheAddFirst(v, s) ==
  /\ AddToEmpty(v, s) \/ Add(v, s)
  /\ count' = (IF nodes_root = 0 THEN count ELSE count + 1) /\ given' = NULL
  /\ UNCHANGED index_size

CacheAdd(v, s) ==
  /\ AddToEmpty(v, s) \/ Add(v, s)
  /\ count' = count + 1 /\ given' = NULL
  /\ UNCHANGED index_size

-----------------------------------------------------------------------------
\* A mutant: only larger regions are looked at.
FoundLarger(s) ==
  LET down[k \in DOMAIN nodes] ==
        IF k = 0 THEN 0 ELSE IF s < nodes[k].size THEN k ELSE down[nodes[k].right]
  IN down[nodes_root]

\* The place mchar_async_cache_delete takes: from the first one that is large
\* enough on to the last one that has exactly the size; 0 if there is none.
Found(s) ==
  LET same[k \in DOMAIN nodes] ==
        IF nodes[nodes[k].right].size = s THEN same[nodes[k].right] ELSE k
      down[k \in DOMAIN nodes] ==
        IF k = 0 THEN 0 ELSE IF s <= nodes[k].size THEN same[k] ELSE down[nodes[k].right]
  IN down[nodes_root]

\* The last place on a side below k, k itself not counted.
LastOn(side, k) ==
  LET go[j \in DOMAIN nodes] == IF nodes[j][side] = 0 THEN j ELSE go[nodes[j][side]]
  IN go[nodes[k][side]]

\* The subtrees of idx become one: the one on the side hung at the far end of
\* the other.
Joined(idx, side, other) ==
  LET top == nodes[idx][side]
      rest == nodes[idx][other]
      end == LastOn(other, top)
  IN IF top = 0 \/ rest = 0 THEN nodes
     ELSE IF end # 0 THEN Set(Set(nodes, end, other, rest), rest, "parent", end)
     ELSE Set(nodes, top, other, rest)

CacheDelete(s) ==
  LET idx == Found(s)
      parent == nodes[idx].parent
      side == IF parent # 0 /\ nodes[parent].left = idx THEN "left" ELSE "right"
      other == IF side = "left" THEN "right" ELSE "left"
      child == IF nodes[idx][other] # 0 THEN nodes[idx][other] ELSE nodes[idx][side]
      joined == Joined(idx, other, side)
  IN IF idx = 0
     THEN /\ given' = NULL
          /\ UNCHANGED <<nodes, nodes_root, nodes_length, nodes_size, index, index_size, count>>
     ELSE /\ nodes' = Set(IF parent = 0 THEN joined ELSE Set(joined, parent, side, child),
                          child, "parent", parent)
          /\ nodes_root' = IF parent = 0 THEN child ELSE nodes_root
          /\ index' = Append(index, idx)
          /\ index_size' = IF Len(index') >= index_size THEN 2 * index_size ELSE index_size
          /\ count' = count - 1 /\ given' = nodes[idx].value
          /\ UNCHANGED <<nodes_length, nodes_size>>

\* A mutant: the stack is not emptied.
CacheCleanKeepsIndex ==
  /\ nodes' = [nodes EXCEPT ![0] = None]
  /\ nodes_root' = 0 /\ nodes_length' = 1 /\ count' = 0 /\ given' = NULL
  /\ UNCHANGED <<nodes_size, index, index_size>>

\* mchar_async_cache_clean: the array stays, the places are all free again.
CacheClean ==
  /\ nodes' = [nodes EXCEPT ![0] = None]
  /\ nodes_root' = 0 /\ nodes_length' = 1 /\ index' = <<>> /\ count' = 0 /\ given' = NULL
  /\ UNCHANGED <<nodes_size, index_size>>

\* The places of the tree, and the regions the cache keeps.
Linked ==
  LET below[k \in DOMAIN nodes] ==
        IF k = 0 THEN {} ELSE {k} \cup below[nodes[k].left] \cup below[nodes[k].right]
  IN below[nodes_root]
Kept == {[value |-> nodes[k].value, size |-> nodes[k].size] : k \in Linked}

\* A region that is kept is not freed again.
CacheNext ==
  \/ CacheClean
  \/ \E s \in Sizes : CacheDelete(s)
  \/ \E s \in Sizes, v \in {x \in Values : \A e \in Kept : e.value # x} : CacheAdd(v, s)
CacheSpec == CacheInit /\ [][CacheNext]_cvars

-----------------------------------------------------------------------------
\* Type correctness of the cache.
CacheTypeOK ==
  /\ nodes_root \in DOMAIN nodes /\ nodes_length \in Nat \ {0} /\ nodes_size \in Nat
  /\ \A k \in DOMAIN nodes :
       nodes[k] \in [parent : DOMAIN nodes, left : DOMAIN nodes, right : DOMAIN nodes,
                     size : Sizes \cup {0}, value : Values \cup {NULL}]
  /\ index \in Seq(Nat) /\ index_size \in Nat /\ count \in Nat /\ given \in Values \cup {NULL}

\* No place is lost and none is used twice, in any order of calls: a place is
\* in the tree or on the stack, once, and count is right; so the stack is not
\* empty whenever a tree without a root has places to give, and the array never
\* moves under the first region that is added (mchar_async.c:767-775).
PlacesConserved ==
  /\ Linked \cap Range(index) = {}
  /\ Linked \cup Range(index) = 1 .. nodes_length - 1
  /\ Cardinality(Range(index)) = Len(index)
  /\ count = Cardinality(Linked)

\* The tree is a chain: nothing is ever on the left, sizes do not decrease to
\* the right, every link leads back, and place 0, which is written to like any
\* parent, keeps the size 0 that ends the search among equal sizes
\* (mchar_async.c:650, 675, 700).
SortedChain ==
  /\ nodes[0].size = 0 /\ nodes[0].left = 0 /\ nodes[0].right = 0
  /\ nodes_root # 0 => nodes[nodes_root].parent = 0
  /\ \A k \in Linked :
       /\ nodes[k].left = 0
       /\ nodes[k].right # 0 =>
            nodes[nodes[k].right].parent = k /\ nodes[k].size <= nodes[nodes[k].right].size

\* Neither array is written behind its end, although one is enlarged before
\* and the other after the write (mchar_async.c:627-638, 734-748).
InBounds ==
  /\ DOMAIN nodes \subseteq 0 .. nodes_size - 1 /\ nodes_length <= nodes_size
  /\ Len(index) < index_size

\* The cache keeps its promise: a call gets one of the smallest of the regions
\* that are large enough, if there is one.
Promise == INSTANCE BestFit WITH kept <- Kept
Implements == Promise!Spec
===============================================================================
