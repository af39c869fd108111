------------------------------- MODULE CharPool -------------------------------
(***************************************************************************)
(* mycore/utils/mchar_async.c and mcsync.c: the pool of characters of a    *)
(* tree. The strings of a document are cut out of chunks; every thread has *)
(* a node of the pool, with chunks and a cache of freed regions of its     *)
(* own, and only takes a chunk from the pool under a lock.                 *)
(*                                                                         *)
(* Thread 0 is the worker that builds the tree, the others are the batch   *)
(* workers and, the last one, the tokenizer, which stores unknown tag      *)
(* names. Node i belongs to thread i.                                      *)
(*                                                                         *)
(* A region is a run of cells of a chunk that a caller holds or that a     *)
(* cache keeps; the Header cells before it hold its size. Which of the     *)
(* chunks behind the current one is found first, and which of the cached   *)
(* regions of one size, is left open.                                      *)
(***************************************************************************)
EXTENDS Integers, FiniteSets

CONSTANTS
  N,             \* threads 0 .. N
  Spinlock,      \* MyCORE_MCSYNC_SPINLOCK_PRESENT: the build's lock
  MergeForeign,  \* whether a document has text of the builder after text of a batch worker
  Origin,        \* origin_size: cells of an ordinary chunk
  Header,        \* sizeof(size_t)
  ChunksSize,    \* chunks_size: chunks of a row of the pool
  MaxRows,       \* bound: rows of chunks the pool may open
  Sizes          \* the sizes that are asked for

ASSUME PoolAssumption ==
  /\ N \in Nat /\ Spinlock \in BOOLEAN /\ MergeForeign \in BOOLEAN
  /\ Origin \in Nat /\ Header \in Nat \ {0} /\ Header < Origin
  /\ ChunksSize \in Nat /\ N < ChunksSize /\ MaxRows \in Nat \ {0}
  /\ Sizes \subseteq Nat \ {0}

Threads == 0 .. N
Chunks == (1 .. MaxRows) \X (0 .. ChunksSize - 1)

VARIABLES
  chunks_pos_length,   \* rows of chunks opened
  chunks_length,       \* chunks taken from the last row
  size, length,        \* of a chunk: its cells (0: not allocated), those in use
  first, cur,          \* of a node: its first chunk, node->chunk
  used, spare,         \* of a node: the chunks up to node->chunk, those behind it
  cache,               \* of a node: regions freed or left over
  live,                \* of a node: regions its callers hold
  lock,                \* the word or mutex of the pool
  pc,                  \* where a thread's call is
  node, want, old,     \* its arguments: the node, the size, {region to replace} or {}
  at,                  \* the region the call has chosen
  compare,             \* the local of mcsync_static_atomic_lock (0 for the mutex)
  got                  \* the chunk it takes from the pool

chunks == <<chunks_pos_length, chunks_length>>
sizes == <<size, length>>
nodes == <<first, cur, used, spare>>
regions == <<cache, live>>
args == <<node, want, old>>
vars == <<chunks, sizes, nodes, regions, lock, pc, args, at, compare, got>>

RegionSet == [c : Chunks, off : Nat, size : Nat]
Region(c, o, s) == [c |-> c, off |-> o, size |-> s]
End(r) == r.off + r.size
NoRegion == Region(<<1, 0>>, 0, 0)
Goto(u, label) == pc' = [pc EXCEPT ![u] = label]

\* The call ends, and its arguments and locals with it.
Return(u) ==
  /\ Goto(u, "idle")
  /\ node' = [node EXCEPT ![u] = u] /\ want' = [want EXCEPT ![u] = 0]
  /\ old' = [old EXCEPT ![u] = {}] /\ at' = [at EXCEPT ![u] = NoRegion]
  /\ got' = [got EXCEPT ![u] = NoRegion.c]

\* mchar_async_node_add for every thread in turn: thread i has chunk i.
Init ==
  /\ chunks_pos_length = 1 /\ chunks_length = N + 1
  /\ size = [c \in Chunks |-> IF c[1] = 1 /\ c[2] <= N THEN Origin ELSE 0]
  /\ length = [c \in Chunks |-> 0]
  /\ first = [n \in Threads |-> <<1, n>>] /\ cur = first
  /\ used = [n \in Threads |-> {<<1, n>>}]
  /\ spare = [n \in Threads |-> {}]
  /\ cache = [n \in Threads |-> {}] /\ live = [n \in Threads |-> {}]
  /\ lock = 0 /\ pc = [u \in Threads |-> "idle"]
  /\ node = [u \in Threads |-> u] /\ want = [u \in Threads |-> 0]
  /\ old = [u \in Threads |-> {}] /\ at = [u \in Threads |-> NoRegion]
  /\ compare = [u \in Threads |-> 0] /\ got = [u \in Threads |-> NoRegion.c]

-----------------------------------------------------------------------------
(* mchar_async_malloc and mchar_async_realloc: a call looks at its node and  *)
(* chooses; the step after that writes the node.                             *)

\* mchar_async_cache_delete: a smallest cached region that is large enough.
Fits(n, s) == {r \in cache[n] : r.size >= s}
Best(n, s) == {r \in Fits(n, s) : \A q \in Fits(n, s) : r.size <= q.size}

\* A mutant: the end of the chunk is not looked at.
ExtendsBeyond(n, r, s) == r.c = cur[n] /\ End(r) = length[r.c]

\* The region is the last one of the current chunk and the chunk has room for more.
Extends(n, r, s) ==
  /\ r.c = cur[n] /\ End(r) = length[r.c]
  /\ r.off + s <= size[r.c]

\* mchar_sync_chunk_find_by_size: the chunks behind the current one that are large enough.
Behind(n, s) == {d \in spare[n] : size[d] >= s + Header}

\* Where the call goes when it looks for s cells in node n.
Choose(u, n, s) ==
  \/ \E r \in Best(n, s) :
       at' = [at EXCEPT ![u] = r] /\ Goto(u, "reuse")
  \/ /\ Fits(n, s) = {}
     /\ length[cur[n]] + s + Header <= size[cur[n]]
     /\ at' = [at EXCEPT ![u] = Region(cur[n], length[cur[n]] + Header, s)]
     /\ Goto(u, "carve")
  \/ /\ Fits(n, s) = {}
     /\ length[cur[n]] + s + Header > size[cur[n]]
     /\ chunks_pos_length < MaxRows \/ Behind(n, s) # {}      \* bound
     /\ Goto(u, "turn") /\ UNCHANGED at

Call(u, n, s, o) ==
  /\ pc[u] = "idle"
  /\ node' = [node EXCEPT ![u] = n]
  /\ want' = [want EXCEPT ![u] = s]
  /\ old' = [old EXCEPT ![u] = o]
  /\ UNCHANGED <<chunks, sizes, nodes, regions, lock, compare, got>>

Malloc(u) == \E s \in Sizes : Call(u, u, s, {}) /\ Choose(u, u, s)

\* The nodes whose strings a thread may enlarge. A string belongs to the node
\* it was cut from: the builder also appends its own text to a string of a
\* batch worker.
Enlarges(u) == IF u = 0 /\ MergeForeign THEN Threads ELSE {u}

Realloc(u) ==
  \E n \in Enlarges(u) : \E r \in live[n], s \in Sizes :
    /\ s > r.size
    /\ Call(u, n, s, {r})
    /\ \/ /\ Extends(n, r, s)
          /\ at' = [at EXCEPT ![u] = Region(r.c, r.off, s)] /\ Goto(u, "extend")
       \/ ~Extends(n, r, s) /\ Choose(u, n, s)

\* A mutant: the callers keep the region that was enlarged.
ExtendKeepsOld(u) ==
  /\ pc[u] = "extend"
  /\ length' = [length EXCEPT ![at[u].c] = End(at[u])]
  /\ live' = [live EXCEPT ![node[u]] = @ \cup {at[u]}]
  /\ Return(u)
  /\ UNCHANGED <<chunks, size, nodes, cache, lock, compare>>

Extend(u) ==
  /\ pc[u] = "extend"
  /\ length' = [length EXCEPT ![at[u].c] = End(at[u])]
  /\ live' = [live EXCEPT ![node[u]] = (@ \ old[u]) \cup {at[u]}]
  /\ Return(u)
  /\ UNCHANGED <<chunks, size, nodes, cache, lock, compare>>

\* The caller gets the region at[u]; realloc caches the region it replaces.
Give(u) ==
  /\ live' = [live EXCEPT ![node[u]] = (@ \ old[u]) \cup {at[u]}]
  /\ cache' = [cache EXCEPT ![node[u]] = (@ \ {at[u]}) \cup old[u]]
  /\ Return(u)

Reuse(u) ==
  /\ pc[u] = "reuse"
  /\ Give(u)
  /\ UNCHANGED <<chunks, sizes, nodes, lock, compare>>

Carve(u) ==
  /\ pc[u] = "carve"
  /\ length' = [length EXCEPT ![at[u].c] = End(at[u])]
  /\ Give(u)
  /\ UNCHANGED <<chunks, size, nodes, lock, compare>>

\* Chunk c becomes the current one of node n, the ones behind it stay behind.
Current(n, c) ==
  /\ cur' = [cur EXCEPT ![n] = c]
  /\ used' = [used EXCEPT ![n] = @ \cup {c}]
  /\ spare' = [spare EXCEPT ![n] = @ \ {c}]
  /\ UNCHANGED first

\* The call will cut its region off the front of chunk c.
Front(u, c) ==
  /\ at' = [at EXCEPT ![u] = Region(c, Header, want[u])]
  /\ Goto(u, "carve")

\* What is left of the current chunk goes to the cache; then a chunk behind it
\* is emptied and used, or the pool is asked for one.
Turn(u) ==
  LET n == node[u]
      c == cur[n]
      rest == size[c] - length[c] - Header
  IN  /\ pc[u] = "turn"
      /\ cache' = [cache EXCEPT ![n] =
           IF rest > 0 THEN @ \cup {Region(c, length[c] + Header, rest)} ELSE @]
      /\ \/ \E d \in Behind(n, want[u]) :
              /\ Current(n, d) /\ Front(u, d)
              /\ length' = [length EXCEPT ![c] = IF rest > 0 THEN size[c] ELSE @, ![d] = 0]
              /\ UNCHANGED compare
         \/ /\ Behind(n, want[u]) = {}
            /\ length' = [length EXCEPT ![c] = IF rest > 0 THEN size[c] ELSE @]
            /\ compare' = [compare EXCEPT ![u] = 0]
            /\ Goto(u, "lock")
            /\ UNCHANGED <<nodes, at>>
      /\ UNCHANGED <<chunks, size, live, lock, args, got>>

-----------------------------------------------------------------------------
(* mchar_async_chunk_malloc: a chunk of the pool, under the lock.            *)

\* A mutant: the result of the attempt is not looked at.
LockNoWait(u) ==
  /\ pc[u] = "lock"
  /\ lock' = 1
  /\ Goto(u, "row")
  /\ UNCHANGED <<chunks, sizes, nodes, regions, args, at, compare, got>>

\* pthread_mutex_lock, or one __atomic_compare_exchange_n: when it fails it stores
\* the value it found in compare, and the loop does not reset it.
Lock(u) ==
  /\ pc[u] = "lock"
  /\ IF lock = compare[u]
       THEN lock' = 1 /\ Goto(u, "row") /\ UNCHANGED compare
       ELSE Spinlock /\ compare' = [compare EXCEPT ![u] = lock] /\ UNCHANGED <<lock, pc>>
  /\ UNCHANGED <<chunks, sizes, nodes, regions, args, at, got>>

\* Mutants: a row has one chunk too many, or the new row is not opened.
RowLate(u) ==
  /\ pc[u] = "row"
  /\ IF chunks_length > ChunksSize
       THEN /\ chunks_pos_length < MaxRows
            /\ chunks_pos_length' = chunks_pos_length + 1 /\ chunks_length' = 0
       ELSE UNCHANGED chunks
  /\ Goto(u, "take")
  /\ UNCHANGED <<sizes, nodes, regions, lock, args, at, compare, got>>

RowAgain(u) ==
  /\ pc[u] = "row"
  /\ chunks_length' = IF chunks_length >= ChunksSize THEN 0 ELSE chunks_length
  /\ Goto(u, "take")
  /\ UNCHANGED <<chunks_pos_length, sizes, nodes, regions, lock, args, at, compare, got>>

\* A new row of chunks when the last one is used up.
Row(u) ==
  /\ pc[u] = "row"
  /\ IF chunks_length >= ChunksSize
       THEN /\ chunks_pos_length < MaxRows      \* bound
            /\ chunks_pos_length' = chunks_pos_length + 1 /\ chunks_length' = 0
       ELSE UNCHANGED chunks
  /\ Goto(u, "take")
  /\ UNCHANGED <<sizes, nodes, regions, lock, args, at, compare, got>>

Take(u) ==
  /\ pc[u] = "take"
  /\ got' = [got EXCEPT ![u] = <<chunks_pos_length, chunks_length>>]
  /\ Goto(u, "bump")
  /\ UNCHANGED <<chunks, sizes, nodes, regions, lock, args, at, compare>>

\* chunks_length++: the build may read the counter again or keep what Take read.
Bump(u) ==
  /\ pc[u] = "bump"
  /\ chunks_length' \in {chunks_length + 1, got[u][2] + 1}
  /\ Goto(u, "mem")
  /\ UNCHANGED <<chunks_pos_length, sizes, nodes, regions, lock, args, at, compare, got>>

\* The size asked of the pool: a large string leaves an ordinary chunk of room.
Ask(u) == IF want[u] + Header > Origin THEN want[u] + Header + Origin ELSE Origin

\* mchar_async_mem_malloc.
Mem(u) ==
  LET c == got[u]
  IN  /\ pc[u] = "mem"
      /\ size' = [size EXCEPT ![c] =
           IF @ = 0 THEN Ask(u) ELSE IF Ask(u) > @ THEN Ask(u) + Origin ELSE @]
      /\ length' = [length EXCEPT ![c] = 0]
      /\ Goto(u, "unlock")
      /\ UNCHANGED <<chunks, nodes, regions, lock, args, at, compare, got>>

Unlock(u) ==
  /\ pc[u] = "unlock"
  /\ lock' = 0
  /\ Goto(u, "link")
  /\ UNCHANGED <<chunks, sizes, nodes, regions, args, at, compare, got>>

\* mchar_sync_chunk_insert_after.
Link(u) ==
  /\ pc[u] = "link"
  /\ Current(node[u], got[u]) /\ Front(u, got[u])
  /\ UNCHANGED <<chunks, sizes, regions, lock, args, compare, got>>

-----------------------------------------------------------------------------
(* The other operations of a node.                                           *)

\* mchar_async_free, by the thread of the node or, once the parse is over, by the
\* owner of the tree.
Free(u) ==
  /\ pc[u] = "idle"
  /\ \E r \in live[u] :
       /\ live' = [live EXCEPT ![u] = @ \ {r}]
       /\ cache' = [cache EXCEPT ![u] = @ \cup {r}]
  /\ UNCHANGED <<chunks, sizes, nodes, lock, pc, args, at, compare, got>>

\* mchar_async_crop_first_chars_without_cache: the builder drops the first
\* characters of a string, whoever decoded it; the header moves into them.
CropBy(n, r, k) ==
  /\ \A u \in Threads : pc[u] # "idle" => r \notin old[u]
  /\ live' = [live EXCEPT ![n] = (@ \ {r}) \cup {Region(r.c, r.off + k, r.size - k)}]
  /\ UNCHANGED <<chunks, sizes, nodes, cache, lock, pc, args, at, compare, got>>

Crop ==
  /\ pc[0] = "idle"
  /\ \E n \in Threads : \E r \in live[n] : \E k \in 1 .. r.size - 1 : CropBy(n, r, k)

\* A mutant: the caches are not cleaned.
CleanKeepsCache ==
  /\ \A u \in Threads : pc[u] = "idle"
  /\ cur' = first
  /\ used' = [n \in Threads |-> {first[n]}]
  /\ spare' = [n \in Threads |-> (used[n] \cup spare[n]) \ {first[n]}]
  /\ length' = [c \in Chunks |-> IF \E n \in Threads : c = first[n] THEN 0 ELSE length[c]]
  /\ live' = [n \in Threads |-> {}]
  /\ UNCHANGED <<chunks, size, first, cache, lock, pc, args, at, compare, got>>

\* myhtml_tree_clean: mchar_async_node_clean for every node, no thread at work.
Clean ==
  /\ \A u \in Threads : pc[u] = "idle"
  /\ cur' = first
  /\ used' = [n \in Threads |-> {first[n]}]
  /\ spare' = [n \in Threads |-> (used[n] \cup spare[n]) \ {first[n]}]
  /\ length' = [c \in Chunks |-> IF \E n \in Threads : c = first[n] THEN 0 ELSE length[c]]
  /\ cache' = [n \in Threads |-> {}] /\ live' = [n \in Threads |-> {}]
  /\ UNCHANGED <<chunks, size, first, lock, pc, args, at, compare, got>>

Step(u) ==
  \/ Malloc(u) \/ Realloc(u) \/ Extend(u) \/ Reuse(u) \/ Carve(u) \/ Turn(u)
  \/ Lock(u) \/ Row(u) \/ Take(u) \/ Bump(u) \/ Mem(u)
  \/ Unlock(u) \/ Link(u) \/ Free(u)

Next == Clean \/ Crop \/ \E u \in Threads : Step(u)

Spec == Init /\ [][Next]_vars

-----------------------------------------------------------------------------
(* Properties.                                                               *)

Critical == {"row", "take", "bump", "mem", "unlock"}
Labels == {"idle", "extend", "reuse", "carve", "turn", "lock", "link"} \cup Critical

\* What a call has in hand: the chunk it took from the pool and not yet linked.
InHand(u) == IF pc[u] \in {"mem", "unlock", "link"} THEN {got[u]} ELSE {}

Held(n) == used[n] \cup spare[n]
Regions(n) == live[n] \cup cache[n]
Apart(r, s) == r.c # s.c \/ End(r) + Header <= s.off \/ End(s) + Header <= r.off

\* Every variable has its type: counters, chunks and regions of the pool.
TypeOK ==
  /\ chunks_pos_length \in 1 .. MaxRows /\ chunks_length \in 0 .. ChunksSize
  /\ size \in [Chunks -> Nat] /\ length \in [Chunks -> Nat]
  /\ first \in [Threads -> Chunks] /\ cur \in [Threads -> Chunks]
  /\ used \in [Threads -> SUBSET Chunks] /\ spare \in [Threads -> SUBSET Chunks]
  /\ cache \in [Threads -> SUBSET RegionSet]
  /\ live \in [Threads -> SUBSET RegionSet]
  /\ lock \in {0, 1} /\ pc \in [Threads -> Labels]
  /\ node \in [Threads -> Threads] /\ want \in [Threads -> Nat]
  /\ old \in [Threads -> SUBSET RegionSet]
  /\ at \in [Threads -> RegionSet]
  /\ compare \in [Threads -> {0, 1}] /\ got \in [Threads -> Chunks]

\* mcsync_lock: one thread at a time is between mcsync_lock and mcsync_unlock
\* of mchar_async_chunk_malloc.
MutualExclusion ==
  \A u, v \in Threads : pc[u] \in Critical /\ pc[v] \in Critical => u = v

\* A chunk of the pool is given out once: no chunk is in two nodes, or in a
\* node and in the hand of a call that has not linked it yet.
ChunkExclusive ==
  /\ \A n, m \in Threads : n # m => Held(n) \cap Held(m) = {}
  /\ \A u, v \in Threads :
       /\ InHand(u) \cap Held(v) = {}
       /\ u # v => InHand(u) \cap InHand(v) = {}

\* No two regions overlap, headers included, whether they are held or cached,
\* whatever threads they belong to; each lies in the used part of its chunk.
RegionsApart ==
  /\ \A n \in Threads : live[n] \cap cache[n] = {}
  /\ \A n \in Threads : \A r \in Regions(n) :
       Header <= r.off /\ End(r) <= length[r.c] /\ length[r.c] <= size[r.c]
  /\ \A n, m \in Threads : \A r \in Regions(n), s \in Regions(m) :
       r # s \/ n # m => Apart(r, s)

\* The chunks behind the current one hold nothing: mchar_async_malloc empties
\* the one it finds there.
SpareEmpty ==
  \A n \in Threads : \A r \in Regions(n) : r.c \notin spare[n]

\* tree.c: the nodes 1, 2, ... are "for batch thread": no other thread is in a
\* call on the node of a thread that is itself in a call.
NodePrivate ==
  \A u \in Threads : pc[u] # "idle" /\ node[u] # u => pc[node[u]] = "idle"
===============================================================================
