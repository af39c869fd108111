----------------------------- MODULE CharPoolInv ------------------------------
(***************************************************************************)
(* The inductive invariant of CharPool in a build whose lock excludes, on  *)
(* documents that keep every thread to its own node.                       *)
(***************************************************************************)
EXTENDS CharPool

\* The chunk was given out by the pool.
Given(c) ==
  c[1] < chunks_pos_length \/ (c[1] = chunks_pos_length /\ c[2] < chunks_length)

\* The lock is taken while a thread is between mcsync_lock and mcsync_unlock.
LockInv ==
  /\ MutualExclusion
  /\ \A u \in Threads : (pc[u] \in Critical => lock = 1) /\ compare[u] = 0

\* The thread that has the lock knows the next chunk.
CounterInv ==
  \A u \in Threads :
    /\ pc[u] = "take" => chunks_length < ChunksSize
    /\ pc[u] = "bump" =>
         got[u] = <<chunks_pos_length, chunks_length>> /\ chunks_length < ChunksSize

\* Chunks in a node or in hand were given out, each once.
ChunkInv ==
  /\ \A n \in Threads : \A c \in Held(n) : Given(c)
  /\ \A u \in Threads : \A c \in InHand(u) : Given(c)
  /\ ChunkExclusive

\* The chunks of node n: the first and the current one are in use, none of
\* these is also behind; no more cells are in use than there are.
NodeInv(n) ==
  /\ node[n] = n
  /\ first[n] \in used[n] /\ cur[n] \in used[n]
  /\ used[n] \cap spare[n] = {}
  /\ \A c \in Held(n) : length[c] <= size[c]

\* The regions of node n lie in the chunks it uses and are apart.
RegionInv(n) ==
  /\ live[n] \cap cache[n] = {}
  /\ \A r \in Regions(n) :
       r.c \in used[n] /\ Header <= r.off /\ End(r) <= length[r.c]
  /\ \A r, s \in Regions(n) : r # s => Apart(r, s)

\* The region that the call of thread n has chosen is still free to give, and
\* the chunk in its hand is empty and large enough.
JobInv(n) ==
  /\ pc[n] # "idle" => old[n] \subseteq live[n]
  /\ pc[n] = "reuse" => at[n] \in cache[n]
  /\ pc[n] = "carve" =>
       /\ at[n].c = cur[n] /\ at[n].off = length[cur[n]] + Header
       /\ End(at[n]) <= size[cur[n]]
  /\ pc[n] = "extend" =>
       /\ at[n].c = cur[n] /\ End(at[n]) <= size[cur[n]] /\ length[cur[n]] <= End(at[n])
       /\ \E r \in live[n] :
            old[n] = {r} /\ r.c = cur[n] /\ r.off = at[n].off /\ End(r) = length[cur[n]]
  /\ pc[n] \in {"unlock", "link"} => length[got[n]] = 0 /\ size[got[n]] >= want[n] + Header

IndInv ==
  /\ TypeOK /\ LockInv /\ CounterInv /\ ChunkInv
  /\ \A n \in Threads : NodeInv(n) /\ RegionInv(n) /\ JobInv(n)
===============================================================================
