----------------------------- MODULE MCCharCache -----------------------------
(***************************************************************************)
(* Regions for the cache.  What a free place still holds is never read     *)
(* before it is written, nor is the parent of place 0: states that differ  *)
(* in nothing else are taken for one.                                      *)
(***************************************************************************)
EXTENDS CharCache

MCSizes == 1 .. 3
MCSymmetry == Permutations(Values)
MCView ==
  <<[k \in Linked |-> nodes[k]], nodes_root, nodes_length, nodes_size, index, index_size, count, given>>
===============================================================================
