------------------------------- MODULE BestFit -------------------------------
(***************************************************************************)
(* What the cache of a node of the pool of characters promises its callers *)
(* mchar_async_malloc, _realloc and _free: the freed regions are kept, and *)
(* a call that wants cells gets one of the smallest of those that are      *)
(* large enough, which is then no longer kept.  CharPool counts on it.     *)
(***************************************************************************)
EXTENDS Integers

CONSTANTS Values, Sizes, NULL

VARIABLES
  kept,     \* the regions: [value, size]
  given     \* what the last call returned

Best(s) ==
  LET fits == {e \in kept : e.size >= s}
  IN {e \in fits : \A d \in fits : e.size <= d.size}

Init == kept = {} /\ given = NULL

Add(v, s) ==
  /\ \A e \in kept : e.value # v
  /\ kept' = kept \cup {[value |-> v, size |-> s]} /\ given' = NULL

Delete(s) ==
  \/ \E e \in Best(s) : kept' = kept \ {e} /\ given' = e.value
  \/ Best(s) = {} /\ given' = NULL /\ UNCHANGED kept

Clean == kept' = {} /\ given' = NULL

Next == Clean \/ \E s \in Sizes : Delete(s) \/ \E v \in Values : Add(v, s)
Spec == Init /\ [][Next]_<<kept, given>>
===============================================================================
