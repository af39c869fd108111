---------------------------- MODULE TokenPipeline ----------------------------
(***************************************************************************)
(* What the queue of MyHTML promises its users, without threads' flags,    *)
(* mutexes, list links or node blocks: while a tree is open the owner      *)
(* publishes the tokens 1, 2, 3, ...; the stream worker handles each of    *)
(* them once and in order; the batch workers share them out, worker w      *)
(* handling w, w + K, w + 2K, ... once and in order; no token is handled   *)
(* before it is published; and a tree is closed only when every worker has *)
(* handled all that is its own.                                            *)
(***************************************************************************)
EXTENDS Integers, Sequences

CONSTANTS Trees, K

Workers == 0 .. K

VARIABLES
  open,        \* [Trees -> BOOLEAN]
  published,   \* [Trees -> Nat]
  handled      \* [Trees -> [Workers -> Seq(Nat)]]

vars == <<open, published, handled>>

Empty == [w \in Workers |-> <<>>]

\* The token worker w has to handle next.
Due(e, w) == IF w = 0 THEN Len(handled[e][0]) + 1 ELSE Len(handled[e][w]) * K + w

Init ==
  /\ open = [e \in Trees |-> FALSE]
  /\ published = [e \in Trees |-> 0]
  /\ handled = [e \in Trees |-> Empty]

Open(e) ==
  /\ ~open[e]
  /\ open' = [open EXCEPT ![e] = TRUE]
  /\ UNCHANGED <<published, handled>>

Publish(e) ==
  /\ open[e]
  /\ published' = [published EXCEPT ![e] = @ + 1]
  /\ UNCHANGED <<open, handled>>

Handle(e, w) ==
  /\ open[e]
  /\ Due(e, w) <= published[e]
  /\ handled' = [handled EXCEPT ![e][w] = Append(@, Due(e, w))]
  /\ UNCHANGED <<open, published>>

Close(e) ==
  /\ open[e]
  /\ \A w \in Workers : Due(e, w) > published[e]
  /\ open' = [open EXCEPT ![e] = FALSE]
  /\ published' = [published EXCEPT ![e] = 0]
  /\ handled' = [handled EXCEPT ![e] = Empty]

Next ==
  \E e \in Trees :
    Open(e) \/ Publish(e) \/ Close(e) \/ \E w \in Workers : Handle(e, w)

Spec == Init /\ [][Next]_vars
===============================================================================
