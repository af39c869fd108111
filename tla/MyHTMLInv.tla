------------------------------ MODULE MyHTMLInv ------------------------------
(***************************************************************************)
(* The inductive invariants behind the safety properties of MyHTML: IndInv *)
(* and PipeInv of MyHTMLProofs. TLC checks them first, in the run of       *)
(* MCMyHTML with two trees and one batch thread.                           *)
(***************************************************************************)
EXTENDS MyHTML, FiniteSets

Scanning == {"cmp", "deref", "work", "bump", "next"}
Holding == {"deref", "work", "bump"}      \* of a node, found but not yet counted
Suspending == {"susp_opt", "susp_wait"}
Resuming == {"res_opt", "res_ctx", "res_post"}
Queueing == {"publish", "round_wait", "clean_uses", "clean_use", "queued"}

-----------------------------------------------------------------------------
(* The owner's program: which call it executes at which label, and on which   *)
(* tree; the worker's: when it stands on an entry of the list. With TypeOK    *)
(* these are inductive for any number of threads.                             *)

CallInv ==
  /\ mpc \in {"link", "count"} => call = "push"
  /\ mpc \in {"unlink", "uncount", "free"} => call = "delete"
  /\ mpc \in Suspending => call \in {"push", "delete"}
  /\ mpc \in Resuming => call \in {"push", "post", "delete", "destroy"}
  /\ mpc \in Queueing =>
       (pend = "eof" /\ call = "delete") \/ (pend # "eof" /\ call = "none")
  /\ mpc = "end_wait" => call = "delete"
  /\ mpc \in {"stop_opt", "stop_wait"} => call = "pause"
  /\ mpc \in {"quit_opt", "quit_wait", "join"} => call = "destroy"
  /\ mpc \in {"idle", "ns_wait", "done"} => call = "none"
  /\ mpc \in {"susp_opt", "res_opt", "stop_opt", "quit_opt"} => mi \in {0, 1}
  /\ call \in {"push", "delete"} \/ mpc \in Queueing \cup {"ns_wait"} =>
       cur \in Trees /\ alive[cur]

CursorInv ==
  \A w \in Workers :
    /\ wpc[w] \in Scanning => ent[w] # NULL
    /\ wpc[w] \notin Scanning \cup {"scan"} => ent[w] = NULL

TypeInv == TypeOK /\ CallInv /\ CursorInv

-----------------------------------------------------------------------------
(* The handshake. *)

\* A worker that is blocked, or about to be woken, and its mutex.
AsleepInv(w) ==
  wpc[w] \in {"start", "lock"} =>
    \/ mutex[w] = "locked" /\ ctxOpt[w] = "STOP"
    \/ mutex[w] = "unlocked" /\ ctxOpt[w] \in {"UNDEF", "QUIT"}
    \/ mutex[w] = "locked" /\ ctxOpt[w] \in {"UNDEF", "QUIT"} /\ mpc = "res_post" /\ mi = w

\* A worker that runs, and its mutex and flag.
AwakeInv(w) ==
  wpc[w] \notin {"start", "lock"} =>
    /\ mutex[w] = IF wpc[w] \in {"quit", "dead"} THEN "closed" ELSE "locked"
    /\ IF wpc[w] \in {"spin", "unwait"} THEN ctxOpt[w] = "WAIT"
                                        ELSE ctxOpt[w] \in {"UNDEF", "QUIT"}

PostInv ==
  mpc = "res_post" =>
    wpc[mi] \in {"start", "lock"} /\ mutex[mi] = "locked" /\ ctxOpt[mi] # "STOP"

HandshakeInv == PostInv /\ \A w \in Workers : AsleepInv(w) /\ AwakeInv(w)

\* The owner has been through worker w in its loop over the groups.
Passed(w) ==
  \/ mpc \in {"link", "count", "unlink", "uncount"}
  \/ mpc \in Suspending /\ w < mi
  \/ mpc = "res_opt" /\ call \in {"push", "delete"} /\ (mi = 0 \/ w >= 1)

SuspendInv ==
  /\ \A w \in Workers : Passed(w) => opt[Group(w)] = "WAIT"
  /\ mpc = "susp_wait" => opt[Group(mi)] = "WAIT"
  /\ mpc \in {"res_ctx", "res_post"} => call \in {"post", "destroy"}
  /\ \A g \in Groups : opt[g] = "WAIT" =>
       \/ mpc \in {"link", "count", "unlink", "uncount"}
       \/ mpc = "susp_wait" /\ (mi >= 1 \/ g = "stream")
       \/ mpc = "susp_opt" /\ mi = 1 /\ g = "stream"
       \/ mpc = "res_opt" /\ (mi = 0 \/ g = "batch") /\ call \in {"push", "delete"}

-----------------------------------------------------------------------------
(* The list: doubly linked, and nothing else points into it.                 *)

\* The entry of the tree is on the list.
In(e) ==
  /\ alive[e]
  /\ ~(e = cur /\ call = "push" /\ mpc \in Suspending \cup {"link"})
  /\ ~(e = cur /\ call = "delete" /\ mpc \in Resuming \cup {"uncount", "free"})

ListInv ==
  /\ first = NULL \/ (first \in Trees /\ In(first) /\ prv[first] = NULL)
  /\ last = NULL \/ (last \in Trees /\ In(last) /\ nxt[last] = NULL)
  /\ first = NULL <=> last = NULL
  /\ \A e \in Trees : In(e) =>
       /\ nxt[e] = NULL \/ (In(nxt[e]) /\ prv[nxt[e]] = e)
       /\ prv[e] = NULL \/ (In(prv[e]) /\ nxt[prv[e]] = e)
       /\ nxt[e] = NULL => last = e
       /\ prv[e] = NULL => first = e
  /\ \A e \in Trees : ~alive[e] => nxt[e] = NULL /\ prv[e] = NULL
  /\ call = "push" /\ mpc \in Suspending \cup {"link"} => nxt[cur] = NULL /\ prv[cur] = NULL

EntInv == \A w \in Workers : ent[w] # NULL => In(ent[w])

-----------------------------------------------------------------------------
(* The sleep of the workers between the parses.                              *)

\* The entries that the list's counter counts.
Listed ==
  {e \in Trees : \/ In(e) /\ ~(e = cur /\ call = "push" /\ mpc = "count")
                 \/ e = cur /\ alive[e] /\ call = "delete" /\ mpc = "uncount"}

CountInv == IsFiniteSet(Listed) /\ count = Cardinality(Listed)

\* mythread_stop finds no group that is said to be stopped already: the groups
\* were resumed when the last entry was unlinked.
RunningInv ==
  /\ call = "delete" /\ mpc = "free" => \A g \in Groups : opt[g] = "UNDEF"
  /\ call = "delete" /\ mpc = "res_opt" /\ mi = 1 => opt["stream"] = "UNDEF"
  /\ mpc = "stop_opt" => opt["batch"] = "UNDEF" /\ (mi = 0 => opt["stream"] = "UNDEF")
  /\ mpc = "stop_wait" /\ mi = 0 => opt["batch"] = "UNDEF"

AsleepStop ==
  /\ mpc \in {"stop_opt", "stop_wait"} => \A w \in Workers : w < mi => ctxOpt[w] = "STOP"
  /\ call = "post" => \E e \in Trees : alive[e]
  /\ mpc = "idle" /\ (\A e \in Trees : ~alive[e]) => \A w \in Workers : ctxOpt[w] = "STOP"

QuietInv == CountInv /\ RunningInv /\ AsleepStop

-----------------------------------------------------------------------------
(* The queues, with one batch thread (K = 1).                                *)

Cleaning(e) == mpc = "clean_use" /\ e = cur

\* What worker w has handled of the queue of e, and what it is about to handle.
UseAt(e, w) ==
  /\ use[e][w] <= uses[e] \/ (Cleaning(e) /\ w >= mi)
  /\ mpc = "round_wait" /\ e = cur /\ w < mi => use[e][w] = uses[e]
  /\ mpc = "clean_uses" /\ e = cur => use[e][w] = uses[e]
  /\ wpc[w] = "cmp" /\ ent[w] = e => ruse[w] >= use[e][w]
  /\ wpc[w] \in Holding /\ ent[w] = e => use[e][w] < uses[e]

UseInv == \A e \in Trees : alive[e] => \A w \in Workers : UseAt(e, w)

CleanInv == mpc = "clean_use" => uses[cur] = 0

\* A worker that reports WAIT, or will, but runs again without the owner's doing.
Leaving(w) == wpc[w] = "unwait" \/ (wpc[w] \in {"wait", "spin"} /\ opt[Group(w)] # "WAIT")

\* A push may take an old report for an answer and link the new entry while a
\* worker runs, which does no harm. A delete may not: with one batch thread the
\* owner has first seen every worker handle the end-of-file token, so that none
\* of them is leaving an older suspension.
ObeyInv ==
  call = "delete" /\ mpc # "res_opt" =>
    \A w \in Workers : Passed(w) => ctxOpt[w] \in {"STOP", "WAIT"}

FreshInv ==
  call = "delete" =>
    /\ mpc \in {"queued", "end_wait", "round_wait"} =>
         \A w \in Workers : Leaving(w) => use[cur][w] < uses[cur]
    /\ mpc \in {"round_wait", "end_wait"} => \A w \in Workers : w < mi => ~Leaving(w)
    /\ mpc \in {"clean_uses", "clean_use", "unlink", "uncount"} \cup Suspending =>
         \A w \in Workers : ~Leaving(w)

IndInv ==
  /\ TypeInv /\ HandshakeInv /\ ListInv
  /\ SuspendInv /\ EntInv /\ UseInv /\ CleanInv /\ ObeyInv /\ FreshInv

-----------------------------------------------------------------------------
(* The promise of the queue (TokenPipeline), with one batch thread.           *)

\* The list has no cycle: the walk of a worker over it ends.
AcyclicInv ==
  \A S \in SUBSET Trees :
    S # {} /\ (\A e \in S : In(e)) => \E e \in S : nxt[e] \notin S

\* The entry just taken off the list still points into it, and nowhere else.
UnlinkedInv ==
  call = "delete" /\ mpc \in Resuming \cup {"uncount", "free"} =>
    nxt[cur] = NULL \/ In(nxt[cur])

\* The published nodes hold the last tokens in order, and the owner has room for
\* one more, or is starting a round.
BlockInv(e) ==
  /\ len[e] = uses[e] /\ uses[e] <= published[e]
  /\ len[e] < NodesSize \/ (len[e] = NodesSize /\ e = cur /\ mpc \in {"round_wait", "clean_uses"})
  /\ \A s \in Slots : s < uses[e] => node[e][s].no = published[e] - uses[e] + s + 1
  /\ mpc = "publish" /\ e = cur => node[e][len[e]].no = published[e] + 1

\* The number of tokens worker w has handled; those of earlier rounds are all
\* handled, and use counts those of this round, but is not reset in one step.
Passes(e, w) == IF Cleaning(e) THEN published[e] ELSE published[e] - uses[e] + use[e][w]

HandledInv(e, w) ==
  /\ Len(handled[e][w]) =
       IF wpc[w] = "bump" /\ ent[w] = e THEN Passes(e, w) + 1 ELSE Passes(e, w)
  /\ wpc[w] = "work" /\ ent[w] = e => tok[w].no = Len(handled[e][w]) + 1
  /\ call = "delete" /\ e = cur =>
       /\ mpc \in Suspending \cup {"unlink"} => use[e][w] = uses[e]
       /\ mpc = "end_wait" /\ w < mi => use[e][w] = uses[e]

\* The counting of a tree that is being parsed.
TokenInv ==
  /\ \A e \in Trees : alive[e] =>
       /\ BlockInv(e)
       /\ \A w \in Workers : HandledInv(e, w)
       /\ lastDone[e] <= Len(handled[e][0])
  /\ call = "push" /\ mpc \in Suspending \cup {"link"} =>
       published[cur] = 0 /\ handled[cur] = [w \in Workers |-> <<>>]

PipeInv == AcyclicInv /\ UnlinkedInv /\ TokenInv
===============================================================================
