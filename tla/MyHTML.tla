-------------------------------- MODULE MyHTML --------------------------------
(***************************************************************************)
(* The parsing pipeline of MyHTML, as test_myhtml.c runs it: the owner     *)
(* tokenizes a document (myhtml/tokenizer.c, myhtml_queue_add) and feeds   *)
(* the token queue; the batch workers decode each token                    *)
(* (myhtml_parser_worker) and set its DONE flag; the stream worker builds  *)
(* the tree from the tokens (myhtml_parser_stream), waiting for the DONE   *)
(* flag of those whose text it needs; and the owner waits for the stream   *)
(* worker before tokens whose syntax depends on the tree.                  *)
(*                                                                         *)
(* The owner may open several trees, parse a tree several times, and feed  *)
(* a document in several chunks: the benchmark does it once per myhtml_t.  *)
(***************************************************************************)
EXTENDS ThreadQueue

CONSTANTS
  MaxTokens,   \* bound: tokens of one parse, its end-of-file token included
  MaxParses,   \* bound: parses of one tree
  MaxChunks    \* bound: chunks of one parse after the first

\* The kinds of token, told apart by who waits for whom because of them:
\*   tag      nobody waits
\*   text     the stream worker waits until a batch worker has decoded it
\*   raw      after it the owner waits for the tree, to learn how to tokenize
\*            on (script, textarea, ... in foreign content)
\*   cdata    followed by a CDATA section: the owner waits for the tree
\*   newline  the first newline of a pre or textarea: decoded, then dropped
\*   nlcdata  such a newline, followed by a CDATA section
\*   eof      the last token
AllKinds == {"tag", "text", "raw", "cdata", "newline", "nlcdata", "eof"}
Decoded == {"text", "newline", "nlcdata"}
Dropped == {"newline", "nlcdata"}
Awaited == {"raw", "cdata", "nlcdata"}

ASSUME MyHTMLKinds == Kinds \subseteq AllKinds /\ "eof" \in Kinds
ASSUME MyHTMLBounds == MaxTokens \in Nat /\ MaxParses \in Nat /\ MaxChunks \in Nat

VARIABLES
  dn,         \* [Trees -> SUBSET Nat]: the tokens whose DONE flag is set
  lastDone,   \* [Trees -> Nat]: token_last_done, 0 for NULL
  pend,       \* the kind of the token that the owner is queueing
  parses,     \* [Trees -> 0..MaxParses]
  chunks      \* [Trees -> 0..MaxChunks]

tree == <<dn, lastDone, pend, parses, chunks>>
vars == <<thr, ctl, wpc, list, queue, locals, history, tree>>

Init ==
  /\ MyThreadInit
  /\ ThreadQueueInit
  /\ dn = [e \in Trees |-> {}]
  /\ lastDone = [e \in Trees |-> 0]
  /\ pend = "none"
  /\ parses = [e \in Trees |-> 0]
  /\ chunks = [e \in Trees |-> 0]

-----------------------------------------------------------------------------
(* The owner. *)

\* The first chunk of a parse: the tree is clean (myhtml_tree_clean), an entry
\* is made, pushed on the list, and the workers are woken.
\* A mutant: the tree keeps the last token of the parse before.
OpenNotClean(e) ==
  /\ mpc = "idle" /\ ~alive[e]
  /\ parses[e] < MaxParses
  /\ parses' = [parses EXCEPT ![e] = @ + 1]
  /\ chunks' = [chunks EXCEPT ![e] = 0]
  /\ alive' = [alive EXCEPT ![e] = TRUE]
  /\ uses' = [uses EXCEPT ![e] = 0] /\ len' = [len EXCEPT ![e] = 0]
  /\ use' = [use EXCEPT ![e] = make_batch]
  /\ cur' = e
  /\ dn' = [dn EXCEPT ![e] = {}]
  /\ published' = [published EXCEPT ![e] = 0]
  /\ handled' = [handled EXCEPT ![e] = [w \in Workers |-> <<>>]]
  /\ Enter("push", "susp_opt")
  /\ UNCHANGED <<thr, wpc, list, node, locals, lastDone, pend>>

Open(e) ==
  /\ mpc = "idle" /\ ~alive[e]
  /\ parses[e] < MaxParses
  /\ parses' = [parses EXCEPT ![e] = @ + 1]
  /\ chunks' = [chunks EXCEPT ![e] = 0]
  /\ alive' = [alive EXCEPT ![e] = TRUE]
  /\ uses' = [uses EXCEPT ![e] = 0] /\ len' = [len EXCEPT ![e] = 0]
  /\ use' = [use EXCEPT ![e] = make_batch]
  /\ cur' = e
  /\ dn' = [dn EXCEPT ![e] = {}] /\ lastDone' = [lastDone EXCEPT ![e] = 0]
  /\ published' = [published EXCEPT ![e] = 0]
  /\ handled' = [handled EXCEPT ![e] = [w \in Workers |-> <<>>]]
  /\ Enter("push", "susp_opt")
  /\ UNCHANGED <<thr, wpc, list, node, locals, pend>>

\* A further chunk: the entry exists, the workers are told to run again.
Chunk(e) ==
  /\ mpc = "idle" /\ alive[e]
  /\ chunks[e] < MaxChunks
  /\ chunks' = [chunks EXCEPT ![e] = @ + 1]
  /\ Enter("post", "res_opt")
  /\ UNCHANGED <<thr, wpc, list, queue, locals, history, dn, lastDone, pend, parses>>

\* myhtml_queue_add: the token becomes the args of the current node.
Add(e, kind) ==
  /\ mpc = "idle" /\ alive[e]
  /\ node' = [node EXCEPT ![e][len[e]] = [no |-> published[e] + 1, kind |-> kind]]
  /\ pend' = kind
  /\ cur' = e
  /\ Enter(IF kind = "eof" THEN "delete" ELSE "none", "publish")
  /\ UNCHANGED <<thr, wpc, list, alive, uses, len, use, locals, history, dn,
                 lastDone, parses, chunks>>

AddToken(e, kind) == published[e] + 1 < MaxTokens /\ Add(e, kind)

\* myhtml_tokenizer_end queues the end-of-file token.
End(e) == Add(e, "eof")

\* The rest of myhtml_queue_add and the tokenizer's next step.
Queued ==
  /\ mpc = "queued"
  /\ pend' = "none"
  /\ IF pend = "eof" THEN Goto("end_wait", 0)
     ELSE IF pend \in Awaited THEN Goto("ns_wait", 0) ELSE Return
  /\ UNCHANGED <<thr, wpc, list, queue, locals, history, dn, lastDone, parses, chunks>>

\* myhtml_tree_wait_for_last_done_token, for the token just published.
NsWait ==
  /\ mpc = "ns_wait"
  /\ lastDone[cur] = published[cur]
  /\ Return
  /\ UNCHANGED <<thr, wpc, list, queue, locals, history, tree>>

\* A mutant: the entry is deleted without waiting for its tokens.
EndWaitNot ==
  /\ mpc = "end_wait" /\ Goto("susp_opt", 0)
  /\ UNCHANGED <<thr, wpc, list, queue, locals, history, tree>>

EndWait ==
  /\ mpc = "end_wait" /\ EntryDone("susp_opt")
  /\ UNCHANGED tree

\* myhtml_destroy, after the trees are closed.
Destroy ==
  /\ mpc = "idle" /\ \A e \in Trees : ~alive[e]
  /\ Enter("destroy", "res_opt")
  /\ UNCHANGED <<thr, wpc, list, queue, locals, history, tree>>

Handshake == OwnerHandshake /\ UNCHANGED <<list, queue, locals, history, tree>>
QueueOp == OwnerQueue /\ UNCHANGED tree

Owner ==
  \/ \E e \in Trees : Open(e) \/ Chunk(e) \/ End(e)
  \/ \E e \in Trees, kind \in Kinds \ {"eof"} : AddToken(e, kind)
  \/ Queued \/ NsWait \/ EndWait \/ Destroy \/ Handshake \/ QueueOp

-----------------------------------------------------------------------------
(* The workers: ctx->func(ctx->id, qnode). *)

Handle(w) ==
  /\ Move(w, "work", "bump")
  /\ tok' = [tok EXCEPT ![w] = NoToken]
  /\ handled' = [handled EXCEPT ![ent[w]][w] = Append(@, tok[w].no)]
  /\ UNCHANGED <<thr, ctl, list, queue, ent, done, ruse, wopt, published, pend, parses, chunks>>

\* myhtml_parser_stream: myhtml_rules_tree_dispatcher until the token is used up.
parser_stream(w) ==
  /\ w = 0 /\ Handle(w)
  /\ tok[w].kind \in Decoded => tok[w].no \in dn[ent[w]]
  /\ lastDone' = IF tok[w].kind \in Dropped THEN lastDone
                 ELSE [lastDone EXCEPT ![ent[w]] = tok[w].no]
  /\ UNCHANGED dn

\* myhtml_parser_worker: the token is decoded, then its DONE flag is set.
parser_worker(w) ==
  /\ w # 0 /\ Handle(w)
  /\ dn' = [dn EXCEPT ![ent[w]] = @ \cup {tok[w].no}]
  /\ UNCHANGED lastDone

Loop(w) == WorkerQueue(w) /\ UNCHANGED tree
Obey(w) == WorkerHandshake(w) /\ UNCHANGED <<ctl, list, queue, locals, history, tree>>

Worker(w) == parser_stream(w) \/ parser_worker(w) \/ Loop(w) \/ Obey(w)

\* The owner has joined every worker: the program goes on elsewhere.
Finished == mpc = "done" /\ UNCHANGED vars

Next == Owner \/ (\E w \in Workers : Worker(w)) \/ Finished

Spec == Init /\ [][Next]_vars

\* Every thread that can take a step takes one: the operating system schedules
\* them all, and the application finishes the documents it has begun.
Fairness == WF_vars(Owner) /\ \A w \in Workers : WF_vars(Worker(w))

FairSpec == Spec /\ Fairness

-----------------------------------------------------------------------------
(* Properties. *)

\* Every variable has its type (a sanity check of the modules' actions).
TypeOK ==
  /\ MyThreadTypeOK /\ ListTypeOK /\ QueueTypeOK /\ LocalsTypeOK
  /\ dn \in [Trees -> SUBSET Nat] /\ lastDone \in [Trees -> Nat]
  /\ pend \in Kinds \cup {"none"}
  /\ parses \in [Trees -> 0 .. MaxParses] /\ chunks \in [Trees -> 0 .. MaxChunks]

\* Waiting for the mutex, or for the group's flag: not looking at any queue.
Parked(w) == wpc[w] \in {"start", "lock", "spin"}

\* The mutexes work as binary semaphores: the owner posts a mutex only while it
\* is locked, a worker never waits for a closed mutex, and a worker closes its
\* mutex only while it is locked and no post is to come (mythread_resume,
\* mythread_function_see_opt).
MutexDiscipline ==
  /\ mpc = "res_post" => mutex[mi] = "locked" /\ wpc[mi] \in {"start", "lock"}
  /\ \A w \in Workers : wpc[w] \in {"start", "lock"} => mutex[w] # "closed"
  /\ \A w \in Workers : wpc[w] = "close" => mutex[w] = "locked"

\* While the owner takes an entry off the list, and until it has counted it
\* off, every worker is parked (mythread_suspend in
\* mythread_queue_list_entry_delete).
UnlinkExclusive ==
  mpc \in {"unlink", "uncount"} => \A w \in Workers : Parked(w)

\* No worker stands on a list entry that has been freed.
EntryAlive == \A w \in Workers : ent[w] # NULL => alive[ent[w]]

\* While the owner starts a new round of a queue no worker is between finding a
\* node of this queue to handle and having counted it as handled
\* (mythread_queue_node_malloc_round).
RoundExclusive ==
  mpc \in {"clean_uses", "clean_use"} =>
    \A w \in Workers : wpc[w] \in {"deref", "work", "bump"} => ent[w] # cur

\* Once the last tree is closed and the call has returned, every worker is
\* blocked on its mutex: the application may free the tree and its queue
\* (myhtml_tokenizer_end, then myhtml_tree_destroy).
QuietWhenClosed ==
  mpc = "idle" /\ (\A e \in Trees : ~alive[e]) =>
    \A w \in Workers : wpc[w] \in {"start", "lock"}

\* When the owner has waited for the last token it reads the tree that the
\* stream worker builds: the stream worker is not at work on this tree then
\* (myhtml_tree_wait_for_last_done_token).
TreeReadExclusive ==
  mpc = "ns_wait" /\ lastDone[cur] = published[cur] =>
    ~(wpc[0] \in {"deref", "work"} /\ ent[0] = cur)

\* A tree is open, for the users of the queue, from the link to the unlink of
\* its list entry.
Linked(e) == first = e \/ \E d \in Trees : alive[d] /\ nxt[d] = e

Pipeline ==
  INSTANCE TokenPipeline WITH
    open <- [e \in Trees |-> Linked(e)],
    published <- [e \in Trees |-> IF Linked(e) THEN published[e] ELSE 0],
    handled <- [e \in Trees |-> IF Linked(e) THEN handled[e] ELSE [w \in Workers |-> <<>>]]

\* The queue keeps its promise: no token lost, repeated, handled out of order or
\* before it is published, and no tree closed before all its tokens are handled.
PipelineSpec == Pipeline!Spec

\* The program comes to its end: no call of the owner blocks for ever, and every
\* worker obeys and exits.
Terminates == <>(mpc = "done")

\* A tree that is being parsed is parsed to its end: the calls of the owner come
\* back (api.h promises a status of myhtml_parse).
ParseReturns == \A e \in Trees : alive[e] ~> ~alive[e]

\* The stream worker's wait for a token that it has taken from the queue ends
\* (myhtml_token_node_wait_for_done: "all parsing stage").
WaitReturns == wpc[0] = "work" ~> wpc[0] # "work"
===============================================================================
