----------------------------- MODULE ThreadQueue -----------------------------
(***************************************************************************)
(* mycore/thread_queue.c: one queue of token nodes per document tree, the  *)
(* list of the queues that the workers serve, and the loops of the workers *)
(* over that list.                                                         *)
(*                                                                         *)
(* The owner fills the nodes 0, 1, ... of a queue and publishes each by    *)
(* incrementing nodes_uses (uses[e] here). Worker w has handled the nodes  *)
(* below use[e][w]; the batch workers share the nodes out by starting at   *)
(* different nodes and striding by K. When the block of NodesSize nodes is *)
(* full the owner waits for every worker and starts again at node 0 ("a    *)
(* round": mythread_queue_node_malloc_round).                              *)
(*                                                                         *)
(* A list entry is allocated while a tree is being parsed, so the tree     *)
(* names its entry. published and handled are history: what the owner has  *)
(* published and what each worker has handled in the current parse.        *)
(***************************************************************************)
EXTENDS MyThread, Sequences

CONSTANTS
  Trees,       \* the document trees of the application
  NULL,        \* no list entry
  NodesSize,   \* nodes in a queue's block (9182 in myhtml_tree_init)
  Kinds        \* the kinds of token, defined by the parser (module MyHTML)

ASSUME TreesAssumption == NULL \notin Trees
ASSUME NodesSizeAssumption == NodesSize \in Nat \ {0}
ASSUME KindsAssumption == "none" \notin Kinds

VARIABLES
  first, last, nxt, prv, count,   \* the list: its ends, links and counter
  alive,       \* [Trees -> BOOLEAN]: the tree has a list entry (queue_entry)
  uses,        \* [Trees -> Nat]: nodes_uses, what is published in this round
  len,         \* [Trees -> Nat]: nodes_length, the node the owner fills next
  use,         \* [Trees -> [Workers -> Nat]]: thread_param[w].use
  node,        \* [Trees -> [Slots -> Token]]: the args of the nodes
  cur,         \* the tree whose call the owner is executing
  ent, done, ruse, wopt, tok,     \* the workers' local variables
  published,   \* [Trees -> Nat]
  handled      \* [Trees -> [Workers -> Seq(Nat)]]

list == <<first, last, nxt, prv, count>>
queue == <<alive, uses, len, use, node, cur>>
locals == <<ent, done, ruse, wopt, tok>>
history == <<published, handled>>

Slots == 0 .. NodesSize - 1
Token == [no : Nat, kind : Kinds \cup {"none"}]
NoToken == [no |-> 0, kind |-> "none"]

\* The nodes of a batch worker are K apart, those of the stream worker adjacent.
Stride(w) == IF w = 0 THEN 1 ELSE K
\* mythread_queue_list_entry_make_batch: where worker w starts in a new entry.
make_batch == [w \in Workers |-> IF w = 0 THEN 0 ELSE w - 1]

ThreadQueueInit ==
  /\ first = NULL /\ last = NULL /\ count = 0
  /\ nxt = [e \in Trees |-> NULL] /\ prv = [e \in Trees |-> NULL]
  /\ alive = [e \in Trees |-> FALSE]
  /\ uses = [e \in Trees |-> 0] /\ len = [e \in Trees |-> 0]
  /\ use = [e \in Trees |-> [w \in Workers |-> 0]]
  /\ node = [e \in Trees |-> [s \in Slots |-> NoToken]]
  /\ cur = NULL
  /\ ent = [w \in Workers |-> NULL]
  /\ done = [w \in Workers |-> 0] /\ ruse = [w \in Workers |-> 0]
  /\ wopt = [w \in Workers |-> "UNDEF"]
  /\ tok = [w \in Workers |-> NoToken]
  /\ published = [e \in Trees |-> 0]
  /\ handled = [e \in Trees |-> [w \in Workers |-> <<>>]]

-----------------------------------------------------------------------------
(* The owner: mythread_queue_list_entry_push and _delete, once every group   *)
(* is suspended.                                                             *)

Link ==
  /\ mpc = "link"
  /\ IF first # NULL
       THEN /\ nxt' = [nxt EXCEPT ![last] = cur]
            /\ prv' = [prv EXCEPT ![cur] = last]
            /\ UNCHANGED first
       ELSE first' = cur /\ UNCHANGED <<nxt, prv>>
  /\ last' = cur
  /\ Goto("count", 0)
  /\ UNCHANGED <<count, thr, wpc, queue, locals, history>>

CountUp ==
  /\ mpc = "count"
  /\ count' = count + 1
  /\ Goto("res_opt", 0)
  /\ UNCHANGED <<first, last, nxt, prv, thr, wpc, queue, locals, history>>

\* Mutants: the list's head, its tail, or the link of the entry before it is
\* not updated.
UnlinkKeepsFirst ==
  /\ mpc = "unlink"
  /\ nxt' = IF prv[cur] # NULL THEN [nxt EXCEPT ![prv[cur]] = nxt[cur]] ELSE nxt
  /\ prv' = IF nxt[cur] # NULL THEN [prv EXCEPT ![nxt[cur]] = prv[cur]] ELSE prv
  /\ last' = IF last = cur THEN prv[cur] ELSE last
  /\ Goto("uncount", 0)
  /\ UNCHANGED <<first, count, thr, wpc, queue, locals, history>>

UnlinkKeepsLast ==
  /\ mpc = "unlink"
  /\ nxt' = IF prv[cur] # NULL THEN [nxt EXCEPT ![prv[cur]] = nxt[cur]] ELSE nxt
  /\ prv' = IF nxt[cur] # NULL THEN [prv EXCEPT ![nxt[cur]] = prv[cur]] ELSE prv
  /\ first' = IF first = cur THEN nxt[cur] ELSE first
  /\ Goto("uncount", 0)
  /\ UNCHANGED <<last, count, thr, wpc, queue, locals, history>>

UnlinkKeepsNext ==
  /\ mpc = "unlink"
  /\ prv' = IF nxt[cur] # NULL THEN [prv EXCEPT ![nxt[cur]] = prv[cur]] ELSE prv
  /\ first' = IF first = cur THEN nxt[cur] ELSE first
  /\ last' = IF last = cur THEN prv[cur] ELSE last
  /\ Goto("uncount", 0)
  /\ UNCHANGED <<nxt, count, thr, wpc, queue, locals, history>>

Unlink ==
  /\ mpc = "unlink"
  /\ nxt' = IF prv[cur] # NULL THEN [nxt EXCEPT ![prv[cur]] = nxt[cur]] ELSE nxt
  /\ prv' = IF nxt[cur] # NULL THEN [prv EXCEPT ![nxt[cur]] = prv[cur]] ELSE prv
  /\ first' = IF first = cur THEN nxt[cur] ELSE first
  /\ last' = IF last = cur THEN prv[cur] ELSE last
  /\ Goto("uncount", 0)
  /\ UNCHANGED <<count, thr, wpc, queue, locals, history>>

CountDown ==
  /\ mpc = "uncount"
  /\ count' = count - 1
  /\ Goto("res_opt", 0)
  /\ UNCHANGED <<first, last, nxt, prv, thr, wpc, queue, locals, history>>

\* The entry and its thread_param are freed; myhtml_tokenizer_end then stops
\* the groups if the list has become empty.
\* A mutant: the groups are not stopped when the list has become empty.
FreeEntryNoPause ==
  /\ mpc = "free"
  /\ alive' = [alive EXCEPT ![cur] = FALSE]
  /\ nxt' = [nxt EXCEPT ![cur] = NULL] /\ prv' = [prv EXCEPT ![cur] = NULL]
  /\ cur' = NULL
  /\ Return
  /\ UNCHANGED <<first, last, count, thr, wpc, uses, len, use, node, locals, history>>

FreeEntry ==
  /\ mpc = "free"
  /\ alive' = [alive EXCEPT ![cur] = FALSE]
  /\ nxt' = [nxt EXCEPT ![cur] = NULL] /\ prv' = [prv EXCEPT ![cur] = NULL]
  /\ cur' = NULL
  /\ IF count = 0 THEN Enter("pause", "stop_opt") ELSE Return
  /\ UNCHANGED <<first, last, count, thr, wpc, uses, len, use, node, locals, history>>

-----------------------------------------------------------------------------
(* The owner: mythread_queue_node_malloc_round.                              *)

\* The node the owner has filled is published; a full block starts a round.
Publish ==
  /\ mpc = "publish"
  /\ len' = [len EXCEPT ![cur] = @ + 1]
  /\ uses' = [uses EXCEPT ![cur] = @ + 1]
  /\ published' = [published EXCEPT ![cur] = @ + 1]
  /\ Goto(IF len[cur] + 1 >= NodesSize THEN "round_wait" ELSE "queued", 0)
  /\ UNCHANGED <<thr, wpc, list, alive, use, node, cur, locals, handled>>

\* mythread_queue_list_entry_wait_for_done, before a round and before the end
\* of the parse: one thread_param after the other.
\* Mutants: the loop runs one parameter too far, or waits for the first only.
EntryDoneTooFar(after) ==
  /\ use[cur][mi] >= uses[cur]
  /\ IF mi > K THEN Goto(after, 0) ELSE Goto(mpc, mi + 1)
  /\ UNCHANGED <<thr, wpc, list, queue, locals, history>>

EntryDoneFirstOnly(after) ==
  /\ use[cur][0] >= uses[cur]
  /\ Goto(after, 0)
  /\ UNCHANGED <<thr, wpc, list, queue, locals, history>>

EntryDone(after) ==
  /\ use[cur][mi] >= uses[cur]
  /\ IF mi = K THEN Goto(after, 0) ELSE Goto(mpc, mi + 1)
  /\ UNCHANGED <<thr, wpc, list, queue, locals, history>>

RoundWait == mpc = "round_wait" /\ EntryDone("clean_uses")

\* mythread_queue_list_entry_clean: the queue first, then each thread_param.
\* A mutant: the owner goes on behind the last node of the round before.
CleanUsesKeepsLength ==
  /\ mpc = "clean_uses"
  /\ uses' = [uses EXCEPT ![cur] = 0]
  /\ Goto("clean_use", 0)
  /\ UNCHANGED <<thr, wpc, list, alive, len, use, node, cur, locals, history>>

CleanUses ==
  /\ mpc = "clean_uses"
  /\ uses' = [uses EXCEPT ![cur] = 0] /\ len' = [len EXCEPT ![cur] = 0]
  /\ Goto("clean_use", 0)
  /\ UNCHANGED <<thr, wpc, list, alive, use, node, cur, locals, history>>

\* A mutant: the first parameter is not reset.
CleanUseSkipsFirst ==
  /\ mpc = "clean_use"
  /\ use' = IF mi = 0 THEN use ELSE [use EXCEPT ![cur][mi] = 0]
  /\ IF mi = K THEN Goto("queued", 0) ELSE Goto("clean_use", mi + 1)
  /\ UNCHANGED <<thr, wpc, list, alive, uses, len, node, cur, locals, history>>

CleanUse ==
  /\ mpc = "clean_use"
  /\ use' = [use EXCEPT ![cur][mi] = 0]
  /\ IF mi = K THEN Goto("queued", 0) ELSE Goto("clean_use", mi + 1)
  /\ UNCHANGED <<thr, wpc, list, alive, uses, len, node, cur, locals, history>>

OwnerQueue ==
  Link \/ CountUp \/ Unlink \/ CountDown \/ FreeEntry
    \/ Publish \/ RoundWait \/ CleanUses \/ CleanUse

-----------------------------------------------------------------------------
(* The worker's loop: mythread_function_queue_stream and                     *)
(* mythread_function_queue_batch, which differ in the stride only.           *)

shared == <<thr, ctl, list, queue>>

First(w) ==
  /\ Move(w, "first", "scan")
  /\ ent' = [ent EXCEPT ![w] = first]
  /\ done' = [done EXCEPT ![w] = 0]
  /\ UNCHANGED <<shared, ruse, wopt, tok, history>>

\* while(entry): the left operand of use < nodes_uses is read first.
Scan(w) ==
  /\ Move(w, "scan", IF ent[w] = NULL THEN "check" ELSE "cmp")
  /\ ruse' = IF ent[w] = NULL THEN ruse ELSE [ruse EXCEPT ![w] = use[ent[w]][w]]
  /\ UNCHANGED <<shared, ent, done, wopt, tok, history>>

Compare(w) ==
  LET more == ruse[w] < uses[ent[w]] IN
  /\ Move(w, "cmp", IF more THEN "deref" ELSE "next")
  /\ done' = IF more THEN done ELSE [done EXCEPT ![w] = @ + 1]
  /\ ruse' = [ruse EXCEPT ![w] = 0]
  /\ UNCHANGED <<shared, ent, wopt, tok, history>>

\* qnode = &nodes[pos][len] and its args.
Deref(w) ==
  /\ Move(w, "deref", "work")
  /\ tok' = [tok EXCEPT ![w] = node[ent[w]][use[ent[w]][w] % NodesSize]]
  /\ UNCHANGED <<shared, ent, done, ruse, wopt, history>>

Bump(w) ==
  /\ Move(w, "bump", "next")
  /\ use' = [use EXCEPT ![ent[w]][w] = @ + Stride(w)]
  /\ UNCHANGED <<thr, ctl, list, alive, uses, len, node, cur, locals, history>>

NextEntry(w) ==
  /\ Move(w, "next", "scan")
  /\ ent' = [ent EXCEPT ![w] = nxt[ent[w]]]
  /\ UNCHANGED <<shared, done, ruse, wopt, tok, history>>

Check(w) ==
  /\ Move(w, "check", IF done[w] = count THEN "readopt" ELSE "top")
  /\ UNCHANGED <<shared, locals, history>>

\* mythread->opt is passed to mythread_function_see_opt by value.
ReadOpt(w) ==
  /\ Move(w, "readopt", "see")
  /\ wopt' = [wopt EXCEPT ![w] = opt[Group(w)]]
  /\ UNCHANGED <<shared, ent, done, ruse, tok, history>>

\* mythread_queue_list_see_for_done_by_thread. It matters only when the flag
\* read is STOP or QUIT, and then the owner waits for this worker: its reads
\* are one step.
see_for_done_by_thread(w) == \A e \in Trees : alive[e] => use[e][w] >= uses[e]

See(w) ==
  LET obey == done[w] = count /\ see_for_done_by_thread(w) IN
  /\ Move(w, "see", IF obey /\ wopt[w] = "STOP" THEN "stop"
                    ELSE IF obey /\ wopt[w] = "QUIT" THEN "close" ELSE "top")
  /\ wopt' = [wopt EXCEPT ![w] = "UNDEF"]
  /\ UNCHANGED <<shared, ent, done, ruse, tok, history>>

WorkerQueue(w) ==
  First(w) \/ Scan(w) \/ Compare(w) \/ Deref(w) \/ Bump(w) \/ NextEntry(w)
    \/ Check(w) \/ ReadOpt(w) \/ See(w)

-----------------------------------------------------------------------------
ListTypeOK ==
  /\ first \in Trees \cup {NULL} /\ last \in Trees \cup {NULL}
  /\ nxt \in [Trees -> Trees \cup {NULL}] /\ prv \in [Trees -> Trees \cup {NULL}]
  /\ count \in Int

QueueTypeOK ==
  /\ alive \in [Trees -> BOOLEAN]
  /\ uses \in [Trees -> Nat] /\ len \in [Trees -> Nat]
  /\ use \in [Trees -> [Workers -> Nat]]
  /\ node \in [Trees -> [Slots -> Token]]
  /\ cur \in Trees \cup {NULL}
  /\ published \in [Trees -> Nat]
  /\ handled \in [Trees -> [Workers -> Seq(Nat)]]

LocalsTypeOK ==
  /\ ent \in [Workers -> Trees \cup {NULL}]
  /\ done \in [Workers -> Nat] /\ ruse \in [Workers -> Nat]
  /\ wopt \in [Workers -> Opts] /\ tok \in [Workers -> Token]
===============================================================================
