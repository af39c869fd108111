----------------------------- MODULE MyHTMLProofs -----------------------------
(***************************************************************************)
(* Proofs about MyHTML, by the invariants IndInv and PipeInv of MyHTMLInv, *)
(* in the order of their parts, and that MyHTML implements TokenPipeline.  *)
(* Each part has a lemma for the initial state and one for the steps;      *)
(* long ones are split into the owner's and the workers' steps.            *)
(*                                                                         *)
(*   TypeInv       types, the owner's program, the workers' cursors        *)
(*   HandshakeInv  flags, mutexes and positions agree                      *)
(*   ListInv       the list of queues is doubly linked and closed          *)
(*   SuspendInv    which group the owner has suspended, at each label      *)
(*   QuietInv      who is parked when the last tree has been closed        *)
(*   EntInv, UseInv, CleanInv, ObeyInv, FreshInv                           *)
(*                 the workers' entries and counters                       *)
(*   AcyclicInv    the list has no cycle                                   *)
(*   UnlinkedInv   an entry off the list is not reachable, so a tree is    *)
(*                 open exactly while its entry is on the list             *)
(*   TokenInv      what the nodes hold and what each worker has handled,   *)
(*                 by the counters of the queue                            *)
(*                                                                         *)
(* The first five and AcyclicInv hold for every number of batch threads,   *)
(* trees, nodes and tokens. The others are proved for K = 1, one batch     *)
(* thread: with more, the counters do not survive a round and a worker may *)
(* be taken for suspended when it is not (the runs stagger and stale).     *)
(***************************************************************************)
EXTENDS MyHTMLInv, FiniteSetTheorems, TLAPS

\* The initial state satisfies the type invariant.
LEMMA TypeInit == Init => TypeInv
<1> SUFFICES ASSUME Init PROVE TypeInv
  OBVIOUS
<1> USE DEF Init, MyThreadInit, ThreadQueueInit
<1>1. MyThreadTypeOK
  BY KAssumption DEF MyThreadTypeOK, WorkerLabels, OwnerLabels, Calls, Workers, Groups, Opts
<1>2. ListTypeOK /\ QueueTypeOK /\ LocalsTypeOK
  BY NodesSizeAssumption DEF ListTypeOK, QueueTypeOK, LocalsTypeOK, Token, NoToken, Slots, Opts
<1>3. CallInv /\ CursorInv
  BY DEF CallInv, CursorInv, Scanning, Suspending, Resuming, Queueing
<1> QED
  BY <1>1, <1>2, <1>3, MyHTMLBounds DEF TypeInv, TypeOK

\* The handshake moves flags, mutexes and the owner only.
LEMMA TypeHandshake ==
  ASSUME TypeInv, Handshake PROVE TypeInv'
<1> USE KAssumption DEF TypeInv, Handshake
<1>1. MyThreadTypeOK' /\ CallInv'
  <2> USE DEF TypeOK, MyThreadTypeOK, CallInv, queue, tree, thr, Goto, Enter, Return,
        Report, Workers, Groups, Group, Opts, OwnerLabels, Calls,
        Suspending, Resuming, Queueing
  <2>1. CASE SuspendOpt
    BY <2>1 DEF SuspendOpt, Suspended
  <2>2. CASE SuspendWait
    BY <2>2 DEF SuspendWait, SuspendNext, Suspended, IsLast
  <2>3. CASE ResumeOpt
    BY <2>3 DEF ResumeOpt, Resumed, FirstOf, Send
  <2>4. CASE ResumeCtx
    <3>1. CASE ctxOpt[mi] = "STOP"
      BY <2>4, <3>1 DEF ResumeCtx, Send
    <3>2. CASE ctxOpt[mi] # "STOP"
      BY <2>4, <3>2 DEF ResumeCtx, ResumeNext, Resumed, IsLast, FirstOf
    <3> QED
      BY <3>1, <3>2
  <2>5. CASE ResumePost
    BY <2>5 DEF ResumePost, ResumeNext, Resumed, IsLast, FirstOf
  <2>6. CASE StopOpt
    BY <2>6 DEF StopOpt
  <2>7. CASE StopWait
    BY <2>7 DEF StopWait, IsLast
  <2>8. CASE QuitOpt
    BY <2>8 DEF QuitOpt
  <2>9. CASE QuitWait
    BY <2>9 DEF QuitWait
  <2>10. CASE Join
    BY <2>10 DEF Join, IsLast
  <2> QED
    BY <2>1, <2>2, <2>3, <2>4, <2>5, <2>6, <2>7, <2>8, <2>9, <2>10 DEF OwnerHandshake
<1>2. wpc' = wpc
  BY DEF OwnerHandshake, SuspendOpt, SuspendWait, ResumeOpt, ResumeCtx, ResumePost,
     StopOpt, StopWait, QuitOpt, QuitWait, Join
<1>3. ListTypeOK' /\ QueueTypeOK' /\ LocalsTypeOK' /\ CursorInv'
  BY <1>2 DEF TypeOK, ListTypeOK, QueueTypeOK, LocalsTypeOK, CursorInv, list, queue, locals, history
<1> QED
  BY <1>1, <1>3 DEF TypeOK, tree

\* The owner's operations on the list and on a queue.
LEMMA TypeQueueOp ==
  ASSUME TypeInv, QueueOp PROVE TypeInv'
<1> USE KAssumption, NodesSizeAssumption
    DEF TypeInv, TypeOK, QueueOp, OwnerQueue, MyThreadTypeOK, Goto, Enter, Return, Workers, thr
<1>1. MyThreadTypeOK'
  BY DEF Link, CountUp, Unlink, CountDown, FreeEntry, Publish, RoundWait, EntryDone,
     CleanUses, CleanUse, OwnerLabels, Calls
<1>2. ListTypeOK'
  <2> USE DEF ListTypeOK
  <2>1. CASE Link
    <3>1. cur \in Trees
      BY <2>1 DEF Link, CallInv
    <3>2. UNCHANGED count
      BY <2>1 DEF Link
    <3> QED
      BY <2>1, <3>1, <3>2 DEF Link
  <2>2. CASE Unlink
    <3>1. cur \in Trees
      BY <2>2 DEF Unlink, CallInv
    <3> QED
      BY <2>2, <3>1 DEF Unlink
  <2>3. CASE FreeEntry
    BY <2>3 DEF FreeEntry
  <2>4. CASE CountUp \/ CountDown \/ Publish \/ RoundWait \/ CleanUses \/ CleanUse
    BY <2>4 DEF CountUp, CountDown, Publish, RoundWait, EntryDone, CleanUses, CleanUse, list
  <2> QED
    BY <2>1, <2>2, <2>3, <2>4
<1>3. QueueTypeOK'
  <2> USE DEF QueueTypeOK
  <2>1. CASE FreeEntry
    BY <2>1 DEF FreeEntry, history
  <2>2. CASE Publish
    <3>1. cur \in Trees
      BY <2>2 DEF Publish, CallInv, Queueing
    <3> HIDE DEF TypeInv, TypeOK, QueueOp, OwnerQueue
    <3>2. len \in [Trees -> Nat] /\ uses \in [Trees -> Nat] /\ published \in [Trees -> Nat]
      BY DEF TypeInv, TypeOK
    <3> HIDE DEF QueueTypeOK
    <3>3. len' \in [Trees -> Nat] /\ uses' \in [Trees -> Nat] /\ published' \in [Trees -> Nat]
      BY <2>2, <3>1, <3>2 DEF Publish
    <3>4. UNCHANGED <<alive, use, node, cur, handled>>
      BY <2>2 DEF Publish
    <3> QED
      BY <3>3, <3>4 DEF TypeInv, TypeOK, QueueTypeOK
  <2>3. CASE CleanUses
    BY <2>3 DEF CleanUses, history
  <2>4. CASE CleanUse
    BY <2>4 DEF CleanUse, history
  <2>5. CASE Link \/ CountUp \/ Unlink \/ CountDown \/ RoundWait
    BY <2>5 DEF Link, CountUp, Unlink, CountDown, RoundWait, EntryDone, queue, history
  <2> QED
    BY <2>1, <2>2, <2>3, <2>4, <2>5
<1>4. LocalsTypeOK' /\ CursorInv'
  BY DEF Link, CountUp, Unlink, CountDown, FreeEntry, Publish, RoundWait, EntryDone,
     CleanUses, CleanUse, locals, LocalsTypeOK, CursorInv
<1>5. CallInv'
  BY DEF Link, CountUp, Unlink, CountDown, FreeEntry, Publish, RoundWait, EntryDone,
     CleanUses, CleanUse, queue, tree, QueueTypeOK, CallInv, Queueing, Suspending, Resuming
<1> QED
  BY <1>1, <1>2, <1>3, <1>4, <1>5 DEF tree

\* The calls of the application and the waits of the parser.
LEMMA TypeCalls ==
  ASSUME TypeInv,
         (\E e \in Trees : Open(e) \/ Chunk(e) \/ End(e))
           \/ (\E e \in Trees, kind \in Kinds \ {"eof"} : AddToken(e, kind))
           \/ Queued \/ NsWait \/ EndWait \/ Destroy
  PROVE  TypeInv'
<1> USE KAssumption DEF TypeInv, TypeOK, MyThreadTypeOK, Goto, Enter, Return, Workers, thr
<1>1. ASSUME NEW e \in Trees, Open(e) PROVE TypeInv'
  <2> USE <1>1 DEF Open
  <2>1. MyThreadTypeOK' /\ ListTypeOK' /\ LocalsTypeOK' /\ CursorInv'
    <3>1. UNCHANGED <<thr, wpc, list, locals>> /\ Enter("push", "susp_opt")
      OBVIOUS
    <3> HIDE <1>1 DEF Open
    <3>2. MyThreadTypeOK' /\ CursorInv'
      BY <3>1 DEF OwnerLabels, Calls, locals, CursorInv
    <3> QED
      BY <3>1, <3>2 DEF list, locals, ListTypeOK, LocalsTypeOK
  <2>2. QueueTypeOK'
    <3>1. make_batch \in [Workers -> Nat]
      BY DEF make_batch
    <3>2. [w \in Workers |-> <<>>] \in [Workers -> Seq(Nat)]
      OBVIOUS
    <3> QED
      BY <3>1, <3>2 DEF QueueTypeOK
  <2>3. dn' \in [Trees -> SUBSET Nat] /\ lastDone' \in [Trees -> Nat] /\ pend' \in Kinds \cup {"none"}
    OBVIOUS
  <2>4. parses' \in [Trees -> 0 .. MaxParses] /\ chunks' \in [Trees -> 0 .. MaxChunks]
    BY MyHTMLBounds
  <2>5. CallInv'
    BY DEF CallInv, QueueTypeOK, Queueing, Suspending, Resuming
  <2> QED
    BY <2>1, <2>2, <2>3, <2>4, <2>5
<1>2. ASSUME NEW e \in Trees, Chunk(e) PROVE TypeInv'
  <2> USE <1>2 DEF Chunk
  <2>1. MyThreadTypeOK' /\ ListTypeOK' /\ QueueTypeOK' /\ LocalsTypeOK' /\ CursorInv'
    <3>1. UNCHANGED <<thr, wpc, list, queue, locals, history>> /\ Enter("post", "res_opt")
      OBVIOUS
    <3> HIDE <1>2 DEF Chunk
    <3>2. MyThreadTypeOK' /\ CursorInv'
      BY <3>1 DEF OwnerLabels, Calls, locals, CursorInv
    <3> QED
      BY <3>1, <3>2 DEF list, queue, history, locals, ListTypeOK, QueueTypeOK, LocalsTypeOK
  <2>2. chunks' \in [Trees -> 0 .. MaxChunks]
    BY MyHTMLBounds
  <2>3. CallInv'
    BY DEF CallInv, Queueing, Suspending, Resuming
  <2> QED
    BY <2>1, <2>2, <2>3
<1>3. ASSUME NEW e \in Trees, NEW kind \in Kinds, Add(e, kind) PROVE TypeInv'
  <2> USE <1>3 DEF Add
  <2>1. MyThreadTypeOK' /\ ListTypeOK' /\ LocalsTypeOK' /\ CursorInv'
    <3>1. UNCHANGED <<thr, wpc, list, locals>> /\ mpc' = "publish" /\ mi' = 0
            /\ call' \in {"delete", "none"}
      OBVIOUS
    <3> HIDE <1>3 DEF Add
    <3>2. MyThreadTypeOK'
      BY <3>1 DEF OwnerLabels, Calls
    <3>3. ListTypeOK' /\ LocalsTypeOK'
      BY <3>1 DEF list, locals, ListTypeOK, LocalsTypeOK
    <3>4. CursorInv'
      BY <3>1 DEF locals, CursorInv
    <3> QED
      BY <3>2, <3>3, <3>4
  <2>2. [no |-> published[e] + 1, kind |-> kind] \in Token
    <3> HIDE <1>3 DEF Add
    <3>1. published \in [Trees -> Nat]
      BY DEF QueueTypeOK
    <3> QED
      BY <3>1 DEF Token
  <2>3. QueueTypeOK'
    BY <2>2 DEF QueueTypeOK, history
  <2>4. CallInv'
    BY KindsAssumption DEF CallInv, Queueing, Suspending, Resuming
  <2> QED
    BY <2>1, <2>3, <2>4
<1>4. CASE Queued \/ NsWait \/ EndWait \/ Destroy
  <2> USE <1>4 DEF Queued, NsWait, EndWait, EntryDone, Destroy
  <2>1. MyThreadTypeOK'
    BY DEF OwnerLabels, Calls
  <2>2. ListTypeOK' /\ QueueTypeOK' /\ LocalsTypeOK' /\ CursorInv'
    BY DEF list, queue, history, locals, ListTypeOK, QueueTypeOK, LocalsTypeOK, CursorInv
  <2>3. CallInv'
    BY DEF CallInv, queue, tree, Queueing, Suspending, Resuming
  <2> QED
    BY <2>1, <2>2, <2>3 DEF tree
<1> QED
  BY <1>1, <1>2, <1>3, <1>4, MyHTMLKinds DEF End, AddToken

\* A worker's side of the handshake.
LEMMA TypeObey ==
  ASSUME TypeInv, NEW w \in Workers, Obey(w) PROVE TypeInv'
<1> USE DEF TypeInv, Obey
<1>1. MyThreadTypeOK' /\ CursorInv'
  <2>1. MyThreadTypeOK /\ CursorInv /\ UNCHANGED <<mpc, call, mi, ent>> /\ WorkerHandshake(w)
    BY DEF TypeOK, ctl, locals
  <2> HIDE DEF TypeInv, Obey
  <2> QED
    BY <2>1 DEF MyThreadTypeOK, CursorInv, Scanning, WorkerHandshake, Start, Top, ReportWait, Spin, Unwait,
       ReportStop, Woken, Unstop, CloseMutex, ReportQuit, Acquire, Move, Report, WorkerLabels, Opts, thr
<1>2. ListTypeOK' /\ QueueTypeOK' /\ LocalsTypeOK' /\ CallInv'
  BY DEF TypeOK, ListTypeOK, QueueTypeOK, LocalsTypeOK, CallInv, ctl, list, queue, locals, history, tree
<1> QED
  BY <1>1, <1>2 DEF TypeOK, tree

\* A worker's loop over the list. It reads an entry's fields at labels where,
\* by CursorInv, it stands on an entry.
LEMMA TypeLoop ==
  ASSUME TypeInv, NEW w \in Workers, Loop(w) PROVE TypeInv'
<1>1. TypeOK /\ CallInv /\ CursorInv /\ WorkerQueue(w) /\ UNCHANGED tree
  BY DEF TypeInv, Loop
<1>2. UNCHANGED <<thr, ctl, list, alive, uses, len, node, cur, history>>
  BY <1>1 DEF WorkerQueue, First, Scan, Compare, Deref, Bump, NextEntry, Check, ReadOpt, See, shared, queue
<1>3. wpc' \in [Workers -> WorkerLabels] /\ CursorInv'
  <2>1. wpc \in [Workers -> WorkerLabels] /\ ent \in [Workers -> Trees \cup {NULL}]
    BY <1>1 DEF TypeOK, MyThreadTypeOK, LocalsTypeOK
  <2> QED
    BY <1>1, <2>1 DEF CursorInv, Scanning, WorkerLabels, WorkerQueue, First, Scan, Compare, Deref, Bump,
       NextEntry, Check, ReadOpt, See, Move, locals
<1>4. MyThreadTypeOK' /\ ListTypeOK' /\ CallInv'
  BY <1>1, <1>2, <1>3 DEF TypeOK, MyThreadTypeOK, ListTypeOK, CallInv, thr, ctl, list, tree
<1>5. use' \in [Trees -> [Workers -> Nat]]
  <2>1. use \in [Trees -> [Workers -> Nat]] /\ Stride(w) \in Nat
    BY <1>1, KAssumption DEF TypeOK, QueueTypeOK, Stride
  <2>2. use' = use \/ use' = [use EXCEPT ![ent[w]][w] = @ + Stride(w)]
    BY <1>1 DEF WorkerQueue, First, Scan, Compare, Deref, Bump, NextEntry, Check, ReadOpt, See, shared, queue
  <2> QED
    BY <2>1, <2>2
<1>6. QueueTypeOK'
  BY <1>1, <1>2, <1>5 DEF TypeOK, QueueTypeOK, history
<1>7. LocalsTypeOK'
  <2>1. LocalsTypeOK /\ ListTypeOK /\ QueueTypeOK /\ opt \in [Groups -> Opts]
          /\ wpc \in [Workers -> WorkerLabels] /\ CursorInv
    BY <1>1 DEF TypeOK, MyThreadTypeOK
  <2>2. CASE First(w)
    BY <2>1, <2>2 DEF First, LocalsTypeOK, ListTypeOK
  <2>3. CASE Scan(w)
    <3>1. ent[w] # NULL => use[ent[w]][w] \in Nat
      BY <2>1 DEF LocalsTypeOK, QueueTypeOK
    <3> QED
      BY <2>1, <2>3, <3>1 DEF Scan, LocalsTypeOK
  <2>4. CASE Compare(w)
    BY <2>1, <2>4 DEF Compare, LocalsTypeOK
  <2>5. CASE Deref(w)
    <3>1. ent[w] \in Trees
      BY <2>1, <2>5 DEF Deref, Move, CursorInv, Scanning, LocalsTypeOK
    <3>2. use[ent[w]][w] % NodesSize \in Slots
      BY <2>1, <3>1, NodesSizeAssumption DEF QueueTypeOK, Slots
    <3>3. node[ent[w]][use[ent[w]][w] % NodesSize] \in Token
      BY <2>1, <3>1, <3>2 DEF QueueTypeOK
    <3> QED
      BY <2>1, <2>5, <3>3 DEF Deref, LocalsTypeOK
  <2>6. CASE NextEntry(w)
    <3>1. nxt[ent[w]] \in Trees \cup {NULL}
      BY <2>1, <2>6 DEF NextEntry, Move, CursorInv, Scanning, LocalsTypeOK, ListTypeOK
    <3> QED
      BY <2>1, <2>6, <3>1 DEF NextEntry, LocalsTypeOK
  <2>7. CASE ReadOpt(w)
    BY <2>1, <2>7 DEF ReadOpt, LocalsTypeOK, Group, Groups
  <2>8. CASE See(w)
    BY <2>1, <2>8 DEF See, LocalsTypeOK, Opts
  <2>9. CASE Bump(w) \/ Check(w)
    BY <2>1, <2>9 DEF Bump, Check, locals, LocalsTypeOK
  <2> QED
    BY <1>1, <2>2, <2>3, <2>4, <2>5, <2>6, <2>7, <2>8, <2>9 DEF WorkerQueue
<1> QED
  BY <1>1, <1>4, <1>6, <1>7, <1>3 DEF TypeInv, TypeOK, tree

\* A worker handles a token.
LEMMA TypeHandle ==
  ASSUME TypeInv, NEW w \in Workers, parser_stream(w) \/ parser_worker(w) PROVE TypeInv'
<1>1. TypeOK /\ CallInv /\ CursorInv /\ Handle(w)
  BY DEF TypeInv, parser_stream, parser_worker
<1>2. UNCHANGED <<thr, ctl, list, alive, uses, len, use, node, cur, published, pend, parses, chunks, ent, done, ruse, wopt>>
  BY <1>1 DEF Handle, queue
<1>3. tok[w].no \in Nat
  BY <1>1 DEF TypeOK, LocalsTypeOK, Token
<1>4. wpc' \in [Workers -> WorkerLabels] /\ CursorInv'
  <2>1. wpc \in [Workers -> WorkerLabels]
    BY <1>1 DEF TypeOK, MyThreadTypeOK
  <2> QED
    BY <1>1, <1>2, <2>1 DEF Handle, Move, WorkerLabels, CursorInv, Scanning
<1>5. MyThreadTypeOK' /\ ListTypeOK' /\ CallInv'
  BY <1>1, <1>2, <1>4 DEF TypeOK, MyThreadTypeOK, ListTypeOK, CallInv, thr, ctl, list
<1>6. handled' \in [Trees -> [Workers -> Seq(Nat)]]
  <2>1. handled \in [Trees -> [Workers -> Seq(Nat)]]
    BY <1>1 DEF TypeOK, QueueTypeOK
  <2>2. handled' = [handled EXCEPT ![ent[w]][w] = Append(@, tok[w].no)]
    BY <1>1 DEF Handle
  <2>3. ent[w] \in Trees
    BY <1>1 DEF TypeOK, LocalsTypeOK, CursorInv, Scanning, Handle, Move
  <2>4. Append(handled[ent[w]][w], tok[w].no) \in Seq(Nat)
    BY <1>3, <2>1, <2>3
  <2>5. [handled[ent[w]] EXCEPT ![w] = Append(@, tok[w].no)] \in [Workers -> Seq(Nat)]
    BY <2>1, <2>3, <2>4
  <2> QED
    BY <2>1, <2>2, <2>3, <2>5
<1>7. QueueTypeOK'
  BY <1>1, <1>2, <1>6 DEF TypeOK, QueueTypeOK
<1>8. LocalsTypeOK'
  <2>1. LocalsTypeOK /\ tok' = [tok EXCEPT ![w] = NoToken] /\ NoToken \in Token
    BY <1>1 DEF TypeOK, Handle, NoToken, Token
  <2> QED
    BY <1>2, <2>1 DEF LocalsTypeOK
<1>9. dn' \in [Trees -> SUBSET Nat] /\ lastDone' \in [Trees -> Nat]
  BY <1>1, <1>3 DEF TypeOK, parser_stream, parser_worker
<1> QED
  BY <1>1, <1>2, <1>4, <1>5, <1>7, <1>8, <1>9 DEF TypeInv, TypeOK

\* Every step preserves the type invariant.
LEMMA TypeStep ==
  ASSUME TypeInv, [Next]_vars PROVE TypeInv'
<1>1. CASE UNCHANGED vars
  <2> USE <1>1 DEF TypeInv, vars
  <2>1. MyThreadTypeOK' /\ ListTypeOK'
    BY DEF TypeOK, MyThreadTypeOK, ListTypeOK, thr, ctl, list
  <2>2. QueueTypeOK' /\ LocalsTypeOK'
    BY DEF TypeOK, QueueTypeOK, LocalsTypeOK, queue, locals, history
  <2>3. CallInv' /\ CursorInv'
    BY DEF CallInv, CursorInv, ctl, queue, locals, tree
  <2> QED
    BY <2>1, <2>2, <2>3 DEF TypeOK, tree
<1> QED
  BY <1>1, TypeHandshake, TypeQueueOp, TypeCalls, TypeObey, TypeLoop, TypeHandle
  DEF Next, Owner, Worker, Finished

\* The type invariant with what it rests on: the call that the owner executes at
\* each of its labels, and that a worker in its loop stands on an entry.
THEOREM TypeInvariant == Spec => []TypeInv
  BY TypeInit, TypeStep, PTL DEF Spec

\* The variables of every component keep their types, for every number of batch
\* threads, trees, nodes and tokens: no index, link or counter of the handshake,
\* the list and the queues leaves its range.
THEOREM TypeCorrect == Spec => []TypeOK
  BY TypeInvariant, PTL DEF TypeInv

-----------------------------------------------------------------------------
(* The handshake, for any number of batch threads. *)

\* At first every worker sleeps on a locked mutex and reports STOP.
LEMMA HandshakeInit == Init => HandshakeInv
  BY DEF Init, MyThreadInit, HandshakeInv, PostInv, AsleepInv, AwakeInv

\* The owner's part of the handshake. Only ResumeCtx and ResumePost touch what
\* the workers wait for.
LEMMA HandshakeOwner ==
  ASSUME MyThreadTypeOK, HandshakeInv, OwnerHandshake PROVE HandshakeInv'
<1> USE DEF MyThreadTypeOK, HandshakeInv, PostInv, AsleepInv, AwakeInv
<1>1. CASE ResumeCtx
  <2>1. CASE ctxOpt[mi] = "STOP"
    <3>1. /\ ctxOpt' = [ctxOpt EXCEPT ![mi] = Send] /\ Send \in {"UNDEF", "QUIT"}
          /\ mpc' = "res_post" /\ mi' = mi /\ UNCHANGED <<opt, mutex, wpc>>
      BY <1>1, <2>1 DEF ResumeCtx, Report, Goto, Send
    <3>2. wpc[mi] \in {"start", "lock"} /\ mutex[mi] = "locked"
      BY <2>1
    <3> QED
      BY <3>1, <3>2
  <2>2. CASE ctxOpt[mi] # "STOP"
    <3>1. UNCHANGED <<opt, mutex, wpc, ctxOpt>> /\ mpc = "res_ctx" /\ mpc' # "res_post"
      BY <1>1, <2>2 DEF ResumeCtx, ResumeNext, Resumed, Goto, Enter, Return
    <3> QED
      BY <3>1
  <2> QED
    BY <2>1, <2>2
<1>2. CASE ResumePost
  <2>1. /\ mpc = "res_post" /\ mutex' = [mutex EXCEPT ![mi] = "unlocked"]
        /\ mpc' # "res_post" /\ UNCHANGED <<opt, ctxOpt, wpc>>
    BY <1>2 DEF ResumePost, ResumeNext, Resumed, Goto, Enter, Return
  <2>2. wpc[mi] \in {"start", "lock"} /\ ctxOpt[mi] \in {"UNDEF", "QUIT"}
    BY <2>1
  <2> QED
    BY <2>1, <2>2
<1>3. CASE SuspendOpt \/ SuspendWait \/ ResumeOpt \/ StopOpt \/ StopWait \/ QuitOpt \/ QuitWait \/ Join
  <2>1. UNCHANGED <<ctxOpt, mutex, wpc>> /\ mpc # "res_post" /\ mpc' # "res_post"
    BY <1>3 DEF SuspendOpt, SuspendWait, SuspendNext, Suspended, ResumeOpt, Resumed, StopOpt,
       StopWait, QuitOpt, QuitWait, Join, Goto, Enter, Return, thr
  <2> QED
    BY <2>1
<1> QED
  BY <1>1, <1>2, <1>3 DEF OwnerHandshake

\* A worker's part: it moves when it is awake or its mutex is unlocked, and by
\* PostInv no post is under way for it then.
LEMMA HandshakeWorker ==
  ASSUME MyThreadTypeOK, HandshakeInv, NEW w \in Workers,
         WorkerHandshake(w), UNCHANGED ctl
  PROVE  HandshakeInv'
<1> USE DEF MyThreadTypeOK, HandshakeInv, PostInv, AsleepInv, AwakeInv, Move, Report, ctl
<1>1. CASE Start(w) \/ Woken(w)
  <2>1. /\ wpc[w] \in {"start", "lock"} /\ mutex[w] = "unlocked"
        /\ wpc' = [wpc EXCEPT ![w] = "top"] \/ wpc' = [wpc EXCEPT ![w] = "unstop"]
        /\ mutex' = [mutex EXCEPT ![w] = "locked"] /\ UNCHANGED <<opt, ctxOpt>>
    BY <1>1 DEF Start, Woken, Acquire
  <2> QED
    BY <2>1
<1>2. CASE Top(w)
  BY <1>2 DEF Top, thr
<1>3. CASE ReportWait(w)
  BY <1>3 DEF ReportWait
<1>4. CASE Spin(w)
  BY <1>4 DEF Spin, thr
<1>5. CASE Unwait(w)
  BY <1>5 DEF Unwait
<1>6. CASE ReportStop(w)
  BY <1>6 DEF ReportStop
<1>7. CASE Unstop(w)
  BY <1>7 DEF Unstop
<1>8. CASE CloseMutex(w)
  BY <1>8 DEF CloseMutex
<1>9. CASE ReportQuit(w)
  BY <1>9 DEF ReportQuit
<1> QED
  BY <1>1, <1>2, <1>3, <1>4, <1>5, <1>6, <1>7, <1>8, <1>9 DEF WorkerHandshake

LoopLabels == {"first", "scan", "cmp", "deref", "work", "bump", "next", "check", "readopt", "see"}

\* Where a worker goes in its loop over the list.
LEMMA LoopMoves ==
  ASSUME NEW w \in Workers, Loop(w) \/ parser_stream(w) \/ parser_worker(w)
  PROVE  /\ wpc[w] \in LoopLabels
         /\ \E l \in LoopLabels \cup {"top", "stop", "close"} : wpc' = [wpc EXCEPT ![w] = l]
<1> USE DEF Move, LoopLabels
<1>1. CASE First(w) \/ Deref(w) \/ Bump(w) \/ NextEntry(w) \/ ReadOpt(w)
  BY <1>1 DEF First, Deref, Bump, NextEntry, ReadOpt
<1>2. CASE Scan(w)
  BY <1>2 DEF Scan
<1>3. CASE Compare(w)
  BY <1>3 DEF Compare
<1>4. CASE Check(w)
  BY <1>4 DEF Check
<1>5. CASE See(w)
  BY <1>5 DEF See
<1>6. CASE parser_stream(w) \/ parser_worker(w)
  BY <1>6 DEF parser_stream, parser_worker, Handle
<1> QED
  BY <1>1, <1>2, <1>3, <1>4, <1>5, <1>6 DEF Loop, WorkerQueue

\* Every other step of the owner leaves flags, mutexes and workers alone, at
\* labels outside the wake-up; every other step of a worker happens awake.
LEMMA HandshakeElsewhere ==
  ASSUME MyThreadTypeOK, HandshakeInv,
         \/ QueueOp
         \/ \E e \in Trees : Open(e) \/ Chunk(e) \/ End(e)
         \/ \E e \in Trees, kind \in Kinds \ {"eof"} : AddToken(e, kind)
         \/ Queued \/ NsWait \/ EndWait \/ Destroy
         \/ \E w \in Workers : Loop(w) \/ parser_stream(w) \/ parser_worker(w)
  PROVE  HandshakeInv'
<1> USE DEF MyThreadTypeOK, HandshakeInv, PostInv, AsleepInv, AwakeInv
<1>1. CASE QueueOp
  <2>1. UNCHANGED <<ctxOpt, mutex, wpc>> /\ mpc # "res_post" /\ mpc' # "res_post"
    BY <1>1 DEF QueueOp, OwnerQueue, Link, CountUp, Unlink, CountDown, FreeEntry, Publish, RoundWait,
       EntryDone, CleanUses, CleanUse, Goto, Enter, Return, thr
  <2> QED
    BY <2>1
<1>2. CASE \/ \E e \in Trees : Open(e) \/ Chunk(e) \/ End(e)
           \/ \E e \in Trees, kind \in Kinds \ {"eof"} : AddToken(e, kind)
           \/ Queued \/ NsWait \/ EndWait \/ Destroy
  <2>1. UNCHANGED <<ctxOpt, mutex, wpc>> /\ mpc # "res_post" /\ mpc' # "res_post"
    BY <1>2 DEF Open, Chunk, End, AddToken, Add, Queued, NsWait, EndWait, EntryDone, Destroy,
       Goto, Enter, Return, thr
  <2> QED
    BY <2>1
<1>3. ASSUME NEW w \in Workers, Loop(w) \/ parser_stream(w) \/ parser_worker(w)
      PROVE  HandshakeInv'
  <2>1. UNCHANGED <<ctxOpt, mutex, mpc, mi>>
    BY <1>3 DEF Loop, WorkerQueue, First, Scan, Compare, Deref, Bump, NextEntry, Check, ReadOpt, See,
       shared, thr, ctl, parser_stream, parser_worker, Handle
  <2>2. PICK l \in LoopLabels \cup {"top", "stop", "close"} : wpc' = [wpc EXCEPT ![w] = l]
    BY <1>3, LoopMoves
  <2>3. wpc[w] \in LoopLabels
    BY <1>3, LoopMoves
  <2> QED
    BY <2>1, <2>2, <2>3 DEF LoopLabels
<1> QED
  BY <1>1, <1>2, <1>3

\* Every step preserves the agreement of flags, mutexes and positions.
LEMMA HandshakeStep ==
  ASSUME TypeInv, HandshakeInv, [Next]_vars PROVE HandshakeInv'
<1>1. MyThreadTypeOK
  BY DEF TypeInv, TypeOK
<1>2. CASE UNCHANGED vars
  BY <1>2 DEF vars, thr, ctl, HandshakeInv, PostInv, AsleepInv, AwakeInv
<1>3. CASE Next
  BY <1>1, <1>2, <1>3, HandshakeOwner, HandshakeWorker, HandshakeElsewhere
  DEF Next, Owner, Worker, Handshake, Obey, Finished
<1> QED
  BY <1>2, <1>3

\* What a worker reports, the state of its mutex and its place in the loop of
\* thread_queue.c agree at every moment: a sleeping worker reports STOP on a
\* locked mutex or is being woken, a running one holds its mutex.
THEOREM HandshakeInvariant == Spec => []HandshakeInv
  BY TypeInvariant, HandshakeInit, HandshakeStep, PTL DEF Spec

\* A mutex is posted only while it is locked and its worker waits for it, no
\* worker waits for a closed mutex, and none is closed before its last post, for
\* every number of batch threads and every use of the library that the model
\* covers.
THEOREM MutexDisciplineHolds == Spec => []MutexDiscipline
<1>1. TypeInv /\ HandshakeInv => MutexDiscipline
  BY DEF TypeInv, TypeOK, MyThreadTypeOK, HandshakeInv, PostInv, AsleepInv, AwakeInv, MutexDiscipline
<1> QED
  BY <1>1, TypeInvariant, HandshakeInvariant, PTL

-----------------------------------------------------------------------------
(* The list, for any number of batch threads. *)

\* The list is empty at first.
LEMMA ListInit == Init => ListInv
  BY DEF Init, ThreadQueueInit, MyThreadInit, ListInv, In

\* The new entry is appended: it was on no list and nothing pointed to it.
LEMMA ListLink ==
  ASSUME TypeInv, ListInv, Link PROVE ListInv'
<1>1. ListTypeOK /\ call = "push" /\ cur \in Trees /\ alive[cur]
  BY DEF TypeInv, TypeOK, CallInv, Link
<1>2. /\ mpc = "link" /\ mpc' = "count" /\ call' = "push"
      /\ UNCHANGED <<alive, cur>> /\ last' = cur
  BY <1>1 DEF Link, Goto, queue
<1>3. ~In(cur) /\ nxt[cur] = NULL /\ prv[cur] = NULL
  BY <1>1, <1>2 DEF ListInv, In
<1>4. \A e \in Trees : In(e)' <=> (In(e) \/ e = cur)
  BY <1>1, <1>2 DEF In, Suspending
<1>5. CASE first = NULL
  <2>1. first' = cur /\ UNCHANGED <<nxt, prv>> /\ last = NULL
    BY <1>5 DEF Link, ListInv
  <2>2. \A e \in Trees : ~In(e) \/ nxt[e] # NULL
    BY <2>1, TreesAssumption DEF ListInv
  <2>3. \A e \in Trees : ~In(e) \/ prv[e] # NULL
    BY <1>5, TreesAssumption DEF ListInv
  <2> QED
    BY <1>1, <1>2, <1>3, <1>4, <2>1, <2>2, <2>3, TreesAssumption DEF ListInv, ListTypeOK, Suspending
<1>6. CASE first # NULL
  <2>1. last \in Trees /\ In(last) /\ nxt[last] = NULL /\ last # cur
    BY <1>3, <1>6 DEF ListInv
  <2>2. /\ nxt' = [nxt EXCEPT ![last] = cur] /\ prv' = [prv EXCEPT ![cur] = last]
        /\ first' = first
    BY <1>6 DEF Link
  <2>3. \A e \in Trees : In(e) => nxt[e] # cur /\ prv[e] # cur
    BY <1>1, <1>3, TreesAssumption DEF ListInv
  <2> QED
    BY <1>1, <1>2, <1>3, <1>4, <1>6, <2>1, <2>2, <2>3, TreesAssumption DEF ListInv, ListTypeOK, Suspending, In
<1> QED
  BY <1>5, <1>6

\* The entry is taken out: its neighbours, or the ends of the list, are joined.
LEMMA ListUnlink ==
  ASSUME TypeInv, ListInv, Unlink PROVE ListInv'
<1>1. ListTypeOK /\ call = "delete" /\ cur \in Trees /\ alive[cur]
  BY DEF TypeInv, TypeOK, CallInv, Unlink
<1>2. /\ mpc = "unlink" /\ mpc' = "uncount" /\ call' = "delete" /\ UNCHANGED <<alive, cur>>
      /\ nxt' = IF prv[cur] # NULL THEN [nxt EXCEPT ![prv[cur]] = nxt[cur]] ELSE nxt
      /\ prv' = IF nxt[cur] # NULL THEN [prv EXCEPT ![nxt[cur]] = prv[cur]] ELSE prv
      /\ first' = IF first = cur THEN nxt[cur] ELSE first
      /\ last' = IF last = cur THEN prv[cur] ELSE last
  BY <1>1 DEF Unlink, Goto, queue
<1>3. In(cur) /\ \A e \in Trees : In(e)' <=> (In(e) /\ e # cur)
  BY <1>1, <1>2 DEF In, Suspending, Resuming
<1>4. PICK n, p \in Trees \cup {NULL} : n = nxt[cur] /\ p = prv[cur]
  BY <1>1 DEF ListTypeOK
<1>5. /\ n = NULL \/ (In(n) /\ prv[n] = cur)
      /\ p = NULL \/ (In(p) /\ nxt[p] = cur)
      /\ n = NULL <=> last = cur
      /\ p = NULL <=> first = cur
  BY <1>1, <1>3, <1>4, TreesAssumption DEF ListInv
<1>6. \A e \in Trees :
        /\ nxt'[e] = IF e = p THEN n ELSE nxt[e]
        /\ prv'[e] = IF e = n THEN p ELSE prv[e]
  BY <1>1, <1>2, <1>4, TreesAssumption DEF ListTypeOK
<1>7. n # cur \/ p = cur
  BY <1>1, <1>3, <1>4, <1>5 DEF ListInv
<1>8. ASSUME NEW e \in Trees, In(e), e # cur
      PROVE  /\ nxt'[e] = NULL \/ (In(nxt'[e]) /\ nxt'[e] # cur /\ prv'[nxt'[e]] = e)
             /\ prv'[e] = NULL \/ (In(prv'[e]) /\ prv'[e] # cur /\ nxt'[prv'[e]] = e)
             /\ nxt'[e] = NULL => last' = e
             /\ prv'[e] = NULL => first' = e
  <2>1. /\ nxt[e] \in Trees \cup {NULL} /\ prv[e] \in Trees \cup {NULL}
        /\ nxt[e] = NULL \/ (In(nxt[e]) /\ prv[nxt[e]] = e)
        /\ prv[e] = NULL \/ (In(prv[e]) /\ nxt[prv[e]] = e)
        /\ nxt[e] = NULL => last = e
        /\ prv[e] = NULL => first = e
    BY <1>1, <1>8 DEF ListInv, ListTypeOK
  <2>2. CASE e = p
    BY <1>2, <1>4, <1>5, <1>6, <1>7, <1>8, <2>1, <2>2, TreesAssumption
  <2>3. CASE e # p
    BY <1>2, <1>4, <1>5, <1>6, <1>7, <1>8, <2>1, <2>3, TreesAssumption
  <2> QED
    BY <2>2, <2>3
<1>9. /\ first' = NULL \/ (first' \in Trees /\ In(first') /\ first' # cur /\ prv'[first'] = NULL)
      /\ last' = NULL \/ (last' \in Trees /\ In(last') /\ last' # cur /\ nxt'[last'] = NULL)
      /\ first' = NULL <=> last' = NULL
  <2>1. /\ first = NULL \/ (first \in Trees /\ In(first) /\ prv[first] = NULL)
        /\ last = NULL \/ (last \in Trees /\ In(last) /\ nxt[last] = NULL)
        /\ first = NULL <=> last = NULL
    BY DEF ListInv
  <2> QED
    BY <1>1, <1>2, <1>4, <1>5, <1>6, <1>7, <2>1, TreesAssumption
<1>10. \A e \in Trees : ~alive[e] => nxt'[e] = NULL /\ prv'[e] = NULL
  BY <1>1, <1>4, <1>5, <1>6, TreesAssumption DEF ListInv, In
<1> QED
  BY <1>1, <1>2, <1>3, <1>8, <1>9, <1>10 DEF ListInv, In, Suspending

\* The entry that is freed has been taken off the list.
LEMMA ListFree ==
  ASSUME TypeInv, ListInv, FreeEntry PROVE ListInv'
<1>1. /\ ListTypeOK /\ call = "delete" /\ cur \in Trees /\ mpc = "free" /\ cur' = NULL
      /\ UNCHANGED <<first, last>> /\ call' \in {"pause", "none"}
      /\ nxt' = [nxt EXCEPT ![cur] = NULL] /\ prv' = [prv EXCEPT ![cur] = NULL]
      /\ alive' = [alive EXCEPT ![cur] = FALSE] /\ alive \in [Trees -> BOOLEAN]
  BY DEF TypeInv, TypeOK, QueueTypeOK, CallInv, FreeEntry, Enter, Return
<1>2. \A e \in Trees : In(e) <=> (alive[e] /\ e # cur)
  BY <1>1 DEF In
<1>3. \A e \in Trees : In(e)' <=> (alive[e] /\ e # cur)
  BY <1>1 DEF In
<1> QED
  BY <1>1, <1>2, <1>3, TreesAssumption DEF ListInv, ListTypeOK, In

\* A tree's entry is allocated before it is on the list.
LEMMA ListOpen ==
  ASSUME TypeInv, ListInv, NEW t \in Trees, Open(t) PROVE ListInv'
<1>1. /\ ListTypeOK /\ call = "none" /\ mpc = "idle" /\ ~alive[t] /\ cur' = t
      /\ mpc' = "susp_opt" /\ call' = "push" /\ UNCHANGED <<first, last, nxt, prv>>
      /\ alive' = [alive EXCEPT ![t] = TRUE] /\ alive \in [Trees -> BOOLEAN]
  BY DEF TypeInv, TypeOK, QueueTypeOK, CallInv, Open, Enter, list
<1> QED
  BY <1>1, TreesAssumption DEF ListInv, ListTypeOK, In, Suspending

\* The step changes neither the list nor which entries are on it.
SameList ==
  /\ UNCHANGED <<first, last, nxt, prv, alive>>
  /\ \A e \in Trees : In(e)' <=> In(e)
  /\ call' = "push" /\ mpc' \in Suspending \cup {"link"} =>
       call = "push" /\ mpc \in Suspending \cup {"link"} /\ cur' = cur

\* Every step but the four above is of this kind.
LEMMA ListSame ==
  ASSUME TypeInv, [Next]_vars
  PROVE  Link \/ Unlink \/ FreeEntry \/ (\E e \in Trees : Open(e)) \/ SameList
<1>1. CallInv
  BY DEF TypeInv
<1> USE DEF SameList
<1>3. ASSUME Handshake PROVE SameList
  <2>1. UNCHANGED <<first, last, nxt, prv, alive, cur>>
    BY <1>3 DEF Handshake, list, queue
  <2>2. CASE SuspendOpt \/ SuspendWait
    <3>1. /\ mpc \in Suspending /\ call' = call
          /\ mpc' \in Suspending \/ mpc' = IF call = "push" THEN "link" ELSE "unlink"
      BY <2>2 DEF SuspendOpt, SuspendWait, SuspendNext, Suspended, Goto, Suspending
    <3> QED
      BY <1>1, <2>1, <3>1 DEF CallInv, In, Suspending, Resuming
  <2>3. CASE ResumeOpt \/ ResumeCtx \/ ResumePost
    <3>1. /\ mpc \in Resuming
          /\ call' # "push" \/ (call' = call /\ mpc' \in Resuming)
          /\ call = "delete" => call' = call /\ mpc' \in Resuming \cup {"free"}
          /\ call' = "delete" => call = "delete"
      BY <2>3 DEF ResumeOpt, ResumeCtx, ResumePost, ResumeNext, Resumed, Goto, Enter, Return, Resuming
    <3> QED
      BY <1>1, <2>1, <3>1 DEF CallInv, In, Suspending, Resuming
  <2>4. CASE StopOpt \/ StopWait \/ QuitOpt \/ QuitWait \/ Join
    <3>1. call \notin {"push", "delete"} /\ call' \notin {"push", "delete"}
      BY <1>1, <2>4 DEF CallInv, StopOpt, StopWait, QuitOpt, QuitWait, Join, Goto, Enter, Return
    <3> QED
      BY <2>1, <3>1 DEF In
  <2> QED
    BY <1>3, <2>2, <2>3, <2>4 DEF Handshake, OwnerHandshake
<1>4. ASSUME CountUp \/ CountDown PROVE SameList
  <2>1. /\ UNCHANGED <<first, last, nxt, prv, alive, cur, call>> /\ mpc' = "res_opt"
        /\ (mpc = "count" /\ call = "push") \/ (mpc = "uncount" /\ call = "delete")
    BY <1>1, <1>4 DEF CountUp, CountDown, CallInv, Goto, queue
  <2> QED
    BY <2>1 DEF In, Suspending, Resuming
<1>5. ASSUME Publish \/ RoundWait \/ CleanUses \/ CleanUse PROVE SameList
  <2>1. /\ UNCHANGED <<first, last, nxt, prv, alive, cur, call>>
        /\ mpc \in Queueing /\ mpc' \in Queueing
    BY <1>5 DEF Publish, RoundWait, EntryDone, CleanUses, CleanUse, Goto, queue, list, Queueing
  <2>2. call \in {"delete", "none"}
    BY <1>1, <2>1 DEF CallInv
  <2> QED
    BY <2>1, <2>2 DEF In, Queueing, Suspending, Resuming
<1>6. ASSUME NEW e \in Trees, NEW kind \in Kinds, Chunk(e) \/ Add(e, kind) PROVE SameList
  <2>1. /\ UNCHANGED <<first, last, nxt, prv, alive>> /\ call = "none"
        /\ call' = "post" \/ mpc' = "publish"
    BY <1>1, <1>6 DEF Chunk, Add, Enter, CallInv, queue, list
  <2> QED
    BY <2>1 DEF In, Suspending, Resuming
<1>7. ASSUME Queued \/ NsWait \/ EndWait \/ Destroy PROVE SameList
  <2>1. /\ UNCHANGED <<first, last, nxt, prv, alive, cur>>
        /\ call \in {"none", "delete"} /\ mpc \in {"queued", "ns_wait", "end_wait", "idle"}
        /\ call' # "push" /\ (call' = "delete" => mpc' \in {"end_wait", "susp_opt", "ns_wait"})
    BY <1>1, <1>7 DEF Queued, NsWait, EndWait, EntryDone, Destroy, Goto, Enter, Return, CallInv,
       Queueing, queue, list
  <2> QED
    BY <2>1 DEF In, Suspending, Resuming
<1>8. ASSUME NEW w \in Workers, Worker(w) PROVE SameList
  <2>1. UNCHANGED <<first, last, nxt, prv, alive, cur, mpc, call>>
    BY <1>8 DEF Worker, Obey, Loop, WorkerQueue, First, Scan, Compare, Deref, Bump, NextEntry, Check,
       ReadOpt, See, shared, ctl, list, queue, parser_stream, parser_worker, Handle
  <2> QED
    BY <2>1 DEF In
<1>9. ASSUME UNCHANGED vars PROVE SameList
  BY <1>9 DEF In, vars, ctl, list, queue
<1> HIDE DEF SameList
<1> QED
  BY <1>3, <1>4, <1>5, <1>6, <1>7, <1>8, <1>9, MyHTMLKinds
  DEF Next, Owner, QueueOp, OwnerQueue, End, AddToken, Finished

\* Every step preserves the list.
LEMMA ListStep ==
  ASSUME TypeInv, ListInv, [Next]_vars PROVE ListInv'
<1>1. SameList => ListInv'
  BY DEF SameList, TypeInv, TypeOK, ListTypeOK, ListInv, In
<1> QED
  BY <1>1, ListSame, ListLink, ListUnlink, ListFree, ListOpen

\* The list of queues that mythread_queue_list_entry_push and _delete maintain is
\* a closed doubly linked list of the entries of the trees being parsed, for any
\* number of trees and threads.
THEOREM ListInvariant == Spec => []ListInv
  BY TypeInvariant, ListInit, ListStep, PTL DEF Spec

-----------------------------------------------------------------------------
(* What the owner asks of the groups, for any number of batch threads.       *)

\* No group is suspended at first.
LEMMA SuspendInit == Init => SuspendInv
  BY DEF Init, MyThreadInit, SuspendInv, Passed, Suspending, Groups, Workers

\* The owner's part of the handshake: mythread_suspend and mythread_resume set and
\* clear the flags in the order of the groups.
LEMMA SuspendHandshake ==
  ASSUME MyThreadTypeOK, CallInv, SuspendInv, OwnerHandshake PROVE SuspendInv'
<1> USE KAssumption DEF MyThreadTypeOK, CallInv, SuspendInv, Passed, Suspending, Resuming, Groups, Workers,
      Group, Goto, Enter, Return, thr
<1>1. CASE SuspendOpt
  <2>1. /\ opt[Group(mi)] # "WAIT" /\ mpc = "susp_opt" /\ mpc' = "susp_wait"
        /\ opt' = [opt EXCEPT ![Group(mi)] = "WAIT"] /\ mi' = mi /\ call' = call
    BY <1>1 DEF SuspendOpt
  <2>2. CASE mi = 0
    BY <2>1, <2>2
  <2>3. CASE mi = 1
    <3>1. opt'["batch"] = "WAIT" /\ opt'["stream"] = opt["stream"]
      BY <2>1, <2>3
    <3>2. opt["stream"] = "WAIT"
      <4>1. 0 \in Workers /\ Passed(0)
        BY <2>1, <2>3
      <4> QED
        BY <4>1
    <3>3. \A w \in Workers : Passed(w)' => opt'[Group(w)] = "WAIT"
      BY <3>1, <3>2
    <3> QED
      BY <2>1, <2>3, <3>1, <3>2, <3>3
  <2> QED
    BY <2>1, <2>2, <2>3
<1>2. CASE SuspendWait
  <2>1. mpc = "susp_wait" /\ call' = call /\ opt' = opt /\ call \in {"push", "delete"}
    BY <1>2 DEF SuspendWait, SuspendNext, Suspended
  <2>2. CASE mi = K
    BY <1>2, <2>1, <2>2 DEF SuspendWait, SuspendNext, Suspended
  <2>3. CASE mi # K /\ mi = 0
    BY <1>2, <2>1, <2>3 DEF SuspendWait, SuspendNext, IsLast
  <2>4. CASE mi # K /\ mi # 0
    BY <1>2, <2>1, <2>4 DEF SuspendWait, SuspendNext, IsLast
  <2> QED
    BY <2>2, <2>3, <2>4
<1>3. CASE ResumeOpt
  <2>1. call \in {"push", "delete"} <=> opt[Group(mi)] = "WAIT"
    BY <1>3 DEF ResumeOpt
  <2>2. Send \in {"UNDEF", "QUIT"}
    BY DEF Send
  <2>3. CASE call \in {"push", "delete"}
    BY <1>3, <2>1, <2>2, <2>3 DEF ResumeOpt, Resumed
  <2>4. CASE call \notin {"push", "delete"}
    BY <1>3, <2>1, <2>2, <2>4 DEF ResumeOpt
  <2> QED
    BY <2>3, <2>4
<1>4. CASE ResumeCtx
  BY <1>4 DEF ResumeCtx, ResumeNext, Resumed, FirstOf, IsLast
<1>5. CASE ResumePost
  BY <1>5 DEF ResumePost, ResumeNext, Resumed, FirstOf, IsLast
<1>6. CASE StopOpt \/ StopWait \/ QuitOpt \/ QuitWait \/ Join
  BY <1>6 DEF StopOpt, StopWait, QuitOpt, QuitWait, Join, IsLast
<1> QED
  BY <1>1, <1>2, <1>3, <1>4, <1>5, <1>6 DEF OwnerHandshake

\* Every step preserves what the owner asks of the groups.
LEMMA SuspendStep ==
  ASSUME TypeInv, SuspendInv, [Next]_vars PROVE SuspendInv'
<1>1. MyThreadTypeOK /\ CallInv
  BY DEF TypeInv, TypeOK
<1>2. CASE Handshake
  BY <1>1, <1>2, SuspendHandshake DEF Handshake
<1>3. CASE QueueOp
  <2>1. UNCHANGED opt
    BY <1>3 DEF QueueOp, OwnerQueue, Link, CountUp, Unlink, CountDown, FreeEntry, Publish, RoundWait,
       EntryDone, CleanUses, CleanUse, thr
  <2>2. \/ mpc = "link" /\ mpc' = "count"
        \/ mpc = "unlink" /\ mpc' = "uncount"
        \/ mpc = "count" /\ mpc' = "res_opt" /\ call = "push" /\ call' = call /\ mi' = 0
        \/ mpc = "uncount" /\ mpc' = "res_opt" /\ call = "delete" /\ call' = call /\ mi' = 0
        \/ /\ mpc \in Queueing \cup {"free"}
           /\ mpc' \in Queueing \cup {"idle"} \/ (mpc' = "stop_opt" /\ call' = "pause")
    <3>1. CASE Link \/ CountUp \/ Unlink \/ CountDown
      <4>1. /\ mpc \in {"link", "unlink", "count", "uncount"} /\ call' = call
            /\ mpc = "link" => mpc' = "count"
            /\ mpc = "unlink" => mpc' = "uncount"
            /\ mpc \in {"count", "uncount"} => mpc' = "res_opt" /\ mi' = 0
        BY <3>1 DEF Link, CountUp, Unlink, CountDown, Goto
      <4> QED
        BY <1>1, <4>1 DEF CallInv
    <3>2. CASE FreeEntry \/ Publish \/ RoundWait \/ CleanUses \/ CleanUse
      BY <3>2 DEF FreeEntry, Publish, RoundWait, EntryDone, CleanUses, CleanUse, Goto, Enter, Return, Queueing
    <3> QED
      BY <1>3, <3>1, <3>2 DEF QueueOp, OwnerQueue
  <2> QED
    BY <2>1, <2>2 DEF SuspendInv, Passed, Suspending, Queueing
<1>4. CASE \/ \E e \in Trees : Open(e) \/ Chunk(e) \/ End(e)
           \/ \E e \in Trees, kind \in Kinds \ {"eof"} : AddToken(e, kind)
           \/ Queued \/ NsWait \/ EndWait \/ Destroy
  <2>1. /\ UNCHANGED opt /\ mpc \in {"idle", "queued", "ns_wait", "end_wait"}
        /\ \/ mpc' = "susp_opt" /\ mi' = 0
           \/ mpc' = "res_opt" /\ call' \in {"post", "destroy"}
           \/ mpc' \in {"publish", "end_wait", "ns_wait", "idle"}
    BY <1>4 DEF Open, Chunk, End, AddToken, Add, Queued, NsWait, EndWait, EntryDone, Destroy,
       Goto, Enter, Return, thr
  <2>2. \A g \in Groups : opt[g] # "WAIT"
    BY <2>1 DEF SuspendInv
  <2> QED
    BY <2>1, <2>2 DEF SuspendInv, Passed, Suspending, Workers
<1>5. CASE (\E w \in Workers : Worker(w)) \/ Finished \/ UNCHANGED vars
  <2>1. UNCHANGED <<opt, mpc, call, mi>>
    BY <1>5 DEF Worker, Obey, WorkerHandshake, Start, Top, ReportWait, Spin, Unwait, ReportStop, Woken,
       Unstop, CloseMutex, ReportQuit, Acquire, Loop, WorkerQueue, First, Scan, Compare, Deref, Bump,
       NextEntry, Check, ReadOpt, See, shared, ctl, thr, parser_stream, parser_worker, Handle, Finished, vars
  <2> QED
    BY <2>1 DEF SuspendInv, Passed
<1> QED
  BY <1>2, <1>3, <1>4, <1>5 DEF Next, Owner

\* mythread_suspend and mythread_resume are balanced: outside the push and the
\* delete of an entry no group is asked to wait, and while the owner changes the
\* list every group is.
THEOREM SuspendInvariant == Spec => []SuspendInv
  BY TypeInvariant, SuspendInit, SuspendStep, PTL DEF Spec

-----------------------------------------------------------------------------
(* The sleep of the workers, for any number of batch threads.                *)

\* The initial state satisfies the invariant of the sleep.
LEMMA QuietInit == Init => QuietInv
<1> SUFFICES ASSUME Init PROVE QuietInv
  OBVIOUS
<1>1. Listed = {}
  BY DEF Init, ThreadQueueInit, Listed, In
<1>2. CountInv
  BY <1>1, FS_EmptySet DEF Init, ThreadQueueInit, CountInv
<1> QED
  BY <1>2 DEF Init, MyThreadInit, QuietInv, RunningInv, AsleepStop

\* Which steps pass the labels between list and counter.
LEMMA CountLabels ==
  ASSUME TypeInv, [Next]_vars
  PROVE  \/ Link \/ Unlink \/ FreeEntry \/ CountUp \/ CountDown
         \/ (\E e \in Trees : Open(e))
         \/ /\ count' = count
            /\ \/ UNCHANGED <<mpc, call, cur>>
               \/ mpc \notin {"count", "uncount"} /\ mpc' \notin {"count", "uncount"}
<1>1. CallInv
  BY DEF TypeInv
<1>2. CASE Handshake
  <2>1. count' = count
    BY <1>2 DEF Handshake, list
  <2>2. mpc \notin {"count", "uncount"} /\ mpc' \notin {"count", "uncount"}
    BY <1>2 DEF Handshake, OwnerHandshake, SuspendOpt, SuspendWait, SuspendNext, Suspended, ResumeOpt,
       ResumeCtx, ResumePost, ResumeNext, Resumed, StopOpt, StopWait, QuitOpt, QuitWait, Join, Goto,
       Enter, Return
  <2> QED
    BY <2>1, <2>2
<1>3. CASE Publish \/ RoundWait \/ CleanUses \/ CleanUse
  BY <1>3 DEF Publish, RoundWait, EntryDone, CleanUses, CleanUse, Goto, list
<1>4. CASE \/ \E e \in Trees : Chunk(e) \/ End(e)
           \/ \E e \in Trees, kind \in Kinds \ {"eof"} : AddToken(e, kind)
  BY <1>4 DEF Chunk, End, AddToken, Add, Enter, list
<1>5. CASE Queued \/ NsWait \/ EndWait \/ Destroy
  BY <1>5 DEF Queued, NsWait, EndWait, EntryDone, Destroy, Goto, Enter, Return, list
<1>6. CASE (\E w \in Workers : Worker(w)) \/ Finished \/ UNCHANGED vars
  BY <1>6 DEF Worker, Obey, Loop, WorkerQueue, First, Scan, Compare, Deref, Bump, NextEntry, Check,
     ReadOpt, See, shared, ctl, list, queue, parser_stream, parser_worker, Handle, Finished, vars
<1> QED
  BY <1>2, <1>3, <1>4, <1>5, <1>6 DEF Next, Owner, QueueOp, OwnerQueue

\* The counter counts one entry more, or one less, where the owner says so, and
\* the same entries otherwise.
LEMMA CountStep ==
  ASSUME TypeInv, CountInv, [Next]_vars PROVE CountInv'
<1>1. CallInv /\ alive \in [Trees -> BOOLEAN] /\ NULL \notin Trees
  BY TreesAssumption DEF TypeInv, TypeOK, QueueTypeOK
<1>2. CASE CountUp
  <2>1. /\ mpc = "count" /\ call = "push" /\ cur \in Trees /\ alive[cur] /\ mpc' = "res_opt"
        /\ count' = count + 1 /\ UNCHANGED <<alive, cur, call>>
    BY <1>1, <1>2 DEF CountUp, CallInv, Goto, queue
  <2>2. Listed' = Listed \cup {cur} /\ cur \notin Listed
    BY <2>1 DEF Listed, In, Suspending, Resuming
  <2> QED
    BY <2>1, <2>2, FS_AddElement DEF CountInv
<1>3. CASE CountDown
  <2>1. /\ mpc = "uncount" /\ call = "delete" /\ cur \in Trees /\ alive[cur] /\ mpc' = "res_opt"
        /\ count' = count - 1 /\ UNCHANGED <<alive, cur, call>>
    BY <1>1, <1>3 DEF CountDown, CallInv, Goto, queue
  <2>2. Listed' = Listed \ {cur} /\ cur \in Listed
    BY <2>1 DEF Listed, In, Suspending, Resuming
  <2> QED
    BY <2>1, <2>2, FS_RemoveElement DEF CountInv
<1>4. ASSUME count' = count, Listed' = Listed PROVE CountInv'
  BY <1>4 DEF CountInv
<1>5. CASE Link
  <2>1. /\ mpc = "link" /\ call = "push" /\ mpc' = "count"
        /\ UNCHANGED <<alive, cur, call, count>>
    BY <1>1, <1>5 DEF Link, CallInv, Goto, queue
  <2> QED
    BY <1>4, <2>1 DEF Listed, In, Suspending, Resuming
<1>6. CASE Unlink
  <2>1. /\ mpc = "unlink" /\ call = "delete" /\ cur \in Trees /\ alive[cur] /\ mpc' = "uncount"
        /\ UNCHANGED <<alive, cur, call, count>>
    BY <1>1, <1>6 DEF Unlink, CallInv, Goto, queue
  <2> QED
    BY <1>4, <2>1 DEF Listed, In, Suspending, Resuming
<1>7. CASE FreeEntry
  <2>1. /\ mpc = "free" /\ call = "delete" /\ cur \in Trees /\ cur' = NULL
        /\ alive' = [alive EXCEPT ![cur] = FALSE] /\ call' \notin {"push", "delete"}
        /\ count' = count
    BY <1>1, <1>7 DEF FreeEntry, CallInv, Enter, Return
  <2>2. Listed = {e \in Trees : alive[e] /\ e # cur}
    BY <2>1 DEF Listed, In, Suspending, Resuming
  <2>3. Listed' = {e \in Trees : alive[e] /\ e # cur}
    BY <1>1, <2>1 DEF Listed, In, Suspending, Resuming
  <2> QED
    BY <1>4, <2>1, <2>2, <2>3
<1>8. CASE \E e \in Trees : Open(e)
  <2>1. PICK t \in Trees : Open(t)
    BY <1>8
  <2>2. /\ mpc = "idle" /\ call = "none" /\ ~alive[t] /\ cur' = t /\ call' = "push"
        /\ mpc' = "susp_opt" /\ alive' = [alive EXCEPT ![t] = TRUE] /\ count' = count
    BY <1>1, <2>1 DEF Open, CallInv, Enter, list
  <2>3. Listed = {e \in Trees : alive[e]}
    BY <2>2 DEF Listed, In
  <2>4. Listed' = {e \in Trees : alive[e]}
    BY <1>1, <2>2 DEF Listed, In, Suspending, Resuming
  <2> QED
    BY <1>4, <2>2, <2>3, <2>4
<1>9. CASE /\ ~(Link \/ Unlink \/ FreeEntry \/ CountUp \/ CountDown \/ \E e \in Trees : Open(e))
  <2>1. SameList
    BY <1>9, ListSame
  <2>2. \/ count' = count /\ UNCHANGED <<mpc, call, cur>>
        \/ count' = count /\ mpc \notin {"count", "uncount"} /\ mpc' \notin {"count", "uncount"}
    BY <1>9, CountLabels
  <2>3. UNCHANGED alive /\ \A e \in Trees : In(e)' <=> In(e)
    BY <2>1 DEF SameList
  <2>4. Listed' = Listed
    BY <2>2, <2>3 DEF Listed
  <2> QED
    BY <1>4, <2>2, <2>4
<1> QED
  BY <1>2, <1>3, <1>5, <1>6, <1>7, <1>8, <1>9

\* The groups run when they are told to stop: unlinking the last entry resumed
\* both of them.
LEMMA RunningStep ==
  ASSUME TypeInv, SuspendInv, RunningInv, [Next]_vars PROVE RunningInv'
<1>1. MyThreadTypeOK /\ CallInv /\ K \in Nat \ {0}
  BY KAssumption DEF TypeInv, TypeOK
<1> USE DEF RunningInv, Groups, Group, Goto, Enter, Return
<1>2. CASE ResumeOpt /\ call = "delete"
  <2>1. mpc = "res_opt" /\ mi \in {0, 1} /\ 0 \in Workers /\ 1 \in Workers
    BY <1>1, <1>2 DEF ResumeOpt, CallInv, Workers
  <2>2. opt["batch"] = "WAIT" /\ (mi = 0 => opt["stream"] = "WAIT")
    BY <1>2, <2>1 DEF SuspendInv, Passed
  <2>3. /\ opt' = [opt EXCEPT ![Group(mi)] = "UNDEF"] /\ call' = "delete"
        /\ mi = 0 => mpc' = "res_opt" /\ mi' = 1
        /\ mi # 0 => mpc' = "free"
    BY <1>2, <2>1, <2>2 DEF ResumeOpt, Resumed, Send
  <2> QED
    BY <1>1, <1>2, <2>1, <2>3 DEF MyThreadTypeOK
<1>3. CASE (ResumeOpt /\ call # "delete") \/ ResumeCtx \/ ResumePost
  <2>1. call # "delete"
    BY <1>3 DEF SuspendInv, ResumeCtx, ResumePost
  <2>2. call' # "delete" /\ mpc' \notin {"stop_opt", "stop_wait"}
    BY <1>3, <2>1 DEF ResumeOpt, ResumeCtx, ResumePost, ResumeNext, Resumed
  <2> QED
    BY <2>2
<1>4. CASE StopOpt
  <2>1. mpc = "stop_opt" /\ mi \in {0, 1} /\ call = "pause" /\ opt[Group(mi)] # "STOP"
    BY <1>1, <1>4 DEF StopOpt, CallInv
  <2>2. /\ opt' = [opt EXCEPT ![Group(mi)] = "STOP"] /\ mpc' = "stop_wait" /\ mi' = mi
        /\ call' = call
    BY <1>4, <2>1 DEF StopOpt
  <2> QED
    BY <1>1, <2>1, <2>2 DEF MyThreadTypeOK
<1>5. CASE StopWait
  <2>1. mpc = "stop_wait" /\ call = "pause" /\ opt' = opt /\ call' # "delete"
    BY <1>1, <1>5 DEF StopWait, CallInv, thr
  <2>2. CASE mi = 0
    BY <1>1, <1>5, <2>1, <2>2 DEF StopWait, IsLast
  <2>3. CASE mi # 0
    <3>1. mpc' = "idle" \/ (mpc' = "stop_wait" /\ mi' # 0)
      BY <1>1, <1>5, <2>3 DEF StopWait, IsLast, MyThreadTypeOK, Workers
    <3> QED
      BY <2>1, <3>1
  <2> QED
    BY <2>2, <2>3
<1>6. CASE SuspendOpt \/ SuspendWait \/ QuitOpt \/ QuitWait \/ Join
  <2>1. mpc' \notin {"free", "stop_opt", "stop_wait"} /\ ~(call' = "delete" /\ mpc' = "res_opt")
    BY <1>1, <1>6 DEF SuspendOpt, SuspendWait, SuspendNext, Suspended, QuitOpt, QuitWait, Join, CallInv
  <2> QED
    BY <2>1
<1>7. CASE FreeEntry
  <2>1. /\ mpc = "free" /\ call = "delete" /\ UNCHANGED opt /\ call' # "delete"
        /\ mpc' \in {"stop_opt", "idle"}
    BY <1>1, <1>7 DEF FreeEntry, CallInv, thr
  <2> QED
    BY <2>1
<1>8. CASE Link \/ CountUp \/ Unlink \/ CountDown \/ Publish \/ RoundWait \/ CleanUses \/ CleanUse
  <2>1. mpc' \notin {"free", "stop_opt", "stop_wait"} /\ (mpc' = "res_opt" => mi' = 0)
    BY <1>8 DEF Link, CountUp, Unlink, CountDown, Publish, RoundWait, EntryDone, CleanUses, CleanUse
  <2> QED
    BY <2>1
<1>9. CASE \/ \E e \in Trees : Open(e) \/ Chunk(e) \/ End(e)
           \/ \E e \in Trees, kind \in Kinds \ {"eof"} : AddToken(e, kind)
           \/ Queued \/ NsWait \/ EndWait \/ Destroy
  <2>1. mpc' \notin {"free", "stop_opt", "stop_wait"} /\ (mpc' = "res_opt" => mi' = 0)
    BY <1>9 DEF Open, Chunk, End, AddToken, Add, Queued, NsWait, EndWait, EntryDone, Destroy
  <2> QED
    BY <2>1
<1>10. CASE (\E w \in Workers : Worker(w)) \/ Finished \/ UNCHANGED vars
  <2>1. UNCHANGED <<opt, mpc, call, mi>>
    BY <1>10 DEF Worker, Obey, WorkerHandshake, Start, Top, ReportWait, Spin, Unwait, ReportStop, Woken,
       Unstop, CloseMutex, ReportQuit, Acquire, Loop, WorkerQueue, First, Scan, Compare, Deref, Bump,
       NextEntry, Check, ReadOpt, See, shared, ctl, thr, parser_stream, parser_worker, Handle, Finished, vars
  <2> QED
    BY <2>1
<1> QED
  BY <1>2, <1>3, <1>4, <1>5, <1>6, <1>7, <1>8, <1>9, <1>10
  DEF Next, Owner, Handshake, OwnerHandshake, QueueOp, OwnerQueue

\* A worker that reports STOP sleeps until the owner wakes it.
LEMMA AsleepWorker ==
  ASSUME TypeInv, HandshakeInv, NEW w \in Workers, Worker(w),
         NEW v \in Workers, ctxOpt[v] = "STOP"
  PROVE  ctxOpt'[v] = "STOP"
<1>1. MyThreadTypeOK
  BY DEF TypeInv, TypeOK
<1>2. wpc[v] \in {"start", "lock"}
  BY DEF HandshakeInv, AwakeInv
<1>3. CASE Obey(w)
  BY <1>1, <1>2, <1>3 DEF MyThreadTypeOK, Obey, WorkerHandshake, Start, Top, ReportWait, Spin, Unwait,
     ReportStop, Woken, Unstop, CloseMutex, ReportQuit, Acquire, Move, Report, thr
<1>4. CASE Loop(w) \/ parser_stream(w) \/ parser_worker(w)
  BY <1>4 DEF Loop, WorkerQueue, First, Scan, Compare, Deref, Bump, NextEntry, Check, ReadOpt, See,
     shared, thr, parser_stream, parser_worker, Handle
<1> QED
  BY <1>3, <1>4 DEF Worker

\* The owner comes back to the application with every worker asleep, or with a
\* tree open.
LEMMA AsleepStep ==
  ASSUME TypeInv, HandshakeInv, SuspendInv, QuietInv, [Next]_vars PROVE AsleepStop'
<1>1. /\ MyThreadTypeOK /\ CallInv /\ K \in Nat \ {0} /\ alive \in [Trees -> BOOLEAN]
      /\ CountInv /\ RunningInv /\ AsleepStop
  BY KAssumption DEF TypeInv, TypeOK, QueueTypeOK, QuietInv
<1> USE DEF AsleepStop, Goto, Enter, Return
<1>2. CASE Handshake /\ (ResumeOpt \/ ResumeCtx \/ ResumePost)
  <2>1. /\ mpc' \notin {"stop_opt", "stop_wait"} /\ mpc \in Resuming
        /\ mpc' = "idle" => call = "post"
        /\ call' = "post" => call \in {"push", "post"}
    <3>1. CASE ResumeOpt
      BY <3>1 DEF ResumeOpt, Resumed, Resuming
    <3>2. CASE ResumeCtx \/ ResumePost
      BY <3>2 DEF ResumeCtx, ResumePost, ResumeNext, Resumed, Resuming
    <3> QED
      BY <1>2, <3>1, <3>2
  <2>3. UNCHANGED alive
    BY <1>2 DEF Handshake, queue
  <2>2. call = "push" => \E e \in Trees : alive[e]
    BY <1>1 DEF CallInv
  <2> QED
    BY <1>1, <2>1, <2>2, <2>3
<1>3. CASE StopOpt
  <2>1. mpc = "stop_opt" /\ mi \in {0, 1} /\ call = "pause" /\ opt[Group(mi)] # "STOP"
    BY <1>1, <1>3 DEF StopOpt, CallInv, RunningInv, Group
  <2>2. mpc' = "stop_wait" /\ mi' = mi /\ call' = call /\ ctxOpt' = ctxOpt
    BY <1>3, <2>1 DEF StopOpt
  <2> QED
    BY <1>1, <2>1, <2>2
<1>4. CASE StopWait
  <2>1. /\ mpc = "stop_wait" /\ ctxOpt[mi] = "STOP" /\ ctxOpt' = ctxOpt /\ mi \in 0 .. K
        /\ call' # "post"
    BY <1>1, <1>4 DEF StopWait, thr, MyThreadTypeOK, Workers, CallInv
  <2>2. \A w \in Workers : w <= mi => ctxOpt'[w] = "STOP"
    <3>1. \A w \in Workers : w <= mi => w < mi \/ w = mi
      BY <2>1 DEF Workers
    <3> QED
      BY <1>1, <2>1, <3>1
  <2>3. \/ mi = K /\ mpc' = "idle"
        \/ mi < K /\ mi' = mi + 1 /\ mpc' \in {"stop_opt", "stop_wait"}
    BY <1>1, <1>4, <2>1 DEF StopWait
  <2> QED
    BY <1>1, <2>1, <2>2, <2>3 DEF Workers
<1>5. CASE SuspendOpt \/ SuspendWait \/ QuitOpt \/ QuitWait \/ Join
  <2>1. mpc' \notin {"stop_opt", "stop_wait", "idle"} /\ call' # "post"
    <3>1. CASE SuspendOpt \/ SuspendWait
      BY <1>1, <3>1 DEF SuspendOpt, SuspendWait, SuspendNext, Suspended, CallInv, Suspending
    <3>2. CASE QuitOpt \/ QuitWait \/ Join
      BY <1>1, <3>2 DEF QuitOpt, QuitWait, Join, CallInv
    <3> QED
      BY <1>5, <3>1, <3>2
  <2> QED
    BY <2>1
<1>6. CASE FreeEntry
  <2>1. /\ mpc = "free" /\ call = "delete" /\ cur \in Trees
        /\ alive' = [alive EXCEPT ![cur] = FALSE] /\ call' # "post"
        /\ (mpc' = "stop_opt" /\ mi' = 0) \/ (mpc' = "idle" /\ count # 0)
    BY <1>1, <1>6 DEF FreeEntry, CallInv
  <2>2. Listed = {e \in Trees : alive[e] /\ e # cur}
    BY <2>1 DEF Listed, In, Suspending, Resuming
  <2>3. count # 0 => \E e \in Trees : alive'[e]
    <3>1. count # 0 => Listed # {}
      BY <1>1, FS_EmptySet DEF CountInv
    <3> QED
      BY <1>1, <2>1, <2>2, <3>1
  <2>4. \A w \in Workers : ~(w < 0)
    BY <1>1 DEF Workers
  <2> QED
    BY <2>1, <2>3, <2>4
<1>7. CASE Link \/ CountUp \/ Unlink \/ CountDown \/ Publish \/ RoundWait \/ CleanUses \/ CleanUse
  <2>1. /\ mpc' \notin {"stop_opt", "stop_wait", "idle"} /\ call' = call
        /\ mpc \in Queueing \cup {"link", "count", "unlink", "uncount"}
    BY <1>7 DEF Link, CountUp, Unlink, CountDown, Publish, RoundWait, EntryDone, CleanUses, CleanUse,
       Queueing
  <2>2. call # "post"
    BY <1>1, <2>1 DEF CallInv
  <2> QED
    BY <2>1, <2>2
<1>8. CASE \/ \E e \in Trees : Open(e) \/ Chunk(e) \/ End(e)
           \/ \E e \in Trees, kind \in Kinds \ {"eof"} : AddToken(e, kind)
  <2>1. /\ mpc' \notin {"stop_opt", "stop_wait", "idle"}
        /\ call' = "post" => UNCHANGED alive /\ \E e \in Trees : alive[e]
    BY <1>8 DEF Open, Chunk, End, AddToken, Add, queue
  <2> QED
    BY <2>1
<1>9. CASE Queued \/ NsWait \/ EndWait \/ Destroy
  <2>1. /\ mpc' \notin {"stop_opt", "stop_wait"} /\ UNCHANGED alive
        /\ mpc' = "idle" => mpc \in {"queued", "ns_wait"}
        /\ call' = "post" => call = "post" /\ mpc \in {"queued", "end_wait"}
    BY <1>9 DEF Queued, NsWait, EndWait, EntryDone, Destroy, queue
  <2>2. mpc \in {"queued", "ns_wait"} => \E e \in Trees : alive[e]
    BY <1>1 DEF CallInv, Queueing
  <2>3. ~(call = "post" /\ mpc \in {"queued", "end_wait"})
    BY <1>1 DEF CallInv, Queueing
  <2> QED
    BY <2>1, <2>2, <2>3
<1>10. CASE \E w \in Workers : Worker(w)
  <2>1. PICK w \in Workers : Worker(w)
    BY <1>10
  <2>2. UNCHANGED <<alive, mpc, call, mi>>
    BY <2>1 DEF Worker, Obey, Loop, WorkerQueue, First, Scan, Compare, Deref, Bump, NextEntry, Check,
       ReadOpt, See, shared, ctl, queue, parser_stream, parser_worker, Handle
  <2>3. \A v \in Workers : ctxOpt[v] = "STOP" => ctxOpt'[v] = "STOP"
    BY <2>1, AsleepWorker
  <2> QED
    BY <1>1, <2>2, <2>3
<1>11. CASE Finished \/ UNCHANGED vars
  BY <1>1, <1>11 DEF Finished, vars, thr, ctl, queue
<1> QED
  BY <1>2, <1>3, <1>4, <1>5, <1>6, <1>7, <1>8, <1>9, <1>10, <1>11
  DEF Next, Owner, Handshake, OwnerHandshake, QueueOp, OwnerQueue

\* Once the last tree is closed and the call has returned every worker is blocked
\* on its mutex, for every number of batch threads, trees and tokens.
THEOREM QuietIsClosed == Spec => []QuietWhenClosed
<1>1. TypeInv /\ HandshakeInv /\ SuspendInv /\ QuietInv /\ [Next]_vars => QuietInv'
  <2> SUFFICES ASSUME TypeInv, HandshakeInv, SuspendInv, QuietInv, [Next]_vars PROVE QuietInv'
    OBVIOUS
  <2>1. CountInv' /\ RunningInv' /\ AsleepStop'
    BY CountStep, RunningStep, AsleepStep DEF QuietInv
  <2> QED
    BY <2>1 DEF QuietInv
<1>2. HandshakeInv /\ QuietInv => QuietWhenClosed
  BY DEF HandshakeInv, AwakeInv, QuietInv, AsleepStop, QuietWhenClosed
<1> QED
  BY <1>1, <1>2, QuietInit, TypeInvariant, HandshakeInvariant, SuspendInvariant, PTL DEF Spec

-----------------------------------------------------------------------------
(* One batch thread, the benchmark's configuration.                          *)

\* A worker the owner has been through while it deletes an entry is parked, and
\* stays so: it is asleep, or spins on the group's flag.
LEMMA PassedParked ==
  ASSUME TypeInv, HandshakeInv, SuspendInv, ObeyInv, FreshInv,
         call = "delete", mpc \in Suspending \cup {"unlink", "uncount"},
         NEW w \in Workers, Passed(w)
  PROVE  /\ Parked(w) /\ opt[Group(w)] = "WAIT"
         /\ wpc[w] \in {"start", "lock"} => mutex[w] = "locked"
  BY DEF HandshakeInv, AsleepInv, AwakeInv, SuspendInv, ObeyInv, FreshInv, Leaving, Parked, Suspending

\* An entry that is on the list stays there, unless it is the one unlinked.
LEMMA InStep ==
  ASSUME TypeInv, [Next]_vars, NEW e \in Trees, In(e), ~(Unlink /\ e = cur)
  PROVE  In(e)'
<1>1. CASE Link
  <2>1. /\ call = "push" /\ call' = call /\ mpc' = "count" /\ UNCHANGED <<alive, cur>>
    BY <1>1 DEF Link, TypeInv, CallInv, Goto, queue
  <2> QED
    BY <2>1 DEF In, Suspending
<1>2. CASE Unlink
  <2>1. UNCHANGED <<alive, cur>>
    BY <1>2 DEF Unlink, queue
  <2> QED
    BY <1>2, <2>1 DEF In
<1>3. CASE FreeEntry
  <2>1. /\ call = "delete" /\ mpc = "free" /\ alive' = [alive EXCEPT ![cur] = FALSE]
        /\ call' \in {"none", "pause"} /\ alive \in [Trees -> BOOLEAN]
    BY <1>3 DEF FreeEntry, TypeInv, TypeOK, QueueTypeOK, CallInv, Enter, Return
  <2> QED
    BY <2>1 DEF In
<1>4. CASE \E t \in Trees : Open(t)
  <2>1. PICK t \in Trees : Open(t)
    BY <1>4
  <2>2. /\ ~alive[t] /\ cur' = t /\ call' = "push" /\ alive' = [alive EXCEPT ![t] = TRUE]
        /\ alive \in [Trees -> BOOLEAN]
    BY <2>1 DEF Open, Enter, TypeInv, TypeOK, QueueTypeOK
  <2> QED
    BY <2>2 DEF In
<1>5. CASE SameList
  BY <1>5 DEF SameList
<1> QED
  BY <1>1, <1>2, <1>3, <1>4, <1>5, ListSame

\* Every step preserves that workers stand on linked entries only.
LEMMA EntStep ==
  ASSUME IndInv, [Next]_vars PROVE EntInv'
<1> SUFFICES ASSUME NEW w \in Workers, ent'[w] # NULL PROVE In(ent[w])'
  BY DEF EntInv
<1>1. TypeInv /\ ListInv /\ EntInv /\ LocalsTypeOK /\ ListTypeOK /\ CursorInv
  BY DEF IndInv, TypeInv, TypeOK
<1>2. TypeInv'
  BY <1>1, TypeStep
<1>3. ent'[w] \in Trees
  BY <1>2 DEF TypeInv, TypeOK, LocalsTypeOK
<1>4. CASE Unlink
  <2>1. Parked(w) /\ UNCHANGED ent
    BY <1>4, PassedParked DEF IndInv, TypeInv, CallInv, Unlink, Passed, locals
  <2> QED
    BY <1>1, <2>1 DEF Parked, CursorInv, Scanning
<1>5. CASE ~Unlink
  <2>1. In(ent'[w])
    <3>1. CASE ent'[w] = ent[w]
      BY <1>1, <3>1 DEF EntInv
    <3>2. CASE First(w)
      BY <1>1, <3>2 DEF First, LocalsTypeOK, ListInv
    <3>3. CASE NextEntry(w)
      <4>1. ent[w] \in Trees /\ In(ent[w]) /\ ent'[w] = nxt[ent[w]]
        BY <1>1, <3>3 DEF NextEntry, Move, CursorInv, Scanning, EntInv, LocalsTypeOK
      <4> QED
        BY <1>1, <4>1 DEF ListInv
    <3>4. ent'[w] = ent[w] \/ First(w) \/ NextEntry(w)
      <4>1. CASE Owner \/ Finished \/ UNCHANGED vars
        BY <4>1 DEF Owner, Open, Chunk, End, AddToken, Add, Queued, NsWait, EndWait, EntryDone, Destroy,
           Handshake, QueueOp, OwnerQueue, Link, CountUp, Unlink, CountDown, FreeEntry, Publish,
           RoundWait, CleanUses, CleanUse, Finished, vars, locals
      <4>2. ASSUME NEW v \in Workers, Worker(v)
            PROVE  ent'[w] = ent[w] \/ First(w) \/ NextEntry(w)
        BY <1>1, <4>2 DEF Worker, Obey, Loop, WorkerQueue, First, Scan, Compare, Deref, Bump, NextEntry,
           Check, ReadOpt, See, locals, parser_stream, parser_worker, Handle, LocalsTypeOK
      <4> QED
        BY <4>1, <4>2 DEF Next
    <3> QED
      BY <3>1, <3>2, <3>3, <3>4
  <2>2. \A e \in Trees : In(e) => In(e)'
    BY <1>1, <1>5, InStep
  <2> QED
    BY <1>3, <2>1, <2>2
<1> QED
  BY <1>4, <1>5

\* The steps of the owner that leave the queues alone.
QueueQuiet ==
  /\ UNCHANGED <<alive, uses, use, wpc, ent, ruse>>
  /\ {mpc, mpc'} \cap {"round_wait", "clean_uses", "clean_use"} = {}

\* Every step of the owner but six is of this kind.
LEMMA OwnerQuiet ==
  ASSUME TypeInv, Owner
  PROVE  \/ (\E e \in Trees : Open(e)) \/ FreeEntry \/ Publish \/ RoundWait \/ CleanUses \/ CleanUse
         \/ QueueQuiet
<1>1. CallInv /\ mi \in Workers
  BY DEF TypeInv, TypeOK, MyThreadTypeOK
<1>2. CASE Handshake
  <2>1. UNCHANGED <<alive, uses, use, ent, ruse>>
    BY <1>2 DEF Handshake, queue, locals
  <2>2. UNCHANGED wpc /\ {mpc, mpc'} \cap {"round_wait", "clean_uses", "clean_use"} = {}
    BY <1>2 DEF Handshake, OwnerHandshake, SuspendOpt, SuspendWait, SuspendNext, Suspended, ResumeOpt,
       ResumeCtx, ResumePost, ResumeNext, Resumed, StopOpt, StopWait, QuitOpt, QuitWait, Join, Goto,
       Enter, Return
  <2> QED
    BY <2>1, <2>2 DEF QueueQuiet
<1>3. CASE Link \/ CountUp \/ Unlink \/ CountDown
  BY <1>3 DEF Link, CountUp, Unlink, CountDown, Goto, queue, locals, QueueQuiet
<1>4. CASE \/ \E e \in Trees : Chunk(e) \/ End(e)
           \/ \E e \in Trees, kind \in Kinds \ {"eof"} : AddToken(e, kind)
  BY <1>4 DEF Chunk, End, AddToken, Add, Enter, queue, locals, QueueQuiet
<1>5. CASE Queued \/ NsWait \/ EndWait \/ Destroy
  BY <1>5 DEF Queued, NsWait, EndWait, EntryDone, Destroy, Goto, Enter, Return, queue, locals, QueueQuiet
<1> QED
  BY <1>2, <1>3, <1>4, <1>5 DEF Owner, QueueOp, OwnerQueue

\* The owner counts a token as published, waits, and resets the counters: first
\* what is published, then what each worker has handled.
LEMMA UseOwner ==
  ASSUME K = 1, IndInv, Owner PROVE UseInv' /\ CleanInv'
<1>1. /\ TypeInv /\ CallInv /\ UseInv /\ CleanInv /\ EntInv /\ mi \in Workers
      /\ alive \in [Trees -> BOOLEAN] /\ uses \in [Trees -> Nat] /\ use \in [Trees -> [Workers -> Nat]]
      /\ \A e \in Trees, w \in Workers : uses[e] \in Nat /\ use[e] \in [Workers -> Nat] /\ use[e][w] \in Nat
  BY DEF IndInv, TypeInv, TypeOK, QueueTypeOK, MyThreadTypeOK
<1>2. CASE \E t \in Trees : Open(t)
  <2>1. PICK t \in Trees : Open(t)
    BY <1>2
  <2>2. /\ ~alive[t] /\ alive' = [alive EXCEPT ![t] = TRUE] /\ mpc' = "susp_opt" /\ mpc = "idle"
        /\ uses' = [uses EXCEPT ![t] = 0] /\ use' = [use EXCEPT ![t] = make_batch]
        /\ UNCHANGED <<wpc, ent, ruse>>
    BY <2>1 DEF Open, Enter, locals
  <2>3. make_batch \in [Workers -> Nat] /\ \A w \in Workers : make_batch[w] = 0
    BY DEF make_batch, Workers
  <2>4. \A w \in Workers : ent[w] # t \/ wpc[w] \notin {"cmp"} \cup Holding
    BY <1>1, <2>2, TreesAssumption DEF EntInv, In
  <2>5. \A w \in Workers : use'[t][w] = 0 /\ uses'[t] = 0
    BY <1>1, <2>2, <2>3
  <2>6. ASSUME NEW e \in Trees, alive'[e], NEW w \in Workers PROVE UseAt(e, w)'
    <3>1. CASE e = t
      BY <2>2, <2>4, <2>5, <3>1 DEF UseAt
    <3>2. CASE e # t
      <4>1. alive[e] /\ uses'[e] = uses[e] /\ use'[e] = use[e] /\ UseAt(e, w)
        BY <1>1, <2>2, <2>6, <3>2 DEF UseInv
      <4> QED
        BY <2>2, <4>1 DEF UseAt, Cleaning
    <3> QED
      BY <3>1, <3>2
  <2> QED
    BY <2>2, <2>6 DEF UseInv, CleanInv
<1>3. CASE FreeEntry
  <2>1. /\ alive' = [alive EXCEPT ![cur] = FALSE] /\ mpc = "free" /\ mpc' \in {"stop_opt", "idle"}
        /\ UNCHANGED <<uses, use, wpc, ent, ruse>>
    BY <1>3 DEF FreeEntry, Enter, Return, locals
  <2>2. \A e \in Trees : alive'[e] => alive[e]
    BY <1>1, <2>1
  <2> QED
    BY <1>1, <2>1, <2>2 DEF UseInv, CleanInv, UseAt, Cleaning
<1>4. CASE Publish
  <2>1. /\ cur \in Trees /\ uses' = [uses EXCEPT ![cur] = @ + 1] /\ mpc = "publish"
        /\ mpc' \in {"round_wait", "queued"} /\ mi' = 0
        /\ UNCHANGED <<alive, use, cur, wpc, ent, ruse>>
    BY <1>1, <1>4 DEF Publish, Goto, locals, CallInv, Queueing
  <2>2. ASSUME NEW e \in Trees, alive'[e], NEW w \in Workers PROVE UseAt(e, w)'
    <3>1. UseAt(e, w) /\ uses[e] <= uses'[e] /\ uses'[e] \in Nat /\ ~(w < 0)
      BY <1>1, <2>1, <2>2 DEF UseInv, Workers
    <3> QED
      BY <1>1, <2>1, <3>1 DEF UseAt, Cleaning
  <2> QED
    BY <2>1, <2>2 DEF UseInv, CleanInv
<1>5. CASE RoundWait
  <2>1. /\ cur \in Trees /\ alive[cur] /\ use[cur][mi] >= uses[cur] /\ mpc = "round_wait"
        /\ mi = K => mpc' = "clean_uses"
        /\ mi # K => mpc' = "round_wait" /\ mi' = mi + 1
        /\ UNCHANGED <<alive, uses, use, cur, wpc, ent, ruse>>
    BY <1>1, <1>5 DEF RoundWait, EntryDone, Goto, queue, locals, CallInv, Queueing
  <2>2. use[cur][mi] = uses[cur] /\ \A w \in Workers : w < mi => use[cur][w] = uses[cur]
    <3>1. \A w \in Workers : UseAt(cur, w)
      BY <1>1, <2>1 DEF UseInv
    <3>2. use[cur][mi] \in Nat /\ uses[cur] \in Nat /\ use[cur][mi] <= uses[cur]
      BY <1>1, <2>1, <3>1 DEF UseAt, Cleaning
    <3> QED
      BY <2>1, <3>1, <3>2 DEF UseAt
  <2>3. \A w \in Workers : w < mi + 1 => use[cur][w] = uses[cur]
    BY <1>1, <2>2 DEF Workers
  <2>4. mi = K => \A w \in Workers : use[cur][w] = uses[cur]
    BY <2>3 DEF Workers
  <2>5. ASSUME NEW e \in Trees, alive'[e], NEW w \in Workers PROVE UseAt(e, w)'
    <3>1. UseAt(e, w)
      BY <1>1, <2>1, <2>5 DEF UseInv
    <3> QED
      BY <1>1, <2>1, <2>3, <2>4, <3>1 DEF UseAt, Cleaning
  <2> QED
    BY <2>1, <2>5 DEF UseInv, CleanInv
<1>6. CASE CleanUses
  <2>1. /\ cur \in Trees /\ alive[cur] /\ mpc = "clean_uses" /\ mpc' = "clean_use" /\ mi' = 0
        /\ uses' = [uses EXCEPT ![cur] = 0]
        /\ UNCHANGED <<alive, use, cur, wpc, ent, ruse>>
    BY <1>1, <1>6 DEF CleanUses, Goto, locals, CallInv, Queueing
  <2>2. ASSUME NEW e \in Trees, alive'[e], NEW w \in Workers PROVE UseAt(e, w)'
    <3>1. UseAt(e, w) /\ w >= 0
      BY <1>1, <2>1, <2>2 DEF UseInv, Workers
    <3>2. CASE e = cur
      BY <1>1, <2>1, <3>1, <3>2 DEF UseAt, Cleaning
    <3>3. CASE e # cur
      BY <1>1, <2>1, <3>1, <3>3 DEF UseAt, Cleaning
    <3> QED
      BY <3>2, <3>3
  <2> QED
    BY <1>1, <2>1, <2>2 DEF UseInv, CleanInv
<1>7. CASE CleanUse
  <2>1. /\ cur \in Trees /\ alive[cur] /\ mpc = "clean_use" /\ uses[cur] = 0
        /\ mi = K => mpc' = "queued"
        /\ mi # K => mpc' = "clean_use" /\ mi' = mi + 1
        /\ use' = [use EXCEPT ![cur][mi] = 0]
        /\ UNCHANGED <<alive, uses, cur, wpc, ent, ruse>>
    BY <1>1, <1>7 DEF CleanUse, Goto, locals, CallInv, Queueing, CleanInv
  <2>2. \A e \in Trees, w \in Workers : use'[e][w] = IF e = cur /\ w = mi THEN 0 ELSE use[e][w]
    BY <1>1, <2>1
  <2>3. ASSUME NEW e \in Trees, alive'[e], NEW w \in Workers PROVE UseAt(e, w)'
    <3>1. UseAt(e, w)
      BY <1>1, <2>1, <2>3 DEF UseInv
    <3>2. CASE e = cur /\ w = mi
      <4>1. /\ use'[e][w] = 0 /\ uses'[e] = 0 /\ use[e][w] \in Nat /\ uses[e] = 0
            /\ wpc[w] = "cmp" /\ ent[w] = e => ruse[w] >= use[e][w]
            /\ wpc[w] \in Holding /\ ent[w] = e => use[e][w] < uses[e]
            /\ ruse[w] \in Nat /\ w \in Int /\ ~(w < w)
        BY <1>1, <2>1, <2>2, <3>1, <3>2 DEF UseAt, Workers, TypeInv, TypeOK, LocalsTypeOK
      <4> QED
        BY <2>1, <3>2, <4>1 DEF UseAt, Cleaning
    <3>3. CASE e = cur /\ w # mi
      BY <1>1, <2>1, <2>2, <3>1, <3>3 DEF UseAt, Cleaning, Workers
    <3>4. CASE e # cur
      BY <1>1, <2>1, <2>2, <3>1, <3>4 DEF UseAt, Cleaning
    <3> QED
      BY <3>2, <3>3, <3>4
  <2> QED
    BY <1>1, <2>1, <2>3 DEF UseInv, CleanInv
<1>8. CASE QueueQuiet
  BY <1>1, <1>8 DEF QueueQuiet, UseInv, CleanInv, UseAt, Cleaning
<1> QED
  BY <1>1, <1>2, <1>3, <1>4, <1>5, <1>6, <1>7, <1>8, OwnerQuiet

\* A worker that found a node before it read the counters finds it after: nothing
\* is reset while it holds one.
LEMMA UseWorker ==
  ASSUME K = 1, IndInv, NEW v \in Workers, Worker(v) PROVE UseInv' /\ CleanInv'
<1>1. /\ TypeInv /\ CursorInv /\ UseInv /\ CleanInv /\ EntInv /\ LocalsTypeOK /\ mi \in Workers
      /\ alive \in [Trees -> BOOLEAN] /\ uses \in [Trees -> Nat] /\ use \in [Trees -> [Workers -> Nat]]
      /\ wpc \in [Workers -> WorkerLabels]
  BY DEF IndInv, TypeInv, TypeOK, QueueTypeOK, MyThreadTypeOK
<1>2. UNCHANGED <<mpc, mi, cur, alive, uses>>
  BY DEF Worker, Obey, Loop, WorkerQueue, First, Scan, Compare, Deref, Bump, NextEntry, Check,
     ReadOpt, See, shared, ctl, queue, parser_stream, parser_worker, Handle
<1>3. SUFFICES ASSUME NEW e \in Trees, alive[e], NEW w \in Workers PROVE UseAt(e, w)'
  BY <1>1, <1>2 DEF UseInv, CleanInv
<1>4. UseAt(e, w) /\ use[e][w] \in Nat /\ uses[e] \in Nat /\ ruse[w] \in Nat
  BY <1>1, <1>3 DEF UseInv, LocalsTypeOK
<1>5. ASSUME /\ UNCHANGED <<use, uses>>
             /\ \/ UNCHANGED <<wpc[w], ent[w], ruse[w]>>
                \/ wpc'[w] \notin {"cmp"} \cup Holding
                \/ wpc[w] \in Holding /\ wpc'[w] \in Holding /\ UNCHANGED <<ent[w]>>
      PROVE  UseAt(e, w)'
  BY <1>2, <1>4, <1>5 DEF UseAt, Cleaning, Holding
<1>6. CASE Scan(v)
  <2>1. /\ UNCHANGED <<use, ent>> /\ wpc' = [wpc EXCEPT ![v] = IF ent[v] = NULL THEN "check" ELSE "cmp"]
        /\ ruse' = IF ent[v] = NULL THEN ruse ELSE [ruse EXCEPT ![v] = use[ent[v]][v]]
    BY <1>6 DEF Scan, Move, shared, queue
  <2>2. CASE w = v /\ ent[v] # NULL
    <3>1. wpc'[w] = "cmp" /\ ruse'[w] = use[ent[w]][w] /\ ent'[w] = ent[w]
      BY <1>1, <2>1, <2>2 DEF LocalsTypeOK
    <3> QED
      BY <1>2, <1>4, <2>1, <3>1 DEF UseAt, Cleaning, Holding
  <2>3. CASE w = v /\ ent[v] = NULL
    BY <1>1, <1>2, <1>5, <2>1, <2>3 DEF Holding
  <2>4. CASE w # v
    BY <1>1, <1>2, <1>5, <2>1, <2>4 DEF LocalsTypeOK
  <2> QED
    BY <2>2, <2>3, <2>4
<1>7. CASE Compare(v)
  <2>1. /\ UNCHANGED <<use, ent>> /\ wpc[v] = "cmp"
        /\ wpc' = [wpc EXCEPT ![v] = IF ruse[v] < uses[ent[v]] THEN "deref" ELSE "next"]
        /\ ruse' = [ruse EXCEPT ![v] = 0]
    BY <1>7 DEF Compare, Move, shared, queue
  <2>2. CASE w = v /\ ent[v] = e /\ ruse[v] < uses[e]
    <3>1. use[e][w] < uses[e] /\ wpc'[w] = "deref"
      BY <1>1, <1>4, <2>1, <2>2 DEF UseAt
    <3> QED
      BY <1>2, <1>4, <2>1, <3>1 DEF UseAt, Cleaning, Holding
  <2>3. CASE w = v /\ ent[v] = e /\ ~(ruse[v] < uses[e])
    BY <1>1, <1>2, <1>5, <2>1, <2>3 DEF Holding
  <2>4. CASE w = v /\ ent[v] # e
    BY <1>1, <1>2, <1>4, <2>1, <2>4 DEF UseAt, Cleaning, Holding
  <2>5. CASE w # v
    BY <1>1, <1>2, <1>5, <2>1, <2>5 DEF LocalsTypeOK
  <2> QED
    BY <2>2, <2>3, <2>4, <2>5
<1>8. CASE Bump(v)
  <2>1. /\ UNCHANGED <<ent, ruse>> /\ wpc[v] = "bump" /\ wpc' = [wpc EXCEPT ![v] = "next"]
        /\ use' = [use EXCEPT ![ent[v]][v] = @ + Stride(v)] /\ Stride(v) = 1
    BY <1>8 DEF Bump, Move, Stride, locals
  <2>2. ent[v] \in Trees
    BY <1>1, <2>1 DEF CursorInv, Scanning, LocalsTypeOK
  <2>3. use'[e][w] = IF e = ent[v] /\ w = v THEN use[e][w] + 1 ELSE use[e][w]
    BY <1>1, <2>1, <2>2
  <2>4. CASE e = ent[v] /\ w = v
    BY <1>1, <1>2, <1>4, <2>1, <2>3, <2>4 DEF UseAt, Cleaning, Holding
  <2>5. CASE w = v /\ e # ent[v]
    BY <1>1, <1>2, <1>4, <2>1, <2>3, <2>5 DEF UseAt, Cleaning, Holding
  <2>6. CASE w # v
    BY <1>1, <1>2, <1>4, <2>1, <2>3, <2>6 DEF UseAt, Cleaning, Holding
  <2> QED
    BY <2>4, <2>5, <2>6
<1>9. CASE First(v) \/ NextEntry(v)
  <2>1. /\ UNCHANGED <<use, ruse>> /\ wpc' = [wpc EXCEPT ![v] = "scan"]
        /\ \A u \in Workers : u # v => ent'[u] = ent[u]
    BY <1>1, <1>9 DEF First, NextEntry, Move, shared, queue, LocalsTypeOK
  <2> QED
    BY <1>1, <1>2, <1>5, <2>1 DEF Holding
<1>10. CASE Deref(v) \/ parser_stream(v) \/ parser_worker(v)
  <2>1. /\ UNCHANGED <<use, ruse, ent>>
        /\ \/ wpc[v] = "deref" /\ wpc' = [wpc EXCEPT ![v] = "work"]
           \/ wpc[v] = "work" /\ wpc' = [wpc EXCEPT ![v] = "bump"]
    BY <1>10 DEF Deref, parser_stream, parser_worker, Handle, Move, shared, queue
  <2> QED
    BY <1>1, <1>2, <1>5, <2>1 DEF Holding
<1>11. CASE Check(v) \/ ReadOpt(v) \/ See(v) \/ Obey(v)
  <2>1. UNCHANGED <<use, ruse, ent>>
    BY <1>11 DEF Check, ReadOpt, See, Obey, shared, queue, locals
  <2>2. wpc'[w] = wpc[w] \/ wpc'[w] \notin {"cmp"} \cup Holding
    <3>1. CASE Check(v) \/ ReadOpt(v)
      BY <1>1, <3>1 DEF Check, ReadOpt, Move, Holding
    <3>2. CASE See(v)
      BY <1>1, <3>2 DEF See, Move, Holding
    <3>3. CASE Obey(v)
      <4>1. CASE Start(v) \/ Woken(v) \/ CloseMutex(v)
        BY <1>1, <4>1 DEF Start, Woken, CloseMutex, Acquire, Move, Holding
      <4>2. CASE Top(v)
        BY <1>1, <4>2 DEF Top, Move, Holding
      <4>3. CASE ReportWait(v) \/ Spin(v) \/ Unwait(v) \/ ReportStop(v) \/ Unstop(v) \/ ReportQuit(v)
        BY <1>1, <4>3 DEF ReportWait, Spin, Unwait, ReportStop, Unstop, ReportQuit, Move, Holding
      <4> QED
        BY <3>3, <4>1, <4>2, <4>3 DEF Obey, WorkerHandshake
    <3> QED
      BY <1>11, <3>1, <3>2, <3>3
  <2> QED
    BY <1>1, <1>2, <1>5, <2>1, <2>2
<1> QED
  BY <1>6, <1>7, <1>8, <1>9, <1>10, <1>11 DEF Worker, Loop, WorkerQueue

\* Every step preserves the relation of the counters.
LEMMA UseStep ==
  ASSUME K = 1, IndInv, [Next]_vars PROVE UseInv' /\ CleanInv'
<1>1. CASE Finished \/ UNCHANGED vars
  <2>1. UNCHANGED <<mpc, mi, cur, alive, uses, use, wpc, ent, ruse>>
    BY <1>1 DEF Finished, vars, ctl, queue, locals
  <2> QED
    BY <2>1 DEF IndInv, UseInv, CleanInv, UseAt, Cleaning
<1> QED
  BY <1>1, UseOwner, UseWorker DEF Next

\* A worker begins to leave only when the owner gives its group's flag back.
LEMMA FreshWorker ==
  ASSUME K = 1, IndInv, NEW v \in Workers, Worker(v) PROVE FreshInv'
<1>1. /\ TypeInv /\ CursorInv /\ LocalsTypeOK /\ QueueTypeOK /\ FreshInv
      /\ wpc \in [Workers -> WorkerLabels] /\ opt \in [Groups -> Opts]
  BY DEF IndInv, TypeInv, TypeOK, MyThreadTypeOK
<1>2. UNCHANGED <<mpc, call, mi, cur, opt, uses>>
  BY DEF Worker, Obey, WorkerHandshake, Start, Top, ReportWait, Spin, Unwait, ReportStop, Woken,
     Unstop, CloseMutex, ReportQuit, Acquire, Loop, WorkerQueue, First, Scan, Compare, Deref, Bump,
     NextEntry, Check, ReadOpt, See, shared, ctl, queue, thr, parser_stream, parser_worker, Handle
<1>3. ASSUME NEW w \in Workers, Leaving(w)' PROVE Leaving(w) /\ UNCHANGED <<use[cur][w]>>
  <2>1. ~Bump(v) => UNCHANGED use
    BY DEF Worker, Loop, WorkerQueue, First, Scan, Compare, Deref, NextEntry, Check, ReadOpt, See,
       parser_stream, parser_worker, Handle, Obey, shared, queue
  <2>2. Bump(v) => wpc[v] = "bump"
    BY DEF Bump, Move
  <2>3. CASE Top(v)
    <3>1. /\ w = v => wpc'[w] = IF opt[Group(w)] = "WAIT" THEN "wait" ELSE "first"
          /\ w # v => wpc'[w] = wpc[w]
      BY <1>1, <2>3 DEF Top, Move
    <3> QED
      BY <1>2, <1>3, <2>3, <2>1, <2>2, <3>1 DEF Top, Move, Leaving
  <2>4. CASE ReportWait(v) \/ Spin(v)
    <3>1. /\ w = v =>
               \/ wpc[w] = "wait" /\ wpc'[w] = "spin"
               \/ wpc[w] = "spin" /\ opt[Group(w)] # "WAIT" /\ wpc'[w] = "unwait"
          /\ w # v => wpc'[w] = wpc[w]
      <4>1. CASE ReportWait(v)
        BY <1>1, <4>1 DEF ReportWait, Move
      <4>2. CASE Spin(v)
        BY <1>1, <4>2 DEF Spin, Move
      <4> QED
        BY <2>4, <4>1, <4>2
    <3> QED
      BY <1>2, <1>3, <2>4, <2>1, <2>2, <3>1 DEF ReportWait, Spin, Move, Leaving
  <2>5. CASE Bump(v)
    <3>1. /\ wpc' = [wpc EXCEPT ![v] = "next"] /\ ent[v] \in Trees
          /\ use' = [use EXCEPT ![ent[v]][v] = @ + Stride(v)]
      BY <1>1, <2>5 DEF Bump, Move, CursorInv, Scanning, LocalsTypeOK
    <3>2. w # v /\ wpc'[w] = wpc[w]
      BY <1>1, <1>3, <3>1 DEF Leaving
    <3>3. \A e \in Trees : use'[e][w] = use[e][w]
      BY <1>1, <3>1, <3>2 DEF QueueTypeOK
    <3>4. cur \notin Trees => use'[cur] = use[cur]
      BY <1>1, <3>1 DEF QueueTypeOK
    <3> QED
      BY <1>2, <1>3, <3>2, <3>3, <3>4 DEF Leaving
  <2>6. CASE ~Top(v) /\ ~ReportWait(v) /\ ~Spin(v) /\ ~Bump(v)
    <3>1. UNCHANGED use
      BY <2>6, <2>1
    <3>2. wpc'[w] = wpc[w] \/ wpc'[w] \notin {"wait", "spin", "unwait"}
      <4>1. CASE Loop(v) \/ parser_stream(v) \/ parser_worker(v)
        <5>1. PICK l \in LoopLabels \cup {"top", "stop", "close"} : wpc' = [wpc EXCEPT ![v] = l]
          BY <4>1, LoopMoves
        <5> QED
          BY <1>1, <5>1 DEF LoopLabels
      <4>2. CASE Start(v) \/ Woken(v) \/ CloseMutex(v)
        BY <1>1, <4>2 DEF Start, Woken, CloseMutex, Acquire, Move
      <4>3. CASE Unwait(v) \/ ReportStop(v) \/ Unstop(v) \/ ReportQuit(v)
        BY <1>1, <4>3 DEF Unwait, ReportStop, Unstop, ReportQuit, Move
      <4> QED
        BY <2>6, <4>1, <4>2, <4>3 DEF Worker, Obey, WorkerHandshake
    <3> QED
      BY <1>1, <1>2, <1>3, <3>1, <3>2 DEF Leaving
  <2> QED
    BY <2>3, <2>4, <2>5, <2>6
<1> QED
  BY <1>1, <1>2, <1>3 DEF FreshInv

\* After a worker has been seen to handle the last token it cannot be leaving an
\* older suspension.
LEMMA FreshOwner ==
  ASSUME K = 1, IndInv, Owner PROVE FreshInv'
<1>1. /\ TypeInv /\ CallInv /\ UseInv /\ FreshInv /\ mi \in Workers /\ SuspendInv
      /\ alive \in [Trees -> BOOLEAN] /\ uses \in [Trees -> Nat] /\ use \in [Trees -> [Workers -> Nat]]
      /\ opt \in [Groups -> Opts]
  BY DEF IndInv, TypeInv, TypeOK, QueueTypeOK, MyThreadTypeOK
<1>2. SUFFICES ASSUME call' = "delete" PROVE FreshInv'
  BY DEF FreshInv
<1> DEFINE Idle == {"clean_uses", "clean_use", "unlink", "uncount"} \cup Suspending
<1>3. CASE Publish
  <2>1. /\ call = "delete" /\ cur \in Trees /\ alive[cur] /\ mpc = "publish"
        /\ mpc' \in {"round_wait", "queued"} /\ mi' = 0 /\ UNCHANGED <<opt, wpc, use, cur>>
        /\ uses' = [uses EXCEPT ![cur] = @ + 1]
    BY <1>1, <1>2, <1>3 DEF Publish, Goto, CallInv, Queueing, thr
  <2>2. \A w \in Workers : use'[cur][w] < uses'[cur] /\ ~(w < 0)
    <3>1. \A w \in Workers : use[cur][w] \in Nat /\ uses[cur] \in Nat /\ use[cur][w] <= uses[cur]
      BY <1>1, <2>1 DEF UseInv, UseAt, Cleaning
    <3> QED
      BY <1>1, <2>1, <3>1 DEF Workers
  <2> QED
    BY <2>1, <2>2 DEF FreshInv, Suspending
<1>4. CASE RoundWait \/ EndWait
  <2>1. /\ call = "delete" /\ cur \in Trees /\ mpc \in {"round_wait", "end_wait"}
        /\ use[cur][mi] >= uses[cur] /\ UNCHANGED <<opt, wpc, use, uses, cur>>
        /\ mi = K => mpc' \in {"clean_uses", "susp_opt"}
        /\ mi # K => mpc' = mpc /\ mi' = mi + 1
    BY <1>1, <1>2, <1>4 DEF RoundWait, EndWait, EntryDone, Goto, CallInv, Queueing, thr, queue
  <2>2. ~Leaving(mi) /\ \A w \in Workers : w < mi => ~Leaving(w)
    BY <1>1, <2>1 DEF FreshInv
  <2>3. \A w \in Workers : w <= mi => ~Leaving(w)
    BY <1>1, <2>2 DEF Workers
  <2>4. CASE mi = K
    BY <2>1, <2>3, <2>4 DEF FreshInv, Leaving, Suspending, Workers
  <2>5. CASE mi # K
    <3>1. \A w \in Workers : w < mi' => ~Leaving(w)
      BY <1>1, <2>1, <2>3, <2>5 DEF Workers
    <3> QED
      BY <1>1, <2>1, <2>5, <3>1 DEF FreshInv, Leaving, Suspending
  <2> QED
    BY <2>4, <2>5
<1>5. CASE CleanUses \/ CleanUse \/ Unlink
  <2>1. /\ call = "delete" /\ mpc \in Idle /\ mpc' \in Idle \cup {"queued"}
        /\ UNCHANGED <<opt, wpc>>
    BY <1>2, <1>5 DEF CleanUses, CleanUse, Unlink, Goto, thr
  <2> QED
    BY <1>1, <2>1 DEF FreshInv, Leaving, Suspending
<1>6. CASE Queued
  <2>1. /\ call = "delete" /\ mpc = "queued" /\ UNCHANGED <<opt, wpc, use, uses, cur>>
        /\ mpc' \in {"end_wait", "ns_wait"} /\ mi' = 0
    BY <1>2, <1>6 DEF Queued, Goto, Return, thr, queue
  <2> QED
    BY <1>1, <2>1 DEF FreshInv, Leaving, Suspending, Workers
<1>7. CASE SuspendOpt \/ SuspendWait
  <2>1. /\ call = "delete" /\ mpc \in Suspending /\ mpc' \in Suspending \cup {"unlink"}
        /\ UNCHANGED wpc /\ \A g \in Groups : opt'[g] = "WAIT" \/ opt'[g] = opt[g]
    <3>1. \A g \in Groups : opt'[g] = "WAIT" \/ opt'[g] = opt[g]
      BY <1>1, <1>7 DEF SuspendOpt, SuspendWait, thr
    <3>2. UNCHANGED wpc /\ mpc \in Suspending /\ mpc' \in Suspending \cup {"unlink"} /\ call = "delete"
      BY <1>2, <1>7 DEF SuspendOpt, SuspendWait, SuspendNext, Suspended, Goto, Suspending
    <3> QED
      BY <3>1, <3>2
  <2>2. \A w \in Workers : ~Leaving(w)
    BY <1>1, <2>1 DEF FreshInv
  <2>3. \A w \in Workers : ~Leaving(w)'
    BY <2>1, <2>2 DEF Leaving, Group, Groups
  <2> QED
    BY <2>1, <2>3 DEF FreshInv, Suspending
<1>8. CASE \/ (\E e \in Trees : Chunk(e) \/ End(e) \/ Open(e))
           \/ (\E e \in Trees, kind \in Kinds \ {"eof"} : AddToken(e, kind))
           \/ NsWait \/ Destroy \/ Link \/ CountUp \/ CountDown \/ FreeEntry
  <2>1. mpc' \in {"publish", "count", "res_opt"}
    BY <1>1, <1>2, <1>8 DEF Chunk, End, Open, AddToken, Add, NsWait, Destroy, Link, CountUp, CountDown,
       FreeEntry, Goto, Enter, Return
  <2> QED
    BY <2>1 DEF FreshInv, Suspending
<1>9. CASE /\ ResumeOpt \/ ResumeCtx \/ ResumePost \/ StopOpt \/ StopWait \/ QuitOpt \/ QuitWait \/ Join
  <2>1. mpc' \in Resuming \cup {"free", "stop_opt", "stop_wait", "quit_opt", "quit_wait", "join"}
    BY <1>1, <1>2, <1>9 DEF ResumeOpt, ResumeCtx, ResumePost, ResumeNext, Resumed, StopOpt, StopWait,
       QuitOpt, QuitWait, Join, Goto, Enter, Return, Resuming
  <2> QED
    BY <2>1 DEF FreshInv, Suspending, Resuming
<1> QED
  BY <1>3, <1>4, <1>5, <1>6, <1>7, <1>8, <1>9
  DEF Owner, Handshake, OwnerHandshake, QueueOp, OwnerQueue

\* Every step preserves this.
LEMMA FreshStep ==
  ASSUME K = 1, IndInv, [Next]_vars PROVE FreshInv'
<1>1. CASE Finished \/ UNCHANGED vars
  <2>1. UNCHANGED <<mpc, call, mi, cur, uses, use, wpc, opt>>
    BY <1>1 DEF Finished, vars, ctl, queue, thr
  <2> QED
    BY <2>1 DEF IndInv, FreshInv, Leaving
<1> QED
  BY <1>1, FreshOwner, FreshWorker DEF Next

\* A worker that the owner has been through reports that it stopped or waits,
\* and cannot take the report back: it is parked.
LEMMA ObeyWorker ==
  ASSUME IndInv, NEW v \in Workers, Worker(v) PROVE ObeyInv'
<1>1. /\ TypeInv /\ HandshakeInv /\ SuspendInv /\ ObeyInv /\ FreshInv
      /\ wpc \in [Workers -> WorkerLabels] /\ ctxOpt \in [Workers -> Opts]
  BY DEF IndInv, TypeInv, TypeOK, MyThreadTypeOK
<1>2. UNCHANGED <<mpc, call, mi>>
  BY DEF Worker, Obey, Loop, WorkerQueue, First, Scan, Compare, Deref, Bump, NextEntry, Check, ReadOpt,
     See, shared, ctl, parser_stream, parser_worker, Handle
<1>3. SUFFICES ASSUME call = "delete", mpc # "res_opt", NEW w \in Workers, Passed(w)
               PROVE  UNCHANGED <<ctxOpt[w]>>
  BY <1>1, <1>2 DEF ObeyInv, Passed
<1>4. CASE v = w
  <2>1. mpc \in Suspending \cup {"unlink", "uncount"}
    BY <1>1, <1>3 DEF Passed, TypeInv, CallInv
  <2>2. /\ Parked(v) /\ opt[Group(v)] = "WAIT"
        /\ wpc[v] \in {"start", "lock"} => mutex[v] = "locked"
    BY <1>1, <1>3, <1>4, <2>1, PassedParked
  <2>3. ~Start(v) /\ ~Woken(v) /\ ~Spin(v)
    BY <2>2 DEF Start, Woken, Acquire, Spin, Move
  <2> QED
    BY <2>2, <2>3 DEF Worker, Obey, WorkerHandshake, Top, ReportWait, Unwait, ReportStop, Unstop,
       CloseMutex, ReportQuit, Loop, WorkerQueue, First, Scan, Compare, Deref, Bump, NextEntry, Check,
       ReadOpt, See, parser_stream, parser_worker, Handle, Move, Parked
<1>5. CASE v # w
  BY <1>1, <1>5 DEF Worker, Obey, WorkerHandshake, Start, Top, ReportWait, Spin, Unwait, ReportStop, Woken,
     Unstop, CloseMutex, ReportQuit, Acquire, Report, Loop, WorkerQueue, First, Scan, Compare, Deref, Bump,
     NextEntry, Check, ReadOpt, See, shared, thr, parser_stream, parser_worker, Handle
<1> QED
  BY <1>4, <1>5

\* The owner passes a worker when it reads its report.
LEMMA ObeyOwner ==
  ASSUME IndInv, Owner PROVE ObeyInv'
<1>1. /\ TypeInv /\ CallInv /\ SuspendInv /\ ObeyInv /\ mi \in Workers
  BY DEF IndInv, TypeInv, TypeOK, MyThreadTypeOK
<1>2. SUFFICES ASSUME call' = "delete", mpc' # "res_opt", NEW w \in Workers, Passed(w)'
               PROVE  ctxOpt'[w] \in {"STOP", "WAIT"}
  BY DEF ObeyInv
<1>3. mpc' \in Suspending \cup {"link", "count", "unlink", "uncount"} /\ (mpc' \in Suspending => w < mi')
  BY <1>2 DEF Passed, Suspending
<1>4. CASE SuspendOpt
  <2>1. opt[Group(mi)] # "WAIT"
    BY <1>1, <1>4, KAssumption DEF SuspendOpt, SuspendInv, CallInv, Suspending, Group, Groups
  <2>2. mpc' = "susp_wait" /\ mi' = mi /\ call = "delete" /\ mpc = "susp_opt" /\ ctxOpt' = ctxOpt
    BY <1>2, <1>4, <2>1 DEF SuspendOpt, Goto
  <2> QED
    BY <1>1, <1>3, <2>2 DEF ObeyInv, Passed, Suspending
<1>5. CASE SuspendWait
  <2>1. /\ mpc = "susp_wait" /\ call = "delete" /\ ctxOpt' = ctxOpt /\ ctxOpt[mi] \in {"STOP", "WAIT"}
        /\ mi = K \/ mi' = mi + 1
    BY <1>2, <1>5 DEF SuspendWait, SuspendNext, Suspended, Goto, thr
  <2>2. w <= mi
    BY <1>1, <1>3, <1>5, <2>1, KAssumption DEF SuspendWait, SuspendNext, Suspended, Goto, Suspending, Workers
  <2>3. w = mi \/ Passed(w)
    BY <1>1, <2>1, <2>2 DEF Passed, Suspending, Workers
  <2> QED
    BY <1>1, <2>1, <2>3 DEF ObeyInv
<1>6. CASE Unlink
  <2>1. mpc = "unlink" /\ call = "delete" /\ ctxOpt' = ctxOpt
    BY <1>2, <1>6 DEF Unlink, Goto, thr
  <2> QED
    BY <1>1, <2>1 DEF ObeyInv, Passed
<1>7. CASE EndWait
  <2>1. mpc' = "end_wait" \/ (mpc' = "susp_opt" /\ mi' = 0)
    BY <1>7 DEF EndWait, EntryDone, Goto
  <2> QED
    BY <1>3, <2>1 DEF Suspending, Workers
<1>8. CASE \/ (\E e \in Trees : Chunk(e) \/ End(e) \/ Open(e))
           \/ (\E e \in Trees, kind \in Kinds \ {"eof"} : AddToken(e, kind))
           \/ Queued \/ NsWait \/ Destroy \/ Link \/ CountUp \/ CountDown \/ FreeEntry
           \/ Publish \/ RoundWait \/ CleanUses \/ CleanUse
  <2>1. mpc' \in {"publish", "res_opt", "end_wait", "ns_wait"} \cup Queueing
    BY <1>1, <1>2, <1>8 DEF Chunk, End, Open, AddToken, Add, Queued, NsWait, Destroy, Link, CountUp,
       CountDown, FreeEntry, Publish, RoundWait, EntryDone, CleanUses, CleanUse, Goto, Enter, Return,
       CallInv, Queueing
  <2> QED
    BY <1>3, <2>1 DEF Suspending, Queueing
<1>9. CASE ResumeOpt \/ ResumeCtx \/ ResumePost \/ StopOpt \/ StopWait \/ QuitOpt \/ QuitWait \/ Join
  <2>1. mpc' \in Resuming \cup {"free", "stop_opt", "stop_wait", "quit_opt", "quit_wait", "join"}
    BY <1>1, <1>2, <1>9 DEF ResumeOpt, ResumeCtx, ResumePost, ResumeNext, Resumed, StopOpt, StopWait,
       QuitOpt, QuitWait, Join, Goto, Enter, Return, Resuming
  <2> QED
    BY <1>3, <2>1 DEF Suspending, Resuming
<1> QED
  BY <1>4, <1>5, <1>6, <1>7, <1>8, <1>9
  DEF Owner, Handshake, OwnerHandshake, QueueOp, OwnerQueue

\* Every step preserves the reports of the workers the owner has passed.
LEMMA ObeyStep ==
  ASSUME IndInv, [Next]_vars PROVE ObeyInv'
<1>1. CASE Finished \/ UNCHANGED vars
  <2>1. UNCHANGED <<mpc, call, mi, ctxOpt>>
    BY <1>1 DEF Finished, vars, ctl, thr
  <2> QED
    BY <2>1 DEF IndInv, ObeyInv, Passed
<1> QED
  BY <1>1, ObeyOwner, ObeyWorker DEF Next

\* The initial state satisfies the whole invariant.
LEMMA IndInit == Init => IndInv
<1> SUFFICES ASSUME Init PROVE IndInv
  OBVIOUS
<1>1. TypeInv /\ HandshakeInv /\ ListInv /\ SuspendInv
  BY TypeInit, HandshakeInit, ListInit, SuspendInit
<1>2. EntInv /\ UseInv /\ CleanInv /\ ObeyInv /\ FreshInv
  BY DEF Init, MyThreadInit, ThreadQueueInit, EntInv, UseInv, CleanInv, ObeyInv, FreshInv
<1> QED
  BY <1>1, <1>2 DEF IndInv

\* The benchmark runs MyHTML with one batch thread. The invariant that the
\* theorems below rest on is inductive then.
THEOREM IndInvariant == K = 1 => (Spec => []IndInv)
<1> SUFFICES ASSUME K = 1 PROVE Spec => []IndInv
  OBVIOUS
<1>1. IndInv /\ [Next]_vars => IndInv'
  <2> SUFFICES ASSUME IndInv, [Next]_vars PROVE IndInv'
    OBVIOUS
  <2>1. TypeInv' /\ HandshakeInv' /\ ListInv' /\ SuspendInv'
    BY TypeStep, HandshakeStep, ListStep, SuspendStep DEF IndInv
  <2>2. EntInv' /\ UseInv' /\ CleanInv' /\ ObeyInv' /\ FreshInv'
    BY EntStep, UseStep, ObeyStep, FreshStep
  <2> QED
    BY <2>1, <2>2 DEF IndInv
<1> QED
  BY IndInit, <1>1, PTL DEF Spec

\* With one batch thread, no worker runs while the owner takes an entry off the
\* list.
THEOREM UnlinkIsExclusive == K = 1 => (Spec => []UnlinkExclusive)
<1> SUFFICES ASSUME K = 1 PROVE Spec => []UnlinkExclusive
  OBVIOUS
<1>1. IndInv => UnlinkExclusive
  <2> SUFFICES ASSUME IndInv, mpc \in {"unlink", "uncount"}, NEW w \in Workers PROVE Parked(w)
    BY DEF UnlinkExclusive
  <2>1. call = "delete" /\ Passed(w)
    BY DEF IndInv, TypeInv, CallInv, Passed
  <2> QED
    BY <2>1, PassedParked DEF IndInv
<1> QED
  BY <1>1, IndInvariant, PTL

\* With one batch thread, no worker stands on an entry that has been freed.
THEOREM EntryIsAlive == K = 1 => (Spec => []EntryAlive)
<1> SUFFICES ASSUME K = 1 PROVE Spec => []EntryAlive
  OBVIOUS
<1>1. IndInv => EntryAlive
  BY DEF IndInv, EntInv, In, EntryAlive
<1> QED
  BY <1>1, IndInvariant, PTL

\* With one batch thread, a round starts only when no worker holds a node of the
\* queue.
THEOREM RoundIsExclusive == K = 1 => (Spec => []RoundExclusive)
<1> SUFFICES ASSUME K = 1 PROVE Spec => []RoundExclusive
  OBVIOUS
<1>1. IndInv => RoundExclusive
  <2> SUFFICES ASSUME IndInv, mpc \in {"clean_uses", "clean_use"},
                      NEW w \in Workers, wpc[w] \in Holding, ent[w] = cur
               PROVE  FALSE
    BY DEF RoundExclusive, Holding
  <2>1. /\ cur \in Trees /\ alive[cur] /\ use[cur][w] \in Nat /\ uses[cur] \in Nat
    BY DEF IndInv, TypeInv, TypeOK, QueueTypeOK, CallInv, Queueing
  <2>2. UseAt(cur, w)
    BY <2>1 DEF IndInv, UseInv
  <2>3. use[cur][w] = uses[cur] \/ uses[cur] = 0
    BY <2>2 DEF UseAt, IndInv, CleanInv
  <2>4. use[cur][w] < uses[cur]
    BY <2>2 DEF UseAt
  <2> QED
    BY <2>1, <2>3, <2>4
<1> QED
  BY <1>1, IndInvariant, PTL

-----------------------------------------------------------------------------
(* The list has no cycle, for any number of batch threads.                   *)

\* Every step keeps the list without a cycle: an entry is appended at its end, or
\* skipped.
LEMMA AcyclicStep ==
  ASSUME TypeInv, ListInv, AcyclicInv, [Next]_vars PROVE AcyclicInv'
<1> SUFFICES ASSUME NEW S \in SUBSET Trees, S # {}, \A e \in S : In(e)'
             PROVE  \E e \in S : nxt'[e] \notin S
  BY DEF AcyclicInv
<1>1. CASE Link
  <2>1. /\ ListTypeOK /\ call = "push" /\ cur \in Trees /\ alive[cur]
        /\ mpc = "link" /\ mpc' = "count" /\ call' = "push" /\ UNCHANGED <<alive, cur>>
    BY <1>1 DEF TypeInv, TypeOK, CallInv, Link, Goto, queue
  <2>2. nxt[cur] = NULL /\ ~In(cur) /\ \A e \in S : e # cur => In(e)
    BY <2>1 DEF ListInv, In, Suspending
  <2>3. nxt' = nxt \/ (last \in Trees /\ last # cur /\ nxt' = [nxt EXCEPT ![last] = cur])
    BY <1>1, <2>2 DEF Link, ListInv
  <2>4. CASE cur \in S
    BY <2>1, <2>2, <2>3, <2>4, TreesAssumption DEF ListTypeOK
  <2>5. CASE cur \notin S
    <3>1. PICK e \in S : nxt[e] \notin S
      BY <2>2, <2>5 DEF AcyclicInv
    <3> QED
      BY <2>1, <2>3, <2>5, <3>1 DEF ListTypeOK
  <2> QED
    BY <2>4, <2>5
<1>2. CASE Unlink
  <2>1. /\ ListTypeOK /\ call = "delete" /\ cur \in Trees /\ alive[cur]
        /\ mpc = "unlink" /\ mpc' = "uncount" /\ call' = "delete" /\ UNCHANGED <<alive, cur>>
        /\ nxt' = IF prv[cur] # NULL THEN [nxt EXCEPT ![prv[cur]] = nxt[cur]] ELSE nxt
    BY <1>2 DEF TypeInv, TypeOK, CallInv, Unlink, Goto, queue
  <2>2. In(cur) /\ cur \notin S /\ \A e \in S : In(e)
    BY <2>1 DEF In, Suspending, Resuming
  <2>3. \A e \in S : nxt'[e] = IF nxt[e] = cur THEN nxt[cur] ELSE nxt[e]
    BY <2>1, <2>2, TreesAssumption DEF ListInv, ListTypeOK
  <2>4. CASE nxt[cur] \notin S
    <3>1. PICK e \in S : nxt[e] \notin S
      BY <2>2 DEF AcyclicInv
    <3> QED
      BY <2>3, <2>4, <3>1
  <2>5. CASE nxt[cur] \in S
    <3>1. PICK e \in S \cup {cur} : nxt[e] \notin S \cup {cur}
      BY <2>1, <2>2 DEF AcyclicInv
    <3> QED
      BY <2>3, <2>5, <3>1
  <2> QED
    BY <2>4, <2>5
<1>3. CASE FreeEntry
  <2>1. /\ ListTypeOK /\ call = "delete" /\ cur \in Trees /\ mpc = "free"
        /\ nxt' = [nxt EXCEPT ![cur] = NULL] /\ call' # "delete"
        /\ alive' = [alive EXCEPT ![cur] = FALSE] /\ alive \in [Trees -> BOOLEAN]
    BY <1>3 DEF TypeInv, TypeOK, QueueTypeOK, CallInv, FreeEntry, Enter, Return
  <2>2. cur \notin S /\ \A e \in S : In(e)
    BY <2>1 DEF In
  <2>3. PICK e \in S : nxt[e] \notin S
    BY <2>2 DEF AcyclicInv
  <2> QED
    BY <2>1, <2>2, <2>3 DEF ListTypeOK
<1>4. CASE \E t \in Trees : Open(t)
  <2>1. PICK t \in Trees : Open(t)
    BY <1>4
  <2>2. /\ call = "none" /\ ~alive[t] /\ cur' = t /\ mpc' = "susp_opt" /\ call' = "push"
        /\ UNCHANGED nxt /\ alive' = [alive EXCEPT ![t] = TRUE] /\ alive \in [Trees -> BOOLEAN]
    BY <2>1 DEF TypeInv, TypeOK, QueueTypeOK, CallInv, Open, Enter, list
  <2>3. \A e \in S : In(e)
    BY <2>2 DEF In, Suspending
  <2> QED
    BY <2>2, <2>3 DEF AcyclicInv
<1>5. CASE SameList
  BY <1>5 DEF SameList, AcyclicInv
<1> QED
  BY <1>1, <1>2, <1>3, <1>4, <1>5, ListSame

\* The list of queues has no cycle, for any number of threads and trees: a worker
\* that walks along it (mythread_function_queue_stream) gets to its end.
THEOREM ListIsAcyclic == Spec => []AcyclicInv
<1>1. Init => AcyclicInv
  BY DEF Init, ThreadQueueInit, AcyclicInv, In
<1>2. TypeInv /\ ListInv /\ AcyclicInv /\ [Next]_vars => AcyclicInv'
  BY AcyclicStep
<1> QED
  BY <1>1, <1>2, TypeInvariant, ListInvariant, PTL DEF Spec

-----------------------------------------------------------------------------
(* A tree is open while its entry is on the list.                            *)

\* A call that is suspending the groups goes on.
LEMMA SuspendingGoesOn ==
  ASSUME [Next]_vars, ~Link, mpc \in Suspending \cup {"link"} PROVE call' = call
<1>1. CASE Handshake
  BY <1>1 DEF Handshake, OwnerHandshake, SuspendOpt, SuspendWait, SuspendNext, Suspended,
     ResumeOpt, ResumeCtx, ResumePost, StopOpt, StopWait, QuitOpt, QuitWait, Join, Goto, Suspending
<1>2. CASE QueueOp
  BY <1>2 DEF QueueOp, OwnerQueue, CountUp, Unlink, CountDown, FreeEntry, Publish, RoundWait,
     CleanUses, CleanUse, Suspending
<1>3. CASE \/ \E e \in Trees : Open(e) \/ Chunk(e) \/ End(e)
           \/ \E e \in Trees, kind \in Kinds \ {"eof"} : AddToken(e, kind)
           \/ Queued \/ NsWait \/ EndWait \/ Destroy
  BY <1>3 DEF Open, Chunk, End, AddToken, Add, Queued, NsWait, EndWait, Destroy, Suspending
<1>4. CASE Finished \/ UNCHANGED vars
  BY <1>4 DEF Finished, vars, ctl
<1>5. ASSUME NEW w \in Workers, Worker(w) PROVE call' = call
  BY <1>5 DEF Worker, Obey, Loop, WorkerQueue, First, Scan, Compare, Deref, Bump, NextEntry, Check,
     ReadOpt, See, shared, ctl, parser_stream, parser_worker, Handle
<1> QED
  BY <1>1, <1>2, <1>3, <1>4, <1>5 DEF Next, Owner

\* What an unlinked entry still points to is on the list until it is freed.
LEMMA UnlinkedStep ==
  ASSUME TypeInv, ListInv, AcyclicInv, UnlinkedInv, [Next]_vars PROVE UnlinkedInv'
<1> SUFFICES ASSUME call' = "delete", mpc' \in Resuming \cup {"uncount", "free"}
             PROVE  nxt'[cur'] = NULL \/ In(nxt[cur])'
  BY DEF UnlinkedInv
<1>1. CASE Unlink
  <2>1. /\ ListTypeOK /\ call = "delete" /\ cur \in Trees /\ alive[cur]
        /\ mpc = "unlink" /\ mpc' = "uncount" /\ UNCHANGED <<alive, cur>>
        /\ nxt' = IF prv[cur] # NULL THEN [nxt EXCEPT ![prv[cur]] = nxt[cur]] ELSE nxt
    BY <1>1 DEF TypeInv, TypeOK, CallInv, Unlink, Goto, queue
  <2>2. In(cur) /\ \A e \in Trees : In(e)' <=> (In(e) /\ e # cur)
    BY <2>1 DEF In, Suspending, Resuming
  <2>3. nxt[cur] # cur
    <3>1. PICK e \in {cur} : nxt[e] \notin {cur}
      BY <2>1, <2>2 DEF AcyclicInv
    <3> QED
      BY <3>1
  <2>4. prv[cur] # cur /\ (nxt[cur] = NULL \/ In(nxt[cur]))
    BY <2>1, <2>2, <2>3, TreesAssumption DEF ListInv
  <2> QED
    BY <2>1, <2>2, <2>3, <2>4 DEF ListTypeOK
<1>2. CASE SameList
  <2>1. cur' \in Trees /\ alive'[cur'] /\ ~In(cur)'
    BY TypeStep DEF TypeInv, CallInv, In, Resuming
  <2>2. alive[cur'] /\ ~In(cur') /\ UNCHANGED nxt /\ \A e \in Trees : In(e)' <=> In(e)
    BY <1>2, <2>1 DEF SameList
  <2>3. ~(call = "push" /\ mpc \in Suspending \cup {"link"})
    <3>1. ~Link
      BY DEF Link, Goto, Resuming
    <3> QED
      BY <3>1, SuspendingGoesOn
  <2>4. cur' = cur /\ (nxt[cur] = NULL \/ In(nxt[cur]))
    BY <2>2, <2>3 DEF In, UnlinkedInv
  <2> QED
    BY <2>1, <2>2, <2>4 DEF TypeInv, TypeOK, ListTypeOK
<1>3. CASE Link \/ FreeEntry \/ \E t \in Trees : Open(t)
  BY <1>3 DEF Link, FreeEntry, Open, Goto, Enter, Return, TypeInv, CallInv, Resuming
<1> QED
  BY <1>1, <1>2, <1>3, ListSame

\* A tree is open, in the sense of the refinement, while its entry is on the list.
LEMMA LinkedIn ==
  ASSUME TypeInv, ListInv, UnlinkedInv, NEW e \in Trees PROVE Linked(e) <=> In(e)
<1>1. ListTypeOK
  BY DEF TypeInv, TypeOK
<1>2. In(e) => Linked(e)
  BY <1>1, TreesAssumption DEF ListInv, Linked, ListTypeOK, In
<1>3. ASSUME NEW d \in Trees, alive[d], nxt[d] = e PROVE In(e)
  <2>1. CASE In(d)
    BY <1>3, <2>1, TreesAssumption DEF ListInv
  <2>2. CASE ~In(d)
    BY <1>3, <2>2, TreesAssumption DEF ListInv, UnlinkedInv, In
  <2> QED
    BY <2>1, <2>2
<1>4. first = e => In(e)
  BY TreesAssumption DEF ListInv
<1> QED
  BY <1>2, <1>3, <1>4 DEF Linked

-----------------------------------------------------------------------------
(* The counting of the tokens: the owner's steps.                            *)

\* The steps of the owner that neither publish a token, nor start a round, nor
\* wait for the last token.
TokenQuiet ==
  /\ UNCHANGED <<alive, uses, len, use, node, wpc, ent, tok, published, handled, lastDone>>
  /\ {mpc, mpc'} \cap {"publish", "round_wait", "clean_uses", "clean_use"} = {}
  /\ call' = "delete" /\ mpc' \in Suspending \cup {"unlink"} =>
       call = "delete" /\ mpc \in Suspending /\ cur' = cur
  /\ call' = "push" /\ mpc' \in Suspending \cup {"link"} =>
       call = "push" /\ mpc \in Suspending /\ cur' = cur
  /\ mpc' = "end_wait" => mi' = 0

\* Every step of the owner but eight is of this kind.
LEMMA OwnerTokens ==
  ASSUME TypeInv, Owner
  PROVE  \/ \E e \in Trees : Open(e) \/ \E kind \in Kinds : Add(e, kind)
         \/ UNCHANGED tree /\ (FreeEntry \/ Publish \/ RoundWait \/ CleanUses \/ CleanUse)
         \/ EndWait \/ TokenQuiet
<1>1. CallInv
  BY DEF TypeInv
<1>2. CASE Handshake
  <2>1. UNCHANGED <<alive, uses, len, use, node, cur, ent, tok, published, handled, lastDone>>
    BY <1>2 DEF Handshake, queue, locals, history, tree
  <2>2. CASE SuspendOpt \/ SuspendWait
    BY <2>1, <2>2 DEF SuspendOpt, SuspendWait, SuspendNext, Suspended, Goto, Suspending, TokenQuiet
  <2>3. CASE ResumeOpt \/ ResumeCtx \/ ResumePost
    BY <2>1, <2>3 DEF ResumeOpt, ResumeCtx, ResumePost, ResumeNext, Resumed, Goto, Enter, Return,
       Suspending, TokenQuiet, thr
  <2>4. CASE StopOpt \/ StopWait \/ QuitOpt \/ QuitWait \/ Join
    BY <2>1, <2>4 DEF StopOpt, StopWait, QuitOpt, QuitWait, Join, Goto, Enter, Return, Suspending,
       TokenQuiet
  <2> QED
    BY <1>2, <2>2, <2>3, <2>4 DEF Handshake, OwnerHandshake
<1>3. CASE QueueOp /\ (Link \/ CountUp \/ Unlink \/ CountDown)
  BY <1>3 DEF QueueOp, Link, CountUp, Unlink, CountDown, Goto, queue, locals, history, tree,
     Suspending, TokenQuiet
<1>4. CASE (\E e \in Trees : Chunk(e)) \/ Queued \/ NsWait \/ Destroy
  <2>1. UNCHANGED <<alive, uses, len, use, node, wpc, ent, tok, published, handled, lastDone>>
    BY <1>4 DEF Chunk, Queued, NsWait, Destroy, queue, locals, history, tree
  <2> QED
    BY <1>1, <1>4, <2>1 DEF Chunk, Queued, NsWait, Destroy, Goto, Enter, Return, CallInv, Queueing,
       Suspending, TokenQuiet
<1> QED
  BY <1>2, <1>3, <1>4, MyHTMLKinds DEF Owner, QueueOp, OwnerQueue, End, AddToken

\* The types of what the queues and the trees count.
TokenTypes ==
  /\ mi \in Workers /\ cur \in Trees \cup {NULL}
  /\ alive \in [Trees -> BOOLEAN] /\ uses \in [Trees -> Nat] /\ len \in [Trees -> Nat]
  /\ use \in [Trees -> [Workers -> Nat]] /\ node \in [Trees -> [Slots -> Token]]
  /\ wpc \in [Workers -> WorkerLabels] /\ ent \in [Workers -> Trees \cup {NULL}]
  /\ tok \in [Workers -> Token] /\ published \in [Trees -> Nat] /\ lastDone \in [Trees -> Nat]
  /\ handled \in [Trees -> [Workers -> Seq(Nat)]]
  /\ \A e \in Trees : /\ uses[e] \in Nat /\ published[e] \in Nat
                      /\ \A w \in Workers : use[e][w] \in Nat /\ Len(handled[e][w]) \in Nat

\* They follow from the type invariant.
LEMMA TypesOfTokens == TypeInv => TokenTypes
  BY DEF TypeInv, TypeOK, MyThreadTypeOK, QueueTypeOK, LocalsTypeOK, TokenTypes

\* A tree is opened with nothing published and nothing handled.
LEMMA TokenOpen ==
  ASSUME K = 1, IndInv, TokenInv, NEW t \in Trees, Open(t) PROVE TokenInv'
<1>1. TokenTypes /\ EntInv
  BY TypesOfTokens DEF IndInv
<1>2. /\ mpc = "idle" /\ ~alive[t] /\ alive' = [alive EXCEPT ![t] = TRUE]
      /\ uses' = [uses EXCEPT ![t] = 0] /\ len' = [len EXCEPT ![t] = 0]
      /\ use' = [use EXCEPT ![t] = make_batch] /\ cur' = t
      /\ lastDone' = [lastDone EXCEPT ![t] = 0] /\ published' = [published EXCEPT ![t] = 0]
      /\ handled' = [handled EXCEPT ![t] = [w \in Workers |-> <<>>]]
      /\ mpc' = "susp_opt" /\ call' = "push" /\ UNCHANGED <<node, wpc, ent, tok>>
  BY DEF Open, Enter, locals
<1>3. make_batch \in [Workers -> Nat] /\ \A w \in Workers : make_batch[w] = 0
  BY DEF make_batch, Workers
<1>4. \A w \in Workers : ent[w] # t
  BY <1>1, <1>2, TreesAssumption DEF EntInv, In
<1>5. /\ uses'[t] = 0 /\ len'[t] = 0 /\ published'[t] = 0 /\ lastDone'[t] = 0
      /\ handled'[t] = [w \in Workers |-> <<>>]
      /\ \A w \in Workers : use'[t][w] = 0 /\ handled'[t][w] = <<>> /\ Len(handled'[t][w]) = 0
  BY <1>1, <1>2, <1>3 DEF TokenTypes
<1>6. BlockInv(t)' /\ lastDone'[t] <= Len(handled'[t][0])
  BY <1>2, <1>5, NodesSizeAssumption DEF BlockInv, Slots, Workers
<1>7. \A w \in Workers : HandledInv(t, w)'
  BY <1>2, <1>4, <1>5 DEF HandledInv, Passes, Cleaning
<1>8. ASSUME NEW e \in Trees, alive'[e], e # t
      PROVE  /\ BlockInv(e)' /\ lastDone'[e] <= Len(handled'[e][0])
             /\ \A w \in Workers : HandledInv(e, w)'
  <2>1. /\ alive[e] /\ uses'[e] = uses[e] /\ len'[e] = len[e] /\ use'[e] = use[e]
        /\ published'[e] = published[e] /\ handled'[e] = handled[e] /\ lastDone'[e] = lastDone[e]
        /\ BlockInv(e) /\ lastDone[e] <= Len(handled[e][0]) /\ \A w \in Workers : HandledInv(e, w)
    BY <1>1, <1>2, <1>8 DEF TokenTypes, TokenInv
  <2>2. BlockInv(e)'
    BY <1>2, <1>8, <2>1 DEF BlockInv
  <2>3. \A w \in Workers : HandledInv(e, w)'
    BY <1>2, <1>8, <2>1 DEF HandledInv, Passes, Cleaning
  <2> QED
    BY <2>1, <2>2, <2>3
<1> QED
  BY <1>2, <1>5, <1>6, <1>7, <1>8 DEF TokenInv

\* A token is put in the free node after the published ones.
LEMMA TokenAdd ==
  ASSUME IndInv, TokenInv, NEW t \in Trees, NEW kind \in Kinds, Add(t, kind) PROVE TokenInv'
<1>1. TokenTypes
  BY TypesOfTokens DEF IndInv
<1>2. /\ mpc = "idle" /\ alive[t] /\ cur' = t /\ mpc' = "publish" /\ call' \in {"delete", "none"}
      /\ node' = [node EXCEPT ![t][len[t]] = [no |-> published[t] + 1, kind |-> kind]]
      /\ UNCHANGED <<alive, uses, len, use, wpc, ent, tok, published, handled, lastDone>>
  BY DEF Add, Enter, locals, history
<1>3. ASSUME NEW e \in Trees, alive[e] PROVE BlockInv(e)'
  <2>1. BlockInv(e) /\ len[e] < NodesSize /\ len[e] = uses[e] /\ uses[e] \in Nat
    BY <1>1, <1>2, <1>3 DEF TokenTypes, TokenInv, BlockInv
  <2>2. CASE e = t
    <3>1. node[t] \in [Slots -> Token] /\ len[t] \in Slots
      BY <1>1, <2>1, <2>2, NodesSizeAssumption DEF TokenTypes, Slots
    <3>2. /\ node'[t][len[t]].no = published[t] + 1
          /\ \A s \in Slots : s # len[t] => node'[t][s] = node[t][s]
      BY <1>1, <1>2, <3>1 DEF TokenTypes
    <3>3. \A s \in Slots : s < uses[t] => s # len[t]
      BY <2>1, <2>2 DEF Slots
    <3> QED
      BY <1>2, <2>1, <2>2, <3>2, <3>3 DEF BlockInv
  <2>3. CASE e # t
    <3>1. node'[e] = node[e]
      BY <1>1, <1>2, <2>3 DEF TokenTypes
    <3> QED
      BY <1>2, <2>1, <2>3, <3>1 DEF BlockInv
  <2> QED
    BY <2>2, <2>3
<1>4. ASSUME NEW e \in Trees, alive[e], NEW w \in Workers PROVE HandledInv(e, w)'
  <2>1. HandledInv(e, w)
    BY <1>4 DEF TokenInv
  <2> QED
    BY <1>2, <2>1 DEF HandledInv, Passes, Cleaning, Suspending
<1> QED
  BY <1>2, <1>3, <1>4 DEF TokenInv

\* What a step of the owner on the current entry leaves alone.
OthersSame ==
  /\ UNCHANGED <<alive, node, cur, call, wpc, ent, tok, handled, lastDone>>
  /\ cur \in Trees /\ alive[cur] /\ mpc \in Queueing \cup {"end_wait"} /\ call # "push"
  /\ \A e \in Trees : e # cur =>
       uses'[e] = uses[e] /\ len'[e] = len[e] /\ use'[e] = use[e] /\ published'[e] = published[e]

\* After such a step only the current entry is to be looked at.
LEMMA TokenCurrent ==
  ASSUME TokenInv, OthersSame, BlockInv(cur)', \A w \in Workers : HandledInv(cur, w)'
  PROVE  TokenInv'
<1>1. ASSUME NEW e \in Trees, alive[e], e # cur
      PROVE  BlockInv(e)' /\ \A w \in Workers : HandledInv(e, w)'
  <2>1. BlockInv(e) /\ \A w \in Workers : HandledInv(e, w)
    BY <1>1 DEF TokenInv
  <2> QED
    BY <1>1, <2>1 DEF OthersSame, BlockInv, HandledInv, Passes, Cleaning
<1> QED
  BY <1>1 DEF TokenInv, OthersSame

\* The token in the free node is published.
LEMMA TokenPublish ==
  ASSUME IndInv, TokenInv, Publish, UNCHANGED tree PROVE TokenInv'
<1>1. TokenTypes
  BY TypesOfTokens DEF IndInv
<1>2. /\ mpc = "publish" /\ call' = call /\ len' = [len EXCEPT ![cur] = @ + 1]
      /\ uses' = [uses EXCEPT ![cur] = @ + 1] /\ published' = [published EXCEPT ![cur] = @ + 1]
      /\ mpc' = IF len[cur] + 1 >= NodesSize THEN "round_wait" ELSE "queued"
      /\ UNCHANGED <<alive, use, node, cur, wpc, ent, tok, handled, lastDone>>
  BY DEF Publish, Goto, locals, tree
<1>3. OthersSame
  BY <1>1, <1>2 DEF OthersSame, TokenTypes, IndInv, TypeInv, CallInv, Queueing
<1>4. /\ BlockInv(cur) /\ \A w \in Workers : HandledInv(cur, w)
      /\ uses'[cur] = uses[cur] + 1 /\ len'[cur] = len[cur] + 1
      /\ published'[cur] = published[cur] + 1 /\ uses[cur] \in Nat /\ published[cur] \in Nat
  BY <1>1, <1>2, <1>3 DEF OthersSame, TokenTypes, TokenInv
<1>5. BlockInv(cur)'
  <2>1. \A s \in Slots : s < uses[cur] + 1 => node[cur][s].no = published[cur] - uses[cur] + s + 1
    BY <1>2, <1>4 DEF BlockInv, Slots
  <2> QED
    BY <1>2, <1>4, <2>1, NodesSizeAssumption DEF BlockInv, Slots
<1>6. \A w \in Workers : HandledInv(cur, w)'
  BY <1>1, <1>2, <1>3, <1>4 DEF OthersSame, HandledInv, Passes, Cleaning, Suspending, TokenTypes
<1> QED
  BY <1>3, <1>5, <1>6, TokenCurrent

\* The wait before a round, and the wait for the last token of a parse: each
\* thread_param that has passed counts what is published.
LEMMA TokenWait ==
  ASSUME IndInv, TokenInv, (RoundWait /\ UNCHANGED tree) \/ EndWait PROVE TokenInv'
<1>1. TokenTypes /\ UseInv
  BY TypesOfTokens DEF IndInv
<1>2. /\ use[cur][mi] >= uses[cur] /\ UNCHANGED <<call, alive, uses, len, use, node, cur>>
      /\ UNCHANGED <<wpc, ent, tok, published, handled, lastDone>>
      /\ \/ mpc = "round_wait" /\ mpc' \in {"round_wait", "clean_uses"}
         \/ mpc = "end_wait" /\ mi = K /\ mpc' = "susp_opt"
         \/ mpc = "end_wait" /\ mi # K /\ mpc' = "end_wait" /\ mi' = mi + 1
  BY DEF RoundWait, EndWait, EntryDone, Goto, queue, locals, history, tree
<1>3. OthersSame
  BY <1>1, <1>2 DEF OthersSame, TokenTypes, IndInv, TypeInv, CallInv, Queueing
<1>4. BlockInv(cur) /\ \A w \in Workers : HandledInv(cur, w) /\ UseAt(cur, w)
  BY <1>1, <1>3 DEF OthersSame, TokenInv, UseInv
<1>5. BlockInv(cur)'
  BY <1>2, <1>4 DEF BlockInv
<1>6. use[cur][mi] = uses[cur]
  <2>1. UseAt(cur, mi) /\ use[cur][mi] \in Nat /\ uses[cur] \in Nat /\ mpc # "clean_use"
    BY <1>1, <1>2, <1>3, <1>4 DEF OthersSame, TokenTypes
  <2> QED
    BY <1>2, <2>1 DEF UseAt, Cleaning
<1>7. ASSUME mpc = "end_wait", call = "delete", NEW w \in Workers, w < mi + 1
      PROVE  use[cur][w] = uses[cur]
  <2>1. w < mi \/ w = mi
    BY <1>1, <1>7 DEF TokenTypes, Workers
  <2> QED
    BY <1>4, <1>6, <1>7, <2>1 DEF HandledInv
<1>8. ASSUME NEW w \in Workers PROVE HandledInv(cur, w)'
  <2>1. w < K + 1
    BY KAssumption DEF Workers
  <2> QED
    BY <1>2, <1>4, <1>7, <2>1 DEF HandledInv, Passes, Cleaning, Suspending
<1> QED
  BY <1>3, <1>5, <1>8, TokenCurrent

\* A round starts: what was published stays published, in earlier rounds.
LEMMA TokenCleanUses ==
  ASSUME IndInv, TokenInv, CleanUses, UNCHANGED tree PROVE TokenInv'
<1>1. TokenTypes /\ UseInv
  BY TypesOfTokens DEF IndInv
<1>2. /\ mpc = "clean_uses" /\ mpc' = "clean_use" /\ call' = call
      /\ uses' = [uses EXCEPT ![cur] = 0] /\ len' = [len EXCEPT ![cur] = 0]
      /\ UNCHANGED <<alive, use, node, cur, wpc, ent, tok, published, handled, lastDone>>
  BY DEF CleanUses, Goto, locals, history, tree
<1>3. OthersSame
  BY <1>1, <1>2 DEF OthersSame, TokenTypes, IndInv, TypeInv, CallInv, Queueing
<1>4. /\ BlockInv(cur) /\ \A w \in Workers : HandledInv(cur, w) /\ UseAt(cur, w)
      /\ uses'[cur] = 0 /\ len'[cur] = 0 /\ published[cur] \in Nat
  BY <1>1, <1>2, <1>3 DEF OthersSame, TokenInv, UseInv, TokenTypes
<1>5. BlockInv(cur)'
  BY <1>2, <1>4, NodesSizeAssumption DEF BlockInv, Slots
<1>6. \A w \in Workers : HandledInv(cur, w)'
  BY <1>1, <1>2, <1>3, <1>4 DEF OthersSame, TokenTypes, HandledInv, UseAt, Passes, Cleaning,
     Suspending
<1> QED
  BY <1>3, <1>5, <1>6, TokenCurrent

\* The reset of the last thread_param ends the round's start.
LEMMA TokenCleanUse ==
  ASSUME K = 1, IndInv, TokenInv, CleanUse, UNCHANGED tree PROVE TokenInv'
<1>1. TokenTypes /\ UseInv /\ CleanInv
  BY TypesOfTokens DEF IndInv
<1>2. /\ mpc = "clean_use" /\ mpc' = (IF mi = K THEN "queued" ELSE "clean_use") /\ call' = call
      /\ use' = [use EXCEPT ![cur][mi] = 0]
      /\ UNCHANGED <<alive, uses, len, node, cur, wpc, ent, tok, published, handled, lastDone>>
  BY DEF CleanUse, Goto, locals, history, tree
<1>3. OthersSame
  BY <1>1, <1>2 DEF OthersSame, TokenTypes, IndInv, TypeInv, CallInv, Queueing
<1>4. /\ BlockInv(cur) /\ \A w \in Workers : HandledInv(cur, w) /\ UseAt(cur, w)
      /\ uses[cur] = 0 /\ published[cur] \in Nat
  BY <1>1, <1>2, <1>3 DEF OthersSame, TokenInv, UseInv, TokenTypes, CleanInv
<1>5. BlockInv(cur)'
  BY <1>2, <1>4 DEF BlockInv
<1>6. mi = K => \A w \in Workers : use'[cur][w] = 0
  BY <1>1, <1>2, <1>3, <1>4 DEF OthersSame, TokenTypes, UseAt, Workers
<1>7. \A w \in Workers : HandledInv(cur, w)'
  BY <1>1, <1>2, <1>3, <1>4, <1>6 DEF OthersSame, HandledInv, Passes, Cleaning, Suspending
<1> QED
  BY <1>3, <1>5, <1>7, TokenCurrent

\* The owner's steps keep the counting right.
LEMMA TokenOwner ==
  ASSUME K = 1, IndInv, TokenInv, Owner PROVE TokenInv'
<1>1. TypeInv /\ CallInv /\ TokenTypes
  BY TypesOfTokens DEF IndInv, TypeInv
<1>2. CASE FreeEntry /\ UNCHANGED tree
  <2>1. /\ mpc = "free" /\ mpc' \in {"stop_opt", "idle"} /\ call' \in {"pause", "none"}
        /\ alive' = [alive EXCEPT ![cur] = FALSE]
        /\ UNCHANGED <<uses, len, use, node, wpc, ent, tok, published, handled, lastDone>>
    BY <1>2 DEF FreeEntry, Enter, Return, locals, history, tree
  <2>2. \A e \in Trees : alive'[e] => alive[e]
    BY <1>1, <2>1 DEF TokenTypes
  <2> QED
    BY <2>1, <2>2 DEF TokenInv, BlockInv, HandledInv, Passes, Cleaning
<1>3. CASE TokenQuiet
  <2>1. ASSUME NEW e \in Trees, alive[e]
        PROVE  BlockInv(e)' /\ \A w \in Workers : HandledInv(e, w)'
    <3>1. BlockInv(e) /\ (\A w \in Workers : HandledInv(e, w)) /\ \A w \in Workers : ~(w < 0)
      BY <2>1 DEF TokenInv, Workers
    <3> QED
      BY <1>3, <3>1 DEF TokenQuiet, BlockInv, HandledInv, Passes, Cleaning
  <2> QED
    BY <1>3, <2>1 DEF TokenQuiet, TokenInv
<1> QED
  BY <1>1, <1>2, <1>3, OwnerTokens, TokenOpen, TokenAdd, TokenPublish, TokenWait, TokenCleanUses,
     TokenCleanUse

-----------------------------------------------------------------------------
(* The counting of the tokens: the workers' steps.                           *)

\* A worker that stands at a node has all nodes before it behind it.
LEMMA HeldNode ==
  ASSUME IndInv, TokenInv, NEW w \in Workers, wpc[w] \in Holding
  PROVE  /\ ent[w] \in Trees /\ In(ent[w]) /\ use[ent[w]][w] < uses[ent[w]]
         /\ ~Cleaning(ent[w]) /\ uses[ent[w]] <= published[ent[w]] /\ uses[ent[w]] <= NodesSize
         /\ wpc[w] # "bump" =>
              Len(handled[ent[w]][w]) = published[ent[w]] - uses[ent[w]] + use[ent[w]][w]
<1>1. TokenTypes /\ CursorInv /\ EntInv /\ UseInv /\ CleanInv
  BY TypesOfTokens DEF IndInv, TypeInv
<1>2. ent[w] \in Trees /\ In(ent[w]) /\ alive[ent[w]]
  BY <1>1 DEF TokenTypes, CursorInv, Holding, Scanning, EntInv, In
<1>3. UseAt(ent[w], w) /\ BlockInv(ent[w]) /\ HandledInv(ent[w], w)
  BY <1>2, <1>1 DEF UseInv, TokenInv
<1>4. use[ent[w]][w] \in Nat /\ uses[ent[w]] \in Nat /\ use[ent[w]][w] < uses[ent[w]]
  BY <1>1, <1>2, <1>3 DEF UseAt, TokenTypes
<1>5. ~Cleaning(ent[w])
  BY <1>1, <1>4 DEF Cleaning, CleanInv
<1> QED
  BY <1>2, <1>3, <1>4, <1>5, NodesSizeAssumption DEF BlockInv, HandledInv, Passes

\* A step of a worker is followed by looking at what this worker has handled.
LEMMA TokenMover ==
  ASSUME IndInv, TokenInv, NEW v \in Workers,
         UNCHANGED <<mpc, call, mi, alive, uses, len, node, cur, published>>,
         \A w \in Workers \ {v} :
           /\ wpc'[w] = wpc[w] /\ ent'[w] = ent[w] /\ tok'[w] = tok[w]
           /\ \A e \in Trees : use'[e][w] = use[e][w] /\ handled'[e][w] = handled[e][w],
         \A e \in Trees : alive[e] => HandledInv(e, v)' /\ lastDone'[e] <= Len(handled'[e][0]),
         \A e \in Trees : ~In(e) => handled'[e] = handled[e]
  PROVE  TokenInv'
<1>1. ASSUME NEW e \in Trees, alive[e] PROVE BlockInv(e)'
  <2>1. BlockInv(e)
    BY <1>1 DEF TokenInv
  <2> QED
    BY <2>1 DEF BlockInv
<1>2. ASSUME NEW e \in Trees, alive[e], NEW w \in Workers PROVE HandledInv(e, w)'
  <2>1. CASE w = v
    BY <1>2, <2>1
  <2>2. CASE w # v
    <3>1. HandledInv(e, w) /\ w \in Workers \ {v}
      BY <1>2, <2>2 DEF TokenInv
    <3> QED
      BY <3>1 DEF HandledInv, Passes, Cleaning
  <2> QED
    BY <2>1, <2>2
<1>3. call' = "push" /\ mpc' \in Suspending \cup {"link"} =>
        published'[cur'] = 0 /\ handled'[cur'] = [w \in Workers |-> <<>>]
  BY DEF IndInv, TypeInv, CallInv, In, TokenInv, Suspending
<1> QED
  BY <1>1, <1>2, <1>3 DEF TokenInv

\* A worker takes the token of the node it stands at.
LEMMA TokenDeref ==
  ASSUME IndInv, TokenInv, NEW v \in Workers, Deref(v), UNCHANGED tree PROVE TokenInv'
<1>1. TokenTypes
  BY TypesOfTokens DEF IndInv
<1>2. /\ wpc[v] = "deref" /\ wpc' = [wpc EXCEPT ![v] = "work"]
      /\ tok' = [tok EXCEPT ![v] = node[ent[v]][use[ent[v]][v] % NodesSize]]
      /\ UNCHANGED <<mpc, call, mi, alive, uses, len, use, node>>
      /\ UNCHANGED <<cur, ent, published, handled, lastDone>>
  BY DEF Deref, Move, shared, ctl, queue, history, tree
<1>3. /\ ent[v] \in Trees /\ In(ent[v]) /\ use[ent[v]][v] < uses[ent[v]]
      /\ uses[ent[v]] <= NodesSize /\ BlockInv(ent[v])
      /\ Len(handled[ent[v]][v]) = published[ent[v]] - uses[ent[v]] + use[ent[v]][v]
  BY <1>2, HeldNode DEF Holding, TokenInv, In
<1>4. use[ent[v]][v] \in Slots /\ use[ent[v]][v] % NodesSize = use[ent[v]][v]
  <2>1. use[ent[v]][v] \in Nat /\ uses[ent[v]] \in Nat
    BY <1>1, <1>3 DEF TokenTypes
  <2> QED
    BY <1>3, <2>1, NodesSizeAssumption DEF Slots
<1>5. tok'[v].no = Len(handled[ent[v]][v]) + 1
  BY <1>1, <1>2, <1>3, <1>4 DEF BlockInv, TokenTypes
<1>6. ASSUME NEW e \in Trees, alive[e]
      PROVE  HandledInv(e, v)' /\ lastDone'[e] <= Len(handled'[e][0])
  <2>1. HandledInv(e, v) /\ lastDone[e] <= Len(handled[e][0])
    BY <1>6 DEF TokenInv
  <2>2. wpc'[v] = "work"
    BY <1>1, <1>2 DEF TokenTypes
  <2> QED
    BY <1>2, <1>5, <2>1, <2>2 DEF HandledInv, Passes, Cleaning
<1>7. \A w \in Workers \ {v} : wpc'[w] = wpc[w] /\ tok'[w] = tok[w]
  BY <1>1, <1>2 DEF TokenTypes
<1> QED
  BY <1>2, <1>6, <1>7, TokenMover

\* A worker handles the token it has taken, the next one after those it has
\* handled.
LEMMA TokenHandle ==
  ASSUME IndInv, TokenInv, NEW v \in Workers, parser_stream(v) \/ parser_worker(v)
  PROVE  TokenInv'
<1>1. TokenTypes
  BY TypesOfTokens DEF IndInv
<1>2. /\ wpc[v] = "work" /\ wpc' = [wpc EXCEPT ![v] = "bump"]
      /\ tok' = [tok EXCEPT ![v] = NoToken]
      /\ handled' = [handled EXCEPT ![ent[v]][v] = Append(@, tok[v].no)]
      /\ UNCHANGED <<mpc, call, mi, alive, uses, len, use, node, cur, ent, published>>
      /\ lastDone' = lastDone \/ (v = 0 /\ lastDone' = [lastDone EXCEPT ![ent[v]] = tok[v].no])
  BY DEF parser_stream, parser_worker, Handle, Move, ctl, queue
<1>3. ent[v] \in Trees /\ In(ent[v]) /\ ~Cleaning(ent[v]) /\ use[ent[v]][v] < uses[ent[v]]
  BY <1>2, HeldNode DEF Holding
<1>4. tok[v].no = Len(handled[ent[v]][v]) + 1 /\ tok[v].no \in Nat
  BY <1>1, <1>2, <1>3 DEF TokenInv, HandledInv, In, TokenTypes, Token
<1>5. /\ \A e \in Trees, w \in Workers : e # ent[v] \/ w # v => handled'[e][w] = handled[e][w]
      /\ handled'[ent[v]][v] = Append(handled[ent[v]][v], tok[v].no)
      /\ \A e \in Trees : e # ent[v] => handled'[e] = handled[e]
  BY <1>1, <1>2, <1>3 DEF TokenTypes
<1>6. Len(handled'[ent[v]][v]) = Len(handled[ent[v]][v]) + 1
  <2>1. handled[ent[v]][v] \in Seq(Nat)
    BY <1>1, <1>3 DEF TokenTypes
  <2> QED
    BY <1>4, <1>5, <2>1
<1>7. ASSUME NEW e \in Trees, alive[e] PROVE HandledInv(e, v)'
  <2>1. HandledInv(e, v) /\ wpc'[v] = "bump"
    BY <1>1, <1>2, <1>7 DEF TokenInv, TokenTypes
  <2> QED
    BY <1>2, <1>3, <1>5, <1>6, <2>1 DEF HandledInv, Passes, Cleaning
<1>8. ASSUME NEW e \in Trees, alive[e] PROVE lastDone'[e] <= Len(handled'[e][0])
  <2>1. lastDone[e] <= Len(handled[e][0]) /\ lastDone[e] \in Nat /\ Len(handled[e][0]) \in Nat
    BY <1>1, <1>8 DEF TokenInv, TokenTypes, Workers
  <2>2. CASE v = 0 /\ e = ent[v]
    BY <1>1, <1>2, <1>4, <1>6, <2>1, <2>2 DEF TokenTypes
  <2>3. CASE ~(v = 0 /\ e = ent[v])
    <3>1. 0 \in Workers /\ handled'[e][0] = handled[e][0]
      BY <1>5, <2>3, KAssumption DEF Workers
    <3>2. lastDone'[e] = lastDone[e]
      BY <1>1, <1>2, <2>3 DEF TokenTypes
    <3> QED
      BY <2>1, <3>1, <3>2
  <2> QED
    BY <2>2, <2>3
<1>9. \A w \in Workers \ {v} : wpc'[w] = wpc[w] /\ tok'[w] = tok[w]
  BY <1>1, <1>2 DEF TokenTypes
<1> QED
  BY <1>2, <1>3, <1>5, <1>7, <1>8, <1>9, TokenMover

\* A worker counts the token it has handled.
LEMMA TokenBump ==
  ASSUME K = 1, IndInv, TokenInv, NEW v \in Workers, Bump(v), UNCHANGED tree PROVE TokenInv'
<1>1. TokenTypes
  BY TypesOfTokens DEF IndInv
<1>2. /\ wpc[v] = "bump" /\ wpc' = [wpc EXCEPT ![v] = "next"] /\ Stride(v) = 1
      /\ use' = [use EXCEPT ![ent[v]][v] = @ + Stride(v)]
      /\ UNCHANGED <<mpc, call, mi, alive, uses, len, node, cur>>
      /\ UNCHANGED <<ent, tok, published, handled, lastDone>>
  BY DEF Bump, Move, ctl, locals, history, tree, Stride
<1>3. ent[v] \in Trees /\ In(ent[v]) /\ ~Cleaning(ent[v]) /\ use[ent[v]][v] < uses[ent[v]]
  BY <1>2, HeldNode DEF Holding
<1>4. \A e \in Trees, w \in Workers :
        use'[e][w] = IF e = ent[v] /\ w = v THEN use[e][w] + 1 ELSE use[e][w]
  BY <1>1, <1>2, <1>3 DEF TokenTypes
<1>5. ASSUME NEW e \in Trees, alive[e]
      PROVE  HandledInv(e, v)' /\ lastDone'[e] <= Len(handled'[e][0])
  <2>1. HandledInv(e, v) /\ lastDone[e] <= Len(handled[e][0]) /\ wpc'[v] = "next"
    BY <1>1, <1>2, <1>5 DEF TokenInv, TokenTypes
  <2>2. use[e][v] \in Nat /\ uses[e] \in Nat /\ published[e] \in Nat
    BY <1>1 DEF TokenTypes
  <2>3. CASE e = ent[v]
    BY <1>2, <1>3, <1>4, <2>1, <2>2, <2>3 DEF HandledInv, Passes, Cleaning
  <2>4. CASE e # ent[v]
    BY <1>2, <1>4, <2>1, <2>4 DEF HandledInv, Passes, Cleaning
  <2> QED
    BY <2>3, <2>4
<1>6. \A w \in Workers \ {v} : wpc'[w] = wpc[w] /\ \A e \in Trees : use'[e][w] = use[e][w]
  BY <1>1, <1>2, <1>4 DEF TokenTypes
<1> QED
  BY <1>2, <1>5, <1>6, TokenMover

\* The steps of a worker that handle nothing.
LEMMA WorkerTokens ==
  ASSUME TypeInv, NEW v \in Workers, Worker(v)
  PROVE  \/ UNCHANGED tree /\ (Deref(v) \/ Bump(v))
         \/ parser_stream(v) \/ parser_worker(v)
         \/ /\ UNCHANGED <<mpc, call, mi, alive, uses, len, use, node>>
            /\ UNCHANGED <<cur, tok, published, handled, lastDone>>
            /\ wpc[v] \notin {"work", "bump"} /\ wpc'[v] \notin {"work", "bump"}
            /\ \A w \in Workers \ {v} : wpc'[w] = wpc[w] /\ ent'[w] = ent[w]
<1>1. wpc \in [Workers -> WorkerLabels] /\ ent \in [Workers -> Trees \cup {NULL}]
  BY DEF TypeInv, TypeOK, MyThreadTypeOK, LocalsTypeOK
<1>2. CASE UNCHANGED tree /\ (First(v) \/ Scan(v) \/ Compare(v) \/ NextEntry(v) \/ Check(v)
                              \/ ReadOpt(v) \/ See(v))
  <2>1. /\ UNCHANGED <<mpc, call, mi, alive, uses, len, use, node>>
        /\ UNCHANGED <<cur, tok, published, handled, lastDone>>
    BY <1>2 DEF First, Scan, Compare, NextEntry, Check, ReadOpt, See, shared, ctl, queue,
       locals, history, tree
  <2>2. \E from, to \in WorkerLabels \ {"work", "bump"} : Move(v, from, to)
    BY <1>2 DEF First, Scan, Compare, NextEntry, Check, ReadOpt, See, WorkerLabels
  <2>3. \A w \in Workers \ {v} : ent'[w] = ent[w]
    BY <1>1, <1>2 DEF First, Scan, Compare, NextEntry, Check, ReadOpt, See, locals
  <2> QED
    BY <1>1, <2>1, <2>2, <2>3 DEF Move
<1>3. CASE Obey(v)
  <2>1. /\ UNCHANGED <<mpc, call, mi, alive, uses, len, use, node, cur>>
        /\ UNCHANGED <<tok, ent, published, handled, lastDone>>
    BY <1>3 DEF Obey, ctl, queue, locals, history, tree
  <2>2. \E from, to \in WorkerLabels \ {"work", "bump"} : Move(v, from, to)
    BY <1>3 DEF Obey, WorkerHandshake, Start, Top, ReportWait, Spin, Unwait, ReportStop,
       Woken, Unstop, CloseMutex, ReportQuit, Acquire, WorkerLabels
  <2> QED
    BY <1>1, <2>1, <2>2 DEF Move
<1> QED
  BY <1>2, <1>3 DEF Worker, Loop, WorkerQueue

\* Every step keeps the counting right.
LEMMA TokenStep ==
  ASSUME K = 1, IndInv, TokenInv, [Next]_vars PROVE TokenInv'
<1>1. CASE Finished \/ UNCHANGED vars
  <2>1. /\ UNCHANGED <<mpc, call, mi, alive, uses, len, use, node, cur>>
        /\ UNCHANGED <<wpc, ent, tok, published, handled, lastDone>>
    BY <1>1 DEF Finished, vars, ctl, queue, locals, history, tree
  <2> QED
    BY <2>1 DEF TokenInv, BlockInv, HandledInv, Passes, Cleaning
<1>2. ASSUME NEW v \in Workers, Worker(v) PROVE TokenInv'
  <2>1. CASE /\ UNCHANGED <<mpc, call, mi, alive, uses, len, use, node>>
             /\ UNCHANGED <<cur, tok, published, handled, lastDone>>
             /\ wpc[v] \notin {"work", "bump"} /\ wpc'[v] \notin {"work", "bump"}
             /\ \A w \in Workers \ {v} : wpc'[w] = wpc[w] /\ ent'[w] = ent[w]
    <3>1. ASSUME NEW e \in Trees, alive[e]
          PROVE  HandledInv(e, v)' /\ lastDone'[e] <= Len(handled'[e][0])
      <4>1. HandledInv(e, v) /\ lastDone[e] <= Len(handled[e][0])
        BY <3>1 DEF TokenInv
      <4> QED
        BY <2>1, <4>1 DEF HandledInv, Passes, Cleaning
    <3> QED
      BY <2>1, <3>1, TokenMover
  <2> QED
    BY <1>2, <2>1, WorkerTokens, TokenDeref, TokenBump, TokenHandle DEF IndInv
<1> QED
  BY <1>1, <1>2, TokenOwner DEF Next

\* The invariant of this module, on top of IndInv.
THEOREM PipeInvariant == K = 1 => (Spec => []PipeInv)
<1> SUFFICES ASSUME K = 1 PROVE Spec => []PipeInv
  OBVIOUS
<1>1. Init => PipeInv
  BY DEF Init, MyThreadInit, ThreadQueueInit, PipeInv, AcyclicInv, UnlinkedInv, TokenInv, In
<1>2. IndInv /\ PipeInv /\ [Next]_vars => PipeInv'
  BY AcyclicStep, UnlinkedStep, TokenStep DEF PipeInv, IndInv
<1> QED
  BY <1>1, <1>2, IndInvariant, PTL DEF Spec

\* With one batch thread, the stream worker is not at work on a tree when the
\* owner, having waited for the last token, reads it.
THEOREM TreeReadIsExclusive == K = 1 => (Spec => []TreeReadExclusive)
<1> SUFFICES ASSUME K = 1 PROVE Spec => []TreeReadExclusive
  OBVIOUS
<1>1. IndInv /\ PipeInv => TreeReadExclusive
  <2> SUFFICES ASSUME IndInv, PipeInv, mpc = "ns_wait", lastDone[cur] = published[cur],
                      wpc[0] \in {"deref", "work"}, ent[0] = cur
               PROVE  FALSE
    BY DEF TreeReadExclusive
  <2>1. 0 \in Workers /\ TokenTypes /\ TokenInv /\ cur \in Trees /\ alive[cur]
    BY TypesOfTokens DEF Workers, IndInv, TypeInv, CallInv, PipeInv
  <2>2. lastDone[cur] <= Len(handled[cur][0])
    BY <2>1 DEF TokenInv
  <2>3. /\ use[cur][0] < uses[cur] /\ uses[cur] <= published[cur]
        /\ Len(handled[cur][0]) = published[cur] - uses[cur] + use[cur][0]
    BY <2>1, HeldNode DEF Holding
  <2> QED
    BY <2>1, <2>2, <2>3 DEF TokenTypes
<1> QED
  BY <1>1, IndInvariant, PipeInvariant, PTL

-----------------------------------------------------------------------------
(* The refinement of TokenPipeline.                                          *)

\* What TokenPipeline sees of the trees, by the entries on the list.
Shown ==
  /\ [e \in Trees |-> Linked(e)] = [e \in Trees |-> In(e)]
  /\ [e \in Trees |-> IF Linked(e) THEN published[e] ELSE 0]
       = [e \in Trees |-> IF In(e) THEN published[e] ELSE 0]
  /\ [e \in Trees |-> IF Linked(e) THEN handled[e] ELSE [w \in Workers |-> <<>>]]
       = [e \in Trees |-> IF In(e) THEN handled[e] ELSE [w \in Workers |-> <<>>]]

\* The mapping of MyHTML, by the links, agrees with it.
LEMMA ShownIn == TypeInv /\ ListInv /\ UnlinkedInv => Shown
  BY LinkedIn DEF Shown, Linked, In

\* The same of the state after a step.
LEMMA ShownInNext == (TypeInv /\ ListInv /\ UnlinkedInv)' => Shown'
  BY ShownIn, PTL

\* The steps that TokenPipeline does not see.
Unseen ==
  \A e \in Trees :
    /\ In(e)' = In(e)
    /\ In(e) => published'[e] = published[e] /\ handled'[e] = handled[e]

\* Linking, publishing, handling and unlinking are seen, and nothing else.
LEMMA SeenSteps ==
  ASSUME TypeInv, [Next]_vars
  PROVE  \/ Link \/ Unlink \/ Publish \/ (\E w \in Workers : parser_stream(w) \/ parser_worker(w))
         \/ Unseen
<1>1. TokenTypes
  BY TypesOfTokens
<1>2. CASE \E t \in Trees : Open(t)
  <2>1. PICK t \in Trees : Open(t)
    BY <1>2
  <2>2. /\ ~alive[t] /\ call = "none" /\ mpc' = "susp_opt" /\ call' = "push" /\ cur' = t
        /\ alive' = [alive EXCEPT ![t] = TRUE] /\ published' = [published EXCEPT ![t] = 0]
        /\ handled' = [handled EXCEPT ![t] = [w \in Workers |-> <<>>]]
    BY <2>1 DEF Open, Enter, TypeInv, CallInv
  <2>3. \A e \in Trees : (In(e)' = In(e)) /\ (In(e) => e # t)
    BY <1>1, <2>2 DEF In, TokenTypes, Suspending
  <2> QED
    BY <1>1, <2>2, <2>3 DEF Unseen, TokenTypes
<1>3. CASE FreeEntry
  <2>1. /\ call = "delete" /\ mpc = "free" /\ call' # "delete" /\ call' # "push"
        /\ alive' = [alive EXCEPT ![cur] = FALSE] /\ UNCHANGED <<published, handled>>
    BY <1>3 DEF FreeEntry, Enter, Return, TypeInv, CallInv, history
  <2>2. \A e \in Trees : In(e)' = In(e)
    BY <1>1, <2>1 DEF In, TokenTypes
  <2> QED
    BY <2>1, <2>2 DEF Unseen
<1>4. CASE SameList /\ UNCHANGED <<published, handled>>
  BY <1>4 DEF SameList, Unseen, In
<1>5. \/ (\E t \in Trees : Open(t)) \/ Publish
      \/ \E w \in Workers : parser_stream(w) \/ parser_worker(w)
      \/ UNCHANGED <<published, handled>>
  <2>1. ASSUME Owner
        PROVE  (\E t \in Trees : Open(t)) \/ Publish \/ UNCHANGED <<published, handled>>
    BY <2>1 DEF Owner, Chunk, End, AddToken, Add, Queued, NsWait, EndWait, EntryDone, Destroy,
       Handshake, QueueOp, OwnerQueue, Link, CountUp, Unlink, CountDown, FreeEntry, RoundWait,
       CleanUses, CleanUse, history
  <2>2. ASSUME NEW w \in Workers, Worker(w)
        PROVE  parser_stream(w) \/ parser_worker(w) \/ UNCHANGED <<published, handled>>
    BY <2>2 DEF Worker, Obey, Loop, WorkerQueue, First, Scan, Compare, Deref, Bump, NextEntry,
       Check, ReadOpt, See, history
  <2> QED
    BY <2>1, <2>2 DEF Next, Finished, vars, history
<1> QED
  BY <1>2, <1>3, <1>4, <1>5, ListSame

\* A step of MyHTML is a step of TokenPipeline, or changes nothing it sees.
LEMMA PipelineStep ==
  ASSUME K = 1, IndInv, PipeInv, IndInv', PipeInv', [Next]_vars
  PROVE  [Pipeline!Next]_(Pipeline!vars)
<1>1. TokenTypes /\ TypeInv /\ CallInv /\ TokenInv
  BY TypesOfTokens DEF IndInv, TypeInv, PipeInv
<1>2. Shown /\ Shown'
  BY ShownIn, ShownInNext DEF IndInv, PipeInv
<1> DEFINE open == [e \in Trees |-> In(e)]
           shown == [e \in Trees |-> IF In(e) THEN published[e] ELSE 0]
           seen == [e \in Trees |-> IF In(e) THEN handled[e] ELSE [w \in Workers |-> <<>>]]
<1>3. CASE Link
  <2>1. /\ call = "push" /\ mpc = "link" /\ mpc' = "count" /\ call' = "push"
        /\ cur \in Trees /\ alive[cur] /\ UNCHANGED <<alive, cur, published, handled>>
    BY <1>1, <1>3 DEF Link, CallInv, Goto, queue, history
  <2>2. PICK t \in Trees : t = cur
    BY <2>1
  <2>3. /\ In(t) = FALSE /\ published[t] = 0 /\ handled[t] = [w \in Workers |-> <<>>]
        /\ \A e \in Trees : In(e)' = IF e = t THEN TRUE ELSE In(e)
    BY <1>1, <2>1, <2>2 DEF In, TokenInv, Suspending
  <2>4. open' = [open EXCEPT ![t] = TRUE] /\ ~open[t] /\ shown' = shown /\ seen' = seen
    BY <2>1, <2>3
  <2>5. Pipeline!Open(t)
    BY <1>2, <2>4 DEF Shown, Pipeline!Open
  <2> QED
    BY <2>5 DEF Pipeline!Next
<1>4. CASE Unlink
  <2>1. /\ call = "delete" /\ mpc = "unlink" /\ mpc' = "uncount" /\ call' = "delete"
        /\ cur \in Trees /\ alive[cur] /\ UNCHANGED <<alive, cur, published, handled>>
    BY <1>1, <1>4 DEF Unlink, CallInv, Goto, queue, history
  <2>2. PICK t \in Trees : t = cur
    BY <2>1
  <2>3. In(t) = TRUE /\ \A e \in Trees : In(e)' = IF e = t THEN FALSE ELSE In(e)
    BY <2>1, <2>2 DEF In, Suspending, Resuming
  <2>4. ASSUME NEW w \in Workers PROVE Len(handled[t][w]) = published[t]
    <3>1. /\ HandledInv(cur, w) /\ use[cur][w] = uses[cur]
          /\ uses[cur] \in Nat /\ published[cur] \in Nat
      BY <1>1, <2>1 DEF TokenInv, HandledInv, TokenTypes
    <3>2. ~(wpc[w] = "bump" /\ ent[w] = cur)
      BY <1>1, <3>1, HeldNode DEF Holding, IndInv
    <3> QED
      BY <2>1, <2>2, <3>1, <3>2 DEF HandledInv, Passes, Cleaning
  <2>5. /\ open' = [open EXCEPT ![t] = FALSE] /\ open[t]
        /\ shown' = [shown EXCEPT ![t] = 0]
        /\ seen' = [seen EXCEPT ![t] = [w \in Workers |-> <<>>]]
        /\ seen[t] = handled[t] /\ shown[t] = published[t]
    BY <2>1, <2>3
  <2>6. published[t] \in Nat
    BY <1>1 DEF TokenTypes
  <2>7. ASSUME NEW w \in Workers
        PROVE  (IF w = 0 THEN Len(seen[t][0]) + 1 ELSE Len(seen[t][w]) * K + w) > shown[t]
    BY <2>4, <2>5, <2>6 DEF Workers
  <2>8. Pipeline!Close(t)
    BY <1>2, <2>5, <2>7
    DEF Shown, Workers, Pipeline!Close, Pipeline!Due, Pipeline!Workers, Pipeline!Empty
  <2> QED
    BY <2>8 DEF Pipeline!Next
<1>5. CASE Publish
  <2>1. /\ cur \in Trees /\ alive[cur] /\ mpc = "publish" /\ call \in {"none", "delete"}
        /\ mpc' \in {"round_wait", "queued"} /\ call' = call /\ UNCHANGED <<alive, cur, handled>>
        /\ published' = [published EXCEPT ![cur] = @ + 1]
    BY <1>1, <1>5 DEF Publish, CallInv, Queueing, Goto
  <2>2. PICK t \in Trees : t = cur
    BY <2>1
  <2>3. In(t) = TRUE /\ \A e \in Trees : In(e)' = In(e)
    BY <2>1, <2>2 DEF In, Suspending, Resuming
  <2>4. open' = open /\ open[t] /\ shown' = [shown EXCEPT ![t] = @ + 1] /\ seen' = seen
    BY <1>1, <2>1, <2>2, <2>3 DEF TokenTypes
  <2>5. Pipeline!Publish(t)
    BY <1>2, <2>4 DEF Shown, Pipeline!Publish
  <2> QED
    BY <2>5 DEF Pipeline!Next
<1>6. CASE \E w \in Workers : parser_stream(w) \/ parser_worker(w)
  <2>1. PICK w \in Workers : parser_stream(w) \/ parser_worker(w)
    BY <1>6
  <2>2. /\ wpc[w] = "work" /\ handled' = [handled EXCEPT ![ent[w]][w] = Append(@, tok[w].no)]
        /\ UNCHANGED <<alive, cur, call, mpc, published>>
    BY <2>1 DEF parser_stream, parser_worker, Handle, Move, ctl, queue
  <2>3. PICK t \in Trees : t = ent[w]
    BY <1>1, <2>2, HeldNode DEF Holding
  <2>4. /\ In(t) = TRUE /\ use[t][w] < uses[t] /\ uses[t] <= published[t]
        /\ Len(handled[t][w]) = published[t] - uses[t] + use[t][w]
        /\ HandledInv(t, w)
    BY <1>1, <2>2, <2>3, HeldNode DEF Holding, TokenInv, In
  <2>5. tok[w].no = Len(handled[t][w]) + 1 /\ Len(handled[t][w]) + 1 <= published[t]
    <3>1. /\ use[t][w] \in Nat /\ uses[t] \in Nat /\ published[t] \in Nat
          /\ Len(handled[t][w]) \in Nat
      BY <1>1 DEF TokenTypes
    <3> QED
      BY <2>2, <2>3, <2>4, <3>1 DEF HandledInv
  <2>6. \A e \in Trees : In(e)' = In(e)
    BY <2>2 DEF In
  <2>7. /\ open' = open /\ open[t] /\ shown' = shown /\ shown[t] = published[t]
        /\ seen[t] = handled[t] /\ seen' = [seen EXCEPT ![t][w] = Append(@, tok[w].no)]
    BY <1>1, <2>2, <2>3, <2>4, <2>6 DEF TokenTypes
  <2>8. tok[w].no = IF w = 0 THEN Len(seen[t][0]) + 1 ELSE Len(seen[t][w]) * K + w
    <3>1. Len(handled[t][w]) \in Nat
      BY <1>1 DEF TokenTypes
    <3>2. w = 0 \/ w = 1
      BY DEF Workers
    <3> QED
      BY <2>5, <2>7, <3>1, <3>2
  <2>9. Pipeline!Handle(t, w)
    <3>1. Pipeline!Due(t, w) = tok[w].no
      BY <1>2, <2>8 DEF Shown, Pipeline!Due
    <3>2. Pipeline!Due(t, w) <= shown[t]
      BY <2>5, <2>7, <3>1
    <3> QED
      BY <1>2, <2>7, <3>1, <3>2 DEF Shown, Pipeline!Handle
  <2> QED
    BY <2>9 DEF Pipeline!Next, Pipeline!Workers, Workers
<1>7. CASE Unseen
  <2>1. open' = open /\ shown' = shown /\ seen' = seen
    BY <1>7 DEF Unseen
  <2> QED
    BY <1>2, <2>1 DEF Shown, Pipeline!vars
<1> QED
  BY <1>1, <1>3, <1>4, <1>5, <1>6, <1>7, SeenSteps

\* With one batch thread, the queue keeps its promise for every number of trees,
\* nodes and tokens: no token lost, repeated, handled out of order or before it is
\* published, and no tree closed before all its tokens are handled.
THEOREM PipelineHolds == K = 1 => (Spec => PipelineSpec)
<1> SUFFICES ASSUME K = 1 PROVE Spec => PipelineSpec
  OBVIOUS
<1>1. Init => Pipeline!Init
  <2> SUFFICES ASSUME Init PROVE Pipeline!Init
    OBVIOUS
  <2>1. \A e \in Trees : ~Linked(e)
    BY TreesAssumption DEF Init, ThreadQueueInit, Linked
  <2> QED
    BY <2>1 DEF Pipeline!Init, Pipeline!Empty, Pipeline!Workers, Workers
<1>2. IndInv /\ PipeInv /\ (IndInv /\ PipeInv)' /\ [Next]_vars => [Pipeline!Next]_(Pipeline!vars)
  BY PipelineStep
<1> QED
  BY <1>1, <1>2, IndInvariant, PipeInvariant, PTL DEF Spec, PipelineSpec, Pipeline!Spec

===============================================================================
