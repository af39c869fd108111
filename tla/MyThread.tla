------------------------------- MODULE MyThread -------------------------------
(***************************************************************************)
(* mycore/mythread.c: the two groups of worker threads of MyHTML and the   *)
(* handshake with which their owner (the thread that calls the MyHTML API, *)
(* "the owner" below) suspends, resumes, stops and joins them.             *)
(*                                                                         *)
(* Worker 0 is the one thread of the stream group (it builds the tree),    *)
(* workers 1..K are the threads of the batch group (they decode tokens);   *)
(* the numbers are the thread ids of myhread_increase_id_by_entry_id.      *)
(*                                                                         *)
(* There are two kinds of flags. opt[g] (mythread_t.opt) is written by the *)
(* owner only and read by the workers of group g. ctxOpt[w]                *)
(* (mythread_context_t.opt) is what worker w reports; the owner overwrites *)
(* it when it wakes a stopped worker. The mutex of a worker is used as a   *)
(* binary semaphore: the owner locks it before the thread exists and       *)
(* unlocks ("posts") it to wake the worker, the worker locks ("waits").    *)
(*                                                                         *)
(* Every read or write of a shared field is a step of its own. The fields  *)
(* are volatile words: the model assumes that the threads see them in one  *)
(* order (sequential consistency).                                         *)
(***************************************************************************)
EXTENDS Integers

CONSTANT K      \* number of batch threads: thread_count - 1 of myhtml_init

ASSUME KAssumption == K \in Nat \ {0}

Workers == 0 .. K
Groups == {"stream", "batch"}
Group(w) == IF w = 0 THEN "stream" ELSE "batch"
FirstOf(g) == IF g = "stream" THEN 0 ELSE 1
IsLast(w) == w = 0 \/ w = K          \* the last worker of its group

Opts == {"UNDEF", "WAIT", "STOP", "QUIT"}

VARIABLES
  opt,      \* [Groups -> Opts]: what the owner asks of a group
  ctxOpt,   \* [Workers -> Opts]: what a worker reports
  mutex,    \* [Workers -> {"locked", "unlocked", "closed"}]
  wpc,      \* [Workers -> label]: where the worker's loop is
  mpc,      \* the owner's position in the API call it executes
  call,     \* that call: push, post, delete, pause or destroy
  mi        \* the worker the owner's loop over a group has reached

thr == <<opt, ctxOpt, mutex>>
ctl == <<mpc, call, mi>>

WorkerLabels ==
  {"start", "top", "wait", "spin", "unwait", "first", "scan", "cmp", "deref",
   "work", "bump", "next", "check", "readopt", "see", "stop", "lock", "unstop",
   "close", "quit", "dead"}

OwnerLabels ==
  {"idle", "susp_opt", "susp_wait", "link", "count", "unlink", "uncount",
   "res_opt", "res_ctx", "res_post", "free", "publish", "round_wait",
   "clean_uses", "clean_use", "queued", "ns_wait", "end_wait", "stop_opt", "stop_wait",
   "quit_opt", "quit_wait", "join", "done"}

Calls == {"none", "push", "post", "delete", "pause", "destroy"}

\* After myhtml_init: every worker exists, reports STOP and is about to lock
\* the mutex that the owner locked before it created the thread.
MyThreadInit ==
  /\ opt = [g \in Groups |-> "UNDEF"]
  /\ ctxOpt = [w \in Workers |-> "STOP"]
  /\ mutex = [w \in Workers |-> "locked"]
  /\ wpc = [w \in Workers |-> "start"]
  /\ mpc = "idle" /\ call = "none" /\ mi = 0

Goto(label, i) == mpc' = label /\ mi' = i /\ call' = call
Enter(c, label) == mpc' = label /\ mi' = 0 /\ call' = c
Return == mpc' = "idle" /\ mi' = 0 /\ call' = "none"

Move(w, from, to) == wpc[w] = from /\ wpc' = [wpc EXCEPT ![w] = to]
Report(w, o) == ctxOpt' = [ctxOpt EXCEPT ![w] = o]

-----------------------------------------------------------------------------
(* The owner: mythread_suspend on the stream group, then on the batch group. *)

\* The owner has suspended every group: go on with the list operation.
Suspended == Goto(IF call = "push" THEN "link" ELSE "unlink", 0)

SuspendNext ==
  IF mi = K THEN Suspended
  ELSE Goto(IF IsLast(mi) THEN "susp_opt" ELSE "susp_wait", mi + 1)

\* A mutant: both groups are asked to wait before either is waited for.
SuspendOptBoth ==
  /\ mpc = "susp_opt"
  /\ opt' = [g \in Groups |-> "WAIT"]
  /\ Goto("susp_wait", mi)
  /\ UNCHANGED <<ctxOpt, mutex, wpc>>

\* A mutant: the stream group alone is suspended.
SuspendOptStream ==
  /\ mpc = "susp_opt"
  /\ IF mi = 1 THEN Suspended /\ UNCHANGED opt
     ELSE opt' = [opt EXCEPT !["stream"] = "WAIT"] /\ Goto("susp_wait", mi)
  /\ UNCHANGED <<ctxOpt, mutex, wpc>>

SuspendOpt ==
  /\ mpc = "susp_opt"
  /\ IF opt[Group(mi)] = "WAIT"
       THEN /\ UNCHANGED opt
            /\ IF mi = 0 THEN Goto("susp_opt", 1) ELSE Suspended
       ELSE /\ opt' = [opt EXCEPT ![Group(mi)] = "WAIT"]
            /\ Goto("susp_wait", mi)
  /\ UNCHANGED <<ctxOpt, mutex, wpc>>

\* A mutant: the owner does not wait for the reports.
SuspendWaitNot ==
  /\ mpc = "susp_wait"
  /\ SuspendNext
  /\ UNCHANGED <<thr, wpc>>

SuspendWait ==
  /\ mpc = "susp_wait"
  /\ ctxOpt[mi] \in {"STOP", "WAIT"}
  /\ SuspendNext
  /\ UNCHANGED <<thr, wpc>>

-----------------------------------------------------------------------------
(* The owner: mythread_resume, called for each group in turn. A suspended    *)
(* group only gets its flag back: those of its workers that are stopped stay *)
(* stopped. Otherwise the stopped workers are woken one by one.              *)

Send == IF call = "destroy" THEN "QUIT" ELSE "UNDEF"

\* mythread_resume(g) returned: what its caller does next.
Resumed(g) ==
  \/ call = "destroy" /\ Goto("quit_opt", FirstOf(g))
  \/ call # "destroy" /\ g = "stream" /\ Goto("res_opt", 1)
  \/ call = "push" /\ g = "batch" /\ Enter("post", "res_opt")
  \/ call = "post" /\ g = "batch" /\ Return
  \/ call = "delete" /\ g = "batch" /\ Goto("free", 0)

ResumeNext == IF IsLast(mi) THEN Resumed(Group(mi)) ELSE Goto("res_ctx", mi + 1)

ResumeOpt ==
  /\ mpc = "res_opt"
  /\ opt' = [opt EXCEPT ![Group(mi)] = Send]
  /\ IF opt[Group(mi)] = "WAIT" THEN Resumed(Group(mi)) ELSE Goto("res_ctx", mi)
  /\ UNCHANGED <<ctxOpt, mutex, wpc>>

\* A mutant: a worker is woken whether it is stopped or not.
ResumeCtxAlways ==
  /\ mpc = "res_ctx"
  /\ Report(mi, Send) /\ Goto("res_post", mi)
  /\ UNCHANGED <<opt, mutex, wpc>>

ResumeCtx ==
  /\ mpc = "res_ctx"
  /\ IF ctxOpt[mi] = "STOP" THEN Report(mi, Send) /\ Goto("res_post", mi)
                            ELSE UNCHANGED ctxOpt /\ ResumeNext
  /\ UNCHANGED <<opt, mutex, wpc>>

\* A mutant: the wake-up is lost.
ResumePostLost ==
  /\ mpc = "res_post"
  /\ ResumeNext
  /\ UNCHANGED <<thr, wpc>>

ResumePost ==
  /\ mpc = "res_post"
  /\ mutex' = [mutex EXCEPT ![mi] = "unlocked"]
  /\ ResumeNext
  /\ UNCHANGED <<opt, ctxOpt, wpc>>

-----------------------------------------------------------------------------
(* The owner: mythread_stop on each group (myhtml_tokenizer_pause).          *)

StopOpt ==
  /\ mpc = "stop_opt"
  /\ IF opt[Group(mi)] = "STOP"
       THEN /\ UNCHANGED opt
            /\ IF mi = 0 THEN Goto("stop_opt", 1) ELSE Return
       ELSE /\ opt' = [opt EXCEPT ![Group(mi)] = "STOP"]
            /\ Goto("stop_wait", mi)
  /\ UNCHANGED <<ctxOpt, mutex, wpc>>

StopWait ==
  /\ mpc = "stop_wait"
  /\ ctxOpt[mi] = "STOP"
  /\ IF mi = K THEN Return
     ELSE Goto(IF IsLast(mi) THEN "stop_opt" ELSE "stop_wait", mi + 1)
  /\ UNCHANGED <<thr, wpc>>

-----------------------------------------------------------------------------
(* The owner: mythread_quit, the second half of mythread_destroy. The        *)
(* callback before the join, mythread_callback_quit, may see the QUIT that   *)
(* the owner itself wrote: it is the join that waits for the thread.         *)

QuitOpt ==
  /\ mpc = "quit_opt"
  /\ opt' = [opt EXCEPT ![Group(mi)] = "QUIT"]
  /\ Goto("quit_wait", mi)
  /\ UNCHANGED <<ctxOpt, mutex, wpc>>

QuitWait ==
  /\ mpc = "quit_wait"
  /\ ctxOpt[mi] = "QUIT"
  /\ Goto("join", mi)
  /\ UNCHANGED <<thr, wpc>>

Join ==
  /\ mpc = "join"
  /\ wpc[mi] = "dead"
  /\ IF mi = K THEN Enter("none", "done")
     ELSE IF IsLast(mi) THEN Goto("res_opt", mi + 1) ELSE Goto("quit_wait", mi + 1)
  /\ UNCHANGED <<thr, wpc>>

OwnerHandshake ==
  SuspendOpt \/ SuspendWait \/ ResumeOpt \/ ResumeCtx \/ ResumePost
    \/ StopOpt \/ StopWait \/ QuitOpt \/ QuitWait \/ Join

-----------------------------------------------------------------------------
(* The worker's side of the handshake, in the process functions of           *)
(* thread_queue.c.                                                           *)

\* mythread_mutex_wait: lock, once the owner has unlocked.
Acquire(w, from, to) ==
  /\ Move(w, from, to)
  /\ mutex[w] = "unlocked"
  /\ mutex' = [mutex EXCEPT ![w] = "locked"]
  /\ UNCHANGED <<opt, ctxOpt>>

Start(w) == Acquire(w, "start", "top")

\* The head of the loop: mythread->opt & WAIT.
Top(w) ==
  /\ Move(w, "top", IF opt[Group(w)] = "WAIT" THEN "wait" ELSE "first")
  /\ UNCHANGED thr

ReportWait(w) == Move(w, "wait", "spin") /\ Report(w, "WAIT") /\ UNCHANGED <<opt, mutex>>

Spin(w) ==
  /\ Move(w, "spin", "unwait")
  /\ opt[Group(w)] # "WAIT"
  /\ UNCHANGED thr

Unwait(w) == Move(w, "unwait", "first") /\ Report(w, "UNDEF") /\ UNCHANGED <<opt, mutex>>

\* mythread_function_see_opt, once it has decided to stop or to quit.
ReportStop(w) == Move(w, "stop", "lock") /\ Report(w, "STOP") /\ UNCHANGED <<opt, mutex>>

Woken(w) == Acquire(w, "lock", "unstop")

Unstop(w) == Move(w, "unstop", "top") /\ Report(w, "UNDEF") /\ UNCHANGED <<opt, mutex>>

CloseMutex(w) ==
  /\ Move(w, "close", "quit")
  /\ mutex' = [mutex EXCEPT ![w] = "closed"]
  /\ UNCHANGED <<opt, ctxOpt>>

ReportQuit(w) == Move(w, "quit", "dead") /\ Report(w, "QUIT") /\ UNCHANGED <<opt, mutex>>

WorkerHandshake(w) ==
  Start(w) \/ Top(w) \/ ReportWait(w) \/ Spin(w) \/ Unwait(w) \/ ReportStop(w)
    \/ Woken(w) \/ Unstop(w) \/ CloseMutex(w) \/ ReportQuit(w)

-----------------------------------------------------------------------------
MyThreadTypeOK ==
  /\ opt \in [Groups -> Opts] /\ ctxOpt \in [Workers -> Opts]
  /\ mutex \in [Workers -> {"locked", "unlocked", "closed"}]
  /\ wpc \in [Workers -> WorkerLabels]
  /\ mpc \in OwnerLabels /\ call \in Calls /\ mi \in Workers
===============================================================================
