# TLA+ model of html-benchmark

`html-benchmark` measures how fast HTML parsers parse: it loads the files of a
directory, runs each parser once over all of them, and reports time, memory, and what
each parser found (links, images, text). It is a C program. Its own code is small and
single threaded, with one exception that carries most of the risk: the MyHTML parser
(`src/myhtml`) runs with worker threads that the benchmark's `src/test_myhtml.c`
starts, feeds and stops for every document.

This directory models, in TLA+:

* that threaded core, and the pool of characters its threads allocate from;
* the program around it: the driver, the adapters that count, and the benchmark's own
  parser `htmlstreamparser`, a character machine.

TLC checks the models on small instances, TLAPS proves the main safety properties for
every instance.

## Inventory

| Component | Source | State | Operations | Correct when |
|---|---|---|---|---|
| worker groups | `mycore/mythread.c` | flag per group, flag and mutex per worker | entry create, suspend, resume, stop, quit, destroy | a suspended worker does not run, no wake-up is lost, no mutex is unlocked twice, every worker ends |
| token queues | `mycore/thread_queue.c` | per tree: block of nodes, published counter, one counter per worker; the list of queues | push, delete, round, clean, wait for done, worker loops | no token lost, repeated, or handled too early; no worker in a freed entry or in a block that is being recycled |
| parsing pipeline | `myhtml/{myhtml,tokenizer,tree,rules,parser,token}.c` | the token in the making, DONE flags, `token_last_done` | parse, chunk, queue_add, end, destroy; decode; build | calls return; the owner reads the tree only when nobody changes it |
| tokenizer states, encodings, tree rules | `src/myhtml/source/...` | text and tree | sequential text processing | not modelled |
| pool of characters | `mycore/utils/mchar_async.c`, `myport/posix/.../mcsync.c` | chunks, a node per thread with chunks and a cache, one lock word | malloc, realloc, free, crop, clean; lock, unlock | one thread in the critical section, a chunk given out once, no two strings overlap |
| pools of objects | `mycore/utils/mcobject*.c` | chunks, free lists | malloc, free | as above, planned |
| cache of a node of that pool | `mchar_async.c`, `mchar_async_cache_*` | a tree over an array of places, a stack of free places | add, delete (find), clean | no region lost or repeated, the smallest that fits is found, no array overrun |
| benchmark driver | `main.c`, `benchmark.c` | arguments, test set, results | read arguments, scan and load the directory, test each parser, print, release | the test set is what was loaded, everything is released, units are right |
| strings | `util.c` | a buffer | append | not modelled (a string is its length) |
| htmlstreamparser | `htmlstreamparser/` | state of a character machine, flags, four buffers | reset, next character, getters | flags, state and buffers agree; scripts begin and end where the text says |
| its adapter | `test_hsp.c` | two nested loops over a page, counters | count at each character | each link counted once, pages independent of each other |
| other adapters | `test_{myhtml,gumbo,libxml2,haut,dummy}.c` | counters | walk a tree, callbacks | the numbers that are compared are comparable |
| gumbo, libxml2, haut | vendored or absent | - | - | not modelled, third party |

How they interact: `main.c` builds the test set and calls `performTests`, which
calls one adapter per parser. `test_myhtml` calls `myhtml_init` (creates the
groups), `myhtml_parse` (the calling thread becomes the *owner*: it tokenizes,
adds tokens to a queue, and waits for the workers), and `myhtml_destroy` (joins
the workers). All communication between owner and workers is through shared
words that the code reads in busy loops, and through one mutex per worker that is
locked by one thread and unlocked by another.

Hard to test, and why the model is about them:

* *interleavings*: every flag and counter is read and written without a lock;
* *the handshake*: `STOP`, `WAIT`, `QUIT` are requests in one field and reports
  in another, and the owner overwrites the report of a worker that it wakes;
* *stale reads*: the flag is passed by value to `mythread_function_see_opt` and
  obeyed later; a report of `WAIT` may belong to an earlier suspension;
* *the full block*: after 9182 tokens the owner resets all counters while the
  workers run their loop over them;
* *memory*: three threads cut strings from one pool under a lock that is looked at
  only in passing, and a string is enlarged in the node it was cut from, whoever
  enlarges it;
* *a measured total*: three threads add to one counter without a lock;
* *a directory that changes* between the pass that counts its files and the pass that
  loads them, and files that cannot be read;
* *flags beside a state*: the character machine has 23 flags, set and cleared one by
  one in 14 states, and a counter of its own for the name `script`; its callers look
  at flags and buffers, and one parser serves all pages;
* *a tree relinked by hand*: the cache of regions hands its places out again from a
  stack, and enlarges two arrays at different moments;
* *circular waits*: the owner waits for the stream worker (syntax that depends on
  the tree), the stream worker for a batch worker (decoded text), and the batch
  worker for the owner (suspension).

The list of hazards, each with its line and the properties that cover it, is in
`PROJECT.json`.

## Modules

| Module | Models | Kind |
|---|---|---|
| `MyThread` | `mycore/mythread.c` and the flag handling of the worker loops | component |
| `ThreadQueue` | `mycore/thread_queue.c`; extends `MyThread` | component |
| `MyHTML` | the pipeline over both: owner and workers, `Init`, `Next`, `Spec`, fairness, properties; extends `ThreadQueue` | composition |
| `TokenPipeline` | what the queue promises, without flags, links, blocks | abstract specification |
| `MyHTMLInv` | the inductive invariants behind the proofs | invariant |
| `MyHTMLProofs` | theorems about it, and that it implements `TokenPipeline` | proofs |
| `MCMyHTML` | the sets of token kinds the runs use | TLC instance |
| `CharPool` | `mycore/utils/mchar_async.c` with the lock of `mcsync.c` | component |
| `CharPoolInv`, `CharPoolProofs` | its inductive invariant, theorems and proofs | proofs |
| `CharCache` | the cache of a node of the pool: `mchar_async_cache_*` | component |
| `BestFit` | what `CharPool` takes that cache for | abstract specification |
| `CharCacheProofs` | the cache's invariant and theorems, and that it implements `BestFit` | proofs |
| `HtmlStreamParser` | `htmlstreamparser.c`: the character machine | component |
| `HtmlStreamParserProofs` | invariants, theorems and proofs about it, for any input | proofs |
| `Markup` | what a page says, told without the parser: its tokens, tags and values; extends `HtmlStreamParser` for the alphabet | reference |
| `TestHsp` | `test_hsp.c`; extends `Markup`, and with it `HtmlStreamParser` | composition |
| `TestHspProofs` | theorems about the adapter, for any test set; extends `HtmlStreamParserProofs` | proofs |
| `Adapters` | what `test_libxml2.c`, `test_haut.c`, `test_gumbo.c`, `test_myhtml.c` count, as operators over documents | operators |
| `Benchmark` | `main.c`, `benchmark.c`; extends `Adapters` | composition |
| `AdaptersProofs` | what the adapters add, for any document | proofs |
| `BenchmarkProofs` | theorems about the driver, for any directory; extends `AdaptersProofs` | proofs |
| `RecursionLemmas` | functions defined by recursion, folds and sums over finite sets: that they exist and what they satisfy | lemmas |
| `MCCharPool`, `MCCharCache`, `MCTestHsp`, `MCBenchmark` | the sizes, pages, directories and documents the runs use | TLC instances |

`CharPool` and `MyHTML` are not composed: what they share is that thread `i` runs, and
that a token is decoded by one thread. `CharPool` lets every thread call at any time,
which includes every order that `MyHTML` allows. `CharCache` and `CharPool` meet in
`BestFit`: the one is shown to implement it, the other uses its choice (`Best`). In the
same way `Benchmark` does not run `TestHsp` or `MyHTML`: the driver sees of a parser what
it adds to the result, and for MyHTML also who adds to the memory counter.

### State and actions against the code

*Threads.* Worker 0 is the one thread of the stream group, which builds the tree;
workers `1..K` are the batch group, which decodes tokens. `K` is
`thread_count - 1`. `test_myhtml.c` asks for one thread, `myhtml_init` raises that
to two, so the benchmark is `K = 1`; larger `K` is a use of the library. `opt[g]`
is `mythread_t.opt`, `ctxOpt[w]` is `mythread_context_t.opt`, `mutex[w]` is the
context's mutex. `wpc[w]` is the position of a worker in its process function,
`mpc` (with `call` and the loop index `mi`) that of the owner in the API call that
it executes.

*Owner.* Each API call is a sequence of steps, one per access to a shared field:

| Call | Steps |
|---|---|
| `mythread_suspend` | `SuspendOpt`, then `SuspendWait` per worker |
| `mythread_resume` | `ResumeOpt`, then `ResumeCtx`, `ResumePost` per stopped worker |
| `mythread_stop` | `StopOpt`, `StopWait` per worker |
| `mythread_destroy` | resume with QUIT, then `QuitOpt`, and `QuitWait`, `Join` per worker |
| `myhtml_tokenizer_chunk`, first time | `Open`, suspend both groups, `Link`, `CountUp`, resume both, then resume both again (`myhtml_tokenizer_post`) |
| ... later chunks | `Chunk`, resume both |
| `myhtml_queue_add` | `AddToken`, `Publish`, perhaps a round, `Queued`, perhaps `NsWait` |
| a round (`mythread_queue_node_malloc_round`) | `RoundWait` per worker, `CleanUses`, `CleanUse` per worker |
| `myhtml_tokenizer_end` | `End` (the end-of-file token), `EndWait` per worker, suspend both, `Unlink`, `CountDown`, resume both, `FreeEntry`, stop both if the list is empty |
| `myhtml_destroy` | `Destroy`, then `mythread_destroy` of both groups |

*Workers.* `Start`, `Top`, `ReportWait`, `Spin`, `Unwait` are the head of the loop
of `mythread_function_queue_stream` and `_batch`; `First`, `Scan`, `Compare`,
`Deref`, the handler, `Bump`, `NextEntry` walk the list; `Check`, `ReadOpt`, `See`
and `ReportStop`, `Woken`, `Unstop`, `CloseMutex`, `ReportQuit` are the tail with
`mythread_function_see_opt`. The handlers are `parser_stream`
(`myhtml_parser_stream`) and `parser_worker` (`myhtml_parser_worker`).

*Data.* A token is its number and its kind. The kinds are those that make a thread
wait for another (`AllKinds` in `MyHTML`); text, attributes and the tree are left
out. A tree has at most one list entry at a time, so it names the entry. A node's
`args` are the token; nodes are a block of `NodesSize` (9182 in the code).
`published` and `handled` are history variables: no action reads them except to
number tokens, and they say what `TokenPipeline` is about.

*Pool of characters.* Thread 0 of `CharPool` is the stream worker (and the owner, once
the parse is over), the others are the batch workers and the tokenizer, which keeps
unknown tag names in a node of its own. The benchmark has three such nodes, `N = 2`.
A chunk is named by its row and its place in the row, as the code finds it. `size` and
`length` are the fields of `mchar_async_chunk_t`; `cur` is `node->chunk`, and the
doubly linked list of a node's chunks is split at it into `used` and `spare`. A string
is a region of a chunk; the number of cells in it is kept in the cells before it
(`Header`), which is why two regions are apart only when their headers are too. `live`
are the regions the callers hold, `cache` is the node's search tree.

| Call | Steps |
|---|---|
| `mchar_async_malloc` | `Malloc` looks at the cache and the chunk, then `Reuse` a cached region, or `Carve` one off the chunk, or `Turn` to the next chunk |
| `mchar_async_realloc` | `Realloc`, then `Extend` in place, or as malloc, caching the old region |
| `mchar_async_chunk_malloc` | `Lock`, `Row`, `Take`, `Bump`, `Mem`, `Unlock`, `Link` |
| `mchar_async_free`, `..._crop_first_chars_without_cache`, `..._node_clean` | `Free`, `Crop`, `Clean` |

*Cache.* `nodes` is the array of `mchar_async_cache_node_t`, place 0 the one that
stands for none and is written to like any other; `nodes_root`, `nodes_length`,
`nodes_size`, `index`, `index_size` and `count` are the fields of the same names. One
thread works on a cache, so each of `CacheAdd`, `CacheDelete` and `CacheClean` is one
step. `mchar_async_cache_add` keeps a pointer to the array over `cache_malloc`, which may
move it: `AddToEmpty` then writes to the array that was left (`Moves`), and that this
never loses a region is a consequence of `PlacesConserved`.

*htmlstreamparser.* `hsp` is the record `HTMLSTREAMPARSER`: `state` with the code's
numbers, `part` the set of flags of `html_part`, `eq` the counter
`script_equality_len`, and what the buffers hold. `CharParse` is
`html_parser_char_parse`: `EnterScript`, the `Switch` with one operator per case,
`MatchScript`, and the writes to the buffers (`Emptied`, `Stored`). `since` is a
history variable: the text since the last `<`.

*Its adapter.* `Call` is the head of `test_hsp` (reset, setters), `Character` and
`Image` a turn of the outer loop, `ImageCharacter` a turn of the inner one, `ImageEnd`
the two increments of `i` after it, `Return` the end of the page. The trim of the inner
text is done in the buffer, as in the code (`InPlace`, `CutOff`).

*Driver.* One action per argument, per directory entry in each of the two passes
(`CountEntry`, `LoadEntry`), per document of each parser, and per result printed.
`AllocateArray` stands between the passes and may find another directory from there on.
`live` and `open` are the blocks and files not yet released. `MallocRead` and
`MallocWrite` are the halves of `total_bytes += size` in `mycore_malloc`
(`test_myhtml.c`), done by each of `Threads` for an amount.

*Other adapters.* A document (`Documents`) is the tree a parser would find, its nodes in
document order: `TestGumbo` and `TestMyHtml` walk over it, `TestLibxml2` and `TestHaut`
fold the callbacks (`Calls`) that the parser would make on it, going from a node to its
first child and then to its next sibling. That the parsers find the same tree is not
claimed.

### What the models say about the counting

These are not violations of anything the repository states; they follow from the
definitions above and are worth knowing when the numbers of a report are compared.

* `test_hsp.c`: after an image the next character is never fed to the parser
  (`MissedAfterImages`), and because the buffered tag name stays `img` until the next
  name, what follows is still handled by the loop for images: a link directly after an
  image is missed, a `<script src>` there is counted as an image. Text that stood before
  is counted again at each of several closing tags in a row.
* `htmlstreamparser.c`: a comment ends at its first `>`. The buffer of the value is
  emptied where a value begins, which a single-quoted one never does.
* The inner texts of the adapters are not comparable: libxml2's folds white space, haut's
  adds a space before each text, MyHTML's includes scripts and comments, gumbo's neither.
* `test_hsp.c` sets `total_bytes` where the others add to it; `hubbub` is accepted as an
  option and has no adapter, so it reports zeros.

### Abstractions, and what they could hide

* The search tree of a node's cache is replaced, in `CharPool`, by what it returns: a
  smallest region that is large enough (`BestFit`), which `CharCache` is checked to
  implement.
* htmlstreamparser: names are stored in lower case, as the adapter asks; the "real"
  lengths, which nothing reads, are left out; of the value only the length is kept.
* The driver: the time and the wording of the report are left out; sizes are counted in
  units of `Base` instead of 1024; what `test_hsp` adds is any of two results.
* Titles, which the adapters look up and drop, are left out, but for the one that
  `test_hsp.c` cuts off in the buffer.
* Which chunk behind the current one `mchar_sync_chunk_find_by_size` finds first is left
  open; the order of the list is not modelled.
* A call of `CharPool` chooses in one step and writes its node in the next. With every
  thread on its own node nothing can come between; when the builder works on another's
  node (`MergeForeign`) the run `pool_merge` shows just that it does.
* The pool's own cache of chunks is filled only by `mchar_async_node_delete`, which runs
  when the tree is destroyed; it is empty and left out.

* *Sequential consistency.* The shared fields are `volatile` words; the model lets
  every thread see the writes in one order. On hardware that reorders more than
  that the code has further behaviours.
* In `use < nodes_uses` the left operand is read first (two steps, `Scan` and
  `Compare`). C leaves the order open.
* `mythread_queue_list_see_for_done_by_thread` is one step. Its result matters
  only when the owner has asked for STOP or QUIT, and the owner then waits for
  this worker and changes no queue.
* Decoding a token and setting its DONE flag is one step: nobody reads the decoded
  text before the flag.
* The owner waits for the tree (`NsWait`) directly after the token that leads to
  the wait. In the code, characters in between do not create tokens.
* A text token that is only ignorable white space, dropped without being queued,
  is no step.
* Failing allocations and failing thread creation are not modelled: the initial
  state is that after a successful `myhtml_init`.
* `myhtml_destroy` is called when no tree is open, as in `test_myhtml.c`.
* The single-threaded mode and `MyHTML_OPTIONS_PARSE_MODE_ALL_IN_ONE` are not
  modelled; the benchmark uses neither.

## Properties and runs

`TypeOK` is the one type invariant. The others:

| Property | Says |
|---|---|
| `MutexDiscipline` | a mutex is posted only while it is locked and its worker waits; no worker waits for a closed mutex |
| `UnlinkExclusive` | while the owner takes an entry off the list every worker is parked |
| `EntryAlive` | no worker stands on a freed entry |
| `RoundExclusive` | while a round starts no worker holds a node of that queue |
| `QuietWhenClosed` | when the last tree is closed every worker is blocked: the tree may be freed |
| `TreeReadExclusive` | when the owner reads the tree the stream worker is not at work on it |
| `PipelineSpec` | the queue refines `TokenPipeline`: every worker handles its tokens once, in order, not before they are published, and no tree is closed early |
| `IndInv` | the inductive invariant of the proofs |
| `PipeInv` | the list has no cycle, the published nodes hold the last tokens in order, and each worker has handled what its counter says, through every round |
| `Terminates` | the program ends: every call returns, every worker exits |
| `ParseReturns`, `WaitReturns` | a parse ends; the stream worker's wait for a token ends |
| `MutualExclusion` | one thread at a time is in the critical section of `mchar_async_chunk_malloc` |
| `ChunkExclusive` | no chunk of the pool is in two nodes, or in a node and in the hand of a call |
| `RegionsApart` | no two strings or cached regions overlap, of whatever threads; each lies in the used part of its chunk |
| `SpareEmpty` | the chunks behind the current one, which malloc empties, hold no region |
| `NodePrivate` | no thread is in a call on the node of another thread that is in a call |
| `PlacesConserved` | in any order of calls every place of the cache is in its tree or on its stack, once |
| `SortedChain` | the tree is a sorted chain, linked both ways, and place 0 keeps what ends a search |
| `InBounds` | neither array of the cache is written behind its end |
| `Implements` | the cache refines `BestFit` |
| `PartsOfState` | the 23 flags of htmlstreamparser agree with its state |
| `ScriptNamed` | a script begins after the tags whose stored name is `script`, and no others |
| `ScriptEnds` | inside a script nothing is markup but the end tag, and that always ends it |
| `SameCounts` | the same page counts for the same, whatever was parsed before it |
| `LinksCounted` | on a page with a reading and without images every link is counted once, and nothing else is |
| `MissedAfterImages` | each image costs the page one character, and nothing else does |
| `LoadedCells` | however the directory changes, the test set is what was loaded and no cell behind it is touched |
| `Released` | at the end only what belongs to files whose reading failed is left |
| `Comparable` | on documents with links and images in the body and plain attributes four adapters count the same, and what is there |
| `MemoryAtMost`, `MemoryCounted` | the memory counted is never more than was allocated; it is all of it |
| `PrintedUnits` | a size is printed in the unit it was divided to, but just above a power |

`PipelineSpec` is a refinement: a tree of `TokenPipeline` is open while its entry
is linked, and `published` and `handled` are the history variables of such a tree. `Implements` is one too: `kept` are the
regions in the places of the tree.

| Run | Bounds | Shows |
|---|---|---|
| `bench` | K=1, 1 tree, 2 nodes, 3 tokens, 2 parses, 2 chunks, 5 kinds | the benchmark's use, fair: all safety properties, the refinement, and termination |
| `trees` | K=1, 2 trees, 2 nodes, 2 tokens | entries linked and unlinked while workers serve another tree, the invariants of the proofs, and termination |
| `stagger` | K=2, 2 nodes, 5 tokens, fair | **violation** of `WaitReturns` |
| `cdata` | K=1, a dropped newline before CDATA, fair | **violation** of `ParseReturns` |
| `stale` | K=2, 2 trees | **violation** of `EntryAlive` |
| `pool` | 2 threads, mutex, 2 rows of 2 chunks of 3 cells, sizes 1 and 3 | lock, chunks and strings, and the invariant of the proofs |
| `pool_spin` | 2 threads, spin lock | **violation** of `MutualExclusion` |
| `pool_merge` | 2 threads, `MergeForeign` | **violation** of `NodePrivate` |
| `cache` | 5 regions, sizes 1 to 3, arrays of 3 places | the cache of regions in every order of calls, and the refinement |
| `hsp` | test sets of up to three pages put together from tags, scripts and text, buffers of 1 to 3 characters | the character machine and its adapter |
| `driver` | 9 directories of up to 3 entries, 5 sequences of options, 2 threads, 2 amounts, `Base` 2 | the driver and the other adapters |
| `alloc` | as `driver` | **violation** of `MemoryCounted` |

Why the bounds are enough to meet the cases: three tokens over a block of two nodes
fill the block, so a round happens with tokens before and after it, and the last
token may be the one that fills it; a second parse meets everything that the first
leaves behind (stopped workers, `token_last_done`, counters); a second chunk resumes
workers that already run; two trees give an entry at each end of the list. The initial state is unique, and every interleaving of the steps
is explored. `MaxTokens`, `MaxParses` and `MaxChunks` bound `AddToken`, `Open` and
`Chunk`; `myhtml_tokenizer_end` is always possible.

For the pool: with a header of one cell, size 1 fits into a chunk of three cells and
leaves nothing to cache; size 3 does not and leads to a chunk of seven, in which
strings of both sizes fit, are enlarged in place up to the last cell and leave a rest
of two cells that is cached and given out for a string of size 1. Each thread has
cropped, freed and cached regions, chunks behind its current one after a clean, and the
second row is opened with the other thread waiting for the lock. `MaxRows` bounds
`Choose` and `Row`: when the last row is open a call that would need a chunk of the
pool does not begin, every other one does; the last row has a chunk for each call that
had begun, so `Row` blocks nobody.

For the cache: three places leave room for two regions, so that both arrays move, the
one of places once more with five regions; three sizes give a smaller, an equal and a
larger one for every comparison. The regions are interchangeable (`MCSymmetry`), and
`MCView` leaves out what is never read before it is written: what a free place still
holds, and the parent of place 0.

For `hsp`: `script` and the names of attributes are shortened to one or two letters,
which keeps each of their comparisons (equal, a beginning of, longer than). The test sets
are every three complete pieces in a row, written as their tokens, so that each page has a
reading (tags with and without links, quoted values that contain `>` or a quote, comments,
a script with a link in it); every text of up to five characters behind `<script><`; every text of up to three behind the
beginning of a link; and every text of up to three, parsed alone and again after a page
that was cut off inside a tag, a value, a script or text, with a NUL at the end as the
driver puts there. The buffers are so small that names and texts are cut off. What the
parser does with *any* input is proved.

For the driver: the directories have each kind of entry before and after one that can be
loaded, and may change to any other between the passes: more files, fewer, none.
`Base` 2 makes sizes of a few bytes cross powers of it, and 5 and 9 lie where the unit
and the division disagree. Two threads with an amount each are enough to lose an update.

Deadlock is checked but in `hsp`, `driver` and `alloc`, programs that stop: after the
last page, and when `main` has returned. The others end in a state that repeats itself.

### What the violations are

* `stagger`: `mythread_queue_list_entry_clean` zeroes the counters of all workers,
  the start offsets of the batch workers included. With two or more batch workers
  every second (third, ...) token of the second round is decoded by nobody and the
  stream worker waits for ever. A program linked against the library hangs with
  `thread_count` 3 on a document with more than 9182 tokens, and does not with 2,
  which is what the benchmark uses.
* `cdata`: the first newline after `<pre>` is dropped by
  `myhtml_rules_check_for_first_newline` before `token_last_done` is set, and a
  CDATA section that follows makes the owner wait for just that. The library hangs
  on `<pre>&#10;<![CDATA[x]]>`, in the benchmark's configuration too.
* `stale`: `mythread_suspend` accepts a `WAIT` that a worker reported for the
  suspension before. With two batch workers and two trees an entry is freed while
  a worker stands on it.

* `pool_spin`: `__atomic_compare_exchange_n` stores the value it found in `compare`
  when it fails, and the loop of `mcsync_static_atomic_lock` does not set it back to 0.
  The second attempt compares the lock with 1, succeeds, and the thread enters beside
  the one that has the lock. Compilers with the atomics (gcc 4.7 and later) build this
  lock, the benchmark included; others build a mutex.
* `pool_merge`: `myhtml_token_merged_two_token_string` appends to the first string when
  the second one is the builder's own. The first is of the node of the batch worker
  that decoded it, and is reallocated there when its space does not suffice, beside the
  batch worker that decodes the next token. The library does so on
  `<head> </foo> x</head>`.

* `alloc`: `mycore_malloc` of `test_myhtml.c` does `total_bytes += size` in whatever
  thread allocates. Of two at the same time one is lost, and the memory reported for
  MyHTML is too low by an amount that differs from run to run. `MemoryAtMost` says that
  it is never too high.

### Fairness

`FairSpec` adds weak fairness of the owner and of each worker. The threads are
scheduled by the operating system, which gives every runnable thread time; a step
that stays enabled is a loop iteration or an unlocked mutex that only this thread
waits for. Weak fairness of the owner also means that the application, which may
always end a parse or destroy the library, does not stop half way; since the bounds
leave it finitely many other things to do, it ends. No strong fairness is needed:
each mutex has one waiter.

## Proofs

`MyHTMLProofs` proves, with the SMT, Zenon and PTL backends of TLAPS and from
`KAssumption`, `TreesAssumption`, `NodesSizeAssumption`, `KindsAssumption`,
`MyHTMLKinds` and `MyHTMLBounds` only:

For every number of batch threads, trees, nodes and tokens:

* `TypeCorrect`: `TypeOK`;
* `HandshakeInvariant`, `MutexDisciplineHolds`: `MutexDiscipline`;
* `ListInvariant`: the list stays a closed doubly linked list;
* `SuspendInvariant`: suspend and resume are balanced;
* `QuietIsClosed`: `QuietWhenClosed`.

For one batch thread (`K = 1`), and every number of trees, nodes and tokens:

* `IndInvariant`: `IndInv` is an invariant;
* `UnlinkIsExclusive`, `EntryIsAlive`, `RoundIsExclusive`.

On these rests the refinement. `ListIsAcyclic` holds for every number of batch threads;
for `K = 1`:

* `PipeInvariant`: `PipeInv` is an invariant;
* `TreeReadIsExclusive`: `TreeReadExclusive`;
* `PipelineHolds`: `MyHTML` implements `TokenPipeline` (`PipelineSpec`).

The restriction is not a weakness of the proof: the runs `stale` and `stagger`
refute these properties, or what depends on them, for two batch threads.

The argument. `TypeOK` is not inductive alone: that a worker in its loop stands on an
entry (`CursorInv`) and which call the owner executes at each label (`CallInv`) are
needed to know that it indexes functions inside their domains. `HandshakeInv` ties
each worker's flag and mutex to its label: asleep means STOP and locked, or being
woken; awake means UNDEF or QUIT and locked, or WAIT at the two labels between the
report and its withdrawal. `SuspendInv` says which groups the owner has suspended at
each label. Now let the owner delete an entry. It has waited until each worker's
counter reached the published one (`UseInv`). A worker that *leaves* an older
suspension, whose report is still WAIT though it will run, has not handled the last
token, for the owner published it after the resume (`FreshInv`); so when the wait is
over no worker is leaving, and from then on a report of STOP or WAIT is true
(`ObeyInv`) and the worker parked. This is where `K = 1` enters: only then does each
worker handle every token, the last included. So nobody moves while the entry is
unlinked, and nobody stands on it (`EntInv` with `ListInv`). For the round, a worker
that holds a node has a counter below the published one (`UseInv`), which the wait
has excluded, and while the counters are reset, the published one first, nothing can
be found.

`QuietWhenClosed` needs none of the queues' counters. `QuietInv` says that the counter of
the list is the number of entries in it (`CountInv`), so that the last delete finds it 0
and stops both groups; that neither group is then taken for stopped already
(`RunningInv`), which would return from `mythread_stop` without waiting; and that the
workers it has waited for report STOP (`AsleepStop`). With `HandshakeInv` a worker that
reports STOP is parked. It holds for every number of batch threads, for a report of STOP
is, unlike one of WAIT, not left over from before.

The refinement needs to know what the counters mean. `HandledInv` says how many tokens a
worker has handled: those of the rounds before and those its counter shows, and one more
between the handler and the increment; while a round is being started, all. `BlockInv`
says which tokens the published nodes hold. So the token a worker takes is the next one
(`HeldNode`), and as its counter is below the published one, the token is published; when
an entry is unlinked every counter has been seen at the published one, and stays there,
for no worker can hold a node then. `TreeReadExclusive` follows from the same:
`lastDone` is not beyond what the stream worker has handled, and a worker that holds a
node has not handled all that is published. The mapping calls a tree open while an entry
*points* to its entry, and to see that this is so exactly while it is on the list
(`LinkedIn`), the entry just unlinked must not point to itself: the list has no cycle
(`AcyclicInv`: every set of entries is left by some link).

`CharPoolProofs` proves about the pool, from `PoolAssumption`, for every number of
threads, every size of chunks, rows and headers and every set of sizes,
`InvariantHolds` (`IndInv`), `TypeCorrect`, `LockExcludes` (`MutualExclusion`),
`ChunksExclusive`, `StringsApart` (`RegionsApart`) and `SparesEmpty`. They assume
`Excluding`: the lock is the mutex, and every thread keeps to its own node. Both are
what the code of the pool relies on and the runs `pool_spin` and `pool_merge` refute
what depends on them without: the theorems say that the pool itself is right, and that
these two places are what a repair has to change.

The argument: the lock keeps the counter of chunks still between `Row` and `Bump`
(`CounterInv`), so that the chunk a call takes was not given out before (`Given`), and
the nodes and the hands of the calls never share one (`ChunkInv`). A step of a thread
then writes only chunks of its node or in its hand (`Others`), and what holds of another
node is framed off (`Frame`). In the thread's own node a region is cut where the chunk
has no cells in use (`CutApart`), or is one the cache had, or grows into free cells;
`JobInv` carries from the choice to the write that this is still so. A chunk that is
emptied is behind the current one, and regions lie in chunks up to it (`RegionInv`).

`HtmlStreamParserProofs` proves, for every alphabet, every name in the place of
`script`, every size of the buffers and every sequence of characters and resets:

* `ParserTypeCorrect` (`HspTypeOK`): no buffer is filled beyond its size;
* `FlagsAgree` (`PartsOfState`), which is inductive with the type alone: a lemma for the
  switch (`SwitchMoves`) says what it sets and clears, state by state;
* `ScriptIsNamed` (`ScriptNamed`). The counter and the buffer are filled by different
  statements, so the invariant `NameInv` relates them from the first letter of a name on:
  while a name is read, the counter is -1 or counts a common beginning (`Counted`,
  `PrefixOf`), and as the buffer is longer than `script`, it tells a longer name from it;
* `ScriptEnd` (`ScriptEnds`). `SinceInv` says, for each of the states 10 to 13, what the
  text since the last `<` looks like.

`CharCacheProofs` proves about the cache, from `CacheAssumption`, for every set of regions
and sizes, every length of the arrays and every order of any number of calls:

* `CacheInvariant` (`CacheInv`), `CacheTypeCorrect`;
* `CachePlaces` (`PlacesConserved`), `CacheChain` (`SortedChain`), `CacheBounds`
  (`InBounds`);
* `CacheIsBestFit` (`Implements`): the cache implements `BestFit`.

The code searches with loops over the array, which are recursive functions in the model
(`Reached`, `FoundLarger`, `Found`); their domains are all places, also those that
no chain reaches. So the invariant says first that the *array* has no circle of right links
but through place 0, also among what free places still hold (`NoCycle`), without which
the loops would not be known to end. It says then that there is a sequence of places, the
*chain*, from the root, linked both ways, sorted by size, each region once (`IsChain`), and
that every other place is on the stack, once (`Chained`, `Stack`). Each search is shown to
stop at the place of the chain that the sizes determine (`DownStops`, `SameStops`,
`FirstStops`); an insertion or removal there gives again a chain (`InsertedChain`,
`RemovedChain`) without a circle (`NoNewCycle`). A deletion takes the first place of the
chain that is large enough, which is the smallest: the step of `BestFit`.

`BenchmarkProofs` proves about the driver, from `KeysAssumption` and
`BenchmarkAssumption`, for every directory, document, change of the directory, sequence of
options and any number of threads:

* `DriverInvariant` (`DriverInv`), `DriverTypeCorrect` (`BTypeOK`);
* `DriverCells` (`LoadedCells`), `DriverReleases` (`Released`);
* `DriverMemory` (`MemoryAtMost`);
* `DriverUnits` (`PrintedUnits`);
* `DriverComparable` (`Comparable`), with `AdaptersAgree` of `AdaptersProofs`.

The invariant lists at each place of `main` what is allocated: the array, the buffers in
the cells, those of files that stayed open because reading them failed, the results
(`Owned`). That the ones are told from the others needs the position in the directory
each came from (`Files`). `MemoryAtMost` is a part of it, and says of a lost update what
it says of each thread's register: it is not more than was asked for. For `PrintedUnits`
both recursions over a size are shown to solve an inequality between the size and the
powers of `Base` (`DivisionsDivide`, `PrefixUnit`), which has one solution each
(`UnitUnique`); the two differ only in the gaps that the property names
(`ScaledInUnits`). What is printed is a number because every adapter returns numbers for
*every* document (`AdaptersCount`): the calls are a finite sequence, for a walk goes to
later nodes only (`WalkForward`, `CallsFrom`), their fold stays in the adapter's states
(`LibxmlType`, `HautType`), and so do the sums over the tree (`GumboTextType`,
`MyHtmlTextType`).

`AdaptersAgree` says of every plain document that the four adapters which build on a parser
count the links and images that there are. For MyHTML that is the set it searches; for
gumbo, that a search over elements reaches every element when there are no templates
(`GumboCounts`). libxml2 and haut count call after call, so what they have counted is a
value of the state that the calls lead to (`Leads`). The calls are put together along first
children and next siblings: `WalkCount` says that the walk from a node meets it, what is
below it and what is behind it, without overlap, because a node is come to in one way only
(`ComesOnce`), and `WalkMeetsAll` that the walk from the top meets every node (`ComesFrom`).
An adapter that counts a node at the call of its beginning then adds, over a walk, the
number of nodes with the attribute (`WalkAdds`). haut counts nothing before the body, so
its step is exact in some states only; `WalkAdds` carries along that the adapter is in one
of them at every node below a body, where a plain document has its links (`PlainBodies`).
In the driver each result is then the sum over the documents so far (`ExactResults`), also
when MyHTML's threads write its counter of bytes between reading and writing.

`TestHspProofs` proves about the adapter for htmlstreamparser, from the
assumptions of `HtmlStreamParser` and `TestAssumption`, for every alphabet, size of the
buffers and test set of any length:

* `AdapterInvariant` (`TestInv`), `AdapterTypeCorrect` (`TestTypeOK`);
* `AdapterMisses` (`MissedAfterImages`);
* `AdapterCountsSame` (`SameCounts`);
* `AdapterScriptIsNamed`, `AdapterScriptEnd`: what is proved of the parser alone holds of
  the parser whose buffers the adapter works in;
* `AdapterAlone` (`History`, `Alone`): each page is parsed by a run that begins alike;
* `AdapterLinksCounted` (`LinksCounted`), which also assumes `NamesAssumption`: the names
  that `test_hsp.c` compares are words of letters, shorter than the buffers they are read
  into, as `a`, `img` and `href` and the buffers of `test_hsp.c:12-27` are.

The first needs the places of the two loops: the inner loop ends at the `>` of the image
(`TagEnd`, a lemma about the switch), so that the increments of `i` after it skip exactly
one character, or run over the end of the page (`Position`, `Left`). `SameCounts` compares
two moments of an execution. The loops over a page are a *run* from one fixed state
(`Start`: no reset leaves anything of the page before), each turn of which is determined
by the state before it (`Turn`); the adapter is always in a run over its page (`Alone`),
each page that was counted has a run that stopped with its counts (`History`), and where
two runs over the same characters stop, they stop in the same state (`StopUnique`).

`LinksCounted` compares the machine with a grammar. `Markup` says what a page says without
saying how it is read: the page is cut into tokens, each with the shape of its kind and
after one it may follow (`Reading`), and the links are the values whose token stands in a
tag `a` behind an attribute `href`. The proof follows the text by its tokens. `Place` is
where the parser stands behind a character of a token: its state, and what the buffers
hold so far (`Holds`: a beginning of the name in lower case, cut off at the buffer).
`StepOn` says that one character keeps the parser in its place, within a token
(`StepWithin`) and from one to the next (`StepOutside`, `StepInTag`), whatever the next
token is. When a name is complete the buffer tells it from the names that are looked for,
also if it was cut off (`HoldsAll`), for those fit. In a script the parser stands
somewhere in the states 10 to 13; that it leaves it exactly at the end of its token follows
from the history of `SinceInv` (`SinceEnd`, `ScriptBehind`). Then the counting: a value
without quotes ends at the character behind it and one in quotes at its last, so each
character ends at most one value (`EndingUnique`), since tokens do not overlap
(`TokensOrdered`). `Knows` carries along a run of the loops that the links counted are the
values that ended so far (`FoundNext`, `KnowsTurn`); `AdapterAlone` says that the page's
counts are those of such a run, and a run stops behind the last character.

What has no reading, and of which the theorem says nothing: pages that end in a tag, a
comment or a script, a tag with anything but white space, an attribute or `>` behind its
name or a value, and a `=` without a value. Of pages with images the misses are
what `AdapterMisses` says, and how many links that costs is not stated.

`RecursionLemmas` holds what these proofs share. A recursive function is, in the logic,
a `CHOOSE` of some function with that equation: `RecursionExists` says that there is one,
if the equation looks only at what comes before in a relation in which every set has a
first element (`Founded`), and `RecursionUnique` that there is no other. `Iterates`,
`FoldExists` and the lemmas about sums are consequences. They take sets and functions
where the library's induction theorems take operators, which is why they can be used here.

Only model-checked: all liveness (fairness and ENABLED are out of the prover's reach), and
what is said about two batch threads.

## Plan

1. *(done)* `MyThread`, `ThreadQueue`, `MyHTML`, `TokenPipeline`, the runs above, the
   proofs above.
2. *(done)* `CharPool`, its runs and proofs.
3. *(done)* `CharCache` and `BestFit`.
4. *(done)* `HtmlStreamParser` with its proofs, `TestHsp`.
5. *(done)* `Adapters`, `Benchmark` with the lost updates of `total_bytes`.
6. *(done)* Proofs of `QuietWhenClosed`, `TreeReadExclusive` and the refinement of
   `TokenPipeline`.
7. *(done)* Proofs of `CharCache` with its refinement of `BestFit`, of `Benchmark` with
   `Adapters`, and of `TestHsp`.
8. *(left)* `mcobject_async`, the same pool for objects of one size: lock and chunks are
   those of `CharPool`. Proof: mutual exclusion of the lock with `compare` reset.

## Not modelled, and why

The strings of `util.c`: four functions that append to a buffer which is enlarged before
each write. Failing allocations, of which several leave counters ahead of the memory
they count (`PROJECT.json` lists two). Of htmlstreamparser: the comparisons of values and
inner text and the release functions, which nothing calls. `print_help`, the message of a
program called without arguments.
`mcobject.c` and `mcobject_async.c`: see the plan.
Of the pool of characters: `mchar_async_node_delete`, `mchar_async_clean` and
`mchar_async_destroy`, called when a tree is destroyed or not at all;
`mchar_async_crop_first_chars`, which has no caller.
Character decoding, tokenizer states, tree construction rules, tag and attribute
tables of MyHTML: sequential text processing whose only effect on the threads is the
kind of a token. gumbo-parser and libxml2: third party and single threaded here. haut:
not in the repository (a submodule). Windows ports of the threads: the benchmark
builds the POSIX ones.
