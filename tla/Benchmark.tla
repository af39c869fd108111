------------------------------ MODULE Benchmark ------------------------------
(***************************************************************************)
(* The program: main.c reads the arguments, benchmark.c loads the files of *)
(* a directory into memory, runs every chosen parser over all of them,     *)
(* main prints the results and frees what was allocated.  The directory    *)
(* may change between the pass that counts its files and the pass that     *)
(* loads them.  In MyHTML's test the threads of the library allocate, and  *)
(* count, at the same time (test_myhtml.c:17-24).                          *)
(***************************************************************************)
EXTENDS Adapters

CONSTANTS
  Options,      \* the sequences of arguments after the directory
  Directories,  \* sequences of directory entries
  Threads,      \* who allocates during a parse of MyHTML
  Amounts,      \* bound: what each of them allocates, one amount each
  Base,         \* 1024, where the next unit of a size begins
  NULL

\* parser_t in the order of its bits; PARSER_ALL does not contain hubbub.
Order == <<"dummy", "hsp", "libxml2", "gumbo", "myhtml", "haut", "hubbub">>
All == {Order[j] : j \in 1 .. 6}

\* An entry of a directory: no regular file, or one that cannot be opened, is
\* empty, cannot be read to its end, or can; its size and its document.
EntryKinds == {"other", "closed", "empty", "short", "good"}
Entries == [kind : EntryKinds, doc : Documents, size : Nat]

\* testset_buffer_t: a buffer, the document in it and its size.
Cells == [block : {"buffer"} \X Nat, doc : Documents, size : Nat]

ASSUME BenchmarkAssumption ==
  /\ Options \subseteq Seq(STRING) /\ Directories \subseteq Seq(Entries)
  /\ Amounts \subseteq Nat /\ Base \in Nat \ {0, 1}
  /\ NULL \notin Nat \cup Cells

VARIABLES
  pc,        \* where main is
  args,      \* the arguments not read yet
  parsers,   \* the bits of parsers that are set
  status,    \* what main returns, NULL before
  dir,       \* the directory as it is now
  pos,       \* how many entries readdir has returned
  testset,   \* data (its cells, NULL for an empty one), count, set_size
  index,     \* index of benchmark_loadTestSet
  live,      \* the blocks allocated and not freed
  open,      \* the directory and files that are open
  results,   \* the array, a result per parser and the last with PARSER_NONE
  r,         \* index of benchmark_performTests
  file,      \* i of benchmark_performTest
  reg,       \* what a thread has read of total_bytes and not written back
  todo,      \* what each thread still allocates in this parse
  asked,     \* history: the sum of what was allocated for this result
  printed    \* history: the results print_results has read

mainVars == <<args, parsers, status>>
loadVars == <<dir, pos, testset, index, open>>
testVars == <<results, r, file, reg, todo, asked>>
bvars == <<pc, args, parsers, status, dir, pos, testset, index, live, open,
           results, r, file, reg, todo, asked, printed>>

Directory == <<"dir", 0>>

\* benchmark_performTests: the number of bits set, and the k-th one of them.
Popcount == Cardinality(parsers)
Bit(p) == CHOOSE j \in DOMAIN Order : Order[j] = p
Chosen(k) == CHOOSE p \in parsers : Cardinality({q \in parsers : Bit(q) <= Bit(p)}) = k

BInit ==
  /\ pc = "args" /\ args \in Options /\ status = NULL
  /\ parsers = IF args = <<>> THEN All ELSE {}
  /\ dir \in Directories /\ pos = 0
  /\ testset = [data |-> NULL, count |-> 0, set_size |-> 0]
  /\ index = 0 /\ live = {} /\ open = {}
  /\ results = NULL /\ r = 0 /\ file = 0
  /\ reg = [t \in Threads |-> NULL] /\ todo = [t \in Threads |-> 0]
  /\ asked = 0 /\ printed = <<>>

-----------------------------------------------------------------------------
\* A mutant: any option is taken for a parser.
ReadArgumentAny ==
  /\ pc = "args" /\ args # <<>>
  /\ args' = Tail(args)
  /\ parsers' = parsers \cup (IF Head(args) = "all" THEN All ELSE {Head(args)})
  /\ UNCHANGED <<pc, status, loadVars, testVars, live, printed>>

\* main.c:74-95.  An option that is not known ends the program.
ReadArgument ==
  /\ pc = "args" /\ args # <<>>
  /\ args' = Tail(args)
  /\ LET option == Head(args)
         known == option = "all" \/ \E j \in DOMAIN Order : Order[j] = option
     IN IF known
        THEN /\ parsers' = parsers \cup (IF option = "all" THEN All ELSE {option})
             /\ UNCHANGED <<pc, status>>
        ELSE /\ pc' = "exit" /\ status' = -1 /\ UNCHANGED parsers
  /\ UNCHANGED <<loadVars, testVars, live, printed>>

\* opendir.
OpenDirectory ==
  /\ pc = "args" /\ args = <<>>
  /\ pc' = "count" /\ open' = {Directory}
  /\ UNCHANGED <<mainVars, dir, pos, testset, index, live, testVars, printed>>

\* The argument is no directory, or one that cannot be opened.
NoDirectory ==
  /\ pc = "args" /\ args = <<>>
  /\ pc' = "exit" /\ status' = -1
  /\ UNCHANGED <<args, parsers, loadVars, live, testVars, printed>>

\* benchmark_loadTestSet, the first pass: count the regular files.
CountEntry ==
  /\ pc = "count" /\ pos < Len(dir)
  /\ pos' = pos + 1
  /\ testset' = [testset EXCEPT !.count = IF dir[pos + 1].kind = "other" THEN @ ELSE @ + 1]
  /\ UNCHANGED <<pc, mainVars, dir, index, open, live, testVars, printed>>

\* No file, or no memory for the array: main ends, the directory stays open.
NothingLoaded ==
  /\ pc = "count" /\ pos = Len(dir)
  /\ pc' = "exit" /\ status' = -1
  /\ UNCHANGED <<args, parsers, loadVars, live, testVars, printed>>

\* The array is allocated and cleared, the directory rewound.  Whatever has
\* been written to it or deleted since is in the second pass.
AllocateArray ==
  /\ pc = "count" /\ pos = Len(dir) /\ testset.count > 0
  /\ testset' = [testset EXCEPT !.data = [j \in 1 .. testset.count |-> NULL]]
  /\ live' = live \cup {<<"array", 0>>}
  /\ dir' \in Directories /\ pos' = 0 /\ pc' = "load"
  /\ UNCHANGED <<mainVars, index, open, testVars, printed>>

\* A mutant: the array is taken to be long enough.
RoomAlways == TRUE

Room == index < testset.count

\* The second pass: testSetAppend for every regular file while there is room.
LoadEntry ==
  /\ pc = "load" /\ Room /\ pos < Len(dir)
  /\ pos' = pos + 1
  /\ LET e == dir[pos + 1]
     IN CASE e.kind = "good" ->
               /\ testset' = [testset EXCEPT
                     !.data[index + 1] = [block |-> <<"buffer", pos>>, doc |-> e.doc, size |-> e.size + 1],
                     !.set_size = @ + e.size + 1]
               /\ live' = live \cup {<<"buffer", pos>>}
               /\ index' = index + 1 /\ UNCHANGED open
          [] e.kind = "short" ->       \* fread fails: the buffer and the file stay
               /\ live' = live \cup {<<"buffer", pos>>}
               /\ open' = open \cup {<<"file", pos>>}
               /\ UNCHANGED <<testset, index>>
          [] e.kind \in {"other", "closed", "empty"} ->
               UNCHANGED <<testset, live, index, open>>
  /\ UNCHANGED <<pc, mainVars, dir, testVars, printed>>

\* A mutant: the directory is not closed.
LoadedOpen ==
  /\ pc = "load" /\ (~ Room \/ pos = Len(dir))
  /\ testset' = [testset EXCEPT !.count = index]
  /\ pc' = "tests"
  /\ UNCHANGED <<mainVars, dir, pos, index, live, open, testVars, printed>>

Loaded ==
  /\ pc = "load" /\ (~ Room \/ pos = Len(dir))
  /\ testset' = [testset EXCEPT !.count = index]
  /\ open' = open \ {Directory} /\ pc' = "tests"
  /\ UNCHANGED <<mainVars, dir, pos, index, live, testVars, printed>>

-----------------------------------------------------------------------------
\* benchmark_performTests: the array of results, the last one marked.
PerformTests ==
  /\ pc = "tests"
  /\ IF Popcount < 1
     THEN results' = NULL /\ pc' = "print" /\ UNCHANGED live
     ELSE /\ results' = [j \in 1 .. Popcount + 1 |->
                          IF j = Popcount + 1 THEN [parser |-> "none"] ELSE NULL]
          /\ live' = live \cup {<<"results", 0>>}
          /\ pc' = "test"
  /\ UNCHANGED <<mainVars, loadVars, r, file, reg, todo, asked, printed>>

\* benchmark_performTest begins: the result is reset; hsp has an init routine.
StartTest ==
  /\ pc = "test" /\ r < Popcount
  /\ LET p == Chosen(r + 1)
     IN /\ results' = [results EXCEPT ![r + 1] =
             [parser |-> p, tests |-> testset.count, href |-> 0, src |-> 0, alt |-> 0,
              bytes |-> 0, text |-> 0]]
        /\ live' = IF p = "hsp" THEN live \cup {<<"hsp", 0>>} ELSE live
  /\ file' = 0 /\ asked' = 0 /\ pc' = "files"
  /\ UNCHANGED <<mainVars, loadVars, r, reg, todo, printed>>

Result == results[r + 1]
InFiles == pc = "files" /\ file < testset.count
Document == testset.data[file + 1].doc

\* What one document adds to the result.
Add(got, bytes) ==
  LET it == [Result EXCEPT !.href = @ + got.href, !.src = @ + got.src,
                           !.alt = @ + got.alt, !.text = @ + got.text, !.bytes = bytes]
  IN results' = [results EXCEPT ![r + 1] = it]

\* The dummy reads the bytes, and hubbub has no adapter.
ParseNothing ==
  /\ InFiles /\ Result.parser \in {"dummy", "hubbub"}
  /\ file' = file + 1
  /\ UNCHANGED <<pc, mainVars, loadVars, live, results, r, reg, todo, asked, printed>>

\* test_hsp: module TestHsp has what it counts.  Its memory is always the same.
ParseHsp ==
  /\ InFiles /\ Result.parser = "hsp"
  /\ \E got \in {Nothing, [Nothing EXCEPT !.href = 1, !.text = 1]} : Add(got, 1)
  /\ file' = file + 1
  /\ UNCHANGED <<pc, mainVars, loadVars, live, r, reg, todo, asked, printed>>

ParseSax ==
  /\ InFiles /\ Result.parser \in {"libxml2", "haut"}
  /\ Add(IF Result.parser = "haut" THEN TestHaut(Document) ELSE TestLibxml2(Document),
         Result.bytes + 1)
  /\ asked' = asked + 1 /\ file' = file + 1
  /\ UNCHANGED <<pc, mainVars, loadVars, live, r, reg, todo, printed>>

\* Gumbo allocates through custom_malloc, in this thread.
ParseGumbo ==
  /\ InFiles /\ Result.parser = "gumbo"
  /\ \E a \in Amounts :
       Add(TestGumbo(Document), Result.bytes + a) /\ asked' = asked + a
  /\ file' = file + 1
  /\ UNCHANGED <<pc, mainVars, loadVars, live, r, reg, todo, printed>>

\* test_myhtml: the owner and the workers allocate through mycore_malloc,
\* which reads, adds to and writes the one counter.
StartMyHtml ==
  /\ InFiles /\ Result.parser = "myhtml"
  /\ pc' = "myhtml" /\ todo' \in [Threads -> Amounts]
  /\ UNCHANGED <<mainVars, loadVars, live, results, r, file, reg, asked, printed>>

MallocRead(t) ==
  /\ pc = "myhtml" /\ todo[t] > 0 /\ reg[t] = NULL
  /\ reg' = [reg EXCEPT ![t] = Result.bytes]
  /\ UNCHANGED <<pc, mainVars, loadVars, live, results, r, file, todo, asked, printed>>

\* A mutant: memory that is reallocated counts again.
MallocWriteTwice(t) ==
  /\ pc = "myhtml" /\ reg[t] # NULL
  /\ results' = [results EXCEPT ![r + 1].bytes = reg[t] + 2 * todo[t]]
  /\ asked' = asked + todo[t]
  /\ reg' = [reg EXCEPT ![t] = NULL] /\ todo' = [todo EXCEPT ![t] = 0]
  /\ UNCHANGED <<pc, mainVars, loadVars, live, r, file, printed>>

MallocWrite(t) ==
  /\ pc = "myhtml" /\ reg[t] # NULL
  /\ results' = [results EXCEPT ![r + 1].bytes = reg[t] + todo[t]]
  /\ asked' = asked + todo[t]
  /\ reg' = [reg EXCEPT ![t] = NULL] /\ todo' = [todo EXCEPT ![t] = 0]
  /\ UNCHANGED <<pc, mainVars, loadVars, live, r, file, printed>>

\* The tree is complete; myhtml_destroy has joined the workers.
EndMyHtml ==
  /\ pc = "myhtml" /\ \A t \in Threads : todo[t] = 0 /\ reg[t] = NULL
  /\ Add(TestMyHtml(Document), Result.bytes)
  /\ file' = file + 1 /\ pc' = "files"
  /\ UNCHANGED <<mainVars, loadVars, live, r, reg, todo, asked, printed>>

EndTest ==
  /\ pc = "files" /\ file = testset.count
  /\ live' = live \ {<<"hsp", 0>>}
  /\ r' = r + 1 /\ pc' = "test"
  /\ UNCHANGED <<mainVars, loadVars, results, file, reg, todo, asked, printed>>

TestsDone ==
  /\ pc = "test" /\ r = Popcount
  /\ pc' = "print"
  /\ UNCHANGED <<mainVars, loadVars, live, testVars, printed>>

-----------------------------------------------------------------------------
Power[k \in Nat] == IF k = 0 THEN 1 ELSE Base * Power[k - 1]

\* How often div_by_largest_prefix divides, a real number, ...
Divisions(size) ==
  LET div[k \in 0 .. size] == IF size > Power[k + 1] THEN 1 + div[k + 1] ELSE 0
  IN div[0]
\* A mutant: the next unit begins at Base.
PrefixFrom(size) ==
  LET str[s \in 0 .. size] == IF s >= Base THEN 1 + str[s \div Base] ELSE 0
  IN str[size]

\* ... and str_largest_prefix, a whole one: the index of the unit it names.
Prefix(size) ==
  LET str[s \in 0 .. size] == IF s > Base THEN 1 + str[s \div Base] ELSE 0
  IN str[size]
Scaled(size) == [size |-> size, divided |-> Divisions(size), unit |-> Prefix(size)]

\* print_results, one result, up to the one that is marked.
PrintResult ==
  /\ pc = "print" /\ results[Len(printed) + 1].parser # "none"
  /\ LET it == results[Len(printed) + 1]
     IN printed' = Append(printed,
          [parser |-> it.parser, bytes |-> Scaled(it.bytes), text |-> Scaled(it.text)])
  /\ UNCHANGED <<pc, mainVars, loadVars, live, testVars>>

\* The results are freed, then the test set, and main returns.
Free ==
  /\ pc = "print" /\ results[Len(printed) + 1].parser = "none"
  /\ live' = live \ ({<<"results", 0>>, <<"array", 0>>} \cup
                     {testset.data[j].block : j \in 1 .. testset.count})
  /\ testset' = [testset EXCEPT !.count = 0, !.set_size = 0]
  /\ results' = NULL /\ status' = 0 /\ pc' = "exit"
  /\ UNCHANGED <<args, parsers, dir, pos, index, open, r, file, reg, todo, asked, printed>>

BNext ==
  \/ ReadArgument \/ OpenDirectory \/ NoDirectory
  \/ CountEntry \/ NothingLoaded \/ AllocateArray \/ LoadEntry \/ Loaded
  \/ PerformTests \/ StartTest \/ ParseNothing \/ ParseHsp \/ ParseSax \/ ParseGumbo
  \/ StartMyHtml \/ (\E t \in Threads : MallocRead(t) \/ MallocWrite(t)) \/ EndMyHtml
  \/ EndTest \/ TestsDone \/ PrintResult \/ Free
BSpec == BInit /\ [][BNext]_bvars

-----------------------------------------------------------------------------
Loading == {"load", "tests", "test", "files", "myhtml", "print"}
Loads == 1 .. testset.count
SetSize(data, n) ==
  LET sum[k \in 0 .. n] == IF k = 0 THEN 0 ELSE sum[k - 1] + data[k].size
  IN sum[n]

\* Type correctness of the driver.
BTypeOK ==
  /\ pc \in {"args", "count", "exit"} \cup Loading
  /\ parsers \subseteq Range(Order) /\ status \in {NULL, 0, -1}
  /\ testset.count \in Nat /\ testset.set_size \in Nat
  /\ index \in Nat /\ r \in Nat /\ file \in Nat /\ asked \in Nat
  /\ DOMAIN reg = Threads /\ todo \in [Threads -> Nat]
  /\ open \subseteq {Directory} \cup ({"file"} \X Nat)

\* However the directory changes between the pass that counts and the pass
\* that loads, and whichever files cannot be read, no cell behind the array is
\* written, the cells before index hold a buffer each that is still allocated,
\* the others are empty, and set_size is the sum of their sizes
\* (benchmark.c:146-160): what the tests and the release go through.
LoadedCells ==
  pc \in Loading =>
    /\ index <= Len(testset.data)
    /\ \A j \in DOMAIN testset.data : testset.data[j] # NULL <=> j <= index
    /\ \A j, k \in 1 .. index : j # k => testset.data[j].block # testset.data[k].block
    /\ \A j \in 1 .. index : testset.data[j].block \in live
    /\ testset.set_size = SetSize(testset.data, index)
    /\ pc # "load" => testset.count = index

\* When main ends, only the buffers of files whose reading failed are still
\* allocated, with these files open (benchmark.c:79-82), and the directory is
\* open only if the program fails (benchmark.c:131-139).
Released ==
  pc = "exit" =>
    /\ live = {<<"buffer", o[2]>> : o \in open \ {Directory}}
    /\ status = 0 => Directory \notin open

\* On documents whose links and images are in the body and outside templates,
\* with plain attributes, the four adapters that build on a parser count the
\* same, and count what is there: a walk over the elements, a search by tag and
\* the calls of two parsers, one of which knows no end of the body
\* (test_libxml2.c:37-62, test_haut.c:27-49, test_gumbo.c:52-83).
Comparable ==
  pc = "print" /\ (\A j \in Loads : Plain(testset.data[j].doc)) =>
    \A j \in DOMAIN results : results[j].parser \in {"libxml2", "gumbo", "myhtml", "haut"} =>
      \A f \in Words : results[j][f] = SumFunction([k \in Loads |-> Links(testset.data[k].doc)[f]])

\* The memory of a result that several threads count is never more than what
\* they allocated, whatever updates get lost (test_myhtml.c:22).
MemoryAtMost ==
  pc \in {"myhtml", "files"} /\ results[r + 1].parser = "myhtml" =>
    /\ results[r + 1].bytes <= asked
    /\ \A t \in Threads : reg[t] # NULL => reg[t] <= asked

\* The comment of test_myhtml.c:17 says that malloc is overridden to keep track
\* of the memory allocated: a result counts all of it.
MemoryCounted ==
  pc = "files" /\ results[r + 1].parser = "myhtml" => results[r + 1].bytes = asked

\* A size is printed in the unit it was divided to, but for the sizes above a
\* power of Base which whole division rounds down to it: these are divided once
\* more than the unit printed says (benchmark.c:33, 41-42).
PrintedUnits ==
  \A j \in DOMAIN printed : \A it \in {printed[j].bytes, printed[j].text} :
    LET gap == \E k \in 1 .. it.divided :
                 Power[k + 1] < it.size /\ it.size < (Base + 1) * Power[k]
    IN /\ it.divided - it.unit = (IF gap THEN 1 ELSE 0)
       /\ it.size <= Power[it.divided + 1] /\ (it.divided > 0 => it.size > Power[it.divided])
===============================================================================
