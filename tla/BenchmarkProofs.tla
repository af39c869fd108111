---------------------------- MODULE BenchmarkProofs ----------------------------
(***************************************************************************)
(* Theorems about the driver, for every sequence of arguments, every       *)
(* directory, every document and any number of threads.                    *)
(*                                                                         *)
(* The driver's invariant says at each place of main what is allocated:    *)
(* the array, the buffers in its cells, those of files that stayed open,   *)
(* the results.  A size that is printed is divided and named by two        *)
(* recursions; each is shown to solve its own inequality between the size  *)
(* and the powers of Base, and the two inequalities differ in the gaps     *)
(* only.  The results are sums of what the adapters add to them for the    *)
(* documents so far: of numbers, and of the links that there are.          *)
(***************************************************************************)
EXTENDS Benchmark, AdaptersProofs

-----------------------------------------------------------------------------
\* What main holds: allocated for the results, and for the parser of one.
Testing == {"test", "files", "myhtml", "print"}
InTest == {"files", "myhtml"}
Results == {<<"results", 0>>}
Parser == {<<"hsp", 0>>}
Failed == {<<"buffer", o[2]>> : o \in open \ {Directory}}
Buffers == {testset.data[j].block : j \in 1 .. index}

\* The types that BTypeOK leaves open: some parser is chosen when the arguments
\* have been read, and a thread has read a number or nothing.
Values ==
  /\ args \in Seq(STRING) /\ (pc = "args" /\ args = <<>> => parsers # {})
  /\ pc \notin {"args", "exit"} => parsers # {}
  /\ dir \in Seq(Entries) /\ pos \in 0 .. Len(dir)
  /\ testset = [data |-> testset.data, count |-> testset.count, set_size |-> testset.set_size]
  /\ reg \in [Threads -> Nat \cup {NULL}]
  /\ r <= Popcount

\* Before the array is allocated there is nothing but the directory.
Before ==
  /\ pc \in {"args", "count"} => index = 0 /\ live = {} /\ r = 0 /\ status = NULL /\ testset.set_size = 0
  /\ pc = "args" => open = {} /\ pos = 0
  /\ pc = "count" => open = {Directory}

\* The files that stay open are not the ones whose buffers are in cells.
Files ==
  /\ open \subseteq {Directory} \cup ({"file"} \X (0 .. pos - 1))
  /\ \A j \in 1 .. index : testset.data[j].block \in {"buffer"} \X (0 .. pos - 1)
  /\ \A j \in 1 .. index : \A o \in open \ {Directory} : testset.data[j].block # <<"buffer", o[2]>>
  /\ pc \in Loading => (Directory \in open <=> pc = "load")

\* The array has its length, and index is within it.
Array ==
  /\ testset.data \in Seq(Cells \cup {NULL})
  /\ index <= Len(testset.data) /\ (pc = "load" => testset.count = Len(testset.data))

\* What is allocated while there is an array, the parser of hsp aside.
Owned ==
  pc \in Loading =>
    live \ Parser = {<<"array", 0>>} \cup Buffers \cup Failed \cup (IF pc \in Testing THEN Results ELSE {})

\* The results up to r are those of tests, and the last of all is marked.
Outcome(it) == {"parser", "bytes"} \subseteq DOMAIN it /\ it.bytes \in Nat

Tested ==
  /\ live \cap Parser # {} => pc \in InTest
  /\ pc \in {"load", "tests"} => r = 0
  /\ pc \in Testing =>
       /\ DOMAIN results = 1 .. Popcount + 1 /\ results[Popcount + 1] = [parser |-> "none"]
       /\ \A k \in 1 .. r : Outcome(results[k])
  /\ pc \in InTest => r < Popcount /\ Outcome(results[r + 1])
  /\ pc = "print" => r = Popcount
  /\ pc # "myhtml" => \A t \in Threads : reg[t] = NULL

Kept == pc \in Loading => Array /\ Files

\* The inductive invariant of the driver.
DriverInv ==
  /\ BTypeOK /\ Values /\ Before /\ Kept /\ LoadedCells
  /\ Owned /\ Released /\ Tested /\ MemoryAtMost

-----------------------------------------------------------------------------
\* The number of bits set is a number, and not 0 if one is set.
LEMMA PopcountNat ==
  ASSUME NEW S \in SUBSET Range(Order)
  PROVE  Cardinality(S) \in Nat /\ (S # {} => Cardinality(S) > 0)
<1>1. Order \in [1 .. 7 -> Range(Order)]
  BY DEF Order, Range
<1>2. \A p \in Range(Order) : \E j \in 1 .. 7 : Order[j] = p
  BY DEF Order, Range
<1>3. IsFiniteSet(1 .. 7)
  <2>1. 1 \in Int /\ 7 \in Int
    OBVIOUS
  <2> QED BY <2>1, FS_Interval
<1> DEFINE Bits == Range(Order)
<1>4. Order \in Surjection(1 .. 7, Bits)
  BY <1>1, <1>2 DEF Surjection
<1> HIDE DEF Bits
<1>5. IsFiniteSet(Bits)
  BY <1>3, <1>4, FS_Surjection
<1>6. IsFiniteSet(S)
  BY <1>5, FS_Subset DEF Bits
<1>7. Cardinality(S) \in Nat
  BY <1>6, FS_CardinalityType
<1> QED BY <1>6, <1>7, FS_EmptySet

\* The equation of the sum of the first n sizes.
Sums(f, data, n) ==
  /\ f \in [0 .. n -> Nat] /\ f[0] = 0
  /\ \A k \in 1 .. n : f[k] = f[k - 1] + data[k].size
Agree(d, e, n) == \A k \in 1 .. n : d[k].size = e[k].size
Sized(data, n) == \A k \in 1 .. n : data[k].size \in Nat

\* The sums of the first sizes exist, one for each number of cells.
LEMMA SumsExist ==
  ASSUME NEW data, NEW n \in Nat, Sized(data, n)
  PROVE  \E f : Sums(f, data, n)
<1> DEFINE T == {m \in Nat : m <= n => \E f : Sums(f, data, m)}
<1>1. 0 \in T
  <2> DEFINE f == [k \in 0 .. 0 |-> 0]
  <2>1. Sums(f, data, 0)
    BY DEF Sums
  <2> QED BY <2>1
<1>2. ASSUME NEW m \in Nat, m \in T PROVE m + 1 \in T
  <2> SUFFICES ASSUME m + 1 <= n PROVE \E f : Sums(f, data, m + 1)
    OBVIOUS
  <2>1. PICK f : Sums(f, data, m)
    BY <1>2
  <2> DEFINE g == [k \in 0 .. m + 1 |-> IF k = m + 1 THEN f[m] + data[m + 1].size ELSE f[k]]
  <2>2. f[m] \in Nat /\ data[m + 1].size \in Nat
    BY <2>1 DEF Sums, Sized
  <2>3. g \in [0 .. m + 1 -> Nat]
    BY <2>1, <2>2 DEF Sums
  <2>4. Sums(g, data, m + 1)
    <3>1. g[0] = 0
      BY <2>1 DEF Sums
    <3>2. ASSUME NEW k \in 1 .. m + 1 PROVE g[k] = g[k - 1] + data[k].size
      BY <2>1 DEF Sums
    <3> HIDE DEF g
    <3> QED BY <2>3, <3>1, <3>2 DEF Sums
  <2> HIDE DEF g
  <2> QED BY <2>4
<1> HIDE DEF T
<1>3. n \in T
  BY <1>1, <1>2, NatSetInduction
<1> QED BY <1>3 DEF T

\* Where two arrays agree, so do their sums.
LEMMA SumsAgree ==
  ASSUME NEW d, NEW e, NEW m \in Nat, NEW n \in Nat, m <= n,
         Agree(d, e, m), NEW f, NEW g, Sums(f, d, m), Sums(g, e, n)
  PROVE  f[m] = g[m]
<1> DEFINE T == {k \in Nat : k <= m => f[k] = g[k]}
<1>1. 0 \in T
  BY DEF Sums
<1>2. ASSUME NEW k \in Nat, k \in T PROVE k + 1 \in T
  <2> SUFFICES ASSUME k + 1 <= m PROVE f[k + 1] = g[k + 1]
    OBVIOUS
  <2>1. f[k] = g[k]
    BY <1>2
  <2>2. k + 1 \in 1 .. m /\ k + 1 \in 1 .. n /\ (k + 1) - 1 = k
    OBVIOUS
  <2> QED BY <2>1, <2>2 DEF Sums, Agree
<1> HIDE DEF T
<1>3. m \in T
  BY <1>1, <1>2, NatSetInduction
<1> QED BY <1>3 DEF T

\* SetSize of the model is the last of these sums.
LEMMA SetSizeSums ==
  ASSUME NEW data, NEW n \in Nat, Sized(data, n)
  PROVE  \E f : Sums(f, data, n) /\ SetSize(data, n) = f[n]
<1> DEFINE P(f) == f = [k \in 0 .. n |-> IF k = 0 THEN 0 ELSE f[k - 1] + data[k].size]
           F == CHOOSE f : P(f)
<1>1. PICK f : Sums(f, data, n)
  BY SumsExist
<1>2. P(f)
  BY <1>1 DEF Sums
<1>3. P(F)
  <2> HIDE DEF P
  <2> QED BY <1>2
<1>4. SetSize(data, n) = F[n]
  BY DEF SetSize
<1> HIDE DEF F
<1> DEFINE T == {k \in Nat : k <= n => F[k] = f[k]}
<1>5. 0 \in T
  BY <1>1, <1>3 DEF Sums
<1>6. ASSUME NEW k \in Nat, k \in T PROVE k + 1 \in T
  BY <1>1, <1>3, <1>6 DEF Sums
<1> HIDE DEF T
<1>7. n \in T
  BY <1>5, <1>6, NatSetInduction
<1> QED BY <1>1, <1>4, <1>7 DEF T

\* set_size: nothing of no cells, one size more for one cell more.
LEMMA SetSizeZero ==
  ASSUME NEW data PROVE SetSize(data, 0) = 0
<1>1. PICK f : Sums(f, data, 0) /\ SetSize(data, 0) = f[0]
  BY SetSizeSums DEF Sized
<1> QED BY <1>1 DEF Sums

\* One cell more adds its size, whatever becomes of the cells behind it.
LEMMA SetSizeNext ==
  ASSUME NEW d, NEW e, NEW n \in Nat, Sized(d, n), Sized(e, n + 1),
         Agree(d, e, n)
  PROVE  SetSize(e, n + 1) = SetSize(d, n) + e[n + 1].size
<1>1. PICK f : Sums(f, d, n) /\ SetSize(d, n) = f[n]
  BY SetSizeSums
<1>2. PICK g : Sums(g, e, n + 1) /\ SetSize(e, n + 1) = g[n + 1]
  BY SetSizeSums
<1>3. f[n] = g[n]
  <2>1. n + 1 \in Nat /\ n <= n + 1
    OBVIOUS
  <2> QED BY <1>1, <1>2, <2>1, SumsAgree
<1>4. n + 1 \in 1 .. n + 1 /\ (n + 1) - 1 = n
  OBVIOUS
<1> QED BY <1>1, <1>2, <1>3, <1>4 DEF Sums

\* The invariant holds when main begins.
LEMMA InitDriver == BInit => DriverInv
<1> SUFFICES ASSUME BInit PROVE DriverInv
  OBVIOUS
<1>1. Range(Order) # {} /\ All # {} /\ All \subseteq Range(Order)
  BY DEF Order, All, Range
<1>2. BTypeOK
  BY <1>1 DEF BInit, BTypeOK, Loading
<1>3. Values
  BY <1>1, PopcountNat, BenchmarkAssumption DEF BInit, Values, Popcount
<1>4. Before /\ Kept /\ LoadedCells /\ Owned /\ Released /\ Tested /\ MemoryAtMost
  BY DEF BInit, Before, Kept, LoadedCells, Owned, Released, Tested, MemoryAtMost, Loading, Testing,
     InTest
<1> QED BY <1>2, <1>3, <1>4 DEF DriverInv

\* An argument (main.c:74-95): a known one sets a bit at least, another ends.
LEMMA ReadArgumentStep ==
  ASSUME DriverInv, ReadArgument PROVE DriverInv'
<1>0. parsers' \subseteq Range(Order) /\ (parsers' # {} \/ pc' = "exit")
  <2>1. parsers \subseteq Range(Order)
    BY DEF DriverInv, BTypeOK
  <2>2. All \subseteq Range(Order) /\ All # {}
    BY DEF All, Order, Range
  <2>3. \A j \in DOMAIN Order : Order[j] \in Range(Order)
    BY DEF Range
  <2> QED BY <2>1, <2>2, <2>3 DEF ReadArgument
<1>1. BTypeOK'
  BY <1>0 DEF DriverInv, BTypeOK, ReadArgument, loadVars, testVars, Loading
<1>2. Values'
  <2>1. args' \in Seq(STRING)
    BY DEF ReadArgument, DriverInv, Values
  <2>2. r' <= Popcount'
    BY <1>0, PopcountNat DEF ReadArgument, DriverInv, Before, Popcount, testVars
  <2> QED BY <1>0, <2>2 DEF DriverInv, Values, ReadArgument, loadVars, testVars
<1>3. Before'
  BY DEF DriverInv, Before, ReadArgument, loadVars, testVars
<1>4. Kept'
  BY DEF Kept, ReadArgument, Loading
<1>5. LoadedCells'
  BY DEF LoadedCells, ReadArgument, Loading
<1>6. Owned'
  BY DEF Owned, ReadArgument, Loading
<1>7. Released'
  BY DEF DriverInv, Released, Before, ReadArgument, loadVars
<1>8. Tested'
  BY DEF DriverInv, Tested, ReadArgument, testVars, Testing, InTest
<1>9. MemoryAtMost'
  BY DEF MemoryAtMost, ReadArgument
<1> QED BY <1>1, <1>2, <1>3, <1>4, <1>5, <1>6, <1>7, <1>8, <1>9 DEF DriverInv

\* opendir (benchmark.c:101-123): some bit is set by then.
LEMMA OpenDirectoryStep ==
  ASSUME DriverInv, OpenDirectory PROVE DriverInv'
<1>1. BTypeOK'
  BY DEF DriverInv, BTypeOK, OpenDirectory, mainVars, testVars
<1>2. Values'
  BY DEF DriverInv, Values, Popcount, OpenDirectory, mainVars, testVars
<1>3. Before'
  BY DEF DriverInv, Before, OpenDirectory, mainVars, testVars
<1>4. Kept'
  BY DEF Kept, OpenDirectory, Loading
<1>5. LoadedCells'
  BY DEF LoadedCells, OpenDirectory, Loading
<1>6. Owned'
  BY DEF Owned, OpenDirectory, Loading
<1>7. Released'
  BY DEF Released, OpenDirectory
<1>8. Tested'
  BY DEF DriverInv, Tested, OpenDirectory, testVars, Testing, InTest
<1>9. MemoryAtMost'
  BY DEF MemoryAtMost, OpenDirectory
<1> QED BY <1>1, <1>2, <1>3, <1>4, <1>5, <1>6, <1>7, <1>8, <1>9 DEF DriverInv

\* Without a directory main ends before anything is allocated.
LEMMA NoDirectoryStep ==
  ASSUME DriverInv, NoDirectory PROVE DriverInv'
<1>1. BTypeOK'
  BY DEF DriverInv, BTypeOK, NoDirectory, loadVars, testVars
<1>2. Values'
  BY DEF DriverInv, Values, Popcount, NoDirectory, loadVars, testVars
<1>3. Before'
  BY DEF Before, NoDirectory
<1>4. Kept'
  BY DEF Kept, NoDirectory, Loading
<1>5. LoadedCells'
  BY DEF LoadedCells, NoDirectory, Loading
<1>6. Owned'
  BY DEF Owned, NoDirectory, Loading
<1>7. Released'
  BY DEF DriverInv, Released, Before, NoDirectory, loadVars
<1>8. Tested'
  BY DEF DriverInv, Tested, NoDirectory, testVars, Testing, InTest
<1>9. MemoryAtMost'
  BY DEF MemoryAtMost, NoDirectory
<1> QED BY <1>1, <1>2, <1>3, <1>4, <1>5, <1>6, <1>7, <1>8, <1>9 DEF DriverInv

\* The pass that counts (benchmark.c:124-129) allocates nothing.
LEMMA CountEntryStep ==
  ASSUME DriverInv, CountEntry PROVE DriverInv'
<1>1. BTypeOK'
  BY DEF DriverInv, BTypeOK, CountEntry, mainVars, testVars
<1>2. Values'
  <2>1. PICK data, c, s : testset = [data |-> data, count |-> c, set_size |-> s]
    BY DEF DriverInv, Values
  <2>2. PICK d : testset' = [testset EXCEPT !.count = d]
    BY DEF CountEntry
  <2>3. testset' = [data |-> data, count |-> d, set_size |-> s]
    BY <2>1, <2>2
  <2>4. pos' \in 0 .. Len(dir)
    BY DEF DriverInv, Values, CountEntry
  <2> QED BY DEF DriverInv, Values, Popcount, CountEntry, mainVars, testVars
<1>3. Before'
  BY DEF DriverInv, Before, CountEntry, mainVars, testVars
<1>4. Kept'
  BY DEF Kept, CountEntry, Loading
<1>5. LoadedCells'
  BY DEF LoadedCells, CountEntry, Loading
<1>6. Owned'
  BY DEF DriverInv, Owned, Before, CountEntry
<1>7. Released'
  BY DEF Released, CountEntry
<1>8. Tested'
  BY DEF DriverInv, Tested, Popcount, CountEntry, mainVars, testVars
<1>9. MemoryAtMost'
  BY DEF MemoryAtMost, CountEntry
<1> QED BY <1>1, <1>2, <1>3, <1>4, <1>5, <1>6, <1>7, <1>8, <1>9 DEF DriverInv

\* With nothing to load (benchmark.c:131-139) the directory stays open.
LEMMA NothingLoadedStep ==
  ASSUME DriverInv, NothingLoaded PROVE DriverInv'
<1>1. BTypeOK'
  BY DEF DriverInv, BTypeOK, NothingLoaded, loadVars, testVars
<1>2. Values'
  BY DEF DriverInv, Values, Popcount, NothingLoaded, loadVars, testVars
<1>3. Before'
  BY DEF Before, NothingLoaded
<1>4. Kept'
  BY DEF Kept, NothingLoaded, Loading
<1>5. LoadedCells'
  BY DEF LoadedCells, NothingLoaded, Loading
<1>6. Owned'
  BY DEF Owned, NothingLoaded, Loading
<1>7. Released'
  BY DEF DriverInv, Released, Before, NothingLoaded, loadVars
<1>8. Tested'
  BY DEF DriverInv, Tested, NothingLoaded, testVars, Testing, InTest
<1>9. MemoryAtMost'
  BY DEF MemoryAtMost, NothingLoaded
<1> QED BY <1>1, <1>2, <1>3, <1>4, <1>5, <1>6, <1>7, <1>8, <1>9 DEF DriverInv

\* The array (benchmark.c:134-142): as many empty cells as were counted.
LEMMA AllocateArrayStep ==
  ASSUME DriverInv, AllocateArray PROVE DriverInv'
<1> USE DEF Loading, Testing, InTest
<1>1. BTypeOK'
  BY DEF DriverInv, BTypeOK, Values, AllocateArray, mainVars, testVars
<1>2. /\ testset.count \in Nat /\ testset'.count = testset.count
      /\ testset'.set_size = 0
      /\ testset'.data = [j \in 1 .. testset.count |-> NULL]
      /\ testset' = [data |-> testset'.data, count |-> testset'.count, set_size |-> testset'.set_size]
  BY DEF DriverInv, BTypeOK, Values, Before, AllocateArray
<1>3. testset'.data \in Seq(Cells \cup {NULL}) /\ Len(testset'.data) = testset'.count
      /\ DOMAIN testset'.data = 1 .. testset'.count /\ \A j \in DOMAIN testset'.data : testset'.data[j] = NULL
  BY <1>2
<1>4. index' = 0 /\ pc' = "load" /\ live' = {<<"array", 0>>} /\ pos' = 0 /\ dir' \in Seq(Entries)
  BY BenchmarkAssumption DEF DriverInv, Before, AllocateArray
<1>5. open' = {Directory}
  BY DEF DriverInv, Before, AllocateArray
<1>6. Values'
  BY <1>2, <1>4 DEF DriverInv, Values, Popcount, AllocateArray, mainVars, testVars
<1>7. Before' /\ Released'
  BY <1>4 DEF Before, Released
<1>8. Kept'
  BY <1>3, <1>4, <1>5 DEF Kept, Array, Files
<1>9. LoadedCells'
  BY <1>2, <1>3, <1>4, SetSizeZero DEF LoadedCells
<1>10. Owned'
  BY <1>4, <1>5 DEF Owned, Buffers, Failed, Parser
<1>11. Tested' /\ MemoryAtMost'
  BY DEF DriverInv, Tested, MemoryAtMost, AllocateArray, testVars, Before, Parser
<1> QED BY <1>1, <1>6, <1>7, <1>8, <1>9, <1>10, <1>11 DEF DriverInv

\* The pass that loads (benchmark.c:63-99): a new buffer goes to the first empty
\* cell, or, if its file cannot be read to the end, stays with the open file.
LEMMA LoadEntryStep ==
  ASSUME DriverInv, LoadEntry PROVE DriverInv'
<1> USE DEF Loading, Testing, InTest
<1>0. PICK data, c, s : testset = [data |-> data, count |-> c, set_size |-> s]
  BY DEF DriverInv, Values
<1> DEFINE e == dir[pos + 1]
           cell == [block |-> <<"buffer", pos>>, doc |-> e.doc, size |-> e.size + 1]
<1>1. /\ pc = "load" /\ pc' = "load" /\ pos \in Nat /\ pos' = pos + 1
      /\ pos + 1 \in 1 .. Len(dir) /\ e \in Entries /\ e.size \in Nat /\ e.kind \in EntryKinds
      /\ s \in Nat /\ c \in Nat /\ c = Len(data) /\ data \in Seq(Cells \cup {NULL})
      /\ index \in Nat /\ index < c
  <2>1. pc = "load" /\ pc' = "load" /\ pos' = pos + 1 /\ pos < Len(dir) /\ index < c
    BY <1>0 DEF LoadEntry, Room
  <2>2. dir \in Seq(Entries) /\ pos \in 0 .. Len(dir) /\ Len(dir) \in Nat
    BY DEF DriverInv, Values
  <2>3. pos + 1 \in 1 .. Len(dir) /\ e \in Entries
    BY <2>1, <2>2
  <2>4. e.size \in Nat /\ e.kind \in EntryKinds
    BY <2>3 DEF Entries
  <2>5. s \in Nat /\ c \in Nat /\ index \in Nat
    BY <1>0 DEF DriverInv, BTypeOK
  <2>6. c = Len(data) /\ data \in Seq(Cells \cup {NULL})
    BY <1>0, <2>1 DEF DriverInv, Kept, Array
  <2> QED BY <2>1, <2>2, <2>3, <2>4, <2>5, <2>6
<1>2. /\ BTypeOK /\ Values /\ Array /\ Files /\ LoadedCells /\ Tested /\ Owned
  BY <1>1 DEF DriverInv, Kept
<1>3. UNCHANGED <<pc, mainVars, dir, testVars, printed>>
  BY DEF LoadEntry
<1>4. Before' /\ Released'
  BY <1>1 DEF Before, Released
<1>5. MemoryAtMost'
  BY <1>1 DEF MemoryAtMost
<1>9. /\ DOMAIN data = 1 .. Len(data) /\ s = SetSize(data, index)
      /\ \A j \in DOMAIN data : data[j] # NULL <=> j <= index
      /\ \A j \in 1 .. index : data[j] \in Cells /\ data[j].size \in Nat
      /\ \A j \in 1 .. index : data[j].block \in {"buffer"} \X (0 .. pos - 1)
      /\ \A j \in 1 .. index : data[j].block \in live /\ data[j].block # <<"buffer", pos>>
      /\ \A j \in 1 .. index : \A o \in open \ {Directory} : data[j].block # <<"buffer", o[2]>>
      /\ \A j, k \in 1 .. index : j # k => data[j].block # data[k].block
  <2>1. DOMAIN data = 1 .. Len(data)
    BY <1>1
  <2>2. \A j \in 1 .. index : j \in DOMAIN data /\ data[j] # NULL
    BY <1>0, <1>1, <1>2, <2>1 DEF LoadedCells
  <2>3. \A j \in 1 .. index : data[j] \in Cells /\ data[j].size \in Nat
    BY <1>1, <2>1, <2>2 DEF Cells
  <2>4. /\ s = SetSize(data, index)
        /\ \A j \in DOMAIN data : data[j] # NULL <=> j <= index
        /\ \A j \in 1 .. index : data[j].block \in live
        /\ \A j, k \in 1 .. index : j # k => data[j].block # data[k].block
    BY <1>0, <1>1, <1>2 DEF LoadedCells
  <2>5. /\ \A j \in 1 .. index : data[j].block \in {"buffer"} \X (0 .. pos - 1)
        /\ \A j \in 1 .. index : \A o \in open \ {Directory} : data[j].block # <<"buffer", o[2]>>
    BY <1>0, <1>2 DEF Files
  <2>6. <<"buffer", pos>> \notin {"buffer"} \X (0 .. pos - 1)
    BY <1>1
  <2> QED BY <2>1, <2>3, <2>4, <2>5, <2>6
<1>10. open \subseteq {Directory} \cup ({"file"} \X (0 .. pos - 1)) /\ Directory \in open
  BY <1>1, <1>2 DEF Files
<1>11. Buffers = {data[j].block : j \in 1 .. index}
  BY <1>0 DEF Buffers
<1>6. CASE e.kind = "good"
  <2>1. /\ testset' = [testset EXCEPT !.data[index + 1] = cell, !.set_size = @ + e.size + 1]
        /\ live' = live \cup {<<"buffer", pos>>} /\ index' = index + 1 /\ open' = open
    BY <1>6 DEF LoadEntry
  <2>2. cell \in Cells /\ cell.size = e.size + 1 /\ cell.block = <<"buffer", pos>>
    BY <1>1 DEF Cells, Entries
  <2> HIDE DEF cell
  <2>3. PICK d : d = [data EXCEPT ![index + 1] = cell]
    OBVIOUS
  <2>4. testset' = [data |-> d, count |-> c, set_size |-> s + cell.size]
    <3>1. testset.data = data /\ testset.set_size = s
      BY <1>0
    <3>2. s + e.size + 1 = s + cell.size
      BY <1>1, <2>2
    <3> HIDE DEF e
    <3>3. testset' = [testset EXCEPT !.data = d, !.set_size = s + cell.size]
      BY <2>1, <2>3, <3>1, <3>2
    <3> QED BY <1>0, <3>3
  <2>5. /\ d \in Seq(Cells \cup {NULL}) /\ Len(d) = Len(data) /\ DOMAIN d = 1 .. Len(data)
        /\ d[index + 1] = cell /\ index + 1 \in 1 .. Len(data)
        /\ \A j \in 1 .. Len(data) : j # index + 1 => d[j] = data[j]
    BY <1>1, <2>2, <2>3
  <2>6. \A j \in 1 .. index : d[j] = data[j] /\ j # index + 1
    BY <1>1, <2>5
  <2>7. \A j \in 1 .. index + 1 : j \in 1 .. index \/ j = index + 1
    BY <1>1
  <2>15. testset'.data = d /\ testset'.count = c /\ testset'.set_size = s + cell.size
    BY <2>4
  <2>8. BTypeOK'
    <3>1. open' \subseteq {Directory} \cup ({"file"} \X Nat)
      BY <1>2, <2>1 DEF BTypeOK
    <3>2. s + cell.size \in Nat /\ index + 1 \in Nat
      BY <1>1, <2>2
    <3> QED BY <1>2, <1>3, <2>1, <2>15, <3>2 DEF BTypeOK, mainVars, testVars
  <2>9. Values'
    BY <1>1, <1>2, <1>3, <2>4 DEF Values, Popcount, mainVars, testVars
  <2>10. Array'
    BY <1>1, <1>2, <1>3, <2>1, <2>15, <2>5 DEF Array
  <2>11. Files'
    <3>1. open' \subseteq {Directory} \cup ({"file"} \X (0 .. pos' - 1))
      BY <1>1, <1>10, <2>1
    <3>2. \A j \in 1 .. index + 1 : d[j].block \in {"buffer"} \X (0 .. pos' - 1)
      <4>1. {"buffer"} \X (0 .. pos - 1) \subseteq {"buffer"} \X (0 .. pos' - 1)
        BY <1>1
      <4>2. <<"buffer", pos>> \in {"buffer"} \X (0 .. pos' - 1)
        BY <1>1
      <4>3. \A j \in 1 .. index : d[j].block \in {"buffer"} \X (0 .. pos' - 1)
        BY <1>9, <2>6, <4>1
      <4> QED BY <2>2, <2>5, <2>7, <4>2, <4>3
    <3>3. \A o \in open \ {Directory} : <<"buffer", pos>> # <<"buffer", o[2]>>
      BY <1>1, <1>10
    <3>4. \A j \in 1 .. index + 1 : \A o \in open \ {Directory} : d[j].block # <<"buffer", o[2]>>
      <4>1. \A j \in 1 .. index : \A o \in open \ {Directory} : d[j].block # <<"buffer", o[2]>>
        BY <1>9, <2>6
      <4> QED BY <2>2, <2>5, <2>7, <3>3, <4>1
    <3> QED BY <1>1, <1>10, <2>1, <2>15, <3>1, <3>2, <3>4 DEF Files
  <2>12. LoadedCells'
    <3>1. index + 1 <= Len(d)
      BY <1>1, <2>5
    <3>2. \A j \in DOMAIN d : d[j] # NULL <=> j <= index + 1
      <4>1. cell # NULL
        BY <2>2, BenchmarkAssumption
      <4> QED BY <1>1, <1>9, <2>5, <4>1
    <3>3. \A j, k \in 1 .. index + 1 : j # k => d[j].block # d[k].block
      BY <1>9, <2>2, <2>5, <2>6, <2>7
    <3>4. \A j \in 1 .. index + 1 : d[j].block \in live'
      BY <1>9, <2>1, <2>2, <2>5, <2>6, <2>7
    <3>5. s + cell.size = SetSize(d, index + 1)
      <4>1. Sized(data, index) /\ Agree(data, d, index)
        BY <1>9, <2>6 DEF Sized, Agree
      <4>2. Sized(d, index + 1)
        BY <1>1, <1>9, <2>2, <2>5, <2>6, <2>7 DEF Sized
      <4>3. SetSize(d, index + 1) = SetSize(data, index) + d[index + 1].size
        BY <1>1, <4>1, <4>2, SetSizeNext
      <4> QED BY <1>9, <2>5, <4>3
    <3>6. /\ index' <= Len(testset'.data) /\ testset'.set_size = SetSize(testset'.data, index')
          /\ \A j \in DOMAIN testset'.data : testset'.data[j] # NULL <=> j <= index'
      BY <2>1, <2>15, <3>1, <3>2, <3>5
    <3>7. 1 .. index' = 1 .. index + 1
      BY <2>1
    <3>8. \A j, k \in 1 .. index' : j # k => testset'.data[j].block # testset'.data[k].block
      BY <2>15, <3>3, <3>7
    <3>9. \A j \in 1 .. index' : testset'.data[j].block \in live'
      BY <2>15, <3>4, <3>7
    <3> QED BY <1>1, <3>6, <3>8, <3>9 DEF LoadedCells
  <2>13. Owned'
    <3>1. Buffers' = {d[j].block : j \in 1 .. index + 1}
      BY <2>1, <2>15 DEF Buffers
    <3>2. Buffers' = Buffers \cup {<<"buffer", pos>>}
      <4>1. 1 .. index + 1 = (1 .. index) \cup {index + 1}
        BY <1>1
      <4> QED BY <1>11, <2>2, <2>5, <2>6, <3>1, <4>1
    <3>3. Failed' = Failed
      BY <2>1 DEF Failed
    <3> QED BY <1>1, <1>2, <2>1, <3>2, <3>3 DEF Owned, Parser
  <2>14. Tested'
    BY <1>1, <1>2, <1>3, <2>1 DEF Tested, Parser, testVars
  <2> QED BY <1>4, <1>5, <2>8, <2>9, <2>10, <2>11, <2>12, <2>13, <2>14 DEF DriverInv, Kept
<1>7. CASE e.kind = "short"
  <2>1. /\ live' = live \cup {<<"buffer", pos>>} /\ open' = open \cup {<<"file", pos>>}
        /\ testset' = testset /\ index' = index
    BY <1>7 DEF LoadEntry
  <2>2. BTypeOK'
    BY <1>1, <1>2, <1>3, <2>1 DEF BTypeOK, mainVars, testVars
  <2>3. Values'
    BY <1>1, <1>2, <1>3, <2>1 DEF Values, Popcount, mainVars, testVars
  <2>4. Array' /\ LoadedCells'
    BY <1>1, <1>2, <1>3, <2>1 DEF Array, LoadedCells
  <2>5. Files'
    <3>1. open' \subseteq {Directory} \cup ({"file"} \X (0 .. pos' - 1)) /\ Directory \in open'
      BY <1>1, <1>10, <2>1
    <3>2. \A j \in 1 .. index : data[j].block \in {"buffer"} \X (0 .. pos' - 1)
      BY <1>1, <1>9
    <3>3. <<"file", pos>>[2] = pos
      OBVIOUS
    <3>4. \A j \in 1 .. index : \A o \in open' \ {Directory} : data[j].block # <<"buffer", o[2]>>
      BY <1>9, <2>1, <3>3
    <3> QED BY <1>0, <1>1, <2>1, <3>1, <3>2, <3>4 DEF Files
  <2>6. Failed' = Failed \cup {<<"buffer", pos>>}
    <3>1. open' \ {Directory} = (open \ {Directory}) \cup {<<"file", pos>>}
      BY <2>1 DEF Directory
    <3>2. <<"file", pos>>[2] = pos
      OBVIOUS
    <3> QED BY <3>1, <3>2 DEF Failed
  <2>7. Owned'
    BY <1>1, <1>2, <2>1, <2>6 DEF Owned, Parser, Buffers
  <2>8. Tested'
    BY <1>1, <1>2, <1>3, <2>1 DEF Tested, Parser, testVars
  <2> QED BY <1>4, <1>5, <2>2, <2>3, <2>4, <2>5, <2>7, <2>8 DEF DriverInv, Kept
<1>8. CASE e.kind \in {"other", "closed", "empty"}
  <2>1. UNCHANGED <<testset, live, index, open>>
    BY <1>8 DEF LoadEntry
  <2>2. BTypeOK' /\ Array' /\ LoadedCells'
    BY <1>2, <1>3, <2>1 DEF BTypeOK, Array, LoadedCells, mainVars, testVars
  <2>3. Values'
    BY <1>1, <1>2, <1>3, <2>1 DEF Values, Popcount, mainVars, testVars
  <2>4. Files'
    <3>1. open \subseteq {Directory} \cup ({"file"} \X (0 .. pos' - 1))
      BY <1>1, <1>10
    <3>2. \A j \in 1 .. index : data[j].block \in {"buffer"} \X (0 .. pos' - 1)
      BY <1>1, <1>9
    <3> QED BY <1>0, <1>1, <1>9, <1>10, <2>1 DEF Files
  <2>5. Owned' /\ Tested'
    BY <1>1, <1>2, <1>3, <2>1 DEF Owned, Buffers, Failed, Tested, testVars
  <2> QED BY <1>4, <1>5, <2>2, <2>3, <2>4, <2>5 DEF DriverInv, Kept
<1> HIDE DEF e
<1> QED BY <1>1, <1>6, <1>7, <1>8 DEF EntryKinds

\* After the loading (benchmark.c:160-163) count is the number of cells in use.
LEMMA LoadedStep ==
  ASSUME DriverInv, Loaded PROVE DriverInv'
<1> USE DEF Loading, Testing, InTest
<1>1. /\ testset'.count = index /\ testset'.set_size = testset.set_size /\ testset'.data = testset.data
      /\ testset' = [data |-> testset'.data, count |-> testset'.count, set_size |-> testset'.set_size]
  BY DEF DriverInv, Values, Loaded
<1>2. BTypeOK'
  BY <1>1 DEF DriverInv, BTypeOK, Loaded, mainVars, testVars
<1>3. Values'
  BY <1>1 DEF DriverInv, Values, Popcount, Loaded, mainVars, testVars
<1>4. Before' /\ Released'
  BY DEF Before, Released, Loaded
<1>5. Array' /\ LoadedCells'
  BY <1>1 DEF DriverInv, Kept, Array, LoadedCells, Loaded
<1>6. Files'
  BY <1>1 DEF DriverInv, Kept, Files, Loaded
<1>7. Owned'
  BY <1>1 DEF DriverInv, Owned, Buffers, Failed, Parser, Loaded
<1>8. Tested' /\ MemoryAtMost'
  BY DEF DriverInv, Tested, Loaded, Parser, testVars, MemoryAtMost
<1> QED BY <1>2, <1>3, <1>4, <1>5, <1>6, <1>7, <1>8 DEF DriverInv, Kept

\* Behind the loading the test set stays as it is.
LEMMA LoadKept ==
  ASSUME DriverInv, pc \in Loading \ {"load"}, pc' \in Loading \ {"load"},
         UNCHANGED <<loadVars, status, parsers>>, live \ (Parser \cup Results) \subseteq live'
  PROVE  Before' /\ Kept' /\ LoadedCells' /\ Released'
<1>1. Before' /\ Released'
  BY DEF Before, Released, Loading
<1>2. Kept'
  BY DEF DriverInv, Kept, Array, Files, loadVars
<1>3. \A j \in 1 .. index : testset.data[j].block \in live'
  <2>1. \A j \in 1 .. index : testset.data[j].block \in live
    BY DEF DriverInv, LoadedCells
  <2>2. \A j \in 1 .. index : testset.data[j].block \in {"buffer"} \X (0 .. pos - 1)
    BY DEF DriverInv, Kept, Files
  <2>3. \A b \in {"buffer"} \X (0 .. pos - 1) : b \notin Parser \cup Results
    BY DEF Parser, Results
  <2> QED BY <2>1, <2>2, <2>3
<1>4. LoadedCells'
  BY <1>3 DEF DriverInv, LoadedCells, loadVars
<1> QED BY <1>1, <1>2, <1>4

\* The array of results (benchmark.c:176-187): one more than bits are set.
LEMMA PerformTestsStep ==
  ASSUME DriverInv, PerformTests PROVE DriverInv'
<1> USE DEF Loading, Testing, InTest
<1>1. Popcount \in Nat /\ Popcount >= 1
  <2>1. parsers \in SUBSET Range(Order) /\ parsers # {}
    BY DEF DriverInv, BTypeOK, Values, PerformTests
  <2>2. Cardinality(parsers) \in Nat /\ Cardinality(parsers) > 0
    BY <2>1, PopcountNat
  <2> QED BY <2>2 DEF Popcount
<1>2. /\ results' = [j \in 1 .. Popcount + 1 |-> IF j = Popcount + 1 THEN [parser |-> "none"] ELSE NULL]
      /\ live' = live \cup Results /\ pc = "tests" /\ pc' = "test"
      /\ UNCHANGED <<mainVars, loadVars, r, file, reg, todo, asked, printed>>
  BY <1>1 DEF PerformTests, Results
<1>3. Before' /\ Kept' /\ LoadedCells' /\ Released'
  BY <1>2, LoadKept DEF PerformTests, mainVars
<1>4. BTypeOK' /\ Values'
  BY <1>2 DEF DriverInv, BTypeOK, Values, Popcount, mainVars, loadVars
<1>5. Owned'
  BY <1>2 DEF DriverInv, Owned, Buffers, Failed, Parser, Results, loadVars
<1>6. Tested'
  <2>1. r = 0 /\ live \cap Parser = {} /\ \A t \in Threads : reg[t] = NULL
    BY DEF DriverInv, Tested, PerformTests
  <2>2. DOMAIN results' = 1 .. Popcount + 1 /\ results'[Popcount + 1] = [parser |-> "none"]
    BY <1>1, <1>2
  <2>3. live' \cap Parser = {}
    BY <1>2, <2>1 DEF Parser, Results
  <2> QED BY <1>2, <2>1, <2>2, <2>3 DEF Tested, Popcount, mainVars
<1>7. MemoryAtMost'
  BY <1>2 DEF MemoryAtMost
<1> QED BY <1>3, <1>4, <1>5, <1>6, <1>7 DEF DriverInv

\* A test begins (benchmark.c:198-212): its result is one of the array.
LEMMA StartTestStep ==
  ASSUME DriverInv, StartTest PROVE DriverInv'
<1> USE DEF Loading, Testing, InTest
<1>0. r \in Nat /\ Popcount \in Nat /\ r < Popcount
  BY PopcountNat DEF DriverInv, BTypeOK, Popcount, StartTest
<1>1. PICK it : /\ results' = [results EXCEPT ![r + 1] = it]
                /\ {"parser", "bytes"} \subseteq DOMAIN it /\ it.bytes = 0
  <2> DEFINE it == [parser |-> Chosen(r + 1), tests |-> testset.count, href |-> 0, src |-> 0, alt |-> 0,
                    bytes |-> 0, text |-> 0]
  <2>1. results' = [results EXCEPT ![r + 1] = it]
    BY DEF StartTest
  <2>2. {"parser", "bytes"} \subseteq DOMAIN it /\ it.bytes = 0
    OBVIOUS
  <2> HIDE DEF it
  <2> QED BY <2>1, <2>2
<1>2. /\ pc = "test" /\ pc' = "files" /\ file' = 0 /\ asked' = 0
      /\ live \subseteq live' /\ live' \subseteq live \cup Parser
      /\ UNCHANGED <<mainVars, loadVars, r, reg, todo, printed>>
  BY DEF StartTest, Parser
<1>3. Before' /\ Kept' /\ LoadedCells' /\ Released'
  BY <1>2, LoadKept DEF mainVars
<1>4. BTypeOK' /\ Values'
  BY <1>2 DEF DriverInv, BTypeOK, Values, Popcount, mainVars, loadVars
<1>5. Owned'
  <2>1. live' \ Parser = live \ Parser
    BY <1>2
  <2> QED BY <1>2, <2>1 DEF DriverInv, Owned, Buffers, Failed, loadVars
<1>6. /\ DOMAIN results' = 1 .. Popcount + 1 /\ results'[r + 1] = it
      /\ \A k \in 1 .. Popcount + 1 : k # r + 1 => results'[k] = results[k]
  BY <1>0, <1>1, <1>2 DEF DriverInv, Tested
<1>7. Tested'
  <2>1. results'[Popcount + 1] = [parser |-> "none"]
    BY <1>0, <1>2, <1>6 DEF DriverInv, Tested
  <2>2. \A k \in 1 .. r : results'[k] = results[k] /\ Outcome(results[k])
    BY <1>0, <1>2, <1>6 DEF DriverInv, Tested
  <2>3. Outcome(results'[r + 1])
    BY <1>1, <1>6 DEF Outcome
  <2>4. \A t \in Threads : reg[t] = NULL
    BY <1>2 DEF DriverInv, Tested
  <2> QED BY <1>0, <1>2, <1>6, <2>1, <2>2, <2>3, <2>4 DEF Tested, Popcount, mainVars
<1>8. MemoryAtMost'
  <2>1. \A t \in Threads : reg[t] = NULL
    BY <1>2 DEF DriverInv, Tested
  <2> QED BY <1>1, <1>2, <1>6, <2>1 DEF MemoryAtMost
<1> QED BY <1>3, <1>4, <1>5, <1>7, <1>8 DEF DriverInv

\* A test ends (benchmark.c:250-257): the parser of hsp is freed.
LEMMA EndTestStep ==
  ASSUME DriverInv, EndTest PROVE DriverInv'
<1> USE DEF Loading, Testing, InTest
<1>0. r \in Nat /\ Popcount \in Nat /\ r < Popcount
  BY PopcountNat DEF DriverInv, BTypeOK, Popcount, Tested, EndTest
<1>2. /\ pc = "files" /\ pc' = "test" /\ r' = r + 1
      /\ live' = live \ Parser
      /\ UNCHANGED <<mainVars, loadVars, results, file, reg, todo, asked, printed>>
  BY DEF EndTest, Parser
<1>3. Before' /\ Kept' /\ LoadedCells' /\ Released'
  BY <1>2, LoadKept DEF mainVars
<1>4. BTypeOK' /\ Values'
  BY <1>0, <1>2 DEF DriverInv, BTypeOK, Values, Popcount, mainVars, loadVars
<1>5. Owned'
  BY <1>2 DEF DriverInv, Owned, Buffers, Failed, loadVars, Parser
<1>6. Tested'
  <2>1. \A k \in 1 .. r + 1 : Outcome(results[k])
    BY <1>0, <1>2 DEF DriverInv, Tested
  <2> QED BY <1>2, <2>1 DEF DriverInv, Tested, Popcount, mainVars
<1>7. MemoryAtMost'
  BY <1>2 DEF MemoryAtMost
<1> QED BY <1>3, <1>4, <1>5, <1>6, <1>7 DEF DriverInv

\* After as many tests as bits are set the results are printed.
LEMMA TestsDoneStep ==
  ASSUME DriverInv, TestsDone PROVE DriverInv'
<1> USE DEF Loading, Testing, InTest
<1>1. /\ pc = "test" /\ pc' = "print" /\ r = Popcount
      /\ UNCHANGED <<mainVars, loadVars, live, testVars, printed>>
  BY DEF TestsDone
<1>2. Before' /\ Kept' /\ LoadedCells' /\ Released'
  BY <1>1, LoadKept DEF mainVars
<1>3. BTypeOK' /\ Values'
  BY <1>1 DEF DriverInv, BTypeOK, Values, Popcount, mainVars, loadVars, testVars
<1>4. Owned'
  BY <1>1 DEF DriverInv, Owned, Buffers, Failed, loadVars
<1>5. Tested'
  BY <1>1 DEF DriverInv, Tested, Popcount, mainVars, testVars
<1>6. MemoryAtMost'
  BY <1>1 DEF MemoryAtMost
<1> QED BY <1>2, <1>3, <1>4, <1>5, <1>6 DEF DriverInv

\* What a document adds stays in the result of this test.
LEMMA AddResult ==
  ASSUME DriverInv, pc \in InTest, NEW got, NEW b \in Nat, Add(got, b)
  PROVE  /\ DOMAIN results' = DOMAIN results /\ Outcome(results'[r + 1])
         /\ results'[r + 1].bytes = b /\ results'[r + 1].parser = results[r + 1].parser
         /\ \A k \in DOMAIN results : k # r + 1 => results'[k] = results[k]
<1>1. /\ r \in Nat /\ Popcount \in Nat /\ r < Popcount /\ DOMAIN results = 1 .. Popcount + 1
      /\ Outcome(results[r + 1])
  BY PopcountNat DEF DriverInv, BTypeOK, Tested, Popcount, Testing, InTest
<1> DEFINE it == [results[r + 1] EXCEPT !.href = @ + got.href, !.src = @ + got.src,
                        !.alt = @ + got.alt, !.text = @ + got.text, !.bytes = b]
<1>3. results' = [results EXCEPT ![r + 1] = it]
  BY DEF Add, Result
<1>4. DOMAIN it = DOMAIN results[r + 1] /\ it.bytes = b /\ it.parser = results[r + 1].parser
  BY <1>1 DEF Outcome
<1> HIDE DEF it
<1>5. r + 1 \in DOMAIN results
  BY <1>1
<1>6. results'[r + 1] = it
  BY <1>3, <1>5
<1>7. DOMAIN results' = DOMAIN results /\ \A k \in DOMAIN results : k # r + 1 => results'[k] = results[k]
  BY <1>3
<1> QED BY <1>1, <1>4, <1>6, <1>7 DEF Outcome

\* A step of a test that changes nothing but this result and its counters.
LEMMA InTestStep ==
  ASSUME DriverInv, pc \in InTest, pc' \in InTest, UNCHANGED <<mainVars, loadVars, live, r, printed>>,
         DOMAIN results' = DOMAIN results, Outcome(results'[r + 1]),
         \A k \in DOMAIN results : k # r + 1 => results'[k] = results[k],
         file' \in Nat, asked' \in Nat, todo' \in [Threads -> Nat], reg' \in [Threads -> Nat \cup {NULL}],
         pc' # "myhtml" => \A t \in Threads : reg'[t] = NULL
  PROVE  BTypeOK' /\ Values' /\ Before' /\ Kept' /\ LoadedCells' /\ Owned' /\ Released' /\ Tested'
<1> USE DEF Loading, Testing, InTest
<1>1. Before' /\ Kept' /\ LoadedCells' /\ Released'
  BY LoadKept DEF mainVars
<1>2. BTypeOK' /\ Values'
  BY DEF DriverInv, BTypeOK, Values, Popcount, mainVars, loadVars
<1>3. Owned'
  BY DEF DriverInv, Owned, Buffers, Failed, loadVars
<1>4. Tested'
  <2>1. r \in Nat /\ Popcount \in Nat /\ r < Popcount /\ DOMAIN results = 1 .. Popcount + 1
    BY PopcountNat DEF DriverInv, BTypeOK, Tested, Popcount
  <2>2. results'[Popcount + 1] = [parser |-> "none"]
    BY <2>1 DEF DriverInv, Tested
  <2>3. \A k \in 1 .. r : Outcome(results'[k])
    BY <2>1 DEF DriverInv, Tested, Outcome
  <2>4. Popcount' = Popcount /\ r' = r
    BY DEF Popcount, mainVars
  <2> QED BY <2>1, <2>2, <2>3, <2>4 DEF DriverInv, Tested, Outcome
<1> QED BY <1>1, <1>2, <1>3, <1>4

\* The memory that a document adds is added to a number.
LEMMA FileNat ==
  ASSUME DriverInv, pc \in InTest
  PROVE  /\ file + 1 \in Nat /\ asked \in Nat /\ todo \in [Threads -> Nat]
         /\ reg \in [Threads -> Nat \cup {NULL}] /\ results[r + 1].bytes \in Nat
         /\ Outcome(results[r + 1])
  BY DEF DriverInv, BTypeOK, Values, Tested, Outcome

\* The adapters that count nothing (test_dummy.c:10-18).
LEMMA ParseNothingStep ==
  ASSUME DriverInv, ParseNothing PROVE DriverInv'
<1>1. /\ pc = "files" /\ file' = file + 1
      /\ UNCHANGED <<pc, mainVars, loadVars, live, results, r, reg, todo, asked, printed>>
  BY DEF ParseNothing, InFiles
<1>2. BTypeOK' /\ Values' /\ Before' /\ Kept' /\ LoadedCells' /\ Owned' /\ Released' /\ Tested'
  <2>1. \A t \in Threads : reg[t] = NULL
    BY <1>1 DEF DriverInv, Tested
  <2> QED BY <1>1, <2>1, FileNat, InTestStep DEF InTest
<1>3. MemoryAtMost'
  BY <1>1 DEF DriverInv, MemoryAtMost
<1> QED BY <1>2, <1>3 DEF DriverInv

\* A document of test_hsp.
LEMMA ParseHspStep ==
  ASSUME DriverInv, ParseHsp PROVE DriverInv'
<1>1. PICK got : Add(got, 1)
  BY DEF ParseHsp
<1>2. /\ pc = "files" /\ file' = file + 1 /\ results[r + 1].parser = "hsp"
      /\ UNCHANGED <<pc, mainVars, loadVars, live, r, reg, todo, asked, printed>>
  BY DEF ParseHsp, InFiles, Result
<1>3. \A t \in Threads : reg[t] = NULL
  BY <1>2 DEF DriverInv, Tested
<1>4. BTypeOK' /\ Values' /\ Before' /\ Kept' /\ LoadedCells' /\ Owned' /\ Released' /\ Tested'
  BY <1>1, <1>2, <1>3, FileNat, AddResult, InTestStep DEF InTest
<1>5. MemoryAtMost'
  BY <1>1, <1>2, AddResult DEF InTest, MemoryAtMost
<1> QED BY <1>4, <1>5 DEF DriverInv

\* A document of test_libxml2 or test_haut, one unit of memory.
LEMMA ParseSaxStep ==
  ASSUME DriverInv, ParseSax PROVE DriverInv'
<1>1. PICK got : Add(got, results[r + 1].bytes + 1)
  BY DEF ParseSax, Result
<1>2. /\ pc = "files" /\ file' = file + 1 /\ results[r + 1].parser \in {"libxml2", "haut"}
      /\ asked' = asked + 1
      /\ UNCHANGED <<pc, mainVars, loadVars, live, r, reg, todo, printed>>
  BY DEF ParseSax, InFiles, Result
<1>3. \A t \in Threads : reg[t] = NULL
  BY <1>2 DEF DriverInv, Tested
<1>4. BTypeOK' /\ Values' /\ Before' /\ Kept' /\ LoadedCells' /\ Owned' /\ Released' /\ Tested'
  BY <1>1, <1>2, <1>3, FileNat, AddResult, InTestStep DEF InTest
<1>5. MemoryAtMost'
  BY <1>1, <1>2, FileNat, AddResult DEF InTest, MemoryAtMost
<1> QED BY <1>4, <1>5 DEF DriverInv

\* A document of test_gumbo, with what custom_malloc has counted.
LEMMA ParseGumboStep ==
  ASSUME DriverInv, ParseGumbo PROVE DriverInv'
<1>1. PICK a \in Amounts : Add(TestGumbo(Document), results[r + 1].bytes + a) /\ asked' = asked + a
  BY DEF ParseGumbo, Result
<1>2. /\ pc = "files" /\ file' = file + 1 /\ results[r + 1].parser = "gumbo" /\ a \in Nat
      /\ UNCHANGED <<pc, mainVars, loadVars, live, r, reg, todo, printed>>
  BY BenchmarkAssumption DEF ParseGumbo, InFiles, Result
<1>3. \A t \in Threads : reg[t] = NULL
  BY <1>2 DEF DriverInv, Tested
<1>4. BTypeOK' /\ Values' /\ Before' /\ Kept' /\ LoadedCells' /\ Owned' /\ Released' /\ Tested'
  BY <1>1, <1>2, <1>3, FileNat, AddResult, InTestStep DEF InTest
<1>5. MemoryAtMost'
  BY <1>1, <1>2, FileNat, AddResult DEF InTest, MemoryAtMost
<1> QED BY <1>4, <1>5 DEF DriverInv

\* A parse of test_myhtml begins (test_myhtml.c:69-86): nothing is read yet.
LEMMA StartMyHtmlStep ==
  ASSUME DriverInv, StartMyHtml PROVE DriverInv'
<1>1. /\ pc = "files" /\ pc' = "myhtml" /\ todo' \in [Threads -> Nat]
      /\ UNCHANGED <<mainVars, loadVars, live, results, r, file, reg, asked, printed>>
  BY BenchmarkAssumption DEF StartMyHtml, InFiles
<1>2. BTypeOK' /\ Values' /\ Before' /\ Kept' /\ LoadedCells' /\ Owned' /\ Released' /\ Tested'
  <2>1. file \in Nat
    BY DEF DriverInv, BTypeOK
  <2> QED BY <1>1, <2>1, FileNat, InTestStep DEF InTest
<1>3. MemoryAtMost'
  BY <1>1 DEF DriverInv, MemoryAtMost
<1> QED BY <1>2, <1>3 DEF DriverInv

\* A thread reads the counter (test_myhtml.c:22): at most what was allocated.
LEMMA MallocReadStep ==
  ASSUME DriverInv, NEW t \in Threads, MallocRead(t) PROVE DriverInv'
<1>1. /\ pc = "myhtml" /\ reg' = [reg EXCEPT ![t] = results[r + 1].bytes]
      /\ UNCHANGED <<pc, mainVars, loadVars, live, results, r, file, todo, asked, printed>>
  BY DEF MallocRead, Result
<1>2. BTypeOK' /\ Values' /\ Before' /\ Kept' /\ LoadedCells' /\ Owned' /\ Released' /\ Tested'
  <2>1. file \in Nat /\ reg' \in [Threads -> Nat \cup {NULL}]
    BY <1>1, FileNat DEF DriverInv, BTypeOK, InTest
  <2> QED BY <1>1, <2>1, FileNat, InTestStep DEF InTest
<1>3. MemoryAtMost'
  BY <1>1, FileNat DEF DriverInv, MemoryAtMost, InTest
<1> QED BY <1>2, <1>3 DEF DriverInv

\* A thread writes the counter back: its own amount on a value that was at most
\* what was allocated then, so at most what is allocated now.
LEMMA MallocWriteStep ==
  ASSUME DriverInv, NEW t \in Threads, MallocWrite(t) PROVE DriverInv'
<1>1. /\ pc = "myhtml" /\ reg[t] # NULL
      /\ results' = [results EXCEPT ![r + 1].bytes = reg[t] + todo[t]]
      /\ asked' = asked + todo[t] /\ reg' = [reg EXCEPT ![t] = NULL] /\ todo' = [todo EXCEPT ![t] = 0]
      /\ UNCHANGED <<pc, mainVars, loadVars, live, r, file, printed>>
  BY DEF MallocWrite
<1>2. /\ file \in Nat /\ asked' \in Nat /\ reg[t] \in Nat /\ todo[t] \in Nat
      /\ reg' \in [Threads -> Nat \cup {NULL}] /\ todo' \in [Threads -> Nat]
  BY <1>1, FileNat DEF DriverInv, BTypeOK, InTest
<1>3. PICK it : it = [results[r + 1] EXCEPT !.bytes = reg[t] + todo[t]]
  OBVIOUS
<1>4. Outcome(it) /\ it.bytes = reg[t] + todo[t] /\ it.parser = results[r + 1].parser
  BY <1>1, <1>2, <1>3, FileNat DEF Outcome, InTest
<1>5. r + 1 \in DOMAIN results
  BY <1>1, PopcountNat DEF DriverInv, BTypeOK, Tested, Popcount, Testing, InTest
<1>6. results' = [results EXCEPT ![r + 1] = it]
  BY <1>1, <1>3
<1>7. /\ DOMAIN results' = DOMAIN results /\ results'[r + 1] = it
      /\ \A k \in DOMAIN results : k # r + 1 => results'[k] = results[k]
  BY <1>5, <1>6
<1>8. BTypeOK' /\ Values' /\ Before' /\ Kept' /\ LoadedCells' /\ Owned' /\ Released' /\ Tested'
  BY <1>1, <1>2, <1>4, <1>7, InTestStep DEF InTest
<1>9. MemoryAtMost'
  <2> SUFFICES ASSUME results'[r + 1].parser = "myhtml"
               PROVE  /\ results'[r + 1].bytes <= asked'
                      /\ \A u \in Threads : reg'[u] # NULL => reg'[u] <= asked'
    BY <1>1 DEF MemoryAtMost
  <2>1. asked \in Nat /\ \A u \in Threads : reg[u] # NULL => reg[u] \in Nat /\ reg[u] <= asked
    BY <1>1, <1>4, <1>7, FileNat DEF DriverInv, MemoryAtMost, InTest
  <2>2. results'[r + 1].bytes <= asked'
    BY <1>1, <1>2, <1>4, <1>7, <2>1
  <2>3. ASSUME NEW u \in Threads, reg'[u] # NULL PROVE reg'[u] <= asked'
    <3>1. reg'[u] = reg[u]
      BY <1>1, <1>2, <2>3, FileNat DEF InTest
    <3> QED BY <1>1, <1>2, <2>1, <2>3, <3>1
  <2> QED BY <2>2, <2>3
<1> QED BY <1>8, <1>9 DEF DriverInv

\* The parse of MyHTML ends when no thread is between reading and writing.
LEMMA EndMyHtmlStep ==
  ASSUME DriverInv, EndMyHtml PROVE DriverInv'
<1>1. /\ pc = "myhtml" /\ pc' = "files" /\ file' = file + 1 /\ \A t \in Threads : reg[t] = NULL
      /\ Add(TestMyHtml(Document), results[r + 1].bytes)
      /\ UNCHANGED <<mainVars, loadVars, live, r, reg, todo, asked, printed>>
  BY DEF EndMyHtml, Result
<1>2. BTypeOK' /\ Values' /\ Before' /\ Kept' /\ LoadedCells' /\ Owned' /\ Released' /\ Tested'
  BY <1>1, FileNat, AddResult, InTestStep DEF InTest
<1>3. MemoryAtMost'
  BY <1>1, FileNat, AddResult DEF DriverInv, MemoryAtMost, InTest
<1> QED BY <1>2, <1>3 DEF DriverInv

\* A result is printed: nothing is allocated or freed.
LEMMA PrintResultStep ==
  ASSUME DriverInv, PrintResult PROVE DriverInv'
<1>1. pc = "print" /\ UNCHANGED <<pc, mainVars, loadVars, live, testVars>>
  BY DEF PrintResult
<1>2. Before' /\ Kept' /\ LoadedCells' /\ Released'
  BY <1>1, LoadKept DEF mainVars, Loading
<1>3. BTypeOK' /\ Values'
  BY <1>1 DEF DriverInv, BTypeOK, Values, Popcount, mainVars, loadVars, testVars
<1>4. Owned'
  BY <1>1 DEF DriverInv, Owned, Buffers, Failed, loadVars
<1>5. Tested' /\ MemoryAtMost'
  BY <1>1 DEF DriverInv, Tested, Popcount, MemoryAtMost, mainVars, testVars
<1> QED BY <1>2, <1>3, <1>4, <1>5 DEF DriverInv

\* The release (benchmark.c:166-174): the cells in use hold all the buffers but
\* those of files that stayed open.
LEMMA FreeStep ==
  ASSUME DriverInv, Free PROVE DriverInv'
<1> USE DEF Loading, Testing, InTest
<1>1. /\ pc = "print" /\ pc' = "exit" /\ status' = 0
      /\ live' = live \ ({<<"results", 0>>, <<"array", 0>>} \cup
                          {testset.data[j].block : j \in 1 .. testset.count})
      /\ testset' = [testset EXCEPT !.count = 0, !.set_size = 0]
      /\ UNCHANGED <<args, parsers, dir, pos, index, open, r, file, reg, todo, asked, printed>>
  BY DEF Free
<1>2. PICK d, c, s : testset = [data |-> d, count |-> c, set_size |-> s]
  BY DEF DriverInv, Values
<1>3. testset' = [data |-> d, count |-> 0, set_size |-> 0]
  BY <1>1, <1>2
<1>8. testset'.data = d /\ testset'.count = 0 /\ testset'.set_size = 0
  BY <1>3
<1>9. BTypeOK'
  BY <1>1, <1>8 DEF DriverInv, BTypeOK
<1>4. Values'
  BY <1>1, <1>3 DEF DriverInv, Values, Popcount
<1>5. Before' /\ Kept' /\ LoadedCells' /\ Owned' /\ MemoryAtMost'
  BY <1>1 DEF Before, Kept, LoadedCells, Owned, MemoryAtMost
<1>6. Tested'
  BY <1>1 DEF DriverInv, Tested, Parser
<1>7. Released'
  <2>1. live = {<<"array", 0>>} \cup Buffers \cup Failed \cup Results
    BY <1>1 DEF DriverInv, Owned, Tested, Parser
  <2>2. {testset.data[j].block : j \in 1 .. testset.count} = Buffers
    BY <1>1 DEF DriverInv, LoadedCells, Buffers
  <2>3. Failed \cap (Buffers \cup Results \cup {<<"array", 0>>}) = {}
    BY <1>1 DEF DriverInv, Kept, Files, Failed, Buffers, Results
  <2>4. live' = Failed
    BY <1>1, <2>1, <2>2, <2>3 DEF Results
  <2>5. Directory \notin open
    BY <1>1 DEF DriverInv, Kept, Files
  <2> QED BY <1>1, <2>4, <2>5 DEF Released, Failed
<1> QED BY <1>4, <1>5, <1>6, <1>7, <1>9 DEF DriverInv

\* A step of nobody.
LEMMA DriverStutter ==
  ASSUME DriverInv, UNCHANGED bvars PROVE DriverInv'
<1> USE DEF bvars
<1>1. BTypeOK' /\ Values' /\ Before' /\ Kept'
  BY DEF DriverInv, BTypeOK, Values, Before, Kept, Array, Files, Popcount
<1>2. LoadedCells' /\ Owned' /\ Released'
  BY DEF DriverInv, LoadedCells, Owned, Released, Buffers, Failed
<1>3. Tested' /\ MemoryAtMost'
  BY DEF DriverInv, Tested, MemoryAtMost, Popcount, Outcome
<1> QED BY <1>1, <1>2, <1>3 DEF DriverInv

\* The driver keeps its invariant: for every sequence of arguments, every
\* directory and every change of it, any number of threads that allocate and any
\* amounts (main.c:55-116, benchmark.c:63-257).
THEOREM DriverInvariant == BSpec => []DriverInv
<1>1. BInit => DriverInv
  BY InitDriver
<1>2. DriverInv /\ [BNext]_bvars => DriverInv'
  <2> SUFFICES ASSUME DriverInv, [BNext]_bvars PROVE DriverInv'
    OBVIOUS
  <2>1. CASE ReadArgument \/ OpenDirectory \/ NoDirectory \/ CountEntry \/ NothingLoaded
    BY <2>1, ReadArgumentStep, OpenDirectoryStep, NoDirectoryStep, CountEntryStep, NothingLoadedStep
  <2>2. CASE AllocateArray \/ LoadEntry \/ Loaded
    BY <2>2, AllocateArrayStep, LoadEntryStep, LoadedStep
  <2>3. CASE PerformTests \/ StartTest \/ EndTest \/ TestsDone
    BY <2>3, PerformTestsStep, StartTestStep, EndTestStep, TestsDoneStep
  <2>4. CASE ParseNothing \/ ParseHsp \/ ParseSax \/ ParseGumbo
    BY <2>4, ParseNothingStep, ParseHspStep, ParseSaxStep, ParseGumboStep
  <2>5. CASE StartMyHtml \/ (\E t \in Threads : MallocRead(t) \/ MallocWrite(t)) \/ EndMyHtml
    BY <2>5, StartMyHtmlStep, MallocReadStep, MallocWriteStep, EndMyHtmlStep
  <2>6. CASE PrintResult \/ Free \/ UNCHANGED bvars
    BY <2>6, PrintResultStep, FreeStep, DriverStutter
  <2> QED BY <2>1, <2>2, <2>3, <2>4, <2>5, <2>6 DEF BNext
<1> QED BY <1>1, <1>2, PTL DEF BSpec

\* The values of the driver have their types, however long the arguments and
\* the directory are (main.c:55-116).
THEOREM DriverTypeCorrect == BSpec => []BTypeOK
<1>1. DriverInv => BTypeOK
  BY DEF DriverInv
<1> QED BY <1>1, DriverInvariant, PTL

\* No cell behind the array is written, the cells before index hold different
\* buffers that are allocated, the others nothing, and set_size is the sum of
\* their sizes (benchmark.c:146-160).
THEOREM DriverCells == BSpec => []LoadedCells
<1>1. DriverInv => LoadedCells
  BY DEF DriverInv
<1> QED BY <1>1, DriverInvariant, PTL

\* At the end only the buffers of files whose reading failed are allocated, and
\* the directory is open only if the program fails (benchmark.c:79-82, 131-139).
THEOREM DriverReleases == BSpec => []Released
<1>1. DriverInv => Released
  BY DEF DriverInv
<1> QED BY <1>1, DriverInvariant, PTL

\* The memory of a result is at most what was allocated for it, in whatever order
\* the threads read and write the counter (test_myhtml.c:20-24).
THEOREM DriverMemory == BSpec => []MemoryAtMost
<1>1. DriverInv => MemoryAtMost
  BY DEF DriverInv
<1> QED BY <1>1, DriverInvariant, PTL

-----------------------------------------------------------------------------
\* The powers of Base, and no number is above all of them.
LEMMA PowerType ==
  /\ Power[0] = 1 /\ \A k \in Nat : Power[k + 1] = Base * Power[k]
  /\ \A k \in Nat : Power[k] \in Nat /\ Power[k] > k
<1> DEFINE P(f) == f = [k \in Nat |-> IF k = 0 THEN 1 ELSE Base * f[k - 1]]
           Step == [k \in Nat |-> [v \in Nat |-> Base * v]]
<1>0. Base \in Nat /\ Base >= 2
  BY BenchmarkAssumption
<1>1. \E f \in [Nat -> Nat] : f[0] = 1 /\ \A k \in Nat : f[k + 1] = Step[k][f[k]]
  <2>1. Step \in [Nat -> [Nat -> Nat]]
    BY <1>0
  <2>2. 1 \in Nat
    OBVIOUS
  <2> HIDE DEF Step
  <2>3. \E f \in [Nat -> Nat] : Iterated(f, 1, Step)
    BY <2>1, <2>2, Iterates
  <2> QED BY <2>3 DEF Iterated
<1>2. PICK f \in [Nat -> Nat] : f[0] = 1 /\ \A k \in Nat : f[k + 1] = Base * f[k]
  BY <1>1
<1>3. P(f)
  <2>1. ASSUME NEW k \in Nat, k # 0 PROVE f[k] = Base * f[k - 1]
    <3>1. k - 1 \in Nat /\ (k - 1) + 1 = k
      BY <2>1
    <3> QED BY <1>2, <3>1
  <2> QED BY <1>2, <2>1
<1>4. P(Power)
  <2>1. Power = CHOOSE g : P(g)
    BY DEF Power
  <2> HIDE DEF P
  <2> QED BY <1>3, <2>1
<1>5. Power[0] = 1 /\ \A k \in Nat : Power[k + 1] = Base * Power[k]
  <2>1. \A k \in Nat : Power[k] = IF k = 0 THEN 1 ELSE Base * Power[k - 1]
    BY <1>4
  <2>2. ASSUME NEW k \in Nat PROVE Power[k + 1] = Base * Power[k]
    <3>1. k + 1 \in Nat /\ k + 1 # 0 /\ (k + 1) - 1 = k
      OBVIOUS
    <3> QED BY <2>1, <3>1
  <2> QED BY <2>1, <2>2
<1> DEFINE T == {k \in Nat : Power[k] \in Nat /\ Power[k] > k}
<1>6. 0 \in T
  BY <1>5
<1>7. ASSUME NEW k \in Nat, k \in T PROVE k + 1 \in T
  <2>1. Power[k + 1] = Base * Power[k] /\ Power[k] \in Nat /\ Power[k] >= k + 1
    BY <1>5, <1>7
  <2>2. ASSUME NEW p \in Nat, p >= k + 1 PROVE Base * p \in Nat /\ Base * p > k + 1
    <3>1. Base * p >= 2 * p
      BY <1>0, <2>2
    <3> QED BY <1>0, <2>2, <3>1
  <2> QED BY <2>1, <2>2
<1> HIDE DEF T
<1>8. Nat \subseteq T
  BY <1>6, <1>7, NatSetInduction
<1> QED BY <1>5, <1>8 DEF T

\* d divisions bring a size to Base or less, and one less does not.
Divided(size, d) == d \in Nat /\ size <= Power[d + 1] /\ (d > 0 => size > Power[d])

\* A higher power is no smaller.
LEMMA PowerGrows ==
  ASSUME NEW j \in Nat, NEW k \in Nat, j <= k PROVE Power[j] <= Power[k]
<1> DEFINE T == {i \in Nat : Power[j] <= Power[j + i]}
<1>1. 0 \in T
  BY PowerType
<1>2. ASSUME NEW i \in Nat, i \in T PROVE i + 1 \in T
  <2>1. j + i \in Nat /\ j + (i + 1) = (j + i) + 1 /\ Power[j] \in Nat /\ Power[j + i] \in Nat
    BY PowerType
  <2>2. Power[j + (i + 1)] = Base * Power[j + i]
    BY <2>1, PowerType
  <2>3. ASSUME NEW p \in Nat PROVE Base * p >= p
    BY BenchmarkAssumption
  <2>4. Power[j + i] <= Base * Power[j + i] /\ Base * Power[j + i] \in Int
    BY <2>1, <2>3, BenchmarkAssumption
  <2>5. Power[j] <= Power[j + i]
    BY <1>2
  <2>6. Power[j] <= Power[j + (i + 1)]
    BY <2>1, <2>2, <2>4, <2>5
  <2> QED BY <2>6
<1> HIDE DEF T
<1>3. k - j \in T /\ j + (k - j) = k
  BY <1>1, <1>2, NatSetInduction
<1> QED BY <1>3 DEF T

\* div_by_largest_prefix (benchmark.c:30-35) divides until a size is at most Base.
LEMMA DivisionsDivide ==
  ASSUME NEW size \in Nat PROVE Divided(size, Divisions(size))
<1> DEFINE S == {k \in Nat : size <= Power[k + 1]}
<1>1. PICK d \in S : \A k \in S : d <= k
  <2>1. Power[size + 1] \in Nat /\ Power[size + 1] > size + 1
    BY PowerType
  <2>2. size \in S
    BY <2>1
  <2>3. \A k \in S : k \in Nat
    OBVIOUS
  <2> HIDE DEF S
  <2> QED BY <2>2, <2>3, Least
<1>2. d \in Nat /\ d <= size /\ size <= Power[d + 1]
  <2>1. Power[size + 1] \in Nat /\ Power[size + 1] > size + 1
    BY PowerType
  <2>2. size \in S
    BY <2>1
  <2> QED BY <1>1, <2>2
<1>3. \A k \in Nat : k < d => size > Power[k + 1]
  BY <1>1, PowerType
<1>4. \A k \in Nat : k >= d => ~ (size > Power[k + 1])
  <2> SUFFICES ASSUME NEW k \in Nat, k >= d PROVE ~ (size > Power[k + 1])
    OBVIOUS
  <2>1. Power[d + 1] <= Power[k + 1]
    BY <1>2, PowerGrows
  <2> QED BY <1>2, <2>1, PowerType
<1> HIDE DEF S
<1>5. Divided(size, d)
  <2>1. d > 0 => size > Power[(d - 1) + 1]
    BY <1>2, <1>3
  <2>2. (d - 1) + 1 = d
    BY <1>2
  <2> QED BY <1>2, <2>1, <2>2 DEF Divided
<1> DEFINE P(f) == f = [k \in 0 .. size |-> IF size > Power[k + 1] THEN 1 + f[k + 1] ELSE 0]
           F == CHOOSE f : P(f)
           g == [k \in 0 .. size |-> IF k < d THEN d - k ELSE 0]
<1>6. P(g)
  <2>1. ASSUME NEW k \in 0 .. size PROVE g[k] = IF size > Power[k + 1] THEN 1 + g[k + 1] ELSE 0
    <3>1. CASE k < d
      <4>1. size > Power[k + 1] /\ k + 1 \in 0 .. size
        BY <1>2, <1>3, <3>1
      <4>2. g[k] = d - k /\ g[k + 1] = d - (k + 1)
        BY <1>2, <3>1, <4>1
      <4> QED BY <1>2, <4>1, <4>2
    <3>2. CASE k >= d
      BY <1>2, <1>4, <3>2
    <3> QED BY <1>2, <3>1, <3>2
  <2>2. g = [k \in 0 .. size |-> g[k]]
    OBVIOUS
  <2> HIDE DEF g
  <2> QED BY <2>1, <2>2
<1>7. P(F)
  <2> HIDE DEF P, g
  <2> QED BY <1>6
<1>8. Divisions(size) = F[0]
  BY DEF Divisions
<1> HIDE DEF F
<1> DEFINE T == {i \in Nat : i <= d => F[d - i] = i}
<1>9. 0 \in T
  <2>1. d \in 0 .. size /\ d - 0 = d /\ ~ (size > Power[d + 1])
    BY <1>2, <1>4
  <2> QED BY <1>7, <2>1
<1>10. ASSUME NEW i \in Nat, i \in T PROVE i + 1 \in T
  <2> SUFFICES ASSUME i + 1 <= d PROVE F[d - (i + 1)] = i + 1
    OBVIOUS
  <2> DEFINE k == d - (i + 1)
  <2>1. k \in 0 .. size /\ k \in Nat /\ k < d /\ k + 1 = d - i /\ i <= d
    BY <1>2
  <2>2. size > Power[k + 1]
    BY <1>3, <2>1
  <2>3. F[d - i] = i
    BY <1>10, <2>1
  <2> HIDE DEF k
  <2>4. F[k] = 1 + F[k + 1]
    BY <1>7, <2>1, <2>2
  <2>5. F[k] = i + 1
    BY <2>1, <2>3, <2>4
  <2> QED BY <2>5 DEF k
<1> HIDE DEF T
<1>11. d \in T /\ d - d = 0
  BY <1>2, <1>9, <1>10, NatSetInduction
<1> QED BY <1>2, <1>5, <1>8, <1>11 DEF T

\* Whole division by Base, u times, brings a size to Base or less.
Unit(s, u) == u \in Nat /\ s < (Base + 1) * Power[u] /\ (u > 0 => s >= (Base + 1) * Power[u - 1])

\* The unit of a size is one above that of its quotient, which is smaller.
LEMMA UnitStep ==
  ASSUME NEW s \in Nat
  PROVE  /\ s <= Base => Unit(s, 0)
         /\ s \div Base \in Nat /\ (s > Base => s \div Base < s)
         /\ \A u : s > Base /\ Unit(s \div Base, u) => Unit(s, u + 1)
<1>0. Base \in Nat /\ Base >= 2
  BY BenchmarkAssumption
<1>1. s <= Base => Unit(s, 0)
  BY <1>0, PowerType DEF Unit
<1> DEFINE q == s \div Base
<1>2. q \in Nat /\ Base * q <= s /\ s < Base * q + Base
  BY <1>0
<1> HIDE DEF q
<1>3. s > Base => q < s
  <2> SUFFICES ASSUME s > Base, q >= s PROVE FALSE
    BY <1>2
  <2>1. Base * q >= 2 * q /\ Base * q \in Int
    BY <1>0, <1>2
  <2> QED BY <1>0, <1>2, <2>1
<1>4. ASSUME NEW m \in Nat PROVE q < m <=> s < Base * m
  <2>1. CASE q < m
    <3>1. PICK x \in Nat : m = (q + 1) + x
      <4>1. m - (q + 1) \in Nat /\ m = (q + 1) + (m - (q + 1))
        BY <1>2, <2>1
      <4> QED BY <4>1
    <3>2. Base * m = Base * q + Base + Base * x /\ Base * x >= 0 /\ Base * x \in Int /\ Base * q \in Int
      BY <1>0, <1>2, <3>1
    <3> QED BY <1>0, <1>2, <2>1, <3>2
  <2>2. CASE q >= m
    <3>1. PICK x \in Nat : q = m + x
      <4>1. q - m \in Nat /\ q = m + (q - m)
        BY <1>2, <2>2
      <4> QED BY <4>1
    <3>2. Base * q = Base * m + Base * x /\ Base * x >= 0 /\ Base * x \in Int /\ Base * m \in Int
      BY <1>0, <1>2, <3>1
    <3> QED BY <1>0, <1>2, <2>2, <3>2
  <2> QED BY <1>2, <2>1, <2>2
<1>5. ASSUME NEW k \in Nat
      PROVE  /\ (Base + 1) * Power[k] \in Nat
             /\ Base * ((Base + 1) * Power[k]) = (Base + 1) * Power[k + 1]
  <2>1. Power[k] \in Nat /\ Power[k + 1] = Base * Power[k]
    BY PowerType
  <2>2. ASSUME NEW p \in Nat PROVE (Base + 1) * p \in Nat /\ Base * ((Base + 1) * p) = (Base + 1) * (Base * p)
    BY <1>0
  <2> QED BY <2>1, <2>2
<1>6. ASSUME NEW u, s > Base, Unit(q, u) PROVE Unit(s, u + 1)
  <2>1. u \in Nat /\ q < (Base + 1) * Power[u]
    BY <1>6 DEF Unit
  <2>2. s < (Base + 1) * Power[u + 1]
    BY <1>4, <1>5, <2>1
  <2>3. s >= (Base + 1) * Power[u]
    <3>1. CASE u = 0
      <4>1. (Base + 1) * Power[0] = Base + 1
        BY <1>0, PowerType
      <4> QED BY <1>0, <1>6, <3>1, <4>1
    <3>2. CASE u > 0
      <4>1. u - 1 \in Nat /\ (u - 1) + 1 = u
        BY <2>1, <3>2
      <4>2. ~ (q < (Base + 1) * Power[u - 1])
        BY <1>2, <1>5, <1>6, <3>2, <4>1 DEF Unit
      <4>3. ~ (s < Base * ((Base + 1) * Power[u - 1]))
        BY <1>4, <1>5, <4>1, <4>2
      <4>4. Base * ((Base + 1) * Power[u - 1]) = (Base + 1) * Power[u] /\ (Base + 1) * Power[u] \in Nat
        BY <1>5, <2>1, <4>1
      <4> QED BY <4>3, <4>4
    <3> QED BY <2>1, <3>1, <3>2
  <2>4. u + 1 \in Nat /\ (u + 1) - 1 = u
    BY <2>1
  <2> QED BY <2>2, <2>3, <2>4 DEF Unit
<1> QED BY <1>1, <1>2, <1>3, <1>6 DEF q

\* A size has one unit.
LEMMA UnitUnique ==
  ASSUME NEW s \in Nat, NEW u, NEW v, Unit(s, u), Unit(s, v) PROVE u = v
<1>1. ASSUME NEW x, NEW y, Unit(s, x), Unit(s, y) PROVE ~ (x < y)
  <2> SUFFICES ASSUME x < y PROVE FALSE
    OBVIOUS
  <2>1. x \in Nat /\ y \in Nat /\ y - 1 \in Nat /\ x <= y - 1
    BY <1>1 DEF Unit
  <2>2. Power[x] <= Power[y - 1] /\ Power[x] \in Nat /\ Power[y - 1] \in Nat
    BY <2>1, PowerGrows, PowerType
  <2>3. s < (Base + 1) * Power[x] /\ s >= (Base + 1) * Power[y - 1]
    BY <1>1, <2>1 DEF Unit
  <2>4. ASSUME NEW p \in Nat, NEW q \in Nat, p <= q
        PROVE  (Base + 1) * p <= (Base + 1) * q /\ (Base + 1) * p \in Int /\ (Base + 1) * q \in Int
    <3>1. PICK d \in Nat : q = p + d
      <4>1. q - p \in Nat /\ q = p + (q - p)
        BY <2>4
      <4> QED BY <4>1
    <3>2. (Base + 1) * q = (Base + 1) * p + (Base + 1) * d /\ (Base + 1) * d >= 0
      BY <3>1, BenchmarkAssumption
    <3> QED BY <3>2, BenchmarkAssumption
  <2>5. (Base + 1) * Power[x] <= (Base + 1) * Power[y - 1]
        /\ (Base + 1) * Power[x] \in Int /\ (Base + 1) * Power[y - 1] \in Int
    BY <2>2, <2>4
  <2> QED BY <2>3, <2>5
<1>2. ~ (u < v) /\ ~ (v < u)
  BY <1>1
<1> QED BY <1>2 DEF Unit

\* Induction over the sizes up to one: what holds of a size holds if it holds
\* of the whole quotient, or if there is nothing to divide.
LEMMA SizeInduction ==
  ASSUME NEW T, \A s \in Nat : s <= Base => s \in T,
         \A s \in Nat : s > Base /\ s \div Base \in T => s \in T
  PROVE  Nat \subseteq T
<1> DEFINE N == {n \in Nat : \A s \in Nat : s <= n => s \in T}
<1>1. 0 \in N
  BY BenchmarkAssumption
<1>2. ASSUME NEW n \in Nat, n \in N PROVE n + 1 \in N
  <2> SUFFICES ASSUME NEW s \in Nat, s <= n + 1 PROVE s \in T
    OBVIOUS
  <2>1. CASE s > Base
    <3>1. s \div Base \in Nat /\ s \div Base <= n
      BY <2>1, UnitStep
    <3>2. s \div Base \in T
      BY <1>2, <3>1
    <3> QED BY <2>1, <3>2
  <2>2. CASE ~ (s > Base)
    BY <2>2, BenchmarkAssumption
  <2> QED BY <2>1, <2>2
<1> HIDE DEF N
<1>3. Nat \subseteq N
  BY <1>1, <1>2, NatSetInduction
<1> QED BY <1>3 DEF N

\* str_largest_prefix (benchmark.c:37-46) gives the unit of every size.
LEMMA PrefixUnit ==
  ASSUME NEW size \in Nat PROVE Unit(size, Prefix(size))
<1> DEFINE HasUnit == {s \in Nat : \E u \in Nat : Unit(s, u)}
<1>1. Nat \subseteq HasUnit
  <2>1. ASSUME NEW s \in Nat, s <= Base PROVE s \in HasUnit
    BY <2>1, UnitStep
  <2>2. ASSUME NEW s \in Nat, s > Base, s \div Base \in HasUnit PROVE s \in HasUnit
    <3>1. PICK u \in Nat : Unit(s \div Base, u)
      BY <2>2
    <3> QED BY <2>2, <3>1, UnitStep
  <2> HIDE DEF HasUnit
  <2> QED BY <2>1, <2>2, SizeInduction
<1> DEFINE unit(s) == CHOOSE u \in Nat : Unit(s, u)
           P(f) == f = [s \in 0 .. size |-> IF s > Base THEN 1 + f[s \div Base] ELSE 0]
           g == [s \in 0 .. size |-> unit(s)]
           F == CHOOSE f : P(f)
<1>2. \A s \in Nat : Unit(s, unit(s)) /\ unit(s) \in Nat
  BY <1>1
<1>3. P(g)
  <2>1. ASSUME NEW s \in 0 .. size
        PROVE  g[s] = IF s > Base THEN 1 + g[s \div Base] ELSE 0
    <3>1. Unit(s, g[s]) /\ g[s] \in Nat
      BY <1>2
    <3> HIDE DEF unit
    <3>2. CASE s > Base
      <4>1. s \div Base \in 0 .. size
        BY <3>2, UnitStep
      <4>2. Unit(s \div Base, g[s \div Base]) /\ g[s \div Base] \in Nat
        BY <1>2, <4>1
      <4> HIDE DEF g
      <4>3. Unit(s, g[s \div Base] + 1)
        BY <3>2, <4>2, UnitStep
      <4>4. g[s] = g[s \div Base] + 1
        BY <3>1, <4>3, UnitUnique
      <4> QED BY <3>2, <4>2, <4>4
    <3>3. CASE ~ (s > Base)
      <4> HIDE DEF g
      <4>1. Unit(s, 0)
        BY <3>3, UnitStep, BenchmarkAssumption
      <4>2. g[s] = 0
        BY <3>1, <4>1, UnitUnique
      <4> QED BY <3>3, <4>2
    <3> QED BY <3>2, <3>3
  <2>2. g = [s \in 0 .. size |-> g[s]]
    OBVIOUS
  <2> HIDE DEF g
  <2> QED BY <2>1, <2>2
<1>4. P(F)
  <2> HIDE DEF P, g
  <2> QED BY <1>3
<1>5. Prefix(size) = F[size]
  BY DEF Prefix
<1> HIDE DEF F
<1> DEFINE T == {s \in Nat : s <= size => Unit(s, F[s])}
<1>6. ASSUME NEW s \in Nat, s <= Base PROVE s \in T
  <2>1. CASE s <= size
    <3>1. F[s] = 0
      BY <1>4, <1>6, <2>1, BenchmarkAssumption
    <3> QED BY <1>6, <3>1, UnitStep
  <2> QED BY <2>1
<1>7. ASSUME NEW s \in Nat, s > Base, s \div Base \in T PROVE s \in T
  <2>1. CASE s <= size
    <3>1. s \div Base \in Nat /\ s \div Base <= size
      BY <1>7, <2>1, UnitStep
    <3>2. Unit(s \div Base, F[s \div Base])
      BY <1>7, <3>1
    <3>3. F[s] = 1 + F[s \div Base]
      BY <1>4, <1>7, <2>1
    <3>4. F[s \div Base] \in Nat
      BY <3>2 DEF Unit
    <3>5. F[s] = F[s \div Base] + 1
      BY <3>3, <3>4
    <3> QED BY <1>7, <3>2, <3>5, UnitStep
  <2> QED BY <2>1
<1> HIDE DEF T
<1>8. size \in T
  BY <1>6, <1>7, SizeInduction
<1> QED BY <1>5, <1>8 DEF T

\* The unit printed is the one divided to, or one less in a gap.
Gap(it) == \E k \in 1 .. it.divided : Power[k + 1] < it.size /\ it.size < (Base + 1) * Power[k]
InUnits(it) ==
  /\ it.divided - it.unit = (IF Gap(it) THEN 1 ELSE 0)
  /\ it.size <= Power[it.divided + 1] /\ (it.divided > 0 => it.size > Power[it.divided])

\* What is printed for a size: the unit it was divided to, but in a gap.
LEMMA ScaledInUnits ==
  ASSUME NEW size \in Nat PROVE InUnits(Scaled(size))
<1> DEFINE d == Divisions(size)
           u == Prefix(size)
           gap == \E k \in 1 .. d : Power[k + 1] < size /\ size < (Base + 1) * Power[k]
<1>1. Divided(size, d) /\ Unit(size, u)
  BY DivisionsDivide, PrefixUnit
<1>2. Scaled(size).size = size /\ Scaled(size).divided = d /\ Scaled(size).unit = u
  BY DEF Scaled
<1> HIDE DEF d, u
<1>0. Base \in Nat /\ Base >= 2
  BY BenchmarkAssumption
<1>3. /\ d \in Nat /\ u \in Nat /\ size <= Power[d + 1] /\ (d > 0 => size > Power[d])
      /\ size < (Base + 1) * Power[u] /\ (u > 0 => size >= (Base + 1) * Power[u - 1])
  BY <1>1 DEF Divided, Unit
<1>4. ASSUME NEW j \in Nat, NEW k \in Nat, j <= k
      PROVE  /\ (Base + 1) * Power[j] <= (Base + 1) * Power[k]
             /\ (Base + 1) * Power[j] \in Nat /\ (Base + 1) * Power[k] \in Nat
  <2>1. Power[j] <= Power[k] /\ Power[j] \in Nat /\ Power[k] \in Nat
    BY <1>4, PowerGrows, PowerType
  <2>2. ASSUME NEW p \in Nat, NEW q \in Nat, p <= q
        PROVE  (Base + 1) * p <= (Base + 1) * q /\ (Base + 1) * p \in Nat /\ (Base + 1) * q \in Nat
    <3>1. PICK x \in Nat : q = p + x
      <4>1. q - p \in Nat /\ q = p + (q - p)
        BY <2>2
      <4> QED BY <4>1
    <3>2. (Base + 1) * q = (Base + 1) * p + (Base + 1) * x /\ (Base + 1) * x >= 0
      BY <1>0, <3>1
    <3> QED BY <1>0, <3>2
  <2> QED BY <2>1, <2>2
\* Base ^ (k + 1) is less than (Base + 1) * Base ^ k, and that is no more than Base ^ (k + 2).
<1>5. ASSUME NEW k \in Nat
      PROVE  /\ Power[k + 1] < (Base + 1) * Power[k] /\ (Base + 1) * Power[k] <= Power[k + 2]
             /\ Power[k + 1] \in Nat /\ Power[k + 2] \in Nat /\ (Base + 1) * Power[k] \in Nat
  <2>1. /\ Power[k] \in Nat /\ Power[k] > 0 /\ Power[k + 1] = Base * Power[k]
        /\ Power[k + 2] = Base * Power[k + 1]
    <3>1. k + 1 \in Nat /\ k + 2 = (k + 1) + 1
      OBVIOUS
    <3> QED BY <3>1, PowerType
  <2>2. ASSUME NEW p \in Nat, p > 0
        PROVE  /\ Base * p < (Base + 1) * p /\ (Base + 1) * p <= Base * (Base * p)
               /\ Base * p \in Nat /\ Base * (Base * p) \in Nat /\ (Base + 1) * p \in Nat
    <3>1. (Base + 1) * p = Base * p + p /\ Base * p \in Nat /\ Base * p >= p
      BY <1>0
    <3>2. ASSUME NEW q \in Nat PROVE Base * q >= 2 * q /\ Base * q \in Nat
      BY <1>0
    <3>3. Base * (Base * p) >= 2 * (Base * p) /\ Base * (Base * p) \in Nat
      BY <3>1, <3>2
    <3> QED BY <2>2, <3>1, <3>3
  <2> QED BY <2>1, <2>2
<1>6. u <= d
  <2> SUFFICES ASSUME u > d PROVE FALSE
    BY <1>3
  <2>1. u - 1 \in Nat /\ d <= u - 1 /\ size >= (Base + 1) * Power[u - 1]
    BY <1>3
  <2>2. (Base + 1) * Power[d] <= (Base + 1) * Power[u - 1] /\ (Base + 1) * Power[u - 1] \in Nat
    BY <1>3, <1>4, <2>1
  <2> QED BY <1>3, <1>5, <2>1, <2>2
<1>7. d <= u + 1
  <2> SUFFICES ASSUME d > u + 1 PROVE FALSE
    BY <1>3
  <2>1. Power[u + 2] <= Power[d]
    BY <1>3, PowerGrows
  <2> QED BY <1>3, <1>5, <2>1, PowerType
<1>8. CASE u = d
  <2>1. ASSUME NEW k \in 1 .. d, Power[k + 1] < size, size < (Base + 1) * Power[k] PROVE FALSE
    <3>1. (k <= d - 1 /\ d - 1 \in Nat) \/ k = d
      BY <1>3
    <3>2. CASE k <= d - 1 /\ d - 1 \in Nat
      <4>1. (Base + 1) * Power[k] <= (Base + 1) * Power[d - 1] /\ (Base + 1) * Power[d - 1] \in Nat
            /\ (Base + 1) * Power[k] \in Nat
        BY <1>4, <3>2
      <4> QED BY <1>3, <1>8, <2>1, <3>2, <4>1
    <3>3. CASE k = d
      BY <1>3, <1>5, <2>1, <3>3
    <3> QED BY <3>1, <3>2, <3>3
  <2>2. ~ gap /\ d - u = 0
    BY <1>3, <1>8, <2>1
  <2> QED BY <1>2, <1>3, <2>2 DEF InUnits, Gap
<1>9. CASE d = u + 1
  <2>1. d # 1
    <3> SUFFICES ASSUME d = 1 PROVE FALSE
      OBVIOUS
    <3>1. u = 0 /\ size > Power[1] /\ size < (Base + 1) * Power[0]
      BY <1>3, <1>9
    <3>2. Power[0] = 1 /\ Power[0 + 1] = Base * Power[0]
      BY PowerType
    <3> QED BY <1>0, <3>1, <3>2
  <2>2. u \in 1 .. d /\ Power[u + 1] < size /\ size < (Base + 1) * Power[u]
    BY <1>3, <1>9, <2>1
  <2>3. gap /\ d - u = 1
    BY <1>3, <1>9, <2>2
  <2> QED BY <1>2, <1>3, <2>3 DEF InUnits, Gap
<1> QED BY <1>3, <1>6, <1>7, <1>8, <1>9

-----------------------------------------------------------------------------
\* What is printed: the results of the tests, whose counters are numbers.
Counter(it) == "text" \in DOMAIN it /\ it.text \in Nat
\* What is printed is a sequence, no longer than that of the results.
Printing ==
  /\ \E X : printed \in Seq(X)
  /\ pc \notin {"print", "exit"} => printed = <<>>
  /\ pc = "print" => Len(printed) <= Popcount
\* The results that are begun have a number for the text.
Counters ==
  /\ pc \in Testing => \A k \in 1 .. r : Counter(results[k])
  /\ pc \in InTest => Counter(results[r + 1])
  /\ pc = "myhtml" => file < testset.count
\* The invariant of the printing, beside that of the driver.
PrintInv == Printing /\ Counters /\ PrintedUnits

\* The texts that a document adds are numbers.
LEMMA AddText ==
  ASSUME DriverInv, pc \in InTest, Counter(results[r + 1]), NEW got, NEW b, Add(got, b), got.text \in Nat
  PROVE  /\ Counter(results'[r + 1])
         /\ \A k \in 1 .. r : results'[k] = results[k]
<1>1. /\ r \in Nat /\ Popcount \in Nat /\ r < Popcount /\ DOMAIN results = 1 .. Popcount + 1
      /\ Outcome(results[r + 1])
  BY PopcountNat DEF DriverInv, BTypeOK, Tested, Popcount, Testing, InTest
<1> DEFINE it == [results[r + 1] EXCEPT !.href = @ + got.href, !.src = @ + got.src,
                        !.alt = @ + got.alt, !.text = @ + got.text, !.bytes = b]
<1>2. results' = [results EXCEPT ![r + 1] = it]
  BY DEF Add, Result
<1>3. "text" \in DOMAIN it /\ it.text = results[r + 1].text + got.text
  BY DEF Counter
<1> HIDE DEF it
<1>4. results'[r + 1] = it /\ \A k \in 1 .. r : results'[k] = results[k]
  BY <1>1, <1>2
<1>5. it.text \in Nat
  BY <1>3 DEF Counter
<1> QED BY <1>3, <1>4, <1>5 DEF Counter

\* A document adds a number of characters to the text of its result.
LEMMA CountersParse ==
  ASSUME DriverInv, Counters, ParseHsp \/ ParseSax \/ ParseGumbo \/ EndMyHtml
  PROVE  Counters'
<1> USE DEF Loading, Testing, InTest
<1> DEFINE Counted == \A got \in {TestLibxml2(Document), TestHaut(Document), TestGumbo(Document),
                                   TestMyHtml(Document)} : got.text \in Nat
<1>1. pc \in InTest /\ pc' \in InTest /\ r' = r /\ Counter(results[r + 1])
  BY DEF ParseHsp, ParseSax, ParseGumbo, EndMyHtml, InFiles, Counters
<1>2. Counted \/ ParseHsp
  <2>1. CASE ~ ParseHsp
    <3>1. file < testset.count /\ file \in Nat /\ index \in Nat /\ testset.count = index
      BY <2>1 DEF ParseSax, ParseGumbo, EndMyHtml, InFiles, DriverInv, BTypeOK, LoadedCells, Counters
    <3>2. file + 1 \in 1 .. index
      BY <3>1
    <3>3. /\ testset.data \in Seq(Cells \cup {NULL}) /\ file + 1 \in DOMAIN testset.data
          /\ testset.data[file + 1] # NULL
      BY <1>1, <3>1, <3>2 DEF DriverInv, Kept, Array, LoadedCells
    <3>4. testset.data[file + 1] \in Cells
      BY <3>3
    <3>5. Document \in Documents
      BY <3>4 DEF Cells, Document
    <3>6. {TestLibxml2(Document), TestHaut(Document), TestGumbo(Document), TestMyHtml(Document)}
             \subseteq Gots
      BY <3>5, AdaptersCount
    <3>7. \A got \in Gots : got.text \in Nat
      BY DEF Gots
    <3> QED BY <3>6, <3>7
  <2> QED BY <2>1
<1>3. \E got, b : Add(got, b) /\ got.text \in Nat
  <2>1. CASE ParseHsp
    <3>1. PICK got \in {Nothing, [Nothing EXCEPT !.href = 1, !.text = 1]} : Add(got, 1)
      BY <2>1 DEF ParseHsp
    <3>2. Nothing.text \in Nat
      BY DEF Nothing
    <3>3. [Nothing EXCEPT !.href = 1, !.text = 1].text \in Nat
      BY DEF Nothing
    <3>4. got = Nothing \/ got = [Nothing EXCEPT !.href = 1, !.text = 1]
      BY <3>1
    <3>5. got.text \in Nat
      BY <3>2, <3>3, <3>4
    <3> QED BY <3>1, <3>5
  <2>2. CASE ParseSax
    <3>1. \/ Add(TestHaut(Document), Result.bytes + 1)
          \/ Add(TestLibxml2(Document), Result.bytes + 1)
      BY <2>2 DEF ParseSax
    <3>2. (TestHaut(Document).text \in Nat /\ TestLibxml2(Document).text \in Nat) \/ ParseHsp
      BY <1>2
    <3> QED BY <2>1, <3>1, <3>2
  <2>3. CASE ParseGumbo
    <3>1. PICK a \in Amounts : Add(TestGumbo(Document), Result.bytes + a)
      BY <2>3 DEF ParseGumbo
    <3>2. TestGumbo(Document).text \in Nat \/ ParseHsp
      BY <1>2
    <3> QED BY <2>1, <3>1, <3>2
  <2>4. CASE EndMyHtml
    <3>1. Add(TestMyHtml(Document), Result.bytes)
      BY <2>4 DEF EndMyHtml
    <3>2. TestMyHtml(Document).text \in Nat \/ ParseHsp
      BY <1>2
    <3> QED BY <2>1, <3>1, <3>2
  <2> QED BY <2>1, <2>2, <2>3, <2>4
<1>4. Counter(results'[r + 1]) /\ \A k \in 1 .. r : results'[k] = results[k]
  BY <1>1, <1>3, AddText
<1>5. pc' # "myhtml"
  BY DEF ParseHsp, ParseSax, ParseGumbo, EndMyHtml, InFiles
<1> QED BY <1>1, <1>4, <1>5 DEF Counters, Counter

\* Each step leaves numbers in the results that are begun.
LEMMA CountersStep ==
  ASSUME DriverInv, Counters, [BNext]_bvars
  PROVE  Counters'
<1> USE DEF Loading, Testing, InTest
<1>0. r \in Nat /\ Popcount \in Nat /\ r <= Popcount
      /\ (pc \in Testing => DOMAIN results = 1 .. Popcount + 1)
  BY PopcountNat DEF DriverInv, BTypeOK, Values, Tested, Popcount
<1>1. CASE ParseHsp \/ ParseSax \/ ParseGumbo \/ EndMyHtml
  BY <1>1, CountersParse
<1>2. CASE PerformTests
  <2>1. r = 0 /\ r' = r /\ pc' \in {"test", "print"}
    BY <1>2 DEF PerformTests, DriverInv, Tested
  <2> QED BY <2>1 DEF Counters
<1>3. CASE StartTest
  <2> DEFINE it == [parser |-> Chosen(r + 1), tests |-> testset.count, href |-> 0, src |-> 0, alt |-> 0,
                    bytes |-> 0, text |-> 0]
  <2>1. results' = [results EXCEPT ![r + 1] = it] /\ r' = r /\ pc = "test" /\ pc' = "files" /\ r < Popcount
    BY <1>3 DEF StartTest
  <2>2. Counter(it)
    BY DEF Counter
  <2> HIDE DEF it
  <2>3. results'[r + 1] = it /\ \A k \in 1 .. r : results'[k] = results[k]
    BY <1>0, <2>1
  <2> QED BY <2>1, <2>2, <2>3 DEF Counters, Counter
<1>4. CASE \E t \in Threads : MallocWrite(t)
  <2>1. PICK t \in Threads : MallocWrite(t)
    BY <1>4
  <2>2. /\ pc = "myhtml" /\ pc' = pc /\ r' = r /\ r < Popcount /\ Counter(results[r + 1])
        /\ file < testset.count /\ file' = file /\ testset' = testset
        /\ results' = [results EXCEPT ![r + 1].bytes = reg[t] + todo[t]]
    BY <2>1 DEF MallocWrite, DriverInv, Tested, Counters, loadVars
  <2> DEFINE it == [results[r + 1] EXCEPT !.bytes = reg[t] + todo[t]]
  <2>3. results' = [results EXCEPT ![r + 1] = it]
    BY <2>2
  <2>4. Counter(it)
    BY <2>2 DEF Counter
  <2> HIDE DEF it
  <2>5. results'[r + 1] = it /\ \A k \in 1 .. r : results'[k] = results[k]
    BY <1>0, <2>2, <2>3
  <2> QED BY <2>2, <2>4, <2>5 DEF Counters, Counter
<1>5. CASE EndTest
  <2>1. pc = "files" /\ pc' = "test" /\ r' = r + 1 /\ results' = results
    BY <1>5 DEF EndTest
  <2>2. \A k \in 1 .. r + 1 : k \in 1 .. r \/ k = r + 1
    BY <1>0
  <2> QED BY <2>1, <2>2 DEF Counters
<1>6. CASE /\ UNCHANGED <<results, r>>
           /\ pc' \in Testing => pc \in Testing
           /\ pc' \in InTest => pc \in InTest
           /\ pc' = "myhtml" => file' < testset'.count
  BY <1>6 DEF Counters
<1>7. CASE Free
  BY <1>7 DEF Free, Counters
<1>8. CASE StartMyHtml
  BY <1>8 DEF StartMyHtml, InFiles, Counters, loadVars
<1>9. CASE \E t \in Threads : MallocRead(t)
  BY <1>9 DEF MallocRead, Counters, loadVars
<1>10. CASE UNCHANGED bvars
  BY <1>10 DEF bvars, testVars, loadVars, Counters
<1> QED BY <1>1, <1>2, <1>3, <1>4, <1>5, <1>6, <1>7, <1>8, <1>9, <1>10 DEF BNext, ReadArgument,
     OpenDirectory, NoDirectory, CountEntry, NothingLoaded, AllocateArray, LoadEntry, Loaded,
     ParseNothing, TestsDone, PrintResult, testVars, InFiles

\* Each step prints nothing, or one result more in its units.
LEMMA PrintingStep ==
  ASSUME DriverInv, DriverInv', Counters, Printing, PrintedUnits, [BNext]_bvars
  PROVE  Printing' /\ PrintedUnits'
<1>1. CASE PrintResult
  <2> DEFINE it == results[Len(printed) + 1]
             line == [parser |-> it.parser, bytes |-> Scaled(it.bytes), text |-> Scaled(it.text)]
  <2>1. /\ pc = "print" /\ pc' = "print" /\ parsers' = parsers
        /\ it.parser # "none" /\ printed' = Append(printed, line)
    BY <1>1 DEF PrintResult, mainVars
  <2>2. PICK X : printed \in Seq(X)
    BY DEF Printing
  <2>3. /\ Len(printed) \in Nat /\ Len(printed) <= Popcount /\ r = Popcount /\ Popcount \in Nat
        /\ results[Popcount + 1] = [parser |-> "none"]
    BY <2>1 DEF Printing, DriverInv, BTypeOK, Tested, Testing
  <2>4. Len(printed) + 1 \in 1 .. r
    BY <2>1, <2>3
  <2>5. it.bytes \in Nat /\ it.text \in Nat
    BY <2>1, <2>4 DEF DriverInv, Tested, Outcome, Counters, Counter, Testing
  <2>6. InUnits(line.bytes) /\ InUnits(line.text)
    BY <2>5, ScaledInUnits
  <2> HIDE DEF it, line
  <2>7. printed' \in Seq(X \cup {line}) /\ Len(printed') = Len(printed) + 1
    BY <2>1, <2>2
  <2>8. Printing'
    <3>1. \E Y : printed' \in Seq(Y)
      BY <2>7
    <3> QED BY <2>1, <2>3, <2>4, <2>7, <3>1 DEF Printing, Popcount
  <2>9. \A j \in DOMAIN printed' : (j \in DOMAIN printed /\ printed'[j] = printed[j]) \/ printed'[j] = line
    BY <2>1, <2>2
  <2>10. \A j \in DOMAIN printed : InUnits(printed[j].bytes) /\ InUnits(printed[j].text)
    BY DEF PrintedUnits, InUnits, Gap
  <2>11. \A j \in DOMAIN printed' : InUnits(printed'[j].bytes) /\ InUnits(printed'[j].text)
    BY <2>6, <2>9, <2>10
  <2>12. PrintedUnits'
    BY <2>11 DEF PrintedUnits, InUnits, Gap
  <2> QED BY <2>8, <2>12
<1>2. CASE printed' = printed /\ (pc \in {"print", "exit"} => pc' = pc \/ pc' = "exit")
           /\ (pc = "print" /\ pc' = "print" => parsers' = parsers)
  <2>1. PrintedUnits'
    BY <1>2 DEF PrintedUnits
  <2>2. Popcount' \in Nat
    BY PopcountNat DEF DriverInv, BTypeOK, Popcount
  <2>3. CASE pc \in {"print", "exit"}
    BY <1>2, <2>1, <2>3 DEF Printing, Popcount
  <2>4. CASE pc \notin {"print", "exit"}
    BY <1>2, <2>1, <2>2, <2>4 DEF Printing
  <2> QED BY <2>3, <2>4
<1> QED BY <1>1, <1>2 DEF BNext, ReadArgument, OpenDirectory, NoDirectory, CountEntry, NothingLoaded,
     AllocateArray, LoadEntry, Loaded, PerformTests, StartTest, ParseNothing, ParseHsp, ParseSax,
     ParseGumbo, StartMyHtml, MallocRead, MallocWrite, EndMyHtml, EndTest, TestsDone, Free, bvars,
     InFiles

\* A size is printed in the unit it was divided to, or in a gap in one less, for
\* every base and every result (benchmark.c:30-46, main.c:47-48).
THEOREM DriverUnits == BSpec => []PrintedUnits
<1>1. BInit => PrintInv
  BY DEF BInit, PrintInv, Printing, Counters, PrintedUnits, InTest
<1>2. DriverInv /\ DriverInv' /\ PrintInv /\ [BNext]_bvars => PrintInv'
  BY CountersStep, PrintingStep DEF PrintInv
<1>3. PrintInv => PrintedUnits
  BY DEF PrintInv
<1> QED BY <1>1, <1>2, <1>3, DriverInvariant, PTL DEF BSpec

-----------------------------------------------------------------------------
\* What there is to count in the first n documents.
LinksTo(data, n, w) == SumFunction([k \in 1 .. n |-> Links(data[k].doc)[w]])

\* The adapters that build on a parser, and when they can agree.
OnParsers == {"libxml2", "gumbo", "myhtml", "haut"}
AllPlain == \A j \in Loads : Plain(testset.data[j].doc)

\* A result has numbers for the words: those of the first n documents.
HasWords(it) == \A w \in Words : w \in DOMAIN it /\ it[w] \in Nat
Exact(it, data, n) ==
  it.parser \in OnParsers => HasWords(it) /\ \A w \in Words : it[w] = LinksTo(data, n, w)
\* The results of these parsers are exact, the one of the test that runs for the
\* documents it has had.
ExactResults ==
  AllPlain =>
    /\ pc \in Testing => \A k \in 1 .. r : Exact(results[k], testset.data, testset.count)
    /\ pc \in InTest => Exact(results[r + 1], testset.data, file)

\* The documents of the test set.
LEMMA LoadsDocuments ==
  ASSUME DriverInv, pc \in Testing
  PROVE  /\ testset.count \in Nat
         /\ \A k \in Loads : testset.data[k] \in Cells /\ testset.data[k].doc \in Documents
<1>1. /\ testset.count = index /\ index \in Nat /\ index <= Len(testset.data)
      /\ testset.data \in Seq(Cells \cup {NULL})
      /\ \A j \in DOMAIN testset.data : testset.data[j] # NULL <=> j <= index
  BY DEF DriverInv, BTypeOK, Kept, Array, LoadedCells, Testing, Loading
<1>2. ASSUME NEW k \in Loads PROVE testset.data[k] \in Cells
  <2>1. k \in DOMAIN testset.data /\ k <= index
    BY <1>1 DEF Loads
  <2> QED BY <1>1, <2>1
<1> QED BY <1>1, <1>2 DEF Cells

\* No document has nothing to count.
LEMMA LinksToZero ==
  ASSUME NEW data, NEW w PROVE LinksTo(data, 0, w) = 0
<1> DEFINE f == [k \in 1 .. 0 |-> Links(data[k].doc)[w]]
<1>1. IsFiniteSet({}) /\ DOMAIN f = {}
  BY FS_EmptySet
<1>2. PICK a : Sum(a, f, {}) /\ SumFunctionOnSet(f, {}) = a[{}]
  BY <1>1, SumFunctionIs
<1> QED BY <1>1, <1>2 DEF LinksTo, SumFunction, Sum

\* One document more has what is in it more.
LEMMA LinksToNext ==
  ASSUME DriverInv, pc \in Testing, NEW w \in Words, NEW n \in Nat, n < testset.count
  PROVE  LinksTo(testset.data, n + 1, w) = LinksTo(testset.data, n, w) + Links(testset.data[n + 1].doc)[w]
<1> DEFINE f == [k \in 1 .. n + 1 |-> Links(testset.data[k].doc)[w]]
           g == [k \in 1 .. n |-> Links(testset.data[k].doc)[w]]
<1>1. \A k \in 1 .. n + 1 : k \in Loads
  BY LoadsDocuments DEF Loads
<1>2. \A k \in 1 .. n + 1 : f[k] \in Nat
  BY <1>1, LoadsDocuments, LinksType
<1>3. DOMAIN f = 1 .. n + 1 /\ DOMAIN g = 1 .. n /\ \A k \in 1 .. n : g[k] = f[k]
  OBVIOUS
<1>4. f[n + 1] = Links(testset.data[n + 1].doc)[w]
  OBVIOUS
<1> HIDE DEF f, g
<1>5. SumFunction(f) = SumFunction(g) + f[n + 1]
  BY <1>2, <1>3, SumFunctionNext
<1> QED BY <1>4, <1>5 DEF LinksTo, f, g

\* What a document adds to the words of a result.
LEMMA AddWords ==
  ASSUME DriverInv, pc \in InTest, HasWords(results[r + 1]), NEW got, NEW b,
         Add(got, b), \A w \in Words : got[w] \in Nat
  PROVE  HasWords(results'[r + 1]) /\ \A w \in Words : results'[r + 1][w] = results[r + 1][w] + got[w]
<1>1. /\ r \in Nat /\ Popcount \in Nat /\ r < Popcount /\ DOMAIN results = 1 .. Popcount + 1
  BY PopcountNat DEF DriverInv, BTypeOK, Tested, Popcount, Testing, InTest
<1> DEFINE it == [results[r + 1] EXCEPT !.href = @ + got.href, !.src = @ + got.src,
                        !.alt = @ + got.alt, !.text = @ + got.text, !.bytes = b]
<1>2. results' = [results EXCEPT ![r + 1] = it]
  BY DEF Add, Result
<1>3. \A w \in {"href", "src", "alt"} : w \in DOMAIN results[r + 1]
  BY DEF HasWords, Words
<1>4. DOMAIN it = DOMAIN results[r + 1] /\ it.href = results[r + 1].href + got.href
      /\ it.src = results[r + 1].src + got.src /\ it.alt = results[r + 1].alt + got.alt
  BY <1>3
<1> HIDE DEF it
<1>5. \A w \in Words : w \in DOMAIN it /\ it[w] = results[r + 1][w] + got[w]
  BY <1>3, <1>4 DEF Words
<1>6. results'[r + 1] = it
  BY <1>1, <1>2
<1> QED BY <1>5, <1>6 DEF HasWords


\* A document is counted by the adapter of a parser.
LEMMA ExactParse ==
  ASSUME DriverInv, Counters, ExactResults, ParseHsp \/ ParseSax \/ ParseGumbo \/ EndMyHtml
  PROVE  ExactResults'
<1> USE DEF Testing, InTest
<1> DEFINE data == testset.data
           Adapters == {TestLibxml2(Document), TestHaut(Document), TestGumbo(Document), TestMyHtml(Document)}
<1>1. /\ pc \in InTest /\ pc' \in InTest /\ r' = r /\ testset' = testset /\ file' = file + 1
      /\ file \in Nat /\ file < testset.count
  BY DEF ParseHsp, ParseSax, ParseGumbo, EndMyHtml, InFiles, Counters, loadVars, DriverInv, BTypeOK
<1>2. r \in Nat /\ Popcount \in Nat /\ r < Popcount /\ DOMAIN results = 1 .. Popcount + 1
  BY <1>1, PopcountNat DEF DriverInv, BTypeOK, Tested, Popcount
<1>3. \E got, b : b \in Nat /\ Add(got, b) /\ (got \in Adapters \/ results[r + 1].parser = "hsp")
  <2>1. CASE ParseHsp
    BY <2>1 DEF ParseHsp, Result
  <2>2. CASE ParseSax
    BY <1>1, <2>2, FileNat DEF ParseSax, Result
  <2>3. CASE ParseGumbo
    <3>1. PICK a \in Amounts : Add(TestGumbo(Document), Result.bytes + a)
      BY <2>3 DEF ParseGumbo
    <3>2. Result.bytes + a \in Nat
      BY <1>1, FileNat, BenchmarkAssumption DEF Result
    <3> QED BY <3>1, <3>2
  <2>4. CASE EndMyHtml
    BY <1>1, <2>4, FileNat DEF EndMyHtml, Result
  <2> QED BY <2>1, <2>2, <2>3, <2>4
<1>4. PICK got, b : b \in Nat /\ Add(got, b) /\ (got \in Adapters \/ results[r + 1].parser = "hsp")
  BY <1>3
<1>5. /\ results'[r + 1].parser = results[r + 1].parser
      /\ \A k \in 1 .. r : results'[k] = results[k]
  BY <1>1, <1>2, <1>4, AddResult
<1> SUFFICES ASSUME AllPlain PROVE ExactResults'
  BY <1>1 DEF ExactResults, AllPlain, Loads
<1>6. Exact(results[r + 1], data, file) /\ \A k \in 1 .. r : Exact(results[k], data, testset.count)
  BY <1>1 DEF ExactResults
<1>7. ASSUME results[r + 1].parser \in OnParsers PROVE Exact(results'[r + 1], data, file + 1)
  <2>1. file + 1 \in Loads /\ Document = data[file + 1].doc
    BY <1>1, LoadsDocuments DEF Loads, Document
  <2>2. Document \in Documents /\ Plain(Document)
    BY <1>1, <2>1, LoadsDocuments DEF AllPlain
  <2>3. got \in Adapters
    BY <1>4, <1>7 DEF OnParsers
  <2>4. \A w \in Words : got[w] = Links(Document)[w] /\ got[w] \in Nat
    <3> HIDE DEF Document
    <3> QED BY <2>2, <2>3, AdaptersAgree, LinksType
  <2>5. HasWords(results[r + 1]) /\ \A w \in Words : results[r + 1][w] = LinksTo(data, file, w)
    BY <1>6, <1>7 DEF Exact
  <2>6. HasWords(results'[r + 1]) /\ \A w \in Words : results'[r + 1][w] = results[r + 1][w] + got[w]
    BY <1>1, <1>4, <2>4, <2>5, AddWords
  <2>7. \A w \in Words : LinksTo(data, file + 1, w) = LinksTo(data, file, w) + Links(Document)[w]
    BY <1>1, <2>1, LinksToNext
  <2> QED BY <2>4, <2>5, <2>6, <2>7 DEF Exact
<1>8. Exact(results'[r + 1], data, file + 1)
  BY <1>5, <1>7 DEF Exact
<1>9. \A k \in 1 .. r : Exact(results'[k], data, testset.count)
  BY <1>5, <1>6
<1> QED BY <1>1, <1>8, <1>9 DEF ExactResults

\* Each step leaves the results exact.
LEMMA ExactStep ==
  ASSUME DriverInv, Counters, ExactResults, [BNext]_bvars
  PROVE  ExactResults'
<1> USE DEF Loading, Testing, InTest
<1>0. r \in Nat /\ Popcount \in Nat /\ r <= Popcount
      /\ (pc \in Testing => DOMAIN results = 1 .. Popcount + 1)
  BY PopcountNat DEF DriverInv, BTypeOK, Values, Tested, Popcount
<1>1. CASE ParseHsp \/ ParseSax \/ ParseGumbo \/ EndMyHtml
  BY <1>1, ExactParse
<1>2. CASE PerformTests
  <2>1. r = 0 /\ r' = r /\ pc' \in {"test", "print"}
    BY <1>2 DEF PerformTests, DriverInv, Tested
  <2> QED BY <2>1 DEF ExactResults
<1>3. CASE StartTest
  <2> DEFINE it == [parser |-> Chosen(r + 1), tests |-> testset.count, href |-> 0, src |-> 0, alt |-> 0,
                    bytes |-> 0, text |-> 0]
  <2>1. /\ results' = [results EXCEPT ![r + 1] = it] /\ r' = r /\ pc = "test" /\ pc' = "files"
        /\ r < Popcount /\ testset' = testset /\ file' = 0
    BY <1>3 DEF StartTest, loadVars
  <2>2. HasWords(it) /\ \A w \in Words : it[w] = 0
    BY DEF HasWords, Words
  <2> HIDE DEF it
  <2>3. results'[r + 1] = it /\ \A k \in 1 .. r : results'[k] = results[k]
    BY <1>0, <2>1
  <2>4. Exact(it, testset.data, 0)
    BY <2>2, LinksToZero DEF Exact
  <2> QED BY <2>1, <2>3, <2>4 DEF ExactResults, AllPlain, Loads
<1>4. CASE \E t \in Threads : MallocWrite(t)
  <2>1. PICK t \in Threads : MallocWrite(t)
    BY <1>4
  <2>2. /\ pc = "myhtml" /\ pc' = pc /\ r' = r /\ r < Popcount /\ Outcome(results[r + 1])
        /\ file' = file /\ testset' = testset
        /\ results' = [results EXCEPT ![r + 1].bytes = reg[t] + todo[t]]
    BY <2>1 DEF MallocWrite, DriverInv, Tested, loadVars
  <2> DEFINE it == [results[r + 1] EXCEPT !.bytes = reg[t] + todo[t]]
  <2>3. results' = [results EXCEPT ![r + 1] = it]
    BY <2>2
  <2>4. /\ it.parser = results[r + 1].parser
        /\ \A w \in Words : it[w] = results[r + 1][w] /\ (w \in DOMAIN it <=> w \in DOMAIN results[r + 1])
    BY <2>2 DEF Outcome, Words
  <2> HIDE DEF it
  <2>5. results'[r + 1] = it /\ \A k \in 1 .. r : results'[k] = results[k]
    BY <1>0, <2>2, <2>3
  <2>6. \A n : Exact(results[r + 1], testset.data, n) => Exact(it, testset.data, n)
    BY <2>4 DEF Exact, HasWords
  <2> QED BY <2>2, <2>5, <2>6 DEF ExactResults, AllPlain, Loads
<1>5. CASE EndTest
  <2>1. /\ pc = "files" /\ pc' = "test" /\ r' = r + 1 /\ results' = results /\ testset' = testset
        /\ file = testset.count
    BY <1>5 DEF EndTest, loadVars
  <2>2. \A k \in 1 .. r + 1 : k \in 1 .. r \/ k = r + 1
    BY <1>0
  <2> QED BY <2>1, <2>2 DEF ExactResults, AllPlain, Loads
<1>6. CASE /\ UNCHANGED <<results, r, testset>>
           /\ pc' \in Testing => pc \in Testing
           /\ pc' \in InTest => pc \in InTest /\ file' = file
  BY <1>6 DEF ExactResults, AllPlain, Loads
<1>7. CASE pc' \notin Testing
  BY <1>7 DEF ExactResults
<1>8. CASE ParseNothing
  <2>1. /\ pc' = pc /\ pc \in InTest /\ UNCHANGED <<results, r, testset>>
        /\ results[r + 1].parser \in {"dummy", "hubbub"}
    BY <1>8 DEF ParseNothing, InFiles, Result, loadVars
  <2>2. \A data, n : Exact(results[r + 1], data, n)
    BY <2>1 DEF Exact, OnParsers
  <2> QED BY <2>1, <2>2 DEF ExactResults, AllPlain, Loads
<1>9. CASE \E t \in Threads : MallocRead(t)
  BY <1>9, <1>6 DEF MallocRead, loadVars
<1>10. CASE UNCHANGED bvars
  BY <1>10, <1>6 DEF bvars
<1>11. CASE StartMyHtml \/ TestsDone \/ PrintResult
  BY <1>11, <1>6 DEF StartMyHtml, TestsDone, PrintResult, testVars, loadVars, InFiles
<1>12. CASE Free \/ ReadArgument \/ OpenDirectory \/ NoDirectory \/ CountEntry \/ NothingLoaded
            \/ AllocateArray \/ LoadEntry \/ Loaded
  BY <1>12, <1>7 DEF Free, ReadArgument, OpenDirectory, NoDirectory, CountEntry, NothingLoaded,
       AllocateArray, LoadEntry, Loaded
<1> QED BY <1>1, <1>2, <1>3, <1>4, <1>5, <1>8, <1>9, <1>10, <1>11, <1>12 DEF BNext

\* On plain documents the four adapters count the same, whatever is chosen and
\* whatever is in the directory (test_libxml2.c:37-62, test_haut.c:27-49,
\* test_gumbo.c:52-83, test_myhtml.c:104-146).
THEOREM DriverComparable == BSpec => []Comparable
<1>1. BInit => Counters /\ ExactResults
  BY DEF BInit, Counters, ExactResults, Testing, InTest
<1>2. DriverInv /\ Counters /\ ExactResults /\ [BNext]_bvars => Counters' /\ ExactResults'
  BY CountersStep, ExactStep
<1>3. DriverInv /\ ExactResults => Comparable
  <2> SUFFICES ASSUME DriverInv, ExactResults, pc = "print", AllPlain,
                      NEW j \in DOMAIN results, results[j].parser \in OnParsers, NEW w \in Words
               PROVE  results[j][w] = SumFunction([k \in Loads |-> Links(testset.data[k].doc)[w]])
    BY DEF Comparable, AllPlain, OnParsers
  <2>1. r = Popcount /\ r \in Nat /\ DOMAIN results = 1 .. r + 1 /\ results[r + 1] = [parser |-> "none"]
    BY DEF DriverInv, BTypeOK, Tested, Testing
  <2>2. j # r + 1
    BY <2>1 DEF OnParsers
  <2>3. j \in 1 .. r
    BY <2>1, <2>2
  <2>4. Exact(results[j], testset.data, testset.count)
    BY <2>3 DEF ExactResults, Testing
  <2> QED BY <2>4 DEF Exact, LinksTo, Loads
<1> QED BY <1>1, <1>2, <1>3, DriverInvariant, PTL DEF BSpec
================================================================================
