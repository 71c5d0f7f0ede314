# A TLA+ model of the JoinOperator query engine

The program (`src/src/*.c`) answers batches of join queries over relations of
64-bit integers: it reads relation names and queries from a pipe, parses a
query, orders its joins by estimated cost, executes filters and joins with a
radix hash join on a pool of threads, and writes sums of columns back. This
directory holds TLA+ modules that model its core, TLC configurations that check
them on small instances, and TLAPS proofs for every instance.

## 1. The system

| Component | Files | State | Operations |
|---|---|---|---|
| Job scheduler | `jobScheduler.c` | a linked queue and its `size`, `reading`, `writing`, `shutdown`, one mutex, two condition variables, 7 threads | `writeOnQueue` (main thread), `readFromQueue` (workers), `shutdownAndFreeScheduler` |
| Radix partitioning | `H1.c`, `functions.c` | a shared histogram with a mutex per bucket, offsets, the new array, two completion counters | `DoTheHash`, `histogramJob`, `reorderRelation`, `constructionJob` |
| Hash index and search | `indexing.c`, `indexManip.c`, `sideFunctions.c`, `chainFollower.c`, `resultListManip.c` | chained hash tables per bucket, a result list per job, a completion counter | `indexing`, `searchThreadVer`, `joinBucket`, `followChain`, `connectResultList` |
| radixHashJoin and warehouses | `radixHashJoin.c`, `functions.c` | indexes and partitioned columns that outlive a query, each with its number of bits | one join, which may use, add to or bypass what is cached |
| Query execution | `jointPerformer.c`, `interList.c`, `checksum.c` | a list of intermediates: for every relation joined so far a column of row numbers | `workerF`, `workerJ`, `performChecksums` |
| Join order | `joinEnumeration.c`, `graph.c`, `combinations.c`, `hashTreeManip.c` | the join graph, the best tree of every set of relations, `priorities` | `ConstructGraph`, `joinEnumeration`, `SetPriorities` |
| Relation loading | `I_O_structManip.c`, `getStats.c` | a list of file names, the columns, and per column min, max, count and a bit vector of values | `ConstructInput`, `FillRelArray`, `FillStatsArray` |
| Query parsing | `I_O_Receiver.c`, `queryManip.c` | four counters; one query of arrays of those sizes | the counting scan of `main`, `ConstructQuery`, `FreeQuery` |
| Statistics of a query | `getStats.c`, `bitVector.c` | the query's copy of the statistics of its relations | `executeFilterPredicates` |
| Pipe input and output | `pipeI_O.c`, `I_O_Receiver.c` | the array a read fills, the text so far and its allocated length | `readFromPipe`, the loop of `main`, `writePipe` |
| Test harness | `harness.cpp` | the batch it is at, what is left to write, the answers so far | sending names and batches, collecting and comparing answers |
| Contest scaffold | other `*.cpp` | | reference implementation, not part of the program |
| CUnit tests | `*Testing.c`, `viceTests.c` | | |

Interactions. `main` (`I_O_Receiver.c:90-234`) takes one query at a time
through statistics, join order, filters, joins and checksums. A join calls
`radixHashJoin`, which asks the warehouses, calls `reorderRelation` (two batches
of jobs on the scheduler, each with a barrier), `indexing` (main thread alone)
and `searchThreadVer` (a third batch and barrier). The threads of the pool share
the queue, the histogram and the counters of the batch with the main thread;
nothing is shared between queries but the relations and the warehouses.

What is hard, and what makes each part correct:

* **Scheduler**: the queue is changed *outside* the mutex, under a readers-writer
  protocol of two counters; wakeups are single signals; shutdown is a flag
  written without the mutex. Correct if one thread at a time changes the queue,
  every job is taken once, in order, no wakeup is lost, and shutdown ends.
* **Partitioning**: jobs compute disjoint slots from a histogram they count down
  together and store outside the lock. Correct if the result is a permutation
  in the order of the hash values, the offsets delimit the buckets, and the
  barriers neither open early nor stay shut.
* **Index and search**: offsets plus one in chains, buckets cut in pieces, lists
  linked after a barrier. Correct if the result is the join, each pair once.
* **Warehouses**: results cached over queries under a key; the number of bits
  travels by reference, `switched` is input and output. Correct if every entry
  is what its key says, index and probe have one radix, and nothing cached is
  freed.
* **Query execution**: a relation moves between intermediates as joins are
  applied in an order the query did not fix. Correct if the answer is the
  query's, whatever the order.
* **Join order**: joins encoded as digits, an array filled from three sides.
  Correct if every predicate is executed.
* **Parsing and statistics**: arrays are allocated by one scan of a line and
  filled by another; bits of a vector are offsets or residues; estimates are
  rounded doubles of wrapping words. Correct if the two scans agree, a query is
  read as written, and no estimate denies a row that is there.
* **Pipes**: a stop word in a stream of reads of any length, two processes, two
  bounded pipes, and a second of sleep for a handshake. Correct if `main` gets
  the text that was sent, the harness its answers in order, and both end.

`PROJECT.json` lists the components with their status, the hazards at their
lines, and the lines every definition stands for.

## 2. Modules

| Module | Models | Abstract specification |
|---|---|---|
| `JobScheduler` | `jobScheduler.c`, statement by statement where it is outside the mutex | `JobPool` |
| `RadixPartition` | `DoTheHash` and `reorderRelation` with their jobs | |
| `IndexSearch` | `indexing` and `searchThreadVer` with their jobs | |
| `RadixHashJoin` | `radixHashJoin` and both warehouses over any sequence of joins | |
| `QueryExec` | `workerF`, `workerJ`, `interList.c`, `checksum.c` | `ConjunctiveQuery` |
| `JoinOrder` | graph, enumeration, `SetPriorities` | |
| `PipeIO` | `readFromPipe`, the loop of `main`, `writePipe`, `harness.cpp` | |
| `QueryText` | the text of a query, the counting scan, `ConstructQuery` | a query as a record |
| `QueryStats` | `FillRel`, `FillStatsArray`, one query after another through `ConstructQuery` and `executeFilterPredicates` | |
| `JobSchedulerProofs` | theorems about `JobScheduler` | |
| `RadixHashJoinProofs` | theorems about `RadixHashJoin` | |
| `RadixPartitionProofs` | theorems about `RadixPartition` | |
| `IndexSearchProofs` | theorems about `IndexSearch` | |
| `QueryExecProofs` | the invariants of `QueryExec`, and that it implements `ConjunctiveQuery` | |
| `JoinOrderProofs` | theorems about `JoinOrder` | |
| `QueryStatsProofs` | theorems about `QueryText` and `QueryStats` | |
| `PipeIOProofs` | theorems about `PipeIO` | |

`MC*` modules give the constants of an instance; a `.cfg` file is a run.

How state and actions correspond to the code:

* **JobScheduler.** `pc[w]` names the statement a worker is about to run.
  `owner` is the mutex. A critical section that only counts is one action
  (`EnterWrite`, `ExitRead`, `ExitWrite`); `enterRead`, which reads `shutdown`
  and `size` that others write without the mutex, is one action per test.
  `Pop`/`PopSize` and `Insert`/`InsertSize` keep the order list first, size
  second. `pthread_cond_signal` wakes any one of the blocked threads or nobody;
  a wait may return unsignalled (`SpuriousRead`, `SpuriousWrite`). A worker
  leaves at four places (`LeaveOnShutdown`), at one of them with a job in hand.
  `Shutdown` is taken when all written jobs have run, as the phases' own
  barriers ensure.
* **RadixPartition.** The jobs of a batch may run as soon as they are written
  and in any order, which is what the pool gives. Counting down and storing are
  two actions (`TakePlace`, `Store`), since the lock covers only the first.
  `histogramJob` works on private memory and is one action. The layout sweep is
  one action per hash value and has the cases of the code: the first and the
  last filled bucket, the empty values in front, between and behind them, and a
  `temp` that stops before the last. Hash values are arbitrary.
* **IndexSearch.** One action per tuple indexed, per chain head looked up and
  per link followed. The nodes of one job's list are a sequence, since only that
  job appends to it; `result`, which the main thread links from these lists, has
  the pointers of the code: `firstNode`, `tail`, and `nextNode[b]`, where the last
  node of list `b` points. The second hash is any function of the key; the first is
  the residue. `Cap` is the number of tuples whose index fits the cache and
  `MaxTuples` the size of a result node.
* **RadixHashJoin.** One call is one action, since only the main thread joins;
  the disjuncts are the branches of the code. An array is its origin, size and
  bits. `join` keeps the last call's index, probe, `switched` and what it freed.
* **QueryExec.** One predicate is one action. Joins may come in any order.
  `radixHashJoin` returns every matching pair once, which is what the three
  modules above establish; for two columns it may index either.
* **JoinOrder.** `hashTree` maps the sets that have a tree to join sequences; which of
  the possible last relations wins is arbitrary, since costs are estimates.
  `SetPriorities` is one action per join and pass. Reading `joins[-1]` or past
  `priorities` is the action `ReadOutside`, after which nothing is known.
* **PipeIO.** Text is a sequence of units, two for a name or query, so that a
  read may end inside a line. One action per `read`, per answer, and per write of
  the harness, which may be partial where it does not block. `buffer` is
  uninitialized at first and keeps what an earlier read left; `Copies` is what
  `strcat` may find behind its end. `mishaps` records what went wrong and in
  which phase: a line *cut* by a read where that is misread, a *spill* of what
  was not read, text behind the stop word *lost*, an *overrun* of an
  allocation, an *empty* text for a batch without queries. Each is a behaviour
  of the code, reachable in the run; the properties say what holds as long as
  none has happened, and which cannot happen at all.
* **QueryText, QueryStats.** A line is a sequence of numbers and separators, and
  both scans are operators on it. Words have `WordBits` bits and ints
  `IntBits`; the database and the batch are any of a set. One action per
  relation loaded, scan, query constructed, filter, self join and query freed.
  A ceiling is that of any number close to the quotient, as doubles have it
  (`Ceils`, `Quotients`), and rounding keeps the order of numbers: where fewer
  values than rows were expected, no more are expected afterwards. What `pow`
  yields is any value within Bernoulli's bounds. `Accuracy` is what doubles are
  worth (section 4).

The modules meet at stated interfaces, not by composition: what `JobScheduler`
guarantees (`EveryJobStarts`, `ImplementsPool`) is the fairness and the freedom
of order assumed of jobs in `RadixPartition` and `IndexSearch`; what those show
(`Partitioned`, `PsumDelimitsBuckets`, `JoinExact`) is assumed of arrays in
`RadixHashJoin` and of `radixHashJoin` in `QueryExec`; that the joins of a
query are executed at all is `JoinOrder`'s subject. `PipeIO` gives `main` its
lines, `QueryText` makes of each the query that `JoinOrder` and `QueryExec`
start from, and `QueryStats` puts the self joins in front of the priorities, as
`JoinOrder` finds them.

## 3. Runs

| Run | Specification | Bounds | Shows |
|---|---|---|---|
| `scheduler` | `FairSpec` | 3 workers, 3 jobs, 1 spurious wakeup | `OneReaderOrOneWriter`, `NeverPopsNull`, `SizeIsLength`, `EachJobInOnePlace`, `ImplementsPool`, `EveryJobStarts`, `WriterGetsIn`, `ShutdownEndsOutsideTheWindow` |
| `scheduler_shutdown` | `FairSpec` | 2 workers, 1 job | violates `ShutdownEnds` (finding 1) |
| `partition` | `FairSpec` | 3 threads, 4 tuples, 3 hash values | `BarriersHold`, `Reordered`, `NoSlotWrittenTwice`, `Terminates` |
| `search` | `FairSpec` | 3 hash values; two buckets of 4 tuples in all, one of 5, or three probed by three jobs; pieces of 2, nodes of 1 | `ConnectsFinishedLists`, `JoinExact`, `SearchEnds` |
| `warehouse` | `Spec` | 3 columns of widths 0, 1, 1; 2 intermediates of 0 or 7 rows | `CachesTruthful`, `OneIndexPerColumn`, `JoinsItsOperands`, `SameRadix`, `CachedStaysAllocated` |
| `warehouse_width` | `Spec` | | violates `HashWidthChosen` (finding 2) |
| `query` | `Spec` | tables of 2 and 3 rows of 0 and 1, three queries of 2 to 4 relations | `IntermediatesSound`, `ImplementsQuery` |
| `order` | `Spec` | 4 relations and up to 4 joins, 3 relations and up to 5 of 7 joins | `LeftDeep`, `OneMoreIsScheduled`, `RestAreFilters` |
| `order_cycles` | `Spec` | 3 relations, up to 4 joins | violates `EveryJoinIsScheduled` (finding 3) |
| `pipe` | `FairSpec` | a buffer of 8 units, pipes of 12 units and of 1 answer; 1, 2 or 4 names, six workloads of batches of 0 to 3 queries | `TextAsSent`, `FittingIsSafe`, `AnswersInOrder`, `Completed` |
| `prepare` | `Spec` | two columns of 3 rows from six kinds, words of 6 bits, ints of 5, a vector of 8, an accuracy of 8; every chain of two filters with or without a self join between them, and pairs of queries | `StatsExact`, `ParsedAsWritten`, `EstimatesSound` |
| `prepare_equal` | `Spec` | | violates `EqualTestsExistence` (finding 4) |

`Reordered` and `IntermediatesSound` are conjunctions of named parts. Every
module has a type invariant, which its run checks.

Why the bounds are enough. Three workers are the fewest with one inside, one
signalled and one asleep; with three jobs the queue passes through empty, one
and several, which are the cases of `insertInQueue` and `popFromQueue`. Three
partitioning jobs over four tuples have shares of 1, 1 and 2, so there is a
remainder; with three hash values the first, a middle and the last bucket can
each be empty, and one bucket can be fed by all jobs. Three result lists, each
with and without pairs, are the fewest with which a tail that was not moved on
loses one. In `warehouse` no bound
is put on the number of calls: the reachable caches are finite. The queries of
`query` reach every branch of `workerF` and `workerJ`: relations that are in
no, one, the same or different intermediates. In `pipe` some batches
and one list of names fit the buffer and others do not, one list has the buffer
end inside a line and is longer than the memory allocated at first, a sum has the
sign bit or is 0 over rows, and a batch may be empty between others or the last; so every
kind of mishap happens, and the harness meets a full pipe. In `prepare` a span is within the vector,
beyond it, or the whole range of a word; values lie below, in and above a range
and do or do not occur; a relation has two digits and a value more bits than an
int. Every relation there has at most as many rows as `Accuracy`, which is small
so that doubles do round. Every bound is a CONSTANT or a
definition of an `MC` module; `NumJobs` and `MaxSpurious` are the only
counters capped in guards.

Two modules are run without the check for deadlock. A pool without jobs, or
after it was joined, rests. Program and harness end, and after a mishap may wait
for each other; that they do not otherwise is `Completed`.

Fairness. `WF` of every step a worker or the main thread has begun (threads are
scheduled and the mutex is released by everyone who takes it), never of writing
a job, of shutting down, of a spurious wakeup or of a job returning. In
`RadixPartition` and `IndexSearch` it is `WF` of every job that was written,
which is `EveryJobStarts`, and of the main thread. In `PipeIO` program and
harness are two processes that the operating system schedules: `WF` of each,
which leaves out how long the second of sleep is compared with anything else.

Each property of a passing run has a mutant in `PROJECT.json`: an operator next
to the one it replaces, with a bug such code could have, under which the
property fails.

## 4. Theorems

TLC checks small instances; the theorems hold for every value of the constants.

`JobSchedulerProofs`, for any set of workers and any number of jobs and
spurious wakeups, from `WorkersAssumption`, `NumJobsAssumption` and
`SpuriousAssumption`:

* `TypeCorrect`, `MutualExclusion`, `NoNullJob`, `SizeExact`: the invariant
  `SyncInv` says who is where. `LockInv`: the owner of the mutex is the one
  thread at a label inside. `InsideInv`: `reading` and `writing` count the
  threads between enter and exit, at most one in all. `SizeInv`: `size` differs
  from the list's length exactly while someone is between the two halves of a
  change. `WriteInv`, `HandInv`: who holds which job. `MutualExclusion` is not
  inductive alone: that a reader may enter depends on its test of both counters
  still being true when it counts itself, which is the mutex's doing.
* `ExactlyOnce`: `JobInv` adds where jobs are: `QueueInv` (the queue ascends, so
  no job is in it twice), `PlaceInv` (the queue, the hands and `done` partition
  what was submitted), `ShutInv` (after shutdown nothing is left, so a worker
  that leaves has no job in hand).
* `Refinement`: under the invariants every step is a step of `JobPool` or
  leaves it alone: linking a node is `Write`, `Pop` is `Take`, `Run` is
  `Finish`.

`RadixHashJoinProofs` proves every invariant of the run `warehouse`, for any columns,
intermediates, sizes and cache size for which `FindNextPower` ends within 64
bits (`WidthAssumption`). The properties as they stand are not inductive: that a
call which finds no index chooses `h1` anew needs `BestImpliesIndexed` (otherwise
`bestHashValues` would answer, without its `h1`), and that in turn that a column
gets its best array and its index in one call. The invariant `Inv` is

* `CacheInv`: both warehouses are sequences of *true* entries (entries that are
  over what their key says), a best array is of its column, and has an index;
* `IndexDistinct`: two entries of `indexWarehouse` are of two columns;
* `JoinInv`: the last call joined its operands and freed arrays of
  intermediates only.

One lemma per call shows that it keeps `Inv`; `ColumnGot` and `IndexFetched` say
what the fetch functions answer, and `FirstIsAHit` (the first hit of a search is
a hit) rests on the library's theorem that `<` is well-founded on `Nat`.
`RadixAgrees` (`SameRadix`) adds `RadixInv`, that no index has the request
`FIRST_REORDERED` for its `h1`. It needs the premise `NoEmptyRelation`: of an
empty column the request stays in `h1` (as in the run `warehouse_width`), and
with it would go into the warehouse.

`RadixPartitionProofs` proves every safety property of the run `partition` for
any number of tuples, threads and hash values of at least one
(`SizeAssumption`, `ThreadsAssumption`, `RangeAssumption`) and any hash value of
every tuple: `TypeCorrect`, `Barriers`, `Reorders`, `WrittenOnce`. The argument
counts, and none of the properties is inductive: that a store falls on a free
slot depends on how many tuples are left, and that on the shares, the partial
histograms and the layout sweep before. The invariant `Inv` is

* `BatchInv`: the counter of a batch counts the jobs that ended, so that a
  barrier that opens finds all of them;
* `HistInv`, `LayoutInv`: histograms of consecutive shares add up to that of the
  relation, and its sums are where the buckets start. During the sweep
  (`SweepOf`) `psum` has an entry for each filled bucket that was passed, and
  `temp` is the sum so far until the last filled bucket, behind which the code
  does not move it: only empty values follow (`AllLaidOut`), which end at the
  size of the relation;
* `MoveInv`: `hist[v]` is the number of tuples of bucket `v` that were not
  taken, claims are pairwise different counts above it, all slots below it are
  free, and every tuple taken is in a claim or a slot. In the end nothing is
  left, every tuple has a slot, and as there are as many slots as tuples, every
  slot has its tuple.

`IndexSearchProofs` proves every safety property of the run `search`, for any
relations of numbers, any second hash, and any hash ranges and capacities of at
least one (`KeysAssumption`, `SizesAssumption`): `TypeCorrect`, `Barrier`,
`JoinIsExact`. `JoinExact` speaks of the final state only; what holds on the way
is `Inv`:

* `IndexInv`: the pieces of a bucket hold each of its rows once (`LaidOut`), and
  a chain visits the tuples of one second hash from the last to the first
  (`Chained`, as far as the index is built);
* `ProbeInv`, `ListInv`: the list of a job that runs holds exactly the matches
  its probe has passed (`Found`), each once; following a link passes one more;
* `BarrierInv`, `JobInv`, `ResultInv`: a list is linked after its job has ended,
  and what is linked is the join of the buckets before: there is a walk
  (`Linked`) from `firstNode` along `nextNode` over ascending lists that ends at
  `tail`, and its pairs are those of the buckets before. An empty list leaves the
  walk as it is, another one is appended to it at `tail`, which no other list
  pointed from. Equal keys are in one bucket, so nothing is missed between
  buckets.

`QueryExecProofs` proves every property of the run `query`, for all tables of
words (`TablesAssumption`) and all queries that name columns there are and whose
predicates connect their relations
(`QueriesAssumption`; of a query that is not connected several intermediates are
left, with which `performChecksums` gives up, `checksum.c:13`, and of one without
predicates none, whose first it would read). `TypeCorrect` and `Sound` come from
`Inv`:

* `ListSound`: a node has a column per relation, of rows of that relation and of
  one length, no relation twice and no combination twice, and two nodes share no
  relation;
* `Gathered`: a predicate that was executed has its relations in one node. So in
  the end, if some relations were in no or another node than the rest, the join
  that connects them would not have been executed.

All branches of `workerF` and `workerJ` do one of two things: they select rows of
a node (`SelectionOf`) or merge two (`MergeOf`), if a relation that is in no node
is taken for one with all its rows (`NodeFor`). `FilterEffect`, `SelfJoinEffect`
and `JoinEffect` say so, one lemma per way the list changes (`Replaces`); the
invariants and the refinement need no more. For `Refinement`:

* `GroupsAre`: the groups of `ConjunctiveQuery` are those of the nodes of the
  relations; `NodesAfter`: a step changes the nodes of the relations it connects
  and no other;
* `SelectedRows`, `MergedRows`: the rows of the new node are the combinations of
  the old groups that satisfy the predicate, by what the lemmas say of
  `Survivors` and of `radixHashJoin` with `switched` either way (`JoinResult`);
* `SumIsChecksum`: adding modulo 2^64 along a column gives what folding over the
  set gives, since a sum of words may be taken in any order (`TakenInAnyOrder`)
  and no combination is listed twice. Without `NoRowTwice` this would be false.

`JoinOrderProofs` proves every property of the run `order`, for all queries of up
to ten relations and ten joins (`SizesAssumption`, `JoinsAssumption`, which are
what the encoding by digits allows) that their joins connect (`Init`):
`TypeCorrect`, `TreesLeftDeep`, `OneMoreScheduled`, `RestFilters`. The invariant
`Inv` is

* `TreesInv`: a tree of a set is a sequence of joins, none twice, that is one
  shorter than the set and of which each adds one relation (`IsTree`, kept by
  `TreeGrows`), and some set of the size of the level has one: if it is not all
  relations, a join leads out of it (`SomeConnected`);
* `SequenceInv`: `joinSeq` is a tree of all relations. It and the self joins
  share no join, so together they fit in `priorities` (`BaseFits`);
* `CounterInv`: `alreadyPrioritized` grows at most once per round of the loops;
* `RestInv`, which `OneMoreIsScheduled` and `RestAreFilters` follow from: when
  one join at most is left, what `SetPriorities` has in front of
  `alreadyPrioritized` is that join, the self joins and the tree, and that join
  only behind one of the others with the same relations. So the first of a pair
  that the search meets is never the inserted join, and of a pair the tree has
  only one join (`PairsOfTree`): each join that is in `priorities`, or like one
  that is, is recognized (`SearchFacts`), and the insertions that later rounds
  repeat push nothing out.

`QueryStatsProofs` proves every property of the run `prepare`
(`StatsCorrect`, `EstimatesCorrect`, `ParsedCorrect`, `TypeCorrect`), for all
widths, sizes of the bit vector, databases and batches. `WidthsAssumption` asks
only that an `int` has a bit and a word no fewer than an `int`, so that the
64 and 32 bits of the code are a case of it. There a count or a difference of
words need not be a double. `AccuracyAssumption` and the operators that use it
say what is taken of doubles: a count up to `Accuracy` is exact, and the few
roundings of one estimate (two conversions, a quotient, a product) change it by
less than its `Accuracy`-th part. With IEEE 754 each changes it by at most
2^-53 of it, and `pow` by a unit in the last place, so that `Accuracy` may be 2^49;
and each is monotone, which `Scaled` uses. The theorems hold for every `Accuracy`
of two or more, if

* a relation has columns, all of one length, and none without values
  (`DatabasesAssumption`): `FillStatsArray` reads the first value of each, and
  counts the rows in a word. And a relation has no more rows than `Accuracy`;
* a query has the form of the harness's files, with a relation and a checksum at
  least, in numbers of any size; and one that `ConstructQuery` reads refers to relations and columns there are,
  and its values are what `atoi` makes of numbers (`BatchesAssumption`,
  `RefersTo`): nothing checks that, and another query reads outside the arrays.
  That such a value is a word is proved (`AtoiGivesWords`). The provers know
  nothing of powers, so that these are ordered as their exponents are is stated
  (`IntsAreWordsAssumption`), though it follows from the widths.

`StatsCorrect` follows from `LoadedInOrder` (`relArray` is what `FillStatsArray`
makes of the files so far) and from what that does: `BitsFit`, `DistinctCounted`.
It says nothing of a column over the whole range of a word: `max - min + 1` is 0,
no word is allocated for its bits, and `SetBit` writes outside.
`EstimatesSound` is not inductive. `=` tests bit 0 of the vector and divides
rows by distinct values, so that a value which is there is expected only if that
bit is set and distinct values do not outnumber rows; and what a filter does to
the other columns depends on what it did to its own. `EstimatesInv` has both:

* `StatsShape`: statistics for each column of each relation of the query, with
  bit 0 set; `QueryIsSound` and `Progress`: the query refers to relations that
  are loaded;
* `Estimated`: a relation's statistics are at most those that were loaded
  (`AllAtMost`, unless a self join divided by an empty range), and, while
  nothing is recorded in `flaws`, every row that is left is expected by all
  columns at once (`RowExpected`) and, during the filters, no column has more
  distinct values than rows.

`FilterKeepsItsRows` says of each filter, whatever the statistics, that it keeps
the values it lets through; it covers all branches and both wrap-arounds (`<` 0
and `>` the greatest word). `FilterOfRelation` and `SelfJoinOfRelation` add the
other columns, for which `Distinct` is at least one if there was a value
(`DistinctBetween`), whichever way `pow` rounds within its bounds.

`ParsedCorrect` is about texts of any length. `Laid` says where the parts of a
joined text lie in it; the separators are then at the ends of the parts
(`SeparatorsLaid`), so that `Split` gives the parts back (`SplitLaid`). With that
both scans are computed for any query: the first counts a sign for each
predicate, of the kind it is (`PredicatesCounted`), and is never stopped by a
wrong format (`FormatAndEnds`); the second tells filters from joins in the same
way (`KindsRead`) and gives each the numbers that are written (`FieldsRead`).
`ReadBack` puts the two together, for a query that is `Ordinary`: it has a
predicate, an `int` holds its numbers, and what is behind an equals sign and in
front of a dot has two digits at most, since the first scan looks no farther
ahead. `ParsedInv` carries it through the loop of `main`: the counters are fresh
between queries, and those of the query at hand after its scan. `TypeCorrect`
adds `WordCounts` (no filter or self join makes an estimate outgrow its word,
also where it divided by an empty range) and `QueueInv` (priorities name joins
of the query).

`PipeIOProofs` proves every safety property of the run `pipe`, for all lists of
names, all workloads, results and sizes, if a pipe holds at least what one read
takes (`SizesAssumption`; 64 KB and 4096 bytes in the program), no name or query
contains a newline or a `\0` (`TextAssumption`), and the sum over no rows is 0
(`ResultAssumption`): `TextStaysAllocated`, `WhatWasSent`, `AnswersComeInOrder`,
`FittingTexts`. The two processes share nothing but the pipes, so that none of
the properties is inductive: what a read finds depends on where the harness is,
and that on the answers it had. The invariant `IInv` is

* `Typed`: the types, and where the harness is in its workload. One of the types
  is `TextAllocated`, which `TextStaysAllocated` is about: the test in
  `readFromPipe` forgets the terminator and doubles only once, and still, unless a
  read copies what it has not read, all of the text but its `\0` is in memory;
  whatever goes wrong, at most one buffer of it is behind; and the memory is at
  most twice as long as the text and a buffer, and one;
* while no read has cut, spilled or lost anything (`Clean`), `InStep`: at each
  label of the program, what was read so far, is in the pipe and is still to be
  written (`Sent`) is the names, their stop word and the beginning of a batch, or
  one batch, or nothing because its answers are awaited, or the harness is ahead,
  which only an empty batch makes possible; and the answers collected and in the
  pipe are the first ones of the batch the harness is at.

`ReadOfStream` says what a read makes of such a stream: it goes on, or it ends
with exactly the stop word. `TextAsSent` and `AnswersInOrder` follow. For
`FittingIsSafe`, which speaks of what happens after mishaps too, `NamesInv` and
`BatchInv` add that a text that fits is read all or not at all. The proof showed
that three statements had been too strong, and TLC found each counterexample
once the instance had room for it: a mishap with the names can be followed by one
with a batch that fits; an empty *last* batch lets the harness end before the
program has read it; and how many answers the harness has collected is bounded
by its batch only until something was spilled.

The library's induction theorems take an operator and cannot be used. Where an
argument goes by induction (over the tuples of a bucket, the pieces, the lists
linked, the units of a text) it does so over a *set* of numbers, as
`InductionInSet` and `InductionUpTo` state it in the modules that need it, from
the library's theorem that `<` is well-founded on `Nat`.
What a recursive function computes is proved by showing, in the same way, that
a function with its equation exists. `RowsOf` and `SelfJoins` are written as
recursive functions for this reason.

Only model-checked: liveness (under fairness, which the prover does not handle:
`EveryJobStarts`, `WriterGetsIn`, `ShutdownEndsOutsideTheWindow`, `Terminates`,
`SearchEnds`, `Completed`). Every invariant that a passing run checks is stated
by a theorem.

## 5. Findings

1. **Shutdown can hang** (`jobScheduler.c:55`). The flag and the broadcast are
   outside the mutex. A worker that has read `shutdown == 0` in `enterRead` and
   has not yet blocked misses the broadcast; `pthread_join` waits for ever.
   `ShutdownEndsOutsideTheWindow` shows that this is the only window.
2. **A width of 100 bits** (`H1.c:60`). `reorderRelation` leaves `*hash1` at
   `FIRST_REORDERED` for an empty relation; joining two empty intermediates
   passes it to `indexing`, which raises 2 to it.
3. **A predicate can be dropped** (`joinEnumeration.c:525`, `530`). With two
   joins outside the tree `SetPriorities` overwrites one's priority with the
   other's. It can also read `joins[-1]` (`joinEnumeration.c:493`), which
   `ReadOutside` models. Two different self joins of one relation have the same
   effect; `OneMoreIsScheduled` states when all is well.
4. **The existence test of an equality filter tests bit 0** (`getStats.c:191`).
   `maxU` is the value itself by then, so the bit is that of the smallest value,
   which is always set. Only estimates suffer.

`Barrier` (`jobScheduler.c:76`) waits on a condition variable that nobody
signals and that is not initialised; nothing calls it.

## 6. Not modelled

* What comes after a file that cannot be opened or ends early (`FillRelFails`):
  `FillRelArray` returns and `main` goes on with relations that were never set.
* What comes after a query of the wrong format: `ConstructQuery` returns `NULL`,
  which `main` uses; the model ends there (`pc = "undefined"`).
* The estimates that `joinEnumeration` derives for trees: they choose between
  orders, and in `JoinOrder` every order is allowed.
* In `PipeIO`, `read` and `write` interrupted by signals, and the text of answers,
  beyond its length and its sign. The harness tries both again, and `readFromPipe`
  its `read`. `writePipe` does not (`pipeI_O.c:128-136`): the -1 goes into an
  unsigned `bWritten`, is taken for a number of bytes, and moves `bSent` one back.
* In `PipeIO`, workloads with an empty line, or with a line other than `F` that
  begins with it. The harness ends a batch at either (`harness.cpp:100-113`).
  `readFromPipe` takes an empty line for the stop word, of which it is a prefix,
  and puts the terminator where the newline of the last query was, so that this
  query is not counted; for any other line that begins with `F` it goes on
  reading, and both wait.
* Memory exhaustion: every failed `malloc` that is tested ends the program.
* The exact arithmetic of the second hash, and the sizes in bytes behind `Cap` and
  `MaxTuples`.
* The functions nothing calls: `Barrier`, `search`, `pushResult`, the `*2`
  functions of `interList.c`, `distValues`, `IdenticalityTest`, `rSwap`,
  `inputManip.c`.
* The CUnit tests and the reference implementation of the contest.

## 7. Plan

Modelled and checked: every component that keeps state. Proved: every invariant
that a passing run checks, and both refinements. What is left, the liveness
properties, is for TLC.
