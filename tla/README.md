# A TLA+ model of SF-sketch

This directory holds TLA+ models of the programs of this repository, the TLC
configurations that check them on small instances, and theorems about them
checked by TLAPS. Paths below are relative to `src/`.

- Model-check: `tlc -config MCSFFinal.cfg MCSFFinal`. Every `MC*.cfg` has a
  module of the same name, except `MCSFFinalDec.cfg` (runs `MCSFFinal`),
  `MCQuotientFilterSaturated.cfg` (runs `MCQuotientFilter`), and
  `MCLockedFilter.cfg` and `MCLockedFilterAbsent.cfg` (run `LockedFilter`).
- Prove: `tlapm M.tla` for each module `*Proofs.tla`.

`PROJECT.json` gives, for every definition, the source lines it stands for; for
every property, a plausible bug (a *mutant*, defined in the module next to the
definition it replaces) that breaks it; and the list of hazards.

## 1. Inventory

A frequency sketch answers "how often was this key added?" in a fixed amount of
memory, with an error on one side only: the answer may be too large, never too
small. The repository compares a new sketch, SF-sketch, with earlier ones. Each
is a program of its own; the programs share no memory, only trace files.

| Part | State | Operations |
|---|---|---|
| **sfsketch** `sfsketch/sketch.c` | a large "fat" array and a small "slim" one of `d` rows of packed counters; the array that answers queries | `init`, `inc`, `dec`, `query`, `compose_slim`, `set_query_sketch` |
| **packed counters** `sfsketch/sketch.c` | a row of `bits_c`-bit counters in 64-bit words | `get_cpt_c`, `set_cpt_c` |
| **drivers** `*/main.c`, `*/main.cpp` | the trace, a position in it, the outputs | normal run, timing (`-T`), throughput (`-t`), subfiles (`-n`), reverse run (`-r`) |
| **cmsketch, cmcusketch, cmlsketch, csketch** | one array of counters | insert, delete (cmsketch, csketch), query |
| **asketch** `asketch/ASketch.h` | a filter of exact counts before a sketch | `Insert`, `Query` |
| **cqfilter: the filter** `cqfilter/gqf.c` | slots of remainders and counters, two bits per slot, an offset per block | insert, set count, remove, delete, reset, resize, count, iterate, merge, intersect, inner product |
| **cqfilter: threads** `gqf.c`, `partitioned_counter.c` | a lock per region of slots; three counters with parts per processor | `qf_lock`, `qf_unlock`, `pc_add`, `pc_sync`, `qf_sync_counters` |
| **bench_sketch: generators** `bench_update_gen.cc`, `bench_query_gen*.cc`, `cut.c` | trace files; true counts in a memcached server | write a log or a stream as a trace, cut a trace into chips |
| **bench_sketch: clients and scripts** `bench_client*.c`, `*.sh` | the same server; reference files | replay a trace, forward or back, and write down true counts |
| **hashing** `BOBHash`, `util.c` | none | a hash of a key and a row |
| **deprecated** | earlier versions of the sketches | – |

How they interact: a script of `bench_sketch` has a generator write a trace of
insertions and deletions and a file of queries, starts memcached anew, and has a
client replay the files, which leaves the reference counts; `main.c` of a
program reads the same files, calls its sketch once per request and writes
answers, which are compared with the reference. The only threads are those that
may use the quotient filter together: they share its slots under region locks,
and its element counts through the partitioned counters.

Three versions of sfsketch are selected at compile time. `SF_FINAL` updates the
fat array only and composes the slim array from it on demand. `SF_V2` keeps the
slim array up to date with every insertion and deletion. `SF_V1` gives the slim
array hash functions of its own and does not delete. The committed
`sketch_config.h` defines both `SF_V1` and `SF_FINAL`, and the `#error` of line
94 then refuses to build: one must be chosen first. The models cover the three.

Where it is hard, and what makes each part correct:

- **Counters that saturate, buckets that overlap.** Several keys share a fat
  counter, several fat counters share a slim one, and both are cut at `max_c`.
  The slim array is a lossy summary, maintained incrementally, with deletions,
  from local information. Correct: answers never fall below the true counts
  (as long as nothing was deleted after a cut), slim counters never exceed the
  maximum of their bucket, the asserts of `inc_l` and `dec_l` hold.
- **Staleness.** Under `SF_FINAL` the slim array lags behind the fat one.
  Correct: it is what it was at the last composition; the driver composes before
  every set of answers.
- **Bits, lanes and layout.** A packed counter may lie across two words; the vector
  path reads and writes groups of four slim counters through swapped 32-bit halves
  and stores past short rows. Correct: writing one counter changes no other; the
  vector path is the portable loop.
- **Off-by-ones of replays.** Chunks, reverse order, a signed index compared with
  a `size_t`. Correct: only requests of the trace are touched, every query is
  answered in every file, every file pairs with its mirror, the run ends.
- **Runs that shift.** An insertion into the quotient filter moves the remainders of
  later buckets, and a removal moves them back, across blocks; counters are coded
  in the same slots as remainders. Correct: counts are what the replies promised,
  offsets and run ends say where runs are, an iteration meets everything once.
- **Interleavings.** Threads between two atomic operations hold amounts that are in
  no counter; a shift passes the end of a region. Correct: nothing is lost, reads
  are late by a bounded amount, no thread moves what another stores, locks end
  with their call, and nobody waits for ever.
- **Keys that move.** The filter of asketch exchanges keys with the sketch behind
  it. Correct: no count is lost or held twice.
- **References.** Generators and clients share one server, deltas are cut to a
  byte, traces are cut into chips and completed in rounds. Correct: a reference
  file has the net count of its point of the trace.

`PROJECT.json` lists every component (also the ones not modelled) and every
hazard at its line.

## 2. The modules

### Shared

- `Counters`: addition cut at the maximum, subtraction cut at zero
  (`sketch.c`, the two forms of every update), least and largest value, totals.
- `FrequencyEstimator`: the abstract specification of a sketch: no rows, hashes
  or counters, only an estimate per key that covers the key's count, does not
  fall on an insertion, does not rise on a deletion, and moves by at most the
  amount. `SFV1` and `SFV2` are checked to implement it
  (`Estimator == INSTANCE FrequencyEstimator WITH estimate <- ...`).

### sfsketch

- `SFFinal`: `fat`, `slim` and `querySketch` are `sketch.right`, `sketch.left`
  and the switch; `Inc`, `Dec`, `ComposeSlim`, `SetQuerySlim`, `SetQueryFat` are
  the exported functions. `inserted`, `deleted`, `composed`, `fresh` are history.
- `SFV2`: `Inc` is `inc_r` followed by `inc_l` with its early return; `Dec` is
  `dec_r` followed by `dec_l`. The variable `maxArray`, fixed in `Init`, is the
  macro `SF_SET_MAX_COUNTERS_ARRAY`. An assert that fails sets `aborted`.
- `SFV1`: `Inc` is `inc_r` followed by `inc_l` with its own hash values.
- `PackedCounters`: `GetCptC`, `SetCptC` and an update through them on a row of
  bits, next to a history variable holding plain counters. Word and `int` width are
  constants (`~0 << lgap` is an `int` shift, of which `KeepMasks` has the outcomes).
- `ComposeSSE`: one `StoreGroup` step per iteration of the group loop of
  `compose_slim`, on a memory with cells past the array, next to the portable
  definition. The eight vector maxima are one maximum over a bucket.

### The other sketches

- `CMSketch`, `CMCUSketch`, `CMLSketch`, `CSketch`: the counter arrays and their
  updates. The random decision of the Count-Min-Log sketch is a free choice.
- `InsertComparison` feeds one insert-only trace to `SFV1`, Count-Min,
  conservative update and Count-Min-Log; `UpdateComparison` one trace with
  deletions to `SFV2`, Count-Min and Count. They relate the sketches counter by
  counter, the comparison the repository's experiments make on averages.
- `ASketch`: `Insert` has three cases: the key is in the filter, there is a free
  slot, or it goes to the sketch and may drive the smallest key out, which
  writes back what that key gained since it entered.

### The drivers

- `DriverLoops`: what the drivers and the clients share. `main()` is a list of
  *stages* that its options determine: load a trace, run a loop over it, or call
  the sketch. It has the loops themselves: `requests_exec`, the throughput loop,
  the two loops of the deletion, and `requests_exec_r` with its chunks forward
  and back. The index is compared the way C does it: a negative one is a large
  `size_t`. A file is its header's number and its records, which may differ; a
  header that ends early has no number (`NoNumber`), and `requests_init()`, which only
  reports that, goes on with the number of the file before (`NumberOf`), where
  `requests_init_r()` has cleared it. `exited` says that `exit()` was called: for a file that cannot be
  loaded (`CannotLoad`), or, with status 0, after a loop or a composition whose time cannot be written
  down (`TimingFails`). `Queries` are the records of a query file that `queryfqs()` answers.
- `SFDriver` (`SF_FINAL` and `SF_V2`), `CMDriver`, `CDriver`, `CMCUDriver`,
  `CMLDriver`, `CQFDriver`: the stages of each program, and what a request does,
  through an INSTANCE of its sketch, so that each step of a loop is the sketch's
  own action. `CQFDriver` is over a counted multiset, which the quotient filter is
  shown to implement.
- `Programs`: one of the seven with one set of options over one set of files.

### The quotient filter

- `QFSlots`: a filter is a record of its slots, its `occupieds` and `runends` as sets, and
  its offsets; `RunEnd`, the search for free slots, the shifts of an
  insertion and of a removal with what they do to run ends and offsets, and
  `EncodeCounter` / `DecodeCounter`.
- `QFOperations`: `insert1`, `insert`, `_remove`, queries and iterators on the slots. An
  operation gives the new slots, the return code and its calls of
  `modify_metadata` in order.
  It also has the exported functions: `qf_insert` with its refusal, resize and retry,
  `qf_set_count`, `qf_remove`, `qf_delete_key_value`, `qf_reset`,
  `qf_resize_malloc`, merge, multi-merge, intersect, inner product.
- `QuotientFilter`: one caller making any sequence of calls. Three variables are
  history. `promised` is what the replies said so far. `miscounted` becomes true when a reset leaves
  something in a local counter or more is removed than there is, and false with the new
  counters of a resized filter. `astray` becomes true with a removal made while a run reaches further
  past a block than the offset of the block can say; what the filter does after it is not followed.
- `CountedMultiset`: the abstract specification, a count per hash which a call
  changes for its own hash only (`Multiset == INSTANCE CountedMultiset`).
- `PartitionedCounter`: every `__atomic` operation or exchange of `pc_add` and
  `pc_sync` is a step, so `Add`, `Take` (the exchange), `Give`
  (the addition to the global counter) interleave between threads. The processor
  a thread runs on is a free choice at every call.
- `LockedFilter`: threads inside one filter, composed with an INSTANCE of
  `PartitionedCounter`: a step is one lock, one atomic operation of the counter, the
  look at the slots (`plan`) or the store of what was decided then. A slot
  holds the bucket of its item, all that shifting depends on. A call takes one,
  two or three regions, from the lowest up; it waits for a lock, or gives up, as
  `QF_TRY_ONCE_LOCK` does. A shift is written as the function from slots to
  items that it stores: an insertion of `n` items raises those before the first
  empty slot by `n` and those between the two empty slots by one. A lock whose call has
  returned without giving it back is `Left`: its word stays set for every later call.
  A thread may also call `qf_sync_counters()` before it reads a counter (`SyncCounters`,
  `Synced`). Freeing a filter collects no counter: `qf_destroy()` calls neither `pc_sync()` nor
  `pc_destructor()`, and nobody else does.

### bench_sketch

- `TraceGenerators`: memcached (external), `memc_init_inc`, `memc_inc`, `memc_dec` as the
  programs use it: a key that is missing gets an initial value, a value stops at zero;
  `bench_query_gen`, `bench_update_gen` with its choices and the
  loop of rounds for uniform traces, `bench_query_gen4Real`, `cut`. The macros of
  `bench_config.h` are fields of `workload`.
- `Experiment`: the scripts as lists of stages, from the log to the reference files, and
  the clients `bench_client`, `bench_client_r`, `bench_client4Real` on the loops of
  `DriverLoops`. A client that cannot load exits, and the script goes on.

### Proofs

| Module | About |
|---|---|
| `CountersProofs` | lemmas on minima, maxima, totals and sums |
| `LayoutProofs` | `ComposeSSE`, and `PackedCounters` as `MCLayout` has it |
| `SFFinalProofs` | `SFFinal` |
| `InsertComparisonProofs` | `SFV1`, that it implements `FrequencyEstimator`, and the four sketches beside each other |
| `UpdateComparisonProofs` | `SFV2`, that it implements `FrequencyEstimator`, and Count-Min and Count beside it |
| `ASketchProofs` | `ASketch` |
| `ProgramsProofs` | the loops of `DriverLoops` in the plans of all drivers, and what the files hold (`Programs`) |
| `LockedFilterProofs` | `PartitionedCounter` inside `LockedFilter`, the locks and the slots |

## 3. The runs

| Run | Instance | Question |
|---|---|---|
| `sf_final` | 2 rows, 2 buckets of 2 columns, 3 keys, `max_c` 3, deltas 0..2, a key given at most 2 of each kind | Do fat and slim counters hold what they should in any order of updates, compositions and switches? |
| `sf_final_dec` (violation) | the same | Does `dec` never raise an answer? |
| `update_comparison` | 3 rows, 2 buckets of 2, 3 keys, `max_c` 4, deltas 1 and 2, at most 3 of a key | Does `SF_V2` keep its promises, with either setting of the macro, and how does it relate to Count-Min and Count? |
| `insert_comparison` | 2 rows, 2 slim and 3 fat columns, 3 keys, `max_c` 7, logarithms cut at 3, deltas 0..3, at most 5 of a key | Does `SF_V1` keep its promises, and how do four insert-only sketches rank? |
| `layout` | buckets of 2 in 3 rows of 4 to 7; 4 counters of 3 bits in 8-bit words, 4-bit ints | Is the vector path the portable loop, and a packed row a row of independent counters? |
| `asketch` | 4 keys, 2 slots, 2 rows of 2 counters up to 3, at most 5 of a key | Do keys that move between filter and sketch keep their counts? |
| `cqf` | 4 slots of 3 bits in blocks of 2, 12 slots behind them, hashes 0, 3 and 15, amounts 1, 4 and 9, offsets up to 3 | Do counts, offsets, iterations, counters and the operations on two filters stay right in any sequence of calls? |
| `cqf_saturated` (violation) | the same | Does every hash have the count the replies say in *every* state, also after a removal made while an offset is too small for its run? |
| `cqf_locks` | 2 threads, 9 slots in 3 regions, `CLUSTER_SIZE` 1, 2 local counters, threshold 1, 3 calls: insertions of 1 or 2 items, removals, synchronisations | Are items and counts kept where regions meet, and does every call return its locks and end? |
| `cqf_lock_leak` (violation) | the same, with removals of what is absent | Does no lock outlive its call? |
| `programs` | 2 keys, every valid trace of up to 3 updates, 2 queries, or 2 with an update between, a subfile or none, headers with more or fewer records than there are or no number, `-s` 0 or 1, `-r` 1 or 2, every sensible set of options | Do the drivers touch only what is in the trace, answer every query unless they exit, with a value that covers the count, mirror themselves and end? |
| `experiment` | logs of 2 to 5 operations on 1 or 2 records, bytes of 4 values, 2 rounds, intervals 1 and 2, 2 chips, the builds of `bench_config.h` | Has every reference file the net counts of its point of the trace? |

**Why the bounds are enough.** In the sketches the hash values are chosen so that,
in a few keys, all the relations two keys may have occur: the same column, the same
bucket but not the same column, and nothing in common; and no pair is
related in the same way in every row. Two rows suffice for a minimum to differ from
either counter, three for a median. The limits on a key let the counter of a
shared column reach its maximum and be cut, at different amounts by different
orders, and deletions follow. `K = 16` of the code becomes 2, which still has a
first and a last column in a bucket. Packed counters of 3 bits in words of 8
lie inside a word, end at its last bit, and lie across two words with either part
shorter. Rows of 4 to 7 are the four residues modulo the group of four.

In `cqf` two hashes share a bucket, one of them with remainder 0, whose counters are
coded in another way; the third is in the last bucket. Amounts of 4 and 9 give counters of
every form (one, two and three copies, a digit, a carry into a second digit), and
their runs shift over blocks of two, past offsets of up to 3, which saturate; the
fourth slot makes the limit of 95 % refuse, so that resizes with and without retry
happen. In `cqf_locks` the buckets 1, 2 and 3 lie in the middle, at the end and at
the start of a region, so one region, two or three are locked, and two items shift
across a boundary; `NUM_SLOTS_TO_LOCK` and `CLUSTER_SIZE`
keep their order (the code has 65536 and 16384). Two threads and two local counters give
a thread that collects what another has added while it synchronises. In `programs`,
traces of up to 3 with intervals 1 and 2 give full chunks, a short last chunk, a
single short chunk and an empty trace. In `experiment`, deltas reach 4, which a byte
of 4 values cuts; chips end before, at and after the end of the trace. Where threads
differ only in name the run has few of them, and keys differ in their hashes,
so no run declares a symmetry.

`CHECK_DEADLOCK FALSE` is given only for `asketch`, whose trace may end and whose
limit stops it. Everywhere else a finished run stutters explicitly (`Ends`,
`Stopped`), or an operation is always possible, so a thread that waits for a lock
for ever is reported too.

**What they show.** All properties of the passing runs hold. Those most worth
reading:

- `SFV2!OneSided`, `FatIsExactLoad`: one-sidedness survives any order of
  insertions and deletions, and ends only with the first deletion after a cut,
  which the variables `cut` and `lossy` say exactly.
- `SFV2!ImplementsEstimator`: one update of `SF_V2` moves *no* answer, of any key,
  by more than its delta, and none in the wrong direction, although it touches
  counters shared with other keys.
- `SlimWithinCM`: with rows of as many columns as buckets, the slim array of
  `SF_V2` is within a Count-Min sketch of its own size; `CountersOrdered`: that of
  `SF_V1` and Count-Min-Log are within conservative update, which is within Count-Min.
- `CountsAsPromised`, `ImplementsMultiset`: however runs are shifted, counters grow and
  shrink by a digit and the filter is resized in the middle of an insertion, every
  other hash keeps its count.
- `IterationComplete`: a resize and a merge copy by iterating, so an entry met twice or
  missed would be a wrong count. It also says which entries an iterator that starts at a hash
  meets (`StartsAt`), which are not always those the header promises (see below).
- `CountersAccount`: number of elements, of distinct ones and of slots in use agree with the slots
  through carries, shifts and resizes, until a reset leaves something in a local counter or more is removed than there was.
- `ItemsKept`, `EveryCallReturns`: looking and storing are separate steps, and two threads
  still never shift each other's slots, because the next region is locked too from
  `CLUSTER_SIZE` before the end of one on; and the order of the locks lets every
  call return.
- `FullIsRefused`: threads that read the fullness together may pass the limit, but
  only by what was added since their sweep began and what others hold in their hands.
- `SyncCatchesUp`, `IdleErrorBounded`: what a read of the partitioned counter may
  miss, and that `pc_sync` bounds it although it visits the counters one by one.
- `AnswersCover`: in every output file, of any program with a one-sided sketch and any run but a reverse
  run of SF_FINAL (`NeverComposes`), until a counter is cut before a deletion or the filter refuses an insertion.
- `OutputsComplete`, `FilesMirror`: the updates of a file run into the output that the
  answers replace, and a reverse run returns to earlier *counters*, not only counts.
- `ReferenceExact`: the reference is exact even where a delta was cut to a byte: only
  deletions are that large, so the generator then counts less than the trace holds,
  and no later deletion asks for more than is left. memcached, which stops at zero,
  never has to.
- `NothingLost`, `WithinCountMin` of `ASketch`: a key that enters, leaves and
  enters the filter again is counted once, and its answer is never worse than the
  sketch alone would give, while no counter has reached its limit.

**The three disagreements** between the code and what it says of itself:

1. `dec_r_only` (`sfsketch/sketch.c:378`) adds `delta`, like `inc_r_only`. Under
   `SF_FINAL`, `dec` ("decrease by one", `sketch.h:92`) raises answers. `SFFinal`
   models what the code does; `inserted + deleted` is then the load.
2. A removal (`cqfilter/gqf.c:1011`) compares the offset of the next block, a byte, with the
   whole distance a run reaches, and stores that distance cut to a byte. An insertion stops
   at the limit instead, and `run_end()` relies on that. With a run that reaches further, a removal leaves
   offsets that are wrong, and `qf_count_key_value()`, which returns "the number of times key has been
   inserted" (`gqf.h:200`), answers a wrong count for another key. In the trace of
   `cqf_saturated` the limit is 3 instead of 255, so that four slots past a block are enough.
3. `_remove` (`cqfilter/gqf.c:1576`) returns for an item that is absent without giving its
   locks back, and so do `insert1` and `insert` when no slot is free; `gqf.h:52` says that only
   the portion being examined or modified is locked. The next call that waits
   for one of these regions spins for ever.

**Seen while modelling, without a run of their own:**

- `set_cpt_c` (`sketch.c:192`) masks the lower word with `~0 << lgap`, an `int` shift. `main.c:497`
  accepts counters of up to 63 bits, but beyond 32 the shift can reach the width of `int`, and the
  mask then keeps bits of the counter's own old value, so a counter that lies across two words cannot
  be lowered reliably; its neighbours keep theirs. (With counters of 5 bits and an int of 4,
  `PackedCounters` has counter 4 read 15 after 8 was added and 1 taken away.)
- An iterator asked for a hash (`gqf.c:2384`) looks for the next run from the first bucket of the
  *block*, so it may start before the hash, where `gqf.h:262` promises the smallest hash
  "greater than or equal to the specified" one. Nothing from the hash on is missed.
- `qf_reset` (`gqf.c:1809`) leaves the local counters as they are, so an empty filter
  may count elements, and refuse one, although `gqf.h:303` says "Reset the CQF to an
  empty filter". `CountersAccount` is stated up to such a reset (`miscounted`).
- The functions of the drivers that take a time (`sfsketch/main.c:233`, `290`, `347`, `517`, and the
  like of the other programs) call `exit(0)` when they cannot open the file for it: a driver may end
  with status 0 and queries unanswered.
- A reverse run of `SF_FINAL` never composes the slim array (`main.c:465`) and answers 0 in all its files.
- `assert(new_value < current_remainder)` (`gqf.c:1365`) fails where the first digit of
  a counter of a remainder of at most 2 overflows.
- `insert` (`gqf.c:1468`) ignores the result of its call for the items after the first;
  `gqf_insert` (`gqf_wrapper.h:32`) ignores a refusal; `cqfilter/main.c` inserts for
  a deletion. Queries of the filter take no lock.
- `cut` keeps the types of the records unless `-t` is given, although its usage names
  decrease as the default, so `experiment_uniform_dec.sh` inserts its chips again.
- `ycsb_workload_gen.sh` does not check the first round of a uniform trace; a uniform
  trace whose operations the records do not divide cannot be loaded. A client
  that fails to load goes unnoticed, and the reference is zero everywhere.

**Fairness.** `programs` assumes `WF_vars(Next)`: a driver is one sequential process
whose next step is always the next statement, so weak fairness says only that it keeps
running. `cqf_locks` assumes `WF_vars(Step(t))` for each thread: a thread
that can go on, goes on. A lock is a spin lock that gives no thread a turn;
weak fairness is enough because calls are finitely many, so that a lock wanted is
free for good in the end. The sketches, the filter of one caller and the experiments promise
nothing about when they are called, and no fairness is assumed for them.

## 4. What is proved

The theorems hold for every number of rows, columns, keys, threads, regions and
counters, every width of counter, every hash function and every set of deltas,
under the named assumptions of the modules: sizes are positive
(`SizesAssumption`), hash values are naturals (`HashAssumption`), deltas are
within the maximum (`DeltaAssumption`, what the code needs for `max_c - delta`
not to wrap), keys are finitely many (`KeysAssumption`, so that a total exists),
signs are -1 or 1 and deltas within `maxNum` (`SignAssumption`), the cut
logarithm is between 1 and the maximum (`CapAssumption`), `MAX_CNT` is below the
first estimate (`ASketchAssumption`), and `CLUSTER_SIZE` is less than half of
`NUM_SLOTS_TO_LOCK` (`LockedAssumption`; the code has 2^14 and 2^16), a bucket has an even number of columns
(`ComposeSSE`), a packed counter fits a word (`WidthAssumption`), and a file's header holds a `size_t` and an
interval of `-r` one operation or more (`OptionsAssumption`). `Programs` assumes of the
sketch that each program builds what that sketch's own module assumes (`SketchAssumption`), and
that a request is of a key with a delta that a counter can hold (`RecordsAssumption`). Three
theorems have hypotheses of their own, named below: `Returned` two, `OutputsCover` two and
`FilesMirrored` one. None depends on `Limit`, `MaxOps` or another
bound of the model.

**Totals and sums (`CountersProofs`).** A total over keys is the cardinality of a
set of tokens, so that adding to a key is adding disjoint tokens, without
induction. A sum of integers is the total of what is above zero less that of what
is below (`Balance`). The community modules' fold, with which the runs
compute sums, is the same (`SumIsBalance`): otherwise there is a least set on which
they differ, and taking one element from it gives a smaller one.

**`LayoutProofs`**: `VectorPath` (`FastEqualsPortable`) and `PackedRow` (`PackedIsPlain`).
For the vector path the invariant is that a group begins at a multiple of four (`LoopType`) and
that all before it is composed (`Composing`). `LaneReads`: the halves of a bucket are
those of the portable loop with neighbours exchanged, so their maximum is the same;
`GroupStores`: a group writes its own four counters and, past the end of its row,
only what the next row writes later. `PackedRow` assumes that a counter is no wider than an
int, without which it is false (see above), and that deltas are within `max_c`.
It has three parts. *Numbers*: `LowBitsValue`, the powers of the bits of `n` below `k` add
up to `n % 2^k`, by taking the least `k` for which they do not; that a power doubles with
its exponent comes from counting subsets (`PowerDoubles`), for TLAPS
knows nothing of `^`. *Places*: each bit of each counter has one word and one position
(`Places`), and no two have the same (`PlacesApart`), since word and position make up the
distance from the start of the row. *Access*: `GetReads` and `SetWrites` say that
`get_cpt_c` reads and `set_cpt_c` writes the places of the counter and no others, in one word or
across two, and `SetThenGet` puts them together.

**`SFFinalProofs`**: `TypeCorrect`, `FatExact`, `SlimExact`, `FatCovers`,
`SlimCovers`, `FreshSlimCoversFat`. The inductive invariant is

    IInv == TypeOK /\ FatIsExactLoad /\ SlimIsSnapshot /\ FreshIsComposed

One-sidedness is not inductive, since it says nothing of counters a key does
not use; that every fat counter *is* the saturated total of its column's keys is.
Saturated addition of a delta to a saturated total is the saturated total with the
delta (`SatAdd`), so each update preserves it. The slim array is related to the
history `composed`, which `ComposeSlim` sets to the present counts, and
`FreshIsComposed` says that nothing was added since while `fresh` holds. An
answer then covers a count because the total of a column covers each of its
keys (`TotalCovers`) and a minimum of such counters does too.

**`UpdateComparisonProofs`, of `SFV2`**: `TypeCorrect`, `AssertsHold`, `SlimBounded`, `SlimComposed`,
`FatExact`, `AnswersCover`, `Implementation`. The argument has two layers:

    SInv == TypeOK /\ NoAssertFails /\ SlimWithinBucket /\ SlimIsBucketMax
    IInv == SInv /\ UncutIsExact /\ FatIsExactLoad /\ Covered

`SInv` speaks of the arrays only. The asserts of `inc_l` and `dec_l` need that no
slim counter exceeds its bucket's maximum, and that needs them in turn: an
insertion raises a slim counter at most to a fat counter of its bucket, and a
deletion cuts the slim counters of the key down to the new maximum. `IInv` adds
the counts: while nothing was cut, fat counters are plain totals
(`UncutIsExact`); until a deletion follows a cut, saturated totals
(`FatIsExactLoad`); and each *slim* counter of a key covers the key's count
(`Covered`), which is one-sidedness counter by counter. It is preserved because the
early return and the conservative raise of `inc_l` compare with a fat estimate
that covers the count, and `dec_l` never goes below the bucket's maximum, which
covers every other key of the bucket. `Implementation` is the refinement: the
initial estimates are zero, and each `Inc` and `Dec` is an `Insert` and `Delete`
of `FrequencyEstimator`, or a step after it has nothing to promise any more.

**`InsertComparisonProofs`**: `TypeCorrect`, `AnswersCover`, `SlimBacked`,
`Implementation` for `SFV1`, from

    IInv == TypeOK /\ FatCovers /\ SlimCovers /\ SlimBackedByFat

Here the slim array has hash functions of its own, and no bucket relates it to the
fat one: `OneSided` needs that every fat counter of a key covers its count, because
`inc_l` raises slim counters only up to the fat estimate. `Ordered` and
`AnswersInOrder` are about the four sketches on one trace (`CInv`: the types and
`CountersOrdered`, which is inductive by itself, since a conservative update looks at
the minimum of counters that are in order). `CompareRunsSFV1` says that what was
proved of `SFV1` is true of it there.

**`UpdateComparisonProofs`, of the comparison**: `Within` (`SlimWithinCM`), from

    CMInv == IInv /\ CutLater /\ CMUncut /\ CMLoads

with the invariant of `SFV2` above and, of the Count-Min sketch, that its counters are
the totals of their buckets cut at the maximum. `CutLater` is what relates
the two: a bucket fills no later than a column in it, so a fat array that has lost a
deletion has a Count-Min sketch that has lost one. `SignedSum` and `SignedBounded` are
about the Count sketch, whose counters are differences of two totals.

**`ASketchProofs`**: `TypeCorrect`, `Lossless` (`NothingLost`), `AnswersCover`
(`OneSided`), `Within` (`WithinCountMin`). Nothing of these is inductive alone. The
invariant says besides that no key is in two slots (`Injective`), that a key's old count
is within its new one, that while a slot is free a key outside the filter
was never seen (otherwise it would enter with its counts in the sketch
forgotten), that what is pending of a key is part of its count, and, key by
key, that the sketch covers what is not pending and the filter what it holds.

**`ProgramsProofs`**: `RequestsInRange` (`IndexInRange`), `OutputsAnswered`, `OutputsCover` and
`FilesMirrored`, for any files, whether or not their headers are right, and any number of subfiles. `ControlNext` is what a driver does when its
sketch is left aside; the step of every driver is one of it (`SfsketchSteps` and the like). The
invariant of the first (`IndexInv`) says

- of the rest of a plan (`PlanFits`): a reverse run is the last stage of it; whatever queries or
  deletes with `-T` finds in `requests` the trace that `-s` is within (`OverTrace`), now or
  after the loads before it; and no deletion follows a load at once, for its start is computed
  from the trace at hand. This is closed under taking the first stage away (`StageDone`), and every
  plan of every driver has it (`PlansFit`, from `Forwards` and `WithReverse`;
  `SubfilesJoined` for the subfiles, by least index).
- of the loops (`LoopsFit`): a deletion whose index is below `num_requests - n_startt` is in its
  second loop. `FirstPartEnds` is why: as long as the index is not negative, the
  comparison of it with a `size_t` is the one meant, so the first loop stops before -1 would be a
  large number.
- of the reverse run (`ChunksFit`): on the way forward the index is at whole intervals
  until the last chunk, whose length is in `ops` when the way back begins; so the first chunk
  undone ends at whole intervals again, and the last one at -1.

TLC checks this formula, with a bound on the number of intervals, on the instance of `programs`.

`OutputsAnswered` (`OutputsComplete`) needs no assumption on the files: where a query file holds
something else, `Queries` are the records that are answered (`queryfqs()` tests the type, and
`requests_exec()` writes a line for a query only). It says nothing of a driver that has called `exit()`.
Its invariant, `OutputsInv`, says what is promised at each point of a run:

- While `requests_exec()` has the queries at hand (`Querying`), its output answers those before the
  index (`Answering`). That one more record adds an answer if it is a query, and none
  otherwise, is `QueriesStep`, from `PicksAgree`, by least index.
- Without `-r` (`ForwardDue`), each output the program was run for answers all queries already or will
  be run again. A run of updates into an output is never its last: each run of the rest of the
  plan has the queries loaded before it, with no other load between, or another run into the same file
  after it (`LastOverQueries`). Every plan has this from the beginning (`AnswersIn`), which `Joined` carries
  through the concatenations of `main()` and `SubfilesDo` through the subfiles.
- With `-r` (`ReverseDue`), how `count` (`chunk`) goes with the index: on the way forward the `n`-th
  chunk ends `ops` after `n - 1` whole intervals (`ChunkEnds`), so at the turn `count`
  is the number of chunks, rounded up (`ChunksCounted`); on the way back it is decremented to 0 exactly when the
  index reaches -1. The files up to it forward, or from it on back, answer the queries.

TLC checks `OutputsInv` on the instance of `programs` as well.

`OutputsCover` (`AnswersCover`) is about what those answers are, so it needs the sketches.
The theorems about each sketch are reused: `FinalP` and `V2P` instantiate `SFFinalProofs` and
`UpdateComparisonProofs` over the variables of `Programs`, and `SameFinal` and `SameV2` show that
a step of the sketch inside a driver is one of the sketch on its own. The invariant `CoverInv` has three parts:

- `SketchInv`: the invariant of the sketch that runs. For SF_FINAL and SF_V2 it is their `IInv`;
  for Count-Min, that its counters are saturated totals until something is lost (`CMInv`); for the
  conservative update and for the filter, that they cover the counts (`CUInv`, `CQInv`).
- `ComposedInv`: with SF_FINAL a query reads the slim array, so its answer covers a
  count only if the array was composed after the last insertion. The invariant says of each run of
  `requests_exec()` in the rest of a plan that it has updates loaded, and so asks nothing, or
  queries, with `compose_slim()` and `set_query_sketch()` between them and the last update.
  It is a statement about plans, carried from the plan of `main()` (`PlanComposed`) through the stages.
- `OutsInv`: the lines written so far, in all output files, cover the counts noted with them, and
  stay as they are. A file of `requests_exec()` grows by a line, and a file of a reverse run is
  written in one step, with one answer of the sketch for each query.

`AroundInv` is what these three need of the driver: `IndexInv`, that a program without `-r` is never in
a reverse run, so that SF_FINAL writes such files only where `AnswersCover` does not speak of them, and that the
queries at hand are records of a file (`QuerysKnown`), so of keys the sketch has.

The theorem assumes `QueriesOnly` and `UpdatesOnly`: a file named `query` holds only queries
(`bench_query_gen.cc:51`, `bench_client4Real.c:240`) and a file named `inc-dec_up` none
(`bench_update_gen.cc:316`, `326`, `344`). Without them SF_FINAL would answer a query in the middle of a
trace, or one after an update in a query file, from a slim array that is out of date. No other program needs
them. The query file with an update in `programs` is outside them: it does not ask again for what it updates.

`FilesMirrored` (`FilesMirror`) is about `-r`. It assumes `DeletesWhatIsThere`: a trace has
a count of every key after each of its requests, none of them negative, because the generator asks memcached
for the count before it writes a decrement (`bench_update_gen.cc:345`-`361`). `net[i]` is the
count after `i` requests. The invariant `MirrorInv` says

- that without `-r` no such file is written (`OnwardInv`), and with it which stages are left (`PlanInv`);
- that the counts now are `net[Position]`, where `Position` is how many requests are done and not undone
  (`CountsInv`). `NetSteps` is the step: a request takes the counts from `net[i]` to `net[i + 1]` and its
  opposite takes them back;
- that the array which answers is a function of those counts until an addition is cut (`Fit`;
  `Contents`: totals for SF_V2 and Count-Min, differences of totals for the Count sketch, so
  the order of the additions leaves no trace in it). `V2Reverses`, `CMReverses` and `CSReverses` show that each step keeps this;
- that `X_k.out` was written at `Position = Boundary(k)`, the end of chunk `k`, and `X_r_k.out` at
  `k * interval`, which is the same unless the chunk is the last and shorter (`FilesFit`). For
  this `ForwardAt` and the like of `OutputsInv` place the index within the chunks, and `ChunkWithin` says that
  the file of the way forward is there.

Then two files of the same number were written from the same counts. TLC checks `CoverInv` and
`MirrorInv`, with `net` computed and a bound on the number of chunks, on the instance of `programs`, and that its files
satisfy the three hypotheses, but for the query file with an update in it and `QueriesOnly`.

**`LockedFilterProofs`**: `Lossless` (`NothingLost`), `CatchesUp`
(`SyncCatchesUp`), `Kept` (`ItemsKept`), `IdleError` (`IdleErrorBounded` while no
stretch was too long; beyond that, slots and counter may differ) and `Refused`
(`FullIsRefused`, an action property: `SweepCatchesUp` says what the swept counter may
miss, `InUseIsAdded` that it counts the slots) and `Returned` (`LocksReturned`, see below), all
from `Invariant`, whose parts are

- `CounterInv`: the global counter, the local ones and the hands add up
  (`Conserved`); the local counters that a thread in `pc_sync()` has been at hold, by size,
  at most what was added since it began (`SweptIsLate`); a counter beyond the threshold has a
  thread about to collect it (`FarIsCollected`).
- `CallInv`: for each thread, its stage, its arguments, its place in the counter and its
  locks agree; who looks or stores has all of its call's locks, so that two
  such threads have no region in common (`Apart`).
- `SlotInv`: items stand in order and none apart from its home (`InOrder`), they are as many as
  was stored (`Counted`), and what a thread has *planned* still fits the slots as they
  are now and lies in its regions (`Fits`).

That `Fits` is inductive is the point of the locks. `InsertFits` and `RemoveFits`
show that what a call finds lies within its regions: there is an empty slot within
`CLUSTER_SIZE`, and `RegionSpan` does the arithmetic of regions; `StoresWell`, from
`RaiseOrder`, `RaiseCount`, `LowerOrder` and `LowerCount`, that storing it keeps the
order and changes the number of one bucket's items only, by matching
old slots with new ones; `FitsStays` and `Apart`, that it leaves the plans of the
others alone. TLC checks `Invariant`'s formula on the instances of both runs as well.

A call keeps its locks when it finds nothing to remove or no slot to use (`gqf.c:1576`, `1378`),
which `cqf_lock_leak` shows it can. `Returned` says when it cannot, in every state without too
long a stretch (`~crowded`) and under two assumptions. The first is that a removal is called only
for what is there (`~AbsentToo`), as `promised` has it before the call. The second,
`RoomPastBuckets`, is that `2 * CLUSTER_SIZE + 1` slots follow each bucket. The code leaves
`10 * sqrt(nslots)` after the last one (`gqf.c:1633`): enough for all buckets from about
2^24 slots on, and in a smaller filter for those that far from its end. `ReturnInv` adds to
`Invariant` that the items of a bucket are at least those promised to later calls and those
being removed now (`PromisesCovered`). So a removal that looks
finds one of its items (`LookFinds`, counting with `ItemsKept`'s `Counted`), and an insertion,
without a long stretch, has an empty slot within `CLUSTER_SIZE` of its home (`RoomFound`). TLC
checks `ReturnInv` on the instance of `cqf_locks`.

**Only model-checked:**

- Liveness under fairness: `Terminates`, `EveryCallReturns`. TLAPS 1.4.5 proves no
  leads-to from fairness here.
- `QuotientFilter`, its refinement `ImplementsMultiset` and its properties: shifts, digits
  and iterations are recursive functions over the length of runs, each of which would need
  an argument by least counterexample of its own.
- The two properties of `Experiment`, `ReferenceExact` and `UniformTraceLoads`: what a generator
  leaves in a trace is compared with counts folded over it, by recursion over its length.

## 5. What is not modelled, and limits of what is

- **Hash functions**: every module takes hash values as a constant.
- **Filters in files** (`gqf_file.c`): no program of the repository calls it.
  **`data4hash*`, `city.c`**: they write hash values of keys, without state or protocol.
  **`deprecated/`**: superseded, and no makefile outside it builds it.
- **Deltas above `max_c`** make `max_c - delta` wrap (`sketch.c:253`, `280`, `295`) and
  the counter is then not cut. A trace holds one byte, so this needs counters
  of fewer than 8 bits. The models assume deltas within the maximum
  (`DeltaAssumption`), except `PackedCounters`, whose `Inc` computes the wrap but
  whose runs do not reach it.
- **Past the slim array**: with `WL % 4` equal to 1 or 2 the vector path stores past the last row
  (`sketch.c:475`), and what lies there is not modelled.
- **`-r 0`** (or anything `atoi` does not read) never advances (`main.c:446`); intervals
  here are positive. **`-r` with `SF_FINAL`** never composes the slim array
  (`main.c:465`) and answers 0; `FilesMirror` and `AnswersCover` speak of the other programs.
- **`-s` equal to the length of the trace** makes the lower bound of the deletion loop
  zero, which an index converted to `size_t` never falls below (`main.c:319`).
- **`cmcusketch` with 32-bit counters** computes `1 << 32` (`cmcusketch.cpp:12`).
- **`asketch` at its limits**: a key whose counters are all saturated enters the filter
  with the initial estimate `1 << 30`, and an eviction may carry a counter beyond
  `MAX_CNT`. Both are in the model; `WithinCountMin` is stated until a counter was
  left alone at its limit. The empty string, which marks free slots, is not used as a key.
- **Logarithms**: `CMLSketch` models the counter; the conversion to a count is floating point.
- **The quotient filter**: keys are hashes already and have no value bits; memory from
  `malloc` is zero, as the `memset` that is commented out (`gqf.c:1656`) would have made it; a resize with nothing to iterate over, or with too few bits for another
  halving, is left out (`beyond`). What a filter does after the removal that makes it `astray` is not followed,
  for the functions of `QFSlots` are for offsets that are right. Threads work over slots without remainders, wait for their
  locks (`QF_WAIT_FOR_LOCK`) and do not resize. A stretch of used slots longer than
  `CLUSTER_SIZE` passes the locks, which `ItemsKept` leaves out (`crowded`). `CQFDriver`
  has no slots, and a filter that may refuse from a number of hashes on.
- **Refused insertions** make answers fall below counts: `AnswersCover` leaves out those runs.
- **bench_sketch**: memcached evicts nothing and every call is answered. Not `bench_client -r`,
  the throughput option of `bench_client_r`, `-d` and `FC_V1` of `bench_update_gen`, which no
  script or header uses, nor `bench_query_gen4Real2`, the same loop with other columns as key.
  `MaxRounds` is 2 instead of 50. With `ZERO_DELTA` of one or more, `onlyOne` gives short traces.
- **Option parsing, timing, the layout of outputs, error statistics, allocation
  failures** are left out.

## 6. What comes next

No part that changes state is left without a model but for those named above; what
remains is to prove more. In this order:

1. The runs of the quotient filter, one recursive function at a time: that the digits of a counter
   written are those read back, then that a shift keeps the runs before and behind it.
2. `ReferenceExact`: the counts of memcached as an invariant of `Experiment` beside the trace.
