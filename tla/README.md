# mpmc_logger: specifications and proofs

TLA+ modules of the logging library in this repository: a lock-free broadcast
queue, a drain thread, a memory-mapped, rotating file sink, the tools that read
its files, the programs that drive the queue, and the older queue in shared
memory. TLC checks the modules on small instances; TLAPS proves the main safety
properties for every value of the constants.

## 1. The system

Paths are relative to `src/`; `…` stands for `include/mpmc_logger`.

| component | source | state | operations | modelled by |
|---|---|---|---|---|
| MPMCQueue | `…/mpmc_queue.hpp` | `head`, cached `min_tail`, `num_consumers`, per-consumer `tail`/`active`, per-slot `sequence`/data | `register_consumer`, `unregister_consumer`, `push`, `pop`, `recompute_and_store_min_tail` | `MpmcQueue`, abstractly `BroadcastQueue` |
| MMapSink | `src/mmap_sink.cpp` | descriptor, mapped region, two offsets, counters, the files on disk | constructor, `write` (new region, rotation), `flush`, destructor | `MMapSink` |
| Logger | `…/logger.hpp`, `src/logger.cpp` | owned queue and sink, drain thread, `initialized_`, `running_`, stop token, level | `init`, `set_level`, `push`, `drain_loop`, `shutdown` | `Logger` |
| Tools | `tools/*.cpp` | counts over one file | parse arguments, read, filter, print, count | `LogTools` |
| Formatter | `…/formatter.hpp`, `src/formatter.cpp` | its date formatter | `format` | `LogTools` |
| Timestamp | `…/timestamp.hpp`, `src/timestamp.cpp` | cached second and prefix | `CachedDateFormatter::format` | `LogTools` (clocks and TSC: not modelled) |
| LogEntry | `…/log_entry.hpp` | none | the fields, `level_to_string` | `LogTools` |
| Legacy queue | `mpmc_queue.hpp`, `mpmc.hpp`, `mpmc_2.hpp`, `original/` | as MPMCQueue, in a named segment | create, attach, detach; `reg_consumer`, `push`, `pop`, `del_consumer`, `recomputeAndStoreMinTail` | `ShmQueue` |
| Benchmarks | `bench/` | threads, flags, samples | the drivers of the queue | `Bench` |
| LoggerConfig, build | `…/config.hpp`, `CMakeLists.txt`, `Makefile` | none | none | constants; no |

How they interact. Any thread calls `Logger::push`, which calls
`MPMCQueue::push`. One drain thread pops, formats and calls `MMapSink::write`.
`shutdown` stops and joins the drain thread, then flushes and destroys sink and
queue in the calling thread. The only shared state between producers and the
drain thread is the queue; between the drain thread and `shutdown`, the stop
token and the join; between one process and the next, and between the logger
and the tools, the files. The legacy queue shares its segment, and the
segment's name, between processes.

What is hard, and the properties that answer it:

- **Queue.** `push` tests for room with a `head` and a `min_tail` read at
  different moments and claims by compare-exchange on `head` alone; `min_tail`
  is stored without a compare-exchange by whoever computed it. Must hold: no
  slot is touched by two threads at once, every consumer gets every entry in
  claim order, and a refusal is genuine.
- **Sink.** `write` is a chain of system calls, each of which may fail, in a
  process that may die between any two, and the failures of some are ignored.
  Must hold: no store outside a live mapping, records in order, only the oldest
  lost, sizes and numbers of files as configured.
- **Logger.** Queue and sink are taken away by one thread while others may use
  them. Must hold: nobody uses what is gone, and an entry whose push returned
  true reaches the sink.
- **Tools.** A file holds more than the records written: zeros at the end of
  each region, torn headers. Must hold: what is shown is what was logged, each
  line with its own date, and every record is found.
- **Legacy queue.** A name denotes one segment after another, a segment exists
  before the queue in it does and outlives its processes. Must hold: the
  queue's promises, on memory of the queue's own, for as long as it is used.
- **Benchmarks.** They are the only complete clients. Must hold: what is read is
  what was pushed, in order, and all of it before the joins return where the
  driver has a final drain or counts; every thread comes to its end.

The hazards, line by line, are in `PROJECT.json`.

## 2. Modules

| module | what it is | composed of |
|---|---|---|
| `MpmcQueue`, `MpmcQueueInv`, `MCMpmcQueue` | the queue; its inductive invariant and refinement mapping; instances | `BroadcastQueue` (mapping) |
| `BroadcastQueue` | what a queue promises | |
| `MMapSink`, `MCMMapSink` | the sink and its files; instances | `RecordLog` (mapping) |
| `RecordLog` | what a sink promises | |
| `Logger`, `MCLogger` | life of the logger; instances | `BroadcastQueue` |
| `LogTools`, `MCLogTools` | entries, formatter, tools over the files; instances | extends `MMapSink` |
| `ShmQueue`, `MCShmQueue` | the legacy queue and its segments; instances | |
| `Bench`, `MCBench` | the drivers; instances | `BroadcastQueue` |
| `MpmcQueueProofs`, `MpmcQueueRefinement`, `MpmcQueueFullProofs`, `MMapSinkProofs`, `LoggerProofs`, `ShmQueueProofs`, `LogToolsProofs`, `BenchProofs` | theorems | the module each is named after |

`MpmcQueue`. One action is one access to a shared atomic, or one copy of a
slot's data. The code's acquire/release pairs order these accesses, so
interleaving them gives the executions a build can have; the places where two
threads could touch plain data at once are exactly what `NoDataRace` forbids,
so no racing copy has to be given a meaning while it holds. `compute_min_tail`
reads `active` and `tail` of one consumer after the other (`ScanActive`,
`ScanTail`), and the result is used in a later step (`PushUseScan`,
`RefreshStore`). The four accumulators and the prefetches only regroup a
minimum and are left out. `compare_exchange_weak` may fail at any time
(`PushCasFail`). `LateJoiners` are the consumers allowed to register while
pushes run; with `LateJoiners = {}` consumers register first, as `Logger::init`
and every benchmark do (`Ready`). `log`, `got`, `pushes`, `lag_seen` are
history.

`BroadcastQueue` is what the queue promises: a bounded log that each member
reads from the start, without gaps, where an entry gets its place first and
becomes readable later.

`MMapSink`. The sink has one caller at a time, so an action is one system call
on the files, or the `memcpy`, with the bookkeeping up to the next. `pc` says
which call comes next, `cur` is the length of the write under way, 0 in the
constructor. Files are sequences of cells: the number of a record, or 0 for
the zero bytes `ftruncate` adds. `Faults` is the set of calls that may fail:
`open`, `fstat`, `ftruncate` and `mmap`, whose result the code looks at, and
`unlink` and `rename`, whose result `rotate_files` ignores
(`mmap_sink.cpp:179`, `:185`, `:190`). `Crashes` says whether the process may
die; `MapFails` includes the rule that `mmap` refuses an offset that is not
page-aligned. The history `stuck` collects the names whose file a rename failed
to move. An ignored failure of `unlink` is harmless, since the next rename
replaces the file; one of `rename` is not (section "Divergences"), so
`FileSizeBounded` is stated while 0 is not in `stuck`, `OldestLostFirst` while
no old file is, and `KeepsOldFiles` while it is empty. `OrderKept` and the other
properties have no such exemption. A failing `munmap`, `close`, `madvise` or
`mkdir` changes nothing in this state; a failing `msync` is left out. A crash keeps what was
stored in the mapping (the page cache survives the process). Power failure is
covered only by `synced`, the records a synchronous `msync` was given.
External, modelled from their use: the file system, the effect of `ftruncate` and
`rename`, `memcpy` into a shared mapping.

`RecordLog` is what the sink promises, without files or system calls: writes one
at a time, each of which accepts its record, refuses it or ends with the
process, and a set of records that can be read whole, which grows by the
accepted one and loses only its oldest, and those only during a write
(`DropOldest`). `orderly` says that this has been so: a step that makes room in
any other way (`DropAny`) ends it for good, which is all that is promised once
an old file could not be renamed.
`MMapSink` maps it to the records with all their cells in a row in some file
(`Whole`), and `orderly` to `stuck \subseteq {0}`.

`Logger` takes the queue from `BroadcastQueue` (`Q == INSTANCE ...`), with the
drain thread as the only consumer, and the sink as the sequence of entries it
accepted. `MMapSink` says when `write` refuses and when its constructor throws,
and its mapping to `RecordLog` what can be read of what it accepted;
`SinkRefuses` and `SinkFails` let either happen at any time. `Stragglers` are
producers that do not stop before shutdown, `Closers` the threads that call
`init` and `shutdown`.

`LogTools` continues `MMapSink`: its records are binary entries of two cells,
header and text, `Logged` says which log call made each. A tool opens a file
that no sink has open, in any state in which processes have left it, and reads
it entry by entry. `Line` is the formatter's line by fields. `RefreshDate` and
`Prefix` are `CachedDateFormatter`, whose prefix starts uninitialised
(`Uninit`) with cached second 0; a date prefix is represented by the second it
was made for. `StatsCounts` keeps `log_stats`'s totals. `FairToolsSpec` adds that
a call of the sink under way goes on.

`ShmQueue`. One process is one thread; `loc[p]` holds its locals and `mem[s]`
the contents of segment `s`. `Create` and `Attach` follow the constructor of
`ShmQueueManager` system call by system call, each of which may fail
(`SystemCallFails`: `shm_open` of the creator, all attempts of an attacher,
`ftruncate`, `mmap`); the placement new is three steps
(member initialisers, body, slots), since attached processes may use the
segment before, between and after them. A process that uses it before
`ftruncate` dies (`Sigbus`). The scan of `push` stores `min_tail` itself and
`push` then stores it again (`ScanStore`, `PushRecheck`). `misused` is history:
segments used before their constructor had finished, or joined while a push was
writing its entry or a scan was under way. A scan that has passed a consumer's
entry before it counts may store a minimum ahead of that consumer, and a push
then overwrites what it has yet to read; TLC shows both without the exemption.
The retries of an attaching manager are one refusal
(`AttachFails`) that the process may repeat. The six headers hold one
algorithm: they differ in the entry type and in spelling, and `mpmc.hpp` and
`mpmc_2.hpp` compute the minimum in four chains (`Smaller`). None of the six compiles as committed
(an undeclared `purge_lock`, or `std::order_relaxed`); the model follows the
evident meaning of these lines.

`Bench` has one driver per behaviour: many producers and one drain thread,
one producer set and several counting consumers with a helper that refreshes,
single pushes without retry, fill then pop, push all then pop all. Three of them
(`NoFinalDrain`: `BM_QueuePush_1P`, `BM_QueuePush_NP`, `BM_PushLatency`) have a
drain thread that stops without a final drain, and leave entries behind.

## 3. Runs

| run | question | answer |
|---|---|---|
| `queue_contract` | 2 producers x 2 pushes, 2 consumers, one of which may leave, a late refresher, 2 slots: races, order, lost positions, genuine refusals; `IInv`; is it a bounded log | hold; yes |
| `queue_live` | two consumers for one id, spurious failures: does each push return, is each claim read | yes, under fairness; nobody is rejected early; the cached minimum is safe |
| `queue_late_join` | a consumer registers while pushes run | finding: it may read a slot being overwritten |
| `sink_faults` | two record lengths, one process, which may die, files until one is dropped; `open`, `fstat`, `ftruncate`, `mmap`, `unlink` and `rename` may fail: memory safety, file sizes, number of old files | memory safety holds; sizes until the base file cannot be renamed, numbers until a rename fails; also `SinkInv`, of which the type invariant is a part |
| `sink_tools` | three processes dying anywhere, `unlink` and `rename` failing, and the tools on what they leave: order, oldest lost first, no binary record refused, each write returns; is it a log of records; log_reader exact and complete, dates right, log_stats exact | hold, oldest first until an old file cannot be renamed, dates but for lines of second 0 before any other (their prefix is uninitialised), the return of writes under fairness; yes |
| `sink_text` | records that do not tile a region | finding: the sink dies after the first region |
| `sink_flush` | does flush sync everything | finding: only the current region |
| `tools_stats` | does log_stats count the records | finding: the zeros count as entries |
| `logger_contract` | two lives, a failing init, two callers of shutdown, a refusing sink: lifetimes, ownership, order, nothing accepted is left behind, shutdown returns | hold, the last two under fairness |
| `logger_straggler` | logging while shutdown runs | finding: an accepted entry is lost |
| `shm` | a creator, a second pusher, two consumers, two segments of one name, three managers, two slots, failing calls, deaths of creator and consumers | the queue's promises hold on every segment not in `misused`; the creator's name stays its own |
| `bench` | every driver, more entries than slots: what consumers were given when it is done | a first part of the log, in order: all of it, but for `BM_QueuePop`, which leaves the queue as full as it filled it, and the three drivers without a final drain, which leave up to `SIZE` entries; every driver ends, under fairness |

Each property of a passing run has a mutant of the model in `PROJECT.json`, a
plausible bug, that TLC finds violating it.

### Divergences without a run of their own

The models show more disagreements between the code and its comments:

- A queue whose last consumer has left refuses every push once it has taken
  `SIZE` entries: `compute_min_tail` answers 0 (`mpmc_queue.hpp:294`), and
  `push` reports "genuinely full" (`:198`). `FullIsGenuine` fails with
  `Leavers = Consumers`; theorem `FullGenuine` assumes that somebody stays.
- Ids are never returned (`RegisterTakeId`, `Unregister`), so
  "too many consumers (max 32)" counts registrations.
- A restart appends to the file it finds (`mmap_sink.cpp:36-37`), and the size
  test runs only when a region is full: processes that stop before that make
  the file grow past `max_file_size_` ("Max bytes per file before rotation",
  `mmap_sink.hpp:31`). `FileSizeBounded` fails with `MaxLives = 2`.
- A failed open in a rotation throws out of a `noexcept` function and ends the
  process although `write` promises 0 (`OpenFails`, `mmap_sink.hpp:49`).
- A base file that cannot be renamed is opened again and goes on at its end,
  past `max_file_size_`, and each write that fills a region tries again
  (`mmap_sink.cpp:190`). `FileSizeBounded` without its exemption fails.
- When `rename(i, i + 1)` fails, the next step renames file `i - 1` over file
  `i`: its records are gone while older ones stay, and fewer than
  `max_rotated_` old files may exist (`:185`). `OldestLostFirst` and
  `KeepsOldFiles` without their exemptions fail.
- A crash inside a rotation leaves a gap that makes the next rotation delete
  an old file too many (`UnlinkOldest`, `ShiftFile`).
- A second concurrent `shutdown` returns while the first is draining
  (`ShutdownSkipped`).
- Two legacy creators of one name remove each other's names (`UnlinkOld`,
  `UnlinkName`); `SegmentReachable` fails with two creators.
- An attacher of the legacy queue does not wait for the constructor: it may
  fault, or its work is wiped out (`Sigbus`, `NewSlots`).
- In the legacy queue, too, joining while a push is under way is unsafe, even
  as the only consumer; so is joining while another process scans the tails,
  after which entries are overwritten unread (`DeliveredFromStart` fails once
  `RegHead` and `StartScan` no longer mark the segment).
- When `fstat` fails on a file that exists, `file_offset_` stays 0 and the sink
  writes over the oldest records of the file (`OpenFile`). The theorems that
  need a sink to go on at the end say so (`OpensAtEnd`).
- When records do not tile a region and the page is not a multiple of the
  region, regions need not begin at multiples of their size, and a file may
  exceed `max_file_size_` by less than a region. `FilesBounded` excludes it
  with `RegionsTile`.
- `BM_QueuePush_NP` reads a number of threads from its argument and never uses
  it (`bench_queue_throughput.cpp:66`, `:103`): one thread pushes.
- `entries_pushed_` and `entries_dropped_` of the logger are never written:
  their getters answer 0.

### Bounds

- Queue: two slots and four pushes take every slot through two laps, so each
  slot is reused while a consumer lags, the full test is met exactly at, below
  and above its boundary, and a stale minimum from the previous lap is stored
  late. Two producers and two consumers give each race its two parties; a
  third party meets the same slot only through the same full test, and the
  theorems do away with the bound. `SIZE` is a power of two in the code; the
  model uses `%`, the same thing.
- Sink: in `sink_faults` nine writes of one or two cells, two cells to a region
  and two regions to a file, fill more files than the three old ones that are
  kept, so the oldest is dropped, and three old files tell the right order of
  the renames from a wrong one. `sink_tools` has seven binary records, two to a
  file, three processes and two old files, enough to lose a file after a crash
  or a failure in any step of a rotation. `PAGE` is in cells; two binary records tile
  a page, as 32 records of 128 bytes tile 4096.
- Tools: five kinds of log call (levels and threads that each filter separates,
  two in one second, one out of order, texts just below and at 112 bytes and an
  error of `snprintf`) and four argument lists (none, level and limit, an
  unknown level with a dangling flag, a repeated flag).
- Logger: a queue of two and four pushes meets full, empty and partly
  published; two inits give a second life to whatever the first one left.
- Legacy queue: two segments and three managers (`MaxLives`) let the creator
  die and come back once, with processes on the old and the new segment; with
  two slots and two pushers a position may be published before the one claimed
  before it, and five claims per segment (`MaxHead`) take the ring around twice.
  A behaviour is followed to the step that misuses a segment and no further
  (`NoMisuse`, a state constraint). Of what that segment then holds the
  properties state the type alone (`ShmTypeOK`, which is proved without this
  bound), and it decides nothing elsewhere: the name, the system calls, the lives
  of the processes and the other segments take the same course without the
  misuse.
  Two consumers are the least for a scan to miss one; they are
  interchangeable, which the run uses as a symmetry.
- Bench: three producers with three pushes each into two slots, so that the
  ring goes around more than four times and even a producer alone finds it full
  (`ProducerGivesUp`); five rounds of `BM_QueuePop` go around more than twice.

Deadlock checking is off where a run's bound on pushes, writes, inits or
managers stops the system, and in `bench`, whose drivers end.

### Fairness

Only steps of calls that are under way are fair: a thread that runs goes on.
Nobody has to call `push`, `refresh`, `write`, `init` or `shutdown`. A
registered consumer keeps polling `pop`, as `drain_loop` does. `PushCas` is
strongly fair: `compare_exchange_weak` does not fail for ever on a `head`
nobody moves, and `MaxPush` bounds how often others move it. That a single
push is not starved by an unbounded stream of other pushes is not claimed: the
code is lock-free, not wait-free. In `FairToolsSpec` a call of the sink goes on
from one system call to the next. In `Bench` every thread of a driver is fair:
the benchmark starts them all and they only spin, yield and join.

## 4. Proofs

Constants are arbitrary within the modules' assumptions. Each theorem that
assumes more says so, and the runs or the divergences above show what happens
without the assumption.

**Queue** (`MpmcQueueProofs`). `TypeCorrect`: `TypeOK`, without assumption.
`Invariance`: `IInv`, assuming `LateJoiners = {}`; from it `NoRace`,
`Delivery`, `RingHolds`, `CacheBound`, that is `NoDataRace`,
`DeliveredInOrder`, `RingHoldsUnread`, `CacheIsLowerBound`. None of these is
inductive. That a push may overwrite its slot follows from the window
(`Window`: unread and claimed positions span at most `SIZE`), which follows at
the compare-exchange from a local minimum being a lower bound of the active
tails (`CasSafe`), which follows from every partial scan and every cached value
being one (`ScanSafe`, `CacheSafe`), and these hold because tails only grow and
nobody joins late. `ClaimsOwned`, `SequenceOK` and `Writing` say what is in the
slots; `Reading` ties a consumer's history to its tail.

`MpmcQueueRefinement`: `Refinement`, that every behaviour implements
`BroadcastQueue` (`ImplementsBroadcast`), assuming `LateJoiners = {}`. Each
action is a stutter or one abstract step; that a claim finds room in the
abstract log is `CasSafe` again, that a copy delivers the right entry is
`Writing` and `Reading`. `BroadcastDelivers` is the other half: the
abstract log alone implies `DeliveredInOrder` (by `ReadersInOrder`: every reader
has a start of the log and a member is at most `SIZE` behind), by an argument
that uses nothing of the ring.

`MpmcQueueFullProofs`: `FullGenuine`, that a refused push saw a real lag
(`FullIsGenuine`), assuming `LateJoiners = {}` and that some consumer is
attached and active once pushes may run (`SomeoneReads`, stated as `[]` of the
behaviour). The argument: the minimum of a scan is some active consumer's tail
at the time of its read, or the consumer has moved on or left since, in which
case `lag_seen` already recorded the lag. `RejectsWhenFull`, that
`register_consumer` throws only while `MAX_CONSUMERS` consumers hold an entry
(`RejectedOnlyWhenFull`), assuming `Leavers = {}`, with late joiners allowed:
every id below `num_consumers` is a consumer's (`IdsHeld`), which makes
consumers and ids a bijection when the ids have run out.

**Sink** (`MMapSinkProofs`; any sizes, record lengths up to a region, failing
calls, crashes). `SinkInvariance`, and from it `SinkTypeCorrect`,
`MappingAlwaysInFile`, `CopyAlwaysSafe`, without further assumption.
`MappingInFile` is not inductive: between `ftruncate` and `mmap` the file's
length and the offset must be related while nothing is mapped yet, which
`SinkInv` adds. What the files hold takes more, and each theorem names what it
assumes:

| theorem | property | assumes | inductive invariant |
|---|---|---|---|
| `OrderAlwaysKept` | `OrderKept` | `OpensAtEnd` | `FilesInv` |
| `OnlyOldestLost` | `OldestLostFirst` | `OpensAtEnd` | `StoreInv` |
| `OldFilesKept` | `KeepsOldFiles` | `OpensAtEnd`, `RotationsEnd` | `StoreInv`, `NoGap` |
| `WritesAccepted` | `NoWriteRefused` | `RecordsTile`, regions of whole pages, no call but `unlink` and `rename` fails | `TileInv`, `RoomInv` |
| `FilesBounded` | `FileSizeBounded` | `RegionsTile`, `MaxLives = 1`, `MAX_FILE` a multiple of `REGION` and not 0 | `SizeInv` |

`OpensAtEnd` is that `fstat` does not fail, or no earlier process left a file;
`RotationsEnd` that no process dies inside a rotation, or none follows it;
`RecordsTile` that one record length divides the region, as in binary mode.
The divergences above are the behaviours each of them excludes. Failing unlinks
and renames are excluded by none of them; what the
properties of `OnlyOldestLost`, `OldFilesKept` and `FilesBounded` promise ends
with the rename that failed (`stuck`, whose growth is `StuckGrows`). Order is kept
because the place of the next record has only zeros behind it (`TailEmpty`) and
a record under way is in no file yet (`CellsKnown`, `OnTheWay`). That only the
oldest are lost follows from order: while old files can be renamed, what a step
of a rotation removes or replaces is the file with the highest number
(`RotationMoves`, `RotationLoses`), and every record in another one is younger.
For `KeepsOldFiles` the
numbers of old files must have no gap but the one the loop of `rotate_files`
has just made (`NoGap`). `FileSizeBounded` is not inductive: the region about
to be added must fit (`SizeInv`), and the test of `write` ensures it only where
regions begin at multiples of their size.

`SinkIsRecordLog`: every behaviour of the sink implements `RecordLog`
(`ImplementsRecordLog`), assuming `OpensAtEnd`. Each step is a stutter or one
step of the log, on top of `LogInv`, which adds to `StoreInv` that only accepted
records are whole. `WholeSame` says that `ftruncate` and `open` change no
record's cells, `CutShort` that a `memcpy` the process did not survive leaves
its record incomplete, `WholeAfter` that so only `Copy` adds a record; that a
rotation takes the oldest, or a rename of an old file has failed, is
`RotationDrops`. Conversely
`RecordLogLosesOldest`: `OldestLostFirst` follows from `RecordLog` alone.

**Logger** (`LoggerProofs`; any producers, callers and lives).
`LoggerTypeCorrect`, `OneOwnerAlways` and `ProgramOrderAlways` need no
assumption: stragglers, racing shutdowns and repeated inits are included.
`NoUseWithoutStragglers` and `AcceptedReachSinkWithoutStragglers` assume
`Stragglers = {}`. The invariant has layers: `Typed` (types, which phases of
init, shutdown and drain exclude each other, one caller at a time), `Fifo`
(the log is in program order, the drain thread has a prefix of it, what was
written is a subsequence of that), `HeldNow` (a producer inside `push` holds
the queue that is alive), `Flow` (an accepted entry is in the log, what was
read was written or refused, at exit everything was read, and nothing is left
once shutdown has returned).

**Tools** (`LogToolsProofs`; any log calls, argument lists and files of the
types `ToolsAssumption` gives: nanoseconds are below a second, what follows
`--thread` and `--limit` is a number, as `atoi` makes it). Both tools read one
entry per step, so what they have done after n entries is an invariant:

| theorem | property | assumes | inductive invariant, on top of |
|---|---|---|---|
| `DateAlwaysOwn` | `DateIsOwn` | | the prefix is the cached second's, but for second 0 before any other |
| `StatsAlwaysExact` | `StatsExact` | | `CountsSoFar` (totals are those of the first n, the ends of the span and of the lengths are some of theirs), `CellsLogged` (every header belongs to a logged entry), `SinkInv` |
| `ReaderAlwaysExact` | `ReaderExact` | | `ReadSoFar` (what is shown is what was asked for among the first n, up to the limit), `CellsLogged`, `SinkInv` |
| `ReaderAlwaysFindsAll` | `ReaderFindsAll` | `OpensAtEnd`, `BinaryFiles` | `EntriesInv`, `FilesInv`, `TileInv` |

`ReaderAlwaysExact` takes the loops of the code with it: `parse_args` gives
each option its last occurrence (`ParsedOptions`, `OptionsAsked`), the digits
`CachedDateFormatter` and `fast_u32_to_str` write are those of the number
(`NsValue`, `TidValue`), a line tells what its entry holds (`LineTells`).
The functions `parse_args`, `fast_u32_to_str` and `Value` are recursive, and the
library's induction theorems take an operator, which the provers cannot
instantiate. Here induction is the least element of a set of naturals
(`LeastNatural`, and from it `SetInduction`, `StepInduction`), which needs none.

`BinaryFiles` is binary mode: every record is an entry, and a region is a
whole number of entries (128 bytes in 64 MB by default). Then entries begin
where a reader looks for headers (`Aligned`), through truncation, growth,
rotation and a death in the middle of a `memcpy`. That no record is found twice
is more than `OrderKept`, which allows a record's cells to lie anywhere in
order: a record is only ever copied over zeros, at a place of its own.

**Legacy queue** (`ShmQueueProofs`): `ShmTypeCorrect` without assumption. The
rest assumes one creator of the name (`OneCreator`), since two take each
other's names away, and takes the deaths of processes, failing calls and any
number of segments and managers in. `ReachableForOneCreator` and
`CursorOwnForOneCreator`: the invariants tie a creator's progress to the name
it opened (`Held`: from the `shm_open` on the name denotes its segment, which
nobody else constructs) and a consumer's id to an entry no other process stores
to (`Entries`: ids below `num_consumers` are handed out once, and a segment is
constructed at most once unless it is in `misused`).

`NoRaceForOneCreator`, `DeliveryForOneCreator` and `CacheBehindForOneCreator`
(`NoSlotRace`, `DeliveredFromStart`, `CacheBehindReader`) rest on `Ring`, which
speaks of the segments that are constructed and not in `misused`. Its core is
`PairOK`, what one process means to another on the same segment: every value
`min_tail` has or may be given, stored, in hand or being computed, is at most
the position of every push that is writing and the cursor of every consumer
that is reading; a claim is less than `SIZE` ahead of both. So the slot of a
claim is nobody else's. `RingOK` and `ActorOK` say that slots hold published
positions of their own, all behind `head`. The step that stores a minimum would
break it if the scan had missed a consumer: that is where the exemption of
`misused` is used, and where the invariant stops being inductive without it.

**Benchmarks** (`BenchProofs`): `PercentilesInRange`, that the index of every
percentile printed is a sample's, and that they do not decrease, for any
number of samples above 0. `AllEverAccountedFor`: when a driver has joined its
threads, what was read is a first part of what was pushed, and how much is
missing is what `AllAccountedFor` says of that driver: nothing, `SIZE - 1`
entries in `BM_QueuePop`, at most `SIZE` in the three without a final drain; for
any threads, pushes and rounds, and `SIZE # 1`: `BM_QueuePop` fills all slots
but one, which is nothing when there is only one, and then meets its "Queue
empty unexpectedly". There are two invariants: `BenchInv` for the drivers whose
producers get every entry in, `DrainInv` for the three.

Only model-checked, and why: liveness (`PushReturns`, `EveryClaimRead`,
`WriteReturns`, `AcceptedGetDrained`, `ShutdownReturns`, `Finishes`), which is
out of the prover's reach, as is ENABLED. Every other property of a passing run
is a theorem, under the assumptions named above.

## 5. Not modelled

- Clocks and the TSC (`timestamp.hpp`, `timestamp.cpp`): hardware and floating
  point. `bench_huge_pages`, `bench_mmap_vs_write` and `bench_logger_e2e` time
  calls that keep no state beyond what `MMapSink` and `Logger` model.
- The copy routines (`fast_copy`, `fast_copy_128`) below the level of one copy;
  weak memory: each atomic access is one step.
- `LoggerConfig` and the build files: they have no behaviour. The defaults are
  the constants of the other modules.
- Sizes the code does not defend against: `max_rotated_ = 0` and records
  longer than a region (`SinkAssumption`).
- A tool on a file a sink still has open; a missing file; the wording of
  reports and the divisions in them.
- Inside modelled parts: prefetches, statistics counters, `madvise`,
  `ensure_directory` (its `mkdir` results are ignored), the pause and yield of
  idle loops, error messages.

What would extend the project next: `ShmQueue` shown to implement
`BroadcastQueue`, along `Ring`, as `MpmcQueue` is; `Logger` on top of
`RecordLog` instead of a sink that may refuse at any time.
