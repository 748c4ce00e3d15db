# Verification of leveldb for Android

The repository is an Android library: a Java API (`com.litl.leveldb`), a JNI
layer, and the leveldb 1.18 storage engine with the snappy 1.1.0 compressor
beside it. This directory holds TLA+ models of these parts, TLC configurations
that check them on small instances, and TLAPS proofs. `J` below is
`src/src/main/jni/leveldb-1.18`.

## The system

| Component | State | Operations | Talks to | What is hard |
|---|---|---|---|---|
| Database core (`J/db/db_impl.cc`) | `writers_`, `mem_`, `imm_`, log file, `bg_error_`, `bg_compaction_scheduled_`, `manual_compaction_` | `Write`, `Get`, `NewIterator`, `GetSnapshot`, `CompactRange`, destructor, background call | version set, log writer, memtable, Env | one leader writes for a group with `mutex_` released; memtable switches race with flushes; errors in the middle; waiting and waking |
| Version set (`J/db/version_set.cc`) | files per level, MANIFEST, log number, last sequence | `LogAndApply`, `Recover`, `PickCompaction`, `CompactRange`, `Get` | table cache, log, Env | which files a compaction takes, key ranges, crash between MANIFEST and deletion |
| Recovery (`DB::Open`), repair, destruction | files on disk | `Recover`, `RecoverLogFile`, `NewDB`, `RepairDB`, `DestroyDB` | all of the above | a crash at any point of an earlier run or of recovery itself |
| Log format (`J/db/log_*.cc`) | block offset | `AddRecord`, `ReadRecord` | Env | fragments at block boundaries, truncated tails, damage |
| Memtable, skip list, arena | nodes, heights, blocks, references | `Insert`, `Get`, iterators | database core | lock-free readers |
| Tables, blocks, filters | blocks under construction | `Add`, `Finish`, `ReadBlock`, `InternalGet` | Env, snappy | shortened index keys, filters, damaged blocks |
| Iterators | position, direction | `Next`, `Prev`, `Seek` | all sources | direction changes, hidden entries, errors on the way |
| Caches | LRU list, hash table, reference counts | `Insert`, `Lookup`, `Release`, `Erase` | tables, Env | entries in use while evicted |
| Environments | files, names, mmap slots, background queue | file operations, `Schedule` | OS | partial writes, names that change under readers |
| Snappy | hash table, input and output positions | `RawCompress`, `RawUncompress` | tables | copies that overlap or overshoot, damaged input |
| Java wrapper | pointer, `mRefCount` | `open`, `close`, `get`, `iterator`, snapshots | JNI | wrappers closed in any order by any thread |

What makes each of them correct:

- Database core: one leader at a time; acknowledged writes are readable, keep
  their place in the order and survive the crashes their options promise;
  snapshots never change; every call and the destructor return.
- Version set: files of a level do not overlap; newer entries lie above older
  ones; a compaction changes no answer.
- Recovery: after a crash anywhere, also during recovery, exactly the durable
  writes are there and no file or sequence number is used twice.
- Log format: what is read back are the complete, undamaged records, in order.
- Memtable: a reader sees every entry finished before it started, in order,
  and no half-made node.
- Read path: `Next` and `Prev` in any order walk the visible keys, `Get` finds
  the newest entry, and damage is reported rather than passed over.
- Caches: an entry is freed once, after its last release; usage is what the
  entries in the cache charge; an open table reads the file it opened.
- Snappy: what was compressed comes back; nothing is written outside a buffer.
- Java wrapper: native objects live as long as a wrapper needs them, and no
  longer.

## What is modelled

Modules with state, each with its own specification and run:

| Module | Uses | Models |
|---|---|---|
| `DBImpl` | | threads of the database core |
| `LsmTree` | `MVStore` (refinement) | contents of memtable and levels, compactions |
| `Recovery`, `Repair` | `PosixFiles`, `VersionEdit`, `WriteBatch` | a database directory through opens and crashes |
| `LogFormat` | | the file format of logs and MANIFESTs |
| `MemTable` | | skip list, arena and references |
| `Cache` | `Env` | table cache, LRU cache, the two environments |
| `DBIter` | `MergingIterator`, `TwoLevelIterator`, `Iterators`, `Table`, `Format` | reading at a snapshot |
| `Snappy` | | compressor and decompressor |
| `NativeObject` | | the Java wrappers |

Modules with proofs: `DBImplProofs`, `DBImplOrder`, `DBImplDurability`,
`DBImplBackground` (of `DBImpl`), `LsmTreeProofs`, `MemTableProofs`,
`CacheProofs` (of `Cache` and `Env`) and `NativeObjectProofs`; see Proofs.

### DBImpl

One action per critical section of `mutex_`, or per piece of code that runs
with `mutex_` released. A writer that is still inside the loop of
`MakeRoomForWrite` holds `mutex_` between two actions (`pc = "room"`); all
other actions that lock it have the guard `MutexFree`.

| Model | Code |
|---|---|
| `writers`, `groupLen`, `done`, `ok` | `writers_`, `last_writer`, `Writer::done`, `Writer::status` |
| `mem`, `imm`, `tables` | the sequence numbers of the updates in `mem_`, `imm_` and the current version's files |
| `logged`, `synced`, `torn` | what the log files hold, what `fsync` covered, which logs have a partial record |
| `manLog`, `manSeq`, `manTables` | the MANIFEST's log number, last sequence and files |
| `Write`, `WriterWakes`, `Room*`, `BuildBatchGroup`, `AddRecord*`, `Sync*`, `InsertInto`, `FinishWrite` | `DBImpl::Write` and `MakeRoomForWrite`, in their order |
| `MemTableWait`, `MemTableReturns` | the rest of `TEST_CompactMemTable` |
| `CompactRange`, `CompactRangeWakes` | `TEST_CompactRange` |
| `Background*`, `PickCompaction`, `ManualDone` | `BackgroundCall`, `BackgroundCompaction` |
| `BuildTable`, `Flush*` | `CompactMemTable`, `WriteLevel0Table`, `LogAndApply` |
| `Work*`, `InstallCompactionResults`, `Compaction*`, `ManualLost` | `DoCompactionWork` and the end of `BackgroundCompaction` |
| `UpdateStats` | a read that uses up a file's `allowed_seeks` |
| `Close`, `CloseWakes` | `~DBImpl` |

Every file operation may fail, up to `MaxErrors`; a failed append or MANIFEST
record may nevertheless have reached the file. A crash is not an action: the
crash properties say what `DB::Open` would find at every state (`Recovered`).
Which files a compaction takes is abstracted to the number of its level-0
inputs; `LsmTree` models the choice itself. `deep` is an upper bound on the
compactions of deeper levels that are due (`Finalize` with a score of at least
1 above level 0): a flush into such a level may add some, a compaction of such
a level takes at least one away, any other leaves any number, up to
`MaxDeep`. What each thread calls is an element of `Loads`.

### LsmTree and MVStore

`LsmTree` has the contents: entries with keys and sequence numbers, files with
their key ranges, levels, compaction pointers. It models where a flushed table
goes (`PickLevelForMemTableOutput`), the three ways to start a compaction
(`PickSize`, `PickSeek`, `CompactManual`), the growth of its inputs
(`SetupOtherInputs`), the trivial move, the rules that drop entries (`Drop`),
where outputs are cut (`WorkOn`: target size and grandparent overlap), and
`Get`. A compaction starts and ends in different actions; writes, snapshots
and flushes happen in between, as they do with `mutex_` released. `mem` stands
for `mem_` and `imm_` together. Each execution uses one element of `Options`
(target size, keys written, snapshots, manual ranges).

A level is a set of files; `Builder::SaveTo`'s order is `BySmallestKey`, and a
binary search (`FindFile`) is what it finds in a level of that order. The range
that grows with its level-0 files is the smallest range that no file sticks
out of (`Grown`), and the loop of `DoCompactionWork` is a function over the
merged inputs, each entry's value made from the one before it (`Loop`).

`MVStore` is the abstract specification: a map that only `Put` and `Delete`
change, each one exactly as it says, and snapshots that nothing changes.
`ReadsAreStable` says that `LsmTree` implements it when `last` is the last
sequence number, `now` what `Get` returns for every key at that number and
`views` what it returns at every open snapshot. A `Put` binds its key to the
number it just took, and a step that takes no number and no snapshot must
leave every answer as it was: flushes, moves and compactions are stuttering
steps, and one that lost or brought back a key would be no step of `MVStore`.

### Recovery and Repair

`PosixFiles` is the directory: names stand for inodes, an inode has records of
which some were synced. A process crash leaves everything that was flushed; a
machine crash leaves of each file any prefix that contains the synced records,
and any of the directories since the last one known to be on disk (renames,
creations and deletions reach the disk in their order, as on a journalled file
system). `VersionEdit` and `WriteBatch` encode to and decode from tokens, so
that a cut or empty record fails to decode as it does in the code.

`Recovery` follows `DB::Open`: `NewDB`, `CURRENT` to MANIFEST to `Builder`,
the logs in the order of their numbers, `RecoverLogFile` with its level-0
tables, `LogAndApply` with a new MANIFEST and `SetCurrentFile`, and
`DeleteObsoleteFiles` with its choice of what is live. Between two opens
clients write, the memtable is switched, flushed and compacted. Any step may
be the last before a crash, and the operations in `IoErrors` may fail.
`Repair` adds `RepairDB` on the same directory, `DestroyDB` is in `Recovery`.

`RecoversAcked` says that an open database returns for every key the newest
update that was acknowledged, or a newer one: of all updates after process
crashes, of those that were synced or flushed to a table after a machine
crash. After a finished `RepairDB` it says only that the update is there,
because a table that was obsolete may be back on level 0 and hide it. It
excepts three cases, recorded in `past.dropped`: an error in an earlier log
that `DBImpl::Recover` overwrites with the status of the next log
(`J/db/db_impl.cc:344`), a log that `RepairDB` archives although its table
could not be built (`J/db/repair.cc:153`, `ConvertFails`), and an open of what
an unfinished repair left.

### LogFormat

A file is a sequence of cells; checksum, length and type of a header have one
each. `AddRecord` fragments as the code does, trailers included; then the file
is cut anywhere or one cell is damaged, and `ReadRecord` runs from any initial
offset, one physical record per step, through `resyncing`, `kBadRecord` and
`ReportDrop`; a read of the file may fail, which ends the log (`ReadFails`).
`ReadsWhatIsLeft` is stated over the physical records written, not over the
reader.

### MemTable

`Insert` is one step per round of its search and per pointer it links, in
program order; a batch may insert several entries before their numbers are
published (`Publish`). Readers load one pointer per step: `FindGreaterOrEqual`, `FindLessThan`, `FindLast` with `Next`,
`Prev`, `Seek`. A pointer load has acquire semantics and sees the stores
before the matching release; `max_height_` has no barrier, so a reader may see
any earlier value. The arena hands out regions of its blocks, with the slop of
aligned allocations. `Ref`/`Unref` follow `Get` and `CompactMemTable`.

### Cache and Env

One shard: `HandleTable` with its chains and `Resize`, the LRU list, reference
counts and eviction. Each operation is atomic under the shard's mutex, except
that the loop at the end of `Insert` evicts one entry per step (`pc = "evict"`)
and holds the mutex meanwhile: `Locked` keeps the other operations out. A chain
is the set of its handles, since a lookup compares keys and no two handles of
a chain have the same one (`TableMatchesList`). `TableCache::FindTable` is not
atomic: between a miss and its `Insert` the table is opened. Tables own files
of an environment: in `PosixEnv` a mapped file holds a slot of `MmapLimiter`,
in `InMemoryEnv` a reference to a `FileState` whose blocks are modelled. Names
are created, deleted and renamed meanwhile.

### DBIter and what it reads

`Format` has both comparators and their `FindShortestSeparator` and
`FindShortSuccessor` on byte sequences. `Table` builds real tables of a
history of updates: prefix-compressed blocks with restart points, index block
with shortened keys, Bloom filters per `kFilterBase` of offsets. `Iterators`,
`TwoLevelIterator` (used twice: blocks of a table, tables of a level) and
`MergingIterator` are operators from an iterator to the iterator afterwards;
`DBIter` has the actions of a client, with `FindNextUserEntry` and
`FindPrevUserEntry`. `AtCursor` compares the iterator with a cursor over the
sorted visible keys.

Any block may be damaged. The code does not look at every checksum:
`ReadOptions::verify_checksums` is for data blocks only, and the index block,
the metaindex and the filters are verified under `options.paranoid_checks`
(`J/table/table.cc:61`, `:98`, `:129`). An execution is with or without
`paranoid_checks` (`db.paranoid`), and `db.bad` has what a damaged block reads
as when nobody verifies it: an index entry with the handle of another block or
a wrong prefix length, a metaindex without the filter, filters that lost bits,
their number or an offset (`DamagedReads`, samples of what a byte can do).
What is claimed depends on it:

- Damage of a data block, and under `paranoid_checks` of an index block, is
  reported or has cost nothing.
- Damage of a filter or metaindex block never concerns an iterator, and is no
  error of a `Get`. Under `paranoid_checks` it hides nothing from `Get`;
  without, a filter that lost bits may hide a key, silently.
- An index block that is damaged and not verified may hide keys from both. Even
  then what is returned was written with that key before the snapshot.

### Snappy

`CompressFragment` step by step (probing, matches, `EmitLiteral`, `EmitCopy`),
the decompressor tag by tag with `RefillTag`, `SnappyArrayWriter` with its
fast paths, and the validating writer. The limits of the format are the
code's; fragment size, hash table sizes and hash function are scaled. Lengths
of 2^28 and more are one value (`Huge`).

### NativeObject

The Java side: `NativeObject`'s `mPtr`, `mRefCount` and monitor, and the calls
of `DB`, `DB.Snapshot`, `Iterator` and `WriteBatch`. A call is split at the
points where another thread can get in: `assertOpen`, taking a reference,
reading `mPtr`, the native code itself, and the steps of `close()`. `stack` has
the wrappers whose `closeNativeObject()` a thread is in, since the last
reference of an iterator may close its snapshot and that the database;
`closing` has the step that each one is at. `misused`
collects the native objects that native code touched or deleted when they did
not exist. The callers of the model keep two rules that no code enforces: a
wrapper is closed once, and it is neither used nor reopened during or after
its `close()`.

## Runs

| Run | Instance | Shows |
|---|---|---|
| `dbimpl_writes` | three writers with one call each (one update, two updates, one synchronous update, memtable compaction), one I/O error, symmetry on writers | `OneLeader`, `HeadAwake`, `SurvivesProcessCrash`, `SurvivesMachineCrash`, `SequenceUsedOnce`, `AckedReadable`, `SnapshotStable` |
| `dbimpl_compaction` | one writer with three calls, one manual compaction, one seek compaction, up to two deep compactions due, one I/O error, a level-0 trigger of one file | `WorkScheduled`, `ManifestSequence`, `SurvivesProcessCrash` |
| `dbimpl_returns` | four loads: a put and a flush beside two manual compactions; three puts of one writer; two puts and a flush of two writers; a put, a put and a flush of three. One I/O error that may leave a partial record, a stop limit of one level-0 file | `WritesReturn`, `CompactRangeReturns`, `CloseReturns` |
| `lsm_reads` | four writes of which one may be a deletion, four levels; output files of one entry over three keys, without manual compactions and with those of one key; large ones over two keys with a snapshot | `LevelsDisjoint` (without manual compactions), `NewestOnTop`, `ReadsAreStable` |
| `recovery` | two updates (one synchronous put, one asynchronous deletion), three opens, one I/O error or power cut, any number of process crashes | `RecoversAcked`, `NumbersAreNew`, `CurrentIsComplete`, `DamageOnlyIfEmpty` |
| `log_format` | blocks of six cells, three records of sizes 0 to 7, one damaged cell or a cut, a read that fails | `ReadsWhatIsLeft`, `CrashIsNoCorruption` |
| `memtable` | two keys, three inserts of height one or two, one reader | `GetIsNewest`, `IteratorSkipsNothing`, `ReadersSafe`, `RegionsDisjoint` |
| `caches` | two threads, three files, capacity three, one mmap slot, one change of a name | `HandlesLive`, `TableMatchesList`, `UsageBounded`, `SlotsConserved`, `ReadsItsFile` |
| `read_path` | four updates of three keys, each a value or a deletion, in memtable, level 0 and two files of level 1; one damaged block, with and without `paranoid_checks` | `AtCursor`, `GetFindsNewest` |
| `snappy` | 156 blocks of up to three pieces, fragments of 300 bytes, one damaged byte or a cut, sources of 3 or all bytes at a time | `RoundTrip`, `InBounds`, `ValidatorAgrees` |
| `native_use` | two threads, a database, two iterators, a snapshot and a batch | `NoDeadUse`, `NothingLeaks`, `DestroyKept`, `CallsReturn` |
| `lsm_split_key` | output files of one entry with a snapshot | a violation of `NewestOnTop`, see below |

Why the bounds are enough for the cases to happen:

- Three writers are the smallest queue with a leader, a member of its group
  and a writer left behind, and `SmallBatch`, `MaxBatch` are small enough for a
  batch to be refused by size as well as by its sync flag. `WriteBuffer = 0`
  makes every second write switch memtables, so that a flush is under way
  during the next group. In `dbimpl_compaction` three calls let a memtable
  fill while an earlier one is being compacted inside `DoCompactionWork`, and
  its crash property covers compactions with a nested flush, which
  `dbimpl_writes` does not have.
- In `dbimpl_returns` a load says which calls each thread may make, since
  liveness does not allow symmetry. The first has a second caller of
  `TEST_CompactRange` wait for a slot that the first one holds; the next two
  reach the level-0 stop limit, with a memtable switch during a compaction and
  with a second writer; the last one forms a group of two behind a leader.
- In `lsm_reads` four writes make two versions of a key beside two others, or
  of both; a trigger of two files and limits of one or two bytes reach all
  levels, the grandparent cut, the expansion and the trivial move, and three
  keys a file between two others.
- In `recovery` two updates put one in a table and one in a log, or two logs
  beside each other; three opens are a use, an interrupted recovery or repair,
  and the recovery of that.
- In `log_format` a block holds one header and three bytes: seven bytes make
  first, middle and last fragments, and the smaller sizes end a record at
  every distance from a boundary, those too short for a header included.
- In `memtable` two levels suffice for a node that is linked in one of its
  levels only, and three inserts for a key with a hidden version and a
  neighbour; readers do not affect each other, so one is as good as many,
  except for the reference count, which the database also holds.
- In `caches` charges of one and two against a capacity of three make every
  third insert evict; the hash table starts at one bucket and grows twice.
- In `read_path` keys differ in length and first byte so that index keys are
  shortened, blocks hold one or two entries, and level 1 has two files.
  Damage of a filter and of an index each refute the stronger claims when
  they are made without `paranoid_checks`.
- In `snappy` the pieces give matches at distances 1, 2 and above 255, copies
  longer than 64, literals longer than 60, skipped bytes and two fragments.

Deadlock is not checked, except in `read_path`: clients may stop calling.

## Fairness

`DBImpl!FairSpec` is weak fairness of each thread that is inside a call, of
the destructor and of the background thread: the operating system runs every
thread and `SleepForMicroseconds` ends. No call is forced to be made, and a
waiting thread takes a step only after it was signalled. `NativeObject!FairSpec`
is weak fairness of each thread that is inside a method. Manual compactions
need at most `MaxRounds` compactions: in the code each one moves `m->begin`
forward.

## Proofs

The theorems hold for every value of the constants: any number of threads,
requests, keys, readers, wrappers and errors, and any limits. Each proof finds
an inductive invariant, checked with TLC on the runs' instances first, and has
one lemma per action or group of actions. `PROJECT.json` lists the theorems.

### DBImpl

The four modules extend each other, so that each invariant builds on the ones
before it: `DBImplProofs`, `DBImplOrder`, and on it `DBImplDurability` and
`DBImplBackground`.

`DBImplProofs` proves `OneLeaderHolds`. The inductive invariant `LeaderInv`
adds the types of `pc`, `writers` and `groupLen`. The argument: a writer enters
the leader's part of `Write` only at the front of `writers_`; only the leader
pops, and it leaves when it does; `SignalAll` moves a waiting leader between
two places of the leader only.

`DBImplOrder` proves what the queue and the sequence numbers promise:
`HeadAwakeHolds`, `SequenceUsedOnceHolds`, `AckedReadableHolds` and
`SnapshotStableHolds`. `OrderInv` adds to `LeaderInv`

- `QueueInv`: nobody is in `writers_` twice or after it is done, so that a
  status reaches the right call;
- `GroupInv`: the members of the group being written, and no one else in the
  queue, have numbers, and these are in the group's range;
- `SequenceInv`: no number above `last_sequence_` is in use except by the
  group that is being written. `SnapshotStable` rests on it;
- `LeaderMem`: what the leader has inserted at each step;
- `FlushHasImm`: a flush has a memtable until its end;
- `OwnInv`: the numbers that each thread's call got are its own, so that a
  number is not both acknowledged and failed;
- `AckInv`: acknowledged updates, and those whose OK is still on its way to a
  signalled writer, are in the data.

`DBImplDurability` proves `ProcessCrashSafe` and `MachineCrashSafe`. The
properties alone say nothing about how an update got where it is;
`DurableInv` adds to `OrderInv`

- `LeaderLogged`: what the leader has logged and inserted at each step;
- `LogInv`: the current log covers `mem_`, the one before it covers `imm_`,
  and neither the MANIFEST nor `DeleteObsoleteFiles` gives up a log before a
  table in the MANIFEST holds its updates. This is the heart of it;
- `FlushInv`: the edit under way names the current log (a flush) or the
  version's log (a compaction).

For machine crashes `SyncInv` says of every update acknowledged with `sync`,
or about to be, that it is in a table, or in `mem_` or `imm_` with its record
in the synced part of that memtable's log (`Safe`), and that a group with a
sync write in it has a leader that syncs before it inserts. A memtable switch
may leave unsynced bytes behind, never those.

`DBImplBackground` proves `TypesHold`. `TypeInv` adds what the types depend on: the
running compaction's level-0 inputs are still in level 0 (`InputsThere`;
otherwise `l0 - cmp.l0` leaves the naturals).

It also proves `WorkScheduledHolds` and `ManifestSequenceHolds`.
`WorkInv` adds that the background thread runs only while
`bg_compaction_scheduled_` is set; the rest is that every step which makes
work calls `MaybeScheduleCompaction` with `mutex_` held. `ManifestInv` follows
the sequence number of the edit that `LogAndApply` is about to write: filled
in with `mutex_` held, it is at least the MANIFEST's and that of every update
in the memtable the edit makes a table of, and at most `last_sequence_`.

Assumptions: `None` is no set of numbers (`None \notin SUBSET Nat`) where
`imm` is involved; for the two crash theorems also that a failed append leaves
no partial record (`TornAppends = FALSE`), without which they are false (see
`J/db/db_impl.cc:1192` below).

### LsmTree

`LsmTreeProofs` proves `LevelsDisjointHolds`, `NewestOnTopHolds` and, with
them, `ReadsAreStableHolds`: the tree implements `MVStore`.

- `DisjointInv` adds to `LevelsDisjoint` what the running compaction knows of
  the files that flushes leave alone (`CompShape`). The output level may gain
  files while the compaction runs. None of them overlaps the output, because
  the inputs leave no key between them free (`NoGap`): a memtable with a key
  among the inputs overlaps one of them, so `PickLevelForMemTableOutput` stays
  above it (`Outside`). In the output, files follow each other in the order of
  the merged inputs (`LoopExists`, `LoopStep`).
- `OrderInv` adds to it that every number is used once, that a key's entries
  are all in one file of a level (`WholeKeys`), and that for each key the
  inputs of the running compaction are newer than what lies below and older
  than what lies above (`CompOrder`). A compaction of level 0 takes every file
  that overlaps (`Grown`), so the files it leaves hold none of its keys.
- For the refinement, `GetSees` says that `Get` returns the newest visible
  entry of all that are stored (`Seen`), which `NewestOnTop` and
  `LevelsDisjoint` make so. A compaction may drop an entry only if no reader
  at a snapshot or at the last sequence number sees it, or if it is a deletion
  with nothing below it (`InstallKeepsReads`): the answers stay the same.

Facts about finite sets of numbers and of entries that need an induction are
proved by the least counterexample (`NatMin`, `EntryInduction`).

Assumptions, besides `LevelsAssumption`:

- The last two theorems are about executions with `NoManual`: nobody calls
  `CompactRange`, as is the case in the Java API. With it levels may come to
  overlap (`J/db/version_set.cc:504` below). `LevelsDisjoint` has the same
  condition in its statement, so that its theorem needs none.
- They also assume `KeysUnsplit`: there are no snapshots, or an output holds
  all entries of a key. `lsm_split_key` refutes them without it. All options
  of `lsm_reads` satisfy it; that `NewestOnTop` and `ReadsAreStable` hold with
  manual compactions of one key, the second option, is only checked by TLC and
  only within that run's four writes.

### MemTable

`MemTableProofs` proves `GetIsNewestHolds`, `IteratorSkipsNothingHolds`,
`ReadersSafeHolds` and `RegionsDisjointHolds` from `MemTableAssumption` alone.

- `ListInv`: every level is a chain in the order of the keys that no linked
  node is missing from (`Chained`), for a node that is linked in some levels
  only, too; a node's own pointers are set before the node is linked.
- `WriterInv`: `prev[]` has, for each level searched so far, the last node
  before the new key (`LastBefore`), and stays so until the node is linked,
  because there is one writer.
- `ReadersOk`: a running search stands on a linked node before its target, at
  a level the node is linked in (`ReaderOk`), which is why neither a stale
  `max_height_` nor a node linked under its feet can hide an entry; a finished
  move passed over nothing that was published when it began (`MoveOk`), and a
  finished `Get` has the newest entry of its snapshot (`GetOk`).
- `RefInv`: `refs_` counts its holders. `ArenaInv`: regions end at or before
  `alloc_ptr_`.

### Cache

`CacheProofs` proves `HandlesLiveHolds`, `TableMatchesListHolds`,
`UsageBoundedHolds`, `SlotsConservedHolds` and `ReadsItsFileHolds` from
`CacheAssumption` and `EnvAssumption` alone. `CacheInv` says

- `RefsCounted`: `refs` of a handle is the number of threads that hold it, and
  one more while it is in the hash table. The properties do not mention it;
  without it an `Unref` could free a handle that a thread still reads through.
- `ShardInv`: each bucket holds exactly the handles in the table whose hash
  says so, one of each key, and the LRU list has the same handles once each. A
  `Resize` keeps this because its loop ends: the length after `k` rounds
  exceeds `k` (`NewLengthGrows`).
- `UsageInv`: `usage_` is what the allocated handles cost, and what is in the
  table costs at most the capacity while nobody is in the loop of `Insert`.
- `HoldsInv`: what a thread has at each step (`Stage`): a handle from its
  insert or lookup on, and of the file it asked for; a mapped file not before
  it got its slot.

For the slots, each step changes one thread and frees one handle at most
(`OneChanges`, `ShardSlots`), so that the sum of the slots left, of the mapped
files and of those about to be mapped stays what it was.

`ReadsItsFile` in `InMemoryEnv` rests on two more invariants, which no other
property needs:

- `FilesInv`: `refs_` of a `FileState` is the number of its names, of the
  tables in the cache that read it and of those being opened (`Counted`,
  `Readers`), and a new file gets a number no other has. So `DeleteFile` and
  `RenameFile` free nothing that a table reads.
- `Stored`: the blocks hold the first `size_` bytes of what was written, and
  no block is unused (`Holding`). The loops of `Append` and `Read` are followed
  round by round, each with a measure that ends it (`Iterates`, `Descends`);
  that every round is reached is shown by a least counterexample in place of an
  induction. `StateReadIs` is the outcome: `Read` returns the bytes written at
  that offset, as many as there are.

### NativeObject

`NativeObjectProofs` proves `NoDeadUseHolds`, `NothingLeaksHolds` and
`DestroyKeptHolds`, when a database is opened once (`MaxOpens <= 1`: the
callers' rule; a second `open()` starts with a count of 0, and `NoDeadUse` and
`NothingLeaks` fail. `DestroyKept` holds with two opens on the run's instance,
but its proof rests on the same counts).

- `CountInv`: `mRefCount` is the number of holders (`Holders`): the wrapper
  itself until `close()`, the iterators and snapshots that are open, those
  that are closing and have not come to the release, and those that a thread
  is about to make. The properties do not mention counts; without this
  nothing relates one wrapper's life to another's.
- `ClosingInv`: a wrapper in `closeNativeObject()` has its monitor held, a
  count of 0 and its pointer still set. `LiveInv`: a native object exists while
  there are references, and until `closeNativeObject()` deletes it.
- `CallInv`: what a thread inside a call works on is open.
- `DestroyInv`: a `destroy()` that was asked for is done, or the last
  `close()` has not looked at the flag yet, or the thread that set it has not
  looked at the pointer yet.

### Only model-checked

Liveness (`WritesReturn`, `CompactRangeReturns`, `CloseReturns`,
`CallsReturn`) is out of the prover's reach, and so are the modules that
declare RECURSIVE operators or use them: the read path and `Snappy`.
`Recovery` and `LogFormat` have no proofs: what their directory and log
contents come to is computed by folds over sequences of records
(`ReadManifest`, `InsertInto`, `Fragments`). Facts about a fold need an
induction over data, for which the prover has no rule; `CacheProofs` replaces
it, for its two loops, by a least counterexample to a fact written out for
that loop, and for these folds that has not been done.

## Where the code and the repository disagree

`lsm_split_key` (a finding in `PROJECT.json`): an output file ends between two
entries of one key that a snapshot keeps apart; the next compaction moves only
the newer one down, and reads return the older one, although
`J/db/version_set.cc:337` relies on entries not hopping across levels.
`lsm_reads` therefore has snapshots only with output files that hold all
entries of a key.

Others are met by the models and shape what the properties claim:

- `J/db/version_set.cc:504`: the inputs of a manual compaction need not touch
  each other. `DoCompactionWork` calls `CompactMemTable` between two entries
  (`J/db/db_impl.cc:890`), which may put a table for a key in a gap between
  the inputs into the level that the output goes to. The output spans the gap
  and overlaps it, which `J/db/version_set.cc:733` and `:756` rule out.
  `LevelsDisjoint` fails with three keys, five writes and a range of all keys
  and, since `m->begin` may move below the range in level 0, with three keys,
  seven writes and a range of one key; reads may then go wrong, too, because a
  binary search over files that overlap misses entries. `LevelsDisjoint` is
  therefore stated of executions without manual compactions, the other two
  theorems as well; `lsm_reads` has single-key manual compactions for
  `NewestOnTop` and `ReadsAreStable` with too few writes for an overlap.
- `J/db/db_impl.cc:726`: a failed `Sync` in `Write` makes `TEST_CompactRange`
  clear `manual_compaction_` while the background thread runs it; the thread
  then dereferences NULL. `DBImpl` goes to a crashed state (`ManualLost`), and
  the liveness properties except it.
- `J/db/db_impl.cc:1334`: a memtable switch closes the old log without a sync,
  so that a later synchronous write does not cover earlier asynchronous ones,
  as `J/doc/index.html` suggests it does. `SurvivesMachineCrash` is about
  synchronous writes only.
- `J/db/db_impl.cc:1192`: after a failed append, later writes go to the same
  log behind a possibly partial record, which recovery stops at.
- `J/db/db_impl.cc:344`: the status of one log's recovery is overwritten by
  that of the next.
- `NativeObject.java:60`, `DB.java:47`: a second `close()` releases a
  reference of an iterator; a `close()` between `assertOpen` and the native
  call deletes the database under the call.

## What is left out

- In `DBImpl`: torn MANIFEST records (`LogAndApply` syncs each one, and a
  failed one sets `bg_error_`), `PickCompaction` returning NULL, opening a
  database again after the destructor (`Recovery` does).
- In `LsmTree`: failed compactions, which change no version (`DBImpl` has
  them); block and byte sizes, every entry counts as one byte;
  `allowed_seeks`, any charged file may be compacted.
- In `Recovery`: `readdir` lists kinds of files in one fixed order;
  `paranoid_checks` (off by default, and the Java API does not set it);
  existing databases of earlier versions (`.sst` names, `prev_log_number`
  other than 0). In `Repair`: partly readable tables and I/O errors other
  than of a table that is built.
- In `LogFormat`: reading without checksums; more than one damaged cell.
- In `Table` and the iterators: the byte encoding of handles, footers and
  varints, and damage of these; the block cache (the LRU cache itself is in
  `Cache`); read sampling. Reads set `verify_checksums`, so that a damaged
  data block is known as such; the Java API sets neither that nor
  `paranoid_checks`, and nothing is claimed for damaged data blocks then.
- In `Cache`: the choice of a shard, which only divides keys among
  independent caches. In `Env`: sequential files, renaming to the same name.
- In `Snappy`: the overloads that wrap the modelled functions, and inputs
  other than a compressed block with one damaged byte or a cut:
  `ValidatorAgrees` is about these. A length prefix of five bytes with a fifth
  above 15, which `GetUncompressedLength` and the decompressor read
  differently, is not among them.
- In `NativeObject`: `finalize()`, which only logs, and what the native
  methods compute.
- Checksums and hashes: parameters or injective tokens.
- `PosixEnv`'s background queue (one call at a time is scheduled, and `DBImpl`
  has that one), `fcntl` locks between processes, clocks and logging.
- The C bindings, `db_bench` and the other benchmarks, and the tests: glue and
  measurement without state of its own.

## Plan

What could come next:

1. Proofs: `NumbersAreNew` and `CurrentIsComplete` of `Recovery`,
   `CrashIsNoCorruption` of `LogFormat`.
2. `RecoversAcked` composed with `LogFormat`'s torn tails; partly readable
   tables in `Repair`.
