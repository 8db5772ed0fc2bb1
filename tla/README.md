# TLA+ models of the FOEDUS page concurrency core

This directory holds TLA+ models of the code under `src/`, the TLC configurations
that check them, and `PROJECT.json`, which lists the components, the runs, the
mapping from each definition to the source lines it translates, the findings and
the hazards.

## 1. Inventory

### Components, their state and their operations

| Component | Source | State | Operations |
|---|---|---|---|
| PageVersion | `src/unnamed/part_001` l.41-196, 372-414 | one 64-bit word per page: locked, inserting, splitting, deleted, has_foster_child, is_border, is_high_fence_supremum bits; 6-bit insertion counter (bits 51-56); 18-bit split counter (bits 33-50); 16-bit key count (bits 16-31); 8-bit layer (bits 8-15) | `initialize`, `set_inserting`, `set_splitting`, `increment_key_count`, `set_inserting_and_increment_key_count`, `set_key_count(uint8_t)`, `set_has_foster_child`, `stable_version`, `lock_version`, `unlock_version` |
| Optimistic read protocol | spec 4.2 (client code is not in `src/`) | per reader: v1, what it read, v2 | stable_version, read, reload, compare counters and bits, retry or accept |
| PageHeader / Page | part_001 l.207-323 | page_id, storage_id, checksum, page_type, snapshot, root, stat fields, page_version | `init_volatile`, `init_snapshot`, `get_page_type` |
| VolatilePageInitializer | part_001 l.334-368 | storage_id, page_type, root (const) | `initialize` = memset, `init_volatile`, `initialize_more`; `DummyVolatilePageInitializer` |
| ThreadId | `src/unnamed/part_000` | none (pure) | `compose_thread_id`, `decompose_numa_node`, `decompose_numa_local_ordinal` |
| TimeoutMicrosec | part_000 l.102-109 | none | typedef only: no function in `src/` takes it |
| FixedString | `src/unnamed/part_002` | length, inline array | constructors and `assign` (truncating), `==`, `!=`, `<`, `clear`, `str` |
| Metadata / StorageOptions | `storage_options.hpp` | id, type, name (FixedString), root_snapshot_page_id; max_storages | constructors, copy, `clone_base`; load/save (XML, not in `src/`) |
| ArrayStorage / ArrayStorageFactory | `src/unnamed/part_003` | pimpl per storage | `get_instance` (validates metadata), `add_create_log`, `prefetch_pages`, `describe` |
| Savepoint | `savepoint/savepoint.cpp` | current/durable epoch, per-logger log file positions | `populate_empty`, `load`, `save` |
| EpochHistory, snapshot CMake list | `epoch_history.cpp`, `snapshot/CMakeLists.txt` | - | printing, build list |

### How they interact

Every page begins with a PageHeader whose last field is the PageVersion word. All
worker threads share every page; the only synchronisation on a page is that word.
Writers call `lock_version` (a CAS spin on the locked bit), may set inserting or
splitting and the other bit fields with plain writes, write the page body, and call
`unlock_version`, which clears the lock and the two marker bits and bumps the
matching counters. Readers do not lock: they take `stable_version` (spinning while
inserting or splitting is set), read the page, reload the word and retry if a
counter moved or a marker is set. A VolatilePageInitializer zero-fills a page taken
from the pool and calls `init_volatile`, which stores 0 into the version word.
Storages are created from Metadata through a factory (`ArrayStorageFactory`),
which validates the metadata and writes a create log. ThreadId packs the NUMA node
into the high byte of a thread id.

### What is hard

* Interleavings of writers and optimistic readers on one word: a reader may take
  v1 while a writer holds the lock but has not yet marked the page; the two halves
  of `set_inserting_and_increment_key_count` are separate writes.
* The arithmetic of `unlock_version`: counters are bumped inside their masks
  without wrapping, so a full counter carries into the neighbouring field.
* The unlock mask decides which bits survive a critical section.
* Progress: both spin loops rely on lock holders doing bounded work.
* Counter reuse (ABA) after 64 inserts.
* Critical sections that set neither marker bit: `lock_version` leaves that to
  the caller, and such a section bumps no counter.
* Several loggers flushing at their own pace: the durable epoch is a minimum over
  them, and each file must be cut at that epoch's marker on restart.
* Memory ordering (the fences); outside what these models represent.

### What makes each component correct

* PageVersion / read protocol: mutual exclusion of the lock; every accepted
  optimistic read returns the page as it is at one instant (refinement of
  `AbstractPage`); the immutable fields (is_border, is_high_fence_supremum, layer)
  never change after `initialize`; each counter counts its critical sections modulo
  its width; equal counters mean no critical section completed (spec T5);
  spinning threads eventually proceed.
* ThreadId: composition is a bijection and the decompositions invert it.
* FixedString: assignment truncates to the capacity; `==` and `<` agree with the
  equality and lexicographic order of the character sequences.
* ArrayStorageFactory: `get_instance` refuses payload 0 and array size 0, and the
  create log carries the fields a restart rebuilds the metadata from.
* Savepoint: `save` and `load` name the same fields; an empty savepoint has
  durable epoch < current epoch.
* Recovery: a restart rebuilds an epoch-consistent cut. It holds exactly the
  storages created up to the savepoint's durable epoch, whichever logger wrote
  their record, with their snapshot roots. The active region of each file
  holds every durable record the snapshot has not applied.

## 2. Plan

Modules, in order of importance:

1. `PageVersion` (done): the word as a record, each member function that reads or
   changes a field an operator (`set_data`, a raw store of the whole word with no
   caller in `src/`, is not modelled).
2. `PageLatch` (done): composes PageVersion with writer threads and optimistic
   reader threads on one page. `AbstractPage` (done) is the promise: an exclusive
   owner, page contents changed only by the owner, atomic reads.
   `PageLatch` refines it under the mapping owner = the writer between lock and
   unlock, data = the committed page body, observed = what readers accepted.
3. `ThreadId` (done): pure operators against the reference arithmetic.
4. `PageLifecycle` (done): `VolatilePageInitializer::initialize` (memset,
   `init_volatile`, `initialize_more`) making pool frames live, writers, retirement to
   the pool once no reader holds the frame, and optimistic readers; it checks a
   read that spans a full cycle of the insertion counter.
5. `FixedString` (done): `assign` (three overloads), `==`, `<` as operators,
   checked against sequence equality and lexicographic order over short strings of
   a small alphabet, for `char` and for `wchar_t` byte encodings; the assertion of
   `assign(FixedString)` as a property.
6. `StorageRegistry` (done): `Metadata` construction, `ArrayStorageFactory`
   validation and create log, and registry create (spec-modelled: the registry code
   is not under `src/`).
7. `Savepoint` (done): the constructor, `populate_empty`, `save` and `load` as
   operators, with the XML document as the set of elements `save` writes.
8. `Recovery` (done): `StorageRegistry` and `Savepoint` composed with several
   loggers that flush independently, epochs, snapshots, crashes and restarts.
   Each logger has its own file, the durable epoch is the least epoch every
   logger flushed, and a crash may keep a non-durable log tail. The savepoint manager, the snapshot
   writer and the restart sequence are not in `src/`. They are modelled from
   the comments of `metadata.hpp` (sections WRITE and READ) and of
   `Savepoint::save`.

Left for later sittings: the tearing of header fields during `initialize` (now one
step). `PageLatch` with two readers (one read each) was tried and does not finish
within 6 minutes, so `page_latch` keeps one reader with two reads; the mutators that
change `key_count`/`has_foster_child` already run while that reader is inside a read.

## 3. Runs

| Run | Module / cfg | Expect | What it shows |
|---|---|---|---|
| `page_latch` | `MC_PageLatch` / `PageLatch.cfg` | pass | `TypeOK`, `MutualExclusion`, `PageRefinesAbstract`, `AllWorkCompletes` with two writers and one reader, counters fresh or one step from wrapping |
| `supremum_cleared` | `MC_PageLatch` / `PageLatchSupremum.cfg` | violation | `SupremumImmutable`: the first unlock clears is_high_fence_supremum |
| `split_counter_wrap` | `MC_PageLatch` / `PageLatchCounterWrap.cfg` | violation | `CountersCountCriticalSections`: a wrapping split counter bumps the insertion counter |
| `insert_counter_carry` | `MC_PageLatch` / `PageLatchInsertWrap.cfg` | violation | `SupremumImmutable`: a wrapping insertion counter sets is_high_fence_supremum |
| `silent_critical_section` | `MC_PageLatch` / `PageLatchSilentCS.cfg` | violation | `AcceptedWordUnchanged` (spec T5): a critical section that only calls `increment_key_count` is not seen by a reader whose read spans it |
| `thread_id` | `MC_ThreadId` / `ThreadId.cfg` | pass | `ComposeRoundTrip` over all 65536 (node, ordinal) pairs |
| `fixed_string` | `FixedString` / `FixedString.cfg` | pass | `TypeOK`, `EqualMatchesContent`, `LessMatchesLexicographic` for `char` strings of capacities 2 and 3 |
| `fixed_string_wchar_order` | `FixedString` / `FixedStringWide.cfg` | violation | `LessMatchesLexicographic`: with 4-byte little-endian characters, `memcmp` orders `L"A"` after `L"\u0100"` |
| `fixed_string_full_copy` | `FixedString` / `FixedStringAssert.cfg` | violation | `AssertionsHold`: copying a full string into one of another capacity fails `ASSERT_ND(other.length() < MAXLEN2)` |
| `storage_registry` | `StorageRegistry` / `StorageRegistry.cfg` | pass | `TypeOK` over every order of accepted and refused creates |
| `recovery` | `Recovery` / `Recovery.cfg` | pass | `EpochsOrdered` (with the active region holding every durable record the snapshot has not applied), `RecoveredStoragesMatch` (an epoch-consistent cut across two loggers), `SavepointRoundTrip`, with two loggers, two snapshots, two crashes and epochs up to 4 |
| `insert_counter_aba` | `MC_PageLifecycle` / `PageLifecycleABA.cfg` | violation | `AcceptedReadsAreConsistent`: one read spanning 64 inserting critical sections is accepted though the page changed |

Each property of a passing run has a mutant in `PROJECT.json`: a plausible slip in
the code's translation (a dropped guard, a missing bump, swapped fields) under
which TLC finds the property violated.

## 4. The PageVersion models

### PageVersion.tla

The word is a record with one field per bit field; field names are the getters'
names. Widths are the code's (6, 18, 16, 8 bits), so overflow happens where it does
in the code. `UnlockedVersion` translates `unlock_version` literally: the base keeps
only the four fields of `kPageVersionUnlockMask`; each counter is bumped inside
its mask with no wrap, so a full insertion counter becomes bit 57
(is_high_fence_supremum) and a full split counter becomes bit 51 (the low bit of
the insertion counter, OR-ed in). `SetKeyCount` truncates its argument to 8 bits
(the parameter is `uint8_t`). The `ASSERT_ND`s are debug-only and are not guards.

### PageLatch.tla

State: `ver` (the word), `body` (the page body as two cells, written one after
the other so a read can tear), per writer `wpc`, `wdone`, `muts`, per reader `rpc`,
`v1`, `snap`, `rdone`, `result`, and history variables `origin` and `structural`
used only by properties.

| Action | Code |
|---|---|
| `Lock` | `lock_version`: the read and the CAS are one step, taken only when the word is unlocked (a CAS on a moved word fails and the loop repeats) |
| `DoSetInserting`, `DoSetSplitting`, `DoIncrementKeyCount`, `DoSetKeyCount`, `DoSetHasFosterChild` | the mutators, each one plain write by the holder; `set_inserting_and_increment_key_count` is `DoSetInserting` then `DoIncrementKeyCount` |
| `WriteBody1`, `WriteBody2` | the holder writes the page body (spec 4.2, 5), only inside an inserting or splitting section (`MayWriteBody`); the word's own mutators need only the lock |
| `Unlock` | `unlock_version` |
| `StableVersion`, `StableVersionSpin` | `stable_version`: return when no marker bit is set, otherwise loop |
| `ReadBody`, `Accept`, `Retry` (with `Changed`) | the reader protocol of spec 4.2, steps 2-5 |

Each access to the word is one step because the word is an aligned 64-bit
location (indivisible loads and stores on x86-64), and every write to it other
than the CAS is made by the lock holder, so no plain read-modify-write of the
holder can lose a concurrent update. Memory-ordering effects are not modelled.

Bounds (`PageLatch.cfg`): 2 writers with 1 critical section each, at most 2
mutator calls or body writes per critical section, 1 reader with 2 accepted reads.
The page starts fresh or with both counters one step from wrapping, so the
carries of `unlock_version` happen while a reader is active; two critical
sections are enough for a reader to overlap a full write and for the two writers
to contend for the lock. About 200 000 distinct states.

Fairness: weak fairness of each thread's step relation. Threads are OS threads
pinned to cores that keep running while they can step; the code gives no
fairness between spinning threads, so no strong fairness is assumed. With a
bounded number of critical sections, weak fairness is enough for every spinning
loop to end.

### PageLifecycle.tla

State: per frame the header (`hdr`, the fields of `PageHeader` with `page_version_`
a PageVersion record), the body token `<<life, k>>`, `live` and `life`; per reader
`rpc`, `rpage`, `v1`, `snap`, `tries`, and the history variables `begin` (the
body when v1 was taken) and `bad`.

| Action | Code |
|---|---|
| `Initialize_page` | `VolatilePageInitializer::initialize`: the memset (`ZeroHeader`, zero body), `init_volatile`, `initialize_more` (no header change) |
| `Write` | one writer critical section: `lock_version`, `set_inserting`, body write, `unlock_version` (`CriticalSection`) |
| `Retire` | the pool taking the frame back (spec 5) once no reader holds it: `init_volatile`'s caller owns the frame (spec 4.3) |
| `BeginRead`, `ReadPage`, `Validate` | the optimistic read of spec 4.2 |

A critical section is one step because `PageLatch` already checks its interleavings
and shows that accepted reads see it as atomic. The one run, `insert_counter_aba`,
has 1 frame, 1 life, 64 writes and 1 reader with one read: a full cycle of the
6-bit counter inside one read. `CHECK_DEADLOCK FALSE`: the run ends when the
bounded work is done.

## 5. The other models

### ThreadId.tla

These are pure operators: `compose_thread_id` (node in the high byte, ordinal in
the low byte, narrowed to 16 bits) and the two decompositions. `ComposeRoundTrip`
is checked over all 256 x 256 pairs, because the model walks every (node, ordinal).

### FixedString.tla

Two objects with capacities `MAXLEN` and `MAXLEN2`, as records `[length_, data_]`.
The actions are `assign` from a character sequence (truncating), `assign` from the
other object (recording whether the `ASSERT_ND` fails), and `clear`. `Equal` and
`Less` translate `operator==` and `operator<`. Both compare bytes with `memcmp`
(`Memcmp` over `Bytes`, little-endian for `CharBytes = 4`). They are checked
against `Content` equality and `LexLess`, the order of `std::basic_string`. Bounds:
capacities 2 and 3, inputs up to 4 characters over a 2-character alphabet. One
character is above 127, so the signedness of `memcmp` matters.

### StorageRegistry.tla

State: `storages` (id -> ArrayMetadata record or `NoStorage`), the create `log`, and
the result code of the last create. `Create` runs the registry's checks (duplicate
id, duplicate name, capacity: spec 4.7 and 7), then `GetInstance`
(`ArrayStorageFactory::get_instance`: wrong type, payload 0, array size 0). On
success it makes the storage live and appends `CreateLogEntry` (`add_create_log`).
Errors leave everything unchanged. Bounds: 3 ids, 3 names, an array type and one
other type, sizes 0 or non-zero, and `max_storages = 2`, so every error path is
taken. The run checks the type invariant only. That a refused create leaves no
storage and no log record, and that the log replays to the live storages, follow
from `Create` being one step; the registry that orders the factory calls is not
in `src/`, so nothing of the code could break them. `Recovery` checks what the
create log is for: rebuilding the storages at restart.

### Savepoint.tla and Recovery.tla

`Savepoint` is a record of the six fields. `populate_empty` is current epoch 2,
durable epoch 1 and `Resize` of each vector, which keeps existing entries as
`std::vector::resize` does (`Populated` holds the assignments, so a mutant only
changes the epochs it passes). `save` maps a savepoint to a set of elements
`[tag, pos, value]`, one per scalar and one per vector entry. `load` reads each
field back by its tag (`LoadFields`, the element sequence of `load`).

`Recovery` extends `StorageRegistry` and `Savepoint`. Its state is the registry,
`up`, `epoch`, one log file per logger (`llog`: records with the epoch they were
written in, which stands for the logger's epoch markers, `EpochHistory`), the
last epoch each logger has flushed (`flushed`), the in-memory savepoint `sp`,
the savepoint file, the snapshot metadata file and the epoch up to which it
applied the logs. The history variables are `image` (the registry at the crash)
and `lastSaved`. The `log` of `StorageRegistry` is the process's in-memory
record of its creates: `RCreate` moves each new record into the file of the
worker's logger, and a crash loses it.

| Action | Code |
|---|---|
| `RCreate` | `Create` of `StorageRegistry` in the current epoch |
| `AdvanceEpoch` | the epoch advancing |
| `Flush(l)` | logger `l` has written all its records of the next finished epoch |
| `TakeSavepoint` | the savepoint manager (`WriteSavepoint(Progress(begin, end))`): durable epoch = least epoch every logger flushed, each logger's durable offset = the marker of the epoch after it (`UpTo`), the active region of each file begins after the records the last snapshot applied (`oldest_log_files_offset_begin_`), `save` writes the file |
| `Snapshot` | metadata.hpp, section WRITE: the previous snapshot plus the durable logs of epochs up to the savepoint's durable epoch; each covered storage gets a new root page, and a clone goes to the snapshot metadata |
| `Crash` | the registry, the log buffer and `sp` are lost; each file keeps at least what its logger flushed and maybe more |
| `Restart` | `load`, or `populate_empty` when there is no file; cut each logger's file at its durable offset; every logger resumes from the loaded durable epoch (`RecoveredFlush`); rebuild the registry from the snapshot metadata (`NewMetadataWithRoot`) and, for storages it does not hold, the create logs of each file's active region (`NewMetadata`, no root), keeping clones |

No fairness is assumed: the properties are safety properties. The loggers and
the savepoint manager are not in `src/`, so a liveness property about them would
check only spec-modelled actions.

Bounds: 2 loggers, 2 ids, 2 names, epochs up to 4, two snapshots, two crashes,
about 925 000 states in about 2 minutes. Each logger has one log file, so
`oldest_log_files_` and `current_log_files_` stay 0. Epoch 2 is the first with
transactions. With epochs up to 4, one logger can have flushed epoch 3 while the
other has flushed only epoch 2, and a storage can be created in either. The
second snapshot gives a storage a new root page over an old one; the second
crash hits an engine restarted from a savepoint.

## 6. Findings

* `supremum_cleared` (code): `kPageVersionUnlockMask` omits bit 57, so the first
  `unlock_version` clears `is_high_fence_supremum`, which is set only by `initialize`.
* `split_counter_wrap` (spec/code divergence): at 2^18 - 1 the split counter's carry
  is OR-ed into the insertion counter rather than wrapping.
* `fixed_string_full_copy` (code): the assertion of `assign(FixedString)` should be
  `<=`. Copying a full string into a `FixedString` of another capacity aborts a
  debug build.
* `fixed_string_wchar_order` (code): `operator<` is not the `std::wstring` order for
  `wchar_t` on little-endian machines.
* `insert_counter_aba` (spec gap): the 6-bit insertion counter repeats after 64
  inserts. A reader delayed that long accepts a changed page, and spec 4.2 puts no
  bound on how long a read may take.
* `insert_counter_carry` (code): at 63 the insertion counter's carry is bit 57, so
  the 64th inserting unlock sets `is_high_fence_supremum` on a page created
  without it.
* `silent_critical_section` (spec/code divergence): `lock_version`'s comment makes
  inserting/splitting optional, and `unlock_version` bumps a counter only when one
  was set. A section that only changes the key count or the foster flag completes
  with the counters unchanged, against spec T5.

## 7. Not modelled

* Memory ordering (fences): the models are sequentially consistent.
* Checksum computation, page_id encoding (VolatilePagePointer is not in `src/`).
* XML externalisation, logging, ostream printing, CMake lists.
* The explicit copy constructor and `operator=` of `Metadata`: nothing in `src/`
  calls them, and the registry copies metadata through `clone_base`.
* A savepoint file torn by a crash while it is written, and `load` of a document
  with a missing element. How the file is written is up to the savepoint manager,
  which is not in `src/`.
* `TimeoutMicrosec` (a typedef), EpochHistory printing, the CMake list.
* What remains of the counted source is unmodelled for the reasons above. The
  copy constructor and `operator=` have no caller. `epoch_history.cpp` only
  prints, and its epoch markers are modelled by `UpTo`. Covering those lines
  would mean mapping code that no modelled operation runs.
* Liveness of durability, and the retirement of frames while a reader holds them:
  the loggers, the savepoint manager and the page pool are not in `src/`.
  `init_volatile` requires exclusive ownership of the frame (spec 4.3), so
  `PageLifecycle` retires a frame only when no reader holds it.
* `ArrayStorage::prefetch_pages` and `describe` forward to the pimpl or print.
* The ABA case with concurrent writers: `insert_counter_aba` uses atomic
  critical sections and one reader, which is enough for the counter to wrap.
