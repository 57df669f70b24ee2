# TLA+ models of the Acorn page store

This directory holds TLA+ models of the Acorn storage engine in `src/`, the TLC
configurations that check them, and `PROJECT.json`, which maps every definition
to the source lines it models and lists the runs, mutants, findings and hazards.

## 1. Inventory

### Components

| Component | Source | State it keeps | Operations |
|---|---|---|---|
| Write-ahead log (`Wal`) | `crates/acorn/src/page_store/wal.rs` | generation queue (one file per generation, items appended, a flushed prefix), in-memory `State` (`dirty_pages`, `transactions`) | `create`, `open`, `log_write`, `log_commit`, `undo`, `recover`, `cache_did_flush`, `checkpoint` (periodic and size triggered), `cleanup_generations` |
| Buffer cache and transaction layer (client of the WAL) | not in `src/`; specified in `spec.md` §2, §4.D.2, §4.E | in-memory pages, on-disk pages | write a page (log, then update), commit, abort (undo), flush all pages then `cache_did_flush`, evict one page |
| Physical storage and descriptor cache | `crates/acorn/src/page_store/physical.rs` | map segment number → open segment file, a replacer, read/write lock | `read`, `write` via `use_segment`, `get_descriptor`, `store_descriptor` |
| Tri-queue cache replacer | `acorn/src/cache/manager.rs` (`CacheManager`); the newer `utils::cache::CacheReplacer` used by physical storage is not in `src/` | queues `fast`, `slow`, `graveyard`, caps `L/4`, `L/2` | `access`, `reclaim` |
| Legacy WAL file | `acorn/src/wal.rs` | file bytes after the header, an unwritten buffer | `init`, `load` (header checks), `log_write` (buffer), `commit` (write buffer), `cancel`, `iter` |
| Freelist pages | `crates/acorn/src/doc_store/pages.rs`, `acorn/src/format/pages/freelist.rs` | length field and item slots of a freelist page | `push_item`/`push_page`, `pop_item`/`pop_page`, `is_full` |
| Storage file buffer | `acorn/src/storage/file.rs` | a byte vector | `read_at`, `write_at` (`get_buf_range`) |
| Segment file, folder, WAL file encoding | not in `src/` (`files::*`) | bytes on disk | opened through the `DatabaseFolderApi` and `WalFileApi` traits |
| Page ids, errors | `acorn/src/index.rs`, `crates/acorn/src/storage/mod.rs` | plain data | formatting, conversions |

### How they interact

The client logs each page mutation with `log_write` before applying it to the
in-memory page, and ends a transaction with `log_commit` (append, then flush
the current generation) or `undo` (compensation writes plus a commit, applied to
the in-memory pages through the `handle` callback). The buffer cache writes
pages to segment files through physical storage whenever it likes (steal, no
force) and, after writing all of them, calls `cache_did_flush`, which empties
the WAL's dirty-page table. A background thread pool runs checkpoints: one
task on a timer and one task per append that leaves the current generation
above `max_generation_size`. A checkpoint rotates to a new generation under
the generation write lock, deletes generations older than the oldest open
transaction, releases the lock, and only then appends the `Checkpoint` item.
After a crash, `open` rebuilds the generation queue from the files on disk and
`recover` seeds `State` from the first checkpoint of the current generation,
replays that generation, redoes its writes into the pages, and undoes every
transaction still open.

### What is hard

* Concurrency: client threads append while checkpoint tasks rotate generations;
  the checkpoint item is appended after the rotation lock is released, so other
  items can land before it, and several size-triggered checkpoints can be in
  flight at once (`wal.rs:363-369`, `wal.rs:428-435`).
* Crashes: only the flushed prefix of each generation file survives for sure;
  commits flush, writes, undo and checkpoints do not.
* Recovery reads only the current generation (`wal.rs:521-528`) while dirty
  pages and open transactions can point into older ones.
* Partial failure: `push_raw_item` updates `State` before the append that may
  fail (`wal.rs:357-361`); a failed periodic checkpoint is logged and dropped
  after a rotation may already have happened (`wal.rs:439-446`).
* Bounded caches: the replacer's caps are `L/4` and `L/2` and may be zero;
  the descriptor cache can miss on the same segment in two threads
  (`physical.rs:57-66`).

### What makes each component correct

* WAL and recovery: after recovery every page holds its last committed value
  (durability for committed transactions, atomicity for the ones open at the
  crash); `undo` restores every page the transaction wrote; `State` tracks
  exactly the open transactions and points into generations still on disk;
  the dirty-page table only points into generations still on disk.
* Replacer: a key is resident in at most one of `fast`/`slow`; `graveyard`
  stays within its cap; `reclaim` returns `None` only when nothing evictable
  is resident.
* Physical storage: at most `max_num_open_segments` descriptors open; one
  descriptor per segment.
* Freelist page: length never exceeds the slot count; pop returns the last
  pushed id.

## 2. Plan

Modules, in order of importance (done unless marked):

1. `Wal.tla`: the WAL of `page_store/wal.rs` with a minimal client (buffer
   cache and transactions, modelled from `spec.md`). It covers logging, commit,
   undo, cache flush and eviction, the two-step checkpoint with cleanup, a
   crash that loses unflushed suffixes, open and recover. `FaultSpec` adds a
   failing append.
2. `CacheManager.tla`: the tri-queue replacer of `cache/manager.rs`.
3. `LegacyWal.tla`: the buffered log of `acorn/src/wal.rs`, with a byte-level
   model of `BufReader` for `iter`, and a `write_all` that fails part way.
4. `PageStack.tla`, `FreelistPage.tla` and `FormatFreelist.tla`: the stack a
   freelist page promises, and the two freelist page layouts shown to
   implement it.
5. `PhysicalStorage.tla`: `use_segment` with two threads, the read/write
   lock and the descriptor cache, composed with the replacer of
   `CacheManager.tla` through `INSTANCE`. It has the project's liveness
   property.
6. Planned: an abstract transactional page store refined by `Wal` in the
   configurations where recovery is correct.

## 3. Modules and runs

Each module below is listed with the code it stands for.

### `Wal.tla`

State (`VARIABLES`) and the code it stands for:

| Variable | Code |
|---|---|
| `files` | `GenerationQueue.generations` and the WAL files on disk: generation number → sequence of items |
| `durable` | per generation, the length of the prefix flushed by `flush_impl` |
| `dirty`, `txns` | `State.dirty_pages`, `State.transactions` |
| `pending` | checkpoint tasks that rotated but have not yet run `log_checkpoint` |
| `mem`, `disk` | client: in-memory pages and pages on disk (spec-modelled) |
| `db`, `tstatus`, `tpages`, `twrites` | client: last committed value of each page, transaction status, pages written, writes done (spec-modelled) |
| `up`, `crashes` | whether the process is running, and the number of crashes so far |

A WAL index is a record `[gen, off]` ordered lexicographically; `off` is the
item's position in its file (the code's byte offset orders items the same way).
Page contents are abstracted to a small set `Vals`; a write carries `from` and
`to` values as in `WriteData`.

Actions: `Write` (client `log_write` + page update), `Commit` (`log_commit`),
`Abort` (`undo`), `CacheFlush` (pages to disk + `cache_did_flush`),
`EvictPage`, `Rotate` and `LogCheckpoint` (the two halves of `checkpoint`),
`Crash`, `Recover` (`open` + `recover`).

Assumptions about the client (the buffer cache is not in `src/`): a page
written by an open transaction is not written by another open transaction
(the document store's locking), and `log_write` and the page update happen
under the page's latch, so a cache flush never falls between them.
`WalBeforeData` chooses whether the cache flushes pages only when the whole
log is durable; `spec.md` §5 guarantees no such ordering.

Runs are listed in `PROJECT.json`; their bounds and results are described in
section 4.

### `CacheManager.tla`

`fast`, `slow` and `graveyard` are the three `VecDeque`s of `CacheManager`.
The head of a sequence is the front of the queue: `push_front` prepends and
`pop_back` takes `Last`. `FastCap` and `GraveyardCap` are `length / 4` and
`length / 2`, as in `new`. `Access` and `Reclaim` translate `access` and
`reclaim` branch for branch. `Reclaim` returns the new queues together with
the returned key, given as a set of zero (`None`) or one key.

The module has no next-state relation of its own. `resident`, the set of
keys the owning cache holds, is supplied by the instantiating module.
`PhysicalStorage` substitutes its descriptor map. `ResidentTracked` is
checked there as `ReplacerTracked`. With `max_num_open_segments = 2`,
`fast_cap` is 0 there, the small-length edge of `new`.

### `Wal.tla`: I/O faults

`faults` counts failed appends, up to `MaxIoFaults`. The action `WriteFails`
is `push_raw_item` when `wal_file.push_item` returns an error:

* `handle_item` has already updated `State` (`wal.rs:357-358`), so the
  transaction's `last_index` moves to an index no item holds;
* nothing is appended;
* the client's page is left alone, since `log_write` returned the error.

It appears only in `FaultNext`/`FaultSpec`. The passing runs check `Spec`, in
which appends do not fail.

### `Wal.tla`: a cache flush racing a write

`CacheFlush` is one step: pages to disk, then `cache_did_flush` clears
`dirty_pages` (`wal.rs:540-543`). Nothing in `spec.md` 4.D stops a client
write between the two. `FlushRacesWrite` is that interleaving:

* the cache writes every page;
* a write is logged and sets its page's entry;
* the page is updated;
* `cache_did_flush` clears every entry, the new one included.

It appears only in `RacyFlushNext`/`RacyFlushSpec`. `DirtyCoversStale`
states the meaning `spec.md` §3 gives the table: while the process runs,
a page whose disk copy differs from memory has an entry. Redo relies on
this. A checkpoint taken after the race records the page as clean, and
after a crash the committed write is not redone.

### `LegacyWal.tla`

`file` is the byte sequence after `log_start`. A page id is `IdSize` equal
bytes and a page image is `PageSize` equal bytes, so a read at the wrong
offset yields a different record. `buf` is `Wal.buf`. `committed` and `logged`
are the records of the commits that returned `Ok` and of the buffer.

* `Iterate` translates `Iter::next`:
  * the page id is read with one `BufReader::read`;
  * a short read ends the iteration;
  * the page is read with `read_exact`.
* `BufRead` and `ReadExact` model `std::io::BufReader`, which is outside
  `src/`:
  * a request of at least the capacity with an empty buffer bypasses it;
  * otherwise the buffer is filled when empty and the request is served from
    it alone.

Actions:

* `LogWrite` appends to the buffer.
* `Commit` is a successful `write_all` followed by `buf.clear()`.
* `CommitFails` writes a prefix of the buffer and returns through `?` without
  clearing it.
* `Cancel` and `Clear` empty the buffer and the file.
* `Reopen` is a restart through `load`.

`ReliableSpec` leaves out `CommitFails`.

### `PageStack.tla`, `FreelistPage.tla`, `FormatFreelist.tla`, `MCFreelists.tla`

`PageStack` is what the allocator expects of a freelist page:

* a stack of at most `Cap` ids;
* a push onto a full stack is refused;
* a pop of an empty stack returns `None`;
* any call may fail with an I/O error and change nothing.

Each page layout is checked against it:

* `FreelistPage` (`doc_store/pages.rs`) keeps `slots`, indexed from 0, and
  the `length` field. `Init` leaves the slots as the page held them.
  * `PushItem` translates `push_item` with `offset_for_index`'s bound.
  * `PopItem` translates `pop_item`'s walk down over zeroed slots.
  * The constant `PartialSlot` says whether the page body leaves a partial
    slot after `NUM_SLOTS` whole ones. That depends on `PAGE_BODY_SIZE`,
    which is not in `src/`.
* `FormatFreelist` (`format/pages/freelist.rs`) translates `is_full`,
  `push_page` and `pop_page` on an array of `NumPages` slots.

Each module maps its state onto the abstract stack and states
`Abstract!Spec` as a property (`ImplementsPageStack`). `FreelistPage` skips
zeroed slots below the length in its mapping. `MCFreelists` instantiates
both layouts side by side, with the variables renamed apart. One step is a
push or pop on either page. Both refinements are checked in one run:
`DocImplementsPageStack` and `FmtImplementsPageStack`.

### `PhysicalStorage.tla`

| Variable | Code |
|---|---|
| `descriptors` | `DescriptorCache.descriptors`. A descriptor is the number of the `open_segment_file` call that produced it. |
| `fast`, `slow`, `graveyard` | the queues of `DescriptorCache.replacer` |
| `readers`, `writer` | holders of the shared and exclusive guards of `descriptor_cache` |
| `pc`, `seg`, `hdl` | per thread: where it is in `use_segment`, the segment its call addresses, and the descriptor it holds |
| `opens` | `open_segment_file` calls so far, bounded by `MaxOpens` |

Actions:

* `Lookup` takes the shared lock. On a hit, `get_descriptor` touches the
  replacer and the handler runs under the lock. On a miss, the lock is
  dropped.
* `Open` is `open_segment_file`. It returns a new descriptor or an error
  through `?`.
* `Store` takes the exclusive lock, runs `store_descriptor`, and the handler
  runs under that lock.
* `Done` is the handler returning, which releases the guard.

The replacer is `utils::cache::CacheReplacer`, which is not in `src/`.
`spec.md` §4.C says it is the same tri-queue as `CacheManager`. The model
therefore reuses `CacheManager`'s `Access` and `Reclaim` through
`INSTANCE ... WITH Keys <- Segs, Length <- MaxOpen`. `EvictReplace` (from
`spec.md`) reclaims a key when the replacer already tracks `MaxOpen` keys,
then accesses the new key.

Fairness:

* `Open` and `Done` are weakly fair: an open call and a running handler
  finish.
* `Store` is strongly fair, because parking_lot's `RwLock` is task-fair and
  does not let readers starve a waiting writer. With weak fairness only, TLC
  finds a thread that waits forever for the exclusive lock while the other
  thread keeps hitting under the shared lock.
* `Lookup` is not fair, since a caller need not call again.

Two threads missing on the same segment both open and store it. The second
`store_descriptor` then breaks its `debug_assert!(!contains_key)`
(`physical.rs:137`). `StoreUncached` states the assertion as an action
property. The `double_store` run shows it violated in 8 steps: a debug build
panics under an ordinary race. In a release build the first descriptor is
replaced.

## 4. Runs, bounds and results

Only `PhysicalStorage` assumes fairness (see above) and states a liveness
property. In the WAL, the periodic checkpoint timer and the client are free
to stop at any point, so the code guarantees no progress there that a
fairness condition could stand for. Every other property is a safety
property: an invariant, an action property `[][A]_v`, or a refinement
`Abstract!Spec`.

| Run | Bounds | Result | What it shows |
|---|---|---|---|
| `wal_run` | 2 pages, 2 txns, values {0,1}, generations 0..1, 2 writes per txn, no crash, cache free to steal, symmetry on pages and txns | holds, about 1.4 M distinct states | Writes, commits, undos, flushes, evictions and two-step checkpoints interleave. Throughout, `State.transactions` equals the open transactions, each `first_gen` is on disk, and each `last_index` names one of the transaction's writes (`OpenTxnsTracked`). Every page whose disk copy is stale has a `dirty_pages` entry, through compensations and rotations (`DirtyCoversStale`). |
| `wal_recover` | generation 0 only, 1 write per txn, up to 2 crashes, cache obeys write-ahead ordering | holds, about 3.7 k states | Recovery leaves every page that is not open at its committed value (`RecoveryDurable`). The crash may cut the unflushed log anywhere, and a second crash may come after recovery's unflushed compensations. State stays consistent (`OpenTxnsTracked`), and `DirtyCoversStale` holds after recovery too. With two writes per transaction, `RecoveryDurable` fails through the `undo_partial` bug: an aborted first write survives and is replayed. Rotation is left to `lost_commit`, where it fails. |
| `legacy_wal` | 2 pages, 2 values, id 2 bytes, page 4 bytes, reader capacity 8, at most 18 bytes, writes never fail | holds, 313 states | `iter` yields exactly the committed records, in order (`ReplayCommitted`). This holds across cancel, clear and restart. |
| `freelists` | 3 ids; doc_store page with 3 slots, no partial slot, arbitrary initial slots; format page with 4 slots | holds, about 398 k states | `push_item`/`pop_item` implement `PageStack` (`DocImplementsPageStack`), and so do `push_page`/`pop_page`/`is_full` (`FmtImplementsPageStack`). |
| `physical_storage` | 2 threads, 3 segments, 2 descriptors (fast cap 0, graveyard cap 1), 5 opens | holds, about 118 k states | The replacer's queues hold exactly the cached segments, once each, and keep `fast` apart from the graveyard, at `fast_cap` 0 (`ReplacerTracked`). Every call returns under the task-fair lock (`OperationsComplete`). |
| `double_store` | 2 threads, 3 segments, 2 descriptors, 2 opens | violated | Both threads miss on one segment. Each opens it, and the second `store_descriptor` finds it cached, against its `debug_assert` (`StoreUncached`, `physical.rs:137`). |
| `undo_partial` | generation 0, 2 writes per txn | violated | `undo` of a transaction that wrote one page twice leaves its first write. The scan stops below the *last* index (`wal.rs:317`). |
| `lost_commit` | generations 0..1, 1 crash | violated | A write is committed, a rotation deletes generation 0, and the process crashes before the checkpoint item. Recovery reads only the empty generation 1, and the committed value is lost (`wal.rs:521-528`, `wal.rs:434`). |
| `flush_race` | generation 0, 1 write per txn, no crash, `RacyFlushSpec` | violated | A transaction writes and commits. The cache writes all pages, and a second write lands before `cache_did_flush`. The flush clears that write's entry while the disk holds the old page (`DirtyCoversStale`, `wal.rs:541`). |
| `append_fails` | generation 0, 1 write per txn, 1 failing append | violated | An append fails after `State` took its index as `last_index`. Undo then starts at that index, which holds no item, so the transaction's real write is not compensated (`wal.rs:357-361`). With one write per transaction, this is not the `undo_partial` bug. |
| `torn_commit` | legacy log, 1 failing `write_all`, 8 bytes | violated | A failed `write_all` leaves a torn record. The client retries or goes on, and the next commit lands behind the torn bytes, so iteration misreads every record after them (`wal.rs:131-135`). |
| `short_id` | legacy log, page 1 byte, reader capacity 4 | violated | When the page size does not divide the reader's capacity, a page id straddles a buffer refill. The single `read` of the id comes back short and iteration stops before committed records (`wal.rs:170-174`). |

The mutants in `PROJECT.json` show that each property of a passing run can
fail. Each replaces one mapped definition with a plausible bug, for example:

* cleanup also deleting the first needed generation;
* redo skipping the first dirtying write;
* `access` ignoring `fast`;
* a compensation write not dirtying its page.

TLC finds the property violated in every case.

Why the bounds suffice:

* Two transactions and two pages are enough for a transaction to be open
  across a checkpoint while the other commits or aborts.
* Two generations give one rotation with a cleanup decision.
* Two writes per transaction give the "earlier write" case of undo.
* Two crashes cover a crash during the state left by a recovery.
* For the legacy log, 18 bytes hold three 6-byte records. The 8-byte reader
  capacity is twice the page size, so an id read is never short. Both violation runs change
  exactly one of these.
* Three slots and three ids let a freelist page fill, refuse a push and empty
  again. Arbitrary initial slots cover a page reused with stale ids.
* For physical storage, two descriptors with three segments force evictions.
  With two threads, one can hold the shared lock while the other waits to
  store, and both can miss on one segment. Five opens let the cache fill,
  evict and refill after a failed open.
* For the replacer, two descriptors make `fast_cap` 0 and `graveyard_cap` 1.
  A key then goes from `fast` to the graveyard on the first reclaim, and three
  segments let it come back through the graveyard into `slow`.

## 5. Not modelled

* Failures of `flush` and of file deletion. Only a failing append is
  modelled. A checkpoint that fails after its rotation and whose error is
  swallowed (`wal.rs:439-446`) leaves the same state as a crash between
  `Rotate` and `LogCheckpoint`. `lost_commit` covers that state.
* A partial cleanup: `pop_front` before a failing `delete_wal_file` leaves a
  file on disk that the queue has dropped. `Wal::open` would find it again.
  Modelling this needs a directory listing apart from the queue.
* `prev_transaction_item` back pointers: nothing in recovery or undo reads
  them.
* Byte layout of WAL items and the WAL file header. The legacy log is modelled
  by bytes only after its header.
* A freelist page with a partial slot. With `PartialSlot = TRUE`, a push into
  the partial slot is accepted past `NUM_SLOTS` and breaks
  `ImplementsPageStack`. No run is kept for it, because `PAGE_BODY_SIZE` is
  outside `src/`.
* The `MetaPage` of `doc_store/pages.rs`.
* The storage file buffer of `storage/file.rs`, and segment file contents
  behind physical storage.
* A cache that writes pages before their log items are durable
  (`WalBeforeData = FALSE` with a crash). Recovery then fails, which
  shows that `spec.md` states no write-ahead rule for the cache. No run is
  kept for it, because that ordering is the buffer cache's duty, and the
  buffer cache is not in `src/`.
* Page ids and error types are plain data.
* The window between `Wal::open` and `recover`. `Wal::new` starts the
  periodic checkpoint task (`wal.rs:132`) before recover runs. A rotation in
  that window computes cleanup from an empty `State`. The model makes open
  and recover one step. Any run with rotation and a crash already fails
  `RecoveryDurable` through `lost_commit`.
* `evict_replace` returning `None` for a full map (`spec.md` line 218). The
  replacer of `crates/acorn` is not in `src/`. The tri-queue of `manager.rs`
  always names a tracked key when full.
