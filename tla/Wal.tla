--------------------------------- MODULE Wal ---------------------------------
(***************************************************************************)
(* The write-ahead log of crates/acorn/src/page_store/wal.rs: generations  *)
(* of items, the in-memory State, commit, undo, the two-step checkpoint    *)
(* with generation cleanup, crash and recovery.  The WAL's client (the     *)
(* buffer cache and the transaction layer, not part of src/) is modelled   *)
(* from spec.md: it logs a write before applying it to the page, commits,  *)
(* aborts, and writes pages to disk whenever it likes.                     *)
(***************************************************************************)
EXTENDS Naturals, Sequences, FiniteSets, SequencesExt, FiniteSetsExt

CONSTANTS
    Pages,          \* page addresses
    Txns,           \* transaction ids
    Vals,           \* page contents
    InitVal,        \* content of a page never written
    NoVal,          \* an absent `from` (compensation write)
    NoIdx,          \* no entry in dirty_pages
    NoTxn,          \* no entry in transactions
    MaxGen,         \* highest generation number a checkpoint may create
    MaxWrites,      \* writes per transaction
    MaxCrashes,     \* crashes per behaviour
    MaxIoFaults,    \* failing appends per behaviour (FaultSpec only)
    WalBeforeData   \* the cache writes pages only while the log is durable

ASSUME /\ InitVal \in Vals
       /\ NoVal \notin Vals
       /\ MaxGen \in Nat /\ MaxWrites \in Nat \ {0} /\ MaxCrashes \in Nat
       /\ MaxIoFaults \in Nat
       /\ WalBeforeData \in BOOLEAN

VARIABLES
    files,      \* generation number -> sequence of items (the queue / files)
    durable,    \* generation number -> length of its flushed prefix
    dirty,      \* State.dirty_pages
    txns,       \* State.transactions
    pending,    \* checkpoint tasks between rotation and log_checkpoint
    mem,        \* client: in-memory pages
    disk,       \* client: pages in the segment files
    db,         \* client: last committed value of each page
    tstatus,    \* client: "idle", "active", "committed", "aborted", "lost"
    tpages,     \* client: pages written by each transaction
    twrites,    \* client: writes done by each transaction
    up,         \* the process is running
    crashes,    \* the number of crashes so far
    faults      \* the number of appends that failed so far

walVars == <<files, durable, dirty, txns, pending>>
clientVars == <<mem, disk, db, tstatus, tpages, twrites>>
vars == <<walVars, clientVars, up, crashes, faults>>

-----------------------------------------------------------------------------
(* WAL indices, items and State (wal.rs:586-645).                          *)

Gens == 0..MaxGen
Idx == [gen : Gens, off : Nat \ {0}]
TxnState == [first_gen : Gens, last_index : Idx]

\* WalIndex is ordered by generation, then offset.
IdxLess(a, b) == a.gen < b.gen \/ (a.gen = b.gen /\ a.off < b.off)

WriteItem(t, p, from, to) ==
    [kind |-> "write", txn |-> t, page |-> p, from |-> from, to |-> to]
CommitItem(t) == [kind |-> "commit", txn |-> t]
CheckpointItem(st) == [kind |-> "ckpt", dirty |-> st.dirty, txns |-> st.txns]

Item ==
    [kind : {"write"}, txn : Txns, page : Pages, from : Vals \cup {NoVal}, to : Vals]
    \cup [kind : {"commit"}, txn : Txns]
    \cup [kind : {"ckpt"}, dirty : [Pages -> Idx \cup {NoIdx}],
                           txns : [Txns -> TxnState \cup {NoTxn}]]

EmptyState == [dirty |-> [p \in Pages |-> NoIdx], txns |-> [t \in Txns |-> NoTxn]]
CurState == [dirty |-> dirty, txns |-> txns]

\* Mutant: a new transaction's first generation taken one too high.
TrackTransactionNextGen(ts, idx, t) ==
    [ts EXCEPT ![t] = IF @ = NoTxn THEN [first_gen |-> idx.gen + 1, last_index |-> idx]
                                   ELSE [@ EXCEPT !.last_index = idx]]

\* State::track_transaction
TrackTransaction(ts, idx, t) ==
    [ts EXCEPT ![t] = IF @ = NoTxn THEN [first_gen |-> idx.gen, last_index |-> idx]
                                   ELSE [@ EXCEPT !.last_index = idx]]

\* Mutant: a compensation write (no `from`) does not dirty its page.
TrackWriteNotUndo(st, idx, item) ==
    [dirty |-> IF st.dirty[item.page] = NoIdx /\ item.from # NoVal
               THEN [st.dirty EXCEPT ![item.page] = idx] ELSE st.dirty,
     txns |-> TrackTransaction(st.txns, idx, item.txn)]

\* State::track_write: the first dirtying index of a page is kept.
TrackWrite(st, idx, item) ==
    [dirty |-> IF st.dirty[item.page] = NoIdx
               THEN [st.dirty EXCEPT ![item.page] = idx] ELSE st.dirty,
     txns |-> TrackTransaction(st.txns, idx, item.txn)]

\* State::handle_item
HandleItem(st, idx, item) ==
    CASE item.kind = "write"  -> TrackWrite(st, idx, item)
      [] item.kind = "commit" -> [st EXCEPT !.txns[item.txn] = NoTxn]
      [] OTHER                -> st

\* State::first_needed_generation; MaxGen + 1 stands for u64::MAX.
FirstNeededGeneration(st) ==
    LET open == {t \in Txns : st.txns[t] # NoTxn}
    IN IF open = {} THEN MaxGen + 1 ELSE Min({st.txns[t].first_gen : t \in open})

-----------------------------------------------------------------------------
(* Appending (wal.rs:347-372) and undo (wal.rs:263-345).                   *)

CurGen == Max(DOMAIN files)

\* push_raw_item for each item in turn: the index is the next offset of the
\* current generation, State handles the item, then the item is appended.
PushItems(st, log, items) ==
    LET step(acc, item) ==
            LET idx == [gen |-> CurGen, off |-> Len(acc.log) + 1]
            IN [st |-> HandleItem(acc.st, idx, item), log |-> Append(acc.log, item)]
    IN FoldLeft(step, [st |-> st, log |-> log], items)

\* The handle callback applied to the in-memory pages.
ApplyWrites(m, items) == FoldLeft(LAMBDA acc, it : [acc EXCEPT ![it.page] = it.to], m, items)

Entries(fs) ==
    UNION {{<<[gen |-> g, off |-> i], fs[g][i]>> : i \in DOMAIN fs[g]} : g \in DOMAIN fs}

\* The scan of undo_all: generations newest first, each file backwards,
\* stopping below the lowest last_index of the victims; every write of a
\* victim that has a `from` becomes a compensation write (create_undo_log).
Compensations(st, fs, victims) ==
    LET last == {st.txns[t].last_index : t \in {v \in victims : st.txns[v] # NoTxn}}
        lowest == CHOOSE i \in last : \A j \in last : ~IdxLess(j, i)
        found == {e \in Entries(fs) : /\ ~IdxLess(e[1], lowest)
                                      /\ e[2].kind = "write"
                                      /\ e[2].txn \in victims
                                      /\ e[2].from # NoVal}
        scan == SetToSortSeq(found, LAMBDA a, b : IdxLess(b[1], a[1]))
    IN [k \in DOMAIN scan |-> WriteItem(scan[k][2].txn, scan[k][2].page, NoVal, scan[k][2].from)]

\* Mutant: undo_all logs the compensations but no commit for the victims.
UndoAllNoCommit(st, fs, m, victims) ==
    IF \A t \in victims : st.txns[t] = NoTxn
    THEN [st |-> st, log |-> fs[CurGen], mem |-> m]
    ELSE LET comps == Compensations(st, fs, victims)
             pushed == PushItems(st, fs[CurGen], comps)
         IN [st |-> pushed.st, log |-> pushed.log, mem |-> ApplyWrites(m, comps)]

\* undo_all: nothing if no victim is open; otherwise log and apply the
\* compensations in scan order, then log a commit for every victim.
UndoAll(st, fs, m, victims) ==
    IF \A t \in victims : st.txns[t] = NoTxn
    THEN [st |-> st, log |-> fs[CurGen], mem |-> m]
    ELSE LET comps == Compensations(st, fs, victims)
             order == SetToSeq(victims)
             commits == [k \in DOMAIN order |-> CommitItem(order[k])]
             pushed == PushItems(st, fs[CurGen], comps \o commits)
         IN [st |-> pushed.st, log |-> pushed.log, mem |-> ApplyWrites(m, comps)]

AllDurable == \A g \in DOMAIN files : durable[g] = Len(files[g])

-----------------------------------------------------------------------------
(* Wal::create (wal.rs:84-97): generation 0 holding an empty checkpoint,  *)
(* not yet flushed; the client has written nothing.                       *)

Init ==
    /\ files = (0 :> <<CheckpointItem(EmptyState)>>)
    /\ durable = (0 :> 0)
    /\ dirty = EmptyState.dirty
    /\ txns = EmptyState.txns
    /\ pending = 0
    /\ mem = [p \in Pages |-> InitVal]
    /\ disk = mem
    /\ db = mem
    /\ tstatus = [t \in Txns |-> "idle"]
    /\ tpages = [t \in Txns |-> {}]
    /\ twrites = [t \in Txns |-> 0]
    /\ up = TRUE
    /\ crashes = 0
    /\ faults = 0

\* Set the WAL variables from the result of push_raw_item / undo_all.
SetLog(log, st) ==
    /\ files' = [files EXCEPT ![CurGen] = log]
    /\ dirty' = st.dirty
    /\ txns' = st.txns

\* A client write: log_write (wal.rs:490-494), then the page update under
\* the page's latch.  Another open transaction does not hold the page.
Write(t, p, v) ==
    /\ up
    /\ tstatus[t] \in {"idle", "active"}
    /\ twrites[t] < MaxWrites
    /\ \A u \in Txns \ {t} : tstatus[u] = "active" => p \notin tpages[u]
    /\ LET r == PushItems(CurState, files[CurGen], <<WriteItem(t, p, mem[p], v)>>)
       IN SetLog(r.log, r.st)
    /\ mem' = [mem EXCEPT ![p] = v]
    /\ tstatus' = [tstatus EXCEPT ![t] = "active"]
    /\ tpages' = [tpages EXCEPT ![t] = @ \cup {p}]
    /\ twrites' = [twrites EXCEPT ![t] = @ + 1]
    /\ UNCHANGED <<durable, pending, disk, db, up, crashes, faults>>

\* A client write whose append fails (push_raw_item, wal.rs:355-361): the
\* index is taken and State handles the item before wal_file.push_item
\* returns the error, which log_write passes to the client; the page is
\* not updated and the client's transaction goes on as before.
WriteFails(t, p, v) ==
    /\ up
    /\ faults < MaxIoFaults
    /\ tstatus[t] \in {"idle", "active"}
    /\ \A u \in Txns \ {t} : tstatus[u] = "active" => p \notin tpages[u]
    /\ LET r == PushItems(CurState, files[CurGen], <<WriteItem(t, p, mem[p], v)>>)
       IN SetLog(files[CurGen], r.st)
    /\ faults' = faults + 1
    /\ UNCHANGED <<durable, pending, clientVars, up, crashes>>

\* log_commit (wal.rs:496-502): append the commit, then flush the current
\* generation.  The transaction's pages become its committed values.
Commit(t) ==
    /\ up
    /\ tstatus[t] = "active"
    /\ LET r == PushItems(CurState, files[CurGen], <<CommitItem(t)>>)
       IN /\ SetLog(r.log, r.st)
          /\ durable' = [durable EXCEPT ![CurGen] = Len(r.log)]
    /\ db' = [p \in Pages |-> IF p \in tpages[t] THEN mem[p] ELSE db[p]]
    /\ tstatus' = [tstatus EXCEPT ![t] = "committed"]
    /\ UNCHANGED <<pending, mem, disk, tpages, twrites, up, crashes, faults>>

\* undo (wal.rs:504-512): under the generation write lock, flush the current
\* generation, then undo_all for this one transaction.
Abort(t) ==
    /\ up
    /\ tstatus[t] = "active"
    /\ LET r == UndoAll(CurState, files, mem, {t})
       IN /\ SetLog(r.log, r.st)
          /\ mem' = r.mem
    /\ durable' = [durable EXCEPT ![CurGen] = Len(files[CurGen])]
    /\ tstatus' = [tstatus EXCEPT ![t] = "aborted"]
    /\ UNCHANGED <<pending, disk, db, tpages, twrites, up, crashes, faults>>

\* The buffer cache writes every page, then calls cache_did_flush
\* (wal.rs:540-543, State::cache_did_flush).
CacheFlush ==
    /\ up
    /\ WalBeforeData => AllDurable
    /\ disk' = mem
    /\ dirty' = EmptyState.dirty
    /\ UNCHANGED <<files, durable, txns, pending, mem, db, tstatus, tpages, twrites, up, crashes, faults>>

\* The buffer cache writes every page and, before it calls cache_did_flush,
\* a client write lands (log_write, then the page update): State then
\* clears the entry that write put in dirty_pages (wal.rs:540-543).
FlushRacesWrite(t, p, v) ==
    /\ up
    /\ WalBeforeData => AllDurable
    /\ tstatus[t] \in {"idle", "active"}
    /\ twrites[t] < MaxWrites
    /\ \A u \in Txns \ {t} : tstatus[u] = "active" => p \notin tpages[u]
    /\ LET r == PushItems(CurState, files[CurGen], <<WriteItem(t, p, mem[p], v)>>)
       IN /\ files' = [files EXCEPT ![CurGen] = r.log]
          /\ txns' = r.st.txns
    /\ dirty' = EmptyState.dirty
    /\ disk' = mem
    /\ mem' = [mem EXCEPT ![p] = v]
    /\ tstatus' = [tstatus EXCEPT ![t] = "active"]
    /\ tpages' = [tpages EXCEPT ![t] = @ \cup {p}]
    /\ twrites' = [twrites EXCEPT ![t] = @ + 1]
    /\ UNCHANGED <<durable, pending, db, up, crashes, faults>>

\* The buffer cache evicts one page: it is written, dirty_pages is untouched.
EvictPage(p) ==
    /\ up
    /\ WalBeforeData => AllDurable
    /\ disk' = [disk EXCEPT ![p] = mem[p]]
    /\ UNCHANGED <<walVars, mem, db, tstatus, tpages, twrites, up, crashes, faults>>

\* Mutant: cleanup also deletes the first needed generation.
CleanupKeepStrict(gs, firstNeeded, current) ==
    {g \in gs : \E h \in gs : h <= g /\ (h > firstNeeded \/ h = current)}

\* cleanup_generations (wal.rs:167-189): walking the queue oldest first, delete
\* until a generation is needed or is the current one.
CleanupKeep(gs, firstNeeded, current) ==
    {g \in gs : \E h \in gs : h <= g /\ (h >= firstNeeded \/ h = current)}

\* checkpoint, first half (wal.rs:428-434), run by the periodic task or a
\* size-triggered task: under the write lock flush the current generation,
\* open the next one and clean up.  The lock is then released.
Rotate ==
    /\ up
    /\ CurGen < MaxGen
    /\ LET g == CurGen + 1
           keep == CleanupKeep(DOMAIN files \cup {g}, FirstNeededGeneration(CurState), g)
       IN /\ files' = [h \in keep |-> IF h = g THEN <<>> ELSE files[h]]
          /\ durable' = [h \in keep |-> IF h = g THEN 0 ELSE Len(files[h])]
    /\ pending' = pending + 1
    /\ UNCHANGED <<dirty, txns, clientVars, up, crashes, faults>>

\* checkpoint, second half: log_checkpoint (wal.rs:149-165) under the read
\* lock appends a snapshot of State to whatever generation is current now.
LogCheckpoint ==
    /\ up
    /\ pending > 0
    /\ LET r == PushItems(CurState, files[CurGen], <<CheckpointItem(CurState)>>)
       IN SetLog(r.log, r.st)
    /\ pending' = pending - 1
    /\ UNCHANGED <<durable, clientVars, up, crashes, faults>>

\* A crash: of each generation file the flushed prefix survives and possibly
\* more of what was appended after it.  Memory (pages, State, pending
\* checkpoint tasks) is lost; the pages on disk stay.
Crash ==
    /\ up
    /\ crashes < MaxCrashes
    /\ \E cut \in [DOMAIN files -> UNION {durable[g]..Len(files[g]) : g \in DOMAIN files}] :
          /\ \A g \in DOMAIN files : durable[g] <= cut[g] /\ cut[g] <= Len(files[g])
          /\ files' = [g \in DOMAIN files |-> SubSeq(files[g], 1, cut[g])]
          /\ durable' = cut
    /\ dirty' = EmptyState.dirty
    /\ txns' = EmptyState.txns
    /\ pending' = 0
    /\ mem' = disk
    /\ up' = FALSE
    /\ crashes' = crashes + 1
    /\ UNCHANGED <<disk, db, tstatus, tpages, twrites, faults>>

\* read_initial_state (wal.rs:191-209): the first checkpoint of a file.
InitialState(file) ==
    LET ckpts == {i \in DOMAIN file : file[i].kind = "ckpt"}
    IN IF ckpts = {} THEN EmptyState
       ELSE [dirty |-> file[Min(ckpts)].dirty, txns |-> file[Min(ckpts)].txns]

\* recover_state (wal.rs:211-218): every item of the file through handle_item.
RecoverState(st, g, file) ==
    FoldLeft(LAMBDA acc, i : HandleItem(acc, [gen |-> g, off |-> i], file[i]),
             st, [i \in DOMAIN file |-> i])

\* Mutant: redo skips the write at the first dirtying index itself.
RedoWritesAfterFirst(st, g, file) ==
    LET redone(i) == /\ file[i].kind = "write"
                     /\ st.dirty[file[i].page] # NoIdx
                     /\ IdxLess(st.dirty[file[i].page], [gen |-> g, off |-> i])
        pos == SelectSeq([i \in DOMAIN file |-> i], redone)
    IN [k \in DOMAIN pos |-> file[pos[k]]]

\* redo and redo_write (wal.rs:220-261): the writes of the file, in order,
\* at or after the first dirtying index of their page.
RedoWrites(st, g, file) ==
    LET redone(i) == /\ file[i].kind = "write"
                     /\ st.dirty[file[i].page] # NoIdx
                     /\ ~IdxLess([gen |-> g, off |-> i], st.dirty[file[i].page])
        pos == SelectSeq([i \in DOMAIN file |-> i], redone)
    IN [k \in DOMAIN pos |-> file[pos[k]]]

\* Wal::open (wal.rs:99-119) builds the queue from the files on disk with an
\* empty State; recover (wal.rs:514-538) seeds State from the current
\* generation, replays it, redoes its writes and undoes every open
\* transaction.  Transactions open at the crash are gone for the client.
Recover ==
    /\ ~up
    /\ LET g == CurGen
           st == RecoverState(InitialState(files[g]), g, files[g])
           redone == ApplyWrites(mem, RedoWrites(st, g, files[g]))
           r == UndoAll(st, files, redone, {t \in Txns : st.txns[t] # NoTxn})
       IN /\ SetLog(r.log, r.st)
          /\ mem' = r.mem
    /\ up' = TRUE
    /\ tstatus' = [t \in Txns |-> IF tstatus[t] = "active" THEN "lost" ELSE tstatus[t]]
    /\ UNCHANGED <<durable, pending, disk, db, tpages, twrites, crashes, faults>>

Next ==
    \/ \E t \in Txns, p \in Pages, v \in Vals : Write(t, p, v)
    \/ \E t \in Txns : Commit(t) \/ Abort(t)
    \/ CacheFlush
    \/ \E p \in Pages : EvictPage(p)
    \/ Rotate
    \/ LogCheckpoint
    \/ Crash
    \/ Recover

Spec == Init /\ [][Next]_vars

\* The same system on a disk whose appends may fail.
FaultNext == Next \/ \E t \in Txns, p \in Pages, v \in Vals : WriteFails(t, p, v)

FaultSpec == Init /\ [][FaultNext]_vars

\* The same system with a cache that lets writes proceed while it flushes.
RacyFlushNext == Next \/ \E t \in Txns, p \in Pages, v \in Vals : FlushRacesWrite(t, p, v)

RacyFlushSpec == Init /\ [][RacyFlushNext]_vars

-----------------------------------------------------------------------------
(* Properties.                                                             *)

TypeOK ==
    /\ DOMAIN files \subseteq Gens /\ DOMAIN durable = DOMAIN files
    /\ \A g \in DOMAIN files : files[g] \in Seq(Item) /\ durable[g] \in 0..Len(files[g])
    /\ dirty \in [Pages -> Idx \cup {NoIdx}]
    /\ txns \in [Txns -> TxnState \cup {NoTxn}]
    /\ pending \in Nat
    /\ mem \in [Pages -> Vals] /\ disk \in [Pages -> Vals] /\ db \in [Pages -> Vals]
    /\ tstatus \in [Txns -> {"idle", "active", "committed", "aborted", "lost"}]
    /\ tpages \in [Txns -> SUBSET Pages]
    /\ twrites \in [Txns -> 0..MaxWrites]
    /\ up \in BOOLEAN /\ crashes \in 0..MaxCrashes /\ faults \in 0..MaxIoFaults

\* Pages written by transactions still open.
OpenPages == UNION {tpages[t] : t \in {u \in Txns : tstatus[u] = "active"}}

RecoverStep == ~up /\ up'

\* Durability (Wal::recover, wal.rs:514-538): once recovery has run, every
\* page no open transaction wrote holds its last committed value, whatever
\* the cache had written to disk and whatever unflushed log the crash lost.
RecoveryDurable ==
    [][RecoverStep => \A p \in Pages \ OpenPages : mem'[p] = db[p]]_vars

\* Atomicity (undo_all run by recover, wal.rs:531-535): once recovery has
\* run, every page written by a transaction open at the crash is back to its
\* last committed value.
RecoveryAtomic ==
    [][RecoverStep => \A p \in OpenPages : mem'[p] = db[p]]_vars

\* Abort (WalApi::undo, wal.rs:504-512): when undo returns, every page the
\* transaction wrote holds its value from before the transaction.
UndoRestores ==
    [][\A t \in Txns : tstatus[t] = "active" /\ tstatus'[t] = "aborted"
                       => \A p \in tpages[t] : mem'[p] = db[p]]_vars

\* The meaning of dirty_pages (spec.md 3, "an entry means any on-disk
\* version of this page may be stale"; redo_write relies on its converse):
\* while the process runs, a page whose disk copy differs from memory has
\* an entry, through every write, compensation, flush, eviction,
\* checkpoint and recovery.
DirtyCoversStale ==
    up => \A p \in Pages : disk[p] # mem[p] => dirty[p] # NoIdx

\* The item at an index, if the log still holds it.
Holds(i) == i.gen \in DOMAIN files /\ i.off <= Len(files[i.gen])

\* State.transactions (track_transaction, complete_transaction, cleanup)
\* tracks exactly the open transactions that wrote, and for each its first
\* generation is still on disk and its last_index names one of its items:
\* what undo_all and first_needed_generation rely on.
OpenTxnsTracked ==
    up => \A t \in Txns :
        /\ (tstatus[t] = "active") <=> (txns[t] # NoTxn)
        /\ txns[t] # NoTxn =>
              /\ txns[t].first_gen \in DOMAIN files
              /\ Holds(txns[t].last_index)
              /\ files[txns[t].last_index.gen][txns[t].last_index.off].kind = "write"
              /\ files[txns[t].last_index.gen][txns[t].last_index.off].txn = t

=============================================================================
