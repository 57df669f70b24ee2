------------------------------ MODULE LegacyWal ------------------------------
(***************************************************************************)
(* The buffered write-ahead log of acorn/src/wal.rs.  log_write appends a  *)
(* page id and a page image to an in-memory buffer; commit writes the      *)
(* buffer to the end of the file with write_all and clears it; cancel      *)
(* drops it; iter reads the file back through a std BufReader, one page id *)
(* and one page at a time.  The file is modelled byte by byte after the    *)
(* header: a page id is IdSize bytes that all carry the page, a page image *)
(* PageSize bytes that all carry its value, so a misaligned read shows.   *)
(* write_all may fail after writing any prefix of the buffer (an I/O      *)
(* error), and the process may restart, which loses the buffer.           *)
(***************************************************************************)
EXTENDS Naturals, Sequences, SequencesExt

CONSTANTS
    Pages,       \* page ids a client writes
    Vals,        \* page contents
    IdSize,      \* size_of::<PageId>()
    PageSize,    \* the page_size of the header
    BufCap,      \* the capacity of the BufReader (std: 8 KiB)
    MaxBytes,    \* bound on the bytes of the file and buffer together
    MaxFaults    \* bound on failing write_all calls

ASSUME IdSize \in Nat \ {0} /\ PageSize \in Nat \ {0} /\ BufCap \in Nat \ {0}

VARIABLES
    file,        \* the bytes of the file after log_start
    buf,         \* Wal.buf
    committed,   \* the records of every commit that returned Ok
    logged,      \* the records in buf, as the client logged them
    faults       \* write_all calls that failed so far

vars == <<file, buf, committed, logged, faults>>

\* A record as iteration yields it: the page id bytes and the page bytes.
Record(p, v) == <<[i \in 1..IdSize |-> p], [i \in 1..PageSize |-> v]>>

Bytes(r) == r[1] \o r[2]

-----------------------------------------------------------------------------
(* std::io::BufReader over the file, starting at log_start with an empty   *)
(* buffer.  off is how far the file has been read into the reader, avail   *)
(* how many of those bytes are still buffered.                             *)

Min2(a, b) == IF a < b THEN a ELSE b

\* BufReader::read: a request at least as large as the capacity with an
\* empty buffer bypasses it; otherwise the buffer is filled if empty and
\* the request is served from it alone, possibly short.
BufRead(f, off, avail, n) ==
    IF avail = 0 /\ n >= BufCap
    THEN [off |-> off + Min2(n, Len(f) - off), avail |-> 0, got |-> Min2(n, Len(f) - off)]
    ELSE LET a == IF avail = 0 THEN Min2(BufCap, Len(f) - off) ELSE avail
             o == IF avail = 0 THEN off + a ELSE off
         IN [off |-> o, avail |-> a - Min2(n, a), got |-> Min2(n, a)]

\* read_exact: repeated reads until n bytes are in, UnexpectedEof on a read
\* of zero bytes (the fast path for a buffer holding n bytes reads the same).
RECURSIVE ReadExact(_, _, _, _)
ReadExact(f, off, avail, n) ==
    IF n = 0 THEN [off |-> off, avail |-> avail, ok |-> TRUE]
    ELSE LET r == BufRead(f, off, avail, n)
         IN IF r.got = 0 THEN [off |-> r.off, avail |-> r.avail, ok |-> FALSE]
            ELSE ReadExact(f, r.off, r.avail, n - r.got)

\* Iter::next repeated until it returns None or an error: a read of the
\* page id that returns fewer than IdSize bytes ends the iteration; a short
\* page is an error.
RECURSIVE Iterate(_, _, _, _)
Iterate(f, off, avail, recs) ==
    LET start == off - avail
        id == BufRead(f, off, avail, IdSize)
        page == ReadExact(f, id.off, id.avail, PageSize)
    IN IF id.got # IdSize THEN [recs |-> recs, err |-> FALSE]
       ELSE IF ~page.ok THEN [recs |-> recs, err |-> TRUE]
       ELSE Iterate(f, page.off, page.avail,
                    Append(recs, <<SubSeq(f, start + 1, start + IdSize),
                                   SubSeq(f, start + IdSize + 1, start + IdSize + PageSize)>>))

\* Wal::iter: seek to log_start, a fresh BufReader.
Replay(f) == Iterate(f, 0, 0, <<>>)

-----------------------------------------------------------------------------

\* Wal::init writes the header; the log after log_start is empty.
Init ==
    /\ file = <<>>
    /\ buf = <<>>
    /\ committed = <<>>
    /\ logged = <<>>
    /\ faults = 0

\* Wal::log_write: the page id, then the data, appended to the buffer.
LogWrite(p, v) ==
    /\ Len(file) + Len(buf) + IdSize + PageSize <= MaxBytes
    /\ buf' = buf \o Bytes(Record(p, v))
    /\ logged' = Append(logged, Record(p, v))
    /\ UNCHANGED <<file, committed, faults>>

\* Mutant: commit writes the buffer but does not clear it.
CommitKeepBuf ==
    /\ Len(file) + Len(buf) <= MaxBytes
    /\ file' = file \o buf
    /\ committed' = committed \o logged
    /\ logged' = <<>>
    /\ UNCHANGED <<buf, faults>>

\* Wal::commit, write_all succeeds: the buffer goes to the end of the file
\* and is cleared.
Commit ==
    /\ Len(file) + Len(buf) <= MaxBytes
    /\ file' = file \o buf
    /\ buf' = <<>>
    /\ committed' = committed \o logged
    /\ logged' = <<>>
    /\ UNCHANGED faults

\* Wal::commit, write_all fails after writing k bytes: `?` returns before
\* buf.clear(), so the buffer is kept whole.
CommitFails ==
    /\ faults < MaxFaults
    /\ buf # <<>>
    /\ \E k \in 0..(Len(buf) - 1) : file' = file \o SubSeq(buf, 1, k)
    /\ faults' = faults + 1
    /\ UNCHANGED <<buf, committed, logged>>

\* Wal::cancel
Cancel ==
    /\ buf' = <<>>
    /\ logged' = <<>>
    /\ UNCHANGED <<file, committed, faults>>

\* Wal::clear: the file is truncated to log_start.
Clear ==
    /\ file' = <<>>
    /\ committed' = <<>>
    /\ UNCHANGED <<buf, logged, faults>>

\* The process restarts and Wal::load_file / Wal::load reopen the file: the
\* header init wrote passes every check, the buffer starts empty.
Reopen ==
    /\ buf' = <<>>
    /\ logged' = <<>>
    /\ UNCHANGED <<file, committed, faults>>

Next ==
    \/ \E p \in Pages, v \in Vals : LogWrite(p, v)
    \/ Commit
    \/ CommitFails
    \/ Cancel
    \/ Clear
    \/ Reopen

Spec == Init /\ [][Next]_vars

\* The same log on a file system whose writes do not fail.
ReliableNext ==
    \/ \E p \in Pages, v \in Vals : LogWrite(p, v)
    \/ Commit
    \/ Cancel
    \/ Clear
    \/ Reopen

ReliableSpec == Init /\ [][ReliableNext]_vars

-----------------------------------------------------------------------------
\* Iterating the log yields exactly the records of the commits that
\* returned Ok, in commit order, then None: nothing of a cancelled,
\* failed or uncommitted buffer, and no record lost to how the BufReader
\* splits the page id reads.
ReplayCommitted == Replay(file) = [recs |-> committed, err |-> FALSE]

\* Every record of a commit that returned Ok is yielded by iteration, in
\* order, even when an earlier write_all failed part way and the client
\* retried, cancelled or went on logging: a torn tail may follow the
\* committed records but never displaces them.
CommittedReplayed == IsPrefix(committed, Replay(file).recs)

=============================================================================
