--------------------------- MODULE PhysicalStorage ---------------------------
(***************************************************************************)
(* PhysicalStorage of crates/acorn/src/page_store/physical.rs: threads     *)
(* calling read or write, which both go through use_segment.  A hit in the *)
(* descriptor cache runs the handler under the shared lock; a miss drops   *)
(* the shared lock, opens the segment file, takes the exclusive lock,      *)
(* stores the descriptor (evicting the key the replacer names) and runs    *)
(* the handler under the exclusive lock.  The replacer is the tri-queue of *)
(* CacheManager, keyed by segment number; its evict_replace is not in     *)
(* src/ and is modelled from spec.md section 4.C.  A descriptor is the     *)
(* number of the open_segment_file call that produced it.                  *)
(***************************************************************************)
EXTENDS Naturals, FiniteSets, Sequences, SequencesExt, Functions, TLC

CONSTANTS
    Threads,      \* threads calling read or write
    Segs,         \* segment numbers
    NoThread,     \* no thread holds the exclusive lock
    MaxOpen,      \* max_num_open_segments
    MaxOpens      \* bound on open_segment_file calls

ASSUME MaxOpen \in Nat \ {0} /\ MaxOpens \in Nat /\ NoThread \notin Threads

VARIABLES
    descriptors,  \* DescriptorCache.descriptors: segment -> descriptor
    fast, slow, graveyard,  \* DescriptorCache.replacer
    readers,      \* threads holding the shared lock
    writer,       \* the thread holding the exclusive lock, or NoThread
    pc,           \* where each thread is in use_segment
    seg,          \* the segment each thread's operation addresses
    hdl,          \* the descriptor each thread holds
    opens         \* open_segment_file calls so far

vars == <<descriptors, fast, slow, graveyard, readers, writer, pc, seg, hdl, opens>>

Replacer == INSTANCE CacheManager WITH Keys <- Segs, Length <- MaxOpen,
                                       resident <- DOMAIN descriptors

\* CacheReplacer::evict_replace (spec.md 4.C, 4.B): when the replacer
\* already tracks max_num_open_segments keys, reclaim names a key to drop;
\* the new key is then accessed.  The dropped key is a set of zero or one.
EvictReplace(q, k) ==
    LET full == Cardinality(ToSet(q.fast) \cup ToSet(q.slow)) >= MaxOpen
        r == IF full THEN Replacer!Reclaim(q) ELSE [q |-> q, key |-> {}]
    IN [q |-> Replacer!Access(r.q, k), key |-> r.key]

\* DescriptorCache::store_descriptor: evict what evict_replace names, then
\* insert (a descriptor already stored for the segment is replaced).
StoreDescriptor(s, d) ==
    LET r == EvictReplace(Replacer!Current, s)
        kept == Restrict(descriptors, DOMAIN descriptors \ r.key)
    IN /\ Replacer!SetQueues(r.q)
       /\ descriptors' = (s :> d) @@ kept

\* DescriptorCache::get_descriptor on a cached segment: the replacer is
\* told of the access.
GetDescriptor(s) == Replacer!SetQueues(Replacer!Access(Replacer!Current, s))

\* PhysicalStorage::new
Init ==
    /\ descriptors = <<>>
    /\ fast = <<>> /\ slow = <<>> /\ graveyard = <<>>
    /\ readers = {} /\ writer = NoThread
    /\ pc = [t \in Threads |-> "idle"]
    /\ seg = [t \in Threads |-> CHOOSE s \in Segs : TRUE]
    /\ hdl = [t \in Threads |-> 0]
    /\ opens = 0

\* use_segment up to the miss: take the shared lock; get_descriptor finds
\* the segment (and accesses it in the replacer), and the handler runs
\* under the lock; or it misses and the lock is dropped.
Lookup(t, s) ==
    /\ pc[t] = "idle"
    /\ writer = NoThread
    /\ seg' = [seg EXCEPT ![t] = s]
    /\ IF s \in DOMAIN descriptors
       THEN /\ GetDescriptor(s)
            /\ hdl' = [hdl EXCEPT ![t] = descriptors[s]]
            /\ readers' = readers \cup {t}
            /\ pc' = [pc EXCEPT ![t] = "handle"]
       ELSE /\ pc' = [pc EXCEPT ![t] = "open"]
            /\ UNCHANGED <<fast, slow, graveyard, hdl, readers>>
    /\ UNCHANGED <<descriptors, writer, opens>>

\* Mutant: a failed open_segment_file is retried instead of returned.
OpenRetry(t) ==
    /\ pc[t] = "open"
    /\ \/ /\ opens < MaxOpens
          /\ opens' = opens + 1
          /\ hdl' = [hdl EXCEPT ![t] = opens + 1]
          /\ pc' = [pc EXCEPT ![t] = "store"]
       \/ UNCHANGED <<pc, opens, hdl>>
    /\ UNCHANGED <<descriptors, fast, slow, graveyard, readers, writer, seg>>

\* folder.open_segment_file: a new descriptor, or an error returned by `?`.
Open(t) ==
    /\ pc[t] = "open"
    /\ \/ /\ opens < MaxOpens
          /\ opens' = opens + 1
          /\ hdl' = [hdl EXCEPT ![t] = opens + 1]
          /\ pc' = [pc EXCEPT ![t] = "store"]
       \/ /\ pc' = [pc EXCEPT ![t] = "idle"]
          /\ UNCHANGED <<opens, hdl>>
    /\ UNCHANGED <<descriptors, fast, slow, graveyard, readers, writer, seg>>

\* Take the exclusive lock and store_descriptor; the handler then runs
\* under the exclusive lock.
Store(t) ==
    /\ pc[t] = "store"
    /\ writer = NoThread /\ readers = {}
    /\ StoreDescriptor(seg[t], hdl[t])
    /\ writer' = t
    /\ pc' = [pc EXCEPT ![t] = "handle"]
    /\ UNCHANGED <<readers, seg, hdl, opens>>

\* The handler (segment read or write) returns, with a result or an
\* error, and the guard is released.
Done(t) ==
    /\ pc[t] = "handle"
    /\ readers' = readers \ {t}
    /\ writer' = IF writer = t THEN NoThread ELSE writer
    /\ pc' = [pc EXCEPT ![t] = "idle"]
    /\ UNCHANGED <<descriptors, fast, slow, graveyard, seg, hdl, opens>>

Next ==
    \E t \in Threads :
        \/ \E s \in Segs : Lookup(t, s)
        \/ Open(t)
        \/ Store(t)
        \/ Done(t)

\* parking_lot's RwLock is task-fair: a waiting writer is not starved by
\* readers, so Store is strongly fair; a running handler and an opened
\* file proceed (weak fairness).  Callers need not call again.
Fairness ==
    \A t \in Threads : WF_vars(Open(t)) /\ SF_vars(Store(t)) /\ WF_vars(Done(t))

Spec == Init /\ [][Next]_vars /\ Fairness

-----------------------------------------------------------------------------
\* The replacer's queues stay in step with the descriptor map through every
\* hit, store and eviction, at max_num_open_segments = 2 where fast_cap is
\* 0 and every access goes to slow: access and reclaim (manager.rs:25-52)
\* keep fast and slow holding exactly the cached segments, once each, and
\* the graveyard apart from fast.
ReplacerTracked == Replacer!ResidentTracked

\* store_descriptor's debug_assert (physical.rs:137): a thread that took the
\* exclusive lock after a miss stores a descriptor only for a segment the
\* cache does not hold yet.
StoreUncached ==
    [][\A t \in Threads : pc[t] = "store" /\ pc'[t] = "handle"
                           => seg[t] \notin DOMAIN descriptors]_vars

\* Every read or write that starts returns: no thread waits forever for
\* the exclusive lock or behind another thread.
OperationsComplete == \A t \in Threads : pc[t] # "idle" ~> pc[t] = "idle"

=============================================================================
