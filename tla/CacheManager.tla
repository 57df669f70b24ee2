------------------------------ MODULE CacheManager ------------------------------
(***************************************************************************)
(* The tri-queue replacement policy of acorn/src/cache/manager.rs: access *)
(* and reclaim as operators on the three queues.  The cache that owns the  *)
(* policy supplies `resident`, the keys it holds; PhysicalStorage          *)
(* instantiates this module with its descriptor map.  The front of a      *)
(* queue is the head of its sequence.                                      *)
(***************************************************************************)
EXTENDS Naturals, Sequences, FiniteSets, SequencesExt

CONSTANTS
    Keys,       \* page numbers
    Length      \* the length the manager is created with

ASSUME Length \in Nat \ {0}

VARIABLES
    fast,       \* CacheManager.fast
    slow,       \* CacheManager.slow
    graveyard,  \* CacheManager.graveyard
    resident    \* the owning cache: keys it currently holds

\* CacheManager::new (manager.rs:15-23)
FastCap == Length \div 4
GraveyardCap == Length \div 2

Current == [fast |-> fast, slow |-> slow, graveyard |-> graveyard]

\* Mutant: access no longer returns early for a key already in `fast`.
AccessNoFastCheck(q, k) ==
    CASE Contains(q.slow, k) -> [q EXCEPT !.slow = <<k>> \o Remove(q.slow, k)]
      [] Contains(q.graveyard, k) -> [q EXCEPT !.slow = <<k>> \o q.slow]
      [] OTHER -> [q EXCEPT !.fast = <<k>> \o q.fast]

\* CacheManager::access (manager.rs:25-39)
Access(q, k) ==
    CASE Contains(q.fast, k) -> q
      [] Contains(q.slow, k) -> [q EXCEPT !.slow = <<k>> \o Remove(q.slow, k)]
      [] Contains(q.graveyard, k) -> [q EXCEPT !.slow = <<k>> \o q.slow]
      [] OTHER -> [q EXCEPT !.fast = <<k>> \o q.fast]

\* CacheManager::reclaim (manager.rs:41-52): the new queues and the key
\* returned, as a set holding zero (None) or one key.
Reclaim(q) ==
    IF Len(q.fast) > FastCap
    THEN LET k == Last(q.fast)
             g == <<k>> \o q.graveyard
         IN [q |-> [q EXCEPT !.fast = Front(q.fast),
                             !.graveyard = IF Len(g) > GraveyardCap THEN Front(g) ELSE g],
             key |-> {k}]
    ELSE IF q.slow = <<>> THEN [q |-> q, key |-> {}]
    ELSE [q |-> [q EXCEPT !.slow = Front(q.slow)], key |-> {Last(q.slow)}]

SetQueues(q) == fast' = q.fast /\ slow' = q.slow /\ graveyard' = q.graveyard

-----------------------------------------------------------------------------
\* The keys in `fast` and `slow` are exactly the keys the cache holds, each
\* in one queue once, and `fast` shares no key with the graveyard: the
\* early returns of access keep the queues apart over any sequence of accesses
\* and reclaims.
ResidentTracked ==
    /\ ToSet(fast) \cup ToSet(slow) = resident
    /\ ToSet(fast) \cap ToSet(slow) = {}
    /\ ToSet(fast) \cap ToSet(graveyard) = {}
    /\ \A s \in {fast, slow, graveyard} : Cardinality(ToSet(s)) = Len(s)

=============================================================================
