---------------------------- MODULE FormatFreelist ----------------------------
(***************************************************************************)
(* FreelistPage of acorn/src/format/pages/freelist.rs: `next`, a `length`  *)
(* and a slice of Option<NonZeroU32> slots overlaid on a page.  A new     *)
(* page is zeroed: length 0, every slot None.  Shown to implement         *)
(* PageStack with capacity pages.len().                                   *)
(***************************************************************************)
EXTENDS Naturals, Sequences

CONSTANTS
    Ids,       \* page numbers
    NoId,      \* None
    NumPages   \* pages.len()

ASSUME NumPages \in Nat \ {0}

VARIABLES pages, length, ret

vars == <<pages, length, ret>>

Init ==
    /\ pages = [i \in 0..(NumPages - 1) |-> NoId]
    /\ length = 0
    /\ ret = "ok"

\* Mutant: is_full one slot early.
IsFullEarly == length + 1 >= NumPages

\* is_full
IsFull == length = NumPages

\* push_page: false when full, else the slot at length and length + 1.
PushPage(id) ==
    IF IsFull THEN ret' = "full" /\ UNCHANGED <<pages, length>>
    ELSE /\ pages' = [pages EXCEPT ![length] = id]
         /\ length' = length + 1
         /\ ret' = "ok"

\* pop_page: None when empty, Corrupted when the top slot is None, else
\* the top slot, and the length shrinks.
PopPage ==
    IF length = 0 THEN ret' = NoId /\ UNCHANGED <<pages, length>>
    ELSE IF pages[length - 1] = NoId THEN ret' = "error" /\ UNCHANGED <<pages, length>>
    ELSE ret' = pages[length - 1] /\ length' = length - 1 /\ UNCHANGED pages

Next == (\E id \in Ids : PushPage(id)) \/ PopPage

Spec == Init /\ [][Next]_vars

-----------------------------------------------------------------------------
Abstract == INSTANCE PageStack
    WITH stack <- [k \in 1..length |-> pages[k - 1]], Cap <- NumPages

\* The page behaves as a stack of pages.len() page numbers: push_page
\* refuses exactly when the stack is full, and pop_page returns the last
\* page number pushed and not yet popped.
ImplementsPageStack == Abstract!Spec

=============================================================================
