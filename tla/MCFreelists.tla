----------------------------- MODULE MCFreelists -----------------------------
(***************************************************************************)
(* Both freelist page layouts side by side, each checked against the      *)
(* bounded stack PageStack: FreelistPage of doc_store/pages.rs and        *)
(* FormatFreelist of format/pages/freelist.rs.  Their variables are kept  *)
(* apart by renaming; a step is a push or pop on one of the two pages.    *)
(***************************************************************************)
EXTENDS Naturals

CONSTANTS i1, i2, i3, noId, tornId

MCIds == {i1, i2, i3}

\* Whatever id was pushed, the bytes that fit read back as one other id.
MCTorn(id) == tornId

VARIABLES slots, length, ret, pages, fmtLength, fmtRet

vars == <<slots, length, ret, pages, fmtLength, fmtRet>>

\* Three slots, a body holding a whole number of slots.
Doc == INSTANCE FreelistPage
    WITH Ids <- MCIds, NoId <- noId, NumSlots <- 3, PartialSlot <- FALSE, Torn <- MCTorn

\* Four slots: every fill level, full included.
Fmt == INSTANCE FormatFreelist
    WITH Ids <- MCIds, NoId <- noId, NumPages <- 4, length <- fmtLength, ret <- fmtRet

Init == Doc!Init /\ Fmt!Init

Next ==
    \/ Doc!Next /\ UNCHANGED <<pages, fmtLength, fmtRet>>
    \/ Fmt!Next /\ UNCHANGED <<slots, length, ret>>

Spec == Init /\ [][Next]_vars

\* push_item and pop_item of the doc_store freelist page behave as a stack
\* of NUM_SLOTS ids: a push is refused exactly when it is full, and a pop
\* returns the last id pushed and not yet popped.
DocImplementsPageStack == Doc!ImplementsPageStack

\* push_page and pop_page of the format freelist page behave as a stack of
\* pages.len() page numbers, in the same sense.
FmtImplementsPageStack == Fmt!ImplementsPageStack

=============================================================================
