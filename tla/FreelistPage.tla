----------------------------- MODULE FreelistPage -----------------------------
(***************************************************************************)
(* FreelistPage of crates/acorn/src/doc_store/pages.rs: a length field and *)
(* an array of page-id slots in one page body.  NUM_SLOTS whole slots fit *)
(* after ITEMS_OFFSET; when the body is not a whole number of slots, a     *)
(* partial slot remains whose offset offset_for_index still accepts.  A   *)
(* write that crosses the end of the body goes to the page store, which is *)
(* not in src/: it fails or keeps only the bytes that fit, so the slot     *)
(* reads back as a different, torn id.  The page is shown to implement     *)
(* PageStack with capacity NUM_SLOTS, the capacity is_full reports.        *)
(***************************************************************************)
EXTENDS Naturals, Sequences

CONSTANTS
    Ids,          \* page ids pushed by the allocator
    NoId,         \* the zeroed PageIdRepr, read back as None
    NumSlots,     \* NUM_SLOTS
    PartialSlot,  \* TRUE when ITEMS_OFFSET + NUM_SLOTS * 6 < PAGE_BODY_SIZE
    Torn(_)       \* the id a slot cut at the end of the body reads back as

ASSUME NumSlots \in Nat \ {0} /\ PartialSlot \in BOOLEAN

VARIABLES
    slots,        \* the slots, index 0 first
    length,       \* the length field
    ret           \* the result of the last call

vars == <<slots, length, ret>>

\* offset_for_index accepts an index while its offset is inside the body.
Indexes == 0..(IF PartialSlot THEN NumSlots ELSE NumSlots - 1)

\* init: kind, next page and length are written; the slots keep whatever
\* the page held before.
Init ==
    /\ slots \in [Indexes -> Ids \cup {NoId}]
    /\ length = 0
    /\ ret = "ok"

\* set_item at an accepted index: a whole slot takes the id; a write into
\* the partial slot fails or keeps only the bytes that fit.
WriteSlot(index, id) == IF index < NumSlots THEN {id} ELSE {"error", Torn(id)}

\* push_item: set_item at index length (PageIndexOutOfBounds past the
\* body), then set_length(index + 1).  There is no is_full check.
PushItem(id) ==
    LET index == length
    IN IF index \notin Indexes
       THEN ret' = "full" /\ UNCHANGED <<slots, length>>
       ELSE \E w \in WriteSlot(index, id) :
              IF w = "error" THEN ret' = "error" /\ UNCHANGED <<slots, length>>
              ELSE /\ slots' = [slots EXCEPT ![index] = w]
                   /\ length' = index + 1
                   /\ ret' = "ok"

\* The loop of pop_item from index i down: the number of slots up to and
\* including the highest one below i holding an id (get_item reads the
\* zeroed ones as None), or 0 when it reaches index 0.
RECURSIVE TopItem(_)
TopItem(i) ==
    IF i = 0 THEN 0
    ELSE IF slots[i - 1] # NoId THEN i ELSE TopItem(i - 1)

\* Mutant: pop_item returns the top id but leaves the length.
PopKeepLength ==
    LET top == TopItem(length)
    IN IF top = 0 THEN ret' = NoId /\ UNCHANGED <<slots, length>>
       ELSE ret' = slots[top - 1] /\ UNCHANGED <<slots, length>>

\* pop_item: walk down from length; at 0 return None without touching the
\* length, else set_length to the index of the id found and return it.
PopItem ==
    LET top == TopItem(length)
    IN IF top = 0 THEN ret' = NoId /\ UNCHANGED <<slots, length>>
       ELSE ret' = slots[top - 1] /\ length' = top - 1 /\ UNCHANGED slots

Next == (\E id \in Ids : PushItem(id)) \/ PopItem

Spec == Init /\ [][Next]_vars

-----------------------------------------------------------------------------
\* The ids below the length, as the stack the allocator sees.
AbsStack == SelectSeq([k \in 1..length |-> slots[k - 1]], LAMBDA x : x # NoId)

Abstract == INSTANCE PageStack WITH stack <- AbsStack, Cap <- NumSlots

\* The freelist page behaves as a stack of NUM_SLOTS ids: every push and
\* pop of push_item and pop_item is a step of PageStack under the mapping
\* above, so a pop returns the last id pushed, and a push that is_full
\* would call full is refused.
ImplementsPageStack == Abstract!Spec

=============================================================================
