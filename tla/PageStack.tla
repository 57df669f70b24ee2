------------------------------ MODULE PageStack ------------------------------
(***************************************************************************)
(* What a freelist page promises its allocator: a stack of at most Cap     *)
(* page ids.  A push onto a full page is refused, a pop of an empty page   *)
(* returns None, any other pop returns the last id pushed and not yet      *)
(* popped.  ret is the result of the last call; a call may also fail with  *)
(* an I/O error and change nothing.                                        *)
(***************************************************************************)
EXTENDS Naturals, Sequences

CONSTANTS Ids, Cap, NoId

VARIABLES stack, ret

Init == stack = <<>> /\ ret = "ok"

Push(id) ==
    \/ Len(stack) < Cap /\ stack' = Append(stack, id) /\ ret' = "ok"
    \/ Len(stack) = Cap /\ UNCHANGED stack /\ ret' = "full"

Pop ==
    \/ stack = <<>> /\ UNCHANGED stack /\ ret' = NoId
    \/ stack # <<>> /\ stack' = SubSeq(stack, 1, Len(stack) - 1) /\ ret' = stack[Len(stack)]

Fail == UNCHANGED stack /\ ret' = "error"

Next == (\E id \in Ids : Push(id)) \/ Pop \/ Fail

Spec == Init /\ [][Next]_<<stack, ret>>

=============================================================================
