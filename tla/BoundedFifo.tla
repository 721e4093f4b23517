---------------------------- MODULE BoundedFifo ----------------------------
(***************************************************************************)
(* What aci_queue.h promises its callers: a first-in first-out queue of at *)
(* most Size messages.  A message is a sequence of bytes.  An enqueue on a *)
(* full queue and a dequeue on an empty one are refused, and leave the     *)
(* queue as it was.                                                        *)
(***************************************************************************)
EXTENDS Naturals, Sequences

CONSTANTS Size,     \* the most messages the queue holds
          Message   \* the messages that may be queued

VARIABLES contents,   \* the messages queued, oldest first
          ok,         \* what the last call returned
          message     \* of the last call: the one offered, or the one delivered

vars == <<contents, ok, message>>

Init == /\ contents = << >>
        /\ ok = TRUE
        /\ message = << >>

Accept(m) == /\ Len(contents) < Size
             /\ contents' = Append(contents, m)
             /\ message' = m
             /\ ok' = TRUE

RefuseFull(m) == /\ Len(contents) = Size
                 /\ message' = m
                 /\ ok' = FALSE
                 /\ UNCHANGED contents

Deliver == /\ contents # << >>
           /\ message' = Head(contents)
           /\ contents' = Tail(contents)
           /\ ok' = TRUE

RefuseEmpty == /\ contents = << >>
               /\ ok' = FALSE
               /\ UNCHANGED <<contents, message>>

Next == \/ \E m \in Message : Accept(m) \/ RefuseFull(m)
        \/ Deliver
        \/ RefuseEmpty

Spec == Init /\ [][Next]_vars
=============================================================================
