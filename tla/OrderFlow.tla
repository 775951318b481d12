----------------------------- MODULE OrderFlow ------------------------------
(***************************************************************************)
(* What the order service promises: an order enters as a draft made from   *)
(* an approved quote, or in production when a provider's purchase order is *)
(* imported, and every commit then moves it along VALID_TRANSITIONS.  A    *)
(* signed-off or cancelled order is closed.                                *)
(***************************************************************************)
EXTENDS OrderStates

CONSTANT Orders

VARIABLE order

Init == order = [o \in Orders |-> "ABSENT"]

Enter(o) ==
    /\ order[o] = "ABSENT"
    /\ \E s \in {"DRAFT_FROM_APPROVED_QUOTE", "IN_PRODUCTION"} :
          order' = [order EXCEPT ![o] = s]

Advance(o) ==
    \E s \in OrderStates :
        /\ ReachedInOneCommit(order[o], s)
        /\ order' = [order EXCEPT ![o] = s]

Next == \E o \in Orders : Enter(o) \/ Advance(o)

Spec == Init /\ [][Next]_order
=============================================================================
