---------------------------- MODULE OrderStates -----------------------------
(* The statuses of an order and the transitions between them, from          *)
(* src/orders/state_machine.py.  "ABSENT" stands for an order not inserted. *)

OrderStates == {"DRAFT_FROM_APPROVED_QUOTE", "PENDING_BUYER_CONFIRMATION", "CONFIRMED",
                "IN_PRODUCTION", "QC_PENDING", "QC_PASSED", "QC_FAILED", "READY_TO_SHIP",
                "SHIPPED", "DELIVERED", "BUYER_SIGNED_OFF", "CANCELLED"}

ValidTransitions(current) ==
    CASE current = "DRAFT_FROM_APPROVED_QUOTE"  -> {"PENDING_BUYER_CONFIRMATION", "CANCELLED"}
      [] current = "PENDING_BUYER_CONFIRMATION" -> {"CONFIRMED", "CANCELLED"}
      [] current = "CONFIRMED"                  -> {"IN_PRODUCTION", "CANCELLED"}
      [] current = "IN_PRODUCTION"              -> {"QC_PENDING", "CANCELLED"}
      [] current = "QC_PENDING"                 -> {"QC_PASSED", "QC_FAILED"}
      [] current = "QC_PASSED"                  -> {"READY_TO_SHIP"}
      [] current = "QC_FAILED"                  -> {"IN_PRODUCTION", "CANCELLED"}
      [] current = "READY_TO_SHIP"              -> {"SHIPPED"}
      [] current = "SHIPPED"                    -> {"DELIVERED"}
      [] current = "DELIVERED"                  -> {"BUYER_SIGNED_OFF"}
      [] OTHER                                  -> {}

\* The check of transition(current, target), which raises unless it holds.
Transition(current, target) == target \in ValidTransitions(current)

\* The statuses a handler passes through on its way to another: confirm_order ends
\* in production, record_qc_result ends ready to ship.
Transient == {"PENDING_BUYER_CONFIRMATION", "CONFIRMED", "QC_PASSED"}

\* One commit takes one transition, or several through transient statuses.
ReachedInOneCommit(current, target) ==
    /\ target \notin Transient
    /\ \/ Transition(current, target)
       \/ \E s \in Transient : Transition(current, s) /\ Transition(s, target)
       \/ \E s, t \in Transient :
             Transition(current, s) /\ Transition(s, t) /\ Transition(t, target)
=============================================================================
