-------------------------- MODULE MCOrderExecution --------------------------
(***************************************************************************)
(* Model checking of OrderExecution: two requests at a time, two suppliers *)
(* who can make it, and one order.  A second selection overtakes the first *)
(* up to the point where it would save an order of its own.                *)
(***************************************************************************)
EXTENDS OrderExecution, TLC

\* Ids are interchangeable.
Symmetry == Permutations(Requests) \cup Permutations(Suppliers) \cup Permutations(Orders)
=============================================================================
