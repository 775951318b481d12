-------------------------- MODULE MCOrderPlacement --------------------------
(* OrderPlacement on small instances: one approval request per RFQ and per   *)
(* packet, and one or two clerks who race over the form and the orders.      *)
EXTENDS OrderPlacement, TLC

\* Ids, slots and options are interchangeable.
Symmetry == Permutations(Approvals) \cup Permutations(Options) \cup Permutations(Clerks)
              \cup Permutations(Orders)
=============================================================================
