-------------------------- MODULE MCOrderLifecycle --------------------------
(* OrderLifecycle on small instances. *)
EXTENDS OrderLifecycle, TLC

\* Ids of requests, records and shipments are interchangeable.
Symmetry == Permutations(Requests) \cup Permutations(Records) \cup Permutations(Shipments)
=============================================================================
