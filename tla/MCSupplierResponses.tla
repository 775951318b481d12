------------------------- MODULE MCSupplierResponses -------------------------
(* SupplierResponses on small instances: recipients and, in most, a supplier *)
(* the RFQ is not addressed to.                                              *)
EXTENDS SupplierResponses, TLC

\* Ids, and suppliers of the same standing, are interchangeable.
Symmetry == Permutations(Requests) \cup Permutations(Responses) \cup Permutations(Recipients)
=============================================================================
