-------------------------- MODULE MCCustomerQuotes --------------------------
(* CustomerQuotes on small instances: a supplier who quotes a price and one  *)
(* who does not.                                                             *)
EXTENDS CustomerQuotes, TLC

Symmetry == Permutations(Requests) \cup Permutations(Drafts)
=============================================================================
