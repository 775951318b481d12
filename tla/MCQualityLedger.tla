--------------------------- MODULE MCQualityLedger ---------------------------
(* QualityLedger on small instances. *)
EXTENDS QualityLedger, TLC

\* Ids and participants are interchangeable.
Symmetry == Permutations(Requests) \cup Permutations(Incidents) \cup Permutations(Alerts)
              \cup Permutations(Participants)
=============================================================================
