--------------------------- MODULE MCApprovalGate ---------------------------
(* ApprovalGate on a small instance: two concurrent requests over two RFQs   *)
(* and one packet, with enough approvals to bind two of them.                *)
EXTENDS ApprovalGate
=============================================================================
