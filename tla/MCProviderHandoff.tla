-------------------------- MODULE MCProviderHandoff --------------------------
(* ProviderHandoff on a small instance: two executors compete for one        *)
(* purchase order whose confirmed source may change once.                    *)
EXTENDS ProviderHandoff
=============================================================================
