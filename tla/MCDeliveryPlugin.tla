-------------------------- MODULE MCDeliveryPlugin --------------------------
(* DeliveryPlugin for TLC: jobs and lease tokens are interchangeable. *)
EXTENDS DeliveryPlugin, TLC

Symmetry == Permutations(Jobs) \cup Permutations(Tokens)
=============================================================================
