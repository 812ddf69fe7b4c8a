-------------------------- MODULE MCDeliverySystem --------------------------
(* DeliverySystem for TLC: jobs and lease tokens are interchangeable. *)
EXTENDS DeliverySystem, TLC

Symmetry == Permutations(Jobs) \cup Permutations(Tokens)
=============================================================================
