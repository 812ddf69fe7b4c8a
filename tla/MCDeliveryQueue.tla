-------------------------- MODULE MCDeliveryQueue --------------------------
(* DeliveryQueue for TLC: lease tokens are interchangeable. *)
EXTENDS DeliveryQueue, TLC

Symmetry == Permutations(Jobs) \cup Permutations(Tokens)
=============================================================================
