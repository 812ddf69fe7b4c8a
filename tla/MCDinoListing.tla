--------------------------- MODULE MCDinoListing ---------------------------
(* Instances of DinoListing for TLC.                                        *)
EXTENDS DinoListing, TLC

Interchangeable == Permutations(Locks) \cup Permutations(Handlers)
=============================================================================
