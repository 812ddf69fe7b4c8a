---------------------------- MODULE MCDinoMarket ---------------------------
(* Instances of DinoMarket for TLC: u1 and u2 sell a dino each, u3 and the  *)
(* other seller can buy, and the points suffice for one dearer dino only.   *)
EXTENDS DinoMarket

CONSTANTS u1, u2, u3, l1, l2

Sellers == [l \in Listings |-> IF l = l1 THEN u1 ELSE u2]
Prices == [l \in Listings |-> IF l = l1 THEN 20 ELSE 40]
=============================================================================
