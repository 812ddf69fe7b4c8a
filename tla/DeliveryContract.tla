-------------------------- MODULE DeliveryContract --------------------------
(***************************************************************************)
(* What the shop promises about one paid order, whatever happens between   *)
(* the backend and the game server: the order enters the game at most once *)
(* and never after its money went back, it is reported delivered only when *)
(* the game has all of it, and it is paid back at most once.               *)
(***************************************************************************)
EXTENDS Naturals

CONSTANT Jobs

VARIABLES
  game,      \* what of the order the game holds
  outcome,   \* what the shop says became of the order
  paidBack   \* how often the buyer was credited for it

vars == <<game, outcome, paidBack>>

Init ==
  /\ game = [j \in Jobs |-> "nothing"]
  /\ outcome = [j \in Jobs |-> "open"]
  /\ paidBack = [j \in Jobs |-> 0]

Give(j, amount) ==
  /\ game[j] = "nothing" /\ outcome[j] # "refunded"
  /\ game' = [game EXCEPT ![j] = amount]
  /\ UNCHANGED <<outcome, paidBack>>

Settle(j) ==
  /\ outcome[j] = "open" /\ game[j] = "all"
  /\ outcome' = [outcome EXCEPT ![j] = "delivered"]
  /\ UNCHANGED <<game, paidBack>>

Refund(j) ==
  /\ outcome[j] # "refunded" /\ paidBack[j] = 0
  /\ outcome' = [outcome EXCEPT ![j] = "refunded"]
  /\ paidBack' = [paidBack EXCEPT ![j] = 1]
  /\ UNCHANGED game

Next ==
  \E j \in Jobs :
    \/ \E amount \in {"part", "all"} : Give(j, amount)
    \/ Settle(j)
    \/ Refund(j)

Spec == Init /\ [][Next]_vars
=============================================================================
