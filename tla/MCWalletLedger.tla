--------------------------- MODULE MCWalletLedger ---------------------------
(***************************************************************************)
(* WalletLedger for TLC: the issuance account, an escrow account and two   *)
(* buyers.  "topup" mints, in two different versions under one key; only a *)
(* topped up buyer can "buy", and "gift" moves money between the buyers.   *)
(***************************************************************************)
EXTENDS WalletLedger, TLC

Row(issuance, escrow, first, second) == <<issuance, escrow, first, second>>

MCAccounts == 1 .. 4
MCOverdraft == {1}
MCAvailable == {3, 4}
MCOpening == Row(-2, 0, 1, 1)

MCRequests ==
  { [key |-> "topup", amount |-> Row(-1, 0, 1, 0)],
    [key |-> "topup", amount |-> Row(-2, 0, 1, 1)],
    [key |-> "buy", amount |-> Row(0, 2, -2, 0)],
    [key |-> "gift", amount |-> Row(0, 0, 1, -1)] }

Symmetry == Permutations(Callers)

=============================================================================
