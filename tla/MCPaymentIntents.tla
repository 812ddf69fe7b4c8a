-------------------------- MODULE MCPaymentIntents --------------------------
(***************************************************************************)
(* PaymentIntents for TLC: a card payment the provider reports in two      *)
(* events, and a bank transfer.                                            *)
(***************************************************************************)
EXTENDS PaymentIntents

CONSTANTS card, transfer

MCIntentOf == [e \in Events |-> card]

=============================================================================
