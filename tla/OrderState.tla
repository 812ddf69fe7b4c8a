----------------------------- MODULE OrderState -----------------------------
(***************************************************************************)
(* The order state machine of the backend: which status of a purchase may  *)
(* follow which.  Every component that moves an order goes through         *)
(* CanTransition; the exceptions are modelled where they occur.            *)
(***************************************************************************)

OrderStatuses ==
  { "draft", "pending_payment", "paid", "queued", "delivering", "delivered",
    "failed", "refunded", "cancelled" }

\* The edges of the TRANSITIONS table.
Transitions ==
  { <<"draft", "pending_payment">>, <<"draft", "cancelled">>,
    <<"pending_payment", "paid">>, <<"pending_payment", "cancelled">>,
    <<"pending_payment", "failed">>,
    <<"paid", "queued">>, <<"paid", "refunded">>, <<"paid", "cancelled">>,
    <<"queued", "delivering">>, <<"queued", "failed">>,
    <<"queued", "cancelled">>,
    <<"delivering", "delivered">>, <<"delivering", "queued">>,
    <<"delivering", "failed">>,
    <<"delivered", "refunded">>,
    <<"failed", "refunded">>, <<"failed", "queued">> }

\* Rewriting the status an order already has is allowed; a status outside the
\* table (a legacy "pending" order) moves nowhere, not even to itself.
CanTransition(from, to) ==
  /\ {from, to} \subseteq OrderStatuses
  /\ from = to \/ <<from, to>> \in Transitions

IsRefundable(st) == st \in {"delivered", "failed"}

\* Mutant: a retry does not mind that the money went back.
BlocksRetryButRefunded(st) == st \in {"cancelled", "delivered"}

\* Statuses from which an administrator's retry of the delivery is refused.
BlocksRetry(st) == st \in {"refunded", "cancelled", "delivered"}
=============================================================================
