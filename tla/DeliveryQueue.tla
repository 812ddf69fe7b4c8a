---------------------------- MODULE DeliveryQueue ----------------------------
(***************************************************************************)
(* The backend half of order delivery: DeliveryJob rows leased to the game *)
(* server's plugin, the Order row each job projects onto, and the refund   *)
(* and retry operations that compete with the plugin for the same rows.    *)
(*                                                                         *)
(* A handler is modelled in as many steps as it makes separate database    *)
(* statements: a read whose result is used later leaves a record in        *)
(* "inflight" or "advances" until the statement that uses it runs.  What   *)
(* the code wraps in one Serializable transaction is one step.  Time is    *)
(* abstract: leases expire and backoffs elapse at any moment.              *)
(***************************************************************************)
EXTENDS Naturals, FiniteSets, OrderState, Deliveries

CONSTANTS
  NoToken,         \* the null lease token
  BaseAttempts,    \* attempts granted to a job, and again by each retry
  MaxBudget,       \* bound: no retry that would raise maxAttempts above this
  MaxInflight      \* bound: handlers between their read and their update

ASSUME QueueAssumption ==
  /\ BaseAttempts \in Nat \ {0}
  /\ NoToken \notin Tokens
  /\ MaxBudget \in Nat /\ MaxInflight \in Nat

JobStatuses == {"pending", "leased", "completed", "dead_letter"}
Payers == {"none", "owner", "admin"}

VARIABLES
  status,       \* DeliveryJob.status
  token,        \* DeliveryJob.leaseToken
  expired,      \* leaseExpiresAt has passed
  waiting,      \* nextRetryAt is still in the future
  attempts,     \* DeliveryJob.attempts
  maxAttempts,  \* DeliveryJob.maxAttempts
  answered,     \* the claim response carrying the current lease has been sent
  order,        \* Order.status
  refundedBy,   \* who posted the ledger transaction order:refund:<order>
  credits,      \* how often the buyer's account was credited for it
  inflight,     \* handlers between reading the job and their conditional update
  advances,     \* handlers between their job update and the end of advanceOrder
  overtaken     \* jobs whose lease expired, or that were leased again, while
                \* such a handler was still busy with their order

jobVars == <<status, token, expired, waiting, attempts, maxAttempts, answered, overtaken>>
orderVars == <<order, refundedBy, credits>>
handlerVars == <<inflight, advances>>
queueVars == <<jobVars, orderVars, handlerVars>>

LeaseTokens == Tokens \cup {NoToken}

Handler ==
  [ op: Requests \cup {"claim"}, job: Jobs, token: LeaseTokens,
    status: JobStatuses, attempts: Nat, maxAttempts: Nat ]

Advance ==
  [ job: Jobs, token: LeaseTokens, to: {"delivering", "queued"},
    stage: {"read", "write"} ]

QueueTypeOK ==
  /\ status \in [Jobs -> JobStatuses]
  /\ token \in [Jobs -> LeaseTokens]
  /\ expired \in [Jobs -> BOOLEAN]
  /\ waiting \in [Jobs -> BOOLEAN]
  /\ attempts \in [Jobs -> Nat]
  /\ maxAttempts \in [Jobs -> Nat]
  /\ answered \in [Jobs -> BOOLEAN]
  /\ order \in [Jobs -> OrderStatuses]
  /\ refundedBy \in [Jobs -> Payers]
  /\ credits \in [Jobs -> Nat]
  /\ inflight \subseteq Handler
  /\ advances \subseteq Advance
  /\ overtaken \subseteq Jobs

\* The checkout transaction leaves a queued order with a pending job.
QueueInit ==
  /\ status = [j \in Jobs |-> "pending"]
  /\ token = [j \in Jobs |-> NoToken]
  /\ expired = [j \in Jobs |-> FALSE]
  /\ waiting = [j \in Jobs |-> FALSE]
  /\ attempts = [j \in Jobs |-> 0]
  /\ maxAttempts = [j \in Jobs |-> BaseAttempts]
  /\ answered = [j \in Jobs |-> FALSE]
  /\ order = [j \in Jobs |-> "queued"]
  /\ refundedBy = [j \in Jobs |-> "none"]
  /\ credits = [j \in Jobs |-> 0]
  /\ inflight = {}
  /\ advances = {}
  /\ overtaken = {}

-----------------------------------------------------------------------------

Snapshot(op, j, t) ==
  [ op |-> op, job |-> j, token |-> t, status |-> status[j],
    attempts |-> attempts[j], maxAttempts |-> maxAttempts[j] ]

Room == Cardinality(inflight) < MaxInflight

\* A handler is still busy with the order of j.
Advancing(j) == \E a \in advances : a.job = j

\* A handler that is busy with the order of j is overtaken.
Overtake(j) == overtaken' = IF Advancing(j) THEN overtaken \cup {j} ELSE overtaken

\* The order after a transactional advanceOrder: illegal moves are skipped.
Advanced(j, to) ==
  [order EXCEPT ![j] = IF CanTransition(@, to) THEN to ELSE @]

\* Mutant: an expired lease is never offered again.
ClaimablePendingOnly(j) == status[j] = "pending" /\ ~waiting[j]

Claimable(j) ==
  \/ status[j] = "pending" /\ ~waiting[j]
  \/ status[j] = "leased" /\ expired[j]

\* POST /deliveries/claim reads the claimable jobs of the server.
ClaimRead(j) ==
  /\ Claimable(j) /\ Room
  /\ inflight' = inflight \cup {Snapshot("claim", j, token[j])}
  /\ UNCHANGED <<jobVars, orderVars, advances>>

\* Mutant: one attempt too many.
ExhaustedLate(h) == h.status = "leased" /\ h.attempts > h.maxAttempts

\* A claim found an expired lease whose attempts are used up.
Exhausted(h) == h.status = "leased" /\ h.attempts >= h.maxAttempts

\* The condition of every update made under a lease.
LeasedWith(j, t) == status[j] = "leased" /\ token[j] = t

\* The job dies and the order fails, in one transaction.
DeadLetter(j) ==
  /\ status' = [status EXCEPT ![j] = "dead_letter"]
  /\ token' = [token EXCEPT ![j] = NoToken]
  /\ expired' = [expired EXCEPT ![j] = FALSE]
  /\ waiting' = [waiting EXCEPT ![j] = FALSE]
  /\ order' = Advanced(j, "failed")
  /\ UNCHANGED <<attempts, maxAttempts, answered, refundedBy, credits, overtaken>>

\* deadLetterExpiredLease: conditional on the expired lease that was read.
DeadLetterExpired(h) ==
  /\ h.op = "claim" /\ Exhausted(h)
  /\ LeasedWith(h.job, h.token) /\ expired[h.job]
  /\ DeadLetter(h.job)
  /\ inflight' = inflight \ {h}
  /\ UNCHANGED advances

OutstandingTokens ==
  {token[j] : j \in Jobs} \cup {g.token : g \in inflight}
    \cup {a.token : a \in advances}

\* The conditional update that takes the lease, with a fresh token.
ClaimLease(h, t) ==
  LET j == h.job IN
  /\ h.op = "claim" /\ ~Exhausted(h)
  /\ status[j] = h.status /\ token[j] = h.token
  /\ Overtake(j)
  /\ t \notin OutstandingTokens
  /\ status' = [status EXCEPT ![j] = "leased"]
  /\ token' = [token EXCEPT ![j] = t]
  /\ expired' = [expired EXCEPT ![j] = FALSE]
  /\ waiting' = [waiting EXCEPT ![j] = FALSE]
  /\ attempts' = [attempts EXCEPT ![j] = @ + 1]
  /\ answered' = [answered EXCEPT ![j] = FALSE]
  /\ inflight' = inflight \ {h}
  /\ advances' = advances \cup
       {[job |-> j, token |-> t, to |-> "delivering", stage |-> "read"]}
  /\ UNCHANGED <<maxAttempts, orderVars>>

\* The response to the claim leaves once advanceOrder has returned.
Answer(a) ==
  /\ advances' = advances \ {a}
  /\ answered' = [answered EXCEPT ![a.job] =
                    @ \/ (a.to = "delivering" /\ token[a.job] = a.token)]

\* advanceOrder outside a transaction: a read that decides ...
AdvanceSkip(a) ==
  /\ a.stage = "read"
  /\ order[a.job] = a.to \/ ~CanTransition(order[a.job], a.to)
  /\ Answer(a)
  /\ UNCHANGED <<status, token, expired, waiting, attempts, maxAttempts,
                 orderVars, inflight, overtaken>>

AdvanceRead(a) ==
  /\ a.stage = "read"
  /\ order[a.job] # a.to /\ CanTransition(order[a.job], a.to)
  /\ advances' = (advances \ {a}) \cup {[a EXCEPT !.stage = "write"]}
  /\ UNCHANGED <<jobVars, orderVars, inflight>>

\* ... and an update by id that no longer looks at the status.
AdvanceWrite(a) ==
  /\ a.stage = "write"
  /\ order' = [order EXCEPT ![a.job] = a.to]
  /\ Answer(a)
  /\ UNCHANGED <<status, token, expired, waiting, attempts, maxAttempts,
                 refundedBy, credits, inflight, overtaken>>

\* complete, fail and release first read the job.  A completed job is answered
\* as a duplicate and a foreign token refused: neither changes any state.
ReadRequest(op, j, t) ==
  /\ status[j] # "completed" /\ token[j] = t /\ Room
  /\ inflight' = inflight \cup {Snapshot(op, j, t)}
  /\ UNCHANGED <<jobVars, orderVars, advances>>

RefusedRequest(j, t) == status[j] = "completed" \/ token[j] # t

\* Job completion and the order's delivery share one transaction.
CommitComplete(h) ==
  LET j == h.job IN
  /\ h.op = "complete"
  /\ LeasedWith(j, h.token)
  /\ status' = [status EXCEPT ![j] = "completed"]
  /\ waiting' = [waiting EXCEPT ![j] = FALSE]
  /\ order' = Advanced(j, "delivered")
  /\ inflight' = inflight \ {h}
  /\ UNCHANGED <<token, expired, attempts, maxAttempts, answered,
                 refundedBy, credits, advances, overtaken>>

\* classifyFailure on the attempts read with the job: retry with a backoff ...
CommitFailRetry(h) ==
  LET j == h.job IN
  /\ h.op = "fail" /\ h.attempts < h.maxAttempts
  /\ LeasedWith(j, h.token)
  /\ status' = [status EXCEPT ![j] = "pending"]
  /\ token' = [token EXCEPT ![j] = NoToken]
  /\ expired' = [expired EXCEPT ![j] = FALSE]
  /\ waiting' = [waiting EXCEPT ![j] = TRUE]
  /\ order' = Advanced(j, "queued")
  /\ inflight' = inflight \ {h}
  /\ UNCHANGED <<attempts, maxAttempts, answered, refundedBy, credits, advances, overtaken>>

\* ... or the dead-letter queue.
CommitFailFinal(h) ==
  /\ h.op = "fail" /\ h.attempts >= h.maxAttempts
  /\ LeasedWith(h.job, h.token)
  /\ DeadLetter(h.job)
  /\ inflight' = inflight \ {h}
  /\ UNCHANGED advances

\* A release hands the attempt back and writes the order separately.
CommitRelease(h) ==
  LET j == h.job IN
  /\ h.op = "release"
  /\ LeasedWith(j, h.token)
  /\ status' = [status EXCEPT ![j] = "pending"]
  /\ token' = [token EXCEPT ![j] = NoToken]
  /\ expired' = [expired EXCEPT ![j] = FALSE]
  /\ waiting' = [waiting EXCEPT ![j] = TRUE]
  /\ attempts' = [attempts EXCEPT ![j] =
                    IF h.attempts > 0 THEN h.attempts - 1 ELSE 0]
  /\ inflight' = inflight \ {h}
  /\ advances' = advances \cup
       {[job |-> j, token |-> h.token, to |-> "queued", stage |-> "read"]}
  /\ UNCHANGED <<maxAttempts, answered, orderVars, overtaken>>

\* The condition of the update no longer holds: skip the job, or answer 409.
LoseRace(h) ==
  /\ \/ h.op = "claim" /\ Exhausted(h)
        /\ ~(LeasedWith(h.job, h.token) /\ expired[h.job])
     \/ h.op = "claim" /\ ~Exhausted(h)
        /\ ~(status[h.job] = h.status /\ token[h.job] = h.token)
     \/ h.op \in Requests /\ ~LeasedWith(h.job, h.token)
  /\ inflight' = inflight \ {h}
  /\ UNCHANGED <<jobVars, orderVars, advances>>

\* The backend process dies, or a statement fails, between two statements.
AbandonUpdate(h) ==
  /\ inflight' = inflight \ {h}
  /\ UNCHANGED <<jobVars, orderVars, advances>>

AbandonAdvance(a) ==
  /\ advances' = advances \ {a}
  /\ UNCHANGED <<jobVars, orderVars, inflight>>

\* Sixty seconds after the claim.
LeaseExpires(j) ==
  /\ status[j] = "leased" /\ ~expired[j]
  /\ Overtake(j)
  /\ expired' = [expired EXCEPT ![j] = TRUE]
  /\ UNCHANGED <<status, token, waiting, attempts, maxAttempts, answered,
                 orderVars, handlerVars>>

\* nextRetryAt passes, or resetOfflineBackoff clears it when the player logs in.
BackoffOver(j) ==
  /\ status[j] = "pending" /\ waiting[j]
  /\ waiting' = [waiting EXCEPT ![j] = FALSE]
  /\ UNCHANGED <<status, token, expired, attempts, maxAttempts, answered,
                 orderVars, handlerVars, overtaken>>

-----------------------------------------------------------------------------
(* Refunds and retries, each one Serializable transaction.                 *)

\* Mutant: the posting is not idempotent.
PostRefundAgain(j, payer) ==
  /\ refundedBy' = [refundedBy EXCEPT ![j] = payer]
  /\ credits' = [credits EXCEPT ![j] = @ + 1]

\* walletService.post under the key order:refund:<order>: a first posting
\* credits the buyer, a replay by the same path returns the stored transaction,
\* and the other path's different request hash is refused (no step).
PostRefund(j, payer) ==
  /\ refundedBy[j] \in {"none", payer}
  /\ refundedBy' = [refundedBy EXCEPT ![j] = payer]
  /\ credits' = [credits EXCEPT ![j] = IF refundedBy[j] = "none" THEN @ + 1 ELSE @]

\* POST /orders/:id/refund by the owner: only a failed order, and no delivery
\* that reached or may reach the game; a queued retry is withdrawn.
OwnerRefund(j) ==
  /\ IsRefundable(order[j]) /\ order[j] # "delivered"
  /\ status[j] \notin {"completed", "leased"}
  /\ PostRefund(j, "owner")
  /\ order' = [order EXCEPT ![j] = "refunded"]
  /\ status' = [status EXCEPT ![j] = IF @ = "pending" THEN "dead_letter" ELSE @]
  /\ waiting' = [waiting EXCEPT ![j] = FALSE]
  /\ UNCHANGED <<token, expired, attempts, maxAttempts, answered, handlerVars, overtaken>>

\* POST /admin/orders/:id/refund: conditional on the status it read; for a
\* delivered order the operator has taken the item back.
AdminRefund(j) ==
  /\ IsRefundable(order[j])
  /\ PostRefund(j, "admin")
  /\ order' = [order EXCEPT ![j] = "refunded"]
  /\ UNCHANGED <<jobVars, handlerVars>>

\* Mutant: the retry leaves the order failed, so its owner may refund it while
\* the plugin delivers.
AdminRetryJobOnly(j) ==
  /\ status[j] = "dead_letter"
  /\ ~BlocksRetry(order[j])
  /\ attempts[j] + BaseAttempts <= MaxBudget
  /\ status' = [status EXCEPT ![j] = "pending"]
  /\ maxAttempts' = [maxAttempts EXCEPT ![j] = attempts[j] + BaseAttempts]
  /\ UNCHANGED <<token, expired, waiting, attempts, answered, orderVars, handlerVars, overtaken>>

\* deliveryAdminService.retry: a fresh budget on top of the attempts made.
AdminRetry(j) ==
  /\ status[j] = "dead_letter"
  /\ ~BlocksRetry(order[j])
  /\ attempts[j] + BaseAttempts <= MaxBudget
  /\ status' = [status EXCEPT ![j] = "pending"]
  /\ token' = [token EXCEPT ![j] = NoToken]
  /\ expired' = [expired EXCEPT ![j] = FALSE]
  /\ waiting' = [waiting EXCEPT ![j] = FALSE]
  /\ maxAttempts' = [maxAttempts EXCEPT ![j] = attempts[j] + BaseAttempts]
  /\ order' = Advanced(j, "queued")
  /\ UNCHANGED <<attempts, answered, refundedBy, credits, handlerVars, overtaken>>

-----------------------------------------------------------------------------

\* A handler that has read its job runs its conditional update, or never does.
Finish(h) ==
  \/ DeadLetterExpired(h)
  \/ CommitComplete(h)
  \/ CommitFailRetry(h)
  \/ CommitFailFinal(h)
  \/ CommitRelease(h)
  \/ LoseRace(h)

Advancement(a) ==
  \/ AdvanceSkip(a)
  \/ AdvanceRead(a)
  \/ AdvanceWrite(a)

Clock(j) == LeaseExpires(j) \/ BackoffOver(j)

People(j) == OwnerRefund(j) \/ AdminRefund(j) \/ AdminRetry(j)

\* Any client that holds only lease tokens some claim response has carried.
Client(j) ==
  \E op \in Requests, t \in Tokens :
    /\ LeasedWith(j, t) => answered[j]
    /\ ReadRequest(op, j, t)

QueueNext ==
  \/ \E j \in Jobs : ClaimRead(j) \/ Client(j) \/ Clock(j) \/ People(j)
  \/ \E h \in inflight :
       \/ \E t \in Tokens : ClaimLease(h, t)
       \/ Finish(h)
       \/ AbandonUpdate(h)
  \/ \E a \in advances : Advancement(a) \/ AbandonAdvance(a)

QueueSpec == QueueInit /\ [][QueueNext]_queueVars

-----------------------------------------------------------------------------
(* What the queue must keep, whatever its clients do.                      *)

\* A pending job always has an attempt left, and a leased job is within its
\* budget: claims, releases that hand an attempt back, expired leases and
\* retries never let a job run more often than maxAttempts allows.
BudgetRespected ==
  \A j \in Jobs :
    /\ status[j] = "pending" => attempts[j] < maxAttempts[j]
    /\ status[j] = "leased" => attempts[j] \in 1 .. maxAttempts[j]

\* Unless a handler was overtaken the order tells the truth about the job:
\* completed jobs belong to delivered (or later refunded) orders, dead jobs to
\* failed or refunded ones, and a failed order, the only one its owner may
\* refund, has no job a plugin could still be running.
OrderFollowsJob ==
  \A j \in Jobs \ overtaken :
    CASE status[j] \in {"pending", "leased"} -> order[j] \in {"queued", "delivering"}
      [] status[j] = "completed" -> order[j] \in {"delivered", "refunded"}
      [] status[j] = "dead_letter" -> order[j] \in {"failed", "refunded"}

\* Unless a handler was overtaken a refunded order is out of the plugin's reach
\* for good.
RefundedStaysOut ==
  [][\A j \in Jobs \ overtaken : order[j] = "refunded" =>
       order'[j] = "refunded" /\ status'[j] = status[j]]_queueVars

\* The two refund paths together credit the buyer at most once per order, and
\* a refunded order has been paid back.
RefundedOnce ==
  \A j \in Jobs :
    /\ credits[j] <= 1
    /\ order[j] = "refunded" => credits[j] = 1

\* A plugin callback never drags a delivered order backwards: it can only be
\* refunded from there.
NeverDraggedBack ==
  [][\A j \in Jobs : order[j] = "delivered" =>
       order'[j] \in {"delivered", "refunded"}]_queueVars
=============================================================================
