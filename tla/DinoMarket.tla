---------------------------- MODULE DinoMarket -----------------------------
(* A dino for sale: the seller may cancel it, a buyer may buy it. A purchase *)
(* holds the price in escrow and queues a delivery; the delivery's end pays  *)
(* the seller or refunds the buyer. Purchase, completion and dead-lettering  *)
(* are serializable transactions; cancelling reads and writes separately.    *)
(* Leases are reduced to what this component sees of DeliveryQueue, and the  *)
(* plugin to what DeliveryPlugin promises: it gives a dino at most once and  *)
(* reports completion only of one it gave, failure only of one it did not.   *)
EXTENDS Integers, FiniteSets, Functions

CONSTANTS
    Users, Listings,
    SellerOf,       \* listing -> its seller
    Price,          \* listing -> its price
    Wealth,         \* what every user has to begin with
    MaxAttempts     \* deliveryJob.maxAttempts

ASSUME MarketAssumption ==
    /\ IsFiniteSet(Listings)
    /\ SellerOf \in [Listings -> Users] /\ "nobody" \notin Users
    /\ Price \in [Listings -> Nat \ {0}] /\ Wealth \in Nat
    /\ MaxAttempts \in Nat \ {0}

VARIABLES
    status, buyer, delivery,    \* DinoListing
    job, attempts,              \* its DeliveryJob
    posted,                     \* <<kind, listing>>: the keys in the ledger
    available, clearing, revenue,
    given,                      \* dinos the plugin gave to their buyers
    cancelling, buying,         \* requests that have read a listed dino
    overtaken,      \* listings bought between a cancellation's read and write
    unheard         \* listings whose lease ran out on a plugin that gave, or
                    \* gave after it ran out

listing == <<status, buyer, delivery>>
money == <<posted, available, clearing, revenue>>
vars == <<status, buyer, delivery, job, attempts, posted, available, clearing,
          revenue, given, cancelling, buying, overtaken, unheard>>
luck == <<overtaken, unheard>>

ListingStatuses == {"listed", "sold", "cancelled"}
DeliveryStatuses == {"none", "pending", "delivered", "failed"}
JobStatuses == {"none", "pending", "leased", "completed", "dead_letter"}
Postings == {"hold", "release", "refund"}

\* computeFeeSplit and dinoFeeSplit: five percent, rounded down.
Fee(l) == Price[l] \div 20

Init ==
    /\ status = [l \in Listings |-> "listed"]
    /\ buyer = [l \in Listings |-> "nobody"]
    /\ delivery = [l \in Listings |-> "none"]
    /\ job = [l \in Listings |-> "none"] /\ attempts = [l \in Listings |-> 0]
    /\ posted = {} /\ available = [u \in Users |-> Wealth]
    /\ clearing = 0 /\ revenue = 0
    /\ given = {} /\ cancelling = {} /\ buying = {}
    /\ overtaken = {} /\ unheard = {}

(* ---------------------------------------------------------------------- *)
(* The seller and the buyers                                              *)

\* Mutant: a sold dino may be cancelled too.
ReadCancelAny(l) ==
    /\ status[l] # "cancelled" /\ l \notin cancelling
    /\ cancelling' = cancelling \cup {l}
    /\ UNCHANGED <<listing, job, attempts, money, given, buying, luck>>

ReadCancel(l) ==
    /\ status[l] = "listed" /\ l \notin cancelling
    /\ cancelling' = cancelling \cup {l}
    /\ UNCHANGED <<listing, job, attempts, money, given, buying, luck>>

\* The update by id, whatever the listing has become.
WriteCancel(l) ==
    /\ l \in cancelling
    /\ cancelling' = cancelling \ {l}
    /\ status' = [status EXCEPT ![l] = "cancelled"]
    /\ UNCHANGED <<buyer, delivery, job, attempts, money, given, buying, luck>>

ReadBuy(u, l) ==
    /\ status[l] = "listed" /\ SellerOf[l] # u /\ available[u] >= Price[l]
    /\ buying' = buying \cup {<<u, l>>}
    /\ UNCHANGED <<listing, job, attempts, money, given, cancelling, luck>>

\* Mutant: the ledger trusts the balance read before the transaction.
CommitBuyAsRead(u, l) ==
    /\ <<u, l>> \in buying
    /\ status[l] = "listed"
    /\ status' = [status EXCEPT ![l] = "sold"]
    /\ buyer' = [buyer EXCEPT ![l] = u]
    /\ delivery' = [delivery EXCEPT ![l] = "pending"]
    /\ job' = [job EXCEPT ![l] = "pending"]
    /\ posted' = posted \cup {<<"hold", l>>}
    /\ available' = [available EXCEPT ![u] = @ - Price[l]]
    /\ clearing' = clearing + Price[l]
    /\ buying' = buying \ {<<u, l>>}
    /\ overtaken' = IF l \in cancelling THEN overtaken \cup {l} ELSE overtaken
    /\ UNCHANGED <<attempts, revenue, given, cancelling, unheard>>

\* The purchase: listed -> sold, the escrow hold, the delivery job.
CommitBuy(u, l) ==
    /\ <<u, l>> \in buying
    /\ status[l] = "listed" /\ available[u] >= Price[l]
    /\ status' = [status EXCEPT ![l] = "sold"]
    /\ buyer' = [buyer EXCEPT ![l] = u]
    /\ delivery' = [delivery EXCEPT ![l] = "pending"]
    /\ job' = [job EXCEPT ![l] = "pending"]
    /\ posted' = posted \cup {<<"hold", l>>}
    /\ available' = [available EXCEPT ![u] = @ - Price[l]]
    /\ clearing' = clearing + Price[l]
    /\ buying' = buying \ {<<u, l>>}
    /\ overtaken' = IF l \in cancelling THEN overtaken \cup {l} ELSE overtaken
    /\ UNCHANGED <<attempts, revenue, given, cancelling, unheard>>

\* Another buyer or the seller was first, the points are gone, or the
\* request died.
AbandonBuy(u, l) ==
    /\ <<u, l>> \in buying /\ buying' = buying \ {<<u, l>>}
    /\ UNCHANGED <<listing, job, attempts, money, given, cancelling, luck>>

(* ---------------------------------------------------------------------- *)
(* The delivery                                                           *)

\* Mutant: the last attempt is never made.
ClaimButLast(l) ==
    /\ job[l] \in {"pending", "leased"} /\ attempts[l] + 1 < MaxAttempts
    /\ job' = [job EXCEPT ![l] = "leased"]
    /\ attempts' = [attempts EXCEPT ![l] = @ + 1]
    /\ UNCHANGED <<listing, money, given, cancelling, buying, luck>>

\* claimDeliveries: a pending job, or one whose lease expired.
Claim(l) ==
    /\ job[l] \in {"pending", "leased"} /\ attempts[l] < MaxAttempts
    /\ job' = [job EXCEPT ![l] = "leased"]
    /\ attempts' = [attempts EXCEPT ![l] = @ + 1]
    /\ UNCHANGED <<listing, money, given, cancelling, buying, luck>>

\* The plugin restores the snapshot for the buyer.
Give(l) ==
    /\ l \notin given
    /\ job[l] = "leased" \/ attempts[l] > 0
    /\ given' = given \cup {l}
    /\ unheard' = IF job[l] = "leased" THEN unheard ELSE unheard \cup {l}
    /\ UNCHANGED <<listing, job, attempts, money, cancelling, buying, overtaken>>

Awaiting(l) == status[l] = "sold" /\ delivery[l] = "pending"

\* completeDelivery of a dino_marketplace job: the escrow goes to the seller
\* and the platform. A listing not awaiting delivery answers 409, and the
\* job stays leased.
CompleteDelivery(l) ==
    /\ l \in given /\ job[l] = "leased" /\ Awaiting(l)
    /\ job' = [job EXCEPT ![l] = "completed"]
    /\ delivery' = [delivery EXCEPT ![l] = "delivered"]
    /\ posted' = posted \cup {<<"release", l>>}
    /\ clearing' = clearing - Price[l]
    /\ available' = [available EXCEPT ![SellerOf[l]] = @ + (Price[l] - Fee(l))]
    /\ revenue' = revenue + Fee(l)
    /\ UNCHANGED <<status, buyer, attempts, given, cancelling, buying, luck>>

Refundable(l) == buyer[l] # "nobody" /\ delivery[l] = "pending"

\* Mutant: the platform keeps its fee of a refund.
RefundNet(l) ==
    /\ delivery' = [delivery EXCEPT ![l] = "failed"]
    /\ posted' = posted \cup {<<"refund", l>>}
    /\ clearing' = clearing - (Price[l] - Fee(l))
    /\ available' = [available EXCEPT ![buyer[l]] = @ + (Price[l] - Fee(l))]
    /\ UNCHANGED <<status, buyer, revenue>>

\* applyDeadLetterOutcome of a dino_marketplace job: the buyer is refunded.
Refund(l) ==
    /\ delivery' = [delivery EXCEPT ![l] = "failed"]
    /\ posted' = posted \cup {<<"refund", l>>}
    /\ clearing' = clearing - Price[l]
    /\ available' = [available EXCEPT ![buyer[l]] = @ + Price[l]]
    /\ UNCHANGED <<status, buyer, revenue>>

DeadLetter(l) ==
    /\ job' = [job EXCEPT ![l] = "dead_letter"]
    /\ \/ Refundable(l) /\ Refund(l)
       \/ ~Refundable(l) /\ UNCHANGED <<listing, money>>

\* failDelivery with attempts left, and releaseDelivery, which gives the
\* attempt back.
Requeue(l) ==
    /\ job[l] = "leased"
    /\ job' = [job EXCEPT ![l] = "pending"]
    /\ \/ l \notin given /\ attempts[l] < MaxAttempts /\ UNCHANGED attempts
       \/ attempts' = [attempts EXCEPT ![l] = @ - 1]
    /\ UNCHANGED <<listing, money, given, cancelling, buying, luck>>

\* Mutant: a failure is reported although the dino was given.
FailAfterGiving(l) ==
    /\ job[l] = "leased" /\ attempts[l] = MaxAttempts
    /\ Refundable(l) /\ DeadLetter(l)
    /\ UNCHANGED <<attempts, given, cancelling, buying, luck>>

\* failDelivery without attempts left; it refuses when nothing can be refunded.
FailFinal(l) ==
    /\ job[l] = "leased" /\ l \notin given /\ attempts[l] = MaxAttempts
    /\ Refundable(l) /\ DeadLetter(l)
    /\ UNCHANGED <<attempts, given, cancelling, buying, luck>>

\* Mutant: the dead-letter update is not conditional on the lease it read.
LeaseRunsOutLate(l) ==
    /\ job[l] \in {"leased", "completed"} /\ attempts[l] = MaxAttempts
    /\ DeadLetter(l)
    /\ unheard' = IF l \in given /\ Awaiting(l) THEN unheard \cup {l} ELSE unheard
    /\ UNCHANGED <<attempts, given, cancelling, buying, overtaken>>

\* deadLetterExpiredLease: the last lease ran out without an answer.
LeaseRunsOut(l) ==
    /\ job[l] = "leased" /\ attempts[l] = MaxAttempts
    /\ DeadLetter(l)
    /\ unheard' = IF l \in given /\ Awaiting(l) THEN unheard \cup {l} ELSE unheard
    /\ UNCHANGED <<attempts, given, cancelling, buying, overtaken>>

Trade(l) ==
    \/ ReadCancel(l) \/ WriteCancel(l)
    \/ \E u \in Users : ReadBuy(u, l) \/ CommitBuy(u, l) \/ AbandonBuy(u, l)
Deliver(l) ==
    \/ Claim(l) \/ Give(l) \/ CompleteDelivery(l)
    \/ Requeue(l) \/ FailFinal(l) \/ LeaseRunsOut(l)

Next == \E l \in Listings : Trade(l) \/ Deliver(l)

Spec == Init /\ [][Next]_vars

\* The plugin polls, the buyer is online now and then, a repeated report gets
\* through, and a lease that nobody answers runs out.
Fairness ==
    \A l \in Listings :
        /\ WF_vars(Claim(l)) /\ SF_vars(Give(l)) /\ SF_vars(CompleteDelivery(l))
        /\ SF_vars(LeaseRunsOut(l))
FairSpec == Spec /\ Fairness

(* ---------------------------------------------------------------------- *)

\* Types; in particular no user's balance is negative.
TypeOK ==
    /\ status \in [Listings -> ListingStatuses]
    /\ buyer \in [Listings -> Users \cup {"nobody"}]
    /\ delivery \in [Listings -> DeliveryStatuses]
    /\ \A l \in Listings : delivery[l] # "none" => buyer[l] \in Users
    /\ job \in [Listings -> JobStatuses] /\ attempts \in [Listings -> 0 .. MaxAttempts]
    /\ posted \subseteq Postings \X Listings
    /\ available \in [Users -> Nat] /\ clearing \in Int /\ revenue \in Nat
    /\ given \subseteq Listings /\ cancelling \subseteq Listings
    /\ buying \subseteq Users \X Listings
    /\ overtaken \subseteq Listings /\ unheard \subseteq Listings

Held(l) == <<"hold", l>> \in posted
Settled(l) == <<"release", l>> \in posted \/ <<"refund", l>> \in posted

\* The clearing account holds exactly the prices of the purchases that are
\* neither paid out nor refunded, so escrow never leaks into other money, and
\* whoever bought several dinos at once had the points for all of them.
ClearingHoldsEscrow ==
    /\ clearing = SumFunctionOnSet(Price, {l \in Listings : Held(l) /\ ~Settled(l)})
    /\ \A u \in Users : available[u] >= 0

\* The seller is paid for a completed delivery of a dino that was given, the
\* buyer refunded for a dead-lettered one, and nobody both ways.
SettledByDelivery ==
    \A l \in Listings :
        /\ <<"release", l>> \in posted => Held(l) /\ l \in given /\ job[l] = "completed"
        /\ <<"refund", l>> \in posted => Held(l) /\ job[l] = "dead_letter"

\* Nobody gets a dino and the money back, unless its last lease ran out on a
\* plugin that gave it or its purchase overtook a cancellation.
RefundedIsNotGiven ==
    \A l \in given : <<"refund", l>> \in posted => l \in unheard \cup overtaken

\* A cancelled dino was not sold, unless its purchase overtook the cancellation.
CancelledIsUnsold ==
    \A l \in Listings : status[l] = "cancelled" /\ Held(l) => l \in overtaken

\* Every purchase is settled in the end, one way or the other, whatever becomes
\* of the plugin's reports.
EventuallySettled == \A l \in Listings : Held(l) ~> Settled(l) \/ l \in overtaken

\* A cancelled dino goes back to its seller ("Your dino will be returned",
\* dino-market.controller.ts:414): it was not sold.
CancelledGoesBack == \A l \in Listings : status[l] = "cancelled" => ~Held(l)

=============================================================================
