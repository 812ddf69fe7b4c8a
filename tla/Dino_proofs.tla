------------------------------ MODULE Dino_proofs ------------------------------
(* Proofs about DinoMarket and DinoListing, which share nothing but the     *)
(* dino. That money follows the delivery holds however                      *)
(* cancellations, purchases and leases interleave; that a cancelled dino is *)
(* unsold and a refunded one not given holds unless they are overtaken. What*)
(* the journal promises of a destroyed dino holds whatever the world does;  *)
(* that a listed dino is gone and listed once holds as long as the world    *)
(* keeps what was destroyed and recovery precedes the next sale, which is   *)
(* what Orderly says.                                                       *)
EXTENDS DinoMarket, DinoListing, SumTheorems, TLAPS

\* What a listing's row, its job and its ledger keys say of each other.
Agree(l) ==
    /\ Held(l) <=> job[l] # "none"
    /\ ~Held(l) => delivery[l] = "none" /\ buyer[l] = "nobody"
    /\ status[l] = "listed" => ~Held(l)
    /\ delivery[l] = "pending" => job[l] \in {"pending", "leased"}
    /\ job[l] = "leased" => attempts[l] > 0
    /\ job[l] = "completed" => delivery[l] = "delivered"
    /\ <<"release", l>> \in posted => l \in given /\ job[l] = "completed"
    /\ <<"refund", l>> \in posted => job[l] = "dead_letter"

Agreement == \A l \in Listings : Agree(l)
Inv == TypeOK /\ Agreement

\* The fee is part of the price.
LEMMA FeeBounds ==
  ASSUME NEW l \in Listings
  PROVE  Fee(l) \in Nat /\ Price[l] - Fee(l) \in Nat /\ Price[l] \in Nat
  BY MarketAssumption DEF Fee

\* Agreement is about one listing: a step of l leaves the others alone.
LEMMA OthersAgree ==
  ASSUME Inv, NEW l \in Listings, Agree(l)',
         \A k \in Listings \ {l} :
            /\ status'[k] = status[k] /\ buyer'[k] = buyer[k] /\ delivery'[k] = delivery[k]
            /\ job'[k] = job[k] /\ attempts'[k] = attempts[k]
            /\ k \in given => k \in given'
            /\ <<"hold", k>> \in posted' <=> <<"hold", k>> \in posted
            /\ <<"release", k>> \in posted' <=> <<"release", k>> \in posted
            /\ <<"refund", k>> \in posted' <=> <<"refund", k>> \in posted
  PROVE  Agreement'
<1>1. ASSUME NEW k \in Listings \ {l}
      PROVE  Agree(k)'
  BY <1>1 DEF Inv, Agreement, Agree, Held
<1> QED BY <1>1 DEF Agreement

LEMMA InitInv == Init => Inv
<1> SUFFICES ASSUME Init PROVE Inv
  OBVIOUS
<1>1. TypeOK
  BY MarketAssumption DEF Init, TypeOK, ListingStatuses, DeliveryStatuses, JobStatuses
<1>2. Agreement
  BY DEF Init, Agreement, Agree, Held
<1> QED BY <1>1, <1>2 DEF Inv

LEMMA TradeStep ==
  ASSUME Inv, NEW l \in Listings, Trade(l)
  PROVE  Inv'
<1> USE DEF Postings
<1>1. CASE ReadCancel(l)
  BY <1>1 DEF ReadCancel, Inv, TypeOK, Agreement, Agree, Held, listing, money, luck
<1>2. CASE WriteCancel(l)
  <2>1. TypeOK'
    BY <1>2 DEF WriteCancel, Inv, TypeOK, ListingStatuses, money, luck
  <2>2. Agreement'
    BY <1>2 DEF WriteCancel, Inv, TypeOK, Agreement, Agree, Held, money, luck
  <2> QED BY <2>1, <2>2 DEF Inv
<1>3. ASSUME NEW u \in Users, ReadBuy(u, l) PROVE Inv'
  BY <1>3 DEF ReadBuy, Inv, TypeOK, Agreement, Agree, Held, listing, money, luck
<1>4. ASSUME NEW u \in Users, CommitBuy(u, l) PROVE Inv'
  <2>1. TypeOK'
    <3>1. available' \in [Users -> Nat]
      BY <1>4, FeeBounds DEF CommitBuy, Inv, TypeOK
    <3>2. /\ status' \in [Listings -> ListingStatuses]
          /\ delivery' \in [Listings -> DeliveryStatuses] /\ job' \in [Listings -> JobStatuses]
      BY <1>4 DEF CommitBuy, Inv, TypeOK, ListingStatuses, DeliveryStatuses, JobStatuses
    <3>3. /\ buyer' \in [Listings -> Users \cup {"nobody"}]
          /\ \A k \in Listings : delivery'[k] # "none" => buyer'[k] \in Users
      BY <1>4 DEF CommitBuy, Inv, TypeOK
    <3>4. clearing' \in Int /\ posted' \subseteq Postings \X Listings
      BY <1>4, FeeBounds DEF CommitBuy, Inv, TypeOK
    <3> QED
      BY <1>4, <3>1, <3>2, <3>3, <3>4 DEF CommitBuy, Inv, TypeOK
  <2>2. Agree(l)'
    BY <1>4 DEF CommitBuy, Inv, TypeOK, Agreement, Agree, Held
  <2>3. Agreement'
    BY <1>4, <2>2, OthersAgree DEF CommitBuy, Inv, TypeOK
  <2> QED BY <2>1, <2>3 DEF Inv
<1>5. ASSUME NEW u \in Users, AbandonBuy(u, l) PROVE Inv'
  BY <1>5 DEF AbandonBuy, Inv, TypeOK, Agreement, Agree, Held, listing, money, luck
<1> QED BY <1>1, <1>2, <1>3, <1>4, <1>5 DEF Trade

LEMMA DeadLetterStep ==
  ASSUME Inv, NEW l \in Listings, job[l] = "leased", DeadLetter(l),
         UNCHANGED <<attempts, given, cancelling, buying, overtaken>>, unheard' \subseteq Listings
  PROVE  Inv'
<1> USE DEF Postings
<1>1. CASE Refundable(l) /\ Refund(l)
  <2>0. buyer[l] \in Users /\ Price[l] \in Nat
    BY <1>1, FeeBounds DEF Refundable, Inv, TypeOK
  <2>1. TypeOK'
    <3>1. available' \in [Users -> Nat]
      BY <1>1, <2>0 DEF Refund, Inv, TypeOK
    <3>2. delivery' \in [Listings -> DeliveryStatuses] /\ job' \in [Listings -> JobStatuses]
      BY <1>1 DEF Refund, DeadLetter, Inv, TypeOK, DeliveryStatuses, JobStatuses
    <3>3. \A k \in Listings : delivery'[k] # "none" => buyer'[k] \in Users
      BY <1>1, <2>0 DEF Refund, Inv, TypeOK
    <3>4. clearing' \in Int /\ posted' \subseteq Postings \X Listings
      BY <1>1, <2>0 DEF Refund, Inv, TypeOK
    <3> QED BY <1>1, <3>1, <3>2, <3>3, <3>4 DEF Refund, Inv, TypeOK
  <2>2. Agree(l)'
    BY <1>1 DEF Refund, DeadLetter, Inv, TypeOK, Agreement, Agree, Held
  <2>3. Agreement'
    BY <1>1, <2>2, OthersAgree DEF Refund, DeadLetter, Inv, TypeOK
  <2> QED BY <2>1, <2>3 DEF Inv
<1>2. CASE ~Refundable(l) /\ UNCHANGED <<listing, money>>
  <2>1. TypeOK'
    BY <1>2 DEF DeadLetter, Inv, TypeOK, JobStatuses, listing, money, luck
  <2>2. delivery[l] # "pending"
    BY <1>2, MarketAssumption DEF Refundable, Inv, TypeOK
  <2>3. Agree(l)'
    BY <1>2, <2>2 DEF DeadLetter, Inv, TypeOK, Agreement, Agree, Held, listing, money, luck
  <2>4. Agreement'
    BY <1>2, <2>3, OthersAgree DEF DeadLetter, Inv, TypeOK, listing, money, luck
  <2> QED BY <2>1, <2>4 DEF Inv
<1> QED BY <1>1, <1>2 DEF DeadLetter

LEMMA DeliverStep ==
  ASSUME Inv, NEW l \in Listings, Deliver(l)
  PROVE  Inv'
<1> USE DEF Postings
<1>1. CASE Claim(l)
  <2>1. TypeOK'
    BY <1>1, MarketAssumption DEF Claim, Inv, TypeOK, JobStatuses, listing, money, luck
  <2>2. Agree(l)'
    BY <1>1 DEF Claim, Inv, TypeOK, Agreement, Agree, Held, listing, money, luck
  <2>3. Agreement'
    BY <1>1, <2>2, OthersAgree DEF Claim, Inv, TypeOK, listing, money, luck
  <2> QED BY <2>1, <2>3 DEF Inv
<1>2. CASE Give(l)
  <2>1. TypeOK'
    BY <1>2 DEF Give, Inv, TypeOK, listing, money, luck
  <2>2. Agreement'
    BY <1>2 DEF Give, Inv, Agreement, Agree, Held, listing, money, luck
  <2> QED BY <2>1, <2>2 DEF Inv
<1>3. CASE CompleteDelivery(l)
  <2>0. SellerOf[l] \in Users
    BY MarketAssumption
  <2>1. TypeOK'
    <3>1. available' \in [Users -> Nat] /\ revenue' \in Nat /\ clearing' \in Int
      BY <1>3, <2>0, FeeBounds DEF CompleteDelivery, Inv, TypeOK
    <3>2. delivery' \in [Listings -> DeliveryStatuses] /\ job' \in [Listings -> JobStatuses]
      BY <1>3 DEF CompleteDelivery, Inv, TypeOK, DeliveryStatuses, JobStatuses
    <3>3. \A k \in Listings : delivery'[k] # "none" => buyer'[k] \in Users
      BY <1>3 DEF CompleteDelivery, Awaiting, Inv, TypeOK
    <3>4. posted' \subseteq Postings \X Listings
      BY <1>3 DEF CompleteDelivery, Inv, TypeOK
    <3> QED BY <1>3, <3>1, <3>2, <3>3, <3>4 DEF CompleteDelivery, Inv, TypeOK, luck
  <2>2. Agree(l)'
    BY <1>3 DEF CompleteDelivery, Inv, TypeOK, Agreement, Agree, Held
  <2>3. Agreement'
    BY <1>3, <2>2, OthersAgree DEF CompleteDelivery, Inv, TypeOK
  <2> QED BY <2>1, <2>3 DEF Inv
<1>4. CASE Requeue(l)
  <2>0. attempts[l] > 0
    BY <1>4 DEF Requeue, Inv, Agreement, Agree
  <2>1. TypeOK'
    <3>1. attempts' \in [Listings -> 0 .. MaxAttempts]
      BY <1>4, <2>0, MarketAssumption DEF Requeue, Inv, TypeOK
    <3> QED BY <1>4, <3>1 DEF Requeue, Inv, TypeOK, JobStatuses, listing, money, luck
  <2>2. Agree(l)'
    BY <1>4 DEF Requeue, Inv, TypeOK, Agreement, Agree, Held, listing, money, luck
  <2>3. Agreement'
    BY <1>4, <2>2, OthersAgree DEF Requeue, Inv, TypeOK, listing, money, luck
  <2> QED BY <2>1, <2>3 DEF Inv
<1>5. CASE FailFinal(l)
  <2>1. unheard' \subseteq Listings
    BY <1>5 DEF FailFinal, Inv, TypeOK, luck
  <2> QED BY <1>5, <2>1, DeadLetterStep DEF FailFinal, luck
<1>6. CASE LeaseRunsOut(l)
  <2>1. unheard' \subseteq Listings
    BY <1>6 DEF LeaseRunsOut, Inv, TypeOK
  <2> QED BY <1>6, <2>1, DeadLetterStep DEF LeaseRunsOut
<1> QED BY <1>1, <1>2, <1>3, <1>4, <1>5, <1>6 DEF Deliver

LEMMA StepInv == Inv /\ [Next]_vars => Inv'
<1>1. Inv /\ UNCHANGED vars => Inv'
  BY DEF vars, Inv, TypeOK, Agreement, Agree, Held
<1> QED BY <1>1, TradeStep, DeliverStep DEF Next

LEMMA Invariance == Spec => []Inv
  BY InitInv, StepInv, PTL DEF Spec

\* Types, for every set of users and listings; no user is overdrawn.
THEOREM MarketTypes == Spec => []TypeOK
  BY Invariance, PTL DEF Inv

\* The seller is paid for a completed delivery, the buyer refunded for a
\* dead-lettered one, never both, whatever overtakes what.
THEOREM MarketSettledByDelivery == Spec => []SettledByDelivery
<1>1. Inv => SettledByDelivery
  BY DEF Inv, Agreement, Agree, SettledByDelivery
<1> QED BY <1>1, Invariance, PTL

-----------------------------------------------------------------------------
(* The clearing account.                                                    *)

Escrowed == {l \in Listings : Held(l) /\ ~Settled(l)}

LEMMA EscrowFinite ==
  /\ IsFiniteSet(Escrowed) /\ IsFiniteSet(Escrowed')
  /\ \A l \in Listings : Price[l] \in Int
<1>1. \A S \in SUBSET Listings : IsFiniteSet(S)
  BY MarketAssumption, FS_Subset
<1>2. Escrowed \in SUBSET Listings /\ Escrowed' \in SUBSET Listings
  BY DEF Escrowed
<1> QED BY <1>1, <1>2, MarketAssumption

\* A hold adds the price to the account and the listing to the escrow.
LEMMA HoldEscrow ==
  ASSUME NEW l \in Listings, l \notin Escrowed, Escrowed' = Escrowed \cup {l},
         clearing = SumFunctionOnSet(Price, Escrowed), clearing' = clearing + Price[l]
  PROVE  clearing' = SumFunctionOnSet(Price, Escrowed')
<1>1. \A k \in Escrowed \cup {l} : Price[k] \in Int
  BY EscrowFinite DEF Escrowed
<1>2. SumFunctionOnSet(Price, Escrowed \cup {l}) = Price[l] + SumFunctionOnSet(Price, Escrowed)
  BY <1>1, EscrowFinite, SumAdd
<1>3. SumFunctionOnSet(Price, Escrowed) \in Int
  BY <1>1, EscrowFinite, SumInt
<1> QED BY <1>1, <1>2, <1>3

\* A release or a refund takes both away.
LEMMA SettleEscrow ==
  ASSUME NEW l \in Listings, l \in Escrowed, Escrowed' = Escrowed \ {l},
         clearing = SumFunctionOnSet(Price, Escrowed), clearing' = clearing - Price[l]
  PROVE  clearing' = SumFunctionOnSet(Price, Escrowed')
<1>1. \A k \in Escrowed : Price[k] \in Int
  BY EscrowFinite DEF Escrowed
<1>2. SumFunctionOnSet(Price, Escrowed) = Price[l] + SumFunctionOnSet(Price, Escrowed \ {l})
  BY <1>1, EscrowFinite, SumRemove
<1>3. SumFunctionOnSet(Price, Escrowed \ {l}) \in Int
  BY <1>1, EscrowFinite, FS_RemoveElement, SumInt
<1> QED BY <1>1, <1>2, <1>3

\* The clearing account holds the prices of the purchases that are neither paid
\* out nor refunded, and no buyer is overdrawn.
THEOREM MarketClearingHoldsEscrow == Spec => []ClearingHoldsEscrow
<1> DEFINE Balanced == clearing = SumFunctionOnSet(Price, Escrowed)
<1>1. Init => Balanced
  <2>1. Init => Escrowed = {}
    BY DEF Init, Escrowed, Held
  <2> QED BY <2>1, SumOfNothing DEF Init
<1>2. Inv /\ Balanced /\ [Next]_vars => Balanced'
  <2> SUFFICES ASSUME Inv, Balanced, [Next]_vars
               PROVE  Balanced'
    OBVIOUS
  <2>0. ASSUME UNCHANGED <<posted, clearing>> PROVE Balanced'
    BY <2>0 DEF Escrowed, Held, Settled
  <2>1. ASSUME NEW l \in Listings, NEW u \in Users, CommitBuy(u, l) PROVE Balanced'
    <3>1. l \notin Escrowed /\ Escrowed' = Escrowed \cup {l}
      BY <2>1 DEF CommitBuy, Inv, TypeOK, Agreement, Agree, Escrowed, Held, Settled
    <3> QED BY <2>1, <3>1, HoldEscrow DEF CommitBuy
  <2>2. ASSUME NEW l \in Listings, CompleteDelivery(l) PROVE Balanced'
    <3>1. l \in Escrowed /\ Escrowed' = Escrowed \ {l}
      BY <2>2 DEF CompleteDelivery, Awaiting, Inv, TypeOK, Agreement, Agree, Escrowed, Held,
         Settled
    <3> QED BY <2>2, <3>1, SettleEscrow DEF CompleteDelivery
  <2>3. ASSUME NEW l \in Listings, job[l] = "leased", DeadLetter(l) PROVE Balanced'
    <3>1. CASE Refundable(l) /\ Refund(l)
      <4>1. l \in Escrowed /\ Escrowed' = Escrowed \ {l}
        BY <2>3, <3>1 DEF Refundable, Refund, Inv, TypeOK, Agreement, Agree, Escrowed, Held,
           Settled
      <4> QED BY <3>1, <4>1, SettleEscrow DEF Refund
    <3>2. CASE UNCHANGED <<listing, money>>
      BY <3>2, <2>0 DEF money
    <3> QED BY <2>3, <3>1, <3>2 DEF DeadLetter
  <2>4. ASSUME NEW l \in Listings, Trade(l) PROVE Balanced'
    BY <2>4, <2>0, <2>1 DEF Trade, ReadCancel, WriteCancel, ReadBuy, AbandonBuy, money
  <2>5. ASSUME NEW l \in Listings, Deliver(l) PROVE Balanced'
    <3>1. CASE Claim(l) \/ Give(l) \/ Requeue(l)
      BY <3>1, <2>0 DEF Claim, Give, Requeue, money
    <3>2. CASE FailFinal(l) \/ LeaseRunsOut(l)
      BY <3>2, <2>3 DEF FailFinal, LeaseRunsOut
    <3> QED BY <2>2, <2>5, <3>1, <3>2 DEF Deliver
  <2>6. CASE UNCHANGED vars
    BY <2>6, <2>0 DEF vars, money
  <2> QED BY <2>4, <2>5, <2>6 DEF Next
<1>3. Inv /\ Balanced => ClearingHoldsEscrow
  BY DEF Inv, TypeOK, ClearingHoldsEscrow, Escrowed
<1> QED BY <1>1, <1>2, <1>3, InitInv, StepInv, PTL DEF Spec

-----------------------------------------------------------------------------
(* Unless a purchase overtook the cancellation.                             *)

\* A listing that is cancelled, or about to be, was not bought; one that
\* waits for its delivery is sold.
Unsold ==
    \A l \in Listings \ overtaken :
        /\ status[l] = "cancelled" \/ l \in cancelling => ~Held(l)
        /\ delivery[l] = "pending" => status[l] = "sold"

LEMMA StepUnsold == Inv /\ Unsold /\ [Next]_vars => Unsold'
<1> SUFFICES ASSUME Inv, Unsold, [Next]_vars
             PROVE  Unsold'
  OBVIOUS
<1>0. CASE UNCHANGED vars
  BY <1>0 DEF vars, Unsold, Held
<1>1. ASSUME NEW l \in Listings, Trade(l) PROVE Unsold'
  <2>1. CASE ReadCancel(l)
    BY <2>1 DEF ReadCancel, Inv, Agreement, Agree, Unsold, Held, listing, money, luck
  <2>2. CASE WriteCancel(l)
    BY <2>2 DEF WriteCancel, Inv, TypeOK, Agreement, Agree, Unsold, Held, money, luck
  <2>3. ASSUME NEW u \in Users, ReadBuy(u, l) \/ AbandonBuy(u, l) PROVE Unsold'
    BY <2>3 DEF ReadBuy, AbandonBuy, Unsold, Held, listing, money, luck
  <2>4. ASSUME NEW u \in Users, CommitBuy(u, l) PROVE Unsold'
    BY <2>4 DEF CommitBuy, Inv, TypeOK, Unsold, Held
  <2> QED BY <1>1, <2>1, <2>2, <2>3, <2>4 DEF Trade
<1>2. ASSUME NEW l \in Listings, Deliver(l) PROVE Unsold'
  <2>1. CASE Claim(l) \/ Give(l) \/ Requeue(l)
    BY <2>1 DEF Claim, Give, Requeue, Unsold, Held, listing, money, luck
  <2>2. CASE CompleteDelivery(l)
    BY <2>2 DEF CompleteDelivery, Inv, TypeOK, Unsold, Held, luck
  <2>3. CASE DeadLetter(l) /\ UNCHANGED <<cancelling, overtaken>>
    <3>1. CASE Refund(l)
      BY <2>3, <3>1 DEF Refund, Inv, TypeOK, Unsold, Held
    <3>2. CASE UNCHANGED <<listing, money>>
      BY <2>3, <3>2 DEF Unsold, Held, listing, money
    <3> QED BY <2>3, <3>1, <3>2 DEF DeadLetter
  <2> QED BY <1>2, <2>1, <2>2, <2>3 DEF Deliver, FailFinal, LeaseRunsOut, luck
<1> QED BY <1>0, <1>1, <1>2 DEF Next

LEMMA UnsoldInvariance == Spec => [](Inv /\ Unsold)
<1>1. Init => Inv /\ Unsold
  BY InitInv DEF Init, Unsold, Held
<1>2. Inv /\ Unsold /\ [Next]_vars => Inv' /\ Unsold'
  BY StepInv, StepUnsold
<1> QED BY <1>1, <1>2, PTL DEF Spec

\* A cancelled dino was not sold, unless its purchase overtook the
\* cancellation.
THEOREM MarketCancelledIsUnsold == Spec => []CancelledIsUnsold
<1>1. Inv /\ Unsold => CancelledIsUnsold
  BY DEF Unsold, CancelledIsUnsold
<1> QED BY <1>1, UnsoldInvariance, PTL

\* Nobody gets a dino and the money back, unless in addition the last lease
\* ran out on a plugin that gave it.
THEOREM MarketRefundedIsNotGiven == Spec => []RefundedIsNotGiven
<1>1. Inv /\ Unsold /\ RefundedIsNotGiven /\ [Next]_vars => RefundedIsNotGiven'
  <2> SUFFICES ASSUME Inv, Unsold, RefundedIsNotGiven, [Next]_vars
               PROVE  RefundedIsNotGiven'
    OBVIOUS
  <2>0. CASE UNCHANGED vars
    BY <2>0 DEF vars, RefundedIsNotGiven
  <2>1. ASSUME NEW l \in Listings, Trade(l) PROVE RefundedIsNotGiven'
    <3>1. ASSUME NEW u \in Users, CommitBuy(u, l) PROVE RefundedIsNotGiven'
      BY <3>1 DEF CommitBuy, RefundedIsNotGiven
    <3>2. ASSUME NEW u \in Users, ReadBuy(u, l) \/ AbandonBuy(u, l) PROVE RefundedIsNotGiven'
      BY <3>2 DEF ReadBuy, AbandonBuy, RefundedIsNotGiven, money, luck
    <3>3. CASE ReadCancel(l) \/ WriteCancel(l)
      BY <3>3 DEF ReadCancel, WriteCancel, RefundedIsNotGiven, money, luck
    <3> QED BY <2>1, <3>1, <3>2, <3>3 DEF Trade
  <2>2. ASSUME NEW l \in Listings, Deliver(l) PROVE RefundedIsNotGiven'
    <3>0. CASE Claim(l) \/ Requeue(l)
      BY <3>0 DEF Claim, Requeue, RefundedIsNotGiven, money, luck
    <3>1. CASE CompleteDelivery(l)
      BY <3>1 DEF CompleteDelivery, RefundedIsNotGiven, luck
    <3>2. CASE Give(l)
      BY <3>2 DEF Give, Inv, Agreement, Agree, RefundedIsNotGiven, money
    <3>3. CASE FailFinal(l)
      BY <3>3 DEF FailFinal, DeadLetter, Refund, RefundedIsNotGiven, money, luck
    <3>4. CASE LeaseRunsOut(l)
      BY <3>4 DEF LeaseRunsOut, DeadLetter, Refundable, Refund, Awaiting, Unsold,
         RefundedIsNotGiven, money
    <3> QED BY <2>2, <3>0, <3>1, <3>2, <3>3, <3>4 DEF Deliver
  <2> QED BY <2>0, <2>1, <2>2 DEF Next
<1>2. Init => RefundedIsNotGiven
  BY DEF Init, RefundedIsNotGiven
<1> QED BY <1>1, <1>2, UnsoldInvariance, PTL DEF Spec

-----------------------------------------------------------------------------
(* Putting a dino up for sale.                                              *)

\* Where the game thread stands in the callback, in terms of the journal.
Position ==
    /\ thread.at = "mark" => journal[thread.lock] = "prepared"
    /\ thread.at \in {"destroy", "send"} => journal[thread.lock] = "mutating"

\* Whatever refers to a lock refers to one that was prepared.
Prepared ==
    /\ \A l \in Locks : l \in offers \/ journal[l] # "none" => lock[l] # "none"
    /\ \A h \in Handlers : confirms[h] # Idle => lock[confirms[h].lock] # "none"

\* A confirmed lock, and a confirmation on its way back, has its listing.
Acknowledged ==
    /\ acks \subseteq listings
    /\ \A l \in Locks : lock[l] = "confirmed" => l \in listings

\* The world a crash may bring back holds every dino the world holds.
SavedGone == \A d \in Dinos : saved[d] = "removed" => place[d] = "removed"

SellingInv ==
    /\ ListingTypeOK /\ Position /\ Prepared /\ SavedGone
    /\ Acknowledged /\ CompletedIsListed /\ Traceable

LEMMA SellingInit == ListingInit => SellingInv
  BY ListingAssumption DEF ListingInit, SellingInv, ListingTypeOK, Position, Prepared,
     SavedGone, Acknowledged, CompletedIsListed, Traceable, Places, LockStatuses, Records,
     Idle, NoSubject, Subjects, Of

LEMMA SellStep ==
  ASSUME SellingInv, NEW l \in Locks, Sell(l)
  PROVE  SellingInv'
<1> USE DEF Idle
<1> DEFINE D == subject[l].dino
<1>1. CASE Decline(l)
  BY <1>1 DEF Decline, SellingInv, ListingTypeOK, Position, Prepared, SavedGone, Acknowledged,
     CompletedIsListed, Traceable, Of, game, backend
<1>2. CASE BeginListing(l)
  <2>0. mishaps' \subseteq Mishaps
    BY <1>2, ListingAssumption DEF BeginListing, Meet, SellingInv,
       ListingTypeOK
  <2>1. ListingTypeOK' /\ Prepared'
    BY <1>2, <2>0 DEF BeginListing, SellingInv, ListingTypeOK, Prepared,
       Records, backend
  <2>2. Position' /\ CompletedIsListed' /\ SavedGone' /\ Acknowledged'
    BY <1>2 DEF BeginListing, SellingInv, ListingTypeOK, Position, Acknowledged,
       CompletedIsListed, SavedGone, backend
  <2>3. Traceable'
    BY <1>2 DEF BeginListing, SellingInv, ListingTypeOK, Traceable,
       Of, backend
  <2> QED BY <2>1, <2>2, <2>3 DEF SellingInv
<1>3. CASE MarkListing(l)
  <2>0. journal[l] = "prepared"
    BY <1>3 DEF MarkListing, SellingInv, Position
  <2>1. ListingTypeOK' /\ Prepared'
    BY <1>3, <2>0 DEF MarkListing, SellingInv, ListingTypeOK, Prepared,
       Records, game, backend
  <2>2. Position' /\ CompletedIsListed' /\ SavedGone' /\ Acknowledged'
    BY <1>3 DEF MarkListing, SellingInv, ListingTypeOK, Position, Acknowledged,
       CompletedIsListed, SavedGone, game, backend
  <2>3. Traceable'
    BY <1>3, <2>0 DEF MarkListing, SellingInv, ListingTypeOK, Traceable,
       Of, game, backend
  <2> QED BY <2>1, <2>2, <2>3 DEF SellingInv
<1>4. CASE Destroy(l)
  <2>0. journal[l] = "mutating" /\ D \in Dinos
    BY <1>4 DEF Destroy, SellingInv, ListingTypeOK, Position, Prepared,
       Subjects
  <2>1. ListingTypeOK' /\ Prepared'
    BY <1>4, <2>0 DEF Destroy, SellingInv, ListingTypeOK, Prepared, Places,
       backend
  <2>2. Position' /\ CompletedIsListed' /\ SavedGone' /\ Acknowledged'
    BY <1>4, <2>0 DEF Destroy, SellingInv, ListingTypeOK, Position, Acknowledged,
       CompletedIsListed, SavedGone, backend
  <2>3. Traceable'
    BY <1>4, <2>0 DEF Destroy, SellingInv, ListingTypeOK, Traceable,
       Of, backend
  <2> QED BY <2>1, <2>2, <2>3 DEF SellingInv
<1>5. CASE SendConfirm(l)
  <2>1. ListingTypeOK'
    BY <1>5 DEF SendConfirm, Confirm, SellingInv, ListingTypeOK, game,
       backend
  <2>2. Prepared'
    BY <1>5 DEF SendConfirm, Confirm, SellingInv, ListingTypeOK, Position, Prepared, game,
       backend
  <2>3. Position' /\ CompletedIsListed' /\ SavedGone' /\ Acknowledged'
    BY <1>5 DEF SendConfirm, SellingInv, ListingTypeOK, Position, Acknowledged,
       CompletedIsListed, SavedGone, game, backend
  <2>4. Traceable'
    BY <1>5 DEF SendConfirm, SellingInv, Traceable, Of, game,
       backend
  <2> QED BY <2>1, <2>2, <2>3, <2>4 DEF SellingInv
<1>6. ASSUME NEW d \in Dinos, NEW p \in Prices, Prepare(d, p, l)
      PROVE  SellingInv'
  <2>0. /\ [dino |-> d, price |-> p] \in Subjects
        /\ [dino |-> d, price |-> p] # NoSubject
    BY ListingAssumption DEF SellingInv, Subjects, NoSubject
  <2>1. ListingTypeOK'
    BY <1>6, <2>0 DEF Prepare, SellingInv, ListingTypeOK, LockStatuses,
       game
  <2>2. Prepared'
    BY <1>6 DEF Prepare, SellingInv, ListingTypeOK, Prepared, LockStatuses,
       game
  <2>3. Position' /\ CompletedIsListed' /\ SavedGone' /\ Acknowledged'
    BY <1>6 DEF Prepare, SellingInv, ListingTypeOK, Position, Acknowledged, CompletedIsListed,
       SavedGone, game
  <2>4. Traceable'
    <3>1. ASSUME NEW e \in Dinos, NEW k \in Locks, subject[k].dino = e
          PROVE  lock[k] = "none" \/ subject'[k].dino = e
      BY <1>6, <3>1 DEF Prepare, SellingInv, ListingTypeOK
    <3>2. \A k \in Locks : lock[k] = "none" => subject[k].dino \notin Dinos
      BY ListingAssumption DEF SellingInv, ListingTypeOK, NoSubject
    <3> QED
      BY <1>6, <3>1, <3>2 DEF Prepare, SellingInv, Traceable, Of,
         game
  <2> QED BY <2>1, <2>2, <2>3, <2>4 DEF SellingInv
<1> QED BY <1>1, <1>2, <1>3, <1>4, <1>5, <1>6 DEF Sell

LEMMA RecoverStep ==
  ASSUME SellingInv, NEW l \in Locks, Recover(l)
  PROVE  SellingInv'
<1> USE DEF Idle
<1>1. CASE CancelListing(l)
  <2>1. ListingTypeOK' /\ Prepared' /\ SavedGone'
    BY <1>1 DEF CancelListing, SellingInv, ListingTypeOK, Prepared, SavedGone, Records, game,
       backend
  <2>2. Position' /\ CompletedIsListed' /\ Acknowledged'
    BY <1>1 DEF CancelListing, SellingInv, ListingTypeOK, Position, Acknowledged,
       CompletedIsListed, game, backend
  <2>3. Traceable'
    BY <1>1 DEF CancelListing, SellingInv, ListingTypeOK, Traceable,
       Of, PlaceOf, game, backend
  <2> QED BY <2>1, <2>2, <2>3 DEF SellingInv
<1>2. CASE ConfirmAgain(l)
  <2>1. ListingTypeOK'
    BY <1>2 DEF ConfirmAgain, Confirm, SellingInv, ListingTypeOK,
       game, backend
  <2>2. Prepared'
    BY <1>2 DEF ConfirmAgain, Confirm, SellingInv, ListingTypeOK, Prepared,
       game, backend
  <2>3. Position' /\ CompletedIsListed' /\ SavedGone' /\ Acknowledged' /\ Traceable'
    BY <1>2 DEF ConfirmAgain, SellingInv, Position, Acknowledged, CompletedIsListed, SavedGone,
       Traceable, Of, game, backend
  <2> QED BY <2>1, <2>2, <2>3 DEF SellingInv
<1>3. CASE CompleteListing(l)
  <2>0. l \in listings
    BY <1>3 DEF CompleteListing, SellingInv, Acknowledged
  <2>1. ListingTypeOK' /\ Prepared' /\ SavedGone'
    BY <1>3 DEF CompleteListing, SellingInv, ListingTypeOK, Prepared, SavedGone, Records, game,
       backend
  <2>2. Position' /\ CompletedIsListed' /\ Acknowledged'
    BY <1>3, <2>0 DEF CompleteListing, SellingInv, ListingTypeOK, Position, Acknowledged,
       CompletedIsListed, game, backend
  <2>3. Traceable'
    BY <1>3, <2>0 DEF CompleteListing, SellingInv, ListingTypeOK, Traceable,
       Of, game, backend
  <2> QED BY <2>1, <2>2, <2>3 DEF SellingInv
<1>4. CASE LoseAck(l)
  BY <1>4 DEF LoseAck, SellingInv, ListingTypeOK, Position, Prepared, SavedGone, Acknowledged,
     CompletedIsListed, Traceable, Of, game, backend
<1> QED BY <1>1, <1>2, <1>3, <1>4 DEF Recover

LEMMA ConfirmStep ==
  ASSUME SellingInv, NEW h \in Handlers, ConfirmLock(h)
  PROVE  SellingInv'
<1> USE DEF Idle
<1> DEFINE L == confirms[h].lock
<1>0. confirms[h] # Idle => L \in Locks /\ lock[L] # "none"
  BY DEF SellingInv, ListingTypeOK, Prepared
<1>1. CASE ReadLock(h)
  <2>1. ListingTypeOK' /\ Prepared'
    BY <1>1, <1>0 DEF ReadLock, Finish, Proceed, SellingInv, ListingTypeOK, Prepared, game,
       backend
  <2>2. Acknowledged'
    BY <1>1, <1>0 DEF ReadLock, SellingInv, Acknowledged, game, backend
  <2>3. Position' /\ CompletedIsListed' /\ SavedGone' /\ Traceable'
    BY <1>1 DEF ReadLock, SellingInv, Position, CompletedIsListed, SavedGone, Traceable, Of,
       game, backend
  <2> QED BY <2>1, <2>2, <2>3 DEF SellingInv
<1>2. CASE ExpireLock(h)
  <2>1. ListingTypeOK' /\ Prepared'
    BY <1>2, <1>0 DEF ExpireLock, Finish, SellingInv, ListingTypeOK, Prepared, LockStatuses,
       game
  <2>2. Acknowledged'
    BY <1>2, <1>0 DEF ExpireLock, SellingInv, ListingTypeOK, Acknowledged,
       game
  <2>3. Position' /\ CompletedIsListed' /\ SavedGone' /\ Traceable'
    BY <1>2 DEF ExpireLock, SellingInv, Position, CompletedIsListed, SavedGone, Traceable, Of,
       game
  <2> QED BY <2>1, <2>2, <2>3 DEF SellingInv
<1>3. CASE CommitListing(h)
  <2>1. ListingTypeOK' /\ Prepared'
    BY <1>3, <1>0 DEF CommitListing, Finish, SellingInv, ListingTypeOK, Prepared, LockStatuses,
       game
  <2>2. Acknowledged'
    BY <1>3, <1>0 DEF CommitListing, SellingInv, ListingTypeOK, Acknowledged,
       game
  <2>3. Position' /\ CompletedIsListed' /\ SavedGone'
    BY <1>3 DEF CommitListing, SellingInv, Position, CompletedIsListed,
       SavedGone, game
  <2>4. Traceable'
    BY <1>3 DEF CommitListing, SellingInv, Traceable, Of, game
  <2> QED BY <2>1, <2>2, <2>3, <2>4 DEF SellingInv
<1>4. CASE LoseConfirm(h)
  <2>1. ListingTypeOK' /\ Prepared'
    BY <1>4 DEF LoseConfirm, Finish, SellingInv, ListingTypeOK, Prepared,
       game, backend
  <2>2. Acknowledged' /\ Position' /\ CompletedIsListed' /\ SavedGone' /\ Traceable'
    BY <1>4 DEF LoseConfirm, SellingInv, Position, Acknowledged, CompletedIsListed, SavedGone,
       Traceable, Of, game, backend
  <2> QED BY <2>1, <2>2 DEF SellingInv
<1> QED BY <1>1, <1>2, <1>3, <1>4 DEF ConfirmLock

LEMMA WorldStep ==
  ASSUME SellingInv,
         \/ Crash \/ SaveWorld
         \/ (\E d \in Dinos : Roam(d)) \/ (\E l \in Locks : TimePasses(l))
  PROVE  SellingInv'
<1> USE DEF Idle
<1>1. CASE Crash
  <2>0. mishaps' \subseteq Mishaps
    BY <1>1, ListingAssumption DEF Crash, Meet, SellingInv,
       ListingTypeOK
  <2>1. ListingTypeOK' /\ Prepared' /\ SavedGone'
    BY <1>1, <2>0 DEF Crash, SellingInv, ListingTypeOK, Prepared, SavedGone,
       backend
  <2>2. Position' /\ Acknowledged' /\ CompletedIsListed'
    BY <1>1 DEF Crash, SellingInv, ListingTypeOK, Position, Acknowledged, CompletedIsListed,
       backend
  <2>3. Traceable'
    BY <1>1 DEF Crash, SellingInv, SavedGone, Traceable, Of,
       backend
  <2> QED BY <2>1, <2>2, <2>3 DEF SellingInv
<1>2. CASE SaveWorld
  BY <1>2 DEF SaveWorld, SellingInv, ListingTypeOK, Position, Prepared, SavedGone,
     Acknowledged, CompletedIsListed, Traceable, Of, backend
<1>3. ASSUME NEW d \in Dinos, Roam(d)
      PROVE  SellingInv'
  <2>0. mishaps' \subseteq Mishaps
    BY <1>3, ListingAssumption DEF Roam, Meet, SellingInv,
       ListingTypeOK
  <2>1. ListingTypeOK' /\ Prepared'
    BY <1>3, <2>0 DEF Roam, SellingInv, ListingTypeOK, Prepared, Places,
       backend
  <2>2. SavedGone' /\ Traceable'
    BY <1>3 DEF Roam, SellingInv, ListingTypeOK, SavedGone, Traceable,
       Of, backend
  <2>3. Position' /\ Acknowledged' /\ CompletedIsListed'
    BY <1>3 DEF Roam, SellingInv, Position, Acknowledged, CompletedIsListed,
       backend
  <2> QED BY <2>1, <2>2, <2>3 DEF SellingInv
<1>4. ASSUME NEW l \in Locks, TimePasses(l)
      PROVE  SellingInv'
  BY <1>4, ListingAssumption DEF TimePasses, Meet, SellingInv, ListingTypeOK, Position,
     Prepared, SavedGone, Acknowledged, CompletedIsListed, Traceable, Of
<1> QED BY <1>1, <1>2, <1>3, <1>4

LEMMA Stutter == SellingInv /\ UNCHANGED sellVars => SellingInv'
  BY DEF sellVars, SellingInv, ListingTypeOK, Position, Prepared, SavedGone, Acknowledged,
     CompletedIsListed, Traceable, Of

LEMMA SellingStep == SellingInv /\ [ListingNext]_sellVars => SellingInv'
  BY SellStep, RecoverStep, ConfirmStep, WorldStep, Stutter DEF ListingNext

LEMMA SellingInvariance == ListingSpec => []SellingInv
  BY SellingInit, SellingStep, PTL DEF ListingSpec

\* Types, for every set of dinos, locks and handlers.
THEOREM ListingTypes == ListingSpec => []ListingTypeOK
  BY SellingInvariance, PTL DEF SellingInv

\* A destroyed dino is listed or still in the journal, whatever crashes,
\* lost answers, late confirmations or lost world saves there are.
THEOREM ListingTraceable == ListingSpec => []Traceable
  BY SellingInvariance, PTL DEF SellingInv

\* The journal forgets a dino only when the backend has its listing.
THEOREM ListingCompletedIsListed ==
  ListingSpec => []CompletedIsListed
  BY SellingInvariance, PTL DEF SellingInv

-----------------------------------------------------------------------------
(* As long as the world is orderly.                                         *)

\* A mishap is not undone.
LEMMA OrderlyBefore ==
  SellingInv /\ [ListingNext]_sellVars /\ Orderly' => Orderly
<1> SUFFICES ASSUME SellingInv, [ListingNext]_sellVars, Orderly'
             PROVE  mishaps \subseteq mishaps'
  BY DEF Orderly
<1>1. ASSUME NEW l \in Locks, Sell(l) PROVE mishaps \subseteq mishaps'
  BY <1>1 DEF Sell, Prepare, Decline, BeginListing, MarkListing, Destroy, SendConfirm, Meet,
     game
<1>2. ASSUME NEW l \in Locks, Recover(l) PROVE mishaps \subseteq mishaps'
  BY <1>2 DEF Recover, CancelListing, ConfirmAgain,
     CompleteListing, LoseAck, game
<1>3. ASSUME NEW h \in Handlers, ConfirmLock(h) PROVE mishaps \subseteq mishaps'
  BY <1>3 DEF ConfirmLock, ReadLock, ExpireLock, CommitListing,
     LoseConfirm, game
<1>4. CASE \/ Crash \/ SaveWorld
           \/ (\E d \in Dinos : Roam(d)) \/ (\E l \in Locks : TimePasses(l))
  BY <1>4 DEF Crash, SaveWorld, Roam, TimePasses, Meet
<1>5. CASE UNCHANGED sellVars
  BY <1>5 DEF sellVars
<1> QED BY <1>1, <1>2, <1>3, <1>4, <1>5 DEF ListingNext

\* The records that stand for a destroyed dino, or one about to be.
Gone(l) == journal[l] \in {"mutating", "completed"}

\* One record per dino, which a sale under way does not share.
Unique ==
    /\ \A k, l \in Locks : Gone(k) /\ Gone(l) /\ subject[k].dino = subject[l].dino => k = l
    /\ thread.at = "mark" =>
          \A k \in Locks : subject[k].dino = subject[thread.lock].dino => ~Gone(k)

\* The dino is there until Destroy and never again after it.
Where ==
    /\ \A d \in Dinos : place[d] # "away"
    /\ thread.at \in {"mark", "destroy"} => PlaceOf(thread.lock) = "world"
    /\ thread.at = "send" => PlaceOf(thread.lock) = "removed"

\* Only a destroyed dino is confirmed or listed, under a record that stays.
Final ==
    /\ \A l \in listings : Gone(l) /\ PlaceOf(l) = "removed"
    /\ \A h \in Handlers : confirms[h] # Idle =>
          Gone(confirms[h].lock) /\ PlaceOf(confirms[h].lock) = "removed"

OrderlyInv == Unique /\ Where /\ Final

LEMMA InitOrderly == ListingInit => OrderlyInv
  BY DEF ListingInit, OrderlyInv, Unique, Where, Final, Gone, Idle

LEMMA SellOrderly ==
  ASSUME Orderly', SellingInv, OrderlyInv, NEW l \in Locks, Sell(l)
  PROVE  OrderlyInv'
<1> USE DEF Idle, PlaceOf, Gone
<1>1. CASE Decline(l)
  BY <1>1 DEF Decline, OrderlyInv, Unique, Where, Final, game, backend
<1>2. CASE BeginListing(l)
  <2>0. \A k \in Of(subject[l].dino) : journal[k] # "mutating"
    BY <1>2 DEF BeginListing, Meet, Orderly
  <2>1. Unique'
    BY <1>2, <2>0 DEF BeginListing, SellingInv, ListingTypeOK, CompletedIsListed, OrderlyInv,
       Unique, Final, Of, backend
  <2>2. Where' /\ Final'
    BY <1>2 DEF BeginListing, SellingInv, ListingTypeOK, OrderlyInv, Where, Final,
       backend
  <2> QED BY <2>1, <2>2 DEF OrderlyInv
<1>3. CASE MarkListing(l)
  <2>0. journal[l] = "prepared"
    BY <1>3 DEF MarkListing, SellingInv, Position
  <2>1. Unique'
    BY <1>3, <2>0 DEF MarkListing, SellingInv, ListingTypeOK, OrderlyInv, Unique,
       game, backend
  <2>2. Where' /\ Final'
    BY <1>3, <2>0 DEF MarkListing, SellingInv, ListingTypeOK, OrderlyInv, Where, Final, game,
       backend
  <2> QED BY <2>1, <2>2 DEF OrderlyInv
<1>4. CASE Destroy(l)
  <2>0. subject[l].dino \in Dinos
    BY <1>4 DEF Destroy, SellingInv, ListingTypeOK, Position, Prepared,
       Subjects
  <2>1. Unique'
    BY <1>4 DEF Destroy, OrderlyInv, Unique, backend
  <2>2. Where' /\ Final'
    BY <1>4, <2>0 DEF Destroy, SellingInv, ListingTypeOK, OrderlyInv, Where, Final,
       backend
  <2> QED BY <2>1, <2>2 DEF OrderlyInv
<1>5. CASE SendConfirm(l)
  <2>1. Unique' /\ Where'
    BY <1>5 DEF SendConfirm, OrderlyInv, Unique, Where, game, backend
  <2>2. Gone(l) /\ PlaceOf(l) = "removed"
    BY <1>5 DEF SendConfirm, SellingInv, Position, OrderlyInv, Where
  <2>3. Final'
    BY <1>5, <2>2 DEF SendConfirm, Confirm, SellingInv, ListingTypeOK, OrderlyInv, Final, game,
       backend
  <2> QED BY <2>1, <2>3 DEF OrderlyInv
<1>6. ASSUME NEW d \in Dinos, NEW p \in Prices, Prepare(d, p, l)
      PROVE  OrderlyInv'
  <2>0. /\ journal[l] = "none" /\ l \notin listings
        /\ \A h \in Handlers : confirms[h].lock # l \/ confirms[h] = Idle
    BY <1>6 DEF Prepare, SellingInv, Prepared, OrderlyInv, Final
  <2>1. \A k \in Locks : k # l => subject'[k] = subject[k]
    BY <1>6 DEF Prepare, SellingInv, ListingTypeOK
  <2>2. Unique' /\ Where'
    BY <1>6, <2>0, <2>1 DEF Prepare, OrderlyInv, Unique, Where, game
  <2>3. Final'
    BY <1>6, <2>0, <2>1 DEF Prepare, SellingInv, ListingTypeOK, OrderlyInv, Final,
       game
  <2> QED BY <2>2, <2>3 DEF OrderlyInv
<1> QED BY <1>1, <1>2, <1>3, <1>4, <1>5, <1>6 DEF Sell

LEMMA RecoverOrderly ==
  ASSUME SellingInv, OrderlyInv, NEW l \in Locks, Recover(l)
  PROVE  OrderlyInv'
<1> USE DEF Idle, PlaceOf, Gone
<1>1. CASE CancelListing(l)
  <2>1. Unique' /\ Where'
    BY <1>1 DEF CancelListing, SellingInv, ListingTypeOK, OrderlyInv, Unique, Where, game,
       backend
  <2>2. Final'
    BY <1>1 DEF CancelListing, SellingInv, ListingTypeOK, OrderlyInv, Final,
       game, backend
  <2> QED BY <2>1, <2>2 DEF OrderlyInv
<1>2. CASE ConfirmAgain(l)
  <2>1. subject[l].dino \in Dinos
    BY <1>2 DEF ConfirmAgain, SellingInv, ListingTypeOK, Prepared, Subjects
  <2>2. PlaceOf(l) = "removed"
    BY <1>2, <2>1 DEF ConfirmAgain, SellingInv, ListingTypeOK, Places,
       OrderlyInv, Where
  <2>3. Final'
    BY <1>2, <2>2 DEF ConfirmAgain, Confirm, SellingInv, ListingTypeOK, OrderlyInv, Final,
       game, backend
  <2>4. Unique' /\ Where'
    BY <1>2 DEF ConfirmAgain, OrderlyInv, Unique, Where, game, backend
  <2> QED BY <2>3, <2>4 DEF OrderlyInv
<1>3. CASE CompleteListing(l)
  <2>1. Gone(l)
    BY <1>3 DEF CompleteListing, SellingInv, Acknowledged, OrderlyInv, Final
  <2>2. Unique' /\ Where' /\ Final'
    BY <1>3, <2>1 DEF CompleteListing, SellingInv, ListingTypeOK, OrderlyInv, Unique, Where,
       Final, game, backend
  <2> QED BY <2>2 DEF OrderlyInv
<1>4. CASE LoseAck(l)
  BY <1>4 DEF LoseAck, OrderlyInv, Unique, Where, Final, game, backend
<1> QED BY <1>1, <1>2, <1>3, <1>4 DEF Recover

LEMMA ConfirmOrderly ==
  ASSUME SellingInv, OrderlyInv, NEW h \in Handlers, ConfirmLock(h)
  PROVE  OrderlyInv'
<1> USE DEF Idle, PlaceOf, Gone
<1>1. CASE ReadLock(h)
  BY <1>1 DEF ReadLock, Finish, Proceed, SellingInv, ListingTypeOK, OrderlyInv, Unique, Where,
     Final, game, backend
<1>2. CASE ExpireLock(h)
  BY <1>2 DEF ExpireLock, Finish, SellingInv, ListingTypeOK, OrderlyInv, Unique, Where, Final,
     game
<1>3. CASE CommitListing(h)
  <2>1. Gone(confirms[h].lock) /\ PlaceOf(confirms[h].lock) = "removed"
    BY <1>3 DEF CommitListing, OrderlyInv, Final
  <2>2. Final'
    BY <1>3, <2>1 DEF CommitListing, Finish, SellingInv, ListingTypeOK,
       OrderlyInv, Final, game
  <2>3. Unique' /\ Where'
    BY <1>3 DEF CommitListing, OrderlyInv, Unique, Where, game
  <2> QED BY <2>2, <2>3 DEF OrderlyInv
<1>4. CASE LoseConfirm(h)
  BY <1>4 DEF LoseConfirm, Finish, SellingInv, ListingTypeOK, OrderlyInv, Unique, Where, Final,
     game, backend
<1> QED BY <1>1, <1>2, <1>3, <1>4 DEF ConfirmLock

LEMMA StepOrderly ==
  Orderly' /\ SellingInv /\ OrderlyInv /\ [ListingNext]_sellVars => OrderlyInv'
<1> SUFFICES ASSUME Orderly', SellingInv, OrderlyInv, [ListingNext]_sellVars
             PROVE  OrderlyInv'
  OBVIOUS
<1> USE DEF PlaceOf, Gone, Idle
<1>1. CASE Crash
  BY <1>1 DEF Crash, Meet, Orderly, OrderlyInv, Unique, Where, Final,
     backend
<1>2. CASE SaveWorld
  BY <1>2 DEF SaveWorld, OrderlyInv, Unique, Where, Final, backend
<1>3. ASSUME NEW d \in Dinos, Roam(d) PROVE OrderlyInv'
  BY <1>3 DEF Roam, Meet, Orderly
<1>4. ASSUME NEW l \in Locks, TimePasses(l) PROVE OrderlyInv'
  BY <1>4 DEF TimePasses, OrderlyInv, Unique, Where, Final
<1>5. CASE UNCHANGED sellVars
  BY <1>5 DEF sellVars, OrderlyInv, Unique, Where, Final
<1> QED
  BY <1>1, <1>2, <1>3, <1>4, <1>5, SellOrderly, RecoverOrderly, ConfirmOrderly DEF ListingNext

LEMMA OrderlyInvariance ==
  ListingSpec => [](SellingInv /\ (Orderly => OrderlyInv))
<1>1. SellingInv /\ (Orderly => OrderlyInv) /\ [ListingNext]_sellVars
        => SellingInv' /\ (Orderly => OrderlyInv)'
  BY SellingStep, OrderlyBefore, StepOrderly
<1>2. ListingInit => SellingInv /\ (Orderly => OrderlyInv)
  BY SellingInit, InitOrderly
<1> QED BY <1>1, <1>2, PTL DEF ListingSpec

\* While the world is orderly a listed dino has left the game and is listed
\* once.
THEOREM ListingOnceAndGone == ListingSpec => []OnceAndGone
<1>1. SellingInv /\ (Orderly => OrderlyInv) => OnceAndGone
  BY DEF SellingInv, ListingTypeOK, OrderlyInv, Unique, Final, OnceAndGone
<1> QED BY <1>1, OrderlyInvariance, PTL

\* While the world is orderly a sale that recovery cancelled is not listed.
THEOREM ListingCancelledIsNotListed ==
  ListingSpec => []CancelledIsNotListed
<1>1. (Orderly => OrderlyInv) => CancelledIsNotListed
  BY DEF OrderlyInv, Final, Gone, CancelledIsNotListed
<1> QED BY <1>1, OrderlyInvariance, PTL
=============================================================================
