--------------------------- MODULE PaymentIntents ---------------------------
(***************************************************************************)
(* Real-money top-ups: a PaymentIntent is credited by the provider's       *)
(* webhook, by the buyer's return to the success page, or, for a bank      *)
(* transfer, by an administrator.  The webhook handler makes one database  *)
(* statement per step and any number of them run at once.  An administrator*)
(* reads the slip and decides it later.  The success page's first read has *)
(* no effect of its own, so that path is its one conditional transaction.  *)
(*                                                                         *)
(* The provider settles a payment once and sends at least one event about  *)
(* it, again and again until an answer says it was accepted.  What an      *)
(* intent buys, IC or a VIP membership, makes no difference here: either   *)
(* is granted once per ledger key or per intent.                           *)
(***************************************************************************)
EXTENDS Naturals, FiniteSets

CONSTANTS
  Intents,
  Slips,        \* the intents that are bank transfers
  Events,       \* the provider's events
  IntentOf,     \* the intent each event is about
  Handlers,     \* webhook requests in progress
  Admins,       \* administrators looking at a slip
  NoSlip,
  MaxFaults     \* bound: failed transactions and crashed handlers

ASSUME PaymentAssumption ==
  /\ Slips \subseteq Intents
  /\ IntentOf \in [Events -> Intents \ Slips]
  /\ NoSlip \notin Slips
  /\ MaxFaults \in Nat

IntentStatuses == {"pending", "processing", "completed", "failed", "expired"}
EventStatuses == {"none", "received", "processing", "processed", "duplicate"}
Verdicts == {"open", "paid", "failed", "expired"}
Stages == {"idle", "look", "record", "decline", "declined", "begin", "claim",
           "credit", "late"}

VARIABLES
  verdict,     \* how the provider settled the payment
  intent,      \* PaymentIntent.status
  credits,     \* how often the purchase was granted
  event,       \* PaymentWebhookEvent.status; "none": not recorded yet
  accepted,    \* the provider got an answer that accepts the event
  stage,       \* where each handler is
  about,       \* the event it handles
  sawEvent,    \* the event's status when it read it
  sawIntent,   \* the intent's status when it read it
  review,      \* the slip each administrator has read, and is about to decide
  sawSlip,     \* its status then
  faults,
  overlapped   \* an event was delivered again while an earlier delivery of it
               \* was still being handled

handlerVars == <<stage, about, sawEvent, sawIntent>>
slipVars == <<review, sawSlip>>
grantVars == <<intent, credits>>
vars == <<verdict, grantVars, event, accepted, handlerVars, slipVars, faults, overlapped>>

TypeOK ==
  /\ verdict \in [Intents -> Verdicts]
  /\ intent \in [Intents -> IntentStatuses]
  /\ credits \in [Intents -> Nat]
  /\ event \in [Events -> EventStatuses]
  /\ accepted \in [Events -> BOOLEAN]
  /\ stage \in [Handlers -> Stages]
  /\ about \in [Handlers -> Events]
  /\ sawEvent \in [Handlers -> EventStatuses]
  /\ sawIntent \in [Handlers -> IntentStatuses]
  /\ review \in [Admins -> Slips \cup {NoSlip}]
  /\ sawSlip \in [Admins -> {"pending", "processing"}]
  /\ faults \in 0 .. MaxFaults
  /\ overlapped \in BOOLEAN

Init ==
  /\ verdict = [i \in Intents |-> "open"]
  /\ intent = [i \in Intents |-> "pending"]
  /\ credits = [i \in Intents |-> 0]
  /\ event = [e \in Events |-> "none"]
  /\ accepted = [e \in Events |-> FALSE]
  /\ stage = [h \in Handlers |-> "idle"]
  /\ \E e \in Events : about = [h \in Handlers |-> e]
  /\ sawEvent = [h \in Handlers |-> "none"]
  /\ sawIntent = [h \in Handlers |-> "pending"]
  /\ review = [a \in Admins |-> NoSlip]
  /\ sawSlip = [a \in Admins |-> "pending"]
  /\ faults = 0
  /\ overlapped = FALSE

-----------------------------------------------------------------------------

Subject(h) == IntentOf[about[h]]

Goto(h, s) == stage' = [stage EXCEPT ![h] = s]

\* The handler answers 200.
Accept(h) ==
  /\ accepted' = [accepted EXCEPT ![about[h]] = TRUE]
  /\ Goto(h, "idle")

SetEvent(h, s) == event' = [event EXCEPT ![about[h]] = s]

\* Mutant: an event on record is taken for one that was handled.
Recorded(s) == s # "none"

\* An event that a redelivery has nothing left to do for.
Closed(s) == s \in {"processed", "duplicate"}

\* The provider settles a card payment, once.
Settle(i) ==
  /\ i \notin Slips /\ verdict[i] = "open"
  /\ \E v \in Verdicts \ {"open"} : verdict' = [verdict EXCEPT ![i] = v]
  /\ UNCHANGED <<grantVars, event, accepted, handlerVars, slipVars, faults, overlapped>>

\* A delivery of the event arrives and its row is read.
Deliver(h, e) ==
  /\ stage[h] = "idle"
  /\ verdict[IntentOf[e]] # "open"
  /\ overlapped' = (overlapped \/ \E g \in Handlers : stage[g] # "idle" /\ about[g] = e)
  /\ about' = [about EXCEPT ![h] = e]
  /\ sawEvent' = [sawEvent EXCEPT ![h] = event[e]]
  /\ IF Closed(event[e])
       THEN accepted' = [accepted EXCEPT ![e] = TRUE] /\ UNCHANGED stage
       ELSE Goto(h, "look") /\ UNCHANGED accepted
  /\ UNCHANGED <<verdict, grantVars, event, sawIntent, slipVars, faults>>

\* The intent is read.
Look(h) ==
  /\ stage[h] = "look"
  /\ sawIntent' = [sawIntent EXCEPT ![h] = intent[Subject(h)]]
  /\ Goto(h, "record")
  /\ UNCHANGED <<verdict, grantVars, event, accepted, about, sawEvent, slipVars, faults, overlapped>>

\* What a handler goes on with, once the event is on record with status s.
Branch(h, s) ==
  IF verdict[Subject(h)] # "paid" THEN "decline"
  ELSE IF sawIntent[h] = "completed" THEN "late"
  ELSE IF s = "processing" THEN "credit" ELSE "begin"

\* The event is recorded unless it was; losing the race to record it means
\* reading what the winner made of it.
Record(h) ==
  LET now == event[about[h]] IN
  /\ stage[h] = "record"
  /\ \/ /\ sawEvent[h] = "none" /\ now = "none"
        /\ SetEvent(h, "received")
        /\ Goto(h, Branch(h, "received"))
        /\ UNCHANGED <<accepted, sawEvent>>
     \/ /\ sawEvent[h] = "none" /\ now # "none"
        /\ sawEvent' = [sawEvent EXCEPT ![h] = now]
        /\ IF Closed(now) THEN Accept(h)
                          ELSE Goto(h, Branch(h, now)) /\ UNCHANGED accepted
        /\ UNCHANGED event
     \/ /\ sawEvent[h] # "none"
        /\ Goto(h, Branch(h, sawEvent[h]))
        /\ UNCHANGED <<event, accepted, sawEvent>>
  /\ UNCHANGED <<verdict, grantVars, about, sawIntent, slipVars, faults, overlapped>>

\* An unpaid payment: the intent ends, if it is still pending.
Decline(h) ==
  LET i == Subject(h) IN
  /\ stage[h] = "decline"
  /\ IF intent[i] = "pending"
       THEN intent' = [intent EXCEPT ![i] = verdict[i]] /\ Goto(h, "declined")
       ELSE Goto(h, "late") /\ UNCHANGED intent
  /\ UNCHANGED <<verdict, credits, event, accepted, about, sawEvent,
                 sawIntent, slipVars, faults, overlapped>>

Declined(h) ==
  /\ stage[h] = "declined"
  /\ SetEvent(h, "processed")
  /\ Accept(h)
  /\ UNCHANGED <<verdict, grantVars, about, sawEvent, sawIntent, slipVars, faults, overlapped>>

\* Someone else has claimed the intent.
Late(h) ==
  /\ stage[h] = "late"
  /\ SetEvent(h, "duplicate")
  /\ Accept(h)
  /\ UNCHANGED <<verdict, grantVars, about, sawEvent, sawIntent, slipVars, faults, overlapped>>

\* A paid event is marked first and the intent claimed next.
BeginCredit(h) ==
  /\ stage[h] = "begin"
  /\ SetEvent(h, "processing")
  /\ Goto(h, "claim")
  /\ UNCHANGED <<verdict, grantVars, accepted, about, sawEvent, sawIntent, slipVars, faults, overlapped>>

Claim(h) ==
  LET i == Subject(h) IN
  /\ stage[h] = "claim"
  /\ IF intent[i] = "pending"
       THEN intent' = [intent EXCEPT ![i] = "processing"] /\ Goto(h, "credit")
       ELSE Goto(h, "late") /\ UNCHANGED intent
  /\ UNCHANGED <<verdict, credits, event, accepted, about, sawEvent,
                 sawIntent, slipVars, faults, overlapped>>

\* Mutant: nothing remembers that the purchase was granted.
FulfilAgain(i) == credits' = [credits EXCEPT ![i] = @ + 1]

\* The ledger key payment:<id>:credit, or the membership's intent, is unique: a
\* second fulfilment of the same intent replays the first.
Fulfil(i) == credits' = [credits EXCEPT ![i] = 1]

Complete(i) ==
  /\ intent' = [intent EXCEPT ![i] = "completed"]
  /\ Fulfil(i)

\* Grant, complete and close the event, in one transaction; the intent is not
\* asked for its status again.
Credit(h) ==
  LET i == Subject(h) IN
  /\ stage[h] = "credit"
  /\ Complete(i)
  /\ SetEvent(h, "processed")
  /\ Accept(h)
  /\ UNCHANGED <<verdict, about, sawEvent, sawIntent, slipVars, faults, overlapped>>

Fault == faults < MaxFaults /\ faults' = faults + 1

\* Mutant: a failed credit is recorded as a failure that nothing resumes.
CreditFailsForGood(h) ==
  /\ stage[h] = "credit"
  /\ SetEvent(h, "received")
  /\ Goto(h, "idle")
  /\ Fault
  /\ UNCHANGED <<verdict, grantVars, accepted, about, sawEvent, sawIntent, slipVars, overlapped>>

\* The transaction fails for good: the event stays open for a redelivery.
CreditFails(h) ==
  /\ stage[h] = "credit"
  /\ SetEvent(h, "processing")
  /\ Goto(h, "idle")
  /\ Fault
  /\ UNCHANGED <<verdict, grantVars, accepted, about, sawEvent, sawIntent, slipVars, overlapped>>

\* The backend goes down between two statements of the handler.
Crash(h) ==
  /\ stage[h] # "idle"
  /\ Goto(h, "idle")
  /\ Fault
  /\ UNCHANGED <<verdict, grantVars, event, accepted, about, sawEvent, sawIntent, slipVars, overlapped>>

\* The success page: asks the provider, then completes and credits in one
\* transaction that is conditional on an open intent.
VerifyStripeSession(i) ==
  /\ i \notin Slips /\ verdict[i] = "paid"
  /\ intent[i] \in {"pending", "processing"}
  /\ Complete(i)
  /\ UNCHANGED <<verdict, event, accepted, handlerVars, slipVars, faults, overlapped>>

\* An administrator reads a slip that is open.
ReadSlip(a, i) ==
  /\ review[a] = NoSlip
  /\ intent[i] \in {"pending", "processing"}
  /\ review' = [review EXCEPT ![a] = i]
  /\ sawSlip' = [sawSlip EXCEPT ![a] = intent[i]]
  /\ UNCHANGED <<verdict, grantVars, event, accepted, handlerVars, faults, overlapped>>

\* Mutant: the decision does not look at the slip again.
Anyway(a) == TRUE

\* The slip still has the status the administrator read.
Unmoved(a) == intent[review[a]] = sawSlip[a]

DecideSlip(a) ==
  /\ review[a] # NoSlip
  /\ review' = [review EXCEPT ![a] = NoSlip]
  /\ UNCHANGED <<verdict, event, accepted, handlerVars, sawSlip, faults, overlapped>>

ApproveSlip(a) ==
  /\ DecideSlip(a)
  /\ IF Unmoved(a) THEN Complete(review[a]) ELSE UNCHANGED grantVars

RejectSlip(a) ==
  /\ DecideSlip(a)
  /\ intent' = IF Unmoved(a) THEN [intent EXCEPT ![review[a]] = "failed"] ELSE intent
  /\ UNCHANGED credits

\* The handler's next statement.
Handle(h) ==
  \/ Look(h) \/ Record(h)
  \/ Decline(h) \/ Declined(h)
  \/ BeginCredit(h) \/ Claim(h) \/ Late(h)
  \/ Credit(h)

Next ==
  \/ \E i \in Intents : Settle(i) \/ VerifyStripeSession(i)
  \/ \E a \in Admins :
       \/ \E i \in Slips : ReadSlip(a, i)
       \/ ApproveSlip(a)
       \/ RejectSlip(a)
  \/ \E h \in Handlers :
       \/ \E e \in Events : Deliver(h, e)
       \/ Handle(h)
       \/ CreditFails(h)
       \/ Crash(h)

Spec == Init /\ [][Next]_vars

\* Handlers run on, and the provider delivers an event again until it is accepted.
Redeliver(e) == ~accepted[e] /\ \E h \in Handlers : Deliver(h, e)

FairSpec ==
  /\ Spec
  /\ \A h \in Handlers : WF_vars(Handle(h))
  /\ \A e \in Events : SF_vars(Redeliver(e))

-----------------------------------------------------------------------------

\* An intent is completed exactly when its purchase was granted, once, however
\* the webhook, its redeliveries and the success page interleave.
CompletedIsCredited ==
  \A i \in Intents :
    /\ intent[i] = "completed" => credits[i] = 1
    /\ intent[i] # "completed" => credits[i] = 0

\* A completed, failed or expired intent stays what it is, however late a redelivery
\* or an administrator's decision comes.
OutcomeIsFinal ==
  [][\A i \in Intents : intent[i] \in {"completed", "failed", "expired"} =>
       intent'[i] = intent[i]]_vars

\* An intent in "processing" has a handler, or an open event that a redelivery
\* resumes, to finish it, as long as deliveries of one event do not overlap.
ClaimIsOwned ==
  ~overlapped => \A i \in Intents : intent[i] = "processing" =>
    \/ \E h \in Handlers : Subject(h) = i /\ stage[h] = "credit"
    \/ \E e \in Events : IntentOf[e] = i /\ event[e] = "processing"

\* A paid payment is granted in the end, whatever crashes on the way, unless
\* deliveries of one event overlapped.
PaidIsCredited ==
  \A e \in Events :
    verdict[IntentOf[e]] = "paid" ~> credits[IntentOf[e]] = 1 \/ overlapped
=============================================================================
