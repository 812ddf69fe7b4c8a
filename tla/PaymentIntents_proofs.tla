----------------------- MODULE PaymentIntents_proofs -----------------------
(***************************************************************************)
(* What PaymentIntents keeps, for any number of intents, events, webhook   *)
(* handlers and administrators.                                            *)
(*                                                                         *)
(* Completion being credited and outcomes being final are not inductive:   *)
(* that a handler about to credit cannot revive a failed intent, or one    *)
(* about to decline end a completed one, follows from the provider having  *)
(* settled the payment once.  Settled says so.  That no claim is ever      *)
(* orphaned holds only while deliveries of one event do not overlap; Owned *)
(* is the strengthening that says which event keeps it.                    *)
(***************************************************************************)
EXTENDS PaymentIntents, TLAPS

\* The verdict decides what a handler may be doing, and what may have become of
\* the intent.
Settled ==
  /\ \A h \in Handlers :
       /\ stage[h] # "idle" => verdict[Subject(h)] # "open"
       /\ stage[h] \in {"decline", "declined"} => verdict[Subject(h)] # "paid"
       /\ stage[h] \in {"begin", "claim", "credit"} => verdict[Subject(h)] = "paid"
  /\ \A i \in Intents \ Slips :
       /\ verdict[i] = "open" => intent[i] = "pending"
       /\ verdict[i] = "paid" => intent[i] \in {"pending", "processing", "completed"}
       /\ intent[i] = "processing" => verdict[i] = "paid"

Inv == TypeOK /\ Settled /\ CompletedIsCredited

\* One handler at a time works on an event, and what it read is still so.
Alone ==
  /\ \A g, h \in Handlers :
       g # h /\ stage[g] # "idle" /\ stage[h] # "idle" => about[g] # about[h]
  /\ \A h \in Handlers :
       /\ stage[h] \in {"look", "record"} => sawEvent[h] = event[about[h]]
       /\ stage[h] = "record" /\ sawIntent[h] = "completed"
            => intent[Subject(h)] = "completed"
       /\ stage[h] \in {"claim", "credit"} => event[about[h]] = "processing"

\* The event e keeps the claim on its intent: a redelivery resumes it, and no
\* handler is about to close it.
Keeps(e) ==
  /\ event[e] = "processing"
  /\ \A h \in Handlers :
       about[h] = e => stage[h] \in {"idle", "look", "record", "credit"}

Owned ==
  \A i \in Intents : intent[i] = "processing" =>
    /\ i \notin Slips
    /\ \E e \in Events : IntentOf[e] = i /\ Keeps(e)

USE PaymentAssumption

LEMMA Marked ==
  \A f \in [Events -> BOOLEAN], e \in Events :
    [f EXCEPT ![e] = TRUE] \in [Events -> BOOLEAN]
BY Zenon

LEMMA InitInv == Init => Inv
<1> SUFFICES ASSUME Init PROVE Inv
  OBVIOUS
<1>1. accepted \in [Events -> BOOLEAN] /\ overlapped \in BOOLEAN
  BY Zenon DEF Init
<1>2. TypeOK
  BY <1>1 DEF Init, TypeOK, IntentStatuses, EventStatuses, Verdicts, Stages
<1>3. Settled /\ CompletedIsCredited
  BY DEF Init, Settled, CompletedIsCredited, Subject
<1> QED
  BY <1>2, <1>3 DEF Inv

LEMMA TypesKept ==
  Inv /\ [Next]_vars => TypeOK'
<1> SUFFICES ASSUME Inv, [Next]_vars PROVE TypeOK'
  OBVIOUS
<1> USE DEF Inv, TypeOK, IntentStatuses, EventStatuses, Verdicts, Stages, 
            handlerVars, slipVars, grantVars, Subject
<1>1. ASSUME NEW i \in Intents, Settle(i) PROVE TypeOK'
  BY <1>1 DEF Settle
<1>2. ASSUME NEW h \in Handlers, NEW e \in Events, Deliver(h, e) PROVE TypeOK'
  <2>1. about' \in [Handlers -> Events] /\ sawEvent' \in [Handlers -> EventStatuses]
    BY <1>2 DEF Deliver
  <2>2. stage' \in [Handlers -> Stages]
    BY <1>2 DEF Deliver, Goto
  <2>3. accepted' = accepted \/ accepted' = [accepted EXCEPT ![e] = TRUE]
    BY <1>2 DEF Deliver
  <2>4. accepted' \in [Events -> BOOLEAN]
    BY <2>3, Marked
  <2> QED
    BY <1>2, <2>1, <2>2, <2>4 DEF Deliver
<1>3. ASSUME NEW h \in Handlers, Look(h) PROVE TypeOK'
  BY <1>3 DEF Look, Goto
<1>4. ASSUME NEW h \in Handlers, Record(h) PROVE TypeOK'
  <2>1. event[about[h]] \in EventStatuses /\ sawEvent[h] \in EventStatuses
    OBVIOUS
  <2>2. \A s : Branch(h, s) \in Stages
    BY DEF Branch
  <2>3. event' \in [Events -> EventStatuses] /\ sawEvent' \in [Handlers -> EventStatuses]
    BY <1>4, <2>1 DEF Record, SetEvent
  <2>4. stage' \in [Handlers -> Stages]
    BY <1>4, <2>2 DEF Record, Accept, Goto
  <2>5. accepted' = accepted \/ accepted' = [accepted EXCEPT ![about[h]] = TRUE]
    BY <1>4 DEF Record, Accept
  <2>6. accepted' \in [Events -> BOOLEAN]
    BY <2>5, Marked
  <2> QED
    BY <1>4, <2>3, <2>4, <2>6 DEF Record
<1>5. ASSUME NEW h \in Handlers, Decline(h) PROVE TypeOK'
  <2>1. verdict[Subject(h)] \in IntentStatuses
    BY <1>5 DEF Decline, Settled
  <2> QED
    BY <1>5, <2>1 DEF Decline, Goto
<1>6. ASSUME NEW h \in Handlers, Declined(h) PROVE TypeOK'
  BY <1>6 DEF Declined, SetEvent, Accept, Goto
<1>7. ASSUME NEW h \in Handlers, BeginCredit(h) PROVE TypeOK'
  BY <1>7 DEF BeginCredit, SetEvent, Goto
<1>8. ASSUME NEW h \in Handlers, Claim(h) PROVE TypeOK'
  BY <1>8 DEF Claim, Goto
<1>9. ASSUME NEW h \in Handlers, Late(h) PROVE TypeOK'
  BY <1>9 DEF Late, SetEvent, Accept, Goto
<1>10. ASSUME NEW h \in Handlers, Credit(h) PROVE TypeOK'
  BY <1>10 DEF Credit, Complete, Fulfil, SetEvent, Accept, Goto
<1>11. ASSUME NEW h \in Handlers, CreditFails(h) PROVE TypeOK'
  BY <1>11 DEF CreditFails, SetEvent, Goto, Fault
<1>12. ASSUME NEW h \in Handlers, Crash(h) PROVE TypeOK'
  BY <1>12 DEF Crash, Goto, Fault
<1>13. ASSUME NEW i \in Intents, VerifyStripeSession(i) PROVE TypeOK'
  BY <1>13 DEF VerifyStripeSession, Complete, Fulfil
<1>14. ASSUME NEW a \in Admins, NEW i \in Slips, ReadSlip(a, i) PROVE TypeOK'
  BY <1>14 DEF ReadSlip
<1>15. ASSUME NEW a \in Admins, ApproveSlip(a) PROVE TypeOK'
  BY <1>15 DEF ApproveSlip, DecideSlip, Unmoved, Complete, Fulfil
<1>16. ASSUME NEW a \in Admins, RejectSlip(a) PROVE TypeOK'
  BY <1>16 DEF RejectSlip, DecideSlip, Unmoved
<1>17. CASE UNCHANGED vars
  BY <1>17 DEF vars
<1> QED
  BY <1>1, <1>2, <1>3, <1>4, <1>5, <1>6, <1>7, <1>8, <1>9, <1>10, <1>11, <1>12,
     <1>13, <1>14, <1>15, <1>16, <1>17
     DEF Next, Handle

LEMMA SettledKept ==
  Inv /\ [Next]_vars => Settled'
<1> SUFFICES ASSUME Inv, [Next]_vars PROVE Settled'
  OBVIOUS
<1> USE DEF Inv, TypeOK, Settled, Verdicts, handlerVars, slipVars, grantVars, Subject
<1>1. ASSUME NEW i \in Intents, Settle(i) PROVE Settled'
  BY <1>1 DEF Settle
<1>2. ASSUME NEW h \in Handlers, NEW e \in Events, Deliver(h, e) PROVE Settled'
  BY <1>2 DEF Deliver, Goto
<1>3. ASSUME NEW h \in Handlers, Look(h) PROVE Settled'
  BY <1>3 DEF Look, Goto
<1>4. ASSUME NEW h \in Handlers, Record(h) PROVE Settled'
  BY <1>4 DEF Record, Branch, SetEvent, Accept, Goto, Closed
<1>5. ASSUME NEW h \in Handlers, Decline(h) PROVE Settled'
  BY <1>5 DEF Decline, Goto
<1>6. ASSUME NEW h \in Handlers, Declined(h) PROVE Settled'
  BY <1>6 DEF Declined, SetEvent, Accept, Goto
<1>7. ASSUME NEW h \in Handlers, BeginCredit(h) PROVE Settled'
  BY <1>7 DEF BeginCredit, SetEvent, Goto
<1>8. ASSUME NEW h \in Handlers, Claim(h) PROVE Settled'
  BY <1>8 DEF Claim, Goto
<1>9. ASSUME NEW h \in Handlers, Late(h) PROVE Settled'
  BY <1>9 DEF Late, SetEvent, Accept, Goto
<1>10. ASSUME NEW h \in Handlers, Credit(h) PROVE Settled'
  BY <1>10 DEF Credit, Complete, Fulfil, SetEvent, Accept, Goto
<1>11. ASSUME NEW h \in Handlers, CreditFails(h) PROVE Settled'
  BY <1>11 DEF CreditFails, SetEvent, Goto, Fault
<1>12. ASSUME NEW h \in Handlers, Crash(h) PROVE Settled'
  BY <1>12 DEF Crash, Goto, Fault
<1>13. ASSUME NEW i \in Intents, VerifyStripeSession(i) PROVE Settled'
  BY <1>13 DEF VerifyStripeSession, Complete, Fulfil
<1>14. ASSUME NEW a \in Admins, NEW i \in Slips, ReadSlip(a, i) PROVE Settled'
  BY <1>14 DEF ReadSlip
<1>15. ASSUME NEW a \in Admins, ApproveSlip(a) PROVE Settled'
  BY <1>15 DEF ApproveSlip, DecideSlip, Unmoved, Complete, Fulfil
<1>16. ASSUME NEW a \in Admins, RejectSlip(a) PROVE Settled'
  BY <1>16 DEF RejectSlip, DecideSlip, Unmoved
<1>17. CASE UNCHANGED vars
  BY <1>17 DEF vars
<1> QED
  BY <1>1, <1>2, <1>3, <1>4, <1>5, <1>6, <1>7, <1>8, <1>9, <1>10, <1>11, <1>12,
     <1>13, <1>14, <1>15, <1>16, <1>17
     DEF Next, Handle

\* The steps that change an intent or a grant.
GrantStep ==
  \/ \E h \in Handlers : Decline(h) \/ Claim(h) \/ Credit(h)
  \/ \E i \in Intents : VerifyStripeSession(i)
  \/ \E a \in Admins : ApproveSlip(a) \/ RejectSlip(a)

LEMMA OtherSteps == [Next]_vars => GrantStep \/ UNCHANGED <<intent, credits>>
BY DEF Next, Handle, GrantStep, Settle, Deliver, Look, Record, Declined, BeginCredit,
       Late, CreditFails, Crash, ReadSlip, vars, grantVars

LEMMA CreditedKept == Inv /\ [Next]_vars => CompletedIsCredited'
<1> SUFFICES ASSUME Inv, [Next]_vars PROVE CompletedIsCredited'
  OBVIOUS
<1> USE DEF Inv, TypeOK, Settled, CompletedIsCredited, Verdicts, Subject
<1>1. CASE UNCHANGED <<intent, credits>>
  BY <1>1
<1>2. ASSUME NEW h \in Handlers, Decline(h) PROVE CompletedIsCredited'
  BY <1>2 DEF Decline
<1>3. ASSUME NEW h \in Handlers, Claim(h) PROVE CompletedIsCredited'
  BY <1>3 DEF Claim
<1>4. ASSUME NEW h \in Handlers, Credit(h) PROVE CompletedIsCredited'
  BY <1>4 DEF Credit, Complete, Fulfil
<1>5. ASSUME NEW i \in Intents, VerifyStripeSession(i) PROVE CompletedIsCredited'
  BY <1>5 DEF VerifyStripeSession, Complete, Fulfil
<1>6. ASSUME NEW a \in Admins, ApproveSlip(a) PROVE CompletedIsCredited'
  BY <1>6 DEF ApproveSlip, DecideSlip, Complete, Fulfil, grantVars
<1>7. ASSUME NEW a \in Admins, RejectSlip(a) PROVE CompletedIsCredited'
  BY <1>7 DEF RejectSlip, DecideSlip, Unmoved
<1> QED
  BY <1>1, <1>2, <1>3, <1>4, <1>5, <1>6, <1>7, OtherSteps DEF GrantStep

Final == \A i \in Intents :
  intent[i] \in {"completed", "failed", "expired"} => intent'[i] = intent[i]

LEMMA FinalKept == Inv /\ [Next]_vars => Final
<1> SUFFICES ASSUME Inv, [Next]_vars PROVE Final
  OBVIOUS
<1> USE DEF Inv, TypeOK, Settled, Final, Subject
<1>1. CASE UNCHANGED <<intent, credits>>
  BY <1>1
<1>2. ASSUME NEW h \in Handlers, Decline(h) PROVE Final
  BY <1>2 DEF Decline
<1>3. ASSUME NEW h \in Handlers, Claim(h) PROVE Final
  BY <1>3 DEF Claim
<1>4. ASSUME NEW h \in Handlers, Credit(h) PROVE Final
  BY <1>4 DEF Credit, Complete
<1>5. ASSUME NEW i \in Intents, VerifyStripeSession(i) PROVE Final
  BY <1>5 DEF VerifyStripeSession, Complete
<1>6. ASSUME NEW a \in Admins, ApproveSlip(a) PROVE Final
  BY <1>6 DEF ApproveSlip, DecideSlip, Unmoved, Complete, grantVars
<1>7. ASSUME NEW a \in Admins, RejectSlip(a) PROVE Final
  BY <1>7 DEF RejectSlip, DecideSlip, Unmoved
<1> QED
  BY <1>1, <1>2, <1>3, <1>4, <1>5, <1>6, <1>7, OtherSteps DEF GrantStep

\* Overlaps are not undone.
LEMMA OverlapKept == [Next]_vars /\ ~overlapped' => ~overlapped
<1> SUFFICES ASSUME [Next]_vars, ~overlapped' PROVE ~overlapped
  OBVIOUS
<1>1. ASSUME NEW h \in Handlers, NEW e \in Events, Deliver(h, e) PROVE ~overlapped
  BY <1>1 DEF Deliver
<1>2. ASSUME NEW h \in Handlers, Handle(h) \/ CreditFails(h) \/ Crash(h) PROVE ~overlapped
  BY <1>2 DEF Handle, Look, Record, Decline, Declined, BeginCredit, Claim, Late, Credit, CreditFails, Crash
<1>3. ASSUME NEW i \in Intents, Settle(i) \/ VerifyStripeSession(i) PROVE ~overlapped
  BY <1>3 DEF Settle, VerifyStripeSession
<1>4. ASSUME NEW a \in Admins,
             ApproveSlip(a) \/ RejectSlip(a) \/ \E i \in Slips : ReadSlip(a, i)
      PROVE  ~overlapped
  BY <1>4 DEF ApproveSlip, RejectSlip, DecideSlip, ReadSlip
<1>5. CASE UNCHANGED vars
  BY <1>5 DEF vars
<1> QED
  BY <1>1, <1>2, <1>3, <1>4, <1>5 DEF Next

LEMMA AloneKept == ~overlapped' /\ Inv /\ Alone /\ [Next]_vars => Alone'
<1> SUFFICES ASSUME ~overlapped', Inv /\ Alone, [Next]_vars PROVE Alone'
  OBVIOUS
<1> USE DEF Inv, TypeOK, Settled, Alone, Verdicts, handlerVars, slipVars, grantVars, Subject
<1>1. ASSUME NEW i \in Intents, Settle(i) PROVE Alone'
  BY <1>1 DEF Settle
<1>2. ASSUME NEW h \in Handlers, NEW e \in Events, Deliver(h, e) PROVE Alone'
  <2>1. \A g \in Handlers : stage[g] = "idle" \/ about[g] # e
    BY <1>2, Zenon DEF Deliver
  <2> QED
    BY <1>2, <2>1 DEF Deliver, Goto
<1>3. ASSUME NEW h \in Handlers, Look(h) PROVE Alone'
  BY <1>3 DEF Look, Goto
<1>4. ASSUME NEW h \in Handlers, Record(h) PROVE Alone'
  BY <1>4 DEF Record, Branch, SetEvent, Accept, Goto, Closed
<1>5. ASSUME NEW h \in Handlers, Decline(h) PROVE Alone'
  BY <1>5 DEF Decline, Goto
<1>6. ASSUME NEW h \in Handlers, Declined(h) PROVE Alone'
  BY <1>6 DEF Declined, SetEvent, Accept, Goto
<1>7. ASSUME NEW h \in Handlers, BeginCredit(h) PROVE Alone'
  BY <1>7 DEF BeginCredit, SetEvent, Goto
<1>8. ASSUME NEW h \in Handlers, Claim(h) PROVE Alone'
  BY <1>8 DEF Claim, Goto
<1>9. ASSUME NEW h \in Handlers, Late(h) PROVE Alone'
  BY <1>9 DEF Late, SetEvent, Accept, Goto
<1>10. ASSUME NEW h \in Handlers, Credit(h) PROVE Alone'
  BY <1>10 DEF Credit, Complete, Fulfil, SetEvent, Accept, Goto
<1>11. ASSUME NEW h \in Handlers, CreditFails(h) PROVE Alone'
  BY <1>11 DEF CreditFails, SetEvent, Goto, Fault
<1>12. ASSUME NEW h \in Handlers, Crash(h) PROVE Alone'
  BY <1>12 DEF Crash, Goto, Fault
<1>13. ASSUME NEW i \in Intents, VerifyStripeSession(i) PROVE Alone'
  BY <1>13 DEF VerifyStripeSession, Complete, Fulfil
<1>14. ASSUME NEW a \in Admins, NEW i \in Slips, ReadSlip(a, i) PROVE Alone'
  BY <1>14 DEF ReadSlip
<1>15. ASSUME NEW a \in Admins, ApproveSlip(a) PROVE Alone'
  BY <1>15 DEF ApproveSlip, DecideSlip, Unmoved, Complete, Fulfil
<1>16. ASSUME NEW a \in Admins, RejectSlip(a) PROVE Alone'
  BY <1>16 DEF RejectSlip, DecideSlip, Unmoved
<1>17. CASE UNCHANGED vars
  BY <1>17 DEF vars
<1> QED
  BY <1>1, <1>2, <1>3, <1>4, <1>5, <1>6, <1>7, <1>8, <1>9, <1>10, <1>11, <1>12,
     <1>13, <1>14, <1>15, <1>16, <1>17
     DEF Next, Handle

LEMMA OwnedKept == ~overlapped' /\ Inv /\ Alone /\ Owned /\ [Next]_vars => Owned'
<1> SUFFICES ASSUME ~overlapped', Inv /\ Alone /\ Owned, [Next]_vars PROVE Owned'
  OBVIOUS
<1> USE DEF Inv, TypeOK, Settled, Alone, Owned, Keeps, Verdicts, 
            handlerVars, slipVars, grantVars, Subject
<1>1. ASSUME NEW i \in Intents, Settle(i) PROVE Owned'
  BY <1>1 DEF Settle
<1>2. ASSUME NEW h \in Handlers, NEW e \in Events, Deliver(h, e) PROVE Owned'
  BY <1>2 DEF Deliver, Goto
<1>3. ASSUME NEW h \in Handlers, Look(h) PROVE Owned'
  BY <1>3 DEF Look, Goto
<1>4. ASSUME NEW h \in Handlers, Record(h) PROVE Owned'
  <2> SUFFICES ASSUME NEW i \in Intents, intent'[i] = "processing"
               PROVE  i \notin Slips /\ \E e \in Events : IntentOf[e] = i /\ Keeps(e)'
    OBVIOUS
  <2>1. intent' = intent /\ about' = about /\ stage[h] = "record"
    BY <1>4 DEF Record
  <2>2. i \notin Slips
    BY <2>1
  <2>3. PICK e \in Events : IntentOf[e] = i /\ Keeps(e)
    BY <2>1
  <2>4. CASE about[h] = e
    <3>1. sawEvent[h] = "processing" /\ sawIntent[h] # "completed" /\ verdict[i] = "paid"
      BY <2>1, <2>2, <2>3, <2>4
    <3>2. event' = event /\ stage' = [stage EXCEPT ![h] = "credit"]
      BY <1>4, <2>3, <2>4, <3>1 DEF Record, Branch, Goto
    <3> QED
      BY <2>1, <2>2, <2>3, <3>2
  <2>5. CASE about[h] # e
    <3>1. event'[e] = event[e]
      BY <1>4, <2>5 DEF Record, SetEvent
    <3>2. \A g \in Handlers : about[g] = e => stage'[g] = stage[g]
      BY <1>4, <2>5 DEF Record, Accept, Goto
    <3> QED
      BY <2>1, <2>2, <2>3, <3>1, <3>2
  <2> QED
    BY <2>4, <2>5
<1>5. ASSUME NEW h \in Handlers, Decline(h) PROVE Owned'
  BY <1>5 DEF Decline, Goto
<1>6. ASSUME NEW h \in Handlers, Declined(h) PROVE Owned'
  BY <1>6 DEF Declined, SetEvent, Accept, Goto
<1>7. ASSUME NEW h \in Handlers, BeginCredit(h) PROVE Owned'
  BY <1>7 DEF BeginCredit, SetEvent, Goto
<1>8. ASSUME NEW h \in Handlers, Claim(h) PROVE Owned'
  <2>1. event[about[h]] = "processing" /\ Subject(h) \notin Slips
    BY <1>8 DEF Claim
  <2>2. CASE intent[Subject(h)] = "pending"
    <3>1. Keeps(about[h])'
      BY <1>8, <2>1, <2>2 DEF Claim, Goto
    <3>2. \A e \in Events : Keeps(e) => Keeps(e)'
      BY <1>8, <2>1, <2>2 DEF Claim, Goto
    <3> HIDE DEF Keeps
    <3> QED
      BY <1>8, <2>1, <2>2, <3>1, <3>2 DEF Claim
  <2>3. CASE intent[Subject(h)] # "pending"
    BY <1>8, <2>1, <2>3 DEF Claim, Goto
  <2> QED
    BY <2>2, <2>3
<1>9. ASSUME NEW h \in Handlers, Late(h) PROVE Owned'
  BY <1>9 DEF Late, SetEvent, Accept, Goto
<1>10. ASSUME NEW h \in Handlers, Credit(h) PROVE Owned'
  BY <1>10 DEF Credit, Complete, Fulfil, SetEvent, Accept, Goto
<1>11. ASSUME NEW h \in Handlers, CreditFails(h) PROVE Owned'
  BY <1>11 DEF CreditFails, SetEvent, Goto, Fault
<1>12. ASSUME NEW h \in Handlers, Crash(h) PROVE Owned'
  BY <1>12 DEF Crash, Goto, Fault
<1>13. ASSUME NEW i \in Intents, VerifyStripeSession(i) PROVE Owned'
  BY <1>13 DEF VerifyStripeSession, Complete, Fulfil
<1>14. ASSUME NEW a \in Admins, NEW i \in Slips, ReadSlip(a, i) PROVE Owned'
  BY <1>14 DEF ReadSlip
<1>15. ASSUME NEW a \in Admins, ApproveSlip(a) PROVE Owned'
  BY <1>15 DEF ApproveSlip, DecideSlip, Unmoved, Complete, Fulfil
<1>16. ASSUME NEW a \in Admins, RejectSlip(a) PROVE Owned'
  BY <1>16 DEF RejectSlip, DecideSlip, Unmoved
<1>17. CASE UNCHANGED vars
  BY <1>17 DEF vars
<1> QED
  BY <1>1, <1>2, <1>3, <1>4, <1>5, <1>6, <1>7, <1>8, <1>9, <1>10, <1>11, <1>12,
     <1>13, <1>14, <1>15, <1>16, <1>17
     DEF Next, Handle

LEMMA NextInv == Inv /\ [Next]_vars => Inv'
BY TypesKept, SettledKept, CreditedKept DEF Inv

\* Whatever the handlers and administrators do, the records stay well-formed.
THEOREM PaymentTypes == Spec => []TypeOK
<1>1. Inv => TypeOK
  BY DEF Inv
<1> QED
  BY <1>1, InitInv, NextInv, PTL DEF Spec

\* An intent is completed exactly when its purchase was granted, once: for any number of
\* events, overlapping deliveries, crashes, and returns to the success page.
THEOREM PaymentCompletedIsCredited == Spec => []CompletedIsCredited
<1>1. Inv => CompletedIsCredited
  BY DEF Inv
<1> QED
  BY <1>1, InitInv, NextInv, PTL DEF Spec

\* A completed, failed or expired intent never changes again.
THEOREM PaymentOutcomeIsFinal == Spec => OutcomeIsFinal
<1>1. Inv /\ [Next]_vars =>
        [\A i \in Intents : intent[i] \in {"completed", "failed", "expired"} =>
           intent'[i] = intent[i]]_vars
  BY FinalKept DEF Final
<1> QED
  BY <1>1, InitInv, NextInv, PTL DEF Spec, OutcomeIsFinal

LEMMA InitAlone == Init => Alone /\ Owned
BY DEF Init, Alone, Owned

\* While deliveries of one event do not overlap, no claimed intent is ever left
\* without a handler or an open event that finishes it, whatever crashes.
THEOREM PaymentClaimIsOwned == Spec => []ClaimIsOwned
<1> DEFINE J == Inv /\ (~overlapped => Alone /\ Owned)
<1>1. J => ClaimIsOwned
  BY DEF Owned, Keeps, ClaimIsOwned
<1>2. J /\ [Next]_vars => J'
  BY NextInv, OverlapKept, AloneKept, OwnedKept
<1>3. Init => J
  BY InitInv, InitAlone
<1> HIDE DEF J
<1> QED
  BY <1>1, <1>2, <1>3, PTL DEF Spec
=============================================================================
