------------------------ MODULE DeliverySystem_proofs ------------------------
(***************************************************************************)
(* Order delivery, for every set of jobs and lease tokens and any number   *)
(* of attempts, handlers and faults.  The plugin alone: an order reaches   *)
(* the game at most once, and its answers are honest.  The queue alone: no *)
(* job runs beyond its budget, no order is paid back twice, and, unless a  *)
(* handler is overtaken, the order and its job agree and a refunded order  *)
(* stays out of the plugin's reach.  Both together: what is called         *)
(* delivered is in the game, only a lease that ran out dead-letters what   *)
(* the game holds, and the shop's promise is kept until a delay.           *)
(***************************************************************************)
EXTENDS DeliverySystem, TLAPS

-----------------------------------------------------------------------------
(* The plugin. *)

PluginInv == PluginTypeOK /\ JournalLeads /\ AtMostOnce

LEMMA PluginStarts == PluginInit => PluginInv
  BY DEF PluginInit, PluginInv, PluginTypeOK, JournalLeads, AtMostOnce,
     JournalStates

\* Where GoTo leaves the game thread.
LEMMA GoneTo ==
  ASSUME PluginInv, NEW w \in current, NEW stage \in Stages, GoTo(w, stage)
  PROVE  \E v \in Work : /\ current' = {v} /\ outbox' = outbox
                         /\ v.job = w.job /\ v.stage = stage
<1>1. w \in Work
  BY DEF PluginInv, PluginTypeOK
<1>2. [w EXCEPT !.stage = stage] \in Work
  BY <1>1 DEF Work
<1>3. [w EXCEPT !.stage = stage].job = w.job /\ [w EXCEPT !.stage = stage].stage = stage
  BY <1>1 DEF Work
<1> QED
  BY <1>2, <1>3 DEF GoTo

\* A step of the game thread at delivery w keeps the invariant.
LEMMA ThreadStep ==
  ASSUME PluginInv, NEW w \in current,
         \/ Offline(w) \/ Step(w) \/ GivePart(w)
         \/ \E ok \in BOOLEAN : WriteStep(w, ok)
  PROVE  PluginInv'
<1> USE DEF PluginInv, PluginTypeOK, JournalLeads, AtMostOnce, Work, Request, Requests,
       JournalStates, Stages, Send, GoTo
<1>0. w \in Work /\ w.job \in Jobs /\ w.token \in Tokens
  OBVIOUS
<1>1. CASE Offline(w)
  BY <1>0, <1>1 DEF Offline
<1>2. CASE BeginKnown(w)
  BY <1>0, <1>2 DEF BeginKnown
<1>3. CASE GiveAll(w)
  <2> USE <1>3 DEF GiveAll
  <2>1. PICK v \in Work : /\ current' = {v} /\ outbox' = outbox
                          /\ v.job = w.job /\ v.stage = "record"
    BY GoneTo
  <2>2. journal[w.job] = "mutating" /\ full[w.job] = 0 /\ partly[w.job] = 0
    BY <1>0
  <2>3. full' \in [Jobs -> Nat] /\ full'[w.job] = 1
    BY <1>0, <2>2
  <2>4. \A j \in Jobs : j # w.job => full'[j] = full[j]
    BY <1>0
  <2>5. PluginTypeOK'
    BY <2>1, <2>3
  <2>6. JournalLeads'
    BY <1>0, <2>1, <2>2, <2>3, <2>4
  <2>7. AtMostOnce'
    BY <1>0, <2>2, <2>3, <2>4
  <2> QED
    BY <2>5, <2>6, <2>7
<1>4. CASE GivePart(w)
  BY <1>0, <1>4 DEF GivePart
<1>5. ASSUME NEW ok \in BOOLEAN, BeginFresh(w, ok) PROVE PluginInv'
  <2> USE <1>5 DEF BeginFresh, Journal
  <2>1. CASE ok
    <3>1. PICK v \in Work : /\ current' = {v} /\ outbox' = outbox
                            /\ v.job = w.job /\ v.stage = "mark"
      BY <2>1, GoneTo
    <3>2. journal[w.job] = "none" /\ full[w.job] = 0 /\ partly[w.job] = 0
      BY <1>0, <2>1
    <3>3. journal' \in [Jobs -> JournalStates] /\ journal'[w.job] = "prepared"
      BY <1>0, <2>1
    <3>4. \A j \in Jobs : j # w.job => journal'[j] = journal[j]
      BY <1>0, <2>1
    <3>5. PluginTypeOK'
      BY <3>1, <3>3
    <3>6. JournalLeads'
      BY <1>0, <3>1, <3>2, <3>3, <3>4
    <3>7. AtMostOnce'
      OBVIOUS
    <3> QED
      BY <3>5, <3>6, <3>7
  <2>2. CASE ~(ok)
    BY <1>0, <2>2
  <2> QED
    BY <2>1, <2>2
<1>6. ASSUME NEW ok \in BOOLEAN, Mark(w, ok) PROVE PluginInv'
  <2> USE <1>6 DEF Mark, Journal
  <2>1. CASE ok /\ journal[w.job] = "prepared"
    <3>1. PICK v \in Work : /\ current' = {v} /\ outbox' = outbox
                            /\ v.job = w.job /\ v.stage = "give"
      BY <2>1, GoneTo
    <3>2. journal[w.job] = "prepared" /\ full[w.job] = 0 /\ partly[w.job] = 0
      BY <1>0, <2>1
    <3>3. journal' \in [Jobs -> JournalStates] /\ journal'[w.job] = "mutating"
      BY <1>0, <2>1
    <3>4. \A j \in Jobs : j # w.job => journal'[j] = journal[j]
      BY <1>0, <2>1
    <3>5. PluginTypeOK'
      BY <3>1, <3>3
    <3>6. JournalLeads'
      BY <1>0, <3>1, <3>2, <3>3, <3>4
    <3>7. AtMostOnce'
      OBVIOUS
    <3> QED
      BY <3>5, <3>6, <3>7
  <2>2. CASE ~(ok /\ journal[w.job] = "prepared")
    BY <1>0, <2>2
  <2> QED
    BY <2>1, <2>2
<1>7. ASSUME NEW ok \in BOOLEAN, Record(w, ok) PROVE PluginInv'
  BY <1>0, <1>7 DEF Record, Journal
<1>8. ASSUME NEW ok \in BOOLEAN, NEW op \in {"release", "fail"}, GiveNothing(w, op, ok)
      PROVE PluginInv'
  BY <1>0, <1>8 DEF GiveNothing, Abort, Journal
<1> QED
  BY <1>1, <1>2, <1>3, <1>4, <1>5, <1>6, <1>7, <1>8 DEF Step, WriteStep

LEMMA PluginGoes == PluginInv /\ [PluginNext]_pluginVars => PluginInv'
<1> SUFFICES ASSUME PluginInv, [PluginNext]_pluginVars PROVE PluginInv'
  OBVIOUS
<1>1. ASSUME NEW j \in Jobs, NEW t \in Tokens, Take(j, t) PROVE PluginInv'
  BY <1>1 DEF Take, PluginInv, PluginTypeOK, JournalLeads, AtMostOnce,
     Work, Stages
<1>2. ASSUME NEW loads \in BOOLEAN, Crash(loads) PROVE PluginInv'
  BY <1>2 DEF Crash, PluginInv, PluginTypeOK, JournalLeads, AtMostOnce
<1>3. ASSUME NEW m \in outbox, outbox' = outbox \ {m},
             UNCHANGED <<journal, loaded, current, full, partly>>
      PROVE PluginInv'
  BY <1>3 DEF PluginInv, PluginTypeOK, JournalLeads, AtMostOnce
<1>4. CASE UNCHANGED pluginVars
  BY <1>4 DEF pluginVars, PluginInv, PluginTypeOK, JournalLeads, AtMostOnce
<1> QED
  BY <1>1, <1>2, <1>3, <1>4, ThreadStep DEF PluginNext

LEMMA PluginAlways == PluginSpec => []PluginInv
<1>1. PluginInit => PluginInv
  BY PluginStarts
<1>2. PluginInv /\ [PluginNext]_pluginVars => PluginInv'
  BY PluginGoes
<1> QED
  BY <1>1, <1>2, PTL DEF PluginSpec

\* The journal, the game thread and the requests it sends stay well-formed.
THEOREM PluginTypes == PluginSpec => []PluginTypeOK
<1>1. PluginInv => PluginTypeOK
  BY DEF PluginInv
<1> QED
  BY <1>1, PluginAlways, PTL

\* PollPendingOrders never puts an order into the game twice, wholly or in part,
\* whatever is claimed again, wherever the server crashes and whichever journal
\* write fails.
THEOREM GrantsAtMostOnce == PluginSpec => []AtMostOnce
<1>1. PluginInv => AtMostOnce
  BY DEF PluginInv
<1> QED
  BY <1>1, PluginAlways, PTL

\* A new request that reports completion or failure tells what the game holds.
LEMMA HonestStep ==
  ASSUME PluginInv, [PluginNext]_pluginVars, NEW m \in outbox' \ outbox
  PROVE  /\ m.op = "complete" => full'[m.job] = 1 /\ partly'[m.job] = 0
         /\ m.op = "fail" => full'[m.job] = 0 /\ partly'[m.job] = 0
<1>1. PICK w \in current :
        \/ Offline(w) \/ Step(w) \/ GivePart(w)
        \/ \E ok \in BOOLEAN : WriteStep(w, ok)
  BY DEF PluginNext, pluginVars, Take, Crash
<1> USE DEF PluginInv, PluginTypeOK, JournalLeads, Work, Send,
       GoTo
<1>2. CASE Offline(w) \/ GivePart(w)
  BY <1>2 DEF Offline, GivePart
<1>3. CASE Step(w)
  BY <1>3 DEF Step, BeginKnown, GiveAll
<1>4. ASSUME NEW ok \in BOOLEAN, WriteStep(w, ok)
      PROVE  /\ m.op = "complete" => full'[m.job] = 1 /\ partly'[m.job] = 0
             /\ m.op = "fail" => full'[m.job] = 0 /\ partly'[m.job] = 0
  BY <1>4 DEF WriteStep, BeginFresh, Mark, Record,
     GiveNothing
<1> QED
  BY <1>1, <1>2, <1>3, <1>4

\* A "complete" leaves the plugin only for an order the game holds in full, and a
\* "fail" only while the game holds nothing of it.
THEOREM PluginIsHonest == PluginSpec => HonestAnswers
<1> DEFINE Honest ==
      \A m \in outbox' \ outbox :
        /\ m.op = "complete" => full'[m.job] = 1 /\ partly'[m.job] = 0
        /\ m.op = "fail" => full'[m.job] = 0 /\ partly'[m.job] = 0
<1>1. PluginInv /\ [PluginNext]_pluginVars => [Honest]_pluginVars
  BY HonestStep
<1> QED
  BY <1>1, PluginAlways, PTL DEF PluginSpec, HonestAnswers

-----------------------------------------------------------------------------
(* The queue. *)

\* A job has a token exactly while it is leased; a completed one keeps its last.
TokenOfLease ==
  \A j \in Jobs : /\ status[j] \in {"pending", "dead_letter"} => token[j] = NoToken
                  /\ status[j] = "leased" => token[j] \in Tokens

\* What a handler has read is still true while the lease it read is there.
ReadIsCurrent ==
  \A h \in inflight :
    /\ \/ h.token \in Tokens /\ h.status = "leased"
       \/ h.token = NoToken /\ h.status = "pending" /\ h.op = "claim"
    /\ LeasedWith(h.job, h.token) =>
         attempts[h.job] = h.attempts /\ maxAttempts[h.job] = h.maxAttempts

\* A report is about a lease its claim has answered for.
ReportIsAnswered ==
  \A h \in inflight :
    h.op \in Requests /\ LeasedWith(h.job, h.token) => answered[h.job]

\* A handler busy with an order that was not overtaken: it is alone, and its job
\* is where it left it.
AdvanceIsTimely ==
  \A a \in advances : a.job \notin overtaken =>
    /\ \A b \in advances : b.job = a.job => b = a
    /\ \/ /\ a.to = "delivering" /\ LeasedWith(a.job, a.token)
          /\ ~answered[a.job] /\ ~expired[a.job]
       \/ a.to = "queued" /\ status[a.job] = "pending"

AnsweredIsDelivering ==
  \A j \in Jobs \ overtaken : status[j] = "leased" /\ answered[j] => order[j] = "delivering"

\* The ledger's transaction and the order agree about the refund.
RefundIsPosted ==
  \A j \in Jobs : /\ credits[j] = IF refundedBy[j] = "none" THEN 0 ELSE 1
                  /\ order[j] = "refunded" => refundedBy[j] # "none"

QueueInv ==
  /\ QueueTypeOK /\ TokenOfLease /\ ReadIsCurrent /\ ReportIsAnswered /\ AdvanceIsTimely
  /\ AnsweredIsDelivering /\ RefundIsPosted
  /\ BudgetRespected /\ OrderFollowsJob

-----------------------------------------------------------------------------
(* The kinds of steps. *)

\* A request or a claim reads a job.
Reads(j) ==
  /\ \E op \in Requests \cup {"claim"} :
       /\ inflight' = inflight \cup {Snapshot(op, j, token[j])}
       /\ \/ op = "claim" /\ Claimable(j)
          \/ op \in Requests /\ token[j] \in Tokens /\ status[j] # "completed"
             /\ (status[j] = "leased" => answered[j])
  /\ UNCHANGED <<jobVars, orderVars, advances>>

\* A handler is gone without having changed anything.
Drops(h) ==
  inflight' = inflight \ {h} /\ UNCHANGED <<jobVars, orderVars, advances>>

Kinds ==
  \/ \E j \in Jobs : \/ Reads(j) \/ LeaseExpires(j) \/ BackoffOver(j)
                     \/ OwnerRefund(j) \/ AdminRefund(j) \/ AdminRetry(j)
  \/ \E h \in inflight : \/ \E t \in Tokens : ClaimLease(h, t)
                         \/ DeadLetterExpired(h) \/ CommitComplete(h)
                         \/ CommitFailRetry(h)
                         \/ CommitFailFinal(h) \/ CommitRelease(h) \/ Drops(h)
  \/ \E a \in advances : \/ AdvanceSkip(a) \/ AdvanceRead(a)
                         \/ AdvanceWrite(a) \/ AbandonAdvance(a)
  \/ UNCHANGED queueVars

LEMMA EveryStep == [QueueNext]_queueVars => Kinds
<1> SUFFICES ASSUME [QueueNext]_queueVars PROVE Kinds
  OBVIOUS
<1>1. ASSUME NEW j \in Jobs, ClaimRead(j) PROVE Reads(j)
  BY <1>1 DEF ClaimRead, Reads
<1>2. ASSUME NEW j \in Jobs, Client(j) PROVE Reads(j)
  <2>1. PICK op \in Requests, t \in Tokens :
          (LeasedWith(j, t) => answered[j]) /\ ReadRequest(op, j, t)
    BY <1>2 DEF Client
  <2> QED
    BY <2>1 DEF ReadRequest, Reads, LeasedWith
<1>3. ASSUME NEW h \in inflight, LoseRace(h) \/ AbandonUpdate(h) PROVE Drops(h)
  BY <1>3 DEF LoseRace, AbandonUpdate, Drops
<1> QED
  BY <1>1, <1>2, <1>3, Zenon DEF QueueNext, Kinds, Clock, People, Finish,
     Advancement

-----------------------------------------------------------------------------
(* Types. *)

Flags == /\ expired \in [Jobs -> BOOLEAN] /\ waiting \in [Jobs -> BOOLEAN]
         /\ answered \in [Jobs -> BOOLEAN]

JobTypes == /\ status \in [Jobs -> JobStatuses] /\ token \in [Jobs -> LeaseTokens]
            /\ attempts \in [Jobs -> Nat] /\ maxAttempts \in [Jobs -> Nat]

OrderTypes == /\ order \in [Jobs -> OrderStatuses]
              /\ refundedBy \in [Jobs -> Payers]
              /\ credits \in [Jobs -> Nat]

HandlerTypes ==
  inflight \subseteq Handler /\ advances \subseteq Advance /\ overtaken \subseteq Jobs

LEMMA Parts == QueueTypeOK <=> Flags /\ JobTypes /\ OrderTypes /\ HandlerTypes
  BY Zenon DEF QueueTypeOK, Flags, JobTypes, OrderTypes, HandlerTypes

LEMMA HandlerFields ==
  ASSUME HandlerTypes
  PROVE  /\ \A h \in inflight : /\ h.op \in Requests \cup {"claim"} /\ h.job \in Jobs
                                /\ h.token \in LeaseTokens /\ h.status \in JobStatuses
                                /\ h.attempts \in Nat /\ h.maxAttempts \in Nat
         /\ \A a \in advances : /\ a.job \in Jobs /\ a.token \in LeaseTokens
                                /\ a.to \in {"delivering", "queued"}
  BY DEF HandlerTypes, Handler, Advance

\* An order that is advanced keeps to the table.
LEMMA AdvancedType ==
  ASSUME order \in [Jobs -> OrderStatuses], NEW j \in Jobs, NEW to
  PROVE  Advanced(j, to) \in [Jobs -> OrderStatuses]
  BY DEF Advanced, CanTransition

LEMMA FlagsKept ==
  ASSUME HandlerTypes, Flags, Kinds
  PROVE  Flags'
<1> USE DEF Flags, jobVars
<1>1. ASSUME NEW j \in Jobs, Reads(j) PROVE Flags'
  BY <1>1 DEF Reads
<1>2. ASSUME NEW j \in Jobs, LeaseExpires(j) \/ BackoffOver(j) PROVE Flags'
  BY <1>2 DEF LeaseExpires, BackoffOver
<1>3. ASSUME NEW j \in Jobs, OwnerRefund(j) \/ AdminRefund(j)
               \/ AdminRetry(j)
      PROVE  Flags'
  BY <1>3 DEF OwnerRefund, AdminRefund, AdminRetry
<1>4. ASSUME NEW h \in inflight, NEW t \in Tokens, ClaimLease(h, t) PROVE Flags'
  BY <1>4 DEF ClaimLease
<1>5. ASSUME NEW h \in inflight, CommitComplete(h) \/ CommitFailRetry(h)
               \/ CommitRelease(h)
      PROVE  Flags'
  BY <1>5 DEF CommitComplete, CommitFailRetry, CommitRelease
<1>6. ASSUME NEW h \in inflight, DeadLetterExpired(h) \/ CommitFailFinal(h)
               \/ Drops(h)
      PROVE  Flags'
  BY <1>6 DEF DeadLetterExpired, CommitFailFinal, DeadLetter, Drops
<1>7. ASSUME NEW a \in advances, AdvanceSkip(a) \/ AdvanceWrite(a) PROVE Flags'
  <2>1. answered' \in [Jobs -> BOOLEAN]
    BY <1>7 DEF AdvanceSkip, AdvanceWrite, Answer
  <2> QED
    BY <1>7, <2>1 DEF AdvanceSkip, AdvanceWrite
<1>8. ASSUME NEW a \in advances, AdvanceRead(a) \/ AbandonAdvance(a) PROVE Flags'
  BY <1>8 DEF AdvanceRead, AbandonAdvance
<1>9. CASE UNCHANGED queueVars
  BY <1>9 DEF queueVars
<1> QED
  BY <1>1, <1>2, <1>3, <1>4, <1>5, <1>6, <1>7, <1>8, <1>9 DEF Kinds

LEMMA JobTypesKept ==
  ASSUME HandlerTypes, JobTypes, Kinds
  PROVE  JobTypes'
<1> USE HandlerFields, QueueAssumption DEF JobTypes, jobVars, JobStatuses,
       LeaseTokens
<1>1. ASSUME NEW j \in Jobs, Reads(j) PROVE JobTypes'
  BY <1>1 DEF Reads
<1>2. ASSUME NEW j \in Jobs, LeaseExpires(j) \/ BackoffOver(j) PROVE JobTypes'
  BY <1>2 DEF LeaseExpires, BackoffOver
<1>3. ASSUME NEW j \in Jobs, OwnerRefund(j) \/ AdminRefund(j) PROVE JobTypes'
  BY <1>3 DEF OwnerRefund, AdminRefund
<1>4. ASSUME NEW j \in Jobs, AdminRetry(j) PROVE JobTypes'
  BY <1>4 DEF AdminRetry
<1>5. ASSUME NEW h \in inflight, NEW t \in Tokens, ClaimLease(h, t) PROVE JobTypes'
  BY <1>5 DEF ClaimLease
<1>6. ASSUME NEW h \in inflight, CommitComplete(h) \/ CommitFailRetry(h)
      PROVE  JobTypes'
  BY <1>6 DEF CommitComplete, CommitFailRetry
<1>7. ASSUME NEW h \in inflight, CommitRelease(h) PROVE JobTypes'
  BY <1>7 DEF CommitRelease
<1>8. ASSUME NEW h \in inflight, DeadLetterExpired(h) \/ CommitFailFinal(h)
               \/ Drops(h)
      PROVE  JobTypes'
  BY <1>8 DEF DeadLetterExpired, CommitFailFinal, DeadLetter, Drops
<1>9. ASSUME NEW a \in advances, AdvanceSkip(a) \/ AdvanceWrite(a)
               \/ AdvanceRead(a) \/ AbandonAdvance(a)
      PROVE  JobTypes'
  BY <1>9 DEF AdvanceSkip, AdvanceWrite, AdvanceRead, AbandonAdvance
<1>10. CASE UNCHANGED queueVars
  BY <1>10 DEF queueVars
<1> QED
  BY <1>1, <1>2, <1>3, <1>4, <1>5, <1>6, <1>7, <1>8, <1>9, <1>10 DEF Kinds

LEMMA OrderTypesKept ==
  ASSUME HandlerTypes, OrderTypes, Kinds
  PROVE  OrderTypes'
<1> USE HandlerFields DEF OrderTypes, orderVars, Payers
<1>1. ASSUME NEW j \in Jobs, Reads(j) \/ LeaseExpires(j) \/ BackoffOver(j)
      PROVE  OrderTypes'
  BY <1>1 DEF Reads, LeaseExpires, BackoffOver
<1>2. ASSUME NEW j \in Jobs, OwnerRefund(j) \/ AdminRefund(j) PROVE OrderTypes'
  BY <1>2 DEF OwnerRefund, AdminRefund, PostRefund, OrderStatuses
<1>3. ASSUME NEW j \in Jobs, AdminRetry(j) PROVE OrderTypes'
  BY <1>3, AdvancedType DEF AdminRetry
<1>4. ASSUME NEW h \in inflight, \E t \in Tokens : ClaimLease(h, t) PROVE OrderTypes'
  BY <1>4 DEF ClaimLease
<1>5. ASSUME NEW h \in inflight, CommitComplete(h) \/ CommitFailRetry(h)
      PROVE  OrderTypes'
  BY <1>5, AdvancedType DEF CommitComplete, CommitFailRetry
<1>6. ASSUME NEW h \in inflight, CommitRelease(h) \/ Drops(h) PROVE OrderTypes'
  BY <1>6 DEF CommitRelease, Drops
<1>7. ASSUME NEW h \in inflight, DeadLetterExpired(h) \/ CommitFailFinal(h)
      PROVE  OrderTypes'
  BY <1>7, AdvancedType DEF DeadLetterExpired, CommitFailFinal, DeadLetter
<1>8. ASSUME NEW a \in advances, AdvanceSkip(a) \/ AdvanceWrite(a)
      PROVE  OrderTypes'
  BY <1>8 DEF AdvanceSkip, AdvanceWrite, OrderStatuses
<1>9. ASSUME NEW a \in advances, AdvanceRead(a) \/ AbandonAdvance(a)
      PROVE  OrderTypes'
  BY <1>9 DEF AdvanceRead, AbandonAdvance
<1>10. CASE UNCHANGED queueVars
  BY <1>10 DEF queueVars
<1> QED
  BY <1>1, <1>2, <1>3, <1>4, <1>5, <1>6, <1>7, <1>8, <1>9, <1>10 DEF Kinds

LEMMA HandlerTypesKept ==
  ASSUME HandlerTypes, JobTypes, Kinds
  PROVE  HandlerTypes'
<1> USE HandlerFields DEF HandlerTypes, jobVars, handlerVars
<1>1. ASSUME NEW j \in Jobs, Reads(j) PROVE HandlerTypes'
  <2>1. \A op \in Requests \cup {"claim"} : Snapshot(op, j, token[j]) \in Handler
    BY DEF Snapshot, Handler, JobTypes
  <2> QED
    BY <1>1, <2>1 DEF Reads
<1>2. ASSUME NEW j \in Jobs, LeaseExpires(j) \/ BackoffOver(j) PROVE HandlerTypes'
  BY <1>2 DEF LeaseExpires, BackoffOver, Overtake
<1>3. ASSUME NEW j \in Jobs, OwnerRefund(j) \/ AdminRefund(j)
               \/ AdminRetry(j)
      PROVE  HandlerTypes'
  BY <1>3 DEF OwnerRefund, AdminRefund, AdminRetry
<1>4. ASSUME NEW h \in inflight, NEW t \in Tokens, ClaimLease(h, t) PROVE HandlerTypes'
  <2>1. [job |-> h.job, token |-> t, to |-> "delivering", stage |-> "read"] \in Advance
    BY DEF Advance, LeaseTokens
  <2> QED
    BY <1>4, <2>1 DEF ClaimLease, Overtake
<1>5. ASSUME NEW h \in inflight, CommitRelease(h) PROVE HandlerTypes'
  <2>1. [job |-> h.job, token |-> h.token, to |-> "queued", stage |-> "read"] \in Advance
    BY DEF Advance, LeaseTokens
  <2> QED
    BY <1>5, <2>1 DEF CommitRelease
<1>6. ASSUME NEW h \in inflight, CommitComplete(h) \/ CommitFailRetry(h)
      PROVE  HandlerTypes'
  BY <1>6 DEF CommitComplete, CommitFailRetry
<1>7. ASSUME NEW h \in inflight, DeadLetterExpired(h) \/ CommitFailFinal(h)
               \/ Drops(h)
      PROVE  HandlerTypes'
  BY <1>7 DEF DeadLetterExpired, CommitFailFinal, DeadLetter, Drops
<1>8. ASSUME NEW a \in advances, AdvanceRead(a) PROVE HandlerTypes'
  <2>1. [a EXCEPT !.stage = "write"] \in Advance
    BY DEF Advance
  <2> QED
    BY <1>8, <2>1 DEF AdvanceRead
<1>9. ASSUME NEW a \in advances, AdvanceSkip(a) \/ AdvanceWrite(a)
               \/ AbandonAdvance(a)
      PROVE  HandlerTypes'
  BY <1>9 DEF AdvanceSkip, AdvanceWrite, AbandonAdvance, Answer
<1>10. CASE UNCHANGED queueVars
  BY <1>10 DEF queueVars
<1> QED
  BY <1>1, <1>2, <1>3, <1>4, <1>5, <1>6, <1>7, <1>8, <1>9, <1>10 DEF Kinds

-----------------------------------------------------------------------------
(* Leases and attempts. *)

LEMMA TokenOfLeaseKept ==
  ASSUME QueueTypeOK, TokenOfLease, Kinds
  PROVE  TokenOfLease'
<1>0. Flags /\ JobTypes /\ OrderTypes /\ HandlerTypes
  BY Parts
<1> USE <1>0, HandlerFields DEF TokenOfLease, JobTypes, jobVars, JobStatuses
<1>1. ASSUME NEW j \in Jobs, Reads(j) \/ LeaseExpires(j) \/ BackoffOver(j)
      PROVE  TokenOfLease'
  BY <1>1 DEF Reads, LeaseExpires, BackoffOver
<1>2. ASSUME NEW j \in Jobs, OwnerRefund(j) \/ AdminRefund(j) PROVE TokenOfLease'
  BY <1>2 DEF OwnerRefund, AdminRefund
<1>3. ASSUME NEW j \in Jobs, AdminRetry(j) PROVE TokenOfLease'
  BY <1>3 DEF AdminRetry
<1>4. ASSUME NEW h \in inflight, NEW t \in Tokens, ClaimLease(h, t) PROVE TokenOfLease'
  BY <1>4 DEF ClaimLease
<1>5. ASSUME NEW h \in inflight, CommitComplete(h) PROVE TokenOfLease'
  BY <1>5 DEF CommitComplete
<1>6. ASSUME NEW h \in inflight, CommitFailRetry(h) \/ CommitRelease(h)
      PROVE  TokenOfLease'
  BY <1>6 DEF CommitFailRetry, CommitRelease
<1>7. ASSUME NEW h \in inflight, DeadLetterExpired(h) \/ CommitFailFinal(h)
               \/ Drops(h)
      PROVE  TokenOfLease'
  BY <1>7 DEF DeadLetterExpired, CommitFailFinal, DeadLetter, Drops
<1>8. ASSUME NEW a \in advances, AdvanceSkip(a) \/ AdvanceWrite(a)
               \/ AdvanceRead(a) \/ AbandonAdvance(a)
      PROVE  TokenOfLease'
  BY <1>8 DEF AdvanceSkip, AdvanceWrite, AdvanceRead, AbandonAdvance
<1>9. CASE UNCHANGED queueVars
  BY <1>9 DEF queueVars
<1> QED
  BY <1>1, <1>2, <1>3, <1>4, <1>5, <1>6, <1>7, <1>8, <1>9 DEF Kinds

\* Attempts and budget change only where the lease that was read is gone.
Steady(h) == LeasedWith(h.job, h.token)' => /\ LeasedWith(h.job, h.token)
                                            /\ attempts'[h.job] = attempts[h.job]
                                            /\ maxAttempts'[h.job] = maxAttempts[h.job]

LEMMA ReadsStaySteady ==
  ASSUME QueueTypeOK, TokenOfLease, ReadIsCurrent, Kinds, NEW g \in inflight
  PROVE  Steady(g)
<1>0. Flags /\ JobTypes /\ OrderTypes /\ HandlerTypes
  BY Parts
<1> USE <1>0, HandlerFields DEF Steady, LeasedWith, JobTypes, jobVars
<1>1. ASSUME NEW j \in Jobs, Reads(j) \/ LeaseExpires(j) \/ BackoffOver(j)
      PROVE  Steady(g)
  BY <1>1 DEF Reads, LeaseExpires, BackoffOver
<1>2. ASSUME NEW j \in Jobs, OwnerRefund(j) \/ AdminRefund(j) PROVE Steady(g)
  BY <1>2 DEF OwnerRefund, AdminRefund
<1>3. ASSUME NEW j \in Jobs, AdminRetry(j) PROVE Steady(g)
  BY <1>3 DEF AdminRetry
<1>4. ASSUME NEW h \in inflight, NEW t \in Tokens, ClaimLease(h, t) PROVE Steady(g)
  <2>1. t # g.token
    BY <1>4 DEF ClaimLease, OutstandingTokens
  <2> QED
    BY <1>4, <2>1 DEF ClaimLease
<1>5. ASSUME NEW h \in inflight, CommitComplete(h) PROVE Steady(g)
  BY <1>5 DEF CommitComplete
<1>6. ASSUME NEW h \in inflight, CommitFailRetry(h) \/ CommitRelease(h)
      PROVE  Steady(g)
  BY <1>6 DEF CommitFailRetry, CommitRelease
<1>7. ASSUME NEW h \in inflight, DeadLetterExpired(h) \/ CommitFailFinal(h)
               \/ Drops(h)
      PROVE  Steady(g)
  BY <1>7 DEF DeadLetterExpired, CommitFailFinal, DeadLetter, Drops
<1>8. ASSUME NEW a \in advances, AdvanceSkip(a) \/ AdvanceWrite(a)
               \/ AdvanceRead(a) \/ AbandonAdvance(a)
      PROVE  Steady(g)
  BY <1>8 DEF AdvanceSkip, AdvanceWrite, AdvanceRead, AbandonAdvance
<1>9. CASE UNCHANGED queueVars
  BY <1>9 DEF queueVars
<1> QED
  BY <1>1, <1>2, <1>3, <1>4, <1>5, <1>6, <1>7, <1>8, <1>9 DEF Kinds

\* Only a read adds a handler to those before their update.
LEMMA OnlyReadsAdd ==
  ASSUME Kinds
  PROVE  inflight' \subseteq inflight \/ \E j \in Jobs : Reads(j)
  BY Zenon DEF Kinds, LeaseExpires, BackoffOver, OwnerRefund, AdminRefund, AdminRetry,
     ClaimLease, DeadLetterExpired, CommitComplete, CommitFailRetry, CommitFailFinal,
     CommitRelease, Drops, AdvanceSkip, AdvanceRead, AdvanceWrite, AbandonAdvance, handlerVars,
     queueVars

LEMMA ReadIsCurrentKept ==
  ASSUME QueueTypeOK, TokenOfLease, ReadIsCurrent, Kinds
  PROVE  ReadIsCurrent'
<1>0. Flags /\ JobTypes /\ OrderTypes /\ HandlerTypes
  BY Parts
<1> DEFINE Origin(h) == \/ h.token \in Tokens /\ h.status = "leased"
                        \/ h.token = NoToken /\ h.status = "pending" /\ h.op = "claim"
           Current(h) == LeasedWith(h.job, h.token) =>
                           attempts[h.job] = h.attempts /\ maxAttempts[h.job] = h.maxAttempts
<1>1. ASSUME NEW g \in inflight
      PROVE  Origin(g) /\ Current(g)'
  BY <1>1, ReadsStaySteady DEF Steady, ReadIsCurrent
<1>2. CASE inflight' \subseteq inflight
  BY <1>1, <1>2 DEF ReadIsCurrent
<1>3. ASSUME NEW j \in Jobs, Reads(j) PROVE ReadIsCurrent'
  <2>1. PICK op \in Requests \cup {"claim"} :
          /\ inflight' = inflight \cup {Snapshot(op, j, token[j])}
          /\ \/ op = "claim" /\ Claimable(j)
             \/ op \in Requests /\ token[j] \in Tokens /\ status[j] # "completed"
    BY <1>3 DEF Reads
  <2>2. PICK g : g = Snapshot(op, j, token[j])
    OBVIOUS
  <2>3. Origin(g)
    BY <1>0, <2>1, <2>2, QueueAssumption
       DEF Snapshot, TokenOfLease, Claimable, JobTypes, JobStatuses
  <2>4. Current(g)'
    BY <1>3, <2>2 DEF Reads, Snapshot, jobVars, LeasedWith
  <2>5. inflight' = inflight \cup {g}
    BY <2>1, <2>2
  <2> QED
    BY <1>1, <2>3, <2>4, <2>5 DEF ReadIsCurrent
<1> QED
  BY <1>2, <1>3, OnlyReadsAdd

LEMMA BudgetKept ==
  ASSUME QueueTypeOK, TokenOfLease, ReadIsCurrent, BudgetRespected, Kinds
  PROVE  BudgetRespected'
<1>0. Flags /\ JobTypes /\ OrderTypes /\ HandlerTypes
  BY Parts
<1> DEFINE Within(j) == /\ status[j] = "pending" => attempts[j] < maxAttempts[j]
                        /\ status[j] = "leased" => attempts[j] >= 1 /\ attempts[j] <= maxAttempts[j]
<1>W. /\ BudgetRespected <=> \A j \in Jobs : Within(j)
      /\ (\A j \in Jobs : attempts'[j] \in Nat /\ maxAttempts'[j] \in Nat)
           => (BudgetRespected' <=> \A j \in Jobs : Within(j)')
  BY <1>0 DEF BudgetRespected, JobTypes
<1>N. \A j \in Jobs : attempts'[j] \in Nat /\ maxAttempts'[j] \in Nat
  BY <1>0, JobTypesKept DEF JobTypes
<1>P. \A j \in Jobs :
        attempts[j] \in Nat /\ maxAttempts[j] \in Nat /\ status[j] \in JobStatuses
  BY <1>0 DEF JobTypes
<1> SUFFICES ASSUME NEW k \in Jobs PROVE Within(k)'
  BY <1>W, <1>N
<1>K. Within(k)
  BY <1>W
<1> USE <1>0, <1>P, <1>K, HandlerFields DEF JobTypes, jobVars
<1>1. ASSUME NEW j \in Jobs, Reads(j) \/ LeaseExpires(j) \/ BackoffOver(j)
      PROVE  Within(k)'
  BY <1>1 DEF Reads, LeaseExpires, BackoffOver
<1>2. ASSUME NEW j \in Jobs, OwnerRefund(j) \/ AdminRefund(j) PROVE Within(k)'
  BY <1>2 DEF OwnerRefund, AdminRefund
<1>3. ASSUME NEW j \in Jobs, AdminRetry(j) PROVE Within(k)'
  BY <1>3, QueueAssumption DEF AdminRetry
<1>4. ASSUME NEW h \in inflight, NEW t \in Tokens, ClaimLease(h, t) PROVE Within(k)'
  <2>1. CASE k # h.job
    BY <1>4, <2>1 DEF ClaimLease
  <2>2. CASE k = h.job
    <3>1. /\ status[k] = h.status /\ token[k] = h.token
          /\ attempts'[k] = attempts[k] + 1 /\ maxAttempts'[k] = maxAttempts[k] /\ status'[k] = "leased"
          /\ ~Exhausted(h)
      BY <1>4, <2>2 DEF ClaimLease
    <3>2. attempts[k] < maxAttempts[k]
      <4>1. CASE h.status = "pending"
        BY <3>1, <4>1
      <4>2. CASE h.status = "leased"
        <5>1. attempts[k] = h.attempts /\ maxAttempts[k] = h.maxAttempts
          BY <2>2, <3>1, <4>2 DEF ReadIsCurrent, LeasedWith
        <5> QED
          BY <3>1, <4>2, <5>1 DEF Exhausted
      <4> QED
        BY <4>1, <4>2 DEF ReadIsCurrent
    <3> QED
      BY <3>1, <3>2
  <2> QED
    BY <2>1, <2>2
<1>5. ASSUME NEW h \in inflight, CommitComplete(h) PROVE Within(k)'
  BY <1>5 DEF CommitComplete
<1>6. ASSUME NEW h \in inflight, CommitFailRetry(h) PROVE Within(k)'
  <2>1. attempts[h.job] = h.attempts /\ maxAttempts[h.job] = h.maxAttempts
    BY <1>6 DEF CommitFailRetry, ReadIsCurrent
  <2> QED
    BY <1>6, <2>1 DEF CommitFailRetry
<1>7. ASSUME NEW h \in inflight, CommitRelease(h) PROVE Within(k)'
  <2>1. CASE k # h.job
    BY <1>7, <2>1 DEF CommitRelease
  <2>2. CASE k = h.job
    <3>1. attempts[k] = h.attempts /\ maxAttempts[k] = h.maxAttempts /\ status[k] = "leased"
      BY <1>7, <2>2 DEF CommitRelease, ReadIsCurrent, LeasedWith
    <3>2. attempts'[k] = attempts[k] - 1 /\ maxAttempts'[k] = maxAttempts[k] /\ status'[k] = "pending"
      BY <1>7, <2>2, <3>1 DEF CommitRelease
    <3> QED
      BY <3>1, <3>2
  <2> QED
    BY <2>1, <2>2
<1>8. ASSUME NEW h \in inflight, DeadLetterExpired(h) \/ CommitFailFinal(h)
               \/ Drops(h)
      PROVE  Within(k)'
  BY <1>8 DEF DeadLetterExpired, CommitFailFinal, DeadLetter, Drops
<1>9. ASSUME NEW a \in advances, AdvanceSkip(a) \/ AdvanceWrite(a)
               \/ AdvanceRead(a) \/ AbandonAdvance(a)
      PROVE  Within(k)'
  BY <1>9 DEF AdvanceSkip, AdvanceWrite, AdvanceRead, AbandonAdvance
<1>10. CASE UNCHANGED queueVars
  BY <1>10 DEF queueVars
<1> QED
  BY <1>1, <1>2, <1>3, <1>4, <1>5, <1>6, <1>7, <1>8, <1>9, <1>10 DEF Kinds

-----------------------------------------------------------------------------
(* Refunds. *)

LEMMA RefundIsPostedKept ==
  ASSUME QueueTypeOK, RefundIsPosted, Kinds
  PROVE  RefundIsPosted'
<1>0. Flags /\ JobTypes /\ OrderTypes /\ HandlerTypes
  BY Parts
<1> USE <1>0, HandlerFields DEF RefundIsPosted, OrderTypes, orderVars
<1>1. ASSUME NEW j \in Jobs, Reads(j) \/ LeaseExpires(j) \/ BackoffOver(j)
      PROVE  RefundIsPosted'
  BY <1>1 DEF Reads, LeaseExpires, BackoffOver
<1>2. ASSUME NEW j \in Jobs, OwnerRefund(j) \/ AdminRefund(j) PROVE RefundIsPosted'
  <2>1. \E payer \in {"owner", "admin"} : PostRefund(j, payer)
    BY <1>2 DEF OwnerRefund, AdminRefund
  <2>2. order' = [order EXCEPT ![j] = "refunded"]
    BY <1>2 DEF OwnerRefund, AdminRefund
  <2> QED
    BY <2>1, <2>2 DEF PostRefund
<1>3. ASSUME NEW j \in Jobs, NEW to \in {"failed", "queued", "delivered"},
             order' = Advanced(j, to),
             UNCHANGED <<refundedBy, credits>>
      PROVE  RefundIsPosted'
  BY <1>3 DEF Advanced
<1>4. ASSUME NEW j \in Jobs, AdminRetry(j) PROVE RefundIsPosted'
  BY <1>3, <1>4 DEF AdminRetry
<1>5. ASSUME NEW h \in inflight, \/ CommitComplete(h) \/ CommitFailRetry(h)
                                 \/ DeadLetterExpired(h) \/ CommitFailFinal(h)
      PROVE  RefundIsPosted'
  BY <1>3, <1>5 DEF CommitComplete, CommitFailRetry, DeadLetterExpired, CommitFailFinal,
     DeadLetter
<1>6. ASSUME NEW h \in inflight, (\E t \in Tokens : ClaimLease(h, t))
               \/ CommitRelease(h) \/ Drops(h)
      PROVE  RefundIsPosted'
  BY <1>6 DEF ClaimLease, CommitRelease, Drops
<1>7. ASSUME NEW a \in advances, AdvanceWrite(a) PROVE RefundIsPosted'
  BY <1>7 DEF AdvanceWrite
<1>8. ASSUME NEW a \in advances, AdvanceSkip(a) \/ AdvanceRead(a)
               \/ AbandonAdvance(a)
      PROVE  RefundIsPosted'
  BY <1>8 DEF AdvanceSkip, AdvanceRead, AbandonAdvance
<1>9. CASE UNCHANGED queueVars
  BY <1>9 DEF queueVars
<1> QED
  BY <1>1, <1>2, <1>4, <1>5, <1>6, <1>7, <1>8, <1>9 DEF Kinds

-----------------------------------------------------------------------------
(* Reports come after the claim's answer. *)

LEMMA ReportIsAnsweredKept ==
  ASSUME QueueTypeOK, TokenOfLease, ReadIsCurrent, ReportIsAnswered, Kinds
  PROVE  ReportIsAnswered'
<1>0. Flags /\ JobTypes /\ OrderTypes /\ HandlerTypes
  BY Parts
<1> DEFINE Answered(h) ==
             h.op \in Requests /\ LeasedWith(h.job, h.token) => answered[h.job]
<1>1. ASSUME NEW g \in inflight PROVE Answered(g)'
  <2> SUFFICES ASSUME g.op \in Requests, LeasedWith(g.job, g.token)'
               PROVE  answered'[g.job]
    OBVIOUS
  <2>1. answered[g.job] /\ g.job \in Jobs
    BY <1>0, ReadsStaySteady, HandlerFields DEF Steady, ReportIsAnswered
  <2> USE <1>0, <2>1, HandlerFields DEF Flags, jobVars
  <2>2. ASSUME NEW h \in inflight, NEW t \in Tokens, ClaimLease(h, t)
        PROVE  answered'[g.job]
    <3>1. t # g.token
      BY <2>2 DEF ClaimLease, OutstandingTokens
    <3>2. h.job # g.job
      BY <2>2, <3>1 DEF ClaimLease, LeasedWith, JobTypes
    <3> QED
      BY <2>2, <3>2 DEF ClaimLease
  <2>3. ASSUME NEW a \in advances, AdvanceSkip(a) \/ AdvanceWrite(a)
        PROVE  answered'[g.job]
    BY <2>3 DEF AdvanceSkip, AdvanceWrite, Answer
  <2>4. CASE UNCHANGED answered
    BY <2>4
  <2> QED
    BY <2>2, <2>3, <2>4, Zenon DEF Kinds, Reads, LeaseExpires, BackoffOver, OwnerRefund,
       AdminRefund, AdminRetry, DeadLetterExpired, CommitComplete, CommitFailRetry,
       CommitFailFinal, DeadLetter, CommitRelease, Drops, AdvanceRead, AbandonAdvance, jobVars,
       queueVars
<1>2. CASE inflight' \subseteq inflight
  BY <1>1, <1>2 DEF ReportIsAnswered
<1>3. ASSUME NEW j \in Jobs, Reads(j) PROVE ReportIsAnswered'
  <2>1. PICK op \in Requests \cup {"claim"} :
          /\ inflight' = inflight \cup {Snapshot(op, j, token[j])}
          /\ \/ op = "claim"
             \/ status[j] = "leased" => answered[j]
    BY <1>3 DEF Reads
  <2>2. PICK g : g = Snapshot(op, j, token[j])
    OBVIOUS
  <2>3. Answered(g)'
    BY <1>3, <2>1, <2>2 DEF Reads, Snapshot, jobVars, LeasedWith,
       Requests
  <2>4. inflight' = inflight \cup {g}
    BY <2>1, <2>2
  <2> QED
    BY <1>1, <2>3, <2>4 DEF ReportIsAnswered
<1> QED
  BY <1>2, <1>3, OnlyReadsAdd

-----------------------------------------------------------------------------
(* The order and its job, one job at a time. *)

Follows(j) ==
  /\ status[j] \in {"pending", "leased"} => order[j] \in {"queued", "delivering"}
  /\ status[j] = "completed" => order[j] \in {"delivered", "refunded"}
  /\ status[j] = "dead_letter" => order[j] \in {"failed", "refunded"}

Timely(a) ==
  /\ \A b \in advances : b.job = a.job => b = a
  /\ \/ /\ a.to = "delivering" /\ LeasedWith(a.job, a.token)
        /\ ~answered[a.job] /\ ~expired[a.job]
     \/ a.to = "queued" /\ status[a.job] = "pending"

Sound(j) ==
  /\ Follows(j)
  /\ status[j] = "leased" /\ answered[j] => order[j] = "delivering"
  /\ \A a \in advances : a.job = j => Timely(a)

LEMMA SoundJobs ==
  ASSUME QueueTypeOK
  PROVE  (\A j \in Jobs \ overtaken : Sound(j))
           <=> AdvanceIsTimely /\ AnsweredIsDelivering /\ OrderFollowsJob
<1>0. Flags /\ JobTypes /\ OrderTypes /\ HandlerTypes
  BY Parts
<1>1. OrderFollowsJob <=> \A j \in Jobs \ overtaken : Follows(j)
  <2>1. \A j \in Jobs : status[j] \in JobStatuses
    BY <1>0 DEF JobTypes
  <2> QED
    BY <2>1 DEF OrderFollowsJob, Follows, JobStatuses
<1>2. AdvanceIsTimely <=> \A a \in advances : a.job \notin overtaken => Timely(a)
  BY Zenon DEF AdvanceIsTimely, Timely
<1>3. \A a \in advances : a.job \in Jobs
  BY <1>0, HandlerFields
<1> QED
  BY <1>1, <1>2, <1>3, Zenon DEF Sound, AnsweredIsDelivering

\* A step that leaves j and the handlers of its order alone.
LEMMA Elsewhere ==
  ASSUME NEW j, Sound(j),
         status'[j] = status[j], token'[j] = token[j], expired'[j] = expired[j],
         answered'[j] = answered[j], order'[j] = order[j],
         \A a \in advances' : a.job = j => a \in advances
  PROVE  Sound(j)'
<1>1. Follows(j)' /\ (status'[j] = "leased" /\ answered'[j] => order'[j] = "delivering")
  BY DEF Sound, Follows
<1>2. ASSUME NEW a \in advances', a.job = j PROVE Timely(a)'
  <2>1. Timely(a)
    BY <1>2 DEF Sound
  <2> QED
    BY <1>2, <2>1 DEF Timely, LeasedWith
<1> QED
  BY <1>1, <1>2 DEF Sound

LEMMA OvertakenStays ==
  ASSUME Kinds
  PROVE  overtaken \subseteq overtaken'
<1>1. (\E j : Overtake(j)) \/ overtaken' = overtaken
  BY Zenon DEF Kinds, Reads, LeaseExpires, BackoffOver, OwnerRefund, AdminRefund, AdminRetry,
     ClaimLease, DeadLetterExpired, CommitComplete, CommitFailRetry, CommitFailFinal,
     DeadLetter, CommitRelease, Drops, AdvanceSkip, AdvanceRead, AdvanceWrite, AbandonAdvance,
     jobVars, queueVars
<1> QED
  BY <1>1 DEF Overtake

\* What a plugin's report finds, when the handlers of the order are in time.
LEMMA ReportFinds ==
  ASSUME QueueTypeOK, ReportIsAnswered, NEW h \in inflight, h.op \in Requests,
         LeasedWith(h.job, h.token), Sound(h.job)
  PROVE  order[h.job] = "delivering" /\ ~Advancing(h.job)
<1>1. answered[h.job] /\ status[h.job] = "leased"
  BY DEF ReportIsAnswered, LeasedWith
<1> QED
  BY <1>1 DEF Sound, Timely, Advancing

LEMMA SoundKept ==
  ASSUME QueueTypeOK, TokenOfLease, ReadIsCurrent, ReportIsAnswered, NEW j \in Jobs,
         j \notin overtaken',
         Sound(j), Kinds
  PROVE  Sound(j)'
<1>0. Flags /\ JobTypes /\ OrderTypes /\ HandlerTypes
  BY Parts
<1> DEFINE Same(i) == /\ status'[i] = status[i] /\ token'[i] = token[i]
                      /\ expired'[i] = expired[i]
                      /\ answered'[i] = answered[i] /\ order'[i] = order[i]
<1> USE <1>0, HandlerFields DEF JobTypes, OrderTypes, Flags
<1>A. ASSUME ~Advancing(j), advances' \subseteq advances, Follows(j)',
             status'[j] = "leased" /\ answered'[j] => order'[j] = "delivering"
      PROVE  Sound(j)'
  BY <1>A DEF Sound, Advancing
<1>1. ASSUME NEW i \in Jobs, Reads(i) \/ BackoffOver(i) PROVE Sound(j)'
  <2>1. Same(j) /\ advances' = advances
    BY <1>1 DEF Reads, BackoffOver, jobVars, orderVars, handlerVars
  <2> QED
    BY <2>1, Elsewhere
<1>2. ASSUME NEW i \in Jobs, LeaseExpires(i) PROVE Sound(j)'
  <2>1. advances' = advances /\ (i # j => Same(j))
    BY <1>2 DEF LeaseExpires, orderVars, handlerVars
  <2>2. CASE i = j
    <3>1. ~Advancing(j)
      BY <1>2, <2>2 DEF LeaseExpires, Overtake
    <3>2. UNCHANGED <<status, order, answered>>
      BY <1>2 DEF LeaseExpires, orderVars
    <3> QED
      BY <1>A, <2>1, <3>1, <3>2 DEF Sound, Follows
  <2> QED
    BY <2>1, <2>2, Elsewhere
<1>3. ASSUME NEW i \in Jobs, OwnerRefund(i) \/ AdminRefund(i) PROVE Sound(j)'
  <2>1. advances' = advances /\ (i # j => Same(j))
    BY <1>3 DEF OwnerRefund, AdminRefund, jobVars, handlerVars
  <2>2. CASE i = j
    <3>1. order[j] \in {"delivered", "failed"} /\ order'[j] = "refunded"
      BY <1>3, <2>2 DEF OwnerRefund, AdminRefund, IsRefundable
    <3>2. status[j] \in {"completed", "dead_letter"}
      BY <3>1 DEF Sound, Follows, JobStatuses
    <3>3. ~Advancing(j)
      BY <3>2 DEF Sound, Timely, LeasedWith, Advancing
    <3>4. status'[j] = status[j]
      BY <1>3, <2>2, <3>2 DEF OwnerRefund, AdminRefund, jobVars
    <3> QED
      BY <1>A, <2>1, <3>1, <3>2, <3>3, <3>4 DEF Follows
  <2> QED
    BY <2>1, <2>2, Elsewhere
<1>4. ASSUME NEW i \in Jobs, AdminRetry(i) PROVE Sound(j)'
  <2>1. advances' = advances /\ (i # j => Same(j))
    BY <1>4 DEF AdminRetry, Advanced, handlerVars
  <2>2. CASE i = j
    <3>1. status[j] = "dead_letter" /\ order[j] = "failed"
      BY <1>4, <2>2 DEF AdminRetry, Sound, Follows, BlocksRetry
    <3>2. status'[j] = "pending" /\ order'[j] = "queued"
      BY <1>4, <2>2, <3>1 DEF AdminRetry, Advanced, CanTransition,
         Transitions, OrderStatuses
    <3>3. ~Advancing(j)
      BY <3>1 DEF Sound, Timely, LeasedWith, Advancing
    <3> QED
      BY <1>A, <2>1, <3>2, <3>3 DEF Follows
  <2> QED
    BY <2>1, <2>2, Elsewhere
<1>5. ASSUME NEW h \in inflight, NEW t \in Tokens, ClaimLease(h, t) PROVE Sound(j)'
  <2> DEFINE new == [job |-> h.job, token |-> t, to |-> "delivering", stage |-> "read"]
  <2>1. advances' = advances \cup {new} /\ (h.job # j => Same(j))
    BY <1>5 DEF ClaimLease, orderVars
  <2>2. CASE h.job # j
    BY <2>1, <2>2, Elsewhere
  <2>3. CASE h.job = j
    <3>1. ~Advancing(j)
      BY <1>5, <2>3 DEF ClaimLease, Overtake
    <3>2. /\ status'[j] = "leased" /\ token'[j] = t /\ ~expired'[j] /\ ~answered'[j]
          /\ order'[j] = order[j] /\ status[j] = h.status
      BY <1>5, <2>3 DEF ClaimLease, orderVars
    <3>3. status[j] \in {"pending", "leased"}
      BY <3>2 DEF ReadIsCurrent
    <3>4. Follows(j)'
      BY <3>2, <3>3 DEF Sound, Follows
    <3>5. ASSUME NEW a \in advances', a.job = j PROVE Timely(a)'
      <4>1. \A b \in advances' : b.job = j => b = new
        BY <2>1, <3>1 DEF Advancing
      <4>2. a = new
        BY <3>5, <4>1
      <4>3. a.to = "delivering" /\ LeasedWith(a.job, a.token)' /\ ~answered'[a.job]
             /\ ~expired'[a.job]
        BY <2>3, <3>2, <4>2 DEF LeasedWith
      <4> QED
        BY <3>5, <4>1, <4>2, <4>3 DEF Timely
    <3> QED
      BY <3>2, <3>4, <3>5 DEF Sound
  <2> QED
    BY <2>2, <2>3
<1>6. ASSUME NEW h \in inflight, CommitComplete(h) \/ CommitFailRetry(h)
               \/ CommitFailFinal(h)
      PROVE  Sound(j)'
  <2>1. advances' = advances /\ (h.job # j => Same(j))
    BY <1>6 DEF CommitComplete, CommitFailRetry, CommitFailFinal,
       DeadLetter, Advanced
  <2>2. CASE h.job = j
    <3>1. h.op \in Requests /\ LeasedWith(h.job, h.token)
      BY <1>6 DEF CommitComplete, CommitFailRetry, CommitFailFinal,
         Requests
    <3>2. order[j] = "delivering" /\ ~Advancing(j)
      BY <2>2, <3>1, ReportFinds
    <3>3. \/ status'[j] = "completed" /\ order'[j] = "delivered"
          \/ status'[j] = "pending" /\ order'[j] = "queued"
          \/ status'[j] = "dead_letter" /\ order'[j] = "failed"
      BY <1>6, <2>2, <3>2 DEF CommitComplete, CommitFailRetry, CommitFailFinal, DeadLetter,
         Advanced, CanTransition, Transitions, OrderStatuses
    <3> QED
      BY <1>A, <2>1, <3>2, <3>3 DEF Follows
  <2> QED
    BY <2>1, <2>2, Elsewhere
<1>7. ASSUME NEW h \in inflight, DeadLetterExpired(h) PROVE Sound(j)'
  <2>1. advances' = advances /\ (h.job # j => Same(j))
    BY <1>7 DEF DeadLetterExpired, DeadLetter, Advanced
  <2>2. CASE h.job = j
    <3>1. status[j] = "leased" /\ expired[j]
      BY <1>7, <2>2 DEF DeadLetterExpired, LeasedWith
    <3>2. ~Advancing(j) /\ order[j] \in {"queued", "delivering"}
      BY <3>1 DEF Sound, Timely, Follows, Advancing
    <3>3. status'[j] = "dead_letter" /\ order'[j] = "failed"
      BY <1>7, <2>2, <3>2 DEF DeadLetterExpired, DeadLetter, Advanced, CanTransition,
         Transitions, OrderStatuses
    <3> QED
      BY <1>A, <2>1, <3>2, <3>3 DEF Follows
  <2> QED
    BY <2>1, <2>2, Elsewhere
<1>8. ASSUME NEW h \in inflight, CommitRelease(h) PROVE Sound(j)'
  <2> DEFINE new == [job |-> h.job, token |-> h.token, to |-> "queued", stage |-> "read"]
  <2>1. advances' = advances \cup {new} /\ (h.job # j => Same(j))
    BY <1>8 DEF CommitRelease, orderVars
  <2>2. CASE h.job # j
    BY <2>1, <2>2, Elsewhere
  <2>3. CASE h.job = j
    <3>1. h.op \in Requests /\ LeasedWith(h.job, h.token)
      BY <1>8 DEF CommitRelease, Requests
    <3>2. order[j] = "delivering" /\ ~Advancing(j)
      BY <2>3, <3>1, ReportFinds
    <3>3. status'[j] = "pending" /\ order'[j] = order[j]
      BY <1>8, <2>3 DEF CommitRelease, orderVars
    <3>4. ASSUME NEW a \in advances', a.job = j PROVE Timely(a)'
      <4>1. \A b \in advances' : b.job = j => b = new
        BY <2>1, <3>2 DEF Advancing
      <4>2. a = new
        BY <3>4, <4>1
      <4> QED
        BY <3>3, <3>4, <4>1, <4>2 DEF Timely
    <3> QED
      BY <3>2, <3>3, <3>4 DEF Sound, Follows
  <2> QED
    BY <2>2, <2>3
<1>9. ASSUME NEW h \in inflight, Drops(h) PROVE Sound(j)'
  <2>1. Same(j) /\ advances' = advances
    BY <1>9 DEF Drops, jobVars, orderVars
  <2> QED
    BY <2>1, Elsewhere
<1>10. ASSUME NEW a \in advances, AdvanceSkip(a) \/ AdvanceWrite(a) PROVE Sound(j)'
  <2>1. /\ advances' = advances \ {a} /\ (a.job # j => Same(j))
        /\ status' = status /\ token' = token
    BY <1>10 DEF AdvanceSkip, AdvanceWrite, Answer, orderVars
  <2>2. CASE a.job = j
    <3>1. Timely(a)
      BY <2>2 DEF Sound
    <3>2. \A b \in advances' : b.job # j
      BY <2>1, <2>2, <3>1 DEF Timely
    <3>3. answered'[j] = (answered[j] \/ (a.to = "delivering" /\ token[j] = a.token))
      BY <1>10, <2>2 DEF AdvanceSkip, AdvanceWrite, Answer
    <3>4. CASE a.to = "delivering"
      <4>1. status[j] = "leased" /\ order[j] \in {"queued", "delivering"}
        BY <2>2, <3>1, <3>4 DEF Timely, LeasedWith, Sound, Follows
      <4>2. order'[j] = "delivering"
        <5>1. CASE AdvanceSkip(a)
          BY <2>2, <3>4, <4>1, <5>1 DEF AdvanceSkip, CanTransition, Transitions, OrderStatuses,
             orderVars
        <5>2. CASE AdvanceWrite(a)
          BY <2>2, <3>4, <5>2 DEF AdvanceWrite
        <5> QED
          BY <1>10, <5>1, <5>2
      <4> QED
        BY <2>1, <3>2, <4>1, <4>2 DEF Sound, Follows
    <3>5. CASE a.to = "queued"
      <4>1. status[j] = "pending" /\ order[j] \in {"queued", "delivering"}
        BY <2>2, <3>1, <3>5 DEF Timely, Sound, Follows
      <4>2. order'[j] \in {"queued", "delivering"}
        BY <1>10, <2>2, <3>5, <4>1 DEF AdvanceSkip, AdvanceWrite, orderVars
      <4> QED
        BY <2>1, <3>2, <4>1, <4>2 DEF Sound, Follows
    <3> QED
      BY <3>4, <3>5
  <2> QED
    BY <2>1, <2>2, Elsewhere
<1>11. ASSUME NEW a \in advances, AdvanceRead(a) PROVE Sound(j)'
  <2> DEFINE new == [a EXCEPT !.stage = "write"]
  <2>1. Same(j) /\ advances' = (advances \ {a}) \cup {new}
    BY <1>11 DEF AdvanceRead, jobVars, orderVars
  <2>2. a \in Advance
    BY DEF HandlerTypes
  <2>3. new.job = a.job /\ new.to = a.to /\ new.token = a.token
    BY <2>2 DEF Advance
  <2>4. CASE a.job # j
    BY <2>1, <2>3, <2>4, Elsewhere
  <2>5. CASE a.job = j
    <3>1. Timely(a)
      BY <2>5 DEF Sound
    <3>2. \A b \in advances' : b.job = j => b = new
      BY <2>1, <2>5, <3>1 DEF Timely
    <3>3. UNCHANGED <<status, token, expired, answered, order>>
      BY <1>11 DEF AdvanceRead, jobVars, orderVars
    <3>4. ASSUME NEW b \in advances', b.job = j PROVE Timely(b)'
      <4>1. b = new
        BY <3>2, <3>4
      <4> HIDE DEF new
      <4> QED
        BY <2>3, <2>5, <3>1, <3>2, <3>3, <3>4, <4>1 DEF Timely, LeasedWith
    <3> QED
      BY <3>3, <3>4 DEF Sound, Follows
  <2> QED
    BY <2>4, <2>5
<1>12. ASSUME NEW a \in advances, AbandonAdvance(a) PROVE Sound(j)'
  <2>1. Same(j) /\ advances' = advances \ {a}
    BY <1>12 DEF AbandonAdvance, jobVars, orderVars
  <2> QED
    BY <2>1, Elsewhere
<1>13. CASE UNCHANGED queueVars
  <2>1. Same(j) /\ advances' = advances
    BY <1>13 DEF queueVars, jobVars, orderVars, handlerVars
  <2> QED
    BY <2>1, Elsewhere
<1> QED
  BY <1>1, <1>2, <1>3, <1>4, <1>5, <1>6, <1>7, <1>8, <1>9, <1>10, <1>11, <1>12, <1>13 DEF Kinds

-----------------------------------------------------------------------------
(* The theorems. *)

LEMMA QueueStarts == QueueInit => QueueInv
<1> SUFFICES ASSUME QueueInit PROVE QueueInv
  OBVIOUS
<1> USE DEF QueueInit
<1>1. QueueTypeOK
  BY QueueAssumption
     DEF QueueTypeOK, JobStatuses, LeaseTokens, OrderStatuses, Payers
<1>2. TokenOfLease /\ ReadIsCurrent /\ ReportIsAnswered /\ RefundIsPosted
  BY DEF TokenOfLease, ReadIsCurrent, ReportIsAnswered, RefundIsPosted
<1>3. AdvanceIsTimely /\ AnsweredIsDelivering
  BY DEF AdvanceIsTimely, AnsweredIsDelivering
<1>4. BudgetRespected /\ OrderFollowsJob
  BY QueueAssumption DEF BudgetRespected, OrderFollowsJob
<1> QED
  BY <1>1, <1>2, <1>3, <1>4 DEF QueueInv

LEMMA QueueGoes == QueueInv /\ [QueueNext]_queueVars => QueueInv'
<1> SUFFICES ASSUME QueueInv, [QueueNext]_queueVars PROVE QueueInv'
  OBVIOUS
<1>1. Kinds
  BY EveryStep
<1>2. QueueTypeOK /\ TokenOfLease /\ ReadIsCurrent /\ ReportIsAnswered /\ RefundIsPosted
        /\ BudgetRespected
  BY DEF QueueInv
<1>3. QueueTypeOK'
  BY <1>1, <1>2, Parts, FlagsKept, JobTypesKept, OrderTypesKept, HandlerTypesKept
     DEF QueueTypeOK, Flags, JobTypes, OrderTypes, HandlerTypes
<1>4. TokenOfLease' /\ ReadIsCurrent' /\ ReportIsAnswered' /\ RefundIsPosted' /\ BudgetRespected'
  BY <1>1, <1>2, TokenOfLeaseKept, ReadIsCurrentKept, ReportIsAnsweredKept, RefundIsPostedKept,
     BudgetKept
<1>5. \A j \in Jobs \ overtaken : Sound(j)
  BY SoundJobs DEF QueueInv
<1>6. \A j \in Jobs \ overtaken' : Sound(j)'
  BY <1>1, <1>2, <1>5, SoundKept, OvertakenStays
<1>7. (\A j \in Jobs \ overtaken : Sound(j))'
        <=> (AdvanceIsTimely /\ AnsweredIsDelivering /\ OrderFollowsJob)'
  BY <1>3, SoundJobs, PTL
<1> QED
  BY <1>3, <1>4, <1>6, <1>7 DEF QueueInv

\* The invariant: the lease and the token go together, what a handler has read
\* holds while its lease does, and an order nobody was overtaken on is in the
\* hands of one handler at most, whose job is where it left it.
THEOREM QueueInvariant == QueueSpec => []QueueInv
  BY QueueStarts, QueueGoes, PTL DEF QueueSpec

\* The rows of the queue and the handlers at work on them have their types.
THEOREM QueueTypes == QueueSpec => []QueueTypeOK
<1>1. QueueInv => QueueTypeOK
  BY DEF QueueInv
<1> QED
  BY <1>1, QueueInvariant, PTL

\* Claims, releases, expired leases and retries never run a job more often than
\* its budget allows.
THEOREM QueueBudget == QueueSpec => []BudgetRespected
<1>1. QueueInv => BudgetRespected
  BY DEF QueueInv
<1> QED
  BY <1>1, QueueInvariant, PTL

\* Without an overtaken handler the order says what its job does.
THEOREM QueueOrderFollows == QueueSpec => []OrderFollowsJob
<1>1. QueueInv => OrderFollowsJob
  BY DEF QueueInv
<1> QED
  BY <1>1, QueueInvariant, PTL

\* The owner's and the operator's refunds credit the buyer once between them.
THEOREM QueueRefundedOnce == QueueSpec => []RefundedOnce
<1>1. QueueInv => RefundedOnce
  BY DEF QueueInv, RefundIsPosted, RefundedOnce
<1> QED
  BY <1>1, QueueInvariant, PTL

\* A refunded order has a settled job and no handler at work on it.
LEMMA RefundedAtRest ==
  ASSUME QueueInv, NEW j \in Jobs \ overtaken, order[j] = "refunded"
  PROVE  status[j] \in {"completed", "dead_letter"} /\ ~Advancing(j)
<1>1. Sound(j) /\ status[j] \in JobStatuses
  BY SoundJobs DEF QueueInv, QueueTypeOK
<1> QED
  BY <1>1 DEF Sound, Follows, Timely, LeasedWith, Advancing, JobStatuses

LEMMA RefundedStep ==
  ASSUME QueueInv, [QueueNext]_queueVars, NEW j \in Jobs \ overtaken, order[j] = "refunded"
  PROVE  order'[j] = "refunded" /\ status'[j] = status[j]
<1>0. status[j] \in {"completed", "dead_letter"} /\ ~Advancing(j)
  BY RefundedAtRest
<1>K. Kinds
  BY EveryStep
<1>T. Flags /\ JobTypes /\ OrderTypes /\ HandlerTypes /\ ReadIsCurrent
  BY Parts DEF QueueInv
<1> USE <1>0, <1>T, HandlerFields DEF JobTypes, OrderTypes
<1> DEFINE Goal == order'[j] = "refunded" /\ status'[j] = status[j]
<1>1. ASSUME NEW i \in Jobs, Reads(i) \/ LeaseExpires(i) \/ BackoffOver(i)
      PROVE  Goal
  BY <1>1 DEF Reads, LeaseExpires, BackoffOver, jobVars, orderVars
<1>2. ASSUME NEW i \in Jobs, OwnerRefund(i) \/ AdminRefund(i) PROVE Goal
  <2>1. i # j
    BY <1>2 DEF OwnerRefund, AdminRefund, IsRefundable
  <2> QED
    BY <1>2, <2>1 DEF OwnerRefund, AdminRefund, jobVars
<1>3. ASSUME NEW i \in Jobs, AdminRetry(i) PROVE Goal
  <2>1. i # j
    BY <1>3 DEF AdminRetry, BlocksRetry
  <2> QED
    BY <1>3, <2>1 DEF AdminRetry, Advanced
<1>4. ASSUME NEW h \in inflight, NEW t \in Tokens, ClaimLease(h, t) PROVE Goal
  <2>1. h.job # j
    BY <1>4 DEF ClaimLease, ReadIsCurrent
  <2> QED
    BY <1>4, <2>1 DEF ClaimLease, orderVars
<1>5. ASSUME NEW h \in inflight,
             \/ CommitComplete(h) \/ CommitFailRetry(h) \/ CommitFailFinal(h)
             \/ CommitRelease(h) \/ DeadLetterExpired(h)
      PROVE  Goal
  <2>1. LeasedWith(h.job, h.token)
    BY <1>5 DEF CommitComplete, CommitFailRetry, CommitFailFinal, CommitRelease,
       DeadLetterExpired
  <2>2. h.job # j
    BY <2>1 DEF LeasedWith
  <2> QED
    BY <1>5, <2>2 DEF CommitComplete, CommitFailRetry, CommitFailFinal, CommitRelease,
       DeadLetterExpired, DeadLetter, Advanced, orderVars
<1>6. ASSUME NEW h \in inflight, Drops(h) PROVE Goal
  BY <1>6 DEF Drops, jobVars, orderVars
<1>7. ASSUME NEW a \in advances,
             AdvanceSkip(a) \/ AdvanceRead(a) \/ AdvanceWrite(a)
               \/ AbandonAdvance(a)
      PROVE  Goal
  <2>1. a.job # j
    BY DEF Advancing
  <2> QED
    BY <1>7, <2>1 DEF AdvanceSkip, AdvanceRead, AdvanceWrite, AbandonAdvance, jobVars,
       orderVars
<1>8. CASE UNCHANGED queueVars
  BY <1>8 DEF queueVars, jobVars, orderVars
<1> QED
  BY <1>K, <1>1, <1>2, <1>3, <1>4, <1>5, <1>6, <1>7, <1>8 DEF Kinds

\* Without an overtaken handler no claim, report, retry or late order update
\* touches a refunded order or its job again.
THEOREM QueueRefundedStaysOut == QueueSpec => RefundedStaysOut
<1> DEFINE Stays == \A j \in Jobs \ overtaken : order[j] = "refunded" =>
                      order'[j] = "refunded" /\ status'[j] = status[j]
<1>1. QueueInv /\ [QueueNext]_queueVars => [Stays]_queueVars
  BY RefundedStep
<1> QED
  BY <1>1, QueueInvariant, PTL DEF QueueSpec, RefundedStaysOut

-----------------------------------------------------------------------------
(* Backend, network and plugin together. *)

Reply == [job : Jobs, token : Tokens]

\* Whatever carries a lease token through the network or the plugin was answered
\* by the claim that took the lease.
Heard ==
  /\ replies \subseteq Reply
  /\ \A m \in replies \cup current \cup outbox :
       /\ m.job \in Jobs /\ m.token \in Tokens
       /\ LeasedWith(m.job, m.token) => answered[m.job]

\* A completion is reported only for what the game holds in full.
CompleteIsGiven ==
  \A m \in outbox \cup inflight : m.op = "complete" => full[m.job] = 1

AdvanceHasToken == \A a \in advances : a.token \in Tokens

OvertakenIsDelayed == overtaken \subseteq delayed

\* A claim that is still about the current lease found it expired.
ClaimsFindExpired ==
  \A h \in inflight :
    h.op = "claim" /\ LeasedWith(h.job, h.token) => expired[h.job]

\* All that carries a lease of j on: the claim's handler, its answer, the game
\* thread's work, a request and the handler of a report.
Hands(j) ==
  {a \in advances : a.job = j /\ a.to = "delivering"}
    \cup {d \in replies \cup current \cup outbox : d.job = j}
    \cup {h \in inflight : h.job = j /\ h.op # "claim"}

\* It is one thing at a time, and the lease is in force.
InOneHand(j) ==
  /\ \A x \in Hands(j) : LeasedWith(j, x.token) /\ ~expired[j]
  /\ \A x, y \in Hands(j) : x = y

OneHand == \A j \in Jobs \ delayed : InOneHand(j)

\* A failure is reported only for what the game holds nothing of.
FailIsHonest ==
  \A m \in outbox \cup inflight :
    m.op = "fail" /\ m.job \notin delayed => full[m.job] = 0 /\ partly[m.job] = 0

\* Once paid back, an order is refunded for good.
RefundIsFinal ==
  \A j \in Jobs \ overtaken : refundedBy[j] # "none" => order[j] = "refunded"

SystemInv ==
  /\ PluginInv /\ QueueInv
  /\ Heard /\ AdvanceHasToken /\ CompleteIsGiven /\ DeliveredMeansGiven
  /\ OvertakenIsDelayed /\ ClaimsFindExpired /\ OneHand /\ FailIsHonest /\ RefundIsFinal

\* Every step of the system is a step of the plugin or leaves it alone ...
LEMMA StepOfPlugin ==
  ASSUME Heard, [Next]_vars
  PROVE  [PluginNext]_pluginVars
<1> USE DEF pluginVars, pluginVars
<1>1. ASSUME NEW d \in replies, TakeUp(d) PROVE PluginNext
  BY <1>1 DEF TakeUp, Heard, PluginNext
<1>2. ASSUME NEW w \in current, WorkOn(w) \/ Partial(w) \/ JournalFault(w) PROVE PluginNext
  BY <1>2, Zenon DEF WorkOn, Partial, JournalFault, PluginNext
<1>3. CASE ServerCrash
  BY <1>3 DEF ServerCrash, PluginNext
<1>4. ASSUME NEW m \in outbox, Arrive(m) \/ LoseRequest(m) PROVE PluginNext
  BY <1>4 DEF Arrive, LoseRequest, PluginNext
<1>5. ASSUME NEW j \in Jobs, Poll(j) \/ Expire(j) \/ BackoffEnds(j) \/ PeopleAct(j)
      PROVE  UNCHANGED pluginVars
  BY <1>5 DEF Poll, Expire, BackoffEnds, PeopleAct, Backend
<1>6. ASSUME NEW h \in inflight, Lease(h) \/ FinishHandler(h) PROVE UNCHANGED pluginVars
  BY <1>6 DEF Lease, FinishHandler, Backend
<1>7. ASSUME NEW a \in advances, AdvanceOrder(a) PROVE UNCHANGED pluginVars
  BY <1>7 DEF AdvanceOrder, Backend
<1>8. ASSUME NEW d \in replies, LoseReply(d) PROVE UNCHANGED pluginVars
  BY <1>8 DEF LoseReply
<1>9. CASE Abandon
  BY <1>9 DEF Abandon
<1>10. CASE UNCHANGED vars
  BY <1>10 DEF vars
<1> QED
  BY <1>1, <1>2, <1>3, <1>4, <1>5, <1>6, <1>7, <1>8, <1>9, <1>10, Zenon DEF Next

\* ... and likewise for the queue: a request brings a token some claim answered.
LEMMA StepOfQueue ==
  ASSUME Heard, PluginTypeOK, [Next]_vars
  PROVE  [QueueNext]_queueVars
<1> USE DEF queueVars, queueVars, jobVars, orderVars, handlerVars
<1>1. ASSUME NEW j \in Jobs, Poll(j) \/ Expire(j) \/ BackoffEnds(j) \/ PeopleAct(j)
      PROVE  QueueNext
  BY <1>1, Zenon DEF Poll, Expire, BackoffEnds, PeopleAct, QueueNext, Clock
<1>2. ASSUME NEW h \in inflight, Lease(h) \/ FinishHandler(h) PROVE QueueNext
  BY <1>2, Zenon DEF Lease, FinishHandler, QueueNext
<1>3. ASSUME NEW a \in advances, AdvanceOrder(a) PROVE QueueNext
  BY <1>3, Zenon DEF AdvanceOrder, QueueNext, Advancement
<1>4. ASSUME NEW m \in outbox, Arrive(m) PROVE [QueueNext]_queueVars
  <2>1. m.job \in Jobs /\ m.token \in Tokens
        /\ (LeasedWith(m.job, m.token) => answered[m.job])
    BY DEF Heard
  <2>2. m.op \in Requests
    BY DEF PluginTypeOK, Request, Requests, Requests
  <2>3. CASE ReadRequest(m.op, m.job, m.token)
    <3>1. Client(m.job)
      BY <2>1, <2>2, <2>3, Zenon DEF Client
    <3> QED
      BY <2>1, <3>1, Zenon DEF QueueNext
  <2>4. CASE UNCHANGED queueVars
    BY <2>4
  <2> QED
    BY <1>4, <2>3, <2>4, Zenon DEF Arrive
<1>5. CASE Abandon
  BY <1>5, Zenon DEF Abandon, QueueNext
<1>6. ASSUME NEW m \in outbox, LoseRequest(m) PROVE UNCHANGED queueVars
  BY <1>6 DEF LoseRequest
<1>7. ASSUME NEW d \in replies, TakeUp(d) \/ LoseReply(d) PROVE UNCHANGED queueVars
  BY <1>7 DEF TakeUp, LoseReply
<1>8. ASSUME NEW w \in current, WorkOn(w) \/ Partial(w) \/ JournalFault(w)
      PROVE  UNCHANGED queueVars
  BY <1>8 DEF WorkOn, Partial, JournalFault, Game
<1>9. CASE ServerCrash
  BY <1>9 DEF ServerCrash
<1>10. CASE UNCHANGED vars
  BY <1>10 DEF vars
<1> QED
  BY <1>1, <1>2, <1>3, <1>4, <1>5, <1>6, <1>7, <1>8, <1>9, <1>10, Zenon DEF Next

-----------------------------------------------------------------------------
(* What single steps do to the game, to messages and to leases. *)

\* The game is touched only by the delivery the game thread is in.
LEMMA GameTouched ==
  ASSUME PluginTypeOK, [PluginNext]_pluginVars, NEW j \in Jobs,
         full'[j] # full[j] \/ partly'[j] # partly[j]
  PROVE  \E w \in current : w.job = j
<1>1. PICK w \in current : GiveAll(w) \/ GivePart(w)
  BY Zenon DEF PluginNext, pluginVars, Take, Crash, Offline, Step, BeginKnown, WriteStep,
     BeginFresh, Mark, Record, GiveNothing
<1> QED
  BY <1>1 DEF PluginTypeOK, GiveAll, GivePart

\* What is in the game in full stays there.
LEMMA FullStays ==
  ASSUME PluginInv, [PluginNext]_pluginVars, NEW j \in Jobs, full[j] = 1
  PROVE  full'[j] = 1
<1>1. PluginInv'
  BY PluginGoes
<1>2. CASE full'[j] # full[j]
  <2>1. PICK w \in current : GiveAll(w)
    BY <1>2, Zenon DEF PluginNext, pluginVars, Take, Crash, Offline, Step, GivePart,
       BeginKnown, WriteStep, BeginFresh, Mark, Record, GiveNothing
  <2> QED
    BY <1>1, <1>2, <2>1 DEF PluginInv, PluginTypeOK, GiveAll, JournalLeads
<1> QED
  BY <1>2

\* What the system keeps apart is different things, whatever the fields say.
LEMMA Apart ==
  /\ Handler \cap (Advance \cup Reply \cup Work \cup Request) = {}
  /\ Advance \cap (Reply \cup Work \cup Request) = {}
  /\ Reply \cap (Work \cup Request) = {}
  /\ Work \cap Request = {}
  BY DEF Handler, Advance, Reply, Work, Request

\* The game thread leaves w as one thing under the same job and token.
LEMMA ThreadMoves ==
  ASSUME PluginTypeOK, NEW w \in current,
         WorkOn(w) \/ Partial(w) \/ JournalFault(w)
  PROVE  /\ UNCHANGED <<queueVars, replies, delayed>>
         /\ \E y : /\ y.job = w.job /\ y.token = w.token
                   /\ current' \cup outbox' \subseteq outbox \cup {y}
<1>1. UNCHANGED <<queueVars, replies, delayed>>
  BY DEF WorkOn, Partial, JournalFault, Game, NoFault, Fault
<1>2. w \in Work
  BY DEF PluginTypeOK
<1> DEFINE Left == \E y : /\ y.job = w.job /\ y.token = w.token
                          /\ current' \cup outbox' \subseteq outbox \cup {y}
<1>3. ASSUME NEW op, Send(w, op) PROVE Left
  <2> WITNESS [op |-> op, job |-> w.job, token |-> w.token]
  <2> QED
    BY <1>3 DEF Send
<1>4. ASSUME NEW stage, GoTo(w, stage) PROVE Left
  <2> WITNESS [w EXCEPT !.stage = stage]
  <2> QED
    BY <1>2, <1>4 DEF GoTo, Work
<1>5. ASSUME current' = {}, outbox' = outbox PROVE Left
  <2> WITNESS w
  <2> QED
    BY <1>5
<1>6. ASSUME Step(w) \/ Offline(w) \/ GivePart(w) PROVE Left
  BY <1>3, <1>4, <1>6, Zenon
     DEF Step, Offline, GivePart, BeginKnown, GiveAll
<1>7. ASSUME NEW ok \in BOOLEAN, WriteStep(w, ok) PROVE Left
  <2>1. CASE BeginFresh(w, ok) \/ Mark(w, ok)
    BY <1>3, <1>4, <2>1, Zenon DEF BeginFresh, Mark
  <2>2. CASE Record(w, ok)
    BY <1>3, <1>5, <2>2, Zenon DEF Record
  <2>3. ASSUME NEW op \in {"release", "fail"}, GiveNothing(w, op, ok) PROVE Left
    BY <1>3, <2>3, Zenon DEF GiveNothing
  <2> QED
    BY <1>7, <2>1, <2>2, <2>3, Zenon DEF WriteStep
<1> QED
  BY <1>1, <1>6, <1>7, Zenon DEF WorkOn, Partial, JournalFault

\* A lease in force goes on, or has just been taken with a token nobody knows.
LEMMA LeaseGoesOn ==
  ASSUME QueueTypeOK, [Next]_vars, NEW j \in Jobs, NEW t, LeasedWith(j, t)'
  PROVE  \/ /\ LeasedWith(j, t)
            /\ answered[j] => answered'[j]
            /\ expired[j] => expired'[j]
         \/ t \notin KnownTokens /\ t \notin OutstandingTokens
<1> USE Parts, HandlerFields DEF Flags, JobTypes, OrderTypes, LeasedWith
<1> DEFINE On == LeasedWith(j, t) /\ (answered[j] => answered'[j])
                   /\ (expired[j] => expired'[j])
<1> HIDE DEF On
<1>0. ASSUME UNCHANGED queueVars PROVE On
  BY <1>0 DEF On, queueVars, jobVars, orderVars, handlerVars
<1>1. ASSUME NEW i \in Jobs, Poll(i) \/ Expire(i) \/ BackoffEnds(i) PROVE On
  BY <1>1 DEF On, Poll, Expire, BackoffEnds, ClaimRead, LeaseExpires,
     BackoffOver, jobVars
<1>2. ASSUME NEW i \in Jobs, PeopleAct(i) PROVE On
  BY <1>2 DEF On, PeopleAct, People, OwnerRefund, AdminRefund, AdminRetry,
     jobVars
<1>3. ASSUME NEW h \in inflight, FinishHandler(h) PROVE On
  BY <1>3 DEF On, FinishHandler, Finish, DeadLetterExpired, DeadLetter, CommitComplete,
     CommitFailRetry, CommitFailFinal, CommitRelease, LoseRace, jobVars
<1>4. ASSUME NEW a \in advances, AdvanceOrder(a) PROVE On
  BY <1>4 DEF On, AdvanceOrder, AdvanceRead, AdvanceSkip, AdvanceWrite,
     Answer, jobVars
<1>5. ASSUME NEW m \in outbox, Arrive(m) PROVE On
  BY <1>0, <1>5 DEF On, Arrive, ReadRequest, jobVars
<1>6. ASSUME Abandon PROVE On
  BY <1>6 DEF On, Abandon, AbandonUpdate, AbandonAdvance, jobVars
<1>7. ASSUME NEW h \in inflight, Lease(h)
      PROVE  On \/ (t \notin KnownTokens /\ t \notin OutstandingTokens)
  <2>1. PICK s \in Tokens \ KnownTokens : ClaimLease(h, s)
    BY <1>7 DEF Lease
  <2>2. CASE h.job = j
    BY <2>1, <2>2 DEF ClaimLease
  <2>3. CASE h.job # j
    BY <2>1, <2>3 DEF On, ClaimLease
  <2> QED
    BY <2>2, <2>3
<1>8. ASSUME NEW m \in outbox, LoseRequest(m) PROVE On
  BY <1>0, <1>8 DEF LoseRequest
<1>9. ASSUME NEW d \in replies, TakeUp(d) \/ LoseReply(d) PROVE On
  BY <1>0, <1>9 DEF TakeUp, LoseReply
<1>10. ASSUME NEW w \in current, WorkOn(w) \/ Partial(w) \/ JournalFault(w) PROVE On
  BY <1>0, <1>10 DEF WorkOn, Partial, JournalFault, Game
<1>11. ASSUME ServerCrash PROVE On
  BY <1>0, <1>11 DEF ServerCrash
<1>12. ASSUME UNCHANGED vars PROVE On
  BY <1>0, <1>12 DEF vars
<1> QED
  BY <1>1, <1>2, <1>3, <1>4, <1>5, <1>6, <1>7, <1>8, <1>9, <1>10, <1>11, <1>12, Zenon
     DEF Next, On

-----------------------------------------------------------------------------
(* One hand at a time. *)

\* The row of the job that a hand is about does not change.
SameLease(j) ==
  status'[j] = status[j] /\ token'[j] = token[j] /\ expired'[j] = expired[j]

LEMMA HandStays ==
  ASSUME NEW j, InOneHand(j), Hands(j)' \subseteq Hands(j),
         SameLease(j) \/ Hands(j)' = {}
  PROVE  InOneHand(j)'
  BY DEF InOneHand, SameLease, LeasedWith

LEMMA HandPasses ==
  ASSUME NEW j, InOneHand(j), SameLease(j), NEW x \in Hands(j), NEW y,
         y.token = x.token, Hands(j)' \subseteq (Hands(j) \ {x}) \cup {y}
  PROVE  InOneHand(j)'
<1>1. Hands(j)' \subseteq {y}
  BY DEF InOneHand
<1> QED
  BY <1>1 DEF InOneHand, SameLease, LeasedWith

\* A job without a lease in force is in nobody's hands.
LEMMA NoHand ==
  ASSUME NEW j, InOneHand(j), status[j] # "leased" \/ expired[j]
  PROVE  Hands(j) = {}
  BY DEF InOneHand, LeasedWith

\* The lease of a job that nobody holds in his hands may run out, or be taken.
LEMMA ExpiryFindsNoHand ==
  ASSUME NEW j \in Jobs, InOneHand(j), ~UnderWay(j)
  PROVE  Hands(j) = {}
<1> SUFFICES ASSUME NEW x \in Hands(j) PROVE FALSE
  OBVIOUS
<1>1. x.token = token[j]
  BY DEF InOneHand, LeasedWith
<1> QED
  BY <1>1 DEF Hands, UnderWay, Advancing

LEMMA ClaimFindsNoHand ==
  ASSUME QueueInv, ClaimsFindExpired, NEW h \in inflight, InOneHand(h.job), NEW t,
         ClaimLease(h, t)
  PROVE  Hands(h.job) = {}
<1>1. h.op = "claim" /\ status[h.job] = h.status /\ token[h.job] = h.token
  BY DEF ClaimLease
<1>2. h.status = "leased" \/ h.status = "pending"
  BY DEF QueueInv, ReadIsCurrent
<1>3. h.status = "leased" => expired[h.job]
  BY <1>1 DEF ClaimsFindExpired, LeasedWith
<1> QED
  BY <1>1, <1>2, <1>3, NoHand

LEMMA OneHandBackend ==
  ASSUME QueueInv, PluginTypeOK, Heard, ClaimsFindExpired, OneHand, NEW j \in Jobs \ delayed',
         \/ \E i \in Jobs : Poll(i) \/ Expire(i) \/ BackoffEnds(i) \/ PeopleAct(i)
         \/ \E h \in inflight : Lease(h) \/ FinishHandler(h)
         \/ \E a \in advances : AdvanceOrder(a)
  PROVE  InOneHand(j)'
<1>0. Flags /\ JobTypes /\ OrderTypes /\ HandlerTypes
  BY Parts DEF QueueInv
<1> USE <1>0, HandlerFields DEF Flags, JobTypes, OrderTypes
<1>1. delayed \subseteq delayed'
  BY Zenon DEF Poll, Expire, BackoffEnds, PeopleAct, Lease, FinishHandler, AdvanceOrder,
     Backend, NoFault, Delaying
<1>A. /\ \A h \in inflight : h \notin advances \cup replies \cup current \cup outbox
      /\ \A a \in advances : a \notin replies \cup current \cup outbox \cup inflight
  BY Apart DEF HandlerTypes, Heard, PluginTypeOK
<1>2. InOneHand(j)
  BY <1>1 DEF OneHand
<1>3. ASSUME NEW i \in Jobs, Poll(i) PROVE InOneHand(j)'
  <2>1. SameLease(j) /\ Hands(j)' \subseteq Hands(j)
    BY <1>3 DEF Poll, Backend, pluginVars, ClaimRead, Snapshot, jobVars,
       SameLease, Hands
  <2> QED
    BY <1>2, <2>1, HandStays
<1>4. ASSUME NEW i \in Jobs, Expire(i) PROVE InOneHand(j)'
  <2>1. Hands(j)' = Hands(j)
    BY <1>4 DEF Expire, pluginVars, LeaseExpires, handlerVars, Hands
  <2>2. CASE i = j
    <3>1. ~UnderWay(j)
      BY <1>4, <2>2 DEF Expire, Delaying
    <3> QED
      BY <1>2, <2>1, <3>1, ExpiryFindsNoHand, HandStays
  <2>3. CASE i # j
    <3>1. SameLease(j)
      BY <1>4, <2>3 DEF Expire, LeaseExpires, SameLease
    <3> QED
      BY <1>2, <2>1, <3>1, HandStays
  <2> QED
    BY <2>2, <2>3
<1>5. ASSUME NEW i \in Jobs, BackoffEnds(i) PROVE InOneHand(j)'
  <2>1. SameLease(j) /\ Hands(j)' = Hands(j)
    BY <1>5 DEF BackoffEnds, Backend, pluginVars, BackoffOver, handlerVars,
       SameLease, Hands
  <2> QED
    BY <1>2, <2>1, HandStays
<1>6. ASSUME NEW i \in Jobs, PeopleAct(i) PROVE InOneHand(j)'
  <2>1. Hands(j)' = Hands(j)
    BY <1>6 DEF PeopleAct, Backend, pluginVars, People, OwnerRefund, AdminRefund, AdminRetry,
       handlerVars, Hands
  <2>2. SameLease(j) \/ status[j] # "leased"
    BY <1>6 DEF PeopleAct, People, OwnerRefund, AdminRefund, AdminRetry,
       jobVars, SameLease
  <2> QED
    BY <1>2, <2>1, <2>2, NoHand, HandStays
<1>7. ASSUME NEW h \in inflight, Lease(h) PROVE InOneHand(j)'
  <2>1. PICK t \in Tokens \ KnownTokens : ClaimLease(h, t)
    BY <1>7 DEF Lease
  <2> DEFINE a == [job |-> h.job, token |-> t, to |-> "delivering", stage |-> "read"]
  <2>2. /\ inflight' = inflight \ {h} /\ advances' = advances \cup {a} /\ h.op = "claim"
        /\ UNCHANGED <<replies, current, outbox>>
    BY <1>7, <2>1 DEF Lease, ClaimLease, pluginVars
  <2>3. CASE h.job = j
    <3>1. Hands(j) = {}
      BY <1>2, <2>1, <2>3, ClaimFindsNoHand
    <3>2. Hands(j)' \subseteq {a}
      BY <2>2, <3>1 DEF Hands
    <3>3. LeasedWith(j, t)' /\ ~expired'[j]
      BY <2>1, <2>3 DEF ClaimLease, LeasedWith
    <3> QED
      BY <3>2, <3>3 DEF InOneHand
  <2>4. CASE h.job # j
    <3>1. SameLease(j)
      BY <2>1, <2>4 DEF ClaimLease, SameLease
    <3>2. Hands(j)' \subseteq Hands(j)
      BY <2>2, <2>4 DEF Hands
    <3> QED
      BY <1>2, <3>1, <3>2, HandStays
  <2> QED
    BY <2>3, <2>4
<1>8. ASSUME NEW h \in inflight, FinishHandler(h) PROVE InOneHand(j)'
  <2>1. UNCHANGED <<replies, current, outbox>> /\ Finish(h)
    BY <1>8 DEF FinishHandler, Backend, pluginVars
  <2>2. /\ inflight' = inflight \ {h}
        /\ \/ advances' = advances
           \/ advances' = advances \cup
                {[job |-> h.job, token |-> h.token, to |-> "queued", stage |-> "read"]}
    BY <2>1 DEF Finish, DeadLetterExpired, CommitComplete, CommitFailRetry, CommitFailFinal,
       CommitRelease, LoseRace
  <2>3. Hands(j)' \subseteq Hands(j) \ {h}
    BY <1>A, <2>1, <2>2 DEF Hands
  <2>4. SameLease(j) \/ (h.job = j /\ (h.op # "claim" \/ expired[j]))
    BY <2>1 DEF Finish, DeadLetterExpired, DeadLetter, CommitComplete, CommitFailRetry,
       CommitFailFinal, CommitRelease, LoseRace, jobVars, SameLease
  <2>5. CASE h.job = j /\ h.op # "claim"
    <3>1. h \in Hands(j)
      BY <2>5 DEF Hands
    <3> QED
      BY <1>2, <2>3, <3>1, HandStays DEF InOneHand
  <2>6. CASE expired[j]
    BY <1>2, <2>3, <2>6, NoHand, HandStays
  <2> QED
    BY <1>2, <2>3, <2>4, <2>5, <2>6, HandStays
<1>9. ASSUME NEW a \in advances, AdvanceOrder(a) PROVE InOneHand(j)'
  <2>1. SameLease(j) /\ UNCHANGED <<current, outbox, inflight>>
    BY <1>9 DEF AdvanceOrder, Backend, pluginVars, AdvanceRead, AdvanceSkip, AdvanceWrite,
       Answer, jobVars, SameLease
  <2> DEFINE b == [a EXCEPT !.stage = "write"]
             d == [job |-> a.job, token |-> a.token]
  <2>2. b.job = a.job /\ b.token = a.token /\ b.to = a.to
    BY DEF HandlerTypes, Advance
  <2>3. CASE AdvanceRead(a) /\ UNCHANGED replies
    <3>1. advances' = (advances \ {a}) \cup {b}
      BY <2>3 DEF AdvanceRead
    <3>2. CASE a \in Hands(j)
      <4>1. Hands(j)' \subseteq (Hands(j) \ {a}) \cup {b}
        BY <1>A, <2>1, <2>3, <3>1, <3>2 DEF Hands
      <4> QED
        BY <1>2, <2>1, <2>2, <3>2, <4>1, HandPasses
    <3>3. CASE a \notin Hands(j)
      <4>1. ~(b.job = j /\ b.to = "delivering")
        BY <2>2, <3>3 DEF Hands
      <4> HIDE DEF b
      <4>2. Hands(j)' \subseteq Hands(j)
        BY <2>1, <2>3, <3>1, <4>1 DEF Hands
      <4> QED
        BY <1>2, <2>1, <4>2, HandStays
    <3> QED
      BY <3>2, <3>3
  <2>4. CASE /\ advances' = advances \ {a}
             /\ replies' = IF a.to = "delivering" THEN replies \cup {d} ELSE replies
    <3>2. CASE a \in Hands(j)
      <4>1. Hands(j)' \subseteq (Hands(j) \ {a}) \cup {d}
        BY <1>A, <2>1, <2>4, <3>2 DEF Hands
      <4> QED
        BY <1>2, <2>1, <3>2, <4>1, HandPasses
    <3>3. CASE a \notin Hands(j)
      <4>1. Hands(j)' \subseteq Hands(j)
        BY <2>1, <2>4, <3>3 DEF Hands
      <4> QED
        BY <1>2, <2>1, <4>1, HandStays
    <3> QED
      BY <3>2, <3>3
  <2> QED
    BY <1>9, <2>3, <2>4, Zenon DEF AdvanceOrder, AdvanceSkip, AdvanceWrite, Answer
<1> QED
  BY <1>3, <1>4, <1>5, <1>6, <1>7, <1>8, <1>9

LEMMA OneHandPlugin ==
  ASSUME QueueInv, PluginTypeOK, Heard, OneHand, NEW j \in Jobs \ delayed',
         \/ \E m \in outbox : Arrive(m) \/ LoseRequest(m)
         \/ \E d \in replies : TakeUp(d) \/ LoseReply(d)
         \/ \E w \in current : WorkOn(w) \/ Partial(w) \/ JournalFault(w)
         \/ ServerCrash
         \/ Abandon
         \/ UNCHANGED vars
  PROVE  InOneHand(j)'
<1>0. delayed' = delayed /\ UNCHANGED <<status, token, expired>>
  BY Zenon DEF Arrive, LoseRequest, TakeUp, LoseReply, WorkOn, Partial, JournalFault,
     ServerCrash, Abandon, Fault, NoFault, Game, queueVars, vars, ReadRequest, AbandonUpdate,
     AbandonAdvance, jobVars
<1>1. InOneHand(j) /\ SameLease(j)
  BY <1>0 DEF OneHand, SameLease
<1>A. /\ \A m \in outbox : m \notin advances \cup replies \cup current \cup inflight
      /\ \A d \in replies : d \notin advances \cup current \cup outbox \cup inflight
      /\ \A w \in current : w \notin advances \cup replies \cup outbox \cup inflight
  BY Apart, Parts DEF QueueInv, HandlerTypes, Heard, PluginTypeOK
<1>2. ASSUME NEW m \in outbox, Arrive(m) PROVE InOneHand(j)'
  <2>1. outbox' = outbox \ {m} /\ UNCHANGED <<replies, current, advances>>
    BY <1>2 DEF Arrive, queueVars, jobVars, orderVars, handlerVars, ReadRequest
  <2> DEFINE s == Snapshot(m.op, m.job, m.token)
  <2>2. s.op = m.op /\ s.job = m.job /\ s.token = m.token
    BY DEF Snapshot
  <2>3. inflight' \subseteq inflight \cup {s}
    BY <1>2 DEF Arrive, queueVars, jobVars, orderVars, handlerVars, ReadRequest
  <2> HIDE DEF s
  <2>4. CASE m \in Hands(j)
    <3>1. Hands(j)' \subseteq (Hands(j) \ {m}) \cup {s}
      BY <1>A, <2>1, <2>3 DEF Hands
    <3> QED
      BY <1>1, <2>2, <2>4, <3>1, HandPasses
  <2>5. CASE m \notin Hands(j)
    <3>1. s.job # j
      BY <2>2, <2>5 DEF Hands
    <3>2. Hands(j)' \subseteq Hands(j)
      BY <2>1, <2>3, <3>1 DEF Hands
    <3> QED
      BY <1>1, <3>2, HandStays
  <2> QED
    BY <2>4, <2>5
<1>3. ASSUME NEW d \in replies, TakeUp(d) PROVE InOneHand(j)'
  <2> DEFINE w == [job |-> d.job, token |-> d.token, stage |-> "begin"]
  <2>1. /\ replies' = replies \ {d} /\ current' = {w}
        /\ UNCHANGED <<outbox, advances, inflight>>
    BY <1>3 DEF TakeUp, Take, queueVars, jobVars, orderVars, handlerVars
  <2>2. w.job = d.job /\ w.token = d.token
    OBVIOUS
  <2> HIDE DEF w
  <2>4. CASE d \in Hands(j)
    <3>1. Hands(j)' \subseteq (Hands(j) \ {d}) \cup {w}
      BY <1>A, <2>1 DEF Hands
    <3> QED
      BY <1>1, <2>2, <2>4, <3>1, HandPasses
  <2>5. CASE d \notin Hands(j)
    <3>1. w.job # j
      BY <2>2, <2>5 DEF Hands
    <3>2. Hands(j)' \subseteq Hands(j)
      BY <2>1, <3>1 DEF Hands
    <3> QED
      BY <1>1, <3>2, HandStays
  <2> QED
    BY <2>4, <2>5
<1>4. ASSUME NEW w \in current, WorkOn(w) \/ Partial(w) \/ JournalFault(w) PROVE InOneHand(j)'
  <2>1. UNCHANGED <<replies, advances, inflight>>
    BY <1>4, ThreadMoves DEF queueVars, jobVars, orderVars, handlerVars
  <2>2. PICK y : /\ y.job = w.job /\ y.token = w.token
                 /\ current' \cup outbox' \subseteq outbox \cup {y}
    BY <1>4, ThreadMoves
  <2>4. CASE w \in Hands(j)
    <3>1. Hands(j)' \subseteq (Hands(j) \ {w}) \cup {y}
      BY <1>A, <2>1, <2>2 DEF Hands
    <3> QED
      BY <1>1, <2>2, <2>4, <3>1, HandPasses
  <2>5. CASE w \notin Hands(j)
    <3>1. y.job # j
      BY <2>2, <2>5 DEF Hands
    <3>2. Hands(j)' \subseteq Hands(j)
      BY <2>1, <2>2, <3>1 DEF Hands
    <3> QED
      BY <1>1, <3>2, HandStays
  <2> QED
    BY <2>4, <2>5
<1>5. ASSUME /\ replies' \subseteq replies /\ current' \subseteq current
             /\ outbox' \subseteq outbox /\ inflight' \subseteq inflight
             /\ advances' \subseteq advances
      PROVE  InOneHand(j)'
  <2>1. Hands(j)' \subseteq Hands(j)
    BY <1>5 DEF Hands
  <2> QED
    BY <1>1, <2>1, HandStays
<1>6. ASSUME NEW m \in outbox, LoseRequest(m) PROVE InOneHand(j)'
  BY <1>5, <1>6 DEF LoseRequest, queueVars, jobVars, orderVars, handlerVars
<1>7. ASSUME NEW d \in replies, LoseReply(d) PROVE InOneHand(j)'
  BY <1>5, <1>7 DEF LoseReply, queueVars, jobVars, orderVars, handlerVars, pluginVars
<1>8. CASE ServerCrash
  BY <1>5, <1>8 DEF ServerCrash, Crash, queueVars, jobVars, orderVars, handlerVars
<1>9. CASE Abandon
  BY <1>5, <1>9 DEF Abandon, AbandonUpdate, AbandonAdvance, pluginVars
<1>10. CASE UNCHANGED vars
  BY <1>5, <1>10 DEF vars, queueVars, jobVars, orderVars, handlerVars, pluginVars
<1> QED
  BY <1>2, <1>3, <1>4, <1>6, <1>7, <1>8, <1>9, <1>10

LEMMA OneHandKept ==
  ASSUME QueueInv, PluginTypeOK, Heard, ClaimsFindExpired, OneHand, [Next]_vars
  PROVE  OneHand'
<1> SUFFICES ASSUME NEW j \in Jobs \ delayed' PROVE InOneHand(j)'
  BY DEF OneHand
<1> QED
  BY OneHandBackend, OneHandPlugin, Zenon DEF Next

-----------------------------------------------------------------------------
(* The other parts of the invariant. *)

LEMMA HeardKept ==
  ASSUME QueueTypeOK, PluginTypeOK, Heard, AdvanceHasToken, [Next]_vars
  PROVE  Heard'
<1> DEFINE Messages == replies \cup current \cup outbox
<1>H. \A a \in advances : a.job \in Jobs /\ a.token \in Tokens
  BY Parts, HandlerFields DEF AdvanceHasToken
<1> DEFINE Reported(a) == [job |-> a.job, token |-> a.token]
\* A message carries on the token of another one, or that of a claim's handler.
<1>1. \/ /\ replies' \subseteq replies
         /\ \A m \in Messages' : \E n \in Messages : m.job = n.job /\ m.token = n.token
      \/ \E a \in advances :
           /\ a.to = "delivering" /\ Answer(a) /\ UNCHANGED <<token, current, outbox>>
           /\ replies' = replies \cup {Reported(a)}
  <2> DEFINE Old == /\ replies' \subseteq replies
                    /\ \A m \in Messages' : \E n \in Messages : m.job = n.job /\ m.token = n.token
  <2>1. ASSUME UNCHANGED pluginVars, replies' = replies PROVE Old
    BY <2>1 DEF pluginVars
  <2>2. ASSUME NEW j \in Jobs, Poll(j) \/ Expire(j) \/ BackoffEnds(j) \/ PeopleAct(j) PROVE Old
    BY <2>1, <2>2, Zenon DEF Poll, Expire, BackoffEnds, PeopleAct, Backend, pluginVars
  <2>3. ASSUME NEW h \in inflight, Lease(h) \/ FinishHandler(h) PROVE Old
    BY <2>1, <2>3, Zenon DEF Lease, FinishHandler, Backend, pluginVars
  <2>4. ASSUME NEW m \in outbox, Arrive(m) \/ LoseRequest(m) PROVE Old
    BY <2>4 DEF Arrive, LoseRequest
  <2>5. ASSUME NEW d \in replies, TakeUp(d) PROVE Old
    BY <2>5 DEF TakeUp, Take
  <2>6. ASSUME NEW d \in replies, LoseReply(d) PROVE Old
    BY <2>6 DEF LoseReply, pluginVars
  <2>7. ASSUME NEW w \in current, WorkOn(w) \/ Partial(w) \/ JournalFault(w) PROVE Old
    <3>1. replies' = replies
      BY <2>7, ThreadMoves
    <3>2. PICK y : /\ y.job = w.job /\ y.token = w.token
                   /\ current' \cup outbox' \subseteq outbox \cup {y}
      BY <2>7, ThreadMoves
    <3> QED
      BY <3>1, <3>2
  <2>8. ASSUME ServerCrash PROVE Old
    BY <2>8 DEF ServerCrash, Crash
  <2>9. ASSUME Abandon PROVE Old
    BY <2>1, <2>9, Zenon DEF Abandon
  <2>10. ASSUME UNCHANGED vars PROVE Old
    BY <2>1, <2>10 DEF vars
  <2>11. ASSUME NEW a \in advances, AdvanceOrder(a)
         PROVE  \/ Old
                \/ /\ a.to = "delivering" /\ Answer(a)
                   /\ UNCHANGED <<token, current, outbox>> /\ replies' = replies \cup {Reported(a)}
    BY <2>1, <2>11 DEF AdvanceOrder, Backend, pluginVars, AdvanceSkip, AdvanceWrite
  <2> QED
    BY <2>2, <2>3, <2>4, <2>5, <2>6, <2>7, <2>8, <2>9, <2>10, <2>11, Zenon DEF Next
\* Such a token is not new, so its lease has been answered for as long as it goes on.
<1>2. ASSUME NEW n \in Messages, LeasedWith(n.job, n.token)' PROVE answered'[n.job]
  <2>1. n.job \in Jobs /\ n.token \in Tokens
    BY DEF Heard
  <2>2. n.token \in KnownTokens
    BY DEF KnownTokens
  <2>3. LeasedWith(n.job, n.token) /\ (answered[n.job] => answered'[n.job])
    BY <1>2, <2>1, <2>2, LeaseGoesOn
  <2> QED
    BY <2>3 DEF Heard
<1>3. CASE /\ replies' \subseteq replies
           /\ \A m \in Messages' : \E n \in Messages : m.job = n.job /\ m.token = n.token
  <2>1. ASSUME NEW m \in Messages'
        PROVE  /\ m.job \in Jobs /\ m.token \in Tokens
               /\ LeasedWith(m.job, m.token)' => answered'[m.job]
    <3>1. PICK n \in Messages : m.job = n.job /\ m.token = n.token
      BY <1>3
    <3>2. n.job \in Jobs /\ n.token \in Tokens
      BY DEF Heard
    <3>3. LeasedWith(m.job, m.token)' => LeasedWith(n.job, n.token)'
      BY <3>1 DEF LeasedWith
    <3> QED
      BY <1>2, <3>1, <3>2, <3>3
  <2> QED
    BY <1>3, <2>1 DEF Heard
<1>4. ASSUME NEW a \in advances, a.to = "delivering", Answer(a),
             UNCHANGED <<token, current, outbox>>, replies' = replies \cup {Reported(a)}
      PROVE  Heard'
  <2>1. Reported(a) \in Reply /\ Reported(a).job = a.job /\ Reported(a).token = a.token
    BY <1>H DEF Reply
  <2>2. LeasedWith(a.job, a.token)' => answered'[a.job]
    BY <1>4, <1>H, Parts DEF LeasedWith, Answer, Flags
  <2>3. ASSUME NEW m \in Messages'
        PROVE  /\ m.job \in Jobs /\ m.token \in Tokens
               /\ LeasedWith(m.job, m.token)' => answered'[m.job]
    <3>1. m \in Messages \/ m = Reported(a)
      BY <1>4
    <3>2. CASE m \in Messages
      BY <1>2, <3>2 DEF Heard
    <3>3. CASE m = Reported(a)
      <4>1. m.job = a.job /\ m.token = a.token
        BY <2>1, <3>3
      <4>2. LeasedWith(m.job, m.token)' => LeasedWith(a.job, a.token)'
        BY <4>1 DEF LeasedWith
      <4> QED
        BY <1>H, <2>2, <4>1, <4>2
    <3> QED
      BY <3>1, <3>2, <3>3
  <2>4. replies' \subseteq Reply
    BY <1>4, <2>1 DEF Heard
  <2> QED
    BY <2>3, <2>4 DEF Heard
<1> QED
  BY <1>1, <1>3, <1>4

LEMMA AdvanceHasTokenKept ==
  ASSUME QueueInv, AdvanceHasToken, [QueueNext]_queueVars
  PROVE  AdvanceHasToken'
<1>1. Kinds /\ TokenOfLease /\ HandlerTypes
  BY EveryStep, Parts DEF QueueInv
<1>2. ASSUME NEW j \in Jobs,
             Reads(j) \/ LeaseExpires(j) \/ BackoffOver(j) \/ OwnerRefund(j)
               \/ AdminRefund(j) \/ AdminRetry(j)
      PROVE  advances' = advances
  BY <1>2 DEF Reads, LeaseExpires, BackoffOver, OwnerRefund, AdminRefund, AdminRetry,
     handlerVars
<1>3. ASSUME NEW h \in inflight, NEW t \in Tokens, ClaimLease(h, t)
      PROVE  AdvanceHasToken'
  BY <1>3 DEF ClaimLease, AdvanceHasToken
<1>4. ASSUME NEW h \in inflight, CommitRelease(h) PROVE AdvanceHasToken'
  <2>1. h.token \in Tokens
    BY <1>1, <1>4, HandlerFields DEF CommitRelease, LeasedWith, TokenOfLease
  <2> QED
    BY <1>4, <2>1 DEF CommitRelease, AdvanceHasToken
<1>5. ASSUME NEW h \in inflight,
             DeadLetterExpired(h) \/ CommitComplete(h) \/ CommitFailRetry(h)
               \/ CommitFailFinal(h) \/ Drops(h)
      PROVE  advances' = advances
  BY <1>5 DEF DeadLetterExpired, CommitComplete, CommitFailRetry,
     CommitFailFinal, Drops
<1>6. ASSUME NEW a \in advances, AdvanceRead(a) PROVE AdvanceHasToken'
  <2>1. [a EXCEPT !.stage = "write"].token \in Tokens
    BY <1>1 DEF AdvanceHasToken, HandlerTypes, Advance
  <2> QED
    BY <1>6, <2>1 DEF AdvanceRead, AdvanceHasToken
<1>7. ASSUME NEW a \in advances,
             AdvanceSkip(a) \/ AdvanceWrite(a) \/ AbandonAdvance(a)
      PROVE  advances' \subseteq advances
  BY <1>7 DEF AdvanceSkip, AdvanceWrite, AbandonAdvance, Answer
<1>8. CASE UNCHANGED queueVars
  BY <1>8 DEF queueVars, handlerVars, AdvanceHasToken
<1> QED
  BY <1>1, <1>2, <1>3, <1>4, <1>5, <1>6, <1>7, <1>8 DEF Kinds, AdvanceHasToken

LEMMA ClaimsFindExpiredKept ==
  ASSUME QueueInv, ClaimsFindExpired, [Next]_vars, [QueueNext]_queueVars
  PROVE  ClaimsFindExpired'
<1> SUFFICES ASSUME NEW h \in inflight', h.op = "claim", LeasedWith(h.job, h.token)'
             PROVE  expired'[h.job]
  BY DEF ClaimsFindExpired
<1>1. Kinds /\ QueueTypeOK /\ QueueTypeOK'
  BY EveryStep, QueueGoes DEF QueueInv
<1>2. h.job \in Jobs
  BY <1>1 DEF QueueTypeOK, Handler
<1>3. CASE h \in inflight
  <2>1. h.token \in OutstandingTokens
    BY <1>3 DEF OutstandingTokens
  <2> QED
    BY <1>1, <1>2, <1>3, <2>1, LeaseGoesOn DEF ClaimsFindExpired
<1>4. CASE h \notin inflight
  <2>1. PICK i \in Jobs : Reads(i)
    BY <1>1, <1>4 DEF Kinds, LeaseExpires, BackoffOver, OwnerRefund, AdminRefund, AdminRetry,
       ClaimLease, DeadLetterExpired, CommitComplete, CommitFailRetry, CommitFailFinal,
       CommitRelease, Drops, AdvanceSkip, AdvanceRead, AdvanceWrite, AbandonAdvance,
       handlerVars, queueVars
  <2>2. PICK op \in Requests \cup {"claim"} :
          /\ inflight' = inflight \cup {Snapshot(op, i, token[i])}
          /\ op = "claim" => Claimable(i)
    BY <2>1 DEF Reads, Requests
  <2>3. h.job = i /\ op = "claim"
    BY <1>4, <2>2 DEF Snapshot
  <2> QED
    BY <2>1, <2>2, <2>3 DEF Reads, jobVars, Claimable, LeasedWith
<1> QED
  BY <1>3, <1>4

LEMMA OvertakenIsDelayedKept ==
  ASSUME OvertakenIsDelayed, [Next]_vars
  PROVE  OvertakenIsDelayed'
<1> USE DEF OvertakenIsDelayed
<1>1. ASSUME NEW h \in inflight, Lease(h) PROVE OvertakenIsDelayed'
  BY <1>1 DEF Lease, ClaimLease, Overtake, Delaying, NoFault
<1>2. ASSUME NEW j \in Jobs, Expire(j) PROVE OvertakenIsDelayed'
  BY <1>2 DEF Expire, LeaseExpires, Overtake, Delaying, NoFault, UnderWay
<1>3. ASSUME overtaken' = overtaken, delayed' = delayed PROVE OvertakenIsDelayed'
  BY <1>3
<1>4. ASSUME NEW j \in Jobs, Poll(j) \/ BackoffEnds(j) PROVE OvertakenIsDelayed'
  BY <1>3, <1>4 DEF Poll, BackoffEnds, Backend, NoFault, ClaimRead, BackoffOver,
     jobVars
<1>5. ASSUME NEW j \in Jobs, PeopleAct(j) PROVE OvertakenIsDelayed'
  BY <1>3, <1>5 DEF PeopleAct, People, Backend, NoFault, OwnerRefund, AdminRefund, AdminRetry,
     jobVars
<1>6. ASSUME NEW h \in inflight, FinishHandler(h) PROVE OvertakenIsDelayed'
  BY <1>3, <1>6 DEF FinishHandler, Finish, Backend, NoFault, DeadLetterExpired, DeadLetter,
     CommitComplete, CommitFailRetry, CommitFailFinal, CommitRelease, LoseRace, jobVars
<1>7. ASSUME NEW a \in advances, AdvanceOrder(a) PROVE OvertakenIsDelayed'
  BY <1>3, <1>7 DEF AdvanceOrder, Backend, NoFault, AdvanceRead, AdvanceSkip, AdvanceWrite,
     jobVars
<1>8. ASSUME NEW m \in outbox, Arrive(m) \/ LoseRequest(m) PROVE OvertakenIsDelayed'
  BY <1>3, <1>8 DEF Arrive, LoseRequest, NoFault, Fault, queueVars, ReadRequest,
     jobVars
<1>9. ASSUME NEW d \in replies, TakeUp(d) \/ LoseReply(d) PROVE OvertakenIsDelayed'
  BY <1>3, <1>9 DEF TakeUp, LoseReply, NoFault, Fault, queueVars, jobVars, orderVars,
     handlerVars
<1>10. ASSUME NEW w \in current, WorkOn(w) \/ Partial(w) \/ JournalFault(w)
       PROVE  OvertakenIsDelayed'
  BY <1>3, <1>10 DEF WorkOn, Partial, JournalFault, Game, NoFault, Fault, queueVars, jobVars,
     orderVars, handlerVars
<1>11. CASE ServerCrash \/ Abandon
  BY <1>3, <1>11 DEF ServerCrash, Abandon, Fault, queueVars, AbandonUpdate, AbandonAdvance,
     jobVars
<1>12. CASE UNCHANGED vars
  BY <1>3, <1>12 DEF vars, queueVars, jobVars, orderVars, handlerVars
<1> QED
  BY <1>1, <1>2, <1>4, <1>5, <1>6, <1>7, <1>8, <1>9, <1>10, <1>11, <1>12, Zenon
     DEF Next, OvertakenIsDelayed

\* Handlers come from reads of the backend and from requests of the plugin.
LEMMA NewHandler ==
  ASSUME [Next]_vars, NEW h \in inflight' \ inflight
  PROVE  \/ h.op = "claim"
         \/ /\ \E m \in outbox : m.op = h.op /\ m.job = h.job
            /\ UNCHANGED <<full, partly>>
<1>1. ASSUME NEW j \in Jobs, Poll(j) PROVE h.op = "claim"
  BY <1>1 DEF Poll, ClaimRead, Snapshot
<1>2. ASSUME NEW m \in outbox, Arrive(m)
      PROVE  m.op = h.op /\ m.job = h.job /\ UNCHANGED <<full, partly>>
  BY <1>2 DEF Arrive, ReadRequest, Snapshot, queueVars, jobVars, orderVars, handlerVars
<1>3. ASSUME NEW j \in Jobs, Expire(j) \/ BackoffEnds(j) \/ PeopleAct(j) PROVE FALSE
  BY <1>3 DEF Expire, BackoffEnds, PeopleAct, LeaseExpires, BackoffOver, People, OwnerRefund,
     AdminRefund, AdminRetry, handlerVars
<1>4. ASSUME NEW g \in inflight, Lease(g) \/ FinishHandler(g) PROVE FALSE
  BY <1>4 DEF Lease, FinishHandler, ClaimLease, Finish, DeadLetterExpired, CommitComplete,
     CommitFailRetry, CommitFailFinal, CommitRelease, LoseRace
<1>5. ASSUME NEW a \in advances, AdvanceOrder(a) PROVE FALSE
  BY <1>5 DEF AdvanceOrder, AdvanceRead, AdvanceSkip, AdvanceWrite
<1>6. ASSUME UNCHANGED queueVars PROVE FALSE
  BY <1>6 DEF queueVars, jobVars, orderVars, handlerVars
<1>7. ASSUME NEW m \in outbox, LoseRequest(m) PROVE FALSE
  BY <1>6, <1>7 DEF LoseRequest
<1>8. ASSUME NEW d \in replies, TakeUp(d) \/ LoseReply(d) PROVE FALSE
  BY <1>6, <1>8 DEF TakeUp, LoseReply
<1>9. ASSUME NEW w \in current, WorkOn(w) \/ Partial(w) \/ JournalFault(w) PROVE FALSE
  BY <1>6, <1>9 DEF WorkOn, Partial, JournalFault, Game
<1>10. ASSUME ServerCrash PROVE FALSE
  BY <1>6, <1>10 DEF ServerCrash
<1>11. ASSUME Abandon PROVE FALSE
  BY <1>11 DEF Abandon, AbandonUpdate, AbandonAdvance
<1>12. ASSUME UNCHANGED vars PROVE FALSE
  BY <1>6, <1>12 DEF vars
<1> QED
  BY <1>1, <1>2, <1>3, <1>4, <1>5, <1>7, <1>8, <1>9, <1>10, <1>11, <1>12, Zenon DEF Next

LEMMA CompleteIsGivenKept ==
  ASSUME PluginInv, QueueInv, CompleteIsGiven, [Next]_vars, [PluginNext]_pluginVars
  PROVE  CompleteIsGiven'
<1> SUFFICES ASSUME NEW m \in (outbox \cup inflight)', m.op = "complete"
             PROVE  full'[m.job] = 1
  BY DEF CompleteIsGiven
<1>1. \A n \in outbox \cup inflight : n.job \in Jobs
  BY Parts, HandlerFields DEF PluginInv, QueueInv, PluginTypeOK, Request
<1>2. CASE m \in outbox \cup inflight
  BY <1>1, <1>2, FullStays DEF CompleteIsGiven
<1>3. CASE m \in outbox' \ outbox
  BY <1>3, HonestStep
<1>4. CASE m \in inflight' \ inflight
  <2>1. (\E n \in outbox : n.op = m.op /\ n.job = m.job) /\ UNCHANGED <<full, partly>>
    BY <1>4, NewHandler
  <2> QED
    BY <2>1 DEF CompleteIsGiven
<1> QED
  BY <1>2, <1>3, <1>4

LEMMA DelaysStay ==
  ASSUME [Next]_vars
  PROVE  delayed \subseteq delayed'
  BY Zenon DEF Next, Poll, Expire, BackoffEnds, PeopleAct, Lease, FinishHandler, AdvanceOrder,
     Arrive, TakeUp, WorkOn, Partial, JournalFault, ServerCrash, LoseReply, LoseRequest,
     Abandon, Backend, Fault, NoFault, Delaying, vars

LEMMA FailIsHonestKept ==
  ASSUME PluginInv, QueueInv, Heard, OneHand, FailIsHonest, [Next]_vars,
         [PluginNext]_pluginVars
  PROVE  FailIsHonest'
<1> SUFFICES ASSUME NEW m \in (outbox \cup inflight)', m.op = "fail", m.job \notin delayed'
             PROVE  full'[m.job] = 0 /\ partly'[m.job] = 0
  BY DEF FailIsHonest
<1>0. delayed \subseteq delayed'
  BY DelaysStay
<1>1. \A n \in outbox \cup inflight : n.job \in Jobs
  BY Parts, HandlerFields DEF PluginInv, QueueInv, PluginTypeOK, Request
<1>2. CASE m \in outbox \cup inflight
  <2>1. full[m.job] = 0 /\ partly[m.job] = 0 /\ InOneHand(m.job)
    BY <1>0, <1>1, <1>2 DEF FailIsHonest, OneHand
  <2>2. m \in Hands(m.job)
    BY <1>2 DEF Hands
  <2>3. ASSUME NEW w \in current, w.job = m.job PROVE FALSE
    <3>1. w \in Hands(m.job)
      BY <2>3 DEF Hands
    <3>2. w = m
      BY <2>1, <2>2, <3>1 DEF InOneHand
    <3> QED
      BY <1>2, <3>2, Apart, Parts DEF PluginInv, QueueInv, PluginTypeOK, HandlerTypes
  <2> QED
    BY <1>1, <1>2, <2>1, <2>3, GameTouched DEF PluginInv
<1>3. CASE m \in outbox' \ outbox
  BY <1>3, HonestStep
<1>4. CASE m \in inflight' \ inflight
  <2>1. (\E n \in outbox : n.op = m.op /\ n.job = m.job) /\ UNCHANGED <<full, partly>>
    BY <1>4, NewHandler
  <2> QED
    BY <1>0, <2>1 DEF FailIsHonest
<1> QED
  BY <1>2, <1>3, <1>4

\* An order is delivered and a job completed by the commit of a completion only.
LEMMA DeliveredByReport ==
  ASSUME QueueInv, [QueueNext]_queueVars, NEW j \in Jobs,
         \/ order[j] # "delivered" /\ order'[j] = "delivered"
         \/ status[j] # "completed" /\ status'[j] = "completed"
  PROVE  \E h \in inflight : h.op = "complete" /\ h.job = j
<1>1. Kinds /\ JobTypes /\ OrderTypes /\ HandlerTypes
  BY EveryStep, Parts DEF QueueInv
<1> USE <1>1, HandlerFields DEF JobTypes, OrderTypes
<1>2. ASSUME NEW i \in Jobs, Reads(i) \/ LeaseExpires(i) \/ BackoffOver(i)
      PROVE  FALSE
  BY <1>2 DEF Reads, LeaseExpires, BackoffOver, jobVars, orderVars
<1>3. ASSUME NEW i \in Jobs, OwnerRefund(i) \/ AdminRefund(i) PROVE FALSE
  BY <1>3 DEF OwnerRefund, AdminRefund, jobVars
<1>4. ASSUME NEW i \in Jobs, AdminRetry(i) PROVE FALSE
  BY <1>4 DEF AdminRetry, Advanced
<1>5. ASSUME NEW h \in inflight, NEW t \in Tokens, ClaimLease(h, t) PROVE FALSE
  BY <1>5 DEF ClaimLease, orderVars
<1>6. ASSUME NEW h \in inflight, CommitComplete(h) PROVE h.op = "complete" /\ h.job = j
  BY <1>6 DEF CommitComplete, Advanced
<1>7. ASSUME NEW h \in inflight, CommitFailRetry(h) \/ CommitRelease(h) PROVE FALSE
  BY <1>7 DEF CommitFailRetry, CommitRelease, Advanced, orderVars
<1>8. ASSUME NEW h \in inflight, DeadLetterExpired(h) \/ CommitFailFinal(h)
      PROVE  FALSE
  BY <1>8 DEF DeadLetterExpired, CommitFailFinal, DeadLetter, Advanced
<1>9. ASSUME NEW h \in inflight, Drops(h) PROVE FALSE
  BY <1>9 DEF Drops, jobVars, orderVars
<1>10. ASSUME NEW a \in advances,
              AdvanceSkip(a) \/ AdvanceRead(a) \/ AbandonAdvance(a)
       PROVE  FALSE
  BY <1>10 DEF AdvanceSkip, AdvanceRead, AbandonAdvance, jobVars,
     orderVars
<1>11. ASSUME NEW a \in advances, AdvanceWrite(a) PROVE FALSE
  BY <1>11 DEF AdvanceWrite
<1>12. CASE UNCHANGED queueVars
  BY <1>12 DEF queueVars, jobVars, orderVars
<1> QED
  BY <1>1, <1>2, <1>3, <1>4, <1>5, <1>6, <1>7, <1>8, <1>9, <1>10, <1>11, <1>12 DEF Kinds

LEMMA DeliveredMeansGivenKept ==
  ASSUME PluginInv, QueueInv, CompleteIsGiven, DeliveredMeansGiven,
         [PluginNext]_pluginVars, [QueueNext]_queueVars
  PROVE  DeliveredMeansGiven'
<1> SUFFICES ASSUME NEW j \in Jobs, order'[j] = "delivered" \/ status'[j] = "completed"
             PROVE  full'[j] = 1
  BY DEF DeliveredMeansGiven
<1>1. CASE order[j] = "delivered" \/ status[j] = "completed"
  BY <1>1, FullStays DEF DeliveredMeansGiven
<1>2. CASE order[j] # "delivered" /\ status[j] # "completed"
  <2>1. PICK h \in inflight : h.op = "complete" /\ h.job = j
    BY <1>2, DeliveredByReport
  <2> QED
    BY <2>1, FullStays DEF CompleteIsGiven
<1> QED
  BY <1>1, <1>2

LEMMA RefundIsFinalKept ==
  ASSUME QueueInv, RefundIsFinal, [QueueNext]_queueVars
  PROVE  RefundIsFinal'
<1> SUFFICES ASSUME NEW j \in Jobs, j \notin overtaken', refundedBy'[j] # "none"
             PROVE  order'[j] = "refunded"
  BY DEF RefundIsFinal
<1>0. Kinds /\ OrderTypes /\ HandlerTypes
  BY EveryStep, Parts DEF QueueInv
<1>1. j \notin overtaken
  BY <1>0, OvertakenStays
<1>2. CASE refundedBy[j] # "none"
  BY <1>1, <1>2, RefundedStep DEF RefundIsFinal
<1>3. CASE refundedBy[j] = "none"
  <2>1. PICK i \in Jobs : OwnerRefund(i) \/ AdminRefund(i)
    BY <1>0, <1>3 DEF Kinds, Reads, LeaseExpires, BackoffOver, AdminRetry, ClaimLease,
       DeadLetterExpired, DeadLetter, CommitComplete, CommitFailRetry, CommitFailFinal,
       CommitRelease, Drops, AdvanceSkip, AdvanceRead, AdvanceWrite, AbandonAdvance, orderVars,
       queueVars
  <2> QED
    BY <1>0, <1>3, <2>1
       DEF OwnerRefund, AdminRefund, PostRefund, OrderTypes
<1> QED
  BY <1>2, <1>3

-----------------------------------------------------------------------------
(* The theorems about the system. *)

LEMMA SystemStarts == Init => SystemInv
<1> SUFFICES ASSUME Init PROVE SystemInv
  OBVIOUS
<1>1. PluginInv /\ QueueInv
  BY PluginStarts, QueueStarts DEF Init
<1>2. /\ replies = {} /\ current = {} /\ outbox = {} /\ inflight = {} /\ advances = {}
      /\ overtaken = {} /\ delayed = {}
      /\ \A j \in Jobs : order[j] = "queued" /\ status[j] = "pending" /\ refundedBy[j] = "none"
  BY DEF Init, QueueInit, PluginInit
<1>3. OneHand
  BY <1>2 DEF OneHand, InOneHand, Hands
<1> QED
  BY <1>1, <1>2, <1>3 DEF SystemInv, Heard, AdvanceHasToken, CompleteIsGiven,
     DeliveredMeansGiven, OvertakenIsDelayed, ClaimsFindExpired, FailIsHonest, RefundIsFinal

LEMMA SystemGoes == SystemInv /\ [Next]_vars => SystemInv'
<1> SUFFICES ASSUME SystemInv, [Next]_vars PROVE SystemInv'
  OBVIOUS
<1> USE DEF SystemInv
<1>1. PluginTypeOK /\ QueueTypeOK
  BY DEF PluginInv, QueueInv
<1>2. [PluginNext]_pluginVars /\ [QueueNext]_queueVars
  BY <1>1, StepOfPlugin, StepOfQueue
<1>3. PluginInv' /\ QueueInv'
  BY <1>2, PluginGoes, QueueGoes
<1> QED
  BY <1>1, <1>2, <1>3, HeardKept, AdvanceHasTokenKept, CompleteIsGivenKept,
     DeliveredMeansGivenKept, OvertakenIsDelayedKept, ClaimsFindExpiredKept, OneHandKept,
     FailIsHonestKept, RefundIsFinalKept

\* The invariant: until a delivery is delayed its lease is in one hand, and whatever
\* reports on it tells what the game holds.
THEOREM SystemInvariant == Spec => []SystemInv
  BY SystemStarts, SystemGoes, PTL DEF Spec

\* An order the backend calls delivered, or a job it calls completed, is in the game
\* in full, whatever is lost, late or crashes on the way.
THEOREM SystemDeliveredMeansGiven == Spec => []DeliveredMeansGiven
<1>1. SystemInv => DeliveredMeansGiven
  BY DEF SystemInv
<1> QED
  BY <1>1, SystemInvariant, PTL

\* The backend of the system is the queue on its own: the plugin and the network do
\* nothing to it that the queue's clients may not do.
THEOREM SystemRunsQueue == Spec => QueueAlone
<1>1. Init => QueueInit
  BY DEF Init
<1>2. SystemInv /\ [Next]_vars => [QueueNext]_queueVars
  BY StepOfQueue DEF SystemInv, PluginInv
<1> QED
  BY <1>1, <1>2, SystemInvariant, PTL DEF Spec, QueueAlone, QueueSpec

\* Unless there was a delay, a failure report never dead-letters a job whose order
\* the game already holds: a lease that ran out unanswered does.
THEOREM SystemOnlySilenceKills == Spec => OnlySilenceKillsAGrant
<1> DEFINE Silence ==
      \A j \in Jobs \ delayed :
        status[j] # "dead_letter" /\ status'[j] = "dead_letter" /\ full[j] + partly[j] > 0
          => expired[j]
<1>1. ASSUME SystemInv, [Next]_vars PROVE Silence
  <2> SUFFICES ASSUME NEW j \in Jobs \ delayed, status[j] # "dead_letter",
                      status'[j] = "dead_letter", full[j] + partly[j] > 0
               PROVE  expired[j]
    OBVIOUS
  <2>0. Kinds /\ JobTypes /\ HandlerTypes /\ OrderFollowsJob
    BY <1>1, EveryStep, StepOfQueue, Parts DEF SystemInv, PluginInv, QueueInv
  <2>1. ~(full[j] = 0 /\ partly[j] = 0)
    OBVIOUS
  <2> USE <2>0, HandlerFields DEF JobTypes
  <2>2. ASSUME NEW i \in Jobs, OwnerRefund(i) PROVE FALSE
    <3>1. i = j /\ status[j] = "pending" /\ IsRefundable(order[j])
      BY <2>2 DEF OwnerRefund
    <3>2. j \notin overtaken
      BY <1>1 DEF SystemInv, OvertakenIsDelayed
    <3> QED
      BY <3>1, <3>2 DEF OrderFollowsJob, IsRefundable
  <2>3. ASSUME NEW h \in inflight, CommitFailFinal(h) PROVE FALSE
    <3>1. h.job = j /\ h.op = "fail"
      BY <2>3 DEF CommitFailFinal, DeadLetter
    <3> QED
      BY <1>1, <2>1, <3>1 DEF SystemInv, FailIsHonest
  <2>4. ASSUME NEW h \in inflight, DeadLetterExpired(h) PROVE expired[j]
    BY <2>4 DEF DeadLetterExpired, DeadLetter
  <2>5. ASSUME NEW i \in Jobs,
               \/ Reads(i) \/ LeaseExpires(i) \/ BackoffOver(i)
               \/ AdminRefund(i) \/ AdminRetry(i)
        PROVE  FALSE
    BY <2>5 DEF Reads, LeaseExpires, BackoffOver, AdminRefund,
       AdminRetry, jobVars
  <2>6. ASSUME NEW h \in inflight,
               \/ \E t \in Tokens : ClaimLease(h, t)
               \/ CommitComplete(h) \/ CommitFailRetry(h) \/ CommitRelease(h)
               \/ Drops(h)
        PROVE  FALSE
    BY <2>6 DEF ClaimLease, CommitComplete, CommitFailRetry,
       CommitRelease, Drops, jobVars
  <2>7. ASSUME NEW a \in advances,
               \/ AdvanceSkip(a) \/ AdvanceRead(a) \/ AdvanceWrite(a)
               \/ AbandonAdvance(a)
        PROVE  FALSE
    BY <2>7 DEF AdvanceSkip, AdvanceRead, AdvanceWrite, AbandonAdvance,
       jobVars
  <2>8. CASE UNCHANGED queueVars
    BY <2>8 DEF queueVars, jobVars
  <2> QED
    BY <2>2, <2>3, <2>4, <2>5, <2>6, <2>7, <2>8, Zenon DEF Kinds
<1>2. SystemInv /\ [Next]_vars => [Silence]_vars
  BY <1>1
<1> QED
  BY <1>2, SystemInvariant, PTL DEF Spec, OnlySilenceKillsAGrant

-----------------------------------------------------------------------------
(* The refinement of the contract. *)

Games == [j \in Jobs |-> Held(j)]
Outcomes == [j \in Jobs |-> Outcome(j)]

\* A step changes the game or the backend, not both.
LEMMA OneSide ==
  ASSUME [Next]_vars
  PROVE  UNCHANGED queueVars \/ UNCHANGED <<full, partly>>
  BY Zenon DEF Next, Poll, Expire, BackoffEnds, PeopleAct, Lease, FinishHandler, AdvanceOrder,
     Arrive, TakeUp, WorkOn, Partial, JournalFault, ServerCrash, LoseReply, LoseRequest,
     Abandon, Backend, Game, pluginVars, vars

LEMMA GamesChange ==
  ASSUME NEW j \in Jobs, NEW v, Held(j)' = v, \A i \in Jobs : i # j => Held(i)' = Held(i)
  PROVE  Games' = [Games EXCEPT ![j] = v]
  BY DEF Games

LEMMA OutcomesChange ==
  ASSUME NEW j \in Jobs, NEW v, Outcome(j)' = v,
         \A i \in Jobs : i # j => Outcome(i)' = Outcome(i)
  PROVE  Outcomes' = [Outcomes EXCEPT ![j] = v]
  BY DEF Outcomes

LEMMA Stutters ==
  ASSUME \A i \in Jobs : Held(i)' = Held(i) /\ Outcome(i)' = Outcome(i), credits' = credits
  PROVE  UNCHANGED Contract!vars
  BY DEF Contract!vars

LEMMA SameOutcomes ==
  ASSUME UNCHANGED order PROVE \A i \in Jobs : Outcome(i)' = Outcome(i)
  BY DEF Outcome

LEMMA SameGames ==
  ASSUME UNCHANGED <<full, partly>> PROVE \A i \in Jobs : Held(i)' = Held(i)
  BY DEF Held

LEMMA ContractGive ==
  ASSUME NEW j \in Jobs, NEW amount \in {"part", "all"}, Held(j) = "nothing",
         Outcome(j) # "refunded", Games' = [Games EXCEPT ![j] = amount],
         UNCHANGED <<Outcomes, credits>>
  PROVE  Contract!Next
  BY DEF Contract!Next, Contract!Give, Games, Outcomes

LEMMA ContractSettle ==
  ASSUME NEW j \in Jobs, Held(j) = "all", Outcome(j) = "open",
         Outcomes' = [Outcomes EXCEPT ![j] = "delivered"], UNCHANGED <<Games, credits>>
  PROVE  Contract!Next
  BY DEF Contract!Next, Contract!Settle, Games, Outcomes

LEMMA ContractRefund ==
  ASSUME NEW j \in Jobs, Outcome(j) # "refunded", credits[j] = 0,
         Outcomes' = [Outcomes EXCEPT ![j] = "refunded"],
         credits' = [credits EXCEPT ![j] = 1], UNCHANGED Games
  PROVE  Contract!Next
  BY DEF Contract!Next, Contract!Refund, Games, Outcomes

\* A delivery under way without a delay has an order that is neither settled nor
\* paid back.
LEMMA WorkIsOpen ==
  ASSUME SystemInv, NEW w \in current, w.job \notin delayed
  PROVE  w.job \in Jobs /\ Outcome(w.job) = "open"
<1>1. w.job \in Jobs
  BY DEF SystemInv, Heard
<1>2. w \in Hands(w.job)
  BY DEF Hands
<1>3. status[w.job] = "leased"
  BY <1>1, <1>2 DEF SystemInv, OneHand, InOneHand, LeasedWith
<1>4. w.job \notin overtaken
  BY DEF SystemInv, OvertakenIsDelayed
<1> QED
  BY <1>1, <1>3, <1>4 DEF SystemInv, QueueInv, OrderFollowsJob, Outcome

LEMMA GameKeepsPromise ==
  ASSUME SystemInv, [PluginNext]_pluginVars, UNCHANGED queueVars, delayed = {}
  PROVE  [Contract!Next]_(Contract!vars)
<1> USE DEF SystemInv, PluginInv, PluginTypeOK
<1>0. UNCHANGED <<order, credits>> /\ \A i \in Jobs : Outcome(i)' = Outcome(i)
  BY SameOutcomes DEF queueVars, jobVars, orderVars, handlerVars
<1>1. UNCHANGED Outcomes
  BY <1>0 DEF Outcomes
<1>2. ASSUME UNCHANGED <<full, partly>> PROVE UNCHANGED Contract!vars
  BY <1>0, <1>2, SameGames, Stutters
<1>3. ASSUME NEW w \in current, NEW amount \in {"part", "all"}, w.stage = "give",
             Held(w.job)' = amount, \A i \in Jobs : i # w.job => Held(i)' = Held(i)
      PROVE  Contract!Next
  <2>1. w.job \in Jobs /\ Outcome(w.job) = "open"
    BY WorkIsOpen
  <2>2. Held(w.job) = "nothing"
    BY <1>3, <2>1 DEF JournalLeads, Held
  <2>3. Games' = [Games EXCEPT ![w.job] = amount]
    BY <1>3, <2>1, GamesChange
  <2> QED
    BY <1>0, <1>1, <2>1, <2>2, <2>3, ContractGive
<1>4. ASSUME NEW w \in current, GiveAll(w) PROVE Contract!Next
  <2>1. w.job \in Jobs /\ w.stage = "give" /\ full[w.job] = 0 /\ partly[w.job] = 0
    BY <1>4 DEF GiveAll, Work, JournalLeads
  <2>2. full' = [full EXCEPT ![w.job] = 1] /\ partly' = partly
    BY <1>4, <2>1 DEF GiveAll
  <2> QED
    BY <1>3, <2>1, <2>2 DEF Held
<1>5. ASSUME NEW w \in current, GivePart(w) PROVE Contract!Next
  <2>1. w.job \in Jobs /\ w.stage = "give" /\ full[w.job] = 0 /\ partly[w.job] = 0
    BY <1>5 DEF GivePart, Work, JournalLeads
  <2>2. partly' = [partly EXCEPT ![w.job] = 1] /\ full' = full
    BY <1>5, <2>1 DEF GivePart
  <2> QED
    BY <1>3, <2>1, <2>2 DEF Held
<1>6. \/ UNCHANGED <<full, partly>>
      \/ \E w \in current : GiveAll(w) \/ GivePart(w)
  BY Zenon DEF PluginNext, pluginVars, Take, Crash, Offline, Step, BeginKnown, WriteStep,
     BeginFresh, Mark, Record, GiveNothing
<1> QED
  BY <1>2, <1>4, <1>5, <1>6

LEMMA QueueKeepsPromise ==
  ASSUME SystemInv, [QueueNext]_queueVars, UNCHANGED <<full, partly>>, delayed = {}
  PROVE  [Contract!Next]_(Contract!vars)
<1>T. /\ Kinds /\ JobTypes /\ OrderTypes /\ HandlerTypes
      /\ RefundIsPosted /\ AdvanceIsTimely /\ OrderFollowsJob
      /\ RefundIsFinal /\ CompleteIsGiven /\ overtaken = {}
  BY EveryStep, Parts DEF SystemInv, QueueInv, OvertakenIsDelayed
<1> USE <1>T, HandlerFields DEF JobTypes, OrderTypes
<1>0. UNCHANGED Games /\ \A i \in Jobs : Held(i)' = Held(i)
  BY SameGames DEF Games
<1> DEFINE Kept == UNCHANGED Contract!vars
<1>1. ASSUME credits' = credits, \A i \in Jobs : Outcome(i)' = Outcome(i) PROVE Kept
  BY <1>0, <1>1, Stutters
<1>2. ASSUME UNCHANGED order, UNCHANGED credits PROVE Kept
  BY <1>1, <1>2, SameOutcomes
<1> HIDE DEF Kept
<1>3. ASSUME NEW j \in Jobs, NEW to \in {"failed", "queued"}, order' = Advanced(j, to),
             UNCHANGED credits
      PROVE  Kept
  <2>1. \A i \in Jobs : Outcome(i)' = Outcome(i)
    BY <1>3 DEF Advanced, CanTransition, Transitions, Outcome
  <2> QED
    BY <1>1, <1>3, <2>1
<1>4. ASSUME NEW i \in Jobs, Reads(i) \/ LeaseExpires(i) \/ BackoffOver(i)
      PROVE  Kept
  BY <1>2, <1>4 DEF Reads, LeaseExpires, BackoffOver, orderVars
<1>5. ASSUME NEW j \in Jobs, NEW payer \in {"owner", "admin"}, IsRefundable(order[j]),
             PostRefund(j, payer), order' = [order EXCEPT ![j] = "refunded"]
      PROVE  Contract!Next
  <2>1. refundedBy[j] = "none" /\ credits[j] = 0 /\ Outcome(j) # "refunded"
    BY <1>5 DEF RefundIsFinal, RefundIsPosted, IsRefundable, Outcome
  <2>2. credits' = [credits EXCEPT ![j] = 1]
    BY <1>5, <2>1 DEF PostRefund
  <2>3. Outcome(j)' = "refunded" /\ \A i \in Jobs : i # j => Outcome(i)' = Outcome(i)
    BY <1>5 DEF Outcome
  <2>4. Outcomes' = [Outcomes EXCEPT ![j] = "refunded"]
    BY <2>3, OutcomesChange
  <2> QED
    BY <1>0, <2>1, <2>2, <2>4, ContractRefund
<1>6. ASSUME NEW j \in Jobs, OwnerRefund(j) \/ AdminRefund(j) PROVE Contract!Next
  BY <1>5, <1>6 DEF OwnerRefund, AdminRefund
<1>7. ASSUME NEW j \in Jobs, AdminRetry(j) PROVE Kept
  BY <1>3, <1>7 DEF AdminRetry
<1>8. ASSUME NEW h \in inflight,
             (\E t \in Tokens : ClaimLease(h, t)) \/ CommitRelease(h) \/ Drops(h)
      PROVE  Kept
  BY <1>2, <1>8 DEF ClaimLease, CommitRelease, Drops, orderVars
<1>9. ASSUME NEW h \in inflight, DeadLetterExpired(h) \/ CommitFailFinal(h)
      PROVE  Kept
  BY <1>3, <1>9 DEF DeadLetterExpired, CommitFailFinal, DeadLetter
<1>10. ASSUME NEW h \in inflight, CommitFailRetry(h) PROVE Kept
  BY <1>3, <1>10 DEF CommitFailRetry
<1>11. ASSUME NEW h \in inflight, CommitComplete(h) PROVE Kept \/ Contract!Next
  <2>1. /\ h.job \in Jobs /\ full[h.job] = 1 /\ UNCHANGED credits
        /\ order' = Advanced(h.job, "delivered")
    BY <1>11 DEF CommitComplete, CompleteIsGiven
  <2>2. CASE order[h.job] = "delivering"
    <3>1. Outcome(h.job)' = "delivered" /\ Outcome(h.job) = "open" /\ Held(h.job) = "all"
      BY <2>1, <2>2
         DEF Advanced, CanTransition, Transitions, OrderStatuses,
             Outcome, Held
    <3>2. \A i \in Jobs : i # h.job => Outcome(i)' = Outcome(i)
      BY <2>1 DEF Advanced, Outcome
    <3>3. Outcomes' = [Outcomes EXCEPT ![h.job] = "delivered"]
      BY <2>1, <3>1, <3>2, OutcomesChange
    <3> QED
      BY <1>0, <2>1, <3>1, <3>3, ContractSettle
  <2>3. CASE order[h.job] # "delivering"
    <3>1. \A i \in Jobs : Outcome(i)' = Outcome(i)
      BY <2>1, <2>3 DEF Advanced, CanTransition, Transitions, Outcome
    <3> QED
      BY <1>1, <2>1, <3>1
  <2> QED
    BY <2>2, <2>3
<1>12. ASSUME NEW a \in advances,
              AdvanceSkip(a) \/ AdvanceRead(a) \/ AbandonAdvance(a)
       PROVE  Kept
  BY <1>2, <1>12 DEF AdvanceSkip, AdvanceRead, AbandonAdvance,
     orderVars
<1>13. ASSUME NEW a \in advances, AdvanceWrite(a) PROVE Kept
  <2>1. status[a.job] \in {"pending", "leased"}
    BY DEF AdvanceIsTimely, LeasedWith
  <2>2. order[a.job] \in {"queued", "delivering"}
    BY <2>1 DEF OrderFollowsJob
  <2>3. \A i \in Jobs : Outcome(i)' = Outcome(i)
    BY <1>13, <2>2 DEF AdvanceWrite, Outcome
  <2> QED
    BY <1>1, <1>13, <2>3 DEF AdvanceWrite
<1>14. ASSUME UNCHANGED queueVars PROVE Kept
  BY <1>2, <1>14 DEF queueVars, orderVars
<1> QED
  BY <1>4, <1>6, <1>7, <1>8, <1>9, <1>10, <1>11, <1>12, <1>13, <1>14 DEF Kinds, Kept

\* Until a delivery meets a delay, backend, network and plugin together implement the
\* shop's promise: given at most once and never after the refund, called delivered
\* only when given in full, and paid back once.
THEOREM SystemKeepsPromise == Spec => Promise
<1>1. Init => Contract!Init
  BY DEF Init, PluginInit, QueueInit, Contract!Init, Held, Outcome
<1>2. SystemInv /\ [Next]_vars => [Contract!Next \/ delayed' # {}]_(Contract!vars)
  <2> SUFFICES ASSUME SystemInv, [Next]_vars, delayed' = {}
               PROVE  [Contract!Next]_(Contract!vars)
    OBVIOUS
  <2>1. delayed = {}
    BY DelaysStay
  <2>2. [PluginNext]_pluginVars /\ [QueueNext]_queueVars
    BY StepOfPlugin, StepOfQueue DEF SystemInv, PluginInv
  <2> QED
    BY <2>1, <2>2, OneSide, GameKeepsPromise, QueueKeepsPromise
<1> QED
  BY <1>1, <1>2, SystemInvariant, PTL DEF Spec, Promise
=============================================================================
