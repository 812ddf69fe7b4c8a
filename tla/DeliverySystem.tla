--------------------------- MODULE DeliverySystem ---------------------------
(***************************************************************************)
(* The delivery queue of the backend and the plugin of one game server,    *)
(* joined by HTTP: claim responses and the plugin's requests are in flight *)
(* in any order and may be lost.  A fault is a lost message, a crash of    *)
(* the game server, a handler of the backend that dies between two         *)
(* statements, a journal file that cannot be written, or a delay: a claim  *)
(* response, the game thread's work or a request that takes longer than    *)
(* the lease (seconds against one minute).  MaxFaults bounds their number. *)
(***************************************************************************)
EXTENDS DeliveryQueue, DeliveryPlugin

CONSTANT MaxFaults  \* bound: faults in one behaviour

ASSUME MaxFaultsAssumption == MaxFaults \in Nat

VARIABLES
  replies,   \* claimed deliveries on their way to the plugin
  faults,    \* faults so far
  delayed    \* jobs that met a delay

vars == <<queueVars, pluginVars, replies, faults, delayed>>

Init == QueueInit /\ PluginInit /\ replies = {} /\ faults = 0 /\ delayed = {}

OneFault == faults < MaxFaults /\ faults' = faults + 1
Fault == OneFault /\ UNCHANGED delayed
NoFault == UNCHANGED <<faults, delayed>>

\* A step that is a delay of j if something is still under way.
Delaying(j, underWay) ==
  IF underWay THEN OneFault /\ delayed' = delayed \cup {j} ELSE NoFault

-----------------------------------------------------------------------------
(* Steps of the backend. *)

Backend == UNCHANGED pluginVars /\ NoFault

\* The plugin's poll reaches the backend and finds j claimable.
Poll(j) == ClaimRead(j) /\ Backend /\ UNCHANGED replies

\* A lease token is new to everybody, also to messages in flight.
KnownTokens ==
  {m.token : m \in replies} \cup {m.token : m \in outbox} \cup {w.token : w \in current}

Lease(h) ==
  /\ \E t \in Tokens \ KnownTokens : ClaimLease(h, t)
  /\ Delaying(h.job, Advancing(h.job))
  /\ UNCHANGED <<pluginVars, replies>>

FinishHandler(h) == Finish(h) /\ Backend /\ UNCHANGED replies

\* Mutant: the claim is answered before the order has been moved.
AdvanceAfterAnswer(a) ==
  /\ \/ /\ AdvanceRead(a)
        /\ replies' = IF a.to = "delivering"
                        THEN replies \cup {[job |-> a.job, token |-> a.token]}
                        ELSE replies
     \/ (AdvanceSkip(a) \/ AdvanceWrite(a)) /\ UNCHANGED replies
  /\ Backend

\* The claim handler answers when its order update is done.
AdvanceOrder(a) ==
  /\ \/ AdvanceRead(a) /\ UNCHANGED replies
     \/ /\ AdvanceSkip(a) \/ AdvanceWrite(a)
        /\ replies' = IF a.to = "delivering"
                        THEN replies \cup {[job |-> a.job, token |-> a.token]}
                        ELSE replies
  /\ Backend

\* Something of the current lease of j has not come to an end.
UnderWay(j) ==
  \/ Advancing(j)
  \/ \E d \in replies \cup current \cup outbox \cup inflight :
       d.job = j /\ d.token = token[j]

Expire(j) ==
  /\ LeaseExpires(j)
  /\ Delaying(j, UnderWay(j))
  /\ UNCHANGED <<pluginVars, replies>>

BackoffEnds(j) == BackoffOver(j) /\ Backend /\ UNCHANGED replies

PeopleAct(j) == People(j) /\ Backend /\ UNCHANGED replies

\* A request of the plugin arrives: it opens a handler or is answered at once.
Arrive(m) ==
  /\ \/ ReadRequest(m.op, m.job, m.token)
     \/ RefusedRequest(m.job, m.token) /\ UNCHANGED queueVars
  /\ outbox' = outbox \ {m}
  /\ NoFault /\ UNCHANGED <<journal, loaded, current, full, partly, replies>>

-----------------------------------------------------------------------------
(* Steps of the plugin. *)

Game == UNCHANGED <<queueVars, replies>>

\* The game thread takes up a delivery of a claim response.
TakeUp(d) ==
  /\ Take(d.job, d.token)
  /\ replies' = replies \ {d}
  /\ NoFault /\ UNCHANGED queueVars

WorkOn(w) ==
  /\ Step(w) \/ Offline(w) \/ WriteStep(w, TRUE)
  /\ Game /\ NoFault

\* The two steps that need luck: the buyer is on the server when the delivery
\* comes up, and the order can be given in full.
Greet(w) ==
  /\ BeginKnown(w) \/ BeginFresh(w, TRUE)
  /\ Game /\ NoFault

Give(w) == GiveAll(w) /\ Game /\ NoFault

\* Only part of the order fits: an accident of the game, not a fault.
Partial(w) == GivePart(w) /\ Game /\ NoFault

-----------------------------------------------------------------------------
(* Faults. *)

JournalFault(w) == WriteStep(w, FALSE) /\ Game /\ Fault

\* The claim responses on their way die with the game server.
ServerCrash ==
  /\ \E loads \in BOOLEAN : Crash(loads)
  /\ replies' = {}
  /\ Fault /\ UNCHANGED queueVars

LoseReply(d) == replies' = replies \ {d} /\ Fault /\ UNCHANGED <<queueVars, pluginVars>>

LoseRequest(m) ==
  /\ outbox' = outbox \ {m}
  /\ Fault
  /\ UNCHANGED <<queueVars, journal, loaded, current, full, partly, replies>>

Abandon ==
  /\ \/ \E h \in inflight : AbandonUpdate(h)
     \/ \E a \in advances : AbandonAdvance(a)
  /\ Fault /\ UNCHANGED <<pluginVars, replies>>

-----------------------------------------------------------------------------

Next ==
  \/ \E j \in Jobs : Poll(j) \/ Expire(j) \/ BackoffEnds(j) \/ PeopleAct(j)
  \/ \E h \in inflight : Lease(h) \/ FinishHandler(h)
  \/ \E a \in advances : AdvanceOrder(a)
  \/ \E m \in outbox : Arrive(m) \/ LoseRequest(m)
  \/ \E d \in replies : TakeUp(d) \/ LoseReply(d)
  \/ \E w \in current : WorkOn(w) \/ Partial(w) \/ JournalFault(w)
  \/ ServerCrash
  \/ Abandon

Spec == Init /\ [][Next]_vars

\* The plugin polls on a timer, the clocks advance, handlers and the game thread
\* run on, and requests are answered.
Running(j) ==
  /\ WF_vars(Poll(j)) /\ WF_vars(Expire(j)) /\ WF_vars(BackoffEnds(j))
  /\ WF_vars(\E h \in inflight : h.job = j /\ (Lease(h) \/ FinishHandler(h)))
  /\ WF_vars(\E a \in advances : a.job = j /\ AdvanceOrder(a))
  /\ WF_vars(\E m \in outbox : m.job = j /\ Arrive(m))
  /\ WF_vars(\E w \in current : w.job = j /\ WorkOn(w))

\* Claim responses are dispatched in turn, and a buyer whose order is offered
\* again and again is some day on the server, and some day able to take it.
Welcoming(j) ==
  /\ SF_vars(\E d \in replies : d.job = j /\ TakeUp(d))
  /\ SF_vars(\E w \in current : w.job = j /\ Greet(w))
  /\ SF_vars(\E w \in current : w.job = j /\ Give(w))

FairSpec == Spec /\ \A j \in Jobs : Running(j) /\ Welcoming(j)

-----------------------------------------------------------------------------
(* Properties. *)

\* An order the backend calls delivered is in the game, in full.
DeliveredMeansGiven ==
  \A j \in Jobs : order[j] = "delivered" \/ status[j] = "completed" => full[j] = 1

\* Unless there was a delay, a job whose order the game already holds is
\* dead-lettered only because a lease ran out unanswered, never by a failure
\* report.
OnlySilenceKillsAGrant ==
  [][\A j \in Jobs \ delayed :
       status[j] # "dead_letter" /\ status'[j] = "dead_letter" /\ full[j] + partly[j] > 0
         => expired[j]]_vars

\* The plugin cannot touch the game for j: it may have done so already, or it
\* cannot read its journal.  Only an operator can clear this up.
InDoubt(j) == ~loaded \/ journal[j] \in {"prepared", "mutating"}

\* Every paid order is settled in the end: again and again its job is found
\* completed or dead (a retry may reopen it), unless its delivery is in doubt.
EventuallySettled ==
  \A j \in Jobs : []<>(status[j] \in {"completed", "dead_letter"}) \/ <>[]InDoubt(j)

Outcome(j) ==
  IF order[j] \in {"delivered", "refunded"} THEN order[j] ELSE "open"

Held(j) ==
  IF full[j] > 0 THEN "all" ELSE IF partly[j] > 0 THEN "part" ELSE "nothing"

Contract == INSTANCE DeliveryContract
  WITH game <- [j \in Jobs |-> Held(j)],
       outcome <- [j \in Jobs |-> Outcome(j)],
       paidBack <- credits

\* The system keeps the shop's promise until a delivery meets a delay.
Promise == Contract!Init /\ [][Contract!Next \/ delayed' # {}]_(Contract!vars)

\* The backend inside the system behaves as the queue does on its own.
QueueAlone == QueueSpec
=============================================================================
