--------------------------- MODULE DeliveryPlugin ---------------------------
(***************************************************************************)
(* The game server's half of order delivery: PollPendingOrders running one *)
(* claimed delivery at a time on the game thread, and the DeliveryJournal  *)
(* file that decides whether the game may be touched.  Each journal        *)
(* operation and the game mutation are steps of their own, and the server  *)
(* may crash before any of them; the journal and the game survive.         *)
(*                                                                         *)
(* The journal file is replaced atomically and memory is rolled back when  *)
(* the replacement fails, so one variable stands for both.  "ok" is whether*)
(* the replacement succeeds.  A job's payload never changes, so Begin      *)
(* cannot answer PayloadMismatch.                                          *)
(***************************************************************************)
EXTENDS Naturals, Deliveries

JournalStates == {"none", "prepared", "mutating", "completed"}
Stages == {"begin", "mark", "give", "record"}

Work == [job : Jobs, token : Tokens, stage : Stages]
Request == [op : Requests, job : Jobs, token : Tokens]

VARIABLES
  journal,   \* DeliveryJournal record of each job
  loaded,    \* the journal file could be read when the plugin started
  current,   \* the delivery the game thread is in: a singleton, or empty
  full,      \* how often the whole order was put into the game
  partly,    \* how often only a part of it was
  outbox     \* requests on their way to the backend

pluginVars == <<journal, loaded, current, full, partly, outbox>>

PluginTypeOK ==
  /\ journal \in [Jobs -> JournalStates]
  /\ loaded \in BOOLEAN
  /\ current \subseteq Work
  /\ full \in [Jobs -> Nat]
  /\ partly \in [Jobs -> Nat]
  /\ outbox \subseteq Request

PluginInit ==
  /\ journal = [j \in Jobs |-> "none"]
  /\ loaded \in BOOLEAN
  /\ current = {}
  /\ full = [j \in Jobs |-> 0]
  /\ partly = [j \in Jobs |-> 0]
  /\ outbox = {}

-----------------------------------------------------------------------------

\* The game thread leaves delivery w and sends the backend one request.
Send(w, op) ==
  /\ current' = {}
  /\ outbox' = outbox \cup {[op |-> op, job |-> w.job, token |-> w.token]}

GoTo(w, stage) ==
  /\ current' = {[w EXCEPT !.stage = stage]}
  /\ UNCHANGED outbox

Journal(j, state) == journal' = [journal EXCEPT ![j] = state]

\* The next delivery of a claim response.
Take(j, t) ==
  /\ current = {}
  /\ current' = {[job |-> j, token |-> t, stage |-> "begin"]}
  /\ UNCHANGED <<journal, loaded, full, partly, outbox>>

\* The buyer is not on the server.
Offline(w) ==
  /\ w.stage = "begin"
  /\ Send(w, "release")
  /\ UNCHANGED <<journal, loaded, full, partly>>

\* Mutant: an unfinished record is acknowledged like a completed one.
BeginAcknowledges(w) ==
  /\ w.stage = "begin"
  /\ ~loaded \/ journal[w.job] # "none"
  /\ Send(w, IF loaded THEN "complete" ELSE "release")
  /\ UNCHANGED <<journal, loaded, full, partly>>

\* Mutant: an unfinished record is reported as a failure.
BeginFails(w) ==
  /\ w.stage = "begin"
  /\ ~loaded \/ journal[w.job] # "none"
  /\ Send(w, IF ~loaded THEN "release"
             ELSE IF journal[w.job] = "completed" THEN "complete" ELSE "fail")
  /\ UNCHANGED <<journal, loaded, full, partly>>

\* Begin: a record from an earlier run is acknowledged when it is completed and
\* otherwise left for an operator; an unreadable journal defers everything.
BeginKnown(w) ==
  /\ w.stage = "begin"
  /\ ~loaded \/ journal[w.job] # "none"
  /\ Send(w, IF loaded /\ journal[w.job] = "completed" THEN "complete" ELSE "release")
  /\ UNCHANGED <<journal, loaded, full, partly>>

\* Mutant: an unfinished record is simply started over.
BeginAnew(w, ok) ==
  /\ w.stage = "begin"
  /\ loaded /\ journal[w.job] # "completed"
  /\ IF ok THEN Journal(w.job, "prepared") /\ GoTo(w, "mark")
           ELSE Send(w, "release") /\ UNCHANGED journal
  /\ UNCHANGED <<loaded, full, partly>>

BeginFresh(w, ok) ==
  /\ w.stage = "begin"
  /\ loaded /\ journal[w.job] = "none"
  /\ IF ok THEN Journal(w.job, "prepared") /\ GoTo(w, "mark")
           ELSE Send(w, "release") /\ UNCHANGED journal
  /\ UNCHANGED <<loaded, full, partly>>

\* MarkMutating before any game state is touched.
Mark(w, ok) ==
  /\ w.stage = "mark"
  /\ IF ok /\ journal[w.job] = "prepared"
       THEN Journal(w.job, "mutating") /\ GoTo(w, "give")
       ELSE Send(w, "release") /\ UNCHANGED journal
  /\ UNCHANGED <<loaded, full, partly>>

\* Abort never removes a completed record.
Abort(j, ok) ==
  IF ok /\ journal[j] # "completed" THEN Journal(j, "none") ELSE UNCHANGED journal

\* The whole order is in the game.
GiveAll(w) ==
  /\ w.stage = "give"
  /\ full' = [full EXCEPT ![w.job] = @ + 1]
  /\ GoTo(w, "record")
  /\ UNCHANGED <<journal, loaded, partly>>

\* Mutant: a partial delivery is reported as a failure.
GivePartFails(w) ==
  /\ w.stage = "give"
  /\ partly' = [partly EXCEPT ![w.job] = @ + 1]
  /\ Send(w, "fail")
  /\ UNCHANGED <<journal, loaded, full>>

\* Part of it is: the record stays "mutating" and the lease is handed back.
GivePart(w) ==
  /\ w.stage = "give"
  /\ partly' = [partly EXCEPT ![w.job] = @ + 1]
  /\ Send(w, "release")
  /\ UNCHANGED <<journal, loaded, full>>

\* The game was not touched: inventory full, buyer busy (release) or an order
\* that cannot be given (fail).  Whether Abort worked does not change the answer.
GiveNothing(w, op, ok) ==
  /\ w.stage = "give" /\ op \in {"release", "fail"}
  /\ Abort(w.job, ok)
  /\ Send(w, op)
  /\ UNCHANGED <<loaded, full, partly>>

\* Complete in the journal before the backend is told; if the record cannot be
\* written the acknowledgement is suppressed and the lease runs out.
Record(w, ok) ==
  /\ w.stage = "record"
  /\ IF ok THEN Journal(w.job, "completed") /\ Send(w, "complete")
           ELSE current' = {} /\ UNCHANGED <<journal, outbox>>
  /\ UNCHANGED <<loaded, full, partly>>

\* The game server dies, with the requests that had not left it, and comes back;
\* "loads" is whether Load can read the journal file.
Crash(loads) ==
  /\ current' = {}
  /\ loaded' = loads
  /\ outbox' \in SUBSET outbox
  /\ UNCHANGED <<journal, full, partly>>

\* The game thread's steps that write no file, and those that do.
Step(w) == BeginKnown(w) \/ GiveAll(w)

WriteStep(w, ok) ==
  \/ BeginFresh(w, ok)
  \/ Mark(w, ok)
  \/ Record(w, ok)
  \/ \E op \in {"release", "fail"} : GiveNothing(w, op, ok)

PluginNext ==
  \/ \E j \in Jobs, t \in Tokens : Take(j, t)
  \/ \E w \in current :
       \/ Offline(w)
       \/ Step(w)
       \/ GivePart(w)
       \/ \E ok \in BOOLEAN : WriteStep(w, ok)
  \/ \E loads \in BOOLEAN : Crash(loads)
  \/ \E m \in outbox :
       outbox' = outbox \ {m} /\ UNCHANGED <<journal, loaded, current, full, partly>>

PluginSpec == PluginInit /\ [][PluginNext]_pluginVars

-----------------------------------------------------------------------------

\* An order reaches the game at most once, wholly or in part, however often its
\* job is claimed again, the server crashes or the journal cannot be written.
AtMostOnce == \A j \in Jobs : full[j] + partly[j] <= 1

\* Why: the journal record is ahead of the game.  A record allows the mutation
\* exactly once, between "mutating" and the record's completion or erasure.
JournalLeads ==
  /\ \A v, w \in current : v = w
  /\ \A w \in current :
       /\ w.stage = "give" =>
            journal[w.job] = "mutating" /\ full[w.job] = 0 /\ partly[w.job] = 0
       /\ w.stage = "record" =>
            journal[w.job] = "mutating" /\ full[w.job] = 1 /\ partly[w.job] = 0
  /\ \A j \in Jobs :
       /\ journal[j] \in {"none", "prepared"} => full[j] = 0 /\ partly[j] = 0
       /\ journal[j] = "completed" => full[j] = 1 /\ partly[j] = 0

\* The backend is told "complete" only for an order the game has in full, and
\* "fail" (which can end in a refund) only while the game has nothing of it.
HonestAnswers ==
  [][\A m \in outbox' \ outbox :
       /\ m.op = "complete" => full'[m.job] = 1 /\ partly'[m.job] = 0
       /\ m.op = "fail" => full'[m.job] = 0 /\ partly'[m.job] = 0]_pluginVars
=============================================================================
