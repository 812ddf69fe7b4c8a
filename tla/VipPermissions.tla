--------------------------- MODULE VipPermissions ---------------------------
(***************************************************************************)
(* How a VIP membership reaches the game: one player's memberships of one  *)
(* permission group, the add and remove jobs the backend queues for them,  *)
(* and the game servers that claim a job, run it against the Permissions   *)
(* plugin and report back.  The plugin keeps the entries in a store the    *)
(* cluster shares; every server answers from a copy that it reads again    *)
(* from time to time, and writes back what it changes in that copy.        *)
(*                                                                         *)
(* The backend's transactions on memberships and on finished jobs are      *)
(* serializable, one step each.  Claiming is not: candidates, live leases  *)
(* and recent completions are read one after another, older expired leases *)
(* give way one by one, then a job is leased by a conditional update.  A   *)
(* server handles one job at a time; its calls into the Permissions plugin *)
(* are a step each.  How many attempts a job has is DeliveryQueue's        *)
(* matter: here any failure may be its last.                               *)
(***************************************************************************)
EXTENDS Naturals, FiniteSets, Sequences

CONSTANTS
  Rows,              \* the player's membership rows of the group
  Permanent,         \* those that never end by themselves
  Servers,           \* servers that advertise permissions.group.v1
  Timed,             \* their Permissions plugin has timed groups
  NoServer,
  MaxJobs,           \* bound on the jobs that are queued
  Faults             \* what may happen: a server is slower than its lease
                     \* ("slow"), no server row is active ("unhosted")

ASSUME VipConstants ==
  /\ Faults \subseteq {"slow", "unhosted"}
  /\ Permanent \subseteq Rows
  /\ Timed \in BOOLEAN /\ NoServer \notin Servers
  /\ MaxJobs \in Nat

Jobs == 1 .. MaxJobs           \* in the order of their creation
Adds == {"addTimed", "addPermanent"}
Actions == Adds \cup {"remove"}

VARIABLES
  row,               \* of each membership: "none", "active" or "ended"
  sync,              \* its syncStatus
  action, status,    \* of each job
  over,              \* the timed adds whose end date has passed
  backoff, expired,  \* its nextRetryAt is to come; its lease has run out
  host,              \* the server that has its lease
  pin,               \* the server that completed a job a moment ago
  seen,              \* of each server: the job its claim has read
  work,              \* the job it was leased, and how far it is with it
  journal,           \* of each server: the jobs its journal has completed
  store,             \* the player's entries in the group: "timed", "permanent"
  cache,             \* of each server: its copy of them
  news,              \* (history) of each server: whether another has changed them
                     \* since it read them ("change"), whether that other has
                     \* completed a job since ("done"), or has lost its lease
                     \* without ("torn"); else "none"
  missed,            \* (history) the last change could not be queued
  astray             \* (history) jobs may have run out of their order, a server
                     \* may have left half done what another had done, or may
                     \* have worked from an old copy with nothing to keep it

members == <<row, sync, missed>>
jobs == <<action, status, over, backoff, expired, host>>
servers == <<seen, work, journal, news>>
game == <<store, cache>>
vars == <<members, jobs, pin, servers, game, astray>>

None == [job |-> 0]
Exists(j) == status[j] # "none"
Open == {j \in Jobs : status[j] \in {"pending", "leased"}}
Later(j) == {k \in Jobs : k > j /\ Exists(k)}
Newest(S) == CHOOSE j \in S : \A k \in S : k <= j
ActiveIn(R) == {r \in Rows : R[r] = "active"}
Active == ActiveIn(row)
Ended == {r \in Rows : row[r] = "ended"}
\* The rows a job is for.
Wanted(a) == IF a \in Adds THEN Active ELSE Ended

Init ==
  /\ row = [r \in Rows |-> "none"] /\ sync = [r \in Rows |-> "none"]
  /\ action = [j \in Jobs |-> "none"] /\ status = [j \in Jobs |-> "none"]
  /\ over = {}
  /\ backoff = [j \in Jobs |-> FALSE] /\ expired = [j \in Jobs |-> FALSE]
  /\ host = [j \in Jobs |-> NoServer]
  /\ pin = NoServer
  /\ seen = [s \in Servers |-> None] /\ work = [s \in Servers |-> None]
  /\ journal = [s \in Servers |-> {}]
  /\ store = {} /\ cache = [s \in Servers |-> {}] /\ news = [s \in Servers |-> "none"]
  /\ missed = FALSE /\ astray = FALSE

\* Jobs are settled: whatever there was of a lease or a backoff is gone.
Close(settled, how) ==
  /\ status' = [j \in Jobs |-> IF j \in settled THEN how ELSE status[j]]
  /\ backoff' = [j \in Jobs |-> backoff[j] /\ j \notin settled]
  /\ expired' = [j \in Jobs |-> expired[j] /\ j \notin settled]
  /\ host' = [j \in Jobs |-> IF j \in settled THEN NoServer ELSE host[j]]

-----------------------------------------------------------------------------
(* The backend queues jobs. *)

\* enqueuePermissionJob, in a transaction that leaves the memberships at R and
\* S: it replaces the pending jobs, or, without a server, queues nothing and
\* marks the rows it would have been for, those that are pending, unqueued.
Enqueue(a, R, S) ==
  /\ row' = R
  /\ \/ LET n == Cardinality({j \in Jobs : Exists(j)}) + 1
            pending == {j \in Jobs : status[j] = "pending"}
        IN  /\ n \in Jobs
            /\ action' = [action EXCEPT ![n] = a]
            /\ status' = [j \in Jobs |-> IF j = n THEN "pending"
                                         ELSE IF j \in pending THEN "superseded"
                                         ELSE status[j]]
            /\ backoff' = [j \in Jobs |-> backoff[j] /\ j \notin pending]
            /\ sync' = S /\ missed' = FALSE
     \/ /\ "unhosted" \in Faults
        /\ sync' = [r \in Rows |->
                      IF S[r] = "pending" /\ (r \in ActiveIn(R)) = (a \in Adds)
                      THEN "unqueued" ELSE S[r]]
        /\ missed' = TRUE
        /\ UNCHANGED <<action, status, backoff>>
  /\ UNCHANGED <<expired, host, pin, servers, astray>>

\* groupHoldUntil: the hold is permanent as soon as one row is.
Hold(R) == IF ActiveIn(R) \cap Permanent # {} THEN "addPermanent" ELSE "addTimed"
Set(S, value) == [r \in Rows |-> IF r \in S THEN value ELSE sync[r]]

\* grantMembership: a purchase or an administrator adds a row.
Grant(r) ==
  /\ row[r] = "none"
  /\ LET R == [row EXCEPT ![r] = "active"] IN Enqueue(Hold(R), R, Set({r}, "pending"))
  /\ UNCHANGED <<over, game>>

\* adminExtend: a row and the rows chained after it end later.
Extend(r) ==
  /\ r \in Active \ Permanent
  /\ \E chained \in SUBSET (Active \ {r}) :
       Enqueue(Hold(row), row, Set(chained \cup {r}, "pending"))
  /\ UNCHANGED <<over, game>>

Without(r) == [row EXCEPT ![r] = "ended"]

\* removeGroupIfUnheld queues a removal when the last row ends.
IsLast(r) == Active = {r}

\* adminRevoke.  Rows chained after r move forward and are pending; the group
\* is asserted again when the hold on it now ends sooner.
Revoke(r) ==
  /\ r \in Active
  /\ \/ IsLast(r) /\ Enqueue("remove", Without(r), Set({r}, "pending"))
     \/ /\ ~IsLast(r)
        /\ \E moved \in SUBSET (IF r \in Permanent THEN {} ELSE Active \ ({r} \cup Permanent)) :
             LET S == [Set(moved, "pending") EXCEPT ![r] = "synced"]
             IN  \/ /\ Hold(Without(r)) = "addTimed"
                    /\ Enqueue("addTimed", Without(r), S)
                 \/ /\ Hold(Without(r)) = Hold(row) /\ moved # Active \ {r}
                    /\ row' = Without(r) /\ sync' = S
                    /\ UNCHANGED <<missed, action, status, backoff, expired, host,
                                   pin, servers, astray>>
  /\ UNCHANGED <<over, game>>

\* The game drops a timed entry at its end date; an old copy may have another date.
DropTimed ==
  /\ store' = store \ {"timed"}
  /\ cache' = [s \in Servers |-> IF news[s] = "none" THEN cache[s] \ {"timed"} ELSE cache[s]]

\* expireDue: nothing is asserted again, and an expired row keeps its
\* syncStatus.  With the last row the end date of every timed add has passed,
\* and the game has dropped the timed entry itself.
Expire(r) ==
  /\ r \in Active \ Permanent
  /\ \/ /\ IsLast(r)
        /\ Enqueue("remove", Without(r), sync)
        /\ over' = {j \in Jobs : action[j] = "addTimed"}
        /\ DropTimed
     \/ /\ ~IsLast(r)
        /\ row' = Without(r) /\ sync' = Set({r}, "synced")
        /\ UNCHANGED <<missed, jobs, pin, servers, game, astray>>

\* resyncUser, by an administrator or for rows that are unqueued.
Resync ==
  /\ \E r \in Rows : row[r] # "none"
  /\ LET a == IF Active = {} THEN "remove" ELSE Hold(row)
     IN  Enqueue(a, row, Set(Wanted(a), "pending"))
  /\ UNCHANGED <<over, game>>

\* DeliveryAdminService.retry: not while a newer job exists.
AdminRetry(j) ==
  /\ status[j] = "dead_letter" /\ Later(j) = {}
  /\ status' = [status EXCEPT ![j] = "pending"]
  /\ UNCHANGED <<members, action, over, backoff, expired, host, pin, servers, game,
                 astray>>

-----------------------------------------------------------------------------
(* A server claims a job. *)

Claimable(j) == \/ status[j] = "pending" /\ ~backoff[j]
                \/ status[j] = "leased" /\ expired[j]
Live(j) == status[j] = "leased" /\ ~expired[j]

\* Mutant: a job goes to any server.
AnyServer(s) == TRUE

\* The key stays with the server that completed its last job a moment ago.
PinnedTo(s) == pin \in {s, NoServer}

\* claimablePermissionJobs.  First the candidates are read: the newest of them may
\* be handed out, older ones with an expired lease are to give way.
ReadCandidates(s) ==
  /\ seen[s] = None /\ work[s] = None
  /\ \E j \in Jobs : Claimable(j)
  /\ LET j == Newest({k \in Jobs : Claimable(k)})
         older == {k \in Jobs : Claimable(k) /\ status[k] = "leased" /\ k # j}
     IN  seen' = [seen EXCEPT ![s] = [job |-> j, status |-> status[j], host |-> host[j],
                                      older |-> older, at |-> "live"]]
  /\ UNCHANGED <<members, jobs, pin, work, journal, news, game, astray>>

Reading(s, at) == seen[s] # None /\ seen[s].at = at

\* What was read leads on to the next step, or the job is not handed out.
Proceed(s, handed, next) ==
  /\ seen' = [seen EXCEPT ![s] =
       IF handed THEN [@ EXCEPT !.at = next]
       ELSE IF @.older = {} THEN None ELSE [@ EXCEPT !.at = "close"]]
  /\ UNCHANGED <<members, jobs, pin, work, journal, news, game, astray>>

\* Then the live leases.  One that had expired when the candidates were read does
\* not count, one that has expired since does.
ReadLive(s) ==
  /\ Reading(s, "live")
  /\ LET known == seen[s].older \cup {seen[s].job}
     IN  Proceed(s, \A k \in Jobs : status[k] = "leased" => expired[k] /\ k \in known, "pin")

\* Then the recent completions.
ReadPin(s) == Reading(s, "pin") /\ Proceed(s, PinnedTo(s), "lease")

\* Then the older leases give way, if they are still expired.
Supersede(s, k) ==
  /\ Reading(s, "lease") \/ Reading(s, "close")
  /\ k \in seen[s].older
  /\ Close({k} \cap {i \in Jobs : status[i] = "leased" /\ expired[i]}, "superseded")
  /\ LET rest == seen[s].older \ {k}
     IN  seen' = [seen EXCEPT ![s] = IF @.at = "close" /\ rest = {} THEN None
                                     ELSE [@ EXCEPT !.older = rest]]
  /\ UNCHANGED <<members, action, over, pin, work, journal, news, game, astray>>

\* The conditional update: the job has the status, the lease token and the
\* serverId it was read with.  A job that was leased and released since has no
\* token again, and passes if the server that released it is the one the job
\* was queued for; the serverId of a pending job is not kept here, so the update
\* may fail as well as pass.  The server that has a lease stands for its token.
Unchanged(s) ==
  LET j == seen[s].job
  IN  status[j] = seen[s].status /\ host[j] = seen[s].host /\ (status[j] = "leased" => expired[j])

Forget(s) == seen' = [seen EXCEPT ![s] = None]
MayLease(s) == Reading(s, "lease") /\ seen[s].older = {}

LoseClaim(s) ==
  /\ MayLease(s) /\ (~Unchanged(s) \/ seen[s].status = "pending")
  /\ Forget(s)
  /\ UNCHANGED <<members, jobs, pin, work, journal, news, game, astray>>

Claim(s) ==
  /\ MayLease(s) /\ Unchanged(s)
  /\ LET j == seen[s].job
     IN  /\ status' = [status EXCEPT ![j] = "leased"]
         /\ expired' = [expired EXCEPT ![j] = FALSE]
         /\ backoff' = [backoff EXCEPT ![j] = FALSE]
         /\ host' = [host EXCEPT ![j] = s]
         /\ work' = [work EXCEPT ![s] = [job |-> j, at |-> "reply"]]
         /\ astray' = (astray \/ \E k \in Open : k > j \/ Live(k))
  /\ Forget(s)
  /\ UNCHANGED <<members, action, over, pin, journal, news, game>>

\* onPermissionJobFinished: unless another job is open, the rows the job was
\* for learn the outcome.
Finished(j, outcome) ==
  LET other == Open \ {j} # {}
  IN  sync' = [r \in Rows |-> IF ~other /\ r \in Wanted(action[j]) THEN outcome ELSE sync[r]]

\* Mutant: a dead job counts as done.
DeadLetterAsDone(j) == Close({j}, "dead_letter") /\ Finished(j, "synced")

DeadLetter(j) == Close({j}, "dead_letter") /\ Finished(j, "failed")

\* An expired lease that leaves no attempt is dead-lettered in the claim.
DeadLetterExpired(s) ==
  /\ MayLease(s) /\ Unchanged(s) /\ seen[s].status = "leased"
  /\ DeadLetter(seen[s].job)
  /\ Forget(s)
  /\ UNCHANGED <<row, missed, action, over, pin, work, journal, news, game, astray>>

-----------------------------------------------------------------------------
(* A server runs a job. *)

\* Mutant: an add does not clear the entries of another kind.
PlanOnTop(a) ==
  CASE a = "addTimed" /\ Timed -> <<"dropTimed", "putTimed">>
    [] a = "addPermanent" \/ (a = "addTimed" /\ ~Timed) -> <<"putPermanent">>
    [] a = "remove" -> (IF Timed THEN <<"dropTimed">> ELSE <<>>) \o <<"dropPermanent">>

\* BuildPlan: with timed groups an add clears the old entry first, so that a
\* permanent one does not outlive the end date the backend owns.
Plan(a) ==
  CASE a = "addTimed" /\ Timed -> <<"dropPermanent", "dropTimed", "putTimed">>
    [] a = "addPermanent" \/ (a = "addTimed" /\ ~Timed) -> <<"putPermanent">>
    [] a = "remove" -> (IF Timed THEN <<"dropTimed">> ELSE <<>>) \o <<"dropPermanent">>

\* Whether the copy a call finds is already as it asks: then nothing is written.
\* A permanent member is not put into the timed group; that counts as done.
Already(step, copy) ==
  CASE step = "dropPermanent" -> "permanent" \notin copy
    [] step = "dropTimed" -> "timed" \notin copy
    [] step \in {"putPermanent", "putTimed"} -> "permanent" \in copy

After(step, entries) ==
  CASE step = "dropPermanent" -> entries \ {"permanent"}
    [] step = "dropTimed" -> entries \ {"timed"}
    [] step = "putPermanent" -> entries \cup {"permanent"}
    [] step = "putTimed" -> entries \cup {"timed"}

\* A call into the Permissions plugin: the server answers from its copy, and what
\* it changes there it writes to the store, the entry alone or with the rest of
\* the row as the copy has it.
Call(s) ==
  LET step == Head(work[s].steps)
  IN  IF Already(step, cache[s]) THEN UNCHANGED <<game, news>>
      ELSE /\ store' \in {After(step, store), After(step, cache[s])}
           /\ cache' = [cache EXCEPT ![s] = After(step, @)]
           /\ news' = [t \in Servers |-> IF t # s /\ news[t] = "none" THEN "change" ELSE news[t]]

\* Its copy is old, and nothing has kept it from the job.
Misled(s) == cache[s] # store /\ news[s] = "torn"

Busy(s, at) == work[s] # None /\ work[s].at = at
Report(s, says) == work' = [work EXCEPT ![s] = [job |-> @.job, at |-> "report", says |-> says]]
Local(s) == UNCHANGED <<members, jobs, pin, seen, astray, news, game>>

\* No bridge to the Permissions plugin, a group this server does not allow, or
\* a journal that cannot be written: the lease goes back.
HandBack(s) ==
  /\ Busy(s, "reply")
  /\ Report(s, "release")
  /\ UNCHANGED journal /\ Local(s)

\* The payload cannot be read, or is not the one in the journal.
Reject(s) ==
  /\ Busy(s, "reply")
  /\ Report(s, "fail")
  /\ UNCHANGED journal /\ Local(s)

\* The journal has it completed: only acknowledge.
AlreadyDone(s) ==
  /\ Busy(s, "reply") /\ work[s].job \in journal[s]
  /\ Report(s, "complete")
  /\ UNCHANGED journal /\ Local(s)

\* BeginJournal: an unfinished record is begun again, as if there were none; so
\* only completed records are kept here.  Nothing is left to do
\* for an add whose end date has passed.
Begin(s) ==
  /\ Busy(s, "reply") /\ work[s].job \notin journal[s]
  /\ LET j == work[s].job
         steps == IF j \in over THEN <<>> ELSE Plan(action[j])
     IN  work' = [work EXCEPT ![s] = [job |-> j, at |-> "running", steps |-> steps,
                                      verify |-> steps # <<>> /\ action[j] \in Adds]]
  /\ UNCHANGED journal /\ Local(s)

RunStep(s) ==
  /\ Busy(s, "running") /\ work[s].steps # <<>>
  /\ Call(s)
  /\ work' = [work EXCEPT ![s].steps = Tail(@)]
  /\ astray' = (astray \/ Misled(s))
  /\ UNCHANGED <<journal, members, jobs, pin, seen>>

\* A run that ends early, of a job another server's journal has completed.
Undoes(s) == work[s].at = "running" /\ \E t \in Servers \ {s} : work[s].job \in journal[t]

\* A call reports an error, or faults, before or after its work.
StepFails(s) ==
  /\ Busy(s, "running") /\ work[s].steps # <<>>
  /\ \E says \in {"fail", "release"} : Report(s, says)
  /\ \/ Call(s) /\ astray' = (astray \/ Undoes(s) \/ Misled(s))
     \/ UNCHANGED <<news, game>> /\ astray' = (astray \/ Undoes(s))
  /\ UNCHANGED <<journal, members, jobs, pin, seen>>

\* After the steps of an add the player must be in the group, as the copy has it;
\* asking may fail or fault as well.
NotEffective(s) ==
  /\ Busy(s, "running") /\ work[s].steps = <<>> /\ work[s].verify
  /\ \E says \in {"fail", "release"} : Report(s, says)
  /\ UNCHANGED journal /\ Local(s)

Applied(s) ==
  /\ Busy(s, "running") /\ work[s].steps = <<>> /\ (work[s].verify => cache[s] # {})
  /\ \/ /\ journal' = [journal EXCEPT ![s] = @ \cup {work[s].job}]
        /\ Report(s, "complete")
     \/ UNCHANGED journal /\ Report(s, "release")      \* the journal is not written
  /\ Local(s)

-----------------------------------------------------------------------------
(* The report arrives; it counts only for the lease it was made for. *)

Valid(s) == status[work[s].job] = "leased" /\ host[work[s].job] = s
Idle(s) == work' = [work EXCEPT ![s] = None]

RefuseReport(s) ==
  /\ Busy(s, "report") /\ ~Valid(s)
  /\ Idle(s)
  /\ UNCHANGED <<members, jobs, pin, seen, journal, news, game, astray>>

\* Another server's claim is about to have the job give way, and has looked for
\* completions before.
Outrun(s) == \E t \in Servers \ {s} : Reading(t, "lease") /\ work[s].job \in seen[t].older

\* From now on the others are kept from the key until they have read the groups
\* again.
Complete(s) ==
  /\ Busy(s, "report") /\ Valid(s) /\ work[s].says = "complete"
  /\ Close({work[s].job}, "completed")
  /\ Finished(work[s].job, "synced")
  /\ pin' = s
  /\ news' = [t \in Servers |-> IF t = s \/ news[t] = "none" THEN news[t] ELSE "done"]
  /\ astray' = (astray \/ Outrun(s))
  /\ Idle(s)
  /\ UNCHANGED <<row, missed, action, over, seen, journal, game>>

\* A lease ends without a completion: nothing keeps those who have not read the
\* last change from the key any more.
Unpinned == news' = [t \in Servers |-> IF news[t] = "change" THEN "torn" ELSE news[t]]

\* Back to pending, behind a backoff.
Requeue(j) ==
  /\ status' = [status EXCEPT ![j] = "pending"]
  /\ backoff' = [backoff EXCEPT ![j] = TRUE]
  /\ expired' = [expired EXCEPT ![j] = FALSE]
  /\ host' = [host EXCEPT ![j] = NoServer]
  /\ astray' = (astray \/ Later(j) # {})
  /\ Unpinned
  /\ UNCHANGED sync

FailRetry(s) ==
  /\ Busy(s, "report") /\ Valid(s) /\ work[s].says = "fail"
  /\ Requeue(work[s].job)
  /\ Idle(s)
  /\ UNCHANGED <<row, missed, action, over, pin, seen, journal, game>>

FailFinal(s) ==
  /\ Busy(s, "report") /\ Valid(s) /\ work[s].says = "fail"
  /\ DeadLetter(work[s].job)
  /\ Unpinned
  /\ Idle(s)
  /\ UNCHANGED <<row, missed, action, over, pin, seen, journal, game, astray>>

Release(s) ==
  /\ Busy(s, "report") /\ Valid(s) /\ work[s].says = "release"
  /\ Requeue(work[s].job)
  /\ Idle(s)
  /\ UNCHANGED <<row, missed, action, over, pin, seen, journal, game>>

-----------------------------------------------------------------------------
(* Losses and time. *)

\* The claim's answer or the report is lost, or the server stops.
Lose(s) ==
  /\ work[s] # None
  /\ Idle(s)
  /\ astray' = (astray \/ Undoes(s))
  /\ UNCHANGED <<members, jobs, pin, seen, journal, news, game>>

BackoffOver(j) ==
  /\ backoff[j]
  /\ backoff' = [backoff EXCEPT ![j] = FALSE]
  /\ UNCHANGED <<members, action, status, over, expired, host, pin, servers, game, astray>>

\* A server that still has the job in hand when its lease runs out is slow.
InHand(j) == \E s \in Servers : work[s] # None /\ work[s].job = j /\ work[s].at # "report"

LeaseExpires(j) ==
  /\ Live(j)
  /\ InHand(j) => "slow" \in Faults
  /\ expired' = [expired EXCEPT ![j] = TRUE]
  /\ astray' = (astray \/ InHand(j))
  /\ Unpinned
  /\ UNCHANGED <<members, action, status, over, backoff, host, pin, seen, work, journal, game>>

\* The game drops a timed entry at the end date it was given: sooner than the
\* rows end while their newest add has not run, later when they were revoked.
Begun(j) == \E s \in Servers : j \in journal[s] \/ (Busy(s, "running") /\ work[s].job = j)

Lapse ==
  /\ "timed" \in store
  /\ \E j \in Jobs : /\ Exists(j) /\ Later(j) = {}
                     /\ (j \in Open /\ ~Begun(j)) \/ j \in over \/ action[j] = "remove"
  /\ DropTimed
  /\ UNCHANGED <<members, jobs, pin, servers, astray>>

\* And from an old copy at the end date that one has.
CopyLapse(s) ==
  /\ news[s] # "none" /\ "timed" \in cache[s]
  /\ cache' = [cache EXCEPT ![s] = @ \ {"timed"}]
  /\ UNCHANGED <<members, jobs, pin, servers, store, astray>>

\* ClusterSyncTime: a server reads the groups again.
ReadGroups(s) ==
  /\ news[s] # "none"
  /\ cache' = [cache EXCEPT ![s] = store]
  /\ news' = [news EXCEPT ![s] = "none"]
  /\ UNCHANGED <<members, jobs, pin, seen, work, journal, store, astray>>

\* The window is longer than the time in which every server reads them again.
PinEnds ==
  /\ pin # NoServer
  /\ \A s \in Servers : news[s] # "done"
  /\ pin' = NoServer
  /\ UNCHANGED <<members, jobs, servers, game, astray>>

Change == \/ \E r \in Rows : Grant(r) \/ Extend(r) \/ Revoke(r) \/ Expire(r)
          \/ Resync \/ \E j \in Jobs : AdminRetry(j)

Claiming(s) == \/ ReadCandidates(s) \/ ReadLive(s) \/ ReadPin(s)
               \/ \E k \in Jobs : Supersede(s, k)
               \/ LoseClaim(s) \/ Claim(s) \/ DeadLetterExpired(s)
Running(s) == \/ HandBack(s) \/ Reject(s) \/ AlreadyDone(s) \/ Begin(s) \/ RunStep(s)
              \/ StepFails(s) \/ NotEffective(s) \/ Applied(s)
Reporting(s) == \/ RefuseReport(s) \/ Complete(s) \/ FailRetry(s) \/ FailFinal(s)
                \/ Release(s)

Next == \/ Change
        \/ \E s \in Servers : \/ Claiming(s) \/ Running(s) \/ Reporting(s) \/ Lose(s)
                              \/ ReadGroups(s) \/ CopyLapse(s)
        \/ \E j \in Jobs : BackoffOver(j) \/ LeaseExpires(j)
        \/ PinEnds \/ Lapse

Spec == Init /\ [][Next]_vars

-----------------------------------------------------------------------------
(* Properties. *)

\* What a server has read of a job, and what it has in hand.
Candidates == [job : Jobs, status : {"pending", "leased"}, host : Servers \cup {NoServer},
               older : SUBSET Jobs, at : {"live", "pin", "lease", "close"}]
Steps == {"dropPermanent", "dropTimed", "putPermanent", "putTimed"}
Replies == [job : Jobs, at : {"reply"}]
Runs == [job : Jobs, at : {"running"}, steps : Seq(Steps), verify : BOOLEAN]
Reports == [job : Jobs, at : {"report"}, says : {"complete", "fail", "release"}]

TypeOK ==
  /\ row \in [Rows -> {"none", "active", "ended"}]
  /\ sync \in [Rows -> {"none", "pending", "synced", "failed", "unqueued"}]
  /\ missed \in BOOLEAN /\ astray \in BOOLEAN
  /\ over \subseteq Jobs
  /\ action \in [Jobs -> Actions \cup {"none"}]
  /\ status \in [Jobs -> {"none", "pending", "leased", "completed", "superseded", "dead_letter"}]
  /\ backoff \in [Jobs -> BOOLEAN] /\ expired \in [Jobs -> BOOLEAN]
  /\ host \in [Jobs -> Servers \cup {NoServer}]
  /\ \A j \in Jobs : /\ status[j] = "leased" <=> host[j] # NoServer
                     /\ expired[j] => status[j] = "leased"
                     /\ backoff[j] => status[j] = "pending"
                     /\ action[j] = "none" <=> status[j] = "none"
  /\ pin \in Servers \cup {NoServer}
  /\ seen \in [Servers -> {None} \cup Candidates]
  /\ work \in [Servers -> {None} \cup Replies \cup Runs \cup Reports]
  /\ journal \in [Servers -> SUBSET Jobs]
  /\ store \subseteq {"timed", "permanent"}
  /\ cache \in [Servers -> SUBSET {"timed", "permanent"}]
  /\ news \in [Servers -> {"none", "change", "done", "torn"}]

\* Once every job has run, the game has what the newest job asked for: whatever
\* was superseded, repeated, lost or crashed on the way, no older job and no
\* half-done attempt shows through.
NewestWins ==
  Open = {} /\ ~astray =>
    \A j \in Jobs : status[j] = "completed" /\ Later(j) = {} =>
      \/ j \in over
      \/ /\ store = {} <=> action[j] = "remove"
         /\ "permanent" \in store <=>
              action[j] = "addPermanent" \/ (action[j] = "addTimed" /\ ~Timed)

\* An active membership the backend calls synced is in the game, unless a job for
\* the group is still to run, or the last one could not be queued.
SyncedIsTrue ==
  \A r \in Active : sync[r] = "synced" => store # {} \/ Open # {} \/ missed \/ astray

\* A server runs a job from a copy that is what is stored: the key stays with the
\* server that changed it until the others have read the groups again.  It fails
\* only where a run that changed them has ended without a completion.
RunsFresh ==
  \A s \in Servers : Busy(s, "running") => cache[s] = store \/ news[s] = "torn" \/ astray

\* An add and a remove for one player are never applied out of order.
NeverOutOfOrder ==
  [][\A s \in Servers, j \in Jobs :
       ~(Busy(s, "running")) /\ Busy(s, "running")' /\ work'[s].job = j =>
         \A k \in Later(j) : status[k] # "completed"]_vars

\* The backend marks an active membership synced when the group is in the game.
SyncedIsGiven == \A r \in Active : sync[r] = "synced" => store # {} \/ Open # {}

\* A membership is never left pending with no job to wait for.
PendingHasJob ==
  \A r \in Rows : sync[r] = "pending" => Open # {} \/ astray

\* A membership that has ended and is not pending, failed or unqueued is out of
\* the game.
EndedIsGone ==
  Active = {} /\ Ended # {} /\ Open = {} /\ ~astray /\ (\A r \in Ended : sync[r] = "synced")
    => store = {}

\* A removal that has been completed as the last job has taken the player out of
\* the group.
RemovedIsGone ==
  Open = {} => \A j \in Jobs : status[j] = "completed" /\ Later(j) = {} /\ action[j] = "remove"
                 => store = {}

\* Once a job has been completed its key stays with the server that did it until the
\* others have read the groups again.
KeyIsKept == \A s \in Servers : Busy(s, "running") /\ news[s] = "done" => pin = s
=============================================================================
