----------------------- MODULE VipPermissions_proofs -----------------------
(***************************************************************************)
(* For any number of memberships, servers and jobs, whatever is slow, lost *)
(* or fails, until a job runs beside or after a newer one or a server      *)
(* works from an old copy that nothing has kept from the key: a server     *)
(* runs a job from a copy that is what is stored, or was made old by a run *)
(* that was never completed; once every job has run, the game has what the *)
(* newest job asked for; and a membership that is called synced is in the  *)
(* game.                                                                   *)
(***************************************************************************)
EXTENDS VipPermissions, FiniteSetTheorems, SequenceTheorems, TLAPS

\* The server has the job, and its lease counts.
Working(s) == Busy(s, "reply") \/ Busy(s, "running")

\* Jobs are numbered without gaps, and servers have none that was not queued.
Numbered ==
  /\ \E m \in 0 .. MaxJobs : {j \in Jobs : Exists(j)} = 1 .. m
  /\ \A s \in Servers : /\ seen[s] # None => Exists(seen[s].job)
                        /\ work[s] # None => Exists(work[s].job)

\* A copy nobody has changed since is what is stored.
CopiesAgree == \A s \in Servers : news[s] = "none" => cache[s] = store

Held == \A s \in Servers : Working(s) => host[work[s].job] = s /\ Live(work[s].job)

PendingIsNewest == \A j \in Jobs : status[j] = "pending" => Later(j) = {}

OneLease == \A j, k \in Jobs : status[j] = "leased" /\ status[k] = "leased" => j = k

\* A newer job beside a lease is still to run.
NewerIsPending ==
  \A j \in Jobs : status[j] = "leased" /\ Later(j) # {} => \E k \in Later(j) : status[k] = "pending"

\* A lease is in the hands of the server that completed the last job, if one did.
HostPinned == \A j \in Jobs : status[j] = "leased" => PinnedTo(host[j])

\* A server whose copy is old is kept from the key, by the lease under which it was
\* changed or because another has completed a job.
Guarded ==
  \A s \in Servers : /\ news[s] = "change" => \E j \in Jobs : Live(j) /\ host[j] # s
                     /\ news[s] = "done" => ~PinnedTo(s)

\* What a claim has read.  Older leases to close stay expired; once it has looked at
\* the live leases, no other older job is open; once it has looked at the
\* completions, it is the pinned server's, or it does not succeed.
SeenWell(s) ==
  seen[s] # None =>
    /\ \A k \in seen[s].older : /\ k < seen[s].job /\ Exists(k)
                                /\ status[k] = "leased" => expired[k]
    /\ seen[s].at \in {"pin", "lease"} =>
         \A k \in Open : k >= seen[s].job \/ k \in seen[s].older
    /\ seen[s].at = "lease" =>
         PinnedTo(s) \/ Later(seen[s].job) # {} \/ status[seen[s].job] = "completed"

Order == /\ Held /\ PendingIsNewest /\ OneLease /\ NewerIsPending
         /\ HostPinned /\ Guarded /\ \A s \in Servers : SeenWell(s)

Inv == TypeOK /\ Numbered /\ CopiesAgree /\ (astray \/ Order)

-----------------------------------------------------------------------------
(* Types, part by part. *)

Statuses == {"none", "pending", "leased", "completed", "superseded", "dead_letter"}

JobTypes ==
  /\ action \in [Jobs -> Actions \cup {"none"}]
  /\ status \in [Jobs -> Statuses]
  /\ host \in [Jobs -> Servers \cup {NoServer}]
  /\ backoff \in [Jobs -> BOOLEAN] /\ expired \in [Jobs -> BOOLEAN]

Agreement ==
  \A j \in Jobs : /\ status[j] = "leased" <=> host[j] # NoServer
                  /\ expired[j] => status[j] = "leased"
                  /\ backoff[j] => status[j] = "pending"
                  /\ action[j] = "none" <=> status[j] = "none"

MemberTypes ==
  /\ row \in [Rows -> {"none", "active", "ended"}]
  /\ sync \in [Rows -> {"none", "pending", "synced", "failed", "unqueued"}]
  /\ over \subseteq Jobs

ServerTypes ==
  /\ pin \in Servers \cup {NoServer}
  /\ seen \in [Servers -> {None} \cup Candidates]
  /\ work \in [Servers -> {None} \cup Replies \cup Runs \cup Reports]

Flags == missed \in BOOLEAN /\ astray \in BOOLEAN

GameTypes ==
  /\ journal \in [Servers -> SUBSET Jobs]
  /\ store \subseteq {"timed", "permanent"}
  /\ cache \in [Servers -> SUBSET {"timed", "permanent"}]
  /\ news \in [Servers -> {"none", "change", "done", "torn"}]

LEMMA Parts ==
  TypeOK <=> JobTypes /\ Agreement /\ MemberTypes /\ ServerTypes /\ Flags /\ GameTypes
  BY Zenon DEF TypeOK, JobTypes, Statuses, Agreement, MemberTypes, ServerTypes, Flags,
     GameTypes

\* A server's hands.
LEMMA Hands ==
  ASSUME ServerTypes, NEW s \in Servers
  PROVE  /\ seen[s] # None => /\ seen[s].job \in Jobs /\ seen[s].status \in {"pending", "leased"}
                              /\ seen[s].host \in Servers \cup {NoServer}
                              /\ seen[s].older \subseteq Jobs /\ seen[s] \in Candidates
         /\ work[s] # None => work[s].job \in Jobs /\ work[s].at \in {"reply", "running", "report"}
         /\ Busy(s, "running") => work[s] \in Runs
         /\ Busy(s, "report") => work[s] \in Reports
  BY DEF ServerTypes, Candidates, Replies, Runs, Reports, Busy

LEMMA SeenBecomes ==
  ASSUME ServerTypes, NEW t \in Servers, NEW r, seen' = [seen EXCEPT ![t] = r]
  PROVE  \A s \in Servers : seen'[s] = IF s = t THEN r ELSE seen[s]
  BY DEF ServerTypes

LEMMA WorkBecomes ==
  ASSUME ServerTypes, NEW t \in Servers, NEW w, work' = [work EXCEPT ![t] = w]
  PROVE  \A s \in Servers : work'[s] = IF s = t THEN w ELSE work[s]
  BY DEF ServerTypes

\* The newest of the candidates is one of them, and none is newer.
LEMMA NewestClaimable ==
  ASSUME NEW k0 \in Jobs, Claimable(k0)
  PROVE  LET j == Newest({k \in Jobs : Claimable(k)})
         IN  j \in Jobs /\ Claimable(j) /\ \A k \in Jobs : Claimable(k) => k <= j
<1> DEFINE S == {k \in Jobs : Claimable(k)}
           T == {n \in Nat : MaxJobs - n \in S}     \* their distance from the end
           Less == OpToRel(<, Nat)
<1>1. MaxJobs \in Nat /\ S \subseteq Jobs /\ k0 \in S
  BY VipConstants DEF VipConstants
<1>2. \E n \in S : \A k \in S : k <= n
  <2>1. MaxJobs - k0 \in T
    <3>1. MaxJobs - k0 \in Nat /\ MaxJobs - (MaxJobs - k0) = k0
      BY <1>1 DEF Jobs
    <3> QED
      BY <1>1, <3>1
  <2>2. PICK m \in T : \A n \in T : <<n, m>> \notin Less
    BY <2>1, NatLessThanWellFounded, WFMin
  <2>3. m \in Nat /\ MaxJobs - m \in S
    OBVIOUS
  <2>4. ASSUME NEW k \in S PROVE k <= MaxJobs - m
    <3>1. k \in Jobs
      BY <1>1
    <3>2. MaxJobs - k \in Nat /\ MaxJobs - (MaxJobs - k) = k
      BY <1>1, <3>1 DEF Jobs
    <3>3. MaxJobs - k \in T
      BY <2>4, <3>2
    <3>4. ~(MaxJobs - k < m)
      BY <2>2, <2>3, <3>2, <3>3 DEF OpToRel
    <3> QED
      BY <1>1, <2>3, <3>1, <3>4 DEF Jobs
  <2> QED
    BY <2>3, <2>4
<1>3. Newest(S) \in S /\ \A k \in S : k <= Newest(S)
  BY <1>2 DEF Newest
<1> QED
  BY <1>3

\* The number the next job gets.
LEMMA NextNumber ==
  ASSUME Numbered, NEW n, n = Cardinality({j \in Jobs : Exists(j)}) + 1, n \in Jobs
  PROVE  /\ status[n] = "none"
         /\ \A j \in Jobs : Exists(j) <=> j < n
<1>1. PICK m \in 0 .. MaxJobs : {j \in Jobs : Exists(j)} = 1 .. m
  BY DEF Numbered
<1>2. Cardinality(1 .. m) = m
  BY <1>1, FS_Interval, VipConstants DEF VipConstants
<1>3. n = m + 1
  BY <1>1, <1>2
<1> QED
  BY <1>1, <1>3, VipConstants DEF VipConstants, Jobs, Exists

\* What a step that queues does to the jobs.
Queued(n, a) ==
  /\ n \in Jobs /\ status[n] = "none" /\ \A j \in Jobs : Exists(j) <=> j < n
  /\ a \in Actions /\ action' = [action EXCEPT ![n] = a]
  /\ status' = [j \in Jobs |-> IF j = n THEN "pending"
                               ELSE IF status[j] = "pending" THEN "superseded"
                               ELSE status[j]]
  /\ backoff' = [j \in Jobs |-> backoff[j] /\ status[j] # "pending"]

\* Without a server nothing is queued.
Missed == missed' = TRUE /\ UNCHANGED <<action, status, backoff>>

LEMMA Enqueued ==
  ASSUME JobTypes, Numbered, NEW a \in Actions, NEW R, NEW S, Enqueue(a, R, S)
  PROVE  /\ (\E n \in Jobs : Queued(n, a)) \/ Missed
         /\ UNCHANGED <<expired, host, pin, servers, astray>>
<1>1. CASE Missed
  BY <1>1 DEF Enqueue
<1>2. ASSUME NEW n, n = Cardinality({j \in Jobs : Exists(j)}) + 1, n \in Jobs,
             NEW pending, pending = {j \in Jobs : status[j] = "pending"},
             action' = [action EXCEPT ![n] = a],
             status' = [j \in Jobs |-> IF j = n THEN "pending"
                                       ELSE IF j \in pending THEN "superseded"
                                       ELSE status[j]],
             backoff' = [j \in Jobs |-> backoff[j] /\ j \notin pending]
      PROVE  Queued(n, a)
  <2>1. status[n] = "none" /\ \A j \in Jobs : Exists(j) <=> j < n
    BY <1>2, NextNumber
  <2>2. \A j \in Jobs : j \in pending <=> status[j] = "pending"
    BY <1>2
  <2> QED
    BY <1>2, <2>1, <2>2, Zenon DEF Queued
<1>3. UNCHANGED <<expired, host, pin, servers, astray>>
  BY DEF Enqueue
<1> QED
  BY <1>1, <1>2, <1>3, Zenon DEF Enqueue, Missed

\* An administrator has put j back.
Revived(j) == status[j] = "dead_letter" /\ Later(j) = {} /\ status' = [status EXCEPT ![j] = "pending"]

LEMMA Changed ==
  ASSUME JobTypes, Numbered, Change
  PROVE  /\ UNCHANGED <<expired, host, pin, servers, astray>>
         /\ \/ \E n \in Jobs, a \in Actions : Queued(n, a)
            \/ \E j \in Jobs : Revived(j) /\ UNCHANGED <<action, backoff>>
            \/ UNCHANGED <<action, status, backoff>>
<1> DEFINE Said == /\ UNCHANGED <<expired, host, pin, servers, astray>>
                   /\ \/ \E n \in Jobs, a \in Actions : Queued(n, a)
                      \/ \E j \in Jobs : Revived(j) /\ UNCHANGED <<action, backoff>>
                      \/ UNCHANGED <<action, status, backoff>>
<1>1. \A R : Hold(R) \in Actions
  BY DEF Hold, Actions, Adds
<1>2. ASSUME NEW a \in Actions, NEW R, NEW S, Enqueue(a, R, S) PROVE Said
  BY <1>2, Enqueued DEF Missed
<1> HIDE DEF Said
<1>3. "remove" \in Actions /\ "addTimed" \in Actions
  BY DEF Actions, Adds
<1>4. ASSUME NEW r \in Rows, Grant(r) PROVE Said
  <2>1. PICK R, S : Enqueue(Hold(R), R, S)
    BY <1>4, Zenon DEF Grant
  <2> QED
    BY <1>1, <1>2, <2>1
<1>5. ASSUME NEW r \in Rows, Extend(r) PROVE Said
  <2>1. PICK R, S : Enqueue(Hold(R), R, S)
    BY <1>5, Zenon DEF Extend
  <2> QED
    BY <1>1, <1>2, <2>1
<1>6. ASSUME NEW r \in Rows, Revoke(r) PROVE Said
  <2>1. \/ \E a \in Actions : \E R, S : Enqueue(a, R, S)
        \/ UNCHANGED <<missed, action, status, backoff, expired, host, pin, servers, astray>>
    BY <1>3, <1>6, Zenon DEF Revoke
  <2>2. CASE UNCHANGED <<missed, action, status, backoff, expired, host, pin, servers, astray>>
    BY <2>2 DEF Said
  <2> QED
    BY <1>2, <2>1, <2>2
<1>7. ASSUME NEW r \in Rows, Expire(r) PROVE Said
  <2>1. \/ Enqueue("remove", Without(r), sync)
        \/ UNCHANGED <<missed, jobs, pin, servers, game, astray>>
    BY <1>7, Zenon DEF Expire
  <2>2. CASE UNCHANGED <<missed, jobs, pin, servers, game, astray>>
    BY <2>2 DEF Said, jobs
  <2> QED
    BY <1>2, <1>3, <2>1, <2>2
<1>8. CASE Resync
  <2>1. \E a \in Actions : \E R, S : Enqueue(a, R, S)
    <3> DEFINE a == IF Active = {} THEN "remove" ELSE Hold(row)
    <3>1. a \in Actions
      BY <1>1, <1>3
    <3>2. Enqueue(a, row, Set(Wanted(a), "pending"))
      BY <1>8, Zenon DEF Resync
    <3> QED
      BY <3>1, <3>2
  <2> QED
    BY <1>2, <2>1 DEF Said
<1>9. ASSUME NEW j \in Jobs, AdminRetry(j) PROVE Said
  BY <1>9 DEF AdminRetry, Revived, Said
<1> QED
  BY <1>4, <1>5, <1>6, <1>7, <1>8, <1>9 DEF Change, Said

\* A step in which a server s claims, runs or reports, or time passes, does one
\* of these to the jobs.
Leased(j, s) ==
  /\ status[j] \in {"pending", "leased"}
  /\ status' = [status EXCEPT ![j] = "leased"]
  /\ host' = [host EXCEPT ![j] = s]
  /\ expired' = [expired EXCEPT ![j] = FALSE] /\ backoff' = [backoff EXCEPT ![j] = FALSE]

Closing(settled) ==
  /\ \A j \in settled : j \in Jobs /\ status[j] = "leased"
  /\ \E how \in {"superseded", "completed", "dead_letter"} : Close(settled, how)

SameJobs == UNCHANGED <<status, backoff, expired, host>>

Requeued(j) ==
  /\ j \in Jobs /\ status[j] = "leased"
  /\ status' = [status EXCEPT ![j] = "pending"]
  /\ host' = [host EXCEPT ![j] = NoServer]
  /\ expired' = [expired EXCEPT ![j] = FALSE] /\ backoff' = [backoff EXCEPT ![j] = TRUE]

\* Steps that leave the jobs and the servers' hands alone.
Passing == \/ \E s \in Servers : ReadGroups(s) \/ CopyLapse(s)
           \/ PinEnds \/ Lapse \/ UNCHANGED vars

LEMMA ClaimingJobs ==
  ASSUME JobTypes, Agreement, ServerTypes, NEW s \in Servers, Claiming(s)
  PROVE  /\ UNCHANGED <<action, pin>>
         /\ SameJobs \/ (\E j \in Jobs : Leased(j, s)) \/ \E S : Closing(S)
<1>1. ASSUME NEW k \in Jobs, Supersede(s, k)
      PROVE  UNCHANGED <<action, pin>> /\ \E S : Closing(S)
  <2> DEFINE S == {k} \cap {i \in Jobs : status[i] = "leased" /\ expired[i]}
  <2>1. Close(S, "superseded") /\ UNCHANGED <<action, pin>>
    BY <1>1 DEF Supersede
  <2>2. \A j \in S : j \in Jobs /\ status[j] = "leased"
    OBVIOUS
  <2> HIDE DEF S
  <2> QED
    BY <2>1, <2>2 DEF Closing
<1>5. CASE ReadCandidates(s) \/ ReadLive(s) \/ ReadPin(s)
  BY <1>5 DEF ReadCandidates, ReadLive, ReadPin, Proceed, jobs, SameJobs
<1>2. CASE LoseClaim(s)
  BY <1>2 DEF LoseClaim, jobs, SameJobs
<1>3. CASE Claim(s)
  BY <1>3, Hands DEF Claim, MayLease, Reading, Leased, Unchanged
<1>4. CASE DeadLetterExpired(s)
  BY <1>4, Hands DEF DeadLetterExpired, MayLease, Reading, DeadLetter, Closing, Unchanged
<1> QED
  BY <1>1, <1>2, <1>3, <1>4, <1>5 DEF Claiming

LEMMA RunningJobs ==
  ASSUME NEW s \in Servers, Running(s)
  PROVE  UNCHANGED <<action, pin, seen>> /\ SameJobs
  BY DEF Running, HandBack, Reject, AlreadyDone, Begin, RunStep, StepFails, NotEffective,
     Applied, Local, jobs, SameJobs

LEMMA ReportingJobs ==
  ASSUME JobTypes, ServerTypes, NEW s \in Servers, Reporting(s)
  PROVE  /\ UNCHANGED <<action, seen>> /\ Idle(s)
         /\ \/ SameJobs
            \/ Closing({work[s].job})
            \/ Requeued(work[s].job) /\ astray' = (astray \/ Later(work[s].job) # {})
<1>1. CASE RefuseReport(s)
  BY <1>1 DEF RefuseReport, jobs, SameJobs
<1>2. CASE Complete(s)
  BY <1>2, Hands DEF Complete, Closing, Valid, Busy
<1>3. CASE FailRetry(s) \/ Release(s)
  BY <1>3, Hands DEF FailRetry, Release, Requeue, Requeued, Valid, Busy
<1>4. CASE FailFinal(s)
  BY <1>4, Hands DEF FailFinal, DeadLetter, Closing, Valid, Busy
<1> QED
  BY <1>1, <1>2, <1>3, <1>4 DEF Reporting

-----------------------------------------------------------------------------
(* Every step keeps the jobs' types and numbers. *)

LEMMA QueuedKeeps ==
  ASSUME JobTypes, Agreement, NEW n, NEW a, Queued(n, a), UNCHANGED <<expired, host>>
  PROVE  /\ JobTypes' /\ Agreement'
         /\ \A j \in Jobs : Exists(j)' <=> Exists(j) \/ j = n
<1> USE DEF JobTypes, Agreement, Queued, Statuses, Exists
<1>1. JobTypes'
  OBVIOUS
<1>2. \A j \in Jobs : Exists(j)' <=> Exists(j) \/ j = n
  OBVIOUS
<1>3. ASSUME NEW j \in Jobs
      PROVE  /\ status'[j] = "leased" <=> host'[j] # NoServer
             /\ expired'[j] => status'[j] = "leased"
             /\ backoff'[j] => status'[j] = "pending"
             /\ action'[j] = "none" <=> status'[j] = "none"
  BY DEF Actions, Adds
<1> QED
  BY <1>1, <1>2, <1>3

LEMMA RevivedKeeps ==
  ASSUME JobTypes, Agreement, NEW j \in Jobs, Revived(j),
         UNCHANGED <<action, backoff, expired, host>>
  PROVE  /\ JobTypes' /\ Agreement'
         /\ \A k \in Jobs : Exists(k)' <=> Exists(k)
  BY DEF JobTypes, Agreement, Revived, Statuses, Exists

LEMMA LeasedKeeps ==
  ASSUME JobTypes, Agreement, NEW j \in Jobs, NEW s \in Servers, Leased(j, s), action' = action
  PROVE  /\ JobTypes' /\ Agreement'
         /\ \A k \in Jobs : Exists(k)' <=> Exists(k)
  BY VipConstants DEF VipConstants, JobTypes, Agreement, Leased, Statuses, Exists

LEMMA ClosingKeeps ==
  ASSUME JobTypes, Agreement, NEW S, Closing(S), action' = action
  PROVE  /\ JobTypes' /\ Agreement'
         /\ \A k \in Jobs : Exists(k)' <=> Exists(k)
<1>1. PICK how \in {"superseded", "completed", "dead_letter"} : Close(S, how)
  BY DEF Closing
<1> QED
  BY <1>1 DEF JobTypes, Agreement, Closing, Close, Statuses, Exists

LEMMA RequeuedKeeps ==
  ASSUME JobTypes, Agreement, NEW j, Requeued(j), action' = action
  PROVE  /\ JobTypes' /\ Agreement'
         /\ \A k \in Jobs : Exists(k)' <=> Exists(k)
  BY DEF JobTypes, Agreement, Requeued, Statuses, Exists

LEMMA SameKeeps ==
  ASSUME JobTypes, Agreement, SameJobs, action' = action
  PROVE  /\ JobTypes' /\ Agreement'
         /\ \A k \in Jobs : Exists(k)' <=> Exists(k)
  BY DEF JobTypes, Agreement, SameJobs, Exists

LEMMA TimeKeeps ==
  ASSUME JobTypes, Agreement, NEW j \in Jobs, BackoffOver(j) \/ LeaseExpires(j)
  PROVE  /\ JobTypes' /\ Agreement'
         /\ \A k \in Jobs : Exists(k)' <=> Exists(k)
<1>1. CASE BackoffOver(j)
  BY <1>1 DEF JobTypes, Agreement, BackoffOver, Exists
<1>2. CASE LeaseExpires(j)
  BY <1>2 DEF JobTypes, Agreement, LeaseExpires, Live, Exists
<1> QED
  BY <1>1, <1>2

\* The jobs stay typed, and exactly the queued ones are added.
LEMMA JobsKept ==
  ASSUME JobTypes, Agreement, ServerTypes, Numbered, [Next]_vars
  PROVE  /\ JobTypes' /\ Agreement'
         /\ \/ \A j \in Jobs : Exists(j)' <=> Exists(j)
            \/ \E n \in Jobs : /\ \A j \in Jobs : Exists(j) <=> j < n
                               /\ \A j \in Jobs : Exists(j)' <=> j <= n
<1> DEFINE Good == /\ JobTypes' /\ Agreement'
                   /\ \/ \A j \in Jobs : Exists(j)' <=> Exists(j)
                      \/ \E n \in Jobs : /\ \A j \in Jobs : Exists(j) <=> j < n
                                         /\ \A j \in Jobs : Exists(j)' <=> j <= n
<1>1. CASE Change
  <2>1. ASSUME NEW n \in Jobs, NEW a \in Actions, Queued(n, a), UNCHANGED <<expired, host>>
        PROVE  Good
    <3>1. /\ JobTypes' /\ Agreement'
          /\ \A j \in Jobs : Exists(j)' <=> Exists(j) \/ j = n
      BY <2>1, QueuedKeeps
    <3>2. \A j \in Jobs : Exists(j) <=> j < n
      BY <2>1 DEF Queued
    <3>3. \A j \in Jobs : Exists(j)' <=> j <= n
      <4>1. \A j \in Jobs : j <= n <=> j < n \/ j = n
        BY VipConstants DEF Jobs, VipConstants
      <4> QED
        BY <3>1, <3>2, <4>1, Zenon
    <3> QED
      BY <3>1, <3>2, <3>3, Zenon
  <2>2. ASSUME UNCHANGED <<action, status, backoff, expired, host>> PROVE Good
    BY <2>2, SameKeeps, Zenon DEF SameJobs
  <2>3. ASSUME NEW j \in Jobs, Revived(j), UNCHANGED <<action, backoff, expired, host>>
        PROVE  Good
    BY <2>3, RevivedKeeps, Zenon
  <2> QED
    BY <1>1, <2>1, <2>2, <2>3, Changed, Zenon
<1>2. ASSUME NEW s \in Servers, Claiming(s) PROVE Good
  BY <1>2, ClaimingJobs, SameKeeps, LeasedKeeps, ClosingKeeps, Zenon
<1>3. ASSUME NEW s \in Servers, Running(s) PROVE Good
  BY <1>3, RunningJobs, SameKeeps, Zenon
<1>4. ASSUME NEW s \in Servers, Reporting(s) PROVE Good
  BY <1>4, ReportingJobs, SameKeeps, ClosingKeeps, RequeuedKeeps, Zenon
<1>5. ASSUME NEW s \in Servers, Lose(s) PROVE Good
  BY <1>5, SameKeeps, Zenon DEF Lose, jobs, SameJobs
<1>6. ASSUME NEW j \in Jobs, BackoffOver(j) \/ LeaseExpires(j) PROVE Good
  BY <1>6, TimeKeeps, Zenon
<1>7. CASE Passing
  BY <1>7, SameKeeps, Zenon DEF Passing, PinEnds, Lapse, CopyLapse, ReadGroups, vars, jobs, SameJobs
<1> QED
  BY <1>1, <1>2, <1>3, <1>4, <1>5, <1>6, <1>7, Zenon DEF Next, Passing

-----------------------------------------------------------------------------
(* Every step keeps the other types. *)

LEMMA EnqueuedMembers ==
  ASSUME NEW a, NEW R \in [Rows -> {"none", "active", "ended"}],
         NEW S \in [Rows -> {"none", "pending", "synced", "failed", "unqueued"}],
         Enqueue(a, R, S)
  PROVE  /\ row' \in [Rows -> {"none", "active", "ended"}]
         /\ sync' \in [Rows -> {"none", "pending", "synced", "failed", "unqueued"}]
         /\ missed' \in BOOLEAN /\ UNCHANGED astray
  BY DEF Enqueue

LEMMA MembersChanged ==
  ASSUME MemberTypes, Flags, GameTypes, Change
  PROVE  MemberTypes' /\ Flags' /\ GameTypes'
<1> USE DEF MemberTypes
<1> DEFINE RowType == [Rows -> {"none", "active", "ended"}]
           SyncType == [Rows -> {"none", "pending", "synced", "failed", "unqueued"}]
           Good == row' \in RowType /\ sync' \in SyncType /\ Flags'
<1>1. ASSUME NEW a, NEW R \in RowType, NEW S \in SyncType, Enqueue(a, R, S) PROVE Good
  <2>1. row' \in RowType /\ sync' \in SyncType /\ missed' \in BOOLEAN /\ UNCHANGED astray
    BY <1>1, EnqueuedMembers
  <2> QED
    BY <2>1, Zenon DEF Flags
<1>2. \A S : Set(S, "pending") \in SyncType /\ Set(S, "synced") \in SyncType
  BY DEF Set
<1>3. \A r \in Rows : Without(r) \in RowType
  BY DEF Without
<1>4. row \in RowType /\ sync \in SyncType
  OBVIOUS
<1>5. \A r \in Rows : \A S : [Set(S, "pending") EXCEPT ![r] = "synced"] \in SyncType
  BY <1>2
<1>6. ASSUME NEW r \in Rows, NEW R, R = [row EXCEPT ![r] = "active"] PROVE R \in RowType
  BY <1>6
<1> HIDE DEF MemberTypes, RowType, SyncType
<1>7. ASSUME NEW r \in Rows, Grant(r) PROVE Good /\ UNCHANGED <<over, game, journal, news>>
  <2> DEFINE R == [row EXCEPT ![r] = "active"]
  <2>1. Enqueue(Hold(R), R, Set({r}, "pending")) /\ UNCHANGED <<over, game>>
    BY <1>7 DEF Grant
  <2>2. R \in RowType
    BY <1>6
  <2>3. UNCHANGED <<journal, news>>
    BY <2>1 DEF Enqueue, servers
  <2> HIDE DEF R
  <2>4. \E a : \E Q \in RowType, S \in SyncType : Enqueue(a, Q, S)
    BY <1>2, <2>1, <2>2, Zenon
  <2> QED
    BY <1>1, <2>1, <2>3, <2>4, Zenon
<1>8. ASSUME NEW r \in Rows, Extend(r) PROVE Good /\ UNCHANGED <<over, game, journal, news>>
  <2>1. PICK chained : Enqueue(Hold(row), row, Set(chained \cup {r}, "pending"))
    BY <1>8, Zenon DEF Extend
  <2>2. UNCHANGED <<journal, news>>
    BY <2>1 DEF Enqueue, servers
  <2>3. \E a : \E Q \in RowType, S \in SyncType : Enqueue(a, Q, S)
    BY <1>2, <1>4, <2>1, Zenon
  <2> QED
    BY <1>1, <1>8, <2>2, <2>3, Zenon DEF Extend
<1>9. ASSUME NEW r \in Rows, Revoke(r) PROVE Good /\ UNCHANGED <<over, game, journal, news>>
  <2>1. UNCHANGED <<over, game>>
    BY <1>9, Zenon DEF Revoke
  <2>2. CASE \E a : \E Q \in RowType, S \in SyncType : Enqueue(a, Q, S)
    <3>1. UNCHANGED <<journal, news>>
      BY <2>2 DEF Enqueue, servers
    <3> QED
      BY <1>1, <2>1, <2>2, <3>1, Zenon
  <2>3. CASE \E Q \in RowType, S \in SyncType :
               row' = Q /\ sync' = S /\ UNCHANGED <<missed, servers, astray>>
    BY <2>1, <2>3, Zenon DEF Flags, servers
  <2>4. CASE Enqueue("remove", Without(r), Set({r}, "pending"))
    BY <1>2, <1>3, <2>2, <2>4, Zenon
  <2>5. ASSUME NEW moved, Enqueue("addTimed", Without(r), [Set(moved, "pending") EXCEPT ![r] = "synced"])
        PROVE  Good /\ UNCHANGED <<over, game, journal, news>>
    BY <1>3, <1>5, <2>2, <2>5, Zenon
  <2>6. ASSUME NEW moved, row' = Without(r), sync' = [Set(moved, "pending") EXCEPT ![r] = "synced"],
               UNCHANGED <<missed, servers, astray>>
        PROVE  Good /\ UNCHANGED <<over, game, journal, news>>
    BY <1>3, <1>5, <2>3, <2>6, Zenon
  <2>7. \/ Enqueue("remove", Without(r), Set({r}, "pending"))
        \/ \E moved : \/ Enqueue("addTimed", Without(r), [Set(moved, "pending") EXCEPT ![r] = "synced"])
                      \/ /\ row' = Without(r)
                         /\ sync' = [Set(moved, "pending") EXCEPT ![r] = "synced"]
                         /\ UNCHANGED <<missed, servers, astray>>
    BY <1>9, Zenon DEF Revoke
  <2> QED
    BY <2>4, <2>5, <2>6, <2>7, Zenon
<1>10. ASSUME NEW r \in Rows, Expire(r) PROVE MemberTypes' /\ Flags' /\ GameTypes'
  <2>1. CASE /\ Enqueue("remove", Without(r), sync)
             /\ over' = {j \in Jobs : action[j] = "addTimed"}
             /\ DropTimed
    <3>1. Good
      BY <1>1, <1>3, <1>4, <2>1, Zenon
    <3>2. over' \subseteq Jobs /\ GameTypes'
      BY <2>1 DEF Enqueue, servers, DropTimed, GameTypes
    <3> QED
      BY <3>1, <3>2, Zenon DEF MemberTypes, RowType, SyncType
  <2>2. CASE /\ row' = Without(r) /\ sync' = Set({r}, "synced")
             /\ UNCHANGED <<missed, jobs, pin, servers, game, astray>>
    <3>1. Good
      BY <1>2, <1>3, <2>2, Zenon DEF Flags
    <3>2. UNCHANGED <<over, game, journal, news>>
      BY <2>2, Zenon DEF jobs, servers
    <3>3. over' \subseteq Jobs /\ GameTypes'
      BY <3>2 DEF game, GameTypes, MemberTypes
    <3> QED
      BY <3>1, <3>3, Zenon DEF MemberTypes, RowType, SyncType
  <2> QED
    BY <1>10, <2>1, <2>2, Zenon DEF Expire
<1>11. ASSUME Resync PROVE Good /\ UNCHANGED <<over, game, journal, news>>
  <2>1. UNCHANGED <<over, game>>
    BY <1>11, Zenon DEF Resync
  <2>2. PICK a : Enqueue(a, row, Set(Wanted(a), "pending"))
    BY <1>11, Zenon DEF Resync
  <2>3. \E b : \E Q \in RowType, S \in SyncType : Enqueue(b, Q, S)
    BY <1>2, <1>4, <2>2, Zenon
  <2>4. UNCHANGED <<journal, news>>
    BY <2>2 DEF Enqueue, servers
  <2> QED
    BY <1>1, <2>1, <2>3, <2>4, Zenon
<1>12. ASSUME NEW j \in Jobs, AdminRetry(j) PROVE Good /\ UNCHANGED <<over, game, journal, news>>
  BY <1>4, <1>12, Zenon DEF AdminRetry, members, servers, Flags
<1>13. ASSUME Good, UNCHANGED <<over, game, journal, news>>
       PROVE  MemberTypes' /\ Flags' /\ GameTypes'
  <2>1. over' \subseteq Jobs /\ GameTypes'
    BY <1>13 DEF game, GameTypes, MemberTypes
  <2> QED
    BY <1>13, <2>1, Zenon DEF MemberTypes, RowType, SyncType
<1> QED
  BY <1>7, <1>8, <1>9, <1>10, <1>11, <1>12, <1>13, Zenon DEF Change

\* The outcome of a job reaches the rows.
LEMMA FinishedTypes ==
  ASSUME MemberTypes, NEW j, NEW outcome \in {"synced", "failed"}, Finished(j, outcome),
         UNCHANGED <<row, over>>
  PROVE  MemberTypes'
  BY DEF MemberTypes, Finished

LEMMA CallTypes ==
  ASSUME GameTypes, ServerTypes, NEW s \in Servers, Busy(s, "running"), work[s].steps # <<>>, Call(s)
  PROVE  /\ store' \subseteq {"timed", "permanent"}
         /\ cache' \in [Servers -> SUBSET {"timed", "permanent"}]
         /\ news' \in [Servers -> {"none", "change", "done", "torn"}]
<1>1. Head(work[s].steps) \in Steps
  <2>1. work[s].steps \in Seq(Steps)
    BY Hands DEF Runs
  <2> QED
    BY <2>1
<1>2. ASSUME NEW E, E \subseteq {"timed", "permanent"}
      PROVE  After(Head(work[s].steps), E) \subseteq {"timed", "permanent"}
  BY <1>1, <1>2 DEF After, Steps
<1>3. CASE UNCHANGED <<game, news>>
  BY <1>3 DEF game, GameTypes
<1>4. CASE ~Already(Head(work[s].steps), cache[s])
  <2> DEFINE step == Head(work[s].steps)
  <2>1. cache[s] \subseteq {"timed", "permanent"}
    BY DEF GameTypes
  <2>2. After(step, store) \subseteq {"timed", "permanent"}
    BY <1>2 DEF GameTypes
  <2>3. After(step, cache[s]) \subseteq {"timed", "permanent"}
    BY <1>2, <2>1
  <2>4. /\ store' \in {After(step, store), After(step, cache[s])}
        /\ cache' = [cache EXCEPT ![s] = After(step, cache[s])]
        /\ news' = [t \in Servers |-> IF t # s /\ news[t] = "none" THEN "change" ELSE news[t]]
    BY <1>4 DEF Call
  <2> HIDE DEF step
  <2> QED
    BY <2>2, <2>3, <2>4 DEF GameTypes
<1> QED
  BY <1>3, <1>4 DEF Call

LEMMA ServersAct ==
  ASSUME MemberTypes, Flags, ServerTypes, GameTypes,
         \/ \E s \in Servers : Claiming(s) \/ Running(s) \/ Reporting(s) \/ Lose(s)
         \/ \E j \in Jobs : BackoffOver(j) \/ LeaseExpires(j)
         \/ Passing
  PROVE  MemberTypes' /\ Flags' /\ GameTypes'
<1>1. ASSUME NEW s \in Servers, Claiming(s) PROVE MemberTypes' /\ Flags' /\ GameTypes'
  <2>1. UNCHANGED <<row, over, journal, game, news, missed>>
    BY <1>1 DEF Claiming, ReadCandidates, ReadLive, ReadPin, Proceed, Supersede, LoseClaim, Claim,
       DeadLetterExpired, members, jobs
  <2>2. GameTypes'
    BY <2>1 DEF game, GameTypes
  <2>3. MemberTypes'
    <3>1. CASE DeadLetterExpired(s)
      <4>1. Finished(seen[s].job, "failed")
        BY <3>1 DEF DeadLetterExpired, DeadLetter
      <4> QED
        BY <2>1, <4>1, FinishedTypes
    <3>2. CASE UNCHANGED sync
      BY <2>1, <3>2 DEF MemberTypes
    <3> QED
      BY <1>1, <3>1, <3>2 DEF Claiming, ReadCandidates, ReadLive, ReadPin, Proceed, Supersede,
         LoseClaim, Claim, members
  <2>4. Flags'
    BY <1>1, Zenon DEF Flags, Claiming, ReadCandidates, ReadLive, ReadPin, Proceed, Supersede,
       LoseClaim, Claim, DeadLetterExpired, members
  <2> QED
    BY <2>2, <2>3, <2>4
<1>2. ASSUME NEW s \in Servers, Running(s) PROVE MemberTypes' /\ Flags' /\ GameTypes'
  <2>1. UNCHANGED <<row, sync, over, missed>>
    BY <1>2 DEF Running, HandBack, Reject, AlreadyDone, Begin, RunStep, StepFails,
       NotEffective, Applied, Local, members, jobs
  <2>2. Flags'
    BY <1>2, Zenon DEF Flags, Running, HandBack, Reject, AlreadyDone, Begin, RunStep,
       StepFails, NotEffective, Applied, Local, members
  <2>3. journal' \in [Servers -> SUBSET Jobs]
    <3>1. CASE Applied(s)
      <4>1. work[s].job \in Jobs
        BY <3>1, Hands DEF Applied, Busy
      <4> QED
        BY <3>1, <4>1 DEF Applied, GameTypes
    <3>2. CASE UNCHANGED journal
      BY <3>2 DEF GameTypes
    <3> QED
      BY <1>2, <3>1, <3>2 DEF Running, HandBack, Reject, AlreadyDone, Begin, RunStep,
         StepFails, NotEffective
  <2>4. /\ store' \subseteq {"timed", "permanent"}
        /\ cache' \in [Servers -> SUBSET {"timed", "permanent"}]
        /\ news' \in [Servers -> {"none", "change", "done", "torn"}]
    <3>1. CASE UNCHANGED <<game, news>>
      BY <3>1 DEF game, GameTypes
    <3>2. CASE Call(s) /\ Busy(s, "running") /\ work[s].steps # <<>>
      BY <3>2, CallTypes
    <3> QED
      BY <1>2, <3>1, <3>2, Zenon DEF Running, HandBack, Reject, AlreadyDone, Begin, RunStep,
         StepFails, NotEffective, Applied, Local
  <2> QED
    BY <2>1, <2>2, <2>3, <2>4 DEF MemberTypes, GameTypes
<1>3. ASSUME NEW s \in Servers, Reporting(s) PROVE MemberTypes' /\ Flags' /\ GameTypes'
  <2>1. UNCHANGED <<row, over, journal, game, missed>>
    BY <1>3 DEF Reporting, RefuseReport, Complete, FailRetry, FailFinal, Release, members, jobs
  <2>5. news' \in [Servers -> {"none", "change", "done", "torn"}]
    BY <1>3 DEF GameTypes, Reporting, RefuseReport, Complete, FailRetry, FailFinal, Release,
       Requeue, Unpinned
  <2>2. GameTypes'
    BY <2>1, <2>5 DEF game, GameTypes
  <2>3. MemberTypes'
    <3>1. CASE Complete(s) \/ FailFinal(s)
      <4>1. \E outcome \in {"synced", "failed"} : Finished(work[s].job, outcome)
        BY <3>1 DEF Complete, FailFinal, DeadLetter
      <4> QED
        BY <2>1, <4>1, FinishedTypes
    <3>2. CASE UNCHANGED sync
      BY <2>1, <3>2 DEF MemberTypes
    <3> QED
      BY <1>3, <3>1, <3>2 DEF Reporting, RefuseReport, FailRetry, Release, Requeue, members
  <2>4. Flags'
    BY <1>3, Zenon DEF Flags, Reporting, RefuseReport, Complete, FailRetry, FailFinal, Release,
       Requeue, members
  <2> QED
    BY <2>2, <2>3, <2>4
<1>4. ASSUME NEW s \in Servers, Lose(s) PROVE MemberTypes' /\ Flags' /\ GameTypes'
  <2>1. Flags'
    BY <1>4, Zenon DEF Flags, Lose, members
  <2> QED
    BY <1>4, <2>1 DEF Lose, members, jobs, game, MemberTypes, GameTypes
<1>5. ASSUME NEW j \in Jobs, BackoffOver(j) \/ LeaseExpires(j)
      PROVE  MemberTypes' /\ Flags' /\ GameTypes'
  <2>1. Flags'
    BY <1>5, Zenon DEF Flags, BackoffOver, LeaseExpires, members
  <2> QED
    BY <1>5, <2>1 DEF BackoffOver, LeaseExpires, Unpinned, members, servers, game, MemberTypes,
       GameTypes
<1>6. ASSUME Passing PROVE MemberTypes' /\ Flags' /\ GameTypes'
  <2>1. Flags'
    BY <1>6, Zenon DEF Flags, Passing, PinEnds, Lapse, CopyLapse, ReadGroups, members, vars
  <2>2. MemberTypes'
    <3>1. UNCHANGED <<row, sync, over>>
      BY <1>6, Zenon DEF Passing, PinEnds, Lapse, CopyLapse, ReadGroups, members, jobs, vars
    <3> QED
      BY <3>1 DEF MemberTypes
  <2>3. ASSUME NEW s \in Servers, ReadGroups(s) \/ CopyLapse(s) PROVE GameTypes'
    <3>1. cache[s] \subseteq {"timed", "permanent"}
      BY DEF GameTypes
    <3>2. CASE ReadGroups(s)
      BY <3>2 DEF ReadGroups, GameTypes
    <3>3. CASE CopyLapse(s)
      <4>1. cache[s] \ {"timed"} \subseteq {"timed", "permanent"}
        BY <3>1
      <4> QED
        BY <3>3, <4>1 DEF CopyLapse, servers, GameTypes
    <3> QED
      BY <2>3, <3>2, <3>3
  <2>4. ASSUME PinEnds \/ Lapse \/ UNCHANGED vars PROVE GameTypes'
    <3>1. CASE UNCHANGED <<journal, news, game>>
      BY <3>1 DEF game, GameTypes
    <3>2. CASE DropTimed /\ UNCHANGED <<journal, news>>
      BY <3>2 DEF DropTimed, GameTypes
    <3> QED
      BY <2>4, <3>1, <3>2, Zenon DEF PinEnds, Lapse, servers, vars
  <2> QED
    BY <1>6, <2>1, <2>2, <2>3, <2>4 DEF Passing
<1> QED
  BY <1>1, <1>2, <1>3, <1>4, <1>5, <1>6, Zenon

Outcomes == {"complete", "fail", "release"}

LEMMA Reported ==
  ASSUME ServerTypes, NEW s \in Servers, NEW says \in Outcomes, Report(s, says), work[s] # None
  PROVE  work' \in [Servers -> {None} \cup Replies \cup Runs \cup Reports]
<1>1. work[s].job \in Jobs
  BY Hands
<1>2. [job |-> work[s].job, at |-> "report", says |-> says] \in Reports
  BY <1>1 DEF Reports, Outcomes
<1> QED
  BY <1>2 DEF Report, ServerTypes

\* What an add or a removal calls.
LEMMA PlanSteps ==
  ASSUME NEW a \in Actions
  PROVE  Plan(a) \in Seq(Steps)
<1>1. /\ <<"dropPermanent", "dropTimed", "putTimed">> \in Seq(Steps)
      /\ <<"putPermanent">> \in Seq(Steps)
      /\ <<"dropPermanent">> \in Seq(Steps) /\ <<"dropTimed">> \in Seq(Steps)
      /\ <<>> \in Seq(Steps)
  BY DEF Steps
<1>2. CASE a = "addTimed"
  BY <1>1, <1>2, VipConstants DEF VipConstants, Plan
<1>3. CASE a = "addPermanent"
  BY <1>1, <1>3 DEF Plan
<1>4. CASE a = "remove"
  <2>1. (IF Timed THEN <<"dropTimed">> ELSE <<>>) \in Seq(Steps)
    BY <1>1, VipConstants DEF VipConstants
  <2>2. Plan(a) = (IF Timed THEN <<"dropTimed">> ELSE <<>>) \o <<"dropPermanent">>
    BY <1>4 DEF Plan
  <2> QED
    BY <1>1, <2>1, <2>2
<1> QED
  BY <1>2, <1>3, <1>4 DEF Actions, Adds

\* What a claim reads first.
LEMMA CandidateRead ==
  ASSUME JobTypes, ServerTypes, NEW s \in Servers, ReadCandidates(s)
  PROVE  /\ seen[s] = None /\ work[s] = None
         /\ \E r \in Candidates :
              /\ seen' = [seen EXCEPT ![s] = r] /\ r.at = "live"
              /\ Claimable(r.job) /\ r.status = status[r.job] /\ r.host = host[r.job]
              /\ \A k \in Jobs : Claimable(k) => k <= r.job
              /\ r.older = {k \in Jobs : Claimable(k) /\ status[k] = "leased" /\ k # r.job}
<1> DEFINE j == Newest({k \in Jobs : Claimable(k)})
           older == {k \in Jobs : Claimable(k) /\ status[k] = "leased" /\ k # j}
           read == [job |-> j, status |-> status[j], host |-> host[j], older |-> older, at |-> "live"]
<1>1. \E k \in Jobs : Claimable(k)
  BY DEF ReadCandidates
<1>2. j \in Jobs /\ Claimable(j) /\ \A k \in Jobs : Claimable(k) => k <= j
  BY <1>1, NewestClaimable
<1>3. seen' = [seen EXCEPT ![s] = read]
  BY Zenon DEF ReadCandidates
<1>4. older \subseteq Jobs
  OBVIOUS
<1>7. seen[s] = None /\ work[s] = None
  BY DEF ReadCandidates
<1> HIDE DEF j, older
<1>5. read \in Candidates
  BY <1>2, <1>4 DEF Claimable, Candidates, JobTypes
<1>6. older = {k \in Jobs : Claimable(k) /\ status[k] = "leased" /\ k # j}
  BY DEF older
<1> QED
  BY <1>2, <1>3, <1>5, <1>6, <1>7

\* Afterwards it keeps the job it has read, or gives up.
LEMMA ReadsOn ==
  ASSUME ServerTypes, NEW s \in Servers,
         ReadLive(s) \/ ReadPin(s) \/ \E k \in Jobs : Supersede(s, k)
  PROVE  /\ seen[s] # None
         /\ \E r \in {None} \cup Candidates :
              /\ seen' = [seen EXCEPT ![s] = r]
              /\ r # None => /\ r.job = seen[s].job /\ r.status = seen[s].status
                             /\ r.host = seen[s].host /\ r.older \subseteq seen[s].older
<1> USE DEF Candidates
<1>1. ASSUME seen[s] # None PROVE seen[s] \in Candidates
  BY <1>1 DEF ServerTypes
<1>2. ASSUME NEW handed, NEW next \in {"pin", "lease"}, seen[s] # None, Proceed(s, handed, next)
      PROVE  \E r \in {None} \cup Candidates :
               /\ seen' = [seen EXCEPT ![s] = r]
               /\ r # None => /\ r.job = seen[s].job /\ r.status = seen[s].status
                              /\ r.host = seen[s].host /\ r.older \subseteq seen[s].older
  <2>1. \/ seen' = [seen EXCEPT ![s] = None]
        \/ \E at \in {next, "close"} : seen' = [seen EXCEPT ![s] = [seen[s] EXCEPT !.at = at]]
    BY <1>2 DEF Proceed
  <2>2. \A at \in {next, "close"} :
          LET r == [seen[s] EXCEPT !.at = at]
          IN  r \in Candidates /\ r.job = seen[s].job /\ r.status = seen[s].status
              /\ r.host = seen[s].host /\ r.older = seen[s].older
    BY <1>1, <1>2
  <2> HIDE DEF Candidates
  <2> QED
    BY <2>1, <2>2
<1>3. CASE ReadLive(s)
  BY <1>2, <1>3, Zenon DEF ReadLive, Reading
<1>4. CASE ReadPin(s)
  BY <1>2, <1>4, Zenon DEF ReadPin, Reading
<1>5. ASSUME NEW k \in Jobs, Supersede(s, k)
      PROVE  /\ seen[s] # None
             /\ \E r \in {None} \cup Candidates :
                  /\ seen' = [seen EXCEPT ![s] = r]
                  /\ r # None => /\ r.job = seen[s].job /\ r.status = seen[s].status
                                 /\ r.host = seen[s].host /\ r.older \subseteq seen[s].older
  <2> DEFINE r == [seen[s] EXCEPT !.older = seen[s].older \ {k}]
  <2>1. seen[s] # None
    BY <1>5 DEF Supersede, Reading
  <2>2. seen' = [seen EXCEPT ![s] = None] \/ seen' = [seen EXCEPT ![s] = r]
    BY <1>5 DEF Supersede
  <2>3. /\ r \in Candidates /\ r.job = seen[s].job /\ r.status = seen[s].status
        /\ r.host = seen[s].host /\ r.older \subseteq seen[s].older
    BY <1>1, <2>1
  <2> HIDE DEF Candidates, r
  <2> QED
    BY <2>1, <2>2, <2>3
<1> QED
  BY <1>3, <1>4, <1>5 DEF ReadLive, ReadPin, Reading

LEMMA ServersKept ==
  ASSUME TypeOK, Numbered, [Next]_vars
  PROVE  ServerTypes'
<1>0. JobTypes /\ Agreement /\ ServerTypes
  BY Parts
<1> DEFINE WorkType == [Servers -> {None} \cup Replies \cup Runs \cup Reports]
<1>1. CASE Change
  BY <1>0, <1>1, Changed DEF servers, ServerTypes
<1>2. ASSUME NEW s \in Servers, Claiming(s) PROVE ServerTypes'
  <2>1. seen' \in [Servers -> {None} \cup Candidates]
    <3>1. CASE ReadCandidates(s)
      <4>1. PICK r \in Candidates : seen' = [seen EXCEPT ![s] = r]
        BY <1>0, <3>1, CandidateRead
      <4> QED
        BY <1>0, <4>1 DEF ServerTypes
    <3>2. CASE Forget(s)
      BY <1>0, <3>2 DEF Forget, ServerTypes
    <3>3. CASE ReadLive(s) \/ ReadPin(s) \/ \E k \in Jobs : Supersede(s, k)
      <4>1. PICK r \in {None} \cup Candidates : seen' = [seen EXCEPT ![s] = r]
        BY <1>0, <3>3, ReadsOn
      <4> QED
        BY <1>0, <4>1 DEF ServerTypes
    <3> QED
      BY <1>2, <3>1, <3>2, <3>3 DEF Claiming, LoseClaim, Claim, DeadLetterExpired
  <2>2. work' \in WorkType
    <3>1. CASE Claim(s)
      <4>1. seen[s].job \in Jobs
        BY <1>0, <3>1, Hands DEF Claim, MayLease, Reading
      <4>2. [job |-> seen[s].job, at |-> "reply"] \in Replies
        BY <4>1 DEF Replies
      <4> QED
        BY <1>0, <3>1, <4>2 DEF Claim, ServerTypes
    <3>2. CASE UNCHANGED work
      BY <1>0, <3>2 DEF ServerTypes
    <3> QED
      BY <1>2, <3>1, <3>2 DEF Claiming, ReadCandidates, ReadLive, ReadPin, Proceed, Supersede,
         LoseClaim, DeadLetterExpired
  <2> QED
    BY <1>0, <1>2, <2>1, <2>2, ClaimingJobs DEF ServerTypes
<1>3. ASSUME NEW s \in Servers, Running(s) PROVE ServerTypes'
  <2>1. work' \in WorkType
    <3>1. CASE \E says \in Outcomes : Report(s, says)
      <4>1. work[s] # None
        BY <1>3 DEF Running, HandBack, Reject, AlreadyDone, Begin, RunStep, StepFails,
           NotEffective, Applied, Busy
      <4> QED
        BY <1>0, <3>1, <4>1, Reported
    <3>2. CASE Begin(s)
      <4> DEFINE j == work[s].job
                 steps == IF j \in over THEN <<>> ELSE Plan(action[j])
                 run == [job |-> j, at |-> "running", steps |-> steps,
                         verify |-> steps # <<>> /\ action[j] \in Adds]
      <4>1. j \in Jobs /\ Exists(j)
        BY <1>0, <3>2, Hands DEF Begin, Busy, Numbered
      <4>2. action[j] \in Actions
        BY <1>0, <4>1 DEF JobTypes, Agreement, Exists
      <4>3. steps \in Seq(Steps)
        <5>1. Plan(action[j]) \in Seq(Steps)
          BY <4>2, PlanSteps
        <5> QED
          BY <5>1
      <4>4. run.verify \in BOOLEAN
        OBVIOUS
      <4>5. run \in Runs
        BY <4>1, <4>3 DEF Runs
      <4>6. work' = [work EXCEPT ![s] = run]
        BY <3>2, Zenon DEF Begin
      <4> QED
        BY <1>0, <4>5, <4>6 DEF ServerTypes
    <3>3. CASE RunStep(s)
      <4>1. work[s] \in Runs /\ work[s].steps # <<>>
        BY <1>0, <3>3, Hands DEF RunStep
      <4>4. Tail(work[s].steps) \in Seq(Steps)
        BY <4>1, HeadTailProperties DEF Runs
      <4>2. [work[s] EXCEPT !.steps = Tail(@)] \in Runs
        BY <4>1, <4>4 DEF Runs
      <4>3. work' = [work EXCEPT ![s] = [work[s] EXCEPT !.steps = Tail(@)]]
        BY <3>3 DEF RunStep
      <4> QED
        BY <1>0, <4>2, <4>3 DEF ServerTypes
    <3> QED
      BY <1>3, <3>1, <3>2, <3>3 DEF Running, HandBack, Reject, AlreadyDone, StepFails,
         NotEffective, Applied, Outcomes
  <2> QED
    BY <1>0, <1>3, <2>1, RunningJobs DEF ServerTypes
<1>4. ASSUME NEW s \in Servers, Idle(s), UNCHANGED seen, pin' \in {pin, s} PROVE ServerTypes'
  BY <1>0, <1>4 DEF Idle, ServerTypes
<1>5. ASSUME NEW s \in Servers, Reporting(s) PROVE ServerTypes'
  <2>1. pin' \in {pin, s}
    BY <1>5 DEF Reporting, RefuseReport, Complete, FailRetry, FailFinal, Release
  <2> QED
    BY <1>0, <1>4, <1>5, <2>1, ReportingJobs
<1>6. ASSUME NEW s \in Servers, Lose(s) PROVE ServerTypes'
  BY <1>4, <1>6 DEF Lose
<1>7. ASSUME NEW j \in Jobs, BackoffOver(j) \/ LeaseExpires(j) PROVE ServerTypes'
  BY <1>0, <1>7 DEF BackoffOver, LeaseExpires, servers, ServerTypes
<1>8. CASE Passing
  BY <1>0, <1>8 DEF Passing, PinEnds, Lapse, CopyLapse, ReadGroups, vars, servers, ServerTypes
<1> QED
  BY <1>1, <1>2, <1>3, <1>5, <1>6, <1>7, <1>8, Zenon DEF Next, Passing

LEMMA TypesKept == TypeOK /\ Numbered /\ [Next]_vars => TypeOK'
<1> SUFFICES ASSUME TypeOK, Numbered, [Next]_vars PROVE TypeOK'
  OBVIOUS
<1>1. JobTypes /\ Agreement /\ MemberTypes /\ ServerTypes /\ Flags /\ GameTypes
  BY Parts
<1>2. JobTypes' /\ Agreement'
  BY <1>1, JobsKept
<1>3. MemberTypes' /\ Flags' /\ GameTypes'
  <2>1. CASE Change
    BY <1>1, <2>1, MembersChanged
  <2>2. CASE ~Change
    BY <1>1, <2>2, ServersAct, Zenon DEF Next, Passing
  <2> QED
    BY <2>1, <2>2
<1>4. ServerTypes'
  BY ServersKept
<1> QED
  BY <1>2, <1>3, <1>4, Parts, PTL

\* What a server has read or been leased is one of the jobs, also after a step.
LEMMA HandsStep ==
  ASSUME TypeOK, Numbered, [Next]_vars, NEW s \in Servers
  PROVE  /\ seen'[s] # None => seen'[s].job \in Jobs /\ Exists(seen'[s].job)
         /\ work'[s] # None => work'[s].job \in Jobs /\ Exists(work'[s].job)
<1>0. JobTypes /\ Agreement /\ ServerTypes
  BY Parts
<1> DEFINE Known == /\ seen'[s] # None => seen'[s].job \in Jobs /\ Exists(seen'[s].job)
                    /\ work'[s] # None => work'[s].job \in Jobs /\ Exists(work'[s].job)
<1>1. /\ seen[s] # None => seen[s].job \in Jobs /\ Exists(seen[s].job)
      /\ work[s] # None => work[s].job \in Jobs /\ Exists(work[s].job)
  BY <1>0, Hands DEF Numbered
<1>2. ASSUME UNCHANGED <<seen, work>> PROVE Known
  BY <1>1, <1>2
<1>3. ASSUME NEW t \in Servers, Idle(t), UNCHANGED seen PROVE Known
  BY <1>0, <1>1, <1>3 DEF Idle, ServerTypes
<1>4. ASSUME NEW t \in Servers, Claiming(t) PROVE Known
  <2>1. CASE ReadCandidates(t)
    <3>1. PICK r \in Candidates : seen' = [seen EXCEPT ![t] = r] /\ Claimable(r.job)
      BY <1>0, <2>1, CandidateRead
    <3>2. UNCHANGED work
      BY <2>1 DEF ReadCandidates
    <3>3. r.job \in Jobs /\ Exists(r.job)
      BY <3>1 DEF Claimable, Exists, Candidates
    <3> QED
      BY <1>0, <1>1, <3>1, <3>2, <3>3 DEF ServerTypes
  <2>4. CASE ReadLive(t) \/ ReadPin(t) \/ \E k \in Jobs : Supersede(t, k)
    <3>1. PICK r \in {None} \cup Candidates : /\ seen' = [seen EXCEPT ![t] = r]
                                              /\ r # None => r.job = seen[t].job
      BY <1>0, <2>4, ReadsOn
    <3>2. UNCHANGED work
      BY <2>4 DEF ReadLive, ReadPin, Proceed, Supersede
    <3>3. seen[t].job \in Jobs /\ Exists(seen[t].job)
      BY <1>0, <2>4, Hands, ReadsOn DEF Numbered
    <3>4. seen \in [Servers -> {None} \cup Candidates]
      BY <1>0 DEF ServerTypes
    <3>5. seen'[s] = IF s = t THEN r ELSE seen[s]
      BY <3>1, <3>4
    <3>6. work'[s] # None => work'[s].job \in Jobs /\ Exists(work'[s].job)
      BY <1>1, <3>2 DEF Exists
    <3>7. seen'[s] # None => seen'[s].job \in Jobs /\ Exists(seen'[s].job)
      <4>1. CASE s = t
        BY <3>1, <3>3, <3>5, <4>1 DEF Exists
      <4>2. CASE s # t
        <5>1. seen'[s] = seen[s]
          BY <3>5, <4>2
        <5> QED
          BY <1>1, <5>1 DEF Exists
      <4> QED
        BY <4>1, <4>2
    <3> QED
      BY <3>6, <3>7
  <2>2. CASE Claim(t)
    <3>1. seen[t].job \in Jobs /\ Exists(seen[t].job)
      BY <1>0, <2>2, Hands DEF Claim, MayLease, Reading, Numbered
    <3> QED
      BY <1>0, <1>1, <2>2, <3>1 DEF Claim, Forget, ServerTypes
  <2>3. CASE LoseClaim(t) \/ DeadLetterExpired(t)
    BY <1>0, <1>1, <2>3 DEF LoseClaim, DeadLetterExpired, Forget, ServerTypes
  <2> QED
    BY <1>4, <2>1, <2>2, <2>3, <2>4 DEF Claiming
<1>5. ASSUME NEW t \in Servers, Running(t) PROVE Known
  <2>1. UNCHANGED seen
    BY <1>5, RunningJobs
  <2>2. work[t] # None
    BY <1>5 DEF Running, HandBack, Reject, AlreadyDone, Begin, RunStep, StepFails,
       NotEffective, Applied, Busy
  <2>3. work' = [work EXCEPT ![t] = work'[t]] /\ work'[t].job = work[t].job
    <3>1. CASE RunStep(t)
      <4>1. work[t] \in Runs
        BY <1>0, <3>1, Hands DEF RunStep
      <4>2. work' = [work EXCEPT ![t] = [work[t] EXCEPT !.steps = Tail(@)]]
        BY <3>1 DEF RunStep
      <4> QED
        BY <1>0, <4>1, <4>2 DEF ServerTypes, Runs
    <3>2. CASE Begin(t)
      BY <1>0, <3>2 DEF Begin, ServerTypes
    <3>3. CASE \E says : Report(t, says)
      BY <1>0, <3>3 DEF Report, ServerTypes
    <3> QED
      BY <1>5, <3>1, <3>2, <3>3 DEF Running, HandBack, Reject, AlreadyDone, StepFails,
         NotEffective, Applied
  <2>4. work[t].job \in Jobs /\ Exists(work[t].job)
    BY <1>0, <2>2, Hands DEF Numbered
  <2>5. work'[s] # None => work'[s].job \in Jobs /\ Exists(work'[s].job)
    <3>1. CASE s = t
      BY <2>3, <2>4, <3>1
    <3>2. CASE s # t
      BY <1>0, <1>1, <2>3, <3>2 DEF ServerTypes
    <3> QED
      BY <3>1, <3>2
  <2> QED
    BY <1>1, <2>1, <2>5
<1>6. CASE Change
  BY <1>0, <1>2, <1>6, Changed DEF servers
<1>7. ASSUME NEW t \in Servers, Reporting(t) PROVE Known
  BY <1>0, <1>3, <1>7, ReportingJobs
<1>8. ASSUME NEW t \in Servers, Lose(t) PROVE Known
  BY <1>3, <1>8 DEF Lose
<1>9. ASSUME NEW j \in Jobs, BackoffOver(j) \/ LeaseExpires(j) PROVE Known
  BY <1>2, <1>9 DEF BackoffOver, LeaseExpires, servers
<1>10. CASE Passing
  BY <1>2, <1>10 DEF Passing, PinEnds, Lapse, CopyLapse, ReadGroups, vars, servers
<1> QED
  BY <1>4, <1>5, <1>6, <1>7, <1>8, <1>9, <1>10, Zenon DEF Next, Passing

LEMMA NumberedKept == TypeOK /\ Numbered /\ [Next]_vars => Numbered'
<1> SUFFICES ASSUME TypeOK, Numbered, [Next]_vars PROVE Numbered'
  OBVIOUS
<1>1. \/ \A j \in Jobs : Exists(j)' <=> Exists(j)
      \/ \E n \in Jobs : /\ \A j \in Jobs : Exists(j) <=> j < n
                         /\ \A j \in Jobs : Exists(j)' <=> j <= n
  BY Parts, JobsKept
<1>2. \A j \in Jobs : Exists(j) => Exists(j)'
  BY <1>1, VipConstants DEF VipConstants, Jobs
<1>3. ASSUME NEW s \in Servers
      PROVE  /\ seen'[s] # None => Exists(seen[s].job)'
             /\ work'[s] # None => Exists(work[s].job)'
  <2>1. /\ seen'[s] # None => seen'[s].job \in Jobs /\ Exists(seen'[s].job)
        /\ work'[s] # None => work'[s].job \in Jobs /\ Exists(work'[s].job)
    BY HandsStep
  <2> QED
    BY <1>2, <2>1 DEF Exists
<1>4. \E m \in 0 .. MaxJobs : {j \in Jobs : Exists(j)'} = 1 .. m
  <2>1. CASE \A j \in Jobs : Exists(j)' <=> Exists(j)
    <3>1. {j \in Jobs : Exists(j)'} = {j \in Jobs : Exists(j)}
      BY <2>1
    <3> QED
      BY <3>1 DEF Numbered
  <2>2. ASSUME NEW n \in Jobs, \A j \in Jobs : Exists(j)' <=> j <= n
        PROVE  {j \in Jobs : Exists(j)'} = 1 .. n
    BY <2>2, VipConstants DEF VipConstants, Jobs
  <2>3. Jobs \subseteq 0 .. MaxJobs
    BY VipConstants DEF VipConstants, Jobs
  <2> QED
    BY <1>1, <2>1, <2>2, <2>3
<1> QED
  BY <1>3, <1>4 DEF Numbered

-----------------------------------------------------------------------------
(* The order of the jobs, one kind of step at a time. *)

LEMMA JobsInt == Jobs \subseteq Int
  BY VipConstants DEF VipConstants, Jobs

\* What is in hand, typed.
LEMMA InHands ==
  ASSUME TypeOK, Numbered
  PROVE  /\ JobTypes /\ Agreement /\ ServerTypes /\ GameTypes
         /\ \A s \in Servers : seen[s] # None => /\ seen[s].job \in Jobs /\ Exists(seen[s].job)
                                                 /\ seen[s].older \subseteq Jobs
         /\ \A s \in Servers : Working(s) => work[s].job \in Jobs
  BY Parts, Hands DEF Numbered, Working, Busy

\* No job vanishes or comes open again before a newer one, and a completed job stays so.
Onward ==
  /\ \A k \in Jobs : Exists(k) => status'[k] # "none"
  /\ \A k \in Jobs : status'[k] = "leased" /\ Later(k) # {} =>
       status[k] = "leased" /\ (expired[k] => expired'[k])
  /\ \A k \in Jobs : status'[k] \in {"pending", "leased"} =>
       k \in Open \/ \A i \in Jobs : Exists(i) => k >= i
  /\ \A k \in Jobs : status[k] = "completed" => status'[k] = "completed"

\* The claim goes no further than to close leases or give up.
Follows(s) ==
  seen'[s] # None =>
    /\ seen[s] # None /\ seen'[s].job = seen[s].job /\ seen'[s].at \in {seen[s].at, "close"}
    /\ seen'[s].older \subseteq seen[s].older
    /\ \A k \in seen[s].older \ seen'[s].older : status'[k] \notin {"pending", "leased"}

\* The pin stays, ends, is the claim's, or comes with a job it has not passed over.
PinMoves(s) ==
  \/ pin' \in {pin, NoServer, s}
  \/ \E j \in Open : status'[j] = "completed" /\ ~(Reading(s, "lease") /\ j \in seen[s].older)

LEMMA SeenStays ==
  ASSUME TypeOK, Numbered, Order, Onward, NEW s \in Servers, Follows(s), PinMoves(s)
  PROVE  SeenWell(s)'
<1> USE JobsInt
<1>0. CASE seen'[s] = None
  BY <1>0 DEF SeenWell
<1>1. CASE seen'[s] # None
  <2>1. /\ seen[s] # None /\ seen'[s].job = seen[s].job /\ seen'[s].at \in {seen[s].at, "close"}
        /\ seen'[s].older \subseteq seen[s].older
        /\ \A k \in seen[s].older \ seen'[s].older : status'[k] \notin {"pending", "leased"}
    BY <1>1 DEF Follows
  <2>2. seen[s].job \in Jobs /\ Exists(seen[s].job) /\ seen[s].older \subseteq Jobs
    BY <2>1, InHands
  <2>3. PICK j \in Jobs : j = seen[s].job
    BY <2>2
  <2>4. /\ \A k \in seen[s].older : k < j /\ Exists(k) /\ (status[k] = "leased" => expired[k])
        /\ seen[s].at \in {"pin", "lease"} => \A k \in Open : k >= j \/ k \in seen[s].older
        /\ seen[s].at = "lease" => PinnedTo(s) \/ Later(j) # {} \/ status[j] = "completed"
    BY <2>1, <2>3 DEF Order, SeenWell
  <2>5. ASSUME NEW k \in seen'[s].older
        PROVE  k < j /\ status'[k] # "none" /\ (status'[k] = "leased" => expired'[k])
    <3>1. k \in Jobs /\ k < j /\ Exists(k) /\ (status[k] = "leased" => expired[k])
      BY <2>1, <2>2, <2>4
    <3>2. j \in Later(k)
      BY <2>2, <2>3, <3>1 DEF Later, Exists
    <3> QED
      BY <3>1, <3>2 DEF Onward
  <2>6. ASSUME seen'[s].at \in {"pin", "lease"}, NEW k \in Jobs, status'[k] \in {"pending", "leased"}
        PROVE  k >= j \/ k \in seen'[s].older
    <3>1. seen[s].at \in {"pin", "lease"}
      BY <2>1, <2>6
    <3>2. CASE k \in Open
      BY <2>1, <2>4, <2>6, <3>1, <3>2
    <3>3. CASE \A i \in Jobs : Exists(i) => k >= i
      BY <2>2, <2>3, <3>3 DEF Exists
    <3> QED
      BY <2>6, <3>2, <3>3 DEF Onward
  <2>7. ASSUME seen'[s].at = "lease"
        PROVE  pin' \in {s, NoServer} \/ (\E i \in Jobs : i > j /\ status'[i] # "none")
                 \/ status'[j] = "completed"
    <3>1. seen[s].at = "lease"
      BY <2>1, <2>7
    <3>2. CASE pin' \in {pin, NoServer, s}
      <4>1. PinnedTo(s) \/ Later(j) # {} \/ status[j] = "completed"
        BY <2>4, <3>1
      <4>2. Later(j) # {} => \E i \in Jobs : i > j /\ status'[i] # "none"
        BY DEF Later, Onward
      <4>3. status[j] = "completed" => status'[j] = "completed"
        BY DEF Onward
      <4>4. PinnedTo(s) => pin' \in {s, NoServer}
        BY <3>2 DEF PinnedTo
      <4> QED
        BY <4>1, <4>2, <4>3, <4>4
    <3>3. ASSUME NEW i \in Open, status'[i] = "completed", ~(Reading(s, "lease") /\ i \in seen[s].older)
          PROVE  i >= j
      BY <2>1, <2>4, <3>1, <3>3 DEF Reading
    <3>4. CASE pin' \notin {pin, NoServer, s}
      <4>1. PICK i \in Open : /\ status'[i] = "completed"
                              /\ ~(Reading(s, "lease") /\ i \in seen[s].older)
        BY <3>4 DEF PinMoves
      <4>2. i \in Jobs /\ i >= j
        BY <3>3, <4>1 DEF Open
      <4>3. i = j \/ i > j
        BY <4>2
      <4>4. CASE i = j
        BY <4>1, <4>4
      <4>5. CASE i > j
        BY <4>1, <4>2, <4>5, SMT
      <4> QED
        BY <4>3, <4>4, <4>5
    <3> QED
      BY <3>2, <3>4
  <2> QED
    BY <2>1, <2>3, <2>5, <2>6, <2>7 DEF SeenWell, Open, PinnedTo, Later, Exists
<1> QED
  BY <1>0, <1>1

\* The jobs alone, when the same ones are queued, pending and leased.
LEMMA SameOrder ==
  ASSUME Order, UNCHANGED status
  PROVE  PendingIsNewest' /\ OneLease' /\ NewerIsPending'
  BY DEF Order, PendingIsNewest, OneLease, NewerIsPending, Later, Exists

\* News spreads as the model says, or a copy is read again.
NewsKept(s) == \/ news'[s] \in {news[s], "none", "torn"}
               \/ news'[s] = "change" /\ \E j \in Jobs : Live(j) /\ host[j] # s

\* Nobody takes anything in hand, and no job moves.
LEMMA QuietKeepsOrder ==
  ASSUME TypeOK, Numbered, Order, UNCHANGED <<status, expired, host>>,
         pin' = pin \/ (pin' = NoServer /\ \A s \in Servers : news'[s] # "done"),
         \A s \in Servers : NewsKept(s),
         \A s \in Servers : seen'[s] \in {seen[s], None},
         \A s \in Servers : Working(s)' => Working(s) /\ work'[s].job = work[s].job
  PROVE  Order'
<1>1. Held'
  BY DEF Order, Held, Live
<1>2. PendingIsNewest' /\ OneLease' /\ NewerIsPending'
  BY SameOrder
<1>3. HostPinned'
  BY DEF Order, HostPinned, PinnedTo
<1>4. Guarded'
  <2>1. ASSUME NEW s \in Servers, news'[s] = "change" PROVE \E j \in Jobs : Live(j)' /\ host'[j] # s
    <3>1. \E j \in Jobs : Live(j) /\ host[j] # s
      <4>1. NewsKept(s)
        OBVIOUS
      <4>2. news[s] = "change" => \E j \in Jobs : Live(j) /\ host[j] # s
        BY DEF Order, Guarded
      <4>3. news'[s] \notin {"none", "torn"}
        BY <2>1
      <4>4. news[s] = "change" \/ \E j \in Jobs : Live(j) /\ host[j] # s
        <5>1. news'[s] \in {news[s], "none", "torn"} => news[s] = "change"
          BY <2>1
        <5> QED
          BY <4>1, <5>1, Zenon DEF NewsKept
      <4> QED
        BY <4>2, <4>4, Zenon
    <3> QED
      BY <3>1 DEF Live
  <2>2. ASSUME NEW s \in Servers, news'[s] = "done" PROVE pin' \notin {s, NoServer}
    BY <2>2 DEF NewsKept, Order, Guarded, PinnedTo
  <2> QED
    BY <2>1, <2>2 DEF Guarded, PinnedTo
<1>5. Onward
  <2>1. \A k \in Jobs : status'[k] \in {"pending", "leased"} => k \in Open
    BY DEF Open
  <2> QED
    BY <2>1 DEF Onward, Exists
<1>6. ASSUME NEW s \in Servers PROVE SeenWell(s)'
  <2>1. Follows(s) /\ PinMoves(s)
    BY DEF Follows, PinMoves
  <2> QED
    BY <1>5, <2>1, SeenStays
<1> QED
  BY <1>1, <1>2, <1>3, <1>4, <1>6 DEF Order

\* A claim reads on.
LEMMA ReadingKeepsOrder ==
  ASSUME TypeOK, Numbered, Order, UNCHANGED <<status, expired, host, pin, news, work>>,
         NEW s \in Servers, \A t \in Servers \ {s} : seen'[t] = seen[t], SeenWell(s)'
  PROVE  Order'
<1>1. Held'
  BY DEF Order, Held, Live, Working, Busy
<1>2. PendingIsNewest' /\ OneLease' /\ NewerIsPending'
  BY SameOrder
<1>3. HostPinned'
  BY DEF Order, HostPinned, PinnedTo
<1>4. Guarded'
  BY DEF Order, Guarded, PinnedTo, Live
<1>5. ASSUME NEW t \in Servers, t # s PROVE SeenWell(t)'
  <2>1. seen'[t] = seen[t]
    BY <1>5
  <2> QED
    BY <2>1 DEF Order, SeenWell, Open, PinnedTo, Later, Exists
<1> QED
  BY <1>1, <1>2, <1>3, <1>4, <1>5 DEF Order

LEMMA ReadCandidatesKeepsOrder ==
  ASSUME TypeOK, Numbered, Order, NEW s \in Servers, ReadCandidates(s)
  PROVE  Order'
<1> USE JobsInt
<1>0. JobTypes /\ ServerTypes
  BY InHands
<1>1. PICK r \in Candidates :
        /\ seen' = [seen EXCEPT ![s] = r] /\ r.at = "live"
        /\ \A k \in Jobs : Claimable(k) => k <= r.job
        /\ r.older = {k \in Jobs : Claimable(k) /\ status[k] = "leased" /\ k # r.job}
  BY <1>0, CandidateRead
<1>2. UNCHANGED <<status, expired, host, pin, news, work>>
  BY DEF ReadCandidates, jobs
<1>3. \A t \in Servers : seen'[t] = IF t = s THEN r ELSE seen[t]
  BY <1>0, <1>1 DEF ServerTypes
<1>4. r.job \in Jobs
  BY <1>1 DEF Candidates
<1>5. ASSUME NEW k \in r.older
      PROVE  k < r.job /\ status[k] # "none" /\ (status[k] = "leased" => expired[k])
  <2>1. k \in Jobs /\ Claimable(k) /\ status[k] = "leased" /\ k # r.job /\ k <= r.job
    BY <1>1
  <2>2. k < r.job
    <3>1. k \in Int /\ r.job \in Int
      BY <1>4, <2>1
    <3> QED
      BY <2>1, <3>1
  <2> QED
    BY <2>1, <2>2 DEF Claimable
<1>6. SeenWell(s)'
  <2>1. seen'[s] = r
    BY <1>3
  <2> QED
    BY <1>1, <1>2, <1>5, <2>1 DEF SeenWell, Exists
<1> QED
  BY <1>2, <1>3, <1>6, ReadingKeepsOrder

\* Both later readings.
LEMMA ProceedKeepsOrder ==
  ASSUME TypeOK, Numbered, Order, NEW s \in Servers, NEW handed, NEW next \in {"pin", "lease"},
         Proceed(s, handed, next), seen[s] # None,
         \* what was read allows the next step
         handed => \A k \in Open : k >= seen[s].job \/ k \in seen[s].older,
         handed /\ next = "lease" => PinnedTo(s)
  PROVE  Order'
<1>0. ServerTypes
  BY InHands
<1>1. UNCHANGED <<status, expired, host, pin, news, work>>
  BY DEF Proceed, jobs
<1>2. \/ seen' = [seen EXCEPT ![s] = None]
      \/ seen' = [seen EXCEPT ![s] = [seen[s] EXCEPT !.at = "close"]]
      \/ handed /\ seen' = [seen EXCEPT ![s] = [seen[s] EXCEPT !.at = next]]
  BY DEF Proceed
<1>3. seen[s] \in Candidates
  BY <1>0 DEF ServerTypes
<1>4. \A at : LET r == [seen[s] EXCEPT !.at = at]
              IN  r.job = seen[s].job /\ r.older = seen[s].older /\ r.at = at
  BY <1>3 DEF Candidates
<1>5. ASSUME NEW r, seen' = [seen EXCEPT ![s] = r]
      PROVE  seen'[s] = r /\ \A t \in Servers \ {s} : seen'[t] = seen[t]
  BY <1>0, <1>5 DEF ServerTypes
<1>6. \A k \in seen[s].older : k < seen[s].job /\ Exists(k) /\ (status[k] = "leased" => expired[k])
  BY DEF Order, SeenWell
<1>7. CASE seen' = [seen EXCEPT ![s] = None]
  <2>1. SeenWell(s)'
    BY <1>5, <1>7 DEF SeenWell
  <2> QED
    BY <1>1, <1>5, <1>7, <2>1, ReadingKeepsOrder
<1>8. ASSUME NEW at, seen' = [seen EXCEPT ![s] = [seen[s] EXCEPT !.at = at]],
             at = "close" \/ (handed /\ at = next)
      PROVE  Order'
  <2>1. /\ seen'[s].job = seen[s].job /\ seen'[s].older = seen[s].older /\ seen'[s].at = at
        /\ \A t \in Servers \ {s} : seen'[t] = seen[t]
    <3>1. seen'[s] = [seen[s] EXCEPT !.at = at] /\ \A t \in Servers \ {s} : seen'[t] = seen[t]
      BY <1>5, <1>8
    <3> QED
      BY <1>4, <3>1
  <2>2. SeenWell(s)'
    BY <1>1, <1>6, <1>8, <2>1 DEF SeenWell, Open, PinnedTo, Exists
  <2> QED
    BY <1>1, <2>1, <2>2, ReadingKeepsOrder
<1> QED
  BY <1>2, <1>7, <1>8

LEMMA ReadLiveKeepsOrder ==
  ASSUME TypeOK, Numbered, Order, NEW s \in Servers, ReadLive(s)
  PROVE  Order'
<1> USE JobsInt
<1> DEFINE handed == \A k \in Jobs : status[k] = "leased" =>
                       expired[k] /\ k \in seen[s].older \cup {seen[s].job}
<1>1. Proceed(s, handed, "pin") /\ seen[s] # None
  BY Zenon DEF ReadLive, Reading
<1>2. seen[s].job \in Jobs /\ Exists(seen[s].job)
  BY <1>1, InHands
<1>3. ASSUME handed, NEW k \in Open PROVE k >= seen[s].job \/ k \in seen[s].older
  <2>1. CASE status[k] = "pending"
    <3>1. k \in Jobs /\ Later(k) = {}
      BY <2>1 DEF Open, Order, PendingIsNewest
    <3>2. ~(seen[s].job > k)
      BY <1>2, <3>1 DEF Later
    <3>3. k \in Int /\ seen[s].job \in Int
      BY <1>2, <3>1
    <3> QED
      BY <3>2, <3>3
  <2>2. CASE status[k] = "leased"
    <3>1. k \in Jobs /\ (k = seen[s].job \/ k \in seen[s].older)
      BY <1>3, <2>2 DEF Open
    <3> QED
      BY <3>1
  <2> QED
    BY <2>1, <2>2 DEF Open
<1> HIDE DEF handed
<1> QED
  BY <1>1, <1>3, ProceedKeepsOrder

LEMMA ReadPinKeepsOrder ==
  ASSUME TypeOK, Numbered, Order, NEW s \in Servers, ReadPin(s)
  PROVE  Order'
<1>1. Proceed(s, PinnedTo(s), "lease") /\ seen[s] # None /\ seen[s].at = "pin"
  BY DEF ReadPin, Reading
<1>2. \A k \in Open : k >= seen[s].job \/ k \in seen[s].older
  BY <1>1 DEF Order, SeenWell
<1> QED
  BY <1>1, <1>2, ProceedKeepsOrder


\* A job is queued: it is newer than all.
LEMMA QueuedKeepsOrder ==
  ASSUME TypeOK, Numbered, Order, NEW n \in Jobs, NEW a \in Actions, Queued(n, a),
         UNCHANGED <<expired, host, pin, servers>>
  PROVE  Order'
<1> USE JobsInt
<1>1. /\ status[n] = "none" /\ \A j \in Jobs : Exists(j) <=> j < n
      /\ \A j \in Jobs : status'[j] = IF j = n THEN "pending"
                                      ELSE IF status[j] = "pending" THEN "superseded" ELSE status[j]
  BY DEF Queued
<1>2. UNCHANGED <<expired, host, pin, seen, work, news>>
  BY DEF servers
<1>3. \A s \in Servers : Working(s) => work[s].job \in Jobs
  BY InHands
<1>4. Held'
  <2>1. ASSUME NEW s \in Servers, Working(s) PROVE status'[work[s].job] = "leased"
    <3>1. work[s].job \in Jobs /\ status[work[s].job] = "leased"
      BY <1>3, <2>1 DEF Order, Held, Live
    <3> QED
      BY <1>1, <3>1
  <2> QED
    BY <1>2, <2>1 DEF Order, Held, Live, Working, Busy
<1>5. PendingIsNewest'
  <2>1. \A j \in Jobs : status'[j] = "pending" => j = n
    BY <1>1
  <2>2. \A k \in Jobs : k > n => status'[k] = "none"
    BY <1>1 DEF Exists
  <2> QED
    BY <2>1, <2>2 DEF PendingIsNewest, Later, Exists
<1>6. OneLease'
  BY <1>1 DEF Order, OneLease
<1>7. \A j \in Jobs : status'[j] # "none" /\ j # n => n \in Later(j)'
  BY <1>1 DEF Later, Exists
<1>8. NewerIsPending'
  BY <1>1, <1>7 DEF NewerIsPending
<1>9. HostPinned'
  BY <1>1, <1>2 DEF Order, HostPinned, PinnedTo
<1>10. Guarded'
  <2>1. \A j \in Jobs : Live(j) => Live(j)'
    BY <1>1, <1>2 DEF Live
  <2> QED
    BY <1>2, <2>1 DEF Order, Guarded, PinnedTo
<1>11. Onward
  <2>1. \A k \in Jobs : status'[k] = "leased" => status[k] = "leased"
    BY <1>1
  <2>2. \A k \in Jobs : status'[k] = "pending" => k = n
    BY <1>1
  <2>3. \A k \in Jobs : status'[k] # "none" \/ ~Exists(k)
    BY <1>1 DEF Exists
  <2>4. \A i \in Jobs : Exists(i) => n >= i
    BY <1>1
  <2>5. \A k \in Jobs : status[k] = "completed" => status'[k] = "completed"
    BY <1>1
  <2> QED
    BY <1>2, <2>1, <2>2, <2>3, <2>4, <2>5 DEF Onward, Open
<1>12. ASSUME NEW s \in Servers PROVE SeenWell(s)'
  <2>1. Follows(s) /\ PinMoves(s)
    BY <1>2 DEF Follows, PinMoves
  <2> QED
    BY <1>11, <2>1, SeenStays
<1> QED
  BY <1>4, <1>5, <1>6, <1>8, <1>9, <1>10, <1>12 DEF Order

\* A dead job is put back: there is none newer.
LEMMA RevivedKeepsOrder ==
  ASSUME TypeOK, Numbered, Order, NEW j \in Jobs, Revived(j), UNCHANGED <<expired, host, pin, servers>>
  PROVE  Order'
<1> USE JobsInt
<1>1. /\ status[j] = "dead_letter" /\ \A k \in Jobs : k > j => status[k] = "none"
      /\ \A k \in Jobs : status'[k] = IF k = j THEN "pending" ELSE status[k]
  BY Parts DEF Revived, Later, Exists, JobTypes
<1>2. UNCHANGED <<expired, host, pin, seen, work, news>>
  BY DEF servers
<1>3. \A s \in Servers : Working(s) => work[s].job \in Jobs
  BY InHands
<1>4. \A k \in Jobs : Exists(k)' <=> Exists(k)
  BY <1>1 DEF Exists
<1>5. \A k \in Jobs : Later(k)' = Later(k)
  BY <1>4 DEF Later
<1>6. Held'
  <2>1. ASSUME NEW s \in Servers, Working(s) PROVE status'[work[s].job] = "leased"
    <3>1. work[s].job \in Jobs /\ status[work[s].job] = "leased"
      BY <1>3, <2>1 DEF Order, Held, Live
    <3> QED
      BY <1>1, <3>1
  <2> QED
    BY <1>2, <2>1 DEF Order, Held, Live, Working, Busy
<1>7. PendingIsNewest'
  BY <1>1, <1>5 DEF Order, PendingIsNewest, Later, Exists
<1>8. OneLease'
  BY <1>1 DEF Order, OneLease
<1>9. NewerIsPending'
  <2>1. ASSUME NEW k \in Jobs, status'[k] = "leased", Later(k)' # {}
        PROVE  \E i \in Later(k)' : status'[i] = "pending"
    <3>1. PICK i \in Later(k) : status[i] = "pending"
      BY <1>1, <1>5, <2>1 DEF Order, NewerIsPending
    <3> QED
      BY <1>1, <1>5, <3>1 DEF Later
  <2> QED
    BY <2>1 DEF NewerIsPending
<1>10. HostPinned'
  BY <1>1, <1>2 DEF Order, HostPinned, PinnedTo
<1>11. Guarded'
  <2>1. \A k \in Jobs : Live(k) => Live(k)'
    BY <1>1, <1>2 DEF Live
  <2> QED
    BY <1>2, <2>1 DEF Order, Guarded, PinnedTo
<1>12. Onward
  <2>1. \A k \in Jobs : status'[k] = "leased" => status[k] = "leased"
    BY <1>1
  <2>2. \A k \in Jobs : status'[k] = "pending" => k = j \/ status[k] = "pending"
    BY <1>1
  <2>3. \A i \in Jobs : Exists(i) => j >= i
    BY <1>1 DEF Exists
  <2>4. \A k \in Jobs : status[k] = "completed" => status'[k] = "completed"
    BY <1>1
  <2>5. \A k \in Jobs : Exists(k) => status'[k] # "none"
    BY <1>4 DEF Exists
  <2> QED
    BY <1>2, <2>1, <2>2, <2>3, <2>4, <2>5 DEF Onward, Open
<1>13. ASSUME NEW s \in Servers PROVE SeenWell(s)'
  <2>1. Follows(s) /\ PinMoves(s)
    BY <1>2 DEF Follows, PinMoves
  <2> QED
    BY <1>12, <2>1, SeenStays
<1> QED
  BY <1>6, <1>7, <1>8, <1>9, <1>10, <1>11, <1>13 DEF Order

\* Closing leases disturbs none of what is said of the jobs alone.
LEMMA ClosedJobs ==
  ASSUME JobTypes, Order, NEW S, Closing(S)
  PROVE  /\ PendingIsNewest' /\ OneLease' /\ NewerIsPending' /\ Onward
         /\ \A j \in Jobs : Later(j)' = Later(j)
         /\ Open' \subseteq Open
         /\ \A j \in Jobs : j \in S => status[j] = "leased" /\ status'[j] \notin {"pending", "leased"}
         /\ \A j \in Jobs \ S : status'[j] = status[j] /\ expired'[j] = expired[j] /\ host'[j] = host[j]
<1>1. PICK how \in {"superseded", "completed", "dead_letter"} : Close(S, how)
  BY DEF Closing
<1>2. \A j \in Jobs : /\ j \in S => status[j] = "leased" /\ status'[j] = how
                      /\ j \notin S => /\ status'[j] = status[j] /\ host'[j] = host[j]
                                       /\ expired'[j] = (expired[j] /\ j \notin S)
  BY <1>1 DEF Closing, Close
<1>3. \A j \in Jobs \ S : expired'[j] = expired[j]
  <2>1. \A j \in Jobs : expired[j] \in BOOLEAN
    BY DEF JobTypes
  <2> QED
    BY <1>2, <2>1
<1>4. \A j \in Jobs : Exists(j)' <=> Exists(j)
  BY <1>2 DEF Exists
<1>5. \A j \in Jobs : Later(j)' = Later(j)
  BY <1>4 DEF Later
<1>6. \A j \in Jobs : status'[j] = "pending" <=> status[j] = "pending"
  BY <1>2
<1>7. PendingIsNewest'
  BY <1>5, <1>6 DEF Order, PendingIsNewest
<1>8. OneLease'
  BY <1>2 DEF Order, OneLease
<1>9. NewerIsPending'
  <2>1. ASSUME NEW k \in Jobs, status'[k] = "leased", Later(k)' # {}
        PROVE  \E i \in Later(k)' : status'[i] = "pending"
    <3>1. status[k] = "leased" /\ Later(k) # {}
      BY <1>2, <1>5, <2>1
    <3>2. PICK i \in Later(k) : status[i] = "pending"
      BY <3>1 DEF Order, NewerIsPending
    <3> QED
      BY <1>5, <1>6, <3>2 DEF Later
  <2> QED
    BY <2>1 DEF NewerIsPending
<1>10. Open' \subseteq Open
  BY <1>2 DEF Open
<1>11. Onward
  <2>1. \A k \in Jobs : Exists(k) => status'[k] # "none"
    BY <1>4 DEF Exists
  <2>2. \A k \in Jobs : status'[k] = "leased" => status[k] = "leased" /\ expired'[k] = expired[k]
    BY <1>2, <1>3
  <2>3. \A k \in Jobs : status'[k] \in {"pending", "leased"} => k \in Open
    BY <1>10 DEF Open
  <2>4. \A k \in Jobs : status[k] = "completed" => status'[k] = "completed"
    BY <1>2
  <2> QED
    BY <2>1, <2>2, <2>3, <2>4 DEF Onward
<1> QED
  BY <1>2, <1>3, <1>5, <1>7, <1>8, <1>9, <1>10, <1>11

\* No other server works while one has a lease.
LEMMA OneWorks ==
  ASSUME Order, NEW s \in Servers, NEW t \in Servers, Working(t),
         NEW j \in Jobs, status[j] = "leased", host[j] = s, work[t].job \in Jobs
  PROVE  t = s
  BY DEF Order, OneLease, Held, Live

\* An older lease that is still expired gives way.
LEMMA SupersedeKeepsOrder ==
  ASSUME TypeOK, Numbered, Order, NEW s \in Servers, NEW i \in Jobs, Supersede(s, i)
  PROVE  Order'
<1> USE JobsInt
<1> DEFINE S == {i} \cap {k \in Jobs : status[k] = "leased" /\ expired[k]}
           rest == seen[s].older \ {i}
<1>0. /\ JobTypes /\ ServerTypes
      /\ \A t \in Servers : Working(t) => work[t].job \in Jobs
  BY InHands
<1>1. Close(S, "superseded") /\ UNCHANGED <<pin, work, news>>
  BY DEF Supersede
<1>2. \A k \in S : k \in Jobs /\ status[k] = "leased" /\ expired[k]
  OBVIOUS
<1>3. status[i] = "leased" /\ expired[i] => i \in S
  OBVIOUS
<1> HIDE DEF S
<1>4. Closing(S)
  BY <1>1, <1>2 DEF Closing
<1>5. /\ PendingIsNewest' /\ OneLease' /\ NewerIsPending' /\ Onward
      /\ \A k \in Jobs : Later(k)' = Later(k)
      /\ Open' \subseteq Open
      /\ \A k \in Jobs : k \in S => status[k] = "leased" /\ status'[k] \notin {"pending", "leased"}
      /\ \A k \in Jobs \ S : status'[k] = status[k] /\ expired'[k] = expired[k] /\ host'[k] = host[k]
  BY <1>0, <1>4, ClosedJobs
<1>6. \A k \in Jobs : Live(k) => k \notin S /\ Live(k)' /\ host'[k] = host[k]
  BY <1>2, <1>5 DEF Live
<1>7. Held'
  <2>1. ASSUME NEW t \in Servers, Working(t)
        PROVE  host'[work[t].job] = t /\ status'[work[t].job] = "leased" /\ ~expired'[work[t].job]
    <3>1. work[t].job \in Jobs /\ Live(work[t].job) /\ host[work[t].job] = t
      BY <1>0, <2>1 DEF Order, Held
    <3> QED
      BY <1>2, <1>5, <3>1 DEF Live
  <2> QED
    BY <1>1, <2>1 DEF Held, Live, Working, Busy
<1>8. HostPinned'
  <2>1. ASSUME NEW k \in Jobs, status'[k] = "leased" PROVE host'[k] = host[k] /\ status[k] = "leased"
    BY <1>5, <2>1
  <2> QED
    BY <1>1, <2>1 DEF Order, HostPinned, PinnedTo
<1>9. Guarded'
  BY <1>1, <1>6 DEF Order, Guarded, PinnedTo
<1>10. \A t \in Servers \ {s} : seen'[t] = seen[t]
  BY <1>0 DEF Supersede, ServerTypes
<1>11. seen[s] # None /\ i \in seen[s].older /\ seen[s].at \in {"lease", "close"}
  BY DEF Supersede, Reading
<1>12. i < seen[s].job /\ (status[i] = "leased" => expired[i])
  BY <1>11 DEF Order, SeenWell
<1>13. status'[i] \notin {"pending", "leased"}
  <2>1. CASE status[i] = "leased"
    BY <1>3, <1>5, <1>12, <2>1
  <2>2. CASE status[i] = "pending"
    <3>1. seen[s].job \in Later(i)
      BY <1>11, <1>12, InHands DEF Later
    <3> QED
      BY <2>2, <3>1 DEF Order, PendingIsNewest
  <2>3. CASE status[i] \notin {"pending", "leased"}
    <3>1. i \notin S
      BY <1>2, <2>3
    <3> QED
      BY <1>5, <2>3, <3>1
  <2> QED
    BY <2>1, <2>2, <2>3
<1>14. Follows(s)
  <2>1. seen'[s] = IF seen[s].at = "close" /\ rest = {} THEN None
                   ELSE [seen[s] EXCEPT !.older = rest]
    BY <1>0 DEF Supersede, ServerTypes
  <2>2. seen[s] \in Candidates
    BY <1>0, <1>11 DEF ServerTypes
  <2>3. LET r == [seen[s] EXCEPT !.older = rest]
        IN  r.job = seen[s].job /\ r.at = seen[s].at /\ r.older = rest
    BY <2>2 DEF Candidates
  <2>4. seen'[s] # None => /\ seen'[s].job = seen[s].job /\ seen'[s].at = seen[s].at
                           /\ seen'[s].older = rest
    BY <2>1, <2>3
  <2>5. \A k \in seen[s].older \ rest : k = i
    OBVIOUS
  <2> HIDE DEF rest
  <2>6. rest \subseteq seen[s].older
    BY DEF rest
  <2> QED
    BY <1>11, <1>13, <2>4, <2>5, <2>6 DEF Follows
<1>15. ASSUME NEW t \in Servers PROVE SeenWell(t)'
  <2>1. Follows(t)
    BY <1>10, <1>14 DEF Follows
  <2>2. PinMoves(t)
    BY <1>1 DEF PinMoves
  <2> QED
    BY <1>5, <2>1, <2>2, SeenStays
<1> QED
  BY <1>5, <1>7, <1>8, <1>9, <1>15 DEF Order

\* A claim that succeeds, and overtakes nothing.
LEMMA ClaimKeepsOrder ==
  ASSUME TypeOK, Numbered, Order, NEW s \in Servers, Claim(s), ~astray'
  PROVE  Order'
<1> USE JobsInt
<1>0. /\ JobTypes /\ Agreement /\ ServerTypes
      /\ \A t \in Servers : seen[t] # None => seen[t].job \in Jobs /\ Exists(seen[t].job)
      /\ \A t \in Servers : Working(t) => work[t].job \in Jobs
  BY InHands
<1>1. seen[s] # None /\ seen[s].at = "lease" /\ seen[s].older = {}
  BY DEF Claim, MayLease, Reading
<1>2. PICK j \in Jobs : j = seen[s].job
  BY <1>0, <1>1
<1>3. status[j] \in {"pending", "leased"}
  BY <1>0, <1>1, <1>2, Hands DEF Claim, Unchanged
<1>4. \A k \in Open : ~(k > j) /\ ~Live(k)
  BY <1>2, Zenon DEF Claim
<1>5. \A k \in Open : k >= j
  <2>1. \A k \in Open : k >= seen[s].job \/ k \in seen[s].older
    BY <1>1 DEF Order, SeenWell
  <2> QED
    BY <1>1, <1>2, <2>1
<1>6. \A k \in Jobs : status[k] \in {"pending", "leased"} => k = j
  BY <1>4, <1>5 DEF Open
<1>7. Later(j) = {}
  <2>1. CASE status[j] = "pending"
    BY <2>1 DEF Order, PendingIsNewest
  <2>2. CASE status[j] = "leased"
    <3>1. ASSUME Later(j) # {} PROVE FALSE
      <4>1. PICK k \in Later(j) : status[k] = "pending"
        BY <2>2, <3>1 DEF Order, NewerIsPending
      <4> QED
        BY <1>6, <4>1 DEF Later
    <3> QED
      BY <3>1
  <2> QED
    BY <1>3, <2>1, <2>2
<1>8. PinnedTo(s)
  <2>1. PinnedTo(s) \/ Later(seen[s].job) # {} \/ status[seen[s].job] = "completed"
    BY <1>1 DEF Order, SeenWell
  <2> QED
    BY <1>2, <1>3, <1>7, <2>1
<1>9. \A k \in Jobs : ~Live(k)
  BY <1>4 DEF Live, Open
<1>10. \A t \in Servers : ~Working(t)
  BY <1>0, <1>9 DEF Order, Held
<1>11. /\ \A k \in Jobs : status'[k] = IF k = j THEN "leased" ELSE status[k]
       /\ \A k \in Jobs \ {j} : expired'[k] = expired[k]
       /\ host'[j] = s /\ ~expired'[j] /\ pin' = pin /\ news' = news
       /\ work'[s] = [job |-> j, at |-> "reply"] /\ seen'[s] = None
       /\ \A t \in Servers \ {s} : work'[t] = work[t] /\ seen'[t] = seen[t]
  BY <1>0, <1>2, <1>3 DEF Claim, Forget, JobTypes, ServerTypes
<1>12. Held'
  <2>1. \A t \in Servers : Working(t)' => t = s
    BY <1>10, <1>11 DEF Working, Busy
  <2>2. work'[s].job = j
    <3>1. work'[s] = [job |-> j, at |-> "reply"]
      BY <1>11
    <3> QED
      BY <3>1
  <2>3. \A t \in Servers : Working(t)' => host'[work'[t].job] = t /\ Live(work[t].job)'
    BY <1>11, <2>1, <2>2 DEF Live
  <2> QED
    BY <2>3 DEF Held
<1>13. PendingIsNewest' /\ OneLease'
  BY <1>6, <1>11 DEF PendingIsNewest, OneLease
<1>14. \A k \in Jobs : Exists(k)' <=> Exists(k)
  BY <1>3, <1>11 DEF Exists
<1>15. \A k \in Jobs : status'[k] = "leased" => k = j
  BY <1>6, <1>11
<1>16. NewerIsPending'
  <2>1. \A k \in Jobs : k > j => ~Exists(k)'
    BY <1>7, <1>14 DEF Later
  <2> QED
    BY <1>15, <2>1 DEF NewerIsPending, Later
<1>17. HostPinned'
  BY <1>8, <1>11, <1>15 DEF HostPinned, PinnedTo
<1>18. Guarded'
  BY <1>9, <1>11 DEF Order, Guarded, PinnedTo
<1>19. Onward
  <2>1. \A k \in Jobs : status'[k] \in {"pending", "leased"} => k \in Open
    BY <1>3, <1>11 DEF Open
  <2>2. \A k \in Jobs : status[k] = "completed" => status'[k] = "completed"
    BY <1>3, <1>11
  <2>3. \A k \in Jobs : status'[k] = "leased" /\ Later(k) # {} => FALSE
    BY <1>7, <1>15
  <2> QED
    BY <1>14, <2>1, <2>2, <2>3 DEF Onward, Exists
<1>20. ASSUME NEW t \in Servers PROVE SeenWell(t)'
  <2>1. Follows(t) /\ PinMoves(t)
    BY <1>11 DEF Follows, PinMoves
  <2> QED
    BY <1>19, <2>1, SeenStays
<1> QED
  BY <1>12, <1>13, <1>16, <1>17, <1>18, <1>20 DEF Order

\* How a lease ends for good: expired, in the claim that read it; or by its own
\* server's report, of a failure or, where no claim has passed it over, a completion.
Settles(s, j, how) ==
  \/ expired[j] /\ UNCHANGED <<work, pin, news>>
  \/ host[j] = s /\ Idle(s) /\ UNCHANGED pin /\ Unpinned
  \/ /\ host[j] = s /\ Idle(s) /\ pin' = s /\ how = "completed"
     /\ news' = [t \in Servers |-> IF t = s \/ news[t] = "none" THEN news[t] ELSE "done"]
     /\ \A t \in Servers \ {s} : ~(Reading(t, "lease") /\ j \in seen[t].older)

LEMMA CloseKeepsOrder ==
  ASSUME TypeOK, Numbered, Order, NEW j \in Jobs, status[j] = "leased",
         NEW how \in {"completed", "dead_letter"}, Close({j}, how),
         NEW s \in Servers, \A t \in Servers : seen'[t] \in {seen[t], None}, Settles(s, j, how)
  PROVE  Order'
<1> USE JobsInt
<1>0. /\ JobTypes /\ Agreement /\ ServerTypes /\ GameTypes
      /\ \A t \in Servers : Working(t) => work[t].job \in Jobs
  BY InHands
<1>1. Closing({j})
  BY DEF Closing
<1>2. /\ PendingIsNewest' /\ OneLease' /\ NewerIsPending' /\ Onward
      /\ \A k \in Jobs \ {j} : status'[k] = status[k] /\ expired'[k] = expired[k] /\ host'[k] = host[k]
  BY <1>0, <1>1, ClosedJobs
<1>3. status'[j] = how
  BY DEF Close
<1>4. ASSUME NEW t \in Servers, Working(t)'
      PROVE  Working(t) /\ work'[t] = work[t] /\ work[t].job \in Jobs \ {j}
  <2>1. CASE expired[j] /\ UNCHANGED <<work, pin, news>>
    <3>1. Working(t) /\ work'[t] = work[t]
      BY <1>4, <2>1 DEF Working, Busy
    <3> QED
      BY <1>0, <2>1, <3>1 DEF Order, Held, Live
  <2>2. CASE host[j] = s /\ Idle(s)
    <3>1. t # s
      BY <1>0, <1>4, <2>2 DEF Idle, ServerTypes, Working, Busy
    <3>2. Working(t) /\ work'[t] = work[t]
      BY <1>0, <1>4, <2>2, <3>1 DEF Idle, ServerTypes, Working, Busy
    <3>3. work[t].job # j
      BY <2>2, <3>1, <3>2 DEF Order, Held
    <3> QED
      BY <1>0, <3>2, <3>3
  <2> QED
    BY <2>1, <2>2 DEF Settles
<1>5. Held'
  <2>1. ASSUME NEW t \in Servers, Working(t)'
        PROVE  /\ host'[work'[t].job] = t
               /\ status'[work'[t].job] = "leased" /\ ~expired'[work'[t].job]
    <3>1. Working(t) /\ work'[t] = work[t] /\ work[t].job \in Jobs \ {j}
      BY <1>4, <2>1
    <3>2. host[work[t].job] = t /\ status[work[t].job] = "leased" /\ ~expired[work[t].job]
      BY <3>1 DEF Order, Held, Live
    <3> QED
      BY <1>2, <3>1, <3>2
  <2> QED
    BY <2>1 DEF Held, Live
<1>6. \A k \in Jobs : status'[k] # "leased"
  BY <1>2, <1>3 DEF Order, OneLease
<1>7. HostPinned'
  BY <1>6 DEF HostPinned
<1>8. \A k \in Jobs : Live(k) => k = j
  BY DEF Order, OneLease, Live
<1>9. Guarded'
  <2>1. CASE expired[j] /\ UNCHANGED <<work, pin, news>>
    BY <1>8, <2>1 DEF Order, Guarded, Live, PinnedTo
  <2>2. CASE UNCHANGED pin /\ Unpinned
    <3>1. \A t \in Servers : news'[t] = IF news[t] = "change" THEN "torn" ELSE news[t]
      BY <2>2 DEF Unpinned
    <3> QED
      BY <2>2, <3>1 DEF Order, Guarded, PinnedTo
  <2>3. CASE /\ host[j] = s /\ pin' = s
             /\ news' = [t \in Servers |-> IF t = s \/ news[t] = "none" THEN news[t] ELSE "done"]
    <3>1. news[s] # "change"
      BY <1>8, <2>3 DEF Order, Guarded
    <3>2. news[s] # "done"
      <4>1. PinnedTo(s)
        BY <2>3 DEF Order, HostPinned
      <4> QED
        BY <4>1 DEF Order, Guarded
    <3>3. \A t \in Servers : news'[t] # "change" /\ (news'[t] = "done" => t # s)
      BY <2>3, <3>1, <3>2
    <3>4. s # NoServer
      BY VipConstants DEF VipConstants
    <3> QED
      BY <2>3, <3>3, <3>4 DEF Guarded, PinnedTo
  <2> QED
    BY <2>1, <2>2, <2>3 DEF Settles
<1>10. ASSUME NEW t \in Servers PROVE SeenWell(t)'
  <2>1. Follows(t)
    BY DEF Follows
  <2>2. PinMoves(t)
    <3>1. j \in Open
      BY DEF Open
    <3>2. CASE pin' \in {pin, NoServer, t}
      BY <3>2 DEF PinMoves
    <3>3. CASE pin' \notin {pin, NoServer, t}
      <4>1. how = "completed" /\ ~(Reading(t, "lease") /\ j \in seen[t].older)
        BY <3>3 DEF Settles
      <4> QED
        BY <1>3, <3>1, <4>1 DEF PinMoves
    <3> QED
      BY <3>2, <3>3
  <2> QED
    BY <1>2, <2>1, <2>2, SeenStays
<1> QED
  BY <1>2, <1>5, <1>7, <1>9, <1>10 DEF Order

\* A failed or released job is open again, and none is newer.
LEMMA RequeueKeepsOrder ==
  ASSUME TypeOK, Numbered, Order, NEW s \in Servers, NEW j \in Jobs, Requeued(j), host[j] = s,
         Later(j) = {}, Idle(s), UNCHANGED <<pin, seen>>, Unpinned
  PROVE  Order'
<1> USE JobsInt
<1>0. /\ JobTypes /\ Agreement /\ ServerTypes
      /\ \A t \in Servers : Working(t) => work[t].job \in Jobs
  BY InHands
<1>1. /\ status[j] = "leased"
      /\ \A k \in Jobs : status'[k] = IF k = j THEN "pending" ELSE status[k]
      /\ \A k \in Jobs \ {j} : expired'[k] = expired[k]
  BY <1>0 DEF Requeued, JobTypes
<1>2. \A t \in Servers : ~Working(t)'
  <2>1. ASSUME NEW t \in Servers, Working(t)' PROVE FALSE
    <3>1. t # s /\ Working(t)
      BY <1>0, <2>1 DEF Idle, ServerTypes, Working, Busy
    <3>2. t = s
      BY <1>0, <1>1, <3>1, OneWorks
    <3> QED
      BY <3>1, <3>2
  <2> QED
    BY <2>1
<1>3. Held'
  BY <1>2 DEF Held
<1>4. \A k \in Jobs : Exists(k)' <=> Exists(k)
  BY <1>1 DEF Exists
<1>5. \A k \in Jobs : Later(k)' = Later(k)
  BY <1>4 DEF Later
<1>6. PendingIsNewest'
  BY <1>1, <1>5 DEF Order, PendingIsNewest
<1>7. \A k \in Jobs : status'[k] # "leased"
  BY <1>1 DEF Order, OneLease
<1>8. OneLease' /\ NewerIsPending' /\ HostPinned'
  BY <1>7 DEF OneLease, NewerIsPending, HostPinned
<1>9. Guarded'
  <2>1. \A t \in Servers : news'[t] = IF news[t] = "change" THEN "torn" ELSE news[t]
    BY DEF Unpinned
  <2> QED
    BY <2>1 DEF Order, Guarded, PinnedTo
<1>10. Onward
  <2>1. \A k \in Jobs : status'[k] \in {"pending", "leased"} => k \in Open
    BY <1>1 DEF Open
  <2>2. \A k \in Jobs : status[k] = "completed" => status'[k] = "completed"
    BY <1>1
  <2> QED
    BY <1>4, <1>7, <2>1, <2>2 DEF Onward, Exists
<1>11. ASSUME NEW t \in Servers PROVE SeenWell(t)'
  <2>1. Follows(t) /\ PinMoves(t)
    BY DEF Follows, PinMoves
  <2> QED
    BY <1>10, <2>1, SeenStays
<1> QED
  BY <1>3, <1>6, <1>8, <1>9, <1>11 DEF Order

\* A lease runs out that nobody works under.
LEMMA ExpiryKeepsOrder ==
  ASSUME TypeOK, Numbered, Order, NEW j \in Jobs, LeaseExpires(j), ~astray'
  PROVE  Order'
<1> USE JobsInt
<1>0. /\ JobTypes /\ Agreement /\ ServerTypes
      /\ \A t \in Servers : Working(t) => work[t].job \in Jobs
  BY InHands
<1>1. UNCHANGED <<status, host, pin, seen, work>> /\ expired' = [expired EXCEPT ![j] = TRUE]
  BY DEF LeaseExpires
<1>2. ~InHand(j)
  BY Zenon DEF LeaseExpires
<1>3. Held'
  <2>1. ASSUME NEW t \in Servers, Working(t)
        PROVE  host[work[t].job] = t /\ status[work[t].job] = "leased" /\ ~expired'[work[t].job]
    <3>1. work[t].job # j
      BY <1>2, <2>1, Zenon DEF InHand, Working, Busy
    <3> QED
      BY <1>0, <1>1, <2>1, <3>1 DEF Order, Held, Live, JobTypes
  <2> QED
    BY <1>1, <2>1 DEF Held, Live, Working, Busy
<1>4. PendingIsNewest' /\ OneLease' /\ NewerIsPending'
  BY <1>1, SameOrder
<1>5. HostPinned'
  BY <1>1 DEF Order, HostPinned, PinnedTo
<1>6. Guarded'
  <2>1. \A t \in Servers : news'[t] = IF news[t] = "change" THEN "torn" ELSE news[t]
    BY DEF LeaseExpires, Unpinned
  <2> QED
    BY <1>1, <2>1 DEF Order, Guarded, PinnedTo
<1>7. Onward
  <2>1. \A k \in Jobs : status'[k] \in {"pending", "leased"} => k \in Open
    BY <1>1 DEF Open
  <2>2. \A k \in Jobs : expired[k] => expired'[k]
    BY <1>0, <1>1 DEF JobTypes
  <2> QED
    BY <1>1, <2>1, <2>2 DEF Onward, Exists
<1>8. ASSUME NEW t \in Servers PROVE SeenWell(t)'
  <2>1. Follows(t) /\ PinMoves(t)
    BY <1>1 DEF Follows, PinMoves
  <2> QED
    BY <1>7, <2>1, SeenStays
<1> QED
  BY <1>3, <1>4, <1>5, <1>6, <1>8 DEF Order

LEMMA ClaimingKeepsOrder ==
  ASSUME TypeOK, Numbered, Order, NEW s \in Servers, Claiming(s), ~astray'
  PROVE  Order'
<1>0. ServerTypes
  BY InHands
<1>1. CASE ReadCandidates(s) \/ ReadLive(s) \/ ReadPin(s)
  BY <1>1, ReadCandidatesKeepsOrder, ReadLiveKeepsOrder, ReadPinKeepsOrder
<1>2. CASE \E k \in Jobs : Supersede(s, k)
  BY <1>2, SupersedeKeepsOrder
<1>3. CASE LoseClaim(s)
  <2>1. \A t \in Servers : seen'[t] \in {seen[t], None}
    BY <1>0, <1>3 DEF LoseClaim, Forget, ServerTypes
  <2> QED
    BY <1>3, <2>1, QuietKeepsOrder DEF LoseClaim, jobs, Working, Busy, NewsKept
<1>4. CASE Claim(s)
  BY <1>4, ClaimKeepsOrder
<1>5. CASE DeadLetterExpired(s)
  <2>1. \A t \in Servers : seen'[t] \in {seen[t], None}
    BY <1>0, <1>5 DEF DeadLetterExpired, Forget, ServerTypes
  <2>2. seen[s] # None /\ status[seen[s].job] = "leased" /\ expired[seen[s].job]
    BY <1>5 DEF DeadLetterExpired, MayLease, Reading, Unchanged
  <2>3. PICK j \in Jobs : j = seen[s].job
    BY <2>2, InHands
  <2>4. Close({j}, "dead_letter") /\ UNCHANGED <<work, pin, news>>
    BY <1>5, <2>3 DEF DeadLetterExpired, DeadLetter
  <2>5. Settles(s, j, "dead_letter")
    BY <2>2, <2>3, <2>4 DEF Settles
  <2> QED
    BY <2>1, <2>2, <2>3, <2>4, <2>5, CloseKeepsOrder
<1> QED
  BY <1>1, <1>2, <1>3, <1>4, <1>5 DEF Claiming

\* A run goes on in the same hands.
LEMMA RunningHands ==
  ASSUME ServerTypes, NEW s \in Servers, Running(s)
  PROVE  \A t \in Servers : /\ Working(t)' => Working(t) /\ work'[t].job = work[t].job
                            /\ t # s => work'[t] = work[t]
<1>1. CASE \E says : Report(s, says)
  BY <1>1 DEF Report, ServerTypes, Working, Busy
<1>2. CASE Begin(s)
  BY <1>2 DEF Begin, ServerTypes, Working, Busy
<1>3. CASE RunStep(s)
  <2>1. work[s] \in Runs /\ work' = [work EXCEPT ![s] = [work[s] EXCEPT !.steps = Tail(@)]]
    BY <1>3, Hands DEF RunStep
  <2>2. /\ Working(s) /\ work'[s].job = work[s].job
        /\ \A t \in Servers \ {s} : work'[t] = work[t]
    BY <1>3, <2>1 DEF RunStep, ServerTypes, Runs, Working
  <2> QED
    BY <2>2 DEF Working, Busy
<1> QED
  BY <1>1, <1>2, <1>3 DEF Running, HandBack, Reject, AlreadyDone, StepFails, NotEffective,
     Applied

\* Only a call changes what is stored, and then the server's own lease is live.
LEMMA RunningNews ==
  ASSUME TypeOK, Numbered, Order, NEW s \in Servers, Running(s)
  PROVE  \A t \in Servers : NewsKept(t)
<1>1. CASE Call(s) /\ Busy(s, "running")
  <2>1. \A t \in Servers : \/ news'[t] = news[t]
                           \/ t # s /\ news'[t] = "change"
    BY <1>1 DEF Call
  <2>2. work[s].job \in Jobs /\ Live(work[s].job) /\ host[work[s].job] = s
    BY <1>1, InHands DEF Order, Held, Working
  <2>3. \A t \in Servers : t # s => \E j \in Jobs : Live(j) /\ host[j] # t
    BY <2>2
  <2> QED
    BY <2>1, <2>3 DEF NewsKept
<1>2. CASE UNCHANGED news
  BY <1>2 DEF NewsKept
<1>3. (Call(s) /\ Busy(s, "running")) \/ UNCHANGED news
  BY Zenon DEF Running, HandBack, Reject, AlreadyDone, Begin, RunStep, StepFails,
     NotEffective, Applied, Local
<1> QED
  BY <1>1, <1>2, <1>3

LEMMA RunningKeepsOrder ==
  ASSUME TypeOK, Numbered, Order, NEW s \in Servers, Running(s)
  PROVE  Order'
<1>1. \A t \in Servers : Working(t)' => Working(t) /\ work'[t].job = work[t].job
  BY RunningHands, InHands
<1>2. UNCHANGED <<status, expired, host, seen, pin>>
  BY RunningJobs DEF SameJobs
<1> QED
  BY <1>1, <1>2, RunningNews, QuietKeepsOrder

\* A server lets go of its job.
LEMMA IdleKeepsOrder ==
  ASSUME TypeOK, Numbered, Order, NEW s \in Servers, Idle(s),
         UNCHANGED <<status, expired, host, seen, pin, news>>
  PROVE  Order'
<1>1. \A t \in Servers : Working(t)' => Working(t) /\ work'[t].job = work[t].job
  BY InHands DEF Idle, ServerTypes, Working, Busy
<1> QED
  BY <1>1, QuietKeepsOrder DEF NewsKept

LEMMA ReportingKeepsOrder ==
  ASSUME TypeOK, Numbered, Order, NEW s \in Servers, Reporting(s), ~astray'
  PROVE  Order'
<1>0. JobTypes /\ Agreement /\ ServerTypes
  BY InHands
<1>1. Busy(s, "report") /\ work[s].job \in Jobs
  BY <1>0, Hands DEF Reporting, RefuseReport, Complete, FailRetry, FailFinal, Release, Busy
<1>2. Idle(s) /\ UNCHANGED seen
  BY <1>0, ReportingJobs
<1>3. PICK j \in Jobs : j = work[s].job
  BY <1>1
<1>4. CASE RefuseReport(s)
  BY <1>2, <1>4, IdleKeepsOrder DEF RefuseReport, jobs
<1>5. CASE Complete(s)
  <2>1. Close({j}, "completed") /\ status[j] = "leased" /\ host[j] = s
    BY <1>3, <1>5 DEF Complete, Valid
  <2>2. \A t \in Servers \ {s} : ~(Reading(t, "lease") /\ j \in seen[t].older)
    BY <1>3, <1>5, Zenon DEF Complete, Outrun
  <2>3. Settles(s, j, "completed")
    BY <1>2, <1>5, <2>1, <2>2, Zenon DEF Complete, Settles
  <2> QED
    BY <1>2, <2>1, <2>3, CloseKeepsOrder
<1>6. CASE FailFinal(s)
  <2>1. Close({j}, "dead_letter") /\ status[j] = "leased" /\ host[j] = s
    BY <1>3, <1>6 DEF FailFinal, DeadLetter, Valid
  <2>2. Settles(s, j, "dead_letter")
    BY <1>2, <1>6, <2>1 DEF FailFinal, Settles
  <2> QED
    BY <1>2, <2>1, <2>2, CloseKeepsOrder
<1>7. CASE FailRetry(s) \/ Release(s)
  <2>1. Requeued(j) /\ host[j] = s /\ UNCHANGED pin /\ Unpinned
    BY <1>1, <1>3, <1>7 DEF FailRetry, Release, Requeue, Requeued, Valid
  <2>2. Later(j) = {}
    BY <1>3, <1>7, Zenon DEF FailRetry, Release, Requeue
  <2> QED
    BY <1>2, <2>1, <2>2, RequeueKeepsOrder
<1> QED
  BY <1>4, <1>5, <1>6, <1>7 DEF Reporting

LEMMA PassingKeepsOrder ==
  ASSUME TypeOK, Numbered, Order, Passing
  PROVE  Order'
<1>0. GameTypes
  BY InHands
<1>1. UNCHANGED <<status, expired, host, seen, work>>
  BY DEF Passing, ReadGroups, CopyLapse, PinEnds, Lapse, vars, jobs, servers
<1>2. \A s \in Servers : NewsKept(s)
  <2>1. ASSUME NEW t \in Servers, ReadGroups(t) PROVE \A s \in Servers : news'[s] \in {news[s], "none"}
    BY <1>0, <2>1 DEF ReadGroups, GameTypes
  <2>2. (\E t \in Servers : ReadGroups(t)) \/ UNCHANGED news
    BY Zenon DEF Passing, CopyLapse, PinEnds, Lapse, vars, servers
  <2> QED
    BY <2>1, <2>2 DEF NewsKept
<1>3. pin' = pin \/ (pin' = NoServer /\ \A s \in Servers : news'[s] # "done")
  BY DEF Passing, ReadGroups, CopyLapse, PinEnds, Lapse, vars, servers
<1> QED
  BY <1>1, <1>2, <1>3, QuietKeepsOrder DEF Working, Busy

LEMMA OrderKept ==
  ASSUME TypeOK, Numbered, Order, [Next]_vars, ~astray'
  PROVE  Order'
<1>0. JobTypes /\ Agreement /\ ServerTypes
  BY Parts
<1>1. CASE Change
  <2>1. ASSUME UNCHANGED <<status, expired, host, pin, servers>> PROVE Order'
    BY <2>1, QuietKeepsOrder DEF servers, Working, Busy, NewsKept
  <2> QED
    BY <1>0, <1>1, <2>1, Changed, QueuedKeepsOrder, RevivedKeepsOrder
<1>2. ASSUME NEW s \in Servers, Claiming(s) \/ Running(s) \/ Reporting(s) PROVE Order'
  BY <1>2, ClaimingKeepsOrder, RunningKeepsOrder, ReportingKeepsOrder
<1>3. ASSUME NEW s \in Servers, Lose(s) PROVE Order'
  BY <1>3, IdleKeepsOrder DEF Lose, jobs
<1>4. ASSUME NEW j \in Jobs, BackoffOver(j) \/ LeaseExpires(j) PROVE Order'
  BY <1>4, ExpiryKeepsOrder, QuietKeepsOrder DEF BackoffOver, servers, Working, Busy, NewsKept
<1>5. CASE Passing
  BY <1>5, PassingKeepsOrder
<1> QED
  BY <1>1, <1>2, <1>3, <1>4, <1>5, Zenon DEF Next, Passing

\* What may have gone wrong stays on record.
LEMMA AstrayStays ==
  ASSUME JobTypes, Numbered, [Next]_vars, astray
  PROVE  astray'
<1>1. CASE Change
  BY <1>1, Changed, Zenon
<1>2. ASSUME NEW s \in Servers, Claiming(s) PROVE astray'
  BY <1>2, Zenon DEF Claiming, ReadCandidates, ReadLive, ReadPin, Proceed, Supersede, LoseClaim,
     Claim, DeadLetterExpired
<1>3. ASSUME NEW s \in Servers, Running(s) PROVE astray'
  BY <1>3, Zenon DEF Running, HandBack, Reject, AlreadyDone, Begin, RunStep, StepFails,
     NotEffective, Applied, Local
<1>4. ASSUME NEW s \in Servers, Reporting(s) \/ Lose(s) PROVE astray'
  BY <1>4, Zenon DEF Reporting, RefuseReport, Complete, FailRetry, FailFinal, Release, Requeue,
     Lose
<1>5. ASSUME NEW j \in Jobs, BackoffOver(j) \/ LeaseExpires(j) PROVE astray'
  BY <1>5, Zenon DEF BackoffOver, LeaseExpires
<1>6. CASE Passing
  BY <1>6, Zenon DEF Passing, ReadGroups, CopyLapse, PinEnds, Lapse, vars
<1> QED
  BY <1>1, <1>2, <1>3, <1>4, <1>5, <1>6, Zenon DEF Next, Passing

-----------------------------------------------------------------------------
(* The copies, whatever has gone wrong. *)

\* What is stored and the copies that agree with it lose the timed entry together.
LEMMA DropKeepsCopies ==
  ASSUME GameTypes, CopiesAgree, DropTimed, UNCHANGED news
  PROVE  CopiesAgree'
  BY DEF GameTypes, CopiesAgree, DropTimed

LEMMA CopiesAgreeKept ==
  ASSUME TypeOK, Numbered, CopiesAgree, [Next]_vars
  PROVE  CopiesAgree'
<1>0. JobTypes /\ GameTypes /\ ServerTypes
  BY InHands
<1>1. ASSUME UNCHANGED <<news, game>> PROVE CopiesAgree'
  BY <1>1 DEF CopiesAgree, game
<1>2. CASE Change
  <2>1. UNCHANGED news
    BY <1>0, <1>2, Changed DEF servers
  <2>2. DropTimed \/ UNCHANGED game
    BY <1>2, Zenon DEF Change, Grant, Extend, Revoke, Expire, Resync, AdminRetry
  <2> QED
    BY <1>0, <1>1, <2>1, <2>2, DropKeepsCopies
<1>3. ASSUME NEW s \in Servers, Claiming(s) PROVE UNCHANGED <<news, game>>
  BY <1>3, Zenon DEF Claiming, ReadCandidates, ReadLive, ReadPin, Proceed, Supersede, LoseClaim,
     Claim, DeadLetterExpired
<1>4. ASSUME NEW s \in Servers, Running(s) PROVE CopiesAgree'
  <2>1. CASE Call(s)
    <3>1. CASE UNCHANGED <<game, news>>
      BY <1>1, <3>1
    <3>2. ASSUME NEW step,
                 store' \in {After(step, store), After(step, cache[s])},
                 cache' = [cache EXCEPT ![s] = After(step, @)],
                 news' = [t \in Servers |-> IF t # s /\ news[t] = "none" THEN "change" ELSE news[t]]
          PROVE  CopiesAgree'
      <4>1. ASSUME NEW t \in Servers, news'[t] = "none" PROVE cache'[t] = store'
        <5>1. t = s /\ news[s] = "none"
          BY <3>2, <4>1
        <5>2. cache[s] = store
          BY <5>1 DEF CopiesAgree
        <5>3. cache'[s] = After(step, cache[s])
          BY <1>0, <3>2 DEF GameTypes
        <5> QED
          BY <3>2, <5>1, <5>2, <5>3
      <4> QED
        BY <4>1 DEF CopiesAgree
    <3>3. \/ UNCHANGED <<game, news>>
          \/ LET step == Head(work[s].steps)
             IN  /\ store' \in {After(step, store), After(step, cache[s])}
                 /\ cache' = [cache EXCEPT ![s] = After(step, @)]
                 /\ news' = [t \in Servers |-> IF t # s /\ news[t] = "none" THEN "change" ELSE news[t]]
      BY <2>1, Zenon DEF Call
    <3> QED
      BY <3>1, <3>2, <3>3
  <2>2. Call(s) \/ UNCHANGED <<news, game>>
    BY <1>4, Zenon DEF Running, HandBack, Reject, AlreadyDone, Begin, RunStep, StepFails,
       NotEffective, Applied, Local
  <2> QED
    BY <1>1, <2>1, <2>2
<1>5. ASSUME NEW s \in Servers, Reporting(s) PROVE CopiesAgree'
  <2>1. UNCHANGED game
    BY <1>5 DEF Reporting, RefuseReport, Complete, FailRetry, FailFinal, Release
  <2>2. \A t \in Servers : news'[t] = "none" => news[t] = "none"
    BY <1>5 DEF Reporting, RefuseReport, Complete, FailRetry, FailFinal, Release, Requeue, Unpinned
  <2> QED
    BY <2>1, <2>2 DEF CopiesAgree, game
<1>6. ASSUME NEW s \in Servers, Lose(s) PROVE UNCHANGED <<news, game>>
  BY <1>6, Zenon DEF Lose
<1>7. ASSUME NEW j \in Jobs, BackoffOver(j) \/ LeaseExpires(j) PROVE CopiesAgree'
  <2>1. UNCHANGED game
    BY <1>7, Zenon DEF BackoffOver, LeaseExpires
  <2>2. \A t \in Servers : news'[t] = "none" => news[t] = "none"
    BY <1>7 DEF BackoffOver, servers, LeaseExpires, Unpinned
  <2> QED
    BY <2>1, <2>2 DEF CopiesAgree, game
<1>8. ASSUME NEW s \in Servers, ReadGroups(s) PROVE CopiesAgree'
  BY <1>0, <1>8 DEF ReadGroups, CopiesAgree, GameTypes
<1>9. ASSUME NEW s \in Servers, CopyLapse(s) PROVE CopiesAgree'
  BY <1>0, <1>9 DEF CopyLapse, CopiesAgree, GameTypes, servers
<1>10. CASE Lapse
  BY <1>0, <1>10, DropKeepsCopies DEF Lapse, servers
<1>11. CASE PinEnds \/ UNCHANGED vars
  BY <1>1, <1>11 DEF PinEnds, vars, servers
<1> QED
  BY <1>1, <1>2, <1>3, <1>4, <1>5, <1>6, <1>7, <1>8, <1>9, <1>10, <1>11 DEF Next

-----------------------------------------------------------------------------
(* Types, numbers, copies and order hold in every state. *)

LEMMA InitInv == Init => Inv
<1> SUFFICES ASSUME Init PROVE Inv
  OBVIOUS
<1> USE DEF Init
<1>1. JobTypes /\ Agreement
  BY DEF JobTypes, Agreement, Statuses
<1>2. MemberTypes /\ ServerTypes /\ GameTypes
  BY DEF MemberTypes, ServerTypes, GameTypes
<1>3. Flags
  BY Zenon DEF Flags
<1>4. \A j \in Jobs : ~Exists(j)
  BY DEF Exists
<1>5. \A s \in Servers : seen[s] = None /\ work[s] = None /\ news[s] = "none"
  OBVIOUS
<1>6. Numbered
  <2>1. {j \in Jobs : Exists(j)} = 1 .. 0 /\ 0 \in 0 .. MaxJobs
    BY <1>4, VipConstants DEF VipConstants
  <2> QED
    BY <1>5, <2>1 DEF Numbered
<1>7. CopiesAgree
  BY DEF CopiesAgree
<1>8. Order
  <2>1. Held /\ Guarded /\ \A s \in Servers : SeenWell(s)
    BY <1>5 DEF Held, Guarded, SeenWell, Working, Busy
  <2>2. PendingIsNewest /\ OneLease /\ NewerIsPending /\ HostPinned
    BY <1>4 DEF PendingIsNewest, OneLease, NewerIsPending, HostPinned, Exists
  <2> QED
    BY <2>1, <2>2 DEF Order
<1> QED
  BY <1>1, <1>2, <1>3, <1>6, <1>7, <1>8, Parts DEF Inv

LEMMA NextInv == Inv /\ [Next]_vars => Inv'
<1> SUFFICES ASSUME Inv, [Next]_vars PROVE Inv'
  OBVIOUS
<1>1. TypeOK' /\ Numbered' /\ CopiesAgree'
  BY TypesKept, NumberedKept, CopiesAgreeKept DEF Inv
<1>2. astray' \/ Order'
  <2>1. CASE astray
    BY <2>1, AstrayStays, Parts DEF Inv
  <2>2. CASE Order /\ ~astray'
    BY <2>2, OrderKept DEF Inv
  <2> QED
    BY <2>1, <2>2 DEF Inv
<1> QED
  BY <1>1, <1>2, Zenon DEF Inv

\* Types, numbers and order together are kept by every step of the backend, the
\* servers and the clock.
THEOREM Invariant == Spec => []Inv
  BY InitInv, NextInv, PTL DEF Spec

\* Every variable keeps its type, and a job's lease, backoff and action agree with
\* its status.
THEOREM TypeCorrect == Spec => []TypeOK
<1>1. Inv => TypeOK
  BY DEF Inv
<1> QED
  BY <1>1, Invariant, PTL

\* In hand, unless jobs have run out of order: the server has the lease, the key is
\* its own, and its copy is what is stored or was changed by a run cut short.
LEMMA RunsOnCopy ==
  ASSUME TypeOK, Numbered, CopiesAgree, Order, NEW s \in Servers, Working(s)
  PROVE  cache[s] = store \/ news[s] = "torn"
<1>1. GameTypes /\ work[s].job \in Jobs
  BY InHands
<1>2. Live(work[s].job) /\ host[work[s].job] = s
  BY DEF Order, Held
<1>3. news[s] # "change"
  <2>1. ASSUME NEW j \in Jobs, Live(j) PROVE host[j] = s
    BY <1>1, <1>2, <2>1 DEF Order, OneLease, Live
  <2> QED
    BY <2>1 DEF Order, Guarded
<1>4. news[s] # "done"
  <2>1. PinnedTo(s)
    BY <1>1, <1>2 DEF Order, HostPinned, Live
  <2> QED
    BY <2>1 DEF Order, Guarded
<1>5. news[s] \in {"none", "change", "done", "torn"}
  BY <1>1 DEF GameTypes
<1> QED
  BY <1>3, <1>4, <1>5 DEF CopiesAgree

\* However many servers claim the jobs of one group and whatever is lost or fails:
\* a server runs a job from a copy of the groups that is what is stored, because the
\* lease, and then the pin, keep the key from every server that has not read the last
\* change.  It fails only where a run that changed the groups ended without being
\* completed, which nothing in the code looks for, or jobs ran out of their order.
THEOREM FreshRuns == Spec => []RunsFresh
<1>1. Inv => RunsFresh
  BY RunsOnCopy, Zenon DEF RunsFresh, Working, Inv
<1> QED
  BY <1>1, Invariant, PTL

\* Until a job runs beside or after a newer one, one job of the group at most is
\* leased, a pending job is the newest, and a server at work has the lease
\* (claimablePermissionJobs).
THEOREM JobsInOrder == Spec => [](astray \/ (OneLease /\ PendingIsNewest /\ Held))
<1>1. Inv => astray \/ (OneLease /\ PendingIsNewest /\ Held)
  BY Zenon DEF Inv, Order
<1> QED
  BY <1>1, Invariant, PTL
-----------------------------------------------------------------------------
(* What the game holds. *)

Top(j) == Exists(j) /\ Later(j) = {}

\* The entries an action leaves.
Given(a, entries) ==
  /\ entries = {} <=> a = "remove"
  /\ "permanent" \in entries <=> a = "addPermanent" \/ (a = "addTimed" /\ ~Timed)

\* What can be left of its plan.
Rests(a) ==
  CASE a = "addTimed" /\ Timed ->
         {<<"dropPermanent", "dropTimed", "putTimed">>, <<"dropTimed", "putTimed">>,
          <<"putTimed">>, <<>>}
    [] a = "addPermanent" \/ (a = "addTimed" /\ ~Timed) -> {<<"putPermanent">>, <<>>}
    [] a = "remove" /\ Timed -> {<<"dropTimed", "dropPermanent">>, <<"dropPermanent">>, <<>>}
    [] a = "remove" /\ ~Timed -> {<<"dropPermanent">>, <<>>}
    [] a = "none" -> {}

\* The entries from which the rest of the plan leads there.
Ready(a, steps, entries) ==
  /\ steps = <<>> => Given(a, entries)
  /\ steps = <<"putTimed">> => entries = {}
  /\ steps = <<"dropTimed", "putTimed">> => "permanent" \notin entries
  /\ steps = <<"dropPermanent">> => "timed" \notin entries

Entries(e) == e \subseteq {"timed", "permanent"} /\ (~Timed => "timed" \notin e)

\* Whatever the game has, a plan starts on the way to what its action asks for.
LEMMA PlanRests ==
  ASSUME NEW a \in Actions, NEW e, Entries(e)
  PROVE  Plan(a) \in Rests(a) /\ <<>> \in Rests(a) /\ Ready(a, Plan(a), e)
<1>0. Timed \in BOOLEAN
  BY VipConstants DEF VipConstants
<1>1. CASE a = "addTimed" /\ Timed
  BY <1>1 DEF Plan, Rests, Ready
<1>2. CASE a = "addPermanent" \/ (a = "addTimed" /\ ~Timed)
  BY <1>2 DEF Plan, Rests, Ready
<1>3. CASE a = "remove" /\ Timed
  <2>1. Plan(a) = <<"dropTimed">> \o <<"dropPermanent">>
    BY <1>3 DEF Plan
  <2>2. <<"dropTimed">> \o <<"dropPermanent">> = <<"dropTimed", "dropPermanent">>
    <3> DEFINE both == <<"dropTimed">> \o <<"dropPermanent">>
               plan == <<"dropTimed", "dropPermanent">>
    <3>1. /\ <<"dropTimed">> \in Seq(Steps) /\ <<"dropPermanent">> \in Seq(Steps)
          /\ Len(<<"dropTimed">>) = 1 /\ Len(<<"dropPermanent">>) = 1
          /\ plan \in Seq(Steps) /\ Len(plan) = 2
      BY DEF Steps
    <3>2. both \in Seq(Steps) /\ Len(both) = 2 /\ both[1] = plan[1] /\ both[2] = plan[2]
      BY <3>1, ConcatProperties
    <3>3. \A i \in 1 .. 2 : both[i] = plan[i]
      BY <3>2
    <3> QED
      BY <3>1, <3>2, <3>3, SeqEqual
  <2> QED
    BY <1>3, <2>1, <2>2 DEF Rests, Ready
<1>4. CASE a = "remove" /\ ~Timed
  <2>1. Plan(a) = <<>> \o <<"dropPermanent">>
    BY <1>4 DEF Plan
  <2>2. <<>> \o <<"dropPermanent">> = <<"dropPermanent">>
    <3>1. <<"dropPermanent">> \in Seq(Steps)
      BY DEF Steps
    <3> QED
      BY <3>1, ConcatEmptySeq
  <2> QED
    BY <1>4, <2>1, <2>2 DEF Rests, Ready, Entries
<1> QED
  BY <1>0, <1>1, <1>2, <1>3, <1>4 DEF Actions, Adds

\* A call on a copy that is what is stored.
Does(step, e) == IF Already(step, e) THEN e ELSE After(step, e)

\* It leads on.
LEMMA StepLeadsOn ==
  ASSUME NEW a \in Actions, NEW steps \in Rests(a), steps # <<>>, NEW e, Entries(e)
  PROVE  /\ Tail(steps) \in Rests(a)
         /\ Entries(After(Head(steps), e))
         /\ Ready(a, steps, e) => Ready(a, Tail(steps), Does(Head(steps), e))
<1> USE DEF Does, Already
<1>0. Timed \in BOOLEAN
  BY VipConstants DEF VipConstants
<1>1. CASE a = "addTimed" /\ Timed
  <2>1. CASE steps = <<"dropPermanent", "dropTimed", "putTimed">>
    BY <1>1, <2>1 DEF Rests, Ready, After, Entries
  <2>2. CASE steps = <<"dropTimed", "putTimed">>
    BY <1>1, <2>2 DEF Rests, Ready, After, Entries
  <2>3. CASE steps = <<"putTimed">>
    BY <1>1, <2>3 DEF Rests, Ready, After, Entries, Given
  <2> QED
    BY <1>1, <2>1, <2>2, <2>3 DEF Rests
<1>2. CASE a = "addPermanent" \/ (a = "addTimed" /\ ~Timed)
  <2>1. steps = <<"putPermanent">>
    BY <1>2 DEF Rests
  <2> QED
    BY <1>2, <2>1 DEF Rests, Ready, After, Entries, Given
<1>3. CASE a = "remove"
  <2>1. CASE steps = <<"dropTimed", "dropPermanent">>
    BY <1>0, <1>3, <2>1 DEF Rests, Ready, After, Entries
  <2>2. CASE steps = <<"dropPermanent">>
    BY <1>0, <1>3, <2>2 DEF Rests, Ready, After, Entries, Given
  <2> QED
    BY <1>0, <1>3, <2>1, <2>2 DEF Rests
<1> QED
  BY <1>0, <1>1, <1>2, <1>3 DEF Actions, Adds

\* The end of a timed entry matters to a timed add only.
LEMMA LapseIsHarmless ==
  ASSUME NEW a \in Actions, a # "addTimed", NEW e
  PROVE  /\ Given(a, e) => Given(a, e \ {"timed"})
         /\ \A steps : Ready(a, steps, e) => Ready(a, steps, e \ {"timed"})
<1>1. Given(a, e) => Given(a, e \ {"timed"})
  BY DEF Given, Actions, Adds
<1> QED
  BY <1>1 DEF Ready

-----------------------------------------------------------------------------
(* What a step does to the memberships, the jobs and the servers' hands. *)

Asked(n, a) == Queued(n, a) /\ (Active' = {} \/ (a \in Adds /\ over' = over))

\* Rows end, and nothing is asserted.
Shifted ==
  /\ UNCHANGED <<action, status, missed, over, store>>
  /\ Active' \subseteq Active
  /\ \A r \in Active' : sync'[r] = "synced" => sync[r] = "synced"

\* The end date of the timed adds passes.
Dropped == over' = {j \in Jobs : action[j] = "addTimed"} /\ store' = store \ {"timed"}

\* A change to the memberships queues a job, cannot queue it, ends rows without one,
\* or revives a dead job.
LEMMA ChangeKinds ==
  ASSUME MemberTypes, JobTypes, Numbered, Change
  PROVE  /\ UNCHANGED <<work, journal, astray>>
         /\ Dropped \/ UNCHANGED <<over, store>>
         /\ \/ \E n \in Jobs, a \in Actions : Asked(n, a)
            \/ Missed
            \/ Shifted
            \/ \E j \in Jobs : Revived(j) /\ UNCHANGED <<action, row, sync, missed, over, store>>
<1> DEFINE Said == /\ UNCHANGED <<work, journal, astray>>
                   /\ Dropped \/ UNCHANGED <<over, store>>
                   /\ \/ \E n \in Jobs, a \in Actions : Asked(n, a)
                      \/ Missed
                      \/ Shifted
                      \/ \E j \in Jobs : Revived(j) /\ UNCHANGED <<action, row, sync, missed, over, store>>
<1>1. \A R : Hold(R) \in Adds
  BY DEF Hold, Adds
<1>2. ASSUME NEW a \in Actions, NEW R, NEW S, Enqueue(a, R, S),
             Dropped \/ UNCHANGED <<over, store>>,
             ActiveIn(R) = {} \/ (a \in Adds /\ over' = over)
      PROVE  Said
  <2>1. UNCHANGED <<work, journal, astray>> /\ ((\E n \in Jobs : Queued(n, a)) \/ Missed)
    BY <1>2, Enqueued DEF servers
  <2>2. Active' = ActiveIn(R)
    BY <1>2, Zenon DEF Enqueue, Active, ActiveIn
  <2> QED
    BY <1>2, <2>1, <2>2 DEF Asked
<1> HIDE DEF Said
<1>3. "remove" \in Actions /\ Adds \subseteq Actions /\ "addTimed" \in Adds
  BY DEF Actions, Adds
<1>4. ASSUME NEW r \in Rows, Grant(r) PROVE Said
  <2>1. PICK R, S : Enqueue(Hold(R), R, S) /\ UNCHANGED <<over, store>>
    BY <1>4, Zenon DEF Grant, game
  <2> QED
    BY <1>1, <1>2, <1>3, <2>1
<1>5. ASSUME NEW r \in Rows, Extend(r) PROVE Said
  <2>1. PICK R, S : Enqueue(Hold(R), R, S) /\ UNCHANGED <<over, store>>
    BY <1>5, Zenon DEF Extend, game
  <2> QED
    BY <1>1, <1>2, <1>3, <2>1
<1>6. \A r \in Active : /\ ActiveIn(Without(r)) = Active \ {r}
                        /\ IsLast(r) => ActiveIn(Without(r)) = {}
  BY DEF Active, ActiveIn, Without, IsLast, MemberTypes
<1>7. ASSUME NEW r \in Rows, Revoke(r) PROVE Said
  <2>1. r \in Active /\ UNCHANGED <<over, store>>
    BY <1>7, Zenon DEF Revoke, game
  <2>2. CASE \E S : IsLast(r) /\ Enqueue("remove", Without(r), S)
    BY <1>2, <1>3, <1>6, <2>1, <2>2
  <2>3. CASE \E S : Enqueue("addTimed", Without(r), S)
    BY <1>2, <1>3, <2>1, <2>3
  <2>4. ASSUME NEW moved, row' = Without(r),
               sync' = [Set(moved, "pending") EXCEPT ![r] = "synced"],
               UNCHANGED <<missed, action, status, backoff, expired, host, pin, servers, astray>>
        PROVE  Said
    <3>1. Active' = Active \ {r}
      BY <1>6, <2>1, <2>4 DEF Active, ActiveIn
    <3>2. \A q \in Active' : sync'[q] = "synced" => sync[q] = "synced"
      BY <2>4, <3>1 DEF Set, Active, ActiveIn
    <3> QED
      BY <2>1, <2>4, <3>1, <3>2 DEF Said, Shifted, servers
  <2>5. \/ \E S : IsLast(r) /\ Enqueue("remove", Without(r), S)
        \/ \E S : Enqueue("addTimed", Without(r), S)
        \/ \E moved :
             /\ row' = Without(r)
             /\ sync' = [Set(moved, "pending") EXCEPT ![r] = "synced"]
             /\ UNCHANGED <<missed, action, status, backoff, expired, host, pin, servers, astray>>
    BY <1>7, Zenon DEF Revoke
  <2> QED
    BY <2>2, <2>3, <2>4, <2>5
<1>8. ASSUME NEW r \in Rows, Expire(r) PROVE Said
  <2>1. r \in Active
    BY <1>8 DEF Expire
  <2>2. CASE IsLast(r) /\ Enqueue("remove", Without(r), sync) /\ Dropped
    BY <1>2, <1>3, <1>6, <2>1, <2>2
  <2>3. CASE /\ row' = Without(r) /\ sync' = Set({r}, "synced")
             /\ UNCHANGED <<missed, jobs, pin, servers, store, astray>>
    <3>1. Active' = Active \ {r}
      BY <1>6, <2>1, <2>3 DEF Active, ActiveIn
    <3>2. \A q \in Active' : sync'[q] = "synced" => sync[q] = "synced"
      BY <2>3, <3>1 DEF Set, Active, ActiveIn
    <3> QED
      BY <2>3, <3>1, <3>2 DEF Said, Shifted, servers, jobs
  <2> QED
    BY <1>8, <2>2, <2>3, Zenon DEF Expire, Dropped, DropTimed, game
<1>9. CASE Resync
  <2>1. PICK b \in Actions : /\ Active = {} \/ b \in Adds
                             /\ Enqueue(b, row, Set(Wanted(b), "pending"))
    <3> DEFINE b == IF Active = {} THEN "remove" ELSE Hold(row)
    <3>1. b \in Actions /\ (Active = {} \/ b \in Adds)
      BY <1>1, <1>3
    <3>2. Enqueue(b, row, Set(Wanted(b), "pending"))
      BY <1>9, Zenon DEF Resync
    <3> QED
      BY <3>1, <3>2
  <2>2. UNCHANGED <<over, store>> /\ Active = ActiveIn(row)
    BY <1>9 DEF Resync, Active, game
  <2>3. /\ ActiveIn(row) = {} \/ (b \in Adds /\ over' = over)
        /\ Dropped \/ UNCHANGED <<over, store>>
    BY <2>1, <2>2
  <2>4. PICK S : Enqueue(b, row, S)
    BY <2>1
  <2> QED
    BY <1>2, <2>3, <2>4, Zenon DEF Said
<1>10. ASSUME NEW j \in Jobs, AdminRetry(j) PROVE Said
  BY <1>10 DEF AdminRetry, Revived, Said, members, servers, game
<1> QED
  BY <1>4, <1>5, <1>7, <1>8, <1>9, <1>10 DEF Change, Said

\* What a step of server s does to what it has in hand, its journal and the game.
Others(s) == \A t \in Servers \ {s} : work'[t] = work[t] /\ journal'[t] = journal[t]

Takes(s) ==
  /\ ~Busy(s, "running")' /\ ~Busy(s, "report")'
  /\ UNCHANGED <<journal, store>>
  /\ astray' \/ \A k \in Open : ~Live(k)

Begins(s) ==
  /\ Busy(s, "reply") /\ work[s].job \notin journal[s]
  /\ Busy(s, "running")' /\ work'[s].job = work[s].job
  /\ work'[s].steps = IF work[s].job \in over THEN <<>> ELSE Plan(action[work[s].job])
  /\ UNCHANGED <<journal, store, action, over>>

\* What a call does to the store.
Touches(s) ==
  LET step == Head(work[s].steps)
  IN  /\ work[s].steps # <<>>
      /\ store' \in {store, After(step, store), After(step, cache[s])}
      /\ cache[s] = store => store' = Does(step, store)

Calls(s) ==
  /\ Busy(s, "running") /\ Touches(s) /\ astray' = (astray \/ Misled(s))
  /\ Busy(s, "running")' /\ work'[s].job = work[s].job /\ work'[s].steps = Tail(work[s].steps)
  /\ UNCHANGED <<journal, action, over>>

Breaks(s) ==
  /\ Busy(s, "running") /\ ~Busy(s, "running")'
  /\ Busy(s, "report")' => work'[s].says # "complete"
  /\ store' = store \/ Touches(s)
  /\ Undoes(s) => astray'
  /\ UNCHANGED journal

Ends(s) ==
  /\ Busy(s, "running") /\ work[s].steps = <<>>
  /\ Busy(s, "report")' /\ ~Busy(s, "running")' /\ work'[s].job = work[s].job
  /\ journal'[s] \in {journal[s], journal[s] \cup {work[s].job}}
  /\ work'[s].says = "complete" => work[s].job \in journal'[s]
  /\ UNCHANGED <<store, action, over>>

Answers(s) ==
  /\ ~Busy(s, "running") /\ ~Busy(s, "running")'
  /\ Busy(s, "report")' /\ work'[s].says = "complete" => work'[s].job \in journal[s]
  /\ UNCHANGED <<journal, store>>

LEMMA CallTouches ==
  ASSUME NEW s \in Servers, Call(s), work[s].steps # <<>>
  PROVE  Touches(s)
<1> DEFINE step == Head(work[s].steps)
<1>1. \/ Already(step, cache[s]) /\ store' = store
      \/ ~Already(step, cache[s]) /\ store' \in {After(step, store), After(step, cache[s])}
  BY DEF Call, game
<1> HIDE DEF step
<1>2. store' \in {store, After(step, store), After(step, cache[s])}
  BY <1>1
<1>3. cache[s] = store => store' = Does(step, store)
  BY <1>1 DEF Does
<1> QED
  BY <1>2, <1>3 DEF Touches, step

\* A server that reports has ended its run.
LEMMA ReportInHand ==
  ASSUME ServerTypes, NEW s \in Servers, NEW says, Report(s, says), work[s] # None
  PROVE  /\ \A t \in Servers \ {s} : work'[t] = work[t]
         /\ Busy(s, "report")' /\ ~Busy(s, "running")'
         /\ work'[s].job = work[s].job /\ work'[s].says = says
<1>1. work[s].job \in Jobs /\ work[s].job # 0
  BY Hands, VipConstants DEF Jobs, VipConstants
<1>2. work' = [work EXCEPT ![s] = [job |-> work[s].job, at |-> "report", says |-> says]]
  BY DEF Report
<1>3. work'[s] = [job |-> work[s].job, at |-> "report", says |-> says]
  BY <1>2 DEF ServerTypes
<1>4. work'[s] # None
  BY <1>1, <1>3 DEF None
<1> QED
  BY <1>2, <1>3, <1>4 DEF ServerTypes, Busy

\* A server that is idle has nothing in hand.
LEMMA IdleHand ==
  ASSUME ServerTypes, NEW s \in Servers, Idle(s)
  PROVE  /\ \A t \in Servers \ {s} : work'[t] = work[t]
         /\ ~Busy(s, "running")' /\ ~Busy(s, "report")'
  BY DEF Idle, ServerTypes, Busy

\* What a server at work does: it begins, calls the game, breaks off, ends or answers.
LEMMA RunningKinds ==
  ASSUME TypeOK, NEW s \in Servers, Running(s)
  PROVE  Others(s) /\ (Begins(s) \/ Calls(s) \/ Breaks(s) \/ Ends(s) \/ Answers(s))
<1>0. ServerTypes /\ GameTypes
  BY Parts
<1>1. CASE HandBack(s) \/ Reject(s)
  <2>1. PICK says \in {"release", "fail"} : Report(s, says)
    BY <1>1 DEF HandBack, Reject
  <2>2. Busy(s, "reply") /\ UNCHANGED <<journal, store>>
    BY <1>1 DEF HandBack, Reject, Local, game
  <2>3. work[s] # None /\ ~Busy(s, "running")
    BY <2>2 DEF Busy
  <2> QED
    BY <1>0, <2>1, <2>2, <2>3, ReportInHand DEF Others, Answers
<1>2. CASE AlreadyDone(s)
  <2>1. /\ Report(s, "complete") /\ Busy(s, "reply") /\ work[s].job \in journal[s]
        /\ UNCHANGED <<journal, store>>
    BY <1>2 DEF AlreadyDone, Local, game
  <2>2. work[s] # None /\ ~Busy(s, "running")
    BY <2>1 DEF Busy
  <2> QED
    BY <1>0, <2>1, <2>2, ReportInHand DEF Others, Answers
<1>3. CASE Begin(s)
  <2> DEFINE steps == IF work[s].job \in over THEN <<>> ELSE Plan(action[work[s].job])
             verify == steps # <<>> /\ action[work[s].job] \in Adds
             run == [job |-> work[s].job, at |-> "running", steps |-> steps, verify |-> verify]
  <2>1. /\ Busy(s, "reply") /\ work[s].job \notin journal[s] /\ work' = [work EXCEPT ![s] = run]
        /\ UNCHANGED <<journal, store, action, over>>
    BY <1>3 DEF Begin, Local, jobs, game
  <2>2. /\ run.job = work[s].job /\ run.at = "running" /\ run.steps = steps
    OBVIOUS
  <2>3. work[s].job \in Jobs /\ work[s].job # 0
    BY <1>0, <2>1, Hands, VipConstants DEF Busy, Jobs, VipConstants
  <2>4. run # None
    BY <2>2, <2>3 DEF None
  <2> HIDE DEF run, steps
  <2>5. work'[s] = run /\ \A t \in Servers \ {s} : work'[t] = work[t]
    BY <1>0, <2>1 DEF ServerTypes
  <2>6. Busy(s, "running")' /\ work'[s].job = work[s].job /\ work'[s].steps = steps
    BY <2>2, <2>4, <2>5 DEF Busy
  <2>7. Begins(s)
    BY <2>1, <2>6 DEF Begins, steps
  <2> QED
    BY <2>1, <2>5, <2>7 DEF Others
<1>4. CASE RunStep(s)
  <2>1. /\ Busy(s, "running") /\ work[s].steps # <<>> /\ astray' = (astray \/ Misled(s))
        /\ UNCHANGED <<journal, action, over>>
        /\ work' = [work EXCEPT ![s] = [work[s] EXCEPT !.steps = Tail(work[s].steps)]]
    BY <1>4 DEF RunStep, jobs
  <2>2. work[s] \in Runs /\ work[s].job # 0
    BY <1>0, <2>1, Hands, VipConstants DEF Runs, Jobs, VipConstants
  <2> DEFINE run == [work[s] EXCEPT !.steps = Tail(work[s].steps)]
  <2>3. run.job = work[s].job /\ run.at = "running" /\ run.steps = Tail(work[s].steps)
    BY <2>2 DEF Runs
  <2>4. run # None
    BY <2>2, <2>3 DEF None
  <2>5. work' = [work EXCEPT ![s] = run]
    BY <2>1
  <2> HIDE DEF run
  <2>6. work'[s] = run /\ \A t \in Servers \ {s} : work'[t] = work[t]
    BY <1>0, <2>5 DEF ServerTypes
  <2>7. Busy(s, "running")' /\ work'[s].job = work[s].job /\ work'[s].steps = Tail(work[s].steps)
    BY <2>3, <2>4, <2>6 DEF Busy
  <2>8. Touches(s)
    BY <1>4, CallTouches DEF RunStep
  <2>9. Calls(s)
    BY <2>1, <2>7, <2>8 DEF Calls
  <2> QED
    BY <2>1, <2>6, <2>9 DEF Others
<1>5. CASE StepFails(s)
  <2>1. PICK says \in {"release", "fail"} : Report(s, says)
    BY <1>5 DEF StepFails
  <2>2. /\ Busy(s, "running") /\ work[s].steps # <<>> /\ UNCHANGED journal
        /\ Undoes(s) => astray'
        /\ Call(s) \/ UNCHANGED store
    BY <1>5, Zenon DEF StepFails, game
  <2>3. work[s] # None
    BY <2>2 DEF Busy
  <2>4. /\ \A t \in Servers \ {s} : work'[t] = work[t]
        /\ Busy(s, "report")' /\ ~Busy(s, "running")' /\ work'[s].says # "complete"
    BY <1>0, <2>1, <2>3, ReportInHand
  <2>5. store' = store \/ Touches(s)
    BY <2>2, CallTouches
  <2> QED
    BY <2>2, <2>4, <2>5, Zenon DEF Others, Breaks
<1>6. CASE NotEffective(s) \/ Applied(s)
  <2>1. /\ Busy(s, "running") /\ work[s].steps = <<>> /\ UNCHANGED <<store, action, over>>
    BY <1>6 DEF NotEffective, Applied, Local, jobs, game
  <2>2. PICK says \in {"complete", "fail", "release"} :
          /\ Report(s, says)
          /\ \/ journal' = journal /\ says # "complete"
             \/ journal' = [journal EXCEPT ![s] = @ \cup {work[s].job}] /\ says = "complete"
    BY <1>6 DEF NotEffective, Applied
  <2>3. work[s] # None
    BY <2>1 DEF Busy
  <2>4. /\ \A t \in Servers \ {s} : work'[t] = work[t]
        /\ Busy(s, "report")' /\ ~Busy(s, "running")'
        /\ work'[s].job = work[s].job /\ work'[s].says = says
    BY <1>0, <2>2, <2>3, ReportInHand
  <2>5. /\ \A t \in Servers \ {s} : journal'[t] = journal[t]
        /\ journal'[s] \in {journal[s], journal[s] \cup {work[s].job}}
        /\ says = "complete" => work[s].job \in journal'[s]
    BY <1>0, <2>2 DEF GameTypes
  <2>6. Ends(s)
    BY <2>1, <2>4, <2>5 DEF Ends
  <2> QED
    BY <2>4, <2>5, <2>6 DEF Others
<1> QED
  BY <1>1, <1>2, <1>3, <1>4, <1>5, <1>6 DEF Running

\* Who touches what servers have in hand, the journals or the game.
LEMMA HandKinds ==
  ASSUME TypeOK, Numbered, [Next]_vars
  PROVE  \/ UNCHANGED <<work, journal>> /\ (store' = store \/ Dropped \/ Lapse)
         \/ \E s \in Servers :
              /\ Others(s)
              /\ \/ Takes(s) \/ Begins(s) \/ Calls(s)
                 \/ Breaks(s) \/ Ends(s) \/ Answers(s)
<1> DEFINE Kind(s) == /\ Others(s)
                      /\ \/ Takes(s) \/ Begins(s) \/ Calls(s)
                         \/ Breaks(s) \/ Ends(s) \/ Answers(s)
           Quiet == UNCHANGED <<work, journal>> /\ (store' = store \/ Dropped \/ Lapse)
<1>0. JobTypes /\ MemberTypes /\ ServerTypes /\ GameTypes
  BY Parts
<1>1. ASSUME Change PROVE Quiet
  BY <1>0, <1>1, ChangeKinds
<1>2. ASSUME NEW s \in Servers, Claiming(s) PROVE Quiet \/ Kind(s)
  <2>1. CASE ~Claim(s)
    BY <1>2, <2>1 DEF Claiming, ReadCandidates, ReadLive, ReadPin, Proceed, Supersede, LoseClaim,
       DeadLetterExpired, game
  <2>2. CASE Claim(s)
    <3> DEFINE j == seen[s].job
               taken == [job |-> j, at |-> "reply"]
    <3>1. /\ work' = [work EXCEPT ![s] = taken] /\ UNCHANGED <<journal, store>>
          /\ astray' = (astray \/ \E k \in Open : k > j \/ Live(k))
      BY <2>2 DEF Claim, game
    <3>2. work'[s] = taken /\ \A t \in Servers \ {s} : work'[t] = work[t]
      BY <1>0, <3>1 DEF ServerTypes
    <3>3. taken.at = "reply"
      OBVIOUS
    <3>4. ~Busy(s, "running")' /\ ~Busy(s, "report")'
      BY <3>2, <3>3 DEF Busy
    <3> HIDE DEF taken, j
    <3>5. astray' \/ \A k \in Open : ~Live(k)
      BY <3>1, Zenon
    <3> QED
      BY <3>1, <3>2, <3>4, <3>5, Zenon DEF Others, Takes
  <2> QED
    BY <2>1, <2>2
<1>3. ASSUME NEW s \in Servers, Running(s) PROVE Kind(s)
  BY <1>3, RunningKinds
<1>4. ASSUME NEW s \in Servers, Reporting(s) PROVE Kind(s)
  <2>1. Idle(s)
    BY <1>0, <1>4, ReportingJobs
  <2>2. Busy(s, "report") /\ UNCHANGED <<journal, store>>
    BY <1>4 DEF Reporting, RefuseReport, Complete, FailRetry, FailFinal, Release, game
  <2>3. ~Busy(s, "running")
    BY <2>2 DEF Busy
  <2> QED
    BY <1>0, <2>1, <2>2, <2>3, IdleHand DEF Others, Answers
<1>5. ASSUME NEW s \in Servers, Lose(s) PROVE Kind(s)
  <2>1. Idle(s) /\ UNCHANGED <<journal, store>> /\ astray' = (astray \/ Undoes(s))
    BY <1>5, Zenon DEF Lose, game
  <2>2. /\ \A t \in Servers \ {s} : work'[t] = work[t]
        /\ ~Busy(s, "running")' /\ ~Busy(s, "report")'
    BY <1>0, <2>1, IdleHand
  <2>3. CASE Busy(s, "running")
    BY <2>1, <2>2, <2>3, Zenon DEF Others, Breaks
  <2>4. CASE ~Busy(s, "running")
    BY <2>1, <2>2, <2>4, Zenon DEF Others, Answers
  <2> QED
    BY <2>3, <2>4
<1>6. ASSUME NEW j \in Jobs, BackoffOver(j) \/ LeaseExpires(j) PROVE Quiet
  BY <1>6 DEF BackoffOver, LeaseExpires, servers, game
<1>7. CASE Passing
  BY <1>7 DEF Passing, ReadGroups, CopyLapse, PinEnds, Lapse, vars, servers, game
<1> QED
  BY <1>1, <1>2, <1>3, <1>4, <1>5, <1>6, <1>7 DEF Next, Passing

-----------------------------------------------------------------------------
(* What is recorded, and what is asked for. *)

Recorded(j) == \E s \in Servers : j \in journal[s]

\* A run is in the middle of its plan and not recorded; what is acknowledged is.
HandAgrees(s) ==
  /\ Busy(s, "running") => /\ work[s].steps \in Rests(action[work[s].job])
                           /\ work[s].job \notin journal[s]
  /\ Busy(s, "report") /\ work[s].says = "complete" => work[s].job \in journal[s]

HandsAgree == \A s \in Servers : HandAgrees(s)

RecordsAgree ==
  \A j \in Jobs : (status[j] = "completed" => Recorded(j)) /\ (Recorded(j) => Exists(j))

Replaced ==
  /\ \A j \in over : action[j] = "addTimed"
  /\ \A j \in Jobs : status[j] = "superseded" => Later(j) # {}

\* While a membership is active, the newest job asks for the group.
ActiveIsAsked ==
  Active # {} /\ ~missed => \E j \in Jobs : Top(j) /\ action[j] \in Adds /\ j \notin over

\* A claim closes older leases only.
ReadOlder == \A s \in Servers : seen[s] # None => \A k \in seen[s].older : k < seen[s].job

\* Without timed groups there is no timed entry, nor in a copy.
Copies == Entries(store) /\ \A s \in Servers : Entries(cache[s])

Records == HandsAgree /\ RecordsAgree /\ Replaced /\ ActiveIsAsked /\ ReadOlder /\ Copies

\* Only the backend's changes to memberships queue jobs or change the rest of these.
LEMMA ElsewhereSame ==
  ASSUME [Next]_vars, ~Change
  PROVE  UNCHANGED <<action, over, row, missed>>
<1>1. ASSUME NEW s \in Servers, Claiming(s) PROVE UNCHANGED <<action, over, row, missed>>
  BY <1>1 DEF Claiming, ReadCandidates, ReadLive, ReadPin, Proceed, Supersede, LoseClaim, Claim,
     DeadLetterExpired, members, jobs
<1>2. ASSUME NEW s \in Servers, Running(s) PROVE UNCHANGED <<action, over, row, missed>>
  BY <1>2 DEF Running, HandBack, Reject, AlreadyDone, Begin, RunStep, StepFails, NotEffective,
     Applied, Local, members, jobs
<1>3. ASSUME NEW s \in Servers, Reporting(s) PROVE UNCHANGED <<action, over, row, missed>>
  BY <1>3 DEF Reporting, RefuseReport, Complete, FailRetry, FailFinal, Release, members, jobs
<1>4. ASSUME NEW s \in Servers, Lose(s) PROVE UNCHANGED <<action, over, row, missed>>
  BY <1>4 DEF Lose, members, jobs
<1>5. ASSUME NEW j \in Jobs, BackoffOver(j) \/ LeaseExpires(j)
      PROVE  UNCHANGED <<action, over, row, missed>>
  BY <1>5 DEF BackoffOver, LeaseExpires, members
<1>6. CASE Passing
  BY <1>6 DEF Passing, ReadGroups, CopyLapse, PinEnds, Lapse, vars, members, jobs
<1> QED
  BY <1>1, <1>2, <1>3, <1>4, <1>5, <1>6 DEF Next, Passing

\* A job keeps its action, and one that is the newest was so before or is new.
LEMMA JobsGoOn ==
  ASSUME TypeOK, Numbered, [Next]_vars
  PROVE  /\ \A j \in Jobs : Exists(j) => Exists(j)' /\ action'[j] = action[j]
         /\ \A j \in Jobs : Exists(j)' /\ ~Exists(j) => status'[j] = "pending" /\ Change
         /\ \A j \in Jobs : Top(j)' => Top(j) \/ ~Exists(j)
<1>0. JobTypes /\ Agreement /\ MemberTypes /\ Agreement'
  BY Parts, JobsKept
<1>1. CASE ~Change
  <2>1. action' = action
    BY <1>1, ElsewhereSame
  <2>2. \A j \in Jobs : Exists(j)' <=> Exists(j)
    BY <1>0, <2>1 DEF Agreement, Exists
  <2> QED
    BY <2>1, <2>2 DEF Top, Later
<1>2. ASSUME NEW n \in Jobs, NEW a \in Actions, Queued(n, a)
      PROVE  /\ \A j \in Jobs : Exists(j) => Exists(j)' /\ action'[j] = action[j]
             /\ \A j \in Jobs : Exists(j)' /\ ~Exists(j) => status'[j] = "pending"
             /\ \A j \in Jobs : Top(j)' => Top(j) \/ ~Exists(j)
  <2>1. /\ \A j \in Jobs : Exists(j) => Exists(j)' /\ action'[j] = action[j]
        /\ \A j \in Jobs : Exists(j)' /\ ~Exists(j) => status'[j] = "pending"
    BY <1>0, <1>2 DEF Queued, Exists, JobTypes
  <2> QED
    BY <2>1 DEF Top, Later
<1>3. ASSUME NEW j \in Jobs, Revived(j), action' = action
      PROVE  \A k \in Jobs : Exists(k)' <=> Exists(k)
  BY <1>0, <1>3, RevivedKeeps DEF Revived, Exists, JobTypes
<1>4. CASE Change
  <2>1. \/ \E n \in Jobs, a \in Actions : Queued(n, a)
        \/ \E j \in Jobs : Revived(j) /\ action' = action
        \/ UNCHANGED <<action, status>>
    BY <1>0, <1>4, Changed
  <2>2. CASE \E j \in Jobs : Revived(j) /\ action' = action
    BY <1>3, <2>2 DEF Top, Later
  <2>3. CASE UNCHANGED <<action, status>>
    BY <2>3 DEF Top, Later, Exists
  <2> QED
    BY <1>2, <1>4, <2>1, <2>2, <2>3
<1> QED
  BY <1>1, <1>4

\* A run stays within its plan, and what is acknowledged stays recorded.
LEMMA HandsAgreeKept ==
  ASSUME TypeOK, Numbered, Records, [Next]_vars
  PROVE  HandsAgree'
<1>0. /\ JobTypes /\ Agreement /\ ServerTypes
      /\ HandsAgree /\ Copies
  BY Parts DEF Records
<1>1. ASSUME NEW s \in Servers, work[s] # None
      PROVE  /\ work[s].job \in Jobs /\ action[work[s].job] \in Actions
             /\ action'[work[s].job] = action[work[s].job]
  <2>1. work[s].job \in Jobs /\ Exists(work[s].job)
    BY <1>0, <1>1, Hands DEF Numbered
  <2> QED
    BY <1>0, <2>1, JobsGoOn DEF Agreement, Exists, JobTypes
<1>2. ASSUME NEW s \in Servers, work'[s] = work[s], journal'[s] = journal[s]
      PROVE  HandAgrees(s)'
  BY <1>0, <1>1, <1>2 DEF HandsAgree, HandAgrees, Busy
<1>3. CASE UNCHANGED <<work, journal>> /\ (store' = store \/ Dropped \/ Lapse)
  BY <1>2, <1>3 DEF HandsAgree
<1>4. ASSUME NEW s \in Servers, Others(s), HandAgrees(s)'
      PROVE  HandsAgree'
  BY <1>0, <1>2, <1>4 DEF HandsAgree, Others
<1>5. ASSUME NEW s \in Servers, Busy(s, "running")
      PROVE  /\ work[s].job \in Jobs /\ action[work[s].job] \in Actions
             /\ action'[work[s].job] = action[work[s].job]
             /\ work[s].steps \in Rests(action[work[s].job])
             /\ work[s].job \notin journal[s]
  BY <1>0, <1>1, <1>5 DEF HandsAgree, HandAgrees, Busy
<1>6. ASSUME NEW s \in Servers, Others(s), Takes(s) PROVE HandsAgree'
  BY <1>4, <1>6 DEF Takes, HandAgrees
<1>7. ASSUME NEW s \in Servers, Others(s), Begins(s) PROVE HandsAgree'
  <2>1. work[s] # None
    BY <1>7 DEF Begins, Busy
  <2>2. Plan(action[work[s].job]) \in Rests(action[work[s].job]) /\ <<>> \in Rests(action[work[s].job])
    BY <1>0, <1>1, <2>1, PlanRests DEF Copies
  <2>3. work'[s].steps \in Rests(action[work[s].job])
    BY <1>7, <2>2 DEF Begins
  <2>4. HandAgrees(s)'
    BY <1>1, <1>7, <2>1, <2>3 DEF HandAgrees, Begins, Busy
  <2> QED
    BY <1>4, <1>7, <2>4 DEF Begins
<1>8. ASSUME NEW s \in Servers, Others(s), Calls(s) PROVE HandsAgree'
  <2> DEFINE steps == work[s].steps
             a == action[work[s].job]
  <2>1. Busy(s, "running") /\ steps # <<>>
    BY <1>8 DEF Calls, Touches
  <2>2. a \in Actions /\ steps \in Rests(a) /\ action'[work[s].job] = a /\ work[s].job \notin journal[s]
    BY <1>5, <2>1
  <2>3. work'[s].steps = Tail(steps) /\ work'[s].job = work[s].job /\ Busy(s, "running")' /\ journal' = journal
    BY <1>8 DEF Calls
  <2> HIDE DEF steps, a
  <2>4. Tail(steps) \in Rests(a)
    BY <1>0, <2>1, <2>2, StepLeadsOn DEF Copies
  <2>5. HandAgrees(s)'
    BY <2>2, <2>3, <2>4 DEF HandAgrees, Busy
  <2> QED
    BY <1>4, <1>8, <2>5
<1>9. ASSUME NEW s \in Servers, Others(s), Breaks(s) PROVE HandsAgree'
  BY <1>4, <1>9 DEF HandAgrees, Breaks
<1>10. ASSUME NEW s \in Servers, Others(s), Ends(s) PROVE HandsAgree'
  BY <1>4, <1>10 DEF HandAgrees, Ends
<1>11. ASSUME NEW s \in Servers, Others(s), Answers(s) PROVE HandsAgree'
  BY <1>4, <1>11 DEF HandAgrees, Answers
<1> QED
  BY <1>3, <1>6, <1>7, <1>8, <1>9, <1>10, <1>11, HandKinds

\* What moves the store and the copies.
LEMMA GameMoves ==
  ASSUME [Next]_vars
  PROVE  \/ UNCHANGED game \/ DropTimed
         \/ \E s \in Servers : \/ Busy(s, "running") /\ work[s].steps # <<>> /\ Call(s)
                               \/ ReadGroups(s) \/ CopyLapse(s)
<1>1. CASE Change
  BY <1>1, Zenon DEF Change, Grant, Extend, Revoke, Expire, Resync, AdminRetry
<1>2. ASSUME NEW s \in Servers, Claiming(s) PROVE UNCHANGED game
  BY <1>2, Zenon DEF Claiming, ReadCandidates, ReadLive, ReadPin, Proceed, Supersede, LoseClaim,
     Claim, DeadLetterExpired
<1>3. ASSUME NEW s \in Servers, Running(s)
      PROVE  UNCHANGED game \/ (Busy(s, "running") /\ work[s].steps # <<>> /\ Call(s))
  BY <1>3, Zenon DEF Running, HandBack, Reject, AlreadyDone, Begin, RunStep, StepFails,
     NotEffective, Applied, Local
<1>4. ASSUME NEW s \in Servers, Reporting(s) \/ Lose(s) PROVE UNCHANGED game
  BY <1>4, Zenon DEF Reporting, RefuseReport, Complete, FailRetry, FailFinal, Release, Lose
<1>5. ASSUME NEW j \in Jobs, BackoffOver(j) \/ LeaseExpires(j) PROVE UNCHANGED game
  BY <1>5, Zenon DEF BackoffOver, LeaseExpires
<1>6. CASE Lapse
  BY <1>6, Zenon DEF Lapse
<1>7. CASE PinEnds \/ UNCHANGED vars
  BY <1>7, Zenon DEF PinEnds, vars
<1> QED
  BY <1>1, <1>2, <1>3, <1>4, <1>5, <1>6, <1>7, Zenon DEF Next

\* Without timed groups no step makes a timed entry.
LEMMA CopiesKept ==
  ASSUME TypeOK, Numbered, Records, [Next]_vars
  PROVE  Copies'
<1>0. JobTypes /\ Agreement /\ ServerTypes /\ GameTypes /\ HandsAgree /\ Copies
  BY Parts DEF Records
<1>1. CASE UNCHANGED game
  BY <1>0, <1>1 DEF game, Copies
<1>2. \A e : Entries(e) => Entries(e \ {"timed"})
  BY DEF Entries
<1>3. CASE DropTimed
  BY <1>0, <1>2, <1>3 DEF DropTimed, Copies
<1>4. ASSUME NEW s \in Servers, ReadGroups(s) \/ CopyLapse(s) PROVE Copies'
  BY <1>0, <1>2, <1>4 DEF ReadGroups, CopyLapse, Copies, GameTypes
<1>5. ASSUME NEW s \in Servers, Busy(s, "running"), work[s].steps # <<>>, Call(s) PROVE Copies'
  <2> DEFINE steps == work[s].steps
             a == action[work[s].job]
             step == Head(steps)
  <2>1. work[s].job \in Jobs /\ Exists(work[s].job)
    BY <1>0, <1>5, Hands DEF Numbered, Busy
  <2>2. a \in Actions
    BY <1>0, <2>1 DEF Exists, Agreement, JobTypes
  <2>3. steps \in Rests(a) /\ steps # <<>>
    BY <1>0, <1>5 DEF HandsAgree, HandAgrees
  <2>4. \/ UNCHANGED game
        \/ /\ store' \in {After(step, store), After(step, cache[s])}
           /\ cache' = [cache EXCEPT ![s] = After(step, @)]
    BY <1>5 DEF Call
  <2> HIDE DEF steps, a
  <2>5. \A e : Entries(e) => Entries(After(step, e))
    BY <2>2, <2>3, StepLeadsOn
  <2> HIDE DEF step
  <2> QED
    BY <1>0, <1>1, <2>4, <2>5 DEF Copies, GameTypes
<1> QED
  BY <1>1, <1>3, <1>4, <1>5, GameMoves

\* A claim reads older leases, and keeps some of them.
LEMMA ReadOlderKept ==
  ASSUME TypeOK, Numbered, Records, [Next]_vars
  PROVE  ReadOlder'
<1> USE JobsInt
<1>0. JobTypes /\ ServerTypes /\ ReadOlder
  BY Parts DEF Records
<1>1. CASE UNCHANGED seen
  BY <1>0, <1>1 DEF ReadOlder
<1>2. ASSUME NEW s \in Servers, NEW r, seen' = [seen EXCEPT ![s] = r],
             r # None => \A k \in r.older : k < r.job
      PROVE  ReadOlder'
  <2>1. \A t \in Servers : seen'[t] = IF t = s THEN r ELSE seen[t]
    BY <1>0, <1>2, SeenBecomes
  <2>2. ASSUME NEW t \in Servers, seen'[t] # None, NEW k \in seen'[t].older
        PROVE  k < seen'[t].job
    BY <1>0, <1>2, <2>1, <2>2 DEF ReadOlder
  <2> QED
    BY <2>2 DEF ReadOlder
<1>3. ASSUME NEW s \in Servers, Claiming(s) PROVE ReadOlder'
  <2>1. CASE ReadCandidates(s)
    <3>1. PICK r \in Candidates :
            /\ seen' = [seen EXCEPT ![s] = r]
            /\ \A k \in Jobs : Claimable(k) => k <= r.job
            /\ r.older = {k \in Jobs : Claimable(k) /\ status[k] = "leased" /\ k # r.job}
      BY <1>0, <2>1, CandidateRead
    <3>2. r.job \in Jobs
      BY <3>1 DEF Candidates
    <3>3. ASSUME NEW k \in r.older PROVE k < r.job
      <4>1. k \in Jobs /\ k <= r.job /\ k # r.job
        BY <3>1
      <4>2. k \in Int /\ r.job \in Int
        BY <3>2, <4>1
      <4> QED
        BY <4>1, <4>2
    <3> QED
      BY <1>2, <3>1, <3>3
  <2>2. CASE ReadLive(s) \/ ReadPin(s) \/ \E k \in Jobs : Supersede(s, k)
    <3>1. PICK r \in {None} \cup Candidates :
            /\ seen' = [seen EXCEPT ![s] = r]
            /\ r # None => r.job = seen[s].job /\ r.older \subseteq seen[s].older
      BY <1>0, <2>2, ReadsOn
    <3>2. seen[s] # None
      BY <1>0, <2>2, ReadsOn
    <3>3. ASSUME r # None, NEW k \in r.older PROVE k < r.job
      BY <1>0, <3>1, <3>2, <3>3 DEF ReadOlder
    <3> QED
      BY <1>2, <3>1, <3>3
  <2>3. CASE LoseClaim(s) \/ Claim(s) \/ DeadLetterExpired(s)
    <3>1. seen' = [seen EXCEPT ![s] = None]
      BY <2>3 DEF LoseClaim, Claim, DeadLetterExpired, Forget
    <3> QED
      BY <1>2, <3>1
  <2> QED
    BY <1>3, <2>1, <2>2, <2>3 DEF Claiming
<1>4. CASE Change
  BY <1>0, <1>1, <1>4, Changed DEF servers
<1>5. ASSUME NEW s \in Servers, Running(s) \/ Reporting(s) PROVE ReadOlder'
  BY <1>0, <1>1, <1>5, RunningJobs, ReportingJobs
<1>6. ASSUME NEW s \in Servers, Lose(s) PROVE ReadOlder'
  BY <1>1, <1>6 DEF Lose
<1>7. ASSUME NEW j \in Jobs, BackoffOver(j) \/ LeaseExpires(j) PROVE ReadOlder'
  BY <1>1, <1>7 DEF BackoffOver, LeaseExpires, servers
<1>8. CASE Passing
  BY <1>1, <1>8 DEF Passing, ReadGroups, CopyLapse, PinEnds, Lapse, vars, servers
<1> QED
  BY <1>3, <1>4, <1>5, <1>6, <1>7, <1>8 DEF Next, Passing

\* How a job's status changes once it is queued.
LEMMA StatusKinds ==
  ASSUME TypeOK, Numbered, Records, [Next]_vars, ~Change, NEW j \in Jobs, status'[j] # status[j]
  PROVE  \/ status'[j] = "leased"
         \/ status'[j] = "pending"
         \/ status'[j] = "superseded" /\ Later(j) # {}
         \/ /\ status'[j] = "completed" /\ journal' = journal
            /\ \E s \in Servers : Busy(s, "report") /\ work[s].says = "complete" /\ work[s].job = j
         \/ status'[j] = "dead_letter" /\ status[j] = "leased" /\ Finished(j, "failed")
<1> USE JobsInt
<1> DEFINE Said == \/ status'[j] = "leased"
                   \/ status'[j] = "pending"
                   \/ status'[j] = "superseded" /\ Later(j) # {}
                   \/ /\ status'[j] = "completed" /\ journal' = journal
                      /\ \E s \in Servers : Busy(s, "report") /\ work[s].says = "complete" /\ work[s].job = j
                   \/ status'[j] = "dead_letter" /\ status[j] = "leased" /\ Finished(j, "failed")
<1>0. JobTypes /\ ServerTypes /\ ReadOlder
  BY Parts DEF Records
<1>1. ASSUME NEW s \in Servers, NEW i \in Jobs, Supersede(s, i) PROVE Said
  <2>1. /\ Close({i} \cap {k \in Jobs : status[k] = "leased" /\ expired[k]}, "superseded")
        /\ seen[s] # None /\ i \in seen[s].older
    BY <1>1 DEF Supersede, Reading
  <2>2. j = i /\ status'[j] = "superseded"
    BY <1>0, <2>1 DEF Close, JobTypes
  <2>3. seen[s].job \in Jobs /\ Exists(seen[s].job) /\ i < seen[s].job
    BY <1>0, <2>1, Hands DEF Numbered, ReadOlder
  <2>4. seen[s].job \in Later(j)
    BY <2>2, <2>3 DEF Later
  <2> QED
    BY <2>2, <2>4
<1>2. ASSUME NEW s \in Servers, Claim(s) PROVE Said
  BY <1>0, <1>2 DEF Claim, JobTypes
<1>3. ASSUME NEW s \in Servers, DeadLetterExpired(s) PROVE Said
  BY <1>0, <1>3 DEF DeadLetterExpired, DeadLetter, Close, Unchanged, JobTypes
<1>4. ASSUME NEW s \in Servers, Complete(s) PROVE Said
  BY <1>0, <1>4 DEF Complete, Close, JobTypes
<1>5. ASSUME NEW s \in Servers, FailFinal(s) PROVE Said
  BY <1>0, <1>5 DEF FailFinal, DeadLetter, Close, Valid, JobTypes
<1>6. ASSUME NEW s \in Servers, FailRetry(s) \/ Release(s) PROVE Said
  BY <1>0, <1>6 DEF FailRetry, Release, Requeue, JobTypes
<1>7. ASSUME NEW s \in Servers,
             \/ ReadCandidates(s) \/ ReadLive(s) \/ ReadPin(s) \/ LoseClaim(s)
             \/ RefuseReport(s) \/ Running(s) \/ Lose(s)
      PROVE  FALSE
  BY <1>7, RunningJobs DEF ReadCandidates, ReadLive, ReadPin, Proceed, LoseClaim, RefuseReport,
     Lose, SameJobs, jobs
<1>8. ASSUME NEW k \in Jobs, BackoffOver(k) \/ LeaseExpires(k) PROVE FALSE
  BY <1>8 DEF BackoffOver, LeaseExpires
<1>9. ASSUME Passing PROVE FALSE
  BY <1>9 DEF Passing, ReadGroups, CopyLapse, PinEnds, Lapse, vars, jobs
<1> HIDE DEF Said
<1>10. \A s \in Servers : Claiming(s) => Said
  BY <1>1, <1>2, <1>3, <1>7, Zenon DEF Claiming
<1>11. \A s \in Servers : Reporting(s) => Said
  BY <1>4, <1>5, <1>6, <1>7, Zenon DEF Reporting
<1>12. Said
  BY <1>7, <1>8, <1>9, <1>10, <1>11 DEF Next, Passing
<1> QED
  BY <1>12 DEF Said

\* A change to the memberships queues, revives or replaces a job, no more.
LEMMA ChangedStatus ==
  ASSUME TypeOK, Numbered, Change, NEW j \in Jobs, status'[j] # status[j]
  PROVE  status'[j] = "pending" \/ (status'[j] = "superseded" /\ Later(j)' # {})
<1> USE JobsInt
<1>0. JobTypes /\ Agreement
  BY Parts
<1>1. ASSUME NEW n \in Jobs, NEW a \in Actions, Queued(n, a)
      PROVE  status'[j] = "pending" \/ (status'[j] = "superseded" /\ Later(j)' # {})
  <2>1. CASE j = n
    BY <1>0, <1>1, <2>1 DEF Queued, JobTypes
  <2>2. CASE j # n
    <3>1. status[j] = "pending" /\ status'[j] = "superseded" /\ status'[n] = "pending"
      BY <1>0, <1>1, <2>2 DEF Queued, JobTypes
    <3>2. j < n
      BY <1>1, <3>1 DEF Queued, Exists
    <3>3. n \in Later(j)'
      BY <3>1, <3>2 DEF Later, Exists
    <3> QED
      BY <3>1, <3>3
  <2> QED
    BY <2>1, <2>2
<1>2. ASSUME NEW k \in Jobs, Revived(k) PROVE status'[j] = "pending"
  BY <1>0, <1>2 DEF Revived, JobTypes
<1> QED
  BY <1>0, <1>1, <1>2, Changed

\* Journals only grow, by the job a server has run.
LEMMA JournalsGrow ==
  ASSUME TypeOK, Numbered, [Next]_vars, NEW j \in Jobs
  PROVE  /\ Recorded(j) => Recorded(j)'
         /\ Recorded(j)' => \/ Recorded(j)
                            \/ \E s \in Servers : Others(s) /\ Ends(s) /\ work[s].job = j
<1>1. CASE journal' = journal
  BY <1>1 DEF Recorded
<1>2. ASSUME NEW s \in Servers, Others(s), Ends(s)
      PROVE  /\ Recorded(j) => Recorded(j)'
             /\ Recorded(j)' => \/ Recorded(j)
                                \/ \E t \in Servers : Others(t) /\ Ends(t) /\ work[t].job = j
  <2>1. \A t \in Servers : journal[t] \subseteq journal'[t]
    BY <1>2 DEF Others, Ends
  <2>2. \A t \in Servers : j \in journal'[t] => j \in journal[t] \/ (t = s /\ work[s].job = j)
    BY <1>2 DEF Others, Ends
  <2> QED
    BY <1>2, <2>1, <2>2 DEF Recorded
<1> QED
  BY <1>1, <1>2, HandKinds DEF Takes, Begins, Calls, Breaks, Answers

\* A completed job is in a journal, and journals hold jobs that were queued.
LEMMA RecordsAgreeKept ==
  ASSUME TypeOK, Numbered, Records, [Next]_vars
  PROVE  RecordsAgree'
<1>0. ServerTypes /\ HandsAgree /\ RecordsAgree
  BY Parts DEF Records
<1>1. ASSUME NEW j \in Jobs, Recorded(j)' PROVE Exists(j)'
  <2>1. Exists(j)
    <3>1. CASE Recorded(j)
      BY <1>0, <3>1 DEF RecordsAgree
    <3>2. CASE \E s \in Servers : Ends(s) /\ work[s].job = j
      BY <3>2 DEF Ends, Busy, Numbered
    <3> QED
      BY <1>1, <3>1, <3>2, JournalsGrow
  <2> QED
    BY <2>1, JobsGoOn
<1>2. ASSUME NEW j \in Jobs, status'[j] = "completed" PROVE Recorded(j)'
  <2>1. CASE status'[j] = status[j]
    BY <1>0, <1>2, <2>1, JournalsGrow DEF RecordsAgree
  <2>2. CASE status'[j] # status[j]
    <3>1. ~Change
      BY <1>2, <2>2, ChangedStatus
    <3>2. PICK s \in Servers : Busy(s, "report") /\ work[s].says = "complete" /\ work[s].job = j
      BY <1>2, <2>2, <3>1, StatusKinds
    <3>3. Recorded(j)
      BY <1>0, <3>2 DEF HandsAgree, HandAgrees, Recorded
    <3> QED
      BY <3>3, JournalsGrow
  <2> QED
    BY <2>1, <2>2
<1> QED
  BY <1>1, <1>2 DEF RecordsAgree

\* A superseded job has a newer one, and only timed adds come too late.
LEMMA ReplacedKept ==
  ASSUME TypeOK, Numbered, Records, [Next]_vars
  PROVE  Replaced'
<1>0. JobTypes /\ Agreement /\ MemberTypes /\ Replaced
  BY Parts DEF Records
<1>1. over' = over \/ over' = {j \in Jobs : action[j] = "addTimed"}
  BY <1>0, ChangeKinds, ElsewhereSame DEF Dropped
<1>2. \A j \in over' : j \in Jobs /\ action[j] = "addTimed"
  BY <1>0, <1>1 DEF Replaced, MemberTypes
<1>3. \A j \in over' : action'[j] = "addTimed"
  <2>1. \A j \in over' : Exists(j)
    BY <1>0, <1>2 DEF Agreement, Exists
  <2> QED
    BY <1>2, <2>1, JobsGoOn
<1>4. \A j \in Jobs : Later(j) # {} => Later(j)' # {}
  BY JobsGoOn DEF Later
<1>5. ASSUME NEW j \in Jobs, status'[j] = "superseded" PROVE Later(j)' # {}
  <2>1. CASE status'[j] = status[j]
    BY <1>0, <1>4, <1>5, <2>1 DEF Replaced
  <2>2. CASE status'[j] # status[j] /\ Change
    BY <1>5, <2>2, ChangedStatus
  <2>3. CASE status'[j] # status[j] /\ ~Change
    BY <1>4, <1>5, <2>3, StatusKinds
  <2> QED
    BY <2>1, <2>2, <2>3
<1> QED
  BY <1>3, <1>5 DEF Replaced

\* The job that was queued last is the newest.
LEMMA QueuedIsTop ==
  ASSUME JobTypes, NEW n \in Jobs, NEW a, Queued(n, a)
  PROVE  /\ Top(n)' /\ action'[n] = a
         /\ \A j \in Jobs : Top(j)' => j = n
<1> USE JobsInt
<1>1. /\ status[n] = "none" /\ status'[n] = "pending" /\ action'[n] = a
      /\ \A j \in Jobs : Exists(j) <=> j < n
      /\ \A j \in Jobs \ {n} : Exists(j)' => Exists(j)
  BY DEF Queued, JobTypes, Exists
<1>2. Exists(n)' /\ \A j \in Jobs : Exists(j)' => j <= n
  BY <1>1 DEF Exists
<1>3. Later(n)' = {}
  <2>1. \A j \in Jobs : ~(j > n /\ Exists(j)')
    BY <1>2
  <2> QED
    BY <2>1 DEF Later
<1>4. ASSUME NEW j \in Jobs, Top(j)' PROVE j = n
  <2>1. n \notin Later(j)' /\ j <= n
    BY <1>2, <1>4 DEF Top
  <2>2. ~(n > j)
    BY <1>2, <2>1 DEF Later
  <2> QED
    BY <2>1, <2>2
<1> QED
  BY <1>1, <1>2, <1>3, <1>4 DEF Top

\* While a membership is active, the newest job goes on asking for the group.
LEMMA ActiveIsAskedKept ==
  ASSUME TypeOK, Numbered, Records, [Next]_vars
  PROVE  ActiveIsAsked'
<1>0. JobTypes /\ Agreement /\ MemberTypes /\ Replaced /\ ActiveIsAsked
  BY Parts DEF Records
<1>1. ASSUME NEW n \in Jobs, NEW a \in Actions, Asked(n, a) PROVE ActiveIsAsked'
  <2>1. Top(n)' /\ action'[n] = a
    BY <1>0, <1>1, QueuedIsTop DEF Asked
  <2>2. n \notin over
    BY <1>0, <1>1 DEF Asked, Queued, Agreement, Replaced
  <2> QED
    BY <1>1, <2>1, <2>2 DEF Asked, ActiveIsAsked
<1>2. ASSUME Active' \subseteq Active, UNCHANGED <<missed, over, action>>,
             \A j \in Jobs : Exists(j)' <=> Exists(j)
      PROVE  ActiveIsAsked'
  <2>1. \A j \in Jobs : Top(j) => Top(j)'
    BY <1>2 DEF Top, Later
  <2> QED
    BY <1>0, <1>2, <2>1 DEF ActiveIsAsked
<1>3. CASE Change
  <2>1. CASE Missed
    BY <2>1 DEF Missed, ActiveIsAsked
  <2>2. CASE Shifted
    BY <1>2, <2>2 DEF Shifted, Exists
  <2>3. CASE \E j \in Jobs : Revived(j) /\ UNCHANGED <<action, row, sync, missed, over, store>>
    <3>1. Active' = Active
      BY <2>3 DEF Active, ActiveIn
    <3>2. \A j \in Jobs : Exists(j)' <=> Exists(j)
      BY <1>0, <2>3 DEF Revived, Exists, JobTypes
    <3> QED
      BY <1>2, <2>3, <3>1, <3>2
  <2> QED
    BY <1>0, <1>1, <1>3, <2>1, <2>2, <2>3, ChangeKinds
<1>4. CASE ~Change
  <2>1. UNCHANGED <<action, over, row, missed>>
    BY <1>4, ElsewhereSame
  <2>2. Active' = Active
    BY <2>1 DEF Active, ActiveIn
  <2>3. \A j \in Jobs : Exists(j)' <=> Exists(j)
    BY <1>4, JobsGoOn
  <2> QED
    BY <1>2, <2>1, <2>2, <2>3
<1> QED
  BY <1>3, <1>4

\* So records, hands and memberships go on agreeing.
LEMMA RecordsKept == TypeOK /\ Numbered /\ Records /\ [Next]_vars => Records'
<1> SUFFICES ASSUME TypeOK, Numbered, Records, [Next]_vars PROVE Records'
  OBVIOUS
<1>1. HandsAgree' /\ Copies' /\ ReadOlder'
  BY HandsAgreeKept, CopiesKept, ReadOlderKept
<1>2. RecordsAgree' /\ Replaced' /\ ActiveIsAsked'
  BY RecordsAgreeKept, ReplacedKept, ActiveIsAskedKept
<1> QED
  BY <1>1, <1>2 DEF Records

-----------------------------------------------------------------------------
(* Until jobs run out of their order, what is recorded is in the game. *)

\* The newest job, unless it came too late.
Wins(j) == Top(j) /\ j \notin over

InRun(j) == \E s \in Servers : Busy(s, "running") /\ work[s].job = j

\* While a job is leased no newer one has run.
LeasedGoesFirst ==
  \A k \in Jobs : status[k] = "leased" => \A j \in Later(k) : ~Recorded(j)

\* What is left of the winner's run leads to what it asks for ...
RunLeadsThere ==
  \A j \in Jobs, s \in Servers :
    Wins(j) /\ Busy(s, "running") /\ work[s].job = j => Ready(action[j], work[s].steps, store)

\* ... and once it has run the game has that, or it is being run again.
RecordedIsGiven ==
  \A j \in Jobs : Wins(j) /\ Recorded(j) => InRun(j) \/ Given(action[j], store)

\* No membership passes for synced when the job that asked for it is dead.
DeadIsKnown ==
  missed \/ \A j \in Jobs : Top(j) /\ status[j] = "dead_letter" /\ action[j] \in Adds =>
              \A r \in Active : sync[r] # "synced"

Effect == LeasedGoesFirst /\ RunLeadsThere /\ RecordedIsGiven /\ DeadIsKnown

\* Beside the newest job every job has a newer one.
LEMMA OneTop == \A j, k \in Jobs : Top(j) /\ Exists(k) /\ k # j => j \in Later(k)
  BY JobsInt DEF Top, Later

\* A winner was one before, or is new and nobody has it in hand.
LEMMA WinsBefore ==
  ASSUME TypeOK, Numbered, Records, [Next]_vars, NEW j \in Jobs, Wins(j)'
  PROVE  /\ Exists(j) => Wins(j) /\ action'[j] = action[j]
         /\ Recorded(j)' => Exists(j)
         /\ \A s \in Servers : Busy(s, "running")' /\ work'[s].job = j => Exists(j)
<1>0. JobTypes /\ Agreement /\ MemberTypes /\ Replaced /\ RecordsAgree
  BY Parts DEF Records
<1>1. over \subseteq over'
  <2>1. over' = over \/ over' = {k \in Jobs : action[k] = "addTimed"}
    BY <1>0, ChangeKinds, ElsewhereSame DEF Dropped
  <2> QED
    BY <1>0, <2>1 DEF Replaced, MemberTypes
<1>2. Exists(j) => Wins(j) /\ action'[j] = action[j]
  BY <1>1, JobsGoOn DEF Wins
<1>3. Recorded(j)' => Exists(j)
  BY <1>0, JournalsGrow DEF RecordsAgree, Ends, Busy, Numbered
<1>4. ASSUME NEW s \in Servers, Busy(s, "running")', work'[s].job = j PROVE Exists(j)
  <2>1. CASE Change
    BY <1>0, <1>4, <2>1, ChangeKinds DEF Busy, Numbered
  <2>2. CASE ~Change
    <3>1. Exists(j)'
      BY DEF Wins, Top
    <3> QED
      BY <2>2, <3>1, JobsGoOn
  <2> QED
    BY <2>1, <2>2
<1> QED
  BY <1>2, <1>3, <1>4

\* At most one server runs a job, and that job is leased.
LEMMA RunIsLeased ==
  ASSUME TypeOK, Numbered, Order, NEW s \in Servers, Busy(s, "running")
  PROVE  /\ work[s].job \in Jobs /\ Exists(work[s].job) /\ status[work[s].job] = "leased"
         /\ work[s].job \in Open /\ Live(work[s].job)
         /\ \A t \in Servers : Busy(t, "running") => t = s
<1>1. \A t \in Servers : Busy(t, "running") => /\ work[t].job \in Jobs /\ host[work[t].job] = t
                                               /\ Live(work[t].job)
  BY InHands DEF Order, Held, Working
<1> QED
  BY <1>1 DEF Order, OneLease, Live, Open, Exists

\* A lease is taken on an open job.
LEMMA LeaseTaken ==
  ASSUME TypeOK, Numbered, [Next]_vars, NEW k \in Jobs, status'[k] = "leased", status[k] # "leased"
  PROVE  status[k] = "pending" /\ ~Change
<1>0. JobTypes /\ Agreement /\ ServerTypes
  BY Parts
<1>1. ~Change
  BY ChangedStatus
<1>2. ASSUME NEW s \in Servers, Claiming(s) PROVE status[k] = "pending"
  <2>1. CASE \E j \in Jobs : Leased(j, s)
    BY <1>0, <2>1 DEF Leased, JobTypes
  <2>2. CASE \E S : Closing(S)
    BY <1>0, <2>2 DEF Closing, Close, JobTypes
  <2> QED
    BY <1>0, <1>2, <2>1, <2>2, ClaimingJobs DEF SameJobs
<1>3. ASSUME NEW s \in Servers, Running(s) PROVE FALSE
  BY <1>3, RunningJobs DEF SameJobs
<1>4. ASSUME NEW s \in Servers, Reporting(s) PROVE FALSE
  <2>1. CASE Closing({work[s].job})
    BY <1>0, <2>1 DEF Closing, Close, JobTypes
  <2>2. CASE Requeued(work[s].job)
    BY <1>0, <2>2 DEF Requeued, JobTypes
  <2> QED
    BY <1>0, <1>4, <2>1, <2>2, ReportingJobs DEF SameJobs
<1>5. ASSUME NEW s \in Servers, Lose(s) PROVE FALSE
  BY <1>5 DEF Lose, jobs
<1>6. ASSUME NEW j \in Jobs, BackoffOver(j) \/ LeaseExpires(j) PROVE FALSE
  BY <1>6 DEF BackoffOver, LeaseExpires
<1>7. ASSUME Passing PROVE FALSE
  BY <1>7 DEF Passing, ReadGroups, CopyLapse, PinEnds, Lapse, vars, jobs
<1> QED
  BY <1>1, <1>2, <1>3, <1>4, <1>5, <1>6, <1>7, Zenon DEF Next, Passing

\* No newer job is recorded while an older one is leased.
LEMMA LeasedGoesFirstKept ==
  ASSUME TypeOK, Numbered, Order, Records, Effect, [Next]_vars, ~astray'
  PROVE  LeasedGoesFirst'
<1> USE JobsInt
<1> SUFFICES ASSUME NEW k \in Jobs, status'[k] = "leased", NEW j \in Jobs, j > k, Exists(j)',
                    Recorded(j)'
             PROVE  FALSE
  BY DEF LeasedGoesFirst, Later
<1>1. Exists(j)
  BY JournalsGrow DEF Records, RecordsAgree, Ends, Busy, Numbered
<1>2. j \in Later(k)
  BY <1>1 DEF Later
<1>3. status[k] = "leased"
  BY <1>2, LeaseTaken DEF Order, PendingIsNewest
<1>4. ~Recorded(j)
  BY <1>2, <1>3 DEF Effect, LeasedGoesFirst
<1>5. PICK s \in Servers : Ends(s) /\ work[s].job = j
  BY <1>4, JournalsGrow
<1>6. status[j] = "leased"
  BY <1>5, RunIsLeased DEF Ends
<1> QED
  BY <1>3, <1>6 DEF Order, OneLease

\* The game drops a timed entry under a job that has been begun only if the job
\* has not asked for one.
LEMMA QuietStore ==
  ASSUME TypeOK, Numbered, Records, NEW j \in Jobs, Wins(j), Wins(j)', Recorded(j) \/ InRun(j),
         store' = store \/ Dropped \/ Lapse
  PROVE  store' = store \/ (store' = store \ {"timed"} /\ action[j] \in Actions /\ action[j] # "addTimed")
<1>0. JobTypes /\ Agreement
  BY Parts
<1>1. action[j] \in Actions
  BY <1>0 DEF Wins, Top, Exists, Agreement, JobTypes
<1>2. CASE Dropped
  BY <1>1, <1>2 DEF Dropped, Wins
<1>3. CASE Lapse
  <2>1. PICK k \in Jobs : /\ Top(k)
                          /\ (k \in Open /\ ~Begun(k)) \/ k \in over \/ action[k] = "remove"
    BY <1>3, Zenon DEF Lapse, Top
  <2>2. k = j
    BY <2>1, OneTop DEF Wins, Top
  <2>3. Begun(j)
    BY DEF Begun, Recorded, InRun
  <2>4. action[j] = "remove" /\ store' = store \ {"timed"}
    BY <1>3, <2>1, <2>2, <2>3 DEF Wins, Lapse, DropTimed
  <2> QED
    BY <1>1, <2>4
<1> QED
  BY <1>2, <1>3

\* No step of a server, the game or the clock leads the winner's run astray.
LEMMA RunLeadsThereKept ==
  ASSUME TypeOK, Numbered, CopiesAgree, Order, Records, Effect, [Next]_vars, ~astray'
  PROVE  RunLeadsThere'
<1> SUFFICES ASSUME NEW j \in Jobs, NEW s \in Servers, Wins(j)', Busy(s, "running")',
                    work'[s].job = j
             PROVE  Ready(action'[j], work'[s].steps, store')
  BY DEF RunLeadsThere
<1>0. JobTypes /\ Agreement /\ ServerTypes /\ HandsAgree /\ Entries(store)
  BY Parts DEF Records, Copies
<1>1. Wins(j) /\ action'[j] = action[j] /\ action[j] \in Actions
  <2>1. Wins(j) /\ action'[j] = action[j] /\ Exists(j)
    BY WinsBefore
  <2> QED
    BY <1>0, <2>1 DEF Exists, Agreement, JobTypes
<1>2. ASSUME work'[s] = work[s]
      PROVE  /\ Busy(s, "running") /\ work[s].job = j /\ InRun(j)
             /\ Ready(action[j], work[s].steps, store)
  BY <1>1, <1>2 DEF Effect, RunLeadsThere, InRun, Busy
<1>3. ASSUME work'[s] = work[s], store' = store PROVE Ready(action'[j], work'[s].steps, store')
  BY <1>1, <1>2, <1>3
<1>4. CASE UNCHANGED <<work, journal>> /\ (store' = store \/ Dropped \/ Lapse)
  <2>1. store' = store \/ (store' = store \ {"timed"} /\ action[j] # "addTimed")
    BY <1>1, <1>2, <1>4, QuietStore
  <2> QED
    BY <1>1, <1>2, <1>3, <1>4, <2>1, LapseIsHarmless
<1>5. ASSUME NEW t \in Servers, t # s, Others(t),
             Takes(t) \/ Begins(t) \/ Calls(t) \/ Breaks(t) \/ Ends(t) \/ Answers(t)
      PROVE  Ready(action'[j], work'[s].steps, store')
  <2>1. work'[s] = work[s] /\ Busy(s, "running")
    BY <1>2, <1>5 DEF Others
  <2>2. ~Busy(t, "running")
    BY <1>5, <2>1, RunIsLeased
  <2>3. store' = store
    BY <1>5, <2>2 DEF Takes, Begins, Calls, Breaks, Ends, Answers
  <2> QED
    BY <1>3, <2>1, <2>3
<1>6. CASE Begins(s)
  <2>1. /\ work[s].job = j /\ work'[s].steps = Plan(action[j]) /\ store' = store
    BY <1>1, <1>6 DEF Begins, Wins
  <2> QED
    BY <1>0, <1>1, <2>1, PlanRests
<1>7. CASE Calls(s)
  <2> DEFINE steps == work[s].steps
  <2>1. /\ Busy(s, "running") /\ work[s].job = j /\ steps # <<>>
        /\ work'[s].steps = Tail(steps) /\ Touches(s) /\ ~Misled(s)
    BY <1>7, Zenon DEF Calls, Touches
  <2>2. steps \in Rests(action[j]) /\ Ready(action[j], steps, store)
    BY <1>0, <1>1, <2>1 DEF HandsAgree, HandAgrees, Effect, RunLeadsThere
\* Its copy is what is stored: otherwise it would have been misled.
  <2>3. cache[s] = store
    BY <2>1, RunsOnCopy DEF Misled, Working
  <2>4. store' = Does(Head(steps), store)
    BY <2>1, <2>3 DEF Touches
  <2> HIDE DEF steps
  <2>5. Ready(action[j], Tail(steps), Does(Head(steps), store))
    BY <1>0, <1>1, <2>1, <2>2, StepLeadsOn
  <2> QED
    BY <1>1, <2>1, <2>4, <2>5
<1> QED
  BY <1>4, <1>5, <1>6, <1>7, HandKinds DEF Takes, Breaks, Ends, Answers

\* What the winner left in the game stays there, or is being run again.
LEMMA RecordedIsGivenKept ==
  ASSUME TypeOK, Numbered, Order, Records, Effect, [Next]_vars, ~astray'
  PROVE  RecordedIsGiven'
<1> SUFFICES ASSUME NEW j \in Jobs, Wins(j)', Recorded(j)'
             PROVE  InRun(j)' \/ Given(action'[j], store')
  BY DEF RecordedIsGiven
<1>0. HandsAgree
  BY DEF Records
<1>1. Wins(j) /\ action'[j] = action[j]
  BY WinsBefore
<1>2. Recorded(j) => InRun(j) \/ Given(action[j], store)
  BY <1>1 DEF Effect, RecordedIsGiven
\* While j is recorded, no other job is run.
<1>3. ASSUME NEW s \in Servers, Busy(s, "running"), Recorded(j) PROVE work[s].job = j
  <2>1. work[s].job # j => j \in Later(work[s].job)
    BY <1>1, <1>3, RunIsLeased, OneTop DEF Wins
  <2> QED
    BY <1>3, <2>1, RunIsLeased DEF Effect, LeasedGoesFirst
<1>4. CASE UNCHANGED <<work, journal>> /\ (store' = store \/ Dropped \/ Lapse)
  <2>1. Recorded(j) /\ (InRun(j) => InRun(j)')
    BY <1>4 DEF Recorded, InRun, Busy
  <2>2. store' = store \/ (store' = store \ {"timed"} /\ action[j] \in Actions /\ action[j] # "addTimed")
    BY <1>1, <1>4, <2>1, QuietStore
  <2> QED
    BY <1>1, <1>2, <2>1, <2>2, LapseIsHarmless
<1>5. ASSUME NEW s \in Servers, Ends(s), work[s].job = j PROVE Given(action'[j], store')
  <2>1. Ready(action[j], <<>>, store) /\ store' = store
    BY <1>1, <1>5 DEF Ends, Effect, RunLeadsThere
  <2> QED
    BY <1>1, <2>1 DEF Ready
<1>6. CASE ~Recorded(j)
  BY <1>5, <1>6, JournalsGrow
\* Whoever does not stop running j leaves it running.
<1>7. ASSUME NEW s \in Servers, Others(s), ~(Busy(s, "running") /\ work[s].job = j), InRun(j)
      PROVE  InRun(j)'
  <2>1. PICK t \in Servers : Busy(t, "running") /\ work[t].job = j
    BY <1>7 DEF InRun
  <2>2. work'[t] = work[t]
    BY <1>7, <2>1 DEF Others
  <2> QED
    BY <2>1, <2>2 DEF InRun, Busy
<1>8. ASSUME NEW s \in Servers, Others(s), Recorded(j), store' = store,
             ~(Busy(s, "running") /\ work[s].job = j)
      PROVE  InRun(j)' \/ Given(action'[j], store')
  BY <1>1, <1>2, <1>7, <1>8
<1>9. ASSUME NEW s \in Servers, Others(s), Recorded(j), Takes(s)
      PROVE  InRun(j)' \/ Given(action'[j], store')
  <2>1. ~Busy(s, "running")
    BY <1>9, RunIsLeased DEF Takes
  <2> QED
    BY <1>8, <1>9, <2>1 DEF Takes
<1>10. ASSUME NEW s \in Servers, Others(s), Recorded(j), Begins(s) \/ Answers(s)
       PROVE  InRun(j)' \/ Given(action'[j], store')
  BY <1>8, <1>10 DEF Begins, Answers, Busy
<1>11. ASSUME NEW s \in Servers, Recorded(j), Calls(s) PROVE InRun(j)'
  BY <1>3, <1>11 DEF Calls, InRun
<1>12. ASSUME NEW s \in Servers, Recorded(j), Breaks(s) PROVE FALSE
  <2>1. Busy(s, "running") /\ work[s].job = j /\ ~Undoes(s)
    BY <1>3, <1>12, Zenon DEF Breaks
  <2>2. j \notin journal[s]
    BY <1>0, <2>1 DEF HandsAgree, HandAgrees
  <2> QED
    BY <1>12, <2>1, <2>2, Zenon DEF Undoes, Recorded, Busy
<1>13. ASSUME NEW s \in Servers, Others(s), Recorded(j), Ends(s)
       PROVE  InRun(j)' \/ Given(action'[j], store')
  BY <1>3, <1>5, <1>13 DEF Ends
<1> QED
  BY <1>4, <1>6, <1>9, <1>10, <1>11, <1>12, <1>13, HandKinds

\* Beside the changes to memberships only the end of a job tells the rows.
LEMMA SyncKinds ==
  ASSUME TypeOK, Numbered, [Next]_vars, ~Change
  PROVE  \/ sync' = sync
         \/ \E k \in Jobs, outcome \in {"synced", "failed"} :
              status[k] = "leased" /\ Finished(k, outcome)
<1> DEFINE Said == \/ sync' = sync
                   \/ \E k \in Jobs, outcome \in {"synced", "failed"} :
                        status[k] = "leased" /\ Finished(k, outcome)
<1>0. ServerTypes
  BY Parts
<1>1. ASSUME NEW s \in Servers, DeadLetterExpired(s) PROVE Said
  <2>1. seen[s].job \in Jobs /\ status[seen[s].job] = "leased"
    BY <1>0, <1>1, Hands DEF DeadLetterExpired, MayLease, Reading, Unchanged
  <2>2. Finished(seen[s].job, "failed")
    BY <1>1 DEF DeadLetterExpired, DeadLetter
  <2> QED
    BY <2>1, <2>2
<1>2. ASSUME NEW s \in Servers, Complete(s) \/ FailFinal(s) PROVE Said
  <2>1. work[s].job \in Jobs /\ status[work[s].job] = "leased"
    BY <1>0, <1>2, Hands DEF Complete, FailFinal, Valid, Busy
  <2>2. Finished(work[s].job, "synced") \/ Finished(work[s].job, "failed")
    BY <1>2 DEF Complete, FailFinal, DeadLetter
  <2> QED
    BY <2>1, <2>2
<1>3. ASSUME NEW s \in Servers, Claiming(s), ~DeadLetterExpired(s) PROVE Said
  BY <1>3 DEF Claiming, ReadCandidates, ReadLive, ReadPin, Proceed, Supersede, LoseClaim, Claim,
     members
<1>4. ASSUME NEW s \in Servers, Running(s) PROVE Said
  BY <1>4 DEF Running, HandBack, Reject, AlreadyDone, Begin, RunStep, StepFails, NotEffective,
     Applied, Local, members
<1>5. ASSUME NEW s \in Servers, RefuseReport(s) \/ FailRetry(s) \/ Release(s) \/ Lose(s)
      PROVE  Said
  BY <1>5 DEF RefuseReport, FailRetry, Release, Requeue, Lose, members
<1>6. ASSUME NEW j \in Jobs, BackoffOver(j) \/ LeaseExpires(j) PROVE Said
  BY <1>6 DEF BackoffOver, LeaseExpires, members
<1>7. ASSUME Passing PROVE Said
  BY <1>7 DEF Passing, ReadGroups, CopyLapse, PinEnds, Lapse, vars, members
<1> HIDE DEF Said
<1>8. \A s \in Servers : Claiming(s) => Said
  BY <1>1, <1>3
<1>9. \A s \in Servers : Reporting(s) => Said
  BY <1>2, <1>5 DEF Reporting
<1>10. Said
  BY <1>4, <1>5, <1>6, <1>7, <1>8, <1>9 DEF Next, Passing
<1> QED
  BY <1>10 DEF Said

\* A membership whose add is dead is not marked synced by the end of another job.
LEMMA DeadIsKnownKept ==
  ASSUME TypeOK, Numbered, Order, Records, Effect, [Next]_vars
  PROVE  DeadIsKnown'
<1> SUFFICES ASSUME ~missed', NEW j \in Jobs, Top(j)', status'[j] = "dead_letter",
                    action'[j] \in Adds, NEW r \in Active'
             PROVE  sync'[r] # "synced"
  BY DEF DeadIsKnown
<1>0. JobTypes /\ Agreement /\ MemberTypes /\ DeadIsKnown
  BY Parts DEF Effect
<1>1. ASSUME Top(j), status[j] = "dead_letter", action[j] \in Adds, ~missed, r \in Active
      PROVE  sync[r] # "synced"
  BY <1>0, <1>1 DEF DeadIsKnown
<1>2. CASE Change
  <2>1. CASE \E n \in Jobs, a \in Actions : Asked(n, a)
    <3>1. PICK n \in Jobs, a \in Actions : Queued(n, a)
      BY <2>1 DEF Asked
    <3>2. j = n /\ status'[n] = "pending"
      BY <1>0, <3>1, QueuedIsTop DEF Queued, JobTypes
    <3> QED
      BY <3>2
  <2>2. CASE Shifted
    <3>1. Top(j) /\ status[j] = "dead_letter" /\ action[j] \in Adds /\ ~missed /\ r \in Active
      BY <2>2 DEF Shifted, Top, Later, Exists
    <3> QED
      BY <1>1, <2>2, <3>1 DEF Shifted
  <2>3. CASE \E k \in Jobs : Revived(k) /\ UNCHANGED <<action, row, sync, missed, over, store>>
    <3>1. PICK k \in Jobs : Revived(k) /\ UNCHANGED <<action, row, sync, missed, over, store>>
      BY <2>3
    <3>2. status[j] = "dead_letter" /\ \A i \in Jobs : Exists(i)' <=> Exists(i)
      BY <1>0, <3>1 DEF Revived, Exists, JobTypes
    <3>3. Top(j) /\ r \in Active
      BY <3>1, <3>2 DEF Top, Later, Active, ActiveIn
    <3> QED
      BY <1>1, <3>1, <3>2, <3>3
  <2> QED
    BY <1>0, <1>2, <2>1, <2>2, <2>3, ChangeKinds DEF Missed
<1>3. CASE ~Change
  <2>1. UNCHANGED <<action, row, missed>>
    BY <1>3, ElsewhereSame
  <2>2. r \in Active /\ Active' = Active /\ r \in Rows /\ action[j] \in Adds /\ ~missed
    BY <2>1 DEF Active, ActiveIn
  <2>3. Top(j)
    BY <1>3, JobsGoOn DEF Top
  <2>4. CASE status[j] = "dead_letter"
    <3>1. sync[r] # "synced"
      BY <1>1, <2>2, <2>3, <2>4
    <3>2. ASSUME NEW k \in Jobs, status[k] = "leased", Finished(k, "synced")
          PROVE  sync'[r] = sync[r]
      <4>1. j \in Later(k)
        BY <2>3, <2>4, <3>2, OneTop DEF Exists
      <4>2. PICK p \in Later(k) : status[p] = "pending"
        BY <3>2, <4>1 DEF Order, NewerIsPending
      <4>3. p \in Open \ {k}
        BY <3>2, <4>2 DEF Open, Later
      <4> QED
        BY <2>2, <3>2, <4>3 DEF Finished
    <3>3. ASSUME NEW k \in Jobs, Finished(k, "failed") PROVE sync'[r] \in {sync[r], "failed"}
      BY <2>2, <3>3 DEF Finished
    <3> QED
      BY <1>3, <3>1, <3>2, <3>3, SyncKinds
  <2>5. CASE status[j] # "dead_letter"
    <3>1. status[j] = "leased" /\ Finished(j, "failed")
      BY <1>3, <2>5, StatusKinds
    <3>2. ASSUME NEW o \in Open, o # j PROVE FALSE
      <4>1. status[o] = "pending"
        BY <3>1, <3>2 DEF Open, Order, OneLease
      <4>2. j \in Later(o)
        BY <2>3, <3>2, <4>1, OneTop DEF Open, Exists
      <4> QED
        BY <3>2, <4>1, <4>2 DEF Open, Order, PendingIsNewest
    <3>3. r \in Wanted(action[j]) /\ Open \ {j} = {}
      BY <2>2, <3>2 DEF Wanted
    <3> QED
      BY <2>2, <3>1, <3>3 DEF Finished
  <2> QED
    BY <2>4, <2>5
<1> QED
  BY <1>2, <1>3

-----------------------------------------------------------------------------
(* What the game has in the end. *)

GameInv == Inv /\ Records /\ (astray \/ Effect)

\* There is nothing at first.
LEMMA InitGame == Init => GameInv
<1> SUFFICES ASSUME Init PROVE Records /\ Effect
  BY InitInv DEF GameInv
<1>1. /\ \A j \in Jobs : ~Exists(j) /\ ~Recorded(j) /\ status[j] = "none"
      /\ \A s \in Servers : work[s] = None
      /\ Active = {} /\ over = {} /\ store = {} /\ journal = [s \in Servers |-> {}]
      /\ \A s \in Servers : cache[s] = {} /\ seen[s] = None
  BY DEF Init, Exists, Recorded, Active, ActiveIn
<1>2. Records
  BY <1>1 DEF Records, HandsAgree, HandAgrees, Busy, RecordsAgree, Replaced, ActiveIsAsked,
     ReadOlder, Copies, Entries
<1>3. Effect
  BY <1>1 DEF Effect, LeasedGoesFirst, RunLeadsThere, RecordedIsGiven, DeadIsKnown, Wins, Top
<1> QED
  BY <1>2, <1>3

\* Every step keeps order, records and effect, or is astray.
LEMMA NextGame == GameInv /\ [Next]_vars => GameInv'
<1> SUFFICES ASSUME Inv, Records, astray \/ Effect, [Next]_vars PROVE GameInv'
  BY DEF GameInv
<1>1. Inv' /\ TypeOK /\ Numbered
  BY NextInv DEF Inv
<1>2. Records'
  BY <1>1, RecordsKept
<1>3. ASSUME ~astray' PROVE Effect'
  <2>1. ~astray
    BY <1>1, <1>3, AstrayStays, Parts
  <2>2. CopiesAgree /\ Order /\ Effect
    BY <2>1 DEF Inv
  <2>3. LeasedGoesFirst' /\ RunLeadsThere' /\ RecordedIsGiven' /\ DeadIsKnown'
    BY <1>1, <1>3, <2>2, LeasedGoesFirstKept, RunLeadsThereKept, RecordedIsGivenKept,
       DeadIsKnownKept
  <2> QED
    BY <2>3 DEF Effect
<1> QED
  BY <1>1, <1>2, <1>3 DEF GameInv

\* So they hold throughout.
LEMMA GameSettled == Spec => []GameInv
  BY InitGame, NextGame, PTL DEF Spec

\* Once no job is open, what the newest asked for is in the game if it was completed.
LEMMA CompletedIsGiven ==
  ASSUME GameInv, ~astray, Open = {}, NEW j \in Jobs, Top(j), j \notin over,
         status[j] = "completed"
  PROVE  Given(action[j], store)
<1>1. TypeOK /\ Numbered /\ Order /\ Recorded(j) /\ Wins(j) /\ Effect
  BY DEF GameInv, Inv, Records, RecordsAgree, Wins
<1>2. ~InRun(j)
  BY <1>1, RunIsLeased DEF InRun
<1> QED
  BY <1>1, <1>2 DEF Effect, RecordedIsGiven

\* Once every job has run, the game has what the newest job asked for, although every
\* call is answered from a server's own copy and may write the copy's other entries
\* back: until a job runs beside or after a newer one, or a run from a copy that a
\* broken-off run has made old changes the game or leaves it.
THEOREM NewestJobWins == Spec => []NewestWins
<1>1. GameInv => NewestWins
  <2> SUFFICES ASSUME GameInv, Open = {}, ~astray, NEW j \in Jobs, status[j] = "completed",
                      Later(j) = {}, j \notin over
               PROVE  Given(action[j], store)
    BY DEF NewestWins, Given
  <2> QED
    BY CompletedIsGiven DEF Top, Exists
<1> QED
  BY <1>1, GameSettled, PTL

\* An active membership the backend calls synced is in the game, whatever copies the
\* servers answered from, unless a job is still to run or the last could not be queued,
\* or jobs or copies have gone astray as above.
THEOREM SyncedMeansGiven == Spec => []SyncedIsTrue
<1>1. GameInv => SyncedIsTrue
  <2> SUFFICES ASSUME GameInv, NEW r \in Active, sync[r] = "synced", Open = {}, ~missed, ~astray
               PROVE  store # {}
    BY DEF SyncedIsTrue
  <2>1. JobTypes /\ ActiveIsAsked /\ Replaced /\ DeadIsKnown
    BY Parts DEF GameInv, Inv, Records, Effect
  <2>2. PICK j \in Jobs : Top(j) /\ action[j] \in Adds /\ j \notin over
    BY <2>1 DEF ActiveIsAsked
  <2>3. status[j] # "dead_letter" /\ status[j] # "superseded" /\ j \notin Open /\ status[j] # "none"
    BY <2>1, <2>2 DEF DeadIsKnown, Replaced, Top, Exists
  <2>4. status[j] = "completed"
    BY <2>1, <2>3 DEF JobTypes, Statuses, Open
  <2>5. Given(action[j], store)
    BY <2>2, <2>4, CompletedIsGiven
  <2> QED
    BY <2>2, <2>5 DEF Given, Adds
<1> QED
  BY <1>1, GameSettled, PTL

=============================================================================
