-------------------------- MODULE PluginHttp_proofs --------------------------
(***************************************************************************)
(* For any number of requests, slots, failures and retries: no slot is     *)
(* lost or given back twice, a request is answered at most once and never  *)
(* after the plugin is gone, and requests are kept out of a half-open      *)
(* circuit only for a probe that is on its way.                            *)
(***************************************************************************)
EXTENDS PluginHttp, FiniteSetTheorems, TLAPS

\* Where unloading has got to, in the flags the threads and the queue look at.
Lifecycle ==
  /\ shutting <=> plugin # "loaded"
  /\ accepting <=> plugin # "gone"

\* A thread pauses only while an attempt remains.
Retrying == \A r \in Requests : stage[r] = "pausing" => attempt[r] < MaxReadRetries

Inv == TypeOK /\ Lifecycle /\ Retrying /\ SlotsMatch /\ ProbeIsComing /\ AnsweredOnce

\* One thread moves.
Moves(r, to) == stage' = [stage EXCEPT ![r] = to]

-----------------------------------------------------------------------------
(* Counting the threads. *)

LEMMA AtFinite ==
  ASSUME NEW S
  PROVE  IsFiniteSet(At(S)) /\ Cardinality(At(S)) \in Nat
<1>1. At(S) \in SUBSET Requests
  BY DEF At
<1> QED
  BY <1>1, PolicyConfig, FS_Subset, FS_CardinalityType DEF PolicyConfig

LEMMA Entered ==
  ASSUME stage \in [Requests -> Stages], NEW S, NEW r \in Requests, NEW to,
         stage[r] \notin S, to \in S, Moves(r, to)
  PROVE  Cardinality(At(S)') = Cardinality(At(S)) + 1
<1>1. At(S)' = At(S) \cup {r}
  BY DEF At, Moves
<1>2. r \notin At(S)
  BY DEF At
<1> QED
  BY <1>1, <1>2, AtFinite, FS_AddElement

LEMMA Left ==
  ASSUME stage \in [Requests -> Stages], NEW S, NEW r \in Requests, NEW to,
         stage[r] \in S, to \notin S, Moves(r, to)
  PROVE  Cardinality(At(S)') = Cardinality(At(S)) - 1
<1>1. At(S)' = At(S) \ {r}
  BY DEF At, Moves
<1>2. r \in At(S)
  BY DEF At
<1> QED
  BY <1>1, <1>2, AtFinite, FS_RemoveElement

LEMMA Stayed ==
  ASSUME stage \in [Requests -> Stages], NEW S, NEW r \in Requests, NEW to,
         stage[r] \in S <=> to \in S, Moves(r, to)
  PROVE  At(S)' = At(S)
  BY DEF At, Moves

\* A thread that is at S is counted.
LEMMA Counted ==
  ASSUME NEW S, NEW r \in At(S)
  PROVE  Cardinality(At(S)) > 0
<1>1. At(S) # {}
  OBVIOUS
<1> QED
  BY <1>1, AtFinite, FS_EmptySet

-----------------------------------------------------------------------------
(* The invariant is inductive, one conjunct at a time. *)

\* The two halves of TypeOK.
Flags ==
  /\ cooled \in BOOLEAN /\ probing \in BOOLEAN /\ lost \in BOOLEAN
  /\ shutting \in BOOLEAN /\ accepting \in BOOLEAN /\ healthy \in BOOLEAN

Shapes ==
  /\ circuit \in {"Closed", "Open", "HalfOpen"} /\ failures \in 0 .. FailureThreshold
  /\ held \in Nat /\ threads \in Nat
  /\ queue \in Seq(Requests)
  /\ stage \in [Requests -> Stages]
  /\ attempt \in [Requests -> 0 .. MaxReadRetries]
  /\ plugin \in {"loaded", "waiting", "gone"}
  /\ probes \subseteq Requests

LEMMA Halves == TypeOK <=> Flags /\ Shapes
  BY Zenon DEF TypeOK, Flags, Shapes

LEMMA InitInv == Init => Inv
<1> SUFFICES ASSUME Init PROVE Inv
  OBVIOUS
<1>1. Flags
  BY Zenon DEF Init, Flags
<1>2. Shapes
  BY PolicyConfig DEF PolicyConfig, Init, Shapes, Stages
<1>3. \A S : "none" \notin S => At(S) = {}
  BY DEF At, Init
<1>4. At(Slotted) = {} /\ At(Stages \ {"none"}) = {}
  BY <1>3 DEF Slotted
<1>5. SlotsMatch
  <2>1. Cardinality(At(Slotted)) = 0 /\ Cardinality(At(Stages \ {"none"})) = 0
    BY <1>4, FS_EmptySet
  <2>2. 0 <= MaxConcurrent
    BY PolicyConfig DEF PolicyConfig
  <2> QED
    BY <2>1, <2>2 DEF SlotsMatch, Init
<1>6. Lifecycle
  BY Zenon DEF Lifecycle, Init
<1>7. ProbeIsComing /\ Retrying
  BY Zenon DEF ProbeIsComing, Retrying, Init
<1>8. AnsweredOnce
  BY DEF AnsweredOnce, Queued, Init
<1> QED
  BY <1>1, <1>2, <1>5, <1>6, <1>7, <1>8, Halves DEF Inv

\* What RecordResult makes of the policy.
Recorded == RecordSuccess \/ RecordRefusal \/ RecordTransient

LEMMA FlagsKept == Flags /\ [Next]_vars => Flags'
<1> SUFFICES ASSUME Flags, [Next]_vars PROVE Flags'
  OBVIOUS
<1> USE DEF Flags
<1>1. ASSUME NEW r \in Requests, Refuse(r) PROVE Flags'
  BY <1>1, Zenon DEF Refuse, client
<1>2. ASSUME NEW r \in Requests, Submit(r) PROVE Flags'
  BY <1>2, Zenon DEF Submit, Admit
<1>3. ASSUME NEW r \in Requests, CannotStart(r) PROVE Flags'
  BY <1>3, Zenon DEF CannotStart, Admit, client
<1>4. ASSUME NEW r \in Requests, Succeed(r) \/ Decline(r) \/ Fail(r) PROVE Flags'
  <2>1. Recorded /\ Record(r)
    BY <1>4 DEF Succeed, Decline, Fail, Recorded
  <2>2. cooled' \in BOOLEAN /\ probing' \in BOOLEAN
    BY <2>1, Zenon DEF Recorded, RecordSuccess, RecordRefusal, RecordTransient, policy
  <2> QED
    BY <2>1, <2>2, Zenon DEF Record, client
<1>5. ASSUME NEW r \in Requests, Pause(r) \/ Resume(r) \/ Look(r) \/ Answer(r) PROVE Flags'
  BY <1>5, Zenon DEF Pause, Resume, Look, Answer, policy, client
<1>6. ASSUME NEW r \in Requests, FreeSlot(r) \/ Leave(r) PROVE Flags'
  BY <1>6, Zenon DEF FreeSlot, Leave, policy
<1>7. CASE Drain \/ Cool \/ BackendTurns
  BY <1>7, Zenon DEF Drain, Cool, BackendTurns, policy, client
<1>8. CASE Unload \/ Unloaded \/ Load
  BY <1>8, Zenon DEF Unload, Unloaded, Load, policy, client
<1>9. CASE UNCHANGED vars
  BY <1>9, Zenon DEF vars, policy, client
<1> QED
  BY <1>1, <1>2, <1>3, <1>4, <1>5, <1>6, <1>7, <1>8, <1>9 DEF Next, Work

LEMMA ShapesKept == Shapes /\ SlotsMatch /\ Retrying /\ [Next]_vars => Shapes'
<1> SUFFICES ASSUME Shapes, SlotsMatch, Retrying, [Next]_vars PROVE Shapes'
  OBVIOUS
<1> USE PolicyConfig DEF PolicyConfig, Shapes
<1>1. ASSUME NEW r \in Requests, Refuse(r) PROVE Shapes'
  BY <1>1 DEF Refuse, Seen, Enqueue, client
<1>2. ASSUME NEW r \in Requests, Submit(r) PROVE Shapes'
  BY <1>2 DEF Submit, Admit, Seen, Stages
<1>3. ASSUME NEW r \in Requests, CannotStart(r) PROVE Shapes'
  BY <1>3 DEF CannotStart, Admit, Seen, Enqueue, client
<1>4. ASSUME NEW r \in Requests, Succeed(r) \/ Decline(r) \/ Fail(r) PROVE Shapes'
  <2>1. Recorded /\ Record(r)
    BY <1>4 DEF Succeed, Decline, Fail, Recorded
  <2>2. circuit' \in {"Closed", "Open", "HalfOpen"} /\ failures' \in 0 .. FailureThreshold
    <3>1. CASE RecordSuccess \/ RecordRefusal
      BY <3>1 DEF RecordSuccess, RecordRefusal, policy
    <3>2. CASE RecordTransient
      BY <3>2 DEF RecordTransient
    <3> QED
      BY <2>1, <3>1, <3>2 DEF Recorded
  <2> QED
    BY <2>1, <2>2 DEF Record, client, Stages
<1>5. ASSUME NEW r \in Requests, Pause(r) \/ Look(r) \/ Answer(r) PROVE Shapes'
  <2>1. CASE Pause(r)
    BY <2>1 DEF Pause, policy, client, Stages
  <2>2. CASE Look(r)
    BY <2>2 DEF Look, policy, client, Stages
  <2>3. CASE Answer(r)
    BY <2>3 DEF Answer, Enqueue, policy, client, Stages
  <2> QED
    BY <1>5, <2>1, <2>2, <2>3
<1>6. ASSUME NEW r \in Requests, Resume(r) PROVE Shapes'
  <2>1. stage' \in [Requests -> Stages]
    BY <1>6 DEF Resume, Stages
  <2>2. attempt' \in [Requests -> 0 .. MaxReadRetries]
    <3>1. stage[r] = "pausing" /\ attempt[r] \in Nat /\ attempt[r] + 1 <= MaxReadRetries
      BY <1>6 DEF Resume, Retrying
    <3> QED
      BY <1>6, <3>1 DEF Resume
  <2> QED
    BY <1>6, <2>1, <2>2 DEF Resume, policy, client
<1>7. ASSUME NEW r \in Requests, FreeSlot(r) PROVE Shapes'
  BY <1>7 DEF FreeSlot, policy, Stages
<1>8. ASSUME NEW r \in Requests, Leave(r) PROVE Shapes'
  <2>1. r \in At(Stages \ {"none"})
    BY <1>8 DEF Leave, At, Stages
  <2>2. threads > 0
    BY <2>1, Counted DEF SlotsMatch
  <2> QED
    BY <1>8, <2>2 DEF Leave, policy, Stages
<1>9. CASE Drain \/ Cool \/ BackendTurns
  <2>1. CASE Drain
    BY <2>1 DEF Drain, policy, client
  <2>2. CASE Cool
    BY <2>2 DEF Cool, client
  <2>3. CASE BackendTurns
    BY <2>3 DEF BackendTurns, policy, client
  <2> QED
    BY <1>9, <2>1, <2>2, <2>3
<1>10. CASE Unload \/ Unloaded \/ Load
  <2>1. CASE Unload
    BY <2>1 DEF Unload, policy
  <2>2. CASE Unloaded
    BY <2>2 DEF Unloaded, policy, client
  <2>3. CASE Load
    BY <2>3 DEF Load
  <2> QED
    BY <1>10, <2>1, <2>2, <2>3
<1>11. CASE UNCHANGED vars
  BY <1>11 DEF vars, policy, client
<1> QED
  BY <1>1, <1>2, <1>3, <1>4, <1>5, <1>6, <1>7, <1>8, <1>9, <1>10, <1>11 DEF Next, Work

LEMMA LifecycleKept == Lifecycle /\ [Next]_vars => Lifecycle'
<1> SUFFICES ASSUME Lifecycle, [Next]_vars PROVE Lifecycle'
  OBVIOUS
<1> DEFINE Same == shutting' = shutting /\ accepting' = accepting /\ plugin' = plugin
<1>1. ASSUME NEW r \in Requests, Refuse(r) \/ Submit(r) \/ CannotStart(r) PROVE Same
  BY <1>1 DEF Refuse, Submit, CannotStart, client
<1>2. ASSUME NEW r \in Requests, Work(r) PROVE Same
  BY <1>2 DEF Work, Succeed, Decline, Fail, Record, Pause, Resume, Look, Answer,
              FreeSlot, Leave, client
<1>3. ASSUME Drain \/ Cool \/ BackendTurns \/ UNCHANGED vars PROVE Same
  BY <1>3 DEF Drain, Cool, BackendTurns, client, vars
<1>4. CASE Unload \/ Unloaded \/ Load
  BY <1>4, Zenon DEF Unload, Unloaded, Load, client, Lifecycle
<1>5. ASSUME Same PROVE Lifecycle'
  BY <1>5, Zenon DEF Lifecycle
<1> QED
  BY <1>1, <1>2, <1>3, <1>4, <1>5 DEF Next

LEMMA RetryingKept == Shapes /\ Retrying /\ [Next]_vars => Retrying'
<1> SUFFICES ASSUME Shapes, Retrying, [Next]_vars, NEW q \in Requests, stage'[q] = "pausing"
             PROVE  attempt'[q] < MaxReadRetries
  BY DEF Retrying
<1> USE DEF Retrying, Shapes
<1>3. ASSUME NEW r \in Requests, Pause(r) PROVE attempt'[q] < MaxReadRetries
  BY <1>3, PolicyConfig DEF Pause, Retries, PolicyConfig
<1>4. ASSUME NEW r \in Requests, Submit(r) PROVE attempt'[q] < MaxReadRetries
  BY <1>4 DEF Submit
<1>5. ASSUME NEW r \in Requests, Resume(r) PROVE attempt'[q] < MaxReadRetries
  BY <1>5 DEF Resume
<1>6. ASSUME NEW r \in Requests, Refuse(r) \/ CannotStart(r) PROVE attempt'[q] < MaxReadRetries
  BY <1>6 DEF Refuse, CannotStart
<1>7. ASSUME NEW r \in Requests, Succeed(r) \/ Decline(r) \/ Fail(r) PROVE attempt'[q] < MaxReadRetries
  BY <1>7 DEF Succeed, Decline, Fail, Record
<1>8. ASSUME NEW r \in Requests, Look(r) \/ Answer(r) \/ FreeSlot(r) \/ Leave(r)
      PROVE  attempt'[q] < MaxReadRetries
  BY <1>8 DEF Look, Answer, FreeSlot, Leave
<1>9. CASE Drain \/ Cool \/ BackendTurns \/ Unload \/ Unloaded \/ Load \/ UNCHANGED vars
  BY <1>9 DEF Drain, Cool, BackendTurns, Unload, Unloaded, Load, vars
<1> QED
  BY <1>3, <1>4, <1>5, <1>6, <1>7, <1>8, <1>9 DEF Next, Work

LEMMA SlotsKept == Shapes /\ AnsweredOnce /\ Lifecycle /\ SlotsMatch /\ [Next]_vars => SlotsMatch'
<1> SUFFICES ASSUME Shapes, AnsweredOnce, Lifecycle, SlotsMatch, [Next]_vars PROVE SlotsMatch'
  OBVIOUS
<1> DEFINE Alive == Stages \ {"none"}
<1>0. /\ held = Cardinality(At(Slotted)) /\ held <= MaxConcurrent
      /\ threads = Cardinality(At(Alive)) /\ held \in Nat /\ threads \in Nat
      /\ MaxConcurrent \in Nat /\ stage \in [Requests -> Stages]
  BY PolicyConfig DEF PolicyConfig, SlotsMatch, Shapes
<1>S. ASSUME stage' = stage, held' = held, threads' = threads PROVE SlotsMatch'
  <2>1. \A S : At(S)' = At(S)
    BY <1>S DEF At
  <2> QED
    BY <1>0, <1>S, <2>1 DEF SlotsMatch
<1>M. ASSUME NEW r \in Requests, NEW to, Moves(r, to), held' = held, threads' = threads,
             stage[r] \in Slotted <=> to \in Slotted, stage[r] \in Alive <=> to \in Alive
      PROVE  SlotsMatch'
  <2>1. At(Slotted)' = At(Slotted) /\ At(Alive)' = At(Alive)
    BY <1>0, <1>M, Stayed
  <2> QED
    BY <1>0, <1>M, <2>1 DEF SlotsMatch
<1>1. ASSUME NEW r \in Requests, Refuse(r) \/ CannotStart(r) PROVE SlotsMatch'
  BY <1>1, <1>S DEF Refuse, CannotStart, client
<1>2. ASSUME NEW r \in Requests, Submit(r) PROVE SlotsMatch'
  <2>1. Moves(r, "sending") /\ stage[r] = "none" /\ held' = held + 1 /\ threads' = threads + 1
        /\ held < MaxConcurrent
    BY <1>0, <1>2 DEF Submit, Moves, MayAsk, Refused
  <2>2. Cardinality(At(Slotted)') = held + 1
    BY <1>0, <2>1, Entered DEF Slotted
  <2>3. Cardinality(At(Alive)') = threads + 1
    BY <1>0, <2>1, Entered DEF Stages
  <2> QED
    BY <1>0, <2>1, <2>2, <2>3 DEF SlotsMatch, At
<1>3. ASSUME NEW r \in Requests, Succeed(r) \/ Decline(r) \/ Fail(r) PROVE SlotsMatch'
  <2>1. Moves(r, "recorded") /\ stage[r] = "sending" /\ held' = held /\ threads' = threads
    BY <1>3 DEF Succeed, Decline, Fail, Record, Moves, client
  <2> QED
    BY <2>1, <1>M DEF Slotted, Stages
<1>4. ASSUME NEW r \in Requests, Pause(r) \/ Resume(r) \/ Look(r) \/ Answer(r) PROVE SlotsMatch'
  <2>1. PICK to \in {"pausing", "sending", "ended", "answering"} :
          /\ Moves(r, to) /\ stage[r] \in {"sending", "pausing", "recorded", "answering"}
          /\ held' = held /\ threads' = threads
    BY <1>4 DEF Pause, Resume, Look, Answer, Moves, client
  <2> QED
    BY <2>1, <1>M DEF Slotted, Stages
<1>5. ASSUME NEW r \in Requests, FreeSlot(r) PROVE SlotsMatch'
  <2>1. Moves(r, "freed") /\ stage[r] = "ended" /\ threads' = threads
    BY <1>5 DEF FreeSlot, Moves
  <2>2. r \in At(Slotted)
    BY <2>1 DEF At, Slotted
  <2>3. held > 0
    BY <1>0, <2>2, Counted
  <2>4. held' = held - 1
    BY <1>5, <2>3 DEF FreeSlot
  <2>5. Cardinality(At(Slotted)') = held - 1
    BY <1>0, <2>1, Left DEF Slotted
  <2>6. At(Alive)' = At(Alive)
    BY <1>0, <2>1, Stayed DEF Stages
  <2> QED
    BY <1>0, <2>1, <2>4, <2>5, <2>6 DEF SlotsMatch
<1>6. ASSUME NEW r \in Requests, Leave(r) PROVE SlotsMatch'
  <2>1. Moves(r, "none") /\ stage[r] = "freed" /\ held' = held /\ threads' = threads - 1
    BY <1>6 DEF Leave, Moves
  <2>2. Cardinality(At(Alive)') = threads - 1
    BY <1>0, <2>1, Left DEF Stages
  <2>3. At(Slotted)' = At(Slotted)
    BY <1>0, <2>1, Stayed DEF Slotted
  <2> QED
    BY <1>0, <2>1, <2>2, <2>3 DEF SlotsMatch, At
<1>7. CASE Drain \/ Cool \/ BackendTurns \/ Unload \/ Unloaded \/ UNCHANGED vars
  BY <1>7, <1>S DEF Drain, Cool, BackendTurns, Unload, Unloaded, client, vars
<1>8. CASE Load
  <2>1. threads = 0 /\ stage' = stage /\ held' = 0 /\ threads' = 0
    BY <1>8 DEF Load, AnsweredOnce
  <2>2. At(Alive) = {}
    BY <1>0, <2>1, AtFinite, FS_EmptySet
  <2>3. At(Slotted) = {}
    BY <2>2 DEF At, Slotted, Stages
  <2>4. At(Slotted)' = {} /\ At(Alive)' = {}
    BY <2>1, <2>2, <2>3 DEF At
  <2>5. Cardinality(At(Slotted)') = 0 /\ Cardinality(At(Alive)') = 0
    BY <2>4, FS_EmptySet
  <2> QED
    BY <1>0, <2>1, <2>5 DEF SlotsMatch, At
<1> QED
  BY <1>1, <1>2, <1>3, <1>4, <1>5, <1>6, <1>7, <1>8 DEF Next, Work

\* The probe that a half-open circuit waits for.
Probe == probes \cap At({"sending", "pausing"})

LEMMA ProbeKept == Shapes /\ Lifecycle /\ ProbeIsComing /\ [Next]_vars => ProbeIsComing'
<1> SUFFICES ASSUME Shapes, Lifecycle, ProbeIsComing, [Next]_vars, probing', ~shutting'
             PROVE  circuit' = "HalfOpen" /\ (lost' \/ Probe' # {})
  BY DEF ProbeIsComing, Probe
<1>0. stage \in [Requests -> Stages]
  BY DEF Shapes
<1> DEFINE Goal == circuit' = "HalfOpen" /\ (lost' \/ Probe' # {})
<1>S. ASSUME probing' = probing, shutting' = shutting, circuit' = circuit, lost' = lost,
             Probe \subseteq Probe'
      PROVE  Goal
  BY <1>S DEF ProbeIsComing, Probe
<1>1. ASSUME NEW r \in Requests, Refuse(r) PROVE Goal
  <2>1. probing /\ ~shutting /\ circuit = "HalfOpen"
    BY <1>1 DEF Refuse, client, ProbeIsComing
  <2>2. circuit' = circuit
    BY <1>1, <2>1 DEF Refuse, Seen
  <2> QED
    BY <1>1, <1>S, <2>2 DEF Refuse, client, Probe, At
<1>2. ASSUME NEW r \in Requests, Submit(r) PROVE Goal
  <2>1. Seen = "HalfOpen" /\ circuit' = "HalfOpen"
    BY <1>2 DEF Submit, Admit, Seen, ProbeIsComing
  <2>2. r \in probes' /\ r \in At({"sending", "pausing"})'
    BY <1>0, <1>2, <2>1 DEF Submit, At
  <2> QED
    BY <2>1, <2>2 DEF Probe
<1>3. ASSUME NEW r \in Requests, CannotStart(r) PROVE Goal
  <2>1. Seen = "HalfOpen"
    BY <1>3 DEF CannotStart, Admit, Seen, client, ProbeIsComing
  <2> QED
    BY <1>3, <2>1 DEF CannotStart, Admit
<1>4. ASSUME NEW r \in Requests, Succeed(r) \/ Decline(r) \/ Fail(r) PROVE Goal
  <2>1. shutting' = shutting
    BY <1>4 DEF Succeed, Decline, Fail, Record, client
  <2>2. ~RecordSuccess
    BY Zenon DEF RecordSuccess
  <2>3. ASSUME RecordRefusal PROVE FALSE
    BY <2>1, <2>3 DEF RecordRefusal, policy, ProbeIsComing
  <2>4. ASSUME RecordTransient PROVE FALSE
    BY <2>1, <2>4 DEF RecordTransient, ProbeIsComing
  <2> QED
    BY <1>4, <2>2, <2>3, <2>4 DEF Succeed, Decline, Fail
<1>5. ASSUME NEW r \in Requests, Pause(r) \/ Resume(r) PROVE Goal
  <2>1. \E to \in {"sending", "pausing"} : Moves(r, to)
    BY <1>5 DEF Pause, Resume, Moves, client
  <2>2. At({"sending", "pausing"}) \subseteq At({"sending", "pausing"})'
    BY <1>0, <2>1 DEF At, Moves
  <2> QED
    BY <1>5, <1>S, <2>2 DEF Pause, Resume, policy, client, Probe
<1>6. ASSUME NEW r \in Requests, Look(r) \/ Answer(r) \/ FreeSlot(r) \/ Leave(r) PROVE Goal
  <2>1. /\ stage[r] \in {"recorded", "answering", "ended", "freed"}
        /\ \E to \in Stages : Moves(r, to)
    BY <1>6 DEF Look, Answer, FreeSlot, Leave, Moves, Stages
  <2>2. At({"sending", "pausing"}) \subseteq At({"sending", "pausing"})'
    BY <1>0, <2>1 DEF At, Moves
  <2> QED
    BY <1>6, <1>S, <2>2 DEF Look, Answer, FreeSlot, Leave, policy, client, Probe
<1>7. ASSUME Drain \/ Cool \/ BackendTurns \/ Unloaded \/ UNCHANGED vars PROVE Goal
  BY <1>7, <1>S DEF Drain, Cool, BackendTurns, Unloaded, policy, client, vars, Probe, At
<1>8. ASSUME Unload \/ Load PROVE Goal
  BY <1>8 DEF Unload, Load
<1> QED
  BY <1>1, <1>2, <1>3, <1>4, <1>5, <1>6, <1>7, <1>8 DEF Next, Work

\* The two parts of AnsweredOnce.
Unrepeated ==
  /\ \A i, j \in DOMAIN queue : queue[i] = queue[j] => i = j
  /\ \A i \in DOMAIN queue : stage[queue[i]] \in {"none", "ended", "freed"}

Quiet == plugin = "gone" => threads = 0 /\ queue = <<>>

LEMMA AnswerParts == AnsweredOnce <=> Unrepeated /\ Quiet
  BY DEF AnsweredOnce, Unrepeated, Quiet, Queued

\* An answer that is not in the queue yet joins it.
LEMMA Joins ==
  ASSUME Shapes, Unrepeated, NEW r \in Requests, r \notin Queued, Enqueue(r),
         stage' = stage \/ Moves(r, stage'[r]), stage'[r] \in {"none", "ended", "freed"}
  PROVE  Unrepeated'
<1>1. queue \in Seq(Requests) /\ stage \in [Requests -> Stages]
  BY DEF Shapes
<1>2. \A i \in DOMAIN queue : queue[i] # r /\ queue[i] \in Requests
  BY <1>1 DEF Queued
<1>3. \A i \in DOMAIN queue : stage'[queue[i]] = stage[queue[i]]
  BY <1>1, <1>2 DEF Moves
<1>4. CASE accepting
  <2>1. queue' = Append(queue, r) /\ DOMAIN queue' = 1 .. Len(queue) + 1
    BY <1>1, <1>4 DEF Enqueue
  <2>2. queue'[Len(queue) + 1] = r /\ \A i \in 1 .. Len(queue) : queue'[i] = queue[i]
    BY <1>1, <2>1
  <2> QED
    BY <1>1, <1>2, <1>3, <2>1, <2>2 DEF Unrepeated
<1>5. CASE ~accepting
  BY <1>2, <1>3, <1>5 DEF Enqueue, Unrepeated
<1> QED
  BY <1>4, <1>5

LEMMA UnrepeatedKept == Shapes /\ Unrepeated /\ [Next]_vars => Unrepeated'
<1> SUFFICES ASSUME Shapes, Unrepeated, [Next]_vars PROVE Unrepeated'
  OBVIOUS
<1>0. stage \in [Requests -> Stages] /\ queue \in Seq(Requests)
  BY DEF Shapes
<1>Q. \A i \in DOMAIN queue : queue[i] \in Requests
  BY <1>0
<1>S. ASSUME stage' = stage, queue' = queue PROVE Unrepeated'
  BY <1>S DEF Unrepeated
<1>M. ASSUME NEW r \in Requests, NEW to, Moves(r, to), queue' = queue,
             stage[r] \in {"none", "ended", "freed"} => to \in {"none", "ended", "freed"}
      PROVE  Unrepeated'
  BY <1>0, <1>Q, <1>M DEF Moves, Unrepeated
<1>1. ASSUME NEW r \in Requests, Refuse(r) \/ CannotStart(r) PROVE Unrepeated'
  BY <1>1, Joins DEF Refuse, CannotStart, MayAsk
<1>2. ASSUME NEW r \in Requests, Submit(r) PROVE Unrepeated'
  <2>1. r \notin Queued /\ queue' = queue /\ Moves(r, "sending")
    BY <1>2 DEF Submit, MayAsk, Moves
  <2>2. \A i \in DOMAIN queue : queue[i] # r
    BY <2>1 DEF Queued
  <2> QED
    BY <1>0, <1>Q, <2>1, <2>2 DEF Moves, Unrepeated
<1>3. ASSUME NEW r \in Requests, Succeed(r) \/ Decline(r) \/ Fail(r) PROVE Unrepeated'
  BY <1>3, <1>M DEF Succeed, Decline, Fail, Record, Moves
<1>4. ASSUME NEW r \in Requests, Pause(r) \/ Resume(r) \/ Look(r) PROVE Unrepeated'
  <2>1. /\ queue' = queue /\ \E to \in Stages : Moves(r, to)
        /\ stage[r] \in {"sending", "pausing", "recorded"}
    BY <1>4 DEF Pause, Resume, Look, Moves, Stages
  <2> QED
    BY <2>1, <1>M
<1>5. ASSUME NEW r \in Requests, Answer(r) PROVE Unrepeated'
  <2>1. stage[r] = "answering" /\ Enqueue(r) /\ Moves(r, "ended")
    BY <1>5 DEF Answer, Moves
  <2>2. r \notin Queued
    BY <2>1 DEF Unrepeated, Queued
  <2>3. stage'[r] = "ended" /\ Moves(r, stage'[r])
    BY <1>0, <2>1 DEF Moves
  <2> QED
    BY <2>1, <2>2, <2>3, Joins
<1>6. ASSUME NEW r \in Requests, FreeSlot(r) \/ Leave(r) PROVE Unrepeated'
  BY <1>6, <1>M DEF FreeSlot, Leave, Moves
<1>7. CASE Drain
  <2>1. stage' = stage /\ queue' = Tail(queue) /\ queue # <<>>
    BY <1>7 DEF Drain
  <2>2. /\ DOMAIN queue' = 1 .. Len(queue) - 1
        /\ \A i \in 1 .. Len(queue) - 1 : queue'[i] = queue[i + 1] /\ i + 1 \in DOMAIN queue
    BY <1>0, <2>1
  <2> QED
    BY <2>1, <2>2 DEF Unrepeated
<1>8. CASE Cool \/ BackendTurns \/ Unload \/ Load \/ UNCHANGED vars
  BY <1>8, <1>S DEF Cool, BackendTurns, Unload, Load, vars
<1>9. CASE Unloaded
  BY <1>9 DEF Unloaded, Unrepeated
<1> QED
  BY <1>1, <1>2, <1>3, <1>4, <1>5, <1>6, <1>7, <1>8, <1>9 DEF Next, Work

\* Once the plugin is gone nothing enqueues, and no thread comes or goes.
LEMMA QuietKept == Shapes /\ SlotsMatch /\ Lifecycle /\ Quiet /\ [Next]_vars => Quiet'
<1> SUFFICES ASSUME Shapes, SlotsMatch, Lifecycle, Quiet, [Next]_vars, plugin' = "gone"
             PROVE  threads' = 0 /\ queue' = <<>>
  BY DEF Quiet
<1>1. ASSUME NEW r \in Requests, Refuse(r) \/ Submit(r) \/ CannotStart(r) PROVE FALSE
  BY <1>1 DEF Refuse, Submit, CannotStart, MayAsk
<1>2. ASSUME NEW r \in Requests, Work(r) PROVE FALSE
  <2>1. plugin = "gone" /\ stage[r] # "none"
    BY <1>2 DEF Work, Succeed, Decline, Fail, Record, Pause, Resume, Look, Answer,
                FreeSlot, Leave
  <2>2. r \in At(Stages \ {"none"})
    BY <2>1 DEF At, Shapes
  <2> QED
    BY <2>1, <2>2, Counted DEF SlotsMatch, Quiet
<1>3. CASE Drain \/ Cool \/ BackendTurns \/ UNCHANGED vars
  BY <1>3 DEF Drain, Cool, BackendTurns, client, vars, Quiet
<1>4. CASE Unload \/ Unloaded \/ Load
  BY <1>4 DEF Unload, Unloaded, Load, client
<1> QED
  BY <1>1, <1>2, <1>3, <1>4 DEF Next

-----------------------------------------------------------------------------

\* The conjuncts above hold together in every reachable state of the client.
THEOREM HttpInvariant == Spec => []Inv
<1>1. Init => Inv
  BY InitInv
<1>2. Inv /\ [Next]_vars => Inv'
  <2> SUFFICES ASSUME Inv, [Next]_vars PROVE Inv'
    OBVIOUS
  <2>1. TypeOK /\ Flags /\ Shapes /\ Lifecycle /\ Retrying /\ SlotsMatch /\ ProbeIsComing
        /\ AnsweredOnce /\ Unrepeated /\ Quiet
    BY Halves, AnswerParts DEF Inv
  <2>2. TypeOK'
    <3>1. Flags' /\ Shapes'
      BY <2>1, FlagsKept, ShapesKept
    <3> QED
      BY <3>1, Zenon DEF TypeOK, Flags, Shapes
  <2>3. Lifecycle' /\ Retrying' /\ SlotsMatch' /\ ProbeIsComing'
    BY <2>1, LifecycleKept, RetryingKept, SlotsKept, ProbeKept
  <2>4. AnsweredOnce'
    <3>1. Unrepeated' /\ Quiet'
      BY <2>1, UnrepeatedKept, QuietKept
    <3> QED
      BY <3>1 DEF AnsweredOnce, Unrepeated, Quiet, Queued
  <2> QED
    BY <2>2, <2>3, <2>4 DEF Inv
<1> QED
  BY <1>1, <1>2, PTL DEF Spec

\* The policy, the threads and the queue stay well-formed, for any number of
\* requests, slots, failures and retries.
THEOREM HttpTypes == Spec => []TypeOK
<1>1. Inv => TypeOK
  BY DEF Inv
<1> QED
  BY <1>1, HttpInvariant, PTL

\* RequestGuard and the failed start give every slot back once, so the counts are
\* those of the threads and never exceed MaxConcurrent.
THEOREM HttpSlotsMatch == Spec => []SlotsMatch
<1>1. Inv => SlotsMatch
  BY DEF Inv
<1> QED
  BY <1>1, HttpInvariant, PTL

\* A half-open circuit that refuses requests has its probe on the way, or lost it
\* to a thread that could not be started.
THEOREM HttpProbeIsComing == Spec => []ProbeIsComing
<1>1. Inv => ProbeIsComing
  BY DEF Inv
<1> QED
  BY <1>1, HttpInvariant, PTL

\* Finalize answers a request once, and after the destructor has waited for the
\* threads nothing is answered.
THEOREM HttpAnsweredOnce == Spec => []AnsweredOnce
<1>1. Inv => AnsweredOnce
  BY DEF Inv
<1> QED
  BY <1>1, HttpInvariant, PTL
=============================================================================
