----------------------------- MODULE PluginHttp -----------------------------
(***************************************************************************)
(* The plugin's HTTP client: every request runs in a detached thread and   *)
(* its answer is a task the game thread runs on its next tick.  The        *)
(* RequestPolicy bounds the threads and is the circuit breaker: after      *)
(* FailureThreshold transient failures it refuses requests for 30 seconds, *)
(* then lets one probe through.  Unload destroys the client, which waits   *)
(* for its threads, and then clears the task queue.                        *)
(*                                                                         *)
(* DoRequest, the tasks, the timers and Unload all run on the game thread; *)
(* each is one step here, unless it waits.  What a worker does to the      *)
(* policy, to the client's state and to the queue is one step each.        *)
(***************************************************************************)
EXTENDS Naturals, FiniteSets, Sequences

CONSTANTS
  Requests,          \* the requests that can be under way or answered at once
  Reads,             \* those made with GET or HEAD
  MaxConcurrent, FailureThreshold, MaxReadRetries

ASSUME PolicyConfig ==
  /\ IsFiniteSet(Requests) /\ Reads \subseteq Requests
  /\ MaxConcurrent \in Nat \ {0} /\ FailureThreshold \in Nat \ {0}
  /\ MaxReadRetries \in Nat

VARIABLES
  circuit,           \* m_State
  failures,          \* m_ConsecutiveFailures, capped at FailureThreshold
  cooled,            \* the circuit is open, and OpenDuration has passed since m_OpenedAt
  probing,           \* m_HalfOpenProbeActive
  held,              \* the policy's m_ActiveRequests
  threads,           \* the client's ActiveRequests
  shutting,          \* ShuttingDown
  accepting,         \* AcceptingTasks
  queue,             \* the answers waiting for the game thread
  stage,             \* how far the thread of each request has come
  attempt,           \* the attempts its thread has repeated
  plugin,            \* what the game thread is doing about loading
  healthy,           \* whether the backend answers
  probes,            \* (history) admitted half-open, result not yet recorded
  lost               \* (history) a probe's thread could not be started

policy == <<circuit, failures, cooled, probing>>
client == <<held, threads, shutting>>
vars == <<policy, client, accepting, queue, stage, attempt, plugin, healthy, probes, lost>>

\* A thread sends, perhaps pauses and sends again; then it records the result,
\* looks at ShuttingDown, enqueues the answer and gives its slot back.
Stages == {"none", "sending", "pausing", "recorded", "answering", "ended", "freed"}
Slotted == {"sending", "pausing", "recorded", "answering", "ended"}
Queued == {queue[i] : i \in DOMAIN queue}
At(s) == {r \in Requests : stage[r] \in s}

Init ==
  /\ circuit = "Closed" /\ failures = 0 /\ cooled = FALSE /\ probing = FALSE
  /\ held = 0 /\ threads = 0 /\ shutting = FALSE
  /\ accepting = TRUE /\ queue = <<>>
  /\ stage = [r \in Requests |-> "none"]
  /\ attempt = [r \in Requests |-> 0]
  /\ plugin = "loaded"
  /\ healthy \in BOOLEAN
  /\ probes = {} /\ lost = FALSE

-----------------------------------------------------------------------------
(* The game thread makes a request. *)

\* Mutant: an open circuit does not become half-open.
SeenAsIs == circuit

\* The circuit TryAcquire sees: an open one whose time has passed is half-open.
Seen == IF circuit = "Open" /\ cooled THEN "HalfOpen" ELSE circuit

Refused == \/ Seen = "Open"
           \/ Seen = "HalfOpen" /\ probing
           \/ held >= MaxConcurrent

Enqueue(r) == queue' = IF accepting THEN Append(queue, r) ELSE queue

MayAsk(r) == plugin = "loaded" /\ stage[r] = "none" /\ r \notin Queued

\* Refused, by the circuit or for want of a slot: the caller hears so on a tick.
Refuse(r) ==
  /\ MayAsk(r) /\ Refused
  /\ circuit' = Seen /\ cooled' = FALSE
  /\ Enqueue(r)
  /\ UNCHANGED <<failures, probing, client, accepting, stage, attempt,
                 plugin, healthy, probes, lost>>

Admit ==
  /\ circuit' = Seen /\ cooled' = FALSE
  /\ probing' = (probing \/ Seen = "HalfOpen")
  /\ UNCHANGED failures

Submit(r) ==
  /\ MayAsk(r) /\ ~Refused
  /\ Admit
  /\ held' = held + 1 /\ threads' = threads + 1
  /\ stage' = [stage EXCEPT ![r] = "sending"]
  /\ attempt' = [attempt EXCEPT ![r] = 0]
  /\ probes' = IF Seen = "HalfOpen" THEN probes \cup {r} ELSE probes
  /\ UNCHANGED <<shutting, accepting, queue, plugin, healthy, lost>>

\* Mutant: the slot of a thread that cannot be started is kept.
CannotStartLeaks(r) ==
  /\ MayAsk(r) /\ ~Refused
  /\ Admit
  /\ Enqueue(r)
  /\ held' = held + 1 /\ threads' = threads + 1
  /\ lost' = (lost \/ Seen = "HalfOpen")
  /\ UNCHANGED <<shutting, accepting, stage, attempt, plugin, healthy, probes>>

\* The thread cannot be started: the slot is given back, no result is recorded.
CannotStart(r) ==
  /\ MayAsk(r) /\ ~Refused
  /\ Admit
  /\ Enqueue(r)
  /\ lost' = (lost \/ Seen = "HalfOpen")
  /\ UNCHANGED <<client, accepting, stage, attempt, plugin, healthy, probes>>

-----------------------------------------------------------------------------
(* A worker thread. *)

\* RecordResult.  A success closes the circuit whoever reports it; an answer
\* that is no success and no transient failure closes a half-open one.
RecordSuccess == circuit' = "Closed" /\ failures' = 0 /\ cooled' = FALSE /\ probing' = FALSE

RecordRefusal ==
  IF circuit = "HalfOpen"
  THEN circuit' = "Closed" /\ probing' = FALSE /\ UNCHANGED <<failures, cooled>>
  ELSE UNCHANGED policy

\* Mutant: a probe that fails is not taken back.
RecordTransientOnly ==
  /\ failures' = IF failures < FailureThreshold THEN failures + 1 ELSE failures
  /\ IF circuit = "HalfOpen" \/ failures + 1 >= FailureThreshold
     THEN circuit' = "Open" /\ cooled' = FALSE
     ELSE UNCHANGED <<circuit, cooled>>
  /\ UNCHANGED probing

RecordTransient ==
  /\ failures' = IF failures < FailureThreshold THEN failures + 1 ELSE failures
  /\ IF circuit = "HalfOpen" \/ failures + 1 >= FailureThreshold
     THEN circuit' = "Open" /\ cooled' = FALSE /\ probing' = FALSE
     ELSE UNCHANGED <<circuit, cooled, probing>>

Record(r) ==
  /\ stage' = [stage EXCEPT ![r] = "recorded"]
  /\ probes' = probes \ {r}
  /\ lost' = (lost /\ probing')
  /\ UNCHANGED <<client, accepting, queue, attempt, plugin, healthy>>

\* A failed read is tried again, in the same slot, while retries remain.
Retries(r) == ~shutting /\ r \in Reads /\ attempt[r] < MaxReadRetries

\* The backend answers; a backend that is well answers no transient error.
Succeed(r) == stage[r] = "sending" /\ RecordSuccess /\ Record(r)
Decline(r) == stage[r] = "sending" /\ RecordRefusal /\ Record(r)
Fail(r) == stage[r] = "sending" /\ ~healthy /\ ~Retries(r) /\ RecordTransient /\ Record(r)

Pause(r) ==
  /\ stage[r] = "sending" /\ ~healthy /\ Retries(r)
  /\ stage' = [stage EXCEPT ![r] = "pausing"]
  /\ UNCHANGED <<policy, client, accepting, queue, attempt, plugin, healthy, probes, lost>>

\* After the pause: the next attempt, or, once the client is being destroyed,
\* neither an attempt nor a result nor an answer.
Resume(r) ==
  /\ stage[r] = "pausing"
  /\ IF shutting
     THEN /\ stage' = [stage EXCEPT ![r] = "ended"]
          /\ UNCHANGED attempt
     ELSE /\ stage' = [stage EXCEPT ![r] = "sending"]
          /\ attempt' = [attempt EXCEPT ![r] = @ + 1]
  /\ UNCHANGED <<policy, client, accepting, queue, plugin, healthy, probes, lost>>

\* The rest of Finalize.
Look(r) ==
  /\ stage[r] = "recorded"
  /\ stage' = [stage EXCEPT ![r] = IF shutting THEN "ended" ELSE "answering"]
  /\ UNCHANGED <<policy, client, accepting, queue, attempt, plugin, healthy, probes, lost>>

Answer(r) ==
  /\ stage[r] = "answering"
  /\ Enqueue(r)
  /\ stage' = [stage EXCEPT ![r] = "ended"]
  /\ UNCHANGED <<policy, client, accepting, attempt, plugin, healthy, probes, lost>>

\* RequestGuard: the slot first, then the thread's place in the client's count.
FreeSlot(r) ==
  /\ stage[r] = "ended"
  /\ stage' = [stage EXCEPT ![r] = "freed"]
  /\ held' = IF held > 0 THEN held - 1 ELSE held
  /\ UNCHANGED <<policy, threads, shutting, accepting, queue, attempt, plugin,
                 healthy, probes, lost>>

\* Mutant: the client does not hear of it.
LeaveUncounted(r) ==
  /\ stage[r] = "freed"
  /\ stage' = [stage EXCEPT ![r] = "none"]
  /\ UNCHANGED <<policy, client, accepting, queue, attempt, plugin, healthy, probes, lost>>

Leave(r) ==
  /\ stage[r] = "freed"
  /\ stage' = [stage EXCEPT ![r] = "none"]
  /\ threads' = threads - 1
  /\ UNCHANGED <<policy, held, shutting, accepting, queue, attempt, plugin,
                 healthy, probes, lost>>

-----------------------------------------------------------------------------
(* Ticks, time, unloading and loading. *)

\* One task of a tick.  The callback is called unless the client is going.
Drain ==
  /\ plugin = "loaded" /\ queue # <<>>
  /\ queue' = Tail(queue)
  /\ UNCHANGED <<policy, client, accepting, stage, attempt, plugin, healthy, probes, lost>>

Cool ==
  /\ circuit = "Open" /\ ~cooled
  /\ cooled' = TRUE
  /\ UNCHANGED <<circuit, failures, probing, client, accepting, queue, stage, attempt,
                 plugin, healthy, probes, lost>>

BackendTurns ==
  /\ healthy' = ~healthy
  /\ UNCHANGED <<policy, client, accepting, queue, stage, attempt, plugin, probes, lost>>

\* Http.reset(): the destructor waits for the threads ...
Unload ==
  /\ plugin = "loaded"
  /\ plugin' = "waiting" /\ shutting' = TRUE
  /\ UNCHANGED <<policy, held, threads, accepting, queue, stage, attempt, healthy,
                 probes, lost>>

\* Mutant: nobody waits for the threads.
UnloadedAtOnce ==
  /\ plugin = "waiting"
  /\ plugin' = "gone" /\ accepting' = FALSE /\ queue' = <<>>
  /\ UNCHANGED <<policy, client, stage, attempt, healthy, probes, lost>>

\* ... the dispatcher is shut down, and the journal is let go.
Unloaded ==
  /\ plugin = "waiting" /\ threads = 0
  /\ plugin' = "gone" /\ accepting' = FALSE /\ queue' = <<>>
  /\ UNCHANGED <<policy, client, stage, attempt, healthy, probes, lost>>

\* A new client with a new policy.
Load ==
  /\ plugin = "gone"
  /\ plugin' = "loaded" /\ accepting' = TRUE
  /\ circuit' = "Closed" /\ failures' = 0 /\ cooled' = FALSE /\ probing' = FALSE
  /\ held' = 0 /\ threads' = 0 /\ shutting' = FALSE
  /\ probes' = {} /\ lost' = FALSE
  /\ UNCHANGED <<queue, stage, attempt, healthy>>

Work(r) == \/ Succeed(r) \/ Decline(r) \/ Fail(r) \/ Pause(r) \/ Resume(r)
           \/ Look(r) \/ Answer(r) \/ FreeSlot(r) \/ Leave(r)

Next == \/ \E r \in Requests : Refuse(r) \/ Submit(r) \/ CannotStart(r) \/ Work(r)
        \/ Drain \/ Cool \/ BackendTurns \/ Unload \/ Unloaded \/ Load

Spec == Init /\ [][Next]_vars

\* Threads run and their network calls time out, the game ticks, time passes;
\* the timers keep asking, and a thread can be started again and again.
FairSpec ==
  /\ Spec
  /\ \A r \in Requests : WF_vars(Work(r))
  /\ WF_vars(Drain) /\ WF_vars(Cool) /\ WF_vars(Unloaded) /\ WF_vars(Load)
  /\ SF_vars(\E r \in Requests : Submit(r))

-----------------------------------------------------------------------------
(* Properties. *)

TypeOK ==
  /\ circuit \in {"Closed", "Open", "HalfOpen"} /\ failures \in 0 .. FailureThreshold
  /\ cooled \in BOOLEAN /\ probing \in BOOLEAN /\ lost \in BOOLEAN
  /\ held \in Nat /\ threads \in Nat
  /\ shutting \in BOOLEAN /\ accepting \in BOOLEAN /\ healthy \in BOOLEAN
  /\ queue \in Seq(Requests)
  /\ stage \in [Requests -> Stages]
  /\ attempt \in [Requests -> 0 .. MaxReadRetries]
  /\ plugin \in {"loaded", "waiting", "gone"}
  /\ probes \subseteq Requests

\* No slot leaks and none is given back twice, whichever way a request ends:
\* the policy counts the threads that hold a slot, the client those it has to
\* wait for, and the slots never run out of bounds.
SlotsMatch ==
  /\ held = Cardinality(At(Slotted)) /\ held <= MaxConcurrent
  /\ threads = Cardinality(At(Stages \ {"none"}))

\* While the half-open circuit keeps requests out for the sake of a probe, that
\* probe is still on its way, unless its thread never started.
ProbeIsComing ==
  probing /\ ~shutting =>
    /\ circuit = "HalfOpen"
    /\ lost \/ probes \cap At({"sending", "pausing"}) # {}

\* A request is answered at most once, and never after the client is gone: no
\* thread is left to answer, and nothing is left for the game thread to run.
AnsweredOnce ==
  /\ \A i, j \in DOMAIN queue : queue[i] = queue[j] => i = j
  /\ \A r \in Queued : stage[r] \in {"none", "ended", "freed"}
  /\ plugin = "gone" => threads = 0 /\ queue = <<>>

\* Every request under way is answered unless the plugin is unloaded, and
\* unloading always ends: the wait for the threads cannot last for ever.
EverythingEnds ==
  /\ \A r \in Requests : stage[r] = "sending" ~> r \in Queued \/ shutting
  /\ plugin = "waiting" ~> plugin = "gone"

\* Once the backend is well for good the circuit is closed for good, unless the
\* thread of a probe could not be started.
Recovers == <>[]healthy => <>[](circuit = "Closed" \/ lost)

\* The circuit opens for 30 seconds: it never shuts a backend out that is well.
OpenForAWhile == <>[]healthy => <>[](circuit = "Closed")

\* A half-open circuit has one probe under way.
OneProbe == ~shutting => Cardinality(probes) <= 1
=============================================================================
