--------------------------- MODULE SourceAttempts ---------------------------
(***************************************************************************)
(* The attempts of orchestration/source_executor.py against one source and *)
(* the circuit breaker they share: admission, the retry loop of            *)
(* resilience/retry.py, and the outcome each attempt reports.              *)
(*                                                                         *)
(* An attempt is one run of fetch_one, derive_one or _attempt_batch_source.*)
(* It yields to the event loop while it waits for its dependencies         *)
(* ("deps"), for capacity ("capacity"), for the source or the payload copy *)
(* ("calling") and in a retry delay ("backoff"); between two such waits it *)
(* runs without interruption, so each action runs from one wait to the     *)
(* next.  Groups[a] holds the circuit identities of the attempt's keys:    *)
(* one for a single or derived attempt, any number for a batch.            *)
(***************************************************************************)
EXTENDS CircuitBreaker

CONSTANTS Attempts,     \* one element per attempt; each runs once
          Derived,      \* the attempts made by derive_one
          Batches,      \* the attempts made by _attempt_batch_source
          Groups,       \* circuit identities an attempt needs
          Deadline,     \* context.deadline_monotonic, or NoDeadline
          Transport,    \* transport timeout a protected source declares, less the grace that
                        \* deadline_dispatch_grace_seconds allows; 0 if none
          MaxAttempts,  \* RetryPolicy.max_attempts
          BaseDelay,    \* RetryPolicy.base_delay_seconds
          MaxDelay,     \* RetryPolicy.max_delay_seconds
          JitterPct,    \* RetryPolicy.jitter_ratio, in percent
          Resets,       \* the sets of identities an operator may reset
          MaxTime       \* bound of the model: the clock stops here

NoDeadline == -1

ASSUME AttemptAssumption ==
    /\ Derived \subseteq Attempts /\ Batches \subseteq Attempts \ Derived
    /\ Groups \in [Attempts -> SUBSET Identities]
    /\ Deadline \in [Attempts -> Nat \cup {NoDeadline}]
    /\ Transport \in [Attempts -> Nat]
    /\ MaxAttempts \in Nat \ {0}
    /\ BaseDelay \in Nat /\ MaxDelay \in Nat /\ JitterPct \in 0..100
    /\ Resets \subseteq SUBSET Identities
    /\ MaxTime \in Nat

VARIABLES stage,    \* where the attempt is waiting
          tries,    \* `attempt' of run_with_retry
          wake,     \* when the retry delay is over
          active,   \* active_groups: the identities before_call admitted
          probing,  \* history: those it admitted as half-open probes
          prober    \* history: {the attempt that last set the circuit's probe flag}

attemptVars == <<circuits, now, stage, tries, wake, active, probing, prober>>

Waiting  == {"deps", "capacity", "calling", "backoff"}
InFlight == {"capacity", "calling", "backoff"}

\* "dropped": the attempt is over and has reported nothing on the circuits that admitted it.
Stages   == Waiting \cup {"idle", "done", "dropped"}

AttemptTypeOK ==
    /\ circuits \in [Identities -> Circuit]
    /\ now \in Nat
    /\ stage \in [Attempts -> Stages]
    /\ tries \in [Attempts -> Nat]
    /\ wake \in [Attempts -> Int]
    /\ active \in [Attempts -> SUBSET Identities]
    /\ probing \in [Attempts -> SUBSET Identities]
    /\ prober \in [Identities -> SUBSET Attempts]

AttemptInit ==
    /\ circuits = [i \in Identities |-> NewCircuit]
    /\ now = 0
    /\ stage = [a \in Attempts |-> "idle"]
    /\ tries = [a \in Attempts |-> 0]
    /\ wake = [a \in Attempts |-> 0]
    /\ active = [a \in Attempts |-> {}]
    /\ probing = [a \in Attempts |-> {}]
    /\ prober = [i \in Identities |-> {}]

-----------------------------------------------------------------------------
\* RetryPolicy.delay_for_attempt: exponential, capped, spread by the jitter.
Delays(n) ==
    LET raw    == BaseDelay * 2^(n - 1)
        base   == IF raw < MaxDelay THEN raw ELSE MaxDelay
        jitter == (base * JitterPct) \div 100
    IN  (base - jitter)..(base + jitter)

\* Plausible slips in the actions below.
Bug_CancelForgetsCircuit(a) ==
    /\ stage[a] \in Waiting
    /\ stage' = [stage EXCEPT ![a] = "done"]
    /\ UNCHANGED <<circuits, now, tries, wake, active, probing, prober>>

\* run_with_retry sleeps only when the delay ends before the deadline.
DelayFits(a, d) == Deadline[a] = NoDeadline \/ now + d < Deadline[a]

\* The attempt ends and nothing else of it changes.
Finish(a) ==
    /\ stage' = [stage EXCEPT ![a] = "done"]
    /\ UNCHANGED <<now, tries, wake, active, probing, prober>>

\* The identities an attempt reports on when it fails: a derived attempt reports on its
\* key even when it stops before before_call.
Reported(a) == IF stage[a] = "deps" THEN Groups[a] ELSE active[a]

\* derive_one resolves its dependencies first.
AwaitDependencies(a) ==
    /\ a \in Derived
    /\ stage[a] = "idle"
    /\ stage' = [stage EXCEPT ![a] = "deps"]
    /\ UNCHANGED <<circuits, now, tries, wake, active, probing, prober>>

\* before_call for every group; the groups whose circuit refuses are left out, and an
\* attempt left with none is over.
Admit(a) ==
    /\ stage[a] = IF a \in Derived THEN "deps" ELSE "idle"
    /\ LET admitted == {i \in Groups[a] : i \in Enabled => ~Refused(circuits[i])}
           probes   == {i \in admitted \cap Enabled : AdmitsProbe(circuits[i])}
       IN  /\ active' = [active EXCEPT ![a] = admitted]
           /\ probing' = [probing EXCEPT ![a] = probes]
           /\ prober' = [i \in Identities |-> IF i \in probes THEN {a} ELSE prober[i]]
           /\ stage' = [stage EXCEPT ![a] = IF admitted = {} THEN "done" ELSE "capacity"]
    /\ Apply(BeforeCall, Groups[a])
    /\ tries' = [tries EXCEPT ![a] = 1]
    /\ UNCHANGED <<now, wake>>

\* A dependency failed, or the dependencies form a cycle: no circuit outcome.
DependenciesFail(a) ==
    /\ stage[a] = "deps"
    /\ Finish(a)
    /\ UNCHANGED circuits

\* acquire_capacity returned a lease and the transport timeout fits the remaining budget.
GrantCapacity(a) ==
    /\ stage[a] = "capacity"
    /\ Deadline[a] = NoDeadline \/ now + Transport[a] < Deadline[a]
    /\ stage' = [stage EXCEPT ![a] = "calling"]
    /\ UNCHANGED <<circuits, now, tries, wake, active, probing, prober>>

\* SourceQueueTimeoutError while waiting for capacity, or raised by the source call itself
\* (a source that reads another builder): no outcome of the source is counted.
QueueTimeout(a) ==
    /\ stage[a] \in {"capacity", "calling"}
    /\ Apply(RecordSkipped, active[a])
    /\ Finish(a)

\* SnapshotDeadlineExceededError: the deadline passed during a wait, or the budget left
\* for the call is not longer than the declared transport timeout.
DeadlineExceeded(a) ==
    /\ stage[a] \in {"deps", "capacity", "calling"}
    /\ Deadline[a] # NoDeadline
    /\ now + (IF stage[a] = "capacity" THEN Transport[a] ELSE 0) >= Deadline[a]
    /\ Apply(RecordSkipped, Reported(a))
    /\ Finish(a)

\* The source answered: the groups in `fresh' hold at least one fresh value, the others
\* only stale, future-dated or omitted ones.
Return(a) ==
    /\ stage[a] = "calling"
    /\ \E fresh \in SUBSET active[a] :
          circuits' = [i \in Identities |->
              CASE i \in fresh \cap Enabled              -> RecordSuccess(circuits[i])
                [] i \in (active[a] \ fresh) \cap Enabled -> RecordFailure(circuits[i])
                [] OTHER                                 -> circuits[i]]
    /\ Finish(a)

\* A retryable error with attempts and time left: wait, then try again.
RetryLater(a) ==
    /\ stage[a] = "calling"
    /\ tries[a] < MaxAttempts
    /\ \E d \in Delays(tries[a]) :
          /\ DelayFits(a, d)
          /\ wake' = [wake EXCEPT ![a] = now + d]
    /\ stage' = [stage EXCEPT ![a] = "backoff"]
    /\ UNCHANGED <<circuits, now, tries, active, probing, prober>>

\* The delay is over.  At the horizon MaxTime, where the model's clock stops, every delay is.
Retry(a) ==
    /\ stage[a] = "backoff"
    /\ now >= wake[a] \/ now = MaxTime
    /\ stage' = [stage EXCEPT ![a] = "capacity"]
    /\ tries' = [tries EXCEPT ![a] = @ + 1]
    /\ UNCHANGED <<circuits, now, wake, active, probing, prober>>

\* Any other error, or a retryable one that cannot be retried: one failure per group.
\* A derived attempt can also fail this way before it is admitted (a bad dependency list).
Fail(a) ==
    /\ stage[a] \in {"deps", "calling"}
    /\ Apply(RecordFailure, Reported(a))
    /\ Finish(a)

\* The source call itself raises a CircuitOpenError, as a source that reads another builder
\* may, or in derive_one a DependencyCycleError or DependencyResolutionError.  fetch_one and
\* derive_one take it for their own refusal, before before_call, and report nothing on the
\* circuit that has admitted them.  A batch records a failure: Fail.
RaisesRefusal(a) ==
    /\ stage[a] = "calling"
    /\ a \notin Batches
    /\ stage' = [stage EXCEPT ![a] = "dropped"]
    /\ UNCHANGED <<circuits, now, tries, wake, active, probing, prober>>

\* The task is cancelled: record_abandoned, then the cancellation propagates.
Cancel(a) ==
    /\ stage[a] \in Waiting
    /\ Apply(RecordAbandoned, Reported(a))
    /\ Finish(a)

\* CircuitBreaker.reset, for one identity or for all.
ResetCircuits ==
    /\ \E S \in Resets : Reset(S)
    /\ UNCHANGED <<now, stage, tries, wake, active, probing, prober>>

Tick ==
    /\ now < MaxTime
    /\ now' = now + 1
    /\ UNCHANGED <<circuits, stage, tries, wake, active, probing, prober>>

AttemptStep(a) ==
    \/ AwaitDependencies(a) \/ Admit(a) \/ DependenciesFail(a)
    \/ GrantCapacity(a) \/ QueueTimeout(a) \/ DeadlineExceeded(a)
    \/ Return(a) \/ RetryLater(a) \/ Retry(a) \/ Fail(a)
    \/ RaisesRefusal(a) \/ Cancel(a)

AttemptNext == (\E a \in Attempts : AttemptStep(a)) \/ ResetCircuits \/ Tick

\* The step that ends a wait.  Capacity is granted or the queue timeout fires, the source
\* returns or fails within its timeout, a timer fires: none of these waits is unbounded.
Progress(a) ==
    \/ Admit(a) \/ DependenciesFail(a) \/ GrantCapacity(a) \/ QueueTimeout(a)
    \/ DeadlineExceeded(a) \/ Return(a) \/ Retry(a) \/ Fail(a) \/ RaisesRefusal(a)

AttemptSpec == AttemptInit /\ [][AttemptNext]_attemptVars

AttemptFairSpec ==
    AttemptSpec /\ WF_attemptVars(Tick) /\ \A a \in Attempts : WF_attemptVars(Progress(a))

-----------------------------------------------------------------------------
\* The attempt that set a circuit's probe flag ended without reporting on it.
Dropped(i) == \E a \in prober[i] : stage[a] = "dropped"

\* A half-open circuit is locked by nothing but a dropped outcome: while its probe flag is
\* set, the attempt that set it is still in flight and will report on it, whatever was
\* cancelled, skipped, reset or timed out in between, or its source call raised what
\* fetch_one and derive_one take for a refusal (RaisesRefusal).
ProbeHasOwner ==
    \A i \in Identities :
        circuits[i].probe =>
            /\ circuits[i].state = "half_open"
            /\ Dropped(i) \/ \E a \in prober[i] : stage[a] \in InFlight

\* A circuit is out of the closed state exactly when the failures counted since the last
\* success or reset reach the threshold: late outcomes of old attempts, abandoned probes
\* and skipped ones never open it early nor leave it closed at the threshold.
OpenExactlyAtThreshold ==
    \A i \in Identities :
        circuits[i].state # "closed" <=> circuits[i].failures >= FailureThreshold

\* A retry delay always ends before the snapshot deadline (run_with_retry: a backoff sleep
\* is never started when it would consume the remaining deadline).
BackoffEndsBeforeDeadline ==
    \A a \in Attempts :
        stage[a] = "backoff" /\ Deadline[a] # NoDeadline => wake[a] < Deadline[a]

\* Every probe is eventually resolved: a set probe flag is cleared, unless its attempt
\* ended without a report.
ProbeResolved ==
    \A i \in Identities : circuits[i].probe ~> (~circuits[i].probe \/ Dropped(i))

\* What docs/architecture.md says of a probe without an outcome: the circuit does not stay
\* locked half-open.  The code does not keep this when the source call itself raises a
\* CircuitOpenError: see the README.
ProbeNeverDropped == \A i \in Identities : circuits[i].probe => ~Dropped(i)

\* What docs/architecture.md says of a half-open circuit: it allows one probe.  The code does
\* not keep this when a skipped attempt clears the flag: see the README.
OneProbe ==
    \A i \in Identities : circuits[i].state = "half_open" =>
        \A a, b \in Attempts :
            /\ stage[a] \in InFlight /\ i \in probing[a]
            /\ stage[b] \in InFlight /\ i \in probing[b]
            => a = b
=============================================================================
