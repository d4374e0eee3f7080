------------------------ MODULE SourceCalls_proofs ------------------------
(***************************************************************************)
(* The calls of sources: the circuits they report to and the capacity they *)
(* hold.                                                                   *)
(* Part 1, SourceAttempts, for every set of identities and attempts, every *)
(* policy and every deadline: the breaker is never left locked half-open,  *)
(* and it is open exactly when the threshold is reached.                   *)
(* Part 2, Capacity, for every set of calls, every set of limiters and     *)
(* every limit: slots are neither lost nor invented and no wake-up is      *)
(* lost, whatever times out or is cancelled in whatever state, and every   *)
(* limiter implements a pool of slots.  Both rest on one argument: seen    *)
(* from one limiter, a step of any call is one of a few moves (Move).      *)
(* Each keeps the limiter's accounts (MoveKeepsAccounts), and is a step of *)
(* the abstract pool (MoveIsStep).                                         *)
(***************************************************************************)
EXTENDS SourceAttempts, Capacity, FiniteSetTheorems, SequenceTheorems, TLAPS

-----------------------------------------------------------------------------
\* Part 1: SourceAttempts.

\* An attempt that set the circuit's flag has not reported since, and was admitted there.
Owns(a, i) == stage[a] \in InFlight \cup {"dropped"} /\ i \in active[a] \cap Enabled

\* A set probe flag is owned: the attempt that set it will report on that very circuit, or
\* has dropped its outcome.
ProbesReported ==
    \A i \in Identities : circuits[i].probe => \E a \in prober[i] : Owns(a, i)

\* The inductive invariant.  ProbesReported is what makes ProbeHasOwner inductive: the
\* attempt that leaves was the flag's owner only if its report clears the flag.
AttemptInv == /\ AttemptTypeOK /\ ProbesReported /\ ProbeHasOwner /\ OpenExactlyAtThreshold
              /\ BackoffEndsBeforeDeadline

-----------------------------------------------------------------------------
\* Every method returns a circuit.
LEMMA MethodTypes ==
    ASSUME NEW c \in Circuit, now \in Nat
    PROVE  /\ BeforeCall(c) \in Circuit
           /\ RecordSuccess(c) \in Circuit
           /\ RecordFailure(c) \in Circuit
           /\ RecordAbandoned(c) \in Circuit
           /\ RecordSkipped(c) \in Circuit
<1> USE DEF Circuit
<1>1. BeforeCall(c) \in Circuit
  <2>1. Recovered(c) \in Circuit
    BY DEF Recovered
  <2>2. ASSUME NEW r \in Circuit
        PROVE  [r EXCEPT !.probe = TRUE] \in Circuit
    OBVIOUS
  <2>3. BeforeCall(c) = Recovered(c) \/ BeforeCall(c) = [Recovered(c) EXCEPT !.probe = TRUE]
    BY DEF BeforeCall
  <2> HIDE DEF Circuit
  <2> QED BY <2>1, <2>2, <2>3
<1>2. RecordSuccess(c) \in Circuit
  BY DEF RecordSuccess, NewCircuit
<1>3. RecordFailure(c) \in Circuit
  <2>1. c.failures + 1 \in Nat /\ c.openedAt \in Nat
    OBVIOUS
  <2>2. [c EXCEPT !.failures = @ + 1, !.probe = FALSE] \in Circuit
    BY <2>1
  <2>3. [state |-> "open", failures |-> c.failures + 1, openedAt |-> now, probe |-> FALSE]
            \in Circuit
    BY <2>1
  <2> HIDE DEF Circuit
  <2> QED BY <2>2, <2>3 DEF RecordFailure
<1>4. RecordAbandoned(c) \in Circuit /\ RecordSkipped(c) \in Circuit
  BY DEF RecordAbandoned, RecordSkipped
<1> QED BY <1>1, <1>2, <1>3, <1>4

\* The relation between state and failure count that OpenExactlyAtThreshold asks for.
AtThreshold(c) == c.state # "closed" <=> c.failures >= FailureThreshold

\* Every method keeps the circuit open exactly at the threshold.
LEMMA MethodThreshold ==
    ASSUME NEW c \in Circuit, now \in Nat, AtThreshold(c)
    PROVE  /\ AtThreshold(BeforeCall(c))
           /\ AtThreshold(RecordSuccess(c))
           /\ AtThreshold(RecordFailure(c))
           /\ AtThreshold(RecordAbandoned(c))
           /\ AtThreshold(RecordSkipped(c))
<1> USE BreakerAssumption DEF Circuit, AtThreshold
<1>1. AtThreshold(BeforeCall(c))
  BY DEF BeforeCall, Recovered
<1>2. AtThreshold(RecordSuccess(c))
  BY DEF RecordSuccess, NewCircuit
<1>3. AtThreshold(RecordFailure(c))
  BY DEF RecordFailure
<1>4. AtThreshold(RecordAbandoned(c)) /\ AtThreshold(RecordSkipped(c))
  BY DEF RecordAbandoned, RecordSkipped
<1> QED BY <1>1, <1>2, <1>3, <1>4

\* Every report clears the probe flag, and before_call sets it only in a half-open circuit.
LEMMA MethodProbe ==
    ASSUME NEW c \in Circuit, c.probe => c.state = "half_open", now \in Nat
    PROVE  /\ ~RecordSuccess(c).probe /\ ~RecordFailure(c).probe
           /\ ~RecordAbandoned(c).probe /\ ~RecordSkipped(c).probe
           /\ BeforeCall(c).probe => /\ BeforeCall(c).state = "half_open"
                                     /\ c.probe \/ (AdmitsProbe(c) /\ ~Refused(c))
BY DEF Circuit, BeforeCall, Recovered, AdmitsProbe, Refused, RecordSuccess, NewCircuit,
       RecordFailure, RecordAbandoned, RecordSkipped

-----------------------------------------------------------------------------
\* An attempt that ends by reporting on every circuit it is active in keeps the invariant,
\* whichever method it calls on which circuit.
LEMMA FinishKeepsInvariant ==
    ASSUME AttemptInv, NEW a \in Attempts, stage[a] \in Waiting, Finish(a),
           circuits' \in [Identities -> Circuit],
           \A i \in Identities :
               /\ AtThreshold(circuits[i])'
               /\ circuits[i].probe' => circuits'[i] = circuits[i]
               /\ stage[a] # "deps" /\ i \in active[a] \cap Enabled => ~circuits'[i].probe
    PROVE  AttemptInv'
<1>1. AttemptTypeOK'
  BY DEF AttemptInv, AttemptTypeOK, Finish, Waiting, Stages
<1>2. ASSUME NEW i \in Identities, circuits'[i].probe
      PROVE  \E b \in prober'[i] : Owns(b, i)'
  <2>1. circuits'[i] = circuits[i]
    BY <1>2
  <2>2. PICK b \in prober[i] : Owns(b, i)
    BY <1>2, <2>1 DEF AttemptInv, ProbesReported
  <2>3. b \in Attempts /\ b # a
    BY <1>2, <2>2 DEF AttemptInv, AttemptTypeOK, Owns, InFlight, Waiting
  <2>4. stage'[b] = stage[b] /\ prober' = prober /\ active' = active
    BY <2>3 DEF AttemptInv, AttemptTypeOK, Finish
  <2> QED BY <2>2, <2>4 DEF Owns
<1>3. OpenExactlyAtThreshold'
  BY DEF OpenExactlyAtThreshold, AtThreshold
<1>4. BackoffEndsBeforeDeadline'
  BY DEF AttemptInv, AttemptTypeOK, BackoffEndsBeforeDeadline, Finish
<1>5. ProbesReported' /\ ProbeHasOwner'
  <2>1. \A i \in Identities : circuits'[i].probe => circuits'[i].state = "half_open"
    BY DEF AttemptInv, ProbeHasOwner
  <2> QED BY <1>2, <2>1 DEF ProbesReported, ProbeHasOwner, Dropped, Owns
<1> QED BY <1>1, <1>3, <1>4, <1>5 DEF AttemptInv

\* The same for an attempt that calls one method for all the circuits it reports on.
LEMMA ReportKeepsInvariant ==
    ASSUME AttemptInv, NEW a \in Attempts, stage[a] \in Waiting, Finish(a),
           NEW S \in SUBSET Identities, stage[a] # "deps" => S = active[a],
           \/ Apply(RecordSkipped, S)
           \/ Apply(RecordFailure, S)
           \/ Apply(RecordAbandoned, S)
    PROVE  AttemptInv'
<1>1. now \in Nat /\ now' = now /\ circuits \in [Identities -> Circuit]
  BY DEF AttemptInv, AttemptTypeOK, Finish
<1>2. ASSUME NEW i \in Identities
      PROVE  /\ circuits[i] \in Circuit /\ AtThreshold(circuits[i])
             /\ circuits[i].probe => circuits[i].state = "half_open"
  BY <1>1 DEF AttemptInv, ProbeHasOwner, OpenExactlyAtThreshold, AtThreshold
<1>3. ASSUME NEW i \in Identities
      PROVE  \/ i \notin S \cap Enabled /\ circuits'[i] = circuits[i]
             \/ /\ i \in S \cap Enabled
                /\ circuits'[i] \in {RecordSkipped(circuits[i]), RecordFailure(circuits[i]),
                                     RecordAbandoned(circuits[i])}
  BY DEF Apply
<1>4. circuits' \in [Identities -> Circuit]
  <2>1. \A i \in Identities : circuits'[i] \in Circuit
    BY <1>1, <1>2, <1>3, MethodTypes
  <2>2. circuits' = [i \in Identities |-> circuits'[i]]
    BY DEF Apply
  <2> QED BY <2>1, <2>2
<1>5. ASSUME NEW i \in Identities
      PROVE  /\ AtThreshold(circuits'[i])
             /\ circuits'[i].probe => circuits'[i] = circuits[i]
             /\ stage[a] # "deps" /\ i \in active[a] \cap Enabled => ~circuits'[i].probe
  BY <1>1, <1>2, <1>3, MethodThreshold, MethodProbe
<1> QED BY <1>4, <1>5, FinishKeepsInvariant DEF AtThreshold

-----------------------------------------------------------------------------
\* The initial state satisfies the inductive invariant.
LEMMA AttemptInitInvariant == AttemptInit => AttemptInv
BY BreakerAssumption
   DEF AttemptInit, AttemptInv, AttemptTypeOK, Circuit, NewCircuit, Waiting, Stages, InFlight,
       ProbesReported, ProbeHasOwner, OpenExactlyAtThreshold, BackoffEndsBeforeDeadline

\* before_call for the groups of an attempt: a flag it sets belongs to the attempt.
LEMMA AdmitKeepsInvariant ==
    ASSUME AttemptInv, NEW a \in Attempts, Admit(a)
    PROVE  AttemptInv'
<1> DEFINE admitted == {i \in Groups[a] : i \in Enabled => ~Refused(circuits[i])}
           probes   == {i \in admitted \cap Enabled : AdmitsProbe(circuits[i])}
<1>1. /\ now \in Nat /\ now' = now /\ wake' = wake
      /\ circuits \in [Identities -> Circuit]
      /\ Groups[a] \subseteq Identities
  BY AttemptAssumption DEF AttemptInv, AttemptTypeOK, Admit
<1>2. /\ active' = [active EXCEPT ![a] = admitted]
      /\ probing' = [probing EXCEPT ![a] = probes]
      /\ prober' = [i \in Identities |-> IF i \in probes THEN {a} ELSE prober[i]]
      /\ stage' = [stage EXCEPT ![a] = IF admitted = {} THEN "done" ELSE "capacity"]
      /\ tries' = [tries EXCEPT ![a] = 1]
      /\ circuits' = [i \in Identities |->
             IF i \in Groups[a] \cap Enabled THEN BeforeCall(circuits[i]) ELSE circuits[i]]
  BY DEF Admit, Apply
<1>3. ASSUME NEW i \in Identities
      PROVE  /\ circuits[i] \in Circuit /\ AtThreshold(circuits[i])
             /\ circuits[i].probe => circuits[i].state = "half_open"
  BY <1>1 DEF AttemptInv, ProbeHasOwner, OpenExactlyAtThreshold, AtThreshold
<1>4. AttemptTypeOK'
  <2>1. circuits' \in [Identities -> Circuit]
    BY <1>1, <1>2, <1>3, MethodTypes
  <2> QED BY <1>1, <1>2, <2>1 DEF AttemptInv, AttemptTypeOK, Waiting, Stages
<1>5. ASSUME NEW i \in Identities, circuits'[i].probe
      PROVE  circuits'[i].state = "half_open" /\ \E b \in prober'[i] : Owns(b, i)'
  <2>1. stage[a] \in {"idle", "deps"}
    BY DEF Admit
  <2>2. circuits'[i].state = "half_open"
    BY <1>1, <1>2, <1>3, <1>5, MethodProbe
  <2>3. CASE i \in probes
    <3>1. prober'[i] = {a} /\ i \in admitted /\ i \in Enabled
      BY <1>2, <2>3
    <3>2. stage'[a] = "capacity" /\ active'[a] = admitted
      BY <1>2, <3>1 DEF AttemptInv, AttemptTypeOK
    <3> QED BY <2>2, <3>1, <3>2 DEF Owns, InFlight
  <2>4. CASE i \notin probes
    <3>1. circuits[i].probe
      BY <1>1, <1>2, <1>3, <1>5, <2>4, MethodProbe
    <3>2. PICK b \in prober[i] : Owns(b, i)
      BY <3>1 DEF AttemptInv, ProbesReported
    <3>3. b \in Attempts /\ b # a
      BY <2>1, <3>2 DEF AttemptInv, AttemptTypeOK, Owns, InFlight
    <3>4. stage'[b] = stage[b] /\ active'[b] = active[b] /\ prober'[i] = prober[i]
      BY <1>2, <2>4, <3>3 DEF AttemptInv, AttemptTypeOK
    <3> QED BY <2>2, <3>2, <3>4 DEF Owns
  <2> QED BY <2>3, <2>4
<1>6. OpenExactlyAtThreshold'
  BY <1>1, <1>2, <1>3, MethodThreshold DEF OpenExactlyAtThreshold, AtThreshold
<1>7. BackoffEndsBeforeDeadline'
  BY <1>1, <1>2 DEF AttemptInv, AttemptTypeOK, BackoffEndsBeforeDeadline
<1>8. ProbesReported' /\ ProbeHasOwner'
  BY <1>5 DEF ProbesReported, ProbeHasOwner, Dropped, Owns
<1> QED BY <1>4, <1>6, <1>7, <1>8 DEF AttemptInv

\* The source's answer: a success or a failure for every active group.
LEMMA ReturnKeepsInvariant ==
    ASSUME AttemptInv, NEW a \in Attempts, Return(a)
    PROVE  AttemptInv'
<1>1. /\ stage[a] = "calling" /\ Finish(a) /\ now \in Nat /\ now' = now
      /\ circuits \in [Identities -> Circuit]
  BY DEF Return, Finish, AttemptInv, AttemptTypeOK
<1>2. PICK fresh \in SUBSET active[a] :
          circuits' = [i \in Identities |->
              CASE i \in fresh \cap Enabled              -> RecordSuccess(circuits[i])
                [] i \in (active[a] \ fresh) \cap Enabled -> RecordFailure(circuits[i])
                [] OTHER                                 -> circuits[i]]
  BY DEF Return
<1>3. ASSUME NEW i \in Identities
      PROVE  /\ circuits[i] \in Circuit /\ AtThreshold(circuits[i])
             /\ circuits[i].probe => circuits[i].state = "half_open"
  BY <1>1 DEF AttemptInv, ProbeHasOwner, OpenExactlyAtThreshold, AtThreshold
<1>4. ASSUME NEW i \in Identities
      PROVE  \/ /\ i \notin active[a] \cap Enabled
                /\ circuits'[i] = circuits[i]
             \/ circuits'[i] \in {RecordSuccess(circuits[i]), RecordFailure(circuits[i])}
  BY <1>2
<1>5. circuits' \in [Identities -> Circuit]
  <2>1. \A i \in Identities : circuits'[i] \in Circuit
    BY <1>1, <1>3, <1>4, MethodTypes
  <2>2. circuits' = [i \in Identities |-> circuits'[i]]
    BY <1>2
  <2> QED BY <2>1, <2>2
<1>6. ASSUME NEW i \in Identities
      PROVE  /\ AtThreshold(circuits'[i])
             /\ circuits'[i].probe => circuits'[i] = circuits[i]
             /\ i \in active[a] \cap Enabled => ~circuits'[i].probe
  BY <1>1, <1>3, <1>4, MethodThreshold, MethodProbe
<1>7. stage[a] \in Waiting
  BY <1>1 DEF Waiting
<1> QED BY <1>1, <1>5, <1>6, <1>7, FinishKeepsInvariant DEF AtThreshold

\* The operator's reset: a fresh circuit has no probe and no failure.
LEMMA ResetKeepsInvariant ==
    ASSUME AttemptInv, ResetCircuits
    PROVE  AttemptInv'
<1>1. PICK S \in Resets :
          circuits' = [i \in Identities |-> IF i \in S THEN NewCircuit ELSE circuits[i]]
  BY DEF ResetCircuits, Reset
<1>2. UNCHANGED <<now, stage, tries, wake, active, probing, prober>>
  BY DEF ResetCircuits
<1>3. NewCircuit \in Circuit /\ ~NewCircuit.probe /\ AtThreshold(NewCircuit)
  BY BreakerAssumption DEF NewCircuit, Circuit, AtThreshold
<1>4. AttemptTypeOK'
  BY <1>1, <1>2, <1>3 DEF AttemptInv, AttemptTypeOK
<1>5. BackoffEndsBeforeDeadline'
  BY <1>2 DEF AttemptInv, BackoffEndsBeforeDeadline
<1>6. OpenExactlyAtThreshold'
  BY <1>1, <1>3 DEF AttemptInv, OpenExactlyAtThreshold, AtThreshold
<1>7. ProbesReported' /\ ProbeHasOwner'
  BY <1>1, <1>2, <1>3 DEF AttemptInv, ProbesReported, ProbeHasOwner, Dropped, Owns
<1> QED BY <1>4, <1>5, <1>6, <1>7 DEF AttemptInv

\* Every step of the system keeps the inductive invariant.
LEMMA AttemptStepInvariant == AttemptInv /\ [AttemptNext]_attemptVars => AttemptInv'
<1> SUFFICES ASSUME AttemptInv, [AttemptNext]_attemptVars PROVE AttemptInv'
  OBVIOUS
<1>1. ASSUME NEW a \in Attempts, AttemptStep(a) PROVE AttemptInv'
  <2>1. CASE AwaitDependencies(a)
    BY <2>1 DEF AwaitDependencies, AttemptInv, AttemptTypeOK, ProbesReported, Owns, ProbeHasOwner, Dropped,
                OpenExactlyAtThreshold, BackoffEndsBeforeDeadline, InFlight, Waiting, Stages
  <2>2. CASE Admit(a)
    BY <2>2, AdmitKeepsInvariant
  <2>3. CASE DependenciesFail(a)
    <3>1. stage[a] \in Waiting /\ Finish(a) /\ stage[a] = "deps" /\ circuits' = circuits
      BY <2>3 DEF DependenciesFail, Waiting
    <3>2. \A i \in Identities : AtThreshold(circuits[i])'
      BY <3>1 DEF AttemptInv, OpenExactlyAtThreshold, AtThreshold
    <3>3. circuits' \in [Identities -> Circuit]
      BY <3>1 DEF AttemptInv, AttemptTypeOK
    <3> QED BY <3>1, <3>2, <3>3, FinishKeepsInvariant
  <2>4. CASE GrantCapacity(a)
    BY <2>4 DEF GrantCapacity, AttemptInv, AttemptTypeOK, ProbesReported, Owns, ProbeHasOwner, Dropped,
                OpenExactlyAtThreshold, BackoffEndsBeforeDeadline, InFlight, Waiting, Stages
  <2>5. CASE QueueTimeout(a)
    <3>1. stage[a] \in Waiting /\ Finish(a) /\ active[a] \in SUBSET Identities
      BY <2>5 DEF QueueTimeout, Waiting, AttemptInv, AttemptTypeOK
    <3> QED BY <2>5, <3>1, ReportKeepsInvariant DEF QueueTimeout
  <2>6. CASE DeadlineExceeded(a) \/ Fail(a) \/ Cancel(a)
    <3>1. stage[a] \in Waiting /\ Finish(a)
      BY <2>6 DEF DeadlineExceeded, Fail, Cancel, Waiting
    <3>2. Reported(a) \in SUBSET Identities /\ (stage[a] # "deps" => Reported(a) = active[a])
      BY AttemptAssumption DEF Reported, AttemptInv, AttemptTypeOK
    <3> QED BY <2>6, <3>1, <3>2, ReportKeepsInvariant DEF DeadlineExceeded, Fail, Cancel
  <2>7. CASE Return(a)
    BY <2>7, ReturnKeepsInvariant
  <2>8. CASE RetryLater(a)
    <3>1. PICK d \in Delays(tries[a]) : /\ DelayFits(a, d)
                                        /\ wake' = [wake EXCEPT ![a] = now + d]
      BY <2>8 DEF RetryLater
    <3>2. d \in Int
      BY <3>1 DEF Delays
    <3> QED BY <2>8, <3>1, <3>2
            DEF RetryLater, DelayFits, AttemptInv, AttemptTypeOK, ProbesReported, Owns, ProbeHasOwner, Dropped,
                OpenExactlyAtThreshold, BackoffEndsBeforeDeadline, InFlight, Waiting, Stages
  <2>9. CASE Retry(a)
    BY <2>9 DEF Retry, AttemptInv, AttemptTypeOK, ProbesReported, Owns, ProbeHasOwner, Dropped,
                OpenExactlyAtThreshold, BackoffEndsBeforeDeadline, InFlight, Waiting, Stages
  <2>10. CASE RaisesRefusal(a)
    BY <2>10 DEF RaisesRefusal, AttemptInv, AttemptTypeOK, ProbesReported, Owns, ProbeHasOwner, Dropped,
                 OpenExactlyAtThreshold, BackoffEndsBeforeDeadline, InFlight, Waiting, Stages
  <2> QED BY <1>1, <2>1, <2>2, <2>3, <2>4, <2>5, <2>6, <2>7, <2>8, <2>9, <2>10 DEF AttemptStep
<1>2. CASE ResetCircuits
  BY <1>2, ResetKeepsInvariant
<1>3. CASE Tick
  BY <1>3 DEF Tick, AttemptInv, AttemptTypeOK, ProbesReported, Owns, ProbeHasOwner, Dropped, OpenExactlyAtThreshold,
              BackoffEndsBeforeDeadline
<1>4. CASE UNCHANGED attemptVars
  BY <1>4 DEF attemptVars, AttemptInv, AttemptTypeOK, ProbesReported, Owns, ProbeHasOwner, Dropped, OpenExactlyAtThreshold,
              BackoffEndsBeforeDeadline
<1> QED BY <1>1, <1>2, <1>3, <1>4 DEF AttemptNext

-----------------------------------------------------------------------------
\* The inductive invariant holds in every reachable state.
THEOREM AttemptInvariance == AttemptSpec => []AttemptInv
BY AttemptInitInvariant, AttemptStepInvariant, PTL DEF AttemptSpec

\* The state of the breaker and of its attempts is well typed.
THEOREM TypeCorrect == AttemptSpec => []AttemptTypeOK
<1>1. AttemptInv => AttemptTypeOK
  BY DEF AttemptInv
<1> QED BY <1>1, AttemptInvariance, PTL

\* before_call and the record_* methods never leave a half-open circuit locked: the attempt
\* that set its probe flag is in flight and will clear it.  The one way out is named: a
\* source call that raises what fetch_one or derive_one take for a refusal.
THEOREM ProbeNeverLocked == AttemptSpec => []ProbeHasOwner
<1>1. AttemptInv => ProbeHasOwner
  BY DEF AttemptInv
<1> QED BY <1>1, AttemptInvariance, PTL

\* record_failure opens a circuit exactly at failure_threshold, whatever late outcomes of
\* earlier attempts arrive.
THEOREM ThresholdExact == AttemptSpec => []OpenExactlyAtThreshold
<1>1. AttemptInv => OpenExactlyAtThreshold
  BY DEF AttemptInv
<1> QED BY <1>1, AttemptInvariance, PTL

\* run_with_retry never starts a sleep that would consume the remaining deadline.
THEOREM BackoffBounded == AttemptSpec => []BackoffEndsBeforeDeadline
<1>1. AttemptInv => BackoffEndsBeforeDeadline
  BY DEF AttemptInv
<1> QED BY <1>1, AttemptInvariance, PTL

-----------------------------------------------------------------------------
\* Part 2: Capacity.

\* A call in these phases counts as waiting.
InLine == {"queued", "granted", "withdrawn", "refunding"}
Waiters(l) == {c \in Calls : phase[c] \in InLine /\ at[c] = l}

\* TypeOK, but for the signs of the gauges, which follow from the accounts.
Typed ==
    /\ phase \in [Calls -> Phases] /\ at \in [Calls -> Limiters]
    /\ held \in [Calls -> SUBSET Limiters]
    /\ value \in [Limiters -> Nat] /\ queue \in [Limiters -> Seq(Calls)]
    /\ inUse \in [Limiters -> Int] /\ waiting \in [Limiters -> Int]

\* A semaphore's queue holds the calls that are queued at it, each of them once.
QueueExact ==
    /\ \A l \in Limiters : \A i \in DOMAIN queue[l] :
          /\ phase[queue[l][i]] = "queued" /\ at[queue[l][i]] = l
          /\ \A j \in DOMAIN queue[l] : queue[l][i] = queue[l][j] => i = j
    /\ \A c \in Calls : phase[c] = "queued" =>
          \E i \in DOMAIN queue[at[c]] : queue[at[c]][i] = c

\* What a call holds, by its phase: acquire takes the source's slot before the global one.
HeldInOrder ==
    \A c \in Calls :
        /\ phase[c] \in {"idle", "created", "done"} => held[c] = {}
        /\ phase[c] \in InLine =>
              \/ held[c] = {} /\ at[c] = SourceOf[c]
              \/ held[c] = {SourceOf[c]} /\ at[c] = Global /\ SourceOf[c] # Global
        /\ phase[c] \in {"leased", "calling", "lost"} => held[c] = {SourceOf[c], Global}

\* The accounts of one limiter.
Accounts(l) ==
    /\ value[l] + Cardinality(Granted(l)) + inUse[l] = Limit[l]
    /\ inUse[l] = Cardinality(Holders(l))
    /\ waiting[l] = Cardinality(Waiters(l))
    /\ queue[l] # <<>> => value[l] = 0 \/ Granted(l) # {}

\* The inductive invariant.
IInv == Typed /\ QueueExact /\ HeldInOrder /\ \A l \in Limiters : Accounts(l)

-----------------------------------------------------------------------------
\* What a step may do to one limiter: its gauges, the calls it counts, its queue.
Gauges(l, v, u, w) ==
    value'[l] = value[l] + v /\ inUse'[l] = inUse[l] + u /\ waiting'[l] = waiting[l] + w
Members(l, G, H, W) == Granted(l)' = G /\ Holders(l)' = H /\ Waiters(l)' = W

\* Nothing changes.
Stay(l) ==
    Gauges(l, 0, 0, 0) /\ Members(l, Granted(l), Holders(l), Waiters(l)) /\ queue'[l] = queue[l]

\* c takes a free slot.
Take(l, c) ==
    /\ ~Busy(l) /\ c \notin Granted(l) \cup Holders(l) /\ c \notin Pool!Waiting(l)
    /\ Gauges(l, -1, 1, 0) /\ queue'[l] = queue[l]
    /\ Members(l, Granted(l), Holders(l) \cup {c}, Waiters(l))

\* c joins the queue.
Line(l, c) ==
    /\ Busy(l) /\ c \notin Granted(l) \cup Holders(l) /\ c \notin Waiters(l)
    /\ c \notin Pool!Waiting(l)
    /\ Gauges(l, 0, 0, 1) /\ queue'[l] = Append(queue[l], c)
    /\ Members(l, Granted(l), Holders(l), Waiters(l) \cup {c})

\* c resumes with the slot it was granted, ...
Land(l, c) ==
    /\ c \in Granted(l) /\ c \in Waiters(l) /\ c \notin Holders(l)
    /\ value[l] = 0 \/ queue[l] = <<>>
    /\ Gauges(l, 0, 1, -1) /\ queue'[l] = queue[l]
    /\ Members(l, Granted(l) \ {c}, Holders(l) \cup {c}, Waiters(l) \ {c})

\* ... and calls the first waiter if it finds a free slot.
LandAndCall(l, c) ==
    /\ c \in Granted(l) /\ c \in Waiters(l) /\ c \notin Holders(l)
    /\ value[l] # 0 /\ queue[l] # <<>> /\ queue'[l] = Tail(queue[l])
    /\ Head(queue[l]) \notin Granted(l) \cup Holders(l)
    /\ Gauges(l, -1, 1, -1)
    /\ Members(l, (Granted(l) \ {c}) \cup {Head(queue[l])}, Holders(l) \cup {c}, Waiters(l) \ {c})

\* c, cancelled, leaves the queue, ...
Quit(l, c) ==
    /\ \E i \in DOMAIN queue[l] : queue'[l] = RemoveAt(queue[l], i)
    /\ Gauges(l, 0, 0, 0) /\ Members(l, Granted(l), Holders(l), Waiters(l))

\* ... and is counted out.
CountOut(l, c) ==
    /\ c \in Waiters(l) /\ Gauges(l, 0, 0, -1) /\ queue'[l] = queue[l]
    /\ Members(l, Granted(l), Holders(l), Waiters(l) \ {c})

\* A slot goes to the first waiter or becomes free.
PassOn(l, G, H, W, u, w) ==
    \/ queue[l] = <<>> /\ queue'[l] = <<>> /\ Gauges(l, 1, u, w) /\ Members(l, G, H, W)
    \/ /\ queue[l] # <<>> /\ queue'[l] = Tail(queue[l])
       /\ Head(queue[l]) \notin Granted(l) \cup Holders(l)
       /\ Gauges(l, 0, u, w) /\ Members(l, G \cup {Head(queue[l])}, H, W)

\* c gives back a slot it holds, or one it was granted.
FreeHeld(l, c) ==
    /\ c \in Holders(l) /\ c \notin Granted(l)
    /\ PassOn(l, Granted(l), Holders(l) \ {c}, Waiters(l), -1, 0)
FreeGrant(l, c) ==
    /\ c \in Granted(l) /\ c \in Waiters(l) /\ c \notin Holders(l)
    /\ PassOn(l, Granted(l) \ {c}, Holders(l), Waiters(l) \ {c}, 0, -1)

Move(l, c) ==
    \/ Stay(l) \/ Take(l, c) \/ Line(l, c) \/ Land(l, c) \/ LandAndCall(l, c)
    \/ Quit(l, c) \/ CountOut(l, c) \/ FreeHeld(l, c) \/ FreeGrant(l, c)

-----------------------------------------------------------------------------
\* The calls that a limiter counts are finitely many.
LEMMA CallsCounted ==
    ASSUME NEW S \in SUBSET Calls
    PROVE  IsFiniteSet(S) /\ Cardinality(S) \in Nat
<1>1. IsFiniteSet(S)
  BY CapacityAssumption, FS_Subset
<1> QED BY <1>1, FS_CardinalityType

\* Adding or removing one element changes the number of elements by one.
LEMMA OneMore ==
    ASSUME NEW S \in SUBSET Calls, NEW c \in Calls
    PROVE  /\ c \notin S => Cardinality(S \cup {c}) = Cardinality(S) + 1
           /\ c \in S => Cardinality(S \ {c}) = Cardinality(S) - 1
<1>1. IsFiniteSet(S)
  BY CallsCounted
<1> QED BY <1>1, FS_AddElement, FS_RemoveElement

\* What is left when the element at position i is taken out of a sequence.
LEMMA RemoveAtKeeps ==
    ASSUME NEW S, NEW q \in Seq(S), NEW i \in DOMAIN q
    PROVE  /\ RemoveAt(q, i) \in Seq(S) /\ Len(RemoveAt(q, i)) = Len(q) - 1
           /\ \A j \in 1..(Len(q) - 1) : RemoveAt(q, i)[j] = q[IF j < i THEN j ELSE j + 1]
<1> DEFINE a == SubSeq(q, 1, i - 1)
           b == SubSeq(q, i + 1, Len(q))
<1>1. i \in 1..Len(q) /\ Len(q) \in Nat /\ DOMAIN q = 1..Len(q)
  BY LenProperties
<1>2. \A j \in 1..Len(q) : q[j] \in S
  BY ElementOfSeq
<1>3. /\ a \in Seq(S) /\ Len(a) = i - 1
      /\ \A j \in 1..(i - 1) : a[j] = q[j]
  <2>1. /\ a \in Seq(S) /\ Len(a) = IF 1 <= i - 1 THEN (i - 1) - 1 + 1 ELSE 0
        /\ \A j \in 1..((i - 1) - 1 + 1) : a[j] = q[1 + j - 1]
    BY <1>1, <1>2, SubSeqProperties, SMT
  <2> QED BY <1>1, <2>1
<1>4. /\ b \in Seq(S) /\ Len(b) = Len(q) - i
      /\ \A j \in 1..(Len(q) - i) : b[j] = q[i + j]
  <2>1. /\ b \in Seq(S) /\ Len(b) = IF i + 1 <= Len(q) THEN Len(q) - (i + 1) + 1 ELSE 0
        /\ \A j \in 1..(Len(q) - (i + 1) + 1) : b[j] = q[(i + 1) + j - 1]
    BY <1>1, <1>2, SubSeqProperties, SMT
  <2> QED BY <1>1, <2>1
<1>5. RemoveAt(q, i) = a \o b
  BY DEF RemoveAt
<1> HIDE DEF a, b
<1>6. /\ a \o b \in Seq(S) /\ Len(a \o b) = Len(a) + Len(b)
      /\ \A j \in 1..(Len(a) + Len(b)) :
            (a \o b)[j] = IF j <= Len(a) THEN a[j] ELSE b[j - Len(a)]
  BY <1>3, <1>4, ConcatProperties
<1>7. Len(a \o b) = Len(q) - 1
  BY <1>1, <1>3, <1>4, <1>6
<1>8. ASSUME NEW j \in 1..(Len(q) - 1)
      PROVE  (a \o b)[j] = q[IF j < i THEN j ELSE j + 1]
  <2>1. CASE j < i
    BY <1>1, <1>3, <1>4, <1>6, <2>1
  <2>2. CASE ~(j < i)
    <3>1. j - (i - 1) \in 1..(Len(q) - i) /\ i + (j - (i - 1)) = j + 1 /\ ~(j <= i - 1)
      BY <1>1, <2>2
    <3>2. Len(a) = i - 1 /\ Len(b) = Len(q) - i
      BY <1>3, <1>4
    <3>3. j \in 1..(Len(a) + Len(b)) /\ ~(j <= Len(a))
      BY <1>1, <3>1, <3>2
    <3>4. (a \o b)[j] = b[j - Len(a)]
      BY <1>6, <3>3
    <3> QED BY <1>4, <2>2, <3>1, <3>2, <3>4
  <2> QED BY <2>1, <2>2
<1> QED BY <1>5, <1>6, <1>7, <1>8

\* The calls a limiter counts are calls, and none of them both holds a slot and is granted it.
LEMMA MembersAreCalls ==
    ASSUME NEW l
    PROVE  Granted(l) \in SUBSET Calls /\ Holders(l) \in SUBSET Calls /\ Waiters(l) \in SUBSET Calls
BY DEF Granted, Holders, Waiters

\* Every move keeps the accounts of the limiter.
LEMMA MoveKeepsAccounts ==
    ASSUME Typed, NEW l \in Limiters, NEW c \in Calls, Accounts(l), Move(l, c)
    PROVE  Accounts(l)'
<1> DEFINE G == Granted(l)  H == Holders(l)  W == Waiters(l)  q == queue[l]
<1>1. /\ Limit[l] \in Nat /\ value[l] \in Nat /\ inUse[l] \in Int /\ waiting[l] \in Int
      /\ q \in Seq(Calls)
  BY CapacityAssumption DEF Typed
<1>2. G \in SUBSET Calls /\ H \in SUBSET Calls /\ W \in SUBSET Calls
  BY MembersAreCalls
<1>3. Cardinality(G) \in Nat /\ Cardinality(H) \in Nat /\ Cardinality(W) \in Nat
  BY <1>2, CallsCounted
<1>4. /\ value[l] + Cardinality(G) + inUse[l] = Limit[l]
      /\ inUse[l] = Cardinality(H) /\ waiting[l] = Cardinality(W)
      /\ q # <<>> => value[l] = 0 \/ G # {}
  BY DEF Accounts
<1>k. /\ value[l] + Cardinality(G) + inUse[l] = Limit[l]
      /\ Limit[l] \in Nat /\ value[l] \in Nat /\ inUse[l] \in Int /\ Cardinality(G) \in Nat
  BY <1>1, <1>3, <1>4
<1>5. \A S \in SUBSET Calls, d \in Calls :
          /\ d \notin S => Cardinality(S \cup {d}) = Cardinality(S) + 1
          /\ d \in S => Cardinality(S \ {d}) = Cardinality(S) - 1
  BY OneMore
<1> SUFFICES /\ value'[l] + Cardinality(Granted(l)') + inUse'[l] = Limit[l]
             /\ inUse'[l] = Cardinality(Holders(l)')
             /\ waiting'[l] = Cardinality(Waiters(l)')
             /\ queue'[l] # <<>> => value'[l] = 0 \/ Granted(l)' # {}
  BY DEF Accounts
<1> HIDE DEF G, H, W, q
<1>a. CASE Stay(l)
  BY <1>1, <1>3, <1>4, <1>a DEF Stay, Gauges, Members, G, H, W, q
<1>b. CASE Take(l, c)
  <2>1. q = <<>> /\ value[l] # 0 /\ c \notin H
    BY <1>b DEF Take, Busy, H, q
  <2>2. Cardinality(H \cup {c}) = Cardinality(H) + 1
    BY <1>2, <1>5, <2>1
  <2> QED BY <1>1, <1>3, <1>4, <1>b, <2>1, <2>2 DEF Take, Gauges, Members, G, H, W, q
<1>c. CASE Line(l, c)
  <2>1. (value[l] = 0 \/ q # <<>> \/ G # {}) /\ c \notin W
    BY <1>c DEF Line, Busy, W, q, G
  <2>2. Cardinality(W \cup {c}) = Cardinality(W) + 1
    BY <1>2, <1>5, <2>1
  <2> QED BY <1>1, <1>3, <1>4, <1>c, <2>1, <2>2 DEF Line, Gauges, Members, G, H, W
<1>d. CASE Land(l, c)
  <2>1. /\ Cardinality(H \cup {c}) = Cardinality(H) + 1
        /\ Cardinality(G \ {c}) = Cardinality(G) - 1
        /\ Cardinality(W \ {c}) = Cardinality(W) - 1
    BY <1>2, <1>5, <1>d DEF Land, G, H, W
  <2>2. /\ value'[l] = value[l] /\ inUse'[l] = inUse[l] + 1 /\ waiting'[l] = waiting[l] - 1
        /\ Granted(l)' = G \ {c} /\ Holders(l)' = H \cup {c} /\ Waiters(l)' = W \ {c}
    BY <1>1, <1>d DEF Land, Gauges, Members, G, H, W
  <2>4. queue'[l] # <<>> => value[l] = 0
    BY <1>d DEF Land
  <2>3. value[l] + (Cardinality(G) - 1) + (inUse[l] + 1) = Limit[l]
    BY <1>k
  <2> QED BY <1>4, <2>1, <2>2, <2>3, <2>4
<1>j. CASE LandAndCall(l, c)
  <2>1. /\ Cardinality(H \cup {c}) = Cardinality(H) + 1
        /\ Cardinality(G \ {c}) = Cardinality(G) - 1
        /\ Cardinality(W \ {c}) = Cardinality(W) - 1
    BY <1>2, <1>5, <1>j DEF LandAndCall, G, H, W
  <2>2. Head(q) \in Calls /\ Head(q) \notin G \ {c}
    BY <1>1, <1>j, HeadTailProperties DEF LandAndCall, q, G
  <2>3. Cardinality((G \ {c}) \cup {Head(q)}) = Cardinality(G)
    <3>1. G \ {c} \in SUBSET Calls
      BY <1>2
    <3>2. Cardinality((G \ {c}) \cup {Head(q)}) = Cardinality(G \ {c}) + 1
      BY <1>5, <2>2, <3>1
    <3> QED BY <1>3, <2>1, <3>2
  <2>4. /\ value'[l] = value[l] - 1 /\ inUse'[l] = inUse[l] + 1 /\ waiting'[l] = waiting[l] - 1
    BY <1>1, <1>j DEF LandAndCall, Gauges
  <2>5. /\ Granted(l)' = (G \ {c}) \cup {Head(q)} /\ Holders(l)' = H \cup {c}
        /\ Waiters(l)' = W \ {c}
    BY <1>j DEF LandAndCall, Members, G, H, W, q
  <2>6. Granted(l)' # {}
    BY <2>5
  <2>7. (value[l] - 1) + Cardinality(G) + (inUse[l] + 1) = Limit[l]
    BY <1>k
  <2> QED BY <1>4, <2>1, <2>3, <2>4, <2>5, <2>6, <2>7
<1>e. CASE Quit(l, c)
  <2>1. q # <<>>
    BY <1>1, <1>e DEF Quit, q
  <2> QED BY <1>1, <1>3, <1>4, <1>e, <2>1 DEF Quit, Gauges, Members, G, H, W
<1>f. CASE CountOut(l, c)
  <2>1. Cardinality(W \ {c}) = Cardinality(W) - 1
    BY <1>2, <1>5, <1>f DEF CountOut, W
  <2> QED BY <1>1, <1>3, <1>4, <1>f, <2>1 DEF CountOut, Gauges, Members, G, H, W, q
<1>g. ASSUME NEW X \in SUBSET Calls, NEW u \in Int, Cardinality(X) \in Nat,
             NEW Y \in SUBSET Calls, NEW Z \in SUBSET Calls, NEW w \in Int,
             PassOn(l, X, Y, Z, u, w), X \subseteq G,
             Cardinality(X) + u = Cardinality(G) - 1,
             inUse[l] + u = Cardinality(Y), waiting[l] + w = Cardinality(Z)
      PROVE  /\ value'[l] + Cardinality(Granted(l)') + inUse'[l] = Limit[l]
             /\ inUse'[l] = Cardinality(Holders(l)')
             /\ waiting'[l] = Cardinality(Waiters(l)')
             /\ queue'[l] # <<>> => value'[l] = 0 \/ Granted(l)' # {}
  <2>1. Cardinality(X) + u = Cardinality(G) - 1 /\ Cardinality(X) \in Nat
    BY <1>g
  <2>2. value[l] + Cardinality(G) + inUse[l] = Limit[l]
    BY <1>4
  <2>3. value[l] \in Nat /\ inUse[l] \in Int /\ Cardinality(G) \in Nat /\ Limit[l] \in Nat
    BY <1>1, <1>3
  <2>4. value[l] + (Cardinality(X) + 1) + (inUse[l] + u) = Limit[l]
    BY <2>1, <2>2, <2>3
  <2>5. CASE queue[l] = <<>>
    <3>1. Granted(l)' = X /\ Holders(l)' = Y /\ Waiters(l)' = Z /\ queue'[l] = <<>>
      BY <1>g, <2>5 DEF PassOn, Members
    <3>2. value'[l] = value[l] + 1 /\ inUse'[l] = inUse[l] + u /\ waiting'[l] = waiting[l] + w
      BY <1>g, <2>5 DEF PassOn, Gauges
    <3>3. value'[l] + Cardinality(X) + inUse'[l] = Limit[l]
      BY <2>1, <2>3, <2>4, <3>2
    <3> QED BY <1>g, <3>1, <3>2, <3>3
  <2>6. CASE queue[l] # <<>>
    <3>1. Head(queue[l]) \in Calls
      BY <1>1, <2>6, HeadTailProperties DEF q
    <3>2. Head(queue[l]) \notin X
      BY <1>g, <2>6 DEF PassOn, G
    <3>3. Cardinality(X \cup {Head(queue[l])}) = Cardinality(X) + 1
      BY <1>5, <1>g, <3>1, <3>2
    <3>5. /\ value'[l] = value[l] + 0 /\ inUse'[l] = inUse[l] + u /\ waiting'[l] = waiting[l] + w
          /\ Granted(l)' = X \cup {Head(queue[l])} /\ Holders(l)' = Y /\ Waiters(l)' = Z
      BY <1>g, <2>6 DEF PassOn, Gauges, Members
    <3>6. value'[l] + Cardinality(Granted(l)') + inUse'[l] = Limit[l]
      BY <2>1, <2>3, <2>4, <3>3, <3>5
    <3> QED BY <1>g, <3>5, <3>6
  <2> QED BY <2>5, <2>6
<1>h. CASE FreeHeld(l, c)
  <2>1. Cardinality(H \ {c}) = Cardinality(H) - 1
    BY <1>2, <1>5, <1>h DEF FreeHeld, H
  <2>2. PassOn(l, G, H \ {c}, W, -1, 0)
    BY <1>h DEF FreeHeld, G, H, W
  <2>3. H \ {c} \in SUBSET Calls
    BY <1>2
  <2>4. Cardinality(G) + (-1) = Cardinality(G) - 1 /\ G \subseteq G
    BY <1>3
  <2>5. inUse[l] + (-1) = Cardinality(H \ {c}) /\ waiting[l] + 0 = Cardinality(W)
    BY <1>1, <1>3, <1>4, <2>1
  <2> QED BY <1>2, <1>3, <1>g, <2>2, <2>3, <2>4, <2>5
<1>i. CASE FreeGrant(l, c)
  <2>1. /\ Cardinality(G \ {c}) = Cardinality(G) - 1
        /\ Cardinality(W \ {c}) = Cardinality(W) - 1
    BY <1>2, <1>5, <1>i DEF FreeGrant, G, W
  <2>2. PassOn(l, G \ {c}, H, W \ {c}, 0, -1)
    BY <1>i DEF FreeGrant, G, H, W
  <2>3. G \ {c} \in SUBSET Calls /\ W \ {c} \in SUBSET Calls /\ Cardinality(G \ {c}) \in Nat
    BY <1>2, CallsCounted
  <2>4. Cardinality(G \ {c}) + 0 = Cardinality(G) - 1 /\ G \ {c} \subseteq G
    BY <1>3, <2>1
  <2>5. inUse[l] + 0 = Cardinality(H) /\ waiting[l] + (-1) = Cardinality(W \ {c})
    BY <1>1, <1>3, <1>4, <2>1
  <2> QED BY <1>2, <1>g, <2>2, <2>3, <2>4, <2>5
<1> QED BY <1>a, <1>b, <1>c, <1>d, <1>e, <1>f, <1>h, <1>i, <1>j DEF Move

\* The moves of the abstract pool.
PoolMoves(l) ==
    \/ \E d \in Calls : Pool!Take(l, d) \/ Pool!Line(l, d) \/ Pool!Release(l, d)
    \/ Pool!Serve(l) \/ Pool!Withdraw(l)

\* The pool as the refinement mapping sees it.
LEMMA Becoming ==
    ASSUME NEW l \in Limiters, NEW P, NEW q,
           (Holders(l) \cup Granted(l))' = P, queue'[l] = q
    PROVE  Pool!Becomes(l, P, q)
BY DEF Pool!Becomes

\* The pool counts as everybody does.
LEMMA PoolCardinality == \A S : Pool!Cardinality(S) = Cardinality(S)
BY DEF Cardinality, Pool!Cardinality

\* Every move of a limiter is a move of the abstract pool, or none.
LEMMA MoveIsStep ==
    ASSUME Typed, NEW l \in Limiters, NEW c \in Calls, Accounts(l), Move(l, c),
           Granted(l) \cap Holders(l) = {}
    PROVE  PoolMoves(l)
<1> DEFINE P == Holders(l) \cup Granted(l)
<1>0. [k \in Limiters |-> Holders(k) \cup Granted(k)][l] = P
  OBVIOUS
<1>1. queue[l] \in Seq(Calls) /\ Limit[l] \in Nat /\ value[l] \in Nat /\ inUse[l] \in Int
  BY CapacityAssumption DEF Typed
<1>2. Cardinality(P) = Limit[l] - value[l]
  <2>1. Granted(l) \in SUBSET Calls /\ Holders(l) \in SUBSET Calls
    BY MembersAreCalls
  <2>2. /\ IsFiniteSet(Granted(l)) /\ IsFiniteSet(Holders(l))
        /\ Cardinality(Granted(l)) \in Nat /\ Cardinality(Holders(l)) \in Nat
    BY <2>1, CallsCounted
  <2>3. Holders(l) \cap Granted(l) = {}
    OBVIOUS
  <2>4. Cardinality(P) = Cardinality(Holders(l)) + Cardinality(Granted(l)) - Cardinality({})
    BY <2>2, <2>3, FS_Union
  <2>5. Cardinality({}) = 0
    BY FS_EmptySet
  <2>6. /\ value[l] + Cardinality(Granted(l)) + inUse[l] = Limit[l]
        /\ inUse[l] = Cardinality(Holders(l))
    BY DEF Accounts
  <2> QED BY <1>1, <2>2, <2>4, <2>5, <2>6
<1>3. ASSUME (Holders(l) \cup Granted(l))' = P, queue'[l] = queue[l]
      PROVE  Pool!Withdraw(l)
  <2> DEFINE n == Len(queue[l])
             f == [i \in 1..n |-> i]
  <2>1. n \in 0..Len(queue[l]) /\ DOMAIN queue[l] = 1..n /\ n \in Nat
    BY <1>1, LenProperties
  <2>2. f \in [1..n -> DOMAIN queue[l]] /\ \A i, j \in 1..n : i < j => f[i] < f[j]
    BY <2>1
  <2>3. [i \in 1..n |-> queue[l][f[i]]] = queue[l]
    <3>1. queue[l] = [i \in 1..n |-> queue[l][i]]
      BY <1>1, LenProperties
    <3> QED BY <3>1
  <2>4. Pool!Becomes(l, P, [i \in 1..n |-> queue[l][f[i]]])
    BY <1>3, <2>3, Becoming
  <2> HIDE DEF n, f
  <2> QED BY <1>0, <2>1, <2>2, <2>4 DEF Pool!Withdraw
<1>a. CASE Stay(l)
  BY <1>3, <1>a DEF Stay, Members, PoolMoves
<1>b. CASE Take(l, c)
  <2>1. c \notin P \cup Pool!Waiting(l) /\ queue[l] = <<>> /\ value[l] # 0
    BY <1>b DEF Take, Busy
  <2>2. Cardinality(P) < Limit[l]
    BY <1>1, <1>2, <2>1
  <2>3. (Holders(l) \cup Granted(l))' = P \cup {c} /\ queue'[l] = <<>>
    BY <1>b, <2>1 DEF Take, Members
  <2>4. Pool!Becomes(l, P \cup {c}, <<>>)
    BY <2>3, Becoming
  <2>5. Pool!Take(l, c)
    BY <2>1, <2>2, <2>4, PoolCardinality DEF Pool!Take, Pool!Free
  <2> QED BY <2>5 DEF PoolMoves
<1>c. CASE Line(l, c)
  <2>1. c \notin P \cup Pool!Waiting(l) /\ (value[l] = 0 \/ Granted(l) # {})
    BY <1>c DEF Line, Busy, Accounts
  <2>2. P # {}
    <3>1. CASE value[l] = 0
      <4>1. Cardinality(P) # 0
        BY <1>1, <1>2, <3>1, CapacityAssumption
      <4>2. Cardinality({}) = 0
        BY FS_EmptySet
      <4> QED BY <4>1, <4>2
    <3> QED BY <2>1, <3>1
  <2>3. (Holders(l) \cup Granted(l))' = P /\ queue'[l] = Append(queue[l], c)
    BY <1>c DEF Line, Members
  <2>4. Pool!Becomes(l, P, Append(queue[l], c))
    BY <2>3, Becoming
  <2>5. Pool!Line(l, c)
    BY <2>1, <2>2, <2>4 DEF Pool!Line
  <2> QED BY <2>5 DEF PoolMoves
<1>j. CASE LandAndCall(l, c)
  <2>1. queue[l] # <<>> /\ value[l] # 0 /\ queue'[l] = Tail(queue[l])
    BY <1>j DEF LandAndCall
  <2>2. Cardinality(P) < Limit[l]
    BY <1>1, <1>2, <2>1
  <2>3. (Holders(l) \cup Granted(l))' = P \cup {Head(queue[l])}
    BY <1>j DEF LandAndCall, Members
  <2>4. Pool!Becomes(l, P \cup {Head(queue[l])}, Tail(queue[l]))
    BY <2>1, <2>3, Becoming
  <2>5. Pool!Serve(l)
    BY <2>1, <2>2, <2>4, PoolCardinality DEF Pool!Serve, Pool!Free
  <2> QED BY <2>5 DEF PoolMoves
<1>d. CASE Land(l, c)
  <2>1. (Holders(l) \cup Granted(l))' = P /\ queue'[l] = queue[l]
    BY <1>d DEF Land, Members
  <2> QED BY <1>3, <2>1 DEF PoolMoves
<1>e. CASE Quit(l, c)
  <2>1. PICK i \in DOMAIN queue[l] : queue'[l] = RemoveAt(queue[l], i)
    BY <1>e DEF Quit
  <2> DEFINE q == queue[l]
             n == Len(q) - 1
             f == [j \in 1..n |-> IF j < i THEN j ELSE j + 1]
  <2>2. /\ RemoveAt(q, i) \in Seq(Calls) /\ Len(RemoveAt(q, i)) = n
        /\ \A j \in 1..n : RemoveAt(q, i)[j] = q[IF j < i THEN j ELSE j + 1]
    BY <1>1, RemoveAtKeeps
  <2>3. n \in 0..Len(q) /\ DOMAIN q = 1..Len(q) /\ i \in 1..Len(q) /\ n \in Nat
    BY <1>1, LenProperties
  <2>4. f \in [1..n -> DOMAIN q] /\ \A j, k \in 1..n : j < k => f[j] < f[k]
    BY <2>3
  <2>5. [j \in 1..n |-> q[f[j]]] = RemoveAt(q, i)
    <3>1. RemoveAt(q, i) = [j \in 1..n |-> RemoveAt(q, i)[j]]
      BY <2>2, LenProperties
    <3> QED BY <2>2, <3>1
  <2>6. (Holders(l) \cup Granted(l))' = P
    BY <1>e DEF Quit, Members
  <2>7. Pool!Becomes(l, P, [j \in 1..n |-> q[f[j]]])
    BY <2>1, <2>5, <2>6, Becoming
  <2>8. Pool!Withdraw(l)
    <3> HIDE DEF n, f
    <3> QED BY <1>0, <2>3, <2>4, <2>7 DEF Pool!Withdraw
  <2> QED BY <2>8 DEF PoolMoves
<1>f. CASE CountOut(l, c)
  BY <1>3, <1>f DEF CountOut, Members, PoolMoves
<1>g. ASSUME c \in P, NEW X, NEW Y, NEW Z, NEW u, NEW w, PassOn(l, X, Y, Z, u, w),
             X \cup Y = P \ {c}
      PROVE  PoolMoves(l)
  <2>1. CASE queue[l] = <<>>
    <3>1. (Holders(l) \cup Granted(l))' = P \ {c} /\ queue'[l] = <<>>
      BY <1>g, <2>1 DEF PassOn, Members
    <3>2. Pool!Becomes(l, P \ {c}, <<>>)
      BY <3>1, Becoming
    <3> HIDE DEF P
    <3>3. Pool!Release(l, c)
      BY <1>0, <1>g, <2>1, <3>2 DEF Pool!Release
    <3> QED BY <3>3 DEF PoolMoves
  <2>2. CASE queue[l] # <<>>
    <3>1. /\ (Holders(l) \cup Granted(l))' = (P \ {c}) \cup {Head(queue[l])}
          /\ queue'[l] = Tail(queue[l])
      BY <1>g, <2>2 DEF PassOn, Members
    <3>2. Pool!Becomes(l, (P \ {c}) \cup {Head(queue[l])}, Tail(queue[l]))
      BY <3>1, Becoming
    <3> HIDE DEF P
    <3>3. Pool!Release(l, c)
      BY <1>0, <1>g, <2>2, <3>2 DEF Pool!Release
    <3> QED BY <3>3 DEF PoolMoves
  <2> QED BY <2>1, <2>2
<1>h. CASE FreeHeld(l, c)
  <2>1. c \in P /\ Granted(l) \cup (Holders(l) \ {c}) = P \ {c}
    BY <1>h DEF FreeHeld
  <2> QED BY <1>g, <1>h, <2>1 DEF FreeHeld
<1>i. CASE FreeGrant(l, c)
  <2>1. c \in P /\ (Granted(l) \ {c}) \cup Holders(l) = P \ {c}
    BY <1>i DEF FreeGrant
  <2> QED BY <1>g, <1>i, <2>1 DEF FreeGrant
<1> QED BY <1>a, <1>b, <1>c, <1>d, <1>e, <1>f, <1>h, <1>i, <1>j DEF Move

-----------------------------------------------------------------------------
\* What every step of a call c has to keep, the accounts apart.
Kept(c) == Typed' /\ QueueExact' /\ HeldInOrder' /\ \A l \in Limiters : Move(l, c)

\* A limiter is left alone if its gauges, its queue and the calls it counts are.
LEMMA LeftAlone ==
    ASSUME Typed, NEW l \in Limiters, queue'[l] = queue[l],
           value'[l] = value[l] /\ inUse'[l] = inUse[l] /\ waiting'[l] = waiting[l],
           Granted(l)' = Granted(l) /\ Holders(l)' = Holders(l) /\ Waiters(l)' = Waiters(l)
    PROVE  Stay(l)
BY DEF Typed, Stay, Gauges, Members

\* The steps that only move a call on: nothing that any limiter counts depends on them.
LEMMA MovesOn ==
    ASSUME IInv, NEW c \in Calls, NEW p,
           \/ phase[c] = "idle" /\ p = "created"
           \/ phase[c] = "created" /\ p = "done"
           \/ phase[c] = "granted" /\ p = "refunding"
           \/ phase[c] = "leased" /\ p \in {"calling", "lost"},
           phase' = [phase EXCEPT ![c] = p],
           UNCHANGED <<at, held, value, queue, inUse, waiting>>
    PROVE  Kept(c)
<1>1. p \in Phases /\ phase[c] # "queued" /\ p # "queued"
  BY DEF Phases
<1>2. Typed'
  BY <1>1 DEF IInv, Typed
<1>3. \A d \in Calls : phase'[d] = IF d = c THEN p ELSE phase[d]
  BY DEF IInv, Typed
<1>4. QueueExact'
  <2>1. \A l \in Limiters : \A i \in DOMAIN queue[l] : queue[l][i] \in Calls
    BY DEF IInv, Typed
  <2> QED BY <1>1, <1>3, <2>1 DEF IInv, QueueExact
<1>5. HeldInOrder'
  BY <1>3 DEF IInv, HeldInOrder, InLine
<1>6. ASSUME NEW l \in Limiters PROVE Stay(l)
  <2>1. Granted(l)' = Granted(l) /\ Holders(l)' = Holders(l) /\ Waiters(l)' = Waiters(l)
    BY <1>3 DEF Granted, Holders, Waiters, InLine
  <2> QED BY <2>1, LeftAlone DEF IInv
<1> QED BY <1>2, <1>4, <1>5, <1>6 DEF Kept, Move

\* A call that is queued is cancelled.
LEMMA Quits ==
    ASSUME IInv, NEW c \in Calls, phase[c] = "queued",
           phase' = [phase EXCEPT ![c] = "withdrawn"],
           NEW i \in DOMAIN queue[at[c]], queue[at[c]][i] = c,
           queue' = [queue EXCEPT ![at[c]] = RemoveAt(@, i)],
           UNCHANGED <<at, held, value, inUse, waiting>>
    PROVE  Kept(c)
<1> DEFINE q == queue[at[c]]
           r == RemoveAt(q, i)
<1>1. at[c] \in Limiters /\ q \in Seq(Calls)
  BY DEF IInv, Typed
<1>2. /\ r \in Seq(Calls) /\ Len(r) = Len(q) - 1
      /\ \A j \in 1..(Len(q) - 1) : r[j] = q[IF j < i THEN j ELSE j + 1]
  BY <1>1, RemoveAtKeeps
<1>3. DOMAIN r = 1..(Len(q) - 1) /\ DOMAIN q = 1..Len(q) /\ Len(q) \in Nat /\ i \in 1..Len(q)
  BY <1>1, <1>2, LenProperties
<1>4. \A l \in Limiters : queue'[l] = IF l = at[c] THEN r ELSE queue[l]
  BY <1>1 DEF IInv, Typed
<1>5. \A d \in Calls : phase'[d] = IF d = c THEN "withdrawn" ELSE phase[d]
  BY DEF IInv, Typed
<1> HIDE DEF r
<1>6. Typed'
  <2>1. queue' \in [Limiters -> Seq(Calls)]
    BY <1>1, <1>2 DEF IInv, Typed, r
  <2>2. phase' \in [Calls -> Phases]
    BY DEF IInv, Typed, Phases
  <2> QED BY <2>1, <2>2 DEF IInv, Typed
<1>7. QueueExact'
  <2>1. \A l \in Limiters : \A j \in DOMAIN queue[l] :
            /\ queue[l][j] \in Calls /\ phase[queue[l][j]] = "queued" /\ at[queue[l][j]] = l
            /\ \A k \in DOMAIN queue[l] : queue[l][j] = queue[l][k] => j = k
    BY DEF IInv, Typed, QueueExact
  <2>2. ASSUME NEW l \in Limiters, NEW j \in DOMAIN queue'[l]
        PROVE  /\ phase'[queue'[l][j]] = "queued" /\ at'[queue'[l][j]] = l
               /\ \A k \in DOMAIN queue'[l] : queue'[l][j] = queue'[l][k] => j = k
    <3>1. CASE l = at[c]
      <4>1. queue'[l] = r /\ DOMAIN queue'[l] = 1..(Len(q) - 1)
        BY <1>3, <1>4, <3>1
      <4> DEFINE m(x) == IF x < i THEN x ELSE x + 1
      <4>2. \A k \in 1..(Len(q) - 1) : m(k) \in DOMAIN q /\ m(k) # i /\ r[k] = q[m(k)]
        BY <1>2, <1>3
      <4>3. \A k \in 1..(Len(q) - 1) : m(j) = m(k) => j = k
        BY <1>3, <4>1
      <4>4. q[m(j)] # c
        BY <1>1, <2>1, <4>1, <4>2
      <4> HIDE DEF m
      <4>5. phase'[queue'[l][j]] = "queued" /\ at'[queue'[l][j]] = l
        BY <1>1, <1>5, <2>1, <3>1, <4>1, <4>2, <4>4
      <4>6. \A k \in DOMAIN queue'[l] : queue'[l][j] = queue'[l][k] => j = k
        <5> SUFFICES ASSUME NEW k \in 1..(Len(q) - 1), r[j] = r[k] PROVE j = k
          BY <4>1
        <5>1. q[m(j)] = q[m(k)] /\ m(j) \in DOMAIN q /\ m(k) \in DOMAIN q
          BY <4>1, <4>2
        <5>2. m(j) = m(k)
          BY <1>1, <2>1, <5>1
        <5> QED BY <4>3, <5>2
      <4> QED BY <4>5, <4>6
    <3>2. CASE l # at[c]
      BY <1>4, <1>5, <2>1, <3>2
    <3> QED BY <3>1, <3>2
  <2>3. ASSUME NEW d \in Calls, phase'[d] = "queued"
        PROVE  \E j \in DOMAIN queue'[at'[d]] : queue'[at'[d]][j] = d
    <3>1. d # c /\ phase[d] = "queued" /\ at'[d] = at[d] /\ at[d] \in Limiters
      BY <1>5, <2>3 DEF IInv, Typed
    <3>2. PICK k \in DOMAIN queue[at[d]] : queue[at[d]][k] = d
      BY <3>1 DEF IInv, QueueExact
    <3>3. CASE at[d] = at[c]
      <4>1. k # i /\ k \in 1..Len(q)
        BY <1>3, <3>1, <3>2, <3>3
      <4> DEFINE j == IF k < i THEN k ELSE k - 1
      <4>2. j \in 1..(Len(q) - 1) /\ (IF j < i THEN j ELSE j + 1) = k
        BY <1>3, <4>1
      <4>3. r[j] = d
        BY <1>2, <3>2, <3>3, <4>2
      <4> HIDE DEF j
      <4> QED BY <1>3, <1>4, <3>1, <3>3, <4>2, <4>3
    <3>4. CASE at[d] # at[c]
      BY <1>4, <3>1, <3>2, <3>4
    <3> QED BY <3>3, <3>4
  <2> QED BY <2>2, <2>3 DEF QueueExact
<1>8. HeldInOrder'
  BY <1>5 DEF IInv, HeldInOrder, InLine
<1>9. ASSUME NEW l \in Limiters PROVE Move(l, c)
  <2>1. Granted(l)' = Granted(l) /\ Holders(l)' = Holders(l) /\ Waiters(l)' = Waiters(l)
    BY <1>5 DEF Granted, Holders, Waiters, InLine
  <2>2. CASE l = at[c]
    BY <1>4, <2>1, <2>2 DEF IInv, Typed, Move, Quit, Gauges, Members, r
  <2>3. CASE l # at[c]
    <3>1. queue'[l] = queue[l]
      BY <1>4, <2>3
    <3> QED BY <2>1, <3>1, LeftAlone DEF IInv, Move
  <2> QED BY <2>2, <2>3
<1> QED BY <1>6, <1>7, <1>8, <1>9 DEF Kept

\* The head and the tail of a queue.
LEMMA TailKeeps ==
    ASSUME NEW S, NEW q \in Seq(S), q # <<>>
    PROVE  /\ Tail(q) \in Seq(S) /\ DOMAIN Tail(q) = 1..(Len(q) - 1)
           /\ \A i \in 1..(Len(q) - 1) : Tail(q)[i] = q[i + 1]
           /\ Head(q) = q[1] /\ Head(q) \in S /\ DOMAIN q = 1..Len(q) /\ Len(q) \in Nat \ {0}
<1>1. Len(q) \in Nat \ {0} /\ DOMAIN q = 1..Len(q)
  BY EmptySeq, LenProperties
<1>2. /\ Head(q) \in S /\ Tail(q) \in Seq(S) /\ Len(Tail(q)) = Len(q) - 1
      /\ \A i \in 1..Len(Tail(q)) : Tail(q)[i] = q[i + 1]
  BY HeadTailProperties
<1>3. DOMAIN Tail(q) = 1..Len(Tail(q))
  BY <1>2, LenProperties
<1>4. Head(q) = q[1]
  OBVIOUS
<1> QED BY <1>1, <1>2, <1>3, <1>4

\* A call ends and gives back the slots of S: what it holds and, if it was cancelled with a
\* slot it had been granted, that one.
LEMMA GivesBack ==
    ASSUME IInv, NEW c \in Calls, phase[c] \in {"withdrawn", "refunding", "calling"},
           NEW S, S = held[c] \cup (IF phase[c] = "refunding" THEN {at[c]} ELSE {}),
           waiting' = IF phase[c] = "calling" THEN waiting ELSE [waiting EXCEPT ![at[c]] = @ - 1],
           inUse' = [l \in Limiters |-> inUse[l] - IF l \in held[c] THEN 1 ELSE 0],
           held' = [held EXCEPT ![c] = {}],
           GiveBack(S, queue, [phase EXCEPT ![c] = "done"]),
           UNCHANGED at
    PROVE  Kept(c)
<1> DEFINE heir(d) == at[d] \in S /\ queue[at[d]] # <<>> /\ d = Head(queue[at[d]])
<1>1. /\ S \in SUBSET Limiters /\ at[c] \in Limiters
      /\ \A l \in Limiters : queue[l] \in Seq(Calls)
      /\ phase[c] \in InLine => at[c] \notin held[c]
  BY CapacityAssumption DEF IInv, Typed, HeldInOrder, InLine
<1>2. \A l \in Limiters : \A j \in DOMAIN queue[l] :
          /\ queue[l][j] \in Calls /\ phase[queue[l][j]] = "queued" /\ at[queue[l][j]] = l
          /\ \A k \in DOMAIN queue[l] : queue[l][j] = queue[l][k] => j = k
  BY DEF IInv, Typed, QueueExact
<1>3. ASSUME NEW l \in Limiters, queue[l] # <<>>
      PROVE  /\ Head(queue[l]) \in Calls /\ Head(queue[l]) = queue[l][1] /\ 1 \in DOMAIN queue[l]
             /\ phase[Head(queue[l])] = "queued" /\ at[Head(queue[l])] = l
  <2>1. Head(queue[l]) = queue[l][1] /\ 1 \in DOMAIN queue[l]
    BY <1>1, <1>3, TailKeeps
  <2> QED BY <1>2, <2>1
<1>t. ASSUME NEW l \in Limiters, queue[l] # <<>>
      PROVE  /\ Tail(queue[l]) \in Seq(Calls) /\ Len(queue[l]) \in Nat
             /\ DOMAIN Tail(queue[l]) = 1..(Len(queue[l]) - 1)
             /\ DOMAIN queue[l] = 1..Len(queue[l])
             /\ \A k \in 1..(Len(queue[l]) - 1) : Tail(queue[l])[k] = queue[l][k + 1]
  <2>1. queue[l] \in Seq(Calls)
    BY <1>1
  <2> QED BY <1>t, <2>1, TailKeeps
<1>4. ASSUME NEW d \in Calls
      PROVE  phase'[d] = IF heir(d) THEN "granted" ELSE IF d = c THEN "done" ELSE phase[d]
  <2>1. (\E l \in S : d \in Heir(l, queue)) <=> heir(d)
    BY <1>1, <1>3 DEF Heir
  <2>2. phase'[d] = IF \E l \in S : d \in Heir(l, queue) THEN "granted"
                    ELSE [phase EXCEPT ![c] = "done"][d]
    BY DEF GiveBack
  <2>3. [phase EXCEPT ![c] = "done"][d] = IF d = c THEN "done" ELSE phase[d]
    BY DEF IInv, Typed
  <2> QED BY <2>1, <2>2, <2>3
<1>5. \A l \in Limiters : queue'[l] = IF l \in S /\ queue[l] # <<>> THEN Tail(queue[l]) ELSE queue[l]
  BY DEF GiveBack
<1>6. \A d \in Calls : heir(d) => phase[d] = "queued" /\ d # c
  BY <1>1, <1>3
<1> HIDE DEF heir
<1>7. Typed'
  <2>1. phase' \in [Calls -> Phases]
    <3>1. \A d \in Calls : phase'[d] \in Phases
      BY <1>4 DEF IInv, Typed, Phases
    <3>2. phase' = [d \in Calls |-> phase'[d]]
      BY DEF GiveBack
    <3> QED BY <3>1, <3>2
  <2>2. queue' \in [Limiters -> Seq(Calls)]
    <3>1. \A l \in Limiters : queue'[l] \in Seq(Calls)
      BY <1>1, <1>5, <1>t
    <3>2. queue' = [l \in Limiters |-> queue'[l]]
      BY DEF GiveBack
    <3> QED BY <3>1, <3>2
  <2>3. value' \in [Limiters -> Nat]
    BY DEF GiveBack, IInv, Typed
  <2>4. inUse' \in [Limiters -> Int] /\ waiting' \in [Limiters -> Int]
    BY <1>1 DEF IInv, Typed
  <2>5. held' \in [Calls -> SUBSET Limiters] /\ at' \in [Calls -> Limiters]
    BY DEF IInv, Typed
  <2> QED BY <2>1, <2>2, <2>3, <2>4, <2>5 DEF Typed
<1>8. QueueExact'
  <2>1. ASSUME NEW l \in Limiters, NEW j \in DOMAIN queue'[l]
        PROVE  /\ phase'[queue'[l][j]] = "queued" /\ at'[queue'[l][j]] = l
               /\ \A k \in DOMAIN queue'[l] : queue'[l][j] = queue'[l][k] => j = k
    <3>1. CASE l \in S /\ queue[l] # <<>>
      <4>1. /\ DOMAIN queue'[l] = 1..(Len(queue[l]) - 1) /\ DOMAIN queue[l] = 1..Len(queue[l])
            /\ \A k \in DOMAIN queue'[l] : queue'[l][k] = queue[l][k + 1]
            /\ Len(queue[l]) \in Nat
        BY <1>5, <1>t, <3>1
      <4>2. \A k \in DOMAIN queue'[l] : k \in Nat /\ k + 1 \in DOMAIN queue[l] /\ k + 1 # 1
        BY <4>1
      <4>3. queue'[l][j] = queue[l][j + 1] /\ queue[l][j + 1] # Head(queue[l])
        BY <1>2, <1>3, <3>1, <4>1, <4>2
      <4>4. /\ queue[l][j + 1] \in Calls /\ phase[queue[l][j + 1]] = "queued"
            /\ at[queue[l][j + 1]] = l
        BY <1>2, <4>2
      <4>5. phase'[queue[l][j + 1]] = "queued" /\ at'[queue[l][j + 1]] = l
        BY <1>4, <4>3, <4>4 DEF heir
      <4>6. \A k \in DOMAIN queue'[l] : queue'[l][j] = queue'[l][k] => j = k
        <5> SUFFICES ASSUME NEW k \in DOMAIN queue'[l], queue'[l][j] = queue'[l][k] PROVE j = k
          OBVIOUS
        <5>1. queue[l][j + 1] = queue[l][k + 1]
          BY <4>1
        <5>2. j + 1 = k + 1
          BY <1>2, <4>2, <5>1
        <5> QED BY <4>2, <5>2
      <4> QED BY <4>3, <4>5, <4>6
    <3>2. CASE ~(l \in S /\ queue[l] # <<>>)
      <4>1. queue'[l] = queue[l] /\ j \in DOMAIN queue[l]
        BY <1>5, <3>2
      <4>2. /\ queue[l][j] \in Calls /\ phase[queue[l][j]] = "queued" /\ at[queue[l][j]] = l
            /\ \A k \in DOMAIN queue[l] : queue[l][j] = queue[l][k] => j = k
        BY <1>2, <4>1
      <4>3. ~heir(queue[l][j]) /\ queue[l][j] # c
        BY <3>2, <4>2 DEF heir
      <4> QED BY <1>4, <4>1, <4>2, <4>3
    <3> QED BY <3>1, <3>2
  <2>2. ASSUME NEW d \in Calls, phase'[d] = "queued"
        PROVE  \E j \in DOMAIN queue'[at'[d]] : queue'[at'[d]][j] = d
    <3>1. d # c /\ phase[d] = "queued" /\ ~heir(d) /\ at'[d] = at[d] /\ at[d] \in Limiters
      BY <1>4, <2>2 DEF IInv, Typed
    <3>2. PICK k \in DOMAIN queue[at[d]] : queue[at[d]][k] = d
      BY <3>1 DEF IInv, QueueExact
    <3>3. CASE at[d] \in S /\ queue[at[d]] # <<>>
      <4>1. /\ DOMAIN queue'[at[d]] = 1..(Len(queue[at[d]]) - 1)
            /\ DOMAIN queue[at[d]] = 1..Len(queue[at[d]]) /\ Len(queue[at[d]]) \in Nat
            /\ \A j \in DOMAIN queue'[at[d]] : queue'[at[d]][j] = queue[at[d]][j + 1]
        BY <1>5, <1>t, <3>1, <3>3
      <4>2. k # 1
        BY <1>3, <3>1, <3>2, <3>3 DEF heir
      <4>3. k - 1 \in DOMAIN queue'[at[d]] /\ (k - 1) + 1 = k
        BY <4>1, <4>2
      <4> QED BY <3>1, <3>2, <4>1, <4>3
    <3>4. CASE ~(at[d] \in S /\ queue[at[d]] # <<>>)
      BY <1>5, <3>1, <3>2, <3>4
    <3> QED BY <3>3, <3>4
  <2> QED BY <2>1, <2>2 DEF QueueExact
<1>9. HeldInOrder'
  <2>1. \A d \in Calls : held'[d] = IF d = c THEN {} ELSE held[d]
    BY DEF IInv, Typed
  <2>2. phase'[c] = "done"
    BY <1>4, <1>6
  <2>3. ASSUME NEW d \in Calls, d # c
        PROVE  /\ held'[d] = held[d] /\ at'[d] = at[d]
               /\ phase'[d] = phase[d] \/ (phase'[d] = "granted" /\ phase[d] = "queued")
    BY <1>4, <1>6, <2>1, <2>3
  <2> QED BY <2>1, <2>2, <2>3 DEF IInv, HeldInOrder, InLine
<1>10. ASSUME NEW l \in Limiters PROVE Move(l, c)
  <2> DEFINE heirs == IF l \in S /\ queue[l] # <<>> THEN {Head(queue[l])} ELSE {}
  <2>1. /\ Granted(l)' = (Granted(l) \ {c}) \cup heirs
        /\ Waiters(l)' = Waiters(l) \ {c} /\ Holders(l)' = Holders(l) \ {c}
    <3>1. \A d \in Calls : (heir(d) /\ at[d] = l) <=> d \in heirs
      BY <1>3 DEF heir
    <3>2. \A d \in heirs : d \in Calls
      BY <1>3
    <3> HIDE DEF heirs
    <3>3. \A d \in Calls : d \in Granted(l)' <=> d \in (Granted(l) \ {c}) \cup heirs
      BY <1>4, <1>6, <3>1 DEF Granted
    <3>4. \A d \in Calls : d \in Waiters(l)' <=> d \in Waiters(l) \ {c}
      BY <1>4, <1>6 DEF Waiters, InLine
    <3>5. \A d \in Calls : d \in Holders(l)' <=> d \in Holders(l) \ {c}
      BY DEF Holders, IInv, Typed
    <3>6. Granted(l)' \subseteq Calls /\ Waiters(l)' \subseteq Calls /\ Holders(l)' \subseteq Calls
      BY DEF Granted, Waiters, Holders
    <3> QED BY <3>2, <3>3, <3>4, <3>5, <3>6, MembersAreCalls
  <2>2. \A d \in Calls : phase[d] \in InLine => at[d] \notin held[d]
    BY DEF IInv, HeldInOrder
  <2>3. queue[l] # <<>> => Head(queue[l]) \notin Granted(l) \cup Holders(l)
    BY <1>3, <2>2 DEF Granted, Holders, InLine
  <2>4. /\ value'[l] = value[l] + IF l \in S /\ queue[l] = <<>> THEN 1 ELSE 0
        /\ inUse'[l] = inUse[l] - IF l \in held[c] THEN 1 ELSE 0
        /\ waiting'[l] = IF phase[c] # "calling" /\ l = at[c] THEN waiting[l] - 1 ELSE waiting[l]
        /\ value[l] \in Int /\ inUse[l] \in Int /\ waiting[l] \in Int
    BY <1>1 DEF GiveBack, IInv, Typed
  <2>5. c \in Holders(l) <=> l \in held[c]
    BY DEF Holders
  <2>6. c \in Waiters(l) <=> phase[c] # "calling" /\ l = at[c]
    BY DEF Waiters, InLine
  <2>7. c \in Granted(l) <=> phase[c] = "refunding" /\ l = at[c]
    BY DEF Granted
  <2>8. CASE l \in held[c]
    <3>1. l \in S /\ c \in Holders(l) /\ c \notin Waiters(l) /\ c \notin Granted(l)
      BY <1>1, <2>5, <2>6, <2>7, <2>8 DEF InLine
    <3>2. /\ Granted(l)' = Granted(l) \cup heirs /\ Waiters(l)' = Waiters(l)
          /\ Holders(l)' = Holders(l) \ {c}
      BY <2>1, <3>1
    <3>3. /\ value'[l] = value[l] + IF queue[l] = <<>> THEN 1 ELSE 0
          /\ inUse'[l] = inUse[l] + (-1) /\ waiting'[l] = waiting[l] + 0
      BY <2>4, <2>6, <2>8, <3>1
    <3>4. PassOn(l, Granted(l), Holders(l) \ {c}, Waiters(l), -1, 0)
      BY <1>5, <2>3, <3>1, <3>2, <3>3 DEF PassOn, Gauges, Members
    <3> QED BY <3>1, <3>4 DEF Move, FreeHeld
  <2>9. CASE l \notin held[c] /\ l \in S
    <3>1. c \notin Holders(l) /\ c \in Waiters(l) /\ c \in Granted(l)
      BY <2>5, <2>6, <2>7, <2>9
    <3>2. /\ Granted(l)' = (Granted(l) \ {c}) \cup heirs /\ Waiters(l)' = Waiters(l) \ {c}
          /\ Holders(l)' = Holders(l)
      BY <2>1, <3>1
    <3>3. /\ value'[l] = value[l] + IF queue[l] = <<>> THEN 1 ELSE 0
          /\ inUse'[l] = inUse[l] + 0 /\ waiting'[l] = waiting[l] + (-1)
      BY <2>4, <2>6, <2>9, <3>1
    <3>4. PassOn(l, Granted(l) \ {c}, Holders(l), Waiters(l) \ {c}, 0, -1)
      BY <1>5, <2>3, <2>9, <3>2, <3>3 DEF PassOn, Gauges, Members
    <3> QED BY <3>1, <3>4 DEF Move, FreeGrant
  <2>10. CASE l \notin S /\ c \in Waiters(l)
    <3>1. c \notin Holders(l) /\ c \notin Granted(l)
      BY <2>5, <2>7, <2>10
    <3>2. Granted(l)' = Granted(l) /\ Waiters(l)' = Waiters(l) \ {c} /\ Holders(l)' = Holders(l)
      BY <2>1, <2>10, <3>1
    <3>3. /\ value'[l] = value[l] + 0 /\ inUse'[l] = inUse[l] + 0
          /\ waiting'[l] = waiting[l] + (-1) /\ queue'[l] = queue[l]
      BY <1>5, <2>4, <2>5, <2>6, <2>10, <3>1
    <3> QED BY <2>10, <3>2, <3>3 DEF Move, CountOut, Gauges, Members
  <2>11. CASE l \notin S /\ c \notin Waiters(l)
    <3>1. c \notin Holders(l) /\ c \notin Granted(l)
      BY <2>5, <2>6, <2>7, <2>11
    <3>2. Granted(l)' = Granted(l) /\ Waiters(l)' = Waiters(l) /\ Holders(l)' = Holders(l)
      BY <2>1, <2>11, <3>1
    <3>3. value'[l] = value[l] /\ inUse'[l] = inUse[l] /\ waiting'[l] = waiting[l] /\ queue'[l] = queue[l]
      BY <1>5, <2>4, <2>5, <2>6, <2>11, <3>1
    <3> QED BY <3>2, <3>3, LeftAlone DEF Move, IInv
  <2> QED BY <2>8, <2>9, <2>10, <2>11
<1> QED BY <1>7, <1>8, <1>9, <1>10 DEF Kept

\* What acquire does from one suspension to the next: the call gets the slot it was granted
\* (L, if it was), calls the next waiter there if a slot is free, takes the free limiters T,
\* and queues at the busy one (Q, if it met one).
Goes(c, L, T, Q) ==
    /\ \A l \in T : ~Busy(l)
    /\ \A l \in Q : Busy(l)
    /\ \A l \in Limiters :
          /\ value'[l] = value[l] - IF l \in T \cup Called(c) THEN 1 ELSE 0
          /\ inUse'[l] = inUse[l] + IF l \in T \cup L THEN 1 ELSE 0
          /\ waiting'[l] = waiting[l] + (IF l \in Q THEN 1 ELSE 0) - (IF l \in L THEN 1 ELSE 0)
          /\ queue'[l] = IF l \in Q THEN Append(queue[l], c) ELSE LineAfter(c)[l]
    /\ value' = [l \in Limiters |-> value'[l]] /\ inUse' = [l \in Limiters |-> inUse'[l]]
    /\ waiting' = [l \in Limiters |-> waiting'[l]] /\ queue' = [l \in Limiters |-> queue'[l]]
    /\ held' = [held EXCEPT ![c] = held[c] \cup T \cup L]
    /\ \/ /\ Q = {} /\ phase' = PhaseAfter(c, IF c \in Timed THEN "leased" ELSE "calling")
          /\ at' = at /\ held[c] \cup T \cup L = {SourceOf[c], Global}
       \/ /\ phase' = PhaseAfter(c, "queued")
          /\ \/ /\ Q = {SourceOf[c]} /\ held[c] \cup T \cup L = {}
                /\ at' = [at EXCEPT ![c] = SourceOf[c]]
             \/ /\ Q = {Global} /\ held[c] \cup T \cup L = {SourceOf[c]} /\ SourceOf[c] # Global
                /\ at' = [at EXCEPT ![c] = Global]

\* A queue with one more call.
LEMMA AppendKeeps ==
    ASSUME NEW S, NEW q \in Seq(S), NEW x \in S
    PROVE  /\ Append(q, x) \in Seq(S) /\ DOMAIN q = 1..Len(q) /\ Len(q) \in Nat
           /\ DOMAIN Append(q, x) = 1..(Len(q) + 1)
           /\ \A i \in 1..Len(q) : Append(q, x)[i] = q[i]
           /\ Append(q, x)[Len(q) + 1] = x
<1>1. Len(q) \in Nat /\ DOMAIN q = 1..Len(q)
  BY LenProperties
<1>2. /\ Append(q, x) \in Seq(S) /\ Len(Append(q, x)) = Len(q) + 1
      /\ \A i \in 1..Len(q) : Append(q, x)[i] = q[i]
      /\ Append(q, x)[Len(q) + 1] = x
  BY AppendProperties
<1>3. DOMAIN Append(q, x) = 1..Len(Append(q, x))
  BY <1>2, LenProperties
<1> QED BY <1>1, <1>2, <1>3

\* A call that takes the free slots of T and queues for those of Q keeps the invariant.
LEMMA GoesOn ==
    ASSUME IInv, NEW c \in Calls, NEW L \in SUBSET Limiters, NEW T \in SUBSET Limiters,
           NEW Q \in SUBSET Limiters, Goes(c, L, T, Q),
           \/ phase[c] = "created" /\ L = {}
           \/ phase[c] = "granted" /\ L = {at[c]},
           T \cap (held[c] \cup L) = {}, Q \cap (held[c] \cup L \cup T) = {}
    PROVE  Kept(c)
<1> DEFINE heir(d) == at[d] \in Called(c) /\ d = Head(queue[at[d]])
<1>1. /\ \A l \in Limiters : queue[l] \in Seq(Calls)
      /\ phase[c] # "queued" /\ Q \cap L = {}
      /\ Called(c) \subseteq L /\ \A l \in Called(c) : queue[l] # <<>> /\ value[l] > 0
  BY DEF IInv, Typed, Called
<1>2. \A l \in Limiters : \A j \in DOMAIN queue[l] :
          /\ queue[l][j] \in Calls /\ phase[queue[l][j]] = "queued" /\ at[queue[l][j]] = l
          /\ queue[l][j] # c
          /\ \A k \in DOMAIN queue[l] : queue[l][j] = queue[l][k] => j = k
  BY <1>1 DEF IInv, Typed, QueueExact
<1>h. ASSUME NEW l \in Limiters, queue[l] # <<>>
      PROVE  /\ Head(queue[l]) \in Calls /\ Head(queue[l]) = queue[l][1] /\ 1 \in DOMAIN queue[l]
             /\ phase[Head(queue[l])] = "queued" /\ at[Head(queue[l])] = l
             /\ Tail(queue[l]) \in Seq(Calls) /\ Len(queue[l]) \in Nat
             /\ DOMAIN Tail(queue[l]) = 1..(Len(queue[l]) - 1)
             /\ DOMAIN queue[l] = 1..Len(queue[l])
             /\ \A k \in 1..(Len(queue[l]) - 1) : Tail(queue[l])[k] = queue[l][k + 1]
  <2>1. queue[l] \in Seq(Calls)
    BY <1>1
  <2>2. /\ Head(queue[l]) = queue[l][1] /\ 1 \in DOMAIN queue[l]
        /\ Tail(queue[l]) \in Seq(Calls) /\ Len(queue[l]) \in Nat
        /\ DOMAIN Tail(queue[l]) = 1..(Len(queue[l]) - 1)
        /\ DOMAIN queue[l] = 1..Len(queue[l])
        /\ \A k \in 1..(Len(queue[l]) - 1) : Tail(queue[l])[k] = queue[l][k + 1]
    BY <1>h, <2>1, TailKeeps
  <2> QED BY <1>2, <2>2
<1>i. \A d \in Calls : (\E l \in Called(c) : d \in Heir(l, queue)) <=> heir(d)
  <2>1. Called(c) \subseteq Limiters
    BY DEF Called
  <2> QED BY <1>1, <1>h, <2>1 DEF Heir
<1>j. \A d \in Calls : heir(d) => phase[d] = "queued" /\ d # c
  BY <1>1, <1>h
<1>l. ASSUME NEW l \in Limiters, l \in Called(c), l \notin Q
      PROVE  /\ queue'[l] = Tail(queue[l]) /\ queue'[l] \in Seq(Calls) /\ Len(queue[l]) \in Nat
             /\ DOMAIN queue'[l] = 1..(Len(queue[l]) - 1) /\ DOMAIN queue[l] = 1..Len(queue[l])
             /\ \A k \in DOMAIN queue'[l] : queue'[l][k] = queue[l][k + 1]
             /\ Head(queue[l]) = queue[l][1] /\ 1 \in DOMAIN queue[l]
  <2>1. queue'[l] = Tail(queue[l])
    BY <1>l DEF Goes, LineAfter
  <2>2. queue[l] # <<>>
    BY <1>1, <1>l
  <2> QED BY <1>h, <2>1, <2>2
<1>k. \A p : \A d \in Calls :
          PhaseAfter(c, p)[d] = IF d = c THEN p ELSE IF heir(d) THEN "granted" ELSE phase[d]
  BY <1>i DEF PhaseAfter
<1> HIDE DEF heir
<1>g. /\ held' = [held EXCEPT ![c] = held[c] \cup T \cup L]
      /\ \/ /\ Q = {} /\ at' = at
            /\ phase' = PhaseAfter(c, IF c \in Timed THEN "leased" ELSE "calling")
         \/ /\ phase' = PhaseAfter(c, "queued")
            /\ \/ Q = {SourceOf[c]} /\ at' = [at EXCEPT ![c] = SourceOf[c]]
               \/ Q = {Global} /\ at' = [at EXCEPT ![c] = Global]
  BY DEF Goes
<1>3. /\ \A d \in Calls : d # c => /\ phase'[d] = (IF heir(d) THEN "granted" ELSE phase[d])
                                    /\ at'[d] = at[d] /\ held'[d] = held[d]
      /\ phase'[c] = (IF Q # {} THEN "queued" ELSE IF c \in Timed THEN "leased" ELSE "calling")
      /\ held'[c] = held[c] \cup T \cup L
      /\ Q = {} => at'[c] = at[c]
      /\ Q # {} => Q = {at'[c]}
  <2>1. at \in [Calls -> Limiters] /\ held \in [Calls -> SUBSET Limiters]
    BY DEF IInv, Typed
  <2>2. held'[c] = held[c] \cup T \cup L /\ \A d \in Calls : d # c => held'[d] = held[d]
    BY <1>g, <2>1
  <2>3. CASE Q = {} /\ at' = at /\ phase' = PhaseAfter(c, IF c \in Timed THEN "leased" ELSE "calling")
    <3> DEFINE p == IF c \in Timed THEN "leased" ELSE "calling"
    <3> HIDE DEF p
    <3>1. \A d \in Calls : phase'[d] = IF d = c THEN p ELSE IF heir(d) THEN "granted" ELSE phase[d]
      BY <1>k, <2>3 DEF p
    <3> QED BY <2>2, <2>3, <3>1 DEF p
  <2>4. ASSUME NEW l, phase' = PhaseAfter(c, "queued"), Q = {l}, at' = [at EXCEPT ![c] = l]
        PROVE  <1>3
    <3>1. \A d \in Calls :
              phase'[d] = IF d = c THEN "queued" ELSE IF heir(d) THEN "granted" ELSE phase[d]
      BY <1>k, <2>4
    <3>2. at'[c] = l /\ \A d \in Calls : d # c => at'[d] = at[d]
      BY <2>1, <2>4
    <3> QED BY <2>2, <2>4, <3>1, <3>2
  <2> QED BY <1>g, <2>3, <2>4
<1>4. \A l \in Limiters : queue'[l] = IF l \in Q THEN Append(queue[l], c)
                                     ELSE IF l \in Called(c) THEN Tail(queue[l]) ELSE queue[l]
  BY DEF Goes, LineAfter
<1>t. ASSUME NEW l \in Limiters
      PROVE  /\ Append(queue[l], c) \in Seq(Calls) /\ Len(queue[l]) \in Nat
             /\ DOMAIN queue[l] = 1..Len(queue[l])
             /\ DOMAIN Append(queue[l], c) = 1..(Len(queue[l]) + 1)
             /\ \A i \in 1..Len(queue[l]) : Append(queue[l], c)[i] = queue[l][i]
             /\ Append(queue[l], c)[Len(queue[l]) + 1] = c
  <2>1. queue[l] \in Seq(Calls)
    BY <1>1
  <2> QED BY <2>1, AppendKeeps
<1>5. Typed'
  <2>0. \A p \in Phases : PhaseAfter(c, p) \in [Calls -> Phases]
    BY DEF IInv, Typed, Phases, PhaseAfter
  <2>1. phase' \in [Calls -> Phases] /\ at' \in [Calls -> Limiters]
    <3>1. phase' \in [Calls -> Phases]
      BY <1>g, <2>0 DEF Phases
    <3> QED BY <1>g, <3>1, CapacityAssumption DEF IInv, Typed
  <2>2. held' \in [Calls -> SUBSET Limiters]
    BY <1>g DEF IInv, Typed
  <2>3. value' \in [Limiters -> Nat]
    <3>1. ASSUME NEW l \in Limiters PROVE value'[l] \in Nat
      <4>1. /\ value'[l] = (value[l] - IF l \in T \cup Called(c) THEN 1 ELSE 0)
            /\ l \in T \cup Called(c) => value[l] # 0
        BY <1>1 DEF Goes, Busy
      <4>2. value[l] \in Nat
        BY DEF IInv, Typed
      <4> QED BY <4>1, <4>2
    <3> QED BY <3>1 DEF Goes
  <2>4. inUse' \in [Limiters -> Int] /\ waiting' \in [Limiters -> Int]
    <3>1. ASSUME NEW l \in Limiters
          PROVE  inUse'[l] \in Int /\ waiting'[l] \in Int
      <4>1. inUse[l] \in Int /\ waiting[l] \in Int
        BY DEF IInv, Typed
      <4>2. /\ inUse'[l] = inUse[l] + IF l \in T \cup L THEN 1 ELSE 0
            /\ waiting'[l] = waiting[l] + (IF l \in Q THEN 1 ELSE 0) - (IF l \in L THEN 1 ELSE 0)
        BY DEF Goes
      <4> QED BY <4>1, <4>2
    <3> QED BY <3>1 DEF Goes
  <2>5. queue' \in [Limiters -> Seq(Calls)]
    <3>1. ASSUME NEW l \in Limiters PROVE queue'[l] \in Seq(Calls)
      <4>1. CASE l \in Q
        <5>1. queue'[l] = Append(queue[l], c)
          BY <1>4, <4>1
        <5> QED BY <1>t, <5>1
      <4>2. CASE l \notin Q /\ l \in Called(c)
        BY <1>l, <4>2
      <4>3. CASE l \notin Q /\ l \notin Called(c)
        BY <1>1, <1>4, <4>3
      <4> QED BY <4>1, <4>2, <4>3
    <3> QED BY <3>1 DEF Goes
  <2> QED BY <2>1, <2>2, <2>3, <2>4, <2>5 DEF Typed
<1>6. QueueExact'
  <2>1. ASSUME NEW l \in Limiters, NEW j \in DOMAIN queue'[l]
        PROVE  /\ phase'[queue'[l][j]] = "queued" /\ at'[queue'[l][j]] = l
               /\ \A k \in DOMAIN queue'[l] : queue'[l][j] = queue'[l][k] => j = k
    <3>1. CASE l \in Q
      <4>1. /\ DOMAIN queue'[l] = 1..(Len(queue[l]) + 1) /\ DOMAIN queue[l] = 1..Len(queue[l])
            /\ Len(queue[l]) \in Nat
            /\ \A k \in DOMAIN queue[l] : queue'[l][k] = queue[l][k]
            /\ queue'[l][Len(queue[l]) + 1] = c
        BY <1>4, <1>t, <3>1
      <4>2. \A k \in DOMAIN queue'[l] : k \in DOMAIN queue[l] \/ k = Len(queue[l]) + 1
        BY <4>1
      <4>3. CASE j \in DOMAIN queue[l]
        <5>1. queue'[l][j] = queue[l][j] /\ queue[l][j] # c /\ queue[l][j] \in Calls
          BY <1>2, <4>1, <4>3
        <5>2. phase'[queue'[l][j]] = "queued" /\ at'[queue'[l][j]] = l
          <6>1. at[queue[l][j]] = l /\ phase[queue[l][j]] = "queued" /\ l \notin Called(c)
            BY <1>1, <1>2, <3>1, <4>3
          <6> QED BY <1>3, <5>1, <6>1 DEF heir
        <5>3. ASSUME NEW k \in DOMAIN queue'[l], queue'[l][j] = queue'[l][k] PROVE j = k
          <6>1. k \in DOMAIN queue[l]
            BY <4>1, <4>2, <5>1, <5>3
          <6> QED BY <1>2, <4>1, <4>3, <5>3, <6>1
        <5> QED BY <5>2, <5>3
      <4>4. CASE j = Len(queue[l]) + 1
        <5>1. queue'[l][j] = c /\ phase'[c] = "queued" /\ at'[c] = l
          BY <1>3, <3>1, <4>1, <4>4
        <5>2. ASSUME NEW k \in DOMAIN queue'[l], queue'[l][j] = queue'[l][k] PROVE j = k
          BY <1>2, <4>1, <4>2, <4>4, <5>1, <5>2
        <5> QED BY <5>1, <5>2
      <4> QED BY <4>2, <4>3, <4>4
    <3>2. CASE l \notin Q /\ l \notin Called(c)
      <4>1. queue'[l] = queue[l] /\ j \in DOMAIN queue[l]
        BY <1>4, <3>2
      <4>2. /\ queue[l][j] \in Calls /\ phase[queue[l][j]] = "queued" /\ at[queue[l][j]] = l
            /\ queue[l][j] # c
            /\ \A k \in DOMAIN queue[l] : queue[l][j] = queue[l][k] => j = k
        BY <1>2, <4>1
      <4>3. ~heir(queue[l][j])
        BY <3>2, <4>2 DEF heir
      <4> QED BY <1>3, <4>1, <4>2, <4>3
    <3>3. CASE l \notin Q /\ l \in Called(c)
      <4>1. /\ DOMAIN queue'[l] = 1..(Len(queue[l]) - 1) /\ DOMAIN queue[l] = 1..Len(queue[l])
            /\ \A k \in DOMAIN queue'[l] : queue'[l][k] = queue[l][k + 1]
            /\ Len(queue[l]) \in Nat
            /\ Head(queue[l]) = queue[l][1] /\ 1 \in DOMAIN queue[l]
        BY <1>l, <3>3
      <4>2. \A k \in DOMAIN queue'[l] : k \in Nat /\ k + 1 \in DOMAIN queue[l] /\ k + 1 # 1
        BY <4>1
      <4>3. queue'[l][j] = queue[l][j + 1] /\ queue[l][j + 1] # Head(queue[l])
        BY <1>2, <4>1, <4>2
      <4>4. /\ queue[l][j + 1] \in Calls /\ phase[queue[l][j + 1]] = "queued"
            /\ at[queue[l][j + 1]] = l /\ queue[l][j + 1] # c
        BY <1>2, <4>2
      <4>5. phase'[queue[l][j + 1]] = "queued" /\ at'[queue[l][j + 1]] = l
        BY <1>3, <4>3, <4>4 DEF heir
      <4>6. \A k \in DOMAIN queue'[l] : queue'[l][j] = queue'[l][k] => j = k
        <5> SUFFICES ASSUME NEW k \in DOMAIN queue'[l], queue'[l][j] = queue'[l][k] PROVE j = k
          OBVIOUS
        <5>1. queue[l][j + 1] = queue[l][k + 1]
          BY <4>1
        <5>2. j + 1 = k + 1
          BY <1>2, <4>2, <5>1
        <5> QED BY <4>2, <5>2
      <4> QED BY <4>3, <4>5, <4>6
    <3> QED BY <3>1, <3>2, <3>3
  <2>2. ASSUME NEW d \in Calls, phase'[d] = "queued"
        PROVE  \E j \in DOMAIN queue'[at'[d]] : queue'[at'[d]][j] = d
    <3>1. CASE d = c
      <4>1. Q = {at'[c]} /\ at'[c] \in Limiters
        BY <1>3, <2>2, <3>1
      <4>2. queue'[at'[c]] = Append(queue[at'[c]], c)
        BY <1>4, <4>1
      <4>3. /\ Len(queue[at'[c]]) + 1 \in DOMAIN queue'[at'[c]]
            /\ queue'[at'[c]][Len(queue[at'[c]]) + 1] = c
        BY <1>t, <4>1, <4>2
      <4> QED BY <3>1, <4>3
    <3>2. CASE d # c
      <4>1. phase[d] = "queued" /\ ~heir(d) /\ at'[d] = at[d] /\ at[d] \in Limiters
        BY <1>3, <2>2, <3>2 DEF IInv, Typed
      <4>2. PICK k \in DOMAIN queue[at[d]] : queue[at[d]][k] = d
        BY <4>1 DEF IInv, QueueExact
      <4>3. \E j \in DOMAIN queue'[at[d]] : queue'[at[d]][j] = queue[at[d]][k]
        <5>1. CASE at[d] \in Q
          <6>1. queue'[at[d]] = Append(queue[at[d]], c)
            BY <1>4, <4>1, <5>1
          <6>2. k \in 1..Len(queue[at[d]]) /\ k \in 1..(Len(queue[at[d]]) + 1)
            BY <1>t, <4>1, <4>2
          <6> QED BY <1>t, <4>1, <6>1, <6>2
        <5>2. CASE at[d] \notin Q /\ at[d] \notin Called(c)
          BY <1>4, <4>1, <4>2, <5>2
        <5>3. CASE at[d] \notin Q /\ at[d] \in Called(c)
          <6>1. /\ DOMAIN queue'[at[d]] = 1..(Len(queue[at[d]]) - 1)
                /\ DOMAIN queue[at[d]] = 1..Len(queue[at[d]]) /\ Len(queue[at[d]]) \in Nat
                /\ \A j \in DOMAIN queue'[at[d]] : queue'[at[d]][j] = queue[at[d]][j + 1]
                /\ Head(queue[at[d]]) = queue[at[d]][1]
            BY <1>l, <4>1, <5>3
          <6>2. k # 1
            BY <4>1, <4>2, <5>3, <6>1 DEF heir
          <6>3. k - 1 \in DOMAIN queue'[at[d]] /\ (k - 1) + 1 = k
            BY <6>1, <6>2
          <6> QED BY <6>1, <6>3
        <5> QED BY <5>1, <5>2, <5>3
      <4> QED BY <4>1, <4>2, <4>3
    <3> QED BY <3>1, <3>2
  <2> QED BY <2>1, <2>2 DEF QueueExact
<1>7. HeldInOrder'
  <2>1. ASSUME NEW d \in Calls, d # c
        PROVE  /\ at'[d] = at[d] /\ held'[d] = held[d]
               /\ phase'[d] = phase[d] \/ (phase'[d] = "granted" /\ phase[d] = "queued")
    BY <1>3, <1>j, <2>1
  <2>2. \/ phase'[c] \in {"leased", "calling"} /\ held'[c] = {SourceOf[c], Global}
        \/ phase'[c] = "queued" /\ held'[c] = {} /\ at'[c] = SourceOf[c]
        \/ /\ phase'[c] = "queued" /\ held'[c] = {SourceOf[c]} /\ at'[c] = Global
           /\ SourceOf[c] # Global
    BY <1>3 DEF Goes
  <2> QED BY <2>1, <2>2 DEF IInv, HeldInOrder, InLine
<1>8. ASSUME NEW l \in Limiters PROVE Move(l, c)
  <2>1. /\ value'[l] = value[l] - IF l \in T \cup Called(c) THEN 1 ELSE 0
        /\ inUse'[l] = inUse[l] + IF l \in T \cup L THEN 1 ELSE 0
        /\ waiting'[l] = waiting[l] + (IF l \in Q THEN 1 ELSE 0) - (IF l \in L THEN 1 ELSE 0)
        /\ value[l] \in Int /\ inUse[l] \in Int /\ waiting[l] \in Int
    BY DEF Goes, IInv, Typed
  <2>2. /\ c \in Granted(l) <=> l \in L
        /\ c \in Waiters(l) <=> l \in L
        /\ c \in Holders(l) <=> l \in held[c]
    BY DEF Granted, Waiters, Holders, InLine
  <2>3. /\ c \notin Granted(l)'
        /\ c \in Waiters(l)' <=> l \in Q
        /\ c \in Holders(l)' <=> l \in held[c] \cup T \cup L
    BY <1>3 DEF Granted, Waiters, Holders, InLine
  <2> DEFINE heirs == IF l \in Called(c) THEN {Head(queue[l])} ELSE {}
  <2>h. (\A d \in Calls : heir(d) /\ at[d] = l <=> d \in heirs) /\ heirs \subseteq Calls
    <3>1. l \in Called(c) => /\ Head(queue[l]) \in Calls /\ at[Head(queue[l])] = l
      BY <1>1, <1>h
    <3> QED BY <3>1 DEF heir
  <2>4. \A d \in Calls : d # c => /\ d \in Granted(l)' <=> d \in Granted(l) \/ d \in heirs
                                  /\ d \in Waiters(l)' <=> d \in Waiters(l)
                                  /\ d \in Holders(l)' <=> d \in Holders(l)
    <3> HIDE DEF heirs
    <3> QED BY <1>3, <1>j, <2>h DEF Granted, Waiters, Holders, InLine
  <2>5. /\ Granted(l)' \subseteq Calls /\ Waiters(l)' \subseteq Calls /\ Holders(l)' \subseteq Calls
        /\ Granted(l) \subseteq Calls /\ Waiters(l) \subseteq Calls /\ Holders(l) \subseteq Calls
    BY DEF Granted, Waiters, Holders
  <2>6. l \in held[c] /\ phase[c] = "granted" => l \notin L
    BY DEF IInv, HeldInOrder, InLine
  <2>7. c \notin Pool!Waiting(l)
    BY <1>2 DEF Pool!Waiting
  <2>8. CASE l \in T
    <3>1. l \notin L /\ l \notin Q /\ l \notin held[c] /\ ~Busy(l) /\ l \notin Called(c)
      BY <1>1, <2>8 DEF Goes
    <3>2. Members(l, Granted(l), Holders(l) \cup {c}, Waiters(l))
      BY <2>2, <2>3, <2>4, <2>5, <2>8, <3>1 DEF Members
    <3>3. Gauges(l, -1, 1, 0)
      BY <2>1, <2>8, <3>1 DEF Gauges
    <3> QED BY <1>4, <2>2, <2>7, <3>1, <3>2, <3>3 DEF Move, Take
  <2>12. CASE l \in Called(c)
    <3>1. l \in L /\ l \notin T /\ l \notin Q /\ l \notin held[c]
      BY <1>1, <2>6, <2>12
    <3>2. /\ queue[l] # <<>> /\ value[l] # 0 /\ queue'[l] = Tail(queue[l])
          /\ phase[Head(queue[l])] = "queued" /\ Head(queue[l]) \in Calls
          /\ at[Head(queue[l])] = l
      BY <1>1, <1>4, <1>h, <2>1, <2>12, <3>1
    <3>3. Head(queue[l]) \notin Granted(l) \cup Holders(l) /\ Head(queue[l]) # c
      BY <1>1, <3>2 DEF Granted, Holders, IInv, HeldInOrder, InLine
    <3>4. Members(l, (Granted(l) \ {c}) \cup {Head(queue[l])}, Holders(l) \cup {c}, Waiters(l) \ {c})
      BY <2>2, <2>3, <2>4, <2>5, <2>h, <2>12, <3>1, <3>3 DEF Members
    <3>5. Gauges(l, -1, 1, -1)
      BY <2>1, <2>12, <3>1 DEF Gauges
    <3> QED BY <2>2, <3>1, <3>2, <3>3, <3>4, <3>5 DEF Move, LandAndCall
  <2>9. CASE l \in L /\ l \notin Called(c)
    <3>1. l \notin T /\ l \notin Q /\ l \notin held[c]
      BY <2>6, <2>9
    <3>0. value[l] = 0 \/ queue[l] = <<>>
      <4>1. value[l] \in Nat
        BY DEF IInv, Typed
      <4> QED BY <2>9, <4>1 DEF Called
    <3>2. Members(l, Granted(l) \ {c}, Holders(l) \cup {c}, Waiters(l) \ {c})
      BY <2>2, <2>3, <2>4, <2>5, <2>9, <3>1 DEF Members
    <3>3. Gauges(l, 0, 1, -1)
      BY <2>1, <2>9, <3>1 DEF Gauges
    <3> QED BY <1>4, <2>2, <2>9, <3>0, <3>1, <3>2, <3>3 DEF Move, Land
  <2>10. CASE l \in Q
    <3>1. l \notin T /\ l \notin L /\ l \notin held[c] /\ Busy(l) /\ l \notin Called(c)
      BY <1>1, <2>10 DEF Goes
    <3>2. Members(l, Granted(l), Holders(l), Waiters(l) \cup {c})
      BY <2>2, <2>3, <2>4, <2>5, <2>10, <3>1 DEF Members
    <3>3. Gauges(l, 0, 0, 1)
      BY <2>1, <2>10, <3>1 DEF Gauges
    <3> QED BY <1>4, <2>2, <2>7, <2>10, <3>1, <3>2, <3>3 DEF Move, Line
  <2>11. CASE l \notin T \cup L \cup Q
    <3>0. l \notin Called(c)
      BY <1>1, <2>11
    <3>1. Granted(l)' = Granted(l) /\ Holders(l)' = Holders(l) /\ Waiters(l)' = Waiters(l)
      BY <2>2, <2>3, <2>4, <2>5, <2>11, <3>0
    <3>2. value'[l] = value[l] /\ inUse'[l] = inUse[l] /\ waiting'[l] = waiting[l]
      BY <2>1, <2>11, <3>0
    <3>3. queue'[l] = queue[l]
      BY <1>4, <2>11, <3>0
    <3> QED BY <3>1, <3>2, <3>3, LeftAlone DEF Move, IInv
  <2> QED BY <2>8, <2>9, <2>10, <2>11, <2>12
<1> QED BY <1>5, <1>6, <1>7, <1>8 DEF Kept

\* What AcquireFrom does, limiter by limiter: it takes the limiters of `taken', and comes to
\* the end or queues at `next'.
Takes(c, u, taken) ==
    /\ \A l \in Limiters : /\ value'[l] = value[l] - IF l \in taken \cup Called(c) THEN 1 ELSE 0
                           /\ inUse'[l] = u[l] + IF l \in taken THEN 1 ELSE 0
    /\ value' = [l \in Limiters |-> value'[l]] /\ inUse' = [l \in Limiters |-> inUse'[l]]
Finishes(c, u, w, taken, had) ==
    /\ Takes(c, u, taken) /\ waiting' = w /\ queue' = LineAfter(c)
    /\ held' = [held EXCEPT ![c] = had] /\ at' = at
    /\ phase' = PhaseAfter(c, IF c \in Timed THEN "leased" ELSE "calling")
Queues(c, u, w, taken, had, next) ==
    /\ Takes(c, u, taken)
    /\ waiting' = [w EXCEPT ![next] = w[next] + 1]
    /\ queue' = [LineAfter(c) EXCEPT ![next] = Append(LineAfter(c)[next], c)]
    /\ held' = [held EXCEPT ![c] = had] /\ at' = [at EXCEPT ![c] = next]
    /\ phase' = PhaseAfter(c, "queued")

\* acquire meets the first busy limiter of those from number n on, if there is one.
LEMMA AcquireStops ==
    ASSUME NEW c \in Calls, NEW u, NEW w, NEW e \in 2..3, e = Len(LimitersOf(c)) + 1,
           Len(LimitersOf(c)) \in Nat, NEW n \in 1..e, AcquireFrom(c, n, u, w)
    PROVE  \E stop \in n..e :
               /\ \A k \in n..(stop - 1) : ~Busy(LimitersOf(c)[k])
               /\ stop = e => Finishes(c, u, w, {LimitersOf(c)[k] : k \in n..(stop - 1)},
                                       {LimitersOf(c)[k] : k \in 1..(stop - 1)})
               /\ stop # e => /\ Busy(LimitersOf(c)[stop])
                              /\ Queues(c, u, w, {LimitersOf(c)[k] : k \in n..(stop - 1)},
                                        {LimitersOf(c)[k] : k \in 1..(stop - 1)},
                                        LimitersOf(c)[stop])
<1> DEFINE ls    == LimitersOf(c)
           busy  == {k \in n..Len(ls) : Busy(ls[k])}
           stop  == IF busy = {} THEN Len(ls) + 1 ELSE CHOOSE k \in busy : \A j \in busy : k <= j
           taken == {ls[k] : k \in n..(stop - 1)}
           had   == {ls[k] : k \in 1..(stop - 1)}
<1>1. /\ value' = [l \in Limiters |-> value[l] - IF l \in taken \cup Called(c) THEN 1 ELSE 0]
      /\ inUse' = [l \in Limiters |-> u[l] + IF l \in taken THEN 1 ELSE 0]
      /\ held' = [held EXCEPT ![c] = had]
      /\ busy = {} => /\ phase' = PhaseAfter(c, IF c \in Timed THEN "leased" ELSE "calling")
                      /\ waiting' = w /\ queue' = LineAfter(c) /\ UNCHANGED at
      /\ busy # {} => /\ phase' = PhaseAfter(c, "queued")
                      /\ waiting' = [w EXCEPT ![ls[stop]] = w[ls[stop]] + 1]
                      /\ queue' = [LineAfter(c) EXCEPT ![ls[stop]] =
                                      Append(LineAfter(c)[ls[stop]], c)]
                      /\ at' = [at EXCEPT ![c] = ls[stop]]
  BY DEF AcquireFrom
<1>2. \A k : k \in busy <=> k \in n..(e - 1) /\ Busy(ls[k])
  OBVIOUS
<1>3. \A k \in n..(e - 1) : k = 1 \/ k = 2
  OBVIOUS
<1> HIDE DEF busy
<1>4. busy = {} => stop = e
  OBVIOUS
<1>5. busy # {} => stop \in busy /\ \A j \in busy : stop <= j
  <2> SUFFICES ASSUME busy # {} PROVE stop \in busy /\ \A j \in busy : stop <= j
    OBVIOUS
  <2>1. \E k \in busy : \A j \in busy : k <= j
    <3>1. CASE 1 \in busy
      BY <1>2, <1>3, <3>1
    <3>2. CASE 1 \notin busy
      BY <1>2, <1>3, <3>2
    <3> QED BY <3>1, <3>2
  <2>2. stop = CHOOSE k \in busy : \A j \in busy : k <= j
    OBVIOUS
  <2> HIDE DEF stop
  <2> QED BY <2>1, <2>2
<1> HIDE DEF stop, ls
<1>6. stop \in n..e /\ (stop = e <=> busy = {})
  BY <1>2, <1>4, <1>5
<1>7. \A k \in n..(stop - 1) : ~Busy(ls[k])
  <2> SUFFICES ASSUME NEW k \in n..(stop - 1), Busy(ls[k]) PROVE FALSE
    OBVIOUS
  <2>1. k \in busy
    BY <1>2, <1>6
  <2> QED BY <1>5, <1>6, <2>1
<1>8. stop # e => Busy(ls[stop])
  BY <1>2, <1>5, <1>6
<1> HIDE DEF taken, had
<1>9. Takes(c, u, taken)
  BY <1>1 DEF Takes
<1>10. stop = e => Finishes(c, u, w, taken, had)
  BY <1>1, <1>6, <1>9 DEF Finishes
<1>11. stop # e => Queues(c, u, w, taken, had, ls[stop])
  BY <1>1, <1>6, <1>9 DEF Queues
<1> QED BY <1>6, <1>7, <1>8, <1>10, <1>11 DEF ls, taken, had

\* The gauges u and w of a call that comes with the slots of L.
Landed(c, u, w, L) ==
    /\ \A l \in Limiters : /\ u[l] = inUse[l] + IF l \in L THEN 1 ELSE 0
                           /\ w[l] = waiting[l] - IF l \in L THEN 1 ELSE 0
    /\ \/ phase[c] = "created" /\ L = {}
       \/ phase[c] = "granted" /\ L = {at[c]}

\* Either way the step is one of GoesOn's.
LEMMA FinishesKept ==
    ASSUME IInv, NEW c \in Calls, NEW L \in SUBSET Limiters, NEW T \in SUBSET Limiters,
           NEW u, NEW w \in [Limiters -> Int],
           Landed(c, u, w, L),
           Finishes(c, u, w, T, {SourceOf[c], Global}),
           held[c] \cup T \cup L = {SourceOf[c], Global},
           T \cap (held[c] \cup L) = {}, \A l \in T : ~Busy(l)
    PROVE  Kept(c)
<1>1. \A l \in Limiters : inUse[l] \in Int /\ waiting[l] \in Int
  BY DEF IInv, Typed
<1>2. ASSUME NEW l \in Limiters
      PROVE  /\ value'[l] = value[l] - IF l \in T \cup Called(c) THEN 1 ELSE 0
             /\ inUse'[l] = inUse[l] + IF l \in T \cup L THEN 1 ELSE 0
             /\ waiting'[l] = waiting[l] + (IF l \in {} THEN 1 ELSE 0) - (IF l \in L THEN 1 ELSE 0)
             /\ queue'[l] = IF l \in {} THEN Append(queue[l], c) ELSE LineAfter(c)[l]
  <2>1. /\ value'[l] = value[l] - IF l \in T \cup Called(c) THEN 1 ELSE 0
        /\ inUse'[l] = u[l] + IF l \in T THEN 1 ELSE 0
        /\ waiting'[l] = w[l] /\ queue'[l] = LineAfter(c)[l]
    BY DEF Finishes, Takes
  <2>2. /\ inUse[l] \in Int /\ waiting[l] \in Int /\ ~(l \in T /\ l \in L)
        /\ u[l] = inUse[l] + IF l \in L THEN 1 ELSE 0
        /\ w[l] = waiting[l] - IF l \in L THEN 1 ELSE 0
    BY <1>1 DEF Landed
  <2> QED BY <2>1, <2>2
<1>3. /\ value' = [l \in Limiters |-> value'[l]] /\ inUse' = [l \in Limiters |-> inUse'[l]]
      /\ waiting' = [l \in Limiters |-> waiting'[l]] /\ queue' = [l \in Limiters |-> queue'[l]]
      /\ held' = [held EXCEPT ![c] = held[c] \cup T \cup L] /\ at' = at
      /\ phase' = PhaseAfter(c, IF c \in Timed THEN "leased" ELSE "calling")
  BY DEF Finishes, Takes, IInv, Typed, LineAfter
<1>4. Goes(c, L, T, {})
  BY <1>2, <1>3 DEF Goes
<1> QED BY <1>4, GoesOn DEF Landed

\* So does one that goes through acquire as far as it can and queues at the next limiter.
LEMMA QueuesKept ==
    ASSUME IInv, NEW c \in Calls, NEW L \in SUBSET Limiters, NEW T \in SUBSET Limiters,
           NEW u, NEW w \in [Limiters -> Int], NEW next \in Limiters, NEW had,
           Landed(c, u, w, L),
           Queues(c, u, w, T, had, next), had = held[c] \cup T \cup L,
           \/ next = SourceOf[c] /\ had = {}
           \/ next = Global /\ had = {SourceOf[c]} /\ SourceOf[c] # Global,
           T \cap (held[c] \cup L) = {}, \A l \in T : ~Busy(l), Busy(next)
    PROVE  Kept(c)
<1>1. \A l \in Limiters : inUse[l] \in Int /\ waiting[l] \in Int
  BY DEF IInv, Typed
<1>2. ASSUME NEW l \in Limiters
      PROVE  /\ value'[l] = value[l] - IF l \in T \cup Called(c) THEN 1 ELSE 0
             /\ inUse'[l] = inUse[l] + IF l \in T \cup L THEN 1 ELSE 0
             /\ waiting'[l] = waiting[l] + (IF l \in {next} THEN 1 ELSE 0) - (IF l \in L THEN 1 ELSE 0)
             /\ queue'[l] = IF l \in {next} THEN Append(queue[l], c) ELSE LineAfter(c)[l]
  <2>0. DOMAIN LineAfter(c) = Limiters /\ LineAfter(c)[next] = queue[next]
    <3>1. next \notin Called(c)
      BY DEF Called, Landed
    <3> QED BY <3>1 DEF LineAfter
  <2>1. /\ value'[l] = value[l] - IF l \in T \cup Called(c) THEN 1 ELSE 0
        /\ inUse'[l] = u[l] + IF l \in T THEN 1 ELSE 0
        /\ waiting'[l] = IF l = next THEN w[l] + 1 ELSE w[l]
        /\ queue'[l] = IF l = next THEN Append(queue[l], c) ELSE LineAfter(c)[l]
    BY <2>0 DEF Queues, Takes, IInv, Typed
  <2>2. /\ inUse[l] \in Int /\ waiting[l] \in Int /\ ~(l \in T /\ l \in L)
        /\ u[l] = inUse[l] + IF l \in L THEN 1 ELSE 0
        /\ w[l] = waiting[l] - IF l \in L THEN 1 ELSE 0
    BY <1>1 DEF Landed
  <2> QED BY <2>1, <2>2
<1>3. /\ value' = [l \in Limiters |-> value'[l]] /\ inUse' = [l \in Limiters |-> inUse'[l]]
      /\ waiting' = [l \in Limiters |-> waiting'[l]] /\ queue' = [l \in Limiters |-> queue'[l]]
      /\ held' = [held EXCEPT ![c] = held[c] \cup T \cup L] /\ at' = [at EXCEPT ![c] = next]
      /\ phase' = PhaseAfter(c, "queued")
  BY DEF Queues, Takes, IInv, Typed, LineAfter
<1>4. Goes(c, L, T, {next})
  BY <1>2, <1>3 DEF Goes
<1>5. {next} \cap (held[c] \cup L \cup T) = {}
  OBVIOUS
<1> QED BY <1>4, <1>5, GoesOn DEF Landed

\* A call that acquires for the first time.
LEMMA Acquires ==
    ASSUME IInv, NEW c \in Calls, Acquire(c)
    PROVE  Kept(c)
<1> DEFINE s == SourceOf[c]  ls == LimitersOf(c)  L == {}
<1>1. /\ s \in Limiters /\ Global \in Limiters /\ phase[c] = "created" /\ held[c] = {}
      /\ AcquireFrom(c, 1, inUse, waiting) /\ waiting \in [Limiters -> Int]
  BY CapacityAssumption DEF Acquire, IInv, HeldInOrder, Typed
<1>2. Landed(c, inUse, waiting, L) /\ L \in SUBSET Limiters /\ L = {}
  BY <1>1 DEF Landed, IInv, Typed
<1> HIDE DEF L
<1>f. ASSUME NEW T \in SUBSET Limiters, Finishes(c, inUse, waiting, T, {s, Global}),
             T = {s, Global}, \A l \in T : ~Busy(l)
      PROVE  Kept(c)
  <2>1. held[c] \cup T \cup L = {SourceOf[c], Global} /\ T \cap (held[c] \cup L) = {}
    BY <1>1, <1>2, <1>f
  <2> QED BY <1>1, <1>2, <1>f, <2>1, FinishesKept
<1>q. ASSUME NEW T \in SUBSET Limiters, NEW next \in Limiters,
             Queues(c, inUse, waiting, T, T, next), \A l \in T : ~Busy(l), Busy(next),
             \/ next = SourceOf[c] /\ T = {}
             \/ next = Global /\ T = {SourceOf[c]} /\ SourceOf[c] # Global
      PROVE  Kept(c)
  <2>1. T = held[c] \cup T \cup L /\ T \cap (held[c] \cup L) = {}
    BY <1>1, <1>2
  <2> QED BY <1>1, <1>2, <1>q, <2>1, QueuesKept
<1>3. CASE s = Global
  <2>1. ls[1] = Global /\ Len(ls) = 1
    BY <1>3 DEF LimitersOf
  <2>a. 2 \in 2..3 /\ 2 = Len(ls) + 1 /\ Len(ls) \in Nat /\ 1 \in 1..2
    BY <2>1
  <2> HIDE DEF ls
  <2>2. PICK stop \in 1..2 :
          /\ \A k \in 1..(stop - 1) : ~Busy(ls[k])
          /\ stop = 2 => Finishes(c, inUse, waiting, {ls[k] : k \in 1..(stop - 1)},
                                  {ls[k] : k \in 1..(stop - 1)})
          /\ stop # 2 => /\ Busy(ls[stop])
                         /\ Queues(c, inUse, waiting, {ls[k] : k \in 1..(stop - 1)},
                                   {ls[k] : k \in 1..(stop - 1)}, ls[stop])
    BY <1>1, <2>a, AcquireStops, Zenon DEF ls
  <2>3. CASE stop = 1
    <3>1. {ls[k] : k \in 1..(stop - 1)} = {}
      BY <2>3
    <3>2. Queues(c, inUse, waiting, {}, {}, s) /\ Busy(s)
      BY <1>3, <2>1, <2>2, <2>3, <3>1
    <3> QED BY <1>1, <1>q, <3>2
  <2>4. CASE stop = 2
    <3>1. {ls[k] : k \in 1..(stop - 1)} = {s, Global} /\ ~Busy(Global)
      BY <1>3, <2>1, <2>2, <2>4
    <3>2. Finishes(c, inUse, waiting, {s, Global}, {s, Global})
      BY <2>2, <2>4, <3>1
    <3> QED BY <1>1, <1>f, <1>3, <3>1, <3>2
  <2> QED BY <2>3, <2>4
<1>4. CASE s # Global
  <2>1. ls[1] = s /\ ls[2] = Global /\ Len(ls) = 2
    BY <1>4 DEF LimitersOf
  <2>a. 3 \in 2..3 /\ 3 = Len(ls) + 1 /\ Len(ls) \in Nat /\ 1 \in 1..3
    BY <2>1
  <2> HIDE DEF ls
  <2>2. PICK stop \in 1..3 :
          /\ \A k \in 1..(stop - 1) : ~Busy(ls[k])
          /\ stop = 3 => Finishes(c, inUse, waiting, {ls[k] : k \in 1..(stop - 1)},
                                  {ls[k] : k \in 1..(stop - 1)})
          /\ stop # 3 => /\ Busy(ls[stop])
                         /\ Queues(c, inUse, waiting, {ls[k] : k \in 1..(stop - 1)},
                                   {ls[k] : k \in 1..(stop - 1)}, ls[stop])
    BY <1>1, <2>a, AcquireStops, Zenon DEF ls
  <2>3. CASE stop = 1
    <3>1. {ls[k] : k \in 1..(stop - 1)} = {}
      BY <2>3
    <3>2. Queues(c, inUse, waiting, {}, {}, s) /\ Busy(s)
      BY <2>1, <2>2, <2>3, <3>1
    <3> QED BY <1>1, <1>q, <3>2
  <2>4. CASE stop = 2
    <3>1. {ls[k] : k \in 1..(stop - 1)} = {s} /\ ~Busy(s)
      BY <2>1, <2>2, <2>4
    <3>2. Queues(c, inUse, waiting, {s}, {s}, Global) /\ Busy(Global)
      BY <2>1, <2>2, <2>4, <3>1
    <3> QED BY <1>1, <1>4, <1>q, <3>1, <3>2
  <2>5. CASE stop = 3
    <3>1. {ls[k] : k \in 1..(stop - 1)} = {s, Global} /\ ~Busy(s) /\ ~Busy(Global)
      BY <2>1, <2>2, <2>5
    <3>2. Finishes(c, inUse, waiting, {s, Global}, {s, Global})
      BY <2>2, <2>5, <3>1
    <3> QED BY <1>1, <1>f, <3>1, <3>2
  <2> QED BY <2>3, <2>4, <2>5
<1> QED BY <1>3, <1>4

\* A call that goes on with the slot it was granted.
LEMMA Resumes ==
    ASSUME IInv, NEW c \in Calls, Resume(c)
    PROVE  Kept(c)
<1> DEFINE s == SourceOf[c]  ls == LimitersOf(c)  L == {at[c]}
           u == [inUse EXCEPT ![at[c]] = @ + 1]
           w == [waiting EXCEPT ![at[c]] = @ - 1]
           n == CHOOSE k \in DOMAIN ls : ls[k] = at[c]
<1>1. /\ s \in Limiters /\ Global \in Limiters /\ at[c] \in Limiters /\ phase[c] = "granted"
      /\ \/ held[c] = {} /\ at[c] = s
         \/ held[c] = {s} /\ at[c] = Global /\ s # Global
      /\ AcquireFrom(c, n + 1, u, w)
  BY CapacityAssumption DEF Resume, IInv, HeldInOrder, InLine, Typed
<1>2. Landed(c, u, w, L) /\ L \in SUBSET Limiters /\ L = {at[c]} /\ w \in [Limiters -> Int]
  BY <1>1 DEF Landed, IInv, Typed
<1> HIDE DEF L, u, w
<1>f. ASSUME NEW T \in SUBSET Limiters, Finishes(c, u, w, T, {s, Global}),
             held[c] \cup T \cup L = {s, Global}, T \cap (held[c] \cup L) = {},
             \A l \in T : ~Busy(l)
      PROVE  Kept(c)
  BY <1>1, <1>2, <1>f, FinishesKept
<1>3. CASE s = Global
  <2>1. ls[1] = Global /\ Len(ls) = 1 /\ DOMAIN ls = {1}
    BY <1>3 DEF LimitersOf
  <2>2. n + 1 = 2
    <3> HIDE DEF ls
    <3> QED BY <1>1, <1>3, <2>1
  <2>a. 2 \in 2..3 /\ 2 = Len(ls) + 1 /\ Len(ls) \in Nat /\ 2 \in 1..2
    BY <2>1
  <2> HIDE DEF ls, n
  <2>3. AcquireFrom(c, 2, u, w)
    BY <1>1, <2>2
  <2>4. PICK stop \in 2..2 :
          stop = 2 => Finishes(c, u, w, {ls[k] : k \in 2..(stop - 1)}, {ls[k] : k \in 1..(stop - 1)})
    BY <2>3, <2>a, AcquireStops, Zenon DEF ls
  <2>5. {ls[k] : k \in 2..(stop - 1)} = {} /\ {ls[k] : k \in 1..(stop - 1)} = {s, Global}
    BY <1>3, <2>1
  <2>6. Finishes(c, u, w, {}, {s, Global})
    BY <2>4, <2>5
  <2>7. held[c] \cup {} \cup L = {s, Global}
    BY <1>1, <1>2, <1>3
  <2> QED BY <1>f, <2>6, <2>7
<1>4. CASE s # Global /\ at[c] = s
  <2>1. ls[1] = s /\ ls[2] = Global /\ Len(ls) = 2 /\ DOMAIN ls = {1, 2}
    BY <1>4 DEF LimitersOf
  <2>2. n + 1 = 2
    <3> HIDE DEF ls
    <3>1. \A k \in DOMAIN ls : ls[k] = at[c] <=> k = 1
      BY <1>4, <2>1
    <3> QED BY <2>1, <3>1
  <2>a. 3 \in 2..3 /\ 3 = Len(ls) + 1 /\ Len(ls) \in Nat /\ 2 \in 1..3
    BY <2>1
  <2> HIDE DEF ls, n
  <2>3. AcquireFrom(c, 2, u, w)
    BY <1>1, <2>2
  <2>4. PICK stop \in 2..3 :
          /\ \A k \in 2..(stop - 1) : ~Busy(ls[k])
          /\ stop = 3 => Finishes(c, u, w, {ls[k] : k \in 2..(stop - 1)},
                                  {ls[k] : k \in 1..(stop - 1)})
          /\ stop # 3 => /\ Busy(ls[stop])
                         /\ Queues(c, u, w, {ls[k] : k \in 2..(stop - 1)},
                                   {ls[k] : k \in 1..(stop - 1)}, ls[stop])
    BY <2>3, <2>a, AcquireStops, Zenon DEF ls
  <2>5. CASE stop = 2
    <3>1. {ls[k] : k \in 2..(stop - 1)} = {} /\ {ls[k] : k \in 1..(stop - 1)} = {s}
      BY <2>1, <2>5
    <3>2. Queues(c, u, w, {}, {s}, Global) /\ Busy(Global)
      BY <2>1, <2>4, <2>5, <3>1
    <3>3. {s} = held[c] \cup {} \cup L /\ {} \cap (held[c] \cup L) = {}
      BY <1>1, <1>2, <1>4
    <3> QED BY <1>1, <1>2, <1>4, <3>2, <3>3, QueuesKept
  <2>6. CASE stop = 3
    <3>1. /\ {ls[k] : k \in 2..(stop - 1)} = {Global} /\ {ls[k] : k \in 1..(stop - 1)} = {s, Global}
          /\ ~Busy(Global)
      BY <2>1, <2>4, <2>6
    <3>2. Finishes(c, u, w, {Global}, {s, Global})
      BY <2>4, <2>6, <3>1
    <3>3. held[c] \cup {Global} \cup L = {s, Global} /\ {Global} \cap (held[c] \cup L) = {}
      BY <1>1, <1>2, <1>4
    <3> QED BY <1>1, <1>f, <3>1, <3>2, <3>3
  <2> QED BY <2>5, <2>6
<1>5. CASE s # Global /\ at[c] # s
  <2>0. held[c] = {s} /\ at[c] = Global
    BY <1>1, <1>5
  <2>1. ls[1] = s /\ ls[2] = Global /\ Len(ls) = 2 /\ DOMAIN ls = {1, 2}
    BY <1>5 DEF LimitersOf
  <2>2. n + 1 = 3
    <3> HIDE DEF ls
    <3>1. \A k \in DOMAIN ls : ls[k] = at[c] <=> k = 2
      BY <1>5, <2>0, <2>1
    <3> QED BY <2>1, <3>1
  <2>a. 3 \in 2..3 /\ 3 = Len(ls) + 1 /\ Len(ls) \in Nat /\ 3 \in 1..3
    BY <2>1
  <2> HIDE DEF ls, n
  <2>3. AcquireFrom(c, 3, u, w)
    BY <1>1, <2>2
  <2>4. PICK stop \in 3..3 :
          stop = 3 => Finishes(c, u, w, {ls[k] : k \in 3..(stop - 1)}, {ls[k] : k \in 1..(stop - 1)})
    BY <2>3, <2>a, AcquireStops, Zenon DEF ls
  <2>5. {ls[k] : k \in 3..(stop - 1)} = {} /\ {ls[k] : k \in 1..(stop - 1)} = {s, Global}
    BY <2>1
  <2>6. Finishes(c, u, w, {}, {s, Global})
    BY <2>4, <2>5
  <2>7. held[c] \cup {} \cup L = {s, Global}
    BY <1>2, <2>0
  <2> QED BY <1>f, <2>6, <2>7
<1> QED BY <1>3, <1>4, <1>5

-----------------------------------------------------------------------------
\* Every step is a step of one call, and each limiter sees one move of it.
LEMMA NextKept ==
    ASSUME IInv, Next
    PROVE  \E c \in Calls : Kept(c)
<1>1. PICK c \in Calls : Begin(c) \/ Run(c) \/ TimedOut(c) \/ CancelOuter(c)
  BY DEF Next
<1>2. ASSUME CancelInner(c), UNCHANGED <<at, held, value, inUse, waiting>> PROVE Kept(c)
  <2>1. CASE phase[c] = "created" /\ phase' = [phase EXCEPT ![c] = "done"] /\ UNCHANGED queue
    BY <1>2, <2>1, MovesOn
  <2>2. CASE /\ phase[c] = "queued" /\ phase' = [phase EXCEPT ![c] = "withdrawn"]
             /\ \E i \in DOMAIN queue[at[c]] :
                  queue[at[c]][i] = c /\ queue' = [queue EXCEPT ![at[c]] = RemoveAt(@, i)]
    BY <1>2, <2>2, Quits
  <2>3. CASE phase[c] = "granted" /\ phase' = [phase EXCEPT ![c] = "refunding"] /\ UNCHANGED queue
    BY <1>2, <2>3, MovesOn
  <2> QED BY <1>2, <2>1, <2>2, <2>3 DEF CancelInner
<1>3. CASE Begin(c)
  BY <1>3, MovesOn DEF Begin
<1>4. CASE TimedOut(c)
  BY <1>2, <1>4 DEF TimedOut
<1>5. CASE CancelOuter(c)
  <2>1. CASE CancelInner(c)
    BY <1>2, <1>5, <2>1 DEF CancelOuter
  <2>2. CASE phase[c] = "leased" /\ phase' = [phase EXCEPT ![c] = "lost"] /\ UNCHANGED queue
    BY <1>5, <2>2, MovesOn DEF CancelOuter
  <2> QED BY <1>5, <2>1, <2>2 DEF CancelOuter
<1>6. CASE TakeLease(c)
  BY <1>6, MovesOn DEF TakeLease
<1>7. CASE Acquire(c)
  BY <1>7, Acquires
<1>8. CASE Resume(c)
  BY <1>8, Resumes
<1>9. CASE Withdraw(c)
  <2>1. held[c] = held[c] \cup (IF phase[c] = "refunding" THEN {at[c]} ELSE {})
    BY <1>9 DEF Withdraw
  <2> QED BY <1>9, <2>1, GivesBack DEF Withdraw
<1>10. CASE Refund(c)
  <2>1. held[c] \cup {at[c]} = held[c] \cup (IF phase[c] = "refunding" THEN {at[c]} ELSE {})
    BY <1>10 DEF Refund
  <2> QED BY <1>10, <2>1, GivesBack DEF Refund
<1>11. CASE Release(c)
  <2>1. held[c] = held[c] \cup (IF phase[c] = "refunding" THEN {at[c]} ELSE {})
    BY <1>11 DEF Release
  <2> QED BY <1>11, <2>1, GivesBack DEF Release
<1> QED BY <1>1, <1>3, <1>4, <1>5, <1>6, <1>7, <1>8, <1>9, <1>10, <1>11 DEF Run

\* The inductive invariant holds initially and every step keeps it.
LEMMA InitEstablishes == Init => IInv
<1> SUFFICES ASSUME Init PROVE IInv
  OBVIOUS
<1>1. <<>> \in Seq(Calls)
  OBVIOUS
<1>2. Typed
  BY <1>1, CapacityAssumption DEF Init, Typed, Phases
<1>3. QueueExact
  BY DEF Init, QueueExact
<1>4. HeldInOrder
  BY DEF Init, HeldInOrder, InLine
<1>5. ASSUME NEW l \in Limiters PROVE Accounts(l)
  <2>1. Granted(l) = {} /\ Holders(l) = {} /\ Waiters(l) = {}
    BY DEF Init, Granted, Holders, Waiters, InLine
  <2>2. Cardinality({}) = 0
    BY FS_EmptySet
  <2>3. value[l] = Limit[l] /\ inUse[l] = 0 /\ waiting[l] = 0 /\ queue[l] = <<>> /\ Limit[l] \in Nat
    BY CapacityAssumption DEF Init
  <2> QED BY <2>1, <2>2, <2>3 DEF Accounts
<1> QED BY <1>2, <1>3, <1>4, <1>5 DEF IInv

\* Every step keeps the inductive invariant.
LEMMA NextPreserves == IInv /\ [Next]_vars => IInv'
<1> SUFFICES ASSUME IInv, [Next]_vars PROVE IInv'
  OBVIOUS
<1>1. CASE Next
  <2>1. PICK c \in Calls : Kept(c)
    BY <1>1, NextKept
  <2>2. \A l \in Limiters : Accounts(l)'
    BY <2>1, MoveKeepsAccounts DEF IInv, Kept
  <2> QED BY <2>1, <2>2 DEF IInv, Kept
<1>2. CASE UNCHANGED vars
  <2>1. Typed' /\ QueueExact' /\ HeldInOrder'
    BY <1>2 DEF vars, IInv, Typed, QueueExact, HeldInOrder
  <2>2. ASSUME NEW l \in Limiters PROVE Accounts(l)'
    <3>1. Granted(l)' = Granted(l) /\ Holders(l)' = Holders(l) /\ Waiters(l)' = Waiters(l)
      BY <1>2 DEF vars, Granted, Holders, Waiters
    <3> QED BY <1>2, <3>1 DEF vars, IInv, Accounts
  <2> QED BY <2>1, <2>2 DEF IInv
<1> QED BY <1>1, <1>2

\* What the runs of TLC check follows from the inductive invariant.
LEMMA InvariantSuffices == IInv => SlotsSound
<1> SUFFICES ASSUME IInv PROVE SlotsSound
  OBVIOUS
<1>1. ASSUME NEW l \in Limiters
      PROVE  /\ value[l] \in Nat /\ Limit[l] \in Nat
             /\ Cardinality(Granted(l)) \in Nat /\ Cardinality(Holders(l)) \in Nat
             /\ Cardinality(Waiters(l)) \in Nat /\ Accounts(l)
  BY MembersAreCalls, CallsCounted, CapacityAssumption DEF IInv, Typed
<1>2. TypeOK
  <2>1. \A l \in Limiters : inUse[l] \in Nat /\ waiting[l] \in Nat
    BY <1>1 DEF Accounts
  <2> QED BY <2>1 DEF IInv, Typed, TypeOK
<1>3. SlotsAccounted
  BY <1>1 DEF Accounts, SlotsAccounted, Waiters, InLine
<1>4. NothingHeldAfterwards
  BY DEF IInv, HeldInOrder, NothingHeldAfterwards
<1>5. NoSlotWasted
  BY <1>1 DEF Accounts, NoSlotWasted
<1>6. GlobalBehindSource
  <2> SUFFICES ASSUME NEW l \in Limiters \ {Global}
               PROVE  Cardinality({c \in Calls : SourceOf[c] = l /\
                          (Global \in held[c] \/
                             (phase[c] \in InLine /\ at[c] = Global))}) <= Limit[l]
    BY DEF GlobalBehindSource, InLine
  <2> DEFINE B == {c \in Calls : SourceOf[c] = l /\
                      (Global \in held[c] \/ (phase[c] \in InLine /\ at[c] = Global))}
  <2>1. B \subseteq Holders(l)
    <3> SUFFICES ASSUME NEW c \in B PROVE l \in held[c]
      BY DEF Holders
    <3>1. phase[c] \in Phases
      BY DEF IInv, Typed
    <3> QED BY <3>1 DEF IInv, HeldInOrder, InLine, Phases
  <2>2. IsFiniteSet(Holders(l))
    BY MembersAreCalls, CallsCounted
  <2>3. Cardinality(B) <= Cardinality(Holders(l)) /\ Cardinality(B) \in Nat
    BY <2>1, <2>2, FS_Subset, FS_CardinalityType
  <2>4. /\ value[l] + Cardinality(Granted(l)) + inUse[l] = Limit[l]
        /\ inUse[l] = Cardinality(Holders(l))
    BY <1>1 DEF Accounts
  <2>5. /\ Cardinality(Holders(l)) \in Nat /\ Limit[l] \in Nat /\ value[l] \in Nat
        /\ Cardinality(Granted(l)) \in Nat
    BY <1>1
  <2> HIDE DEF B
  <2>6. Cardinality(B) <= Limit[l]
    BY <2>3, <2>4, <2>5
  <2> QED BY <2>6 DEF B
<1> QED BY <1>2, <1>3, <1>4, <1>5, <1>6 DEF SlotsSound

\* The inductive invariant is one.
THEOREM Invariance == Spec => []IInv
BY InitEstablishes, NextPreserves, PTL DEF Spec

\* Slots are conserved and exactly accounted for, a call waits beside a free slot only behind
\* one that has been granted a slot and is yet to run, and no source crowds the global limiter:
\* for every number of calls, whatever limiters their sources have, and whatever is cancelled
\* or times out between any two steps of CapacityController.acquire and
\* CapacityLimiter.acquire.
THEOREM SlotsConserved == Spec => []SlotsSound
BY Invariance, InvariantSuffices, PTL

\* Every limiter implements a pool of slots: nobody overtakes a waiter, whoever is served next
\* is the first who waits, a slot that is given back goes to that one, and no more calls than
\* the limit have a slot.
THEOREM LimitersRefinePools == Spec => LimitersArePools
<1>1. Init => Pool!Init
  <2> SUFFICES ASSUME Init PROVE Pool!Init
    OBVIOUS
  <2>1. \A l \in Limiters : Granted(l) = {} /\ Holders(l) = {}
    BY DEF Init, Granted, Holders
  <2> QED BY <2>1 DEF Init, Pool!Init
<1>2. IInv /\ [Next]_vars => [Pool!Next]_(Pool!vars)
  <2> SUFFICES ASSUME IInv, [Next]_vars PROVE [Pool!Next]_(Pool!vars)
    OBVIOUS
  <2>1. CASE Next
    <3>1. PICK c \in Calls : Kept(c)
      BY <2>1, NextKept
    <3>2. ASSUME NEW l \in Limiters PROVE PoolMoves(l)
      <4>1. Granted(l) \cap Holders(l) = {}
        <5> SUFFICES ASSUME NEW d \in Calls, d \in Granted(l), d \in Holders(l) PROVE FALSE
          BY MembersAreCalls
        <5> QED BY DEF Granted, Holders, IInv, HeldInOrder, InLine
      <4> QED BY <3>1, <4>1, MoveIsStep DEF Kept, IInv
    <3>3. Pool!Next
      BY <3>2 DEF PoolMoves, Pool!Next
    <3> QED BY <3>3
  <2>2. CASE UNCHANGED vars
    BY <2>2 DEF vars, Pool!vars, Granted, Holders
  <2> QED BY <2>1, <2>2
<1> QED BY <1>1, <1>2, Invariance, PTL DEF Spec, LimitersArePools, Pool!Spec
=============================================================================
