-------------------------- MODULE BoundedRuns_proofs --------------------------
(***************************************************************************)
(* The two calls that run many operations, a bounded number at a time.     *)
(* Part 1, BoundedDispatch, for every number of items and workers and any  *)
(* number of cancellations: a call that returns has every result, a call   *)
(* that ends leaves no worker behind, and the health gauge is exact.       *)
(* Part 2, Operational, for every number of requests, whatever their       *)
(* policies, deadlines and values: a scan keeps to its limit and closes    *)
(* every session, and each request is judged exactly by its policies when  *)
(* it is delivered.                                                        *)
(***************************************************************************)
EXTENDS BoundedDispatch, Operational, FiniteSetTheorems, WellFoundedInduction, TLAPS

-----------------------------------------------------------------------------
\* Part 1: BoundedDispatch.

RunningWorkers == {w \in Workers : worker[w] = "running"}

\* The type invariant without the ranges of active and runs, which follow from the other parts.
Typed ==
    /\ nextIndex \in 1..(Items + 1) /\ results \subseteq 1..Items
    /\ worker \in [Workers -> {"created", "running"} \cup Ended]
    /\ item \in [Workers -> 0..Items]
    /\ cancelled \subseteq Unfinished
    /\ caller \in {"gather", "settle", "returned", "raised"}
    /\ cancels \in 0..MaxCancels /\ active \in Int
    /\ absorbed \in BOOLEAN

\* next_index tells the items that were begun, each of them once.
BegunOnce == runs = [i \in 1..Items |-> IF i < nextIndex THEN 1 ELSE 0]

\* An item that was begun has its result, or a worker that runs it, unless a worker failed or
\* was cancelled; and a worker returns only when no item is left.
NoneForgotten ==
    /\ \A w \in Workers : worker[w] = "running" => item[w] \in 1..(nextIndex - 1)
    /\ \A i \in 1..(nextIndex - 1) :
          \/ i \in results
          \/ \E w \in Workers : worker[w] = "running" /\ item[w] = i
          \/ \E w \in Workers : worker[w] \in {"failed", "cancelled"}
    /\ \A w \in Workers : worker[w] = "returned" => nextIndex = Items + 1

\* A call that is over found every worker ended, and one that returned, every one returned.
CallerWaited ==
    /\ caller \in {"returned", "raised"} => Unfinished = {}
    /\ caller = "returned" => results = 1..Items

\* The inductive invariant.
DispatchInv == Typed /\ BegunOnce /\ NoneForgotten /\ CallerWaited /\ WorkersCounted

-----------------------------------------------------------------------------
\* There is at least one worker, and there are finitely many.
LEMMA WorkersFinite ==
    /\ WorkerCount \in Nat \ {0} /\ 1 \in Workers
    /\ IsFiniteSet(Workers) /\ Cardinality(Workers) = WorkerCount
<1>1. WorkerCount \in Nat \ {0}
  BY DispatchAssumption DEF WorkerCount
<1>2. 1 \in Workers
  BY <1>1 DEF Workers
<1>3. IsFiniteSet(1..WorkerCount) /\ Cardinality(1..WorkerCount) = WorkerCount
  BY <1>1, FS_Interval
<1> QED BY <1>1, <1>2, <1>3 DEF Workers

\* What one worker's step does to the number of running workers.
LEMMA RunningCounted ==
    ASSUME Typed, NEW w \in Workers, NEW s \in {"created", "running"} \cup Ended,
           worker' = [worker EXCEPT ![w] = s]
    PROVE  /\ Cardinality(RunningWorkers) \in Nat
           /\ Cardinality(RunningWorkers') =
                Cardinality(RunningWorkers) + (IF s = "running" THEN 1 ELSE 0)
                                     - (IF worker[w] = "running" THEN 1 ELSE 0)
<1>1. IsFiniteSet(RunningWorkers) /\ Cardinality(RunningWorkers) \in Nat
  <2>1. RunningWorkers \in SUBSET Workers
    BY DEF RunningWorkers
  <2>2. IsFiniteSet(RunningWorkers)
    BY <2>1, WorkersFinite, FS_Subset
  <2> QED BY <2>2, FS_CardinalityType
<1>2. CASE s = "running"
  <2>1. RunningWorkers' = RunningWorkers \cup {w}
    BY <1>2 DEF RunningWorkers, Typed
  <2>2. w \in RunningWorkers <=> worker[w] = "running"
    BY DEF RunningWorkers
  <2>3. Cardinality(RunningWorkers \cup {w}) =
            IF w \in RunningWorkers THEN Cardinality(RunningWorkers)
            ELSE Cardinality(RunningWorkers) + 1
    BY <1>1, FS_AddElement
  <2> QED BY <1>1, <1>2, <2>1, <2>2, <2>3
<1>3. CASE s # "running"
  <2>1. RunningWorkers' = RunningWorkers \ {w}
    BY <1>3 DEF RunningWorkers, Typed
  <2>2. w \in RunningWorkers <=> worker[w] = "running"
    BY DEF RunningWorkers
  <2>3. Cardinality(RunningWorkers \ {w}) =
            IF w \in RunningWorkers THEN Cardinality(RunningWorkers) - 1
            ELSE Cardinality(RunningWorkers)
    BY <1>1, FS_RemoveElement
  <2> QED BY <1>1, <1>3, <2>1, <2>2, <2>3
<1> QED BY <1>2, <1>3

\* It holds before the workers start.
LEMMA InitInvariant == DispatchInit => DispatchInv
<1> SUFFICES ASSUME DispatchInit PROVE DispatchInv
  OBVIOUS
<1>1. Typed
  <2>1. nextIndex \in 1..(Items + 1) /\ cancels \in 0..MaxCancels /\ active \in Int
    BY DispatchAssumption DEF DispatchInit
  <2>2. item \in [Workers -> 0..Items]
    BY DispatchAssumption DEF DispatchInit
  <2>3. worker \in [Workers -> {"created", "running"} \cup Ended]
    BY DEF DispatchInit
  <2>4. results \subseteq 1..Items /\ cancelled \subseteq Unfinished /\ absorbed \in BOOLEAN
    BY DEF DispatchInit
  <2>5. caller \in {"gather", "settle", "returned", "raised"}
    BY DEF DispatchInit
  <2> QED BY <2>1, <2>2, <2>3, <2>4, <2>5 DEF Typed
<1>2. BegunOnce
  BY DispatchAssumption DEF DispatchInit, BegunOnce
<1>3. NoneForgotten /\ CallerWaited
  BY DispatchAssumption DEF DispatchInit, NoneForgotten, CallerWaited
<1>4. WorkersCounted
  <2>1. {w \in Workers : worker[w] = "running"} = {}
    BY DEF DispatchInit
  <2> QED BY <2>1, FS_EmptySet DEF DispatchInit, WorkersCounted
<1> QED BY <1>1, <1>2, <1>3, <1>4 DEF DispatchInv

-----------------------------------------------------------------------------
\* A worker that takes the next item, or returns, keeps the invariant: r are the results
\* with the item it has just finished, if it was running.
LEMMA TakeKeepsInvariant ==
    ASSUME DispatchInv, NEW w \in Workers, w \in Unfinished,
           NEW n \in {0, 1}, n = IF worker[w] = "running" THEN 1 ELSE 0,
           Take(w, n),
           results' = IF n = 1 THEN results \cup {item[w]} ELSE results,
           cancelled' = cancelled \ {w} \/ (cancelled' = cancelled /\ w \notin cancelled),
           absorbed' \in BOOLEAN, UNCHANGED <<caller, cancels>>
    PROVE  DispatchInv'
<1>1. PICK s \in {"running", "returned"} :
          /\ worker' = [worker EXCEPT ![w] = s]
          /\ s = "running" <=> nextIndex <= Items
          /\ active' = active + (IF s = "running" THEN 1 ELSE 0) - n
  BY DEF Take, DispatchInv, Typed
<1>2. Typed'
  <2>1. nextIndex' \in 1..(Items + 1) /\ item' \in [Workers -> 0..Items]
    <3>1. CASE nextIndex <= Items
      BY <3>1, DispatchAssumption DEF DispatchInv, Typed, Take
    <3>2. CASE ~(nextIndex <= Items)
      BY <3>2, DispatchAssumption DEF DispatchInv, Typed, Take
    <3> QED BY <3>1, <3>2
  <2>5. results' \subseteq 1..Items
    <3>1. worker[w] = "running" => item[w] \in 1..Items
      BY DispatchAssumption DEF DispatchInv, Typed, NoneForgotten
    <3> QED BY <3>1 DEF DispatchInv, Typed
  <2>2. worker' \in [Workers -> {"created", "running"} \cup Ended]
    BY <1>1 DEF DispatchInv, Typed, Ended
  <2>3. cancelled' \subseteq Unfinished'
    BY <1>1 DEF DispatchInv, Typed, Unfinished
  <2>4. active' \in Int
    BY <1>1 DEF DispatchInv, Typed
  <2> QED BY <2>1, <2>2, <2>3, <2>4, <2>5 DEF DispatchInv, Typed
<1>3. BegunOnce'
  <2>1. CASE nextIndex <= Items
    <3>1. runs' = [runs EXCEPT ![nextIndex] = @ + 1] /\ nextIndex' = nextIndex + 1
      BY <2>1 DEF Take
    <3>2. nextIndex \in 1..Items /\ runs = [i \in 1..Items |-> IF i < nextIndex THEN 1 ELSE 0]
      BY <2>1, DispatchAssumption DEF DispatchInv, Typed, BegunOnce
    <3>3. ASSUME NEW i \in 1..Items
          PROVE  runs'[i] = IF i < nextIndex + 1 THEN 1 ELSE 0
      BY <3>1, <3>2, DispatchAssumption
    <3> QED BY <3>1, <3>2, <3>3 DEF BegunOnce
  <2>2. CASE ~(nextIndex <= Items)
    BY <2>2 DEF DispatchInv, BegunOnce, Take
  <2> QED BY <2>1, <2>2
<1>4. NoneForgotten'
  <2>1. CASE nextIndex <= Items
    <3>1. /\ worker' = [worker EXCEPT ![w] = "running"]
          /\ item' = [item EXCEPT ![w] = nextIndex] /\ nextIndex' = nextIndex + 1
      BY <2>1 DEF Take
    <3>2. nextIndex \in 1..Items /\ nextIndex # Items + 1
      BY <2>1, DispatchAssumption DEF DispatchInv, Typed
    <3>3. ASSUME NEW v \in Workers, worker'[v] = "running"
          PROVE  item'[v] \in 1..nextIndex
      BY <3>1, <3>2, <3>3, DispatchAssumption DEF DispatchInv, Typed, NoneForgotten
    <3>4. ASSUME NEW i \in 1..nextIndex
          PROVE  \/ i \in results'
                 \/ \E v \in Workers : worker'[v] = "running" /\ item'[v] = i
                 \/ \E v \in Workers : worker'[v] \in {"failed", "cancelled"}
      <4>1. CASE i = nextIndex
        BY <3>1, <4>1 DEF DispatchInv, Typed
      <4>2. CASE i # nextIndex
        <5>1. i \in 1..(nextIndex - 1)
          BY <3>2, <4>2, DispatchAssumption
        <5>2. worker[w] \notin {"failed", "cancelled"}
          BY DEF Unfinished, Ended
        <5> QED BY <3>1, <5>1, <5>2 DEF DispatchInv, Typed, NoneForgotten
      <4> QED BY <4>1, <4>2
    <3>5. \A v \in Workers : worker'[v] # "returned"
      BY <3>1, <3>2 DEF DispatchInv, Typed, NoneForgotten
    <3> QED BY <3>1, <3>2, <3>3, <3>4, <3>5 DEF NoneForgotten
  <2>2. CASE ~(nextIndex <= Items)
    <3>1. nextIndex' = nextIndex /\ nextIndex = Items + 1
      BY <2>2, DispatchAssumption DEF DispatchInv, Typed, Take
    <3>2. worker' = [worker EXCEPT ![w] = "returned"] /\ item' = [item EXCEPT ![w] = 0]
      BY <2>2 DEF Take
    <3>3. worker[w] \notin {"failed", "cancelled"}
      BY DEF Unfinished, Ended
    <3> QED BY <3>1, <3>2, <3>3 DEF DispatchInv, Typed, NoneForgotten, Ended
  <2> QED BY <2>1, <2>2
<1>5. CallerWaited'
  BY DEF DispatchInv, Typed, CallerWaited
<1>6. WorkersCounted'
  <2>1. /\ active = Cardinality(RunningWorkers) /\ Typed
        /\ s \in {"created", "running"} \cup Ended
    BY DEF DispatchInv, WorkersCounted, RunningWorkers, Ended
  <2>2. /\ Cardinality(RunningWorkers) \in Nat
        /\ Cardinality(RunningWorkers') =
             Cardinality(RunningWorkers) + (IF s = "running" THEN 1 ELSE 0)
                                  - (IF worker[w] = "running" THEN 1 ELSE 0)
    BY <1>1, <2>1, RunningCounted
  <2>3. active' = Cardinality(RunningWorkers')
    BY <1>1, <2>1, <2>2
  <2> QED BY <2>3 DEF WorkersCounted, RunningWorkers
<1> QED BY <1>2, <1>3, <1>4, <1>5, <1>6 DEF DispatchInv

\* A worker that fails or is cancelled keeps the invariant, begun or not.
LEMMA EndKeepsInvariant ==
    ASSUME DispatchInv, NEW w \in Workers, w \in Unfinished, NEW s \in {"failed", "cancelled"},
           worker' = [worker EXCEPT ![w] = s], cancelled' = cancelled \ {w},
           item' \in [Workers -> 0..Items], \A v \in Workers \ {w} : item'[v] = item[v],
           active' = active - (IF worker[w] = "running" THEN 1 ELSE 0),
           UNCHANGED <<nextIndex, results, caller, cancels, runs, absorbed>>
    PROVE  DispatchInv'
<1>1. Typed'
  <2>1. worker' \in [Workers -> {"created", "running"} \cup Ended]
    BY DEF DispatchInv, Typed, Ended
  <2>2. cancelled' \subseteq Unfinished'
    BY DEF DispatchInv, Typed, Unfinished
  <2>3. active' \in Int
    BY DEF DispatchInv, Typed
  <2> QED BY <2>1, <2>2, <2>3 DEF DispatchInv, Typed
<1>2. BegunOnce'
  BY DEF DispatchInv, BegunOnce
<1>3. NoneForgotten'
  BY DEF DispatchInv, Typed, NoneForgotten
<1>4. CallerWaited'
  BY DEF DispatchInv, Typed, CallerWaited, Unfinished, Ended
<1>5. WorkersCounted'
  <2>1. /\ active = Cardinality(RunningWorkers) /\ Typed
        /\ s \in {"created", "running"} \cup Ended
    BY DEF DispatchInv, WorkersCounted, RunningWorkers, Ended
  <2>2. /\ Cardinality(RunningWorkers) \in Nat
        /\ Cardinality(RunningWorkers') =
             Cardinality(RunningWorkers) + (IF s = "running" THEN 1 ELSE 0)
                                  - (IF worker[w] = "running" THEN 1 ELSE 0)
    BY <2>1, RunningCounted
  <2>3. active' = Cardinality(RunningWorkers')
    BY <2>1, <2>2
  <2> QED BY <2>3 DEF WorkersCounted, RunningWorkers
<1> QED BY <1>1, <1>2, <1>3, <1>4, <1>5 DEF DispatchInv

\* Every step keeps it.
LEMMA StepInvariant == DispatchInv /\ [DispatchNext]_dispatchVars => DispatchInv'
<1> SUFFICES ASSUME DispatchInv, [DispatchNext]_dispatchVars PROVE DispatchInv'
  OBVIOUS
<1>1. ASSUME NEW w \in Workers, Start(w) PROVE DispatchInv'
  <2>1. /\ w \in Unfinished /\ worker[w] # "running" /\ Take(w, 0)
        /\ results' = results /\ cancelled' = cancelled /\ w \notin cancelled
        /\ absorbed' \in BOOLEAN /\ UNCHANGED <<caller, cancels>>
    BY <1>1 DEF Start, Unfinished, Ended, DispatchInv, Typed
  <2> QED BY <2>1, TakeKeepsInvariant
<1>2. ASSUME NEW w \in Workers, OperationReturns(w) PROVE DispatchInv'
  <2>1. /\ w \in Unfinished /\ worker[w] = "running" /\ Take(w, 1)
        /\ results' = results \cup {item[w]} /\ cancelled' = cancelled \ {w}
        /\ UNCHANGED <<caller, cancels>>
    BY <1>2 DEF OperationReturns, Unfinished, Ended
  <2>2. absorbed' \in BOOLEAN
    BY <1>2 DEF OperationReturns, DispatchInv, Typed
  <2> QED BY <2>1, <2>2, TakeKeepsInvariant
<1>3. ASSUME NEW w \in Workers, NeverStarts(w) PROVE DispatchInv'
  <2>1. /\ w \in Unfinished /\ worker' = [worker EXCEPT ![w] = "cancelled"]
        /\ cancelled' = cancelled \ {w}
        /\ UNCHANGED <<nextIndex, results, caller, cancels, runs, absorbed>>
    BY <1>3 DEF NeverStarts, Unfinished, Ended
  <2>2. item' \in [Workers -> 0..Items] /\ \A v \in Workers \ {w} : item'[v] = item[v]
    BY <1>3, DispatchAssumption DEF NeverStarts, DispatchInv, Typed
  <2>3. active' = active - (IF worker[w] = "running" THEN 1 ELSE 0)
    BY <1>3 DEF NeverStarts, DispatchInv, Typed
  <2> QED BY <2>1, <2>2, <2>3, EndKeepsInvariant
<1>4. ASSUME NEW w \in Workers, OperationFails(w) PROVE DispatchInv'
  <2>1. /\ w \in Unfinished /\ worker' = [worker EXCEPT ![w] = "failed"]
        /\ cancelled' = cancelled \ {w}
        /\ UNCHANGED <<nextIndex, results, caller, cancels, runs, absorbed>>
    BY <1>4 DEF OperationFails, Unfinished, Ended
  <2>2. item' \in [Workers -> 0..Items] /\ \A v \in Workers \ {w} : item'[v] = item[v]
    BY <1>4, DispatchAssumption DEF OperationFails, DispatchInv, Typed
  <2>3. active' = active - (IF worker[w] = "running" THEN 1 ELSE 0)
    BY <1>4 DEF OperationFails, DispatchInv, Typed
  <2> QED BY <2>1, <2>2, <2>3, EndKeepsInvariant
<1>5. ASSUME NEW w \in Workers, OperationCancelled(w) PROVE DispatchInv'
  <2>1. /\ w \in Unfinished /\ worker' = [worker EXCEPT ![w] = "cancelled"]
        /\ cancelled' = cancelled \ {w}
        /\ UNCHANGED <<nextIndex, results, caller, cancels, runs, absorbed>>
    BY <1>5 DEF OperationCancelled, Unfinished, Ended
  <2>2. item' \in [Workers -> 0..Items] /\ \A v \in Workers \ {w} : item'[v] = item[v]
    BY <1>5, DispatchAssumption DEF OperationCancelled, DispatchInv, Typed
  <2>3. active' = active - (IF worker[w] = "running" THEN 1 ELSE 0)
    BY <1>5 DEF OperationCancelled, DispatchInv, Typed
  <2> QED BY <2>1, <2>2, <2>3, EndKeepsInvariant
<1>6. CASE CancelCaller
  BY <1>6, DispatchAssumption
     DEF CancelCaller, DispatchInv, Typed, BegunOnce, NoneForgotten, CallerWaited,
         WorkersCounted, Unfinished
<1>7. CASE GatherReturns
  <2>1. nextIndex = Items + 1
    BY <1>7, WorkersFinite DEF GatherReturns, DispatchInv, NoneForgotten
  <2>2. results = 1..Items
    <3>1. \A w \in Workers : worker[w] = "returned"
      BY <1>7 DEF GatherReturns
    <3>2. 1..(nextIndex - 1) = 1..Items
      BY <2>1, DispatchAssumption
    <3>3. 1..Items \subseteq results
      BY <3>1, <3>2 DEF DispatchInv, NoneForgotten
    <3> QED BY <3>3 DEF DispatchInv, Typed
  <2>3. Unfinished = {}
    BY <1>7 DEF GatherReturns, Unfinished, Ended
  <2> QED
    BY <1>7, <2>2, <2>3 DEF GatherReturns, DispatchInv, Typed, BegunOnce, NoneForgotten, CallerWaited,
                            WorkersCounted, Unfinished
<1>8. CASE GatherRaises
  BY <1>8 DEF GatherRaises, DispatchInv, Typed, BegunOnce, NoneForgotten, CallerWaited,
              WorkersCounted, Unfinished
<1>9. CASE Settled
  BY <1>9 DEF Settled, DispatchInv, Typed, BegunOnce, NoneForgotten, CallerWaited,
              WorkersCounted, Unfinished
<1>10. CASE UNCHANGED dispatchVars
  BY <1>10 DEF dispatchVars, DispatchInv, Typed, BegunOnce, NoneForgotten, CallerWaited,
               WorkersCounted, Unfinished
<1> QED
  BY <1>1, <1>2, <1>3, <1>4, <1>5, <1>6, <1>7, <1>8, <1>9, <1>10 DEF DispatchNext

-----------------------------------------------------------------------------
\* DispatchInv holds in every reachable state.
THEOREM DispatchInvariance == DispatchSpec => []DispatchInv
BY InitInvariant, StepInvariant, PTL DEF DispatchSpec

\* The state of a call is well typed: the index stays within the items, no item is begun
\* twice, and only unfinished workers are asked to stop.
THEOREM DispatchTyped == DispatchSpec => []DispatchTypeOK
<1>1. DispatchInv => DispatchTypeOK
  <2> SUFFICES ASSUME DispatchInv PROVE DispatchTypeOK
    OBVIOUS
  <2>1. active \in 0..WorkerCount
    <3>1. RunningWorkers \in SUBSET Workers /\ active = Cardinality(RunningWorkers)
      BY DEF DispatchInv, WorkersCounted, RunningWorkers
    <3>2. IsFiniteSet(RunningWorkers) /\ Cardinality(RunningWorkers) <= WorkerCount
      BY <3>1, WorkersFinite, FS_Subset
    <3> QED BY <3>1, <3>2, WorkersFinite, FS_CardinalityType
  <2>2. runs \in [1..Items -> 0..1]
    BY DEF DispatchInv, BegunOnce
  <2> QED BY <2>1, <2>2 DEF DispatchInv, Typed, DispatchTypeOK
<1> QED BY <1>1, DispatchInvariance, PTL

\* run_bounded returns only with a result for every item, leaves no worker task behind
\* whether it returns or raises, and keeps active_dispatch_workers exact, though workers fail,
\* are cancelled or absorb a cancellation.
THEOREM DispatchComplete == DispatchSpec => []EndsComplete
<1>1. DispatchInv /\ DispatchTypeOK => EndsComplete
  BY DEF DispatchInv, CallerWaited, EndsComplete, ReturnsEverything, NoWorkerLeft
<1> QED BY <1>1, DispatchInvariance, DispatchTyped, PTL

-----------------------------------------------------------------------------
\* Part 2: Operational.

Tasks == Busy \cup Over \cup {"queued"}
Results == {"none", "accepted", "degraded", "rejected", "failed"}

\* A resolved value, no younger than when it arrived.
IsResolved(v) ==
    /\ v.observed \in Int /\ v.age \in Nat /\ v.stale \in BOOLEAN /\ v.rank \in Int
    /\ v.age <= clock - v.observed

\* The type invariant, and that found and failed are functions.
ScanTyped ==
    /\ clock \in 0..MaxTime
    /\ builder \in {"open", "closed", "drained"}
    /\ task \in [Indices -> Tasks]
    /\ session \in [Indices -> {"none", "open", "closed"}]
    /\ deadline \in [Indices -> Nat]
    /\ found = [i \in Indices |-> found[i]] /\ failed = [i \in Indices |-> failed[i]]
    /\ overdue \in [Indices -> BOOLEAN]
    /\ result \in [Indices -> Results]
    /\ scan \in {"running", "cancelling", "returned", "raised", "cancelled"}

ValuesTyped ==
    \A i \in Indices : /\ DOMAIN found[i] \subseteq Keys(i) /\ failed[i] \subseteq Keys(i)
                       /\ \A k \in DOMAIN found[i] : IsResolved(found[i][k])

\* Sessions follow the tasks, and the semaphore bounds them.
SessionsFollow ==
    /\ \A i \in Indices : session[i] = "open" <=> task[i] \in Busy
    /\ Cardinality(Running) <= MaxConcurrent

\* How a task ends tells what happened to the scan; a scan that returned has only done tasks.
EndsTold ==
    /\ \A i \in Indices : task[i] = "done" => result[i] # "none"
    /\ \A i \in Indices : task[i] = "raised" => scan # "running"
    /\ \A i \in Indices : task[i] = "cancelled" => scan \in {"cancelling", "cancelled"}
    /\ scan = "returned" => \A i \in Indices : task[i] = "done"
    /\ scan = "raised" => builder # "open"

\* The inductive invariant.
IInv == ScanTyped /\ ValuesTyped /\ SessionsFollow /\ EndsTold

-----------------------------------------------------------------------------
LEMMA RunningFinite ==
    /\ IsFiniteSet(Running) /\ Cardinality(Running) \in Nat
    /\ \A S \in SUBSET Running : Cardinality(S) <= Cardinality(Running)
<1>1. IsFiniteSet(Indices)
  <2>1. Count \in Nat /\ 1 \in Int /\ Count \in Int
    BY OperationalAssumption
  <2> QED BY <2>1, FS_Interval DEF Indices
<1>2. Running \in SUBSET Indices
  BY DEF Running
<1>3. IsFiniteSet(Running)
  BY <1>1, <1>2, FS_Subset
<1> QED BY <1>3, FS_Subset, FS_CardinalityType

\* A step that lets at most one task out of the semaphore, and none in.
LEMMA NoneEnters ==
    ASSUME Cardinality(Running) <= MaxConcurrent, Running' \subseteq Running
    PROVE  Cardinality(Running)' <= MaxConcurrent
<1>1. Cardinality(Running') <= Cardinality(Running) /\ Cardinality(Running) \in Nat
  BY RunningFinite
<1>2. IsFiniteSet(Running') /\ Cardinality(Running') \in Nat
  BY RunningFinite, FS_Subset, FS_CardinalityType
<1>3. MaxConcurrent \in Nat
  BY OperationalAssumption
<1> QED BY <1>1, <1>2, <1>3

\* One task enters, when there is room.
LEMMA OneEnters ==
    ASSUME NEW i \in Indices, Cardinality(Running) < MaxConcurrent, Running' = Running \cup {i}
    PROVE  Cardinality(Running)' <= MaxConcurrent
<1>1. Cardinality(Running') =
          IF i \in Running THEN Cardinality(Running) ELSE Cardinality(Running) + 1
  BY RunningFinite, FS_AddElement
<1>2. MaxConcurrent \in Nat /\ Cardinality(Running) \in Nat
  BY RunningFinite, OperationalAssumption
<1> QED BY <1>1, <1>2

\* The values of the other requests stay as they are while the clock does.
LEMMA ValuesKept ==
    ASSUME ValuesTyped, clock' = clock, NEW i \in Indices,
           \A j \in Indices : j # i => found'[j] = found[j] /\ failed'[j] = failed[j],
           DOMAIN found'[i] \subseteq Keys(i), failed'[i] \subseteq Keys(i),
           \A k \in DOMAIN found'[i] : IsResolved(found'[i][k])
    PROVE  ValuesTyped'
<1>1. \A v : IsResolved(v)' <=> IsResolved(v)
  BY DEF IsResolved
<1>2. ASSUME NEW j \in Indices
      PROVE  /\ DOMAIN found'[j] \subseteq Keys(j) /\ failed'[j] \subseteq Keys(j)
             /\ \A k \in DOMAIN found'[j] : IsResolved(found'[j][k])
  <2>1. CASE j = i
    BY <2>1
  <2>2. CASE j # i
    BY <2>2 DEF ValuesTyped
  <2> QED BY <2>1, <2>2
<1>3. ASSUME NEW j \in Indices, NEW k \in DOMAIN found'[j]
      PROVE  IsResolved(found[j][k])'
  BY <1>2, <1>3 DEF IsResolved
<1> QED BY <1>2, <1>3 DEF ValuesTyped

-----------------------------------------------------------------------------
\* A task leaves, with its session and its slot.
LEMMA LeaveKeeps ==
    ASSUME IInv, NEW i \in Indices, NEW how \in Over, task[i] \notin Over, Leave(i, how),
           NEW verdict \in Results,
           how = "done" => verdict # "none", how = "cancelled" => scan = "cancelling",
           how # "raised",
           result' = [result EXCEPT ![i] = verdict],
           scan' = scan, clock' = clock, builder' = builder
    PROVE  IInv'
<1>1. ScanTyped /\ ValuesTyped /\ SessionsFollow /\ EndsTold
  BY DEF IInv
<1>2. /\ task' = [task EXCEPT ![i] = how]
      /\ session' = [session EXCEPT ![i] = IF session[i] = "open" THEN "closed" ELSE session[i]]
      /\ deadline' = [deadline EXCEPT ![i] = 0]
      /\ found' = [found EXCEPT ![i] = <<>>] /\ failed' = [failed EXCEPT ![i] = {}]
      /\ overdue' = [overdue EXCEPT ![i] = FALSE]
  BY DEF Leave
<1>3. ScanTyped'
  BY <1>1, <1>2 DEF ScanTyped, Tasks, Over
<1>4. ValuesTyped'
  <2>1. /\ \A j \in Indices : j # i => found'[j] = found[j] /\ failed'[j] = failed[j]
        /\ found'[i] = <<>> /\ failed'[i] = {}
    BY <1>1, <1>2 DEF ScanTyped
  <2> QED BY <1>1, <2>1, ValuesKept
<1>5. SessionsFollow'
  <2>1. /\ \A j \in Indices : j # i => task'[j] = task[j] /\ session'[j] = session[j]
        /\ task'[i] = how /\ session'[i] # "open"
    BY <1>1, <1>2 DEF ScanTyped
  <2>2. how \notin Busy
    BY DEF Over, Busy
  <2>3. Running' \subseteq Running
    BY <2>1, <2>2 DEF Running
  <2>4. Cardinality(Running)' <= MaxConcurrent
    BY <1>1, <2>3, NoneEnters DEF SessionsFollow
  <2> QED BY <1>1, <2>1, <2>2, <2>4 DEF SessionsFollow
<1>6. EndsTold'
  BY <1>1, <1>2 DEF EndsTold, ScanTyped, Over
<1> QED BY <1>3, <1>4, <1>5, <1>6 DEF IInv

LEMMA VerdictIsResult ==
    ASSUME NEW i, NEW resources, NEW errors
    PROVE  Verdict(i, resources, errors) \in Results \ {"none"}
BY DEF Verdict, Classify, Results

LEMMA EndKeeps ==
    ASSUME IInv, NEW i \in Indices, CutOff(i) \/ Judge(i) \/ Refuse(i) \/ Unwind(i),
           UNCHANGED <<clock, builder>>
    PROVE  IInv'
<1>1. task[i] \in Tasks /\ result \in [Indices -> Results]
  BY DEF IInv, ScanTyped
<1>2. CASE CutOff(i) \/ Judge(i) \/ Refuse(i)
  <2>1. PICK verdict \in Results \ {"none"} : Conclude(i, verdict)
    <3>1. CASE CutOff(i)
      BY <3>1, VerdictIsResult DEF CutOff
    <3>2. CASE Judge(i)
      BY <3>2, VerdictIsResult DEF Judge
    <3>3. CASE Refuse(i)
      BY <3>3 DEF Refuse, Results
    <3> QED BY <1>2, <3>1, <3>2, <3>3
  <2>2. task[i] \notin Over
    BY <1>2 DEF CutOff, Judge, Refuse, Over, Busy
  <2>3. Leave(i, "done") /\ result' = [result EXCEPT ![i] = verdict] /\ scan' = scan
    BY <2>1 DEF Conclude
  <2>4. "done" \in Over
    BY DEF Over
  <2> QED BY <2>2, <2>3, <2>4, LeaveKeeps
<1>3. CASE Unwind(i)
  <2>1. /\ task[i] \notin Over /\ scan = "cancelling" /\ Leave(i, "cancelled")
        /\ result' = result /\ scan' = scan
    BY <1>3 DEF Unwind
  <2>2. result' = [result EXCEPT ![i] = result[i]] /\ result[i] \in Results
    BY <1>1, <2>1
  <2>3. "cancelled" \in Over
    BY DEF Over
  <2> QED BY <2>1, <2>2, <2>3, LeaveKeeps
<1> QED BY <1>2, <1>3

\* A task takes a slot and opens its session, or is refused by a closed builder.
LEMMA BeginKeeps ==
    ASSUME IInv, NEW i \in Indices, Begin(i), UNCHANGED <<clock, builder>>
    PROVE  IInv'
<1>1. ScanTyped /\ ValuesTyped /\ SessionsFollow /\ EndsTold
  BY DEF IInv
<1>2. /\ task[i] = "queued" /\ scan # "cancelling" /\ Cardinality(Running) < MaxConcurrent
      /\ UNCHANGED <<found, failed, overdue, result>>
  BY DEF Begin, Undisturbed
<1>3. ValuesTyped'
  BY <1>1, <1>2, ValuesKept DEF ValuesTyped
<1>4. scan # "returned"
  BY <1>1, <1>2 DEF EndsTold
<1>5. CASE builder = "open"
  <2>1. /\ task' = [task EXCEPT ![i] = "acquiring"]
        /\ session' = [session EXCEPT ![i] = "open"]
        /\ deadline' = [deadline EXCEPT ![i] = clock + Allowance] /\ scan' = scan
    BY <1>5 DEF Begin
  <2>2. ScanTyped'
    BY <1>1, <1>2, <2>1, OperationalAssumption DEF ScanTyped, Tasks, Busy
  <2>3. Running' = Running \cup {i}
    BY <1>1, <2>1 DEF Running, ScanTyped, Busy
  <2>4. SessionsFollow'
    <3>1. Cardinality(Running)' <= MaxConcurrent
      BY <1>2, <2>3, OneEnters
    <3>2. \A j \in Indices : session'[j] = "open" <=> task'[j] \in Busy
      BY <1>1, <2>1 DEF SessionsFollow, ScanTyped, Busy
    <3> QED BY <3>1, <3>2 DEF SessionsFollow
  <2>5. EndsTold'
    BY <1>1, <1>2, <1>4, <2>1 DEF EndsTold, ScanTyped
  <2> QED BY <1>3, <2>2, <2>4, <2>5 DEF IInv
<1>6. CASE builder # "open"
  <2>1. /\ task' = [task EXCEPT ![i] = "raised"] /\ session' = session /\ deadline' = deadline
        /\ scan' = IF scan = "running" THEN "raised" ELSE scan
    BY <1>6 DEF Begin
  <2>2. ScanTyped'
    BY <1>1, <1>2, <2>1 DEF ScanTyped, Tasks, Over
  <2>3. Running' = Running
    BY <1>1, <1>2, <2>1 DEF Running, ScanTyped, Busy
  <2>4. SessionsFollow'
    <3>1. Cardinality(Running)' <= MaxConcurrent
      BY <1>1, <2>3, NoneEnters DEF SessionsFollow
    <3>2. \A j \in Indices : session'[j] = "open" <=> task'[j] \in Busy
      BY <1>1, <1>2, <2>1 DEF SessionsFollow, ScanTyped, Busy
    <3> QED BY <3>1, <3>2 DEF SessionsFollow
  <2>5. EndsTold'
    BY <1>1, <1>2, <1>4, <1>6, <2>1 DEF EndsTold, ScanTyped
  <2> QED BY <1>3, <2>2, <2>4, <2>5 DEF IInv
<1> QED BY <1>5, <1>6

\* A task goes on within its session.
LEMMA GoesOnKeeps ==
    ASSUME IInv, NEW i \in Indices, UNCHANGED <<clock, builder>>,
           \/ Deliver(i) \/ Overrun(i)
           \/ \E k \in Keys(i) : Miss(i, k) \/ \E o \in Offers[k] : Obtain(i, k, o)
    PROVE  IInv'
<1>1. ScanTyped /\ ValuesTyped /\ SessionsFollow /\ EndsTold
  BY DEF IInv
<1>2. /\ task[i] \in Busy /\ UNCHANGED <<session, deadline, result, scan>>
      /\ \E s \in Busy : task' = [task EXCEPT ![i] = s]
      /\ overdue' \in [Indices -> BOOLEAN]
  <2>1. CASE Deliver(i) \/ Overrun(i)
    BY <1>1, <2>1 DEF Deliver, Overrun, Busy, ScanTyped
  <2>2. ASSUME NEW k \in Keys(i), Miss(i, k) \/ \E o \in Offers[k] : Obtain(i, k, o)
        PROVE  /\ task[i] \in Busy /\ UNCHANGED <<session, deadline, result, scan>>
               /\ task' = [task EXCEPT ![i] = "acquiring"] /\ "acquiring" \in Busy
               /\ overdue' \in [Indices -> BOOLEAN]
    BY <1>1, <2>2 DEF Miss, Obtain, Busy, ScanTyped
  <2> QED BY <2>1, <2>2
<1>3. /\ found' = [j \in Indices |-> found'[j]] /\ failed' = [j \in Indices |-> failed'[j]]
      /\ ValuesTyped'
  <2>1. CASE Deliver(i) \/ Overrun(i)
    <3>1. found' = found /\ (failed' = failed \/ failed' = [failed EXCEPT ![i] = Keys(i)])
      BY <2>1 DEF Deliver, Overrun
    <3>2. \A j \in Indices : j # i => found'[j] = found[j] /\ failed'[j] = failed[j]
      BY <1>1, <3>1 DEF ScanTyped
    <3>3. failed'[i] \subseteq Keys(i)
      BY <1>1, <3>1 DEF ScanTyped, ValuesTyped
    <3>4. DOMAIN found'[i] \subseteq Keys(i) /\ \A k \in DOMAIN found'[i] : IsResolved(found'[i][k])
      BY <1>1, <3>1 DEF ValuesTyped
    <3> QED BY <1>1, <3>1, <3>2, <3>3, <3>4, ValuesKept DEF ScanTyped
  <2>2. ASSUME NEW k \in Keys(i), Miss(i, k)
        PROVE  /\ found' = [j \in Indices |-> found'[j]] /\ failed' = [j \in Indices |-> failed'[j]]
               /\ ValuesTyped'
    <3>1. found' = found /\ failed' = [failed EXCEPT ![i] = failed[i] \cup {k}]
      BY <2>2 DEF Miss
    <3>2. /\ \A j \in Indices : j # i => found'[j] = found[j] /\ failed'[j] = failed[j]
          /\ failed'[i] \subseteq Keys(i)
      BY <1>1, <3>1 DEF ScanTyped, ValuesTyped
    <3>4. DOMAIN found'[i] \subseteq Keys(i) /\ \A x \in DOMAIN found'[i] : IsResolved(found'[i][x])
      BY <1>1, <3>1 DEF ValuesTyped
    <3> QED BY <1>1, <3>1, <3>2, <3>4, ValuesKept DEF ScanTyped
  <2>3. ASSUME NEW k \in Keys(i), NEW o \in Offers[k], Obtain(i, k, o)
        PROVE  /\ found' = [j \in Indices |-> found'[j]] /\ failed' = [j \in Indices |-> failed'[j]]
               /\ ValuesTyped'
    <3> DEFINE g == [x \in DOMAIN found[i] \cup {k} |-> IF x = k THEN Aged(o) ELSE found[i][x]]
    <3>1. failed' = failed /\ found' = [found EXCEPT ![i] = g]
      BY <2>3 DEF Obtain
    <3>2. IsResolved(Aged(o))
      <4>1. o.lag \in Nat /\ o.stale \in BOOLEAN /\ o.rank \in Int
        BY OperationalAssumption
      <4>2. clock \in Int
        BY <1>1 DEF ScanTyped
      <4> QED BY <4>1, <4>2 DEF Aged, IsResolved
    <3>3. DOMAIN g \subseteq Keys(i) /\ \A x \in DOMAIN g : IsResolved(g[x])
      BY <1>1, <3>2 DEF ValuesTyped
    <3> HIDE DEF g
    <3>4. /\ \A j \in Indices : j # i => found'[j] = found[j] /\ failed'[j] = failed[j]
          /\ found'[i] = g /\ failed'[i] \subseteq Keys(i)
      BY <1>1, <3>1 DEF ScanTyped, ValuesTyped
    <3> QED BY <1>1, <3>1, <3>3, <3>4, ValuesKept DEF ScanTyped
  <2> QED BY <2>1, <2>2, <2>3
<1>4. ScanTyped'
  BY <1>1, <1>2, <1>3 DEF ScanTyped, Tasks
<1>5. SessionsFollow'
  <2>1. /\ \A j \in Indices : j # i => task'[j] = task[j]
        /\ task'[i] \in Busy /\ \A j \in Indices : session'[j] = session[j]
    BY <1>1, <1>2 DEF ScanTyped
  <2>2. Running' \subseteq Running
    BY <1>2, <2>1 DEF Running
  <2>3. Cardinality(Running)' <= MaxConcurrent
    BY <1>1, <2>2, NoneEnters DEF SessionsFollow
  <2> QED BY <1>1, <1>2, <2>1, <2>3 DEF SessionsFollow
<1>6. EndsTold'
  <2>1. /\ \A j \in Indices : j # i => task'[j] = task[j]
        /\ task'[i] \notin {"done", "raised", "cancelled"} /\ task[i] # "done"
    BY <1>1, <1>2 DEF ScanTyped, Busy
  <2> QED BY <1>1, <1>2, <2>1 DEF EndsTold
<1> QED BY <1>3, <1>4, <1>5, <1>6 DEF IInv

\* The scan itself, the clock and the builder.
LEMMA AroundKeeps ==
    ASSUME IInv,
           \/ (Finish \/ Cancel) /\ UNCHANGED <<clock, builder>>
           \/ Tick \/ CloseBuilder \/ UNCHANGED vars
    PROVE  IInv'
<1>1. ScanTyped /\ ValuesTyped /\ SessionsFollow /\ EndsTold
  BY DEF IInv
<1>2. UNCHANGED work
  BY DEF Finish, Cancel, Tick, CloseBuilder, vars, work
<1>3. /\ clock' \in 0..MaxTime /\ clock' >= clock
      /\ builder' \in {"open", "closed", "drained"} /\ (builder # "open" => builder' # "open")
      /\ scan' \in {"running", "cancelling", "returned", "raised", "cancelled"}
  BY <1>1, OperationalAssumption DEF Finish, Cancel, Tick, CloseBuilder, vars, ScanTyped
<1>4. ScanTyped'
  BY <1>1, <1>2, <1>3 DEF ScanTyped, work
<1>5. ValuesTyped'
  <2>1. ASSUME NEW i \in Indices, NEW k \in DOMAIN found[i] PROVE IsResolved(found[i][k])'
    <3>1. IsResolved(found[i][k]) /\ found' = found
      BY <1>1, <1>2 DEF ValuesTyped, work
    <3>2. clock \in Int /\ clock' \in Int
      BY <1>1, <1>4 DEF ScanTyped
    <3> QED BY <1>3, <3>1, <3>2 DEF IsResolved
  <2>2. found' = found /\ failed' = failed
    BY <1>2 DEF work
  <2> QED BY <1>1, <2>1, <2>2 DEF ValuesTyped
<1>6. SessionsFollow'
  <2>1. Running' = Running /\ session' = session /\ task' = task
    BY <1>2 DEF Running, work
  <2> QED BY <1>1, <2>1 DEF SessionsFollow
<1>7. EndsTold'
  <2>1. task' = task /\ result' = result
    BY <1>2 DEF work
  <2>2. CASE scan' = scan
    BY <1>1, <1>3, <2>1, <2>2 DEF EndsTold
  <2>3. CASE Finish
    BY <1>1, <2>1, <2>3 DEF EndsTold, Finish, Over
  <2>4. CASE Cancel
    BY <1>1, <2>1, <2>4 DEF EndsTold, Cancel
  <2> QED BY <2>2, <2>3, <2>4 DEF Tick, CloseBuilder, vars
<1> QED BY <1>4, <1>5, <1>6, <1>7 DEF IInv

LEMMA ScanInitial == Init => IInv
<1> SUFFICES ASSUME Init PROVE IInv
  OBVIOUS
<1>1. ScanTyped
  BY OperationalAssumption DEF Init, ScanTyped, Tasks, Results
<1>2. ValuesTyped
  BY DEF Init, ValuesTyped
<1>3. SessionsFollow
  <2>1. Running = {}
    BY DEF Init, Running, Busy
  <2>2. Cardinality(Running) = 0
    BY <2>1, FS_EmptySet
  <2> QED BY <2>2, OperationalAssumption DEF Init, SessionsFollow, Busy
<1>4. EndsTold
  BY DEF Init, EndsTold
<1> QED BY <1>1, <1>2, <1>3, <1>4 DEF IInv

LEMMA ScanStep == IInv /\ [Next]_vars => IInv'
<1> SUFFICES ASSUME IInv, [Next]_vars PROVE IInv'
  OBVIOUS
<1>1. ASSUME NEW i \in Indices, Step(i), UNCHANGED <<clock, builder>> PROVE IInv'
  BY <1>1, BeginKeeps, EndKeeps, GoesOnKeeps DEF Step
<1> QED BY <1>1, AroundKeeps DEF Next, EventLoop

\* The inductive invariant is one.
THEOREM ScanInvariance == Spec => []IInv
BY ScanInitial, ScanStep, PTL DEF Spec

\* However a request ends, its session is closed and its slot free, at most max_concurrent
\* sessions are open at a time, and a scan raises only if the builder was closed under it and
\* otherwise has every result: for every number of requests and whatever their policies.
THEOREM ScanStaysSound == Spec => []ScanSound
<1>1. IInv => ScanSound
  <2> SUFFICES ASSUME IInv PROVE ScanSound
    OBVIOUS
  <2>1. ScanTyped /\ ValuesTyped /\ SessionsFollow /\ EndsTold
    BY DEF IInv
  <2>2. TypeOK
    BY <2>1 DEF ScanTyped, ValuesTyped, IsResolved, TypeOK, Tasks, Results
  <2>3. {i \in Indices : session[i] = "open"} = Running
    BY <2>1 DEF SessionsFollow, Running
  <2>4. Cardinality({i \in Indices : session[i] = "open"}) <= MaxConcurrent
    BY <2>1, <2>3 DEF SessionsFollow
  <2>5. scan = "returned" => \A i \in Indices : result[i] # "none"
    BY <2>1 DEF EndsTold
  <2> QED BY <2>1, <2>2, <2>4, <2>5 DEF ScanSound, SessionsFollow, EndsTold
<1> QED BY <1>1, ScanInvariance, PTL

-----------------------------------------------------------------------------
\* Facts about numbers.  A set of numbers that is not empty has a least one.
Less == {pair \in Nat \X Nat : pair[1] < pair[2]}

LEMMA LeastNumber ==
    ASSUME NEW S, S \subseteq Nat, S # {}
    PROVE  \E m \in S : \A n \in S : m <= n
<1>1. IsWellFoundedOn(Less, Nat)
  BY NatLessThanWellFounded, Zenon DEF OpToRel, Less
<1>2. PICK m \in S : \A n \in S : ~(<<n, m>> \in Less)
  BY <1>1, WFMin, Zenon
<1>3. ASSUME NEW n \in S PROVE m <= n
  <2>1. <<n, m>> \in Nat \X Nat /\ <<n, m>>[1] = n /\ <<n, m>>[2] = m
    OBVIOUS
  <2>2. ~(n < m)
    BY <1>2, <2>1 DEF Less
  <2> QED BY <2>2
<1> QED BY <1>3

\* A finite set of integers that is not empty has a greatest and a least one.
HasBounds(T) == /\ \E x \in T : \A y \in T : x >= y
                /\ \E x \in T : \A y \in T : x <= y

LEMMA FiniteHasBounds ==
    ASSUME NEW S, S \subseteq Int, IsFiniteSet(S), S # {}
    PROVE  HasBounds(S)
<1> DEFINE Lacking == {T \in SUBSET S : T # {} /\ ~HasBounds(T)}
           Sizes == {Cardinality(T) : T \in Lacking}
<1>1. SUFFICES ASSUME S \in Lacking PROVE FALSE
  OBVIOUS
<1>2. \A T \in Lacking : IsFiniteSet(T) /\ Cardinality(T) \in Nat
  BY FS_Subset, FS_CardinalityType
<1>3. Sizes \subseteq Nat /\ Sizes # {}
  BY <1>1, <1>2
<1> HIDE DEF Sizes
<1>4. PICK n \in Sizes : \A m \in Sizes : n <= m
  BY <1>3, LeastNumber
<1>5. PICK T \in Lacking : n = Cardinality(T)
  BY <1>4 DEF Sizes
<1>6. PICK x : x \in T
  BY <1>5
<1>7. x \in Int /\ T \subseteq Int
  BY <1>5, <1>6
<1> DEFINE R == T \ {x}
<1>8. R = {} => HasBounds(T)
  <2>1. R = {} => \A y \in T : y = x
    OBVIOUS
  <2> QED BY <1>6, <1>7, <2>1 DEF HasBounds
<1>9. Cardinality(R) = Cardinality(T) - 1
  BY <1>2, <1>5, <1>6, FS_RemoveElement
<1>10. R \notin Lacking
  <2>1. SUFFICES ASSUME R \in Lacking PROVE FALSE
    OBVIOUS
  <2>2. Cardinality(R) \in Sizes
    BY <2>1 DEF Sizes
  <2> QED BY <1>2, <1>4, <1>5, <1>9, <2>2
<1>11. R # {} /\ HasBounds(R)
  BY <1>5, <1>8, <1>10
<1>12. HasBounds(T)
  <2>1. PICK a \in R : \A y \in R : a >= y
    BY <1>11 DEF HasBounds
  <2>2. PICK b \in R : \A y \in R : b <= y
    BY <1>11 DEF HasBounds
  <2>3. a \in T /\ b \in T /\ a \in Int /\ b \in Int
    BY <1>7
  <2>4. \A y \in T : y = x \/ y \in R
    OBVIOUS
  <2> HIDE DEF R
  <2>5. \E z \in T : \A y \in T : z >= y
    <3>1. CASE a >= x
      BY <1>7, <2>1, <2>3, <2>4, <3>1
    <3>2. CASE a < x
      <4>1. \A y \in T : x >= y
        BY <1>7, <2>1, <2>3, <2>4, <3>2
      <4> QED BY <1>6, <4>1
    <3> QED BY <1>7, <2>3, <3>1, <3>2
  <2>6. \E z \in T : \A y \in T : z <= y
    <3>1. CASE b <= x
      BY <1>7, <2>2, <2>3, <2>4, <3>1
    <3>2. CASE b > x
      <4>1. \A y \in T : x <= y
        BY <1>7, <2>2, <2>3, <2>4, <3>2
      <4> QED BY <1>6, <4>1
    <3> QED BY <1>7, <2>3, <3>1, <3>2
  <2> QED BY <2>5, <2>6 DEF HasBounds
<1> QED BY <1>5, <1>12

\* The spread of a finite set of integers is the largest difference of two of them.
LEMMA SpreadIsLargest ==
    ASSUME NEW S, S \subseteq Int, IsFiniteSet(S), S # {}, NEW limit \in Int
    PROVE  Max(S) - Min(S) > limit <=> \E x, y \in S : x - y > limit
<1>1. Max(S) \in S /\ \A y \in S : Max(S) >= y
  BY FiniteHasBounds DEF HasBounds, Max
<1>2. Min(S) \in S /\ \A y \in S : Min(S) <= y
  BY FiniteHasBounds DEF HasBounds, Min
<1> DEFINE a == Max(S)
           b == Min(S)
<1>3. a \in Int /\ b \in Int
  BY <1>1, <1>2
<1> HIDE DEF a, b
<1>4. ASSUME NEW x \in S, NEW y \in S, x - y > limit PROVE a - b > limit
  BY <1>1, <1>2, <1>3, <1>4 DEF a, b
<1> QED BY <1>1, <1>2, <1>4 DEF a, b

-----------------------------------------------------------------------------
\* The code's tests of a value, a group and a snapshot, against what the policies ask.
LEMMA AgeIsElapsed ==
    ASSUME NEW v, IsResolved(v), clock \in Int
    PROVE  CurrentAge(v, clock) = clock - v.observed
<1> DEFINE S == {0, v.age, clock - v.observed}
           a == clock - v.observed
<1>1. a \in S /\ a \in Int /\ \A y \in S : a >= y
  BY DEF IsResolved
<1>2. \A z \in S : (\A y \in S : z >= y) => z = a
  BY <1>1 DEF IsResolved
<1>3. Max(S) = a
  BY <1>1, <1>2 DEF Max
<1> QED BY <1>3 DEF CurrentAge

LEMMA ValueTested ==
    ASSUME NEW p, PolicyOK(p), NEW k \in DOMAIN Ttl, NEW v, IsResolved(v), clock \in Int
    PROVE  KeyViolations(p, k, v, clock) = {} <=> Meets(p, k, v, clock)
<1> DEFINE rule == RuleFor(p, k)
           age == clock - v.observed
<1>1. rule \in Rules /\ rule = IF k \in DOMAIN p.rules THEN p.rules[k] ELSE p.default
  BY DEF PolicyOK, RuleFor
<1>2. /\ rule.allowStale \in BOOLEAN /\ rule.maxAge \subseteq Nat /\ rule.minRank \subseteq Int
      /\ Ttl[k] \in Nat /\ age \in Int /\ v.rank \in Int /\ v.stale \in BOOLEAN
  BY <1>1, OperationalAssumption DEF Rules, IsResolved
<1>3. CurrentAge(v, clock) = age
  BY AgeIsElapsed
<1> DEFINE A == ~rule.allowStale /\ DynamicallyStale(k, v, clock)
           B == \E m \in rule.maxAge : CurrentAge(v, clock) > m
           C == \E m \in rule.minRank : v.rank < m
<1>5. KeyViolations(p, k, v, clock) = {} <=> ~A /\ ~B /\ ~C
  BY DEF KeyViolations
<1>6. A <=> ~(rule.allowStale \/ (~v.stale /\ age <= Ttl[k]))
  BY <1>2, <1>3 DEF DynamicallyStale
<1>7. ~B <=> \A m \in rule.maxAge : age <= m
  BY <1>2, <1>3
<1>8. ~C <=> \A m \in rule.minRank : v.rank >= m
  BY <1>2
<1>9. Meets(p, k, v, clock) <=>
        /\ rule.allowStale \/ (~v.stale /\ age <= Ttl[k])
        /\ \A m \in rule.maxAge : age <= m
        /\ \A m \in rule.minRank : v.rank >= m
  BY <1>1 DEF Meets
<1> HIDE DEF A, B, C, rule, age
<1> QED BY <1>5, <1>6, <1>7, <1>8, <1>9

\* What Deserving asks of the acceptance policies.
MeetsPolicy(i, p) ==
    /\ \A k \in DOMAIN found[i] :
          k \in Request[i].required \/ p.includeOptional \/ k \in DOMAIN p.rules
              => Meets(p, k, found[i][k], clock)
    /\ \A g \in p.requirements :
          \E S \in SUBSET (g.keys \cap DOMAIN found[i]) :
              Cardinality(S) >= g.minimum /\ \A k \in S : Meets(p, k, found[i][k], clock)

LEMMA RequestGiven ==
    ASSUME IInv, NEW i \in Indices
    PROVE  /\ \A p \in Request[i].acceptance : PolicyOK(p)
           /\ \A c \in Request[i].consistency : c.limit \in Int /\ c.includeOptional \in BOOLEAN
           /\ Keys(i) \subseteq DOMAIN Ttl /\ IsFiniteSet(Keys(i)) /\ clock \in Int
           /\ DOMAIN found[i] \subseteq Keys(i)
           /\ \A k \in DOMAIN found[i] : IsResolved(found[i][k]) /\ found[i][k].observed \in Int
<1>1. RequestOK(Request[i]) /\ Keys(i) \subseteq DOMAIN Ttl
  BY OperationalAssumption
<1>2. /\ DOMAIN found[i] \subseteq Keys(i) /\ clock \in Int
      /\ \A k \in DOMAIN found[i] : IsResolved(found[i][k])
  BY DEF IInv, ScanTyped, ValuesTyped
<1>3. \A k \in DOMAIN found[i] : found[i][k].observed \in Int
  BY <1>2 DEF IsResolved
<1>4. /\ \A p \in Request[i].acceptance : PolicyOK(p)
      /\ \A c \in Request[i].consistency : c.limit \in Nat /\ c.includeOptional \in BOOLEAN
      /\ IsFiniteSet(Keys(i))
  BY <1>1 DEF RequestOK, Keys
<1> QED BY <1>1, <1>2, <1>3, <1>4

LEMMA GroupTested ==
    ASSUME IInv, NEW i \in Indices, NEW p \in Request[i].acceptance, NEW g \in p.requirements
    PROVE  g \notin Unsatisfied(p, found[i], clock) <=>
               \E S \in SUBSET (g.keys \cap DOMAIN found[i]) :
                   Cardinality(S) >= g.minimum /\ \A k \in S : Meets(p, k, found[i][k], clock)
<1> DEFINE G == {k \in g.keys : Acceptable(p, k, found[i], clock)}
<1>1. /\ PolicyOK(p) /\ IsFiniteSet(g.keys) /\ g.minimum \in 1..Cardinality(g.keys)
      /\ Keys(i) \subseteq DOMAIN Ttl /\ clock \in Int
      /\ DOMAIN found[i] \subseteq Keys(i) /\ \A k \in DOMAIN found[i] : IsResolved(found[i][k])
  <2>1. /\ PolicyOK(p) /\ Keys(i) \subseteq DOMAIN Ttl /\ clock \in Int
        /\ DOMAIN found[i] \subseteq Keys(i) /\ \A k \in DOMAIN found[i] : IsResolved(found[i][k])
    BY RequestGiven
  <2>2. RequirementOK(g)
    BY <2>1 DEF PolicyOK
  <2> QED BY <2>1, <2>2 DEF RequirementOK
<1>2. \A k \in DOMAIN found[i] : Acceptable(p, k, found[i], clock) <=> Meets(p, k, found[i][k], clock)
  BY <1>1, ValueTested DEF Acceptable
<1>3. /\ G \subseteq g.keys \cap DOMAIN found[i]
      /\ \A k \in G : Meets(p, k, found[i][k], clock)
  BY <1>2 DEF Acceptable
<1>4. \A S \in SUBSET (g.keys \cap DOMAIN found[i]) :
          (\A k \in S : Meets(p, k, found[i][k], clock)) => S \subseteq G
  BY <1>2
<1>5. /\ IsFiniteSet(G) /\ Cardinality(G) \in Nat
      /\ \A S \in SUBSET G : Cardinality(S) \in Nat /\ Cardinality(S) <= Cardinality(G)
  <2>1. IsFiniteSet(G)
    BY <1>1, FS_Subset
  <2> QED BY <2>1, FS_Subset, FS_CardinalityType
<1>6. g.minimum \in Int
  <2>1. Cardinality(g.keys) \in Nat
    BY <1>1, FS_CardinalityType
  <2> QED BY <1>1, <2>1
<1>7. g \in Unsatisfied(p, found[i], clock) <=> Cardinality(G) < g.minimum
  BY DEF Unsatisfied
<1> HIDE DEF G
<1> QED BY <1>3, <1>4, <1>5, <1>6, <1>7

LEMMA PolicyTested ==
    ASSUME IInv, NEW i \in Indices, NEW p \in Request[i].acceptance
    PROVE  AcceptanceViolations(found[i], Request[i].required, Request[i].optional, p, clock) = {}
               <=> MeetsPolicy(i, p)
<1> DEFINE r == Request[i]
           has == found[i]
           short == Unsatisfied(p, has, clock)
           direct == DirectlyEnforced(r.required, r.optional, p)
           reported == direct \cup UNION {g.keys : g \in short}
           V(k) == KeyViolations(p, k, has[k], clock)
<1>1. /\ PolicyOK(p) /\ Keys(i) \subseteq DOMAIN Ttl /\ clock \in Int
      /\ DOMAIN has \subseteq Keys(i) /\ \A k \in DOMAIN has : IsResolved(has[k])
      /\ p.includeOptional \in BOOLEAN
  BY RequestGiven DEF PolicyOK
<1>2. \A k \in DOMAIN has : V(k) = {} <=> Meets(p, k, has[k], clock)
  BY <1>1, ValueTested
<1>3. AcceptanceViolations(has, r.required, r.optional, p, clock) = {} <=>
          short = {} /\ \A k \in reported \cap DOMAIN has : V(k) = {}
  <2>1. AcceptanceViolations(has, r.required, r.optional, p, clock)
            = Reported(p, reported \cap DOMAIN has, has, clock) \cup Unmet(short)
    BY DEF AcceptanceViolations
  <2>2. Unmet(short) = {} <=> short = {}
    BY DEF Unmet
  <2>3. Reported(p, reported \cap DOMAIN has, has, clock) = {}
            <=> \A k \in reported \cap DOMAIN has : V(k) = {}
    <3> HIDE DEF reported
    <3> QED BY DEF Reported
  <2> HIDE DEF short, reported, V
  <2> QED BY <2>1, <2>2, <2>3
<1>4. short = {} => reported = direct
  OBVIOUS
<1>5. \A k \in DOMAIN has :
          k \in direct <=> k \in r.required \/ p.includeOptional \/ k \in DOMAIN p.rules
  BY <1>1 DEF DirectlyEnforced, Keys
<1>6. short = {} <=> \A g \in p.requirements : g \notin short
  BY DEF Unsatisfied
<1>7. MeetsPolicy(i, p) <=> short = {} /\ \A k \in direct \cap DOMAIN has : Meets(p, k, has[k], clock)
  <2>1. short = {} <=> \A g \in p.requirements :
            \E S \in SUBSET (g.keys \cap DOMAIN has) :
                Cardinality(S) >= g.minimum /\ \A k \in S : Meets(p, k, has[k], clock)
    BY <1>6, GroupTested
  <2> HIDE DEF short, direct
  <2> QED BY <1>5, <2>1 DEF MeetsPolicy
<1> HIDE DEF short, direct, reported, V
<1>8. (short = {} /\ \A k \in reported \cap DOMAIN has : V(k) = {}) <=>
          short = {} /\ \A k \in direct \cap DOMAIN has : Meets(p, k, has[k], clock)
  BY <1>2, <1>4
<1> QED BY <1>3, <1>7, <1>8

LEMMA SkewTested ==
    ASSUME IInv, NEW i \in Indices, NEW c \in Request[i].consistency
    PROVE  SkewViolation(found[i], Request[i].required \cup
                             (IF c.includeOptional THEN Request[i].optional ELSE {}), c.limit)
           <=> \E k, l \in DOMAIN found[i] \cap
                       (IF c.includeOptional THEN Keys(i) ELSE Request[i].required) :
                   found[i][k].observed - found[i][l].observed > c.limit
<1> DEFINE has == found[i]
           K == Request[i].required \cup (IF c.includeOptional THEN Request[i].optional ELSE {})
           O == {has[k].observed : k \in K \cap DOMAIN has}
<1>1. /\ c.limit \in Int /\ c.includeOptional \in BOOLEAN /\ IsFiniteSet(Keys(i))
      /\ DOMAIN has \subseteq Keys(i) /\ \A k \in DOMAIN has : has[k].observed \in Int
  BY RequestGiven
<1>2. K = IF c.includeOptional THEN Keys(i) ELSE Request[i].required
  BY <1>1 DEF Keys
<1>3. O \subseteq Int
  BY <1>1
<1>4. IsFiniteSet(O)
  <2> DEFINE D == K \cap DOMAIN has
             f == [k \in D |-> has[k].observed]
  <2>1. IsFiniteSet(D)
    BY <1>1, FS_Subset
  <2>2. f \in Surjection(D, O)
    BY DEF Surjection
  <2> QED BY <2>1, <2>2, FS_Surjection
<1>5. O # {} => (Max(O) - Min(O) > c.limit <=> \E x, y \in O : x - y > c.limit)
  BY <1>1, <1>3, <1>4, SpreadIsLargest
<1>6. (\E x, y \in O : x - y > c.limit) <=>
          \E k, l \in DOMAIN has \cap K : has[k].observed - has[l].observed > c.limit
  OBVIOUS
<1>7. SkewViolation(has, K, c.limit) <=> O # {} /\ Max(O) - Min(O) > c.limit
  BY DEF SkewViolation
<1>8. SkewViolation(has, K, c.limit) <=> \E x, y \in O : x - y > c.limit
  <2> HIDE DEF O, K
  <2> QED BY <1>5, <1>7
<1> QED BY <1>2, <1>6, <1>8

LEMMA SnapshotTested ==
    ASSUME IInv, NEW i \in Indices
    PROVE  Deserving(i) <=> /\ ~Inconsistent(Request[i], found[i])
                            /\ ~Unaccepted(Request[i], found[i], clock)
<1> DEFINE Compared(c) == DOMAIN found[i] \cap
                              (IF c.includeOptional THEN Keys(i) ELSE Request[i].required)
           Close(c) == \A k, l \in Compared(c) :
                           found[i][k].observed - found[i][l].observed <= c.limit
<1>1. Deserving(i) <=> /\ \A p \in Request[i].acceptance : MeetsPolicy(i, p)
                       /\ \A c \in Request[i].consistency : Close(c)
  BY DEF Deserving, MeetsPolicy
<1>2. Unaccepted(Request[i], found[i], clock) <=>
          \E p \in Request[i].acceptance : ~MeetsPolicy(i, p)
  BY PolicyTested DEF Unaccepted
<1>3. ASSUME NEW c \in Request[i].consistency
      PROVE  SkewViolation(found[i], Request[i].required \cup
                 (IF c.includeOptional THEN Request[i].optional ELSE {}), c.limit) <=> ~Close(c)
  <2>1. /\ c.limit \in Int /\ \A k \in DOMAIN found[i] : found[i][k].observed \in Int
    BY RequestGiven
  <2>2. Close(c) <=> ~\E k, l \in Compared(c) :
                          found[i][k].observed - found[i][l].observed > c.limit
    BY <2>1
  <2> QED BY <2>2, SkewTested
<1>4. Inconsistent(Request[i], found[i]) <=> \E c \in Request[i].consistency : ~Close(c)
  BY <1>3 DEF Inconsistent
<1> HIDE DEF Close
<1> QED BY <1>1, <1>2, <1>4

\* JudgedExactly, for every set of policies and whatever values arrive when: a delivered
\* snapshot is accepted exactly if it has no errors and meets its policies as of now, and
\* resolve_request would have returned exactly the deserving ones without required errors.
THEOREM EveryRequestJudged == Spec => JudgedExactly
<1>1. ASSUME IInv, [Next]_vars, NEW i \in Indices, result[i] = "none",
             result'[i] \notin {"none", "failed"}, task[i] # "acquiring"
      PROVE  /\ result'[i] = "accepted" <=> failed[i] = {} /\ Deserving(i)
             /\ ResolveRequestVerdict(Request[i], found[i], failed[i], clock) = "returned" <=>
                    failed[i] \cap Request[i].required = {} /\ Deserving(i)
  <2>1. result \in [Indices -> Results] /\ failed[i] \subseteq Request[i].required \cup Request[i].optional
    BY <1>1 DEF IInv, ScanTyped, ValuesTyped, Keys
  <2>2. Judge(i)
    <3>1. PICK j \in Indices : CutOff(j) \/ Judge(j) \/ Refuse(j)
      BY <1>1 DEF Next, EventLoop, Step, Finish, Cancel, Tick, CloseBuilder, vars, work,
                  Begin, Obtain, Miss, Deliver, Overrun, Unwind
    <3>2. \E verdict : result' = [result EXCEPT ![j] = verdict]
      BY <3>1 DEF CutOff, Judge, Refuse, Conclude
    <3>3. j = i
      BY <1>1, <2>1, <3>2
    <3>4. ~Refuse(i)
      BY <1>1, <2>1 DEF Refuse, Conclude
    <3> QED BY <1>1, <3>1, <3>3, <3>4 DEF CutOff
  <2>3. result'[i] = Verdict(i, found[i], failed[i])
    BY <2>1, <2>2 DEF Judge, Conclude
  <2> DEFINE r == Request[i]
             bad == Inconsistent(r, found[i]) \/ Unaccepted(r, found[i], clock)
  <2>4. Deserving(i) <=> ~bad
    BY <1>1, SnapshotTested
  <2>5. Verdict(i, found[i], failed[i]) = "accepted" <=>
            ReasonParts(r, found[i], failed[i], clock) = {}
    BY DEF Verdict, Classify
  <2>6. ReasonParts(r, found[i], failed[i], clock) = {} <=>
            r.required \cap failed[i] = {} /\ r.optional \cap failed[i] = {} /\ ~bad
    BY DEF ReasonParts
  <2>7. ResolveRequestVerdict(r, found[i], failed[i], clock) = "returned" <=>
            r.required \cap failed[i] = {} /\ ~bad
    BY DEF ResolveRequestVerdict
  <2> HIDE DEF bad
  <2> QED BY <2>1, <2>3, <2>4, <2>5, <2>6, <2>7
<1>2. IInv /\ [Next]_vars =>
        [\A i \in Indices :
            result[i] = "none" /\ result'[i] \notin {"none", "failed"} /\ task[i] # "acquiring" =>
                /\ result'[i] = "accepted" <=> failed[i] = {} /\ Deserving(i)
                /\ ResolveRequestVerdict(Request[i], found[i], failed[i], clock) = "returned" <=>
                        failed[i] \cap Request[i].required = {} /\ Deserving(i)]_vars
  BY <1>1
<1> QED BY <1>2, ScanInvariance, PTL DEF Spec, JudgedExactly
=============================================================================
