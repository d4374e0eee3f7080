--------------------------- MODULE BoundedDispatch ---------------------------
(***************************************************************************)
(* run_bounded of concurrency/dispatch.py, and AsyncPayloadIsolator.map of *)
(* core/isolation.py, which has the same shape: ordered items worked off   *)
(* by a fixed set of worker tasks, which are cancelled and awaited when    *)
(* one operation fails or the caller is cancelled.                         *)
(*                                                                         *)
(* One event loop: an action is what a task does between two awaits.  An   *)
(* operation may run for ever, and may absorb a cancellation: it returns a *)
(* result where CancelledError was raised in it.                           *)
(***************************************************************************)
EXTENDS Integers, FiniteSets

CONSTANTS Items,      \* the number of items, at least one
          MaxTasks,   \* max_tasks
          MaxCancels  \* bound of the model: cancellations of the caller

ASSUME DispatchAssumption ==
    /\ Items \in Nat \ {0} /\ MaxTasks \in Nat \ {0} /\ MaxCancels \in Nat

WorkerCount == IF MaxTasks < Items THEN MaxTasks ELSE Items
Workers == 1..WorkerCount

VARIABLES nextIndex, \* next_index, from 1
          results,   \* the items with a result
          worker,    \* where each worker task is
          item,      \* the item it works on
          cancelled, \* the workers asked to stop since their last step
          caller,    \* where run_bounded is
          cancels,   \* how often the caller has been cancelled
          active,    \* active_dispatch_workers of the health tracker
          runs,      \* history: the operations begun for each item
          absorbed   \* history: some operation has absorbed a cancellation

dispatchVars == <<nextIndex, results, worker, item, cancelled, caller, cancels, active, runs,
                  absorbed>>

Ended == {"returned", "failed", "cancelled"}
Unfinished == {w \in Workers : worker[w] \notin Ended}

DispatchTypeOK ==
    /\ nextIndex \in 1..(Items + 1) /\ results \subseteq 1..Items
    /\ worker \in [Workers -> {"created", "running"} \cup Ended]
    /\ item \in [Workers -> 0..Items]
    /\ cancelled \subseteq Unfinished
    /\ caller \in {"gather", "settle", "returned", "raised"}
    /\ cancels \in 0..MaxCancels /\ active \in 0..WorkerCount
    /\ runs \in [1..Items -> 0..1] /\ absorbed \in BOOLEAN

DispatchInit ==
    /\ nextIndex = 1 /\ results = {}
    /\ worker = [w \in Workers |-> "created"] /\ item = [w \in Workers |-> 0]
    /\ cancelled = {} /\ caller = "gather" /\ cancels = 0 /\ active = 0
    /\ runs = [i \in 1..Items |-> 0] /\ absorbed = FALSE

-----------------------------------------------------------------------------
\* Plausible slips in the definitions below.
Bug_NotAwaited ==
    /\ caller = "settle"
    /\ caller' = "raised"
    /\ UNCHANGED <<nextIndex, results, worker, item, cancelled, cancels, active, runs, absorbed>>
Bug_NotCancelled ==
    /\ caller = "gather"
    /\ \/ \E w \in Workers : worker[w] \in {"failed", "cancelled"}
       \/ cancels > 0 /\ Unfinished = {}
    /\ caller' = "settle"
    /\ UNCHANGED <<nextIndex, results, worker, item, cancelled, cancels, active, runs, absorbed>>
-----------------------------------------------------------------------------
\* The loop of worker: takes the next item, or returns when there is none.  `running' is 1
\* when the tracker already counts the worker.
Take(w, running) ==
    IF nextIndex <= Items
    THEN /\ worker' = [worker EXCEPT ![w] = "running"]
         /\ item' = [item EXCEPT ![w] = nextIndex]
         /\ runs' = [runs EXCEPT ![nextIndex] = @ + 1]
         /\ nextIndex' = nextIndex + 1
         /\ active' = active + 1 - running
    ELSE /\ worker' = [worker EXCEPT ![w] = "returned"]
         /\ item' = [item EXCEPT ![w] = 0]
         /\ active' = active - running
         /\ UNCHANGED <<nextIndex, runs>>

Start(w) ==
    /\ worker[w] = "created" /\ w \notin cancelled
    /\ Take(w, 0)
    /\ UNCHANGED <<results, cancelled, caller, cancels, absorbed>>

\* A task cancelled before its first step never runs its body.
NeverStarts(w) ==
    /\ worker[w] = "created" /\ w \in cancelled
    /\ worker' = [worker EXCEPT ![w] = "cancelled"] /\ cancelled' = cancelled \ {w}
    /\ UNCHANGED <<nextIndex, results, item, caller, cancels, active, runs, absorbed>>

OperationReturns(w) ==
    /\ worker[w] = "running"
    /\ results' = results \cup {item[w]}
    /\ Take(w, 1)
    /\ cancelled' = cancelled \ {w} /\ absorbed' = (absorbed \/ w \in cancelled)
    /\ UNCHANGED <<caller, cancels>>

OperationFails(w) ==
    /\ worker[w] = "running"
    /\ worker' = [worker EXCEPT ![w] = "failed"] /\ item' = [item EXCEPT ![w] = 0]
    /\ cancelled' = cancelled \ {w} /\ active' = active - 1
    /\ UNCHANGED <<nextIndex, results, caller, cancels, runs, absorbed>>

OperationCancelled(w) ==
    /\ worker[w] = "running" /\ w \in cancelled
    /\ worker' = [worker EXCEPT ![w] = "cancelled"] /\ item' = [item EXCEPT ![w] = 0]
    /\ cancelled' = cancelled \ {w} /\ active' = active - 1
    /\ UNCHANGED <<nextIndex, results, caller, cancels, runs, absorbed>>

-----------------------------------------------------------------------------
\* Cancelling the caller cancels what it gathers, the second time it gathers too.
CancelCaller ==
    /\ caller \in {"gather", "settle"} /\ cancels < MaxCancels
    /\ cancels' = cancels + 1
    /\ cancelled' = Unfinished
    /\ UNCHANGED <<nextIndex, results, worker, item, caller, active, runs, absorbed>>

GatherReturns ==
    /\ caller = "gather" /\ cancels = 0
    /\ \A w \in Workers : worker[w] = "returned"
    /\ caller' = "returned"
    /\ UNCHANGED <<nextIndex, results, worker, item, cancelled, cancels, active, runs, absorbed>>

\* The first failed or cancelled worker raises in the caller, which cancels all of them.
GatherRaises ==
    /\ caller = "gather"
    /\ \/ \E w \in Workers : worker[w] \in {"failed", "cancelled"}
       \/ cancels > 0 /\ Unfinished = {}
    /\ caller' = "settle"
    /\ cancelled' = Unfinished
    /\ UNCHANGED <<nextIndex, results, worker, item, cancels, active, runs, absorbed>>

Settled ==
    /\ caller = "settle" /\ Unfinished = {}
    /\ caller' = "raised"
    /\ UNCHANGED <<nextIndex, results, worker, item, cancelled, cancels, active, runs, absorbed>>

-----------------------------------------------------------------------------
DispatchNext ==
    \/ \E w \in Workers : \/ Start(w) \/ NeverStarts(w) \/ OperationReturns(w)
                          \/ OperationFails(w) \/ OperationCancelled(w)
    \/ CancelCaller \/ GatherReturns \/ GatherRaises \/ Settled

DispatchSpec == DispatchInit /\ [][DispatchNext]_dispatchVars

\* The event loop runs ready tasks and delivers cancellations.  Nothing else ends an operation.
DispatchFairSpec ==
    /\ DispatchSpec
    /\ \A w \in Workers : WF_dispatchVars(Start(w)) /\ WF_dispatchVars(NeverStarts(w))
                          /\ WF_dispatchVars(OperationCancelled(w))
    /\ WF_dispatchVars(GatherReturns) /\ WF_dispatchVars(GatherRaises) /\ WF_dispatchVars(Settled)

-----------------------------------------------------------------------------
\* A call that returns has a result for every item: the final tuple finds each index.
ReturnsEverything == caller = "returned" => results = 1..Items

\* Whether the call returns or raises, no worker of it is left behind.
NoWorkerLeft == caller \in {"returned", "raised"} => Unfinished = {}

\* The tracker counts the workers that have begun and not ended, cancelled ones included.
WorkersCounted == active = Cardinality({w \in Workers : worker[w] = "running"})

\* A call ends complete: with all its results or an error, without a worker, with the gauge of
\* workers where it was, and no item begun twice.
EndsComplete == DispatchTypeOK /\ ReturnsEverything /\ NoWorkerLeft /\ WorkersCounted

\* After a failure or a cancellation the call ends though other operations would run for ever,
\* unless one absorbs its cancellation: its worker then goes on with the items that are left.
FailureEndsCall ==
    (cancels > 0 \/ \E w \in Workers : worker[w] = "failed")
        ~> (absorbed \/ caller = "raised")
=============================================================================
