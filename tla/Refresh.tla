------------------------------- MODULE Refresh -------------------------------
(***************************************************************************)
(* RefreshManager of orchestration/refresh.py: background refreshes, at    *)
(* most one per key, their waiters, and their shutdown.                    *)
(*                                                                         *)
(* Everything runs on one event loop: an action is what happens between    *)
(* two awaits.  A task that ends is removed from the table by a callback   *)
(* of its own, so other code may run in between.  A refresh acquires its   *)
(* key through the single-flight, which foreground requests share.         *)
(***************************************************************************)
EXTENDS Integers, FiniteSets

CONSTANTS Keys,
          Callers,  \* coroutines that call wait or close
          MaxTasks  \* bound of the model: refreshes scheduled

ASSUME RefreshAssumption == MaxTasks \in Nat

Tasks == 1..MaxTasks
None == 0

VARIABLES tasks,     \* the table: the task of a key, or None
          keyOf,     \* the key of each task created so far
          state,     \* where the task is
          cancelled, \* the tasks asked to stop since their last step
          flight,    \* the keys with a single-flight producer
          outcome,   \* what the flight a task waits for has produced, or how it was cancelled
          closed,    \* _closed
          caller,    \* where each caller is
          gathered,  \* the tasks it waits for
          refreshScheduled, refreshCompleted, refreshFailed \* the diagnostics counters

vars == <<tasks, keyOf, state, cancelled, flight, outcome, closed, caller, gathered,
          refreshScheduled, refreshCompleted, refreshFailed>>
counters == <<refreshScheduled, refreshCompleted, refreshFailed>>
callers == <<closed, caller, gathered>>

Created == DOMAIN keyOf
In(s) == {t \in Created : state[t] = s}
Live == In("created") \cup In("waiting")

TypeOK ==
    /\ tasks \in [Keys -> Tasks \cup {None}]
    /\ Created \in SUBSET Tasks /\ keyOf \in [Created -> Keys]
    /\ state \in [Created -> {"created", "waiting", "done", "finished"}]
    /\ cancelled \subseteq Live /\ flight \subseteq Keys
    /\ outcome \in [Created -> {"none", "fresh", "not fresh", "seen", "cancelled", "never run"}]
    /\ closed \in BOOLEAN
    /\ caller \in [Callers -> {"no", "wait", "close", "stopping", "returned", "closed", "raised"}]
    /\ gathered \in [Callers -> SUBSET Created]
    /\ refreshScheduled \in 0..MaxTasks /\ refreshCompleted \in 0..MaxTasks
    /\ refreshFailed \in 0..MaxTasks

Init ==
    /\ tasks = [k \in Keys |-> None]
    /\ keyOf = <<>> /\ state = <<>> /\ outcome = <<>>
    /\ cancelled = {} /\ flight = {} /\ closed = FALSE
    /\ caller = [c \in Callers |-> "no"] /\ gathered = [c \in Callers |-> {}]
    /\ refreshScheduled = 0 /\ refreshCompleted = 0 /\ refreshFailed = 0

Registered == {tasks[k] : k \in Keys} \ {None}
Extend(f, t, v) == [u \in DOMAIN f \cup {t} |-> IF u = t THEN v ELSE f[u]]

-----------------------------------------------------------------------------
\* Plausible slips in the definitions below.
Bug_PopsAny(t) ==
    /\ state[t] = "done"
    /\ state' = [state EXCEPT ![t] = "finished"]
    /\ tasks' = [tasks EXCEPT ![keyOf[t]] = None]
    /\ UNCHANGED <<keyOf, cancelled, flight, outcome, callers, counters>>
Bug_PopsCompletedOnly(t) ==
    /\ state[t] = "done"
    /\ state' = [state EXCEPT ![t] = "finished"]
    /\ tasks' = IF tasks[keyOf[t]] = t /\ outcome[t] \notin {"cancelled", "never run"}
                THEN [tasks EXCEPT ![keyOf[t]] = None] ELSE tasks
    /\ UNCHANGED <<keyOf, cancelled, flight, outcome, callers, counters>>
Bug_StaleCounts(t) ==
    /\ state[t] = "waiting" /\ t \notin cancelled /\ outcome[t] # "none"
    /\ state' = [state EXCEPT ![t] = "done"]
    /\ outcome' = [outcome EXCEPT ![t] = "seen"]
    /\ refreshCompleted' = refreshCompleted + 1
    /\ refreshFailed' = IF outcome[t] # "fresh" THEN refreshFailed + 1 ELSE refreshFailed
    /\ UNCHANGED <<tasks, keyOf, cancelled, flight, callers, refreshScheduled>>
-----------------------------------------------------------------------------
\* schedule: a registered task that is not done stands for the new one.
Schedule(k) ==
    /\ ~closed
    /\ tasks[k] \notin Live
    /\ Cardinality(Created) < MaxTasks
    /\ LET t == Cardinality(Created) + 1
       IN  /\ tasks' = [tasks EXCEPT ![k] = t]
           /\ keyOf' = Extend(keyOf, t, k)
           /\ state' = Extend(state, t, "created")
           /\ outcome' = Extend(outcome, t, "none")
    /\ refreshScheduled' = refreshScheduled + 1
    /\ UNCHANGED <<cancelled, flight, callers, refreshCompleted, refreshFailed>>

\* _refresh_resource, first step: joins the flight of its key or starts one.
Run(t) ==
    /\ state[t] = "created" /\ t \notin cancelled
    /\ state' = [state EXCEPT ![t] = "waiting"]
    /\ flight' = flight \cup {keyOf[t]}
    /\ UNCHANGED <<tasks, keyOf, cancelled, outcome, callers, counters>>

\* Only a fresh value is a successful refresh.
Resume(t) ==
    /\ state[t] = "waiting" /\ t \notin cancelled /\ outcome[t] # "none"
    /\ state' = [state EXCEPT ![t] = "done"]
    /\ outcome' = [outcome EXCEPT ![t] = "seen"]
    /\ refreshCompleted' = IF outcome[t] = "fresh" THEN refreshCompleted + 1 ELSE refreshCompleted
    /\ refreshFailed' = IF outcome[t] # "fresh" THEN refreshFailed + 1 ELSE refreshFailed
    /\ UNCHANGED <<tasks, keyOf, cancelled, flight, callers, refreshScheduled>>

\* A cancelled task that has not begun never runs its body; the flight goes on in any case.
Stop(t) ==
    /\ t \in cancelled
    /\ state' = [state EXCEPT ![t] = "done"]
    /\ outcome' = [outcome EXCEPT ![t] = IF state[t] = "created" THEN "never run" ELSE "cancelled"]
    /\ cancelled' = cancelled \ {t}
    /\ refreshFailed' = IF state[t] = "created" THEN refreshFailed ELSE refreshFailed + 1
    /\ UNCHANGED <<tasks, keyOf, flight, callers, refreshScheduled, refreshCompleted>>

\* _finish, the callback of a task that is done.
Finish(t) ==
    /\ state[t] = "done"
    /\ state' = [state EXCEPT ![t] = "finished"]
    /\ tasks' = IF tasks[keyOf[t]] = t THEN [tasks EXCEPT ![keyOf[t]] = None] ELSE tasks
    /\ UNCHANGED <<keyOf, cancelled, flight, outcome, callers, counters>>

-----------------------------------------------------------------------------
\* The single-flight: foreground requests start flights too; one ends with a fresh value, or
\* with a stale one or an error.
ForegroundFlight(k) ==
    /\ k \notin flight
    /\ flight' = flight \cup {k}
    /\ UNCHANGED <<tasks, keyOf, state, cancelled, outcome, callers, counters>>

FlightEnds(k) ==
    /\ k \in flight
    /\ flight' = flight \ {k}
    /\ \E o \in {"fresh", "not fresh"} :
         outcome' = [t \in Created |->
                       IF keyOf[t] = k /\ state[t] = "waiting" /\ outcome[t] = "none"
                       THEN o ELSE outcome[t]]
    /\ UNCHANGED <<tasks, keyOf, state, cancelled, callers, counters>>

-----------------------------------------------------------------------------
\* gather(*tasks, return_exceptions=True) ends after the callbacks of all its tasks, which
\* were added before gather's own.
Gathered(c) == \A t \in gathered[c] : state[t] = "finished"

\* wait: gathers what is registered, again and again, until nothing is.
Wait(c) ==
    /\ \/ caller[c] = "no"
       \/ caller[c] = "wait" /\ Gathered(c)
    /\ gathered' = [gathered EXCEPT ![c] = Registered]
    /\ caller' = [caller EXCEPT ![c] = IF Registered = {} THEN "returned" ELSE "wait"]
    /\ UNCHANGED <<tasks, keyOf, state, cancelled, flight, outcome, closed, counters>>

Close(c, cancel) ==
    /\ caller[c] = "no"
    /\ closed' = TRUE
    /\ gathered' = [gathered EXCEPT ![c] = Registered]
    /\ cancelled' = IF cancel THEN cancelled \cup (Registered \cap Live) ELSE cancelled
    /\ caller' = [caller EXCEPT ![c] = "close"]
    /\ UNCHANGED <<tasks, keyOf, state, flight, outcome, counters>>

CloseReturns(c) ==
    /\ caller[c] = "close" /\ Gathered(c)
    /\ caller' = [caller EXCEPT ![c] = "closed"]
    /\ gathered' = [gathered EXCEPT ![c] = {}]
    /\ UNCHANGED <<tasks, keyOf, state, cancelled, flight, outcome, closed, counters>>

\* Cancelling a caller cancels what it gathers; it is told when all of it has ended.
CancelCaller(c) ==
    /\ caller[c] \in {"wait", "close"} /\ ~Gathered(c)
    /\ cancelled' = cancelled \cup (gathered[c] \cap Live)
    /\ caller' = [caller EXCEPT ![c] = "stopping"]
    /\ UNCHANGED <<tasks, keyOf, state, flight, outcome, closed, gathered, counters>>

CallerRaises(c) ==
    /\ caller[c] = "stopping" /\ Gathered(c)
    /\ caller' = [caller EXCEPT ![c] = "raised"]
    /\ gathered' = [gathered EXCEPT ![c] = {}]
    /\ UNCHANGED <<tasks, keyOf, state, cancelled, flight, outcome, closed, counters>>

-----------------------------------------------------------------------------
TaskStep(t) == Run(t) \/ Resume(t) \/ Stop(t) \/ Finish(t)
CallerStep(c) == (caller[c] = "wait" /\ Wait(c)) \/ CloseReturns(c) \/ CallerRaises(c)

Next == \/ \E k \in Keys : Schedule(k) \/ ForegroundFlight(k) \/ FlightEnds(k)
        \/ \E t \in Created : TaskStep(t)
        \/ \E c \in Callers : \/ (caller[c] = "no" /\ Wait(c)) \/ CallerStep(c) \/ CancelCaller(c)
                              \/ \E b \in BOOLEAN : Close(c, b)

Spec == Init /\ [][Next]_vars

\* The event loop runs every ready task and callback, and a flight ends: its source calls are
\* bounded by the limits that SourceAttempts and Capacity describe.
FairSpec ==
    /\ Spec
    /\ \A t \in Tasks : WF_vars(t \in Created /\ TaskStep(t))
    /\ \A k \in Keys : WF_vars(FlightEnds(k))
    /\ \A c \in Callers : WF_vars(CallerStep(c))

-----------------------------------------------------------------------------
\* Every unfinished refresh is the registered one of its key, though the callback of its
\* predecessor may run after it was scheduled: so there is one per key, and shutdown finds it.
LiveRegistered == \A t \in Live : tasks[keyOf[t]] = t

\* Once a close has returned no refresh is left, and none begins.
ClosedMeansSettled ==
    (\E c \in Callers : caller[c] = "closed") => Live = {}

\* No refresh escapes the table while it runs, or a close that has returned.
NoneLeftBehind == TypeOK /\ LiveRegistered /\ ClosedMeansSettled

\* Every refresh scheduled is counted once, as completed or failed, when its task ends; only
\* those cancelled before their first step are not.
RefreshesCounted ==
    refreshScheduled = refreshCompleted + refreshFailed
                         + Cardinality(Live \cup {t \in Created : outcome[t] = "never run"})

\* Waiting and closing end.
CallersReturn ==
    \A c \in Callers : (caller[c] # "no") ~> (caller[c] \in {"returned", "closed", "raised"})
=============================================================================
