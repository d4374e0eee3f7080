----------------------------- MODULE SyncFacade -----------------------------
(***************************************************************************)
(* SyncSnapshotBuilder of sync.py: threads that hand coroutines to a       *)
(* private event loop, blocking on the result or not, and the close that   *)
(* stops the loop, while builder.aclose runs on it.                        *)
(*                                                                         *)
(* A call is any method that blocks on its coroutine (_submit), a          *)
(* submission a submit_* method (_schedule_submission).  Both reach the    *)
(* loop through call_soon_threadsafe, a first-in first-out queue.  Copies  *)
(* stand for the worker threads of the builder's payload isolator.         *)
(***************************************************************************)
EXTENDS Integers, Sequences, FiniteSets, SequencesExt

CONSTANTS Calls, Submissions, \* the operations, each made once by its own thread
          Copiers,            \* the operations that copy payloads in threads
          Closers,            \* threads that call close
          Sizes               \* the values max_pending_submissions may have

Ops == Calls \cup Submissions
NoOne == "no one"

ASSUME FacadeAssumption ==
    /\ Sizes \subseteq Nat \ {0}
    /\ Calls \cap Submissions = {} /\ Copiers \subseteq Ops
    /\ NoOne \notin Closers

VARIABLES closeBuilder,     \* _close_builder
          maxPending,       \* _max_pending_submissions
          future,           \* the caller's concurrent future
          task,             \* the operation's task on the loop
          copying,          \* whether a copy it started runs in a thread
          ready,            \* the loop's queue of callbacks
          loop,             \* the loop's thread
          pending,          \* _pending_submissions
          closing, closed,  \* _closing (so not _accepting_submissions), _closed
          lock,             \* the holder of _close_lock
          closer,           \* where each close is
          draining,         \* the submissions its close waits for
          aclose,           \* the stage of builder.aclose, or of wait_for_refreshes
          late,             \* whether a stage of it has timed out
          deferred          \* _stop_loop_after_background_workers

vars == <<closeBuilder, maxPending, future, task, copying, ready, loop, pending, closing, closed, lock,
          closer, draining, aclose, late, deferred>>
config == <<closeBuilder, maxPending>>
flags == <<closing, closed>>

Callbacks == ({"create", "cancel"} \X Ops)
               \cup ({"loop"} \X {"aclose", "cancel aclose", "deferred", "stop"})
Stages == {"refreshes", "copies", "observability"}

TypeOK ==
    /\ closeBuilder \in BOOLEAN /\ maxPending \in Sizes
    /\ future \in [Ops -> {"none", "accepted", "refused", "done", "cancelled"}]
    /\ task \in [Ops -> {"none", "running", "cancelling", "ended"}]
    /\ copying \in [Ops -> BOOLEAN]
    /\ ready \in Seq(Callbacks)
    /\ loop \in {"running", "cancelling", "closed"}
    /\ pending \in SUBSET Submissions /\ Cardinality(pending) <= maxPending
    /\ closing \in BOOLEAN /\ closed \in BOOLEAN
    /\ lock \in Closers \cup {NoOne}
    /\ closer \in [Closers -> {"no", "draining", "cancelling", "waiting", "stopping", "joining",
                               "ended"}]
    /\ draining \in SUBSET Submissions
    /\ aclose \in Stages \cup {"none", "ended"}
    /\ late \in BOOLEAN
    /\ deferred \in {"no", "waiting", "ended"}

Init ==
    /\ closeBuilder \in BOOLEAN /\ maxPending \in Sizes
    /\ future = [o \in Ops |-> "none"] /\ task = [o \in Ops |-> "none"]
    /\ copying = [o \in Ops |-> FALSE]
    /\ ready = <<>> /\ loop = "running"
    /\ pending = {} /\ closing = FALSE /\ closed = FALSE
    /\ lock = NoOne /\ closer = [k \in Closers |-> "no"] /\ draining = {}
    /\ aclose = "none" /\ late = FALSE /\ deferred = "no"

Copying == {o \in Ops : copying[o]}
Post(c) == ready' = Append(ready, c)

-----------------------------------------------------------------------------
\* Plausible slips in the definitions below.
Bug_ClosedCheckedTooEarly(o) ==
    /\ o \in Calls /\ future[o] = "none"
    /\ future' = [future EXCEPT ![o] = "accepted"]
    /\ Post(<<"create", o>>)
    /\ UNCHANGED <<config, task, copying, loop, pending, flags, lock, closer, draining,
                   aclose, late, deferred>>
Bug_NothingCancelled ==
    /\ loop # "closed" /\ ready # <<>> /\ Head(ready) = <<"loop", "stop">>
    /\ loop' = "closed"
    /\ ready' = Tail(ready)
    /\ UNCHANGED <<config, future, task, copying, pending, flags, lock, closer, draining,
                   aclose, late, deferred>>
Bug_NotDeferred(k) ==
    /\ closer[k] = "waiting" /\ aclose = "ended"
    /\ closed' = TRUE /\ closing' = FALSE
    /\ closer' = [closer EXCEPT ![k] = IF late THEN "ended" ELSE "stopping"]
    /\ lock' = IF late THEN NoOne ELSE lock
    /\ UNCHANGED <<config, future, task, copying, ready, loop, pending, draining, aclose,
                   late, deferred>>
-----------------------------------------------------------------------------
\* _schedule: a blocking call.
Schedule(o) ==
    /\ o \in Calls /\ future[o] = "none"
    /\ IF closed \/ closing
       THEN future' = [future EXCEPT ![o] = "refused"] /\ UNCHANGED ready
       ELSE future' = [future EXCEPT ![o] = "accepted"] /\ Post(<<"create", o>>)
    /\ UNCHANGED <<config, task, copying, loop, pending, flags, lock, closer, draining,
                   aclose, late, deferred>>

\* _schedule_submission: refused when closing or when the backlog is full.
ScheduleSubmission(o) ==
    /\ o \in Submissions /\ future[o] = "none"
    /\ IF closed \/ closing \/ Cardinality(pending) >= maxPending
       THEN future' = [future EXCEPT ![o] = "refused"] /\ UNCHANGED <<ready, pending>>
       ELSE /\ future' = [future EXCEPT ![o] = "accepted"]
            /\ pending' = pending \cup {o}
            /\ Post(<<"create", o>>)
    /\ UNCHANGED <<config, task, copying, loop, flags, lock, closer, draining, aclose,
                   late, deferred>>

\* _submission_completed, called when the future is done.
SubmissionCompleted(o) ==
    /\ o \in pending /\ future[o] \in {"done", "cancelled"}
    /\ pending' = pending \ {o}
    /\ UNCHANGED <<config, future, task, copying, ready, loop, flags, lock, closer,
                   draining, aclose, late, deferred>>

-----------------------------------------------------------------------------
\* The event loop.  A callback runs only once those queued before it have run.
Callback(c) ==
    /\ loop # "closed" /\ ready # <<>> /\ Head(ready) = c
    /\ UNCHANGED <<config, future, copying, pending, flags, lock, closer, draining, late>>

\* run_coroutine_threadsafe (external): the task is created, and cancelled if its future
\* has been cancelled meanwhile; a cancelled future has its task cancelled.
CreateTask(o) ==
    /\ Callback(<<"create", o>>)
    /\ task' = [task EXCEPT ![o] = IF future[o] = "cancelled" THEN "cancelling" ELSE "running"]
    /\ ready' = Tail(ready)
    /\ UNCHANGED <<loop, aclose, deferred>>

CancelTask(o) ==
    /\ Callback(<<"cancel", o>>)
    /\ task' = [task EXCEPT ![o] = IF @ = "running" THEN "cancelling" ELSE @]
    /\ ready' = Tail(ready)
    /\ UNCHANGED <<loop, aclose, deferred>>

\* The operation's task: it copies payloads in threads, unless the isolator is closing, ...
StartCopy(o) ==
    /\ o \in Copiers /\ ~copying[o]
    /\ task[o] = "running" /\ loop = "running"
    /\ aclose \in {"none", "refreshes"} \/ ~closeBuilder
    /\ copying' = [copying EXCEPT ![o] = TRUE]
    /\ UNCHANGED <<config, future, task, ready, loop, pending, flags, lock, closer,
                   draining, aclose, late, deferred>>

CopyEnds(o) ==
    /\ copying[o]
    /\ copying' = [copying EXCEPT ![o] = FALSE]
    /\ UNCHANGED <<config, future, task, ready, loop, pending, flags, lock, closer,
                   draining, aclose, late, deferred>>

\* ... and ends, by itself or because it was cancelled.
TaskEnds(o) ==
    /\ task[o] \in {"running", "cancelling"} /\ loop # "closed"
    /\ task' = [task EXCEPT ![o] = "ended"]
    /\ future' = [future EXCEPT ![o] =
                    CASE @ # "accepted" -> @
                      [] @ = "accepted" /\ task[o] = "running" -> "done"
                      [] OTHER -> "cancelled"]
    /\ UNCHANGED <<config, copying, ready, loop, pending, flags, lock, closer, draining,
                   aclose, late, deferred>>

-----------------------------------------------------------------------------
\* builder.aclose on the loop.  Its stages follow one another whether or not they fail, and a
\* cancellation only ends the current stage: each catches BaseException.
NextStage(s) == CASE s = "refreshes" /\ closeBuilder -> "copies"
                  [] s = "copies" -> "observability"
                  [] OTHER -> "ended"

StartAclose ==
    /\ Callback(<<"loop", "aclose">>)
    /\ aclose' = "refreshes"
    /\ ready' = Tail(ready)
    /\ UNCHANGED <<task, loop, deferred>>

CancelAclose ==
    /\ Callback(<<"loop", "cancel aclose">>)
    /\ aclose' = IF aclose \in Stages THEN NextStage(aclose) ELSE aclose
    /\ ready' = Tail(ready)
    /\ UNCHANGED <<task, loop, deferred>>

\* A stage ends, in time or late: refreshes are awaited without a limit, copies and
\* observability buffers up to the shutdown timeout.  Once the loop is cancelling, the tasks
\* of the copies are, though not their threads.
StageEnds(s) ==
    /\ aclose = s /\ loop # "closed"
    /\ \/ (s # "copies" \/ Copying = {} \/ loop = "cancelling") /\ UNCHANGED late
       \/ s = "copies" /\ Copying # {} /\ late' = TRUE
       \/ s = "observability" /\ late' = TRUE
    /\ aclose' = NextStage(s)
    /\ UNCHANGED <<config, future, task, copying, ready, loop, pending, flags, lock,
                   closer, draining, deferred>>

\* _stop_loop_after_background_workers
StartDeferred ==
    /\ Callback(<<"loop", "deferred">>)
    /\ deferred' = "waiting"
    /\ ready' = Tail(ready)
    /\ UNCHANGED <<task, loop, aclose>>

DeferredStop ==
    /\ deferred = "waiting" /\ loop = "running" /\ Copying = {}
    /\ deferred' = "ended"
    /\ Post(<<"loop", "stop">>)
    /\ UNCHANGED <<config, future, task, copying, loop, pending, flags, lock, closer,
                   draining, aclose, late>>

\* loop.stop, after which _run_loop cancels every task, ...
LoopStops ==
    /\ Callback(<<"loop", "stop">>)
    /\ loop' = "cancelling"
    /\ task' = [o \in Ops |-> IF task[o] = "running" THEN "cancelling" ELSE task[o]]
    /\ aclose' = IF aclose \in Stages THEN NextStage(aclose) ELSE aclose
    /\ deferred' = IF deferred = "waiting" THEN "ended" ELSE deferred
    /\ ready' = Tail(ready)

\* ... waits for the ones it cancelled, and closes the loop; later callbacks never run.
LoopCloses ==
    /\ loop = "cancelling" /\ aclose \notin Stages
    /\ \A o \in Ops : task[o] # "cancelling"
    /\ loop' = "closed"
    /\ UNCHANGED <<config, future, task, copying, ready, pending, flags, lock, closer,
                   draining, aclose, late, deferred>>

-----------------------------------------------------------------------------
\* close, of the thread that holds _close_lock.
Step(k, from, to) ==
    /\ closer[k] = from
    /\ closer' = [closer EXCEPT ![k] = to]
    /\ UNCHANGED <<config, task, copying, loop, pending, aclose, late, deferred>>

Close(k) ==
    /\ lock = NoOne
    /\ IF closed
       THEN Step(k, "no", "ended") /\ UNCHANGED <<flags, lock, draining>>
       ELSE /\ Step(k, "no", "draining")
            /\ closing' = TRUE /\ lock' = k /\ draining' = pending
            /\ UNCHANGED closed
    /\ UNCHANGED <<future, ready>>

\* _drain_or_cancel_submissions: the submissions have ended, ...
Drained(k) ==
    /\ \A o \in draining : future[o] # "accepted"
    /\ Step(k, "draining", "waiting")
    /\ Post(<<"loop", "aclose">>)
    /\ UNCHANGED <<future, flags, lock, draining>>

\* ... or the timeout has passed and those that remain are cancelled, one by one, and waited
\* for again, for a bounded time: until then or until it is over, whatever the loop does.
DrainTimeout(k) ==
    /\ \E o \in draining : future[o] = "accepted"
    /\ Step(k, "draining", "cancelling")
    /\ UNCHANGED <<future, ready, flags, lock, draining>>

CancelOne(k, o) ==
    /\ o \in draining /\ future[o] = "accepted"
    /\ Step(k, "cancelling", "cancelling")
    /\ future' = [future EXCEPT ![o] = "cancelled"]
    /\ Post(<<"cancel", o>>)
    /\ UNCHANGED <<flags, lock, draining>>

Cancelled(k) ==
    /\ \A o \in draining : future[o] # "accepted"
    /\ Step(k, "cancelling", "waiting")
    /\ Post(<<"loop", "aclose">>)
    /\ UNCHANGED <<future, flags, lock, draining>>

\* _submit_during_close has its result; with a timeout error of the builder's, the loop is
\* left to stop later, and the error is raised.
AcloseEnded(k) ==
    /\ aclose = "ended"
    /\ closed' = TRUE /\ closing' = FALSE
    /\ IF late
       THEN /\ Step(k, "waiting", "ended")
            /\ Post(<<"loop", "deferred">>)
            /\ lock' = NoOne
       ELSE Step(k, "waiting", "stopping") /\ UNCHANGED <<ready, lock>>
    /\ UNCHANGED <<future, draining>>

\* _submit_during_close gives up, shutdown_timeout_seconds + 0.1 after it began.
AcloseTimeout(k) ==
    /\ aclose # "ended"
    /\ closed' = TRUE /\ closing' = FALSE
    /\ Step(k, "waiting", "stopping")
    /\ Post(<<"loop", "cancel aclose">>)
    /\ UNCHANGED <<future, lock, draining>>

StopLoop(k) ==
    /\ Step(k, "stopping", "joining")
    /\ Post(<<"loop", "stop">>)
    /\ UNCHANGED <<future, flags, lock, draining>>

\* The thread is joined, or the join times out and close raises RuntimeError.
Join(k) ==
    /\ Step(k, "joining", "ended")
    /\ lock' = NoOne
    /\ UNCHANGED <<future, ready, flags, draining>>

-----------------------------------------------------------------------------
Caller(o) == Schedule(o) \/ ScheduleSubmission(o)
LoopWork == \/ \E o \in Ops : CreateTask(o) \/ CancelTask(o) \/ (task[o] = "cancelling" /\ TaskEnds(o))
            \/ StartAclose \/ CancelAclose \/ StartDeferred \/ DeferredStop \/ LoopStops
            \/ StageEnds("copies") \/ StageEnds("observability") \/ LoopCloses
ClosingWork(k) == \/ Drained(k) \/ DrainTimeout(k) \/ Cancelled(k) \/ AcloseEnded(k)
                  \/ AcloseTimeout(k) \/ StopLoop(k) \/ Join(k)
                  \/ \E o \in Submissions : CancelOne(k, o)

Next == \/ \E o \in Ops : \/ Caller(o) \/ SubmissionCompleted(o) \/ StartCopy(o) \/ CopyEnds(o)
                          \/ TaskEnds(o)
        \/ LoopWork \/ StageEnds("refreshes")
        \/ \E k \in Closers : Close(k) \/ ClosingWork(k)

Spec == Init /\ [][Next]_vars

\* The loop's thread runs what is ready, a cancelled task ends, the waits of close and the
\* bounded stages of aclose end or time out.  An operation or a refresh that nobody cancels
\* need not end, and neither need a copy: its thread runs the payload's own code.
FairSpec ==
    /\ Spec
    /\ WF_vars(LoopWork)
    /\ \A o \in Ops : WF_vars(task[o] = "cancelling" /\ TaskEnds(o))
    /\ \A k \in Closers : WF_vars(ClosingWork(k))

-----------------------------------------------------------------------------
\* No coroutine is handed to the loop behind its stop: when the loop begins to end, every
\* operation a caller still waits for has a task among those that are cancelled.
NothingBehindStop ==
    loop # "running" => \A o \in Ops : future[o] = "accepted" => task[o] = "cancelling"

\* The backlog holds every submission that has not ended, and the builder is closed only when
\* all of them have ended or been cancelled, those accepted while close began included.
BuilderClosedAfterSubmissions ==
    /\ \A o \in Submissions : future[o] = "accepted" => o \in pending
    /\ aclose # "none" => \A o \in Submissions : future[o] # "accepted"

\* A loop whose stop was deferred after a shutdown timeout ends only once the late copies have.
DeferredStopWaits == deferred # "no" /\ loop # "running" => Copying = {}

\* The order in which close takes the facade down: submissions, builder, copies, loop.
ShutdownOrder == TypeOK /\ NothingBehindStop /\ BuilderClosedAfterSubmissions /\ DeferredStopWaits

\* No copy hangs for ever.
CopiesEnd == []<>(Copying = {})

\* Once close has been called no caller stays blocked, whatever the operation or the refreshes
\* it waited for do, if no copy hangs: the stop that was deferred after a shutdown timeout, and
\* cancels the operations that are left, comes only when all copies have ended.
CallersReturn ==
    CopiesEnd => \A o \in Ops : (closing /\ future[o] = "accepted") ~> future[o] # "accepted"

\* A close always returns or raises, though operations, refreshes and copies hang.  The loop it
\* closed ends, if no copy hangs.
CloseEnds ==
    /\ closing ~> \A k \in Closers : closer[k] \in {"no", "ended"}
    /\ CopiesEnd => (closing ~> loop = "closed")

\* What docs/architecture.md says: after a shutdown timeout the loop is kept alive until the
\* late copy workers have drained.  The code does not keep this when its own wait for aclose
\* expires first: see the README.
LoopOutlivesCopies == closeBuilder /\ loop # "running" => Copying = {}
=============================================================================
