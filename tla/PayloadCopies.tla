---------------------------- MODULE PayloadCopies ----------------------------
(***************************************************************************)
(* AsyncPayloadIsolator of core/isolation.py with run_in_thread: copies    *)
(* run in worker threads that cannot be stopped, a semaphore bounds them,  *)
(* and aclose waits for those already started.                             *)
(*                                                                         *)
(* A copy is one call of run.  Its task waits for a second task that       *)
(* acquires the semaphore, then for the worker task of the thread; it may  *)
(* give up either wait, on its deadline or because it is cancelled.  An    *)
(* aclose may be cancelled too, and one without a timeout then cancels the *)
(* worker tasks it waits for, but not what runs in their threads.  The     *)
(* tracker of core/health.py counts what happens, and a monitor polls it.  *)
(***************************************************************************)
EXTENDS Health, Sequences, SequencesExt

CONSTANTS Copies,         \* calls of run
          Deadlined,      \* those with a deadline
          Cancellable,    \* those whose caller may be cancelled
          Failing,        \* those whose operation may raise an exception
          Closers,        \* calls of aclose
          Timed,          \* those with a timeout
          MaxConcurrency  \* max_concurrency

ASSUME CopiesAssumption ==
    IsFiniteSet(Copies) /\ Timed \subseteq Closers /\ MaxConcurrency \in Nat \ {0}

VARIABLES copy,     \* where run is
          thread,   \* the worker task: "no", "running", and before its callback "finished" or
                    \* "cancelled"
          adrift,   \* the operation of a cancelled worker task: "running", then "ended"
          released, \* release_slot's flag
          value,    \* the semaphore's free slots
          queue,    \* the semaphore's waiting acquire tasks, in order
          active,   \* health: active_copies
          waiting,  \* health: waiting_for_capacity
          closing, closed,
          closer,   \* where aclose is
          awaited,  \* the workers it waits for
          late,     \* the copies that ran into their deadline
          count,    \* health: the cumulative counters
          incomplete, \* health: shutdown_incomplete
          polled    \* the health snapshot a monitor keeps, {} before it takes one

slots == <<copy, value, queue>>
shutdown == <<closing, closed, closer, awaited, incomplete>>
vars == <<copy, thread, adrift, released, value, queue, active, waiting, closing, closed, closer, awaited,
          late, count, incomplete, polled>>

\* PayloadCopyHealth: started_count, completed_count, failure_count, timeout_count,
\* capacity_timeout_count, shutdown_timeout_count
Counters == {"started", "completed", "failures", "timeouts", "slot_timeouts", "shutdown_timeouts"}

\* created: the acquire task has not run.  granted: a slot is its, it has not resumed.
\* acquired: the acquire task is done, run has not resumed.  withdrawn, refunding: the
\* acquire task was cancelled while it had no slot, while it was granted one.
Acquiring == {"created", "queued", "granted", "acquired", "withdrawn", "refunding"}

TypeOK ==
    /\ copy \in [Copies -> Acquiring \cup {"idle", "copying", "done"}]
    /\ thread \in [Copies -> {"no", "running", "finished", "cancelled"}]
    /\ adrift \in [Copies -> {"no", "running", "ended"}]
    /\ released \in [Copies -> BOOLEAN]
    /\ value \in 0..MaxConcurrency
    /\ queue \in Seq(Copies)
    /\ active \in Nat /\ waiting \in Nat
    /\ closing \in BOOLEAN /\ closed \in BOOLEAN
    /\ closer \in [Closers -> {"no", "waiting", "returned", "raised", "cancelled"}]
    /\ awaited \in [Closers -> SUBSET Copies]
    /\ late \subseteq Copies /\ count \in [Counters -> Nat] /\ incomplete \in BOOLEAN

Init ==
    /\ copy = [c \in Copies |-> "idle"]
    /\ thread = [c \in Copies |-> "no"] /\ adrift = thread /\ released = [c \in Copies |-> FALSE]
    /\ value = MaxConcurrency /\ queue = <<>>
    /\ active = 0 /\ waiting = 0
    /\ closing = FALSE /\ closed = FALSE
    /\ closer = [k \in Closers |-> "no"] /\ awaited = [k \in Closers |-> {}]
    /\ late = {} /\ count = [n \in Counters |-> 0] /\ incomplete = FALSE /\ polled = {}

\* self._workers
Workers == {c \in Copies : thread[c] # "no"}

\* The operations that run in threads, whether a task still waits for them or not.
Operations == {c \in Copies : "running" \in {thread[c], adrift[c]}}

\* The acquire tasks that hold a slot and have not resumed to take it: their futures are still
\* among the semaphore's waiters.
Notified == {c \in Copies : copy[c] \in {"granted", "refunding"}}

-----------------------------------------------------------------------------
\* asyncio.Semaphore.release (external), when the copies are at cs: the slot goes to the
\* first acquire task that waits, and is free if there is none.
GiveBack(cs) ==
    IF queue = <<>>
    THEN value' = value + 1 /\ copy' = cs /\ UNCHANGED queue
    ELSE copy' = [cs EXCEPT ![Head(queue)] = "granted"] /\ queue' = Tail(queue) /\ UNCHANGED value

-----------------------------------------------------------------------------
\* Plausible slips in the definitions below.
Bug_ForgetsToMark(nowClosing, left) == closed
Bug_ReleaseOnGiveUp(c, expired) ==
    /\ copy[c] = "copying" /\ ~released[c]
    /\ GiveBack([copy EXCEPT ![c] = "done"])
    /\ late' = IF expired THEN late \cup {c} ELSE late
    /\ count' = [count EXCEPT !["timeouts"] = @ + IF expired THEN 1 ELSE 0]
    /\ UNCHANGED <<thread, released, active, waiting, shutdown>>
Bug_SlotGoesUnused(c) ==
    /\ copy[c] = "acquired"
    /\ waiting' = waiting - 1
    /\ copy' = [copy EXCEPT ![c] = "done"] /\ value' = value + 1
    /\ UNCHANGED <<queue, thread, released, active, late, count, shutdown>>
Bug_StartWhileClosing(c) ==
    /\ copy[c] = "acquired"
    /\ waiting' = waiting - 1 /\ active' = active + 1
    /\ count' = [count EXCEPT !["started"] = @ + 1]
    /\ copy' = [copy EXCEPT ![c] = "copying"]
    /\ thread' = [thread EXCEPT ![c] = "running"]
    /\ UNCHANGED <<value, queue, released, late, shutdown>>
Bug_NeverCleared(done) == FALSE
-----------------------------------------------------------------------------
\* PayloadCopyHealthTracker.
CapacityWaitStarted == waiting' = waiting + 1
CapacityWaitFinished == waiting' = waiting - 1
CopyStarted == active' = active + 1 /\ count' = [count EXCEPT !["started"] = @ + 1]
CopyFinished(outcomes) ==
    /\ active' = active - 1
    /\ \E outcome \in outcomes : count' = [count EXCEPT ![outcome] = @ + 1]
RecordTimeout(expired) == count' = [count EXCEPT !["timeouts"] = @ + IF expired THEN 1 ELSE 0]
RecordSlotTimeout(expired) ==
    LET n == IF expired THEN 1 ELSE 0
    IN  count' = [count EXCEPT !["timeouts"] = @ + n, !["slot_timeouts"] = @ + n]

\* shutdown_completed clears shutdown_incomplete.
ClearedBy(done) == done

\* _mark_closed_if_drained, given the workers that are left.
Drained(nowClosing, left) == closed \/ (nowClosing /\ left = {})

MarkClosedIfDrained(nowClosing, left) ==
    /\ closed' = Drained(nowClosing, left)
    /\ incomplete' = (incomplete /\ ~ClearedBy(closed' /\ ~closed))

\* A copy gives up on its deadline, or because its caller is cancelled.
MayGiveUp(c, expired) == c \in IF expired THEN Deadlined ELSE Cancellable

Late(c, expired) == late' = IF expired THEN late \cup {c} ELSE late

-----------------------------------------------------------------------------
\* run: accepted, and _acquire_slot has created the acquire task.
Run(c) ==
    /\ copy[c] = "idle" /\ ~closing
    /\ CapacityWaitStarted
    /\ copy' = [copy EXCEPT ![c] = "created"]
    /\ UNCHANGED <<thread, released, value, queue, active, late, count, shutdown>>

\* The deadline has passed before run begins.
Expired(c) ==
    /\ copy[c] = "idle" /\ ~closing /\ MayGiveUp(c, TRUE)
    /\ copy' = [copy EXCEPT ![c] = "done"]
    /\ Late(c, TRUE) /\ RecordTimeout(TRUE)
    /\ UNCHANGED <<thread, released, value, queue, active, waiting, shutdown>>

\* _ensure_accepting refuses: PayloadCopySubsystemClosedError.
Refuse(c) ==
    /\ copy[c] = "idle" /\ closing
    /\ copy' = [copy EXCEPT ![c] = "done"]
    /\ UNCHANGED <<thread, released, value, queue, active, waiting, late, count, shutdown>>

\* The acquire task runs (external): it takes a free slot or queues, which it also does while
\* another one has been granted a slot and has not resumed (Semaphore.locked).
Acquire(c) ==
    /\ copy[c] = "created"
    /\ IF value = 0 \/ queue # <<>> \/ Notified # {}
       THEN copy' = [copy EXCEPT ![c] = "queued"] /\ queue' = Append(queue, c) /\ UNCHANGED value
       ELSE copy' = [copy EXCEPT ![c] = "acquired"] /\ value' = value - 1 /\ UNCHANGED queue
    /\ UNCHANGED <<thread, released, active, waiting, late, count, shutdown>>

\* The acquire task resumes with its slot, and wakes the next one if another slot is free.
Granted(c) ==
    /\ copy[c] = "granted"
    /\ IF value > 0 /\ queue # <<>>
       THEN /\ copy' = [copy EXCEPT ![c] = "acquired", ![Head(queue)] = "granted"]
            /\ queue' = Tail(queue) /\ value' = value - 1
       ELSE copy' = [copy EXCEPT ![c] = "acquired"] /\ UNCHANGED <<queue, value>>
    /\ UNCHANGED <<thread, released, active, waiting, late, count, shutdown>>

\* run resumes with the slot and starts the thread, ...
Start(c) ==
    /\ copy[c] = "acquired" /\ ~closing
    /\ CapacityWaitFinished /\ CopyStarted
    /\ copy' = [copy EXCEPT ![c] = "copying"]
    /\ thread' = [thread EXCEPT ![c] = "running"]
    /\ UNCHANGED <<value, queue, released, late, shutdown>>

\* ... or gives the slot back: shutdown has begun, or run was cancelled at this point.
PutBack(c) ==
    /\ copy[c] = "acquired" /\ (closing \/ MayGiveUp(c, FALSE))
    /\ CapacityWaitFinished
    /\ GiveBack([copy EXCEPT ![c] = "done"])
    /\ UNCHANGED <<thread, released, active, late, count, shutdown>>

\* task.cancel() on the acquire tasks of S, where they are afterwards ...
CancelAcquire(S) ==
    copy' = [c \in Copies |->
               CASE c \in S /\ copy[c] \in {"created", "queued"} -> "withdrawn"
                 [] c \in S /\ copy[c] = "granted" -> "refunding"
                 [] OTHER -> copy[c]]

\* ... and the queue, which the one of c leaves.
LeaveQueue(c) ==
    IF copy[c] = "queued"
    THEN \E i \in DOMAIN queue : queue[i] = c /\ queue' = RemoveAt(queue, i)
    ELSE UNCHANGED queue

\* run gives up its wait for a slot: _cancel_or_release_acquire of a task that is not done.
GiveUpSlot(c, expired) ==
    /\ copy[c] \in {"created", "queued", "granted"} /\ MayGiveUp(c, expired)
    /\ CancelAcquire({c}) /\ LeaveQueue(c)
    /\ Late(c, expired)
    /\ UNCHANGED <<thread, released, value, active, waiting, count, shutdown>>

\* run is cancelled while it waits for the acquire task it has cancelled itself: it ends with
\* that cancellation and does not report its deadline.
CancelledAgain(c) ==
    /\ copy[c] \in {"withdrawn", "refunding"} /\ c \in late /\ MayGiveUp(c, FALSE)
    /\ late' = late \ {c}
    /\ UNCHANGED <<copy, thread, released, value, queue, active, waiting, count, shutdown>>

\* The cancelled acquire task ends, and run with it: without a slot, ...
Withdraw(c) ==
    /\ copy[c] = "withdrawn"
    /\ CapacityWaitFinished /\ RecordSlotTimeout(c \in late)
    /\ copy' = [copy EXCEPT ![c] = "done"]
    /\ UNCHANGED <<value, queue, thread, released, active, late, shutdown>>

\* ... or with one, which asyncio.Semaphore passes on.
Refund(c) ==
    /\ copy[c] = "refunding"
    /\ CapacityWaitFinished /\ RecordSlotTimeout(c \in late)
    /\ GiveBack([copy EXCEPT ![c] = "done"])
    /\ UNCHANGED <<thread, released, active, late, shutdown>>

\* run gives up its wait for the thread, which keeps its slot.
GiveUpCopy(c, expired) ==
    /\ copy[c] = "copying" /\ ~released[c] /\ MayGiveUp(c, expired)
    /\ copy' = [copy EXCEPT ![c] = "done"]
    /\ Late(c, expired) /\ RecordTimeout(expired)
    /\ UNCHANGED <<thread, released, value, queue, active, waiting, shutdown>>

\* The operation ends in its thread, with a result or an exception.
ThreadEnds(c) ==
    /\ thread[c] = "running"
    /\ thread' = [thread EXCEPT ![c] = "finished"]
    /\ UNCHANGED <<copy, released, value, queue, active, waiting, late, count, shutdown>>

\* The operation ends that no task waits for any more.
AdriftEnds(c) ==
    /\ adrift[c] = "running"
    /\ adrift' = [adrift EXCEPT ![c] = "ended"]
    /\ UNCHANGED <<slots, thread, released, active, waiting, late, count, shutdown>>

Outcomes(c) == {"completed"} \cup IF c \in Failing THEN {"failures"} ELSE {}

\* release_slot as the worker task's done callback: a cancelled task counts as failed.
ReleaseSlot(c) ==
    /\ thread[c] \in {"finished", "cancelled"} /\ ~released[c]
    /\ released' = [released EXCEPT ![c] = TRUE]
    /\ CopyFinished(IF thread[c] = "cancelled" THEN {"failures"} ELSE Outcomes(c))
    /\ thread' = [thread EXCEPT ![c] = "no"]
    /\ GiveBack(copy)
    /\ MarkClosedIfDrained(closing, Workers \ {c})
    /\ UNCHANGED <<waiting, late, closing, closer, awaited>>

\* run resumes after the thread; its own release_slot finds the flag set.  The result is of
\* no use if the deadline has passed meanwhile; there is none if the worker was cancelled.
Finish(c, expired) ==
    /\ copy[c] = "copying" /\ released[c]
    /\ expired => MayGiveUp(c, TRUE) /\ adrift[c] = "no"
    /\ copy' = [copy EXCEPT ![c] = "done"]
    /\ Late(c, expired) /\ RecordTimeout(expired)
    /\ UNCHANGED <<thread, released, value, queue, active, waiting, shutdown>>

\* aclose: the first one cancels the acquire tasks.  Any one waits for the workers there are.
Aclose(k) ==
    /\ closer[k] = "no"
    /\ closing' = TRUE
    /\ IF closing THEN UNCHANGED <<copy, queue, closed, incomplete>>
                  ELSE /\ CancelAcquire(Copies) /\ queue' = <<>>
                       /\ MarkClosedIfDrained(TRUE, Workers)
    /\ closer' = [closer EXCEPT ![k] = IF closed' THEN "returned" ELSE "waiting"]
    /\ awaited' = [awaited EXCEPT ![k] = IF closed' THEN {} ELSE Workers]
    /\ UNCHANGED <<thread, released, value, active, waiting, late, count>>

AcloseReturns(k) ==
    /\ closer[k] = "waiting" /\ awaited[k] \cap Workers = {}
    /\ MarkClosedIfDrained(closing, Workers)
    /\ closer' = [closer EXCEPT ![k] = "returned"]
    /\ UNCHANGED <<copy, thread, released, value, queue, active, waiting, closing, awaited, late,
                   count>>

\* The timeout passes and asyncio.wait reports a worker as pending: shutdown_timed_out and
\* PayloadCopyShutdownTimeoutError.
AcloseTimeout(k) ==
    /\ closer[k] = "waiting" /\ k \in Timed
    /\ \E c \in awaited[k] : thread[c] \in {"running", "cancelled"}
    /\ closer' = [closer EXCEPT ![k] = "raised"]
    /\ incomplete' = TRUE
    /\ count' = [count EXCEPT !["shutdown_timeouts"] = @ + 1]
    /\ UNCHANGED <<copy, thread, released, value, queue, active, waiting, closing, closed, awaited,
                   late>>

\* An aclose is cancelled.  Without a timeout its gather cancels the worker tasks it waits for,
\* whose operations run on in their threads.
Abandoned(k) == IF k \in Timed THEN {} ELSE {c \in awaited[k] : thread[c] = "running"}

AcloseCancelled(k) ==
    /\ closer[k] = "waiting"
    /\ closer' = [closer EXCEPT ![k] = "cancelled"]
    /\ thread' = [c \in Copies |-> IF c \in Abandoned(k) THEN "cancelled" ELSE thread[c]]
    /\ adrift' = [c \in Copies |-> IF c \in Abandoned(k) THEN "running" ELSE adrift[c]]
    /\ UNCHANGED <<slots, released, active, waiting, closing, closed, awaited, late, count,
                   incomplete>>

-----------------------------------------------------------------------------
\* The part of builder.health_snapshot that comes from the copy subsystem.
HealthSnapshot ==
    [Untroubled EXCEPT
        !.copies = [n \in {"builder"} |-> [waiting |-> waiting, limit |-> MaxConcurrency]],
        !.copyShutdownIncomplete = incomplete,
        !.counters = [n \in {"failures", "timeouts", "shutdown_timeouts"} |-> count[n]]]

\* A monitor takes its baseline, once.  assess reads nothing but the counters of it.
Poll ==
    /\ polled = {}
    /\ polled' = {[counters |-> HealthSnapshot.counters]}
    /\ UNCHANGED <<slots, thread, adrift, released, active, waiting, late, count, shutdown>>

-----------------------------------------------------------------------------
Progress(c) ==
    /\ \/ Acquire(c) \/ Granted(c) \/ Start(c) \/ (closing /\ PutBack(c))
       \/ Withdraw(c) \/ Refund(c) \/ ReleaseSlot(c)
       \/ \E expired \in BOOLEAN : Finish(c, expired)
    /\ UNCHANGED <<adrift, polled>>

Interrupted(c) ==
    /\ \/ Run(c) \/ Expired(c) \/ Refuse(c) \/ PutBack(c) \/ CancelledAgain(c) \/ ThreadEnds(c)
       \/ \E expired \in BOOLEAN : GiveUpSlot(c, expired) \/ GiveUpCopy(c, expired)
    /\ UNCHANGED <<adrift, polled>>

Closing(k) ==
    /\ Aclose(k) \/ AcloseReturns(k) \/ AcloseTimeout(k)
    /\ UNCHANGED <<adrift, polled>>

Next == \/ \E c \in Copies : Progress(c) \/ Interrupted(c) \/ (AdriftEnds(c) /\ UNCHANGED polled)
        \/ \E k \in Closers : Closing(k) \/ (AcloseCancelled(k) /\ UNCHANGED polled)
        \/ Poll

Spec == Init /\ [][Next]_vars

\* The event loop runs what is ready, and the operations end.  Nobody has to give up.
FairSpec ==
    /\ Spec
    /\ \A c \in Copies : /\ WF_vars(Progress(c))
                         /\ WF_vars(ThreadEnds(c) /\ UNCHANGED <<adrift, polled>>)
    /\ \A k \in Closers : WF_vars(AcloseReturns(k) /\ UNCHANGED <<adrift, polled>>)

-----------------------------------------------------------------------------
\* Every slot is free or belongs to exactly one copy: the slot of a copy nobody waits for any
\* more stays taken until its worker task ends, and no cancellation, timeout or shutdown between
\* the grant and the start loses a slot or gives it back twice.
SlotsAccounted ==
    value + Cardinality({c \in Copies : copy[c] \in {"granted", "refunding", "acquired"}})
          + Cardinality(Workers) = MaxConcurrency

\* The figures of PayloadCopyHealth say what is going on, so that none of their "cannot
\* become negative" errors can be raised, and no copy is counted twice or not at all, not
\* even one that gave up and whose thread ends later.
HealthExact ==
    /\ active = Cardinality(Workers)
    /\ waiting = Cardinality({c \in Copies : copy[c] \in Acquiring})
    /\ count["started"] = count["completed"] + count["failures"] + active
    /\ count["timeouts"] = Cardinality({c \in late : copy[c] = "done"})
    /\ count["slot_timeouts"] <= count["timeouts"]

\* There are never more than max_concurrency operations in threads, although the slot of one
\* that a cancelled aclose abandoned is given back while it runs: nothing starts any more then.
OperationsBounded == Cardinality(Operations) <= MaxConcurrency

\* Slots, gauges and threads follow the copies exactly.
SlotsExact == TypeOK /\ SlotsAccounted /\ HealthExact /\ OperationsBounded

\* While shutdown is incomplete there is a worker to wait for: a second aclose never passes
\* asyncio.wait an empty set, which would raise ValueError.
ClosingHasWorkers == closing /\ ~closed => Workers # {}

\* An aclose that returned has left no operation running in a thread, and none starts
\* afterwards, unless an aclose without a timeout was cancelled: that one cancels the worker
\* tasks, their slots are released, and the shutdown counts as complete with the threads
\* still running.
ReturnedMeansDrained ==
    (\E k \in Closers : closer[k] = "returned") =>
        /\ closed /\ Workers = {}
        /\ Operations = {} \/ \E k \in Closers \ Timed : closer[k] = "cancelled"

\* Stronger, and false of the code because of such a cancellation: the slot of an operation
\* stays "reserved until the underlying operation actually finishes".
SlotKeptWhileRunning == Operations \subseteq Workers

\* Every aclose finds what it needs, and what it reports is true.
ShutdownSound == ClosingHasWorkers /\ ReturnedMeansDrained

\* A shutdown that has begun completes once the late threads have ended, also when the aclose
\* that began it gave up with PayloadCopyShutdownTimeoutError (_mark_closed_if_drained).
ShutdownCompletes == closing ~> closed

\* BuilderHealth.assess tells a monitor the truth about the copies in every state: it reports
\* an incomplete shutdown exactly while an aclose has timed out and worker tasks are left, and
\* no longer once they have ended; waiting copies exactly while there are some, as
\* critical once there are as many as slots; and with a baseline a timeout exactly if a copy
\* ran into its deadline after it was taken.
HealthTruthful ==
    LET findings == Findings(HealthSnapshot, polled, DefaultPolicy)
        reasons  == Reasons(findings)
        inLine   == Cardinality({c \in Copies : copy[c] \in Acquiring})
    IN  /\ "payload_copy_shutdown_incomplete" \in reasons <=>
                ~closed /\ \E k \in Closers : closer[k] = "raised"
        /\ "payload_copy_capacity_waiting" \in reasons <=> inLine > 0
        /\ inLine >= MaxConcurrency => Severity(findings) = "critical"
        /\ \A before \in polled :
            "timeouts" \in reasons <=>
                Cardinality({c \in late : copy[c] = "done"}) > before.counters["timeouts"]
        /\ closed /\ inLine = 0 /\ polled = {} => Severity(findings) = "healthy"

\* The copy threads implement a pool of slots: a slot belongs to a copy from its grant until
\* its thread has ended, also when nobody waits for the thread any more, and neither a
\* shutdown nor a deadline lets a copy overtake another.
Pool == INSTANCE SlotPool WITH
            Pools <- {"copies"}, Clients <- Copies, Size <- [p \in {"copies"} |-> MaxConcurrency],
            holders <- [p \in {"copies"} |->
                          Workers \cup {c \in Copies : copy[c] \in {"granted", "refunding", "acquired"}}],
            queue <- [p \in {"copies"} |-> queue]

CopiesArePool == Pool!Spec
=============================================================================
