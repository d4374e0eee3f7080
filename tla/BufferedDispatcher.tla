------------------------- MODULE BufferedDispatcher -------------------------
(***************************************************************************)
(* observability/buffered.py: the bounded queue between the threads that   *)
(* emit events and metrics and the worker thread that delivers them, and   *)
(* its shutdown.                                                           *)
(*                                                                         *)
(* Two locks are at work.  The counters and `closed' are guarded by        *)
(* _condition; queue.Queue has a lock of its own, and the worker and the   *)
(* closing thread use the queue without holding _condition.  submit holds  *)
(* _condition throughout, but the worker can still take a record between   *)
(* its put_nowait (Full) and its get_nowait.                               *)
(***************************************************************************)
EXTENDS Health, Sequences

CONSTANTS Producers,  \* threads that call submit
          Closers,    \* threads that call close
          Drains,     \* the closers with drain=True
          Timed,      \* the closers with a timeout
          Policies,   \* the overflow policies the buffer may be built with
          Sizes,      \* the values of max_pending it may be built with
          MaxRecords  \* bound of the model: records submitted

Sentinel == 0
NoOne == "no one"

ASSUME BufferAssumption ==
    /\ NoOne \notin Producers \cup Closers
    /\ Drains \subseteq Closers /\ Timed \subseteq Closers
    /\ Policies \subseteq {"drop_oldest", "drop_newest", "raise"}
    /\ Sizes \subseteq Nat \ {0} /\ MaxRecords \in Nat

VARIABLES overflow,  \* BufferOverflowPolicy
          maxPending, \* _max_pending, and so the queue's maxsize
          queue,     \* the queued records, Sentinel for _SENTINEL
          holder,    \* the producer that holds _condition across a Full queue
          worker,    \* the worker thread
          closed,    \* _closed
          first,     \* the thread whose close was the first
          closing,   \* where each closing thread is
          enqueued, delivered, dropped, failures, pending,  \* the counters
          submitted, \* history: submit calls so far; a record is its number
          refused,   \* history: records that were never queued
          raised,    \* history: submit calls that raised queue.Full
          lost,      \* history: records whose handling ended the worker
          log        \* history: the records handled, in order

vars == <<overflow, maxPending, queue, holder, worker, closed, first, closing,
          enqueued, delivered, dropped, failures, pending, submitted, refused, raised, lost, log>>
config == <<overflow, maxPending>>
closers == <<closed, first, closing>>
counters == <<enqueued, delivered, dropped, failures, pending>>

\* not _thread.is_alive()
Ended == worker \in {"stopped", "dead"}

TypeOK ==
    /\ overflow \in Policies /\ maxPending \in Sizes
    /\ queue \in Seq(0..MaxRecords) /\ Len(queue) <= maxPending
    /\ holder \in Producers \cup {NoOne}
    /\ worker \in {"idle", "handling", "handled", "stopped", "dead"}
    /\ closed \in BOOLEAN /\ first \in Closers \cup {NoOne}
    /\ closing \in [Closers -> {"no", "flush", "discard", "count", "sentinel", "join",
                                "stopped", "timed out"}]
    /\ enqueued \in Nat /\ delivered \in Nat /\ dropped \in Nat /\ failures \in Nat
    /\ pending \in Nat /\ submitted \in 0..MaxRecords /\ refused \in Nat /\ raised \in Nat
    /\ lost \in 0..1 /\ log \in Seq(1..MaxRecords)

Init ==
    /\ overflow \in Policies /\ maxPending \in Sizes
    /\ queue = <<>> /\ holder = NoOne
    /\ worker = "idle"
    /\ closed = FALSE /\ first = NoOne /\ closing = [c \in Closers |-> "no"]
    /\ enqueued = 0 /\ delivered = 0 /\ dropped = 0 /\ failures = 0 /\ pending = 0
    /\ submitted = 0 /\ refused = 0 /\ raised = 0 /\ lost = 0 /\ log = <<>>

-----------------------------------------------------------------------------
\* Plausible slips in the definitions below.
Bug_EvictForgetsPending(p) ==
    /\ holder = p
    /\ holder' = NoOne
    /\ dropped' = dropped + 1
    /\ queue' = IF queue = <<>> THEN queue ELSE Append(Tail(queue), submitted)
    /\ refused' = refused + IF queue = <<>> THEN 1 ELSE 0
    /\ enqueued' = enqueued + IF queue = <<>> THEN 0 ELSE 1
    /\ pending' = pending + IF queue = <<>> THEN 0 ELSE 1
    /\ UNCHANGED <<config, worker, closers, delivered, failures, submitted, raised, log, lost>>
Bug_DropsNewest(p) ==
    /\ holder = NoOne /\ ~closed /\ Len(queue) = maxPending /\ submitted < MaxRecords
    /\ overflow = "drop_oldest"
    /\ submitted' = submitted + 1 /\ refused' = refused + 1 /\ dropped' = dropped + 1
    /\ UNCHANGED <<config, queue, holder, worker, closers, enqueued, delivered, failures,
                   pending, raised, log, lost>>
Bug_AcceptsAfterClose(p) ==
    /\ holder = NoOne /\ Len(queue) < maxPending /\ submitted < MaxRecords
    /\ submitted' = submitted + 1
    /\ queue' = Append(queue, submitted + 1)
    /\ enqueued' = enqueued + 1
    /\ pending' = pending + 1
    /\ UNCHANGED <<config, holder, worker, closers, delivered, dropped, failures, refused,
                   raised, log, lost>>
Bug_AliveUntilSentinel ==
    [Untroubled EXCEPT
        !.buffers = [n \in {"events"} |->
                       [pending |-> pending, limit |-> maxPending, closed |-> closed,
                        alive |-> worker # "stopped"]],
        !.bufferShutdownIncomplete = closed /\ worker # "stopped"]
Bug_SentinelOnlyIfDrained(c) ==
    /\ closing[c] = "discard" /\ queue = <<>>
    /\ closing' = [closing EXCEPT ![c] = "join"]
    /\ UNCHANGED <<config, queue, holder, worker, closed, first, counters, submitted, refused,
                   raised, log, lost>>
-----------------------------------------------------------------------------
\* The queue after put_nowait.
Put(r) == Append(queue, r)

\* submit with room in the queue.
Submit(p) ==
    /\ holder = NoOne /\ ~closed /\ Len(queue) < maxPending /\ submitted < MaxRecords
    /\ submitted' = submitted + 1
    /\ queue' = Put(submitted + 1)
    /\ enqueued' = enqueued + 1
    /\ pending' = pending + 1
    /\ UNCHANGED <<config, holder, worker, closers, delivered, dropped,
                   failures, refused, raised, log, lost>>

\* submit to a full queue, DROP_NEWEST.
DropNewest(p) ==
    /\ holder = NoOne /\ ~closed /\ Len(queue) = maxPending /\ submitted < MaxRecords
    /\ overflow = "drop_newest"
    /\ submitted' = submitted + 1 /\ refused' = refused + 1
    /\ dropped' = dropped + 1
    /\ UNCHANGED <<config, queue, holder, worker, closers, enqueued,
                   delivered, failures, pending, raised, log, lost>>

\* submit to a full queue, RAISE: the caller gets queue.Full.
RaiseFull(p) ==
    /\ holder = NoOne /\ ~closed /\ Len(queue) = maxPending /\ submitted < MaxRecords
    /\ overflow = "raise"
    /\ submitted' = submitted + 1 /\ raised' = raised + 1
    /\ UNCHANGED <<config, queue, holder, worker, closers, counters,
                   refused, log, lost>>

\* submit to a full queue, DROP_OLDEST: put_nowait has raised Full ...
MeetFull(p) ==
    /\ holder = NoOne /\ ~closed /\ Len(queue) = maxPending /\ submitted < MaxRecords
    /\ overflow = "drop_oldest"
    /\ holder' = p
    /\ submitted' = submitted + 1
    /\ UNCHANGED <<config, queue, worker, closers, counters, refused,
                   raised, log, lost>>

\* ... and get_nowait makes room, or finds that the worker has emptied the queue meanwhile.
DropOldest(p) ==
    /\ holder = p
    /\ holder' = NoOne
    /\ dropped' = dropped + 1
    /\ IF queue = <<>>
       THEN refused' = refused + 1 /\ UNCHANGED <<queue, enqueued>>
       ELSE /\ queue' = Append(Tail(queue), submitted)
            /\ enqueued' = enqueued + 1
            /\ UNCHANGED refused
    /\ UNCHANGED <<config, worker, closers, delivered, failures, pending,
                   submitted, raised, log, lost>>

\* The worker takes the head of the queue; the sentinel ends it.
Take ==
    /\ worker = "idle" /\ queue # <<>>
    /\ queue' = Tail(queue)
    /\ IF Head(queue) = Sentinel
       THEN worker' = "stopped" /\ UNCHANGED log
       ELSE worker' = "handling" /\ log' = Append(log, Head(queue))
    /\ UNCHANGED <<config, holder, closers, counters, submitted, refused, raised, lost>>

\* The handler returned or raised: the worker counts it under _condition ...
Handled ==
    /\ worker = "handling" /\ holder = NoOne
    /\ \/ delivered' = delivered + 1 /\ UNCHANGED failures
       \/ failures' = failures + 1 /\ UNCHANGED delivered
    /\ worker' = "handled"
    /\ UNCHANGED <<config, queue, holder, closers, enqueued, dropped,
                   pending, submitted, refused, raised, log, lost>>

\* ... and, in a second section, takes it off the pending ones.
Settle ==
    /\ worker = "handled" /\ holder = NoOne
    /\ pending' = IF pending > 0 THEN pending - 1 ELSE 0
    /\ worker' = "idle"
    /\ UNCHANGED <<config, queue, holder, closers, enqueued, delivered,
                   dropped, failures, submitted, refused, raised, log, lost>>

\* The handler raised what is not an Exception (SystemExit, KeyboardInterrupt): the finally
\* clause takes the record off the pending ones and the thread ends.
HandlerDies ==
    /\ worker = "handling" /\ holder = NoOne
    /\ pending' = IF pending > 0 THEN pending - 1 ELSE 0
    /\ worker' = "dead" /\ lost' = 1
    /\ UNCHANGED <<config, queue, holder, closers, enqueued, delivered, dropped, failures,
                   submitted, refused, raised, log>>

-----------------------------------------------------------------------------
\* A step of the thread that runs close, which takes _condition or the queue's lock only.
ClosingStep(c, from, to) ==
    /\ closing[c] = from
    /\ closing' = [closing EXCEPT ![c] = to]
    /\ UNCHANGED <<config, holder, worker, enqueued, delivered, failures,
                   submitted, refused, raised, log, lost>>

\* close: nothing is accepted any more.  Only the first closer disposes of the queue; the
\* others, having flushed if they drain, wait for the worker.
Close(c) ==
    /\ holder = NoOne
    /\ closed' = TRUE
    /\ first' = IF closed THEN first ELSE c
    /\ ClosingStep(c, "no", CASE c \in Drains -> "flush"
                              [] c \notin Drains /\ ~closed -> "discard"
                              [] OTHER -> "join")
    /\ UNCHANGED <<queue, dropped, pending>>

\* flush returns True: no record is queued or being handled.
Flushed(c) ==
    /\ holder = NoOne /\ pending = 0
    /\ ClosingStep(c, "flush", IF c = first THEN "sentinel" ELSE "join")
    /\ UNCHANGED <<queue, closed, first, dropped, pending>>

\* flush returns False: the timeout has passed.
FlushTimeout(c) ==
    /\ holder = NoOne /\ pending > 0 /\ c \in Timed
    /\ ClosingStep(c, "flush", IF c = first THEN "discard" ELSE "join")
    /\ UNCHANGED <<queue, closed, first, dropped, pending>>

\* _discard_pending takes a record off the queue ...
DiscardOne(c) ==
    /\ queue # <<>>
    /\ queue' = Tail(queue)
    /\ ClosingStep(c, "discard", "count")
    /\ UNCHANGED <<closed, first, dropped, pending>>

\* ... counts it, under _condition, ...
CountDiscarded(c) ==
    /\ holder = NoOne
    /\ dropped' = dropped + 1
    /\ pending' = IF pending > 0 THEN pending - 1 ELSE 0
    /\ ClosingStep(c, "count", "discard")
    /\ UNCHANGED <<queue, closed, first>>

\* ... and returns when the queue is empty.
DiscardDone(c) ==
    /\ queue = <<>>
    /\ ClosingStep(c, "discard", "sentinel")
    /\ UNCHANGED <<queue, closed, first, dropped, pending>>

\* _enqueue_sentinel.  Its loop for a full queue is unreachable: SentinelHasRoom.
PutSentinel(c) ==
    /\ Len(queue) < maxPending
    /\ queue' = Put(Sentinel)
    /\ ClosingStep(c, "sentinel", "join")
    /\ UNCHANGED <<closed, first, dropped, pending>>

\* The thread is joined, or the join times out.
Joined(c) ==
    /\ Ended
    /\ ClosingStep(c, "join", "stopped")
    /\ UNCHANGED <<queue, closed, first, dropped, pending>>

JoinTimeout(c) ==
    /\ ~Ended /\ c \in Timed
    /\ ClosingStep(c, "join", "timed out")
    /\ UNCHANGED <<queue, closed, first, dropped, pending>>

-----------------------------------------------------------------------------
\* BufferedSinkStats as builder.health_snapshot passes it on.
HealthSnapshot ==
    [Untroubled EXCEPT
        !.buffers = [n \in {"events"} |->
                       [pending |-> pending, limit |-> maxPending, closed |-> closed,
                        alive |-> ~Ended]],
        !.bufferShutdownIncomplete = closed /\ ~Ended]

-----------------------------------------------------------------------------
Produce(p) == Submit(p) \/ DropNewest(p) \/ RaiseFull(p) \/ MeetFull(p) \/ DropOldest(p)
Work == Take \/ Handled \/ Settle
CloserSteps(c) == \/ Flushed(c) \/ DiscardOne(c) \/ CountDiscarded(c) \/ DiscardDone(c)
                  \/ PutSentinel(c) \/ Joined(c)

Next == \/ \E p \in Producers : Produce(p)
        \/ Work \/ HandlerDies
        \/ \E c \in Closers : Close(c) \/ CloserSteps(c) \/ FlushTimeout(c) \/ JoinTimeout(c)

Spec == Init /\ [][Next]_vars

\* The threads run: the handler returns, a producer inside submit goes on, and so does a
\* closing thread, whose timeout passes sooner or later.  Nobody has to submit or to close.
FairSpec ==
    /\ Spec
    /\ WF_vars(Work)
    /\ \A p \in Producers : WF_vars(DropOldest(p))
    /\ \A c \in Closers : WF_vars(CloserSteps(c) \/ FlushTimeout(c) \/ JoinTimeout(c))

-----------------------------------------------------------------------------
One(b) == IF b THEN 1 ELSE 0
\* The places of the queue that hold records.
Records == {i \in DOMAIN queue : queue[i] # Sentinel}

\* _pending, which flush waits on, is exactly what is queued, with the worker or in the hands
\* of the thread that discards: the max(0, ...) of its decrements never hides a second
\* decrement for one record, and flush cannot return early or wait for nothing.
PendingExact ==
    pending = Cardinality(Records) + One(worker \in {"handling", "handled"})
                + Cardinality({c \in Closers : closing[c] = "count"})

\* No record is lost without being counted: every submission that returned is pending or
\* counted once as delivered, failed or dropped, whatever overflow policy, race with the
\* worker or discarding close it met (the worker counts before it settles).  The one
\* exception is the record whose handling ended the worker.
RecordsAccounted ==
    submitted = raised + One(holder # NoOne) + delivered + failures + dropped + pending + lost
                  - One(worker = "handled")

\* The counters of the dispatcher's statistics, and the one flush waits on, are exact.
CountersExact == TypeOK /\ PendingExact /\ RecordsAccounted

\* Records reach the handler in the order they were submitted, also when the oldest are dropped.
DeliveredInOrder == \A i, j \in DOMAIN log : i < j => log[i] < log[j]

\* DROP_OLDEST with room for two keeps every new record: submit holds _condition, which the
\* worker needs after each record, so it cannot empty the queue between Full and get_nowait.
NewestKept == overflow = "drop_oldest" /\ maxPending > 1 => refused = 0

\* The handler sees the records in order, up to the newest one under DROP_OLDEST.
DeliveryOrder == DeliveredInOrder /\ NewestKept

\* The worker never ends with records behind it that nobody will deliver or count; one that
\* died leaves them to the first close, which counts them before it returns.
NothingStranded ==
    /\ worker = "stopped" => queue = <<>>
    /\ first # NoOne /\ closing[first] = "stopped" => Records = {}

\* The thread that posts the sentinel finds room for it, so that the close that gave up
\* draining need not drop a record for it.
SentinelHasRoom == \A c \in Closers : closing[c] = "sentinel" => Len(queue) < maxPending

\* Shutdown leaves nothing behind the worker and never drops a record to make room for the
\* sentinel.
ShutdownClean == NothingStranded /\ SentinelHasRoom

\* A closed buffer's worker ends, whether the close drains, discards or gives up draining, and
\* every close returns.  Only one that drains without a timeout waits forever for records a
\* dead worker has left.
WorkerStops ==
    /\ closed ~> Ended
    /\ \A c \in Closers : closing[c] # "no" ~>
            \/ closing[c] \in {"stopped", "timed out"}
            \/ worker = "dead" /\ c \in Drains \ Timed

\* What a monitor learns from BuilderHealth.assess is true: a stopped worker is reported if
\* and only if the handler has killed it and nobody has closed the buffer, although the
\* sentinel ends the thread as well; a full queue, where the next record is dropped or
\* refused, always shows as a critical backlog; and a buffer whose first close has returned
\* with the worker ended is reported as healthy.
BufferHealthTruthful ==
    LET findings == Findings(HealthSnapshot, {}, DefaultPolicy)
    IN  /\ "observability_worker_stopped" \in Reasons(findings) <=> worker = "dead" /\ ~closed
        /\ Cardinality(Records) = maxPending => Finding("observability_backlog_high", TRUE) \in findings
        /\ first # NoOne /\ closing[first] = "stopped" => Severity(findings) = "healthy"
=============================================================================
