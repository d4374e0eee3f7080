# Coalestra in TLA+

Coalestra resolves a set of resource keys into one snapshot: it reads a shared cache, joins
acquisitions that are already running, calls sources under capacity limits, retries and
circuit breakers, derives values from other values, writes the cache back, and hands out
copies. Almost everything runs as tasks of one asyncio event loop; the payload copies, the
buffered observability sinks and the synchronous facade add threads.

This directory models that machinery, checks it with TLC on small instances and proves its
safety properties with TLAPS. Paths below are relative to `src/src/coalestra/`.

Contents: [inventory](#inventory), [plan](#plan), [modules and code](#modules-and-code),
[runs](#runs), [fairness](#fairness), [proofs](#proofs), [findings](#findings),
[not modelled](#not-modelled), [running it](#running-it).

## Inventory

| Component | State | Operations | Correct when |
|---|---|---|---|
| Circuit breaker, `resilience/circuit_breaker.py` | one circuit per source identity: state, failure count, opening time, probe flag | `before_call`, `record_success/failure/abandoned/skipped`, `reset` | a half-open circuit is never left locked; it opens exactly at the threshold; one probe at a time |
| Source attempts, `orchestration/source_executor.py`, `source_calls.py`, `resilience/retry.py` | the attempt's phase, its try, its admitted circuit groups | single, batch and derived attempts, retry loop, deadline and transport budget | each admitted group gets exactly one outcome, also on cancellation; no delay outlives the deadline |
| Capacity, `concurrency/capacity.py` | a semaphore and two counters per limiter, leases | `acquire` (source limiter, then the global one), `release`, timeout, cancellation | slots are conserved, no wake-up is lost, no deadlock between limiters |
| Resolution, `orchestration/builder.py`, `singleflight.py`, `runtime.py` | memo and frames per request, reserved futures by key | `_resolve_many`, `_resolve_owned_keys`, `run_many`, `_produce`, derived dependencies | reservations match producers, one acquisition per key, every request returns, one request's deadline does not end another's work |
| Memory cache, `cache/memory.py` | entries, LRU order | reads (which drop expired entries and check dependency versions), `set_many_if_newer`, invalidation, prune | no regression in authority or time, bounded, consistent reads |
| Publisher, `cache/publisher.py` | striped locks | `publish_many`, `invalidate_many` | stripes exclude, no deadlock, same precedence without an atomic cache |
| Session, `orchestration/session.py` | memo of pinned values, visible resources, errors, lock | `resolve`, `revalidate`, `close` | pins are stable, revalidation is all-or-nothing, values fit together |
| Background refresh, `orchestration/refresh.py` | table of tasks by key, counters | `schedule`, done-callback, `wait`, `close` | one live refresh per key, close leaves none, counters add up |
| Bounded dispatch, `concurrency/dispatch.py` | next index, results, workers | `run_bounded`, `AsyncPayloadIsolator.map` | every item answered; a failure stops and awaits the other workers |
| Payload copies, `core/isolation.py` | semaphore, worker threads, closing flags, gauges | `run`, `aclose`, late completion | a slot per running thread; shutdown ends when the threads do |
| Buffered observability, `observability/buffered.py` | bounded queue, counters, worker thread | `submit` with three overflow policies, `flush`, `close` | records counted once and in order; the worker stops |
| Synchronous facade, `sync.py` | private loop thread, backlog, close lock | blocking calls, submissions, `close` | no caller is left blocked; the loop ends after the late copies |
| Operational requests, `operational.py`, `core/request.py`, `core/acceptance.py`, `core/consistency.py` | a task, a session and a deadline per request, values with their age | `try_build_requests`, `try_resolve_request`, the classification of a partial snapshot | a request is judged by its policies as of now, not as of when its values came; every session is closed |
| Health assessment, `core/health.py` | a baseline | `assess` of a health snapshot | it reports what is the case, no more and no less |
| Freshness and authority look-ups, keys, models, errors, adapters, sinks | none over time | pure functions and data | (not modelled) |

How they meet. A request (`build`, or a stage of a session) runs a resolution. The resolution
reads the cache, joins or starts a single-flight producer, and the producer makes source
attempts. An attempt passes the circuit breaker, the capacity limiters and the retry loop;
a derived attempt first resolves its dependencies, a recursive resolution with the request's
memo and the set of keys its ancestors own. Results go to the cache, where publishers write
too, then to the memo and, through the payload isolator, to the consumer. A stale cache hit
schedules a background refresh, which shares the single-flight with foreground requests. The
facade runs all of this on a private loop and closes it in stages: submissions, refreshes,
copies, components, loop.

What is hard to test here, in short (PROJECT.json lists the hazards line by line): a
cancellation or a timeout that arrives between a grant and its use (capacity, copies, the
half-open probe); a value checked before an await and used after it (cache writes, session
revalidation); futures joined across requests whose owners wait for each other; done-callbacks
and late outcomes that run after their successor has begun; shutdown racing with arrivals, in
the loop and across threads; bounded queues at their limit.

## Plan

Modules are ordered by how much of the library's promise rests on them. All of them are
written.

1. `CircuitBreaker`, `SourceAttempts`: the shared state every source call goes through. The
   first proofs are about them.
2. `Capacity`: the same calls, seen at the limiters.
3. `Resolution`: requests sharing work, with deadlines.
4. `MemoryCache`, `CachePublication`: what they write and read.
5. `Session`, `Refresh`: the longer-lived users of a resolution.
6. `BoundedDispatch`, `PayloadCopies`, `BufferedDispatcher`, `SyncFacade`: tasks, threads and
   shutdown.
7. `Acceptance`, `Operational`: what a consumer asks of a snapshot, and a scan of requests.
8. `Health`: what a monitor makes of the counters.

Compositions. `SourceAttempts` extends `CircuitBreaker` and `CachePublication` extends
`MemoryCache`: the lower module holds the sections that run under a lock, the upper one says who
runs them and when. `Operational` extends `Acceptance`, and `PayloadCopies` and
`BufferedDispatcher` extend `Health`: there the lower module is a pure function that is
evaluated in the states of the upper one.

Abstract specifications, and the modules shown to implement them:

- `SlotPool`: pools with a bounded number of slots, first come, first served. Implemented by
  the limiters of `Capacity` (`LimitersArePools`) and by the copy threads of `PayloadCopies`
  (`CopiesArePool`).
- `SingleFlightSpec`: a key has one owner at a time, who serves all that wait for it.
  Implemented by `Resolution` (`SharedByOneFlight`).

Theorems, in the order of what they say about the system: the conservation of slots
(`SlotsSound`, `SlotsExact`) with the two refinements of `SlotPool`; the circuit probe
(`ProbeHasOwner`); single-flight (`ReservationsMatch`) with the refinement of `SingleFlightSpec`,
and how far a deadline reaches (`DeadlinesContained`); the cache (`NoRegression`,
`ReadsAreConsistent`, `StripesNeverDeadlock`); the pins of a session and its revalidation; the
judgement of a scan (`ScanSound`, `JudgedExactly`); the shutdown orders (`ShutdownOrder`,
`ShutdownClean`, `NoneLeftBehind`, `ShutdownSound`); the accounts of the buffer and of the
refreshes; what a monitor is told of them (`HealthTruthful`, `BufferHealthTruthful`).

All of these are proved, so that every safety invariant and every action property of the runs
holds for all values of the constants, see [proofs](#proofs). What stays with TLC is liveness.

## Modules and code

A step of a model is what the code does between two points where others can run: two awaits on
an event loop, two acquisitions of a lock between threads. Handlers are modelled whole,
trailing bookkeeping included. `PROJECT.json` maps each definition to its lines.

**CircuitBreaker** (`resilience/circuit_breaker.py`). `circuits` is `_circuits`. Each method is
an operator from the circuit it finds to the one it leaves (`BeforeCall`, `RecordSuccess`,
`RecordFailure`, `RecordAbandoned`, `RecordSkipped`, `Reset`); all of them run under the
breaker's lock without awaiting inside. `now` is the monotonic clock, in whole ticks.

**SourceAttempts** (`source_executor.py`, `source_calls.py`, `retry.py`). `stage[a]` says what
an attempt waits for: dependencies, capacity, the source, a retry delay. `active[a]` is
`active_groups`; `probing[a]` is history. `Admit` is the admission with its filter of refused
groups, `GrantCapacity` and `QueueTimeout` the capacity wait, `DeadlineExceeded` the deadline
and transport-budget refusals, `Return` the success (a batch may miss some groups), `RetryLater`
and `Retry` the backoff with its jitter, `Fail` the exhausted attempt, `Cancel` the
`except CancelledError` clauses, `ResetCircuits` the operator's reset. `RaisesRefusal` is a source
call that itself raises a `CircuitOpenError` (or, in `derive_one`, a dependency error), as a source
that reads another builder may: `fetch_one` and `derive_one` take it for their own refusal and report
nothing, which leaves the attempt in stage `dropped`; a batch (`Batches`) records a failure.
`prober[i]` (history) is the attempt that last set the probe flag of a circuit.

**Capacity** (`capacity.py`, `acquire_capacity` and `_await_with_timeout` of `source_calls.py`).
`value` and `queue` are asyncio's semaphore (external): a slot given back is handed to the first
waiter, which resumes later, and until it has resumed it counts as a waiter, so that a newcomer
queues behind it even beside a free slot (`Busy`); when it resumes it calls the next one if it can
(`Called`). This is the semaphore of CPython 3.11; the package supports 3.10 and later, and the
semaphores of other versions differ in when waiters are woken. `inUse` and `waiting` the limiter's counters, `held[c]` the
acquired list or the lease. A call with a timeout has an inner task, whose end and the outer
task's wake-up are two steps: `Resume`, then `TakeLease`. `TimedOut` and `CancelOuter` may fall
anywhere, `Withdraw` and `Refund` are the inner task's reaction. A lease that nobody takes
leaves the call in phase `lost`: see [findings](#findings).

**Resolution** (`builder.py`, `singleflight.py`, `derive_one`). A frame is a running
`_resolve_many`, a work a running `_resolve_owned_keys`, both named by the request and the path
of derived keys. `flight[k]` is the producer that reserved a key. The actions are the
beginning of a frame with its memo and cache look-up, `RunMany`, the attempts of a work source
by source, the answers of a source, the join, and the ends of work and frame; `Cancel` stops a
request and leaves its producers running. A source call answers or fails; when a derived
attempt is refused by the cycle check it fails as in the code. `Expire` lets the deadline of a
request pass: from then on each operation bounded by it raises (`LookupRaises` for reading the
cache and copying what was found, `CallEnds` for sources, `Return` for the copies of
dependencies and of the snapshot, `AcceptRaises` for the write-back, which may be cut off before
or after the cache was changed). Waiting for a joined future is not bounded, as in the code. The
producer of a request goes on under the deadline of the request that started it. The model has
no stale values and no forced keys.

**MemoryCache, CachePublication** (`memory.py`, `publisher.py`, `access.py`, the write-back of
`builder.py`). `entries` and `older` are the `OrderedDict`: the values, and which key was used
before which. A value is its version (the call that wrote it), authority rank, observation time
and dependency versions. A call reads the existing values, copies, and writes under the lock after
a second status check (`StatusNow`, the loop of `set_many_if_newer`), or, for a cache without that
method, writes what it decided while holding its stripes. Which of a read's keys are dropped, and
which of a write's are evicted, is said of each key alone (`ReadMany`, `Kept`), so that it can be
reasoned about without recursion. The deployment, chosen in `CacheInit`, says whether the cache
has `set_many_if_newer` and which calls are made of it: source results bypass the stripes and
leave the comparison to the backend's own `set_many` (`core/protocols.py:150`), so the instance
without the atomic write has publisher calls only. `Read` drops expired entries and those whose
dependencies moved, and moves hits to the end; `InvalidateMatching`, `Prune` and `Tick` come from
outside.

**BufferedDispatcher** (`buffered.py`). `queue.Queue` has a lock of its own (external), so the
worker may take a record between `submit`'s `Full` and its `get_nowait`: `holder` is the
producer caught between. `closing[c]` follows a `close`: flush, discard, count, sentinel, join.
The overflow policy and the size are chosen in `Init`. `HandlerDies` is a handler that raises
what is not an `Exception`: the `finally` clause runs and the thread is gone. `HealthSnapshot`
is what the builder's health snapshot takes from `stats`.

**PayloadCopies** (`isolation.py`, the copy tracker of `core/health.py`), with
`run_in_thread=True`. The inner acquire task and the worker task of each `run` are separate;
`GiveUpSlot` and `GiveUpCopy` are the deadline or cancellation of `run` in either wait,
`CancelledAgain` a cancellation on top of the deadline, `Expired` a deadline that had passed
before, `ThreadEnds`, `ReleaseSlot` and `Finish` the thread's end, its done-callback and the end of
`run`, `Drained` is `_mark_closed_if_drained`. `AcloseCancelled` is a cancelled `aclose`: one without
a timeout cancels the worker tasks it gathers, while what runs in their threads is `adrift`.
The semaphore is that of Capacity. Which copies have a deadline, may be cancelled or may fail are
constants (`Deadlined`, `Cancellable`, `Failing`), which the proofs leave open.
`count` holds the tracker's cumulative counters, `late` (history) the copies that met their
deadline. A monitor takes one baseline (`Poll`) at any time.

**Health** (`core/health.py`). `Findings` is `_assess_builder_health`: one line for each condition
of the code, in its order, with the ratios as fractions; `Severity` and `Reasons` are read off the
findings. The copies that wait are counted as a set. The record `Untroubled` is the health of an
idle builder, into which a component puts its own figures.

**Acceptance** (`core/acceptance.py`, `core/consistency.py`, `core/request.py`, the policies of
`operational.py`). Pure operators with the code's names: `KeyViolations`, `Unsatisfied` and
`AcceptanceViolations` are `find_snapshot_acceptance_violations`, `SkewViolation` is
`find_observation_skew_violation`, `Classify` is `_classify_snapshot_result` and
`ResolveRequestVerdict` the order in which `resolve_request` raises.

**Operational** (`operational.py` with `SnapshotSession.resolve` and the session's delivery).
`task[i]` is the `build_one` of request `i`: queued at the semaphore, acquiring, delivering the
copies, delivering them a second time without a deadline (`Overrun`), over. `Obtain` and `Miss`
settle one key while the clock moves; `Judge` evaluates the policies at the clock of the
delivery. `CloseBuilder` sets `_closed` and later closes the copy subsystem: a queued request
then raises and `gather` raises with it at once while its siblings run on, a running one is
rejected without a snapshot to judge (`Refuse`, result `failed`), as is one whose copies fail. The
deadline error that cuts a request off (`CutOff`, `Miss`) may be its own or that of a request whose
flight it joined. `Cancel` and `Unwind` are the cancelled caller.

**SyncFacade** (`sync.py`, the stages of `builder.aclose`). `ready` is the loop's
`call_soon_threadsafe` queue; `future` and `task` are the two ends of an operation. `Close` and
`ClosingWork` follow `close` under its lock: refuse new work, drain or cancel submissions, run
`aclose` by stages with the facade's own timeout, stop the loop at once or after the late copies.

**Session** (`session.py` with the look-ups of `builder.py`). `memo` is what later stages use,
`resources` and `errors` what the consumer sees. A call holds the session's lock. The shared cache
is an oracle: a look-up (`LookupHit`) may find any value ever given out, a new one of another
request, or nothing. A call may resolve a key more than once: derived siblings of one source run
side by side and forced keys bypass single-flight, so that a forced key that was asked for is
derived for itself and again for what depends on it. `obtained[k]` therefore holds every value the
call has got of a key, a derivation (`Answer`) uses any of them for each dependency, and what is
written last is a choice at the end (`Memos`). A stage that is cut off by its deadline or cancelled
(`ResolveDeadline`) leaves the keys it was resolving `adrift`: their producer tasks go on and may
write the session's memo at any time (`LateAnswer`), whoever holds the lock. `RevalidateCommits`
installs the staged memo and resources at once, `RevalidateFails` leaves everything; producers that
outlive a revalidation write to a memo that is thrown away. The consistency verdict is a choice:
`Fallback` may have any requested key resolved again without its source when at least two were requested, as skew
is between two. The code allows one fallback per key and source, the model one per key, as it
does not tell sources apart. What depends on what (`Affected`, `AllDepsOf`) is the least set that
is closed under one step of dependency.

**Refresh** (`refresh.py`). `tasks` is the table, `state[t]` the task, and `Finish` the
done-callback, which runs later than the task's end. `FlightEnds` ends the flight a refresh
shares with foreground requests. A cancelled waiter cancels what its `gather` waits for.

**BoundedDispatch** (`dispatch.py`, `map` of `isolation.py`). `Take` advances the index and
starts the operation in one step, as the code does between awaits. Operations may fail, run for
ever, or absorb a cancellation, after which their worker goes on.

Each module starts with its state, then the `Bug_` definitions (plausible slips of the code, one
for each property, that show that the property notices them), then the actions, then the
properties with a comment each. A `Bug_` definition is part of no specification.

## Runs

Bounds are constants of the modules: `MaxTime`, `MaxForgets`, `MaxRecords`, `MaxVersion`,
`MaxCalls`, `MaxTasks`, `MaxCancels`; they limit guards, never the properties. Deadlock checking is off
everywhere: each instance has finitely many calls and stops when they are over. "Everything
ends" is stated as a liveness property instead.

| Run | Instance | Distinct states | Shows |
|---|---|---|---|
| `attempts` | a batch over two circuits (one with its breaker disabled), a derived and a single attempt; threshold 2, two tries, jitter, deadlines 2, 3 and none, resets | 20 669 | `ProbeHasOwner`, `ProbeResolved`: the probe flag always has an owner and is cleared, unless the source call of the owner raised what is taken for a refusal; `OpenExactlyAtThreshold` |
| `capacity` | two global slots, one source slot, two calls behind both, two behind the global limiter only, one without a timeout | 2 286 | `SlotsSound`: slots are accounted for, no wake-up is lost, the source's slots come first; `WaitEnds`; `LimitersArePools`: each limiter is a `SlotPool` |
| `resolution` | two requests for the end of a chain of two derived keys, each with one of its two base keys; a failing key, a self-cycle, deadlines, one request that may be cancelled, an expiry in the cache | 66 891 | `ReservationsMatch`: reservations, producers, source calls and joins match, one request acquires a key; `ReservationsEnd`, `RequestsReturn`; `SharedByOneFlight`: the implementation of `SingleFlightSpec`; `DeadlinesContained` |
| `cache` | with the atomic write: a publication with a duplicate key, a lower-authority source result, a derived result; without it: three publications and an invalidation over two stripes in opposite orders, one forced; two entries, three clock values | 78 292 | `NoRegression`, `ReadsAreConsistent`, `StripesNeverDeadlock`; the LRU limit is part of `CacheTypeOK`, the first conjunct of the second |
| `buffer` | two producers, four records, three closes (draining with and without timeout, discarding), all policies, sizes 1 and 2, a handler that may kill the worker | 207 463 | `CountersExact`, `DeliveryOrder`, `ShutdownClean`, `WorkerStops`; `BufferHealthTruthful`: what `assess` says of the buffer |
| `copies` | four copies over two slots, one with a deadline and a caller that may be cancelled, one that may fail, two closes, one with a timeout, either may be cancelled, a monitor; the fourth copy only where nobody closes (`FourWithoutShutdown`) | 303 168 | `SlotsExact` (slots and counters), `ShutdownSound`, `ShutdownCompletes`; `CopiesArePool`: the threads are a `SlotPool`; `HealthTruthful`: what `assess` says of the copies |
| `facade` | a blocking call, two submissions, one of which copies, two closes, backlog 1 and 2, with and without closing the builder | 208 974 | `ShutdownOrder`; `CallersReturn`: nobody stays blocked if the copies end; `CloseEnds`: close returns whatever hangs, and the loop ends if the copies do |
| `session` | a chain x, d, e; versions up to 2, 3, 3; three calls, for x and e or for d, the third and every third version for a forced revalidation where nothing failed or was cut off before (`ThirdIfSmooth`) | 260 956 | `VisiblePinned`: what is seen is what is pinned, but for keys left to a producer; `PinsStable`: pins change only in a committed revalidation; `ForcedIsFresh`: after a forced one, values that depend on the requested keys are derived from what the call obtained and not from what it replaced |
| `refresh` | two keys, two refreshes, two callers that wait, close or are cancelled | 127 314 | `NoneLeftBehind`: one live refresh per key, close settles all; `RefreshesCounted`, `CallersReturn` |
| `requests` | three requests, two at a time: one with a required and an optional key, a requirement over both, limits on age, staleness, rank and skew; one with a rule for an optional key; one without policies. Values fresh, stale, old and flagged fresh; deadline 1, three clock values; failing copies, a closing builder, a cancelled caller | 438 265 | `JudgedExactly`: accepted if and only if the policies are met at delivery; `ScanSound`: sessions and slots follow the tasks; `ScanEnds`: a cancelled scan ends, any other if its resolutions and copies do |
| `dispatch` | four items, three workers, a caller cancelled up to twice | 13 194 | `EndsComplete`: all items answered, no worker left, gauge exact; `FailureEndsCall` |

Why these bounds suffice for the cases at issue. The races are between two actors and a third
that takes what they leave: three attempts, three copies over two slots beside a shutdown. At the
semaphores it takes four over two slots: two hold them, a third is granted one of them, the other
becomes free, and a fourth comes before the third has resumed. A circuit must fail, recover and be probed while an older attempt is still running,
which takes three clock values. A cache of two entries and three keys evicts a member of its own
batch. Two versions of `x` and three of `d` and `e` let a forced revalidation replace what is pinned and
derive `d` once for itself and again for `e`. A producer left behind by a stage that was cut off
meets a second stage and a revalidation with two versions of each key. Two refreshes for one key are enough for a late callback to meet its successor.
A queue of size 1 and one of size 2 differ in whether the sentinel can need the place of the
last record.

In `requests`, a value has to be able to expire between its arrival and its judgement and a
deadline to pass before, during and after that, hence three clock values with a deadline of one;
three requests over two slots leave one in the queue when the builder closes. In `resolution`
the chain makes a producer start producers two levels down, for keys that its own request may
own already, while either request can run into its deadline and one can be cancelled.

The type invariants of all modules are checked: as a property of its own in `attempts` and
`session`, as the first conjunct of the main safety invariant elsewhere (`SlotsSound`,
`ReservationsMatch`, `ReadsAreConsistent`, `CountersExact`, `SlotsExact`, `ShutdownOrder`,
`EndsComplete`, `NoneLeftBehind`, `ScanSound`).

`crossed_requests` checks a statement of the documentation that the code does not keep: see
[findings](#findings).

## Fairness

- One event loop: weak fairness of every step that only needs the loop to run a ready task or
  callback. asyncio's ready queue is first in, first out, so none is passed over for ever.
- Threads: weak fairness of a thread that is inside a method and not blocked.
- Source calls and single-flight producers end (`SourceAttempts`, `Capacity`, `Resolution`,
  `Refresh`), because each is bounded by a source timeout; two flights of several keys that wait
  for each other (`crossed_requests`) are outside `Refresh`. Handlers of the observability buffer
  and the copies of `PayloadCopies` end, as user code is expected to; without that no shutdown
  without a timeout could end, and the docs promise none.
- Assumed in the property and not in the specification, so that it says what holds without: that
  payload copies end, in `CallersReturn` and in the second half of `CloseEnds` of the facade, whose
  deferred stop waits for them; that resolutions and copies end, in the second half of `ScanEnds`,
  since `crossed_requests` shows that two requests of a scan may wait for each other for ever. The
  first halves, that `close` returns and that a cancelled scan ends, assume neither.
- Never assumed: that anybody calls, cancels, closes or publishes; that a timeout fires, except
  where it is the only bound of a wait that has one (`QueueTimeout` and `DeadlineExceeded` in
  `Progress`, the timed waits of the facade's close and of the buffer's); that an operation handed
  to the facade ends before it is cancelled; that an operation of `run_bounded` ends.

`ProbeResolved`, `WaitEnds`, `ReservationsEnd`, `RequestsReturn`, `WorkerStops`,
`ShutdownCompletes`, both `CallersReturn`, `CloseEnds`, `FailureEndsCall` and `ScanEnds` depend on
this. `ProbeResolved` excuses a probe whose outcome was dropped. `WaitEnds` excuses calls once a cancelled call has lost its lease: a slot that is gone
starves later calls. `WorkerStops` excuses a close that drains without a timeout a buffer whose
worker has died. `RequestsReturn` does not need the deadline: no `Expire` is fair. `CallersReturn`
of `Refresh` rests on `MaxTasks`: `wait` loops while the table is not empty, so a program that
keeps scheduling refreshes can keep it waiting.

## Proofs

Every safety invariant and every action property of the runs is a theorem, for every value of the
constants, and so are the three refinements. Modules with nothing in common but their subject
share a module of proofs (`SourceCalls_proofs`, `SessionAndCache_proofs`, `BoundedRuns_proofs`);
each theorem there is about the specification of one of them.

`SourceCalls_proofs`, part 1, proves of `SourceAttempts`, for every set of attempts and circuit
identities, every grouping of keys into circuits, every deadline, transport timeout, threshold,
recovery timeout and retry policy, and every length of time:

- `TypeCorrect`: `AttemptSpec => []AttemptTypeOK`;
- `ProbeNeverLocked`: `AttemptSpec => []ProbeHasOwner`. A set probe flag belongs to an attempt in
  flight, or to one that dropped its outcome (`RaisesRefusal`). This is the property a unit test
  hardly reaches: it fails as soon as another exit of one of the three kinds of attempt forgets a
  group;
- `ThresholdExact`: `AttemptSpec => []OpenExactlyAtThreshold`;
- `BackoffBounded`: `AttemptSpec => []BackoffEndsBeforeDeadline`.

Assumptions: `BreakerAssumption` and `AttemptAssumption`, which say what types the constants have
and that thresholds and the number of tries are positive. The code validates the same in the
constructors of its policies.

The argument. `ProbeHasOwner` is not inductive: when an attempt leaves, its flag is cleared only
if the attempt reports on that circuit, and it reports on `active[a]`. The inductive invariant
`AttemptInv` therefore adds `ProbesReported`: the attempt that set a flag was admitted to that
circuit, which has an enabled policy (a report to a disabled one returns early), and has not left
otherwise than without a report (`Owns`). `MethodTypes`, `MethodThreshold` and `MethodProbe` say what the
breaker's methods do to one circuit; `FinishKeepsInvariant` and `ReportKeepsInvariant` treat
every way an attempt leaves at once; `AdmitKeepsInvariant`, `ReturnKeepsInvariant` and
`ResetKeepsInvariant` treat the steps that are not of that form. `AttemptStepInvariant` has one case
per action, and `AttemptInvariance` puts them together.

`SourceCalls_proofs`, part 2, proves of `Capacity`, for every finite set of calls, every set of
limiters and every limit:

- `SlotsConserved`: `Spec => []SlotsSound`;
- `LimitersRefinePools`: `Spec => LimitersArePools`, the refinement of `SlotPool`.

Both rest on one argument. Seen from one limiter, a step of any call is one of a few moves
(`Move`): it stays, a call takes a free slot, joins the line, resumes with a granted slot, with or
without calling the next one, leaves the queue, is counted out, or gives back a slot it held or was
granted, to the first in line if there is one.
Each move keeps the limiter's accounts (`MoveKeepsAccounts`) and is a step of the abstract pool
(`MoveIsStep`). `SlotsSound` alone does not say what a call holds in which phase, nor that the
semaphore's queue lists the queued calls once each; `IInv` adds `HeldInOrder` and `QueueExact`.
Calls are assumed to be finitely many, since the gauges count them.

`Resolution_proofs` proves, for every set of requests and keys, every list of sources and every
dependency relation, cyclic or not, whatever fails, is cancelled, expires or is forgotten:

- `ReservationsAlwaysMatch`: `Spec => []ReservationsMatch`;
- `RequestsShareFlights`: `Spec => SharedByOneFlight`, the refinement of `SingleFlightSpec`;
- `DeadlinesStayContained`: `Spec => DeadlinesContained`.

Assumptions (`ResolutionAssumption`): the types of the constants; at most one derived source for a
key, so that a path names one frame; and that `MaxPath` is no limit: there is no longer path of
derived keys without a repetition, which is what the code's cycle check lets through.

The argument. A reservation is made by name, and names are paths, so the first question is whether
a name can be used twice: a frame for the dependencies of a key must not be created where an
earlier one, or a producer that it left behind, still runs. `UsedOnce` says that it is not: nothing
is below a key whose derived source has not been up yet (`Fresh`, `Untried`). With it,
`FlightsHaveProducers` is kept step by step: a work's keys are exactly those reserved under its
name. `ParentsWait` ties a frame of dependencies to the attempt that waits for it, `FrameAndWork`
a frame to the work it runs itself, `PathsOK` says what a node is for, and `JoinedKeysAreReserved`
is inductive once producers cannot vanish. That only one request acquires a key rests on
`Inherited`: the keys a frame need not reserve, since an ancestor owns them, are still reserved by
a work above it, as long as everybody between them waits. Without that condition the claim is
false, see `OneRequestFetches` in [findings](#findings). In the refinement, each action either
changes no reservation and no join, or is one of the abstract steps.

`SessionAndCache_proofs`, part 1, proves of `Session`, for every set of keys, dependencies and
requests, whatever the cache holds and whatever producers do that outlived their stage:

- `SeenIsPinned`: `Spec => VisiblePinned`;
- `SessionTyped`: `Spec => []TypeOK`;
- `PinsStayStable`: `Spec => PinsStable`;
- `ForcedStaysFresh`: `Spec => ForcedIsFresh`.

For the first, `IInv` says that `resolve` leaves alone what is in the memo, but for the keys that a
producer may still write (`ResolveShares`), and that a revalidation that has not fallen back leaves
alone what is seen and no target (`Untouched`). The steps that could not be proved are the ways out
that `VisiblePinned` names, see [findings](#findings). For the others, `RInv` says that a
revalidation has no targets but the requested keys and what depends on them (`TargetsOK`), and of a
forced one (`ForcedOK`) that everything pinned with its dependencies that depends on the requested
keys is a target, that no target is taken from the cache, and that every value the call has
obtained of a target, the first as well as a later one, was derived from versions the call had
obtained. Since what a call has obtained only grows until a fallback takes keys out with all that
depends on them, this is inductive without knowing which value is written last. The dependents are least closed sets, so that "every pinned
value that depends on it" follows by instantiating the set, without an induction.

Part 2 proves of `CachePublication`, for every set of keys, every set of calls, batches, stripes
and deployments, every limit, and whatever is read, invalidated, evicted or expires meanwhile:

- `ReadsStayConsistent`: `CacheSpec => []ReadsAreConsistent`, which includes the LRU limit;
- `AuthorityNeverRegresses`: `CacheSpec => NoRegression`;
- `StripesStayLive`: `CacheSpec => []StripesNeverDeadlock`.

`CacheInv` has a part for the entries with their order (`CacheOK`), for the calls (`CallsOK`), the
stripes (`LocksOK`) and what the calls keep (`DataOK`), and `LegacyOK`: what is there of the keys
of a publisher without an atomic write is what it read under its stripes, until it writes, since
everybody else who writes these keys needs the stripes too. This uses that such a deployment has
no source calls, which bypass the stripes (`PublicationAssumption`). That eviction ends at the
limit is a fact about finite total orders: the least of the keys kept has the others after it, and
so fewer than the limit. The stripes do not deadlock because the greatest stripe that any call
waits for is free or held by a call that runs: a holder that waited too would wait for a greater
one.

`BoundedRuns_proofs`, part 1, proves of `BoundedDispatch`, for every number of items, every
`max_tasks` and any number of cancellations of the caller:

- `DispatchTyped`: `DispatchSpec => []DispatchTypeOK`, which bounds the index and says that no item
  is begun twice;
- `DispatchComplete`: `DispatchSpec => []EndsComplete`.

Its assumption, `DispatchAssumption`, is that there is an item (the code returns at once
otherwise) and that `max_tasks` is positive. That a returned call has every result is not
inductive: the results are known only item by item. `NoneForgotten` adds that each item below the
index has its result or a worker that runs it, unless a worker failed or was cancelled, and that a
worker returns only when the index is past the end; when all workers have returned, no item can be
in anyone's hands. `BegunOnce` ties the history of begun items to the index, and the gauge is
counted with the cardinality facts of `RunningCounted`.

Part 2 proves of `Operational`, for every number of requests, every acceptance and consistency
policy, every deadline and every value a source may offer:

- `ScanStaysSound`: `Spec => []ScanSound`;
- `EveryRequestJudged`: `Spec => JudgedExactly`.

`IInv` says how a task's end tells what happened to the scan (`EndsTold`), that the sessions follow
the tasks (`SessionsFollow`), and that a value never becomes younger (`ValuesTyped`). The verdict
is compared with the policies rule by rule: `JudgedExactly` speaks of the keys, `Classify` of the
violations that the code collects. The skew of a snapshot, a maximum less a minimum, exceeds its
limit exactly if two values do, which needs that a finite set of integers has both. The requests
must be well-formed (`RequestOK`), as their constructors require.

`PayloadCopies_proofs` proves, for every finite set of copies, any number of closing tasks and any
`max_concurrency`:

- `SlotsNeverLost`: `Spec => []SlotsExact`;
- `AcloseTellsTheTruth`: `Spec => []ShutdownSound`;
- `CopiesRefinePool`: `Spec => CopiesArePool`;
- `CopiesMonitored`: `Spec => []HealthTruthful`.

`IInv` has five parts. `Core` is the slots: a worker task has a slot until its callback releases it,
once, although the copy that started it may have given up long before. `Served` says that none is
free while a copy is queued, except behind an acquire task that has yet to resume. `Figures` are the
gauges and counters. `Shutdown` says that no thread starts once a close has begun, so that whoever
waits for the workers that there were waits for all there are. `Bounded` is about the operations in
threads: one that is adrift, its slot released under it, is there only after an `aclose` without a
timeout was cancelled, when nothing starts any more. As for the limiters, each action is
first reduced to a move of the slots, which serves the invariant and the refinement. For the
monitor it takes that there is at most one baseline, whose counters are numbers (`Baseline`), what a
comparison with it reports (`TimeoutsGrown`), and what the conditions of `assess` amount to for the figures of the copies alone
(`CopyFindings`).

`Refresh_proofs` proves, for every set of keys and callers and every number of refreshes:

- `NoRefreshEscapes`: `Spec => []NoneLeftBehind`;
- `EveryRefreshCounted`: `Spec => []RefreshesCounted`.

The invariant adds `CloseGathersAll` (a close in progress has gathered every refresh that still
runs) and `Numbered` (the tasks are numbered as they are scheduled, so that a late callback can
only find a later task in its place).

`BufferedDispatcher_proofs` proves, for any number of producers and closing threads, every
overflow policy, any `max_pending` and any number of records:

- `NoRecordUncounted`: `Spec => []CountersExact`;
- `HandledInOrder`: `Spec => []DeliveryOrder`;
- `ShutdownLeavesNothing`: `Spec => []ShutdownClean`;
- `BufferMonitored`: `Spec => []BufferHealthTruthful`.

That the counters are exact depends on the shutdown and the other way round: `flush` returns when
`_pending` is 0, and only because that number is exact is the queue empty when the sentinel is
posted. `Inv` therefore treats them together: `OneCloser` (one thread disposes of the queue),
`QueueShape` (records only until the sentinel is posted, the sentinel alone afterwards), `Counted`,
`Ordered`, and `StillFull`: while a producer holds `_condition` the worker can take one record and
no more. What a monitor is told after a close rests on `JoinedEnded`: whoever has joined the worker
has seen it end.

`SyncFacade_proofs` proves, for every set of calls, submissions and closes, and every backlog:

- `ShutdownInOrder`: `Spec => []ShutdownOrder`.

`Inv` follows the loop's queue of callbacks: nothing is queued behind a stop, `builder.aclose` and
the deferred stop are posted once (`Stops`, `AcloseOnce`, `Deferral`). `Locks` says what the flags
are at each point of a close, `Submitted` that the backlog a close waits for holds every open
submission, and `Handed` that an operation a caller waits for is queued or has a task. The queue
is only used through `Posting` and `Taking`.

Further assumptions: the constants that stand for nobody (`NoOne`) are no thread.

Only model-checked are the liveness properties: `ProbeResolved`, `WaitEnds`, `ReservationsEnd`,
`RequestsReturn`, `WorkerStops`, `ShutdownCompletes`, both `CallersReturn`, `CloseEnds`,
`FailureEndsCall` and `ScanEnds`. They rest on fairness, and so on `ENABLED`, which is outside the
prover's reach.

## Findings

One statement has a run that TLC refutes:

| Run | The text says | The code does |
|---|---|---|
| `crossed_requests` | the deadline budget covers the whole wait (`docs/architecture.md:193`) | `build([D, X])` and `build([E, Y])`, D derived from Y and E from X, wait for each other's futures, without a deadline; in the run this happens once the calls for X and for Y have failed and the derived keys are up |

Further divergences came up on the way. They are stated in the modules and can be seen by giving
TLC the property and the instance named here; no run is kept for them.

| Property and instance | The text says | The code does |
|---|---|---|
| `StaysPinned` of `Session`, instance of `session` | "Successful values are pinned even if their normal cache TTL expires between stages" (`docs/architecture.md:69`) | a stage is cut off by its deadline or cancelled, a later one shows the key, and the producer task of the first still writes the session's memo (`builder.py:1217`): what is shown is no longer what later stages use |
| `StaysPinned` of `Session` with `Fork`, `ForkRequests`, `ForkLimits` and the constraint `Calm`, which keeps failures and stages that are cut off out of the search | "Successful values are pinned even if their normal cache TTL expires between stages" (`docs/architecture.md:69`) | with E and F derived from D, D from X, and D not pinned, a forced revalidation of X and E that retries X without its source takes F out of the memo, does not resolve it again (`session.py:512`) and commits; F stays visible and is pinned no more |
| `RequestsReturn` of `Resolution` with `CyclicAsked`, `CyclicDeps`, `BaseFirst`, `MaxPath = 2` | "Direct and indirect cycles raise `DependencyCycleError`" (`docs/architecture.md:137`) | a cycle entered from two ends by two requests joins itself through single-flight, and neither returns |
| `SharedAcquisition` of `Resolution` with `SharedAsked`, `SharedDeps`, `DerivedFirst`, one request | derived keys that share a base key "share one acquisition" (`docs/architecture.md:137`) | when the base key was requested too, each derived key acquires it on its own |
| `OneRequestFetches` of `Resolution` with `AloneAsked`, `ChainDeps`, `WithCycle`, three requests, `Timed = {r2}`, `MaxPath = 2`, and nothing that fails, is cancelled or forgotten | "Per-key single-flight coalescing across overlapping requests." (`README.md:11`) | a producer two derived keys down acquires a key of `local_owned` directly; when its ancestors have given up and released that key, another request reserves it and acquires it at the same time |
| `OneProbe` of `SourceAttempts` with `SingleGroups`, `SingleDeadline`, `SingleTransport`, four attempts, none derived, `Batches = {}`, threshold 1, one try, no resets | "A half-open circuit allows one probe" (`docs/architecture.md:113`) | a skipped attempt clears the flag of another attempt's probe, and a second probe is admitted |
| `ProbeNeverDropped` of `SourceAttempts`, instance of `attempts` | a probe without an outcome is released (`circuit_breaker.py:224`), "instead of remaining permanently locked in half-open" (`docs/architecture.md:113`) | a probe whose source call raises a `CircuitOpenError` of its own falls into the clause for the executor's refusal (`source_executor.py:209`, `606`), no outcome is recorded, and the circuit refuses everyone until a late outcome of another attempt or a reset |
| `SlotKeptWhileRunning` of `PayloadCopies`, instance of `copies` | "Keep its capacity slot reserved until the underlying operation actually finishes." (`core/isolation.py:294`) | cancelling an `aclose` without a timeout, as a consumer of `wait_for_payload_copy_shutdown` can, cancels the worker tasks through `gather` (`isolation.py:195`): their slots are released and the shutdown counts as complete while the threads run |
| `DeliveredUsable` of `CachePublication`, instance of `cache` | "`FreshnessPolicy` decides whether a stored value is usable by a reader" (`README.md:265`) | a source result that loses to a higher authority is answered with that entry, expired or not |
| `LoopOutlivesCopies` of `SyncFacade`, instance of `facade` | the loop is kept alive "until late copy workers drain" (`docs/architecture.md:302`) | the facade's own wait is 0.1 s longer than one stage of `aclose`, and `aclose` has several; when it expires the loop stops at once |
| `RefreshedTransitively` of `Session`, instance of `session` with `Ends` | derived values "are refreshed transitively" (`session.py:217`) | the set of affected values is followed through pinned values only; an intermediate one that came from the cache breaks the chain |
| `~\E c \in Calls : phase[c] = "lost"` as an invariant of `Capacity`, instance of `capacity` | "every acquired limiter is released before the exception is propagated" (`concurrency/capacity.py:176`) | a task cancelled in the loop turn after its inner task obtained the lease drops the lease, and its slots are never given back |
| `request[r2] # "late"` as an invariant of `Resolution`, instance of `resolution` with `Timed = {r1}` | "A deadline is created once per build or session" (`docs/architecture.md:193`) | a request without a deadline ends with `SnapshotDeadlineExceededError` when the request whose flight it joined overruns while it writes the cache; `DeadlinesContained` says how far this reaches |
| `failed[i] \cap DOMAIN found[i] = {}` as an invariant of `Operational`, instance of `requests` | a diagnostic copy after the deadline "cannot commit new values" (`docs/architecture.md:197`) | `resolve` with `strict=False` keeps the new values and puts the same keys among the errors (`session.py:135`) |
| `SnapshotCoherent` of `Session` with `Direct` | "one logically consistent snapshot" (`session.py:35`) | a later stage may pin a newer version of what an earlier value was derived from; and within one call a derived key is shown as derived for itself beside a value made from the one derived for that value |

The second of these came out of the proof of `VisiblePinned`: the step that could not be proved was
the commit after a fallback. The property is an action property that names this way out, and the
keys left to a producer, and no other. Two more came out of proofs. That an acquired key is reserved by the request that acquires
it could be proved one derived key down and not two: `OneRequestAcquires` now says it of whoever
is still waited for, and `OneRequestFetches` shows the rest. That values fit together after a forced
revalidation is false in two ways: a key may be derived twice in it, and a value whose pin was
dropped as above is not refreshed by a second one. `ForcedIsFresh` says what is left: a value that
is still pinned, with all its dependencies, is derived from nothing that the call replaced.

Noticed while reading, not stated in a module: `try_build_requests` gathers without
`return_exceptions`, so one refused request raises for all, which is what "each symbol can fail
or degrade independently" (`operational.py:341`) excludes only for a builder that stays open
(`ScanSound`); `_as_error` of a rejected result prefers the consistency and acceptance errors
to the build error, which `resolve_request` raises first; the `except SnapshotBuildError` branch
of `try_resolve_request` is unreachable, as a non-strict `resolve` raises none;
`fail_closed_policy`, which "match[es] the legacy strict behavior", also rejects snapshots whose
only errors are optional, which `resolve_request` returns.

## Not modelled

- Freshness, quality and authority policies: pure look-ups over patterns. The modules take their
  answers as constants (`Ttl`, ranks, thresholds) or as choices.
- Data types, keys, errors, protocols, diagnostics schemas, adapters, labels, the rendering of
  results and health as dictionaries: no behaviour over time.
- Findings of `Health` about capacity, circuits and the facade's backlog are stated but driven
  by no run; those about copies and buffers are.
- Exceptions of a foreign cache, of policies and of foreign components at shutdown: calls into user
  code. The library lets them through (`cache_access.py` catches nothing).
- The inline mode of the payload isolator: it copies without an await and shares nothing.
- In Resolution: stale values and forced keys, and cache writes that are refused. In
  SourceAttempts: the capacity queue itself, which is the subject of Capacity. In Session:
  single-flight and source order, the subject of Resolution, the contents of the cache, the subject
  of CachePublication, and the acceptance test of a revalidation, a choice there and exact in
  Operational. There a derived key has one source, and no publication of higher authority
  supersedes what it answers (`Superseded` is of base keys). In Operational: everything below
  `_resolve_many`.
- Latencies, peaks, durations and event payloads.

## Running it

    tlc -workers 2 -config attempts.cfg MCSourceAttempts
    tlapm SourceCalls_proofs.tla
    tlapm Resolution_proofs.tla
    tlapm SessionAndCache_proofs.tla
    tlapm BoundedRuns_proofs.tla
    tlapm PayloadCopies_proofs.tla
    tlapm Refresh_proofs.tla
    tlapm BufferedDispatcher_proofs.tla
    tlapm SyncFacade_proofs.tla

Each run's module and configuration are listed in `PROJECT.json`. The longest runs, `resolution`,
`copies`, `facade`, `session` and `requests`, take one to three minutes. No module
of proofs takes more than four minutes.
