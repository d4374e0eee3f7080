------------------------------ MODULE Capacity ------------------------------
(***************************************************************************)
(* concurrency/capacity.py and the way SourceCalls.acquire_capacity waits  *)
(* for it: the builder-wide limiter, the optional limiter of each source,  *)
(* and the task that _await_with_timeout starts to acquire both.           *)
(*                                                                         *)
(* A call is one fetch_once, fetch_many_once or derive_once.  Its task     *)
(* ("outer") waits, with a timeout, for a second task ("inner") that runs  *)
(* CapacityController.acquire; without a timeout the outer task runs it    *)
(* itself.  A limiter that is free is taken without yielding to the event  *)
(* loop, so acquire runs in one step until it meets a busy limiter.        *)
(***************************************************************************)
EXTENDS Integers, Sequences, FiniteSets, SequencesExt

CONSTANTS Calls,     \* one element per call of a source
          Limiters,  \* the global limiter and those of the sources that have one
          Global,    \* CapacityController.global_limiter
          SourceOf,  \* the limiter of the call's source; Global if it has none
          Limit,     \* CapacityLimiter.limit
          Timed      \* the calls whose timeout budget is not None

ASSUME CapacityAssumption ==
    /\ Global \in Limiters
    /\ SourceOf \in [Calls -> Limiters]
    /\ Limit \in [Limiters -> Nat \ {0}]
    /\ Timed \subseteq Calls /\ IsFiniteSet(Calls)

VARIABLES phase,   \* where the call is
          at,      \* the limiter it is queued at, or about to ask for
          held,    \* the limiters its `acquired' list or its lease holds
          value,   \* the semaphore's free slots
          queue,   \* the semaphore's waiting futures, in order
          inUse,   \* CapacityLimiter._in_use
          waiting  \* CapacityLimiter._waiting

vars == <<phase, at, held, value, queue, inUse, waiting>>

\* created: the inner task has not run yet.  queued: it waits in the semaphore.
\* granted: the semaphore gave it a slot and it has not resumed.  leased: the inner task has
\* returned the lease and the outer task has not resumed.  calling: the outer task has it.
\* withdrawn, refunding: cancel() was called on it while it was queued, granted.
\* lost: the outer task was cancelled and dropped the lease its inner task had returned.
Phases == {"idle", "created", "queued", "granted", "leased", "calling",
           "withdrawn", "refunding", "lost", "done"}

TypeOK ==
    /\ phase \in [Calls -> Phases]
    /\ at \in [Calls -> Limiters]
    /\ held \in [Calls -> SUBSET Limiters]
    /\ value \in [Limiters -> Nat]
    /\ queue \in [Limiters -> Seq(Calls)]
    /\ inUse \in [Limiters -> Nat]
    /\ waiting \in [Limiters -> Nat]

Init ==
    /\ phase = [c \in Calls |-> "idle"]
    /\ at = SourceOf
    /\ held = [c \in Calls |-> {}]
    /\ value = Limit
    /\ queue = [l \in Limiters |-> <<>>]
    /\ inUse = [l \in Limiters |-> 0]
    /\ waiting = [l \in Limiters |-> 0]

-----------------------------------------------------------------------------
\* asyncio.Semaphore (external).  A waiter that was granted a slot stays among the waiting
\* futures until its task resumes, also if that task was cancelled in between.
Granted(l) == {c \in Calls : phase[c] \in {"granted", "refunding"} /\ at[c] = l}

\* It is first come, first served: acquire waits when no slot is free or some waiting future
\* is not cancelled, a granted one included.
Busy(l) == value[l] = 0 \/ queue[l] # <<>> \/ Granted(l) # {}

\* A slot given back by release goes straight to the first waiter.
Heir(l, q) == IF q[l] = <<>> THEN {} ELSE {Head(q[l])}

\* The slots of S are given back while the waiting futures are q: the first waiters are
\* granted them, the others are free again.
GiveBack(S, q, ph) ==
    /\ value' = [l \in Limiters |-> value[l] + IF l \in S /\ q[l] = <<>> THEN 1 ELSE 0]
    /\ queue' = [l \in Limiters |-> IF l \in S /\ q[l] # <<>> THEN Tail(q[l]) ELSE q[l]]
    /\ phase' = [d \in Calls |-> IF \E l \in S : d \in Heir(l, q) THEN "granted" ELSE ph[d]]

-----------------------------------------------------------------------------
\* Plausible slips in the actions below.
Bug_RefundWithoutWake(c) ==
    /\ phase[c] = "refunding"
    /\ waiting' = [waiting EXCEPT ![at[c]] = @ - 1]
    /\ inUse' = [l \in Limiters |-> inUse[l] - IF l \in held[c] THEN 1 ELSE 0]
    /\ held' = [held EXCEPT ![c] = {}]
    /\ value' = [l \in Limiters |-> value[l] + IF l \in held[c] \cup {at[c]} THEN 1 ELSE 0]
    /\ phase' = [phase EXCEPT ![c] = "done"]
    /\ UNCHANGED <<at, queue>>
Bug_PartialKept(c) ==
    /\ phase[c] = "withdrawn"
    /\ waiting' = [waiting EXCEPT ![at[c]] = @ - 1]
    /\ held' = [held EXCEPT ![c] = {}]
    /\ phase' = [phase EXCEPT ![c] = "done"]
    /\ UNCHANGED <<at, value, queue, inUse>>
Bug_GrantForgotten(c) ==
    /\ phase[c] \in {"created", "queued", "granted"}
    /\ phase' = [phase EXCEPT ![c] = IF @ = "created" THEN "done" ELSE "withdrawn"]
    /\ queue' = [queue EXCEPT ![at[c]] = Remove(@, c)]
-----------------------------------------------------------------------------
\* The limiters of a call, in the order acquire takes them: the source's before the global.
LimitersOf(c) == IF SourceOf[c] = Global THEN <<Global>> ELSE <<SourceOf[c], Global>>

\* A waiter that resumes with its slot passes a slot that has become free in the meantime on
\* to the first of those that had to queue behind it.
Called(c) ==
    {l \in Limiters : l = at[c] /\ phase[c] = "granted" /\ value[l] > 0 /\ queue[l] # <<>>}

\* Where that leaves the waiting futures, and the calls when c goes on to p.
LineAfter(c) == [l \in Limiters |-> IF l \in Called(c) THEN Tail(queue[l]) ELSE queue[l]]
PhaseAfter(c, p) ==
    [d \in Calls |-> IF d = c THEN p
                     ELSE IF \E l \in Called(c) : d \in Heir(l, queue) THEN "granted" ELSE phase[d]]

\* CapacityController.acquire from the limiter numbered n on: take the limiters that are
\* free, and queue at the first one that is not; with all of them, return the lease.
AcquireFrom(c, n, inUseNow, waitingNow) ==
    LET ls    == LimitersOf(c)
        busy  == {k \in n..Len(ls) : Busy(ls[k])}
        stop  == IF busy = {} THEN Len(ls) + 1 ELSE CHOOSE k \in busy : \A j \in busy : k <= j
        taken == {ls[k] : k \in n..(stop - 1)}
    IN  /\ value' = [l \in Limiters |-> value[l] - IF l \in taken \cup Called(c) THEN 1 ELSE 0]
        /\ inUse' = [l \in Limiters |-> inUseNow[l] + IF l \in taken THEN 1 ELSE 0]
        /\ held' = [held EXCEPT ![c] = {ls[k] : k \in 1..(stop - 1)}]
        /\ IF busy = {}
           THEN /\ phase' = PhaseAfter(c, IF c \in Timed THEN "leased" ELSE "calling")
                /\ waiting' = waitingNow
                /\ queue' = LineAfter(c)
                /\ UNCHANGED at
           ELSE /\ phase' = PhaseAfter(c, "queued")
                /\ waiting' = [waitingNow EXCEPT ![ls[stop]] = @ + 1]
                /\ queue' = [LineAfter(c) EXCEPT ![ls[stop]] = Append(@, c)]
                /\ at' = [at EXCEPT ![c] = ls[stop]]

\* acquire_capacity -> _await_with_timeout: the inner task is created.
Begin(c) ==
    /\ phase[c] = "idle"
    /\ phase' = [phase EXCEPT ![c] = "created"]
    /\ UNCHANGED <<at, held, value, queue, inUse, waiting>>

\* The task that acquires runs for the first time.
Acquire(c) ==
    /\ phase[c] = "created"
    /\ AcquireFrom(c, 1, inUse, waiting)

\* It resumes in CapacityLimiter.acquire with the slot it was granted, calls the next waiter
\* if it can, and goes on.
Resume(c) ==
    /\ phase[c] = "granted"
    /\ LET n == CHOOSE k \in DOMAIN LimitersOf(c) : LimitersOf(c)[k] = at[c]
       IN  AcquireFrom(c, n + 1, [inUse EXCEPT ![at[c]] = @ + 1],
                                 [waiting EXCEPT ![at[c]] = @ - 1])

\* The outer task resumes and takes the lease.
TakeLease(c) ==
    /\ phase[c] = "leased"
    /\ phase' = [phase EXCEPT ![c] = "calling"]
    /\ UNCHANGED <<at, held, value, queue, inUse, waiting>>

\* task.cancel() on the task that acquires: its future is cancelled at once and no longer
\* counts as a waiter; a slot already granted stays taken until the task runs.
CancelInner(c) ==
    \/ /\ phase[c] = "created"
       /\ phase' = [phase EXCEPT ![c] = "done"]
       /\ UNCHANGED queue
    \/ /\ phase[c] = "queued"
       /\ phase' = [phase EXCEPT ![c] = "withdrawn"]
       /\ \E i \in DOMAIN queue[at[c]] :
            queue[at[c]][i] = c /\ queue' = [queue EXCEPT ![at[c]] = RemoveAt(@, i)]
    \/ /\ phase[c] = "granted"
       /\ phase' = [phase EXCEPT ![c] = "refunding"]
       /\ UNCHANGED queue

\* The timeout of _await_with_timeout fires before the lease is there.
TimedOut(c) ==
    /\ c \in Timed
    /\ CancelInner(c)
    /\ UNCHANGED <<at, held, value, inUse, waiting>>

\* The outer task is cancelled while it waits.  _await_with_timeout cancels the inner task,
\* which has no effect on one that has already returned its lease.
CancelOuter(c) ==
    /\ \/ CancelInner(c)
       \/ /\ phase[c] = "leased"
          /\ phase' = [phase EXCEPT ![c] = "lost"]
          /\ UNCHANGED queue
    /\ UNCHANGED <<at, held, value, inUse, waiting>>

\* The cancellation reaches a task that was queued: CapacityLimiter.acquire counts it out
\* and CapacityController.acquire releases the limiters it already had.
Withdraw(c) ==
    /\ phase[c] = "withdrawn"
    /\ waiting' = [waiting EXCEPT ![at[c]] = @ - 1]
    /\ inUse' = [l \in Limiters |-> inUse[l] - IF l \in held[c] THEN 1 ELSE 0]
    /\ held' = [held EXCEPT ![c] = {}]
    /\ GiveBack(held[c], queue, [phase EXCEPT ![c] = "done"])
    /\ UNCHANGED at

\* The same for a task that had been granted a slot: the semaphore passes the slot on.
Refund(c) ==
    /\ phase[c] = "refunding"
    /\ waiting' = [waiting EXCEPT ![at[c]] = @ - 1]
    /\ inUse' = [l \in Limiters |-> inUse[l] - IF l \in held[c] THEN 1 ELSE 0]
    /\ held' = [held EXCEPT ![c] = {}]
    /\ GiveBack(held[c] \cup {at[c]}, queue, [phase EXCEPT ![c] = "done"])
    /\ UNCHANGED at

\* The source returned, failed, timed out or was cancelled: lease.release() in `finally'.
Release(c) ==
    /\ phase[c] = "calling"
    /\ inUse' = [l \in Limiters |-> inUse[l] - IF l \in held[c] THEN 1 ELSE 0]
    /\ held' = [held EXCEPT ![c] = {}]
    /\ GiveBack(held[c], queue, [phase EXCEPT ![c] = "done"])
    /\ UNCHANGED <<at, waiting>>

\* The steps that need nothing but the event loop, or the source's bounded answer.
Run(c) ==
    \/ Acquire(c) \/ Resume(c) \/ TakeLease(c) \/ Withdraw(c) \/ Refund(c) \/ Release(c)

Next == \E c \in Calls : Begin(c) \/ Run(c) \/ TimedOut(c) \/ CancelOuter(c)

Spec == Init /\ [][Next]_vars

\* The event loop runs every task that is ready, and every source call ends.  No timeout and
\* no cancellation is assumed to happen.
FairSpec == Spec /\ \A c \in Calls : WF_vars(Run(c))

-----------------------------------------------------------------------------
Holders(l) == {c \in Calls : l \in held[c]}

\* Slots are conserved and the diagnostics tell the truth: whatever is cancelled or times out
\* in whatever state, every slot of a limiter is free, on its way to one waiter, or held,
\* and in_use and waiting count exactly the calls that hold a slot and that wait for one.
SlotsAccounted ==
    \A l \in Limiters :
        /\ value[l] + Cardinality(Granted(l)) + inUse[l] = Limit[l]
        /\ inUse[l] = Cardinality(Holders(l))
        /\ waiting[l] = Cardinality({c \in Calls :
               phase[c] \in {"queued", "granted", "withdrawn", "refunding"} /\ at[c] = l})

\* A call that is over has given everything back; only a lease that was lost to a
\* cancellation between its grant and its delivery is never released.
NothingHeldAfterwards == \A c \in Calls : phase[c] = "done" => held[c] = {}

\* No wake-up is lost: whoever is queued at a limiter that has a free slot came after a waiter
\* that has been granted a slot and is yet to run, which then calls the next one.
NoSlotWasted == \A l \in Limiters : queue[l] # <<>> /\ value[l] > 0 => Granted(l) # {}

\* Source capacity comes first: a call that holds or waits for a global slot has its source's
\* slot, so a source never has more calls in or at the global limiter than its own limit.
GlobalBehindSource ==
    \A l \in Limiters \ {Global} :
        Cardinality({c \in Calls : SourceOf[c] = l /\
            (Global \in held[c] \/ (phase[c] \in {"queued", "granted", "withdrawn", "refunding"}
                                    /\ at[c] = Global))}) <= Limit[l]

\* Slots are neither lost nor invented, no wake-up is lost, and no source crowds the global
\* limiter.
SlotsSound ==
    TypeOK /\ SlotsAccounted /\ NothingHeldAfterwards /\ NoSlotWasted /\ GlobalBehindSource

\* No deadlock and no starvation between the two limiters: a call that waits gets its lease
\* or gives up, unless a cancelled call lost its lease.
WaitEnds ==
    \A c \in Calls :
        phase[c] = "queued" ~> (phase[c] # "queued" \/ \E d \in Calls : phase[d] = "lost")

\* Every limiter implements a pool of slots: through the inner tasks, the timeouts and the
\* cancellations no call overtakes another that waits, whoever is served next is the first
\* who waits, and each limiter's calls stay within its limit.
Pool == INSTANCE SlotPool WITH Pools <- Limiters, Clients <- Calls, Size <- Limit,
                               holders <- [l \in Limiters |-> Holders(l) \cup Granted(l)]

LimitersArePools == Pool!Spec
=============================================================================
