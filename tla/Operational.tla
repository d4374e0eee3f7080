---------------------------- MODULE Operational ----------------------------
(***************************************************************************)
(* try_build_requests, try_build_request and try_resolve_request of        *)
(* operational.py: a scan builds many requests, at most MaxConcurrent at a *)
(* time, each in a session of its own with its own deadline, and turns     *)
(* what each one got into an accepted, degraded or rejected result.        *)
(*                                                                         *)
(* The values of a request arrive one by one while the clock runs, so that *)
(* a value is older when the request is judged than when it was obtained.  *)
(* The builder may close, and the caller may cancel the scan, at any time. *)
(* How a value is resolved is Resolution's subject; here a key obtains one *)
(* of Offers[k] or fails.                                                  *)
(***************************************************************************)
EXTENDS Acceptance

CONSTANTS Count,          \* number of requests
          Request,        \* Request[i]: the SnapshotRequest
          Policy,         \* degradation_policy
          MaxConcurrent,  \* max_concurrent
          Allowance,      \* deadline_seconds
          Offers,         \* Offers[k]: what a resolution of k may yield: [lag, stale, rank]
          MaxTime         \* bound on the clock

Indices == 1..Count
Keys(i) == Request[i].required \cup Request[i].optional

ASSUME OperationalAssumption ==
    /\ Count \in Nat \ {0} /\ MaxConcurrent \in Nat \ {0} /\ Allowance \in Nat \ {0}
    /\ MaxTime \in Nat /\ Ttl \in [DOMAIN Ttl -> Nat]
    /\ \A i \in Indices : RequestOK(Request[i]) /\ Keys(i) \subseteq DOMAIN Ttl
    /\ \A k \in DOMAIN Ttl : \A o \in Offers[k] : o.lag \in Nat /\ o.stale \in BOOLEAN /\ o.rank \in Int

VARIABLES clock,
          builder,   \* open; closed: _closed is set; drained: the copy subsystem refuses too
          task,      \* where build_one is
          session,   \* its session
          deadline,  \* of that session
          found,     \* candidate_resources, then the session's resources
          failed,    \* the keys that have an error
          overdue,   \* _errors_include_deadline: one of those errors is the deadline
          result,    \* SnapshotResult.state; failed: rejected without a snapshot to judge
          scan       \* the call of try_build_requests

vars == <<clock, builder, task, session, deadline, found, failed, overdue, result, scan>>
work == <<task, session, deadline, found, failed, overdue, result>>

\* delivering: the snapshot is being copied.  redelivering: a second time, without deadline.
Busy == {"acquiring", "delivering", "redelivering"}
Over == {"done", "raised", "cancelled"}

TypeOK ==
    /\ clock \in 0..MaxTime
    /\ builder \in {"open", "closed", "drained"}
    /\ task \in [Indices -> Busy \cup Over \cup {"queued"}]
    /\ session \in [Indices -> {"none", "open", "closed"}]
    /\ deadline \in [Indices -> Nat]
    /\ \A i \in Indices :
        /\ DOMAIN found[i] \subseteq Keys(i) /\ failed[i] \subseteq Keys(i)
        /\ \A k \in DOMAIN found[i] :
            found[i][k].observed \in Int /\ found[i][k].age \in Nat
    /\ overdue \in [Indices -> BOOLEAN]
    /\ result \in [Indices -> {"none", "accepted", "degraded", "rejected", "failed"}]
    /\ scan \in {"running", "cancelling", "returned", "raised", "cancelled"}

Init ==
    /\ clock = 0
    /\ builder = "open"
    /\ task = [i \in Indices |-> "queued"]
    /\ session = [i \in Indices |-> "none"]
    /\ deadline = [i \in Indices |-> 0]
    /\ found = [i \in Indices |-> <<>>]
    /\ failed = [i \in Indices |-> {}]
    /\ overdue = [i \in Indices |-> FALSE]
    /\ result = [i \in Indices |-> "none"]
    /\ scan = "running"

-----------------------------------------------------------------------------
\* build_one holds the semaphore from Begin to its end.
Running == {i \in Indices : task[i] \in Busy}

\* No cancellation has been thrown into the tasks of the scan.
Undisturbed == scan # "cancelling"

\* Every key of the request has a value or an error.
KeysSettled(i) == DOMAIN found[i] \cup failed[i] = Keys(i)

\* The copies of a delivery watch the deadline, if there is anything to copy.
Watched(i) == ~overdue[i] /\ DOMAIN found[i] # {}

\* What the request has, for a snapshot delivered now.
Verdict(i, resources, errors) == Classify(Policy, Request[i], resources, errors, clock)

\* A plausible slip in Leave.
Bug_SessionLeftOpen(i, how) ==
    /\ task' = [task EXCEPT ![i] = how]
    /\ deadline' = [deadline EXCEPT ![i] = 0]
    /\ found' = [found EXCEPT ![i] = <<>>]
    /\ failed' = [failed EXCEPT ![i] = {}]
    /\ overdue' = [overdue EXCEPT ![i] = FALSE]
    /\ UNCHANGED session

\* try_build_request is over: session.close() and the semaphore's exit in `finally'; the
\* session's contents are of no further use.
Leave(i, how) ==
    /\ task' = [task EXCEPT ![i] = how]
    /\ session' = [session EXCEPT ![i] = IF @ = "open" THEN "closed" ELSE @]
    /\ deadline' = [deadline EXCEPT ![i] = 0]
    /\ found' = [found EXCEPT ![i] = <<>>]
    /\ failed' = [failed EXCEPT ![i] = {}]
    /\ overdue' = [overdue EXCEPT ![i] = FALSE]

\* It returns a SnapshotResult.
Conclude(i, verdict) ==
    /\ Leave(i, "done")
    /\ result' = [result EXCEPT ![i] = verdict]
    /\ UNCHANGED scan

-----------------------------------------------------------------------------
\* Plausible slips in the actions below.
Bug_OverrunStillEnforced(i) ==
    /\ task[i] = "delivering" /\ Undisturbed /\ builder # "drained"
    /\ Watched(i) /\ clock >= deadline[i]
    /\ failed' = [failed EXCEPT ![i] = Keys(i)]
    /\ UNCHANGED <<task, session, deadline, found, overdue, result, scan>>
-----------------------------------------------------------------------------
\* The semaphore is first come, first served, and the tasks come in index order.  A closed
\* builder refuses the session: RuntimeError, which gather hands to its caller at once
\* while the other tasks run on.
Begin(i) ==
    /\ task[i] = "queued" /\ Undisturbed
    /\ \A j \in 1..(i - 1) : task[j] # "queued"
    /\ Cardinality(Running) < MaxConcurrent
    /\ IF builder = "open"
       THEN /\ task' = [task EXCEPT ![i] = "acquiring"]
            /\ session' = [session EXCEPT ![i] = "open"]
            /\ deadline' = [deadline EXCEPT ![i] = clock + Allowance]
            /\ UNCHANGED scan
       ELSE /\ task' = [task EXCEPT ![i] = "raised"]
            /\ scan' = IF scan = "running" THEN "raised" ELSE scan
            /\ UNCHANGED <<session, deadline>>
    /\ UNCHANGED <<found, failed, overdue, result>>

\* A value that arrives now, aged max(0, now - observed_at).
Aged(o) == [observed |-> clock - o.lag, age |-> o.lag, stale |-> o.stale, rank |-> o.rank]

\* _resolve_many settles a key with a value ...
Obtain(i, k, o) ==
    /\ task[i] = "acquiring" /\ Undisturbed /\ builder # "drained"
    /\ k \notin DOMAIN found[i] \cup failed[i]
    /\ found' = [found EXCEPT ![i] = [x \in DOMAIN found[i] \cup {k} |->
                    IF x = k THEN Aged(o) ELSE found[i][x]]]
    /\ UNCHANGED <<task, session, deadline, failed, overdue, result, scan>>

\* ... or with an error, which may be that of a deadline, its own or that of a request whose
\* flight it joined.
Miss(i, k) ==
    /\ task[i] = "acquiring" /\ Undisturbed
    /\ k \notin DOMAIN found[i] \cup failed[i]
    /\ failed' = [failed EXCEPT ![i] = @ \cup {k}]
    /\ \E late \in BOOLEAN : overdue' = [overdue EXCEPT ![i] = @ \/ late]
    /\ UNCHANGED <<task, session, deadline, found, result, scan>>

\* A copy made for _resolve_many meets the deadline, or that of a request whose flight was
\* joined: nothing is obtained, every key of the request gets the deadline error, and an empty
\* snapshot is delivered and judged.
CutOff(i) ==
    /\ task[i] = "acquiring" /\ Undisturbed /\ builder # "drained"
    /\ ~KeysSettled(i)
    /\ Conclude(i, Verdict(i, <<>>, Keys(i)))

\* Every key is settled: the snapshot is copied for delivery.
Deliver(i) ==
    /\ task[i] = "acquiring" /\ Undisturbed /\ builder # "drained"
    /\ KeysSettled(i)
    /\ task' = [task EXCEPT ![i] = "delivering"]
    /\ UNCHANGED <<session, deadline, found, failed, overdue, result, scan>>

\* The delivery meets the deadline: the resources stay, every key that was pending also gets
\* the deadline's error, and the snapshot is copied again without a deadline.
Overrun(i) ==
    /\ task[i] = "delivering" /\ Undisturbed /\ builder # "drained"
    /\ Watched(i) /\ clock >= deadline[i]
    /\ failed' = [failed EXCEPT ![i] = Keys(i)]
    /\ task' = [task EXCEPT ![i] = "redelivering"]
    /\ UNCHANGED <<session, deadline, found, overdue, result, scan>>

\* The snapshot is there: _classify_snapshot_result and _record_try_result.
Judge(i) ==
    /\ task[i] \in {"delivering", "redelivering"} /\ Undisturbed
    /\ task[i] = "delivering" /\ Watched(i) => clock < deadline[i]
    /\ Conclude(i, Verdict(i, found[i], failed[i]))

\* A copy fails, or the copy subsystem has closed and refuses it: a CoalestraError, rejected
\* with an empty snapshot.
Refuse(i) ==
    /\ task[i] \in Busy /\ Undisturbed
    /\ Conclude(i, "failed")

-----------------------------------------------------------------------------
\* The caller of try_build_requests is cancelled: gather cancels every task that is left, ...
Cancel ==
    /\ scan = "running"
    /\ scan' = "cancelling"
    /\ UNCHANGED work

\* ... each ends at its next step, closing its session, ...
Unwind(i) ==
    /\ task[i] \notin Over /\ scan = "cancelling"
    /\ Leave(i, "cancelled")
    /\ UNCHANGED <<result, scan>>

\* ... and gather ends when the last one has.
Finish ==
    /\ scan \in {"running", "cancelling"}
    /\ \A i \in Indices : task[i] \in Over
    /\ scan' = IF scan = "running" THEN "returned" ELSE "cancelled"
    /\ UNCHANGED work

Tick ==
    /\ clock < MaxTime
    /\ clock' = clock + 1
    /\ UNCHANGED <<builder, scan, work>>

\* aclose sets _closed first and closes the copy subsystem later.
CloseBuilder ==
    /\ builder # "drained"
    /\ builder' = IF builder = "open" THEN "closed" ELSE "drained"
    /\ UNCHANGED <<clock, scan, work>>

-----------------------------------------------------------------------------
Step(i) ==
    \/ Begin(i) \/ CutOff(i) \/ Deliver(i) \/ Overrun(i) \/ Judge(i) \/ Refuse(i) \/ Unwind(i)
    \/ \E k \in Keys(i) : Miss(i, k) \/ \E o \in Offers[k] : Obtain(i, k, o)

EventLoop == (Finish \/ \E i \in Indices : Step(i)) /\ UNCHANGED <<clock, builder>>

Next == EventLoop \/ Tick \/ CloseBuilder \/ (Cancel /\ UNCHANGED <<clock, builder>>)

Spec == Init /\ [][Next]_vars

\* What the event loop does by itself: start a request that has a slot, deliver what has been
\* resolved, end a task that was cancelled, and the scan.
Scheduled == /\ Finish \/ \E i \in Indices : Begin(i) \/ Deliver(i) \/ Unwind(i)
             /\ UNCHANGED <<clock, builder>>

\* What it does once the copies for a delivery are made, meet the deadline, or are refused by
\* the copy subsystem that has closed.
Copied == /\ \E i \in Indices : Overrun(i) \/ Judge(i) \/ (builder = "drained" /\ Refuse(i))
          /\ UNCHANGED <<clock, builder>>

\* The event loop goes on while it can, each task having finitely many steps.  A resolution
\* and a copy need not end, and time, the builder's shutdown and a cancellation need not come.
FairSpec == Spec /\ WF_vars(Scheduled)

-----------------------------------------------------------------------------
\* What the policy of a request asks of one value at time now, said without the code's
\* intermediate sets: it satisfies its rule, whatever it was when it was obtained.
Meets(p, k, v, now) ==
    LET rule == IF k \in DOMAIN p.rules THEN p.rules[k] ELSE p.default
    IN  /\ rule.allowStale \/ (~v.stale /\ now - v.observed <= Ttl[k])
        /\ \A limit \in rule.maxAge : now - v.observed <= limit
        /\ \A least \in rule.minRank : v.rank >= least

\* What the policies ask of the snapshot: every enforced value that is there is good, every
\* requirement has enough good values, and no two of the values compared are too far apart.
Deserving(i) ==
    LET r   == Request[i]
        has == found[i]
        Compared(c) == DOMAIN has \cap (IF c.includeOptional THEN Keys(i) ELSE r.required)
    IN  /\ \A p \in r.acceptance :
            /\ \A k \in DOMAIN has : k \in r.required \/ p.includeOptional \/ k \in DOMAIN p.rules
                                     => Meets(p, k, has[k], clock)
            /\ \A g \in p.requirements :
                \E S \in SUBSET (g.keys \cap DOMAIN has) :
                    Cardinality(S) >= g.minimum /\ \A k \in S : Meets(p, k, has[k], clock)
        /\ \A c \in r.consistency : \A k, l \in Compared(c) :
            has[k].observed - has[l].observed <= c.limit

\* _classify_snapshot_result is sound and complete: a delivered snapshot is accepted exactly
\* if it has no errors and meets the policies when it is judged.  A value that was within its
\* limits when it was obtained, or that superseded a source's answer and is flagged fresh
\* whatever its age, does not pass if it has expired by then; an overrun delivery is never
\* accepted although it has every resource; and resolve_request, which raises instead, would
\* have returned exactly the deserving snapshots whose required keys have no errors.
JudgedExactly ==
    [][\A i \in Indices :
        result[i] = "none" /\ result'[i] \notin {"none", "failed"} /\ task[i] # "acquiring" =>
            /\ result'[i] = "accepted" <=> failed[i] = {} /\ Deserving(i)
            /\ ResolveRequestVerdict(Request[i], found[i], failed[i], clock) = "returned" <=>
                    failed[i] \cap Request[i].required = {} /\ Deserving(i)]_vars

\* However a request ends - judged, cut off, refused, raised or cancelled, also as an orphan of
\* a scan that has already raised - its session is closed and its slot is free; at most
\* MaxConcurrent sessions are open; and one request that fails with an error of the library
\* does not abort the scan, which raises only if the builder was closed under it and otherwise
\* has every result.  (What foreign code raises beside its contract, a policy or a cache, goes
\* through and is no part of the model.)
ScanSound ==
    /\ TypeOK
    /\ \A i \in Indices : session[i] = "open" <=> task[i] \in Busy
    /\ Cardinality({i \in Indices : session[i] = "open"}) <= MaxConcurrent
    /\ scan = "raised" => builder # "open"
    /\ scan = "returned" => \A i \in Indices : result[i] # "none"

\* No request resolves for ever, and no copy for its delivery hangs.
ResolutionsEnd == \A i \in Indices : []<>(task[i] = "acquiring" => KeysSettled(i))
CopiesEnd == WF_vars(Copied)

\* A scan that is cancelled ends, whatever its requests wait for.  One that is not ends if no
\* request resolves for ever, as two that wait for each other's keys do, and no copy hangs:
\* every request gets its slot, and its session is closed, also those of a scan that raised.
ScanEnds ==
    /\ scan = "cancelling" ~> scan = "cancelled" /\ \A i \in Indices : task[i] \in Over
    /\ ResolutionsEnd /\ CopiesEnd =>
           <>(scan \in {"returned", "raised", "cancelled"} /\ \A i \in Indices : task[i] \in Over)
=============================================================================
