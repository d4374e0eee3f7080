------------------------------- MODULE Health -------------------------------
(***************************************************************************)
(* BuilderHealth.assess of core/health.py: what a health snapshot of the   *)
(* builder, and optionally an earlier one, make of its state.  A pure      *)
(* function; the components whose counters it reads evaluate it in every   *)
(* state of theirs.                                                        *)
(*                                                                         *)
(* A ratio of the policy is [num, den].  capacity, copies and buffers are  *)
(* functions from the names of the parts to their figures, circuits from   *)
(* the circuits to their states, counters from the counters' names to Nat. *)
(***************************************************************************)
EXTENDS Integers, FiniteSets

Ratio(n, d) == [num |-> n, den |-> d]

\* BuilderHealthAssessmentPolicy with its defaults.
DefaultPolicy ==
    [capacityWaiting |-> 1, capacityCritical |-> Ratio(1, 1),
     copyWaiting |-> 1, copyCritical |-> Ratio(1, 1),
     submissionDegraded |-> Ratio(1, 2), submissionCritical |-> Ratio(9, 10),
     bufferDegraded |-> Ratio(1, 2), bufferCritical |-> Ratio(9, 10),
     deltaDegraded |-> 1, deltaCritical |-> 5]

\* BuilderHealthAssessmentPolicy.__post_init__
AtMost(r, s) == r.num * s.den <= s.num * r.den
PolicyOK(p) ==
    /\ p.capacityWaiting >= 1 /\ p.copyWaiting >= 1 /\ p.deltaDegraded >= 1
    /\ p.deltaCritical >= p.deltaDegraded
    /\ \A r \in {p.capacityCritical, p.copyCritical, p.submissionDegraded, p.bufferDegraded} :
        r.num > 0 /\ r.den > 0
    /\ AtMost(p.submissionDegraded, p.submissionCritical) /\ AtMost(p.submissionCritical, Ratio(1, 1))
    /\ AtMost(p.bufferDegraded, p.bufferCritical) /\ AtMost(p.bufferCritical, Ratio(1, 1))

ASSUME DefaultPolicyAssumption == PolicyOK(DefaultPolicy)

\* BuilderHealth of a builder in which nothing has happened yet.
Untroubled ==
    [closed |-> FALSE, unsafeSources |-> 0, capacity |-> <<>>, copies |-> <<>>,
     submissions |-> [pending |-> 0, limit |-> 0], buffers |-> <<>>, circuits |-> <<>>,
     copyShutdownIncomplete |-> FALSE, bufferShutdownIncomplete |-> FALSE, counters |-> <<>>]

-----------------------------------------------------------------------------
\* _safe_ratio(n, d) >= r; a limit of 0 stands for None.
Reaches(n, d, r) == d > 0 /\ n * r.den >= d * r.num

Finding(reason, critical) == [reason |-> reason, severity |-> IF critical THEN "critical" ELSE "degraded"]
If(condition, reason, critical) == IF condition THEN {Finding(reason, critical)} ELSE {}

\* The waiters of all parts, counted, and _maximum_wait_ratio, _maximum_copy_wait_ratio >= r.
TotalWaiting(parts) == Cardinality(UNION {{n} \X (1..parts[n].waiting) : n \in DOMAIN parts})
AnyReaches(parts, r) == \E n \in DOMAIN parts : Reaches(parts[n].waiting, parts[n].limit, r)

WaitFinding(parts, least, critical, reason) ==
    If(TotalWaiting(parts) >= least, reason, AnyReaches(parts, critical))

\* _maximum_observability_ratio >= r
AnyBacklog(buffers, r) == \E n \in DOMAIN buffers : Reaches(buffers[n].pending, buffers[n].limit, r)

\* One counter has grown by the threshold or more since the earlier snapshot.
Increased(h, previous, p, c) == h.counters[c] - previous.counters[c] >= p.deltaDegraded

CounterFindings(h, previous, p) ==
    {Finding(c, h.counters[c] - previous.counters[c] >= p.deltaCritical) :
        c \in {d \in DOMAIN h.counters : Increased(h, previous, p, d)}}

\* _assess_builder_health; previous is {} for None.
Findings(h, previous, p) ==
    If(h.closed, "builder_closed", TRUE)
    \cup If(h.unsafeSources > 0, "unsafe_blocking_source", TRUE)
    \cup WaitFinding(h.capacity, p.capacityWaiting, p.capacityCritical, "source_capacity_waiting")
    \cup WaitFinding(h.copies, p.copyWaiting, p.copyCritical, "payload_copy_capacity_waiting")
    \cup If(Reaches(h.submissions.pending, h.submissions.limit, p.submissionDegraded),
            "submission_backlog_high",
            Reaches(h.submissions.pending, h.submissions.limit, p.submissionCritical))
    \cup If(AnyBacklog(h.buffers, p.bufferDegraded), "observability_backlog_high",
            AnyBacklog(h.buffers, p.bufferCritical))
    \cup If(\E n \in DOMAIN h.buffers : ~h.buffers[n].alive /\ ~h.buffers[n].closed,
            "observability_worker_stopped", TRUE)
    \cup If(\E c \in DOMAIN h.circuits : h.circuits[c] = "open", "circuit_open", FALSE)
    \cup If(\E c \in DOMAIN h.circuits : h.circuits[c] = "half_open", "circuit_half_open", FALSE)
    \cup If(h.copyShutdownIncomplete, "payload_copy_shutdown_incomplete", TRUE)
    \cup If(h.bufferShutdownIncomplete, "observability_shutdown_incomplete", TRUE)
    \cup UNION {CounterFindings(h, before, p) : before \in previous}

\* BuilderHealthAssessment.reasons and severity
Reasons(findings) == {f.reason : f \in findings}

Severity(findings) ==
    IF findings = {} THEN "healthy"
    ELSE IF \E f \in findings : f.severity = "critical" THEN "critical" ELSE "degraded"
=============================================================================
