----------------------------- MODULE Acceptance -----------------------------
(***************************************************************************)
(* The quality policies of a snapshot request: core/acceptance.py,         *)
(* core/consistency.py and the verdicts that SnapshotSession               *)
(* .resolve_request and operational.py reach with them.  Pure functions of *)
(* the resolved values and the clock.                                      *)
(*                                                                         *)
(* A resolved value is [observed, age, stale, rank]: observed_at,          *)
(* age_seconds and stale as they were when the value was obtained, and     *)
(* authority_rank.  An optional setting is a set: {} for None, {x} for x.  *)
(***************************************************************************)
EXTENDS Integers, FiniteSets, FiniteSetsExt

CONSTANT Ttl  \* Ttl[k]: policy_resolver.resolve(k).ttl_seconds

\* ResourceAcceptanceRule
Rules == [maxAge : SUBSET Nat, allowStale : BOOLEAN, minRank : SUBSET Int]

\* ResourceAcceptanceRule.has_constraints
HasConstraints(rule) == rule.maxAge # {} \/ ~rule.allowStale \/ rule.minRank # {}

\* SnapshotRequirement.__init__
RequirementOK(g) ==
    g.keys # {} /\ IsFiniteSet(g.keys) /\ g.minimum \in 1..Cardinality(g.keys)

\* SnapshotAcceptancePolicy.__post_init__
PolicyOK(p) ==
    /\ p.default \in Rules /\ \A k \in DOMAIN p.rules : p.rules[k] \in Rules
    /\ p.includeOptional \in BOOLEAN
    /\ \A g \in p.requirements : RequirementOK(g)
    /\ \/ HasConstraints(p.default)
       \/ \E k \in DOMAIN p.rules : HasConstraints(p.rules[k])
       \/ p.requirements # {}

\* SnapshotAcceptancePolicy.referenced_keys
ReferencedKeys(p) == DOMAIN p.rules \cup UNION {g.keys : g \in p.requirements}

\* SnapshotRequest.__init__
RequestOK(r) ==
    /\ r.required \cap r.optional = {}
    /\ r.required \cup r.optional # {} /\ IsFiniteSet(r.required \cup r.optional)
    /\ \A c \in r.consistency : c.limit \in Nat /\ c.includeOptional \in BOOLEAN
    /\ \A p \in r.acceptance : PolicyOK(p) /\ ReferencedKeys(p) \subseteq r.required \cup r.optional

-----------------------------------------------------------------------------
\* A plausible slip in CurrentAge.
Bug_AgeWhenObtained(v, now) == Max({0, v.age})
-----------------------------------------------------------------------------
\* current_age: never less than it was when the value was obtained.
CurrentAge(v, now) == Max({0, v.age, now - v.observed})

DynamicallyStale(k, v, now) == v.stale \/ CurrentAge(v, now) > Ttl[k]

\* SnapshotAcceptancePolicy.rule_for
RuleFor(p, k) == IF k \in DOMAIN p.rules THEN p.rules[k] ELSE p.default

\* key_violations of a resolved resource.
KeyViolations(p, k, v, now) ==
    LET rule == RuleFor(p, k)
        Found(why, holds) == IF holds THEN {[reason |-> why, keys |-> {k}]} ELSE {}
    IN  Found("stale", ~rule.allowStale /\ DynamicallyStale(k, v, now))
        \cup Found("too_old", \E limit \in rule.maxAge : CurrentAge(v, now) > limit)
        \cup Found("authority", \E least \in rule.minRank : v.rank < least)

\* acceptable
Acceptable(p, k, resources, now) ==
    k \in DOMAIN resources /\ KeyViolations(p, k, resources[k], now) = {}

\* The requirements with too few acceptable resources.
Unsatisfied(p, resources, now) ==
    {g \in p.requirements :
        Cardinality({k \in g.keys : Acceptable(p, k, resources, now)}) < g.minimum}

\* directly_enforced_keys
DirectlyEnforced(required, optional, p) ==
    required \cup (IF p.includeOptional THEN optional ELSE {}) \cup DOMAIN p.rules

\* What is wrong with the values of the keys, and the requirements that are not met.
Reported(p, keys, resources, now) == UNION {KeyViolations(p, k, resources[k], now) : k \in keys}
Unmet(requirements) == {[reason |-> "requirement", keys |-> g.keys] : g \in requirements}

\* find_snapshot_acceptance_violations: an enforced key that is missing is no violation, and
\* what is wrong with the other keys counts only in a requirement they make fail.
AcceptanceViolations(resources, required, optional, p, now) ==
    LET short    == Unsatisfied(p, resources, now)
        reported == DirectlyEnforced(required, optional, p) \cup UNION {g.keys : g \in short}
    IN  Reported(p, reported \cap DOMAIN resources, resources, now) \cup Unmet(short)

\* find_observation_skew_violation # None
SkewViolation(resources, keys, limit) ==
    LET observed == {resources[k].observed : k \in keys \cap DOMAIN resources}
    IN  observed # {} /\ Max(observed) - Min(observed) > limit

-----------------------------------------------------------------------------
\* _find_consistency_violation and the same test in resolve_request.
Inconsistent(r, resources) ==
    \E c \in r.consistency :
        SkewViolation(resources,
                      r.required \cup (IF c.includeOptional THEN r.optional ELSE {}), c.limit)

\* _find_acceptance_violations # () and the same test in resolve_request.
Unaccepted(r, resources, now) ==
    \E p \in r.acceptance : AcceptanceViolations(resources, r.required, r.optional, p, now) # {}

\* SnapshotSession.resolve_request, after its resolve has returned: what it raises, in the
\* order it looks, or "returned".
ResolveRequestVerdict(r, resources, errors, now) ==
    CASE r.required \cap errors # {} -> "build_error"
      [] Inconsistent(r, resources) -> "consistency_error"
      [] Unaccepted(r, resources, now) -> "acceptance_error"
      [] OTHER -> "returned"

-----------------------------------------------------------------------------
\* RequestDegradationPolicy and its three factories, without the actions they allow.
Permissive(least) ==
    [minResolved |-> least, minRequired |-> 0, failClosed |-> FALSE, onRequiredError |-> FALSE,
     onAcceptance |-> FALSE, onConsistency |-> FALSE]

ReadOnlyDegraded(least) == Permissive(least)
RiskReduction(least) == Permissive(least)

FailClosedPolicy ==
    [Permissive(1) EXCEPT !.failClosed = TRUE, !.onRequiredError = TRUE,
                          !.onAcceptance = TRUE, !.onConsistency = TRUE]

\* reason_parts
ReasonParts(r, resources, errors, now) ==
    (IF r.required \cap errors # {} THEN {"required_errors"} ELSE {})
    \cup (IF r.optional \cap errors # {} THEN {"optional_errors"} ELSE {})
    \cup (IF Inconsistent(r, resources) THEN {"consistency_violation"} ELSE {})
    \cup (IF Unaccepted(r, resources, now) THEN {"acceptance_violation"} ELSE {})

\* The condition on which a partial snapshot is rejected.
Rejects(d, r, resources, parts) ==
    \/ d.failClosed
    \/ Cardinality(DOMAIN resources) < d.minResolved
    \/ Cardinality(r.required \cap DOMAIN resources) < d.minRequired
    \/ "required_errors" \in parts /\ d.onRequiredError
    \/ "acceptance_violation" \in parts /\ d.onAcceptance
    \/ "consistency_violation" \in parts /\ d.onConsistency

\* _classify_snapshot_result
Classify(d, r, resources, errors, now) ==
    LET parts == ReasonParts(r, resources, errors, now)
    IN  CASE parts = {} -> "accepted"
          [] parts # {} /\ Rejects(d, r, resources, parts) -> "rejected"
          [] OTHER -> "degraded"
=============================================================================
