--------------------------- MODULE CircuitBreaker ---------------------------
(***************************************************************************)
(* The state of resilience/circuit_breaker.py: one circuit per identity    *)
(* (source plus scope discriminator) and the monotonic clock it reads.     *)
(*                                                                         *)
(* Every method holds the breaker's asyncio.Lock and never awaits inside   *)
(* it, so each one is a single atomic step.  A method is given here as the *)
(* function from the circuit it finds to the circuit it leaves; the        *)
(* callers (module SourceAttempts) say when it runs.  An identity that has *)
(* no entry in _circuits behaves in every method as one with a fresh       *)
(* _Circuit(), so the absent entry and the fresh one are the same value.   *)
(***************************************************************************)
EXTENDS Integers

CONSTANTS Identities,        \* CircuitIdentity values
          Enabled,           \* the identities whose policy has enabled = True
          FailureThreshold,  \* CircuitBreakerPolicy.failure_threshold
          RecoveryTimeout    \* CircuitBreakerPolicy.recovery_timeout_seconds

ASSUME BreakerAssumption ==
    /\ Enabled \subseteq Identities
    /\ FailureThreshold \in Nat \ {0}
    /\ RecoveryTimeout \in Nat

VARIABLES circuits, \* CircuitBreaker._circuits
          now       \* clock.monotonic()

Circuit == [state    : {"closed", "open", "half_open"},
            failures : Nat,
            openedAt : Nat,
            probe    : BOOLEAN]

NewCircuit == [state |-> "closed", failures |-> 0, openedAt |-> 0, probe |-> FALSE]

-----------------------------------------------------------------------------
\* Plausible slips in the code below, used to show that the properties notice them.
Bug_SkipForgetsProbe(c) == c
Bug_ThresholdOffByOne(c) ==
    IF c.failures >= FailureThreshold \/ c.state = "half_open"
    THEN [state |-> "open", failures |-> c.failures + 1, openedAt |-> now, probe |-> FALSE]
    ELSE [c EXCEPT !.failures = @ + 1, !.probe = FALSE]
Bug_AbandonClearsOpenedAt(c) == \* opened_at = None, for which -1 stands
    IF c.state = "half_open" /\ c.probe
    THEN [c EXCEPT !.state = "open", !.openedAt = -1, !.probe = FALSE]
    ELSE [c EXCEPT !.probe = FALSE]
-----------------------------------------------------------------------------
\* before_call, first half: an open circuit whose recovery time is over turns half-open.
Recovered(c) ==
    IF c.state = "open" /\ now - c.openedAt >= RecoveryTimeout
    THEN [c EXCEPT !.state = "half_open"]
    ELSE c

\* before_call raises CircuitOpenError.
Refused(c) ==
    LET r == Recovered(c)
    IN  r.state = "open" \/ (r.state = "half_open" /\ r.probe)

\* before_call admits the caller as the half-open probe.
AdmitsProbe(c) ==
    LET r == Recovered(c) IN r.state = "half_open" /\ ~r.probe

\* before_call: the circuit it leaves, whether it admits the caller or not.
BeforeCall(c) ==
    LET r == Recovered(c)
    IN  IF r.state = "half_open" THEN [r EXCEPT !.probe = TRUE] ELSE r

RecordSuccess(c) == NewCircuit

RecordFailure(c) ==
    IF c.failures + 1 >= FailureThreshold \/ c.state = "half_open"
    THEN [state |-> "open", failures |-> c.failures + 1, openedAt |-> now, probe |-> FALSE]
    ELSE [c EXCEPT !.failures = @ + 1, !.probe = FALSE]

RecordAbandoned(c) ==
    IF c.state = "half_open" /\ c.probe
    THEN [c EXCEPT !.state = "open", !.openedAt = now, !.probe = FALSE]
    ELSE [c EXCEPT !.probe = FALSE]

RecordSkipped(c) == [c EXCEPT !.probe = FALSE]

\* A method called once for every identity of S; it returns at once when the policy is
\* disabled.
Apply(Method(_), S) ==
    circuits' = [i \in Identities |->
                    IF i \in S \cap Enabled THEN Method(circuits[i]) ELSE circuits[i]]

\* reset(source) pops one entry, reset() clears them all.
Reset(S) ==
    circuits' = [i \in Identities |-> IF i \in S THEN NewCircuit ELSE circuits[i]]
=============================================================================
