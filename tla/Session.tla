------------------------------- MODULE Session -------------------------------
(***************************************************************************)
(* SnapshotSession of orchestration/session.py: one memo of pinned values, *)
(* the resources and errors shown to the consumer, staged resolution, and  *)
(* revalidation, beside a shared cache and other requests.  What these     *)
(* hold is not the session's doing: whatever publishers, other builds and  *)
(* expiry do (CachePublication), a lookup finds some value of the key that *)
(* was ever given out, a new one, or none.                                 *)
(*                                                                         *)
(* A call holds the session's lock from its first step to its last.  The   *)
(* builder resolves the keys it needs from the memo, from the cache, from  *)
(* a source or from what another request is acquiring.  Several resolutions*)
(* of one key may run in a call: each derivation looks for its             *)
(* dependencies on its own, and a derived key that was asked for may be    *)
(* derived once for itself and again for what depends on it.  So the model *)
(* keeps every value the call has obtained of a key; its memo holds one of *)
(* them, that of the resolution which wrote last.  Which source answers,   *)
(* and single-flight itself, are the subject of Resolution.                *)
(*                                                                         *)
(* A producer task outlives the stage that started it.  When a stage is    *)
(* cut off, the keys it was resolving are adrift: their producer may still *)
(* write the session's memo, which no lock protects from it.               *)
(***************************************************************************)
EXTENDS Integers, FiniteSets

CONSTANTS Base, Derived, \* the resource keys
          DepsOf,        \* dependencies(key), {} for base keys
          Requests,      \* the key sets that resolve and revalidate are called with
          MaxVersion,    \* bound of the model: the versions of each key ever given out
          MaxCalls       \* bound of the model: the calls of resolve and revalidate

Keys == Base \cup Derived

ASSUME SessionAssumption ==
    /\ Base \cap Derived = {}
    /\ DepsOf \in [Keys -> SUBSET Keys]
    /\ \A k \in Base : DepsOf[k] = {}
    /\ Requests \subseteq SUBSET Keys /\ {} \notin Requests
    /\ MaxVersion \in [Keys -> Nat] /\ MaxCalls \in Nat

VARIABLES version,   \* the last version of each key given out
          given,     \* the values of each key given out, by whomever
          memo,      \* _runtime.memo
          resources, \* _resources
          errors,    \* _errors
          closed,    \* _closed
          call,      \* the call that holds the lock
          requested, \* its keys
          forcing,   \* its force_refresh
          targets,   \* the keys it has the builder resolve
          retried,   \* the errors it retries
          pinned,    \* history: the keys the memo held when it began
          obtained,  \* the values of each key that its memo has held; it holds one of them
          force,     \* force_refresh_keys, those already refreshed included
          needed,    \* the keys it may have to resolve, dependencies included
          fellBack,  \* the keys whose source has been excluded once
          adrift,    \* the keys that a stage which was cut off has left to a producer
          calls      \* how many calls there have been

vars == <<version, given, memo, resources, errors, closed, call, requested, forcing, targets,
          retried, pinned, obtained, force, needed, fellBack, adrift, calls>>
session == <<memo, resources, errors, closed>>
request == <<requested, forcing, targets, retried, pinned>>
build == <<obtained, force, needed, fellBack>>

None == [ver |-> 0]
Value(k, n, ds) == [ver |-> n, deps |-> [d \in DepsOf[k] |-> ds[d]]]

IsValue(v, k) == /\ v.ver \in 1..version[k]
                 /\ DOMAIN v.deps = DepsOf[k] /\ \A d \in DepsOf[k] : v.deps[d] \in 1..version[d]
IsMemo(m) == DOMAIN m = Keys /\ \A k \in Keys : m[k] = None \/ IsValue(m[k], k)

TypeOK ==
    /\ IsMemo(memo) /\ IsMemo(resources)
    /\ DOMAIN obtained = Keys /\ DOMAIN given = Keys
    /\ \A k \in Keys : \A v \in obtained[k] \cup given[k] : IsValue(v, k)
    /\ DOMAIN version = Keys /\ \A k \in Keys : version[k] \in 0..MaxVersion[k]
    /\ errors \subseteq Keys
    /\ closed \in BOOLEAN /\ forcing \in BOOLEAN
    /\ call \in {"none", "resolve", "revalidate"}
    /\ requested \subseteq Keys /\ targets \subseteq Keys /\ retried \subseteq Keys
    /\ force \subseteq Keys /\ needed \subseteq Keys
    /\ fellBack \subseteq Keys /\ adrift \subseteq Keys
    /\ pinned \subseteq Keys /\ calls \in 0..MaxCalls

Nothing == [k \in Keys |-> None]
NoValues == [k \in Keys |-> {}]

Init ==
    /\ version = [k \in Keys |-> 0] /\ given = NoValues
    /\ memo = Nothing /\ resources = Nothing /\ errors = {} /\ closed = FALSE
    /\ call = "none" /\ requested = {} /\ forcing = FALSE /\ targets = {} /\ retried = {}
    /\ pinned = {} /\ obtained = NoValues /\ force = {}
    /\ needed = {} /\ fellBack = {} /\ adrift = {} /\ calls = 0

Held(m) == {k \in Keys : m[k] # None}
Dependents(S, m) == {k \in Held(m) : DOMAIN m[k].deps \cap S # {}}

\* What a call finds in memo m when the keys of S are taken out.
Without(m, S) == [k \in Keys |-> IF k \in S \/ m[k] = None THEN {} ELSE {m[k]}]

\* What the memo of the call may hold of the keys of S.
MemosOf(S) == {m \in [S -> {None} \cup UNION {obtained[k] : k \in S}] :
                  \A k \in S : m[k] \in IF obtained[k] = {} THEN {None} ELSE obtained[k]}
Memos == MemosOf(Keys)

\* The versions that the call has obtained, and those ever given out.
Obtained == [d \in Keys |-> {v.ver : v \in obtained[d]}]
Given == [d \in Keys |-> 1..version[d]]

-----------------------------------------------------------------------------
\* The keys each key depends on, directly or not, whatever any memo records.
AllDepsOf == [k \in Keys |->
    {j \in Keys : \A T \in SUBSET Keys :
        DepsOf[k] \subseteq T /\ (\A d \in T : DepsOf[d] \subseteq T) => j \in T}]

\* What the resolution of the targets may have come to: those that failed, for which no
\* source answered or a dependency had failed.  A key that failed for itself may have been
\* obtained for what depends on it.
Failures == {F \in SUBSET (targets \cap needed) : \A k \in targets \ F : obtained[k] # {}}
Resolved == {} \in Failures

\* The call ends.
End == /\ call' = "none"
       /\ requested' = {} /\ forcing' = FALSE /\ targets' = {} /\ retried' = {}
       /\ pinned' = {} /\ obtained' = NoValues /\ force' = {}
       /\ needed' = {} /\ fellBack' = {}
       /\ UNCHANGED <<version, given, closed, calls>>

-----------------------------------------------------------------------------
\* Plausible slips in the definitions below.
Bug_DerivesRegardless(k, vs) ==
    {Value(k, version[k] + 1, ds) :
        ds \in {f \in [DepsOf[k] -> UNION {vs[d] : d \in DepsOf[k]} \cup {0}] :
                   \A d \in DepsOf[k] : vs[d] # {} => f[d] \in vs[d]}}
Bug_LastWriterWins(m) == m \in Memos /\ memo' \in Memos
Bug_DirectOnly(S, m) == S \cup Dependents(S, m)
Bug_CommitsPartially ==
    /\ call = "revalidate"
    /\ \E m \in Memos, F \in Failures :
          /\ memo' = [k \in Keys |-> IF k \in F THEN memo[k] ELSE m[k]]
          /\ resources' = [k \in Keys |-> IF k \in (targets \cap Held(resources)) \ F THEN m[k]
                                          ELSE resources[k]]
    /\ errors' = errors \ targets
    /\ End /\ UNCHANGED adrift
-----------------------------------------------------------------------------
\* The values k may get next, each of its dependencies having a version in vs.
NextValues(k, vs) ==
    {Value(k, version[k] + 1, ds) :
        ds \in {f \in [DepsOf[k] -> UNION {vs[d] : d \in DepsOf[k]}] :
                   \A d \in DepsOf[k] : f[d] \in vs[d]}}

\* _affected_keys_from_memo: S and the keys of the memo that depend on it, directly or not,
\* which are in every set of keys that has S and the dependents of its members.
Affected(S, m) ==
    {k \in Keys : \A T \in SUBSET Keys : S \subseteq T /\ Dependents(T, m) \subseteq T => k \in T}

\* The keys that resolving S can make the builder resolve: of S and of what it depends on,
\* those that are not in the memo.
Needed(S, memos) ==
    {k \in Keys : memos[k] = {} /\ \E j \in S : memos[j] = {} /\ k \in AllDepsOf[j] \cup {j}}

\* resolve: only keys without a value or an error are resolved; errors when they are retried.
Resolve(S, retry) ==
    /\ call = "none" /\ ~closed /\ calls < MaxCalls
    /\ call' = "resolve" /\ calls' = calls + 1
    /\ requested' = S /\ forcing' = FALSE
    /\ retried' = IF retry THEN S \cap errors ELSE {}
    /\ targets' = S \ (Held(resources) \cup (errors \ retried'))
    /\ targets' # {}
    /\ pinned' = Held(memo) /\ obtained' = Without(memo, {}) /\ force' = {}
    /\ needed' = Needed(targets', obtained') /\ fellBack' = {}
    /\ UNCHANGED <<version, given, session, adrift>>

\* revalidate: S and what is visible and depends on it is resolved again, beside the memo.
Revalidate(S, forced) ==
    /\ call = "none" /\ ~closed /\ calls < MaxCalls
    /\ S \subseteq Held(memo)
    /\ call' = "revalidate" /\ calls' = calls + 1
    /\ requested' = S /\ forcing' = forced /\ retried' = {}
    /\ LET affected == Affected(S, memo)
       IN  /\ targets' = S \cup (affected \cap Held(resources))
           /\ obtained' = Without(memo, affected)
           /\ force' = IF forced THEN affected ELSE {}
    /\ pinned' = Held(memo)
    /\ needed' = Needed(targets', obtained') /\ fellBack' = {}
    /\ UNCHANGED <<version, given, session, adrift>>

-----------------------------------------------------------------------------
\* _resolve_many.
\* A resolution of k writes v to the memo of the call.
Pin(k, v) ==
    /\ obtained' = [obtained EXCEPT ![k] = @ \cup {v}]
    /\ UNCHANGED <<session, call, request, force, needed, fellBack, adrift, calls>>

\* A value of k that was not there before is given out.
Give(k, v) ==
    /\ version[k] < MaxVersion[k]
    /\ version' = [version EXCEPT ![k] = @ + 1]
    /\ given' = [given EXCEPT ![k] = @ \cup {v}]

\* A resolution of k is under way.  A key that something else to be resolved depends on may
\* be resolved for each of them.
Resolving(k) ==
    k \in needed /\ (obtained[k] = {} \/ \E j \in needed : k \in AllDepsOf[j])

\* The cache has k, or another request that is acquiring it hands it over, derived from
\* values of its own.  Keys that are forced look nowhere.
LookupHit(k) ==
    /\ Resolving(k) /\ k \notin force
    /\ \/ \E v \in given[k] : Pin(k, v) /\ UNCHANGED <<version, given>>
       \/ \E v \in NextValues(k, Given) : Pin(k, v) /\ Give(k, v)

\* A source answers: the payload is pinned.  The dependencies have versions that some
\* resolution of this call has obtained.
Answer(k) ==
    /\ Resolving(k)
    /\ \E v \in NextValues(k, Obtained) : Pin(k, v) /\ Give(k, v)

\* A source answers, but the cache, to which a fallback does not write, holds a publication of
\* higher authority, which is pinned instead.  The derived keys have one source each here, and
\* so one authority.
Superseded(k) ==
    /\ Resolving(k) /\ k \in Base /\ fellBack = {}
    /\ \E v \in given[k] : Pin(k, v) /\ UNCHANGED <<version, given>>

\* A producer that has outlived its stage takes k from the cache or from a source and writes it
\* to the session's memo, whoever holds the lock; a stage works with that memo itself, a
\* revalidation beside it.
LateAnswer(k) ==
    /\ k \in adrift /\ ~closed
    /\ \E v \in given[k] \cup NextValues(k, Given) :
          /\ IF v \in given[k] THEN UNCHANGED <<version, given>> ELSE Give(k, v)
          /\ IF call = "resolve"
             THEN obtained' = [obtained EXCEPT ![k] = @ \cup {v}] /\ memo' = memo
             ELSE memo' = [memo EXCEPT ![k] = v] /\ obtained' = obtained
    /\ UNCHANGED <<resources, errors, closed, call, request, force, needed, fellBack, adrift,
                   calls>>

-----------------------------------------------------------------------------
\* What resolve shows: its values and errors are kept, also when strict makes it raise.
Candidates(m, F) == [k \in Keys |-> IF k \in targets \ F THEN m[k] ELSE resources[k]]

\* The memo is left with what its last writers wrote, which for a target is what resolve has
\* got of it, unless a producer that is adrift wrote it since.
Keep(m) == \E late \in MemosOf(adrift) :
               memo' = [k \in Keys |-> IF k \in adrift THEN late[k] ELSE m[k]]

ResolveEnds ==
    /\ call = "resolve"
    /\ \E m \in Memos, F \in Failures :
          /\ resources' = Candidates(m, F) /\ Keep(m)
          /\ errors' = (errors \ retried) \cup F
    /\ End /\ UNCHANGED adrift

\* The deadline passes while resolving or while copying the snapshot.  A strict resolve, like a
\* cancelled call, shows nothing; one that is not strict keeps errors for all its targets.
ResolveDeadline ==
    /\ call = "resolve"
    /\ \E m \in Memos :
          /\ \/ UNCHANGED <<resources, errors>>
             \/ /\ \/ UNCHANGED resources
                   \/ \E F \in Failures : resources' = Candidates(m, F)
                /\ errors' = (errors \ retried) \cup targets
          /\ Keep(m)
    /\ adrift' = adrift \cup needed
    /\ End

\* The staged memo and the visible values are committed together.
RevalidateCommits ==
    /\ call = "revalidate" /\ Resolved
    /\ \E m \in Memos :
          /\ memo' = m
          /\ resources' = [k \in Keys |-> IF k \in targets \cap Held(resources) THEN m[k]
                                          ELSE resources[k]]
    /\ errors' = errors \ targets
    /\ End /\ UNCHANGED adrift

\* A target failed, a policy was violated, the deadline passed, or the call was cancelled.
\* Producers that outlive it write to the memo that is thrown away.
RevalidateFails ==
    /\ call = "revalidate"
    /\ End /\ UNCHANGED <<memo, resources, errors, adrift>>

\* _retry_inconsistent_sources: k is too old beside the other requested keys, and is resolved
\* again without the source it came from, with what depends on it, and without writing to the
\* cache.
Fallback(k) ==
    /\ call = "revalidate" /\ forcing /\ Resolved
    /\ k \in requested \ fellBack /\ Cardinality(requested) > 1
    /\ fellBack' = fellBack \cup {k}
    /\ \E m \in Memos :
          LET affected == Affected({k}, m)
          IN  /\ obtained' = [j \in Keys |-> IF j \in affected THEN {} ELSE obtained[j]]
              /\ force' = affected
              /\ needed' = Needed((targets \cap affected) \cup {k}, obtained')
    /\ UNCHANGED <<version, given, session, call, request, adrift, calls>>

Close ==
    /\ call = "none" /\ ~closed
    /\ closed' = TRUE
    /\ UNCHANGED <<version, given, memo, resources, errors, call, request, build, adrift, calls>>

-----------------------------------------------------------------------------
Next == \/ \E k \in Keys : \/ LookupHit(k) \/ Answer(k) \/ Superseded(k)
                           \/ Fallback(k) \/ LateAnswer(k)
        \/ \E S \in Requests, b \in BOOLEAN : Resolve(S, b) \/ Revalidate(S, b)
        \/ ResolveEnds \/ ResolveDeadline \/ RevalidateCommits \/ RevalidateFails \/ Close

Spec == Init /\ [][Next]_vars

-----------------------------------------------------------------------------
\* What the consumer sees of a key is what later stages will use of it, and remains so.  Two
\* things can part them: a producer left behind by a stage that was cut off, for the keys it
\* was resolving, and a revalidation that retried a key without its source, when it commits,
\* for a value that it did not resolve again.
VisiblePinned ==
    [][\A k \in Keys \ adrift :
          (resources[k] = None \/ memo[k] = resources[k]) =>
              \/ resources'[k] = None \/ memo'[k] = resources'[k]
              \/ call = "revalidate" /\ fellBack # {} /\ k \notin targets]_vars

\* A value shown once stays, through publications, expiry, failed and cancelled calls, until a
\* revalidation succeeds that was asked for the key or for something it depends on.
PinsStable ==
    [][\A k \in Held(resources) :
          resources'[k] # resources[k] =>
            /\ call = "revalidate" /\ Resolved
            /\ k \in requested \/ AllDepsOf[k] \cap requested # {}]_vars

\* A revalidation with force_refresh leaves no visible value that depends on the requested
\* keys, and was pinned with all its dependencies, on what the call set out to replace: each
\* of its dependencies has a version that this call obtained or had no reason to touch, hidden
\* intermediate ones included, though the cache changes meanwhile.
ForcedIsFresh ==
    [][forcing /\ RevalidateCommits =>
          \A k \in Held(resources) \cap pinned :
            AllDepsOf[k] \subseteq pinned /\ AllDepsOf[k] \cap requested # {} =>
              \A d \in DepsOf[k] : resources'[k].deps[d] \in Obtained[d]]_vars

\* What the docstring of revalidate says: derived values already pinned in the session are
\* refreshed transitively when they depend on a selected key.  The code does not keep this when
\* an intermediate value is not pinned: see the README.
RefreshedTransitively ==
    [][RevalidateCommits =>
          \A k \in Held(resources) : AllDepsOf[k] \cap requested # {} => k \in targets]_vars

\* What docs/architecture.md says: successful values are pinned.  The code drops the pin of a
\* visible value when a revalidation retries a key that the value turns out to depend on
\* through one that was not pinned before, and a producer left behind by a stage that was cut
\* off replaces it: see the README.
StaysPinned == \A k \in Held(resources) : memo[k] = resources[k]

\* What the docstring of SnapshotSession says: one logically consistent snapshot.  The code
\* does not keep this across stages, nor within a call that resolves a key more than once: see
\* the README.
SnapshotCoherent ==
    \A k \in Held(resources) : \A d \in DepsOf[k] \cap Held(resources) :
        resources[k].deps[d] = resources[d].ver
=============================================================================
