----------------------------- MODULE Resolution -----------------------------
(***************************************************************************)
(* How concurrent requests of one SnapshotBuilder share work: _resolve_many*)
(* and _resolve_owned_keys of orchestration/builder.py, the dependencies   *)
(* of derived sources (derive_one in source_executor.py) and SingleFlight  *)
(* (orchestration/singleflight.py).                                        *)
(*                                                                         *)
(* A frame is one running _resolve_many, a work is one running             *)
(* _resolve_owned_keys.  Both are named by a node <<request, ancestry>>:   *)
(* the ancestry is the path of derived keys that leads to them, and at     *)
(* most one frame and one work of a node run at a time.  A work that       *)
(* SingleFlight started runs in a task of its own (_produce) and goes on   *)
(* when the request that started it is cancelled.                          *)
(*                                                                         *)
(* A request may have a deadline.  Once it has passed, every operation     *)
(* that is bounded by it raises SnapshotDeadlineExceededError: reading and *)
(* writing the cache, source calls, copies.  Waiting for a key that some   *)
(* request produces is not bounded by it.                                  *)
(*                                                                         *)
(* No request has keys that it must refresh (session revalidation).  A     *)
(* cached value is fresh until it is forgotten: stale values, refreshes in *)
(* the background and the writes a cache refuses are left out.             *)
(***************************************************************************)
EXTENDS Integers, Sequences, SequencesExt

CONSTANTS Keys,        \* ResourceKey values
          Requests,    \* one element per build(); each has its own ResolutionRuntime
          Asked,       \* the keys a request asks for
          Sources,     \* self.sources in order of priority: [derived, keys]
          Deps,        \* DerivedSource.dependencies(key)
          Failing,     \* the keys whose source calls may fail
          Cancelled,   \* the requests that may be cancelled
          Timed,       \* the requests with a deadline
          MaxPath,     \* bound of the model: derived keys of a path
          Forgettable, \* the keys whose cache entries may be forgotten
          MaxForgets   \* bound of the model: cache entries that expire or are invalidated

DerivedKeys == UNION {Sources[n].keys : n \in {m \in DOMAIN Sources : Sources[m].derived}}

\* Each key is a dependency of the one before it and has none among itself and those before.
IsPath(p) ==
    \A j \in DOMAIN p : /\ j > 1 => p[j] \in Deps[p[j - 1]]
                        /\ \A i \in 1..j : p[i] \notin Deps[p[j]]

ASSUME ResolutionAssumption ==
    /\ Asked \in [Requests -> SUBSET Keys]
    /\ Sources \in Seq([derived : BOOLEAN, keys : SUBSET Keys])
    /\ Deps \in [Keys -> SUBSET Keys]
    /\ \A m, n \in DOMAIN Sources :   \* so that a path names one frame
          m # n /\ Sources[m].derived /\ Sources[n].derived
              => Sources[m].keys \cap Sources[n].keys = {}
    /\ Failing \subseteq Keys /\ Cancelled \subseteq Requests /\ Timed \subseteq Requests
    /\ Forgettable \subseteq Keys /\ MaxForgets \in Nat /\ MaxPath \in Nat
    /\ \A p \in [1..(MaxPath + 1) -> DerivedKeys] : ~IsPath(p)   \* MaxPath is no limit

VARIABLES request,  \* what became of the request
          memo,     \* ResolutionRuntime.memo, by request
          cache,    \* the shared cache
          flight,   \* SingleFlight._tasks: the node whose work owns the key
          frame,    \* the running frames, by node
          work,     \* the running works, by node
          expired,  \* the requests whose deadline has passed
          versions, \* SnapshotValue.version values given out so far
          forgets   \* cache entries forgotten so far

vars == <<request, memo, cache, flight, frame, work, expired, versions, forgets>>

\* A value is its version and the dependency versions it was derived from.
NoValue == [version |-> 0, deps |-> <<>>]
Failure == [version |-> -1, deps |-> <<>>]
NoNode  == <<>>
Nodes   == Requests \X UNION {[1..i -> Keys] : i \in 0..MaxPath}

Root(r) == <<r, <<>>>>
Path(n) == n[2]
IsRoot(n) == Path(n) = <<>>
Expired(n) == n[1] \in expired
Parent(n) == <<n[1], Front(n[2])>>
Child(n, k) == <<n[1], Append(n[2], k)>>
Prefix(n, i) == <<n[1], SubSeq(n[2], 1, i)>>
Without(f, n) == [m \in DOMAIN f \ {n} |-> f[m]]
With(f, n, v) == [m \in DOMAIN f \cup {n} |-> IF m = n THEN v ELSE f[m]]
Only(S, v) == [k \in Keys |-> IF k \in S THEN v ELSE NoValue]

\* local: the keys owned by the works that led here (local_owned).
NewFrame(keys, local) ==
    [state |-> "lookup", keys |-> keys, local |-> local, values |-> Only({}, NoValue)]
NewWork(keys, direct, local) ==
    [state |-> "select", owned |-> keys, direct |-> direct, local |-> local, source |-> 1,
     attempt |-> [k \in Keys |-> "none"], used |-> [k \in Keys |-> <<>>],
     result |-> Only({}, NoValue)]

IsValue(v) == v.version \in 0..versions \cup {-1} /\ DOMAIN v.deps \subseteq Keys

TypeOK ==
    /\ request \in [Requests -> {"new", "running", "done", "late", "cancelled"}]
    /\ \A r \in Requests, k \in Keys : IsValue(memo[r][k]) /\ memo[r][k] # Failure
    /\ \A k \in Keys : IsValue(cache[k]) /\ cache[k] # Failure
    /\ \A n \in DOMAIN frame :
          /\ n \in Nodes /\ frame[n].local \subseteq Keys
          /\ frame[n].state \in {"lookup", "split", "direct", "join"}
          /\ \A k \in Keys : IsValue(frame[n].values[k])
    /\ \A n \in DOMAIN work :
          /\ n \in Nodes /\ work[n].owned \cup work[n].local \subseteq Keys
          /\ work[n].state \in {"select", "attempt"}
          /\ work[n].attempt \in [Keys -> {"none", "fetching", "dependencies", "deriving",
                                           "ok", "failed"}]
          /\ \A k \in Keys : IsValue(work[n].result[k])
    /\ flight \in [Keys -> Nodes \cup {NoNode}] /\ expired \subseteq Timed

Init ==
    /\ request = [r \in Requests |-> "new"]
    /\ memo = [r \in Requests |-> Only({}, NoValue)]
    /\ cache = Only({}, NoValue)
    /\ flight = [k \in Keys |-> NoNode]
    /\ frame = <<>>
    /\ work = <<>>
    /\ expired = {}
    /\ versions = 0
    /\ forgets = 0

-----------------------------------------------------------------------------
\* The cache returns a derived value only when every value it was derived from is still the
\* cached one, and so on down.
Current(k) ==
    \E S \in SUBSET Keys :
        /\ k \in S
        /\ \A x \in S :
              /\ cache[x] # NoValue
              /\ \A d \in DOMAIN cache[x].deps :
                    d \in S /\ cache[d].version = cache[x].deps[d]

Missing(f) == {k \in f.keys : f.values[k] = NoValue}

\* Plausible slips in the operators below.
Bug_OwnAll(S) == S
Bug_NothingInherited(n) == {}
Bug_CompleteResolvedOnly(n, result) == {k \in work[n].owned : result[k] # Failure}
Bug_RaisesThroughAll(n) ==
    /\ work[n].state = "attempt"
    /\ \A k \in Keys : work[n].attempt[k] \in {"none", "ok", "failed"}
    /\ n[1] \in expired /\ \E k \in Keys : work[n].attempt[k] = "ok"
    /\ LET hit == {m \in DOMAIN frame : Missing(frame[m]) \cap work[n].owned # {}}
       IN  /\ frame' = [m \in {q \in DOMAIN frame : \A m \in hit : q[1] # m[1]} |-> frame[m]]
           /\ request' = [r \in Requests |-> IF \E m \in hit : m[1] = r THEN "late" ELSE request[r]]
    /\ work' = Without(work, n)
    /\ flight' = [k \in Keys |-> IF flight[k] = n THEN NoNode ELSE flight[k]]
    /\ UNCHANGED <<memo, cache, expired, versions, forgets>>
Bug_CancelsProducer(r) ==
    /\ r \in Cancelled
    /\ request[r] = "running"
    /\ request' = [request EXCEPT ![r] = "cancelled"]
    /\ frame' = [n \in {m \in DOMAIN frame : m[1] # r} |-> frame[n]]
    /\ work' = [n \in {m \in DOMAIN work : m[1] # r} |-> work[n]]
    /\ UNCHANGED <<memo, cache, flight, expired, versions, forgets>>
-----------------------------------------------------------------------------
\* local_owned for the frames of the dependencies.
LocalOwned(n) == work[n].local \cup work[n].owned

\* The frames of S raise: a request ends with the error, a derived source fails.  ws are the
\* works that are left.
Raise(S, ws) ==
    /\ frame' = [m \in DOMAIN frame \ S |-> frame[m]]
    /\ request' = [r \in Requests |-> IF Root(r) \in S THEN "late" ELSE request[r]]
    /\ work' = [m \in DOMAIN ws |-> [ws[m] EXCEPT !.attempt =
                    [k \in Keys |-> IF Child(m, k) \in S THEN "failed" ELSE @[k]]]]

\* The values of a frame go into the memo of its request, the errors do not.
Pin(n) ==
    memo' = [memo EXCEPT ![n[1]] = [k \in Keys |->
                 IF frame[n].values[k] \notin {NoValue, Failure} THEN frame[n].values[k]
                 ELSE @[k]]]

\* run_many, under its lock: the keys nobody is producing become the caller's own.
Unreserved(S) == {k \in S : flight[k] = NoNode}

\* run_many for the keys that are still missing: join their futures, and start a producer
\* for the ones that are unreserved.  f is the frame of node n as it stands, ws the works.
RunMany(n, f, fl, ws) ==
    LET shared == Missing(f)
        owned  == Unreserved(shared)
    IN  /\ flight' = [k \in Keys |-> IF k \in owned THEN n ELSE fl[k]]
        /\ frame' = [frame EXCEPT ![n] = [f EXCEPT !.state = "join"]]
        /\ work' = IF owned = {} THEN ws ELSE With(ws, n, NewWork(owned, FALSE, f.local))

\* build() calls _resolve_many for the keys it was asked for.
Build(r) ==
    /\ request[r] = "new"
    /\ request' = [request EXCEPT ![r] = "running"]
    /\ frame' = With(frame, Root(r), NewFrame(Asked[r], {}))
    /\ UNCHANGED <<memo, cache, flight, work, expired, versions, forgets>>

\* The keys of a frame that its request has not pinned.
Unpinned(n) == {k \in frame[n].keys : memo[n[1]][k] = NoValue}

\* _resolve_many reads the memo and, for the other keys, the cache.
Lookup(n) ==
    /\ frame[n].state = "lookup"
    /\ ~Expired(n) \/ Unpinned(n) = {}
    /\ frame' = [frame EXCEPT ![n] = [@ EXCEPT !.state = "split", !.values =
          [k \in Keys |-> CASE k \notin frame[n].keys  -> NoValue
                            [] k \notin Unpinned(n)    -> memo[n[1]][k]
                            [] k \in Unpinned(n) /\ Current(k) -> cache[k]
                            [] OTHER                   -> NoValue]]]
    /\ UNCHANGED <<request, memo, cache, flight, work, expired, versions, forgets>>

\* The deadline has passed before the cache was read, or before the values that were found
\* could all be copied.
LookupRaises(n) ==
    LET found == {k \in Unpinned(n) : frame[n].values[k] # NoValue}
    IN  /\ Expired(n)
        /\ \/ frame[n].state = "lookup" /\ Unpinned(n) # {} /\ UNCHANGED memo
           \/ /\ frame[n].state = "split"
              /\ \E S \in SUBSET found \ {found} :
                    memo' = [memo EXCEPT ![n[1]] =
                                [k \in Keys |-> IF k \in S THEN frame[n].values[k] ELSE @[k]]]
        /\ Raise({n}, work)
        /\ UNCHANGED <<cache, flight, expired, versions, forgets>>

\* It pins what it found and splits the rest: keys its own resolution tree already owns are
\* resolved directly, before the others go through SingleFlight.
Split(n) ==
    LET f      == frame[n]
        direct == Missing(f) \cap f.local
    IN  /\ f.state = "split"
        /\ ~Expired(n) \/ \A k \in Unpinned(n) : f.values[k] = NoValue
        /\ Pin(n)
        /\ IF direct = {}
           THEN RunMany(n, f, flight, work)
           ELSE /\ frame' = [frame EXCEPT ![n] = [@ EXCEPT !.state = "direct"]]
                /\ work' = With(work, n, NewWork(direct, TRUE, f.local))
                /\ UNCHANGED flight
        /\ UNCHANGED <<request, cache, expired, versions, forgets>>

\* All keys have a result.  The values are pinned and returned to the request, or to the
\* derived source that asked; the source fails if one of its dependencies did.  Both copy
\* what they got, and fail if the deadline has passed.
Return(n) ==
    LET f == frame[n]
        k == Last(Path(n))
    IN  /\ f.state = "join"
        /\ Missing(f) = {}
        /\ Pin(n)
        /\ frame' = Without(frame, n)
        /\ IF IsRoot(n)
           THEN /\ request' = [request EXCEPT ![n[1]] = IF Expired(n) THEN "late" ELSE "done"]
                /\ UNCHANGED work
           ELSE /\ work' = [work EXCEPT ![Parent(n)] = [@ EXCEPT
                      !.attempt[k] = IF Expired(n) \/ \E d \in f.keys : f.values[d] = Failure
                                     THEN "failed" ELSE "deriving",
                      !.used[k] = [d \in f.keys |-> f.values[d].version]]]
                /\ UNCHANGED request
        /\ UNCHANGED <<cache, flight, expired, versions, forgets>>

\* The keys of a work without a result, and those among them that the memo has by now.
Open(n) == {k \in work[n].owned : work[n].result[k] = NoValue}
Pinned(n) == {k \in Open(n) : memo[n[1]][k] # NoValue}
Candidates(n, s) == (Open(n) \ Pinned(n)) \cap Sources[s].keys
Useful(n) == {s \in work[n].source..Len(Sources) : Candidates(n, s) # {}}

WithPinned(n) ==
    [k \in Keys |-> IF k \in Pinned(n) THEN memo[n[1]][k] ELSE work[n].result[k]]

\* The dependencies of a derived key lead back to a key of the path.
IsCycle(n, k) == Deps[k] \cap (ToSet(Path(n)) \cup {k}) # {}

\* _resolve_owned_keys goes to the next source that supports an unresolved key and attempts
\* all such keys at once: base sources are called, derived ones first ask for their
\* dependencies, each in a frame of its own.  No base source is called after the deadline.
SelectSource(n) ==
    \E s \in Useful(n) :
    LET cand == Candidates(n, s)
        asks == {k \in cand : Sources[s].derived /\ ~IsCycle(n, k)}
    IN  /\ work[n].state = "select"
        /\ \A t \in Useful(n) : s <= t
        /\ work' = [work EXCEPT ![n] = [@ EXCEPT
                        !.state = "attempt", !.source = s, !.result = WithPinned(n),
                        !.attempt = [k \in Keys |->
                            IF k \notin cand THEN "none"
                            ELSE IF k \in asks THEN "dependencies"
                            ELSE IF Sources[s].derived \/ Expired(n) THEN "failed"
                            ELSE "fetching"]]]
        /\ frame' = LET asked == {Child(n, k) : k \in asks}
                    IN  [m \in DOMAIN frame \cup asked |->
                            IF m \in asked THEN NewFrame(Deps[Last(Path(m))], LocalOwned(n))
                            ELSE frame[m]]
        /\ UNCHANGED <<request, memo, cache, flight, expired, versions, forgets>>

\* A source call ends; only the keys in Failing may fail, and any call that overruns.
CallEnds(n, k) ==
    /\ work[n].attempt[k] \in {"fetching", "deriving"}
    /\ \E outcome \in {"ok"} \cup (IF k \in Failing \/ Expired(n) THEN {"failed"} ELSE {}) :
          work' = [work EXCEPT ![n] = [@ EXCEPT !.attempt[k] = outcome]]
    /\ UNCHANGED <<request, memo, cache, flight, frame, expired, versions, forgets>>

\* The attempts of the source are over: each payload becomes a value with a version of its
\* own and is pinned.
Got(n) == {k \in Keys : work[n].attempt[k] = "ok"}
Payload(n, k) == [version |-> versions + 1, deps |-> work[n].used[k]]
Put(n, values) == [k \in Keys |-> IF k \in Got(n) THEN Payload(n, k) ELSE values[k]]
AcceptPayloads(n) ==
    /\ work[n].state = "attempt"
    /\ \A k \in Keys : work[n].attempt[k] \in {"none", "ok", "failed"}
    /\ versions' = versions + (IF Got(n) = {} THEN 0 ELSE 1)
    /\ memo' = [memo EXCEPT ![n[1]] = Put(n, @)]

\* The values are written to the cache, and the next source is up.
Accept(n) ==
    /\ AcceptPayloads(n)
    /\ ~Expired(n) \/ Got(n) = {}
    /\ cache' = Put(n, cache)
    /\ work' = [work EXCEPT ![n] = [@ EXCEPT !.state = "select", !.source = work[n].source + 1,
                                             !.attempt = [k \in Keys |-> "none"],
                                             !.result = Put(n, work[n].result),
                                             !.used = [k \in Keys |-> <<>>]]]
    /\ UNCHANGED <<request, flight, frame, expired, forgets>>

\* The frames that wait for a key of S.
Waiting(S) ==
    {m \in DOMAIN frame : frame[m].state = "join" /\ Missing(frame[m]) \cap S # {}}

\* The deadline passes before or during the write, which is cut off or not.  The work raises:
\* a producer takes all its keys out of SingleFlight and sets the exception on their futures,
\* for whoever joined them; a work that ran directly ends its frame.
AcceptRaises(n) ==
    /\ AcceptPayloads(n)
    /\ Expired(n) /\ Got(n) # {}
    /\ cache' \in {cache, Put(n, cache)}
    /\ Raise(IF work[n].direct THEN {n} ELSE Waiting(work[n].owned), Without(work, n))
    /\ flight' = [k \in Keys |-> IF flight[k] = n THEN NoNode ELSE flight[k]]
    /\ UNCHANGED <<expired, forgets>>

\* The futures _produce completes, for every key it owns.
Completed(n, result) == work[n].owned

\* No source is left: the keys without a value fail.  A producer takes its keys out of
\* SingleFlight and sets their futures, for all the frames that joined them; a work that ran
\* directly hands its results to its own frame, which goes on with the other keys.
Complete(n) ==
    LET w      == work[n]
        result == [k \in Keys |-> IF k \in Open(n) \ Pinned(n) THEN Failure
                                  ELSE WithPinned(n)[k]]
        done   == Completed(n, result)
        rest   == Without(work, n)
        Fill(f) == [f EXCEPT !.values =
                       [k \in Keys |-> IF k \in Missing(f) \cap done THEN result[k] ELSE @[k]]]
    IN  /\ w.state = "select"
        /\ Useful(n) = {}
        /\ IF w.direct
           THEN RunMany(n, Fill(frame[n]), flight, rest)
           ELSE /\ flight' = [k \in Keys |-> IF k \in done THEN NoNode ELSE flight[k]]
                /\ frame' = [m \in DOMAIN frame |->
                                IF frame[m].state = "join" THEN Fill(frame[m]) ELSE frame[m]]
                /\ work' = rest
        /\ UNCHANGED <<request, memo, cache, expired, versions, forgets>>

\* The task of a request is cancelled.  Its frame goes; asyncio.shield keeps the futures it
\* waited for, and the producers run on.
Cancel(r) ==
    /\ r \in Cancelled
    /\ request[r] = "running"
    /\ request' = [request EXCEPT ![r] = "cancelled"]
    /\ frame' = Without(frame, Root(r))
    /\ UNCHANGED <<memo, cache, flight, work, expired, versions, forgets>>

\* The deadline of a request passes, also of one whose producers run on without it.
Expire(r) ==
    /\ r \in Timed \ expired /\ request[r] # "new"
    /\ expired' = expired \cup {r}
    /\ UNCHANGED <<request, memo, cache, flight, frame, work, versions, forgets>>

\* A cache entry expires, is invalidated or evicted.
Forget(k) ==
    /\ k \in Forgettable /\ cache[k] # NoValue
    /\ forgets < MaxForgets
    /\ cache' = [cache EXCEPT ![k] = NoValue]
    /\ forgets' = forgets + 1
    /\ UNCHANGED <<request, memo, flight, frame, work, expired, versions>>

FrameStep(n) == Lookup(n) \/ LookupRaises(n) \/ Split(n) \/ Return(n)
WorkStep(n) == \/ SelectSource(n) \/ \E k \in Keys : CallEnds(n, k)
               \/ Accept(n) \/ AcceptRaises(n) \/ Complete(n)

Run == (\E n \in DOMAIN frame : FrameStep(n)) \/ (\E n \in DOMAIN work : WorkStep(n))

Next == (\E r \in Requests : Build(r) \/ Cancel(r) \/ Expire(r)) \/ Run \/ (\E k \in Keys : Forget(k))

Spec == Init /\ [][Next]_vars

\* The event loop keeps running the tasks that can run, and every source call ends.  No
\* deadline has to pass.
FairSpec == Spec /\ WF_vars(Run)

-----------------------------------------------------------------------------
\* No reservation is orphaned and none is lost: a key is reserved exactly while the producer
\* that reserved it runs and owns it, also after the request that started it was cancelled.
FlightsHaveProducers ==
    \A k \in Keys :
        /\ flight[k] # NoNode => flight[k] \in DOMAIN work
        /\ \A n \in DOMAIN work : flight[k] = n <=> ~work[n].direct /\ k \in work[n].owned

\* The derived keys that lead to n, of the request or of a producer it started, all still wait
\* for their dependencies.
Awaited(n) == \A i \in 1..Len(Path(n)) : Prefix(n, i) \in DOMAIN frame

\* Single-flight: while a source is called or dependencies are gathered for a key, the key is
\* reserved by the request that does it, so no two requests acquire a key at the same time.
\* Only a producer that nobody waits for any more may go on acquiring, for its dependencies,
\* keys that the producers above it had reserved.
OneRequestAcquires ==
    \A n \in DOMAIN work, k \in Keys :
        work[n].attempt[k] # "none" /\ Awaited(n) => flight[k] # NoNode /\ flight[k][1] = n[1]

\* Whoever joined a future is served: a frame waits for a key only while it is reserved.
JoinedKeysAreReserved ==
    \A n \in DOMAIN frame :
        frame[n].state = "join" => \A k \in Missing(frame[n]) : flight[k] # NoNode

\* Reservations, the producers that owe them, the source calls made for them and the requests
\* that wait for them match.
ReservationsMatch ==
    TypeOK /\ FlightsHaveProducers /\ OneRequestAcquires /\ JoinedKeysAreReserved

\* Resolution implements the single-flight promise: whatever is cancelled, fails or expires,
\* a key has one owner at a time, and all who wait for it are served when that owner is done.
Flights == INSTANCE SingleFlightSpec WITH
               Calls <- Nodes, NoCall <- NoNode, owner <- flight,
               waiting <- [k \in Keys |-> Waiting({k})]

SharedByOneFlight == Flights!Spec

\* A deadline reaches beyond its own request only through single-flight: a request ends with
\* SnapshotDeadlineExceededError only if its own deadline has passed, or if a request whose
\* deadline has passed was just producing a key it had itself asked for.  A dependency lost
\* that way is a failure of the derived source and goes no further.
DeadlinesContained ==
    [][\A r \in Requests :
          request[r] = "running" /\ request'[r] = "late" =>
              \/ r \in expired
              \/ \E k \in Asked[r] : flight[k] # NoNode /\ Expired(flight[k]) /\ flight'[k] = NoNode]_vars

\* A reservation always ends, also when nobody waits for it any more.
ReservationsEnd == \A k \in Keys : flight[k] # NoNode ~> flight[k] = NoNode

\* A request returns unless it is cancelled, whatever fails, expires or is cancelled around
\* it: also one that has joined keys whose producer runs into the deadline of its own request.
RequestsReturn == \A r \in Requests : request[r] = "running" ~> request[r] # "running"

\* What docs/architecture.md says of derived keys that share a base key: they share one
\* acquisition.  The code does not keep this for a base key that is also requested: see the
\* README.
SharedAcquisition ==
    \A k \in Keys, n, m \in DOMAIN work :
        work[n].attempt[k] = "fetching" /\ work[m].attempt[k] = "fetching" => n = m

\* What the README says of overlapping requests: single-flight per key.  The code does not keep
\* this for a producer that nobody waits for any more, two derived keys down: see the README.
OneRequestFetches ==
    \A k \in Keys, n, m \in DOMAIN work :
        work[n].attempt[k] = "fetching" /\ work[m].attempt[k] = "fetching" => n[1] = m[1]
=============================================================================
