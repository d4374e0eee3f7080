-------------------------- MODULE CachePublication --------------------------
(***************************************************************************)
(* Everything that writes the shared cache at the same time:               *)
(* ResourcePublisher (cache/publisher.py) with its striped locks, the      *)
(* builder's source results (CacheAccess.set_many), readers and            *)
(* invalidations, over the cache of module MemoryCache.                    *)
(*                                                                         *)
(* A call is one publish_many, one invalidate_many of the publisher, or    *)
(* one write of source results.  It yields to the event loop while it      *)
(* waits for a stripe, after it has read the existing values, and while    *)
(* payloads are copied between two passes of set_many_if_newer.            *)
(***************************************************************************)
EXTENDS MemoryCache

CONSTANTS Calls,     \* one element per call; each runs once
          Kind,      \* "publish", "invalidate" or "source"
          Batch,     \* the call's values: a sequence of [key, rank, observed]
          Forced,    \* the calls with force=True
          ReplaceEqual, \* the calls with replace_equal=True
          Deps,      \* what a source derives the key from
          Stripes,   \* lock_stripes
          StripeOf,  \* hash(key) % lock_stripes
          Tolerance, \* ObservationPolicy.future_tolerance_seconds
          Deployments, \* [atomic, calls]: whether the cache has set_many_if_newer, and the
                     \* calls made of it
          ReadBatches, \* the key sequences readers ask for
          Dropped,   \* the key sets an operator invalidates in the cache itself
          MaxTime    \* bound of the model: the clock stops here

\* observed_at of an update that leaves it to the publisher.
Unset == -1

ASSUME PublicationAssumption ==
    /\ Kind \in [Calls -> {"publish", "invalidate", "source"}]
    /\ Batch \in [Calls -> Seq([key : CacheKeys, rank : Nat, observed : Nat \cup {Unset}])]
    /\ Forced \subseteq Calls /\ ReplaceEqual \subseteq Calls
    /\ Deps \in [CacheKeys -> SUBSET CacheKeys]
    /\ Stripes \in Nat /\ StripeOf \in [CacheKeys -> 1..Stripes]
    /\ Tolerance \in Nat /\ MaxTime \in Nat
    /\ Deployments \subseteq [atomic : BOOLEAN, calls : SUBSET Calls]
    /\ \A d \in Deployments : d.atomic \/ \A c \in d.calls : Kind[c] # "source"
    /\ ReadBatches \subseteq Seq(CacheKeys) /\ Dropped \subseteq SUBSET CacheKeys

VARIABLES deployed, \* the deployment
          phase,    \* where the call is
          held,     \* the stripes it holds
          values,   \* its candidates, by key, once they are prepared
          prepared, \* the keys whose candidate is copied for storage
          found,    \* the existing values the publisher read
          status,   \* the statuses it reports, by key
          delivered, \* the values a source call's request is answered with
          read      \* history: what the latest reader found

cacheVars == <<deployed, entries, older, now, phase, held, values, prepared, found, status,
               delivered, read>>

KeysOf(c) == {Batch[c][i].key : i \in DOMAIN Batch[c]}

IsEntry(v) == /\ v.version \in Calls /\ v.rank \in Nat /\ v.observed \in Nat
              /\ DOMAIN v.deps \subseteq CacheKeys

\* o orders the keys in S, one after the other.
IsOrderOf(o, S) ==
    /\ o \subseteq S \X S
    /\ \A x \in S : <<x, x>> \notin o
    /\ \A x, y \in S : x # y => <<x, y>> \in o \/ <<y, x>> \in o
    /\ \A x, y, z \in S : <<x, y>> \in o /\ <<y, z>> \in o => <<x, z>> \in o

CacheTypeOK ==
    /\ Cached \subseteq CacheKeys /\ \A k \in Cached : IsEntry(entries[k])
    /\ IsOrderOf(older, Cached)
    /\ IsFiniteSet(Cached) /\ Cardinality(Cached) <= MaxEntries
    /\ now \in 0..MaxTime /\ deployed \in Deployments
    /\ phase \in [Calls -> {"idle", "lock", "copy", "write", "report", "done"}]
    /\ held \in [Calls -> SUBSET (1..Stripes)]
    /\ \A c \in Calls : \A k \in DOMAIN values[c] : k \in KeysOf(c) /\ IsEntry(values[c][k])
    /\ prepared \in [Calls -> SUBSET CacheKeys]
    /\ \A c \in Calls : \A k \in DOMAIN found[c] : k \in KeysOf(c) /\ IsEntry(found[c][k])
    /\ \A c \in Calls : \A k \in DOMAIN status[c] :
          status[c][k] \in {"stored", "lower_authority", "older", "duplicate"}
    /\ \A c \in Calls : \A k \in DOMAIN delivered[c] : k \in KeysOf(c) /\ IsEntry(delivered[c][k])

CacheInit ==
    /\ deployed \in Deployments
    /\ entries = <<>> /\ older = {} /\ now = 0
    /\ phase = [c \in Calls |-> "idle"]
    /\ held = [c \in Calls |-> {}]
    /\ values = [c \in Calls |-> <<>>]
    /\ prepared = [c \in Calls |-> {}]
    /\ found = [c \in Calls |-> <<>>]
    /\ status = [c \in Calls |-> <<>>]
    /\ delivered = [c \in Calls |-> <<>>]
    /\ read = <<>>

-----------------------------------------------------------------------------
\* Plausible slips in the operators and actions below.
Bug_AnyStripe(c) == {StripeOf[k] : k \in KeysOf(c)} \ held[c]
Bug_NoRecheck(c, k) ==
    IF k \in prepared[c] THEN "stored" ELSE StatusOf(k, values[c][k], c \in Forced, c \in ReplaceEqual)
-----------------------------------------------------------------------------
\* The stripes of the call's keys.
StripesOf(c) == {StripeOf[k] : k \in KeysOf(c)}

\* _locked_keys takes the stripes of the call's keys in ascending order.
NextStripe(c) == {s \in StripesOf(c) \ held[c] : \A t \in StripesOf(c) \ held[c] : s <= t}

ReleaseStripes(c) == held' = [held EXCEPT ![c] = {}]

Observed(u, t) == IF u.observed = Unset THEN t ELSE u.observed

\* Of two updates of a key the i-th stands: it has the higher rank, then observation time, or
\* comes later (publish_many and _select_candidates agree on this).
Outranks(c, i, j, t) ==
    LET u == Batch[c][i]  v == Batch[c][j]
    IN  \/ u.rank > v.rank
        \/ u.rank = v.rank /\ Observed(u, t) > Observed(v, t)
        \/ u.rank = v.rank /\ Observed(u, t) = Observed(v, t) /\ i > j

\* The update of the batch that stands for key k.
Updates(c, k) == {i \in DOMAIN Batch[c] : Batch[c][i].key = k}
Chosen(c, k, t) == CHOOSE i \in Updates(c, k) : \A j \in Updates(c, k) \ {i} : Outranks(c, i, j, t)

\* The candidate of a call for a key.
Candidate(c, k, t, deps) ==
    LET u == Batch[c][Chosen(c, k, t)]
    IN  [version |-> c, rank |-> u.rank, observed |-> Observed(u, t), deps |-> deps]

\* The keys of the call's updates.
KeySeq(c) == [i \in DOMAIN Batch[c] |-> Batch[c][i].key]

Rest == <<deployed, now, values, prepared, found, status, delivered, read>>

Begin(c) ==
    /\ c \in deployed.calls /\ phase[c] = "idle" /\ Kind[c] # "source"
    /\ phase' = [phase EXCEPT ![c] = "lock"]
    /\ UNCHANGED <<entries, older, held, Rest>>

Lock(c) ==
    /\ phase[c] = "lock"
    /\ \E s \in NextStripe(c) :
          /\ \A d \in Calls : s \notin held[d]
          /\ held' = [held EXCEPT ![c] = @ \cup {s}]
    /\ UNCHANGED <<entries, older, phase, Rest>>

Locked(c) == phase[c] = "lock" /\ StripesOf(c) \subseteq held[c]

\* invalidate_many of the publisher, under the locks of its keys.
Invalidate(c) ==
    /\ Locked(c) /\ Kind[c] = "invalidate"
    /\ Drop(KeysOf(c))
    /\ ReleaseStripes(c)
    /\ phase' = [phase EXCEPT ![c] = "done"]
    /\ UNCHANGED Rest

\* An update dated too far ahead: the publication is refused as a whole.
RejectFuture(c) ==
    /\ Locked(c) /\ Kind[c] = "publish"
    /\ \E i \in DOMAIN Batch[c] : Batch[c][i].observed > now + Tolerance
    /\ ReleaseStripes(c)
    /\ phase' = [phase EXCEPT ![c] = "done"]
    /\ UNCHANGED <<entries, older, Rest>>

\* publish_many with its locks: choose the candidates and read the existing values, which
\* drops entries whose dependencies changed (no entry is too old for this reader).
ReadExisting(c) ==
    /\ Locked(c) /\ Kind[c] = "publish"
    /\ \A i \in DOMAIN Batch[c] : Batch[c][i].observed <= now + Tolerance
    /\ \E gone \in SUBSET Asked(KeySeq(c)) :
          /\ ReadMany(KeySeq(c), TRUE, gone)
          /\ found' = [found EXCEPT ![c] = Found(KeySeq(c), gone)]
    /\ values' = [values EXCEPT ![c] = [k \in KeysOf(c) |-> Candidate(c, k, now, <<>>)]]
    /\ phase' = [phase EXCEPT ![c] = IF deployed.atomic THEN "write" ELSE "copy"]
    /\ UNCHANGED <<deployed, now, held, prepared, status, delivered, read>>

\* A source result: a derived value carries the versions of the dependencies it used.
SourceReturns(c) ==
    /\ c \in deployed.calls /\ phase[c] = "idle" /\ Kind[c] = "source"
    /\ \A k \in KeysOf(c) : Deps[k] \subseteq Cached
    /\ values' = [values EXCEPT ![c] = [k \in KeysOf(c) |->
                     Candidate(c, k, now, [d \in Deps[k] |-> entries[d].version])]]
    /\ phase' = [phase EXCEPT ![c] = "write"]
    /\ UNCHANGED <<deployed, entries, older, now, held, prepared, found, status, delivered, read>>

\* The status of a candidate in the pass that runs now.
StatusNow(c, k) == StatusOf(k, values[c][k], c \in Forced, c \in ReplaceEqual)
Wanted(c) == {k \in DOMAIN values[c] : StatusNow(c, k) = "stored"}

\* A pass of set_many_if_newer that finds candidates it has not copied yet copies them and
\* comes back: the statuses are those of the next pass.
PrepareMore(c) ==
    /\ phase[c] = "write"
    /\ ~(Wanted(c) \subseteq prepared[c])
    /\ prepared' = [prepared EXCEPT ![c] = @ \cup Wanted(c)]
    /\ UNCHANGED <<deployed, entries, older, now, phase, held, values, found, status, delivered, read>>

\* A pass that has every copy it needs commits the whole batch under the lock.  A source
\* result that lost to an entry of higher authority is replaced by that entry in the answer.
CommitBatch(c) ==
    /\ phase[c] = "write"
    /\ Wanted(c) \subseteq prepared[c]
    /\ Commit(KeySeq(c), Wanted(c), values[c])
    /\ status' = [status EXCEPT ![c] = [k \in DOMAIN values[c] |-> StatusNow(c, k)]]
    /\ delivered' = IF Kind[c] # "source" THEN delivered
                    ELSE [delivered EXCEPT ![c] = [k \in DOMAIN values[c] |->
                             IF StatusNow(c, k) = "lower_authority" THEN entries[k]
                             ELSE values[c][k]]]
    /\ phase' = [phase EXCEPT ![c] = "report"]
    /\ UNCHANGED <<deployed, now, held, values, prepared, found, read>>

\* The same decision against the values read before (_ignored_status), for a cache that has
\* no set_many_if_newer: the candidates that are not ignored overwrite what is there.
LegacyStatus(c, k) ==
    IF k \in DOMAIN found[c]
    THEN WriteStatus(found[c][k], values[c][k], c \in Forced, c \in ReplaceEqual)
    ELSE "stored"

LegacyWrite(c) ==
    /\ phase[c] = "copy"
    /\ Commit(KeySeq(c), {k \in DOMAIN values[c] : LegacyStatus(c, k) = "stored"}, values[c])
    /\ status' = [status EXCEPT ![c] = [k \in DOMAIN values[c] |-> LegacyStatus(c, k)]]
    /\ phase' = [phase EXCEPT ![c] = "report"]
    /\ UNCHANGED <<deployed, now, held, values, prepared, found, delivered, read>>

\* The results are copied and the locks released.
Report(c) ==
    /\ phase[c] = "report"
    /\ ReleaseStripes(c)
    /\ phase' = [phase EXCEPT ![c] = "done"]
    /\ UNCHANGED <<entries, older, Rest>>

\* The caller is cancelled at one of its waits.
Cancel(c) ==
    /\ phase[c] \in {"lock", "copy", "write", "report"}
    /\ ReleaseStripes(c)
    /\ phase' = [phase EXCEPT ![c] = "done"]
    /\ UNCHANGED <<entries, older, Rest>>

\* get_many of a builder, under the freshness policies of the keys.
Read ==
    /\ \E keys \in ReadBatches : \E gone \in SUBSET Asked(keys) :
          ReadMany(keys, FALSE, gone) /\ read' = Found(keys, gone)
    /\ UNCHANGED <<deployed, now, phase, held, values, prepared, found, status, delivered>>

\* invalidate_matching, invalidate_namespace or clear of the cache itself.
InvalidateMatching ==
    /\ \E S \in Dropped : Drop(S)
    /\ UNCHANGED <<phase, held, Rest>>

Prune ==
    /\ Drop({k \in Cached : Expired(entries[k], k)})
    /\ UNCHANGED <<phase, held, Rest>>

Tick ==
    /\ now < MaxTime
    /\ now' = now + 1
    /\ UNCHANGED <<deployed, entries, older, phase, held, values, prepared, found, status, delivered, read>>

Step(c) ==
    \/ Lock(c) \/ Invalidate(c) \/ RejectFuture(c) \/ ReadExisting(c) \/ PrepareMore(c)
    \/ CommitBatch(c) \/ LegacyWrite(c) \/ Report(c)

CacheNext ==
    \/ \E c \in Calls : Begin(c) \/ SourceReturns(c) \/ Step(c) \/ Cancel(c)
    \/ Read \/ InvalidateMatching \/ Prune \/ Tick

CacheSpec == CacheInit /\ [][CacheNext]_cacheVars

-----------------------------------------------------------------------------
\* An entry is never replaced by one of lower authority, or of the same authority and an
\* older observation, however the copies, publications and source results interleave; only
\* force=True may do that.
NoRegression ==
    [][\A k \in Cached \cap Cached' :
          \/ entries'[k] = entries[k]
          \/ Precedes(entries[k], entries'[k])
          \/ entries'[k].version \in Forced]_cacheVars

\* What one read returns is consistent: a derived value comes with no other version of a
\* value it was derived from.
ReadsAreConsistent ==
    /\ CacheTypeOK
    /\ \A k \in DOMAIN read : \A d \in DOMAIN read[k].deps \cap DOMAIN read :
          read[d].version = read[k].deps[d]

\* The stripes never deadlock: while calls wait for them, some call that holds or waits for
\* stripes can go on, in whatever order the batches name their keys.
StripesNeverDeadlock ==
    (\E c \in Calls : phase[c] = "lock") =>
        \E c \in Calls :
            \/ held[c] # {} /\ phase[c] \in {"copy", "write", "report"}
            \/ Locked(c)
            \/ phase[c] = "lock" /\ \E s \in NextStripe(c) : \A d \in Calls : s \notin held[d]

\* What the README says of authority and freshness: FreshnessPolicy decides whether a stored
\* value is usable by a reader.  So an entry that answers a request in place of the source's
\* own value has not expired.  The code does not keep this: see the README.
DeliveredUsable ==
    [][\A c \in Calls : \A k \in DOMAIN delivered'[c] :
          delivered[c] # delivered'[c] /\ delivered'[c][k].version # c
             => ~Expired(delivered'[c][k], k)]_cacheVars
=============================================================================
