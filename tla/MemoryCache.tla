---------------------------- MODULE MemoryCache ----------------------------
(***************************************************************************)
(* The state of cache/memory.py (AsyncMemoryCache): the entries, their LRU *)
(* order, and the sections its methods run under the cache's lock.  No     *)
(* section awaits while it holds the lock, so each is one step; what a     *)
(* method does between two sections (copying payloads) is up to module     *)
(* CachePublication.  The statistics counters are left out.                *)
(***************************************************************************)
EXTENDS Integers, Sequences, FiniteSets

CONSTANTS CacheKeys,   \* ResourceKey values
          MaxEntries,  \* AsyncMemoryCache.max_entries
          MaxStale     \* FreshnessPolicy.max_stale_seconds, by key

ASSUME CacheAssumption == MaxEntries \in Nat \ {0} /\ MaxStale \in [CacheKeys -> Nat]

VARIABLES entries, \* the values, by key
          older,   \* the order of the OrderedDict: <<x, y>> when x was used before y
          now      \* clock.now()

\* A value is [version, rank, observed, deps]: SnapshotValue.version, .authority_rank,
\* .observed_at and .dependency_versions.
Cached == DOMAIN entries

-----------------------------------------------------------------------------
\* Plausible slips in the operators below.
Bug_NotChecked(es, k) == TRUE
-----------------------------------------------------------------------------
\* _write_status against an existing entry.
WriteStatus(previous, v, force, replaceEqual) ==
    CASE force                              -> "stored"
      [] v.rank < previous.rank             -> "lower_authority"
      [] v.rank > previous.rank             -> "stored"
      [] v.observed < previous.observed     -> "older"
      [] v.observed = previous.observed /\ ~replaceEqual -> "duplicate"
      [] OTHER                              -> "stored"

StatusOf(k, v, force, replaceEqual) ==
    IF k \in Cached THEN WriteStatus(entries[k], v, force, replaceEqual) ELSE "stored"

\* _candidate_precedes: v wins over u when both are in one batch.
Precedes(u, v) == v.rank > u.rank \/ (v.rank = u.rank /\ v.observed >= u.observed)

\* _dependencies_current_locked: every value that entry k was derived from is an entry of
\* es with the same version, and so on down.
DependenciesCurrent(es, k) ==
    \E S \in SUBSET DOMAIN es :
        /\ k \in S
        /\ \A x \in S : \A d \in DOMAIN es[x].deps :
              d \in S /\ es[d].version = es[x].deps[d]

\* dict.fromkeys(keys) has x before y: x is mentioned first.
Before(keys, x, y) == \E i \in DOMAIN keys : keys[i] = x /\ \A j \in 1..i : keys[j] # y

\* move_to_end of the keys in T in the order `keys' mentions them; S are the other keys.
MovedToEnd(keys, T, S) ==
    (older \cap (S \X S)) \cup (S \X T) \cup {p \in T \X T : Before(keys, p[1], p[2])}

\* _enforce_limit_locked: of the keys in C the least recently used go until the limit is kept.
\* What stays are the keys after which fewer than the limit come in the order o.
Kept(C, o) == {k \in C : Cardinality({x \in C : <<k, x>> \in o}) < MaxEntries}

Restricted(es, S) == [k \in DOMAIN es \cap S |-> es[k]]

\* invalidate_many, invalidate_matching, invalidate_namespace, clear, prune: keys go.
Drop(S) ==
    /\ entries' = Restricted(entries, CacheKeys \ S)
    /\ older' = older \cap ((Cached \ S) \X (Cached \ S))

Expired(v, k) == now - v.observed > MaxStale[k]

\* The entries get_many looks at when it comes to key k: the keys mentioned before it are
\* done, and those of them in `gone' dropped.
SeenAt(keys, k, gone) == Restricted(entries, {x \in CacheKeys : ~(x \in gone /\ Before(keys, x, k))})

\* The keys of the cache that `keys' mentions.
Asked(keys) == {k \in Cached : \E i \in DOMAIN keys : keys[i] = k}

\* The locked section of get_many: it drops the keys in `gone', whose dependencies changed or
\* which are too old, and finds the other entries among `keys', which count as used.  A reader
\* without an age limit (`ageless') finds entries of any age.
ReadMany(keys, ageless, gone) ==
    /\ \A k \in Asked(keys) :
          k \in gone <=> ~DependenciesCurrent(SeenAt(keys, k, gone), k)
                         \/ (~ageless /\ Expired(entries[k], k))
    /\ entries' = Restricted(entries, CacheKeys \ gone)
    /\ older' = MovedToEnd(keys, Asked(keys) \ gone, Cached \ Asked(keys))

Found(keys, gone) == [k \in Asked(keys) \ gone |-> entries[k]]

\* The commit of set_many_if_newer: of the keys `keys' mentions those in `stored' get their
\* value in vs, then the limit is enforced.
Commit(keys, stored, vs) ==
    LET C == Cached \cup stored
        o == MovedToEnd(keys, stored, Cached \ stored)
        K == Kept(C, o)
    IN  /\ older' = o \cap (K \X K)
        /\ entries' = [k \in K |-> IF k \in stored THEN vs[k] ELSE entries[k]]
=============================================================================
