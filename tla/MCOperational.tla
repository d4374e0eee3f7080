--------------------------- MODULE MCOperational ---------------------------
(* Instance of Operational for TLC. *)
EXTENDS Operational, TLC

CONSTANTS a, b, c, d

Plain == [maxAge |-> {}, allowStale |-> TRUE, minRank |-> {}]

\* One key required and one optional; both must be recent, fresh and authoritative, which for
\* the optional one only the requirement demands, and both observed at about the same time.
Pair ==
    [required    |-> {a}, optional |-> {b},
     consistency |-> {[limit |-> 1, includeOptional |-> TRUE]},
     acceptance  |-> {[default |-> [maxAge |-> {1}, allowStale |-> FALSE, minRank |-> {1}],
                       rules |-> <<>>, requirements |-> {[keys |-> {a, b}, minimum |-> 2]},
                       includeOptional |-> FALSE]}]

\* An optional key with a rule of its own, and a required key without any policy.
Ruled ==
    [required    |-> {}, optional |-> {d}, consistency |-> {},
     acceptance  |-> {[default |-> Plain, rules |-> (d :> [Plain EXCEPT !.allowStale = FALSE]),
                       requirements |-> {}, includeOptional |-> FALSE]}]
Bare == [required |-> {c}, optional |-> {}, consistency |-> {}, acceptance |-> {}]

Requests == <<Pair, Ruled, Bare>>
Ttls == (a :> 2) @@ (b :> 1) @@ (c :> 1) @@ (d :> 1)

\* From a source; a stale fallback of a; an expired entry that supersedes a source's b.
Answer(lag, stale, rank) == [lag |-> lag, stale |-> stale, rank |-> rank]
Answers == (a :> {Answer(0, FALSE, 1), Answer(2, TRUE, 0)})
        @@ (b :> {Answer(0, FALSE, 1), Answer(2, FALSE, 2)})
        @@ (c :> {Answer(0, FALSE, 0)}) @@ (d :> {Answer(1, FALSE, 0)})

Chosen == [RiskReduction(1) EXCEPT !.onAcceptance = TRUE]
=============================================================================
