------------------------- MODULE MCCachePublication -------------------------
(* Instance of CachePublication for TLC. *)
EXTENDS CachePublication, TLC

CONSTANTS a, b, d, p1, p2, p3, s1, s2, v1

Up(k, r, o) == [key |-> k, rank |-> r, observed |-> o]
MixedStale == [k \in CacheKeys |-> IF k = a THEN 0 ELSE 5]
MixedDeps  == [k \in CacheKeys |-> IF k = d THEN {a} ELSE {}]
TwoStripes == [k \in CacheKeys |-> IF k = a THEN 1 ELSE 2]
MixedReads == {<<d, a>>, <<a, d>>}

\* With an atomic conditional write: a publication with two updates of one key, a source
\* result with lower authority, and a derived value of the first key.  Without it:
\* publications that meet on both stripes in opposite orders, one of them forced, and an
\* invalidation.
MixedKind == [c \in Calls |-> CASE c \in {s1, s2} -> "source"
                                [] c = v1 -> "invalidate"
                                [] OTHER -> "publish"]
MixedBatch == (p1 :> <<Up(a, 1, 1), Up(b, 1, Unset), Up(a, 1, Unset)>>)
              @@ (s1 :> <<Up(a, 0, Unset), Up(b, 1, 1)>>)
              @@ (s2 :> <<Up(d, 0, Unset)>>)
              @@ (p2 :> <<Up(b, 0, Unset), Up(a, 0, Unset)>>)
              @@ (p3 :> <<Up(a, 0, 0), Up(a, 0, 2)>>)
              @@ (v1 :> <<Up(b, 0, 0)>>)
BothCaches == {[atomic |-> TRUE, calls |-> {p1, s1, s2}],
               [atomic |-> FALSE, calls |-> {p1, p2, p3, v1}]}
=============================================================================
