------------------------------ MODULE MCSession ------------------------------
(* Instances of Session for TLC. *)
EXTENDS Session, TLC

CONSTANTS x, d, e, f

\* e is derived from d, and d from x.
Chain == (x :> {}) @@ (d :> {x}) @@ (e :> {d})
Limits == (x :> 2) @@ (d :> 3) @@ (e :> 3)
Stages == {{x, e}, {d}}
Direct == {{x}, {d}}
Ends == {{x}, {e}}

\* e and f are both derived from d.
Fork == (x :> {}) @@ (d :> {x}) @@ (e :> {d}) @@ (f :> {d})
ForkLimits == (x :> 2) @@ (d :> 2) @@ (e :> 3) @@ (f :> 1)
ForkRequests == {{x, e, f}, {x, e}}

\* The third call is a forced revalidation, of a session in which nothing has failed or was cut
\* off before, and the third version of a key is given out to such a revalidation.
Smooth == errors = {} /\ adrift = {}
ThirdIfSmooth == /\ calls = 2 /\ calls' = 3 => forcing' /\ Smooth
                 /\ \A k \in Keys : version[k] = 2 /\ version'[k] = 3 => forcing /\ Smooth

\* No key fails and no stage is cut off: enough to see what a fallback does by itself.
Calm == Smooth /\ ~closed
=============================================================================
