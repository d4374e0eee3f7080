---------------------------- MODULE MCResolution ----------------------------
(* Instances of Resolution for TLC. *)
EXTENDS Resolution, TLC

CONSTANTS d, e, x, y, r1, r2, r3

Base    == [derived |-> FALSE, keys |-> {x, y}]
Derived == [derived |-> TRUE, keys |-> {d, e}]
BaseFirst    == <<Base, Derived>>
DerivedFirst == <<Derived, Base>>
\* A last source that derives y from itself, which is a cycle.
WithCycle    == <<Derived, Base, [derived |-> TRUE, keys |-> {y}]>>

\* A chain of derived keys with a base key at either end, asked for by two requests, each
\* together with one of the base keys.
ChainDeps  == (d :> {e, y}) @@ (e :> {x}) @@ (x :> {}) @@ (y :> {y})
ChainAsked == (r1 :> {d, x}) @@ (r2 :> {d, y})

\* The chain, and requests for the base keys alone.
AloneAsked == (r1 :> {d, x}) @@ (r2 :> {y}) @@ (r3 :> {x})

\* Each request asks for a derived key and for the base key of the other one.
CrossedDeps  == (d :> {y}) @@ (e :> {x}) @@ (x :> {}) @@ (y :> {})
CrossedAsked == (r1 :> {d, x}) @@ (r2 :> {e, y})

\* Two derived keys that depend on each other, asked for by two requests.
CyclicDeps  == (d :> {e}) @@ (e :> {d}) @@ (x :> {}) @@ (y :> {})
CyclicAsked == (r1 :> {d}) @@ (r2 :> {e})

\* Two derived keys over one base key, asked for together with it.
SharedDeps  == (d :> {x}) @@ (e :> {x}) @@ (x :> {}) @@ (y :> {})
SharedAsked == (r1 :> {d, e, x})
=============================================================================
