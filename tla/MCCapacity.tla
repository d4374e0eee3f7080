----------------------------- MODULE MCCapacity -----------------------------
(* Instances of Capacity for TLC. *)
EXTENDS Capacity, TLC

CONSTANTS c1, c2, c3, c4, g, s

\* Two calls of a source limited to one slot and two of an unlimited source over two global
\* slots: all four can meet at the global limiter, where one queues beside a free slot behind
\* another that has been granted the other slot and is yet to resume.
MixedSource == (c1 :> s) @@ (c2 :> s) @@ (c3 :> g) @@ (c4 :> g)
MixedLimit  == (g :> 2) @@ (s :> 1)
=============================================================================
