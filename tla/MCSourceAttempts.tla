-------------------------- MODULE MCSourceAttempts --------------------------
(* Instances of SourceAttempts for TLC. *)
EXTENDS SourceAttempts, TLC

CONSTANTS a1, a2, a3, a4, i1, i2

\* A batch over two circuits, a derived attempt and a single one on the first circuit.
MixedGroups    == (a1 :> {i1, i2}) @@ (a2 :> {i1}) @@ (a3 :> {i1})
MixedDeadline  == (a1 :> 2) @@ (a2 :> 3) @@ (a3 :> NoDeadline)
MixedTransport == (a1 :> 1) @@ (a2 :> 0) @@ (a3 :> 0)
MixedResets    == {{i1}, {i1, i2}}

\* Four single attempts on one circuit.
SingleGroups    == [a \in {a1, a2, a3, a4} |-> {i1}]
SingleDeadline  == [a \in {a1, a2, a3, a4} |-> IF a = a1 THEN 2 ELSE NoDeadline]
SingleTransport == [a \in {a1, a2, a3, a4} |-> 0]
=============================================================================
