------------------------------ MODULE SlotPool ------------------------------
(***************************************************************************)
(* What bounded pools of slots promise their clients, and nothing about    *)
(* how: at most Size[p] clients hold a slot of pool p, those who have to   *)
(* wait are served in the order they came, nobody overtakes them, a slot   *)
(* given back is passed on while somebody waits, and whoever waits may     *)
(* withdraw.  Several pools may change in one step.                        *)
(*                                                                         *)
(* The limiters of Capacity implement pools of this kind, and so do the    *)
(* copy threads of PayloadCopies, whatever tasks, callbacks and            *)
(* cancellations they do it with.                                          *)
(***************************************************************************)
EXTENDS Naturals, Sequences, FiniteSets

CONSTANTS Pools, Clients, Size

VARIABLES holders,  \* holders[p]: the clients that have a slot
          queue     \* queue[p]: those that wait for one, first come first

vars == <<holders, queue>>

Waiting(p) == {queue[p][n] : n \in DOMAIN queue[p]}

Init == holders = [p \in Pools |-> {}] /\ queue = [p \in Pools |-> <<>>]

Becomes(p, holding, waiting) == holders'[p] = holding /\ queue'[p] = waiting

Free(p) == Cardinality(holders[p]) < Size[p]

\* A client takes a free slot, but only if nobody waits for one.
Take(p, c) ==
    /\ c \notin holders[p] \cup Waiting(p) /\ queue[p] = <<>> /\ Free(p)
    /\ Becomes(p, holders[p] \cup {c}, <<>>)

\* A client waits behind those who already do.  It may have to although a slot is free: one
\* that has been given a slot may not have taken notice of it yet.  It never has to when
\* nobody has a slot.
Line(p, c) ==
    /\ c \notin holders[p] \cup Waiting(p) /\ holders[p] # {}
    /\ Becomes(p, holders[p], Append(queue[p], c))

\* A free slot goes to the first who waits.
Serve(p) ==
    /\ queue[p] # <<>> /\ Free(p)
    /\ Becomes(p, holders[p] \cup {Head(queue[p])}, Tail(queue[p]))

\* Clients that wait withdraw; the others keep their order: f says where they stood.
Withdraw(p) ==
    \E n \in 0..Len(queue[p]) : \E f \in [1..n -> DOMAIN queue[p]] :
        /\ \A i, j \in 1..n : i < j => f[i] < f[j]
        /\ Becomes(p, holders[p], [i \in 1..n |-> queue[p][f[i]]])

\* A slot that is given back goes to the first who waits.
Release(p, c) ==
    /\ c \in holders[p]
    /\ IF queue[p] = <<>>
       THEN Becomes(p, holders[p] \ {c}, <<>>)
       ELSE Becomes(p, (holders[p] \ {c}) \cup {Head(queue[p])}, Tail(queue[p]))

\* Every pool makes one move, or none: nobody of it withdraws.
Next ==
    \A p \in Pools : \/ \E c \in Clients : Take(p, c) \/ Line(p, c) \/ Release(p, c)
                     \/ Serve(p) \/ Withdraw(p)

Spec == Init /\ [][Next]_vars
=============================================================================
