-------------------------- MODULE SingleFlightSpec --------------------------
(***************************************************************************)
(* What SingleFlight promises the calls of run_many, and nothing about     *)
(* producers, sources, memos or deadlines: a key has at most one owner, a  *)
(* call owns the keys of its own that nobody owned when it came, an owner  *)
(* gives all its keys up at once, and whoever waits for one of them is     *)
(* served then and never earlier.  A call may stop waiting, its keys stay  *)
(* owned.                                                                  *)
(***************************************************************************)
CONSTANTS Keys,   \* what is produced
          Calls,  \* those who ask
          NoCall  \* the owner of a key that has none

VARIABLES owner,   \* owner[k]: the call that produces k
          waiting  \* waiting[k]: the calls that wait for k

vars == <<owner, waiting>>

Init == owner = [k \in Keys |-> NoCall] /\ waiting = [k \in Keys |-> {}]

\* A call asks for S: it owns what nobody owned, and waits for all of it.
Ask(c, S) ==
    /\ \A k \in Keys : owner[k] # c /\ c \notin waiting[k]
    /\ owner' = [k \in Keys |-> IF k \in S /\ owner[k] = NoCall THEN c ELSE owner[k]]
    /\ waiting' = [k \in Keys |-> IF k \in S THEN waiting[k] \cup {c} ELSE waiting[k]]

\* An owner is done with all its keys.  Those who waited for one of them go on waiting for
\* their other keys, or get an error and wait no longer.
Serve(c) ==
    LET done   == {k \in Keys : owner[k] = c}
        served == UNION {waiting[k] : k \in done}
    IN  /\ done # {}
        /\ owner' = [k \in Keys |-> IF k \in done THEN NoCall ELSE owner[k]]
        /\ \E failed \in {{}, served} :
            waiting' = [k \in Keys |-> IF k \in done THEN {} ELSE waiting[k] \ failed]

\* A call stops waiting.
Leave(c) == waiting' = [k \in Keys |-> waiting[k] \ {c}] /\ UNCHANGED owner

Next == \E c \in Calls : (\E S \in SUBSET Keys : Ask(c, S)) \/ Serve(c) \/ Leave(c)

Spec == Init /\ [][Next]_vars
=============================================================================
