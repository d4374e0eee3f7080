-------------------------- MODULE Resolution_proofs --------------------------
(***************************************************************************)
(* For every set of requests, keys, sources and dependencies, whatever is  *)
(* cancelled, fails or expires: reservations and producers match, whoever  *)
(* joins a key is served, SingleFlightSpec is implemented, and a deadline  *)
(* reaches other requests only through a key they joined.                  *)
(***************************************************************************)
EXTENDS Resolution, TLAPS

\* Nodes without the bound on their length.
AnyNode == Requests \X Seq(Keys)

\* m is Child(n, k) or lies below it.
Below(m, n, k) ==
    /\ m[1] = n[1] /\ Len(m[2]) > Len(n[2])
    /\ \A i \in 1..Len(n[2]) : m[2][i] = n[2][i]
    /\ m[2][Len(n[2]) + 1] = k

Live == DOMAIN frame \cup DOMAIN work

\* Nothing runs, or is left running, below Child(n, k).
Fresh(n, k) == \A m \in Live : ~Below(m, n, k)

Attempts == {"none", "fetching", "dependencies", "deriving", "ok", "failed"}

IsFrame(f) ==
    /\ DOMAIN f = {"state", "keys", "local", "values"}
    /\ f.state \in {"lookup", "split", "direct", "join"}
    /\ f.keys \subseteq Keys /\ f.local \subseteq Keys
    /\ f.values = [k \in Keys |-> f.values[k]]

IsWork(w) ==
    /\ DOMAIN w = {"state", "owned", "direct", "local", "source", "attempt", "used", "result"}
    /\ w.state \in {"select", "attempt"} /\ w.direct \in BOOLEAN /\ w.source \in Nat \ {0}
    /\ w.owned \subseteq Keys /\ w.owned # {} /\ w.local \subseteq Keys
    /\ w.attempt \in [Keys -> Attempts]
    /\ w.used = [k \in Keys |-> w.used[k]] /\ w.result = [k \in Keys |-> w.result[k]]

Shape ==
    /\ request \in [Requests -> {"new", "running", "done", "late", "cancelled"}]
    /\ flight \in [Keys -> AnyNode \cup {NoNode}]
    /\ frame = [n \in DOMAIN frame |-> frame[n]] /\ DOMAIN frame \subseteq AnyNode
    /\ work = [n \in DOMAIN work |-> work[n]] /\ DOMAIN work \subseteq AnyNode
    /\ \A n \in DOMAIN frame : IsFrame(frame[n])
    /\ \A n \in DOMAIN work : IsWork(work[n])
    /\ expired \subseteq Timed

\* Values carry versions that were given out; the memo, the cache and what is found in them
\* are no failures.
ValuesOK ==
    /\ versions \in Nat
    /\ memo = [r \in Requests |-> [k \in Keys |-> memo[r][k]]]
    /\ cache = [k \in Keys |-> cache[k]]
    /\ \A r \in Requests, k \in Keys : IsValue(memo[r][k]) /\ memo[r][k] # Failure
    /\ \A k \in Keys : IsValue(cache[k]) /\ cache[k] # Failure
    /\ \A n \in DOMAIN frame, k \in Keys :
          /\ IsValue(frame[n].values[k])
          /\ frame[n].state = "split" => frame[n].values[k] # Failure
    /\ \A n \in DOMAIN work, k \in Keys :
          IsValue(work[n].result[k]) /\ DOMAIN work[n].used[k] \subseteq Keys

\* A node is a path of derived keys without a cycle, and what runs there is for the
\* dependencies of its last key, or for what the request asked.
WhatFor(n) == IF n[2] = <<>> THEN Asked[n[1]] ELSE Deps[n[2][Len(n[2])]]
PathsOK ==
    /\ \A n \in Live : IsPath(n[2]) /\ n[2] \in Seq(DerivedKeys)
    /\ \A n \in DOMAIN frame : frame[n].keys \subseteq WhatFor(n)
    /\ \A n \in DOMAIN work : work[n].owned \subseteq WhatFor(n)

\* A frame of dependencies runs exactly while the attempt that asked for them waits.
ParentsWait ==
    /\ \A n \in DOMAIN work, k \in Keys :
          work[n].attempt[k] = "dependencies" <=> Child(n, k) \in DOMAIN frame
    /\ \A m \in DOMAIN frame : m[2] # <<>> => \E n \in DOMAIN work, k \in Keys : m = Child(n, k)
    /\ \A n \in DOMAIN work, k \in Keys :
          work[n].attempt[k] # "none" => work[n].state = "attempt" /\ k \in work[n].owned

\* A direct work and its frame belong together; a frame has no work before it has split.
FrameAndWork ==
    /\ \A n \in DOMAIN frame :
          /\ frame[n].state \in {"lookup", "split"} => n \notin DOMAIN work
          /\ frame[n].state = "direct" => n \in DOMAIN work /\ work[n].direct
    /\ \A n \in DOMAIN work :
          work[n].direct => /\ n \in DOMAIN frame /\ frame[n].state = "direct"
                            /\ work[n].owned \subseteq work[n].local

\* No derived source has been up for key k of work n yet.
Untried(n, k) ==
    \A s \in DOMAIN Sources : Sources[s].derived /\ k \in Sources[s].keys =>
        s > work[n].source \/ (s = work[n].source /\ work[n].state = "select")

\* A node is used once: where a frame is about to be created nothing runs, nor anything that
\* an earlier frame of the same node could have left behind.
UsedOnce ==
    /\ \A n \in Live : request[n[1]] # "new"
    /\ \A n \in DOMAIN frame, k \in Keys : frame[n].state \in {"lookup", "split"} => Fresh(n, k)
    /\ \A n \in DOMAIN frame, k \in Keys :
          frame[n].state = "direct" /\ k \notin work[n].owned => Fresh(n, k)
    /\ \A n \in DOMAIN work : \A k \in work[n].owned : Untried(n, k) => Fresh(n, k)

\* As long as those who asked still wait, the keys that were owned on the way down are still
\* reserved, by a work that lies above.
Inherited ==
    /\ \A n \in DOMAIN frame : Awaited(n) =>
          \A k \in frame[n].local : flight[k] \in DOMAIN work /\ \E j \in Keys : Below(n, flight[k], j)
    /\ \A n \in DOMAIN work : Awaited(n) =>
          \A k \in work[n].local : flight[k] \in DOMAIN work /\ \E j \in Keys : Below(n, flight[k], j)

\* The inductive invariant.
IInv == /\ Shape /\ ValuesOK /\ PathsOK /\ ParentsWait /\ FrameAndWork /\ UsedOnce
        /\ FlightsHaveProducers /\ JoinedKeysAreReserved /\ Inherited

-----------------------------------------------------------------------------
\* The nodes.  NoNode is none of them, and the child of a node is one.
LEMMA NoNodeIsNone == NoNode \notin AnyNode
BY DEF NoNode, AnyNode

LEMMA RootIsNode ==
    ASSUME NEW r \in Requests
    PROVE  /\ Root(r) \in AnyNode /\ Root(r)[1] = r /\ Root(r)[2] = <<>> /\ Len(Root(r)[2]) = 0
           /\ \A n \in AnyNode : n[2] = <<>> /\ n[1] = r => n = Root(r)
<1>1. <<>> \in Seq(Keys) /\ Len(<<>>) = 0
  OBVIOUS
<1>2. \A n \in AnyNode : n = <<n[1], n[2]>>
  BY DEF AnyNode
<1>3. Root(r)[1] = r /\ Root(r)[2] = <<>>
  BY DEF Root
<1>4. Root(r) \in AnyNode
  BY <1>1 DEF Root, AnyNode
<1>5. Root(r) = <<r, <<>>>>
  BY DEF Root
<1> QED BY <1>1, <1>2, <1>3, <1>4, <1>5

LEMMA ChildIsNode ==
    ASSUME NEW n \in AnyNode, NEW k \in Keys
    PROVE  /\ Child(n, k) \in AnyNode /\ Child(n, k)[1] = n[1]
           /\ Child(n, k)[2] = Append(n[2], k)
           /\ Len(Child(n, k)[2]) = Len(n[2]) + 1 /\ Child(n, k)[2] # <<>>
           /\ Child(n, k)[2][Len(n[2]) + 1] = k
           /\ \A i \in 1..Len(n[2]) : Child(n, k)[2][i] = n[2][i]
<1>1. n[1] \in Requests /\ n[2] \in Seq(Keys) /\ Len(n[2]) \in Nat
  BY DEF AnyNode
<1>2. /\ Append(n[2], k) \in Seq(Keys) /\ Len(Append(n[2], k)) = Len(n[2]) + 1
      /\ Append(n[2], k)[Len(n[2]) + 1] = k
      /\ \A i \in 1..Len(n[2]) : Append(n[2], k)[i] = n[2][i]
  BY <1>1
<1>3. Append(n[2], k) # <<>>
  BY <1>1, <1>2
<1>4. Child(n, k)[1] = n[1] /\ Child(n, k)[2] = Append(n[2], k)
  BY DEF Child
<1>5. Child(n, k) \in AnyNode
  BY <1>1, <1>2 DEF Child, AnyNode
<1> QED BY <1>2, <1>3, <1>4, <1>5

\* Last and Parent undo Child.
LEMMA ParentOfChild ==
    ASSUME NEW n \in AnyNode, NEW k \in Keys
    PROVE  Parent(Child(n, k)) = n /\ Last(Path(Child(n, k))) = k
<1>1. n[2] \in Seq(Keys) /\ n = <<n[1], n[2]>>
  BY DEF AnyNode
<1>2. Front(Append(n[2], k)) = n[2] /\ Last(Append(n[2], k)) = k
  BY <1>1 DEF Front, Last
<1> QED BY <1>1, <1>2 DEF Child, Parent, Path

LEMMA ChildInjective ==
    ASSUME NEW n \in AnyNode, NEW k \in Keys, NEW m \in AnyNode, NEW j \in Keys,
           Child(n, k) = Child(m, j)
    PROVE  n = m /\ k = j
BY ParentOfChild

\* What lies below what.
LEMMA BelowItself ==
    ASSUME NEW n \in AnyNode, NEW k \in Keys
    PROVE  ~Below(n, n, k)
BY DEF Below, AnyNode

LEMMA ChildBelow ==
    ASSUME NEW n \in AnyNode, NEW j \in Keys, NEW m \in AnyNode, NEW k \in Keys
    PROVE  Below(Child(n, j), m, k) <=> Below(n, m, k) \/ (n = m /\ j = k)
<1>1. /\ n[2] \in Seq(Keys) /\ m[2] \in Seq(Keys) /\ Len(n[2]) \in Nat /\ Len(m[2]) \in Nat
      /\ n = <<n[1], n[2]>> /\ m = <<m[1], m[2]>>
  BY DEF AnyNode
<1> DEFINE c == Child(n, j)
<1>c. /\ c[1] = n[1] /\ Len(c[2]) = Len(n[2]) + 1 /\ c[2][Len(n[2]) + 1] = j
      /\ \A i \in 1..Len(n[2]) : c[2][i] = n[2][i]
  BY ChildIsNode
<1> HIDE DEF c
<1>2. CASE Len(n[2]) > Len(m[2])
  <2>1. n # m /\ 1..Len(m[2]) \subseteq 1..Len(n[2]) /\ Len(m[2]) + 1 \in 1..Len(n[2])
    BY <1>1, <1>2
  <2>2. c[2][Len(m[2]) + 1] = n[2][Len(m[2]) + 1]
    BY <1>c, <2>1
  <2>3. \A i \in 1..Len(m[2]) : c[2][i] = n[2][i]
    BY <1>c, <2>1
  <2>4. Len(c[2]) > Len(m[2])
    BY <1>1, <1>2, <1>c
  <2>5. Below(c, m, k) <=> Below(n, m, k)
    BY <1>2, <1>c, <2>2, <2>3, <2>4 DEF Below
  <2> QED BY <2>1, <2>5 DEF c
<1>3. CASE Len(n[2]) < Len(m[2])
  <2>1. n # m /\ ~Below(n, m, k) /\ ~Below(c, m, k)
    BY <1>1, <1>3, <1>c DEF Below
  <2> QED BY <2>1 DEF c
<1>4. CASE Len(n[2]) = Len(m[2])
  <2>1. (\A i \in 1..Len(m[2]) : n[2][i] = m[2][i]) <=> n[2] = m[2]
    BY <1>1, <1>4
  <2>2. ~Below(n, m, k)
    BY <1>1, <1>4 DEF Below
  <2>3. Below(c, m, k) <=> n[1] = m[1] /\ n[2] = m[2] /\ j = k
    BY <1>1, <1>4, <1>c, <2>1 DEF Below
  <2>4. n = m <=> n[1] = m[1] /\ n[2] = m[2]
    BY <1>1
  <2> QED BY <2>2, <2>3, <2>4 DEF c
<1> QED BY <1>1, <1>2, <1>3, <1>4

LEMMA BelowChild ==
    ASSUME NEW n \in AnyNode, NEW j \in Keys, NEW m \in AnyNode, NEW k \in Keys,
           Below(m, Child(n, j), k)
    PROVE  Below(m, n, j)
<1>1. n[2] \in Seq(Keys) /\ m[2] \in Seq(Keys) /\ Len(n[2]) \in Nat /\ Len(m[2]) \in Nat
  BY DEF AnyNode
<1> DEFINE c == Child(n, j)
<1>2. /\ c[1] = n[1] /\ Len(c[2]) = Len(n[2]) + 1 /\ c[2][Len(n[2]) + 1] = j
      /\ \A i \in 1..Len(n[2]) : c[2][i] = n[2][i]
  BY ChildIsNode
<1> HIDE DEF c
<1>3. /\ m[1] = c[1] /\ Len(m[2]) > Len(c[2])
      /\ \A i \in 1..Len(c[2]) : m[2][i] = c[2][i]
  BY DEF Below, c
<1>4. m[2][Len(n[2]) + 1] = j
  BY <1>1, <1>2, <1>3
<1>5. \A i \in 1..Len(n[2]) : m[2][i] = n[2][i]
  BY <1>1, <1>2, <1>3
<1> QED BY <1>1, <1>2, <1>3, <1>4, <1>5 DEF Below

\* The prefixes of a node are the nodes above it.
LEMMA PrefixOfChild ==
    ASSUME NEW n \in AnyNode, NEW k \in Keys
    PROVE  /\ Prefix(Child(n, k), Len(n[2]) + 1) = Child(n, k)
           /\ \A i \in 1..Len(n[2]) : Prefix(Child(n, k), i) = Prefix(n, i)
<1>1. n[2] \in Seq(Keys) /\ Len(n[2]) \in Nat
  BY DEF AnyNode
<1>2. SubSeq(Append(n[2], k), 1, Len(n[2]) + 1) = Append(n[2], k)
  BY <1>1
<1>3. ASSUME NEW i \in 1..Len(n[2]) PROVE SubSeq(Append(n[2], k), 1, i) = SubSeq(n[2], 1, i)
  BY <1>1
<1> QED BY <1>1, <1>2, <1>3, ChildIsNode DEF Prefix, Child

LEMMA PrefixBelow ==
    ASSUME NEW n \in AnyNode, NEW a \in AnyNode, NEW j \in Keys, Below(n, a, j)
    PROVE  /\ Len(a[2]) + 1 \in 1..Len(n[2])
           /\ Prefix(n, Len(a[2]) + 1) = Child(a, j)
<1>1. n[2] \in Seq(Keys) /\ a[2] \in Seq(Keys) /\ Len(n[2]) \in Nat /\ Len(a[2]) \in Nat
  BY DEF AnyNode
<1>2. Len(a[2]) + 1 \in 1..Len(n[2])
  BY <1>1 DEF Below
<1>3. SubSeq(n[2], 1, Len(a[2]) + 1) = Append(a[2], j)
  <2>1. SubSeq(n[2], 1, Len(a[2]) + 1) \in Seq(Keys)
        /\ Len(SubSeq(n[2], 1, Len(a[2]) + 1)) = Len(a[2]) + 1
    BY <1>1, <1>2
  <2>2. Append(a[2], j) \in Seq(Keys) /\ Len(Append(a[2], j)) = Len(a[2]) + 1
    BY <1>1
  <2>3. \A i \in 1..(Len(a[2]) + 1) : SubSeq(n[2], 1, Len(a[2]) + 1)[i] = Append(a[2], j)[i]
    BY <1>1, <1>2 DEF Below
  <2> QED BY <2>1, <2>2, <2>3
<1> QED BY <1>2, <1>3 DEF Prefix, Child, Below

-----------------------------------------------------------------------------
\* What a step that starts nothing does to frames, works and reservations: some of them end,
\* each work with its reservations, and an attempt ends its wait when its frame does.
EndsOnly ==
    /\ DOMAIN frame' \subseteq DOMAIN frame /\ DOMAIN work' \subseteq DOMAIN work
    /\ \A n \in DOMAIN frame' :
          /\ frame'[n].keys = frame[n].keys /\ frame'[n].local = frame[n].local
          /\ frame'[n].state = frame[n].state
                \/ (frame[n].state = "lookup" /\ frame'[n].state = "split")
          /\ frame[n].state = "direct" => n \in DOMAIN work'
    /\ \A n \in DOMAIN work' :
          /\ work'[n].owned = work[n].owned /\ work'[n].local = work[n].local
          /\ work'[n].direct = work[n].direct
          /\ work[n].direct => n \in DOMAIN frame'
          /\ \/ work'[n].state = work[n].state /\ work'[n].source = work[n].source
             \/ work'[n].state = "select" /\ work'[n].source = work[n].source + 1
    /\ \A n \in DOMAIN work', k \in Keys :
          /\ work'[n].attempt[k] = "dependencies"
                <=> work[n].attempt[k] = "dependencies" /\ Child(n, k) \in DOMAIN frame'
          /\ work'[n].attempt[k] # "none"
                => work[n].attempt[k] # "none" /\ work'[n].state = "attempt"
    /\ \A n \in DOMAIN work \ DOMAIN work' : \A k \in Keys : work[n].attempt[k] # "dependencies"
    /\ flight' = [k \in Keys |-> IF flight[k] \in DOMAIN work' THEN flight[k] ELSE NoNode]
    /\ \A r \in Requests : request'[r] = "new" => request[r] = "new"

LEMMA EndsOnlyPaths ==
    ASSUME PathsOK, EndsOnly
    PROVE  PathsOK'
<1>1. Live' \subseteq Live
  BY DEF EndsOnly, Live
<1>2. \A n \in DOMAIN frame' : frame'[n].keys = frame[n].keys /\ n \in DOMAIN frame
  BY DEF EndsOnly
<1>3. \A n \in DOMAIN work' : work'[n].owned = work[n].owned /\ n \in DOMAIN work
  BY DEF EndsOnly
<1> QED BY <1>1, <1>2, <1>3 DEF PathsOK

LEMMA EndsOnlyParents ==
    ASSUME Shape, ParentsWait, EndsOnly
    PROVE  ParentsWait'
<1>1. DOMAIN work' \subseteq DOMAIN work /\ DOMAIN frame' \subseteq DOMAIN frame
  BY DEF EndsOnly
<1>2. ASSUME NEW n \in DOMAIN work', NEW k \in Keys
      PROVE  /\ work'[n].attempt[k] = "dependencies" <=> Child(n, k) \in DOMAIN frame'
             /\ work'[n].attempt[k] # "none" => work'[n].state = "attempt" /\ k \in work'[n].owned
  <2>1. /\ work'[n].attempt[k] = "dependencies"
               <=> work[n].attempt[k] = "dependencies" /\ Child(n, k) \in DOMAIN frame'
        /\ work'[n].attempt[k] # "none"
               => work[n].attempt[k] # "none" /\ work'[n].state = "attempt"
        /\ work'[n].owned = work[n].owned
    BY DEF EndsOnly
  <2> QED BY <1>1, <2>1 DEF ParentsWait
<1>3. ASSUME NEW m \in DOMAIN frame', m[2] # <<>>
      PROVE  \E n \in DOMAIN work', k \in Keys : m = Child(n, k)
  <2>1. PICK n \in DOMAIN work, k \in Keys : m = Child(n, k)
    BY <1>1, <1>3 DEF ParentsWait
  <2>2. work[n].attempt[k] = "dependencies"
    BY <1>1, <2>1 DEF ParentsWait
  <2>3. n \in DOMAIN work'
    BY <2>2 DEF EndsOnly
  <2> QED BY <2>1, <2>3
<1> QED BY <1>2, <1>3 DEF ParentsWait

LEMMA EndsOnlyFrames ==
    ASSUME FrameAndWork, EndsOnly
    PROVE  FrameAndWork'
<1>1. ASSUME NEW n \in DOMAIN frame'
      PROVE  /\ frame'[n].state \in {"lookup", "split"} => n \notin DOMAIN work'
             /\ frame'[n].state = "direct" => n \in DOMAIN work' /\ work'[n].direct
  <2>1. /\ n \in DOMAIN frame /\ DOMAIN work' \subseteq DOMAIN work
        /\ frame'[n].state = frame[n].state
              \/ (frame[n].state = "lookup" /\ frame'[n].state = "split")
        /\ frame[n].state = "direct" => n \in DOMAIN work'
    BY DEF EndsOnly
  <2>2. n \in DOMAIN work' => work'[n].direct = work[n].direct
    BY DEF EndsOnly
  <2> QED BY <2>1, <2>2 DEF FrameAndWork
<1>2. ASSUME NEW n \in DOMAIN work', work'[n].direct
      PROVE  /\ n \in DOMAIN frame' /\ frame'[n].state = "direct"
             /\ work'[n].owned \subseteq work'[n].local
  <2>1. /\ n \in DOMAIN work /\ work[n].direct /\ n \in DOMAIN frame'
        /\ work'[n].owned = work[n].owned /\ work'[n].local = work[n].local
    BY <1>2 DEF EndsOnly
  <2>2. frame[n].state = "direct" /\ work[n].owned \subseteq work[n].local
    BY <2>1 DEF FrameAndWork
  <2>3. frame'[n].state = "direct"
    BY <2>1, <2>2 DEF EndsOnly
  <2> QED BY <2>1, <2>2, <2>3
<1> QED BY <1>1, <1>2 DEF FrameAndWork

LEMMA EndsOnlyUsedOnce ==
    ASSUME Shape, UsedOnce, EndsOnly
    PROVE  UsedOnce'
<1>1. Live' \subseteq Live /\ DOMAIN work' \subseteq DOMAIN work /\ DOMAIN frame' \subseteq DOMAIN frame
  BY DEF EndsOnly, Live
<1>2. \A n, k : Fresh(n, k) => Fresh(n, k)'
  BY <1>1 DEF Fresh, Below
<1>3. \A n \in Live' : request'[n[1]] # "new"
  BY <1>1 DEF UsedOnce, EndsOnly, Shape, Live, AnyNode
<1>4. ASSUME NEW n \in DOMAIN frame', NEW k \in Keys
      PROVE  /\ frame'[n].state \in {"lookup", "split"} => Fresh(n, k)'
             /\ frame'[n].state = "direct" /\ k \notin work'[n].owned => Fresh(n, k)'
  <2>1. /\ n \in DOMAIN frame
        /\ frame'[n].state = frame[n].state
              \/ (frame[n].state = "lookup" /\ frame'[n].state = "split")
        /\ frame[n].state = "direct" => n \in DOMAIN work'
    BY DEF EndsOnly
  <2>2. n \in DOMAIN work' => work'[n].owned = work[n].owned
    BY DEF EndsOnly
  <2> QED BY <1>2, <2>1, <2>2 DEF UsedOnce
<1>5. ASSUME NEW n \in DOMAIN work', NEW k \in work'[n].owned, Untried(n, k)'
      PROVE  Fresh(n, k)'
  <2>1. n \in DOMAIN work /\ k \in work[n].owned
    BY DEF EndsOnly
  <2>2. work[n].source \in Nat
    BY <2>1 DEF Shape, IsWork
  <2>3. DOMAIN Sources \subseteq Nat
    BY ResolutionAssumption
  <2>4. \/ work'[n].state = work[n].state /\ work'[n].source = work[n].source
        \/ work'[n].state = "select" /\ work'[n].source = work[n].source + 1
    BY DEF EndsOnly
  <2>5. ASSUME NEW s \in DOMAIN Sources, Sources[s].derived, k \in Sources[s].keys
        PROVE  s > work[n].source \/ (s = work[n].source /\ work[n].state = "select")
    <3>1. s > work'[n].source \/ (s = work'[n].source /\ work'[n].state = "select")
      BY <1>5, <2>5 DEF Untried
    <3> QED BY <2>2, <2>3, <2>4, <3>1
  <2>6. Untried(n, k)
    BY <2>5 DEF Untried
  <2>7. Fresh(n, k)
    BY <2>1, <2>6 DEF UsedOnce
  <2> QED BY <1>2, <2>7
<1> QED BY <1>3, <1>4, <1>5 DEF UsedOnce

LEMMA EndsOnlyFlights ==
    ASSUME Shape, FlightsHaveProducers, EndsOnly
    PROVE  FlightsHaveProducers'
<1>1. \A k \in Keys : flight'[k] = IF flight[k] \in DOMAIN work' THEN flight[k] ELSE NoNode
  BY DEF EndsOnly
<1>2. DOMAIN work' \subseteq DOMAIN work /\ NoNode \notin DOMAIN work
  BY NoNodeIsNone DEF EndsOnly, Shape
<1>3. \A n \in DOMAIN work' : work'[n].owned = work[n].owned /\ work'[n].direct = work[n].direct
  BY DEF EndsOnly
<1> QED BY <1>1, <1>2, <1>3 DEF FlightsHaveProducers

\* Whoever is still awaited finds every work above it that was there before.
LEMMA EndsOnlyInherited ==
    ASSUME Shape, ParentsWait, Inherited, EndsOnly
    PROVE  Inherited'
<1>1. /\ DOMAIN work' \subseteq DOMAIN work /\ DOMAIN frame' \subseteq DOMAIN frame
      /\ \A k \in Keys : flight'[k] = IF flight[k] \in DOMAIN work' THEN flight[k] ELSE NoNode
  BY DEF EndsOnly
<1>2. ASSUME NEW n \in AnyNode, Awaited(n), NEW a \in DOMAIN work, NEW j \in Keys, Below(n, a, j)
      PROVE  Child(a, j) \in DOMAIN frame
  <2>1. a \in AnyNode
    BY DEF Shape
  <2>2. Len(a[2]) + 1 \in 1..Len(n[2]) /\ Prefix(n, Len(a[2]) + 1) = Child(a, j)
    BY <1>2, <2>1, PrefixBelow
  <2> QED BY <1>2, <2>2 DEF Awaited, Path
<1>3. ASSUME NEW n \in AnyNode, Awaited(n)', NEW k \in Keys, flight[k] \in DOMAIN work,
             NEW j \in Keys, Below(n, flight[k], j)
      PROVE  flight'[k] \in DOMAIN work' /\ Below(n, flight'[k], j)
  <2>1. Awaited(n)
    BY <1>1, <1>3 DEF Awaited
  <2>2. Child(flight[k], j) \in DOMAIN frame
    BY <1>2, <1>3, <2>1
  <2>3. work[flight[k]].attempt[j] = "dependencies"
    BY <1>3, <2>2 DEF ParentsWait
  <2>4. flight[k] \in DOMAIN work'
    BY <1>3, <2>3 DEF EndsOnly
  <2> QED BY <1>1, <1>3, <2>4
<1>4. ASSUME NEW n \in DOMAIN frame', Awaited(n)', NEW k \in frame'[n].local
      PROVE  flight'[k] \in DOMAIN work' /\ \E j \in Keys : Below(n, flight'[k], j)
  <2>1. n \in DOMAIN frame /\ n \in AnyNode /\ k \in frame[n].local /\ k \in Keys
    BY DEF EndsOnly, Shape, IsFrame
  <2>2. Awaited(n)
    BY <1>1, <1>4 DEF Awaited
  <2>3. flight[k] \in DOMAIN work /\ \E j \in Keys : Below(n, flight[k], j)
    BY <2>1, <2>2 DEF Inherited
  <2> QED BY <1>3, <1>4, <2>1, <2>3
<1>5. ASSUME NEW n \in DOMAIN work', Awaited(n)', NEW k \in work'[n].local
      PROVE  flight'[k] \in DOMAIN work' /\ \E j \in Keys : Below(n, flight'[k], j)
  <2>1. n \in DOMAIN work /\ n \in AnyNode /\ k \in work[n].local /\ k \in Keys
    BY DEF EndsOnly, Shape, IsWork
  <2>2. Awaited(n)
    BY <1>1, <1>5 DEF Awaited
  <2>3. flight[k] \in DOMAIN work /\ \E j \in Keys : Below(n, flight[k], j)
    BY <2>1, <2>2 DEF Inherited
  <2> QED BY <1>3, <1>5, <2>1, <2>3
<1>6. \A n, k, j : Below(n, flight[k], j)' <=> Below(n, flight'[k], j)
  BY DEF Below
<1> QED BY <1>4, <1>5 DEF Inherited

\* What is left to show of an action that starts nothing.
LEMMA EndsOnlyKeeps ==
    ASSUME IInv, EndsOnly, Shape', ValuesOK', JoinedKeysAreReserved'
    PROVE  IInv'
BY EndsOnlyPaths, EndsOnlyParents, EndsOnlyFrames, EndsOnlyUsedOnce, EndsOnlyFlights,
   EndsOnlyInherited DEF IInv

-----------------------------------------------------------------------------
\* The values that stand for no value and for a failed key differ.
LEMMA NoValueIsNoFailure == NoValue # Failure
<1>1. NoValue.version = 0 /\ Failure.version = -1
  BY DEF NoValue, Failure
<1> QED BY <1>1

\* What one step does to one frame.
LEMMA OneFrameEdited ==
    ASSUME Shape, NEW n \in DOMAIN frame, NEW s \in {"lookup", "split", "direct", "join"},
           NEW v, v = [k \in Keys |-> v[k]],
           frame' = [frame EXCEPT ![n] = [frame[n] EXCEPT !.state = s, !.values = v]]
    PROVE  /\ DOMAIN frame' = DOMAIN frame /\ frame' = [m \in DOMAIN frame' |-> frame'[m]]
           /\ \A m \in DOMAIN frame' : IsFrame(frame'[m])
           /\ \A m \in DOMAIN frame : m # n => frame'[m] = frame[m]
           /\ frame'[n].state = s /\ frame'[n].values = v
           /\ frame'[n].keys = frame[n].keys /\ frame'[n].local = frame[n].local
<1>1. DOMAIN frame' = DOMAIN frame /\ frame' = [m \in DOMAIN frame' |-> frame'[m]]
  OBVIOUS
<1>2. /\ frame'[n] = [frame[n] EXCEPT !.state = s, !.values = v]
      /\ \A m \in DOMAIN frame : m # n => frame'[m] = frame[m]
  OBVIOUS
<1>3. IsFrame(frame[n])
  BY DEF Shape
<1>4. /\ IsFrame(frame'[n])
      /\ frame'[n].state = s /\ frame'[n].values = v
      /\ frame'[n].keys = frame[n].keys /\ frame'[n].local = frame[n].local
  <2>1. DOMAIN frame[n] = {"state", "keys", "local", "values"}
    BY <1>3 DEF IsFrame
  <2>2. DOMAIN frame'[n] = {"state", "keys", "local", "values"}
    BY <1>2, <2>1
  <2>3. /\ frame'[n].state = s /\ frame'[n].values = v
        /\ frame'[n].keys = frame[n].keys /\ frame'[n].local = frame[n].local
    BY <1>2, <2>1
  <2> QED BY <1>3, <2>2, <2>3 DEF IsFrame
<1>5. \A m \in DOMAIN frame : IsFrame(frame[m])
  BY DEF Shape
<1> QED BY <1>1, <1>2, <1>4, <1>5

\* A step that changes no reservation, and ends no work, keeps flight as EndsOnly says.
LEMMA FlightKept ==
    ASSUME Shape, FlightsHaveProducers, flight' = flight, DOMAIN work' = DOMAIN work
    PROVE  flight' = [k \in Keys |-> IF flight[k] \in DOMAIN work' THEN flight[k] ELSE NoNode]
BY DEF Shape, FlightsHaveProducers

-----------------------------------------------------------------------------
\* Lookup(n) reads the memo and the cache.
LEMMA LookupKeeps ==
    ASSUME IInv, NEW n \in DOMAIN frame, Lookup(n)
    PROVE  IInv'
<1> DEFINE v == [k \in Keys |-> CASE k \notin frame[n].keys  -> NoValue
                            [] k \notin Unpinned(n)    -> memo[n[1]][k]
                            [] k \in Unpinned(n) /\ Current(k) -> cache[k]
                            [] OTHER                   -> NoValue]
<1>1. /\ Shape /\ ValuesOK /\ FlightsHaveProducers /\ JoinedKeysAreReserved /\ FrameAndWork
      /\ ParentsWait
  BY DEF IInv
<1>2. /\ frame[n].state = "lookup"
      /\ frame' = [frame EXCEPT ![n] = [frame[n] EXCEPT !.state = "split", !.values = v]]
      /\ UNCHANGED <<request, memo, cache, flight, work, expired, versions, forgets>>
  BY DEF Lookup
<1>3. n[1] \in Requests
  BY <1>1 DEF Shape, AnyNode
<1>4. \A k \in Keys : IsValue(v[k]) /\ v[k] # Failure
  <2>1. IsValue(NoValue) /\ NoValue # Failure
    BY <1>1, NoValueIsNoFailure DEF ValuesOK, IsValue, NoValue
  <2> QED BY <1>1, <1>3, <2>1 DEF ValuesOK
<1>5. v = [k \in Keys |-> v[k]]
  OBVIOUS
<1> HIDE DEF v
<1>6. /\ DOMAIN frame' = DOMAIN frame /\ frame' = [m \in DOMAIN frame' |-> frame'[m]]
      /\ \A m \in DOMAIN frame' : IsFrame(frame'[m])
      /\ \A m \in DOMAIN frame : m # n => frame'[m] = frame[m]
      /\ frame'[n].state = "split" /\ frame'[n].values = v
      /\ frame'[n].keys = frame[n].keys /\ frame'[n].local = frame[n].local
  BY <1>1, <1>2, <1>5, OneFrameEdited
<1>7. Shape'
  BY <1>1, <1>2, <1>6 DEF Shape
<1>8. ValuesOK'
  BY <1>1, <1>2, <1>4, <1>6 DEF ValuesOK, IsValue
<1>9. JoinedKeysAreReserved'
  BY <1>1, <1>2, <1>6 DEF JoinedKeysAreReserved, Missing
<1>10. EndsOnly
  <2>1. flight' = [k \in Keys |-> IF flight[k] \in DOMAIN work' THEN flight[k] ELSE NoNode]
    BY <1>1, <1>2, FlightKept
  <2>2. \A m \in DOMAIN frame' : frame[m].state = "direct" => m \in DOMAIN work'
    BY <1>1, <1>2, <1>6 DEF FrameAndWork
  <2>3. \A m \in DOMAIN work' : work[m].direct => m \in DOMAIN frame'
    BY <1>1, <1>2, <1>6 DEF FrameAndWork
  <2>4. \A m \in DOMAIN work', k \in Keys :
          /\ work'[m].attempt[k] = "dependencies"
                <=> work[m].attempt[k] = "dependencies" /\ Child(m, k) \in DOMAIN frame'
          /\ work'[m].attempt[k] # "none"
                => work[m].attempt[k] # "none" /\ work'[m].state = "attempt"
    BY <1>1, <1>2, <1>6 DEF ParentsWait
  <2> QED BY <1>2, <1>6, <2>1, <2>2, <2>3, <2>4 DEF EndsOnly
<1> QED BY <1>7, <1>8, <1>9, <1>10, EndsOnlyKeeps

-----------------------------------------------------------------------------
\* Frames raise: they end, and the attempts that wait for them fail.
LEMMA Raised ==
    ASSUME Shape, ParentsWait, NEW S, S \subseteq DOMAIN frame,
           NEW ws, DOMAIN ws \subseteq DOMAIN work, \A m \in DOMAIN ws : ws[m] = work[m],
           Raise(S, ws)
    PROVE  /\ DOMAIN frame' = DOMAIN frame \ S /\ frame' = [m \in DOMAIN frame' |-> frame'[m]]
           /\ \A m \in DOMAIN frame' : frame'[m] = frame[m]
           /\ request' \in [Requests -> {"new", "running", "done", "late", "cancelled"}]
           /\ \A r \in Requests : request'[r] = "new" => request[r] = "new"
           /\ DOMAIN work' = DOMAIN ws /\ work' = [m \in DOMAIN work' |-> work'[m]]
           /\ \A m \in DOMAIN work' :
                 /\ IsWork(work'[m])
                 /\ work'[m].owned = work[m].owned /\ work'[m].direct = work[m].direct
                 /\ work'[m].local = work[m].local /\ work'[m].state = work[m].state
                 /\ work'[m].source = work[m].source /\ work'[m].used = work[m].used
                 /\ work'[m].result = work[m].result
           /\ \A m \in DOMAIN work', k \in Keys :
                 /\ work'[m].attempt[k] = "dependencies"
                      <=> work[m].attempt[k] = "dependencies" /\ Child(m, k) \in DOMAIN frame'
                 /\ work'[m].attempt[k] # "none"
                      => work[m].attempt[k] # "none" /\ work'[m].state = "attempt"
<1>1. /\ DOMAIN frame' = DOMAIN frame \ S /\ frame' = [m \in DOMAIN frame' |-> frame'[m]]
      /\ \A m \in DOMAIN frame' : frame'[m] = frame[m]
  BY DEF Raise
<1>2. /\ request' = [r \in Requests |-> IF Root(r) \in S THEN "late" ELSE request[r]]
      /\ request \in [Requests -> {"new", "running", "done", "late", "cancelled"}]
  BY DEF Raise, Shape
<1>3. /\ request' \in [Requests -> {"new", "running", "done", "late", "cancelled"}]
      /\ \A r \in Requests : request'[r] = "new" => request[r] = "new"
  BY <1>2
<1>4. DOMAIN work' = DOMAIN ws /\ work' = [m \in DOMAIN work' |-> work'[m]]
  BY DEF Raise
<1>5. ASSUME NEW m \in DOMAIN work'
      PROVE  /\ IsWork(work'[m])
             /\ work'[m].owned = work[m].owned /\ work'[m].direct = work[m].direct
             /\ work'[m].local = work[m].local /\ work'[m].state = work[m].state
             /\ work'[m].source = work[m].source /\ work'[m].used = work[m].used
             /\ work'[m].result = work[m].result
             /\ \A k \in Keys : work'[m].attempt[k] =
                     IF Child(m, k) \in S THEN "failed" ELSE work[m].attempt[k]
  <2> DEFINE a == [k \in Keys |-> IF Child(m, k) \in S THEN "failed" ELSE work[m].attempt[k]]
  <2>1. IsWork(work[m]) /\ ws[m] = work[m]
    BY <1>4 DEF Shape
  <2>2. a \in [Keys -> Attempts]
    BY <2>1 DEF IsWork, Attempts
  <2>3. work'[m] = [work[m] EXCEPT !.attempt = a]
    BY <1>4, <2>1 DEF Raise
  <2> HIDE DEF a
  <2>4. DOMAIN work[m] = {"state", "owned", "direct", "local", "source", "attempt", "used", "result"}
    BY <2>1 DEF IsWork
  <2>5. /\ DOMAIN work'[m] = DOMAIN work[m] /\ work'[m].attempt = a
        /\ work'[m].owned = work[m].owned /\ work'[m].direct = work[m].direct
        /\ work'[m].local = work[m].local /\ work'[m].state = work[m].state
        /\ work'[m].source = work[m].source /\ work'[m].used = work[m].used
        /\ work'[m].result = work[m].result
    BY <2>3, <2>4
  <2>6. IsWork(work'[m])
    BY <2>1, <2>2, <2>5 DEF IsWork
  <2> QED BY <2>5, <2>6 DEF a
<1>6. ASSUME NEW m \in DOMAIN work', NEW k \in Keys
      PROVE  /\ work'[m].attempt[k] = "dependencies"
                  <=> work[m].attempt[k] = "dependencies" /\ Child(m, k) \in DOMAIN frame'
             /\ work'[m].attempt[k] # "none"
                  => work[m].attempt[k] # "none" /\ work'[m].state = "attempt"
  <2>1. m \in DOMAIN work
    BY <1>4
  <2>2. work[m].attempt[k] = "dependencies" <=> Child(m, k) \in DOMAIN frame
    BY <2>1 DEF ParentsWait
  <2>3. work[m].attempt[k] # "none" => work[m].state = "attempt"
    BY <2>1 DEF ParentsWait
  <2>4. /\ work'[m].state = work[m].state
        /\ work'[m].attempt[k] = IF Child(m, k) \in S THEN "failed" ELSE work[m].attempt[k]
    BY <1>5
  <2> QED BY <1>1, <2>2, <2>3, <2>4
<1> QED BY <1>1, <1>3, <1>4, <1>5, <1>6

\* Values that go into the memo.
LEMMA MemoEdited ==
    ASSUME ValuesOK, NEW r \in Requests, NEW v, v = [k \in Keys |-> v[k]],
           \A k \in Keys : IsValue(v[k]) /\ v[k] # Failure,
           memo' = [memo EXCEPT ![r] = v]
    PROVE  /\ memo' = [q \in Requests |-> [k \in Keys |-> memo'[q][k]]]
           /\ \A q \in Requests, k \in Keys : IsValue(memo'[q][k]) /\ memo'[q][k] # Failure
<1>1. DOMAIN memo = Requests /\ \A q \in Requests : memo[q] = [k \in Keys |-> memo[q][k]]
  BY DEF ValuesOK
<1>2. memo' = [q \in Requests |-> IF q = r THEN v ELSE memo[q]]
  BY <1>1
<1>3. \A q \in Requests : memo'[q] = [k \in Keys |-> memo'[q][k]]
  BY <1>1, <1>2
<1>4. memo' = [q \in Requests |-> [k \in Keys |-> memo'[q][k]]]
  BY <1>2, <1>3
<1> QED BY <1>2, <1>4 DEF ValuesOK

LEMMA PinKeeps ==
    ASSUME Shape, ValuesOK, NEW n \in DOMAIN frame, Pin(n)
    PROVE  /\ memo' = [q \in Requests |-> [k \in Keys |-> memo'[q][k]]]
           /\ \A q \in Requests, k \in Keys : IsValue(memo'[q][k]) /\ memo'[q][k] # Failure
<1> DEFINE v == [k \in Keys |-> IF frame[n].values[k] \notin {NoValue, Failure}
                                THEN frame[n].values[k] ELSE memo[n[1]][k]]
<1>1. n[1] \in Requests
  BY DEF Shape, AnyNode
<1>2. \A k \in Keys : IsValue(v[k]) /\ v[k] # Failure
  BY <1>1 DEF ValuesOK
<1>3. v = [k \in Keys |-> v[k]] /\ memo' = [memo EXCEPT ![n[1]] = v]
  BY DEF Pin
<1> HIDE DEF v
<1> QED BY <1>1, <1>2, <1>3, MemoEdited

\* LookupRaises(n), which may have pinned some of the values that were found.
LEMMA LookupRaisesKeeps ==
    ASSUME IInv, NEW n \in DOMAIN frame, LookupRaises(n)
    PROVE  IInv'
<1>1. /\ Shape /\ ValuesOK /\ FlightsHaveProducers /\ JoinedKeysAreReserved /\ FrameAndWork
      /\ ParentsWait
  BY DEF IInv
<1>2. /\ frame[n].state \in {"lookup", "split"} /\ Raise({n}, work)
      /\ UNCHANGED <<cache, flight, expired, versions, forgets>>
  BY DEF LookupRaises
<1>3. n[1] \in Requests /\ n \notin DOMAIN work
  BY <1>1, <1>2 DEF Shape, AnyNode, FrameAndWork
<1>4. /\ DOMAIN frame' = DOMAIN frame \ {n} /\ frame' = [m \in DOMAIN frame' |-> frame'[m]]
      /\ \A m \in DOMAIN frame' : frame'[m] = frame[m]
      /\ request' \in [Requests -> {"new", "running", "done", "late", "cancelled"}]
      /\ \A r \in Requests : request'[r] = "new" => request[r] = "new"
      /\ DOMAIN work' = DOMAIN work /\ work' = [m \in DOMAIN work' |-> work'[m]]
      /\ \A m \in DOMAIN work' :
            /\ IsWork(work'[m])
            /\ work'[m].owned = work[m].owned /\ work'[m].direct = work[m].direct
            /\ work'[m].local = work[m].local /\ work'[m].state = work[m].state
            /\ work'[m].source = work[m].source /\ work'[m].used = work[m].used
            /\ work'[m].result = work[m].result
      /\ \A m \in DOMAIN work', k \in Keys :
            /\ work'[m].attempt[k] = "dependencies"
                 <=> work[m].attempt[k] = "dependencies" /\ Child(m, k) \in DOMAIN frame'
            /\ work'[m].attempt[k] # "none"
                 => work[m].attempt[k] # "none" /\ work'[m].state = "attempt"
  BY <1>1, <1>2, Raised
<1>5. /\ memo' = [q \in Requests |-> [k \in Keys |-> memo'[q][k]]]
      /\ \A q \in Requests, k \in Keys : IsValue(memo'[q][k]) /\ memo'[q][k] # Failure
  <2>1. CASE UNCHANGED memo
    BY <1>1, <2>1 DEF ValuesOK
  <2>2. CASE /\ frame[n].state = "split"
             /\ \E S \in SUBSET {k \in Unpinned(n) : frame[n].values[k] # NoValue} :
                   memo' = [memo EXCEPT ![n[1]] =
                               [k \in Keys |-> IF k \in S THEN frame[n].values[k] ELSE memo[n[1]][k]]]
    <3>1. PICK S \in SUBSET {k \in Unpinned(n) : frame[n].values[k] # NoValue} :
                memo' = [memo EXCEPT ![n[1]] =
                            [k \in Keys |-> IF k \in S THEN frame[n].values[k] ELSE memo[n[1]][k]]]
      BY <2>2
    <3> DEFINE v == [k \in Keys |-> IF k \in S THEN frame[n].values[k] ELSE memo[n[1]][k]]
    <3>2. \A k \in Keys : IsValue(v[k]) /\ v[k] # Failure
      BY <1>1, <1>3, <2>2, <3>1 DEF ValuesOK
    <3>3. v = [k \in Keys |-> v[k]] /\ memo' = [memo EXCEPT ![n[1]] = v]
      BY <3>1
    <3> HIDE DEF v
    <3> QED BY <1>1, <1>3, <3>2, <3>3, MemoEdited
  <2>3. UNCHANGED memo \/
        /\ frame[n].state = "split"
        /\ \E S \in SUBSET {k \in Unpinned(n) : frame[n].values[k] # NoValue} :
              memo' = [memo EXCEPT ![n[1]] =
                          [k \in Keys |-> IF k \in S THEN frame[n].values[k] ELSE memo[n[1]][k]]]
    BY DEF LookupRaises
  <2> QED BY <2>1, <2>2, <2>3
<1>6. Shape'
  BY <1>1, <1>2, <1>4 DEF Shape
<1>7. ValuesOK'
  <2>1. \A v : IsValue(v) => IsValue(v)'
    BY <1>2 DEF IsValue
  <2>2. versions' \in Nat /\ cache' = [k \in Keys |-> cache'[k]]
    BY <1>1, <1>2 DEF ValuesOK
  <2>3. \A k \in Keys : IsValue(cache'[k]) /\ cache'[k] # Failure
    BY <1>1, <1>2 DEF ValuesOK
  <2>4. \A m \in DOMAIN frame', k \in Keys :
           /\ IsValue(frame'[m].values[k])
           /\ frame'[m].state = "split" => frame'[m].values[k] # Failure
    BY <1>1, <1>4 DEF ValuesOK
  <2>5. \A m \in DOMAIN work', k \in Keys :
           IsValue(work'[m].result[k]) /\ DOMAIN work'[m].used[k] \subseteq Keys
    BY <1>1, <1>4 DEF ValuesOK
  <2> QED BY <1>5, <2>1, <2>2, <2>3, <2>4, <2>5 DEF ValuesOK, Failure
<1>8. JoinedKeysAreReserved'
  BY <1>1, <1>2, <1>4 DEF JoinedKeysAreReserved, Missing
<1>9. EndsOnly
  <2>1. flight' = [k \in Keys |-> IF flight[k] \in DOMAIN work' THEN flight[k] ELSE NoNode]
    BY <1>1, <1>2, <1>4, FlightKept
  <2>2. \A m \in DOMAIN frame' : frame[m].state = "direct" => m \in DOMAIN work'
    BY <1>1, <1>2, <1>4 DEF FrameAndWork
  <2>3. \A m \in DOMAIN work' : work[m].direct => m \in DOMAIN frame'
    BY <1>1, <1>2, <1>3, <1>4 DEF FrameAndWork
  <2> QED BY <1>2, <1>4, <2>1, <2>2, <2>3 DEF EndsOnly
<1> QED BY <1>6, <1>7, <1>8, <1>9, EndsOnlyKeeps

-----------------------------------------------------------------------------
\* CallEnds(n, k) ends one attempt.
LEMMA CallEndsKeeps ==
    ASSUME IInv, NEW n \in DOMAIN work, NEW c \in Keys, CallEnds(n, c)
    PROVE  IInv'
<1>1. /\ Shape /\ ValuesOK /\ FlightsHaveProducers /\ JoinedKeysAreReserved /\ FrameAndWork
      /\ ParentsWait
  BY DEF IInv
<1>2. PICK outcome \in {"ok", "failed"} :
         work' = [work EXCEPT ![n] = [work[n] EXCEPT !.attempt[c] = outcome]]
  BY DEF CallEnds
<1>3. /\ work[n].attempt[c] \in {"fetching", "deriving"}
      /\ UNCHANGED <<request, memo, cache, flight, frame, expired, versions, forgets>>
  BY DEF CallEnds
<1>4. /\ DOMAIN work' = DOMAIN work /\ work' = [m \in DOMAIN work' |-> work'[m]]
      /\ work'[n] = [work[n] EXCEPT !.attempt[c] = outcome]
      /\ \A m \in DOMAIN work : m # n => work'[m] = work[m]
  BY <1>2
<1>5. /\ IsWork(work'[n])
      /\ work'[n].owned = work[n].owned /\ work'[n].direct = work[n].direct
      /\ work'[n].local = work[n].local /\ work'[n].state = work[n].state
      /\ work'[n].source = work[n].source /\ work'[n].used = work[n].used
      /\ work'[n].result = work[n].result
      /\ work'[n].attempt = [work[n].attempt EXCEPT ![c] = outcome]
  <2>1. IsWork(work[n])
    BY <1>1 DEF Shape
  <2>2. DOMAIN work[n] = {"state", "owned", "direct", "local", "source", "attempt", "used", "result"}
    BY <2>1 DEF IsWork
  <2>3. /\ DOMAIN work'[n] = DOMAIN work[n]
        /\ work'[n].attempt = [work[n].attempt EXCEPT ![c] = outcome]
        /\ work'[n].owned = work[n].owned /\ work'[n].direct = work[n].direct
        /\ work'[n].local = work[n].local /\ work'[n].state = work[n].state
        /\ work'[n].source = work[n].source /\ work'[n].used = work[n].used
        /\ work'[n].result = work[n].result
    BY <1>4, <2>2
  <2>4. work'[n].attempt \in [Keys -> Attempts]
    BY <2>1, <2>3 DEF IsWork, Attempts
  <2> QED BY <2>1, <2>3, <2>4 DEF IsWork
<1>6. Shape'
  <2>1. \A m \in DOMAIN work' : IsWork(work'[m])
    BY <1>1, <1>4, <1>5 DEF Shape
  <2> QED BY <1>1, <1>3, <1>4, <2>1 DEF Shape
<1>7. \A m \in DOMAIN work' :
         /\ work'[m].owned = work[m].owned /\ work'[m].direct = work[m].direct
         /\ work'[m].local = work[m].local /\ work'[m].state = work[m].state
         /\ work'[m].source = work[m].source /\ work'[m].used = work[m].used
         /\ work'[m].result = work[m].result
  BY <1>4, <1>5
<1>8. ValuesOK'
  BY <1>1, <1>3, <1>4, <1>7 DEF ValuesOK, IsValue
<1>9. JoinedKeysAreReserved'
  BY <1>1, <1>3 DEF JoinedKeysAreReserved, Missing
<1>10. \A m \in DOMAIN work', k \in Keys :
         /\ work'[m].attempt[k] = "dependencies"
              <=> work[m].attempt[k] = "dependencies" /\ Child(m, k) \in DOMAIN frame'
         /\ work'[m].attempt[k] # "none"
              => work[m].attempt[k] # "none" /\ work'[m].state = "attempt"
  <2>1. work[n].attempt \in [Keys -> Attempts]
    BY <1>1 DEF Shape, IsWork
  <2>2. \A k \in Keys : work'[n].attempt[k] = IF k = c THEN outcome ELSE work[n].attempt[k]
    BY <1>5, <2>1
  <2>3. ASSUME NEW m \in DOMAIN work, NEW k \in Keys
        PROVE  /\ work[m].attempt[k] = "dependencies" <=> Child(m, k) \in DOMAIN frame'
               /\ work[m].attempt[k] # "none" => work[m].state = "attempt"
    BY <1>1, <1>3 DEF ParentsWait
  <2>4. /\ outcome # "dependencies" /\ outcome # "none"
        /\ work[n].attempt[c] # "dependencies" /\ work[n].attempt[c] # "none"
    BY <1>3
  <2>5. ASSUME NEW m \in DOMAIN work, NEW k \in Keys
        PROVE  /\ work'[m].attempt[k] = "dependencies" <=> work[m].attempt[k] = "dependencies"
               /\ work'[m].attempt[k] # "none" => work[m].attempt[k] # "none"
    <3>1. CASE m = n
      BY <2>2, <2>4, <3>1
    <3>2. CASE m # n
      BY <1>4, <3>2
    <3> QED BY <3>1, <3>2
  <2> QED BY <1>4, <1>7, <2>3, <2>5
<1>11. EndsOnly
  <2>1. flight' = [k \in Keys |-> IF flight[k] \in DOMAIN work' THEN flight[k] ELSE NoNode]
    BY <1>1, <1>3, <1>4, FlightKept
  <2>2. \A m \in DOMAIN frame' : frame[m].state = "direct" => m \in DOMAIN work'
    BY <1>1, <1>3, <1>4 DEF FrameAndWork
  <2>3. \A m \in DOMAIN work' : work[m].direct => m \in DOMAIN frame'
    BY <1>1, <1>3, <1>4 DEF FrameAndWork
  <2> QED BY <1>3, <1>4, <1>7, <1>10, <2>1, <2>2, <2>3 DEF EndsOnly
<1> QED BY <1>6, <1>8, <1>9, <1>11, EndsOnlyKeeps

\* Cancel(r) ends the frame of the request.  That frame runs no direct work, since there is
\* nothing above it that owns keys.
LEMMA CancelKeeps ==
    ASSUME IInv, NEW r \in Requests, Cancel(r)
    PROVE  IInv'
<1>1. /\ Shape /\ ValuesOK /\ FlightsHaveProducers /\ JoinedKeysAreReserved /\ FrameAndWork
      /\ ParentsWait /\ Inherited
  BY DEF IInv
<1>2. /\ request' = [request EXCEPT ![r] = "cancelled"] /\ request[r] = "running"
      /\ frame' = Without(frame, Root(r))
      /\ UNCHANGED <<memo, cache, flight, work, expired, versions, forgets>>
  BY DEF Cancel
<1>3. /\ DOMAIN frame' = DOMAIN frame \ {Root(r)} /\ frame' = [m \in DOMAIN frame' |-> frame'[m]]
      /\ \A m \in DOMAIN frame' : frame'[m] = frame[m]
  BY <1>2 DEF Without
<1>4. ASSUME Root(r) \in DOMAIN work
      PROVE  ~work[Root(r)].direct
  <2>1. Root(r)[2] = <<>> /\ Len(Root(r)[2]) = 0
    BY RootIsNode
  <2>2. Awaited(Root(r))
    BY <2>1 DEF Awaited, Path
  <2>3. ASSUME NEW k \in work[Root(r)].local PROVE FALSE
    <3>1. flight[k] \in DOMAIN work /\ \E j \in Keys : Below(Root(r), flight[k], j)
      BY <1>1, <1>4, <2>2 DEF Inherited
    <3>2. Len(flight[k][2]) \in Nat
      BY <1>1, <3>1 DEF Shape, AnyNode
    <3> QED BY <2>1, <3>1, <3>2 DEF Below
  <2>4. work[Root(r)].owned # {}
    BY <1>1, <1>4 DEF Shape, IsWork
  <2> QED BY <1>1, <1>4, <2>3, <2>4 DEF FrameAndWork
<1>5. Shape'
  BY <1>1, <1>2, <1>3 DEF Shape
<1>6. ValuesOK'
  BY <1>1, <1>2, <1>3 DEF ValuesOK, IsValue
<1>7. JoinedKeysAreReserved'
  BY <1>1, <1>2, <1>3 DEF JoinedKeysAreReserved, Missing
<1>8. EndsOnly
  <2>1. flight' = [k \in Keys |-> IF flight[k] \in DOMAIN work' THEN flight[k] ELSE NoNode]
    BY <1>1, <1>2, FlightKept
  <2>2. \A m \in DOMAIN frame' : frame[m].state = "direct" => m \in DOMAIN work'
    BY <1>1, <1>2, <1>3 DEF FrameAndWork
  <2>3. \A m \in DOMAIN work' : work[m].direct => m \in DOMAIN frame'
    BY <1>1, <1>2, <1>3, <1>4 DEF FrameAndWork
  <2>4. \A m \in DOMAIN work', k \in Keys :
          /\ work'[m].attempt[k] = "dependencies"
                <=> work[m].attempt[k] = "dependencies" /\ Child(m, k) \in DOMAIN frame'
          /\ work'[m].attempt[k] # "none"
                => work[m].attempt[k] # "none" /\ work'[m].state = "attempt"
    <3>1. \A m \in DOMAIN work, k \in Keys : Child(m, k) # Root(r)
      BY <1>1, ChildIsNode, RootIsNode DEF Shape
    <3> QED BY <1>1, <1>2, <1>3, <3>1 DEF ParentsWait
  <2>5. \A q \in Requests : request'[q] = "new" => request[q] = "new"
    BY <1>1, <1>2 DEF Shape
  <2> QED BY <1>2, <1>3, <2>1, <2>2, <2>3, <2>4, <2>5 DEF EndsOnly
<1> QED BY <1>5, <1>6, <1>7, <1>8, EndsOnlyKeeps

\* A deadline passes, a cache entry goes, or nothing happens.
LEMMA OthersKeep ==
    ASSUME IInv, \/ \E r \in Requests : Expire(r)
                 \/ \E k \in Keys : Forget(k)
                 \/ UNCHANGED vars
    PROVE  IInv'
<1>1. /\ Shape /\ ValuesOK /\ FlightsHaveProducers /\ JoinedKeysAreReserved /\ FrameAndWork
      /\ ParentsWait
  BY DEF IInv
<1>2. UNCHANGED <<request, memo, flight, frame, work, versions>>
  BY DEF Expire, Forget, vars
<1>3. expired' \subseteq Timed
  BY <1>1 DEF Shape, Expire, Forget, vars
<1>4. cache' = [k \in Keys |-> cache'[k]] /\ \A k \in Keys : cache'[k] \in {cache[k], NoValue}
  <2>1. cache = [k \in Keys |-> cache[k]]
    BY <1>1 DEF ValuesOK
  <2> QED BY <2>1 DEF Expire, Forget, vars
<1>5. Shape'
  BY <1>1, <1>2, <1>3 DEF Shape
<1>6. ValuesOK'
  <2>1. IsValue(NoValue) /\ NoValue # Failure
    BY <1>1, NoValueIsNoFailure DEF ValuesOK, IsValue, NoValue
  <2>2. \A k \in Keys : IsValue(cache'[k]) /\ cache'[k] # Failure
    BY <1>1, <1>4, <2>1 DEF ValuesOK
  <2>3. \A v : IsValue(v) => IsValue(v)'
    BY <1>2 DEF IsValue
  <2> QED BY <1>1, <1>2, <1>4, <2>2, <2>3 DEF ValuesOK, Failure
<1>7. JoinedKeysAreReserved'
  BY <1>1, <1>2 DEF JoinedKeysAreReserved, Missing
<1>8. EndsOnly
  <2>1. flight' = [k \in Keys |-> IF flight[k] \in DOMAIN work' THEN flight[k] ELSE NoNode]
    BY <1>1, <1>2, FlightKept
  <2>2. \A m \in DOMAIN frame' : frame[m].state = "direct" => m \in DOMAIN work'
    BY <1>1, <1>2 DEF FrameAndWork
  <2>3. \A m \in DOMAIN work' : work[m].direct => m \in DOMAIN frame'
    BY <1>1, <1>2 DEF FrameAndWork
  <2>4. \A m \in DOMAIN work', k \in Keys :
          /\ work'[m].attempt[k] = "dependencies"
                <=> work[m].attempt[k] = "dependencies" /\ Child(m, k) \in DOMAIN frame'
          /\ work'[m].attempt[k] # "none"
                => work[m].attempt[k] # "none" /\ work'[m].state = "attempt"
    BY <1>1, <1>2 DEF ParentsWait
  <2> QED BY <1>2, <2>1, <2>2, <2>3, <2>4 DEF EndsOnly
<1> QED BY <1>5, <1>6, <1>7, <1>8, EndsOnlyKeeps

-----------------------------------------------------------------------------
\* Return(n) hands the values of a frame to the request, or to the attempt that asked.
LEMMA ReturnKeeps ==
    ASSUME IInv, NEW n \in DOMAIN frame, Return(n)
    PROVE  IInv'
<1>1. /\ Shape /\ ValuesOK /\ FlightsHaveProducers /\ JoinedKeysAreReserved /\ FrameAndWork
      /\ ParentsWait
  BY DEF IInv
<1>2. /\ frame[n].state = "join" /\ frame' = Without(frame, n) /\ Pin(n)
      /\ UNCHANGED <<cache, flight, expired, versions, forgets>>
  BY DEF Return
<1>3. n \in AnyNode /\ n[1] \in Requests
  BY <1>1 DEF Shape, AnyNode
<1>4. /\ DOMAIN frame' = DOMAIN frame \ {n} /\ frame' = [m \in DOMAIN frame' |-> frame'[m]]
      /\ \A m \in DOMAIN frame' : frame'[m] = frame[m]
  BY <1>2 DEF Without
<1>5. n \in DOMAIN work => ~work[n].direct
  BY <1>1, <1>2 DEF FrameAndWork
<1>6. /\ memo' = [q \in Requests |-> [k \in Keys |-> memo'[q][k]]]
      /\ \A q \in Requests, k \in Keys : IsValue(memo'[q][k]) /\ memo'[q][k] # Failure
  BY <1>1, <1>2, PinKeeps
<1>7. /\ request' \in [Requests -> {"new", "running", "done", "late", "cancelled"}]
      /\ \A r \in Requests : request'[r] = "new" => request[r] = "new"
  <2>1. request' = request
           \/ request' = [request EXCEPT ![n[1]] = IF Expired(n) THEN "late" ELSE "done"]
    BY DEF Return
  <2> QED BY <1>1, <1>3, <2>1 DEF Shape
\* The works: only the attempt that waited for the frame changes.
<1>8. /\ DOMAIN work' = DOMAIN work /\ work' = [m \in DOMAIN work' |-> work'[m]]
      /\ \A m \in DOMAIN work' :
            /\ IsWork(work'[m])
            /\ work'[m].owned = work[m].owned /\ work'[m].direct = work[m].direct
            /\ work'[m].local = work[m].local /\ work'[m].state = work[m].state
            /\ work'[m].source = work[m].source /\ work'[m].result = work[m].result
            /\ \A k \in Keys :
                  /\ Child(m, k) # n => work'[m].attempt[k] = work[m].attempt[k]
                  /\ Child(m, k) = n => work'[m].attempt[k] \in {"failed", "deriving"}
                  /\ DOMAIN work'[m].used[k] \subseteq Keys
  <2>1. CASE IsRoot(n)
    <3>1. work' = work
      BY <2>1 DEF Return
    <3>2. \A m \in DOMAIN work, k \in Keys : Child(m, k) # n
      BY <1>1, <2>1, ChildIsNode DEF Shape, IsRoot, Path
    <3> QED BY <1>1, <3>1, <3>2 DEF Shape, ValuesOK
  <2>2. CASE ~IsRoot(n)
    <3>1. PICK p \in DOMAIN work, c \in Keys : n = Child(p, c)
      BY <1>1, <2>2 DEF ParentsWait, IsRoot, Path
    <3>2. p \in AnyNode
      BY <1>1 DEF Shape
    <3>3. Parent(n) = p /\ Last(Path(n)) = c
      BY <3>1, <3>2, ParentOfChild
    <3>4. PICK a \in {"failed", "deriving"}, u \in {[x \in frame[n].keys |-> frame[n].values[x].version]} :
             work' = [work EXCEPT ![p] = [work[p] EXCEPT !.attempt[c] = a, !.used[c] = u]]
      BY <2>2, <3>3 DEF Return
    <3>5. IsWork(work[p])
      BY <1>1 DEF Shape
    <3>6. /\ DOMAIN work[p] = {"state", "owned", "direct", "local", "source", "attempt", "used",
                               "result"}
          /\ work[p].attempt \in [Keys -> Attempts] /\ work[p].used = [k \in Keys |-> work[p].used[k]]
      BY <3>5 DEF IsWork
    <3>7. /\ DOMAIN work' = DOMAIN work /\ work' = [m \in DOMAIN work' |-> work'[m]]
          /\ work'[p] = [work[p] EXCEPT !.attempt[c] = a, !.used[c] = u]
          /\ \A m \in DOMAIN work : m # p => work'[m] = work[m]
      BY <3>4
    <3>8. /\ DOMAIN work'[p] = DOMAIN work[p]
          /\ work'[p].owned = work[p].owned /\ work'[p].direct = work[p].direct
          /\ work'[p].local = work[p].local /\ work'[p].state = work[p].state
          /\ work'[p].source = work[p].source /\ work'[p].result = work[p].result
      BY <3>6, <3>7
    <3>9. /\ work'[p].attempt = [work[p].attempt EXCEPT ![c] = a]
          /\ work'[p].used = [work[p].used EXCEPT ![c] = u]
      BY <3>6, <3>7
    <3>10. DOMAIN u \subseteq Keys
      <4>1. frame[n].keys \subseteq Keys
        BY <1>1 DEF Shape, IsFrame
      <4> QED BY <3>4, <4>1
    <3>11. /\ work'[p].attempt \in [Keys -> Attempts]
           /\ work'[p].used = [k \in Keys |-> work'[p].used[k]]
      BY <3>6, <3>9 DEF Attempts
    <3>12. IsWork(work'[p])
      BY <3>5, <3>8, <3>11 DEF IsWork
    <3>13. \A k \in Keys : Child(p, k) = n <=> k = c
      BY <3>1, <3>2, ChildInjective
    <3>14. \A m \in DOMAIN work, k \in Keys : m # p => Child(m, k) # n
      BY <1>1, <3>1, <3>2, ChildInjective DEF Shape
    <3>15. \A k \in Keys :
              /\ work'[p].attempt[k] = IF k = c THEN a ELSE work[p].attempt[k]
              /\ work'[p].used[k] = IF k = c THEN u ELSE work[p].used[k]
      BY <3>6, <3>9
    <3>16. \A k \in Keys :
              /\ Child(p, k) # n => work'[p].attempt[k] = work[p].attempt[k]
              /\ Child(p, k) = n => work'[p].attempt[k] \in {"failed", "deriving"}
              /\ DOMAIN work'[p].used[k] \subseteq Keys
      BY <1>1, <3>10, <3>13, <3>15 DEF ValuesOK
    <3>17. ASSUME NEW m \in DOMAIN work'
           PROVE  /\ IsWork(work'[m])
                  /\ work'[m].owned = work[m].owned /\ work'[m].direct = work[m].direct
                  /\ work'[m].local = work[m].local /\ work'[m].state = work[m].state
                  /\ work'[m].source = work[m].source /\ work'[m].result = work[m].result
                  /\ \A k \in Keys :
                        /\ Child(m, k) # n => work'[m].attempt[k] = work[m].attempt[k]
                        /\ Child(m, k) = n => work'[m].attempt[k] \in {"failed", "deriving"}
                        /\ DOMAIN work'[m].used[k] \subseteq Keys
      <4>1. CASE m = p
        BY <3>8, <3>12, <3>16, <4>1
      <4>2. CASE m # p
        <5>1. m \in DOMAIN work /\ work'[m] = work[m] /\ IsWork(work[m])
          BY <1>1, <3>7, <4>2 DEF Shape
        <5>2. \A k \in Keys : Child(m, k) # n /\ DOMAIN work[m].used[k] \subseteq Keys
          BY <1>1, <3>14, <4>2, <5>1 DEF ValuesOK
        <5> QED BY <5>1, <5>2
      <4> QED BY <4>1, <4>2
    <3> QED BY <3>7, <3>17
  <2> QED BY <2>1, <2>2
<1>9. Shape'
  BY <1>1, <1>2, <1>4, <1>7, <1>8 DEF Shape
<1>10. ValuesOK'
  <2>1. \A v : IsValue(v) => IsValue(v)'
    BY <1>2 DEF IsValue
  <2>2. /\ versions' \in Nat /\ cache' = [k \in Keys |-> cache'[k]]
        /\ \A k \in Keys : IsValue(cache'[k]) /\ cache'[k] # Failure
    BY <1>1, <1>2 DEF ValuesOK
  <2>3. \A m \in DOMAIN frame', k \in Keys :
           /\ IsValue(frame'[m].values[k])
           /\ frame'[m].state = "split" => frame'[m].values[k] # Failure
    BY <1>1, <1>4 DEF ValuesOK
  <2>4. \A m \in DOMAIN work', k \in Keys :
           IsValue(work'[m].result[k]) /\ DOMAIN work'[m].used[k] \subseteq Keys
    BY <1>1, <1>8 DEF ValuesOK
  <2> QED BY <1>6, <2>1, <2>2, <2>3, <2>4 DEF ValuesOK, Failure
<1>11. JoinedKeysAreReserved'
  BY <1>1, <1>2, <1>4 DEF JoinedKeysAreReserved, Missing
<1>12. EndsOnly
  <2>1. flight' = [k \in Keys |-> IF flight[k] \in DOMAIN work' THEN flight[k] ELSE NoNode]
    BY <1>1, <1>2, <1>8, FlightKept
  <2>2. \A m \in DOMAIN frame' : frame[m].state = "direct" => m \in DOMAIN work'
    BY <1>1, <1>4, <1>8 DEF FrameAndWork
  <2>3. \A m \in DOMAIN work' : work[m].direct => m \in DOMAIN frame'
    BY <1>1, <1>4, <1>5, <1>8 DEF FrameAndWork
  <2>4. ASSUME NEW m \in DOMAIN work', NEW k \in Keys
        PROVE  /\ work'[m].attempt[k] = "dependencies"
                    <=> work[m].attempt[k] = "dependencies" /\ Child(m, k) \in DOMAIN frame'
               /\ work'[m].attempt[k] # "none"
                    => work[m].attempt[k] # "none" /\ work'[m].state = "attempt"
    <3>1. /\ work[m].attempt[k] = "dependencies" <=> Child(m, k) \in DOMAIN frame
          /\ work[m].attempt[k] # "none" => work[m].state = "attempt"
          /\ work'[m].state = work[m].state
      BY <1>1, <1>8 DEF ParentsWait
    <3>2. CASE Child(m, k) = n
      BY <1>4, <1>8, <3>1, <3>2
    <3>3. CASE Child(m, k) # n
      BY <1>4, <1>8, <3>1, <3>3
    <3> QED BY <3>2, <3>3
  <2> QED BY <1>2, <1>4, <1>7, <1>8, <2>1, <2>2, <2>3, <2>4 DEF EndsOnly
<1> QED BY <1>9, <1>10, <1>11, <1>12, EndsOnlyKeeps

-----------------------------------------------------------------------------
\* IsValue when b versions were given out.
Within(b, v) == v.version \in 0..b \cup {-1} /\ DOMAIN v.deps \subseteq Keys

\* The payloads of an attempt become values with a version of their own.
LEMMA PayloadsAccepted ==
    ASSUME Shape, ValuesOK, NEW n \in DOMAIN work, AcceptPayloads(n)
    PROVE  /\ versions' \in Nat
           /\ \A v : IsValue(v) => Within(versions', v)
           /\ \A k \in Keys : \A v : v = Put(n, memo[n[1]])[k] => Within(versions', v) /\ v # Failure
           /\ \A k \in Keys : \A v : v = Put(n, cache)[k] => Within(versions', v) /\ v # Failure
           /\ \A k \in Keys : \A v : v = Put(n, work[n].result)[k] => Within(versions', v)
           /\ memo' = [q \in Requests |-> [k \in Keys |-> memo'[q][k]]]
           /\ \A q \in Requests, k \in Keys : Within(versions', memo'[q][k]) /\ memo'[q][k] # Failure
<1>1. /\ versions \in Nat /\ versions' \in Nat /\ versions' >= versions
      /\ Got(n) # {} => versions' = versions + 1
  BY DEF AcceptPayloads, ValuesOK
<1>2. \A v : IsValue(v) => Within(versions', v)
  BY <1>1 DEF IsValue, Within
<1>3. n[1] \in Requests
  BY DEF Shape, AnyNode
<1>4. ASSUME NEW k \in Got(n), NEW v, v = Payload(n, k)
      PROVE  Within(versions', v) /\ v # Failure
  <2>1. k \in Keys
    BY DEF Got
  <2>2. v.version = versions + 1 /\ v.deps = work[n].used[k]
    BY <1>4 DEF Payload
  <2>3. DOMAIN work[n].used[k] \subseteq Keys
    BY <2>1 DEF ValuesOK
  <2>4. v.version # -1 /\ Failure.version = -1
    BY <1>1, <2>2 DEF Failure
  <2> QED BY <1>1, <1>4, <2>2, <2>3, <2>4 DEF Within
<1>5. \A values : \A k \in Keys : Put(n, values)[k] = IF k \in Got(n) THEN Payload(n, k) ELSE values[k]
  BY DEF Put
<1>6. \A k \in Keys : \A v : v = Put(n, memo[n[1]])[k] => Within(versions', v) /\ v # Failure
  <2>1. \A k \in Keys : IsValue(memo[n[1]][k]) /\ memo[n[1]][k] # Failure
    BY <1>3 DEF ValuesOK
  <2>2. ASSUME NEW k \in Keys, NEW v, v = Put(n, memo[n[1]])[k]
        PROVE  Within(versions', v) /\ v # Failure
    <3>1. CASE k \in Got(n)
      BY <1>4, <1>5, <2>2, <3>1
    <3>2. CASE k \notin Got(n)
      BY <1>2, <1>5, <2>1, <2>2, <3>2
    <3> QED BY <3>1, <3>2
  <2> QED BY <2>2
<1>7. \A k \in Keys : \A v : v = Put(n, cache)[k] => Within(versions', v) /\ v # Failure
  <2>1. \A k \in Keys : IsValue(cache[k]) /\ cache[k] # Failure
    BY DEF ValuesOK
  <2>2. ASSUME NEW k \in Keys, NEW v, v = Put(n, cache)[k]
        PROVE  Within(versions', v) /\ v # Failure
    <3>1. CASE k \in Got(n)
      BY <1>4, <1>5, <2>2, <3>1
    <3>2. CASE k \notin Got(n)
      BY <1>2, <1>5, <2>1, <2>2, <3>2
    <3> QED BY <3>1, <3>2
  <2> QED BY <2>2
<1>8. \A k \in Keys : \A v : v = Put(n, work[n].result)[k] => Within(versions', v)
  <2>1. \A k \in Keys : IsValue(work[n].result[k])
    BY DEF ValuesOK
  <2>2. ASSUME NEW k \in Keys, NEW v, v = Put(n, work[n].result)[k]
        PROVE  Within(versions', v)
    <3>1. CASE k \in Got(n)
      BY <1>4, <1>5, <2>2, <3>1
    <3>2. CASE k \notin Got(n)
      BY <1>2, <1>5, <2>1, <2>2, <3>2
    <3> QED BY <3>1, <3>2
  <2> QED BY <2>2
<1>9. memo' = [memo EXCEPT ![n[1]] = Put(n, memo[n[1]])]
  BY DEF AcceptPayloads
<1>10. DOMAIN memo = Requests /\ \A q \in Requests : memo[q] = [k \in Keys |-> memo[q][k]]
  BY DEF ValuesOK
<1>11. memo' = [q \in Requests |-> IF q = n[1] THEN Put(n, memo[n[1]]) ELSE memo[q]]
  BY <1>9, <1>10
<1>12. memo' = [q \in Requests |-> [k \in Keys |-> memo'[q][k]]]
  <2>1. Put(n, memo[n[1]]) = [k \in Keys |-> Put(n, memo[n[1]])[k]]
    BY DEF Put
  <2>2. \A q \in Requests : memo'[q] = [k \in Keys |-> memo'[q][k]]
    BY <1>10, <1>11, <2>1
  <2> QED BY <1>11, <2>2
<1>13. ASSUME NEW q \in Requests, NEW k \in Keys
       PROVE  Within(versions', memo'[q][k]) /\ memo'[q][k] # Failure
  <2>1. CASE q = n[1]
    <3>1. memo'[q][k] = Put(n, memo[n[1]])[k]
      BY <1>11, <2>1
    <3> QED BY <1>6, <3>1
  <2>2. CASE q # n[1]
    <3>1. memo'[q][k] = memo[q][k] /\ IsValue(memo[q][k]) /\ memo[q][k] # Failure
      BY <1>11, <2>2 DEF ValuesOK
    <3> QED BY <1>2, <3>1
  <2> QED BY <2>1, <2>2
<1> QED BY <1>1, <1>2, <1>6, <1>7, <1>8, <1>12, <1>13

\* Accept(n) goes on to the next source.
LEMMA AcceptKeeps ==
    ASSUME IInv, NEW n \in DOMAIN work, Accept(n)
    PROVE  IInv'
<1>1. /\ Shape /\ ValuesOK /\ FlightsHaveProducers /\ JoinedKeysAreReserved /\ FrameAndWork
      /\ ParentsWait
  BY DEF IInv
<1> DEFINE none == [k \in Keys |-> "none"]
           unused == [k \in Keys |-> <<>>]
           result == Put(n, work[n].result)
<1>2. /\ AcceptPayloads(n) /\ cache' = Put(n, cache)
      /\ UNCHANGED <<request, flight, frame, expired, forgets>>
  BY DEF Accept
<1>3. /\ versions' \in Nat
      /\ \A v : IsValue(v) => Within(versions', v)
      /\ \A k \in Keys : \A v : v = Put(n, cache)[k] => Within(versions', v) /\ v # Failure
      /\ \A k \in Keys : \A v : v = Put(n, work[n].result)[k] => Within(versions', v)
      /\ memo' = [q \in Requests |-> [k \in Keys |-> memo'[q][k]]]
      /\ \A q \in Requests, k \in Keys : Within(versions', memo'[q][k]) /\ memo'[q][k] # Failure
  BY <1>1, <1>2, PayloadsAccepted
<1>4. /\ DOMAIN work' = DOMAIN work /\ work' = [m \in DOMAIN work' |-> work'[m]]
      /\ \A m \in DOMAIN work : m # n => work'[m] = work[m]
  BY DEF Accept
<1>5. /\ DOMAIN work'[n] = DOMAIN work[n] /\ work'[n].state = "select"
      /\ work'[n].source = work[n].source + 1 /\ work'[n].attempt = none
      /\ work'[n].result = result /\ work'[n].used = unused
      /\ work'[n].owned = work[n].owned /\ work'[n].direct = work[n].direct
      /\ work'[n].local = work[n].local
  <2>1. DOMAIN work[n] = {"state", "owned", "direct", "local", "source", "attempt", "used", "result"}
    BY <1>1 DEF Shape, IsWork
  <2> QED BY <2>1 DEF Accept
<1>6. IsWork(work'[n])
  <2>1. IsWork(work[n])
    BY <1>1 DEF Shape
  <2>2. none \in [Keys -> Attempts] /\ unused = [k \in Keys |-> unused[k]]
    BY DEF Attempts
  <2>3. result = [k \in Keys |-> result[k]]
    BY DEF Put
  <2>4. work[n].source + 1 \in Nat \ {0}
    BY <2>1 DEF IsWork
  <2> HIDE DEF none, unused, result
  <2> QED BY <1>5, <2>1, <2>2, <2>3, <2>4 DEF IsWork
<1>7. \A m \in DOMAIN work', k \in Keys :
         Within(versions', work'[m].result[k]) /\ DOMAIN work'[m].used[k] \subseteq Keys
  <2>1. \A k \in Keys : Within(versions', work'[n].result[k]) /\ DOMAIN work'[n].used[k] \subseteq Keys
    <3>1. \A k \in Keys : DOMAIN unused[k] = {}
      OBVIOUS
    <3>2. \A k \in Keys : \A v : v = work'[n].result[k] => Within(versions', v)
      BY <1>3, <1>5
    <3> QED BY <1>5, <3>1, <3>2
  <2>2. ASSUME NEW m \in DOMAIN work, m # n, NEW k \in Keys
        PROVE  Within(versions', work'[m].result[k]) /\ DOMAIN work'[m].used[k] \subseteq Keys
    <3>1. work'[m] = work[m] /\ IsValue(work[m].result[k]) /\ DOMAIN work[m].used[k] \subseteq Keys
      BY <1>1, <1>4, <2>2 DEF ValuesOK
    <3> QED BY <1>3, <3>1
  <2> QED BY <1>4, <2>1, <2>2
<1> HIDE DEF none, unused, result
<1>8. none = [k \in Keys |-> "none"]
  BY DEF none
<1>9. Shape'
  <2>1. \A m \in DOMAIN work' : IsWork(work'[m])
    BY <1>1, <1>4, <1>6 DEF Shape
  <2> QED BY <1>1, <1>2, <1>4, <2>1 DEF Shape
<1>10. ValuesOK'
  <2>1. cache' = [k \in Keys |-> cache'[k]] /\ \A k \in Keys : Within(versions', cache'[k]) /\ cache'[k] # Failure
    <3>1. cache' = [k \in Keys |-> cache'[k]]
      BY <1>2 DEF Put
    <3>2. \A k \in Keys : \A v : v = cache'[k] => Within(versions', v) /\ v # Failure
      BY <1>2, <1>3
    <3> QED BY <3>1, <3>2
  <2>2. \A m \in DOMAIN frame', k \in Keys :
           /\ Within(versions', frame'[m].values[k])
           /\ frame'[m].state = "split" => frame'[m].values[k] # Failure
    <3>1. frame' = frame /\ \A m \in DOMAIN frame, k \in Keys :
             /\ IsValue(frame[m].values[k])
             /\ frame[m].state = "split" => frame[m].values[k] # Failure
      BY <1>1, <1>2 DEF ValuesOK
    <3> QED BY <1>3, <3>1
  <2> QED BY <1>3, <1>7, <2>1, <2>2 DEF ValuesOK, Failure, IsValue, Within
<1>11. JoinedKeysAreReserved'
  BY <1>1, <1>2 DEF JoinedKeysAreReserved, Missing
<1>12. EndsOnly
  <2>1. flight' = [k \in Keys |-> IF flight[k] \in DOMAIN work' THEN flight[k] ELSE NoNode]
    BY <1>1, <1>2, <1>4, FlightKept
  <2>2. \A m \in DOMAIN frame' : frame[m].state = "direct" => m \in DOMAIN work'
    BY <1>1, <1>2, <1>4 DEF FrameAndWork
  <2>3. \A m \in DOMAIN work' : work[m].direct => m \in DOMAIN frame'
    BY <1>1, <1>2, <1>4 DEF FrameAndWork
  <2>4. ASSUME NEW m \in DOMAIN work', NEW k \in Keys
        PROVE  /\ work'[m].attempt[k] = "dependencies"
                    <=> work[m].attempt[k] = "dependencies" /\ Child(m, k) \in DOMAIN frame'
               /\ work'[m].attempt[k] # "none"
                    => work[m].attempt[k] # "none" /\ work'[m].state = "attempt"
    <3>1. CASE m = n
      <4>1. work'[m].attempt[k] = "none" /\ work[m].attempt[k] \in {"none", "ok", "failed"}
        BY <1>2, <1>5, <1>8, <3>1 DEF AcceptPayloads
      <4> QED BY <4>1
    <3>2. CASE m # n
      <4>1. m \in DOMAIN work /\ work'[m] = work[m] /\ frame' = frame
        BY <1>2, <1>4, <3>2
      <4>2. /\ work[m].attempt[k] = "dependencies" <=> Child(m, k) \in DOMAIN frame
            /\ work[m].attempt[k] # "none" => work[m].state = "attempt"
        BY <1>1, <4>1 DEF ParentsWait
      <4> QED BY <4>1, <4>2
    <3> QED BY <3>1, <3>2
  <2>5. \A m \in DOMAIN work' :
          /\ work'[m].owned = work[m].owned /\ work'[m].local = work[m].local
          /\ work'[m].direct = work[m].direct
          /\ \/ work'[m].state = work[m].state /\ work'[m].source = work[m].source
             \/ work'[m].state = "select" /\ work'[m].source = work[m].source + 1
    BY <1>4, <1>5
  <2> QED BY <1>2, <1>4, <2>1, <2>2, <2>3, <2>4, <2>5 DEF EndsOnly
<1> QED BY <1>9, <1>10, <1>11, <1>12, EndsOnlyKeeps

\* AcceptRaises(n) ends the work, its reservations and the frames that wait for its keys.
LEMMA AcceptRaisesKeeps ==
    ASSUME IInv, NEW n \in DOMAIN work, AcceptRaises(n)
    PROVE  IInv'
<1>1. /\ Shape /\ ValuesOK /\ FlightsHaveProducers /\ JoinedKeysAreReserved /\ FrameAndWork
      /\ ParentsWait
  BY DEF IInv
<1> DEFINE S == IF work[n].direct THEN {n} ELSE Waiting(work[n].owned)
           ws == Without(work, n)
<1>2. /\ AcceptPayloads(n) /\ Raise(S, ws) /\ cache' \in {cache, Put(n, cache)}
      /\ flight' = [k \in Keys |-> IF flight[k] = n THEN NoNode ELSE flight[k]]
      /\ UNCHANGED <<expired, forgets>>
  BY DEF AcceptRaises
<1>3. \A k \in Keys : work[n].attempt[k] \in {"none", "ok", "failed"}
  BY <1>2 DEF AcceptPayloads
<1>4. /\ versions' \in Nat
      /\ \A v : IsValue(v) => Within(versions', v)
      /\ \A k \in Keys : \A v : v = Put(n, cache)[k] => Within(versions', v) /\ v # Failure
      /\ memo' = [q \in Requests |-> [k \in Keys |-> memo'[q][k]]]
      /\ \A q \in Requests, k \in Keys : Within(versions', memo'[q][k]) /\ memo'[q][k] # Failure
  BY <1>1, <1>2, PayloadsAccepted
<1>5. S \subseteq DOMAIN frame
  BY <1>1 DEF Waiting, FrameAndWork
<1>6. DOMAIN ws = DOMAIN work \ {n} /\ \A m \in DOMAIN ws : ws[m] = work[m]
  BY DEF Without
\* Works that run directly, and their frames, stay together.
<1>7. /\ \A m \in DOMAIN ws : work[m].direct => m \in DOMAIN frame \ S
      /\ \A m \in DOMAIN frame \ S : frame[m].state = "direct" => m \in DOMAIN ws
  <2>1. CASE work[n].direct
    BY <1>1, <1>6, <2>1 DEF FrameAndWork
  <2>2. CASE ~work[n].direct
    BY <1>1, <1>6, <2>2 DEF FrameAndWork, Waiting
  <2> QED BY <2>1, <2>2
\* A frame that is left does not wait for a key of the work.
<1>8. ASSUME NEW m \in DOMAIN frame \ S, frame[m].state = "join", NEW k \in Missing(frame[m])
      PROVE  flight[k] # NoNode /\ flight[k] # n
  <2>1. flight[k] # NoNode /\ k \in Keys
    BY <1>1, <1>8 DEF JoinedKeysAreReserved, Missing, Shape, IsFrame
  <2>2. flight[k] = n => ~work[n].direct /\ k \in work[n].owned
    BY <1>1, <2>1 DEF FlightsHaveProducers
  <2>3. flight[k] = n => m \in S
    BY <1>8, <2>2 DEF Waiting
  <2> QED BY <2>1, <2>3
<1> HIDE DEF S, ws
<1>9. /\ DOMAIN frame' = DOMAIN frame \ S /\ frame' = [m \in DOMAIN frame' |-> frame'[m]]
      /\ \A m \in DOMAIN frame' : frame'[m] = frame[m]
      /\ request' \in [Requests -> {"new", "running", "done", "late", "cancelled"}]
      /\ \A r \in Requests : request'[r] = "new" => request[r] = "new"
      /\ DOMAIN work' = DOMAIN ws /\ work' = [m \in DOMAIN work' |-> work'[m]]
      /\ \A m \in DOMAIN work' :
            /\ IsWork(work'[m])
            /\ work'[m].owned = work[m].owned /\ work'[m].direct = work[m].direct
            /\ work'[m].local = work[m].local /\ work'[m].state = work[m].state
            /\ work'[m].source = work[m].source /\ work'[m].used = work[m].used
            /\ work'[m].result = work[m].result
      /\ \A m \in DOMAIN work', k \in Keys :
            /\ work'[m].attempt[k] = "dependencies"
                 <=> work[m].attempt[k] = "dependencies" /\ Child(m, k) \in DOMAIN frame'
            /\ work'[m].attempt[k] # "none"
                 => work[m].attempt[k] # "none" /\ work'[m].state = "attempt"
  BY <1>1, <1>2, <1>5, <1>6, Raised
<1>10. flight' \in [Keys -> AnyNode \cup {NoNode}]
  BY <1>1, <1>2 DEF Shape
<1>11. Shape'
  <2>1. expired' \subseteq Timed /\ DOMAIN frame \subseteq AnyNode /\ DOMAIN work \subseteq AnyNode
    BY <1>1, <1>2 DEF Shape
  <2>2. \A m \in DOMAIN frame' : IsFrame(frame'[m])
    BY <1>1, <1>9 DEF Shape
  <2>3. DOMAIN frame' \subseteq AnyNode /\ DOMAIN work' \subseteq AnyNode
    BY <1>6, <1>9, <2>1
  <2> QED BY <1>9, <1>10, <2>1, <2>2, <2>3 DEF Shape
<1>12. ValuesOK'
  <2>1. cache' = [k \in Keys |-> cache'[k]]
        /\ \A k \in Keys : Within(versions', cache'[k]) /\ cache'[k] # Failure
    <3>1. CASE cache' = cache
      BY <1>1, <1>4, <3>1 DEF ValuesOK
    <3>2. CASE cache' = Put(n, cache)
      <4>1. cache' = [k \in Keys |-> cache'[k]]
        BY <3>2 DEF Put
      <4> QED BY <1>4, <3>2, <4>1
    <3> QED BY <1>2, <3>1, <3>2
  <2>2. \A m \in DOMAIN frame', k \in Keys :
           /\ Within(versions', frame'[m].values[k])
           /\ frame'[m].state = "split" => frame'[m].values[k] # Failure
    <3>1. \A m \in DOMAIN frame, k \in Keys :
             /\ IsValue(frame[m].values[k])
             /\ frame[m].state = "split" => frame[m].values[k] # Failure
      BY <1>1 DEF ValuesOK
    <3> QED BY <1>4, <1>9, <3>1
  <2>3. \A m \in DOMAIN work', k \in Keys :
           Within(versions', work'[m].result[k]) /\ DOMAIN work'[m].used[k] \subseteq Keys
    <3>1. \A m \in DOMAIN work, k \in Keys :
             IsValue(work[m].result[k]) /\ DOMAIN work[m].used[k] \subseteq Keys
      BY <1>1 DEF ValuesOK
    <3> QED BY <1>4, <1>6, <1>9, <3>1
  <2> QED BY <1>4, <2>1, <2>2, <2>3 DEF ValuesOK, Failure, IsValue, Within
<1>13. JoinedKeysAreReserved'
  <2>1. ASSUME NEW m \in DOMAIN frame', frame'[m].state = "join", NEW k \in Missing(frame'[m])
        PROVE  flight'[k] # NoNode
    <3>1. m \in DOMAIN frame \ S /\ frame'[m] = frame[m]
      BY <1>9
    <3>2. k \in Keys
      BY <1>1, <3>1 DEF Missing, Shape, IsFrame
    <3> QED BY <1>2, <1>8, <2>1, <3>1, <3>2
  <2> QED BY <2>1 DEF JoinedKeysAreReserved, Missing, NoValue, NoNode
<1>14. EndsOnly
  <2>1. flight' = [k \in Keys |-> IF flight[k] \in DOMAIN work' THEN flight[k] ELSE NoNode]
    <3>1. n \notin DOMAIN work' /\ DOMAIN work' = DOMAIN work \ {n} /\ NoNode \notin DOMAIN work
      BY <1>1, <1>6, <1>9, NoNodeIsNone DEF Shape
    <3>2. \A k \in Keys : flight[k] = NoNode \/ flight[k] \in DOMAIN work
      BY <1>1 DEF FlightsHaveProducers
    <3> QED BY <1>2, <3>1, <3>2
  <2>2. DOMAIN work \ DOMAIN work' = {n}
    BY <1>6, <1>9
  <2> QED BY <1>3, <1>6, <1>7, <1>9, <2>1, <2>2 DEF EndsOnly
<1> QED BY <1>11, <1>12, <1>13, <1>14, EndsOnlyKeeps

\* Complete(n) of a producer sets the futures of its keys, and every frame that joined them
\* gets a value or the failure.
LEMMA ProducerCompletes ==
    ASSUME IInv, NEW n \in DOMAIN work, ~work[n].direct, Complete(n)
    PROVE  IInv'
<1>1. /\ Shape /\ ValuesOK /\ FlightsHaveProducers /\ JoinedKeysAreReserved /\ FrameAndWork
      /\ ParentsWait
  BY DEF IInv
<1> DEFINE result == [k \in Keys |-> IF k \in Open(n) \ Pinned(n) THEN Failure
                                     ELSE WithPinned(n)[k]]
           done == work[n].owned
           v(m) == [k \in Keys |-> IF k \in Missing(frame[m]) \cap done THEN result[k]
                                   ELSE frame[m].values[k]]
<1>2. /\ work[n].state = "select" /\ work' = Without(work, n)
      /\ flight' = [k \in Keys |-> IF k \in done THEN NoNode ELSE flight[k]]
      /\ frame' = [m \in DOMAIN frame |->
                      IF frame[m].state = "join" THEN [frame[m] EXCEPT !.values = v(m)]
                      ELSE frame[m]]
      /\ UNCHANGED <<request, memo, cache, expired, versions, forgets>>
  BY DEF Complete, Completed
<1>3. n[1] \in Requests /\ IsWork(work[n])
  BY <1>1 DEF Shape, AnyNode
<1>4. \A k \in Keys : IsValue(result[k])
  <2>1. IsValue(Failure)
    BY <1>1 DEF ValuesOK, IsValue, Failure
  <2>2. \A k \in Keys : IsValue(memo[n[1]][k]) /\ IsValue(work[n].result[k])
    BY <1>1, <1>3 DEF ValuesOK
  <2> QED BY <2>1, <2>2 DEF WithPinned
<1>5. \A k \in done : k \in Keys /\ result[k] # NoValue
  <2>1. done \subseteq Keys
    BY <1>3 DEF IsWork
  <2> QED BY <2>1, NoValueIsNoFailure DEF WithPinned, Open, Pinned
<1> HIDE DEF result
<1>6. /\ DOMAIN work' = DOMAIN work \ {n} /\ work' = [m \in DOMAIN work' |-> work'[m]]
      /\ \A m \in DOMAIN work' : work'[m] = work[m]
  BY <1>2 DEF Without
<1>7. /\ DOMAIN frame' = DOMAIN frame /\ frame' = [m \in DOMAIN frame' |-> frame'[m]]
      /\ \A m \in DOMAIN frame' :
            /\ IsFrame(frame'[m])
            /\ frame'[m].state = frame[m].state /\ frame'[m].keys = frame[m].keys
            /\ frame'[m].local = frame[m].local
            /\ frame[m].state # "join" => frame'[m] = frame[m]
            /\ frame[m].state = "join" => frame'[m].values = v(m)
  <2>1. DOMAIN frame' = DOMAIN frame /\ frame' = [m \in DOMAIN frame' |-> frame'[m]]
    BY <1>2
  <2>2. ASSUME NEW m \in DOMAIN frame
        PROVE  /\ IsFrame(frame'[m])
               /\ frame'[m].state = frame[m].state /\ frame'[m].keys = frame[m].keys
               /\ frame'[m].local = frame[m].local
               /\ frame[m].state # "join" => frame'[m] = frame[m]
               /\ frame[m].state = "join" => frame'[m].values = v(m)
    <3> DEFINE vm == v(m)
    <3>1. IsFrame(frame[m]) /\ DOMAIN frame[m] = {"state", "keys", "local", "values"}
      BY <1>1 DEF Shape, IsFrame
    <3>2. vm = [k \in Keys |-> vm[k]]
      OBVIOUS
    <3>3. frame'[m] = IF frame[m].state = "join" THEN [frame[m] EXCEPT !.values = vm]
                      ELSE frame[m]
      BY <1>2
    <3> HIDE DEF vm
    <3>4. /\ DOMAIN frame'[m] = DOMAIN frame[m]
          /\ frame'[m].state = frame[m].state /\ frame'[m].keys = frame[m].keys
          /\ frame'[m].local = frame[m].local
          /\ frame[m].state # "join" => frame'[m] = frame[m]
          /\ frame[m].state = "join" => frame'[m].values = vm
      BY <3>1, <3>3
    <3>5. IsFrame(frame'[m])
      BY <3>1, <3>2, <3>4 DEF IsFrame
    <3> QED BY <3>4, <3>5 DEF vm
  <2> QED BY <2>1, <2>2
<1>8. Shape'
  <2>1. flight' \in [Keys -> AnyNode \cup {NoNode}]
    BY <1>1, <1>2 DEF Shape
  <2> QED BY <1>1, <1>2, <1>6, <1>7, <2>1 DEF Shape
<1>9. ValuesOK'
  <2>1. \A u : IsValue(u) => Within(versions', u)
    BY <1>2 DEF IsValue, Within
  <2>2. /\ versions' \in Nat /\ cache' = [k \in Keys |-> cache'[k]]
        /\ memo' = [q \in Requests |-> [k \in Keys |-> memo'[q][k]]]
        /\ \A k \in Keys : Within(versions', cache'[k]) /\ cache'[k] # Failure
        /\ \A q \in Requests, k \in Keys : Within(versions', memo'[q][k]) /\ memo'[q][k] # Failure
    BY <1>1, <1>2, <2>1 DEF ValuesOK
  <2>3. ASSUME NEW m \in DOMAIN frame', NEW k \in Keys
        PROVE  /\ Within(versions', frame'[m].values[k])
               /\ frame'[m].state = "split" => frame'[m].values[k] # Failure
    <3>1. /\ IsValue(frame[m].values[k])
          /\ frame[m].state = "split" => frame[m].values[k] # Failure
      BY <1>1, <1>7 DEF ValuesOK
    <3>2. CASE frame[m].state = "join"
      <4>1. frame'[m].values[k] \in {result[k], frame[m].values[k]}
        BY <1>7, <3>2
      <4> QED BY <1>4, <1>7, <2>1, <3>1, <3>2, <4>1
    <3>3. CASE frame[m].state # "join"
      BY <1>7, <2>1, <3>1, <3>3
    <3> QED BY <3>2, <3>3
  <2>4. \A m \in DOMAIN work', k \in Keys :
           Within(versions', work'[m].result[k]) /\ DOMAIN work'[m].used[k] \subseteq Keys
    BY <1>1, <1>6, <2>1 DEF ValuesOK
  <2> QED BY <2>2, <2>3, <2>4 DEF ValuesOK, Failure, IsValue, Within
<1>10. JoinedKeysAreReserved'
  <2>1. ASSUME NEW m \in DOMAIN frame', frame'[m].state = "join", NEW k \in Missing(frame'[m])
        PROVE  flight'[k] # NoNode
    <3>1. /\ m \in DOMAIN frame /\ frame[m].state = "join" /\ k \in frame[m].keys
          /\ v(m)[k] = NoValue
      BY <1>7, <2>1 DEF Missing
    <3>2. k \in Keys
      BY <1>1, <3>1 DEF Shape, IsFrame
    <3>3. k \in Missing(frame[m]) /\ k \notin done
      BY <1>5, <3>1, <3>2 DEF Missing
    <3>4. flight[k] # NoNode
      BY <1>1, <3>1, <3>3 DEF JoinedKeysAreReserved
    <3> QED BY <1>2, <3>2, <3>3, <3>4
  <2> QED BY <2>1 DEF JoinedKeysAreReserved, Missing, NoValue, NoNode
<1>11. EndsOnly
  <2>1. flight' = [k \in Keys |-> IF flight[k] \in DOMAIN work' THEN flight[k] ELSE NoNode]
    <3>1. NoNode \notin DOMAIN work
      BY <1>1, NoNodeIsNone DEF Shape
    <3>2. \A k \in Keys : /\ flight[k] = NoNode \/ flight[k] \in DOMAIN work
                          /\ flight[k] = n <=> k \in done
      BY <1>1 DEF FlightsHaveProducers
    <3> QED BY <1>2, <1>6, <3>1, <3>2
  <2>2. \A m \in DOMAIN frame' : frame[m].state = "direct" => m \in DOMAIN work'
    BY <1>1, <1>6, <1>7 DEF FrameAndWork
  <2>3. \A m \in DOMAIN work' : work[m].direct => m \in DOMAIN frame'
    BY <1>1, <1>6, <1>7 DEF FrameAndWork
  <2>4. \A m \in DOMAIN work', k \in Keys :
          /\ work'[m].attempt[k] = "dependencies"
                <=> work[m].attempt[k] = "dependencies" /\ Child(m, k) \in DOMAIN frame'
          /\ work'[m].attempt[k] # "none"
                => work[m].attempt[k] # "none" /\ work'[m].state = "attempt"
    BY <1>1, <1>6, <1>7 DEF ParentsWait
  <2>5. \A m \in DOMAIN work \ DOMAIN work' : \A k \in Keys : work[m].attempt[k] # "dependencies"
    BY <1>1, <1>2, <1>6 DEF ParentsWait
  <2> QED BY <1>2, <1>6, <1>7, <2>1, <2>2, <2>3, <2>4, <2>5 DEF EndsOnly
<1> QED BY <1>8, <1>9, <1>10, <1>11, EndsOnlyKeeps

-----------------------------------------------------------------------------
\* Where nothing is below (n, k) there is no Child(n, k).
LEMMA FreshChild ==
    ASSUME NEW n \in AnyNode, NEW k \in Keys, Fresh(n, k)
    PROVE  Child(n, k) \notin Live
BY ChildBelow DEF Fresh

\* A node that is found on the way to m has m below it, or is m.
LEMMA ChildOnPath ==
    ASSUME NEW m \in AnyNode, NEW i \in 1..Len(m[2]), NEW n \in AnyNode, NEW k \in Keys,
           Prefix(m, i) = Child(n, k)
    PROVE  Below(m, n, k)
<1>1. n[2] \in Seq(Keys) /\ m[2] \in Seq(Keys) /\ Len(n[2]) \in Nat /\ Len(m[2]) \in Nat
  BY DEF AnyNode
<1>2. m[1] = n[1] /\ SubSeq(m[2], 1, i) = Append(n[2], k)
  BY DEF Prefix, Child
<1>3. Len(SubSeq(m[2], 1, i)) = i /\ \A j \in 1..i : SubSeq(m[2], 1, i)[j] = m[2][j]
  BY <1>1
<1>4. /\ Len(Append(n[2], k)) = Len(n[2]) + 1 /\ Append(n[2], k)[Len(n[2]) + 1] = k
      /\ \A j \in 1..Len(n[2]) : Append(n[2], k)[j] = n[2][j]
  BY <1>1
<1>5. i = Len(n[2]) + 1 /\ \A j \in 1..Len(n[2]) : m[2][j] = n[2][j]
  BY <1>1, <1>2, <1>3, <1>4
<1>6. m[2][Len(n[2]) + 1] = k
  BY <1>1, <1>2, <1>3, <1>4, <1>5
<1> QED BY <1>1, <1>2, <1>5, <1>6 DEF Below

\* A node that waits for no dependencies has no frame of dependencies below it.
LEMMA NoChildren ==
    ASSUME Shape, ParentsWait, NEW n \in AnyNode, NEW k \in Keys,
           n \in DOMAIN work => work[n].attempt[k] = "none"
    PROVE  Child(n, k) \notin DOMAIN frame
<1>1. SUFFICES ASSUME Child(n, k) \in DOMAIN frame PROVE FALSE
  OBVIOUS
<1>2. PICK p \in DOMAIN work, c \in Keys : Child(n, k) = Child(p, c)
  BY <1>1, ChildIsNode DEF ParentsWait
<1>3. n = p /\ k = c
  BY <1>2, ChildInjective DEF Shape
<1>4. work[n].attempt[k] = "dependencies"
  BY <1>1, <1>2, <1>3 DEF ParentsWait
<1> QED BY <1>2, <1>3, <1>4

\* A work for the keys of S that has not begun.
Begins(w, S, local) ==
    /\ IsWork(w) /\ w.state = "select" /\ w.owned = S /\ w.local = local /\ w.source = 1
    /\ \A k \in Keys : /\ w.attempt[k] = "none" /\ IsValue(w.result[k])
                       /\ DOMAIN w.used[k] \subseteq Keys

LEMMA NewWorkBegins ==
    ASSUME NEW S, S \subseteq Keys, S # {}, NEW local, local \subseteq Keys, versions \in Nat,
           NEW direct \in BOOLEAN
    PROVE  Begins(NewWork(S, direct, local), S, local)
<1> DEFINE w == NewWork(S, direct, local)
<1>1. /\ DOMAIN w = {"state", "owned", "direct", "local", "source", "attempt", "used", "result"}
      /\ w.state = "select" /\ w.owned = S /\ w.direct \in BOOLEAN /\ w.local = local
      /\ w.source = 1 /\ w.attempt = [k \in Keys |-> "none"] /\ w.used = [k \in Keys |-> <<>>]
      /\ w.result = Only({}, NoValue)
  BY DEF NewWork
<1> HIDE DEF w
<1>2. /\ Only({}, NoValue) = [k \in Keys |-> Only({}, NoValue)[k]]
      /\ \A k \in Keys : Only({}, NoValue)[k] = NoValue
  BY DEF Only
<1>3. IsValue(NoValue)
  BY DEF IsValue, NoValue
<1>4. IsWork(w)
  BY <1>1, <1>2 DEF IsWork, Attempts
<1> QED BY <1>1, <1>2, <1>3, <1>4 DEF w, Begins

-----------------------------------------------------------------------------
\* RunMany(n, f, flight, ws) joins the futures of the keys that are missing in frame n, which is
\* f by now, and starts a producer for those that nobody produces.  A direct work of n is over.
LEMMA RunManyKeeps ==
    ASSUME IInv, NEW n \in DOMAIN frame,
           NEW f, IsFrame(f), f.keys = frame[n].keys, f.local = frame[n].local,
           \A k \in Keys : IsValue(f.values[k]),
           \A k \in Missing(f) : Fresh(n, k),
           n \in DOMAIN work => /\ work[n].direct
                                /\ \A k \in Keys : work[n].attempt[k] = "none",
           NEW ws, DOMAIN ws = DOMAIN work \ {n}, ws = [m \in DOMAIN ws |-> work[m]],
           RunMany(n, f, flight, ws),
           UNCHANGED <<request, cache, expired, versions>>,
           memo' = [q \in Requests |-> [k \in Keys |-> memo'[q][k]]],
           \A q \in Requests, k \in Keys : IsValue(memo'[q][k]) /\ memo'[q][k] # Failure
    PROVE  IInv'
<1> DEFINE owned == Unreserved(Missing(f))
<1>1. /\ Shape /\ ValuesOK /\ PathsOK /\ ParentsWait /\ FrameAndWork /\ UsedOnce
      /\ FlightsHaveProducers /\ JoinedKeysAreReserved /\ Inherited
  BY DEF IInv
<1>2. n \in AnyNode /\ NoNode \notin AnyNode
  BY <1>1, NoNodeIsNone DEF Shape
<1>3. Missing(f) \subseteq Keys /\ owned \subseteq Keys /\ owned \subseteq Missing(f)
  BY DEF IsFrame, Missing, Unreserved
<1>4. \A k \in owned : flight[k] = NoNode
  BY DEF Unreserved
<1>5. \A k \in Missing(f) \ owned : flight[k] # NoNode
  BY DEF Unreserved
<1>6. /\ flight' = [k \in Keys |-> IF k \in owned THEN n ELSE flight[k]]
      /\ frame' = [frame EXCEPT ![n] = [f EXCEPT !.state = "join"]]
      /\ work' = IF owned = {} THEN ws ELSE With(ws, n, NewWork(owned, FALSE, f.local))
  BY DEF RunMany
\* The frames: only the state and the values of n change.
<1>7. /\ DOMAIN frame' = DOMAIN frame /\ frame' = [m \in DOMAIN frame' |-> frame'[m]]
      /\ \A m \in DOMAIN frame : m # n => frame'[m] = frame[m]
      /\ IsFrame(frame'[n]) /\ frame'[n].state = "join" /\ frame'[n].values = f.values
      /\ frame'[n].keys = frame[n].keys /\ frame'[n].local = frame[n].local
  <2>1. /\ DOMAIN frame' = DOMAIN frame /\ frame' = [m \in DOMAIN frame' |-> frame'[m]]
        /\ \A m \in DOMAIN frame : m # n => frame'[m] = frame[m]
        /\ frame'[n] = [f EXCEPT !.state = "join"]
    BY <1>6
  <2>2. DOMAIN f = {"state", "keys", "local", "values"}
    BY DEF IsFrame
  <2>3. /\ DOMAIN frame'[n] = DOMAIN f /\ frame'[n].state = "join"
        /\ frame'[n].values = f.values /\ frame'[n].keys = f.keys /\ frame'[n].local = f.local
    BY <2>1, <2>2
  <2>4. IsFrame(frame'[n])
    BY <2>3 DEF IsFrame
  <2> QED BY <2>1, <2>3, <2>4
\* The works: a direct work of n is replaced by a producer of its own keys, or by none.
<1>8. /\ DOMAIN work' \subseteq DOMAIN work \cup {n} /\ DOMAIN work \ {n} \subseteq DOMAIN work'
      /\ work' = [m \in DOMAIN work' |-> work'[m]]
      /\ \A m \in DOMAIN work' : m # n => m \in DOMAIN work /\ work'[m] = work[m]
      /\ n \in DOMAIN work' <=> owned # {}
      /\ n \in DOMAIN work' =>
            /\ IsWork(work'[n]) /\ work'[n].owned = owned /\ ~work'[n].direct
            /\ work'[n].local = frame[n].local
            /\ \A k \in Keys : /\ work'[n].attempt[k] = "none" /\ IsValue(work'[n].result[k])
                               /\ DOMAIN work'[n].used[k] \subseteq Keys
  <2>1. CASE owned = {}
    BY <1>6, <2>1
  <2>2. CASE owned # {}
    <3> DEFINE w == NewWork(owned, FALSE, f.local)
    <3>1. f.local \subseteq Keys /\ owned \subseteq Keys /\ versions \in Nat
      BY <1>1, <1>3 DEF IsFrame, ValuesOK
    <3>2. /\ IsWork(w) /\ w.owned = owned /\ ~w.direct /\ w.local = f.local
          /\ \A k \in Keys : /\ w.attempt[k] = "none" /\ IsValue(w.result[k])
                             /\ DOMAIN w.used[k] \subseteq Keys
      <4>1. ~w.direct
        BY DEF NewWork
      <4>2. Begins(w, owned, f.local)
        <5> HIDE DEF owned
        <5> QED BY <2>2, <3>1, NewWorkBegins
      <4> HIDE DEF w, owned
      <4> QED BY <4>1, <4>2 DEF Begins
    <3>3. work' = [m \in DOMAIN ws \cup {n} |-> IF m = n THEN w ELSE ws[m]]
      BY <1>6, <2>2 DEF With
    <3> HIDE DEF w, owned
    <3>4. /\ DOMAIN work' = DOMAIN ws \cup {n} /\ work' = [m \in DOMAIN work' |-> work'[m]]
          /\ work'[n] = w /\ \A m \in DOMAIN work' : m # n => work'[m] = ws[m]
      BY <3>3
    <3>5. \A m \in DOMAIN work' : m # n => m \in DOMAIN ws /\ ws[m] = work[m]
      BY <3>4
    <3> QED BY <2>2, <3>2, <3>4, <3>5
  <2> QED BY <2>1, <2>2
<1> HIDE DEF owned
<1>9. \A k \in Keys : flight'[k] = IF k \in owned THEN n ELSE flight[k]
  BY <1>6
<1>10. \A k \in Keys : flight[k] # n
  BY <1>1, <1>2 DEF FlightsHaveProducers
<1>11. \A k \in Keys : Child(n, k) \notin DOMAIN frame
  BY <1>1, <1>2, NoChildren
<1>12. \A m \in DOMAIN frame' : IsFrame(frame'[m]) /\ frame'[m].keys = frame[m].keys
                                /\ frame'[m].local = frame[m].local
  BY <1>1, <1>7 DEF Shape
<1>13. Shape'
  <2>1. flight' \in [Keys -> AnyNode \cup {NoNode}]
    BY <1>1, <1>2, <1>6 DEF Shape
  <2>2. DOMAIN frame' \subseteq AnyNode /\ DOMAIN work' \subseteq AnyNode
    BY <1>1, <1>2, <1>7, <1>8 DEF Shape
  <2>3. \A m \in DOMAIN work' : IsWork(work'[m])
    BY <1>1, <1>8 DEF Shape
  <2>4. /\ request' \in [Requests -> {"new", "running", "done", "late", "cancelled"}]
        /\ expired' \subseteq Timed
    BY <1>1 DEF Shape
  <2> QED BY <1>7, <1>8, <1>12, <2>1, <2>2, <2>3, <2>4 DEF Shape
<1>14. ValuesOK'
  <2>1. \A u : IsValue(u) => Within(versions', u)
    BY DEF IsValue, Within
  <2>2. /\ versions' \in Nat /\ cache' = [k \in Keys |-> cache'[k]]
        /\ \A k \in Keys : Within(versions', cache'[k]) /\ cache'[k] # Failure
    BY <1>1, <2>1 DEF ValuesOK
  <2>3. \A q \in Requests, k \in Keys : Within(versions', memo'[q][k]) /\ memo'[q][k] # Failure
    BY <2>1
  <2>4. \A m \in DOMAIN frame', k \in Keys :
           /\ Within(versions', frame'[m].values[k])
           /\ frame'[m].state = "split" => frame'[m].values[k] # Failure
    BY <1>1, <1>7, <2>1 DEF ValuesOK
  <2>5. \A m \in DOMAIN work', k \in Keys :
           Within(versions', work'[m].result[k]) /\ DOMAIN work'[m].used[k] \subseteq Keys
    BY <1>1, <1>8, <2>1 DEF ValuesOK
  <2> QED BY <2>2, <2>3, <2>4, <2>5 DEF ValuesOK, Failure, IsValue, Within
<1>15. Live' \subseteq Live
  BY <1>7, <1>8 DEF Live
<1>16. PathsOK'
  <2>1. \A m \in Live' : IsPath(m[2]) /\ m[2] \in Seq(DerivedKeys)
    BY <1>1, <1>15 DEF PathsOK
  <2>2. \A m \in DOMAIN frame' : frame'[m].keys \subseteq WhatFor(m)
    BY <1>1, <1>7, <1>12 DEF PathsOK
  <2>3. ASSUME NEW m \in DOMAIN work'
        PROVE  work'[m].owned \subseteq WhatFor(m)
    <3>1. CASE m = n
      <4>1. owned \subseteq frame[n].keys
        BY <1>3 DEF Missing
      <4> QED BY <1>1, <1>8, <3>1, <4>1 DEF PathsOK
    <3>2. CASE m # n
      BY <1>1, <1>8, <3>2 DEF PathsOK
    <3> QED BY <3>1, <3>2
  <2> QED BY <2>1, <2>2, <2>3 DEF PathsOK, WhatFor
<1>17. ParentsWait'
  <2>1. ASSUME NEW m \in DOMAIN work', NEW k \in Keys
        PROVE  /\ work'[m].attempt[k] = "dependencies" <=> Child(m, k) \in DOMAIN frame'
               /\ work'[m].attempt[k] # "none" => work'[m].state = "attempt" /\ k \in work'[m].owned
    <3>1. CASE m = n
      BY <1>7, <1>8, <1>11, <3>1
    <3>2. CASE m # n
      BY <1>1, <1>7, <1>8, <3>2 DEF ParentsWait
    <3> QED BY <3>1, <3>2
  <2>2. ASSUME NEW m \in DOMAIN frame', m[2] # <<>>
        PROVE  \E p \in DOMAIN work', c \in Keys : m = Child(p, c)
    <3>1. PICK p \in DOMAIN work, c \in Keys : m = Child(p, c)
      BY <1>1, <1>7, <2>2 DEF ParentsWait
    <3>2. p # n
      BY <1>7, <1>11, <3>1
    <3> QED BY <1>8, <3>1, <3>2
  <2> QED BY <2>1, <2>2 DEF ParentsWait
<1>18. FrameAndWork'
  <2>1. ASSUME NEW m \in DOMAIN frame'
        PROVE  /\ frame'[m].state \in {"lookup", "split"} => m \notin DOMAIN work'
               /\ frame'[m].state = "direct" => m \in DOMAIN work' /\ work'[m].direct
    <3>1. CASE m = n
      BY <1>7, <3>1
    <3>2. CASE m # n
      BY <1>1, <1>7, <1>8, <3>2 DEF FrameAndWork
    <3> QED BY <3>1, <3>2
  <2>2. ASSUME NEW m \in DOMAIN work', work'[m].direct
        PROVE  /\ m \in DOMAIN frame' /\ frame'[m].state = "direct"
               /\ work'[m].owned \subseteq work'[m].local
    <3>1. m # n
      BY <1>8, <2>2
    <3> QED BY <1>1, <1>7, <1>8, <2>2, <3>1 DEF FrameAndWork
  <2> QED BY <2>1, <2>2 DEF FrameAndWork
<1>19. UsedOnce'
  <2>1. \A m, k : Fresh(m, k) => Fresh(m, k)'
    BY <1>15 DEF Fresh, Below
  <2>2. \A m \in Live' : request'[m[1]] # "new"
    BY <1>1, <1>15 DEF UsedOnce
  <2>3. ASSUME NEW m \in DOMAIN frame', NEW k \in Keys
        PROVE  /\ frame'[m].state \in {"lookup", "split"} => Fresh(m, k)'
               /\ frame'[m].state = "direct" /\ k \notin work'[m].owned => Fresh(m, k)'
    <3>1. CASE m = n
      BY <1>7, <3>1
    <3>2. CASE m # n
      <4>1. m \in DOMAIN frame /\ frame'[m] = frame[m]
        BY <1>7, <3>2
      <4>2. frame[m].state = "direct" => work'[m] = work[m]
        BY <1>1, <1>8, <3>2, <4>1 DEF FrameAndWork
      <4> QED BY <1>1, <2>1, <4>1, <4>2 DEF UsedOnce
    <3> QED BY <3>1, <3>2
  <2>4. ASSUME NEW m \in DOMAIN work', NEW k \in work'[m].owned, Untried(m, k)'
        PROVE  Fresh(m, k)'
    <3>1. CASE m = n
      BY <1>3, <1>8, <2>1, <3>1
    <3>2. CASE m # n
      <4>1. m \in DOMAIN work /\ work'[m] = work[m]
        BY <1>8, <3>2
      <4>2. Untried(m, k)
        BY <2>4, <4>1 DEF Untried
      <4> QED BY <1>1, <2>1, <4>1, <4>2 DEF UsedOnce
    <3> QED BY <3>1, <3>2
  <2> QED BY <2>2, <2>3, <2>4 DEF UsedOnce
<1>20. FlightsHaveProducers'
  <2>1. ASSUME NEW k \in Keys, flight'[k] # NoNode
        PROVE  flight'[k] \in DOMAIN work'
    BY <1>1, <1>8, <1>9, <1>10, <2>1 DEF FlightsHaveProducers
  <2>2. ASSUME NEW k \in Keys, NEW m \in DOMAIN work'
        PROVE  flight'[k] = m <=> ~work'[m].direct /\ k \in work'[m].owned
    <3>1. CASE m = n
      BY <1>8, <1>9, <1>10, <3>1
    <3>2. CASE m # n
      <4>1. m \in DOMAIN work /\ work'[m] = work[m] /\ m # NoNode
        BY <1>1, <1>2, <1>8, <3>2 DEF Shape
      <4>2. flight[k] = m <=> ~work[m].direct /\ k \in work[m].owned
        BY <1>1, <4>1 DEF FlightsHaveProducers
      <4> QED BY <1>4, <1>9, <3>2, <4>1, <4>2
    <3> QED BY <3>1, <3>2
  <2> QED BY <2>1, <2>2 DEF FlightsHaveProducers, NoNode
<1>21. JoinedKeysAreReserved'
  <2>1. ASSUME NEW m \in DOMAIN frame', frame'[m].state = "join", NEW k \in Missing(frame'[m])
        PROVE  flight'[k] # NoNode
    <3>1. k \in Keys
      BY <1>12 DEF Missing, IsFrame
    <3>2. CASE m = n
      <4>1. k \in Missing(f)
        BY <1>7, <2>1, <3>2 DEF Missing
      <4> QED BY <1>2, <1>5, <1>9, <3>1, <4>1
    <3>3. CASE m # n
      <4>1. flight[k] # NoNode
        BY <1>1, <1>7, <2>1, <3>3 DEF JoinedKeysAreReserved
      <4> QED BY <1>2, <1>9, <3>1, <4>1
    <3> QED BY <3>2, <3>3
  <2> QED BY <2>1 DEF JoinedKeysAreReserved, Missing, NoValue, NoNode
<1>22. Inherited'
  <2>1. ASSUME NEW m, NEW k \in Keys, flight[k] \in DOMAIN work, \E j \in Keys : Below(m, flight[k], j)
        PROVE  flight'[k] \in DOMAIN work' /\ \E j \in Keys : Below(m, flight'[k], j)
    <3>1. flight[k] # NoNode /\ flight[k] # n
      BY <1>1, <1>2, <1>10, <2>1 DEF Shape
    <3>2. flight'[k] = flight[k]
      BY <1>4, <1>9, <3>1
    <3> QED BY <1>8, <2>1, <3>1, <3>2
  <2>2. \A m : Awaited(m)' <=> Awaited(m)
    BY <1>7 DEF Awaited
  <2>3. ASSUME NEW m \in DOMAIN frame', Awaited(m)', NEW k \in frame'[m].local
        PROVE  flight'[k] \in DOMAIN work' /\ \E j \in Keys : Below(m, flight'[k], j)
    <3>1. m \in DOMAIN frame /\ k \in frame[m].local /\ k \in Keys
      BY <1>7, <1>12 DEF IsFrame
    <3>2. flight[k] \in DOMAIN work /\ \E j \in Keys : Below(m, flight[k], j)
      BY <1>1, <2>2, <2>3, <3>1 DEF Inherited
    <3> QED BY <2>1, <3>1, <3>2
  <2>4. ASSUME NEW m \in DOMAIN work', Awaited(m)', NEW k \in work'[m].local
        PROVE  flight'[k] \in DOMAIN work' /\ \E j \in Keys : Below(m, flight'[k], j)
    <3>1. k \in Keys
      <4>1. IsWork(work'[m])
        BY <1>1, <1>8 DEF Shape
      <4> QED BY <4>1 DEF IsWork
    <3>2. flight[k] \in DOMAIN work /\ \E j \in Keys : Below(m, flight[k], j)
      <4>1. CASE m = n
        BY <1>1, <1>8, <2>2, <2>4, <4>1 DEF Inherited
      <4>2. CASE m # n
        BY <1>1, <1>8, <2>2, <2>4, <4>2 DEF Inherited
      <4> QED BY <4>1, <4>2
    <3> QED BY <2>1, <3>1, <3>2
  <2>5. \A m, k, j : Below(m, flight[k], j)' <=> Below(m, flight'[k], j)
    BY DEF Below
  <2> QED BY <2>3, <2>4, <2>5 DEF Inherited
<1> QED BY <1>13, <1>14, <1>16, <1>17, <1>18, <1>19, <1>20, <1>21, <1>22 DEF IInv

\* Split(n) when the resolution tree above already owns some of the keys: a work of n resolves
\* them directly.
LEMMA DirectWorkKeeps ==
    ASSUME IInv, NEW n \in DOMAIN frame, frame[n].state = "split", Pin(n),
           NEW S, S \subseteq Missing(frame[n]) \cap frame[n].local, S # {},
           frame' = [frame EXCEPT ![n] = [frame[n] EXCEPT !.state = "direct"]],
           work' = With(work, n, NewWork(S, TRUE, frame[n].local)),
           UNCHANGED <<request, cache, flight, expired, versions>>
    PROVE  IInv'
<1>1. /\ Shape /\ ValuesOK /\ PathsOK /\ ParentsWait /\ FrameAndWork /\ UsedOnce
      /\ FlightsHaveProducers /\ JoinedKeysAreReserved /\ Inherited
  BY DEF IInv
<1>2. /\ n \in AnyNode /\ NoNode \notin AnyNode /\ n \notin DOMAIN work /\ IsFrame(frame[n])
      /\ S \subseteq Keys /\ S \subseteq frame[n].keys /\ S \subseteq frame[n].local
  BY <1>1, NoNodeIsNone DEF Shape, FrameAndWork, Missing, IsFrame
<1>3. /\ DOMAIN frame' = DOMAIN frame /\ frame' = [m \in DOMAIN frame' |-> frame'[m]]
      /\ \A m \in DOMAIN frame : m # n => frame'[m] = frame[m]
      /\ IsFrame(frame'[n]) /\ frame'[n].state = "direct" /\ frame'[n].values = frame[n].values
      /\ frame'[n].keys = frame[n].keys /\ frame'[n].local = frame[n].local
  <2>1. /\ DOMAIN frame' = DOMAIN frame /\ frame' = [m \in DOMAIN frame' |-> frame'[m]]
        /\ \A m \in DOMAIN frame : m # n => frame'[m] = frame[m]
        /\ frame'[n] = [frame[n] EXCEPT !.state = "direct"]
    OBVIOUS
  <2>2. DOMAIN frame[n] = {"state", "keys", "local", "values"}
    BY <1>2 DEF IsFrame
  <2>3. /\ DOMAIN frame'[n] = DOMAIN frame[n] /\ frame'[n].state = "direct"
        /\ frame'[n].values = frame[n].values /\ frame'[n].keys = frame[n].keys
        /\ frame'[n].local = frame[n].local
    BY <2>1, <2>2
  <2>4. IsFrame(frame'[n])
    BY <1>2, <2>3 DEF IsFrame
  <2> QED BY <2>1, <2>3, <2>4
<1>4. /\ DOMAIN work' = DOMAIN work \cup {n} /\ work' = [m \in DOMAIN work' |-> work'[m]]
      /\ \A m \in DOMAIN work : m # n => work'[m] = work[m]
      /\ work'[n].direct /\ Begins(work'[n], S, frame[n].local)
  <2> DEFINE w == NewWork(S, TRUE, frame[n].local)
  <2>1. Begins(w, S, frame[n].local)
    <3>1. versions \in Nat /\ frame[n].local \subseteq Keys
      BY <1>1, <1>2 DEF ValuesOK, IsFrame
    <3> QED BY <1>2, <3>1, NewWorkBegins
  <2>2. w.direct
    BY DEF NewWork
  <2>3. work' = [m \in DOMAIN work \cup {n} |-> IF m = n THEN w ELSE work[m]]
    BY DEF With
  <2> HIDE DEF w
  <2> QED BY <2>1, <2>2, <2>3
<1>5. /\ IsWork(work'[n]) /\ work'[n].owned = S /\ work'[n].local = frame[n].local
      /\ \A k \in Keys : /\ work'[n].attempt[k] = "none" /\ IsValue(work'[n].result[k])
                         /\ DOMAIN work'[n].used[k] \subseteq Keys
  BY <1>4 DEF Begins
<1>6. \A k \in Keys : Child(n, k) \notin DOMAIN frame
  BY <1>1, <1>2, NoChildren
<1>7. \A m \in DOMAIN frame' : IsFrame(frame'[m]) /\ frame'[m].keys = frame[m].keys
                               /\ frame'[m].local = frame[m].local
  BY <1>1, <1>3 DEF Shape
<1>8. Live' = Live
  BY <1>3, <1>4 DEF Live
<1>9. Shape'
  <2>1. DOMAIN frame' \subseteq AnyNode /\ DOMAIN work' \subseteq AnyNode
    BY <1>1, <1>2, <1>3, <1>4 DEF Shape
  <2>2. \A m \in DOMAIN work' : IsWork(work'[m])
    BY <1>1, <1>4, <1>5 DEF Shape
  <2>3. /\ request' \in [Requests -> {"new", "running", "done", "late", "cancelled"}]
        /\ expired' \subseteq Timed /\ flight' \in [Keys -> AnyNode \cup {NoNode}]
    BY <1>1 DEF Shape
  <2> QED BY <1>3, <1>4, <1>7, <2>1, <2>2, <2>3 DEF Shape
<1>10. ValuesOK'
  <2>1. \A u : IsValue(u) => Within(versions', u)
    BY DEF IsValue, Within
  <2>2. /\ versions' \in Nat /\ cache' = [k \in Keys |-> cache'[k]]
        /\ \A k \in Keys : Within(versions', cache'[k]) /\ cache'[k] # Failure
    BY <1>1, <2>1 DEF ValuesOK
  <2>3. /\ memo' = [q \in Requests |-> [k \in Keys |-> memo'[q][k]]]
        /\ \A q \in Requests, k \in Keys : Within(versions', memo'[q][k]) /\ memo'[q][k] # Failure
    BY <1>1, <2>1, PinKeeps
  <2>4. \A m \in DOMAIN frame', k \in Keys :
           /\ Within(versions', frame'[m].values[k])
           /\ frame'[m].state = "split" => frame'[m].values[k] # Failure
    BY <1>1, <1>3, <2>1 DEF ValuesOK
  <2>5. \A m \in DOMAIN work', k \in Keys :
           Within(versions', work'[m].result[k]) /\ DOMAIN work'[m].used[k] \subseteq Keys
    <3>1. ASSUME NEW m \in DOMAIN work, NEW k \in Keys, m # n
          PROVE  Within(versions', work'[m].result[k]) /\ DOMAIN work'[m].used[k] \subseteq Keys
      <4>1. work'[m] = work[m]
        BY <1>4, <3>1
      <4>2. IsValue(work[m].result[k]) /\ DOMAIN work[m].used[k] \subseteq Keys
        BY <1>1 DEF ValuesOK
      <4> QED BY <2>1, <4>1, <4>2
    <3>2. \A k \in Keys :
             Within(versions', work'[n].result[k]) /\ DOMAIN work'[n].used[k] \subseteq Keys
      BY <1>5, <2>1
    <3>3. DOMAIN work' = DOMAIN work \cup {n}
      BY <1>4
    <3> QED BY <3>1, <3>2, <3>3
  <2> QED BY <2>2, <2>3, <2>4, <2>5 DEF ValuesOK, Failure, IsValue, Within
<1>11. PathsOK'
  <2>1. \A m \in DOMAIN frame' : frame'[m].keys \subseteq WhatFor(m)
    BY <1>1, <1>3, <1>7 DEF PathsOK
  <2>2. \A m \in DOMAIN work' : work'[m].owned \subseteq WhatFor(m)
    BY <1>1, <1>2, <1>4, <1>5 DEF PathsOK
  <2> QED BY <1>1, <1>8, <2>1, <2>2 DEF PathsOK, WhatFor
<1>12. ParentsWait'
  <2>1. ASSUME NEW m \in DOMAIN work', NEW k \in Keys
        PROVE  /\ work'[m].attempt[k] = "dependencies" <=> Child(m, k) \in DOMAIN frame'
               /\ work'[m].attempt[k] # "none" => work'[m].state = "attempt" /\ k \in work'[m].owned
    <3>1. CASE m = n
      BY <1>3, <1>5, <1>6, <3>1
    <3>2. CASE m # n
      <4>1. m \in DOMAIN work /\ work'[m] = work[m]
        BY <1>4, <3>2
      <4>2. /\ work[m].attempt[k] = "dependencies" <=> Child(m, k) \in DOMAIN frame
            /\ work[m].attempt[k] # "none" => work[m].state = "attempt" /\ k \in work[m].owned
        BY <1>1, <4>1 DEF ParentsWait
      <4> QED BY <1>3, <4>1, <4>2
    <3> QED BY <3>1, <3>2
  <2>2. \A m \in DOMAIN frame' : m[2] # <<>> => \E p \in DOMAIN work', c \in Keys : m = Child(p, c)
    <3>1. \A m \in DOMAIN frame : m[2] # <<>> => \E p \in DOMAIN work, c \in Keys : m = Child(p, c)
      BY <1>1 DEF ParentsWait
    <3>2. DOMAIN frame' = DOMAIN frame /\ DOMAIN work \subseteq DOMAIN work'
      BY <1>3, <1>4
    <3> QED BY <3>1, <3>2
  <2> QED BY <2>1, <2>2 DEF ParentsWait
<1>13. FrameAndWork'
  <2>1. ASSUME NEW m \in DOMAIN frame'
        PROVE  /\ frame'[m].state \in {"lookup", "split"} => m \notin DOMAIN work'
               /\ frame'[m].state = "direct" => m \in DOMAIN work' /\ work'[m].direct
    <3>1. CASE m = n
      BY <1>3, <1>4, <3>1
    <3>2. CASE m # n
      <4>1. /\ m \in DOMAIN frame /\ frame'[m] = frame[m]
            /\ m \in DOMAIN work' <=> m \in DOMAIN work
            /\ m \in DOMAIN work => work'[m] = work[m]
        BY <1>3, <1>4, <3>2
      <4>2. /\ frame[m].state \in {"lookup", "split"} => m \notin DOMAIN work
            /\ frame[m].state = "direct" => m \in DOMAIN work /\ work[m].direct
        BY <1>1, <4>1 DEF FrameAndWork
      <4> QED BY <4>1, <4>2
    <3> QED BY <3>1, <3>2
  <2>2. ASSUME NEW m \in DOMAIN work', work'[m].direct
        PROVE  /\ m \in DOMAIN frame' /\ frame'[m].state = "direct"
               /\ work'[m].owned \subseteq work'[m].local
    <3>1. CASE m = n
      BY <1>2, <1>3, <1>5, <3>1
    <3>2. CASE m # n
      BY <1>1, <1>3, <1>4, <2>2, <3>2 DEF FrameAndWork
    <3> QED BY <3>1, <3>2
  <2> QED BY <2>1, <2>2 DEF FrameAndWork
<1>14. UsedOnce'
  <2>1. \A m, k : Fresh(m, k) <=> Fresh(m, k)'
    BY <1>8 DEF Fresh, Below
  <2>2. \A m \in Live' : request'[m[1]] # "new"
    BY <1>1, <1>8 DEF UsedOnce
  <2>3. \A k \in Keys : Fresh(n, k)
    BY <1>1 DEF UsedOnce
  <2>4. ASSUME NEW m \in DOMAIN frame', NEW k \in Keys
        PROVE  /\ frame'[m].state \in {"lookup", "split"} => Fresh(m, k)'
               /\ frame'[m].state = "direct" /\ k \notin work'[m].owned => Fresh(m, k)'
    <3>1. CASE m = n
      BY <2>1, <2>3, <3>1
    <3>2. CASE m # n
      <4>1. m \in DOMAIN frame /\ frame'[m] = frame[m]
        BY <1>3, <3>2
      <4>2. frame[m].state = "direct" => work'[m] = work[m]
        BY <1>1, <1>4, <3>2, <4>1 DEF FrameAndWork
      <4> QED BY <1>1, <2>1, <4>1, <4>2 DEF UsedOnce
    <3> QED BY <3>1, <3>2
  <2>5. ASSUME NEW m \in DOMAIN work', NEW k \in work'[m].owned, Untried(m, k)'
        PROVE  Fresh(m, k)'
    <3>1. CASE m = n
      BY <1>2, <1>5, <2>1, <2>3, <3>1
    <3>2. CASE m # n
      <4>1. m \in DOMAIN work /\ work'[m] = work[m]
        BY <1>4, <3>2
      <4>2. Untried(m, k)
        BY <2>5, <4>1 DEF Untried
      <4> QED BY <1>1, <2>1, <4>1, <4>2 DEF UsedOnce
    <3> QED BY <3>1, <3>2
  <2> QED BY <2>2, <2>4, <2>5 DEF UsedOnce
<1>15. FlightsHaveProducers'
  <2>1. \A k \in Keys : flight[k] # n
    BY <1>1, <1>2 DEF FlightsHaveProducers
  <2>2. \A k \in Keys : flight'[k] # NoNode => flight'[k] \in DOMAIN work'
    BY <1>1, <1>4 DEF FlightsHaveProducers
  <2>3. ASSUME NEW k \in Keys, NEW m \in DOMAIN work'
        PROVE  flight'[k] = m <=> ~work'[m].direct /\ k \in work'[m].owned
    <3>1. CASE m = n
      BY <1>4, <2>1, <3>1
    <3>2. CASE m # n
      <4>1. m \in DOMAIN work /\ work'[m] = work[m]
        BY <1>4, <3>2
      <4>2. flight[k] = m <=> ~work[m].direct /\ k \in work[m].owned
        BY <1>1, <4>1 DEF FlightsHaveProducers
      <4> QED BY <4>1, <4>2
    <3> QED BY <3>1, <3>2
  <2> QED BY <2>2, <2>3 DEF FlightsHaveProducers, NoNode
<1>16. JoinedKeysAreReserved'
  <2>1. ASSUME NEW m \in DOMAIN frame', frame'[m].state = "join", NEW k \in Missing(frame'[m])
        PROVE  flight'[k] # NoNode
    <3>1. m # n
      BY <1>3, <2>1
    <3> QED BY <1>1, <1>3, <2>1, <3>1 DEF JoinedKeysAreReserved
  <2> QED BY <2>1 DEF JoinedKeysAreReserved, Missing, NoValue, NoNode
<1>17. Inherited'
  <2>1. \A m : Awaited(m)' <=> Awaited(m)
    BY <1>3 DEF Awaited
  <2>2. ASSUME NEW m \in DOMAIN frame', Awaited(m)', NEW k \in frame'[m].local
        PROVE  flight[k] \in DOMAIN work /\ \E j \in Keys : Below(m, flight[k], j)
    BY <1>1, <1>3, <1>7, <2>1, <2>2 DEF Inherited
  <2>3. ASSUME NEW m \in DOMAIN work', Awaited(m)', NEW k \in work'[m].local
        PROVE  flight[k] \in DOMAIN work /\ \E j \in Keys : Below(m, flight[k], j)
    <3>1. CASE m = n
      BY <1>1, <1>5, <2>1, <2>3, <3>1 DEF Inherited
    <3>2. CASE m # n
      BY <1>1, <1>4, <2>1, <2>3, <3>2 DEF Inherited
    <3> QED BY <3>1, <3>2
  <2>4. \A m, k, j : Below(m, flight[k], j)' <=> Below(m, flight[k], j)
    BY DEF Below
  <2> QED BY <1>4, <2>2, <2>3, <2>4 DEF Inherited
<1> QED BY <1>9, <1>10, <1>11, <1>12, <1>13, <1>14, <1>15, <1>16, <1>17 DEF IInv

\* Split(n) pins what was found and goes on with the rest.
LEMMA SplitKeeps ==
    ASSUME IInv, NEW n \in DOMAIN frame, Split(n)
    PROVE  IInv'
<1> DEFINE direct == Missing(frame[n]) \cap frame[n].local
<1>1. Shape /\ ValuesOK /\ FrameAndWork /\ UsedOnce
  BY DEF IInv
<1>2. frame[n].state = "split" /\ Pin(n) /\ UNCHANGED <<request, cache, expired, versions>>
  BY DEF Split
<1>3. CASE direct = {}
  <2>1. RunMany(n, frame[n], flight, work)
    BY <1>3 DEF Split
  <2>2. /\ n \notin DOMAIN work /\ DOMAIN work = DOMAIN work \ {n}
        /\ work = [m \in DOMAIN work |-> work[m]] /\ IsFrame(frame[n])
    BY <1>1, <1>2 DEF FrameAndWork, Shape
  <2>3. /\ \A k \in Keys : IsValue(frame[n].values[k])
        /\ \A k \in Missing(frame[n]) : Fresh(n, k)
    BY <1>1, <1>2, <2>2 DEF ValuesOK, UsedOnce, Missing, IsFrame
  <2>4. /\ memo' = [q \in Requests |-> [k \in Keys |-> memo'[q][k]]]
        /\ \A q \in Requests, k \in Keys : IsValue(memo'[q][k]) /\ memo'[q][k] # Failure
    BY <1>1, <1>2, PinKeeps
  <2> QED BY <1>2, <2>1, <2>2, <2>3, <2>4, RunManyKeeps
<1>4. CASE direct # {}
  <2>1. /\ frame' = [frame EXCEPT ![n] = [frame[n] EXCEPT !.state = "direct"]]
        /\ work' = With(work, n, NewWork(direct, TRUE, frame[n].local))
        /\ UNCHANGED flight
    BY <1>4 DEF Split
  <2>2. direct \subseteq Missing(frame[n]) \cap frame[n].local
    OBVIOUS
  <2> HIDE DEF direct
  <2> QED BY <1>2, <1>4, <2>1, <2>2, DirectWorkKeeps
<1> QED BY <1>3, <1>4

\* Complete(n) of a direct work hands its results to its own frame, which goes on.
LEMMA DirectWorkCompletes ==
    ASSUME IInv, NEW n \in DOMAIN work, work[n].direct, Complete(n)
    PROVE  IInv'
<1>1. /\ Shape /\ ValuesOK /\ FrameAndWork /\ UsedOnce /\ ParentsWait
  BY DEF IInv
<1> DEFINE result == [k \in Keys |-> IF k \in Open(n) \ Pinned(n) THEN Failure
                                     ELSE WithPinned(n)[k]]
           v == [k \in Keys |-> IF k \in Missing(frame[n]) \cap work[n].owned THEN result[k]
                                ELSE frame[n].values[k]]
           f == [frame[n] EXCEPT !.values = v]
           ws == Without(work, n)
<1>2. /\ work[n].state = "select" /\ RunMany(n, f, flight, ws)
      /\ UNCHANGED <<request, memo, cache, expired, versions>>
  BY DEF Complete, Completed
<1>3. /\ n \in DOMAIN frame /\ frame[n].state = "direct" /\ IsFrame(frame[n])
      /\ IsWork(work[n]) /\ n[1] \in Requests
  BY <1>1 DEF Shape, FrameAndWork, AnyNode
<1>4. \A k \in Keys : IsValue(result[k])
  <2>1. IsValue(Failure)
    BY <1>1 DEF ValuesOK, IsValue, Failure
  <2>2. \A k \in Keys : IsValue(memo[n[1]][k]) /\ IsValue(work[n].result[k])
    BY <1>1, <1>3 DEF ValuesOK
  <2> QED BY <2>1, <2>2 DEF WithPinned
<1>5. \A k \in work[n].owned : k \in Keys /\ result[k] # NoValue
  <2>1. work[n].owned \subseteq Keys
    BY <1>3 DEF IsWork
  <2> QED BY <2>1, NoValueIsNoFailure DEF WithPinned, Open, Pinned
<1> HIDE DEF result
<1>6. \A k \in Keys : IsValue(v[k])
  BY <1>1, <1>3, <1>4 DEF ValuesOK
<1>7. IsFrame(f) /\ f.keys = frame[n].keys /\ f.local = frame[n].local /\ f.values = v
  <2>1. v = [k \in Keys |-> v[k]]
    OBVIOUS
  <2>2. DOMAIN frame[n] = {"state", "keys", "local", "values"}
    BY <1>3 DEF IsFrame
  <2> HIDE DEF v
  <2>3. /\ DOMAIN f = DOMAIN frame[n] /\ f.state = frame[n].state /\ f.values = v
        /\ f.keys = frame[n].keys /\ f.local = frame[n].local
    BY <2>2
  <2> HIDE DEF f
  <2> QED BY <1>3, <2>1, <2>3 DEF IsFrame
<1>8. \A k \in Missing(f) : Fresh(n, k)
  <2>1. \A k \in Missing(f) : k \in Keys /\ k \notin work[n].owned
    BY <1>5, <1>7 DEF Missing, IsFrame
  <2> QED BY <1>1, <1>3, <2>1 DEF UsedOnce
<1>9. \A k \in Keys : work[n].attempt[k] = "none"
  BY <1>1, <1>2 DEF ParentsWait
<1>10. DOMAIN ws = DOMAIN work \ {n} /\ ws = [m \in DOMAIN ws |-> work[m]]
  BY DEF Without
<1>11. /\ memo' = [q \in Requests |-> [k \in Keys |-> memo'[q][k]]]
       /\ \A q \in Requests, k \in Keys : IsValue(memo'[q][k]) /\ memo'[q][k] # Failure
  BY <1>1, <1>2 DEF ValuesOK
<1> HIDE DEF f, ws, v
<1> QED BY <1>2, <1>3, <1>6, <1>7, <1>8, <1>9, <1>10, <1>11, RunManyKeeps

-----------------------------------------------------------------------------
\* A frame for some keys that has not begun.
Opens(f, keys, local) ==
    /\ IsFrame(f) /\ f.state = "lookup" /\ f.keys = keys /\ f.local = local
    /\ \A k \in Keys : f.values[k] = NoValue

LEMMA NewFrameOpens ==
    ASSUME NEW keys, keys \subseteq Keys, NEW local, local \subseteq Keys
    PROVE  Opens(NewFrame(keys, local), keys, local)
<1> DEFINE f == NewFrame(keys, local)
<1>1. /\ DOMAIN f = {"state", "keys", "local", "values"}
      /\ f.state = "lookup" /\ f.keys = keys /\ f.local = local /\ f.values = Only({}, NoValue)
  BY DEF NewFrame
<1> HIDE DEF f
<1>2. /\ Only({}, NoValue) = [k \in Keys |-> Only({}, NoValue)[k]]
      /\ \A k \in Keys : Only({}, NoValue)[k] = NoValue
  BY DEF Only
<1>3. IsFrame(f)
  BY <1>1, <1>2 DEF IsFrame
<1> QED BY <1>1, <1>2, <1>3 DEF f, Opens

\* Build(r) opens the frame of the request, of which nothing runs yet.
LEMMA BuildKeeps ==
    ASSUME IInv, NEW r \in Requests, Build(r)
    PROVE  IInv'
<1> DEFINE n == Root(r)
<1>1. /\ Shape /\ ValuesOK /\ PathsOK /\ ParentsWait /\ FrameAndWork /\ UsedOnce
      /\ FlightsHaveProducers /\ JoinedKeysAreReserved /\ Inherited
  BY DEF IInv
<1>2. /\ request[r] = "new" /\ request' = [request EXCEPT ![r] = "running"]
      /\ frame' = With(frame, n, NewFrame(Asked[r], {}))
      /\ UNCHANGED <<memo, cache, flight, work, expired, versions, forgets>>
  BY DEF Build
<1>3. /\ n \in AnyNode /\ n[1] = r /\ n[2] = <<>> /\ Len(n[2]) = 0
  BY RootIsNode
<1>4. \A m \in Live : m[1] # r /\ m # n
  BY <1>1, <1>2, <1>3 DEF UsedOnce
<1>5. /\ DOMAIN frame' = DOMAIN frame \cup {n} /\ frame' = [m \in DOMAIN frame' |-> frame'[m]]
      /\ \A m \in DOMAIN frame : frame'[m] = frame[m]
      /\ IsFrame(frame'[n]) /\ frame'[n].state = "lookup" /\ frame'[n].keys = Asked[r]
      /\ frame'[n].local = {} /\ \A k \in Keys : frame'[n].values[k] = NoValue
  <2> DEFINE f == NewFrame(Asked[r], {})
  <2>1. Asked[r] \subseteq Keys
    BY ResolutionAssumption
  <2>2. Opens(f, Asked[r], {})
    BY <2>1, NewFrameOpens
  <2>3. frame' = [m \in DOMAIN frame \cup {n} |-> IF m = n THEN f ELSE frame[m]]
    BY <1>2 DEF With
  <2>4. n \notin DOMAIN frame
    BY <1>4 DEF Live
  <2> HIDE DEF f, n
  <2>5. /\ DOMAIN frame' = DOMAIN frame \cup {n} /\ frame' = [m \in DOMAIN frame' |-> frame'[m]]
        /\ frame'[n] = f /\ \A m \in DOMAIN frame : frame'[m] = frame[m]
    BY <2>3, <2>4
  <2> QED BY <2>2, <2>5 DEF Opens
<1> HIDE DEF n
<1>6. Live' = Live \cup {n} /\ n \notin DOMAIN work /\ n \notin DOMAIN frame
  BY <1>2, <1>4, <1>5 DEF Live
<1>7. DOMAIN work \subseteq AnyNode /\ DOMAIN frame \subseteq AnyNode
  BY <1>1 DEF Shape
\* Nothing is below the new frame, and it is below nothing.
<1>8. \A m \in Live' : \A k : ~Below(m, n, k)
  BY <1>3, <1>4, <1>6 DEF Below
<1>9. \A m \in AnyNode : \A k : ~Below(n, m, k)
  BY <1>3 DEF Below, AnyNode
<1>10. Shape'
  <2>1. request' \in [Requests -> {"new", "running", "done", "late", "cancelled"}]
    BY <1>1, <1>2 DEF Shape
  <2>2. \A m \in DOMAIN frame' : IsFrame(frame'[m])
    BY <1>1, <1>5 DEF Shape
  <2> QED BY <1>1, <1>2, <1>3, <1>5, <2>1, <2>2 DEF Shape
<1>11. ValuesOK'
  <2>1. \A u : IsValue(u) => Within(versions', u)
    BY <1>2 DEF IsValue, Within
  <2>2. IsValue(NoValue) /\ NoValue # Failure
    BY <1>1, NoValueIsNoFailure DEF ValuesOK, IsValue, NoValue
  <2>3. /\ versions' \in Nat /\ cache' = [k \in Keys |-> cache'[k]]
        /\ memo' = [q \in Requests |-> [k \in Keys |-> memo'[q][k]]]
        /\ \A k \in Keys : Within(versions', cache'[k]) /\ cache'[k] # Failure
        /\ \A q \in Requests, k \in Keys : Within(versions', memo'[q][k]) /\ memo'[q][k] # Failure
    BY <1>1, <1>2, <2>1 DEF ValuesOK
  <2>4. \A m \in DOMAIN frame', k \in Keys :
           /\ Within(versions', frame'[m].values[k])
           /\ frame'[m].state = "split" => frame'[m].values[k] # Failure
    BY <1>1, <1>5, <2>1, <2>2 DEF ValuesOK
  <2>5. \A m \in DOMAIN work', k \in Keys :
           Within(versions', work'[m].result[k]) /\ DOMAIN work'[m].used[k] \subseteq Keys
    BY <1>1, <1>2, <2>1 DEF ValuesOK
  <2> QED BY <2>3, <2>4, <2>5 DEF ValuesOK, Failure, IsValue, Within
<1>12. PathsOK'
  <2>1. IsPath(n[2]) /\ n[2] \in Seq(DerivedKeys)
    <3>1. DOMAIN <<>> = {} /\ <<>> \in Seq(DerivedKeys)
      OBVIOUS
    <3> QED BY <1>3, <3>1 DEF IsPath
  <2>2. frame'[n].keys \subseteq WhatFor(n)
    BY <1>3, <1>5 DEF WhatFor
  <2>3. \A m \in DOMAIN frame' : frame'[m].keys \subseteq WhatFor(m)
    BY <1>1, <1>5, <2>2 DEF PathsOK
  <2>4. \A m \in DOMAIN work' : work'[m].owned \subseteq WhatFor(m)
    BY <1>1, <1>2 DEF PathsOK
  <2> QED BY <1>1, <1>6, <2>1, <2>3, <2>4 DEF PathsOK, WhatFor
<1>13. ParentsWait'
  <2>1. \A m \in DOMAIN work, k \in Keys : Child(m, k) # n
    BY <1>3, <1>7, ChildIsNode
  <2>2. \A m \in DOMAIN work, k \in Keys :
           work[m].attempt[k] = "dependencies" <=> Child(m, k) \in DOMAIN frame'
    BY <1>1, <1>5, <2>1 DEF ParentsWait
  <2>3. \A m \in DOMAIN frame' : m[2] # <<>> => \E p \in DOMAIN work, k \in Keys : m = Child(p, k)
    BY <1>1, <1>3, <1>5 DEF ParentsWait
  <2> QED BY <1>1, <1>2, <2>2, <2>3 DEF ParentsWait
<1>14. FrameAndWork'
  <2>1. \A m \in DOMAIN frame' :
          /\ frame'[m].state \in {"lookup", "split"} => m \notin DOMAIN work
          /\ frame'[m].state = "direct" => m \in DOMAIN work /\ work[m].direct
    BY <1>1, <1>5, <1>6 DEF FrameAndWork
  <2>2. \A m \in DOMAIN work :
          work[m].direct => /\ m \in DOMAIN frame' /\ frame'[m].state = "direct"
                            /\ work[m].owned \subseteq work[m].local
    BY <1>1, <1>5 DEF FrameAndWork
  <2> QED BY <1>2, <2>1, <2>2 DEF FrameAndWork
<1>15. UsedOnce'
  <2>1. \A m \in AnyNode : \A k : Fresh(m, k) => Fresh(m, k)'
    BY <1>6, <1>9 DEF Fresh, Below
  <2>2. \A k : Fresh(n, k)'
    BY <1>8 DEF Fresh, Below
  <2>3. \A m \in Live' : request'[m[1]] # "new"
    BY <1>1, <1>2, <1>3, <1>4, <1>6 DEF UsedOnce, Shape
  <2>4. ASSUME NEW m \in DOMAIN frame', NEW k \in Keys
        PROVE  /\ frame'[m].state \in {"lookup", "split"} => Fresh(m, k)'
               /\ frame'[m].state = "direct" /\ k \notin work'[m].owned => Fresh(m, k)'
    <3>1. CASE m = n
      BY <2>2, <3>1
    <3>2. CASE m # n
      BY <1>1, <1>2, <1>5, <1>7, <2>1, <3>2 DEF UsedOnce
    <3> QED BY <3>1, <3>2
  <2>5. ASSUME NEW m \in DOMAIN work', NEW k \in work'[m].owned, Untried(m, k)'
        PROVE  Fresh(m, k)'
    <3>1. m \in DOMAIN work /\ k \in work[m].owned /\ Untried(m, k)
      BY <1>2, <2>5 DEF Untried
    <3> QED BY <1>1, <1>7, <2>1, <3>1 DEF UsedOnce
  <2> QED BY <2>3, <2>4, <2>5 DEF UsedOnce
<1>16. FlightsHaveProducers'
  BY <1>1, <1>2 DEF FlightsHaveProducers
<1>17. JoinedKeysAreReserved'
  <2>1. ASSUME NEW m \in DOMAIN frame', frame'[m].state = "join", NEW k \in Missing(frame'[m])
        PROVE  flight'[k] # NoNode
    <3>1. m \in DOMAIN frame /\ frame'[m] = frame[m]
      BY <1>5, <2>1
    <3> QED BY <1>1, <1>2, <2>1, <3>1 DEF JoinedKeysAreReserved
  <2> QED BY <2>1 DEF JoinedKeysAreReserved, Missing, NoValue, NoNode
<1>18. Inherited'
  <2>1. ASSUME NEW m \in Live, Awaited(m)'
        PROVE  Awaited(m)
    <3>1. \A i : Prefix(m, i) # n
      BY <1>3, <1>4 DEF Prefix
    <3> QED BY <1>5, <2>1, <3>1 DEF Awaited
  <2>2. ASSUME NEW m \in DOMAIN frame', Awaited(m)', NEW k \in frame'[m].local
        PROVE  flight[k] \in DOMAIN work /\ \E j \in Keys : Below(m, flight[k], j)
    <3>1. m \in DOMAIN frame /\ frame'[m] = frame[m]
      BY <1>5
    <3>2. Awaited(m)
      BY <2>1, <2>2, <3>1 DEF Live
    <3> QED BY <1>1, <3>1, <3>2 DEF Inherited
  <2>3. ASSUME NEW m \in DOMAIN work', Awaited(m)', NEW k \in work'[m].local
        PROVE  flight[k] \in DOMAIN work /\ \E j \in Keys : Below(m, flight[k], j)
    <3>1. Awaited(m)
      BY <1>2, <2>1, <2>3 DEF Live
    <3> QED BY <1>1, <1>2, <3>1 DEF Inherited
  <2>4. \A m, k, j : Below(m, flight[k], j)' <=> Below(m, flight[k], j)
    BY <1>2 DEF Below
  <2> QED BY <1>2, <2>2, <2>3, <2>4 DEF Inherited
<1> QED BY <1>10, <1>11, <1>12, <1>13, <1>14, <1>15, <1>16, <1>17, <1>18 DEF IInv

-----------------------------------------------------------------------------
\* SelectSource(n) opens a frame below n for every derived key it attempts.
LEMMA SelectSourceKeeps ==
    ASSUME IInv, NEW n \in DOMAIN work, SelectSource(n)
    PROVE  IInv'
<1>1. /\ Shape /\ ValuesOK /\ PathsOK /\ ParentsWait /\ FrameAndWork /\ UsedOnce
      /\ FlightsHaveProducers /\ JoinedKeysAreReserved /\ Inherited
  BY DEF IInv
<1>2. PICK s \in Useful(n) :
         LET cand == Candidates(n, s)
             asks == {k \in cand : Sources[s].derived /\ ~IsCycle(n, k)}
         IN  /\ work[n].state = "select"
             /\ work' = [work EXCEPT ![n] = [work[n] EXCEPT
                             !.state = "attempt", !.source = s, !.result = WithPinned(n),
                             !.attempt = [k \in Keys |->
                                 IF k \notin cand THEN "none"
                                 ELSE IF k \in asks THEN "dependencies"
                                 ELSE IF Sources[s].derived \/ Expired(n) THEN "failed"
                                 ELSE "fetching"]]]
             /\ frame' = LET asked == {Child(n, k) : k \in asks}
                         IN  [m \in DOMAIN frame \cup asked |->
                                 IF m \in asked THEN NewFrame(Deps[Last(Path(m))], LocalOwned(n))
                                 ELSE frame[m]]
             /\ UNCHANGED <<request, memo, cache, flight, expired, versions, forgets>>
  BY DEF SelectSource
<1> DEFINE cand == Candidates(n, s)
           asks == {k \in cand : Sources[s].derived /\ ~IsCycle(n, k)}
           asked == {Child(n, k) : k \in asks}
           attempt == [k \in Keys |-> IF k \notin cand THEN "none"
                                      ELSE IF k \in asks THEN "dependencies"
                                      ELSE IF Sources[s].derived \/ Expired(n) THEN "failed"
                                      ELSE "fetching"]
<1>3. /\ work[n].state = "select"
      /\ work' = [work EXCEPT ![n] = [work[n] EXCEPT !.state = "attempt", !.source = s,
                                          !.result = WithPinned(n), !.attempt = attempt]]
      /\ frame' = [m \in DOMAIN frame \cup asked |->
                      IF m \in asked THEN NewFrame(Deps[Last(Path(m))], LocalOwned(n))
                      ELSE frame[m]]
      /\ UNCHANGED <<request, memo, cache, flight, expired, versions, forgets>>
  BY <1>2
<1>4. n \in AnyNode /\ n[1] \in Requests /\ IsWork(work[n])
  BY <1>1 DEF Shape, AnyNode
<1>5. /\ s \in Nat /\ s >= work[n].source /\ s \in DOMAIN Sources
      /\ cand \subseteq work[n].owned /\ cand \subseteq Sources[s].keys
      /\ asks \subseteq cand /\ asks \subseteq Keys
      /\ \A k \in asks : Sources[s].derived /\ ~IsCycle(n, k)
  <2>1. work[n].source \in Nat \ {0} /\ work[n].owned \subseteq Keys
    BY <1>4 DEF IsWork
  <2>2. Sources \in Seq([derived : BOOLEAN, keys : SUBSET Keys])
    BY ResolutionAssumption
  <2>3. s \in work[n].source..Len(Sources)
    BY DEF Useful
  <2>4. s \in Nat \ {0} /\ s >= work[n].source /\ s <= Len(Sources)
    BY <2>1, <2>2, <2>3
  <2>5. s \in DOMAIN Sources
    BY <2>2, <2>4
  <2>6. cand \subseteq work[n].owned /\ cand \subseteq Sources[s].keys
    BY DEF Candidates, Open
  <2> QED BY <2>1, <2>4, <2>5, <2>6
\* No derived source was up for these keys before, so nothing is left of them below n.
<1>6. \A k \in asks : Fresh(n, k)
  <2>1. ASSUME NEW k \in asks PROVE Untried(n, k)
    <3>1. ASSUME NEW t \in DOMAIN Sources, Sources[t].derived, k \in Sources[t].keys
          PROVE  t = s
      <4>1. Sources[s].derived /\ k \in Sources[s].keys
        BY <1>5, <2>1
      <4> QED BY <1>5, <3>1, <4>1, ResolutionAssumption
    <3>2. s > work[n].source \/ (s = work[n].source /\ work[n].state = "select")
      BY <1>3, <1>4, <1>5 DEF IsWork
    <3> QED BY <3>1, <3>2 DEF Untried
  <2> QED BY <1>1, <1>5, <2>1 DEF UsedOnce
<1> HIDE DEF cand, asks
<1>7. \A k \in asks : /\ Child(n, k) \in AnyNode /\ Child(n, k)[2] # <<>>
                      /\ Child(n, k) \notin DOMAIN frame /\ Child(n, k) \notin DOMAIN work
  BY <1>4, <1>5, <1>6, FreshChild, ChildIsNode DEF Live
\* The frames: new ones for the keys of asks.
<1>8. /\ DOMAIN frame' = DOMAIN frame \cup asked /\ frame' = [m \in DOMAIN frame' |-> frame'[m]]
      /\ \A m \in DOMAIN frame : frame'[m] = frame[m]
      /\ \A k \in asks : Opens(frame'[Child(n, k)], Deps[k], LocalOwned(n))
  <2>1. DOMAIN frame' = DOMAIN frame \cup asked /\ frame' = [m \in DOMAIN frame' |-> frame'[m]]
    BY <1>3
  <2>2. \A m \in DOMAIN frame : m \notin asked
    BY <1>7
  <2>3. \A m \in DOMAIN frame : frame'[m] = frame[m]
    BY <1>3, <2>2
  <2>4. ASSUME NEW k \in asks
        PROVE  Opens(frame'[Child(n, k)], Deps[k], LocalOwned(n))
    <3>1. Last(Path(Child(n, k))) = k
      BY <1>4, <1>5, ParentOfChild
    <3>2. Child(n, k) \in asked
      OBVIOUS
    <3>3. frame'[Child(n, k)] = NewFrame(Deps[k], LocalOwned(n))
      BY <1>3, <3>1, <3>2
    <3>4. Deps[k] \subseteq Keys /\ LocalOwned(n) \subseteq Keys
      BY <1>4, <1>5, ResolutionAssumption DEF LocalOwned, IsWork
    <3> QED BY <3>3, <3>4, NewFrameOpens
  <2> QED BY <2>1, <2>3, <2>4
<1>9. \A m \in asked : \E k \in asks : m = Child(n, k)
  OBVIOUS
<1>10. \A k \in asks : Child(n, k) \in asked
  OBVIOUS
<1> HIDE DEF asked
<1>11. \A k \in asks :
          /\ IsFrame(frame'[Child(n, k)]) /\ frame'[Child(n, k)].state = "lookup"
          /\ frame'[Child(n, k)].keys = Deps[k] /\ frame'[Child(n, k)].local = LocalOwned(n)
          /\ \A j \in Keys : frame'[Child(n, k)].values[j] = NoValue
  BY <1>8 DEF Opens
\* The works: n attempts the keys of cand.
<1>12. /\ attempt \in [Keys -> Attempts]
       /\ \A k \in Keys : /\ attempt[k] = "dependencies" <=> k \in asks
                          /\ attempt[k] # "none" => k \in cand
  <2>1. attempt \in [Keys -> Attempts]
    BY DEF Attempts
  <2>2. \A k \in Keys : /\ attempt[k] = "dependencies" <=> k \in asks
                        /\ attempt[k] # "none" => k \in cand
    BY <1>5
  <2> QED BY <2>1, <2>2
<1> HIDE DEF attempt
<1>13. /\ DOMAIN work' = DOMAIN work /\ work' = [m \in DOMAIN work' |-> work'[m]]
       /\ \A m \in DOMAIN work : m # n => work'[m] = work[m]
       /\ IsWork(work'[n]) /\ work'[n].state = "attempt" /\ work'[n].source = s
       /\ work'[n].result = WithPinned(n) /\ work'[n].attempt = attempt
       /\ work'[n].owned = work[n].owned /\ work'[n].local = work[n].local
       /\ work'[n].direct = work[n].direct /\ work'[n].used = work[n].used
  <2>1. /\ DOMAIN work' = DOMAIN work /\ work' = [m \in DOMAIN work' |-> work'[m]]
        /\ \A m \in DOMAIN work : m # n => work'[m] = work[m]
        /\ work'[n] = [work[n] EXCEPT !.state = "attempt", !.source = s,
                                      !.result = WithPinned(n), !.attempt = attempt]
    BY <1>3
  <2>2. DOMAIN work[n] = {"state", "owned", "direct", "local", "source", "attempt", "used", "result"}
    BY <1>4 DEF IsWork
  <2>3. /\ DOMAIN work'[n] = DOMAIN work[n] /\ work'[n].state = "attempt" /\ work'[n].source = s
        /\ work'[n].result = WithPinned(n) /\ work'[n].attempt = attempt
        /\ work'[n].owned = work[n].owned /\ work'[n].local = work[n].local
        /\ work'[n].direct = work[n].direct /\ work'[n].used = work[n].used
    BY <2>1, <2>2
  <2>4. WithPinned(n) = [k \in Keys |-> WithPinned(n)[k]]
    BY DEF WithPinned
  <2>5. s \in Nat \ {0}
    BY <1>4, <1>5 DEF IsWork
  <2>6. IsWork(work'[n])
    BY <1>4, <1>12, <2>3, <2>4, <2>5 DEF IsWork
  <2> QED BY <2>1, <2>3, <2>6
<1>14. \A m \in DOMAIN work' : /\ work'[m].owned = work[m].owned /\ work'[m].local = work[m].local
                               /\ work'[m].direct = work[m].direct
  BY <1>13
<1>15. DOMAIN work \subseteq AnyNode /\ DOMAIN frame \subseteq AnyNode /\ Live \subseteq AnyNode
  BY <1>1 DEF Shape, Live
<1>16. Live' = Live \cup asked
  BY <1>8, <1>13 DEF Live
<1>17. Shape'
  <2>1. \A m \in DOMAIN frame' : IsFrame(frame'[m]) /\ m \in AnyNode
    BY <1>1, <1>7, <1>8, <1>9, <1>11, <1>15 DEF Shape
  <2>2. \A m \in DOMAIN work' : IsWork(work'[m])
    BY <1>1, <1>13 DEF Shape
  <2>3. /\ request' \in [Requests -> {"new", "running", "done", "late", "cancelled"}]
        /\ expired' \subseteq Timed /\ flight' \in [Keys -> AnyNode \cup {NoNode}]
    BY <1>1, <1>3 DEF Shape
  <2> QED BY <1>8, <1>13, <1>15, <2>1, <2>2, <2>3 DEF Shape
<1>18. ValuesOK'
  <2>1. \A u : IsValue(u) => Within(versions', u)
    BY <1>3 DEF IsValue, Within
  <2>2. IsValue(NoValue) /\ NoValue # Failure
    BY <1>1, NoValueIsNoFailure DEF ValuesOK, IsValue, NoValue
  <2>3. /\ versions' \in Nat /\ cache' = [k \in Keys |-> cache'[k]]
        /\ memo' = [q \in Requests |-> [k \in Keys |-> memo'[q][k]]]
        /\ \A k \in Keys : Within(versions', cache'[k]) /\ cache'[k] # Failure
        /\ \A q \in Requests, k \in Keys : Within(versions', memo'[q][k]) /\ memo'[q][k] # Failure
    BY <1>1, <1>3, <2>1 DEF ValuesOK
  <2>4. ASSUME NEW m \in DOMAIN frame', NEW k \in Keys
        PROVE  /\ Within(versions', frame'[m].values[k])
               /\ frame'[m].state = "split" => frame'[m].values[k] # Failure
    <3>1. CASE m \in DOMAIN frame
      BY <1>1, <1>8, <2>1, <3>1 DEF ValuesOK
    <3>2. CASE m \in asked
      BY <1>9, <1>11, <2>1, <2>2, <3>2
    <3> QED BY <1>8, <3>1, <3>2
  <2>5. ASSUME NEW m \in DOMAIN work', NEW k \in Keys
        PROVE  Within(versions', work'[m].result[k]) /\ DOMAIN work'[m].used[k] \subseteq Keys
    <3>1. IsValue(work[m].result[k]) /\ DOMAIN work[m].used[k] \subseteq Keys
      BY <1>1, <1>13 DEF ValuesOK
    <3>2. CASE m = n
      <4>1. IsValue(memo[n[1]][k])
        BY <1>1, <1>4 DEF ValuesOK
      <4>2. IsValue(WithPinned(n)[k])
        BY <3>1, <3>2, <4>1 DEF WithPinned
      <4> QED BY <1>13, <2>1, <3>1, <3>2, <4>2
    <3>3. CASE m # n
      BY <1>13, <2>1, <3>1, <3>3
    <3> QED BY <3>2, <3>3
  <2> QED BY <2>3, <2>4, <2>5 DEF ValuesOK, Failure, IsValue, Within
<1>19. PathsOK'
  <2>1. ASSUME NEW k \in asks
        PROVE  /\ IsPath(Child(n, k)[2]) /\ Child(n, k)[2] \in Seq(DerivedKeys)
               /\ WhatFor(Child(n, k)) = Deps[k]
    <3>1. IsPath(n[2]) /\ n[2] \in Seq(DerivedKeys) /\ n[2] \in Seq(Keys) /\ k \in Keys
      BY <1>1, <1>4, <1>5 DEF PathsOK, Live, AnyNode
    <3>2. k \in WhatFor(n)
      BY <1>1, <1>5 DEF PathsOK
    <3>3. k \in DerivedKeys
      BY <1>5 DEF DerivedKeys
    <3>4. k \notin Deps[k] /\ \A i \in DOMAIN n[2] : n[2][i] \notin Deps[k]
      BY <1>5 DEF IsCycle, ToSet, Path
    <3> DEFINE p == Append(n[2], k)
    <3>5. /\ p \in Seq(DerivedKeys) /\ Len(p) = Len(n[2]) + 1 /\ DOMAIN p = 1..(Len(n[2]) + 1)
          /\ p[Len(n[2]) + 1] = k /\ \A i \in 1..Len(n[2]) : p[i] = n[2][i]
      BY <3>1, <3>3
    <3>6. Len(n[2]) \in Nat /\ DOMAIN n[2] = 1..Len(n[2])
      BY <3>1
    <3>7. n[2] # <<>> => Len(n[2]) >= 1
      BY <3>1
    <3> HIDE DEF p
    <3>8. ASSUME NEW j \in DOMAIN p
          PROVE  /\ j > 1 => p[j] \in Deps[p[j - 1]]
                 /\ \A i \in 1..j : p[i] \notin Deps[p[j]]
      <4>1. CASE j = Len(n[2]) + 1
        <5>1. j > 1 => n[2] # <<>> /\ p[j - 1] = n[2][Len(n[2])]
          BY <3>5, <3>6, <4>1
        <5>2. j > 1 => p[j] \in Deps[p[j - 1]]
          BY <3>2, <3>5, <4>1, <5>1 DEF WhatFor
        <5>3. \A i \in 1..j : p[i] \notin Deps[p[j]]
          BY <3>4, <3>5, <3>6, <4>1
        <5> QED BY <5>2, <5>3
      <4>2. CASE j # Len(n[2]) + 1
        <5>1. j \in DOMAIN n[2] /\ p[j] = n[2][j] /\ \A i \in 1..j : p[i] = n[2][i]
          BY <3>5, <3>6, <4>2
        <5>2. j > 1 => p[j - 1] = n[2][j - 1]
          BY <3>5, <3>6, <5>1
        <5> QED BY <3>1, <5>1, <5>2 DEF IsPath
      <4> QED BY <4>1, <4>2
    <3>9. Child(n, k)[2] = p /\ Child(n, k)[2] # <<>>
      BY <1>4, <3>1, ChildIsNode DEF p
    <3>10. WhatFor(Child(n, k)) = Deps[k]
      BY <3>5, <3>9 DEF WhatFor
    <3> QED BY <3>5, <3>8, <3>9, <3>10 DEF IsPath
  <2>2. \A m \in Live' : IsPath(m[2]) /\ m[2] \in Seq(DerivedKeys)
    BY <1>1, <1>9, <1>16, <2>1 DEF PathsOK
  <2>3. \A m \in DOMAIN frame' : frame'[m].keys \subseteq WhatFor(m)
    BY <1>1, <1>8, <1>9, <1>11, <2>1 DEF PathsOK
  <2>4. \A m \in DOMAIN work' : work'[m].owned \subseteq WhatFor(m)
    BY <1>1, <1>13, <1>14 DEF PathsOK
  <2> QED BY <2>2, <2>3, <2>4 DEF PathsOK, WhatFor
<1>20. ParentsWait'
  <2>1. ASSUME NEW m \in DOMAIN work', NEW k \in Keys
        PROVE  /\ work'[m].attempt[k] = "dependencies" <=> Child(m, k) \in DOMAIN frame'
               /\ work'[m].attempt[k] # "none" => work'[m].state = "attempt" /\ k \in work'[m].owned
    <3>1. m \in DOMAIN work /\ m \in AnyNode
      BY <1>13, <1>15
    <3>2. Child(m, k) \in asked <=> m = n /\ k \in asks
      BY <1>4, <1>5, <1>9, <1>10, <3>1, ChildInjective
    <3>3. CASE m = n
      <4>1. work[n].attempt[k] = "none"
        BY <1>1, <1>3 DEF ParentsWait
      <4>2. Child(n, k) \notin DOMAIN frame
        BY <1>1, <1>4, <4>1, NoChildren
      <4> QED BY <1>5, <1>8, <1>12, <1>13, <3>2, <3>3, <4>2
    <3>4. CASE m # n
      <4>1. /\ work[m].attempt[k] = "dependencies" <=> Child(m, k) \in DOMAIN frame
            /\ work[m].attempt[k] # "none" => work[m].state = "attempt" /\ k \in work[m].owned
        BY <1>1, <3>1 DEF ParentsWait
      <4> QED BY <1>8, <1>13, <3>1, <3>2, <3>4, <4>1
    <3> QED BY <3>3, <3>4
  <2>2. ASSUME NEW m \in DOMAIN frame', m[2] # <<>>
        PROVE  \E p \in DOMAIN work', c \in Keys : m = Child(p, c)
    <3>1. CASE m \in DOMAIN frame
      BY <1>1, <1>13, <2>2, <3>1 DEF ParentsWait
    <3>2. CASE m \in asked
      BY <1>5, <1>9, <1>13, <3>2
    <3> QED BY <1>8, <3>1, <3>2
  <2> QED BY <2>1, <2>2 DEF ParentsWait
<1>21. FrameAndWork'
  <2>1. ASSUME NEW m \in DOMAIN frame'
        PROVE  /\ frame'[m].state \in {"lookup", "split"} => m \notin DOMAIN work'
               /\ frame'[m].state = "direct" => m \in DOMAIN work' /\ work'[m].direct
    <3>1. CASE m \in DOMAIN frame
      BY <1>1, <1>8, <1>13, <1>14, <3>1 DEF FrameAndWork
    <3>2. CASE m \in asked
      BY <1>7, <1>9, <1>11, <1>13, <3>2
    <3> QED BY <1>8, <3>1, <3>2
  <2>2. ASSUME NEW m \in DOMAIN work', work'[m].direct
        PROVE  /\ m \in DOMAIN frame' /\ frame'[m].state = "direct"
               /\ work'[m].owned \subseteq work'[m].local
    BY <1>1, <1>8, <1>13, <1>14, <2>2 DEF FrameAndWork
  <2> QED BY <2>1, <2>2 DEF FrameAndWork
<1>22. UsedOnce'
  <2>1. \A m \in Live' : request'[m[1]] # "new"
    <3>1. \A k \in asks : Child(n, k)[1] = n[1]
      BY <1>4, <1>5, ChildIsNode
    <3>2. n \in Live
      BY DEF Live
    <3> QED BY <1>1, <1>3, <1>9, <1>16, <3>1, <3>2 DEF UsedOnce
  \* What was fresh and is not one of the new frames is still fresh.
  <2>2. ASSUME NEW m \in AnyNode, NEW k \in Keys, Fresh(m, k), m = n => k \notin asks
        PROVE  Fresh(m, k)'
    <3>1. ASSUME NEW c \in asks PROVE ~Below(Child(n, c), m, k)
      <4>1. ~Below(n, m, k)
        BY <2>2 DEF Fresh, Live
      <4> QED BY <1>4, <1>5, <2>2, <4>1, ChildBelow
    <3>2. \A q \in Live' : ~Below(q, m, k)
      BY <1>9, <1>16, <2>2, <3>1 DEF Fresh
    <3> QED BY <3>2 DEF Fresh, Below
  <2>3. ASSUME NEW c \in asks, NEW k \in Keys
        PROVE  Fresh(Child(n, c), k)'
    <3>1. ASSUME NEW q \in Live PROVE ~Below(q, Child(n, c), k)
      BY <1>4, <1>5, <1>6, <1>15, BelowChild DEF Fresh
    <3>2. ASSUME NEW j \in asks PROVE ~Below(Child(n, j), Child(n, c), k)
      <4>1. n \in Live
        BY DEF Live
      <4>2. ~Below(n, Child(n, c), k)
        BY <3>1, <4>1
      <4>3. n # Child(n, c)
        BY <1>7
      <4> QED BY <1>4, <1>5, <1>7, <4>2, <4>3, ChildBelow
    <3>3. \A q \in Live' : ~Below(q, Child(n, c), k)
      BY <1>9, <1>16, <3>1, <3>2
    <3> QED BY <3>3 DEF Fresh, Below, Child
  <2>4. ASSUME NEW m \in DOMAIN frame', NEW k \in Keys
        PROVE  /\ frame'[m].state \in {"lookup", "split"} => Fresh(m, k)'
               /\ frame'[m].state = "direct" /\ k \notin work'[m].owned => Fresh(m, k)'
    <3>1. CASE m \in DOMAIN frame
      <4>1. m \in AnyNode /\ frame'[m] = frame[m]
        BY <1>8, <1>15, <3>1
      <4>2. frame[m].state \in {"lookup", "split"} => m # n /\ Fresh(m, k)
        BY <1>1, <3>1 DEF FrameAndWork, UsedOnce
      <4>3. frame[m].state = "direct" /\ k \notin work'[m].owned =>
               Fresh(m, k) /\ (m = n => k \notin asks)
        <5>1. frame[m].state = "direct" => m \in DOMAIN work
          BY <1>1, <3>1 DEF FrameAndWork
        <5>2. m \in DOMAIN work => work'[m].owned = work[m].owned
          BY <1>13, <1>14
        <5> QED BY <1>1, <1>5, <3>1, <5>1, <5>2 DEF UsedOnce
      <4> QED BY <2>2, <4>1, <4>2, <4>3
    <3>2. CASE m \in asked
      BY <1>9, <1>11, <2>3, <3>2
    <3> QED BY <1>8, <3>1, <3>2
  <2>5. ASSUME NEW m \in DOMAIN work', NEW k \in work'[m].owned, Untried(m, k)'
        PROVE  Fresh(m, k)'
    <3>1. m \in DOMAIN work /\ m \in AnyNode /\ k \in work[m].owned /\ k \in Keys
      BY <1>1, <1>13, <1>14, <1>15 DEF Shape, IsWork
    <3>2. CASE m = n
      <4>1. \A t \in DOMAIN Sources : Sources[t].derived /\ k \in Sources[t].keys => t > s
        BY <1>13, <2>5, <3>2 DEF Untried
      <4>2. DOMAIN Sources \subseteq Nat /\ work[n].source \in Nat
        BY <1>4, ResolutionAssumption DEF IsWork
      <4>3. Untried(n, k)
        BY <1>5, <4>1, <4>2 DEF Untried
      <4>4. k \notin asks
        BY <1>5, <4>1
      <4> QED BY <1>1, <2>2, <3>1, <3>2, <4>3, <4>4 DEF UsedOnce
    <3>3. CASE m # n
      <4>1. Untried(m, k)
        BY <1>13, <2>5, <3>1, <3>3 DEF Untried
      <4> QED BY <1>1, <2>2, <3>1, <3>3, <4>1 DEF UsedOnce
    <3> QED BY <3>2, <3>3
  <2> QED BY <2>1, <2>4, <2>5 DEF UsedOnce
<1>23. FlightsHaveProducers'
  BY <1>1, <1>3, <1>13, <1>14 DEF FlightsHaveProducers
<1>24. JoinedKeysAreReserved'
  <2>1. ASSUME NEW m \in DOMAIN frame', frame'[m].state = "join", NEW k \in Missing(frame'[m])
        PROVE  flight'[k] # NoNode
    <3>1. m \in DOMAIN frame /\ frame'[m] = frame[m]
      BY <1>8, <1>9, <1>11, <2>1
    <3> QED BY <1>1, <1>3, <2>1, <3>1 DEF JoinedKeysAreReserved
  <2> QED BY <2>1 DEF JoinedKeysAreReserved, Missing, NoValue, NoNode
<1>25. Inherited'
  \* None of those that ran before is below a new frame.
  <2>1. ASSUME NEW m \in Live, Awaited(m)'
        PROVE  Awaited(m)
    <3>1. m \in AnyNode
      BY <1>15
    <3>2. ASSUME NEW i \in 1..Len(m[2]), NEW k \in asks PROVE Prefix(m, i) # Child(n, k)
      <4>1. ~Below(m, n, k)
        BY <1>6 DEF Fresh
      <4> QED BY <1>4, <1>5, <3>1, <4>1, ChildOnPath
    <3>3. \A i \in 1..Len(m[2]) : Prefix(m, i) \in DOMAIN frame'
      BY <2>1 DEF Awaited, Path
    <3>4. \A i \in 1..Len(m[2]) : Prefix(m, i) \in DOMAIN frame
      BY <1>8, <1>9, <3>2, <3>3
    <3> QED BY <3>4 DEF Awaited, Path
  <2>2. ASSUME NEW k \in asks, Awaited(Child(n, k))', NEW j \in LocalOwned(n)
        PROVE  flight[j] \in DOMAIN work /\ \E c \in Keys : Below(Child(n, k), flight[j], c)
    <3>1. Awaited(n)'
      <4>1. Len(Child(n, k)[2]) = Len(n[2]) + 1 /\ Len(n[2]) \in Nat
        BY <1>4, <1>5, ChildIsNode DEF AnyNode
      <4>2. \A i \in 1..(Len(n[2]) + 1) : Prefix(Child(n, k), i) \in DOMAIN frame'
        BY <2>2, <4>1 DEF Awaited, Path
      <4>3. \A i \in 1..Len(n[2]) : Prefix(Child(n, k), i) = Prefix(n, i)
        BY <1>4, <1>5, PrefixOfChild
      <4>4. \A i \in 1..Len(n[2]) : Prefix(n, i) \in DOMAIN frame'
        BY <4>1, <4>2, <4>3
      <4> QED BY <4>4 DEF Awaited, Path
    <3>2. Awaited(n)
      BY <2>1, <3>1 DEF Live
    <3>3. CASE j \in work[n].local
      <4>1. PICK c \in Keys : flight[j] \in DOMAIN work /\ Below(n, flight[j], c)
        BY <1>1, <3>2, <3>3 DEF Inherited
      <4>2. Below(Child(n, k), flight[j], c)
        BY <1>4, <1>5, <1>15, <4>1, ChildBelow
      <4> QED BY <4>1, <4>2
    <3>4. CASE j \in work[n].owned /\ ~work[n].direct
      <4>1. flight[j] = n
        BY <1>1, <1>4, <3>4 DEF FlightsHaveProducers, IsWork
      <4>2. Below(Child(n, k), n, k)
        BY <1>4, <1>5, ChildBelow
      <4> QED BY <1>5, <4>1, <4>2
    <3>5. work[n].direct => work[n].owned \subseteq work[n].local
      BY <1>1 DEF FrameAndWork
    <3> QED BY <3>3, <3>4, <3>5 DEF LocalOwned
  <2>3. ASSUME NEW m \in DOMAIN frame', Awaited(m)', NEW k \in frame'[m].local
        PROVE  flight[k] \in DOMAIN work /\ \E j \in Keys : Below(m, flight[k], j)
    <3>1. CASE m \in DOMAIN frame
      <4>1. Awaited(m)
        BY <2>1, <2>3, <3>1 DEF Live
      <4> QED BY <1>1, <1>8, <3>1, <4>1 DEF Inherited
    <3>2. CASE m \in asked
      <4>1. PICK c \in asks : m = Child(n, c)
        BY <1>9, <3>2
      <4>2. Awaited(Child(n, c))'
        BY <2>3, <4>1 DEF Awaited, Child
      <4> QED BY <1>11, <2>2, <4>1, <4>2
    <3> QED BY <1>8, <3>1, <3>2
  <2>4. ASSUME NEW m \in DOMAIN work', Awaited(m)', NEW k \in work'[m].local
        PROVE  flight[k] \in DOMAIN work /\ \E j \in Keys : Below(m, flight[k], j)
    <3>1. m \in DOMAIN work /\ k \in work[m].local
      BY <1>13, <1>14
    <3>2. Awaited(m)
      BY <2>1, <2>4, <3>1 DEF Live
    <3> QED BY <1>1, <3>1, <3>2 DEF Inherited
  <2>5. \A m, k, j : Below(m, flight[k], j)' <=> Below(m, flight[k], j)
    BY <1>3 DEF Below
  <2> QED BY <1>3, <1>13, <2>3, <2>4, <2>5 DEF Inherited
<1> QED BY <1>17, <1>18, <1>19, <1>20, <1>21, <1>22, <1>23, <1>24, <1>25 DEF IInv

-----------------------------------------------------------------------------
LEMMA InitKeeps ==
    ASSUME Init
    PROVE  IInv
<1>1. DOMAIN frame = {} /\ DOMAIN work = {} /\ frame = <<>> /\ work = <<>> /\ Live = {}
  BY DEF Init, Live
<1>2. /\ \A k \in Keys : Only({}, NoValue)[k] = NoValue
      /\ Only({}, NoValue) = [k \in Keys |-> Only({}, NoValue)[k]]
  BY DEF Only
<1>3. Shape
  BY <1>1 DEF Init, Shape
<1>4. ValuesOK
  <2>1. versions = 0 /\ cache = Only({}, NoValue) /\ memo = [r \in Requests |-> Only({}, NoValue)]
    BY DEF Init
  <2>2. IsValue(NoValue) /\ NoValue # Failure
    BY <2>1, NoValueIsNoFailure DEF IsValue, NoValue
  <2>3. memo = [r \in Requests |-> [k \in Keys |-> memo[r][k]]]
    BY <1>2, <2>1
  <2> QED BY <1>1, <1>2, <2>1, <2>2, <2>3 DEF ValuesOK
<1>5. PathsOK /\ ParentsWait /\ FrameAndWork /\ UsedOnce
  BY <1>1 DEF PathsOK, ParentsWait, FrameAndWork, UsedOnce
<1>6. FlightsHaveProducers /\ JoinedKeysAreReserved /\ Inherited
  BY <1>1 DEF FlightsHaveProducers, JoinedKeysAreReserved, Inherited, Init
<1> QED BY <1>3, <1>4, <1>5, <1>6 DEF IInv

LEMMA NextKeeps ==
    ASSUME IInv, [Next]_vars
    PROVE  IInv'
<1>1. CASE \E r \in Requests : Build(r) \/ Cancel(r)
  BY <1>1, BuildKeeps, CancelKeeps
<1>2. CASE (\E r \in Requests : Expire(r)) \/ (\E k \in Keys : Forget(k)) \/ UNCHANGED vars
  BY <1>2, OthersKeep
<1>3. ASSUME NEW n \in DOMAIN frame, FrameStep(n)
      PROVE  IInv'
  BY <1>3, LookupKeeps, LookupRaisesKeeps, SplitKeeps, ReturnKeeps DEF FrameStep
<1>4. ASSUME NEW n \in DOMAIN work, WorkStep(n)
      PROVE  IInv'
  <2>1. CASE SelectSource(n)
    BY <2>1, SelectSourceKeeps
  <2>2. CASE \E k \in Keys : CallEnds(n, k)
    BY <2>2, CallEndsKeeps
  <2>3. CASE Accept(n)
    BY <2>3, AcceptKeeps
  <2>4. CASE AcceptRaises(n)
    BY <2>4, AcceptRaisesKeeps
  <2>5. CASE Complete(n)
    BY <2>5, ProducerCompletes, DirectWorkCompletes
  <2> QED BY <1>4, <2>1, <2>2, <2>3, <2>4, <2>5 DEF WorkStep
<1> QED BY <1>1, <1>2, <1>3, <1>4 DEF Next, Run

\* The inductive invariant holds in every state.
THEOREM Invariance == Spec => []IInv
<1>1. Init => IInv
  BY InitKeeps
<1>2. IInv /\ [Next]_vars => IInv'
  BY NextKeeps
<1> QED BY <1>1, <1>2, PTL DEF Spec

-----------------------------------------------------------------------------
\* MaxPath limits nothing: paths of derived keys without a cycle are not longer.
LEMMA PathsAreBounded ==
    ASSUME NEW n \in AnyNode, IsPath(n[2]), n[2] \in Seq(DerivedKeys)
    PROVE  n \in Nodes
<1> DEFINE p == n[2]
<1>1. p \in Seq(Keys) /\ Len(p) \in Nat /\ DOMAIN p = 1..Len(p) /\ n[1] \in Requests /\ n = <<n[1], p>>
  BY DEF AnyNode
<1>2. MaxPath \in Nat /\ \A q \in [1..(MaxPath + 1) -> DerivedKeys] : ~IsPath(q)
  BY ResolutionAssumption
<1>3. Len(p) <= MaxPath
  <2>1. SUFFICES ASSUME Len(p) > MaxPath PROVE FALSE
    BY <1>1, <1>2
  <2> DEFINE q == [i \in 1..(MaxPath + 1) |-> p[i]]
  <2>2. 1..(MaxPath + 1) \subseteq DOMAIN p
    BY <1>1, <1>2, <2>1
  <2>3. \A i \in DOMAIN p : p[i] \in DerivedKeys
    <3>1. p \in Seq(DerivedKeys)
      OBVIOUS
    <3> HIDE DEF p
    <3> QED BY <3>1
  <2>4. q \in [1..(MaxPath + 1) -> DerivedKeys]
    BY <2>2, <2>3
  <2>5. ASSUME NEW j \in 1..(MaxPath + 1)
        PROVE  /\ j > 1 => q[j] \in Deps[q[j - 1]]
               /\ \A i \in 1..j : q[i] \notin Deps[q[j]]
    <3>1. /\ j > 1 => p[j] \in Deps[p[j - 1]]
          /\ \A i \in 1..j : p[i] \notin Deps[p[j]]
      BY <2>2 DEF IsPath
    <3>2. j > 1 => j - 1 \in 1..(MaxPath + 1)
      BY <1>2
    <3>3. \A i \in 1..j : i \in 1..(MaxPath + 1)
      BY <1>2
    <3> QED BY <3>1, <3>2, <3>3
  <2>6. IsPath(q)
    BY <2>5 DEF IsPath
  <2> QED BY <1>2, <2>4, <2>6
<1>4. p \in [1..Len(p) -> Keys] /\ Len(p) \in 0..MaxPath
  BY <1>1, <1>2, <1>3
<1> HIDE DEF p
<1>5. p \in UNION {[1..i -> Keys] : i \in 0..MaxPath}
  BY <1>4
<1> QED BY <1>1, <1>5 DEF Nodes

LEMMA LiveAreNodes ==
    ASSUME IInv
    PROVE  Live \subseteq Nodes
BY PathsAreBounded DEF IInv, Shape, PathsOK, Live

LEMMA ReservationsOK ==
    ASSUME IInv
    PROVE  ReservationsMatch
<1>1. /\ Shape /\ ValuesOK /\ PathsOK /\ ParentsWait /\ FrameAndWork /\ UsedOnce
      /\ FlightsHaveProducers /\ JoinedKeysAreReserved /\ Inherited
  BY DEF IInv
<1>2. \A n \in DOMAIN frame \cup DOMAIN work : n \in Nodes
  BY LiveAreNodes DEF Live
<1>3. TypeOK
  <2>1. \A n \in DOMAIN frame :
          /\ n \in Nodes /\ frame[n].local \subseteq Keys
          /\ frame[n].state \in {"lookup", "split", "direct", "join"}
          /\ \A k \in Keys : IsValue(frame[n].values[k])
    BY <1>1, <1>2 DEF Shape, IsFrame, ValuesOK
  <2>2. \A n \in DOMAIN work :
          /\ n \in Nodes /\ work[n].owned \cup work[n].local \subseteq Keys
          /\ work[n].state \in {"select", "attempt"}
          /\ work[n].attempt \in [Keys -> Attempts]
          /\ \A k \in Keys : IsValue(work[n].result[k])
    BY <1>1, <1>2 DEF Shape, IsWork, ValuesOK
  <2>3. flight \in [Keys -> Nodes \cup {NoNode}]
    <3>1. \A k \in Keys : flight[k] = NoNode \/ flight[k] \in DOMAIN work
      BY <1>1 DEF FlightsHaveProducers
    <3> QED BY <1>1, <1>2, <3>1 DEF Shape
  <2>4. /\ \A r \in Requests, k \in Keys : IsValue(memo[r][k]) /\ memo[r][k] # Failure
        /\ \A k \in Keys : IsValue(cache[k]) /\ cache[k] # Failure
    BY <1>1 DEF ValuesOK
  <2>5. /\ request \in [Requests -> {"new", "running", "done", "late", "cancelled"}]
        /\ expired \subseteq Timed
    BY <1>1 DEF Shape
  <2> QED BY <2>1, <2>2, <2>3, <2>4, <2>5 DEF TypeOK, Attempts
<1>4. OneRequestAcquires
  <2>1. SUFFICES ASSUME NEW n \in DOMAIN work, NEW k \in Keys,
                        work[n].attempt[k] # "none", Awaited(n)
                 PROVE  flight[k] # NoNode /\ flight[k][1] = n[1]
    BY DEF OneRequestAcquires
  <2>2. k \in work[n].owned
    BY <1>1, <2>1 DEF ParentsWait
  <2>3. NoNode \notin DOMAIN work
    BY <1>1, NoNodeIsNone DEF Shape
  <2>4. CASE ~work[n].direct
    BY <1>1, <2>2, <2>3, <2>4 DEF FlightsHaveProducers
  <2>5. CASE work[n].direct
    <3>1. k \in work[n].local
      BY <1>1, <2>2, <2>5 DEF FrameAndWork
    <3>2. flight[k] \in DOMAIN work /\ \E j \in Keys : Below(n, flight[k], j)
      BY <1>1, <2>1, <3>1 DEF Inherited
    <3> QED BY <2>3, <3>2 DEF Below
  <2> QED BY <2>4, <2>5
<1> QED BY <1>1, <1>3, <1>4 DEF ReservationsMatch

\* ReservationsMatch, for every configuration: every reserved key has a running producer that
\* owes it and every producer holds the reservations of its keys, no two requests that are
\* still awaited acquire a key at the same time, and whoever waits for a key waits for one
\* that is reserved, whatever is cancelled, fails or runs into a deadline.
THEOREM ReservationsAlwaysMatch == Spec => []ReservationsMatch
<1>1. IInv => ReservationsMatch
  BY ReservationsOK
<1> QED BY <1>1, Invariance, PTL

-----------------------------------------------------------------------------
LEMMA DeadlineStep ==
    ASSUME IInv, [Next]_vars, NEW r \in Requests, request[r] = "running", request'[r] = "late"
    PROVE  \/ r \in expired
           \/ \E k \in Asked[r] : flight[k] # NoNode /\ Expired(flight[k]) /\ flight'[k] = NoNode
<1>1. Shape /\ PathsOK /\ FlightsHaveProducers
  BY DEF IInv
<1>2. /\ request \in [Requests -> {"new", "running", "done", "late", "cancelled"}]
      /\ DOMAIN frame \subseteq AnyNode /\ DOMAIN work \subseteq AnyNode
  BY <1>1 DEF Shape
<1>3. Root(r)[1] = r /\ Root(r)[2] = <<>>
  BY RootIsNode
<1>4. ASSUME NEW S, NEW ws, Raise(S, ws)
      PROVE  Root(r) \in S
  <2>1. request'[r] = IF Root(r) \in S THEN "late" ELSE request[r]
    BY <1>4 DEF Raise
  <2> QED BY <2>1
<1>5. CASE \E q \in Requests : Build(q) \/ Cancel(q) \/ Expire(q)
  BY <1>2, <1>5 DEF Build, Cancel, Expire
<1>6. CASE (\E k \in Keys : Forget(k)) \/ UNCHANGED vars
  BY <1>6 DEF Forget, vars
<1>7. ASSUME NEW n \in DOMAIN frame, FrameStep(n)
      PROVE  r \in expired
  <2>1. CASE Lookup(n) \/ Split(n)
    BY <2>1 DEF Lookup, Split
  <2>2. CASE LookupRaises(n)
    <3>1. Expired(n) /\ Raise({n}, work)
      BY <2>2 DEF LookupRaises
    <3>2. Root(r) = n
      BY <1>4, <3>1
    <3> QED BY <1>3, <3>1, <3>2 DEF Expired
  <2>3. CASE Return(n)
    <3>1. n[1] \in Requests
      BY <1>2 DEF AnyNode
    <3>2. request' = request
             \/ request' = [request EXCEPT ![n[1]] = IF Expired(n) THEN "late" ELSE "done"]
      BY <2>3 DEF Return
    <3> QED BY <1>2, <3>1, <3>2 DEF Expired
  <2> QED BY <1>7, <2>1, <2>2, <2>3 DEF FrameStep
<1>8. ASSUME NEW n \in DOMAIN work, WorkStep(n)
      PROVE  \/ r \in expired
             \/ \E k \in Asked[r] : flight[k] # NoNode /\ Expired(flight[k]) /\ flight'[k] = NoNode
  <2>1. CASE SelectSource(n) \/ (\E k \in Keys : CallEnds(n, k)) \/ Accept(n) \/ Complete(n)
    BY <2>1 DEF SelectSource, CallEnds, Accept, Complete
  <2>2. CASE AcceptRaises(n)
    <3>1. /\ Expired(n)
          /\ Raise(IF work[n].direct THEN {n} ELSE Waiting(work[n].owned), Without(work, n))
          /\ flight' = [k \in Keys |-> IF flight[k] = n THEN NoNode ELSE flight[k]]
      BY <2>2 DEF AcceptRaises
    <3>2. Root(r) \in IF work[n].direct THEN {n} ELSE Waiting(work[n].owned)
      BY <1>4, <3>1
    <3>3. CASE work[n].direct
      BY <1>3, <3>1, <3>2, <3>3 DEF Expired
    <3>4. CASE ~work[n].direct
      <4>1. PICK k : k \in Missing(frame[Root(r)]) /\ k \in work[n].owned /\ Root(r) \in DOMAIN frame
        BY <3>2, <3>4 DEF Waiting
      <4>2. k \in Asked[r]
        BY <1>1, <1>3, <4>1 DEF PathsOK, Missing, WhatFor
      <4>3. k \in Keys
        BY <1>1, <4>1 DEF Shape, IsWork
      <4>4. flight[k] = n /\ n # NoNode
        BY <1>1, <1>2, <3>4, <4>1, <4>3, NoNodeIsNone DEF FlightsHaveProducers
      <4> QED BY <3>1, <4>2, <4>3, <4>4
    <3> QED BY <3>3, <3>4
  <2> QED BY <1>8, <2>1, <2>2 DEF WorkStep
<1> QED BY <1>5, <1>6, <1>7, <1>8 DEF Next, Run

\* DeadlinesContained, for every configuration: a request ends with the deadline error only if
\* its own deadline has passed, or because a request whose deadline has passed was producing a
\* key that it had itself asked for.
THEOREM DeadlinesStayContained == Spec => DeadlinesContained
<1>1. IInv /\ [Next]_vars =>
        [\A r \in Requests :
            request[r] = "running" /\ request'[r] = "late" =>
                \/ r \in expired
                \/ \E k \in Asked[r] :
                      flight[k] # NoNode /\ Expired(flight[k]) /\ flight'[k] = NoNode]_vars
  BY DeadlineStep
<1> QED BY <1>1, Invariance, PTL DEF Spec, DeadlinesContained

-----------------------------------------------------------------------------
\* Frame m waits for key k.
Joined(m, k) == /\ m \in DOMAIN frame /\ frame[m].state = "join"
                /\ k \in frame[m].keys /\ frame[m].values[k] = NoValue

LEMMA WaitingIsJoined == \A k, m : m \in Waiting({k}) <=> Joined(m, k)
BY DEF Waiting, Joined, Missing

\* A step after which the same frames wait for the same keys is one that SingleFlight does
\* not take part in.
LEMMA QuietStep ==
    ASSUME flight' = flight, \A m : \A k \in Keys : Joined(m, k)' <=> Joined(m, k)
    PROVE  [Flights!Next]_(Flights!vars)
<1>1. \A k \in Keys : Waiting({k})' = Waiting({k})
  <2>1. \A k, m : m \in Waiting({k})' <=> Joined(m, k)'
    BY DEF Waiting, Joined, Missing
  <2> QED BY <2>1, WaitingIsJoined
<1> QED BY <1>1 DEF Flights!vars

\* In particular when the frames that wait are left alone and no frame starts to wait.
LEMMA QuietFrames ==
    ASSUME flight' = flight,
           \A m \in DOMAIN frame : frame[m].state = "join" =>
               (m \in DOMAIN frame' /\ frame'[m] = frame[m]) \/ Missing(frame[m]) = {},
           \A m \in DOMAIN frame' : frame'[m].state = "join" =>
               m \in DOMAIN frame /\ frame'[m] = frame[m]
    PROVE  [Flights!Next]_(Flights!vars)
<1>1. ASSUME NEW m, NEW k \in Keys PROVE Joined(m, k)' <=> Joined(m, k)
  <2>1. Joined(m, k)' <=> /\ m \in DOMAIN frame' /\ frame'[m].state = "join"
                          /\ k \in frame'[m].keys /\ frame'[m].values[k] = NoValue
    BY DEF Joined
  <2>2. Joined(m, k) => Missing(frame[m]) # {}
    BY DEF Joined, Missing
  <2> QED BY <2>1, <2>2 DEF Joined
<1> QED BY <1>1, QuietStep

\* RunMany(n, f, ...) is a call that asks for the missing keys of f.
LEMMA RunManyAsks ==
    ASSUME IInv, NEW n \in DOMAIN frame, frame[n].state # "join",
           NEW f, IsFrame(f), NEW ws, RunMany(n, f, flight, ws),
           n \in DOMAIN work => work[n].direct
    PROVE  [Flights!Next]_(Flights!vars)
<1> DEFINE S == Missing(f)
<1>1. Shape /\ FlightsHaveProducers /\ n \in Nodes
  BY LiveAreNodes DEF IInv, Live
<1>2. /\ flight' = [k \in Keys |-> IF k \in Unreserved(S) THEN n ELSE flight[k]]
      /\ frame' = [frame EXCEPT ![n] = [f EXCEPT !.state = "join"]]
  BY DEF RunMany
<1>3. S \subseteq Keys
  BY DEF Missing, IsFrame
<1>4. \A k \in Keys : flight[k] # n
  <2>1. n # NoNode
    BY <1>1, NoNodeIsNone DEF Shape
  <2> QED BY <1>1, <2>1 DEF FlightsHaveProducers
<1>5. /\ DOMAIN frame' = DOMAIN frame /\ \A m \in DOMAIN frame : m # n => frame'[m] = frame[m]
      /\ frame'[n].state = "join" /\ frame'[n].keys = f.keys /\ frame'[n].values = f.values
  <2>1. /\ DOMAIN frame' = DOMAIN frame /\ \A m \in DOMAIN frame : m # n => frame'[m] = frame[m]
        /\ frame'[n] = [f EXCEPT !.state = "join"]
    BY <1>2
  <2>2. DOMAIN f = {"state", "keys", "local", "values"}
    BY DEF IsFrame
  <2> QED BY <2>1, <2>2
<1>6. ASSUME NEW k \in Keys
      PROVE  Waiting({k})' = IF k \in S THEN Waiting({k}) \cup {n} ELSE Waiting({k})
  <2>1. ASSUME NEW m PROVE m \in Waiting({k})' <=> m \in Waiting({k}) \/ (m = n /\ k \in S)
    <3>1. m \in Waiting({k})' <=> /\ m \in DOMAIN frame' /\ frame'[m].state = "join"
                                  /\ k \in frame'[m].keys /\ frame'[m].values[k] = NoValue
      BY DEF Waiting, Missing
    <3>2. k \in S <=> k \in f.keys /\ f.values[k] = NoValue
      BY DEF Missing
    <3>3. m \in Waiting({k}) <=> Joined(m, k)
      BY WaitingIsJoined
    <3> HIDE DEF S
    <3>4. CASE m = n
      BY <1>5, <3>1, <3>2, <3>3, <3>4 DEF Joined
    <3>5. CASE m # n
      BY <1>5, <3>1, <3>3, <3>5 DEF Joined
    <3> QED BY <3>4, <3>5
  <2> HIDE DEF S
  <2>2. CASE k \in S
    BY <2>1, <2>2
  <2>3. CASE k \notin S
    BY <2>1, <2>3
  <2> QED BY <2>2, <2>3
<1>7. flight' = [k \in Keys |-> IF k \in S /\ flight[k] = NoNode THEN n ELSE flight[k]]
  BY <1>2 DEF Unreserved
<1>8. \A k \in Keys : n \notin Waiting({k})
  BY WaitingIsJoined DEF Joined
<1>9. Flights!Ask(n, S)
  BY <1>4, <1>6, <1>7, <1>8 DEF Flights!Ask
<1> HIDE DEF S
<1> QED BY <1>1, <1>3, <1>9 DEF Flights!Next

\* The step of a producer that is over, with values or with an exception.
LEMMA ProducerServes ==
    ASSUME IInv, NEW n \in DOMAIN work, ~work[n].direct,
           flight' = [k \in Keys |-> IF k \in work[n].owned THEN NoNode ELSE flight[k]],
           NEW failed \in {{}, Waiting(work[n].owned)},
           \A k \in Keys : Waiting({k})' =
               IF k \in work[n].owned THEN {} ELSE Waiting({k}) \ failed
    PROVE  [Flights!Next]_(Flights!vars)
<1>1. Shape /\ FlightsHaveProducers /\ n \in Nodes /\ IsWork(work[n])
  BY LiveAreNodes DEF IInv, Live, Shape
<1>2. work[n].owned = {k \in Keys : flight[k] = n} /\ work[n].owned # {}
  BY <1>1 DEF FlightsHaveProducers, IsWork
<1>3. Waiting(work[n].owned) = UNION {Waiting({k}) : k \in work[n].owned}
  BY DEF Waiting
<1>4. Flights!Serve(n)
  <2> DEFINE done == {k \in Keys : flight[k] = n}
             waiting == [k \in Keys |-> Waiting({k})]
             served == UNION {waiting[k] : k \in done}
  <2>1. done # {} /\ flight' = [k \in Keys |-> IF k \in done THEN NoNode ELSE flight[k]]
    BY <1>2
  <2>2. served = Waiting(work[n].owned)
    <3>1. UNION {waiting[k] : k \in done} = UNION {Waiting({k}) : k \in done}
      OBVIOUS
    <3> QED BY <1>2, <1>3, <3>1
  <2>3. [k \in Keys |-> Waiting({k})'] =
            [k \in Keys |-> IF k \in done THEN {} ELSE waiting[k] \ failed]
    BY <1>2
  <2> QED BY <2>1, <2>2, <2>3 DEF Flights!Serve
<1> QED BY <1>1, <1>4 DEF Flights!Next

LEMMA FrameStepShares ==
    ASSUME IInv, NEW n \in DOMAIN frame, FrameStep(n)
    PROVE  [Flights!Next]_(Flights!vars)
<1>1. Shape /\ FrameAndWork /\ IsFrame(frame[n]) /\ DOMAIN frame[n] = {"state", "keys", "local", "values"}
  BY DEF IInv, Shape, IsFrame
<1>2. CASE Lookup(n)
  <2>1. /\ frame[n].state = "lookup" /\ flight' = flight
        /\ DOMAIN frame' = DOMAIN frame /\ \A m \in DOMAIN frame : m # n => frame'[m] = frame[m]
    BY <1>2 DEF Lookup
  <2>2. frame'[n].state = "split"
    BY <1>1, <1>2 DEF Lookup
  <2> QED BY <2>1, <2>2, QuietFrames
<1>3. CASE LookupRaises(n)
  <2>1. /\ frame[n].state \in {"lookup", "split"} /\ flight' = flight
        /\ DOMAIN frame' = DOMAIN frame \ {n} /\ \A m \in DOMAIN frame' : frame'[m] = frame[m]
    BY <1>3 DEF LookupRaises, Raise
  <2> QED BY <2>1, QuietFrames
<1>4. CASE Split(n)
  <2> DEFINE direct == Missing(frame[n]) \cap frame[n].local
  <2>1. frame[n].state = "split" /\ n \notin DOMAIN work
    BY <1>1, <1>4 DEF Split, FrameAndWork
  <2>2. CASE direct = {}
    <3>1. RunMany(n, frame[n], flight, work)
      BY <1>4, <2>2 DEF Split
    <3> QED BY <1>1, <2>1, <3>1, RunManyAsks
  <2>3. CASE direct # {}
    <3>1. /\ frame' = [frame EXCEPT ![n] = [frame[n] EXCEPT !.state = "direct"]]
          /\ flight' = flight
      BY <1>4, <2>3 DEF Split
    <3>2. /\ DOMAIN frame' = DOMAIN frame /\ \A m \in DOMAIN frame : m # n => frame'[m] = frame[m]
          /\ frame'[n].state = "direct"
      BY <1>1, <3>1
    <3> QED BY <2>1, <3>1, <3>2, QuietFrames
  <2> QED BY <2>2, <2>3
<1>5. CASE Return(n)
  <2>1. /\ Missing(frame[n]) = {} /\ flight' = flight
        /\ DOMAIN frame' = DOMAIN frame \ {n} /\ \A m \in DOMAIN frame' : frame'[m] = frame[m]
    BY <1>5 DEF Return, Without
  <2> QED BY <2>1, QuietFrames
<1> QED BY <1>2, <1>3, <1>4, <1>5 DEF FrameStep

LEMMA RaiseServes ==
    ASSUME IInv, NEW n \in DOMAIN work, AcceptRaises(n)
    PROVE  [Flights!Next]_(Flights!vars)
<1>1. Shape /\ FlightsHaveProducers /\ FrameAndWork
  BY DEF IInv
<1> DEFINE S == IF work[n].direct THEN {n} ELSE Waiting(work[n].owned)
<1>2. /\ DOMAIN frame' = DOMAIN frame \ S /\ \A m \in DOMAIN frame' : frame'[m] = frame[m]
      /\ flight' = [k \in Keys |-> IF flight[k] = n THEN NoNode ELSE flight[k]]
  BY DEF AcceptRaises, Raise
<1>3. CASE work[n].direct
  <2>1. frame[n].state = "direct"
    BY <1>1, <1>3 DEF FrameAndWork
  <2>2. flight' = flight
    BY <1>1, <1>2, <1>3 DEF FlightsHaveProducers, Shape
  <2> QED BY <1>2, <1>3, <2>1, <2>2, QuietFrames
<1>4. CASE ~work[n].direct
  <2>1. flight' = [k \in Keys |-> IF k \in work[n].owned THEN NoNode ELSE flight[k]]
    BY <1>1, <1>2, <1>4 DEF FlightsHaveProducers
  <2>2. ASSUME NEW k \in Keys
        PROVE  Waiting({k})' = IF k \in work[n].owned THEN {} ELSE Waiting({k}) \ Waiting(work[n].owned)
    <3>1. ASSUME NEW m PROVE m \in Waiting({k})' <=> m \in Waiting({k}) /\ m \notin Waiting(work[n].owned)
      <4>1. m \in Waiting({k})' <=> /\ m \in DOMAIN frame' /\ frame'[m].state = "join"
                                    /\ k \in frame'[m].keys /\ frame'[m].values[k] = NoValue
        BY DEF Waiting, Missing
      <4>2. m \in Waiting({k}) <=> Joined(m, k)
        BY WaitingIsJoined
      <4> QED BY <1>2, <1>4, <4>1, <4>2 DEF Joined
    <3>2. k \in work[n].owned => Waiting({k}) \subseteq Waiting(work[n].owned)
      BY DEF Waiting
    <3>3. CASE k \in work[n].owned
      BY <3>1, <3>2, <3>3
    <3>4. CASE k \notin work[n].owned
      BY <3>1, <3>4
    <3> QED BY <3>3, <3>4
  <2> QED BY <1>4, <2>1, <2>2, ProducerServes
<1> QED BY <1>3, <1>4

LEMMA CompleteShares ==
    ASSUME IInv, NEW n \in DOMAIN work, Complete(n)
    PROVE  [Flights!Next]_(Flights!vars)
<1>1. Shape /\ FlightsHaveProducers /\ FrameAndWork /\ IsWork(work[n])
  BY DEF IInv, Shape
<1> DEFINE result == [k \in Keys |-> IF k \in Open(n) \ Pinned(n) THEN Failure
                                     ELSE WithPinned(n)[k]]
           v(f) == [k \in Keys |-> IF k \in Missing(f) \cap work[n].owned THEN result[k]
                                   ELSE f.values[k]]
           ws == Without(work, n)
<1>2. \A k \in work[n].owned : k \in Keys /\ result[k] # NoValue
  <2>1. work[n].owned \subseteq Keys
    BY <1>1 DEF IsWork
  <2> QED BY <2>1, NoValueIsNoFailure DEF WithPinned, Open, Pinned
<1>3. ASSUME NEW f, IsFrame(f)
      PROVE  /\ IsFrame([f EXCEPT !.values = v(f)])
             /\ [f EXCEPT !.values = v(f)].state = f.state
             /\ [f EXCEPT !.values = v(f)].keys = f.keys
             /\ [f EXCEPT !.values = v(f)].values = v(f)
  <2>1. DOMAIN f = {"state", "keys", "local", "values"}
    BY <1>3 DEF IsFrame
  <2> DEFINE u == v(f)
             g == [f EXCEPT !.values = u]
  <2>2. u = [k \in Keys |-> u[k]]
    OBVIOUS
  <2> HIDE DEF u
  <2>3. /\ DOMAIN g = DOMAIN f /\ g.state = f.state /\ g.keys = f.keys /\ g.local = f.local
        /\ g.values = u
    BY <2>1
  <2> HIDE DEF g
  <2>4. IsFrame(g)
    BY <1>3, <2>2, <2>3 DEF IsFrame
  <2> QED BY <2>3, <2>4 DEF g, u
<1>4. CASE work[n].direct
  <2>1. n \in DOMAIN frame /\ frame[n].state = "direct" /\ IsFrame(frame[n])
    BY <1>1, <1>4 DEF FrameAndWork, Shape
  <2> DEFINE f == [frame[n] EXCEPT !.values = v(frame[n])]
  <2>2. RunMany(n, f, flight, ws)
    BY <1>4 DEF Complete, Completed
  <2>3. IsFrame(f)
    BY <1>3, <2>1
  <2> HIDE DEF f, ws
  <2> QED BY <1>4, <2>1, <2>2, <2>3, RunManyAsks
<1>5. CASE ~work[n].direct
  <2>1. /\ flight' = [k \in Keys |-> IF k \in work[n].owned THEN NoNode ELSE flight[k]]
        /\ frame' = [m \in DOMAIN frame |->
                        IF frame[m].state = "join" THEN [frame[m] EXCEPT !.values = v(frame[m])]
                        ELSE frame[m]]
    BY <1>5 DEF Complete, Completed
  <2>2. ASSUME NEW k \in Keys, NEW m
        PROVE  m \in Waiting({k})' <=> m \in Waiting({k}) /\ k \notin work[n].owned
    <3>1. m \in Waiting({k})' <=> /\ m \in DOMAIN frame' /\ frame'[m].state = "join"
                                  /\ k \in frame'[m].keys /\ frame'[m].values[k] = NoValue
      BY DEF Waiting, Missing
    <3>2. m \in Waiting({k}) <=> Joined(m, k)
      BY WaitingIsJoined
    <3>3. DOMAIN frame' = DOMAIN frame
      BY <2>1
    <3>4. CASE m \in DOMAIN frame /\ frame[m].state = "join"
      <4>1. frame'[m] = [frame[m] EXCEPT !.values = v(frame[m])] /\ IsFrame(frame[m])
        BY <1>1, <2>1, <3>4 DEF Shape
      <4>2. /\ frame'[m].state = "join" /\ frame'[m].keys = frame[m].keys
            /\ frame'[m].values[k] = IF k \in Missing(frame[m]) \cap work[n].owned THEN result[k]
                                     ELSE frame[m].values[k]
        BY <1>3, <3>4, <4>1
      <4>3. k \in Missing(frame[m]) <=> k \in frame[m].keys /\ frame[m].values[k] = NoValue
        BY DEF Missing
      <4> HIDE DEF result
      <4> QED BY <1>2, <3>1, <3>2, <3>3, <3>4, <4>2, <4>3 DEF Joined
    <3>5. CASE m \in DOMAIN frame /\ frame[m].state # "join"
      BY <2>1, <3>1, <3>2, <3>5 DEF Joined
    <3> QED BY <3>1, <3>2, <3>3, <3>4, <3>5 DEF Joined
  <2>3. ASSUME NEW k \in Keys
        PROVE  Waiting({k})' = IF k \in work[n].owned THEN {} ELSE Waiting({k}) \ {}
    <3>1. CASE k \in work[n].owned
      BY <2>2, <3>1
    <3>2. CASE k \notin work[n].owned
      BY <2>2, <3>2
    <3> QED BY <3>1, <3>2
  <2> QED BY <1>5, <2>1, <2>3, ProducerServes
<1> QED BY <1>4, <1>5

LEMMA WorkStepShares ==
    ASSUME IInv, NEW n \in DOMAIN work, WorkStep(n)
    PROVE  [Flights!Next]_(Flights!vars)
<1>1. Shape /\ ParentsWait /\ n \in AnyNode
  BY DEF IInv, Shape
<1>2. CASE SelectSource(n)
  <2>1. PICK s \in Useful(n) :
          LET cand == Candidates(n, s)
              asks == {k \in cand : Sources[s].derived /\ ~IsCycle(n, k)}
          IN  /\ work[n].state = "select" /\ flight' = flight
              /\ frame' = LET asked == {Child(n, k) : k \in asks}
                          IN  [m \in DOMAIN frame \cup asked |->
                                  IF m \in asked THEN NewFrame(Deps[Last(Path(m))], LocalOwned(n))
                                  ELSE frame[m]]
    BY <1>2 DEF SelectSource
  <2> DEFINE asks == {k \in Candidates(n, s) : Sources[s].derived /\ ~IsCycle(n, k)}
             asked == {Child(n, k) : k \in asks}
  <2>2. /\ flight' = flight /\ DOMAIN frame' = DOMAIN frame \cup asked
        /\ \A m \in DOMAIN frame' :
              frame'[m] = IF m \in asked THEN NewFrame(Deps[Last(Path(m))], LocalOwned(n))
                          ELSE frame[m]
    BY <2>1
  <2>3. asks \subseteq Keys
    BY <1>1 DEF Candidates, Open, Shape, IsWork
  <2>4. \A k \in Keys : work[n].attempt[k] = "none"
    BY <1>1, <2>1 DEF ParentsWait
  <2>5. asked \cap DOMAIN frame = {}
    BY <1>1, <2>3, <2>4, NoChildren
  <2>6. \A keys, local : NewFrame(keys, local).state = "lookup"
    BY DEF NewFrame
  <2> HIDE DEF asks, asked
  <2>7. \A m \in DOMAIN frame : m \in DOMAIN frame' /\ frame'[m] = frame[m]
    BY <2>2, <2>5
  <2>8. \A m \in DOMAIN frame' : frame'[m].state = "join" => m \in DOMAIN frame
    BY <2>2, <2>6
  <2> QED BY <2>2, <2>7, <2>8, QuietFrames
<1>3. CASE (\E k \in Keys : CallEnds(n, k)) \/ Accept(n)
  <2>1. flight' = flight /\ frame' = frame
    BY <1>3 DEF CallEnds, Accept
  <2> QED BY <2>1, QuietFrames
<1> QED BY <1>2, <1>3, RaiseServes, CompleteShares DEF WorkStep

LEMMA NextShares ==
    ASSUME IInv, [Next]_vars
    PROVE  [Flights!Next]_(Flights!vars)
<1>1. ASSUME NEW r \in Requests, Build(r)
      PROVE  [Flights!Next]_(Flights!vars)
  <2>1. flight' = flight /\ frame' = With(frame, Root(r), NewFrame(Asked[r], {}))
    BY <1>1 DEF Build
  <2>2. Root(r) \notin DOMAIN frame
    <3>1. request[r] = "new" /\ Root(r)[1] = r
      BY <1>1, RootIsNode DEF Build
    <3> QED BY <3>1 DEF IInv, UsedOnce, Live
  <2>3. NewFrame(Asked[r], {}).state = "lookup"
    BY DEF NewFrame
  <2>4. /\ DOMAIN frame' = DOMAIN frame \cup {Root(r)}
        /\ \A m \in DOMAIN frame : frame'[m] = frame[m]
        /\ frame'[Root(r)].state = "lookup"
    BY <2>1, <2>2, <2>3 DEF With
  <2> QED BY <2>1, <2>4, QuietFrames
<1>2. ASSUME NEW r \in Requests, Cancel(r)
      PROVE  [Flights!Next]_(Flights!vars)
  <2>1. /\ flight' = flight /\ DOMAIN frame' = DOMAIN frame \ {Root(r)}
        /\ \A m \in DOMAIN frame' : frame'[m] = frame[m]
    BY <1>2 DEF Cancel, Without
  <2>2. ASSUME NEW k \in Keys PROVE Waiting({k})' = Waiting({k}) \ {Root(r)}
    <3>1. ASSUME NEW m PROVE m \in Waiting({k})' <=> m \in Waiting({k}) /\ m # Root(r)
      <4>1. m \in Waiting({k})' <=> /\ m \in DOMAIN frame' /\ frame'[m].state = "join"
                                    /\ k \in frame'[m].keys /\ frame'[m].values[k] = NoValue
        BY DEF Waiting, Missing
      <4>2. m \in Waiting({k}) <=> Joined(m, k)
        BY WaitingIsJoined
      <4> QED BY <2>1, <4>1, <4>2 DEF Joined
    <3> QED BY <3>1
  <2>3. Flights!Leave(Root(r))
    BY <2>1, <2>2 DEF Flights!Leave
  <2>4. Root(r) \in Nodes
    <3>1. MaxPath \in Nat
      BY ResolutionAssumption
    <3>2. <<>> \in [1..0 -> Keys] /\ 0 \in 0..MaxPath
      BY <3>1
    <3> QED BY <3>2 DEF Nodes, Root
  <2> QED BY <2>3, <2>4 DEF Flights!Next
<1>3. CASE (\E r \in Requests : Expire(r)) \/ (\E k \in Keys : Forget(k)) \/ UNCHANGED vars
  <2>1. flight' = flight /\ frame' = frame
    BY <1>3 DEF Expire, Forget, vars
  <2> QED BY <2>1, QuietFrames
<1> QED BY <1>1, <1>2, <1>3, FrameStepShares, WorkStepShares DEF Next, Run

\* SharedByOneFlight, for every configuration: whatever is cancelled, fails or runs into a
\* deadline, Resolution implements SingleFlightSpec.  A call owns the keys nobody owned when
\* it came, a key has one owner until that owner is done with all its keys at once, and those
\* who wait for one of them are served then and not before.
THEOREM RequestsShareFlights == Spec => SharedByOneFlight
<1>1. Init => Flights!Init
  <2> SUFFICES ASSUME Init PROVE Flights!Init
    OBVIOUS
  <2>1. \A k \in Keys : Waiting({k}) = {}
    BY DEF Init, Waiting
  <2> QED BY <2>1 DEF Init, Flights!Init
<1>2. IInv /\ [Next]_vars => [Flights!Next]_(Flights!vars)
  BY NextShares
<1> QED BY <1>1, <1>2, Invariance, PTL DEF Spec, SharedByOneFlight, Flights!Spec
=============================================================================
