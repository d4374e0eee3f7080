------------------------ MODULE PayloadCopies_proofs ------------------------
(***************************************************************************)
(* For every number of copies, of acloses and of slots: no slot is lost or *)
(* given back twice, no more operations run than there are slots, the      *)
(* health figures count the copies exactly, an aclose that returns has     *)
(* left no operation running unless one without a timeout was cancelled,   *)
(* and the threads implement a pool of slots.                              *)
(***************************************************************************)
EXTENDS PayloadCopies, FiniteSetTheorems, SequenceTheorems, TLAPS

Queued == {c \in Copies : copy[c] = "queued"}
Slotted == {c \in Copies : copy[c] \in {"granted", "refunding", "acquired"}}
Holding == Workers \cup Slotted
InLine == {c \in Copies : copy[c] \in Acquiring}
LateDone == {c \in late : copy[c] = "done"}

\* The sequence q lists the elements of Q, each of them once.
Lists(q, Q) ==
    /\ q \in Seq(Q)
    /\ \A i, j \in DOMAIN q : q[i] = q[j] => i = j
    /\ \A c \in Q : \E i \in DOMAIN q : q[i] = c

\* TypeOK without the gauges and without the bound of the semaphore.
Typed ==
    /\ copy \in [Copies -> Acquiring \cup {"idle", "copying", "done"}]
    /\ thread \in [Copies -> {"no", "running", "finished", "cancelled"}]
    /\ released \in [Copies -> BOOLEAN]
    /\ value \in Nat /\ count \in [Counters -> Nat] /\ late \subseteq Copies

\* A thread runs for a copy that was started, until its slot is released.
Threads ==
    \A c \in Copies :
        /\ thread[c] # "no" => copy[c] \in {"copying", "done"} /\ ~released[c]
        /\ copy[c] = "copying" => thread[c] # "no" \/ released[c]
        /\ copy[c] \notin {"copying", "done"} => ~released[c]

\* Every slot is free or held.
Fits == value + Cardinality(Holding) = MaxConcurrency

\* None is free while a copy is queued, except behind an acquire task that has yet to resume
\* and will then wake the next one.
Served == queue # <<>> => value = 0 \/ Notified # {}

\* The gauges and the cumulative counters: of the threads, ...
ThreadFigures ==
    /\ active = Cardinality(Workers)
    /\ count["started"] = count["completed"] + count["failures"] + active

\* ... of the copies that wait for a slot, ...
LineFigures == waiting = Cardinality(InLine)

\* ... and of the deadlines, where a late copy is counted when it is done.
LateFigures ==
    /\ count["timeouts"] = Cardinality(LateDone) /\ count["slot_timeouts"] <= count["timeouts"]
    /\ \A c \in late : copy[c] \in {"withdrawn", "refunding", "done"}

Figures == ThreadFigures /\ LineFigures /\ LateFigures

\* Shutdown: no thread starts once it has begun, so whoever waits for the workers that there
\* were waits for all there are.
Shutdown ==
    /\ closing \in BOOLEAN /\ closed \in BOOLEAN /\ incomplete \in BOOLEAN
    /\ closer \in [Closers -> {"no", "waiting", "returned", "raised", "cancelled"}]
    /\ awaited \in [Closers -> SUBSET Copies]
    /\ closed <=> closing /\ Workers = {}
    /\ \A k \in Closers :
          /\ closer[k] \in {"waiting", "raised"} => closing
          /\ closer[k] = "waiting" => Workers \subseteq awaited[k]
          /\ closer[k] = "returned" => closed
    /\ incomplete <=> ~closed /\ \E k \in Closers : closer[k] = "raised"

Core == Typed /\ Threads /\ Lists(queue, Queued) /\ Fits

\* The operations in threads: once one is adrift nothing starts any more.
Bounded ==
    /\ adrift \in [Copies -> {"no", "running", "ended"}]
    /\ Cardinality(Operations) <= MaxConcurrency
    /\ \A c \in Copies : adrift[c] = "running" =>
            closing /\ \E k \in Closers \ Timed : closer[k] = "cancelled"

\* The inductive invariant.
IInv == Core /\ Served /\ Figures /\ Shutdown /\ Bounded

-----------------------------------------------------------------------------
\* The copies are finitely many.
LEMMA CopiesCounted ==
    ASSUME NEW S \in SUBSET Copies
    PROVE  /\ IsFiniteSet(S) /\ Cardinality(S) \in Nat
           /\ \A c : c \notin S => Cardinality(S \cup {c}) = Cardinality(S) + 1
           /\ \A c : c \in S => Cardinality(S \ {c}) = Cardinality(S) - 1
<1>1. IsFiniteSet(S)
  BY CopiesAssumption, FS_Subset
<1> QED BY <1>1, FS_CardinalityType, FS_AddElement, FS_RemoveElement

\* A list with one more element, ...
LEMMA ListsAppend ==
    ASSUME NEW q, NEW Q, Lists(q, Q), NEW c, c \notin Q
    PROVE  Lists(Append(q, c), Q \cup {c})
<1> DEFINE R == Q \cup {c}  r == Append(q, c)
<1>1. /\ q \in Seq(Q) /\ q \in Seq(R) /\ Len(q) \in Nat /\ DOMAIN q = 1..Len(q)
      /\ \A i \in DOMAIN q : q[i] \in Q
  <2>1. q \in Seq(Q)
    BY DEF Lists
  <2>2. Len(q) \in Nat /\ DOMAIN q = 1..Len(q) /\ \A i \in 1..Len(q) : q[i] \in Q
    BY <2>1, LenProperties, ElementOfSeq
  <2>3. q \in Seq(R)
    BY <2>1
  <2> QED BY <2>1, <2>2, <2>3
<1>2. /\ r \in Seq(R) /\ Len(r) = Len(q) + 1 /\ \A i \in 1..Len(q) : r[i] = q[i]
      /\ r[Len(q) + 1] = c
  BY <1>1, AppendProperties
<1>3. DOMAIN r = 1..(Len(q) + 1)
  BY <1>2, LenProperties
<1> HIDE DEF r
<1>4. \A i, j \in DOMAIN r : r[i] = r[j] => i = j
  <2> SUFFICES ASSUME NEW i \in DOMAIN r, NEW j \in DOMAIN r, r[i] = r[j] PROVE i = j
    OBVIOUS
  <2>1. /\ i \in DOMAIN q \/ i = Len(q) + 1
        /\ j \in DOMAIN q \/ j = Len(q) + 1
    BY <1>1, <1>3
  <2>2. CASE i \in DOMAIN q /\ j \in DOMAIN q
    <3>1. q[i] = q[j]
      BY <1>1, <1>2, <2>2
    <3> QED BY <2>2, <3>1 DEF Lists
  <2>3. CASE ~(i \in DOMAIN q /\ j \in DOMAIN q)
    BY <1>1, <1>2, <2>1, <2>3
  <2> QED BY <2>2, <2>3
<1>5. ASSUME NEW d \in R PROVE \E i \in DOMAIN r : r[i] = d
  <2>1. CASE d = c
    BY <1>1, <1>2, <1>3, <2>1
  <2>2. CASE d # c
    <3>1. PICK i \in DOMAIN q : q[i] = d
      BY <2>2 DEF Lists
    <3> QED BY <1>1, <1>2, <1>3, <3>1
  <2> QED BY <2>1, <2>2
<1> QED BY <1>2, <1>4, <1>5 DEF Lists, r

\* ... without its first element, ...
LEMMA ListsTail ==
    ASSUME NEW q, NEW Q, Lists(q, Q), q # <<>>
    PROVE  Head(q) \in Q /\ Lists(Tail(q), Q \ {Head(q)})
<1> DEFINE h == Head(q)  R == Q \ {h}  r == Tail(q)
<1>1. /\ q \in Seq(Q) /\ Len(q) \in Nat \ {0} /\ DOMAIN q = 1..Len(q)
      /\ \A i \in DOMAIN q : q[i] \in Q
  <2>1. q \in Seq(Q)
    BY DEF Lists
  <2> QED BY <2>1, LenProperties, ElementOfSeq, EmptySeq
<1>2. /\ h \in Q /\ r \in Seq(Q) /\ Len(r) = Len(q) - 1
      /\ \A i \in 1..Len(r) : r[i] = q[i + 1]
  BY <1>1, HeadTailProperties
<1>3. h = q[1] /\ 1 \in DOMAIN q
  BY <1>1
<1>4. DOMAIN r = 1..(Len(q) - 1)
  BY <1>2, LenProperties
<1> HIDE DEF r, h
<1>5. \A i \in DOMAIN r : i + 1 \in DOMAIN q /\ i + 1 # 1 /\ i \in Nat /\ r[i] = q[i + 1]
  BY <1>1, <1>2, <1>4
<1>6. \A i \in DOMAIN r : r[i] \in R
  <2> SUFFICES ASSUME NEW i \in DOMAIN r PROVE q[i + 1] \in Q /\ q[i + 1] # q[1]
    BY <1>3, <1>5
  <2> QED BY <1>1, <1>3, <1>5 DEF Lists
<1>7. r \in Seq(R)
  <2>1. r = [i \in 1..(Len(q) - 1) |-> r[i]] /\ Len(q) - 1 \in Nat
    BY <1>1, <1>2, <1>4, LenProperties
  <2>2. \A i \in 1..(Len(q) - 1) : r[i] \in R
    BY <1>4, <1>6
  <2>3. r \in [1..(Len(q) - 1) -> R]
    BY <2>1, <2>2
  <2> QED BY <2>1, <2>3, SeqDef
<1>8. \A i, j \in DOMAIN r : r[i] = r[j] => i = j
  <2> SUFFICES ASSUME NEW i \in DOMAIN r, NEW j \in DOMAIN r, r[i] = r[j] PROVE i = j
    OBVIOUS
  <2>1. i + 1 = j + 1
    BY <1>5 DEF Lists
  <2> QED BY <1>5, <2>1
<1>9. ASSUME NEW d \in R PROVE \E i \in DOMAIN r : r[i] = d
  <2>1. PICK i \in DOMAIN q : q[i] = d
    BY DEF Lists
  <2>2. i # 1
    BY <1>3, <2>1
  <2>3. i - 1 \in DOMAIN r /\ (i - 1) + 1 = i
    BY <1>1, <1>4, <2>2
  <2> QED BY <1>5, <2>1, <2>3
<1> QED BY <1>2, <1>7, <1>8, <1>9 DEF Lists, r, h

\* What is left when the element at position i is taken out of a sequence.
LEMMA RemoveAtKeeps ==
    ASSUME NEW S, NEW q \in Seq(S), NEW i \in DOMAIN q
    PROVE  /\ RemoveAt(q, i) \in Seq(S) /\ Len(RemoveAt(q, i)) = Len(q) - 1
           /\ \A j \in 1..(Len(q) - 1) : RemoveAt(q, i)[j] = q[IF j < i THEN j ELSE j + 1]
<1> DEFINE a == SubSeq(q, 1, i - 1)
           b == SubSeq(q, i + 1, Len(q))
<1>1. i \in 1..Len(q) /\ Len(q) \in Nat /\ DOMAIN q = 1..Len(q)
  BY LenProperties
<1>2. \A j \in 1..Len(q) : q[j] \in S
  BY ElementOfSeq
<1>3. /\ a \in Seq(S) /\ Len(a) = i - 1
      /\ \A j \in 1..(i - 1) : a[j] = q[j]
  <2>1. /\ a \in Seq(S) /\ Len(a) = IF 1 <= i - 1 THEN (i - 1) - 1 + 1 ELSE 0
        /\ \A j \in 1..((i - 1) - 1 + 1) : a[j] = q[1 + j - 1]
    BY <1>1, <1>2, SubSeqProperties, SMT
  <2> QED BY <1>1, <2>1
<1>4. /\ b \in Seq(S) /\ Len(b) = Len(q) - i
      /\ \A j \in 1..(Len(q) - i) : b[j] = q[i + j]
  <2>1. /\ b \in Seq(S) /\ Len(b) = IF i + 1 <= Len(q) THEN Len(q) - (i + 1) + 1 ELSE 0
        /\ \A j \in 1..(Len(q) - (i + 1) + 1) : b[j] = q[(i + 1) + j - 1]
    BY <1>1, <1>2, SubSeqProperties, SMT
  <2> QED BY <1>1, <2>1
<1>5. RemoveAt(q, i) = a \o b
  BY DEF RemoveAt
<1> HIDE DEF a, b
<1>6. /\ a \o b \in Seq(S) /\ Len(a \o b) = Len(a) + Len(b)
      /\ \A j \in 1..(Len(a) + Len(b)) :
            (a \o b)[j] = IF j <= Len(a) THEN a[j] ELSE b[j - Len(a)]
  BY <1>3, <1>4, ConcatProperties
<1>7. Len(a \o b) = Len(q) - 1
  BY <1>1, <1>3, <1>4, <1>6
<1>8. ASSUME NEW j \in 1..(Len(q) - 1)
      PROVE  (a \o b)[j] = q[IF j < i THEN j ELSE j + 1]
  <2>1. CASE j < i
    BY <1>1, <1>3, <1>4, <1>6, <2>1
  <2>2. CASE ~(j < i)
    <3>1. j - (i - 1) \in 1..(Len(q) - i) /\ i + (j - (i - 1)) = j + 1 /\ ~(j <= i - 1)
      BY <1>1, <2>2
    <3>2. Len(a) = i - 1 /\ Len(b) = Len(q) - i
      BY <1>3, <1>4
    <3>3. j \in 1..(Len(a) + Len(b)) /\ ~(j <= Len(a))
      BY <1>1, <3>1, <3>2
    <3>4. (a \o b)[j] = b[j - Len(a)]
      BY <1>6, <3>3
    <3> QED BY <1>4, <2>2, <3>1, <3>2, <3>4
  <2> QED BY <2>1, <2>2
<1> QED BY <1>5, <1>6, <1>7, <1>8

\* ... or without the one at position i.
LEMMA ListsRemove ==
    ASSUME NEW q, NEW Q, Lists(q, Q), NEW i \in DOMAIN q
    PROVE  Lists(RemoveAt(q, i), Q \ {q[i]})
<1> DEFINE r == RemoveAt(q, i)  R == Q \ {q[i]}  n == Len(q) - 1
           m(x) == IF x < i THEN x ELSE x + 1
<1>1. q \in Seq(Q)
  BY DEF Lists
<1>2. /\ Len(q) \in Nat /\ DOMAIN q = 1..Len(q) /\ i \in 1..Len(q)
      /\ \A j \in DOMAIN q : q[j] \in Q
  BY <1>1, LenProperties, ElementOfSeq
<1>3. r \in Seq(Q) /\ Len(r) = n /\ \A j \in 1..n : r[j] = q[m(j)]
  BY <1>1, RemoveAtKeeps
<1>4. DOMAIN r = 1..n /\ n \in Nat
  BY <1>2, <1>3, LenProperties
<1> HIDE DEF r
<1>5. \A j \in 1..n : m(j) \in DOMAIN q /\ m(j) # i
  BY <1>2
<1>6. \A j, k \in 1..n : m(j) = m(k) => j = k
  BY <1>2
<1> HIDE DEF m
<1>7. r \in Seq(R)
  <2>1. r = [j \in 1..n |-> r[j]]
    BY <1>3, <1>4, LenProperties
  <2>2. ASSUME NEW j \in 1..n PROVE r[j] \in R
    <3>1. r[j] = q[m(j)] /\ q[m(j)] \in Q
      BY <1>2, <1>3, <1>5
    <3>2. q[m(j)] # q[i]
      BY <1>5 DEF Lists
    <3> QED BY <3>1, <3>2
  <2>3. r \in [1..n -> R]
    BY <2>1, <2>2
  <2> QED BY <1>4, <2>3, SeqDef
<1>8. \A j, k \in DOMAIN r : r[j] = r[k] => j = k
  <2> SUFFICES ASSUME NEW j \in 1..n, NEW k \in 1..n, r[j] = r[k] PROVE j = k
    BY <1>4
  <2>1. q[m(j)] = q[m(k)] /\ m(j) \in DOMAIN q /\ m(k) \in DOMAIN q
    BY <1>3, <1>5
  <2>2. m(j) = m(k)
    BY <2>1 DEF Lists
  <2> QED BY <1>6, <2>2
<1>9. ASSUME NEW d \in R PROVE \E j \in DOMAIN r : r[j] = d
  <2>1. PICK k \in DOMAIN q : q[k] = d
    BY DEF Lists
  <2> DEFINE j == IF k < i THEN k ELSE k - 1
  <2>2. k # i
    BY <2>1
  <2>3. j \in 1..n /\ m(j) = k
    BY <1>2, <2>2 DEF m
  <2> HIDE DEF j
  <2> QED BY <1>3, <1>4, <2>1, <2>3
<1> QED BY <1>7, <1>8, <1>9 DEF Lists, r

-----------------------------------------------------------------------------
\* What a step may do to the slots: nothing, ...
Still == Holding' = Holding /\ queue' = queue /\ value' = value

\* ... c takes a free one, ...
Take(c) ==
    /\ c \notin Holding /\ value # 0 /\ queue = <<>> /\ c \notin Queued
    /\ Holding' = Holding \cup {c} /\ queue' = queue /\ value' = value - 1

\* ... c queues, ...
Line(c) ==
    /\ c \notin Holding /\ c \notin Queued /\ (value = 0 \/ queue # <<>> \/ Notified # {})
    /\ Holding' = Holding /\ queue' = Append(queue, c) /\ value' = value

\* ... the first who waits gets a free one, ...
Serve ==
    /\ queue # <<>> /\ value # 0
    /\ Holding' = Holding \cup {Head(queue)} /\ queue' = Tail(queue) /\ value' = value - 1

\* ... one leaves the queue, or all do, ...
Quit ==
    /\ Holding' = Holding /\ value' = value
    /\ queue' = <<>> \/ \E i \in DOMAIN queue : queue' = RemoveAt(queue, i)

\* ... or c gives one back, which goes to the first who waits.
Free(c) ==
    /\ c \in Holding
    /\ \/ /\ queue = <<>> /\ queue' = <<>>
          /\ Holding' = Holding \ {c} /\ value' = value + 1
       \/ /\ queue # <<>> /\ queue' = Tail(queue)
          /\ Holding' = (Holding \ {c}) \cup {Head(queue)} /\ value' = value

Move == Still \/ Quit \/ Serve \/ \E c \in Copies : Take(c) \/ Line(c) \/ Free(c)

\* Nobody queues and holds a slot.
LEMMA QueuedHoldNothing ==
    ASSUME Typed, Threads
    PROVE  /\ Queued \cap Holding = {} /\ Workers \cap Slotted = {}
           /\ Holding \in SUBSET Copies /\ Queued \in SUBSET Copies
           /\ Workers \in SUBSET Copies /\ Slotted \in SUBSET Copies
BY DEF Threads, Queued, Holding, Workers, Slotted

\* A move of the slots loses none.
LEMMA MoveFits ==
    ASSUME Core, Move
    PROVE  Fits'
<1> DEFINE H == Holding
<1>1. /\ value \in Nat /\ MaxConcurrency \in Nat /\ H \in SUBSET Copies
      /\ Queued \cap H = {} /\ Lists(queue, Queued)
  BY CopiesAssumption, QueuedHoldNothing DEF Core, Typed
<1>2. /\ Cardinality(H) \in Nat
      /\ \A c : c \notin H => Cardinality(H \cup {c}) = Cardinality(H) + 1
      /\ \A c : c \in H => Cardinality(H \ {c}) = Cardinality(H) - 1
  BY <1>1, CopiesCounted
<1>3. value + Cardinality(H) = MaxConcurrency
  BY DEF Core, Fits
<1> SUFFICES value' + Cardinality(Holding') = MaxConcurrency
  BY DEF Fits
<1> HIDE DEF H
<1>4. CASE Still
  BY <1>3, <1>4 DEF Still, H
<1>5. CASE Quit
  BY <1>3, <1>5 DEF Quit, H
<1>9. CASE Serve
  <2>1. Head(queue) \in Queued
    BY <1>1, <1>9, ListsTail DEF Serve
  <2>2. Head(queue) \notin H
    BY <1>1, <2>1
  <2>3. Cardinality(H \cup {Head(queue)}) = Cardinality(H) + 1
    BY <1>2, <2>2
  <2>4. Cardinality(Holding') = Cardinality(H) + 1 /\ value' = value - 1
    BY <1>9, <2>3 DEF Serve, H
  <2> QED BY <1>1, <1>2, <1>3, <2>4
<1>6. ASSUME NEW c \in Copies, Take(c)
      PROVE  value' + Cardinality(Holding') = MaxConcurrency
  <2>1. Cardinality(Holding') = Cardinality(H) + 1 /\ value' = value - 1 /\ queue' = <<>>
    BY <1>2, <1>6 DEF Take, H
  <2> QED BY <1>1, <1>2, <1>3, <2>1
<1>7. ASSUME NEW c \in Copies, Line(c)
      PROVE  value' + Cardinality(Holding') = MaxConcurrency
  BY <1>3, <1>7 DEF Line, H
<1>8. ASSUME NEW c \in Copies, Free(c)
      PROVE  value' + Cardinality(Holding') = MaxConcurrency
  <2>1. Cardinality(H \ {c}) = Cardinality(H) - 1 /\ H \ {c} \in SUBSET Copies
    BY <1>1, <1>2, <1>8 DEF Free, H
  <2>2. CASE queue = <<>>
    <3>1. Cardinality(Holding') = Cardinality(H) - 1 /\ value' = value + 1 /\ queue' = <<>>
      BY <1>8, <2>1, <2>2 DEF Free, H
    <3> QED BY <1>1, <1>2, <1>3, <3>1
  <2>3. CASE queue # <<>>
    <3>1. Head(queue) \in Queued
      BY <1>1, <2>3, ListsTail
    <3>2. Head(queue) \notin H \ {c}
      BY <1>1, <3>1
    <3>3. Cardinality((H \ {c}) \cup {Head(queue)}) = Cardinality(H \ {c}) + 1
      BY <2>1, <3>2, CopiesCounted
    <3>4. Cardinality(Holding') = Cardinality(H \ {c}) + 1 /\ value' = value
      BY <1>3, <1>8, <2>3, <3>3 DEF Free, H
    <3> QED BY <1>1, <1>2, <1>3, <2>1, <3>4
  <2> QED BY <2>2, <2>3
<1> QED BY <1>4, <1>5, <1>6, <1>7, <1>8, <1>9 DEF Move

\* The pool counts as everybody does.
LEMMA PoolCardinality == \A S : Pool!Cardinality(S) = Cardinality(S)
BY DEF Cardinality, Pool!Cardinality

\* The pool as the refinement mapping sees it.
LEMMA Became ==
    [x \in {"copies"} |->
        Workers \cup {c \in Copies : copy[c] \in {"granted", "refunding", "acquired"}}]'["copies"]
      = Holding'
BY DEF Holding, Slotted

\* Every move of the slots is a move of the abstract pool, or none.
LEMMA MoveIsStep ==
    ASSUME Core, Served, Move
    PROVE  Pool!Next
<1> DEFINE P == Holding  p == "copies"
           hs == [x \in {"copies"} |->
                    Workers \cup {c \in Copies : copy[c] \in {"granted", "refunding", "acquired"}}]
           qs == [x \in {"copies"} |-> queue]
<1>0. hs[p] = P /\ qs[p] = queue /\ [x \in {"copies"} |-> MaxConcurrency][p] = MaxConcurrency
  BY DEF Holding, Slotted
<1>1. /\ value \in Nat /\ MaxConcurrency \in Nat /\ Cardinality(P) \in Nat
      /\ value + Cardinality(P) = MaxConcurrency
      /\ Lists(queue, Queued) /\ Queued \in SUBSET Copies
  BY CopiesAssumption, QueuedHoldNothing, CopiesCounted DEF Core, Typed, Fits
<1>2. queue \in Seq(Queued) /\ Len(queue) \in Nat /\ DOMAIN queue = 1..Len(queue)
  <2>1. queue \in Seq(Queued)
    BY <1>1 DEF Lists
  <2> QED BY <2>1, LenProperties
<1>3. \A c : c \notin Queued => c \notin Pool!Waiting(p)
  <2>1. \A i \in DOMAIN queue : queue[i] \in Queued
    BY <1>2, ElementOfSeq
  <2> QED BY <1>0, <2>1 DEF Pool!Waiting
<1> SUFFICES \/ \E c \in Copies : Pool!Take(p, c) \/ Pool!Line(p, c) \/ Pool!Release(p, c)
             \/ Pool!Serve(p) \/ Pool!Withdraw(p)
  BY DEF Pool!Next
<1>w. ASSUME NEW n \in 0..Len(queue), NEW f \in [1..n -> DOMAIN queue],
             \A i, j \in 1..n : i < j => f[i] < f[j],
             Holding' = P, queue' = [i \in 1..n |-> queue[f[i]]]
      PROVE  Pool!Withdraw(p)
  <2>1. hs'[p] = P /\ qs'[p] = [i \in 1..n |-> queue[f[i]]]
    BY <1>w, Became
  <2> HIDE DEF P
  <2> QED BY <1>0, <1>w, <2>1 DEF Pool!Withdraw, Pool!Becomes
<1>4. CASE Still
  <2> DEFINE n == Len(queue)  f == [i \in 1..n |-> i]
  <2>1. f \in [1..n -> DOMAIN queue] /\ \A i, j \in 1..n : i < j => f[i] < f[j]
    BY <1>2
  <2>2. queue = [i \in 1..n |-> queue[f[i]]]
    BY <1>2
  <2>3. n \in 0..Len(queue) /\ Holding' = P /\ queue' = [i \in 1..n |-> queue[f[i]]]
    BY <1>2, <1>4, <2>2 DEF Still
  <2> HIDE DEF f, n
  <2> QED BY <1>w, <2>1, <2>3
<1>5. CASE Quit
  <2>1. CASE queue' = <<>>
    <3> DEFINE n == 0  f == [i \in 1..n |-> i]
    <3>1. /\ n \in 0..Len(queue) /\ f \in [1..n -> DOMAIN queue]
          /\ \A i, j \in 1..n : i < j => f[i] < f[j]
      BY <1>2
    <3>2. queue' = [i \in 1..n |-> queue[f[i]]]
      BY <2>1
    <3>3. Holding' = P
      BY <1>5 DEF Quit
    <3> HIDE DEF f, n
    <3> QED BY <1>w, <3>1, <3>2, <3>3
  <2>2. ASSUME NEW i \in DOMAIN queue, queue' = RemoveAt(queue, i)
        PROVE  Pool!Withdraw(p)
    <3> DEFINE n == Len(queue) - 1  f == [j \in 1..n |-> IF j < i THEN j ELSE j + 1]
    <3>1. /\ RemoveAt(queue, i) \in Seq(Queued) /\ Len(RemoveAt(queue, i)) = n
          /\ \A j \in 1..n : RemoveAt(queue, i)[j] = queue[IF j < i THEN j ELSE j + 1]
      BY <1>2, RemoveAtKeeps
    <3>2. /\ n \in 0..Len(queue) /\ f \in [1..n -> DOMAIN queue]
          /\ \A j, k \in 1..n : j < k => f[j] < f[k]
      BY <1>2, <2>2
    <3>3. RemoveAt(queue, i) = [j \in 1..n |-> queue[f[j]]]
      <4>1. RemoveAt(queue, i) = [j \in 1..n |-> RemoveAt(queue, i)[j]]
        BY <3>1, LenProperties
      <4> QED BY <3>1, <4>1
    <3>4. Holding' = P /\ queue' = [j \in 1..n |-> queue[f[j]]]
      BY <1>5, <2>2, <3>3 DEF Quit
    <3> HIDE DEF f, n
    <3> QED BY <1>w, <3>2, <3>4
  <2> QED BY <1>5, <2>1, <2>2 DEF Quit
<1>6. ASSUME NEW c \in Copies, Take(c) PROVE Pool!Take(p, c)
  <2>1. c \notin P /\ c \notin Queued /\ queue = <<>> /\ value # 0
    BY <1>6 DEF Take
  <2>2. Pool!Becomes(p, P \cup {c}, <<>>)
    BY <1>6, <2>1, Became DEF Take, Pool!Becomes
  <2>3. Cardinality(P) < MaxConcurrency
    BY <1>1, <2>1
  <2> HIDE DEF P
  <2> QED BY <1>0, <1>3, <2>1, <2>2, <2>3, PoolCardinality DEF Pool!Take, Pool!Free
<1>7. ASSUME NEW c \in Copies, Line(c) PROVE Pool!Line(p, c)
  <2>1. c \notin P /\ c \notin Queued /\ (value = 0 \/ Notified # {})
    BY <1>7 DEF Line, Served
  <2>2. hs'[p] = P /\ qs'[p] = Append(queue, c)
    BY <1>7, Became DEF Line
  <2>3. P # {}
    <3>1. CASE value = 0
      <4>1. Cardinality(P) # 0
        BY <1>1, <3>1, CopiesAssumption
      <4> QED BY <4>1, FS_EmptySet
    <3>2. CASE Notified # {}
      BY <3>2 DEF Notified, Holding, Slotted
    <3> QED BY <2>1, <3>1, <3>2
  <2> HIDE DEF P
  <2> QED BY <1>0, <1>3, <2>1, <2>2, <2>3 DEF Pool!Line, Pool!Becomes
<1>9. CASE Serve
  <2>1. hs'[p] = P \cup {Head(queue)} /\ qs'[p] = Tail(queue)
    BY <1>9, Became DEF Serve
  <2>2. queue # <<>> /\ Cardinality(P) < MaxConcurrency
    BY <1>1, <1>9 DEF Serve
  <2> HIDE DEF P
  <2> QED BY <1>0, <2>1, <2>2, PoolCardinality DEF Pool!Serve, Pool!Free, Pool!Becomes
<1>8. ASSUME NEW c \in Copies, Free(c) PROVE Pool!Release(p, c)
  <2>1. c \in P
    BY <1>8 DEF Free
  <2>2. CASE queue = <<>>
    <3>1. Pool!Becomes(p, P \ {c}, <<>>)
      BY <1>8, <2>2, Became DEF Free, Pool!Becomes
    <3> HIDE DEF P
    <3> QED BY <1>0, <2>1, <2>2, <3>1 DEF Pool!Release
  <2>3. CASE queue # <<>>
    <3>1. hs'[p] = (P \ {c}) \cup {Head(queue)} /\ qs'[p] = Tail(queue)
      BY <1>8, <2>3, Became DEF Free
    <3> HIDE DEF P
    <3> QED BY <1>0, <2>1, <2>3, <3>1 DEF Pool!Release, Pool!Becomes
  <2> QED BY <2>2, <2>3
<1> QED BY <1>4, <1>5, <1>6, <1>7, <1>8, <1>9 DEF Move

-----------------------------------------------------------------------------
States == Acquiring \cup {"idle", "copying", "done"}

\* A copy that neither joins nor leaves the queue leaves the queue as it is.
LEMMA QueueKept ==
    ASSUME Core, NEW c \in Copies, NEW to, copy[c] # "queued", to # "queued", to \in States,
           copy' = [copy EXCEPT ![c] = to]
    PROVE  /\ copy' \in [Copies -> States] /\ Queued' = Queued
           /\ copy'[c] = to /\ \A d \in Copies \ {c} : copy'[d] = copy[d]
<1>1. copy \in [Copies -> States]
  BY DEF Core, Typed, States
<1>2. copy'[c] = to /\ \A d \in Copies \ {c} : copy'[d] = copy[d]
  BY <1>1
<1>3. Queued' = Queued
  BY <1>2 DEF Queued
<1> QED BY <1>1, <1>2, <1>3

\* What asyncio.Semaphore.release does, when the slot given back is that of c.
LEMMA GivenBack ==
    ASSUME Core, NEW c \in Copies, NEW cs \in [Copies -> States], GiveBack(cs), c \in Holding,
           \A d \in Copies : cs[d] = "queued" <=> copy[d] = "queued",
           Holding \ {c} = Workers' \cup {d \in Copies : cs[d] \in {"granted", "refunding", "acquired"}}
    PROVE  /\ copy' \in [Copies -> States] /\ value' \in Nat
           /\ Lists(queue', Queued') /\ Free(c)
           /\ \A d \in Copies : copy'[d] = cs[d] \/ (cs[d] = "queued" /\ copy'[d] = "granted")
<1> DEFINE W == Workers'
<1>1. value \in Nat /\ Lists(queue, Queued)
  BY DEF Core, Typed
<1>2. CASE queue = <<>>
  <2>1. value' = value + 1 /\ copy' = cs /\ queue' = queue
    BY <1>2 DEF GiveBack
  <2>2. Queued' = Queued
    BY <2>1 DEF Queued
  <2>3. Holding' = Holding \ {c}
    BY <2>1 DEF Holding, Slotted
  <2> QED BY <1>1, <1>2, <2>1, <2>2, <2>3 DEF Free
<1>3. CASE queue # <<>>
  <2> DEFINE h == Head(queue)
  <2>1. h \in Queued /\ Lists(Tail(queue), Queued \ {h})
    BY <1>1, <1>3, ListsTail
  <2>2. copy' = [cs EXCEPT ![h] = "granted"] /\ queue' = Tail(queue) /\ value' = value
    BY <1>3 DEF GiveBack
  <2> HIDE DEF h
  <2>3. h \in Copies /\ copy[h] = "queued" /\ cs[h] = "queued"
    BY <2>1 DEF Queued
  <2>4. copy'[h] = "granted" /\ \A d \in Copies \ {h} : copy'[d] = cs[d]
    BY <2>2, <2>3
  <2>5. copy' \in [Copies -> States]
    BY <2>2 DEF States, Acquiring
  <2>6. Queued' = Queued \ {h}
    BY <2>3, <2>4 DEF Queued
  <2>7. Holding' = (Holding \ {c}) \cup {h}
    <3>1. \A d \in Copies : d \in Slotted' <=> d = h \/ cs[d] \in {"granted", "refunding", "acquired"}
      BY <2>3, <2>4 DEF Slotted
    <3>2. Slotted' = {d \in Copies : cs[d] \in {"granted", "refunding", "acquired"}} \cup {h}
      BY <2>3, <3>1 DEF Slotted
    <3> QED BY <3>2 DEF Holding
  <2>8. Free(c)
    BY <1>3, <2>2, <2>7 DEF Free, h
  <2> QED BY <1>1, <2>1, <2>2, <2>3, <2>4, <2>5, <2>6, <2>8
<1> QED BY <1>2, <1>3

\* What the invariant of a step needs besides the move it makes.
LEMMA CoreKept ==
    ASSUME Core, Typed', Threads', Lists(queue', Queued'), Move
    PROVE  Core'
BY MoveFits DEF Core

\* The counters remain counters.
LEMMA CountTyped ==
    ASSUME count \in [Counters -> Nat]
    PROVE  /\ \A expired : RecordTimeout(expired) \/ RecordSlotTimeout(expired) => count' \in [Counters -> Nat]
           /\ CopyStarted \/ (\E c \in Copies : ReleaseSlot(c)) => count' \in [Counters -> Nat]
<1>1. ASSUME NEW expired, RecordTimeout(expired) PROVE count' \in [Counters -> Nat]
  BY <1>1 DEF RecordTimeout, Counters
<1>2. ASSUME NEW expired, RecordSlotTimeout(expired) PROVE count' \in [Counters -> Nat]
  BY <1>2 DEF RecordSlotTimeout, Counters
<1>3. CopyStarted \/ (\E c \in Copies : ReleaseSlot(c)) => count' \in [Counters -> Nat]
  <2>1. ASSUME NEW n \in {"started", "completed", "failures"}, count' = [count EXCEPT ![n] = @ + 1]
        PROVE  count' \in [Counters -> Nat]
    BY <2>1 DEF Counters
  <2>2. ASSUME NEW c \in Copies, ReleaseSlot(c)
        PROVE  \E n \in {"completed", "failures"} : count' = [count EXCEPT ![n] = @ + 1]
    BY <2>2 DEF ReleaseSlot, CopyFinished, Outcomes
  <2> QED BY <2>1, <2>2 DEF CopyStarted
<1> QED BY <1>1, <1>2, <1>3

\* A copy that stays out of the queue and keeps what it holds, whatever its thread does.
LEMMA StillKept ==
    ASSUME Core, NEW c \in Copies, NEW to, copy[c] # "queued", to # "queued", to \in States,
           copy' = [copy EXCEPT ![c] = to], queue' = queue, value' = value,
           \A d \in Copies \ {c} : thread'[d] = thread[d] /\ released'[d] = released[d],
           thread' \in [Copies -> {"no", "running", "finished", "cancelled"}], released' \in [Copies -> BOOLEAN],
           count' \in [Counters -> Nat], late' \subseteq Copies,
           /\ thread'[c] # "no" => to \in {"copying", "done"} /\ ~released'[c]
           /\ to = "copying" => thread'[c] # "no" \/ released'[c]
           /\ to \notin {"copying", "done"} => ~released'[c],
           c \in Holding <=> thread'[c] # "no" \/ to \in {"granted", "refunding", "acquired"}
    PROVE  Core' /\ Still
<1>1. /\ copy' \in [Copies -> States] /\ Queued' = Queued
      /\ copy'[c] = to /\ \A d \in Copies \ {c} : copy'[d] = copy[d]
  BY QueueKept
<1>2. Typed'
  BY <1>1 DEF Core, Typed, States
<1>3. Threads'
  BY <1>1 DEF Core, Threads
<1>4. Holding' = Holding
  <2>1. \A d \in Copies : d \in Holding' <=> d \in Holding
    BY <1>1 DEF Holding, Workers, Slotted
  <2> QED BY <2>1 DEF Holding, Workers, Slotted
<1>5. Still /\ Lists(queue', Queued')
  BY <1>1, <1>4 DEF Still, Core
<1> QED BY <1>2, <1>3, <1>5, CoreKept DEF Move

\* Every step of a copy keeps the core of the invariant and moves the slots as a pool may.
LEMMA CopyKeepsCore ==
    ASSUME Core, NEW c \in Copies, Progress(c) \/ Interrupted(c)
    PROVE  Core' /\ Move
<1>0. /\ copy \in [Copies -> States] /\ copy[c] \in States
      /\ thread \in [Copies -> {"no", "running", "finished", "cancelled"}] /\ released \in [Copies -> BOOLEAN]
      /\ count \in [Counters -> Nat] /\ late \subseteq Copies /\ value \in Nat
      /\ Lists(queue, Queued) /\ Threads
  BY DEF Core, Typed, States
<1>t. /\ thread[c] # "no" => copy[c] \in {"copying", "done"} /\ ~released[c]
      /\ copy[c] = "copying" => thread[c] # "no" \/ released[c]
      /\ copy[c] \notin {"copying", "done"} => ~released[c]
      /\ c \in Holding <=> thread[c] # "no" \/ copy[c] \in {"granted", "refunding", "acquired"}
  BY <1>0 DEF Threads, Holding, Workers, Slotted
<1>1. CASE Run(c)
  <2> DEFINE to == "created"
  <2>1. /\ copy' = [copy EXCEPT ![c] = to] /\ queue' = queue /\ value' = value
        /\ copy[c] # "queued" /\ to # "queued" /\ to \in States
    BY <1>1 DEF Run, States, Acquiring
  <2>2. /\ \A d \in Copies \ {c} : thread'[d] = thread[d] /\ released'[d] = released[d]
        /\ thread' \in [Copies -> {"no", "running", "finished", "cancelled"}] /\ released' \in [Copies -> BOOLEAN]
    BY <1>0, <1>1 DEF Run
  <2>3. count' \in [Counters -> Nat] /\ late' \subseteq Copies
    BY <1>0, <1>1 DEF Run
  <2>4. /\ thread'[c] # "no" => to \in {"copying", "done"} /\ ~released'[c]
        /\ to = "copying" => thread'[c] # "no" \/ released'[c]
        /\ to \notin {"copying", "done"} => ~released'[c]
        /\ c \in Holding <=> thread'[c] # "no" \/ to \in {"granted", "refunding", "acquired"}
    BY <1>0, <1>t, <1>1 DEF Run
  <2> HIDE DEF to
  <2> QED BY <2>1, <2>2, <2>3, <2>4, StillKept DEF Move
<1>2. CASE Expired(c)
  <2> DEFINE to == "done"
  <2>1. /\ copy' = [copy EXCEPT ![c] = to] /\ queue' = queue /\ value' = value
        /\ copy[c] # "queued" /\ to # "queued" /\ to \in States
    BY <1>2 DEF Expired, Late, States, Acquiring
  <2>2. /\ \A d \in Copies \ {c} : thread'[d] = thread[d] /\ released'[d] = released[d]
        /\ thread' \in [Copies -> {"no", "running", "finished", "cancelled"}] /\ released' \in [Copies -> BOOLEAN]
    BY <1>0, <1>2 DEF Expired
  <2>3. count' \in [Counters -> Nat] /\ late' \subseteq Copies
    BY <1>0, <1>2, CountTyped DEF Expired, Late
  <2>4. /\ thread'[c] # "no" => to \in {"copying", "done"} /\ ~released'[c]
        /\ to = "copying" => thread'[c] # "no" \/ released'[c]
        /\ to \notin {"copying", "done"} => ~released'[c]
        /\ c \in Holding <=> thread'[c] # "no" \/ to \in {"granted", "refunding", "acquired"}
    BY <1>0, <1>t, <1>2 DEF Expired
  <2> HIDE DEF to
  <2> QED BY <2>1, <2>2, <2>3, <2>4, StillKept DEF Move
<1>3. CASE Refuse(c)
  <2> DEFINE to == "done"
  <2>1. /\ copy' = [copy EXCEPT ![c] = to] /\ queue' = queue /\ value' = value
        /\ copy[c] # "queued" /\ to # "queued" /\ to \in States
    BY <1>3 DEF Refuse, States, Acquiring
  <2>2. /\ \A d \in Copies \ {c} : thread'[d] = thread[d] /\ released'[d] = released[d]
        /\ thread' \in [Copies -> {"no", "running", "finished", "cancelled"}] /\ released' \in [Copies -> BOOLEAN]
    BY <1>0, <1>3 DEF Refuse
  <2>3. count' \in [Counters -> Nat] /\ late' \subseteq Copies
    BY <1>0, <1>3 DEF Refuse
  <2>4. /\ thread'[c] # "no" => to \in {"copying", "done"} /\ ~released'[c]
        /\ to = "copying" => thread'[c] # "no" \/ released'[c]
        /\ to \notin {"copying", "done"} => ~released'[c]
        /\ c \in Holding <=> thread'[c] # "no" \/ to \in {"granted", "refunding", "acquired"}
    BY <1>0, <1>t, <1>3 DEF Refuse
  <2> HIDE DEF to
  <2> QED BY <2>1, <2>2, <2>3, <2>4, StillKept DEF Move
<1>4. CASE Granted(c)
  <2>8. CASE ~(value > 0 /\ queue # <<>>)
    <3> DEFINE to == "acquired"
    <3>1. /\ copy' = [copy EXCEPT ![c] = to] /\ queue' = queue /\ value' = value
          /\ copy[c] # "queued" /\ to # "queued" /\ to \in States
      BY <1>4, <2>8 DEF Granted, States, Acquiring
    <3>2. /\ \A d \in Copies \ {c} : thread'[d] = thread[d] /\ released'[d] = released[d]
          /\ thread' \in [Copies -> {"no", "running", "finished", "cancelled"}] /\ released' \in [Copies -> BOOLEAN]
      BY <1>0, <1>4 DEF Granted
    <3>3. count' \in [Counters -> Nat] /\ late' \subseteq Copies
      BY <1>0, <1>4 DEF Granted
    <3>4. /\ thread'[c] # "no" => to \in {"copying", "done"} /\ ~released'[c]
          /\ to = "copying" => thread'[c] # "no" \/ released'[c]
          /\ to \notin {"copying", "done"} => ~released'[c]
          /\ c \in Holding <=> thread'[c] # "no" \/ to \in {"granted", "refunding", "acquired"}
      BY <1>0, <1>t, <1>4 DEF Granted
    <3> HIDE DEF to
    <3> QED BY <3>1, <3>2, <3>3, <3>4, StillKept DEF Move
  <2>9. CASE value > 0 /\ queue # <<>>
    <3> DEFINE h == Head(queue)
    <3>1. /\ copy[c] = "granted" /\ thread' = thread /\ released' = released
          /\ copy' = [copy EXCEPT ![c] = "acquired", ![h] = "granted"]
          /\ queue' = Tail(queue) /\ value' = value - 1 /\ count' = count /\ late' = late
      BY <1>4, <2>9 DEF Granted
    <3>2. h \in Queued /\ Lists(queue', Queued \ {h})
      BY <1>0, <2>9, <3>1, ListsTail
    <3>s. Serve <=> Holding' = Holding \cup {h}
      BY <1>0, <2>9, <3>1 DEF Serve
    <3> HIDE DEF h
    <3>3. h \in Copies /\ copy[h] = "queued" /\ h # c
      BY <3>1, <3>2 DEF Queued
    <3>4. /\ copy'[c] = "acquired" /\ copy'[h] = "granted" /\ copy' \in [Copies -> States]
          /\ \A d \in Copies \ {c, h} : copy'[d] = copy[d]
      BY <1>0, <3>1, <3>3 DEF States, Acquiring
    <3>5. Typed'
      <4>1. value' \in Nat
        BY <1>0, <2>9, <3>1
      <4> QED BY <1>0, <3>1, <3>4, <4>1 DEF Typed, States
    <3>6. Threads'
      BY <1>0, <3>1, <3>3, <3>4 DEF Threads
    <3>7. Queued' = Queued \ {h}
      BY <3>1, <3>3, <3>4 DEF Queued
    <3>8. Holding' = Holding \cup {h}
      <4>1. \A d \in Copies : d \in Slotted' <=> d \in Slotted \/ d = h
        BY <3>1, <3>3, <3>4 DEF Slotted
      <4>2. Slotted' = Slotted \cup {h}
        BY <3>3, <4>1 DEF Slotted
      <4> QED BY <3>1, <4>2 DEF Holding, Workers
    <3> QED BY <3>2, <3>5, <3>6, <3>7, <3>8, <3>s, CoreKept DEF Move
  <2> QED BY <2>8, <2>9
<1>5. CASE Start(c)
  <2> DEFINE to == "copying"
  <2>1. /\ copy' = [copy EXCEPT ![c] = to] /\ queue' = queue /\ value' = value
        /\ copy[c] # "queued" /\ to # "queued" /\ to \in States
    BY <1>5 DEF Start, States, Acquiring
  <2>2. /\ \A d \in Copies \ {c} : thread'[d] = thread[d] /\ released'[d] = released[d]
        /\ thread' \in [Copies -> {"no", "running", "finished", "cancelled"}] /\ released' \in [Copies -> BOOLEAN]
    BY <1>0, <1>5 DEF Start
  <2>3. count' \in [Counters -> Nat] /\ late' \subseteq Copies
    BY <1>0, <1>5, CountTyped DEF Start
  <2>4. /\ thread'[c] # "no" => to \in {"copying", "done"} /\ ~released'[c]
        /\ to = "copying" => thread'[c] # "no" \/ released'[c]
        /\ to \notin {"copying", "done"} => ~released'[c]
        /\ c \in Holding <=> thread'[c] # "no" \/ to \in {"granted", "refunding", "acquired"}
    BY <1>0, <1>t, <1>5 DEF Start
  <2> HIDE DEF to
  <2> QED BY <2>1, <2>2, <2>3, <2>4, StillKept DEF Move
<1>6. CASE Withdraw(c)
  <2> DEFINE to == "done"
  <2>1. /\ copy' = [copy EXCEPT ![c] = to] /\ queue' = queue /\ value' = value
        /\ copy[c] # "queued" /\ to # "queued" /\ to \in States
    BY <1>6 DEF Withdraw, States, Acquiring
  <2>2. /\ \A d \in Copies \ {c} : thread'[d] = thread[d] /\ released'[d] = released[d]
        /\ thread' \in [Copies -> {"no", "running", "finished", "cancelled"}] /\ released' \in [Copies -> BOOLEAN]
    BY <1>0, <1>6 DEF Withdraw
  <2>3. count' \in [Counters -> Nat] /\ late' \subseteq Copies
    BY <1>0, <1>6, CountTyped DEF Withdraw
  <2>4. /\ thread'[c] # "no" => to \in {"copying", "done"} /\ ~released'[c]
        /\ to = "copying" => thread'[c] # "no" \/ released'[c]
        /\ to \notin {"copying", "done"} => ~released'[c]
        /\ c \in Holding <=> thread'[c] # "no" \/ to \in {"granted", "refunding", "acquired"}
    BY <1>0, <1>t, <1>6 DEF Withdraw
  <2> HIDE DEF to
  <2> QED BY <2>1, <2>2, <2>3, <2>4, StillKept DEF Move
<1>7. ASSUME NEW expired, GiveUpCopy(c, expired)
      PROVE  Core' /\ Move
  <2> DEFINE to == "done"
  <2>1. /\ copy' = [copy EXCEPT ![c] = to] /\ queue' = queue /\ value' = value
        /\ copy[c] # "queued" /\ to # "queued" /\ to \in States
    BY <1>7 DEF GiveUpCopy, Late, States, Acquiring
  <2>2. /\ \A d \in Copies \ {c} : thread'[d] = thread[d] /\ released'[d] = released[d]
        /\ thread' \in [Copies -> {"no", "running", "finished", "cancelled"}] /\ released' \in [Copies -> BOOLEAN]
    BY <1>0, <1>7 DEF GiveUpCopy
  <2>3. count' \in [Counters -> Nat] /\ late' \subseteq Copies
    BY <1>0, <1>7, CountTyped DEF GiveUpCopy, Late
  <2>4. /\ thread'[c] # "no" => to \in {"copying", "done"} /\ ~released'[c]
        /\ to = "copying" => thread'[c] # "no" \/ released'[c]
        /\ to \notin {"copying", "done"} => ~released'[c]
        /\ c \in Holding <=> thread'[c] # "no" \/ to \in {"granted", "refunding", "acquired"}
    BY <1>0, <1>t, <1>7 DEF GiveUpCopy
  <2> HIDE DEF to
  <2> QED BY <2>1, <2>2, <2>3, <2>4, StillKept DEF Move
<1>8. ASSUME NEW expired, Finish(c, expired)
      PROVE  Core' /\ Move
  <2> DEFINE to == "done"
  <2>1. /\ copy' = [copy EXCEPT ![c] = to] /\ queue' = queue /\ value' = value
        /\ copy[c] # "queued" /\ to # "queued" /\ to \in States
    BY <1>8 DEF Finish, Late, States, Acquiring
  <2>2. /\ \A d \in Copies \ {c} : thread'[d] = thread[d] /\ released'[d] = released[d]
        /\ thread' \in [Copies -> {"no", "running", "finished", "cancelled"}] /\ released' \in [Copies -> BOOLEAN]
    BY <1>0, <1>8 DEF Finish
  <2>3. count' \in [Counters -> Nat] /\ late' \subseteq Copies
    BY <1>0, <1>8, CountTyped DEF Finish, Late
  <2>4. /\ thread'[c] # "no" => to \in {"copying", "done"} /\ ~released'[c]
        /\ to = "copying" => thread'[c] # "no" \/ released'[c]
        /\ to \notin {"copying", "done"} => ~released'[c]
        /\ c \in Holding <=> thread'[c] # "no" \/ to \in {"granted", "refunding", "acquired"}
    BY <1>0, <1>t, <1>8 DEF Finish
  <2> HIDE DEF to
  <2> QED BY <2>1, <2>2, <2>3, <2>4, StillKept DEF Move
<1>9. CASE ThreadEnds(c)
  <2>1. /\ copy' = copy /\ queue' = queue /\ value' = value /\ released' = released
        /\ count' = count /\ late' = late
        /\ thread[c] = "running" /\ thread' = [thread EXCEPT ![c] = "finished"]
    BY <1>9 DEF ThreadEnds
  <2>2. thread'[c] = "finished" /\ \A d \in Copies \ {c} : thread'[d] = thread[d]
    BY <1>0, <2>1
  <2>3. Queued' = Queued
    BY <2>1 DEF Queued
  <2>4. Holding' = Holding
    BY <2>1, <2>2 DEF Holding, Workers, Slotted
  <2>5. Typed'
    BY <1>0, <2>1 DEF Typed, States
  <2>6. Threads'
    BY <1>0, <2>1, <2>2 DEF Threads
  <2> QED BY <1>0, <2>1, <2>3, <2>4, <2>5, <2>6, CoreKept DEF Move, Still
<1>10. CASE Acquire(c)
  <2>1. /\ copy[c] = "created" /\ thread' = thread /\ released' = released
        /\ count' = count /\ late' = late
    BY <1>10 DEF Acquire
  <2>2. c \notin Holding /\ c \notin Queued
    BY <1>t, <2>1 DEF Queued
  <2>3. CASE value = 0 \/ queue # <<>> \/ Notified # {}
    <3>1. copy' = [copy EXCEPT ![c] = "queued"] /\ queue' = Append(queue, c) /\ value' = value
      BY <1>10, <2>3 DEF Acquire
    <3>2. copy'[c] = "queued" /\ \A d \in Copies \ {c} : copy'[d] = copy[d]
      BY <1>0, <3>1
    <3>3. Typed'
      BY <1>0, <2>1, <3>1 DEF Typed, States, Acquiring
    <3>4. Threads'
      BY <1>0, <2>1, <3>2 DEF Threads
    <3>5. Queued' = Queued \cup {c}
      BY <3>2 DEF Queued
    <3>6. Holding' = Holding
      BY <2>1, <3>2 DEF Holding, Workers, Slotted
    <3>7. Lists(queue', Queued')
      BY <1>0, <2>2, <3>1, <3>5, ListsAppend
    <3>8. Line(c)
      BY <2>2, <2>3, <3>1, <3>6 DEF Line
    <3> QED BY <3>3, <3>4, <3>7, <3>8, CoreKept DEF Move
  <2>4. CASE ~(value = 0 \/ queue # <<>> \/ Notified # {})
    <3>1. copy' = [copy EXCEPT ![c] = "acquired"] /\ queue' = queue /\ value' = value - 1
      BY <1>10, <2>4 DEF Acquire
    <3>2. copy'[c] = "acquired" /\ \A d \in Copies \ {c} : copy'[d] = copy[d]
      BY <1>0, <3>1
    <3>3. Typed'
      <4>1. copy' \in [Copies -> States] /\ value' \in Nat
        BY <1>0, <2>4, <3>1 DEF States, Acquiring
      <4> QED BY <1>0, <2>1, <4>1 DEF Typed, States
    <3>4. Threads'
      BY <1>0, <2>1, <3>2 DEF Threads
    <3>5. Queued' = Queued
      BY <2>1, <3>2 DEF Queued
    <3>6. Holding' = Holding \cup {c}
      <4>1. Workers' = Workers
        BY <2>1 DEF Workers
      <4>2. \A d \in Copies : d \in Slotted' <=> d \in Slotted \/ d = c
        BY <2>1, <3>2 DEF Slotted
      <4>3. Slotted' = Slotted \cup {c}
        BY <4>2 DEF Slotted
      <4> QED BY <4>1, <4>3 DEF Holding
    <3>7. Take(c)
      BY <2>2, <2>4, <3>1, <3>6 DEF Take
    <3> QED BY <1>0, <3>1, <3>3, <3>4, <3>5, <3>7, CoreKept DEF Move
  <2> QED BY <2>3, <2>4
<1>11. ASSUME copy[c] \in {"acquired", "refunding"}, GiveBack([copy EXCEPT ![c] = "done"]),
              thread' = thread, released' = released, count' \in [Counters -> Nat], late' = late
       PROVE  Core' /\ Move
  <2> DEFINE cs == [copy EXCEPT ![c] = "done"]
  <2>1. cs \in [Copies -> States] /\ cs[c] = "done" /\ \A d \in Copies \ {c} : cs[d] = copy[d]
    BY <1>0 DEF States
  <2>2. GiveBack(cs)
    BY <1>11
  <2> HIDE DEF cs
  <2>3. c \in Holding /\ thread[c] = "no" /\ ~released[c]
    BY <1>0, <1>t, <1>11
  <2>4. \A d \in Copies : cs[d] = "queued" <=> copy[d] = "queued"
    BY <1>11, <2>1
  <2>5. Holding \ {c} = Workers' \cup {d \in Copies : cs[d] \in {"granted", "refunding", "acquired"}}
    <3>1. \A d \in Copies : d \in Holding \ {c} <=>
              d \in Workers' \/ cs[d] \in {"granted", "refunding", "acquired"}
      BY <1>11, <2>1, <2>3 DEF Holding, Workers, Slotted
    <3> QED BY <3>1 DEF Holding, Workers, Slotted
  <2>6. /\ copy' \in [Copies -> States] /\ value' \in Nat
        /\ Lists(queue', Queued') /\ Free(c)
        /\ \A d \in Copies : copy'[d] = cs[d] \/ (cs[d] = "queued" /\ copy'[d] = "granted")
    BY <2>1, <2>2, <2>3, <2>4, <2>5, GivenBack
  <2>7. Typed'
    BY <1>0, <1>11, <2>6 DEF Typed, States
  <2>8. Threads'
    <3>1. copy'[c] = "done"
      BY <2>1, <2>6
    <3>2. \A d \in Copies \ {c} : copy'[d] = copy[d] \/ (copy[d] = "queued" /\ copy'[d] = "granted")
      BY <2>1, <2>6
    <3> QED BY <1>0, <1>11, <2>3, <3>1, <3>2 DEF Threads
  <2> QED BY <2>6, <2>7, <2>8, CoreKept DEF Move
<1>12. CASE PutBack(c)
  BY <1>0, <1>11, <1>12 DEF PutBack
<1>13. CASE Refund(c)
  <2>1. count' \in [Counters -> Nat]
    BY <1>0, <1>13, CountTyped DEF Refund
  <2> QED BY <1>11, <1>13, <2>1 DEF Refund
<1>14. CASE ReleaseSlot(c)
  <2>1. /\ thread[c] # "no" /\ ~released[c] /\ GiveBack(copy) /\ late' = late
        /\ released' = [released EXCEPT ![c] = TRUE] /\ thread' = [thread EXCEPT ![c] = "no"]
    BY <1>14 DEF ReleaseSlot
  <2>2. count' \in [Counters -> Nat]
    BY <1>0, <1>14, CountTyped DEF ReleaseSlot
  <2>3. /\ thread'[c] = "no" /\ released'[c] = TRUE
        /\ \A d \in Copies \ {c} : thread'[d] = thread[d] /\ released'[d] = released[d]
    BY <1>0, <2>1
  <2>4. c \in Holding /\ copy[c] \in {"copying", "done"}
    BY <1>t, <2>1
  <2>5. Holding \ {c} = Workers' \cup {d \in Copies : copy[d] \in {"granted", "refunding", "acquired"}}
    <3>1. \A d \in Copies : d \in Holding \ {c} <=>
              d \in Workers' \/ copy[d] \in {"granted", "refunding", "acquired"}
      BY <2>3, <2>4 DEF Holding, Workers, Slotted
    <3> QED BY <3>1 DEF Holding, Workers, Slotted
  <2>6. /\ copy' \in [Copies -> States] /\ value' \in Nat
        /\ Lists(queue', Queued') /\ Free(c)
        /\ \A d \in Copies : copy'[d] = copy[d] \/ (copy[d] = "queued" /\ copy'[d] = "granted")
    BY <1>0, <2>1, <2>4, <2>5, GivenBack
  <2>7. Typed'
    BY <1>0, <2>1, <2>2, <2>6 DEF Typed, States
  <2>8. Threads'
    BY <1>0, <2>3, <2>4, <2>6 DEF Threads
  <2> QED BY <2>6, <2>7, <2>8, CoreKept DEF Move
<1>15. ASSUME NEW expired, GiveUpSlot(c, expired)
       PROVE  Core' /\ Move
  <2>1. /\ copy[c] \in {"created", "queued", "granted"} /\ value' = value /\ thread' = thread
        /\ released' = released /\ count' = count /\ CancelAcquire({c}) /\ LeaveQueue(c)
    BY <1>15 DEF GiveUpSlot
  <2>2. late' \subseteq Copies
    BY <1>0, <1>15 DEF GiveUpSlot, Late
  <2> DEFINE to == IF copy[c] = "granted" THEN "refunding" ELSE "withdrawn"
  <2>3. copy' = [copy EXCEPT ![c] = to]
    BY <1>0, <2>1 DEF CancelAcquire
  <2>4. CASE copy[c] = "queued"
    <3>1. PICK i \in DOMAIN queue : queue[i] = c /\ queue' = RemoveAt(queue, i)
      BY <2>1, <2>4 DEF LeaveQueue
    <3>2. copy'[c] = "withdrawn" /\ \A d \in Copies \ {c} : copy'[d] = copy[d]
      BY <1>0, <2>3, <2>4
    <3>3. Typed'
      BY <1>0, <2>1, <2>2, <2>3, <2>4 DEF Typed, States, Acquiring
    <3>4. Threads'
      BY <1>0, <2>1, <2>4, <3>2 DEF Threads
    <3>5. Queued' = Queued \ {c}
      BY <3>2 DEF Queued
    <3>6. Holding' = Holding
      BY <2>1, <2>4, <3>2 DEF Holding, Workers, Slotted
    <3>7. Lists(queue', Queued')
      BY <1>0, <3>1, <3>5, ListsRemove
    <3>8. Quit
      BY <2>1, <3>1, <3>6 DEF Quit
    <3> QED BY <3>3, <3>4, <3>7, <3>8, CoreKept DEF Move
  <2>5. CASE copy[c] # "queued"
    <3>1. queue' = queue /\ to # "queued" /\ to \in States
      BY <2>1, <2>5 DEF LeaveQueue, States, Acquiring
    <3>2. /\ \A d \in Copies \ {c} : thread'[d] = thread[d] /\ released'[d] = released[d]
          /\ thread' \in [Copies -> {"no", "running", "finished", "cancelled"}] /\ released' \in [Copies -> BOOLEAN]
          /\ count' \in [Counters -> Nat]
      BY <1>0, <2>1
    <3>3. /\ thread'[c] # "no" => to \in {"copying", "done"} /\ ~released'[c]
          /\ to = "copying" => thread'[c] # "no" \/ released'[c]
          /\ to \notin {"copying", "done"} => ~released'[c]
          /\ c \in Holding <=> thread'[c] # "no" \/ to \in {"granted", "refunding", "acquired"}
      BY <1>t, <2>1, <2>5
    <3> HIDE DEF to
    <3> QED BY <2>1, <2>2, <2>3, <2>5, <3>1, <3>2, <3>3, StillKept DEF Move
  <2> QED BY <2>4, <2>5
<1>16. CASE CancelledAgain(c)
  <2>1. /\ copy' = copy /\ queue' = queue /\ value' = value /\ released' = released
        /\ thread' = thread /\ count' = count /\ late' \subseteq Copies
    BY <1>0, <1>16 DEF CancelledAgain
  <2>2. Queued' = Queued /\ Holding' = Holding
    BY <2>1 DEF Queued, Holding, Workers, Slotted
  <2>3. Typed' /\ Threads'
    BY <1>0, <2>1 DEF Typed, Threads, States
  <2> QED BY <1>0, <2>1, <2>2, <2>3, CoreKept DEF Move, Still
<1> QED BY <1>1, <1>2, <1>3, <1>4, <1>5, <1>6, <1>7, <1>8, <1>9, <1>10, <1>12, <1>13, <1>14, <1>15,
           <1>16
    DEF Progress, Interrupted

\* So does every step of an aclose, of a monitor, and a step that changes nothing.
LEMMA OtherKeepsCore ==
    ASSUME Core,
           \/ \E k \in Closers : Closing(k) \/ AcloseCancelled(k)
           \/ (\E c \in Copies : AdriftEnds(c)) \/ Poll \/ UNCHANGED vars
    PROVE  Core' /\ Move
<1>0. /\ copy \in [Copies -> States]
      /\ thread \in [Copies -> {"no", "running", "finished", "cancelled"}] /\ released \in [Copies -> BOOLEAN]
      /\ count \in [Counters -> Nat] /\ late \subseteq Copies /\ value \in Nat
      /\ Lists(queue, Queued) /\ Threads
  BY DEF Core, Typed, States
<1>1. ASSUME copy' = copy, queue' = queue, value' = value, thread' = thread, released' = released,
             late' = late, count' \in [Counters -> Nat]
      PROVE  Core' /\ Move
  <2>1. Queued' = Queued /\ Holding' = Holding /\ Lists(queue', Queued')
    BY <1>0, <1>1 DEF Queued, Holding, Workers, Slotted
  <2>2. Typed' /\ Threads'
    BY <1>0, <1>1 DEF Typed, Threads, States
  <2> QED BY <1>1, <2>1, <2>2, CoreKept DEF Still, Move
<1>2. ASSUME NEW k \in Closers, Aclose(k) PROVE Core' /\ Move
  <2>1. /\ thread' = thread /\ released' = released /\ value' = value /\ late' = late
        /\ count' = count
    BY <1>2 DEF Aclose
  <2>2. CASE closing
    <3>1. copy' = copy /\ queue' = queue
      BY <1>2, <2>2 DEF Aclose
    <3> QED BY <1>0, <1>1, <2>1, <3>1
  <2>3. CASE ~closing
    <3>1. CancelAcquire(Copies) /\ queue' = <<>>
      BY <1>2, <2>3 DEF Aclose
    <3>2. copy' = [c \in Copies |-> CASE copy[c] \in {"created", "queued"} -> "withdrawn"
                                      [] copy[c] = "granted" -> "refunding"
                                      [] OTHER -> copy[c]]
      BY <3>1 DEF CancelAcquire
    <3>3. \A c \in Copies :
             /\ copy[c] \in {"created", "queued"} => copy'[c] = "withdrawn"
             /\ copy[c] = "granted" => copy'[c] = "refunding"
             /\ copy[c] \notin {"created", "queued", "granted"} => copy'[c] = copy[c]
      BY <3>2
    <3>4. copy' \in [Copies -> States]
      <4>1. \A c \in Copies : copy'[c] \in States
        BY <1>0, <3>3 DEF States, Acquiring
      <4> QED BY <3>2, <4>1
    <3>5. Typed'
      BY <1>0, <2>1, <3>4 DEF Typed, States
    <3>6. Threads'
      BY <1>0, <2>1, <3>3 DEF Threads
    <3>7. Queued' = {}
      BY <3>3 DEF Queued
    <3>8. Lists(queue', Queued')
      BY <3>1, <3>7 DEF Lists
    <3>9. Holding' = Holding
      <4>1. \A c \in Copies : c \in Slotted' <=> c \in Slotted
        BY <3>3 DEF Slotted
      <4> QED BY <2>1, <4>1 DEF Holding, Workers, Slotted
    <3> QED BY <2>1, <3>1, <3>5, <3>6, <3>8, <3>9, CoreKept DEF Quit, Move
  <2> QED BY <2>2, <2>3
<1>3. ASSUME NEW k \in Closers, AcloseReturns(k) PROVE Core' /\ Move
  BY <1>0, <1>1, <1>3 DEF AcloseReturns
<1>4. ASSUME NEW k \in Closers, AcloseTimeout(k) PROVE Core' /\ Move
  <2>1. count' \in [Counters -> Nat]
    BY <1>0, <1>4 DEF AcloseTimeout, Counters
  <2> QED BY <1>1, <1>4, <2>1 DEF AcloseTimeout
<1>5. CASE Poll \/ \E c \in Copies : AdriftEnds(c)
  BY <1>0, <1>1, <1>5 DEF Poll, AdriftEnds, slots
<1>6. CASE UNCHANGED vars
  BY <1>0, <1>1, <1>6 DEF vars
<1>7. ASSUME NEW k \in Closers, AcloseCancelled(k) PROVE Core' /\ Move
  <2>1. /\ copy' = copy /\ queue' = queue /\ value' = value /\ released' = released
        /\ count' = count /\ late' = late
    BY <1>7 DEF AcloseCancelled, slots
  <2>2. /\ thread' \in [Copies -> {"no", "running", "finished", "cancelled"}]
        /\ \A c \in Copies : thread'[c] # "no" <=> thread[c] # "no"
    BY <1>0, <1>7 DEF AcloseCancelled, Abandoned
  <2>3. Queued' = Queued /\ Holding' = Holding
    BY <2>1, <2>2 DEF Queued, Holding, Workers, Slotted
  <2>4. Typed'
    BY <1>0, <2>1, <2>2 DEF Typed, States
  <2>5. Threads'
    BY <1>0, <2>1, <2>2 DEF Threads
  <2> QED BY <1>0, <2>1, <2>3, <2>4, <2>5, CoreKept DEF Move, Still
<1> QED BY <1>2, <1>3, <1>4, <1>5, <1>6, <1>7 DEF Closing

\* Every step keeps the core of the invariant and is a move of the slots.
LEMMA NextKeepsCore ==
    ASSUME Core, [Next]_vars
    PROVE  Core' /\ Move
BY CopyKeepsCore, OtherKeepsCore DEF Next

-----------------------------------------------------------------------------
\* A step of c may grant a slot to another copy, and changes nothing else of it.
Apart(c) ==
    \A d \in Copies \ {c} : copy'[d] = copy[d] \/ (copy[d] = "queued" /\ copy'[d] = "granted")

\* GiveBack changes the first copy of the queue only.
LEMMA GiveBackApart ==
    ASSUME Core, NEW cs \in [Copies -> States], GiveBack(cs),
           \A d \in Copies : cs[d] = "queued" <=> copy[d] = "queued"
    PROVE  \A d \in Copies : copy'[d] = cs[d] \/ (copy[d] = "queued" /\ copy'[d] = "granted")
<1>1. CASE queue = <<>>
  BY <1>1 DEF GiveBack
<1>2. CASE queue # <<>>
  <2> DEFINE h == Head(queue)
  <2>1. h \in Queued
    BY <1>2, ListsTail DEF Core
  <2>2. copy' = [cs EXCEPT ![h] = "granted"]
    BY <1>2 DEF GiveBack
  <2> HIDE DEF h
  <2> QED BY <2>1, <2>2 DEF Queued
<1> QED BY <1>1, <1>2

\* Where the step of a copy brings it.
Goes(c, from, to) == copy[c] = from /\ copy'[c] = to

\* Every action of a copy takes it from one point of run to another.
LEMMA CopyGoes ==
    ASSUME Core, NEW c \in Copies
    PROVE  /\ Run(c) => Goes(c, "idle", "created") /\ Apart(c)
           /\ Expired(c) \/ Refuse(c) => Goes(c, "idle", "done") /\ Apart(c)
           /\ Acquire(c) => (Goes(c, "created", "queued") \/ Goes(c, "created", "acquired")) /\ Apart(c)
           /\ Granted(c) => Goes(c, "granted", "acquired") /\ Apart(c)
           /\ Start(c) => Goes(c, "acquired", "copying") /\ Apart(c)
           /\ PutBack(c) => Goes(c, "acquired", "done") /\ Apart(c)
           /\ Withdraw(c) => Goes(c, "withdrawn", "done") /\ Apart(c)
           /\ Refund(c) => Goes(c, "refunding", "done") /\ Apart(c)
           /\ ThreadEnds(c) \/ ReleaseSlot(c) \/ CancelledAgain(c) => copy'[c] = copy[c] /\ Apart(c)
           /\ \A expired : GiveUpCopy(c, expired) \/ Finish(c, expired)
                              => Goes(c, "copying", "done") /\ Apart(c)
           /\ \A expired : GiveUpSlot(c, expired)
                              => /\ copy[c] \in {"created", "queued", "granted"}
                                 /\ copy'[c] \in {"withdrawn", "refunding"} /\ Apart(c)
<1>0. copy \in [Copies -> States]
  BY DEF Core, Typed, States
<1>1. ASSUME NEW to, copy' = [copy EXCEPT ![c] = to] PROVE copy'[c] = to /\ Apart(c)
  BY <1>0, <1>1 DEF Apart
<1>2. ASSUME copy[c] # "queued", GiveBack([copy EXCEPT ![c] = "done"])
      PROVE  copy'[c] = "done" /\ Apart(c)
  <2> DEFINE cs == [copy EXCEPT ![c] = "done"]
  <2>1. /\ cs \in [Copies -> States] /\ cs[c] = "done" /\ \A d \in Copies \ {c} : cs[d] = copy[d]
        /\ GiveBack(cs)
    BY <1>0, <1>2 DEF States
  <2> HIDE DEF cs
  <2>2. \A d \in Copies : cs[d] = "queued" <=> copy[d] = "queued"
    BY <1>2, <2>1
  <2>3. \A d \in Copies : copy'[d] = cs[d] \/ (copy[d] = "queued" /\ copy'[d] = "granted")
    BY <2>1, <2>2, GiveBackApart
  <2> QED BY <1>2, <2>1, <2>3 DEF Apart
<1>3. Run(c) => Goes(c, "idle", "created") /\ Apart(c)
  BY <1>1 DEF Run, Goes
<1>4. Expired(c) \/ Refuse(c) => Goes(c, "idle", "done") /\ Apart(c)
  BY <1>1 DEF Expired, Refuse, Goes
<1>5. Acquire(c) => (Goes(c, "created", "queued") \/ Goes(c, "created", "acquired")) /\ Apart(c)
  BY <1>1 DEF Acquire, Goes
<1>6. Granted(c) => Goes(c, "granted", "acquired") /\ Apart(c)
  <2> SUFFICES ASSUME Granted(c) PROVE Goes(c, "granted", "acquired") /\ Apart(c)
    OBVIOUS
  <2>1. CASE ~(value > 0 /\ queue # <<>>)
    BY <1>1, <2>1 DEF Granted, Goes
  <2>2. CASE value > 0 /\ queue # <<>>
    <3> DEFINE h == Head(queue)
    <3>1. h \in Queued
      BY <2>2, ListsTail DEF Core
    <3>2. copy[c] = "granted" /\ copy' = [copy EXCEPT ![c] = "acquired", ![h] = "granted"]
      BY <2>2 DEF Granted
    <3> HIDE DEF h
    <3> QED BY <1>0, <3>1, <3>2 DEF Goes, Apart, Queued
  <2> QED BY <2>1, <2>2
<1>7. Start(c) => Goes(c, "acquired", "copying") /\ Apart(c)
  BY <1>1 DEF Start, Goes
<1>8. PutBack(c) => Goes(c, "acquired", "done") /\ Apart(c)
  BY <1>2 DEF PutBack, Goes
<1>9. Withdraw(c) => Goes(c, "withdrawn", "done") /\ Apart(c)
  BY <1>1 DEF Withdraw, Goes
<1>10. Refund(c) => Goes(c, "refunding", "done") /\ Apart(c)
  BY <1>2 DEF Refund, Goes
<1>11. ThreadEnds(c) \/ CancelledAgain(c) => copy'[c] = copy[c] /\ Apart(c)
  BY DEF ThreadEnds, CancelledAgain, Apart
<1>12. ReleaseSlot(c) => copy'[c] = copy[c] /\ Apart(c)
  <2> SUFFICES ASSUME ReleaseSlot(c) PROVE copy'[c] = copy[c] /\ Apart(c)
    OBVIOUS
  <2>1. GiveBack(copy) /\ thread[c] # "no"
    BY DEF ReleaseSlot
  <2>2. copy[c] # "queued"
    BY <2>1 DEF Core, Threads
  <2>3. \A d \in Copies : copy'[d] = copy[d] \/ (copy[d] = "queued" /\ copy'[d] = "granted")
    BY <1>0, <2>1, GiveBackApart
  <2> QED BY <2>2, <2>3 DEF Apart
<1>13. ASSUME NEW expired, GiveUpCopy(c, expired) \/ Finish(c, expired)
       PROVE  Goes(c, "copying", "done") /\ Apart(c)
  BY <1>1, <1>13 DEF GiveUpCopy, Finish, Goes
<1>14. ASSUME NEW expired, GiveUpSlot(c, expired)
       PROVE  /\ copy[c] \in {"created", "queued", "granted"}
              /\ copy'[c] \in {"withdrawn", "refunding"} /\ Apart(c)
  BY <1>0, <1>14 DEF GiveUpSlot, CancelAcquire, Apart
<1> QED BY <1>3, <1>4, <1>5, <1>6, <1>7, <1>8, <1>9, <1>10, <1>11, <1>12, <1>13, <1>14

\* The threads are counted: only a start and release_slot touch the figures.
LEMMA NextKeepsThreadFigures ==
    ASSUME Core, ThreadFigures, [Next]_vars
    PROVE  ThreadFigures'
<1> DEFINE W == Workers  st == count["started"]  ok == count["completed"]  ko == count["failures"]
<1>0. /\ thread \in [Copies -> {"no", "running", "finished", "cancelled"}] /\ count \in [Counters -> Nat]
      /\ W \in SUBSET Copies
  BY DEF Core, Typed, Workers
<1>1. /\ st \in Nat /\ ok \in Nat /\ ko \in Nat /\ Cardinality(W) \in Nat
      /\ \A c : c \notin W => Cardinality(W \cup {c}) = Cardinality(W) + 1
      /\ \A c : c \in W => Cardinality(W \ {c}) = Cardinality(W) - 1
  BY <1>0, CopiesCounted DEF Counters
<1>2. active = Cardinality(W) /\ st = ok + ko + active
  BY DEF ThreadFigures
<1> HIDE DEF W, st, ok, ko
<1>3. ASSUME Workers' = W, active' = active,
             \A n \in {"started", "completed", "failures"} : count'[n] = count[n]
      PROVE  ThreadFigures'
  BY <1>2, <1>3 DEF ThreadFigures, st, ok, ko
<1>4. ASSUME thread' = thread, active' = active, count' = count PROVE ThreadFigures'
  BY <1>3, <1>4 DEF Workers, W
<1>5. ASSUME NEW expired, RecordTimeout(expired) \/ RecordSlotTimeout(expired),
             thread' = thread, active' = active
      PROVE  ThreadFigures'
  <2>1. \A n \in {"started", "completed", "failures"} : count'[n] = count[n]
    BY <1>0, <1>5 DEF RecordTimeout, RecordSlotTimeout, Counters
  <2> QED BY <1>3, <1>5, <2>1 DEF Workers, W
<1>6. ASSUME NEW c \in Copies, Start(c) PROVE ThreadFigures'
  <2>1. /\ active' = active + 1 /\ count' = [count EXCEPT !["started"] = @ + 1]
        /\ copy[c] = "acquired" /\ thread' = [thread EXCEPT ![c] = "running"]
    BY <1>6 DEF Start, CopyStarted
  <2>2. count'["started"] = st + 1 /\ count'["completed"] = ok /\ count'["failures"] = ko
    BY <1>0, <2>1 DEF Counters, st, ok, ko
  <2>3. c \notin W
    BY <2>1 DEF Core, Threads, Workers, W
  <2>4. thread'[c] = "running" /\ \A d \in Copies \ {c} : thread'[d] = thread[d]
    BY <1>0, <2>1
  <2>5. Workers' = W \cup {c}
    BY <2>4 DEF Workers, W
  <2>6. Cardinality(Workers') = Cardinality(W) + 1
    BY <1>1, <2>3, <2>5
  <2> QED BY <1>1, <1>2, <2>1, <2>2, <2>6 DEF ThreadFigures
<1>7. ASSUME NEW c \in Copies, ReleaseSlot(c) PROVE ThreadFigures'
  <2>1. /\ active' = active - 1 /\ thread[c] # "no" /\ thread' = [thread EXCEPT ![c] = "no"]
        /\ \E outcome \in {"completed", "failures"} : count' = [count EXCEPT ![outcome] = @ + 1]
    BY <1>7 DEF ReleaseSlot, CopyFinished, Outcomes
  <2>2. /\ count'["started"] = st
        /\ \/ count'["completed"] = ok + 1 /\ count'["failures"] = ko
           \/ count'["completed"] = ok /\ count'["failures"] = ko + 1
    BY <1>0, <2>1 DEF Counters, st, ok, ko
  <2>3. thread'[c] = "no" /\ \A d \in Copies \ {c} : thread'[d] = thread[d]
    BY <1>0, <2>1
  <2>4. c \in W /\ Workers' = W \ {c}
    BY <2>1, <2>3 DEF Workers, W
  <2>5. Cardinality(Workers') = Cardinality(W) - 1
    BY <1>1, <2>4
  <2> QED BY <1>1, <1>2, <2>1, <2>2, <2>5 DEF ThreadFigures
<1>8. ASSUME NEW c \in Copies, ThreadEnds(c) PROVE ThreadFigures'
  <2>1. thread[c] = "running" /\ thread' = [thread EXCEPT ![c] = "finished"]
    BY <1>8 DEF ThreadEnds
  <2>2. thread'[c] = "finished" /\ \A d \in Copies \ {c} : thread'[d] = thread[d]
    BY <1>0, <2>1
  <2>3. Workers' = W
    BY <2>1, <2>2 DEF Workers, W
  <2> QED BY <1>3, <1>8, <2>3 DEF ThreadEnds
<1>9. ASSUME NEW c \in Copies,
             Run(c) \/ Refuse(c) \/ Acquire(c) \/ Granted(c) \/ PutBack(c) \/ CancelledAgain(c)
      PROVE  ThreadFigures'
  BY <1>4, <1>9 DEF Run, Refuse, Acquire, Granted, PutBack, CancelledAgain
<1>10. ASSUME NEW c \in Copies, Expired(c) \/ Withdraw(c) \/ Refund(c) PROVE ThreadFigures'
  BY <1>5, <1>10 DEF Expired, Withdraw, Refund
<1>11. ASSUME NEW c \in Copies, NEW expired,
              GiveUpSlot(c, expired) \/ GiveUpCopy(c, expired) \/ Finish(c, expired)
       PROVE  ThreadFigures'
  BY <1>4, <1>5, <1>11 DEF GiveUpSlot, GiveUpCopy, Finish
<1>12. ASSUME NEW k \in Closers, Closing(k) PROVE ThreadFigures'
  <2>1. CASE Aclose(k) \/ AcloseReturns(k)
    BY <1>4, <2>1 DEF Aclose, AcloseReturns
  <2>2. CASE AcloseTimeout(k)
    <3>1. \A n \in {"started", "completed", "failures"} : count'[n] = count[n]
      BY <1>0, <2>2 DEF AcloseTimeout, Counters
    <3> QED BY <1>3, <2>2, <3>1 DEF AcloseTimeout, Workers, W
  <2> QED BY <1>12, <2>1, <2>2 DEF Closing
<1>13. CASE Poll \/ (\E c \in Copies : AdriftEnds(c)) \/ UNCHANGED vars
  BY <1>4, <1>13 DEF Poll, AdriftEnds, vars
<1>14. ASSUME NEW k \in Closers, AcloseCancelled(k) PROVE ThreadFigures'
  <2>1. \A c \in Copies : thread'[c] # "no" <=> thread[c] # "no"
    BY <1>0, <1>14 DEF AcloseCancelled, Abandoned
  <2>2. Workers' = W
    BY <2>1 DEF Workers, W
  <2> QED BY <1>3, <1>14, <2>2 DEF AcloseCancelled
<1> QED BY <1>6, <1>7, <1>8, <1>9, <1>10, <1>11, <1>12, <1>13, <1>14 DEF Next, Progress, Interrupted

\* The copies in line are counted, also the one that is granted a slot by another's step.
LEMMA NextKeepsLineFigures ==
    ASSUME Core, LineFigures, [Next]_vars
    PROVE  LineFigures'
<1> DEFINE L == InLine
<1>0. waiting = Cardinality(L) /\ L \in SUBSET Copies /\ copy \in [Copies -> States]
  BY DEF LineFigures, InLine, Core, Typed, States
<1>1. /\ Cardinality(L) \in Nat
      /\ \A c : c \notin L => Cardinality(L \cup {c}) = Cardinality(L) + 1
      /\ \A c : c \in L => Cardinality(L \ {c}) = Cardinality(L) - 1
  BY <1>0, CopiesCounted
<1> HIDE DEF L
<1>2. ASSUME NEW c \in Copies, Apart(c), copy[c] \notin Acquiring, copy'[c] \in Acquiring,
             waiting' = waiting + 1
      PROVE  LineFigures'
  <2>1. InLine' = L \cup {c} /\ c \notin L
    BY <1>2 DEF Apart, InLine, L, Acquiring
  <2> QED BY <1>0, <1>1, <1>2, <2>1 DEF LineFigures
<1>3. ASSUME NEW c \in Copies, Apart(c), copy[c] \in Acquiring, copy'[c] \notin Acquiring,
             waiting' = waiting - 1
      PROVE  LineFigures'
  <2>1. InLine' = L \ {c} /\ c \in L
    BY <1>3 DEF Apart, InLine, L, Acquiring
  <2> QED BY <1>0, <1>1, <1>3, <2>1 DEF LineFigures
<1>4. ASSUME NEW c \in Copies, Apart(c), copy[c] \in Acquiring <=> copy'[c] \in Acquiring,
             waiting' = waiting
      PROVE  LineFigures'
  <2>1. InLine' = L
    BY <1>4 DEF Apart, InLine, L, Acquiring
  <2> QED BY <1>0, <1>4, <2>1 DEF LineFigures
<1>5. ASSUME NEW c \in Copies, Run(c) PROVE LineFigures'
  BY <1>2, <1>5, CopyGoes DEF Run, CapacityWaitStarted, Goes, Acquiring
<1>6. ASSUME NEW c \in Copies, Start(c) \/ PutBack(c) \/ Withdraw(c) \/ Refund(c) PROVE LineFigures'
  <2>1. Apart(c) /\ copy[c] \in Acquiring /\ copy'[c] \notin Acquiring
    BY <1>6, CopyGoes DEF Goes, Acquiring
  <2>2. waiting' = waiting - 1
    BY <1>6 DEF Start, PutBack, Withdraw, Refund, CapacityWaitFinished
  <2> QED BY <1>3, <2>1, <2>2
<1>7. ASSUME NEW c \in Copies, NEW expired,
             \/ Expired(c) \/ Refuse(c) \/ Acquire(c) \/ Granted(c) \/ ThreadEnds(c) \/ ReleaseSlot(c)
             \/ CancelledAgain(c) \/ GiveUpSlot(c, expired) \/ GiveUpCopy(c, expired) \/ Finish(c, expired)
      PROVE  LineFigures'
  <2>1. Apart(c) /\ (copy[c] \in Acquiring <=> copy'[c] \in Acquiring)
    BY <1>7, CopyGoes DEF Goes, Acquiring
  <2>2. waiting' = waiting
    BY <1>7 DEF Expired, Refuse, Acquire, Granted, ThreadEnds, ReleaseSlot, GiveUpSlot, GiveUpCopy,
                Finish, CancelledAgain
  <2> QED BY <1>4, <2>1, <2>2
<1>8. ASSUME copy' = copy, waiting' = waiting PROVE LineFigures'
  BY <1>0, <1>8 DEF LineFigures, InLine, L
<1>9. ASSUME NEW k \in Closers, Closing(k) PROVE LineFigures'
  <2>1. CASE Aclose(k)
    <3>1. waiting' = waiting /\ (copy' = copy \/ CancelAcquire(Copies))
      BY <2>1 DEF Aclose
    <3>2. \A c \in Copies : copy'[c] \in Acquiring <=> copy[c] \in Acquiring
      BY <3>1 DEF CancelAcquire, Acquiring
    <3>3. InLine' = L
      BY <3>2 DEF InLine, L
    <3> QED BY <1>0, <3>1, <3>3 DEF LineFigures
  <2>2. CASE AcloseReturns(k) \/ AcloseTimeout(k)
    BY <1>8, <2>2 DEF AcloseReturns, AcloseTimeout
  <2> QED BY <1>9, <2>1, <2>2 DEF Closing
<1>10. CASE \/ Poll \/ (\E c \in Copies : AdriftEnds(c)) \/ (\E k \in Closers : AcloseCancelled(k))
            \/ UNCHANGED vars
  BY <1>8, <1>10 DEF Poll, AdriftEnds, AcloseCancelled, vars, slots
<1> QED BY <1>5, <1>6, <1>7, <1>9, <1>10 DEF Next, Progress, Interrupted

\* The deadlines are counted once each, when the copy is done.
LEMMA NextKeepsLateFigures ==
    ASSUME Core, LateFigures, [Next]_vars
    PROVE  LateFigures'
<1> DEFINE D == LateDone  tm == count["timeouts"]  sl == count["slot_timeouts"]
<1>0. /\ count \in [Counters -> Nat] /\ late \in SUBSET Copies /\ D \in SUBSET Copies
      /\ \A d \in late : copy[d] \in {"withdrawn", "refunding", "done"}
  BY DEF Core, Typed, LateDone, LateFigures
<1>1. /\ tm \in Nat /\ sl \in Nat /\ Cardinality(D) \in Nat
      /\ \A c : c \notin D => Cardinality(D \cup {c}) = Cardinality(D) + 1
  BY <1>0, CopiesCounted DEF Counters
<1>2. tm = Cardinality(D) /\ sl <= tm
  BY DEF LateFigures
<1> HIDE DEF D, tm, sl
<1>3. ASSUME LateDone' = D, count'["timeouts"] = tm, count'["slot_timeouts"] = sl,
             \A d \in late' : copy'[d] \in {"withdrawn", "refunding", "done"}
      PROVE  LateFigures'
  BY <1>2, <1>3 DEF LateFigures
<1>4. ASSUME NEW c, c \notin D, LateDone' = D \cup {c}, count'["timeouts"] = tm + 1,
             count'["slot_timeouts"] \in {sl, sl + 1},
             \A d \in late' : copy'[d] \in {"withdrawn", "refunding", "done"}
      PROVE  LateFigures'
  <2>1. Cardinality(LateDone') = Cardinality(D) + 1
    BY <1>1, <1>4
  <2>2. count'["slot_timeouts"] <= count'["timeouts"] /\ count'["timeouts"] = Cardinality(LateDone')
    BY <1>1, <1>2, <1>4, <2>1
  <2> QED BY <1>4, <2>2 DEF LateFigures
\* The late copies after a step of c.
<1>5. ASSUME NEW c \in Copies, Apart(c), late' \in {late, late \cup {c}},
             c \in late' => copy'[c] \in {"withdrawn", "refunding", "done"}
      PROVE  /\ \A d \in late' : copy'[d] \in {"withdrawn", "refunding", "done"}
             /\ \A d : d # c => (d \in LateDone' <=> d \in D)
  <2>1. \A d \in late : d # c => copy'[d] = copy[d]
    BY <1>0, <1>5 DEF Apart
  <2>2. \A d : d # c => (d \in late' <=> d \in late)
    BY <1>5
  <2> QED BY <1>0, <1>5, <2>1, <2>2 DEF LateDone, D
<1>6. ASSUME NEW c \in Copies, Apart(c), late' \in {late, late \cup {c}},
             c \in late' => copy'[c] \in {"withdrawn", "refunding", "done"},
             c \in LateDone' <=> c \in D,
             count'["timeouts"] = tm, count'["slot_timeouts"] = sl
      PROVE  LateFigures'
  <2>1. LateDone' = D
    BY <1>5, <1>6
  <2> QED BY <1>3, <1>5, <1>6, <2>1
<1>7. ASSUME NEW c \in Copies, Apart(c), late' \in {late, late \cup {c}},
             copy'[c] = "done", c \in late', copy[c] # "done",
             count'["timeouts"] = tm + 1, count'["slot_timeouts"] \in {sl, sl + 1}
      PROVE  LateFigures'
  <2>1. c \notin D /\ c \in LateDone'
    BY <1>7 DEF D, LateDone
  <2>2. /\ \A d \in late' : copy'[d] \in {"withdrawn", "refunding", "done"}
        /\ \A d : d # c => (d \in LateDone' <=> d \in D)
    BY <1>5, <1>7
  <2>3. LateDone' = D \cup {c}
    BY <2>1, <2>2
  <2> QED BY <1>4, <1>7, <2>1, <2>2, <2>3
<1>8. ASSUME NEW c \in Copies,
             Run(c) \/ Refuse(c) \/ Acquire(c) \/ Granted(c) \/ Start(c) \/ PutBack(c)
      PROVE  LateFigures'
  <2>1. Apart(c) /\ copy[c] \in {"idle", "created", "granted", "acquired"}
    BY <1>8, CopyGoes DEF Goes
  <2>2. late' = late /\ (count' = count \/ CopyStarted)
    BY <1>8 DEF Run, Refuse, Acquire, Granted, Start, PutBack
  <2>3. count'["timeouts"] = tm /\ count'["slot_timeouts"] = sl
    BY <1>0, <2>2 DEF CopyStarted, Counters, tm, sl
  <2>4. c \notin late
    BY <1>0, <2>1
  <2>5. c \notin D /\ c \notin LateDone'
    BY <2>2, <2>4 DEF D, LateDone
  <2> QED BY <1>6, <2>1, <2>2, <2>3, <2>4, <2>5
<1>9. ASSUME NEW c \in Copies, ThreadEnds(c) \/ ReleaseSlot(c) PROVE LateFigures'
  <2>1. Apart(c) /\ copy'[c] = copy[c]
    BY <1>9, CopyGoes
  <2>2. late' = late
    BY <1>9 DEF ThreadEnds, ReleaseSlot
  <2>3. count'["timeouts"] = tm /\ count'["slot_timeouts"] = sl
    BY <1>0, <1>9 DEF ThreadEnds, ReleaseSlot, CopyFinished, Outcomes, Counters, tm, sl
  <2>4. c \in LateDone' <=> c \in D
    BY <2>1, <2>2 DEF D, LateDone
  <2> QED BY <1>0, <1>6, <2>1, <2>2, <2>3, <2>4
<1>10. ASSUME NEW c \in Copies, NEW expired \in BOOLEAN, GiveUpSlot(c, expired)
       PROVE  LateFigures'
  <2>1. /\ Apart(c) /\ copy[c] \in {"created", "queued", "granted"}
        /\ copy'[c] \in {"withdrawn", "refunding"}
    BY <1>10, CopyGoes
  <2>2. late' \in {late, late \cup {c}} /\ count' = count
    BY <1>10 DEF GiveUpSlot, Late
  <2>3. c \notin D /\ c \notin LateDone'
    BY <2>1 DEF D, LateDone
  <2> QED BY <1>6, <2>1, <2>2, <2>3 DEF tm, sl
<1>11. ASSUME NEW c \in Copies, NEW expired \in BOOLEAN, Apart(c), Late(c, expired),
              RecordTimeout(expired), copy'[c] = "done", copy[c] \in {"idle", "copying"}
       PROVE  LateFigures'
  <2>1. c \notin late
    BY <1>0, <1>11
  <2>2. CASE expired
    <3>1. late' = late \cup {c} /\ c \in late'
      BY <1>11, <2>2 DEF Late
    <3>2. count'["timeouts"] = tm + 1 /\ count'["slot_timeouts"] = sl
      BY <1>0, <1>11, <2>2 DEF RecordTimeout, Counters, tm, sl
    <3>3. copy[c] # "done"
      BY <1>11
    <3> QED BY <1>7, <1>11, <3>1, <3>2, <3>3
  <2>3. CASE ~expired
    <3>1. late' = late
      BY <1>11, <2>3 DEF Late
    <3>2. count'["timeouts"] = tm /\ count'["slot_timeouts"] = sl
      BY <1>0, <1>1, <1>11, <2>3 DEF RecordTimeout, Counters, tm, sl
    <3>3. c \notin D /\ c \notin LateDone'
      BY <2>1, <3>1 DEF D, LateDone
    <3> QED BY <1>6, <1>11, <2>1, <3>1, <3>2, <3>3
  <2> QED BY <2>2, <2>3
<1>12. ASSUME NEW c \in Copies, Expired(c) PROVE LateFigures'
  <2>1. Apart(c) /\ copy'[c] = "done" /\ copy[c] = "idle"
    BY <1>12, CopyGoes DEF Goes
  <2> QED BY <1>11, <1>12, <2>1 DEF Expired
<1>13. ASSUME NEW c \in Copies, NEW expired \in BOOLEAN, GiveUpCopy(c, expired) \/ Finish(c, expired)
       PROVE  LateFigures'
  <2>1. Apart(c) /\ copy'[c] = "done" /\ copy[c] = "copying"
    BY <1>13, CopyGoes DEF Goes
  <2> QED BY <1>11, <1>13, <2>1 DEF GiveUpCopy, Finish
<1>14. ASSUME NEW c \in Copies, Withdraw(c) \/ Refund(c) PROVE LateFigures'
  <2>1. Apart(c) /\ copy'[c] = "done" /\ copy[c] # "done"
    BY <1>14, CopyGoes DEF Goes
  <2>2. late' = late /\ RecordSlotTimeout(c \in late)
    BY <1>14 DEF Withdraw, Refund
  <2>3. CASE c \in late
    <3>1. count'["timeouts"] = tm + 1 /\ count'["slot_timeouts"] = sl + 1
      BY <1>0, <2>2, <2>3 DEF RecordSlotTimeout, Counters, tm, sl
    <3> QED BY <1>7, <2>1, <2>2, <2>3, <3>1
  <2>4. CASE c \notin late
    <3>1. count'["timeouts"] = tm /\ count'["slot_timeouts"] = sl
      BY <1>0, <1>1, <2>2, <2>4 DEF RecordSlotTimeout, Counters, tm, sl
    <3>2. c \notin D /\ c \notin LateDone'
      BY <2>2, <2>4 DEF D, LateDone
    <3> QED BY <1>6, <2>1, <2>2, <2>4, <3>1, <3>2
  <2> QED BY <2>3, <2>4
<1>15. ASSUME late' = late, \A d \in late : copy'[d] = copy[d],
              count'["timeouts"] = tm, count'["slot_timeouts"] = sl
       PROVE  LateFigures'
  <2>1. LateDone' = D
    BY <1>15 DEF LateDone, D
  <2> QED BY <1>0, <1>3, <1>15, <2>1
<1>16. ASSUME NEW k \in Closers, Closing(k) PROVE LateFigures'
  <2>1. CASE Aclose(k)
    <3>1. late' = late /\ count' = count /\ (copy' = copy \/ CancelAcquire(Copies))
      BY <2>1 DEF Aclose
    <3>2. \A d \in late : copy'[d] = copy[d]
      BY <1>0, <3>1 DEF CancelAcquire
    <3> QED BY <1>15, <3>1, <3>2 DEF tm, sl
  <2>2. CASE AcloseReturns(k) \/ AcloseTimeout(k)
    <3>1. count'["timeouts"] = tm /\ count'["slot_timeouts"] = sl
      BY <1>0, <2>2 DEF AcloseReturns, AcloseTimeout, Counters, tm, sl
    <3>2. late' = late /\ copy' = copy
      BY <2>2 DEF AcloseReturns, AcloseTimeout
    <3> QED BY <1>15, <3>1, <3>2
  <2> QED BY <1>16, <2>1, <2>2 DEF Closing
<1>17. CASE \/ Poll \/ (\E c \in Copies : AdriftEnds(c)) \/ (\E k \in Closers : AcloseCancelled(k))
            \/ UNCHANGED vars
  BY <1>15, <1>17 DEF Poll, AdriftEnds, AcloseCancelled, vars, slots, tm, sl
<1>18. ASSUME NEW c \in Copies, CancelledAgain(c) PROVE LateFigures'
  <2>1. /\ copy[c] \in {"withdrawn", "refunding"} /\ late' = late \ {c} /\ copy' = copy
        /\ count' = count
    BY <1>18 DEF CancelledAgain
  <2>2. LateDone' = D
    BY <2>1 DEF LateDone, D
  <2> QED BY <1>0, <1>3, <2>1, <2>2 DEF tm, sl
<1> QED BY <1>8, <1>9, <1>10, <1>12, <1>13, <1>14, <1>16, <1>17, <1>18 DEF Next, Progress, Interrupted

-----------------------------------------------------------------------------
\* What a step that starts no thread and touches no aclose leaves of the shutdown.
LEMMA NextKeepsShutdown ==
    ASSUME Core, Shutdown, [Next]_vars
    PROVE  Shutdown'
<1> DEFINE W == Workers
<1>0. /\ thread \in [Copies -> {"no", "running", "finished", "cancelled"}] /\ W \in SUBSET Copies
      /\ closing \in BOOLEAN /\ closed \in BOOLEAN /\ incomplete \in BOOLEAN
      /\ closer \in [Closers -> {"no", "waiting", "returned", "raised", "cancelled"}]
      /\ awaited \in [Closers -> SUBSET Copies]
  BY DEF Core, Typed, Workers, Shutdown
<1>1. ASSUME Workers' = W, shutdown' = shutdown PROVE Shutdown'
  BY <1>1 DEF Shutdown, shutdown, W
<1>2. ASSUME thread' = thread, shutdown' = shutdown PROVE Shutdown'
  BY <1>1, <1>2 DEF Workers, W
<1>3. ASSUME NEW c \in Copies,
             \/ Run(c) \/ Expired(c) \/ Refuse(c) \/ Acquire(c) \/ Granted(c) \/ PutBack(c)
             \/ Withdraw(c) \/ Refund(c) \/ CancelledAgain(c)
      PROVE  Shutdown'
  BY <1>2, <1>3
  DEF Run, Expired, Refuse, Acquire, Granted, PutBack, Withdraw, Refund, CancelledAgain
<1>4. ASSUME NEW c \in Copies, NEW expired,
             GiveUpSlot(c, expired) \/ GiveUpCopy(c, expired) \/ Finish(c, expired)
      PROVE  Shutdown'
  BY <1>2, <1>4 DEF GiveUpSlot, GiveUpCopy, Finish
<1>5. ASSUME NEW c \in Copies, Start(c) PROVE Shutdown'
  <2>1. ~closing /\ shutdown' = shutdown
    BY <1>5 DEF Start
  <2> QED BY <2>1 DEF Shutdown, shutdown
<1>6. ASSUME NEW c \in Copies, ThreadEnds(c) PROVE Shutdown'
  <2>1. thread[c] = "running" /\ thread' = [thread EXCEPT ![c] = "finished"] /\ shutdown' = shutdown
    BY <1>6 DEF ThreadEnds
  <2>2. thread'[c] = "finished" /\ \A d \in Copies \ {c} : thread'[d] = thread[d]
    BY <1>0, <2>1
  <2>3. Workers' = W
    BY <2>1, <2>2 DEF Workers, W
  <2> QED BY <1>1, <2>1, <2>3
<1>7. ASSUME NEW c \in Copies, ReleaseSlot(c) PROVE Shutdown'
  <2>1. /\ thread[c] # "no" /\ thread' = [thread EXCEPT ![c] = "no"]
        /\ closing' = closing /\ closer' = closer /\ awaited' = awaited
        /\ closed' = (closed \/ (closing /\ W \ {c} = {}))
        /\ incomplete' = (incomplete /\ ~(closed' /\ ~closed))
    BY <1>7 DEF ReleaseSlot, MarkClosedIfDrained, Drained, ClearedBy
  <2>2. thread'[c] = "no" /\ \A d \in Copies \ {c} : thread'[d] = thread[d]
    BY <1>0, <2>1
  <2>3. c \in W /\ Workers' = W \ {c}
    BY <2>1, <2>2 DEF Workers, W
  <2>4. ~closed /\ (closed' <=> closing /\ Workers' = {}) /\ closed' \in BOOLEAN
    BY <1>0, <2>1, <2>3 DEF Shutdown, W
  <2>5. incomplete' \in BOOLEAN /\ (incomplete' <=> ~closed' /\ \E k \in Closers : closer'[k] = "raised")
    BY <1>0, <2>1, <2>4 DEF Shutdown
  <2>6. ASSUME NEW k \in Closers
        PROVE  /\ closer'[k] \in {"waiting", "raised"} => closing'
               /\ closer'[k] = "waiting" => Workers' \subseteq awaited'[k]
               /\ closer'[k] = "returned" => closed'
    BY <2>1, <2>3, <2>4 DEF Shutdown, W
  <2> QED BY <1>0, <2>1, <2>4, <2>5, <2>6 DEF Shutdown
<1>8. ASSUME NEW k \in Closers, Aclose(k) PROVE Shutdown'
  <2>1. /\ closer[k] = "no" /\ closing' = TRUE /\ thread' = thread
        /\ closer' = [closer EXCEPT ![k] = IF closed' THEN "returned" ELSE "waiting"]
        /\ awaited' = [awaited EXCEPT ![k] = IF closed' THEN {} ELSE W]
    BY <1>8 DEF Aclose
  <2>2. Workers' = W
    BY <2>1 DEF Workers, W
  <2>3. /\ closed' \in BOOLEAN /\ (closed' <=> Workers' = {}) /\ (closed => closed')
        /\ incomplete' \in BOOLEAN /\ (incomplete' <=> incomplete /\ ~closed')
    <3>1. CASE closing
      BY <1>0, <1>8, <2>2, <3>1 DEF Aclose, Shutdown, W
    <3>2. CASE ~closing
      BY <1>0, <1>8, <2>2, <3>2
      DEF Aclose, Shutdown, MarkClosedIfDrained, Drained, ClearedBy, W
    <3> QED BY <3>1, <3>2
  <2>4. /\ closer' \in [Closers -> {"no", "waiting", "returned", "raised", "cancelled"}]
        /\ awaited' \in [Closers -> SUBSET Copies]
        /\ closer'[k] = IF closed' THEN "returned" ELSE "waiting"
        /\ awaited'[k] = IF closed' THEN {} ELSE W
        /\ \A j \in Closers \ {k} : closer'[j] = closer[j] /\ awaited'[j] = awaited[j]
    BY <1>0, <2>1
  <2>5. ASSUME NEW j \in Closers
        PROVE  /\ closer'[j] \in {"waiting", "raised"} => closing'
               /\ closer'[j] = "waiting" => Workers' \subseteq awaited'[j]
               /\ closer'[j] = "returned" => closed'
    BY <2>1, <2>2, <2>3, <2>4 DEF Shutdown, W
  <2>6. incomplete' <=> ~closed' /\ \E j \in Closers : closer'[j] = "raised"
    <3>1. (\E j \in Closers : closer'[j] = "raised") <=> \E j \in Closers : closer[j] = "raised"
      BY <2>1, <2>4
    <3> QED BY <2>3, <3>1 DEF Shutdown
  <2> QED BY <1>0, <2>1, <2>3, <2>4, <2>5, <2>6 DEF Shutdown
<1>9. ASSUME NEW k \in Closers, AcloseReturns(k) PROVE Shutdown'
  <2>1. /\ closer[k] = "waiting" /\ awaited[k] \cap W = {} /\ thread' = thread
        /\ closing' = closing /\ awaited' = awaited
        /\ closer' = [closer EXCEPT ![k] = "returned"]
        /\ closed' = (closed \/ (closing /\ W = {}))
        /\ incomplete' = (incomplete /\ ~(closed' /\ ~closed))
    BY <1>9 DEF AcloseReturns, MarkClosedIfDrained, Drained, ClearedBy
  <2>2. Workers' = W
    BY <2>1 DEF Workers, W
  <2>3. closing /\ W = {}
    BY <2>1 DEF Shutdown, W
  <2>4. closed = TRUE /\ closed' = TRUE /\ incomplete' = incomplete
    BY <1>0, <2>1, <2>3 DEF Shutdown, W
  <2>5. /\ closer' \in [Closers -> {"no", "waiting", "returned", "raised", "cancelled"}]
        /\ \A j \in Closers \ {k} : closer'[j] = closer[j]
    BY <1>0, <2>1
  <2>6. ASSUME NEW j \in Closers
        PROVE  /\ closer'[j] \in {"waiting", "raised"} => closing'
               /\ closer'[j] = "waiting" => Workers' \subseteq awaited'[j]
               /\ closer'[j] = "returned" => closed'
    BY <2>1, <2>2, <2>3, <2>4
  <2> QED BY <1>0, <2>1, <2>2, <2>3, <2>4, <2>5, <2>6 DEF Shutdown
<1>10. ASSUME NEW k \in Closers, AcloseTimeout(k) PROVE Shutdown'
  <2>1. /\ closer[k] = "waiting" /\ incomplete' = TRUE /\ thread' = thread
        /\ \E c \in awaited[k] : thread[c] # "no"
        /\ closer' = [closer EXCEPT ![k] = "raised"]
        /\ closing' = closing /\ closed' = closed /\ awaited' = awaited
    BY <1>10 DEF AcloseTimeout
  <2>2. Workers' = W
    BY <2>1 DEF Workers, W
  <2>3. closing /\ W # {}
    <3>1. awaited[k] \subseteq Copies
      BY <1>0
    <3> QED BY <2>1, <3>1 DEF Shutdown, W, Workers
  <2>4. closed = FALSE
    BY <1>0, <2>3 DEF Shutdown, W
  <2>5. /\ closer' \in [Closers -> {"no", "waiting", "returned", "raised", "cancelled"}]
        /\ closer'[k] = "raised" /\ \A j \in Closers \ {k} : closer'[j] = closer[j]
    BY <1>0, <2>1
  <2>6. ASSUME NEW j \in Closers
        PROVE  /\ closer'[j] \in {"waiting", "raised"} => closing'
               /\ closer'[j] = "waiting" => Workers' \subseteq awaited'[j]
               /\ closer'[j] = "returned" => closed'
    BY <2>1, <2>2, <2>3, <2>5 DEF Shutdown, W
  <2> QED BY <1>0, <2>1, <2>2, <2>3, <2>4, <2>5, <2>6 DEF Shutdown, W
<1>11. CASE Poll \/ (\E c \in Copies : AdriftEnds(c)) \/ UNCHANGED vars
  BY <1>2, <1>11 DEF Poll, AdriftEnds, vars, shutdown
<1>12. ASSUME NEW k \in Closers, AcloseCancelled(k) PROVE Shutdown'
  <2>1. /\ closer[k] = "waiting" /\ closer' = [closer EXCEPT ![k] = "cancelled"]
        /\ closing' = closing /\ closed' = closed /\ awaited' = awaited /\ incomplete' = incomplete
        /\ \A c \in Copies : thread'[c] # "no" <=> thread[c] # "no"
    BY <1>0, <1>12 DEF AcloseCancelled, Abandoned
  <2>2. Workers' = W
    BY <2>1 DEF Workers, W
  <2>3. /\ closer' \in [Closers -> {"no", "waiting", "returned", "raised", "cancelled"}]
        /\ closer'[k] = "cancelled" /\ \A j \in Closers \ {k} : closer'[j] = closer[j]
    BY <1>0, <2>1
  <2> QED BY <2>1, <2>2, <2>3 DEF Shutdown, W
<1> QED BY <1>3, <1>4, <1>5, <1>6, <1>7, <1>8, <1>9, <1>10, <1>11, <1>12
    DEF Next, Progress, Interrupted, Closing

-----------------------------------------------------------------------------
\* Whoever queues beside a free slot has a notified acquire task in front of it.
LEMMA NextKeepsServed ==
    ASSUME Core, Served, [Next]_vars
    PROVE  Served'
<1>0. copy \in [Copies -> States] /\ Lists(queue, Queued) /\ value \in Nat
  BY DEF Core, Typed, States
<1>1. ASSUME NEW c \in Copies, Apart(c), value' = value, queue' # <<>> => queue # <<>>,
             c \in Notified => copy'[c] \in {"granted", "refunding"}
      PROVE  Served'
  BY <1>1 DEF Served, Apart, Notified
<1>2. ASSUME queue # <<>>, NEW cs \in [Copies -> States],
             copy' = [cs EXCEPT ![Head(queue)] = "granted"]
      PROVE  Served'
  <2> DEFINE h == Head(queue)
  <2>1. h \in Copies
    BY <1>0, <1>2, ListsTail DEF Queued
  <2> HIDE DEF h
  <2>2. copy'[h] = "granted"
    BY <1>2, <2>1 DEF h
  <2> QED BY <2>1, <2>2 DEF Served, Notified
<1>3. ASSUME NEW cs \in [Copies -> States], GiveBack(cs) PROVE Served'
  BY <1>2, <1>3 DEF GiveBack, Served
<1>4. ASSUME NEW c \in Copies, PutBack(c) \/ Refund(c) \/ ReleaseSlot(c) PROVE Served'
  <2>1. [copy EXCEPT ![c] = "done"] \in [Copies -> States]
    BY <1>0 DEF States
  <2> QED BY <1>0, <1>3, <1>4, <2>1 DEF PutBack, Refund, ReleaseSlot
<1>5. ASSUME NEW c \in Copies,
             \/ Run(c) \/ Expired(c) \/ Refuse(c) \/ Start(c) \/ Withdraw(c) \/ ThreadEnds(c)
             \/ CancelledAgain(c)
      PROVE  Served'
  <2>1. /\ Apart(c)
        /\ copy'[c] = copy[c] \/ copy[c] \in {"idle", "acquired", "withdrawn"}
    BY <1>5, CopyGoes DEF Goes
  <2>2. value' = value /\ queue' = queue
    BY <1>5 DEF Run, Expired, Refuse, Start, Withdraw, ThreadEnds, CancelledAgain
  <2> QED BY <1>1, <2>1, <2>2 DEF Notified
<1>6. ASSUME NEW c \in Copies, NEW expired, GiveUpCopy(c, expired) \/ Finish(c, expired)
      PROVE  Served'
  <2>1. Apart(c) /\ copy[c] = "copying"
    BY <1>6, CopyGoes DEF Goes
  <2>2. value' = value /\ queue' = queue
    BY <1>6 DEF GiveUpCopy, Finish
  <2> QED BY <1>1, <2>1, <2>2 DEF Notified
<1>7. ASSUME NEW c \in Copies, NEW expired, GiveUpSlot(c, expired) PROVE Served'
  <2>1. Apart(c)
    BY <1>7, CopyGoes
  <2>2. value' = value /\ (copy[c] = "granted" => copy'[c] = "refunding")
    BY <1>7 DEF GiveUpSlot, CancelAcquire
  <2>3. copy[c] # "refunding"
    BY <1>7 DEF GiveUpSlot
  <2>4. queue' # <<>> => queue # <<>>
    BY <1>7 DEF GiveUpSlot, LeaveQueue
  <2> QED BY <1>1, <2>1, <2>2, <2>3, <2>4 DEF Notified
<1>8. ASSUME NEW c \in Copies, Granted(c) PROVE Served'
  <2>1. CASE value > 0 /\ queue # <<>>
    <3> DEFINE cs == [copy EXCEPT ![c] = "acquired"]
    <3>1. cs \in [Copies -> States] /\ copy' = [cs EXCEPT ![Head(queue)] = "granted"]
      BY <1>0, <1>8, <2>1 DEF Granted, States, Acquiring
    <3> HIDE DEF cs
    <3> QED BY <1>2, <2>1, <3>1
  <2>2. CASE ~(value > 0 /\ queue # <<>>)
    BY <1>0, <1>8, <2>2 DEF Granted, Served
  <2> QED BY <2>1, <2>2
<1>9. ASSUME NEW c \in Copies, Acquire(c) PROVE Served'
  <2>1. Apart(c) /\ copy[c] = "created"
    BY <1>9, CopyGoes DEF Goes
  <2>2. \A d \in Notified : d \in Notified'
    BY <2>1 DEF Apart, Notified
  <2>3. CASE value = 0 \/ queue # <<>> \/ Notified # {}
    BY <1>9, <2>2, <2>3 DEF Acquire, Served
  <2>4. CASE ~(value = 0 \/ queue # <<>> \/ Notified # {})
    BY <1>9, <2>4 DEF Acquire, Served
  <2> QED BY <2>3, <2>4
<1>10. ASSUME copy' = copy, queue' = queue, value' = value PROVE Served'
  BY <1>10 DEF Served, Notified
<1>11. ASSUME NEW k \in Closers, Closing(k) PROVE Served'
  <2>1. CASE Aclose(k)
    <3>1. CASE closing
      BY <1>10, <2>1, <3>1 DEF Aclose
    <3>2. CASE ~closing
      BY <2>1, <3>2 DEF Aclose, Served
    <3> QED BY <3>1, <3>2
  <2>2. CASE AcloseReturns(k) \/ AcloseTimeout(k)
    BY <1>10, <2>2 DEF AcloseReturns, AcloseTimeout
  <2> QED BY <1>11, <2>1, <2>2 DEF Closing
<1>12. CASE \/ Poll \/ (\E c \in Copies : AdriftEnds(c)) \/ (\E k \in Closers : AcloseCancelled(k))
            \/ UNCHANGED vars
  BY <1>10, <1>12 DEF Poll, AdriftEnds, AcloseCancelled, vars, slots
<1> QED BY <1>4, <1>5, <1>6, <1>7, <1>8, <1>9, <1>11, <1>12 DEF Next, Progress, Interrupted

\* The operations stay within max_concurrency: a start needs a slot, and once a cancelled
\* aclose has set operations adrift nothing starts.
LEMMA NextKeepsBounded ==
    ASSUME Core, Core', Shutdown, Bounded, [Next]_vars
    PROVE  Bounded'
<1>0. /\ thread \in [Copies -> {"no", "running", "finished", "cancelled"}]
      /\ adrift \in [Copies -> {"no", "running", "ended"}]
      /\ Operations \in SUBSET Copies /\ MaxConcurrency \in Nat
      /\ Cardinality(Operations) <= MaxConcurrency
  BY CopiesAssumption DEF Core, Typed, Bounded, Operations
<1>1. ASSUME \A c \in Copies : thread'[c] = "running" => thread[c] = "running",
             adrift' \in [Copies -> {"no", "running", "ended"}],
             \A c \in Copies : adrift'[c] = "running" => "running" \in {thread[c], adrift[c]}
      PROVE  Cardinality(Operations') <= MaxConcurrency
  <2>1. Operations' \subseteq Operations
    BY <1>1 DEF Operations
  <2>2. Cardinality(Operations') <= Cardinality(Operations)
    BY <1>0, <2>1, CopiesCounted, FS_Subset
  <2>3. Cardinality(Operations) \in Nat /\ Cardinality(Operations') \in Nat
    BY <1>0, <2>1, CopiesCounted
  <2> QED BY <1>0, <2>2, <2>3
<1>2. ASSUME \A c \in Copies : thread'[c] = "running" => thread[c] = "running",
             adrift' = adrift, closing => closing',
             \A k \in Closers : closer[k] = "cancelled" => closer'[k] = "cancelled"
      PROVE  Bounded'
  <2>1. Cardinality(Operations') <= MaxConcurrency
    BY <1>0, <1>1, <1>2
  <2> QED BY <1>2, <2>1 DEF Bounded
<1>3. ASSUME NEW c \in Copies,
             \/ Run(c) \/ Expired(c) \/ Refuse(c) \/ Acquire(c) \/ Granted(c) \/ PutBack(c)
             \/ Withdraw(c) \/ Refund(c) \/ CancelledAgain(c)
             \/ \E expired \in BOOLEAN :
                    GiveUpSlot(c, expired) \/ GiveUpCopy(c, expired) \/ Finish(c, expired),
             adrift' = adrift
      PROVE  Bounded'
  <2>1. thread' = thread /\ shutdown' = shutdown
    BY <1>3 DEF Run, Expired, Refuse, Acquire, Granted, PutBack, Withdraw, Refund, CancelledAgain,
                GiveUpSlot, GiveUpCopy, Finish
  <2> QED BY <1>2, <1>3, <2>1 DEF shutdown
<1>4. ASSUME NEW c \in Copies, ThreadEnds(c) \/ ReleaseSlot(c), adrift' = adrift PROVE Bounded'
  <2>1. /\ \A d \in Copies : thread'[d] = "running" => thread[d] = "running"
        /\ closing' = closing /\ closer' = closer
    BY <1>0, <1>4 DEF ThreadEnds, ReleaseSlot, shutdown
  <2> QED BY <1>2, <1>4, <2>1
<1>5. ASSUME NEW c \in Copies, Start(c), adrift' = adrift PROVE Bounded'
  <2>1. ~closing /\ \A d \in Copies : adrift'[d] # "running"
    BY <1>5 DEF Start, Bounded
  <2>2. Operations' \subseteq Workers' /\ Workers' \subseteq Holding' /\ Holding' \in SUBSET Copies
    BY <2>1 DEF Operations, Workers, Holding, Slotted
  <2>3. value' \in Nat /\ value' + Cardinality(Holding') = MaxConcurrency
    BY DEF Core, Typed, Fits
  <2>4. Cardinality(Operations') <= Cardinality(Holding')
    <3>1. Operations' \subseteq Holding' /\ IsFiniteSet(Holding')
      BY <2>2, CopiesCounted
    <3> QED BY <3>1, FS_Subset
  <2>5. Cardinality(Operations') \in Nat /\ Cardinality(Holding') \in Nat
    BY <2>2, CopiesCounted
  <2>6. Cardinality(Operations') <= MaxConcurrency
    BY <1>0, <2>3, <2>4, <2>5
  <2> QED BY <1>0, <1>5, <2>1, <2>6 DEF Bounded
<1>6. ASSUME NEW c \in Copies, AdriftEnds(c) PROVE Bounded'
  <2>1. /\ thread' = thread /\ shutdown' = shutdown /\ adrift' = [adrift EXCEPT ![c] = "ended"]
    BY <1>6 DEF AdriftEnds
  <2>2. /\ adrift' \in [Copies -> {"no", "running", "ended"}]
        /\ \A d \in Copies : adrift'[d] = "running" => adrift[d] = "running"
    BY <1>0, <2>1
  <2>3. Cardinality(Operations') <= MaxConcurrency
    BY <1>1, <2>1, <2>2
  <2> QED BY <2>1, <2>2, <2>3 DEF Bounded, shutdown
<1>7. ASSUME NEW k \in Closers, Closing(k) PROVE Bounded'
  <2>0. adrift' = adrift /\ (Aclose(k) \/ AcloseReturns(k) \/ AcloseTimeout(k))
    BY <1>7 DEF Closing
  <2>1. thread' = thread /\ (closing' = TRUE \/ closing' = closing)
    BY <2>0 DEF Aclose, AcloseReturns, AcloseTimeout
  <2>2. \A j \in Closers : closer[j] = "cancelled" => closer'[j] = "cancelled"
    <3>1. closer[k] # "cancelled" /\ \E to : closer' = [closer EXCEPT ![k] = to]
      BY <2>0 DEF Aclose, AcloseReturns, AcloseTimeout
    <3> QED BY <3>1 DEF Shutdown
  <2> QED BY <1>2, <2>0, <2>1, <2>2
<1>8. ASSUME NEW k \in Closers, AcloseCancelled(k) PROVE Bounded'
  <2> DEFINE A == Abandoned(k)
  <2>1. /\ closer[k] = "waiting" /\ closer' = [closer EXCEPT ![k] = "cancelled"] /\ closing' = closing
        /\ thread' = [c \in Copies |-> IF c \in A THEN "cancelled" ELSE thread[c]]
        /\ adrift' = [c \in Copies |-> IF c \in A THEN "running" ELSE adrift[c]]
    BY <1>8 DEF AcloseCancelled
  <2>2. \A c \in A : thread[c] = "running" /\ k \notin Timed
    BY DEF Abandoned
  <2>3. closing /\ closer'[k] = "cancelled"
        /\ \A j \in Closers : closer[j] = "cancelled" => closer'[j] = "cancelled"
    BY <1>8, <2>1 DEF Shutdown
  <2> HIDE DEF A
  <2>4. Cardinality(Operations') <= MaxConcurrency
    BY <1>0, <1>1, <2>1, <2>2
  <2>5. adrift' \in [Copies -> {"no", "running", "ended"}]
    BY <1>0, <2>1
  <2>6. ASSUME NEW c \in Copies, adrift'[c] = "running"
        PROVE  closing' /\ \E j \in Closers \ Timed : closer'[j] = "cancelled"
    <3>1. CASE c \in A
      BY <1>8, <2>1, <2>2, <2>3, <3>1
    <3>2. CASE c \notin A
      BY <2>1, <2>3, <2>6, <3>2 DEF Bounded
    <3> QED BY <3>1, <3>2
  <2> QED BY <2>4, <2>5, <2>6 DEF Bounded
<1>9. CASE Poll \/ UNCHANGED vars
  BY <1>2, <1>9 DEF Poll, vars, shutdown
<1> QED BY <1>3, <1>4, <1>5, <1>6, <1>7, <1>8, <1>9 DEF Next, Progress, Interrupted

-----------------------------------------------------------------------------
\* The invariant holds before the first call of run.
LEMMA InitInvariant == Init => IInv
<1> SUFFICES ASSUME Init PROVE IInv
  OBVIOUS
<1>1. /\ copy = [c \in Copies |-> "idle"] /\ thread = [c \in Copies |-> "no"]
      /\ released = [c \in Copies |-> FALSE] /\ value = MaxConcurrency /\ queue = <<>>
      /\ active = 0 /\ waiting = 0 /\ late = {} /\ count = [n \in Counters |-> 0]
  BY DEF Init
<1>2. Workers = {} /\ Queued = {} /\ Slotted = {} /\ InLine = {} /\ LateDone = {}
  BY <1>1 DEF Workers, Queued, Slotted, InLine, LateDone, Acquiring
<1>3. Holding = {} /\ Cardinality({}) = 0
  BY <1>2, FS_EmptySet DEF Holding
<1>4. Typed /\ Threads
  BY <1>1, CopiesAssumption DEF Typed, Threads
<1>5. Lists(queue, Queued)
  BY <1>1, <1>2 DEF Lists
<1>6. Fits
  BY <1>1, <1>3, CopiesAssumption DEF Fits
<1>7. Figures
  <2>1. /\ count["started"] = 0 /\ count["completed"] = 0 /\ count["failures"] = 0
        /\ count["timeouts"] = 0 /\ count["slot_timeouts"] = 0
    BY <1>1 DEF Counters
  <2> QED BY <1>1, <1>2, <1>3, <2>1 DEF Figures, ThreadFigures, LineFigures, LateFigures
<1>8. Shutdown
  BY <1>2 DEF Init, Shutdown
<1>9. Served
  BY <1>1 DEF Served
<1>10. Bounded
  <2>1. adrift = [c \in Copies |-> "no"]
    BY <1>1 DEF Init
  <2>2. Operations = {}
    BY <1>1, <2>1 DEF Operations
  <2> QED BY <1>3, <2>1, <2>2, CopiesAssumption DEF Bounded
<1> QED BY <1>4, <1>5, <1>6, <1>7, <1>8, <1>9, <1>10 DEF IInv, Core

\* The inductive invariant holds in every state: slots, figures and shutdown follow the copies
\* whatever is cancelled, times out or is closed, and in whatever order.
THEOREM Invariance == Spec => []IInv
<1>1. IInv /\ [Next]_vars => IInv'
  BY NextKeepsCore, NextKeepsThreadFigures, NextKeepsLineFigures, NextKeepsLateFigures,
     NextKeepsShutdown, NextKeepsServed, NextKeepsBounded
  DEF IInv, Figures
<1> QED BY <1>1, InitInvariant, PTL DEF Spec

\* What the invariant says of the slots: those that wait for a thread and those the threads
\* hold are different ones.
LEMMA SlotsFollow == IInv => SlotsExact
<1> SUFFICES ASSUME IInv PROVE SlotsExact
  OBVIOUS
<1>1. /\ Typed /\ Threads /\ Lists(queue, Queued) /\ Fits /\ Figures /\ Shutdown
  BY DEF IInv, Core
<1>2. /\ Workers \cap Slotted = {} /\ Workers \in SUBSET Copies /\ Slotted \in SUBSET Copies
      /\ Queued \in SUBSET Copies /\ InLine \in SUBSET Copies
  BY <1>1, QueuedHoldNothing DEF InLine
<1>3. /\ IsFiniteSet(Workers) /\ IsFiniteSet(Slotted) /\ Cardinality(Workers) \in Nat
      /\ Cardinality(Slotted) \in Nat /\ Cardinality(InLine) \in Nat
  BY <1>2, CopiesCounted
<1>4. Cardinality(Holding) = Cardinality(Workers) + Cardinality(Slotted)
  <2>1. Cardinality(Workers \cup Slotted)
          = Cardinality(Workers) + Cardinality(Slotted) - Cardinality(Workers \cap Slotted)
    BY <1>3, FS_Union
  <2>2. Cardinality(Workers \cap Slotted) = 0
    BY <1>2, FS_EmptySet
  <2> QED BY <1>3, <2>1, <2>2 DEF Holding
<1>5. SlotsAccounted
  <2>1. value + Cardinality(Holding) = MaxConcurrency /\ value \in Nat /\ MaxConcurrency \in Nat
    BY <1>1, CopiesAssumption DEF Fits, Typed
  <2>2. value + Cardinality(Slotted) + Cardinality(Workers) = MaxConcurrency
    BY <1>3, <1>4, <2>1
  <2> QED BY <2>2 DEF SlotsAccounted, Slotted
<1>6. HealthExact
  BY <1>1 DEF Figures, ThreadFigures, LineFigures, LateFigures, InLine, LateDone, HealthExact
<1>7. TypeOK
  <2>1. value \in 0..MaxConcurrency
    <3>1. value + Cardinality(Holding) = MaxConcurrency /\ value \in Nat /\ MaxConcurrency \in Nat
      BY <1>1, CopiesAssumption DEF Fits, Typed
    <3> QED BY <1>3, <1>4, <3>1
  <2>2. active \in Nat /\ waiting \in Nat
    BY <1>1, <1>3 DEF Figures, ThreadFigures, LineFigures
  <2>3. queue \in Seq(Copies)
    <3>1. queue \in Seq(Queued)
      BY <1>1 DEF Lists
    <3> QED BY <1>2, <3>1
  <2> QED BY <1>1, <2>1, <2>2, <2>3 DEF TypeOK, Typed, Shutdown, Bounded, IInv
<1> QED BY <1>5, <1>6, <1>7 DEF SlotsExact, OperationsBounded, Bounded, IInv

\* No slot is lost or given back twice, and the gauges never go negative: for any number of
\* copies, slots and acloses the semaphore and PayloadCopyHealth say what is going on.
THEOREM SlotsNeverLost == Spec => []SlotsExact
BY Invariance, SlotsFollow, PTL

\* A second aclose always finds a worker to wait for.  One that returns has left no operation
\* running, however late the threads end, or an aclose without a timeout was cancelled and
\* left its operations adrift.
THEOREM AcloseTellsTheTruth == Spec => []ShutdownSound
<1>1. IInv => ShutdownSound
  <2> SUFFICES ASSUME IInv PROVE ShutdownSound
    OBVIOUS
  <2>1. ClosingHasWorkers
    BY DEF IInv, Shutdown, ClosingHasWorkers
  <2>2. ASSUME Workers = {}, Operations # {}
        PROVE  \E k \in Closers \ Timed : closer[k] = "cancelled"
    BY <2>2 DEF Workers, Operations, IInv, Bounded
  <2>3. ReturnedMeansDrained
    BY <2>2 DEF IInv, Shutdown, ReturnedMeansDrained
  <2> QED BY <2>1, <2>3 DEF ShutdownSound
<1> QED BY <1>1, Invariance, PTL

\* The isolator implements the pool of slots: every step of a task, thread or callback takes a
\* slot, queues for one, serves the first in line, withdraws or gives back, or does nothing
\* to the pool.
THEOREM CopiesRefinePool == Spec => CopiesArePool
<1>1. Init => Pool!Init
  <2> SUFFICES ASSUME Init PROVE Pool!Init
    OBVIOUS
  <2>1. Workers = {} /\ Slotted = {} /\ queue = <<>>
    BY DEF Init, Workers, Slotted
  <2> QED BY <2>1 DEF Pool!Init, Slotted
<1>2. IInv /\ [Next]_vars => [Pool!Next]_(Pool!vars)
  BY NextKeepsCore, MoveIsStep DEF IInv
<1> QED BY <1>1, <1>2, Invariance, PTL DEF Spec, CopiesArePool, Pool!Spec

-----------------------------------------------------------------------------
\* What assess makes of the copies.

\* A monitor keeps at most one baseline, and the counters in it are numbers.
Monitored == {"failures", "timeouts", "shutdown_timeouts"}
Baseline ==
    polled = {} \/ \E before : polled = {before} /\ before.counters \in [Monitored -> Nat]

LEMMA SnapshotCounters == HealthSnapshot.counters = [n \in Monitored |-> count[n]]
BY DEF HealthSnapshot, Untroubled, Monitored

LEMMA BaselineStays == IInv /\ Baseline /\ [Next]_vars => Baseline'
<1> SUFFICES ASSUME IInv, Baseline, [Next]_vars PROVE Baseline'
  OBVIOUS
<1>1. CASE UNCHANGED polled
  BY <1>1 DEF Baseline
<1>2. CASE Poll
  <2>1. count \in [Counters -> Nat]
    BY DEF IInv, Core, Typed
  <2>2. [n \in Monitored |-> count[n]] \in [Monitored -> Nat]
    BY <2>1 DEF Monitored, Counters
  <2> DEFINE before == [counters |-> HealthSnapshot.counters]
  <2>3. before.counters \in [Monitored -> Nat]
    BY <2>2, SnapshotCounters
  <2>4. polled' = {before}
    BY <1>2 DEF Poll
  <2> HIDE DEF before
  <2> QED BY <2>3, <2>4 DEF Baseline
<1>3. Poll \/ UNCHANGED polled
  BY DEF Next, Progress, Interrupted, Closing, vars
<1> QED BY <1>1, <1>2, <1>3

\* What the rest of the snapshot holds.
LEMMA SnapshotHolds ==
    /\ HealthSnapshot.closed = FALSE /\ HealthSnapshot.unsafeSources = 0
    /\ HealthSnapshot.capacity = <<>> /\ HealthSnapshot.buffers = <<>>
    /\ HealthSnapshot.submissions = [pending |-> 0, limit |-> 0]
    /\ HealthSnapshot.circuits = <<>> /\ HealthSnapshot.bufferShutdownIncomplete = FALSE
    /\ HealthSnapshot.copyShutdownIncomplete = incomplete
    /\ HealthSnapshot.copies = [n \in {"builder"} |-> [waiting |-> waiting, limit |-> MaxConcurrency]]
BY DEF HealthSnapshot, Untroubled

\* Nobody waits where there is nothing to wait for, and those who wait for copies are counted.
LEMMA WaitersCounted ==
    ASSUME NEW w \in Nat, NEW m
    PROVE  /\ TotalWaiting(<<>>) = 0
           /\ TotalWaiting([n \in {"builder"} |-> [waiting |-> w, limit |-> m]]) = w
<1>1. TotalWaiting(<<>>) = 0
  <2>1. DOMAIN <<>> = {}
    OBVIOUS
  <2>2. UNION {{n} \X (1..(<<>>)[n].waiting) : n \in DOMAIN <<>>} = {}
    BY <2>1
  <2> QED BY <2>2, FS_EmptySet DEF TotalWaiting
<1>2. TotalWaiting([n \in {"builder"} |-> [waiting |-> w, limit |-> m]]) = w
  <2> DEFINE parts == [n \in {"builder"} |-> [waiting |-> w, limit |-> m]]
  <2>1. DOMAIN parts = {"builder"} /\ parts["builder"].waiting = w
    OBVIOUS
  <2> HIDE DEF parts
  <2>2. UNION {{n} \X (1..parts[n].waiting) : n \in DOMAIN parts} = {"builder"} \X (1..w)
    BY <2>1
  <2>3. /\ IsFiniteSet({"builder"}) /\ Cardinality({"builder"}) = 1
        /\ IsFiniteSet(1..w) /\ Cardinality(1..w) = w
    <3>1. Cardinality(1..w) = IF 1 > w THEN 0 ELSE w - 1 + 1
      BY FS_Interval
    <3>2. IsFiniteSet(1..w)
      BY FS_Interval
    <3>3. Cardinality(1..w) = w
      BY <3>1
    <3>4. IsFiniteSet({"builder"}) /\ Cardinality({"builder"}) = 1
      BY FS_Singleton, Zenon
    <3> QED BY <3>2, <3>3, <3>4
  <2>4. Cardinality({"builder"} \X (1..w)) = Cardinality({"builder"}) * Cardinality(1..w)
    BY <2>3, FS_Product, Zenon
  <2>5. Cardinality({"builder"} \X (1..w)) = w
    BY <2>3, <2>4
  <2>6. TotalWaiting(parts) = Cardinality({"builder"} \X (1..w))
    BY <2>2, Zenon DEF TotalWaiting
  <2> QED BY <2>5, <2>6 DEF parts
<1> QED BY <1>1, <1>2

\* So all that assess can find is copies that wait, a shutdown that is not complete and, with a
\* baseline, counters that have grown.
Waiters ==
    If(waiting >= 1, "payload_copy_capacity_waiting",
       Reaches(waiting, MaxConcurrency, Ratio(1, 1)))
Incomplete == If(incomplete, "payload_copy_shutdown_incomplete", TRUE)
Grown == UNION {CounterFindings(HealthSnapshot, before, DefaultPolicy) : before \in polled}

LEMMA CopyFindings ==
    waiting \in Nat =>
        Findings(HealthSnapshot, polled, DefaultPolicy) = Waiters \cup Incomplete \cup Grown
<1> SUFFICES ASSUME waiting \in Nat
             PROVE  Findings(HealthSnapshot, polled, DefaultPolicy) = Waiters \cup Incomplete \cup Grown
  OBVIOUS
<1> DEFINE h == HealthSnapshot  p == DefaultPolicy
<1>1. p.capacityWaiting = 1 /\ p.copyWaiting = 1 /\ p.copyCritical = Ratio(1, 1)
  BY DEF DefaultPolicy
<1>2. WaitFinding(h.capacity, p.capacityWaiting, p.capacityCritical, "source_capacity_waiting") = {}
  <2>1. TotalWaiting(h.capacity) = 0
    BY SnapshotHolds, WaitersCounted, Zenon
  <2> HIDE DEF h
  <2> QED BY <1>1, <2>1 DEF WaitFinding, If
<1>3. TotalWaiting(h.copies) = waiting
  <2>1. h.copies = [n \in {"builder"} |-> [waiting |-> waiting, limit |-> MaxConcurrency]]
    BY SnapshotHolds
  <2>2. \A w \in Nat : \A m :
          TotalWaiting([n \in {"builder"} |-> [waiting |-> w, limit |-> m]]) = w
    BY WaitersCounted, Zenon
  <2> DEFINE parts == [n \in {"builder"} |-> [waiting |-> waiting, limit |-> MaxConcurrency]]
  <2>3. TotalWaiting(parts) = waiting
    BY <2>2, Zenon
  <2> HIDE DEF h
  <2> QED BY <2>1, <2>3
<1>4. DOMAIN h.copies = {"builder"} /\ h.copies["builder"].waiting = waiting
      /\ h.copies["builder"].limit = MaxConcurrency
  BY SnapshotHolds
<1>5. AnyReaches(h.copies, Ratio(1, 1)) <=> Reaches(waiting, MaxConcurrency, Ratio(1, 1))
  BY <1>4 DEF AnyReaches
<1>6. WaitFinding(h.copies, p.copyWaiting, p.copyCritical, "payload_copy_capacity_waiting") = Waiters
  BY <1>1, <1>3, <1>5 DEF WaitFinding, If, Finding, Waiters
<1>7. If(Reaches(h.submissions.pending, h.submissions.limit, p.submissionDegraded),
         "submission_backlog_high",
         Reaches(h.submissions.pending, h.submissions.limit, p.submissionCritical)) = {}
  BY SnapshotHolds DEF If, Reaches
<1>8. /\ \A s : ~(\E c \in DOMAIN h.circuits : h.circuits[c] = s)
      /\ \A r : ~AnyBacklog(h.buffers, r)
      /\ ~(\E n \in DOMAIN h.buffers : ~h.buffers[n].alive /\ ~h.buffers[n].closed)
  BY SnapshotHolds DEF AnyBacklog
<1>9. /\ If(h.closed, "builder_closed", TRUE) = {}
      /\ If(h.unsafeSources > 0, "unsafe_blocking_source", TRUE) = {}
      /\ If(AnyBacklog(h.buffers, p.bufferDegraded), "observability_backlog_high",
            AnyBacklog(h.buffers, p.bufferCritical)) = {}
      /\ If(\E n \in DOMAIN h.buffers : ~h.buffers[n].alive /\ ~h.buffers[n].closed,
            "observability_worker_stopped", TRUE) = {}
      /\ If(h.bufferShutdownIncomplete, "observability_shutdown_incomplete", TRUE) = {}
      /\ If(\E c \in DOMAIN h.circuits : h.circuits[c] = "open", "circuit_open", FALSE) = {}
      /\ If(\E c \in DOMAIN h.circuits : h.circuits[c] = "half_open", "circuit_half_open", FALSE) = {}
  <2>1. ~h.closed /\ ~h.bufferShutdownIncomplete
    BY SnapshotHolds, Zenon
  <2>2. ~(h.unsafeSources > 0)
    BY SnapshotHolds
  <2> HIDE DEF h
  <2> QED BY <2>1, <2>2, <1>8, Zenon DEF If
<1>10. If(h.copyShutdownIncomplete, "payload_copy_shutdown_incomplete", TRUE) = Incomplete
  BY SnapshotHolds, Zenon DEF Incomplete
<1>11. UNION {CounterFindings(h, before, p) : before \in polled} = Grown
  BY DEF Grown
<1> HIDE DEF h, p
<1>12. Findings(h, polled, p) =
           {} \cup {} \cup {} \cup Waiters \cup {} \cup {} \cup {} \cup {} \cup {}
              \cup Incomplete \cup {} \cup Grown
  BY <1>2, <1>6, <1>7, <1>9, <1>10, <1>11, Zenon DEF Findings
<1> QED BY <1>12 DEF h, p

\* What they say: the reasons, ...
LEMMA CopyReasons ==
    ASSUME Baseline, waiting \in Nat
    PROVE  /\ \A f \in Waiters : f.reason = "payload_copy_capacity_waiting"
           /\ \A f \in Incomplete : f.reason = "payload_copy_shutdown_incomplete"
           /\ \A f \in Grown : f.reason \in Monitored
           /\ Waiters # {} <=> waiting >= 1
           /\ Incomplete # {} <=> incomplete
<1>1. \A f \in Waiters : f.reason = "payload_copy_capacity_waiting"
  BY DEF Waiters, If, Finding
<1>2. \A f \in Incomplete : f.reason = "payload_copy_shutdown_incomplete"
  BY DEF Incomplete, If, Finding
<1>3. ASSUME NEW f \in Grown PROVE f.reason \in Monitored
  <2>1. PICK before \in polled : f \in CounterFindings(HealthSnapshot, before, DefaultPolicy)
    BY <1>3 DEF Grown
  <2>2. DOMAIN HealthSnapshot.counters = Monitored
    BY SnapshotCounters
  <2> QED BY <2>1, <2>2 DEF CounterFindings, Finding
<1>4. Waiters # {} <=> waiting >= 1
  BY DEF Waiters, If
<1>5. Incomplete # {} <=> incomplete
  BY Zenon DEF Incomplete, If
<1> QED BY <1>1, <1>2, <1>3, <1>4, <1>5

\* ... and the counter of the timeouts against that of the baseline.
LEMMA TimeoutsGrown ==
    ASSUME IInv, Baseline, NEW before \in polled
    PROVE  (\E f \in Grown : f.reason = "timeouts") <=>
               count["timeouts"] > before.counters["timeouts"]
<1> DEFINE h == HealthSnapshot  p == DefaultPolicy
<1>1. /\ polled = {before} /\ before.counters \in [Monitored -> Nat]
  BY DEF Baseline
<1>2. Grown = CounterFindings(h, before, p)
  BY <1>1 DEF Grown
<1>3. /\ DOMAIN h.counters = Monitored /\ h.counters["timeouts"] = count["timeouts"]
      /\ "timeouts" \in Monitored
  BY SnapshotCounters DEF Monitored
<1>4. p.deltaDegraded = 1
  BY DEF DefaultPolicy
<1>5. count["timeouts"] \in Nat /\ before.counters["timeouts"] \in Nat
  BY <1>1, <1>3 DEF IInv, Core, Typed, Counters
<1> HIDE DEF h, p
<1>6. Increased(h, before, p, "timeouts") <=> count["timeouts"] > before.counters["timeouts"]
  BY <1>3, <1>4, <1>5 DEF Increased
<1>7. \A f \in Grown : \E c \in Monitored : Increased(h, before, p, c) /\ f.reason = c
  BY <1>2, <1>3 DEF CounterFindings, Finding
<1>8. ASSUME Increased(h, before, p, "timeouts") PROVE \E f \in Grown : f.reason = "timeouts"
  <2> DEFINE f == Finding("timeouts", h.counters["timeouts"] - before.counters["timeouts"] >= p.deltaCritical)
  <2>1. f \in Grown
    BY <1>2, <1>3, <1>8 DEF CounterFindings
  <2>2. f.reason = "timeouts"
    BY DEF Finding
  <2> HIDE DEF f
  <2> QED BY <2>1, <2>2
<1> QED BY <1>6, <1>7, <1>8

LEMMA CopiesTruthful == IInv /\ Baseline => HealthTruthful
<1> SUFFICES ASSUME IInv, Baseline PROVE HealthTruthful
  OBVIOUS
<1> DEFINE findings == Findings(HealthSnapshot, polled, DefaultPolicy)
           reasons  == Reasons(findings)
           inLine   == Cardinality({c \in Copies : copy[c] \in Acquiring})
<1>1. waiting = inLine /\ waiting \in Nat
  BY SlotsFollow DEF SlotsExact, TypeOK, HealthExact
<1>2. findings = Waiters \cup Incomplete \cup Grown
  BY <1>1, CopyFindings
<1> HIDE DEF findings, inLine
<1>3. /\ \A f \in Waiters : f.reason = "payload_copy_capacity_waiting"
      /\ \A f \in Incomplete : f.reason = "payload_copy_shutdown_incomplete"
      /\ \A f \in Grown : f.reason \in Monitored
      /\ Waiters # {} <=> waiting >= 1
      /\ Incomplete # {} <=> incomplete
  BY <1>1, CopyReasons
<1>4. \A r : r \in reasons <=> \E f \in Waiters \cup Incomplete \cup Grown : f.reason = r
  BY <1>2 DEF Reasons
<1> HIDE DEF reasons
<1>5. "payload_copy_shutdown_incomplete" \in reasons <=>
          ~closed /\ \E k \in Closers : closer[k] = "raised"
  <2>1. "payload_copy_shutdown_incomplete" \in reasons <=> Incomplete # {}
    BY <1>3, <1>4 DEF Monitored
  <2> QED BY <1>3, <2>1, Zenon DEF IInv, Shutdown
<1>6. "payload_copy_capacity_waiting" \in reasons <=> inLine > 0
  <2>1. "payload_copy_capacity_waiting" \in reasons <=> Waiters # {}
    BY <1>3, <1>4 DEF Monitored
  <2> QED BY <1>1, <1>3, <2>1
<1>7. ASSUME inLine >= MaxConcurrency PROVE Severity(findings) = "critical"
  <2>1. MaxConcurrency \in Nat /\ MaxConcurrency >= 1
    BY CopiesAssumption
  <2>2. waiting >= 1 /\ Reaches(waiting, MaxConcurrency, Ratio(1, 1))
    BY <1>1, <1>7, <2>1 DEF Reaches, Ratio
  <2>3. Finding("payload_copy_capacity_waiting", TRUE) \in Waiters
    BY <2>2 DEF Waiters, If, Finding
  <2>4. Finding("payload_copy_capacity_waiting", TRUE).severity = "critical"
    BY DEF Finding
  <2> QED BY <1>2, <2>3, <2>4 DEF Severity
<1>8. ASSUME NEW before \in polled
      PROVE  "timeouts" \in reasons <=>
                 Cardinality({c \in late : copy[c] = "done"}) > before.counters["timeouts"]
  <2>1. count["timeouts"] = Cardinality({c \in late : copy[c] = "done"})
    BY SlotsFollow DEF SlotsExact, HealthExact
  <2>2. "timeouts" \in reasons <=> \E f \in Grown : f.reason = "timeouts"
    BY <1>3, <1>4
  <2> QED BY <2>1, <2>2, TimeoutsGrown
<1>9. ASSUME closed, inLine = 0, polled = {} PROVE Severity(findings) = "healthy"
  <2>1. ~incomplete
    BY <1>9, Zenon DEF IInv, Shutdown
  <2>2. Waiters = {} /\ Incomplete = {}
    <3>1. ~(waiting >= 1)
      BY <1>1, <1>9
    <3> QED BY <1>3, <2>1, <3>1, Zenon
  <2>3. Grown = {}
    BY <1>9 DEF Grown
  <2> QED BY <1>2, <2>2, <2>3 DEF Severity
<1> QED BY <1>5, <1>6, <1>7, <1>8, <1>9 DEF HealthTruthful, findings, reasons, inLine

\* What a monitor learns of the copies from BuilderHealth.assess is true, in every state.
THEOREM CopiesMonitored == Spec => []HealthTruthful
<1>1. Init => Baseline
  BY DEF Init, Baseline
<1>2. IInv /\ Baseline /\ [Next]_vars => Baseline'
  BY BaselineStays
<1> QED BY <1>1, <1>2, Invariance, CopiesTruthful, PTL DEF Spec
=============================================================================
