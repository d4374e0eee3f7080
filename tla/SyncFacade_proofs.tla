-------------------------- MODULE SyncFacade_proofs --------------------------
(***************************************************************************)
(* For every set of calls, submissions and closes, every backlog and with  *)
(* or without closing the builder: close takes the facade down in order.   *)
(* No coroutine is handed to the loop behind its stop, the builder is      *)
(* closed only when all submissions are over, and a deferred stop waits    *)
(* for the late copies.                                                    *)
(***************************************************************************)
EXTENDS SyncFacade, FiniteSetTheorems, SequenceTheorems, TLAPS

Creates == {"create"} \X Ops
Stop == <<"loop", "stop">>
StartMessage == <<"loop", "aclose">>
DeferMessage == <<"loop", "deferred">>

\* What is said of the loop's queue q: c is in it, c is in it once at most, and no operation
\* is behind a stop.
Among(q, c) == \E i \in DOMAIN q : q[i] = c
Once(q, c) == \A i, j \in DOMAIN q : q[i] = c /\ q[j] = c => i = j
NoneBehind(q) == \A i, j \in DOMAIN q : q[j] = Stop /\ q[i] \in Creates => i < j

-----------------------------------------------------------------------------
\* The callbacks are different.
LEMMA Messages ==
    /\ Stop # StartMessage /\ Stop # DeferMessage /\ StartMessage # DeferMessage
    /\ Stop \notin Creates /\ StartMessage \notin Creates /\ DeferMessage \notin Creates
    /\ <<"loop", "cancel aclose">> \notin Creates \cup {Stop, StartMessage, DeferMessage}
    /\ \A o : <<"cancel", o>> \notin Creates \cup {Stop, StartMessage, DeferMessage}
    /\ \A o \in Ops : <<"create", o>> \in Creates /\ <<"create", o>> \in Callbacks
    /\ \A o \in Ops : <<"cancel", o>> \in Callbacks
    /\ Creates \subseteq Callbacks
    /\ {Stop, StartMessage, DeferMessage, <<"loop", "cancel aclose">>} \subseteq Callbacks
    /\ \A o, p : <<"create", o>> = <<"create", p>> => o = p
<1>1. Stop # StartMessage /\ Stop # DeferMessage /\ StartMessage # DeferMessage
  BY DEF Stop, StartMessage, DeferMessage
<1>2. Stop \notin Creates /\ StartMessage \notin Creates /\ DeferMessage \notin Creates
  BY DEF Creates, Stop, StartMessage, DeferMessage
<1>3. <<"loop", "cancel aclose">> \notin Creates
  BY DEF Creates
<1>4. <<"loop", "cancel aclose">> \notin {Stop, StartMessage, DeferMessage}
  BY DEF Stop, StartMessage, DeferMessage
<1>5. ASSUME NEW o PROVE <<"cancel", o>> \notin Creates
  BY DEF Creates
<1>6. ASSUME NEW o PROVE <<"cancel", o>> \notin {Stop, StartMessage, DeferMessage}
  BY DEF Stop, StartMessage, DeferMessage
<1>7. ASSUME NEW o \in Ops
      PROVE  <<"create", o>> \in Creates /\ <<"create", o>> \in Callbacks /\ <<"cancel", o>> \in Callbacks
  BY DEF Creates, Callbacks
<1>8. Creates \subseteq Callbacks
  BY DEF Creates, Callbacks
<1>9. {Stop, StartMessage, DeferMessage, <<"loop", "cancel aclose">>} \subseteq Callbacks
  <2>1. Stop \in Callbacks
    BY DEF Stop, Callbacks
  <2>2. StartMessage \in Callbacks
    BY DEF StartMessage, Callbacks
  <2>3. DeferMessage \in Callbacks
    BY DEF DeferMessage, Callbacks
  <2>4. <<"loop", "cancel aclose">> \in Callbacks
    BY DEF Callbacks
  <2> QED BY <2>1, <2>2, <2>3, <2>4
<1>10. \A o, p : <<"create", o>> = <<"create", p>> => o = p
  OBVIOUS
<1> QED BY <1>1, <1>2, <1>3, <1>4, <1>5, <1>6, <1>7, <1>8, <1>9, <1>10

\* A callback is posted.
LEMMA Posting ==
    ASSUME NEW q \in Seq(Callbacks), NEW c \in Callbacks
    PROVE  /\ Append(q, c) \in Seq(Callbacks)
           /\ \A d : Among(Append(q, c), d) <=> Among(q, d) \/ d = c
           /\ \A d : Once(q, d) /\ (d = c => ~Among(q, d)) => Once(Append(q, c), d)
           /\ NoneBehind(q) /\ (c \in Creates => ~Among(q, Stop)) => NoneBehind(Append(q, c))
<1> DEFINE r == Append(q, c)  n == Len(q)
<1>1. n \in Nat /\ DOMAIN q = 1..n
  BY LenProperties
<1>2. r \in Seq(Callbacks) /\ Len(r) = n + 1 /\ (\A i \in 1..n : r[i] = q[i]) /\ r[n + 1] = c
  BY AppendProperties
<1>3. DOMAIN r = 1..(n + 1)
  BY <1>2, LenProperties
<1> HIDE DEF r, n
<1>4. \A d : Among(r, d) <=> Among(q, d) \/ d = c
  <2> SUFFICES ASSUME NEW d PROVE Among(r, d) <=> Among(q, d) \/ d = c
    OBVIOUS
  <2>1. Among(r, d) => Among(q, d) \/ d = c
    BY <1>1, <1>2, <1>3 DEF Among
  <2>2. Among(q, d) => Among(r, d)
    BY <1>1, <1>2, <1>3 DEF Among
  <2>3. d = c => Among(r, d)
    BY <1>1, <1>2, <1>3 DEF Among
  <2> QED BY <2>1, <2>2, <2>3
<1>5. ASSUME NEW d, Once(q, d), d = c => ~Among(q, d) PROVE Once(r, d)
  BY <1>1, <1>2, <1>3, <1>5 DEF Once, Among
<1>6. ASSUME NoneBehind(q), c \in Creates => ~Among(q, Stop) PROVE NoneBehind(r)
  <2> SUFFICES ASSUME NEW i \in DOMAIN r, NEW j \in DOMAIN r, r[j] = Stop, r[i] \in Creates PROVE i < j
    BY DEF NoneBehind
  <2>1. CASE i \in 1..n /\ j \in 1..n
    BY <1>1, <1>2, <1>6, <2>1 DEF NoneBehind
  <2>2. CASE i = n + 1
    <3>1. j # n + 1
      BY <1>2, <2>2, Messages
    <3>2. j \in 1..n
      BY <1>1, <1>3, <3>1
    <3> QED BY <1>1, <1>2, <1>6, <2>2, <3>2 DEF Among
  <2>3. CASE i \in 1..n /\ j = n + 1
    BY <1>1, <2>3
  <2> QED BY <1>1, <1>3, <2>1, <2>2, <2>3
<1> QED BY <1>2, <1>4, <1>5, <1>6 DEF r

\* A callback is taken.
LEMMA Taking ==
    ASSUME NEW q \in Seq(Callbacks), q # <<>>
    PROVE  /\ Tail(q) \in Seq(Callbacks) /\ Among(q, Head(q)) /\ Head(q) \in Callbacks
           /\ \A d : Among(Tail(q), d) => Among(q, d)
           /\ \A d : Among(q, d) /\ d # Head(q) => Among(Tail(q), d)
           /\ \A d : Once(q, d) => Once(Tail(q), d)
           /\ \A d : Once(q, d) /\ d = Head(q) => ~Among(Tail(q), d)
           /\ NoneBehind(q) => NoneBehind(Tail(q))
           /\ NoneBehind(q) /\ Head(q) = Stop => \A d \in Creates : ~Among(Tail(q), d)
<1> DEFINE r == Tail(q)  n == Len(q)
<1>1. n \in Nat \ {0} /\ DOMAIN q = 1..n
  BY LenProperties, EmptySeq
<1>2. Head(q) \in Callbacks /\ r \in Seq(Callbacks) /\ Len(r) = n - 1 /\ \A i \in 1..Len(r) : r[i] = q[i + 1]
  BY HeadTailProperties
<1>3. DOMAIN r = 1..(n - 1) /\ Head(q) = q[1] /\ 1 \in DOMAIN q
  BY <1>1, <1>2, LenProperties
<1> HIDE DEF r, n
<1>4. \A i \in DOMAIN r : i \in Nat /\ i + 1 \in DOMAIN q /\ i + 1 # 1 /\ r[i] = q[i + 1]
  BY <1>1, <1>2, <1>3
<1>5. ASSUME NEW d PROVE Among(r, d) => Among(q, d)
  BY <1>4 DEF Among
<1>6. ASSUME NEW d, Among(q, d), d # Head(q) PROVE Among(r, d)
  <2>1. PICK i \in DOMAIN q : q[i] = d
    BY <1>6 DEF Among
  <2>2. i # 1
    BY <1>3, <1>6, <2>1
  <2>3. i - 1 \in DOMAIN r /\ (i - 1) + 1 = i
    BY <1>1, <1>3, <2>2
  <2> QED BY <1>4, <2>1, <2>3 DEF Among
<1>7. ASSUME NEW d, Once(q, d) PROVE Once(r, d)
  <2> SUFFICES ASSUME NEW i \in DOMAIN r, NEW j \in DOMAIN r, r[i] = d, r[j] = d PROVE i = j
    BY DEF Once
  <2>1. i + 1 = j + 1
    BY <1>4, <1>7 DEF Once
  <2> QED BY <1>4, <2>1
<1>8. ASSUME NEW d, Once(q, d), d = Head(q) PROVE ~Among(r, d)
  BY <1>3, <1>4, <1>8 DEF Once, Among
<1>9. ASSUME NoneBehind(q) PROVE NoneBehind(r)
  <2> SUFFICES ASSUME NEW i \in DOMAIN r, NEW j \in DOMAIN r, r[j] = Stop, r[i] \in Creates PROVE i < j
    BY DEF NoneBehind
  <2>1. i + 1 < j + 1
    BY <1>4, <1>9 DEF NoneBehind
  <2> QED BY <1>4, <2>1
<1>10. ASSUME NoneBehind(q), Head(q) = Stop, NEW d \in Creates PROVE ~Among(r, d)
  <2> SUFFICES ASSUME NEW i \in DOMAIN r, r[i] = d PROVE FALSE
    BY DEF Among
  <2>1. i + 1 < 1
    BY <1>3, <1>4, <1>10 DEF NoneBehind
  <2> QED BY <1>4, <2>1
<1> QED BY <1>2, <1>3, <1>5, <1>6, <1>7, <1>8, <1>9, <1>10 DEF r, Among
-----------------------------------------------------------------------------
\* The inductive invariant.  Every operation that a caller waits for is in the loop's hands:
\* it is queued, or it has a task; a loop that has stopped has cancelled all of them.
Handed ==
    /\ \A o \in Ops : future[o] = "accepted" => \/ Among(ready, <<"create", o>>)
                                                \/ task[o] \in {"running", "cancelling"}
    /\ loop # "running" => /\ \A o \in Ops : ~Among(ready, <<"create", o>>)
                           /\ NothingBehindStop

\* A stop is posted only when closed, after which nothing is handed over.
Stops == /\ NoneBehind(ready)
         /\ Among(ready, Stop) \/ loop # "running" => closed

\* At most one close is under way, with _close_lock, and the flags say how far it is.
Locks == \A k \in Closers :
    /\ closer[k] \notin {"no", "ended"} => lock = k
    /\ closer[k] \in {"draining", "cancelling", "waiting"} => closing /\ ~closed
    /\ closer[k] \in {"stopping", "joining"} => closed

\* No submission is open once one of these holds, and none opens then.
Over == \/ closed \/ aclose # "none" \/ Among(ready, StartMessage)
        \/ \E k \in Closers : closer[k] \in {"waiting", "stopping", "joining"}

\* Submissions: the backlog holds those that are open, close waits for those, and then they
\* are over.
Submitted ==
    /\ \A o \in Submissions : future[o] = "accepted" => o \in pending
    /\ \A k \in Closers : closer[k] \in {"draining", "cancelling"} =>
          \A o \in Submissions : future[o] = "accepted" => o \in draining
    /\ Over => (closing \/ closed) /\ \A o \in Submissions : future[o] # "accepted"

\* builder.aclose is posted once, by the close that waits for it; only its last stages, which
\* the code reaches when it closes the builder, can have been late.
AcloseOnce ==
    /\ Once(ready, StartMessage)
    /\ Among(ready, StartMessage) => aclose = "none"
    /\ Among(ready, StartMessage) \/ aclose # "none" =>
          closed \/ \E k \in Closers : closer[k] = "waiting"
    /\ aclose \in {"copies", "observability"} => closeBuilder
    /\ late => closeBuilder /\ aclose \in {"observability", "ended"}

\* A deferred stop: posted once, by a close that has ended since; nobody else stops the loop,
\* and no copy begins any more.
Deferring == deferred # "no" \/ Among(ready, DeferMessage)
Deferral ==
    /\ Deferring => /\ late /\ aclose = "ended" /\ closed
                    /\ \A k \in Closers : closer[k] \in {"no", "ended"}
    /\ Once(ready, DeferMessage)
    /\ Among(ready, DeferMessage) => deferred = "no"
    /\ Among(ready, DeferMessage) \/ deferred = "waiting" => ~Among(ready, Stop) /\ loop = "running"
    /\ deferred = "ended" => Copying = {}

Typed == TypeOK /\ IsFiniteSet(pending)
Inv == Typed /\ Handed /\ Stops /\ Locks /\ Submitted /\ AcloseOnce /\ Deferral

\* The invariant holds initially.
LEMMA InitInv == Init => Inv
<1> SUFFICES ASSUME Init PROVE Inv
  OBVIOUS
<1>1. Typed
  <2>1. IsFiniteSet(pending) /\ Cardinality(pending) = 0
    BY FS_EmptySet DEF Init
  <2>2. maxPending \in Nat /\ 0 <= maxPending
    BY FacadeAssumption DEF Init
  <2>3. ready \in Seq(Callbacks)
    BY EmptySeq DEF Init
  <2> QED BY <2>1, <2>2, <2>3 DEF Typed, TypeOK, Init, Stages
<1>2. \A c : ~Among(ready, c) /\ Once(ready, c)
  BY EmptySeq DEF Init, Among, Once
<1>3. NoneBehind(ready)
  BY EmptySeq DEF Init, NoneBehind
<1>4. Copying = {}
  BY DEF Init, Copying
<1>5. Handed /\ Stops /\ Locks
  BY <1>2, <1>3 DEF Init, Handed, Stops, Locks, NothingBehindStop
<1>6. Submitted /\ AcloseOnce
  BY <1>2, FacadeAssumption DEF Init, Submitted, Over, AcloseOnce, Ops
<1>7. Deferral
  BY <1>2, <1>4 DEF Init, Deferral, Deferring
<1> QED BY <1>1, <1>5, <1>6, <1>7 DEF Inv
-----------------------------------------------------------------------------
\* What the loop's queue becomes when a callback other than those of the invariant is posted,
\* when an operation is, or one of the named messages.
LEMMA PostedQueue ==
    ASSUME ready \in Seq(Callbacks), NEW c \in Callbacks, ready' = Append(ready, c)
    PROVE  /\ ready' \in Seq(Callbacks)
           /\ Among(ready', Stop) <=> Among(ready, Stop) \/ c = Stop
           /\ Among(ready', StartMessage) <=> Among(ready, StartMessage) \/ c = StartMessage
           /\ Among(ready', DeferMessage) <=> Among(ready, DeferMessage) \/ c = DeferMessage
           /\ \A o : Among(ready', <<"create", o>>) <=> Among(ready, <<"create", o>>) \/ c = <<"create", o>>
           /\ \A d : Once(ready, d) /\ (d = c => ~Among(ready, d)) => Once(ready', d)
           /\ NoneBehind(ready) /\ (c \in Creates => ~Among(ready, Stop)) => NoneBehind(ready')
BY Posting

\* What it becomes when its first callback is taken.
LEMMA TakenQueue ==
    ASSUME ready \in Seq(Callbacks), ready # <<>>, ready' = Tail(ready)
    PROVE  /\ ready' \in Seq(Callbacks)
           /\ Among(ready, Head(ready))
           /\ \A d : Among(ready', d) => Among(ready, d)
           /\ \A d : Among(ready, d) /\ d # Head(ready) => Among(ready', d)
           /\ \A d : Once(ready, d) => Once(ready', d)
           /\ \A d : Once(ready, d) /\ d = Head(ready) => ~Among(ready', d)
           /\ NoneBehind(ready) => NoneBehind(ready')
           /\ NoneBehind(ready) /\ Head(ready) = Stop => \A o \in Ops : ~Among(ready', <<"create", o>>)
BY Taking, Messages

-----------------------------------------------------------------------------
\* A blocking call is scheduled.
LEMMA ScheduleKeeps == ASSUME Inv, NEW o \in Ops, Schedule(o) PROVE Inv'
<1> USE DEF Inv
<1>1. CASE closed \/ closing
  <2>1. future' = [future EXCEPT ![o] = "refused"] /\ ready' = ready
    BY <1>1 DEF Schedule
  <2>2. Typed'
    BY <2>1 DEF Typed, TypeOK, Schedule, config, flags
  <2>3. Handed' /\ Stops' /\ Locks'
    BY <2>1 DEF Typed, TypeOK, Schedule, config, flags, Handed, Stops, Locks, NothingBehindStop
  <2>4. Submitted' /\ AcloseOnce' /\ Deferral'
    BY <2>1 DEF Typed, TypeOK, Schedule, config, flags, Submitted, Over, AcloseOnce, Deferral, Deferring,
               Copying, Ops
  <2> QED BY <2>2, <2>3, <2>4
<1>2. CASE ~closed /\ ~closing
  <2>1. future' = [future EXCEPT ![o] = "accepted"] /\ ready' = Append(ready, <<"create", o>>)
    BY <1>2 DEF Schedule, Post
  <2>2. /\ <<"create", o>> \in Callbacks /\ <<"create", o>> \in Creates
        /\ <<"create", o>> \notin {Stop, StartMessage, DeferMessage}
    BY Messages
  <2>3. /\ ready' \in Seq(Callbacks)
        /\ Among(ready', Stop) <=> Among(ready, Stop)
        /\ Among(ready', StartMessage) <=> Among(ready, StartMessage)
        /\ Among(ready', DeferMessage) <=> Among(ready, DeferMessage)
        /\ \A p \in Ops : Among(ready', <<"create", p>>) <=> Among(ready, <<"create", p>>) \/ o = p
        /\ Once(ready', StartMessage) /\ Once(ready', DeferMessage) /\ NoneBehind(ready')
    BY <1>2, <2>1, <2>2, PostedQueue, Messages DEF Typed, TypeOK, Stops, AcloseOnce, Deferral
  <2>4. Typed'
    BY <2>1, <2>3 DEF Typed, TypeOK, Schedule, config, flags
  <2>5. Handed' /\ Stops' /\ Locks'
    BY <1>2, <2>1, <2>3 DEF Typed, TypeOK, Schedule, config, flags, Handed, Stops, Locks, NothingBehindStop
  <2>6. Submitted' /\ AcloseOnce' /\ Deferral'
    <3>1. o \notin Submissions
      BY FacadeAssumption DEF Schedule
    <3> QED BY <2>1, <2>3, <3>1 DEF Typed, TypeOK, Schedule, config, flags, Submitted, Over, AcloseOnce,
               Deferral, Deferring, Copying, Ops
  <2> QED BY <2>4, <2>5, <2>6
<1> QED BY <1>1, <1>2
\* The messages that the invariant speaks of are the same before and after.
SameMarks ==
    /\ ready' \in Seq(Callbacks)
    /\ Among(ready', Stop) <=> Among(ready, Stop)
    /\ Among(ready', StartMessage) <=> Among(ready, StartMessage)
    /\ Among(ready', DeferMessage) <=> Among(ready, DeferMessage)
    /\ \A p \in Ops : Among(ready', <<"create", p>>) <=> Among(ready, <<"create", p>>)
    /\ Once(ready', StartMessage) /\ Once(ready', DeferMessage) /\ NoneBehind(ready')

\* They are when the queue is left alone, ...
LEMMA QueueAlone == ASSUME Inv, ready' = ready PROVE SameMarks
BY DEF Inv, Typed, TypeOK, SameMarks, AcloseOnce, Deferral, Stops

\* ... when a cancellation is posted, ...
LEMMA QuietPost ==
    ASSUME Inv, NEW c \in Callbacks, c \notin Creates \cup {Stop, StartMessage, DeferMessage}, Post(c)
    PROVE  SameMarks
<1>1. ready \in Seq(Callbacks) /\ ready' = Append(ready, c)
  BY DEF Inv, Typed, TypeOK, Post
<1>2. c # Stop /\ c # StartMessage /\ c # DeferMessage /\ \A o \in Ops : c # <<"create", o>>
  BY Messages
<1>3. Once(ready, StartMessage) /\ Once(ready, DeferMessage) /\ NoneBehind(ready)
  BY DEF Inv, AcloseOnce, Deferral, Stops
<1> QED BY <1>1, <1>2, <1>3, PostedQueue DEF SameMarks

\* ... and when one is taken.
LEMMA QuietTake ==
    ASSUME Inv, ready # <<>>, Head(ready) \notin Creates \cup {Stop, StartMessage, DeferMessage},
           ready' = Tail(ready)
    PROVE  SameMarks
BY TakenQueue, Messages DEF Inv, Typed, TypeOK, SameMarks, AcloseOnce, Deferral, Stops

\* A submission is scheduled.
LEMMA ScheduleSubmissionKeeps == ASSUME Inv, NEW o \in Ops, ScheduleSubmission(o) PROVE Inv'
<1> USE DEF Inv
<1>1. CASE closed \/ closing \/ Cardinality(pending) >= maxPending
  <2>1. future' = [future EXCEPT ![o] = "refused"] /\ ready' = ready /\ pending' = pending
    BY <1>1 DEF ScheduleSubmission
  <2>2. Typed'
    BY <2>1 DEF Typed, TypeOK, ScheduleSubmission, config, flags
  <2>3. Handed' /\ Stops' /\ Locks'
    BY <2>1 DEF Typed, TypeOK, ScheduleSubmission, config, flags, Handed, Stops, Locks, NothingBehindStop
  <2>4. Submitted' /\ AcloseOnce' /\ Deferral'
    BY <2>1 DEF Typed, TypeOK, ScheduleSubmission, config, flags, Submitted, Over, AcloseOnce, Deferral,
               Deferring, Copying, Ops
  <2> QED BY <2>2, <2>3, <2>4
<1>2. CASE ~(closed \/ closing \/ Cardinality(pending) >= maxPending)
  <2>1. /\ future' = [future EXCEPT ![o] = "accepted"] /\ pending' = pending \cup {o}
        /\ ready' = Append(ready, <<"create", o>>) /\ o \in Submissions
    BY <1>2 DEF ScheduleSubmission, Post
  <2>2. /\ <<"create", o>> \in Callbacks /\ <<"create", o>> \in Creates
        /\ <<"create", o>> \notin {Stop, StartMessage, DeferMessage}
    BY Messages
  <2>3. /\ ready' \in Seq(Callbacks)
        /\ Among(ready', Stop) <=> Among(ready, Stop)
        /\ Among(ready', StartMessage) <=> Among(ready, StartMessage)
        /\ Among(ready', DeferMessage) <=> Among(ready, DeferMessage)
        /\ \A p \in Ops : Among(ready', <<"create", p>>) <=> Among(ready, <<"create", p>>) \/ o = p
        /\ Once(ready', StartMessage) /\ Once(ready', DeferMessage) /\ NoneBehind(ready')
    BY <1>2, <2>1, <2>2, PostedQueue, Messages DEF Typed, TypeOK, Stops, AcloseOnce, Deferral
  <2>4. Typed'
    <3>1. IsFiniteSet(pending') /\ Cardinality(pending') <= Cardinality(pending) + 1 /\ Cardinality(pending) \in Nat
      <4>1. IsFiniteSet(pending) /\ Cardinality(pending) \in Nat
        BY FS_CardinalityType DEF Typed
      <4>2. /\ IsFiniteSet(pending \cup {o})
            /\ \/ Cardinality(pending \cup {o}) = Cardinality(pending)
               \/ Cardinality(pending \cup {o}) = Cardinality(pending) + 1
        BY <4>1, FS_AddElement
      <4> QED BY <2>1, <4>1, <4>2
    <3>2. maxPending \in Nat
      BY FacadeAssumption DEF Typed, TypeOK
    <3>3. Cardinality(pending') <= maxPending
      <4>1. Cardinality(pending') \in Nat
        BY <3>1, FS_CardinalityType
      <4> QED BY <1>2, <3>1, <3>2, <4>1
    <3> QED BY <2>1, <2>3, <3>1, <3>3 DEF Typed, TypeOK, ScheduleSubmission, config, flags
  <2>5. Handed' /\ Stops' /\ Locks'
    BY <1>2, <2>1, <2>3 DEF Typed, TypeOK, ScheduleSubmission, config, flags, Handed, Stops, Locks,
               NothingBehindStop
  <2>6. Submitted' /\ AcloseOnce' /\ Deferral'
    <3>1. ~Over /\ ~Over'
      BY <1>2, <2>3 DEF Submitted, Over, ScheduleSubmission, flags
    <3>2. \A k \in Closers : closer[k] \notin {"draining", "cancelling"}
      BY <1>2 DEF Locks
    <3> QED BY <2>1, <2>3, <3>1, <3>2 DEF Typed, TypeOK, ScheduleSubmission, config, flags, Submitted,
               AcloseOnce, Deferral, Deferring, Copying, Ops
  <2> QED BY <2>4, <2>5, <2>6
<1> QED BY <1>1, <1>2

\* A submission leaves the backlog.
LEMMA CompletedKeeps == ASSUME Inv, NEW o \in Ops, SubmissionCompleted(o) PROVE Inv'
<1> USE DEF Inv
<1>1. Typed'
  <2>1. IsFiniteSet(pending') /\ Cardinality(pending') \in Nat /\ Cardinality(pending') <= Cardinality(pending)
    <3>1. IsFiniteSet(pending) /\ pending' \subseteq pending
      BY DEF Typed, SubmissionCompleted
    <3> QED BY <3>1, FS_Subset, FS_CardinalityType
  <2>2. Cardinality(pending) \in Nat /\ maxPending \in Nat
    BY FS_CardinalityType, FacadeAssumption DEF Typed, TypeOK
  <2>3. Cardinality(pending') <= maxPending
    BY <2>1, <2>2 DEF Typed, TypeOK
  <2> QED BY <2>1, <2>3 DEF Typed, TypeOK, SubmissionCompleted, config, flags
<1>2. Handed' /\ Stops' /\ Locks'
  BY DEF SubmissionCompleted, config, flags, Handed, Stops, Locks, NothingBehindStop
<1>3. Submitted' /\ AcloseOnce' /\ Deferral'
  BY DEF SubmissionCompleted, config, flags, Submitted, Over, AcloseOnce, Deferral, Deferring, Copying
<1> QED BY <1>1, <1>2, <1>3

-----------------------------------------------------------------------------
\* A task is created: the operation was queued, so that the loop runs.
LEMMA CreateTaskKeeps == ASSUME Inv, NEW o \in Ops, CreateTask(o) PROVE Inv'
<1> USE DEF Inv
<1>1. ready # <<>> /\ Head(ready) = <<"create", o>> /\ ready' = Tail(ready)
  BY DEF CreateTask, Callback
<1>2. <<"create", o>> \notin {Stop, StartMessage, DeferMessage}
  BY Messages
<1>3. /\ ready' \in Seq(Callbacks)
      /\ Among(ready', Stop) <=> Among(ready, Stop)
      /\ Among(ready', StartMessage) <=> Among(ready, StartMessage)
      /\ Among(ready', DeferMessage) <=> Among(ready, DeferMessage)
      /\ \A p \in Ops : Among(ready, <<"create", p>>) /\ p # o => Among(ready', <<"create", p>>)
      /\ Once(ready', StartMessage) /\ Once(ready', DeferMessage) /\ NoneBehind(ready')
  BY <1>1, <1>2, TakenQueue, Messages DEF Typed, TypeOK, Stops, AcloseOnce, Deferral
<1>4. loop = "running" /\ loop' = loop
  BY <1>1, TakenQueue DEF Handed, CreateTask, Typed, TypeOK
<1>5. task' = [task EXCEPT ![o] = IF future[o] = "cancelled" THEN "cancelling" ELSE "running"] /\ future' = future
  BY DEF CreateTask, Callback
<1>6. Typed'
  BY <1>3, <1>5 DEF Typed, TypeOK, CreateTask, Callback, config, flags
<1>7. Handed' /\ Stops' /\ Locks'
  BY <1>3, <1>4, <1>5 DEF Typed, TypeOK, CreateTask, Callback, flags, Handed, Stops, Locks, NothingBehindStop
<1>8. Submitted' /\ AcloseOnce' /\ Deferral'
  BY <1>3 DEF CreateTask, Callback, config, flags, Submitted, Over, AcloseOnce, Deferral, Deferring, Copying
<1> QED BY <1>6, <1>7, <1>8

\* A task is cancelled.
LEMMA CancelTaskKeeps == ASSUME Inv, NEW o \in Ops, CancelTask(o) PROVE Inv'
<1> USE DEF Inv
<1>1. SameMarks
  BY QuietTake, Messages DEF CancelTask, Callback
<1>2. task' = [task EXCEPT ![o] = IF @ = "running" THEN "cancelling" ELSE @] /\ future' = future
  BY DEF CancelTask, Callback
<1>3. Typed'
  BY <1>1, <1>2 DEF SameMarks, Typed, TypeOK, CancelTask, Callback, config, flags
<1>4. Handed' /\ Stops' /\ Locks'
  BY <1>1, <1>2 DEF SameMarks, Typed, TypeOK, CancelTask, Callback, flags, Handed, Stops, Locks, NothingBehindStop
<1>5. Submitted' /\ AcloseOnce' /\ Deferral'
  BY <1>1 DEF SameMarks, CancelTask, Callback, config, flags, Submitted, Over, AcloseOnce, Deferral, Deferring,
             Copying
<1> QED BY <1>3, <1>4, <1>5

\* A copy begins only while no stop can be deferred, or it ends.
LEMMA CopyKeeps == ASSUME Inv, NEW o \in Ops, StartCopy(o) \/ CopyEnds(o) PROVE Inv'
<1> USE DEF Inv
<1>1. UNCHANGED <<config, future, task, ready, loop, pending, flags, lock, closer, draining, aclose, late, deferred>>
  BY DEF StartCopy, CopyEnds
<1>2. Typed'
  BY <1>1 DEF Typed, TypeOK, StartCopy, CopyEnds, config, flags
<1>3. Handed' /\ Stops' /\ Locks'
  BY <1>1 DEF config, flags, Handed, Stops, Locks, NothingBehindStop
<1>4. Submitted' /\ AcloseOnce'
  BY <1>1 DEF config, flags, Submitted, Over, AcloseOnce
<1>5. deferred = "ended" => Copying' = {}
  <2> SUFFICES ASSUME deferred = "ended", NEW p \in Ops PROVE ~copying'[p]
    BY DEF Copying
  <2>1. late /\ aclose = "ended" /\ closeBuilder /\ ~copying[p]
    BY DEF Deferral, Deferring, AcloseOnce, Copying
  <2>2. ~StartCopy(o)
    BY <2>1 DEF StartCopy
  <2> QED BY <2>1, <2>2 DEF CopyEnds, Typed, TypeOK
<1>6. Deferral'
  BY <1>1, <1>5 DEF flags, Deferral, Deferring
<1> QED BY <1>2, <1>3, <1>4, <1>6

\* A task ends, and with it the wait of its caller.
LEMMA TaskEndsKeeps == ASSUME Inv, NEW o \in Ops, TaskEnds(o) PROVE Inv'
<1> USE DEF Inv
<1>1. UNCHANGED <<config, copying, ready, loop, pending, flags, lock, closer, draining, aclose, late, deferred>>
  BY DEF TaskEnds
<1>2. /\ future' \in [Ops -> {"none", "accepted", "refused", "done", "cancelled"}]
      /\ future'[o] # "accepted"
      /\ \A p \in Ops : p # o => future'[p] = future[p]
  BY DEF TaskEnds, Typed, TypeOK
<1>3. task' = [task EXCEPT ![o] = "ended"]
  BY DEF TaskEnds
<1>4. Typed'
  BY <1>1, <1>2, <1>3 DEF Typed, TypeOK, config, flags
<1>5. Handed' /\ Stops' /\ Locks'
  BY <1>1, <1>2, <1>3 DEF Typed, TypeOK, config, flags, Handed, Stops, Locks, NothingBehindStop
<1>6. Submitted' /\ AcloseOnce' /\ Deferral'
  BY <1>1, <1>2 DEF config, flags, Submitted, Over, AcloseOnce, Deferral, Deferring, Copying, Ops
<1> QED BY <1>4, <1>5, <1>6
-----------------------------------------------------------------------------
\* What a step may do to the stage of aclose once it has begun.
Advances ==
    /\ aclose' \in Stages \cup {"none", "ended"}
    /\ aclose' = "none" <=> aclose = "none"
    /\ aclose = "ended" => aclose' = "ended"
    /\ aclose' \in {"copies", "observability"} => closeBuilder
    /\ late => aclose' \in {"observability", "ended"}

\* The next stage: copies and buffers are only reached when the builder is closed.
LEMMA StageAdvances ==
    ASSUME Inv, aclose' = IF aclose \in Stages THEN NextStage(aclose) ELSE aclose
    PROVE  Advances
<1>1. CASE aclose = "refreshes"
  BY <1>1 DEF Advances, NextStage, Stages, Inv, AcloseOnce
<1>2. CASE aclose = "copies"
  BY <1>2 DEF Advances, NextStage, Stages, Inv, AcloseOnce
<1>3. CASE aclose = "observability"
  BY <1>3 DEF Advances, NextStage, Stages, Inv, AcloseOnce
<1>4. CASE aclose \notin Stages
  BY <1>4 DEF Advances, Inv, Typed, TypeOK, AcloseOnce
<1> QED BY <1>1, <1>2, <1>3, <1>4 DEF Stages

\* builder.aclose begins: it was posted by the close that waits for it.
LEMMA StartAcloseKeeps == ASSUME Inv, StartAclose PROVE Inv'
<1> USE DEF Inv
<1>1. ready # <<>> /\ Head(ready) = StartMessage /\ ready' = Tail(ready)
  BY DEF StartAclose, Callback, StartMessage
<1>2. /\ ready' \in Seq(Callbacks) /\ Among(ready, StartMessage) /\ ~Among(ready', StartMessage)
      /\ Among(ready', Stop) <=> Among(ready, Stop)
      /\ Among(ready', DeferMessage) <=> Among(ready, DeferMessage)
      /\ \A p \in Ops : Among(ready', <<"create", p>>) <=> Among(ready, <<"create", p>>)
      /\ Once(ready', StartMessage) /\ Once(ready', DeferMessage) /\ NoneBehind(ready')
  <2>1. StartMessage # Stop /\ StartMessage # DeferMessage /\ \A p \in Ops : StartMessage # <<"create", p>>
    BY Messages
  <2> QED BY <1>1, <2>1, TakenQueue DEF Typed, TypeOK, Stops, AcloseOnce, Deferral
<1>3. aclose = "none" /\ aclose' = "refreshes" /\ ~late
  BY <1>2 DEF AcloseOnce, StartAclose
<1>4. Typed'
  BY <1>2, <1>3 DEF Typed, TypeOK, Stages, StartAclose, Callback, config, flags
<1>5. Handed' /\ Stops' /\ Locks'
  BY <1>2 DEF StartAclose, Callback, flags, Handed, Stops, Locks, NothingBehindStop
<1>6. Submitted' /\ AcloseOnce'
  BY <1>2, <1>3 DEF StartAclose, Callback, config, flags, Submitted, Over, AcloseOnce
<1>7. Deferral'
  BY <1>2, <1>3 DEF StartAclose, Callback, flags, Deferral, Deferring, Copying
<1> QED BY <1>4, <1>5, <1>6, <1>7

\* A cancellation ends its stage.
LEMMA CancelAcloseKeeps == ASSUME Inv, CancelAclose PROVE Inv'
<1> USE DEF Inv
<1>1. SameMarks
  BY QuietTake, Messages DEF CancelAclose, Callback
<1>2. Advances
  BY StageAdvances DEF CancelAclose
<1>3. Typed'
  BY <1>1, <1>2 DEF SameMarks, Advances, Typed, TypeOK, CancelAclose, Callback, config, flags
<1>4. Handed' /\ Stops' /\ Locks'
  BY <1>1 DEF SameMarks, CancelAclose, Callback, flags, Handed, Stops, Locks, NothingBehindStop
<1>5. Submitted' /\ AcloseOnce'
  BY <1>1, <1>2 DEF SameMarks, Advances, CancelAclose, Callback, config, flags, Submitted, Over, AcloseOnce
<1>6. Deferral'
  BY <1>1, <1>2 DEF SameMarks, Advances, CancelAclose, Callback, flags, Deferral, Deferring, Copying
<1> QED BY <1>3, <1>4, <1>5, <1>6

\* A stage ends; only those that close the builder can end late.
LEMMA StageEndsKeeps == ASSUME Inv, NEW s, s \in Stages, StageEnds(s) PROVE Inv'
<1> USE DEF Inv
<1>1. UNCHANGED <<config, future, task, copying, ready, loop, pending, flags, lock, closer, draining, deferred>>
  BY DEF StageEnds
<1>2. SameMarks
  BY <1>1, QueueAlone
<1>3. Advances /\ aclose = s /\ aclose' # "none" /\ aclose # "ended"
  BY StageAdvances DEF StageEnds, Advances, Stages
<1>4. late' \in BOOLEAN /\ (late' => closeBuilder /\ aclose' \in {"observability", "ended"})
  <2>1. CASE late' = late
    BY <1>3, <2>1 DEF Advances, AcloseOnce, Typed, TypeOK
  <2>2. CASE late' = TRUE /\ s = "copies"
    BY <1>3, <2>2 DEF AcloseOnce, StageEnds, NextStage
  <2>3. CASE late' = TRUE /\ s = "observability"
    BY <1>3, <2>3 DEF AcloseOnce, StageEnds, NextStage
  <2> QED BY <2>1, <2>2, <2>3 DEF StageEnds
<1>5. Typed'
  BY <1>1, <1>3, <1>4 DEF Advances, Typed, TypeOK, config, flags
<1>6. Handed' /\ Stops' /\ Locks'
  BY <1>1 DEF flags, Handed, Stops, Locks, NothingBehindStop
<1>7. Submitted' /\ AcloseOnce'
  BY <1>1, <1>3, <1>4 DEF Advances, config, flags, Submitted, Over, AcloseOnce
<1>8. Deferral'
  BY <1>1, <1>3 DEF flags, Deferral, Deferring, Copying
<1> QED BY <1>5, <1>6, <1>7, <1>8

\* The deferred stop begins to wait, ...
LEMMA StartDeferredKeeps == ASSUME Inv, StartDeferred PROVE Inv'
<1> USE DEF Inv
<1>1. ready # <<>> /\ Head(ready) = DeferMessage /\ ready' = Tail(ready)
  BY DEF StartDeferred, Callback, DeferMessage
<1>2. /\ ready' \in Seq(Callbacks) /\ Among(ready, DeferMessage) /\ ~Among(ready', DeferMessage)
      /\ Among(ready', Stop) <=> Among(ready, Stop)
      /\ Among(ready', StartMessage) <=> Among(ready, StartMessage)
      /\ \A p \in Ops : Among(ready', <<"create", p>>) <=> Among(ready, <<"create", p>>)
      /\ Once(ready', StartMessage) /\ Once(ready', DeferMessage) /\ NoneBehind(ready')
  <2>1. DeferMessage # Stop /\ StartMessage # DeferMessage /\ \A p \in Ops : DeferMessage # <<"create", p>>
    BY Messages
  <2> QED BY <1>1, <2>1, TakenQueue DEF Typed, TypeOK, Stops, AcloseOnce, Deferral
<1>3. Typed'
  BY <1>2 DEF Typed, TypeOK, StartDeferred, Callback, config, flags
<1>4. Handed' /\ Stops' /\ Locks'
  BY <1>2 DEF StartDeferred, Callback, flags, Handed, Stops, Locks, NothingBehindStop
<1>5. Submitted' /\ AcloseOnce'
  BY <1>2 DEF StartDeferred, Callback, config, flags, Submitted, Over, AcloseOnce
<1>6. Deferral'
  BY <1>2 DEF StartDeferred, Callback, flags, Deferral, Deferring, Copying
<1> QED BY <1>3, <1>4, <1>5, <1>6

\* What a stop does to the queue.
LEMMA PostStop ==
    ASSUME Inv, Post(Stop)
    PROVE  /\ ready' \in Seq(Callbacks) /\ Among(ready', Stop)
           /\ Among(ready', DeferMessage) <=> Among(ready, DeferMessage)
           /\ Among(ready', StartMessage) <=> Among(ready, StartMessage)
           /\ \A p \in Ops : Among(ready', <<"create", p>>) <=> Among(ready, <<"create", p>>)
           /\ Once(ready', StartMessage) /\ Once(ready', DeferMessage) /\ NoneBehind(ready')
<1>1. /\ Stop # StartMessage /\ Stop # DeferMessage /\ Stop \in Callbacks /\ Stop \notin Creates
      /\ \A p \in Ops : Stop # <<"create", p>>
  BY Messages
<1>2. ready \in Seq(Callbacks) /\ ready' = Append(ready, Stop)
  BY DEF Inv, Typed, TypeOK, Post
<1>3. Once(ready, StartMessage) /\ Once(ready, DeferMessage) /\ NoneBehind(ready)
  BY DEF Inv, AcloseOnce, Deferral, Stops
<1> QED BY <1>1, <1>2, <1>3, PostedQueue

\* ... and stops the loop when no copy is left.
LEMMA DeferredStopKeeps == ASSUME Inv, DeferredStop PROVE Inv'
<1> USE DEF Inv
<1>1. /\ ready' \in Seq(Callbacks) /\ Among(ready', Stop)
      /\ Among(ready', DeferMessage) <=> Among(ready, DeferMessage)
      /\ Among(ready', StartMessage) <=> Among(ready, StartMessage)
      /\ \A p \in Ops : Among(ready', <<"create", p>>) <=> Among(ready, <<"create", p>>)
      /\ Once(ready', StartMessage) /\ Once(ready', DeferMessage) /\ NoneBehind(ready')
  BY PostStop DEF DeferredStop, Stop
<1>2. closed /\ ~Among(ready, DeferMessage) /\ Copying = {}
  BY DEF DeferredStop, Deferral, Deferring
<1>3. Typed'
  BY <1>1 DEF Typed, TypeOK, DeferredStop, config, flags
<1>4. Handed' /\ Stops' /\ Locks'
  BY <1>1, <1>2 DEF DeferredStop, flags, Handed, Stops, Locks, NothingBehindStop
<1>5. Submitted' /\ AcloseOnce'
  BY <1>1 DEF DeferredStop, config, flags, Submitted, Over, AcloseOnce
<1>6. Deferral'
  BY <1>1, <1>2 DEF DeferredStop, flags, Deferral, Deferring, Copying
<1> QED BY <1>3, <1>4, <1>5, <1>6

\* The loop stops: nothing it was handed is behind the stop, so that every operation a caller
\* waits for has a task, which is cancelled.
LEMMA LoopStopsKeeps == ASSUME Inv, LoopStops PROVE Inv'
<1> USE DEF Inv
<1>1. ready # <<>> /\ Head(ready) = Stop /\ ready' = Tail(ready)
  BY DEF LoopStops, Callback, Stop
<1>2. /\ ready' \in Seq(Callbacks) /\ Among(ready, Stop)
      /\ Among(ready', StartMessage) <=> Among(ready, StartMessage)
      /\ Among(ready', DeferMessage) <=> Among(ready, DeferMessage)
      /\ \A p \in Ops : ~Among(ready', <<"create", p>>)
      /\ \A p \in Ops : ~Among(ready, <<"create", p>>)
      /\ Once(ready', StartMessage) /\ Once(ready', DeferMessage) /\ NoneBehind(ready')
  <2>1. Stop # StartMessage /\ Stop # DeferMessage /\ \A p \in Ops : Stop # <<"create", p>>
    BY Messages
  <2> QED BY <1>1, <2>1, TakenQueue DEF Typed, TypeOK, Stops, AcloseOnce, Deferral
<1>3. Advances
  BY StageAdvances DEF LoopStops
<1>4. closed /\ ~Among(ready, DeferMessage) /\ deferred # "waiting" /\ deferred' = deferred
  BY <1>2 DEF Stops, Deferral, LoopStops
<1>5. /\ loop' = "cancelling" /\ future' = future
      /\ task' = [o \in Ops |-> IF task[o] = "running" THEN "cancelling" ELSE task[o]]
  BY DEF LoopStops, Callback
<1>6. Typed'
  BY <1>2, <1>3, <1>4, <1>5 DEF Advances, Typed, TypeOK, LoopStops, Callback, config, flags
<1>7. Handed' /\ Stops' /\ Locks'
  BY <1>2, <1>4, <1>5 DEF LoopStops, Callback, flags, Handed, Stops, Locks, NothingBehindStop
<1>8. Submitted' /\ AcloseOnce'
  BY <1>2, <1>3 DEF Advances, LoopStops, Callback, config, flags, Submitted, Over, AcloseOnce
<1>9. Deferral'
  BY <1>2, <1>3, <1>4 DEF Advances, LoopStops, Callback, flags, Deferral, Deferring, Copying
<1> QED BY <1>6, <1>7, <1>8, <1>9

\* The loop is closed.
LEMMA LoopClosesKeeps == ASSUME Inv, LoopCloses PROVE Inv'
<1> USE DEF Inv
<1>1. Typed'
  BY DEF Typed, TypeOK, LoopCloses, config, flags
<1>2. Handed' /\ Stops' /\ Locks'
  BY DEF LoopCloses, flags, Handed, Stops, Locks, NothingBehindStop
<1>3. Submitted' /\ AcloseOnce' /\ Deferral'
  BY DEF LoopCloses, config, flags, Submitted, Over, AcloseOnce, Deferral, Deferring, Copying
<1> QED BY <1>1, <1>2, <1>3
-----------------------------------------------------------------------------
\* A step of close, from any state in which it is under way: no other close is.
LEMMA StepFacts ==
    ASSUME Inv, NEW k \in Closers, NEW from, NEW to, Step(k, from, to),
           to \in {"no", "draining", "cancelling", "waiting", "stopping", "joining", "ended"}
    PROVE  /\ UNCHANGED <<config, task, copying, loop, pending, aclose, late, deferred>>
           /\ closer[k] = from
           /\ closer' \in [Closers -> {"no", "draining", "cancelling", "waiting", "stopping", "joining", "ended"}]
           /\ closer'[k] = to
           /\ \A j \in Closers : j # k => closer'[j] = closer[j]
           /\ from \notin {"no", "ended"} =>
                 lock = k /\ \A j \in Closers : j # k => closer[j] \in {"no", "ended"}
           /\ (\E j \in Closers : closer[j] \notin {"no", "ended"}) => ~Deferring
BY DEF Inv, Step, Typed, TypeOK, Locks, Deferral

\* A close begins, by closing the door to submissions and taking those in the backlog.
LEMMA CloseKeeps == ASSUME Inv, NEW k \in Closers, Close(k) PROVE Inv'
<1> USE DEF Inv
<1>1. lock = NoOne /\ UNCHANGED <<future, ready>>
  BY DEF Close
<1>2. \A j \in Closers : closer[j] \in {"no", "ended"}
  BY <1>1, FacadeAssumption DEF Locks
<1>3. CASE closed
  <2>1. Step(k, "no", "ended") /\ UNCHANGED <<flags, lock, draining>>
    BY <1>3 DEF Close
  <2>2. /\ UNCHANGED <<config, task, copying, loop, pending, aclose, late, deferred>>
        /\ closer' \in [Closers -> {"no", "draining", "cancelling", "waiting", "stopping", "joining", "ended"}]
        /\ \A j \in Closers : closer'[j] \in {"no", "ended"}
    BY <1>2, <2>1, StepFacts
  <2>3. Typed'
    BY <1>1, <2>1, <2>2 DEF Typed, TypeOK, config, flags
  <2>4. Handed' /\ Stops' /\ Locks'
    BY <1>1, <2>1, <2>2 DEF flags, Handed, Stops, Locks, NothingBehindStop
  <2>5. Submitted' /\ AcloseOnce' /\ Deferral'
    BY <1>1, <1>3, <2>1, <2>2 DEF config, flags, Submitted, Over, AcloseOnce, Deferral, Deferring, Copying
  <2> QED BY <2>3, <2>4, <2>5
<1>4. CASE ~closed
  <2>1. /\ Step(k, "no", "draining")
        /\ closing' = TRUE /\ lock' = k /\ draining' = pending /\ closed' = closed
    BY <1>4 DEF Close
  <2>2. /\ UNCHANGED <<config, task, copying, loop, pending, aclose, late, deferred>>
        /\ closer' \in [Closers -> {"no", "draining", "cancelling", "waiting", "stopping", "joining", "ended"}]
        /\ closer'[k] = "draining"
        /\ \A j \in Closers : j # k => closer'[j] \in {"no", "ended"}
    BY <1>2, <2>1, StepFacts
  <2>3. ~Among(ready, StartMessage) /\ aclose = "none" /\ ~Deferring
    BY <1>2, <1>4 DEF AcloseOnce, Deferral
  <2>4. Typed'
    BY <1>1, <2>1, <2>2 DEF Typed, TypeOK, config
  <2>5. Handed' /\ Stops' /\ Locks'
    BY <1>1, <1>4, <2>1, <2>2 DEF Handed, Stops, Locks, NothingBehindStop
  <2>6. Submitted'
    BY <1>1, <1>4, <2>1, <2>2, <2>3 DEF Submitted, Over
  <2>7. AcloseOnce' /\ Deferral'
    BY <1>1, <2>2, <2>3 DEF config, AcloseOnce, Deferral, Deferring, Copying
  <2> QED BY <2>4, <2>5, <2>6, <2>7
<1> QED BY <1>3, <1>4

\* The submissions are over, one way or the other, and aclose is posted.
LEMMA DrainedKeeps == ASSUME Inv, NEW k \in Closers, Drained(k) \/ Cancelled(k) PROVE Inv'
<1> USE DEF Inv
<1>1. /\ \A o \in draining : future[o] # "accepted"
      /\ Post(StartMessage) /\ UNCHANGED <<future, flags, lock, draining>>
      /\ Step(k, "draining", "waiting") \/ Step(k, "cancelling", "waiting")
  BY DEF Drained, Cancelled, StartMessage
<1>2. /\ UNCHANGED <<config, task, copying, loop, pending, aclose, late, deferred>>
      /\ closer[k] \in {"draining", "cancelling"}
      /\ closer' \in [Closers -> {"no", "draining", "cancelling", "waiting", "stopping", "joining", "ended"}]
      /\ closer'[k] = "waiting" /\ lock = k /\ ~Deferring
      /\ \A j \in Closers : j # k => closer[j] \in {"no", "ended"} /\ closer'[j] = closer[j]
  BY <1>1, StepFacts
<1>3. closing /\ ~closed /\ ~Among(ready, StartMessage) /\ aclose = "none"
  BY <1>2 DEF Locks, AcloseOnce
<1>4. \A o \in Submissions : future[o] # "accepted"
  BY <1>1, <1>2 DEF Submitted
<1>5. /\ ready' \in Seq(Callbacks)
      /\ Among(ready', Stop) <=> Among(ready, Stop)
      /\ Among(ready', DeferMessage) <=> Among(ready, DeferMessage)
      /\ \A p \in Ops : Among(ready', <<"create", p>>) <=> Among(ready, <<"create", p>>)
      /\ Once(ready', StartMessage) /\ Once(ready', DeferMessage) /\ NoneBehind(ready')
  <2>1. /\ StartMessage # Stop /\ StartMessage # DeferMessage /\ StartMessage \in Callbacks
        /\ StartMessage \notin Creates /\ \A p \in Ops : StartMessage # <<"create", p>>
    BY Messages
  <2>2. ready \in Seq(Callbacks) /\ ready' = Append(ready, StartMessage)
    BY <1>1 DEF Typed, TypeOK, Post
  <2>3. Once(ready, StartMessage) /\ Once(ready, DeferMessage) /\ NoneBehind(ready)
    BY DEF AcloseOnce, Deferral, Stops
  <2> QED BY <1>3, <2>1, <2>2, <2>3, PostedQueue
<1>6. Typed'
  BY <1>1, <1>2, <1>5 DEF Typed, TypeOK, config, flags
<1>7. Handed' /\ Stops' /\ Locks'
  BY <1>1, <1>2, <1>3, <1>5 DEF flags, Handed, Stops, Locks, NothingBehindStop
<1>8. Submitted'
  BY <1>1, <1>2, <1>3, <1>4, <1>5 DEF flags, Submitted, Over
<1>9. AcloseOnce' /\ Deferral'
  BY <1>1, <1>2, <1>3, <1>5 DEF config, flags, AcloseOnce, Deferral, Deferring, Copying
<1> QED BY <1>6, <1>7, <1>8, <1>9

\* The submissions take too long, ...
LEMMA DrainTimeoutKeeps == ASSUME Inv, NEW k \in Closers, DrainTimeout(k) PROVE Inv'
<1> USE DEF Inv
<1>1. UNCHANGED <<future, ready, flags, lock, draining>> /\ Step(k, "draining", "cancelling")
  BY DEF DrainTimeout
<1>2. /\ UNCHANGED <<config, task, copying, loop, pending, aclose, late, deferred>>
      /\ closer' \in [Closers -> {"no", "draining", "cancelling", "waiting", "stopping", "joining", "ended"}]
      /\ closer[k] = "draining" /\ closer'[k] = "cancelling" /\ lock = k /\ ~Deferring
      /\ \A j \in Closers : j # k => closer[j] \in {"no", "ended"} /\ closer'[j] = closer[j]
  BY <1>1, StepFacts
<1>3. Typed'
  BY <1>1, <1>2 DEF Typed, TypeOK, config, flags
<1>4. Handed' /\ Stops' /\ Locks'
  BY <1>1, <1>2 DEF flags, Handed, Stops, Locks, NothingBehindStop
<1>5. Submitted' /\ AcloseOnce' /\ Deferral'
  BY <1>1, <1>2 DEF config, flags, Submitted, Over, AcloseOnce, Deferral, Deferring, Copying
<1> QED BY <1>3, <1>4, <1>5

\* ... and are cancelled one by one.
LEMMA CancelOneKeeps == ASSUME Inv, NEW k \in Closers, NEW o \in Submissions, CancelOne(k, o) PROVE Inv'
<1> USE DEF Inv
<1>1. /\ future' = [future EXCEPT ![o] = "cancelled"] /\ Post(<<"cancel", o>>)
      /\ UNCHANGED <<flags, lock, draining>> /\ Step(k, "cancelling", "cancelling")
  BY DEF CancelOne
<1>2. SameMarks
  <2>1. <<"cancel", o>> \in Callbacks /\ <<"cancel", o>> \notin Creates \cup {Stop, StartMessage, DeferMessage}
    BY Messages DEF Ops
  <2> QED BY <1>1, <2>1, QuietPost
<1>3. /\ UNCHANGED <<config, task, copying, loop, pending, aclose, late, deferred>>
      /\ closer' \in [Closers -> {"no", "draining", "cancelling", "waiting", "stopping", "joining", "ended"}]
      /\ closer[k] = "cancelling" /\ closer'[k] = "cancelling" /\ lock = k /\ ~Deferring
      /\ \A j \in Closers : j # k => closer[j] \in {"no", "ended"} /\ closer'[j] = closer[j]
  BY <1>1, StepFacts
<1>4. Typed'
  BY <1>1, <1>2, <1>3 DEF SameMarks, Typed, TypeOK, config, flags
<1>5. Handed' /\ Stops' /\ Locks'
  BY <1>1, <1>2, <1>3 DEF SameMarks, Typed, TypeOK, flags, Handed, Stops, Locks, NothingBehindStop
<1>6. Submitted' /\ AcloseOnce' /\ Deferral'
  BY <1>1, <1>2, <1>3 DEF SameMarks, Typed, TypeOK, config, flags, Submitted, Over, AcloseOnce, Deferral,
             Deferring, Copying, Ops
<1> QED BY <1>4, <1>5, <1>6

\* The wait for aclose is over and the facade is closed.  If aclose was late, its copies have
\* the loop until they end.
LEMMA AcloseEndedKeeps == ASSUME Inv, NEW k \in Closers, AcloseEnded(k) PROVE Inv'
<1> USE DEF Inv
<1>1. closed' = TRUE /\ closing' = FALSE /\ aclose = "ended" /\ UNCHANGED <<future, draining>>
  BY DEF AcloseEnded
<1>2. \A o \in Submissions : future[o] # "accepted"
  BY <1>1 DEF Submitted, Over
<1>3. CASE late
  <2>1. Step(k, "waiting", "ended") /\ Post(DeferMessage) /\ lock' = NoOne
    BY <1>3 DEF AcloseEnded, DeferMessage
  <2>2. /\ UNCHANGED <<config, task, copying, loop, pending, aclose, late, deferred>>
        /\ closer[k] = "waiting" /\ lock = k /\ ~Deferring
        /\ closer' \in [Closers -> {"no", "draining", "cancelling", "waiting", "stopping", "joining", "ended"}]
        /\ \A j \in Closers : closer'[j] \in {"no", "ended"}
    BY <2>1, StepFacts
  <2>3. ~closed /\ ~Among(ready, Stop) /\ loop = "running" /\ ~Among(ready, DeferMessage) /\ deferred = "no"
    BY <2>2 DEF Locks, Stops, Deferring
  <2>4. /\ ready' \in Seq(Callbacks)
        /\ Among(ready', Stop) <=> Among(ready, Stop)
        /\ Among(ready', StartMessage) <=> Among(ready, StartMessage)
        /\ \A p \in Ops : Among(ready', <<"create", p>>) <=> Among(ready, <<"create", p>>)
        /\ Once(ready', StartMessage) /\ Once(ready', DeferMessage) /\ NoneBehind(ready')
    <3>1. /\ DeferMessage # Stop /\ StartMessage # DeferMessage /\ DeferMessage \in Callbacks
          /\ DeferMessage \notin Creates /\ \A p \in Ops : DeferMessage # <<"create", p>>
      BY Messages
    <3>2. ready \in Seq(Callbacks) /\ ready' = Append(ready, DeferMessage)
      BY <2>1 DEF Typed, TypeOK, Post
    <3>3. Once(ready, StartMessage) /\ Once(ready, DeferMessage) /\ NoneBehind(ready)
      BY DEF AcloseOnce, Deferral, Stops
    <3> QED BY <2>3, <3>1, <3>2, <3>3, PostedQueue
  <2>5. Typed'
    BY <1>1, <2>1, <2>2, <2>4 DEF Typed, TypeOK, config
  <2>6. Handed' /\ Stops' /\ Locks'
    BY <1>1, <2>2, <2>3, <2>4 DEF Handed, Stops, Locks, NothingBehindStop
  <2>7. Submitted' /\ AcloseOnce'
    BY <1>1, <1>2, <2>2, <2>4 DEF config, Submitted, Over, AcloseOnce
  <2>8. Deferral'
    BY <1>1, <1>3, <2>2, <2>3, <2>4 DEF Deferral, Deferring
  <2> QED BY <2>5, <2>6, <2>7, <2>8
<1>4. CASE ~late
  <2>1. Step(k, "waiting", "stopping") /\ ready' = ready /\ lock' = lock
    BY <1>4 DEF AcloseEnded
  <2>2. /\ UNCHANGED <<config, task, copying, loop, pending, aclose, late, deferred>>
        /\ closer[k] = "waiting" /\ lock = k /\ ~Deferring /\ closer'[k] = "stopping"
        /\ closer' \in [Closers -> {"no", "draining", "cancelling", "waiting", "stopping", "joining", "ended"}]
        /\ \A j \in Closers : j # k => closer[j] \in {"no", "ended"} /\ closer'[j] = closer[j]
    BY <2>1, StepFacts
  <2>3. Typed'
    BY <1>1, <2>1, <2>2 DEF Typed, TypeOK, config
  <2>4. Handed' /\ Stops' /\ Locks'
    BY <1>1, <2>1, <2>2 DEF Handed, Stops, Locks, NothingBehindStop
  <2>5. Submitted' /\ AcloseOnce'
    BY <1>1, <1>2, <2>1, <2>2 DEF config, Submitted, Over, AcloseOnce
  <2>6. Deferral'
    BY <2>1, <2>2 DEF Deferral, Deferring
  <2> QED BY <2>3, <2>4, <2>5, <2>6
<1> QED BY <1>3, <1>4

\* The facade's own wait expires first.
LEMMA AcloseTimeoutKeeps == ASSUME Inv, NEW k \in Closers, AcloseTimeout(k) PROVE Inv'
<1> USE DEF Inv
<1>1. /\ closed' = TRUE /\ closing' = FALSE /\ UNCHANGED <<future, lock, draining>>
      /\ Step(k, "waiting", "stopping") /\ Post(<<"loop", "cancel aclose">>)
  BY DEF AcloseTimeout
<1>2. SameMarks
  BY <1>1, QuietPost, Messages
<1>3. /\ UNCHANGED <<config, task, copying, loop, pending, aclose, late, deferred>>
      /\ closer[k] = "waiting" /\ lock = k /\ ~Deferring /\ closer'[k] = "stopping"
      /\ closer' \in [Closers -> {"no", "draining", "cancelling", "waiting", "stopping", "joining", "ended"}]
      /\ \A j \in Closers : j # k => closer[j] \in {"no", "ended"} /\ closer'[j] = closer[j]
  <2>1. Step(k, "waiting", "stopping")
    BY <1>1
  <2> QED BY <2>1, StepFacts
<1>4. \A o \in Submissions : future[o] # "accepted"
  BY <1>3 DEF Submitted, Over
<1>5. Typed'
  BY <1>1, <1>2, <1>3 DEF SameMarks, Typed, TypeOK, config
<1>6. Handed' /\ Stops' /\ Locks'
  BY <1>1, <1>2, <1>3 DEF SameMarks, Handed, Stops, Locks, NothingBehindStop
<1>7. Submitted' /\ AcloseOnce'
  BY <1>1, <1>2, <1>3, <1>4 DEF SameMarks, config, Submitted, Over, AcloseOnce
<1>8. Deferral'
  BY <1>2, <1>3 DEF SameMarks, Deferral, Deferring
<1> QED BY <1>5, <1>6, <1>7, <1>8

\* The stop is posted, ...
LEMMA StopLoopKeeps == ASSUME Inv, NEW k \in Closers, StopLoop(k) PROVE Inv'
<1> USE DEF Inv
<1>1. Step(k, "stopping", "joining") /\ Post(Stop) /\ UNCHANGED <<future, flags, lock, draining>>
  BY DEF StopLoop, Stop
<1>2. /\ ready' \in Seq(Callbacks) /\ Among(ready', Stop)
      /\ Among(ready', DeferMessage) <=> Among(ready, DeferMessage)
      /\ Among(ready', StartMessage) <=> Among(ready, StartMessage)
      /\ \A p \in Ops : Among(ready', <<"create", p>>) <=> Among(ready, <<"create", p>>)
      /\ Once(ready', StartMessage) /\ Once(ready', DeferMessage) /\ NoneBehind(ready')
  BY <1>1, PostStop
<1>3. /\ UNCHANGED <<config, task, copying, loop, pending, aclose, late, deferred>>
      /\ closer[k] = "stopping" /\ lock = k /\ ~Deferring /\ closer'[k] = "joining"
      /\ closer' \in [Closers -> {"no", "draining", "cancelling", "waiting", "stopping", "joining", "ended"}]
      /\ \A j \in Closers : j # k => closer[j] \in {"no", "ended"} /\ closer'[j] = closer[j]
  BY <1>1, StepFacts
<1>4. closed
  BY <1>3 DEF Locks
<1>5. Typed'
  BY <1>1, <1>2, <1>3 DEF Typed, TypeOK, config, flags
<1>6. Handed' /\ Stops' /\ Locks'
  BY <1>1, <1>2, <1>3, <1>4 DEF flags, Handed, Stops, Locks, NothingBehindStop
<1>7. Submitted' /\ AcloseOnce'
  BY <1>1, <1>2, <1>3, <1>4 DEF config, flags, Submitted, Over, AcloseOnce
<1>8. Deferral'
  BY <1>2, <1>3 DEF Deferral, Deferring
<1> QED BY <1>5, <1>6, <1>7, <1>8

\* ... and close returns.
LEMMA JoinKeeps == ASSUME Inv, NEW k \in Closers, Join(k) PROVE Inv'
<1> USE DEF Inv
<1>1. Step(k, "joining", "ended") /\ lock' = NoOne /\ UNCHANGED <<future, ready, flags, draining>>
  BY DEF Join
<1>2. /\ UNCHANGED <<config, task, copying, loop, pending, aclose, late, deferred>>
      /\ closer[k] = "joining" /\ ~Deferring
      /\ closer' \in [Closers -> {"no", "draining", "cancelling", "waiting", "stopping", "joining", "ended"}]
      /\ \A j \in Closers : closer'[j] \in {"no", "ended"}
  BY <1>1, StepFacts
<1>3. closed
  BY <1>2 DEF Locks
<1>4. Typed'
  BY <1>1, <1>2 DEF Typed, TypeOK, config, flags
<1>5. Handed' /\ Stops' /\ Locks'
  BY <1>1, <1>2 DEF flags, Handed, Stops, Locks, NothingBehindStop
<1>6. Submitted' /\ AcloseOnce' /\ Deferral'
  BY <1>1, <1>2, <1>3 DEF config, flags, Submitted, Over, AcloseOnce, Deferral, Deferring
<1> QED BY <1>4, <1>5, <1>6

-----------------------------------------------------------------------------
\* Every step keeps the invariant.
LEMMA StepInv == Inv /\ [Next]_vars => Inv'
<1> SUFFICES ASSUME Inv, [Next]_vars PROVE Inv'
  OBVIOUS
<1>1. ASSUME NEW o \in Ops, \/ Caller(o) \/ SubmissionCompleted(o) \/ StartCopy(o) \/ CopyEnds(o) \/ TaskEnds(o)
      PROVE  Inv'
  BY <1>1, ScheduleKeeps, ScheduleSubmissionKeeps, CompletedKeeps, CopyKeeps, TaskEndsKeeps DEF Caller
<1>2. CASE LoopWork
  <2>1. ASSUME NEW o \in Ops, CreateTask(o) \/ CancelTask(o) \/ (task[o] = "cancelling" /\ TaskEnds(o))
        PROVE  Inv'
    BY <2>1, CreateTaskKeeps, CancelTaskKeeps, TaskEndsKeeps
  <2>2. ASSUME StageEnds("copies") \/ StageEnds("observability") PROVE Inv'
    BY <2>2, StageEndsKeeps DEF Stages
  <2> QED BY <1>2, <2>1, <2>2, StartAcloseKeeps, CancelAcloseKeeps, StartDeferredKeeps, DeferredStopKeeps,
             LoopStopsKeeps, LoopClosesKeeps DEF LoopWork
<1>3. CASE StageEnds("refreshes")
  BY <1>3, StageEndsKeeps DEF Stages
<1>4. ASSUME NEW k \in Closers, Close(k) \/ ClosingWork(k) PROVE Inv'
  <2>1. ASSUME NEW o \in Submissions, CancelOne(k, o) PROVE Inv'
    BY <2>1, CancelOneKeeps
  <2> QED BY <1>4, <2>1, CloseKeeps, DrainedKeeps, DrainTimeoutKeeps, AcloseEndedKeeps, AcloseTimeoutKeeps,
             StopLoopKeeps, JoinKeeps DEF ClosingWork
<1>5. CASE UNCHANGED vars
  <2>1. Typed'
    BY <1>5 DEF vars, Inv, Typed, TypeOK
  <2>2. Handed' /\ Stops' /\ Locks'
    BY <1>5 DEF vars, Inv, Handed, Stops, Locks, NothingBehindStop
  <2>3. Submitted' /\ AcloseOnce' /\ Deferral'
    BY <1>5 DEF vars, Inv, Submitted, Over, AcloseOnce, Deferral, Deferring, Copying
  <2> QED BY <2>1, <2>2, <2>3 DEF Inv
<1> QED BY <1>1, <1>2, <1>3, <1>4, <1>5 DEF Next

\* The invariant of the facade.
THEOREM Invariance == Spec => []Inv
<1> QED BY InitInv, StepInv, PTL DEF Spec

\* close takes the facade down in order, whoever calls, submits and closes meanwhile: no
\* coroutine is handed to the loop behind its stop, the builder is closed when no submission is
\* left, and a deferred stop outlasts the late copies.
THEOREM ShutdownInOrder == Spec => []ShutdownOrder
<1>1. Inv => ShutdownOrder
  <2> SUFFICES ASSUME Inv PROVE ShutdownOrder
    OBVIOUS
  <2>1. TypeOK
    BY DEF Inv, Typed
  <2>2. NothingBehindStop
    BY DEF Inv, Handed, NothingBehindStop
  <2>3. BuilderClosedAfterSubmissions
    BY DEF Inv, Submitted, Over, BuilderClosedAfterSubmissions
  <2>4. DeferredStopWaits
    BY <2>1 DEF Inv, Deferral, DeferredStopWaits, TypeOK
  <2> QED BY <2>1, <2>2, <2>3, <2>4 DEF ShutdownOrder
<1> QED BY <1>1, Invariance, PTL
=============================================================================
