---------------------- MODULE BufferedDispatcher_proofs ----------------------
(***************************************************************************)
(* For any number of producers and closing threads, any max_pending and    *)
(* every overflow policy: the counters of the buffer are exact, records    *)
(* reach the handler in order, and shutdown leaves none behind.            *)
(***************************************************************************)
EXTENDS BufferedDispatcher, FiniteSetTheorems, SequenceTheorems, TLAPS

-----------------------------------------------------------------------------
\* The inductive invariant.  The first close is done with the queue: it has posted the sentinel.
Posted == first # NoOne /\ closing[first] \in {"join", "stopped", "timed out"}

\* Who closes: one thread is the first and alone disposes of the queue, and closed shuts the
\* producers out.
OneCloser ==
    /\ ~closed => first = NoOne /\ \A c \in Closers : closing[c] = "no"
    /\ closed => first \in Closers /\ holder = NoOne /\ closing[first] # "no"
    /\ \A c \in Closers : closing[c] \in {"discard", "count", "sentinel"} => c = first

\* What the queue holds: records only until the sentinel is posted, and the sentinel at most
\* from then on.
QueueShape ==
    /\ ~Posted => worker # "stopped" /\ \A i \in DOMAIN queue : queue[i] # Sentinel
    /\ Posted => Len(queue) <= 1 /\ \A i \in DOMAIN queue : queue[i] = Sentinel
    /\ worker = "stopped" => queue = <<>>
    /\ \A c \in Closers : closing[c] = "sentinel" => queue = <<>>

\* How many records are queued, with the worker, or with the thread that discards them.
Queued == IF Posted THEN 0 ELSE Len(queue)
Discarding == first # NoOne /\ closing[first] = "count"
Counted ==
    /\ pending = Queued + One(worker \in {"handling", "handled"}) + One(Discarding)
    /\ RecordsAccounted
    /\ worker # "dead" => lost = 0

\* A record is newer than those before it; the one a producer holds is newer than all.
Newest(r) == r <= submitted /\ (holder # NoOne => r < submitted)
Ordered ==
    /\ \A i \in DOMAIN queue : queue[i] # Sentinel => Newest(queue[i])
    /\ \A i \in DOMAIN log : Newest(log[i])
    /\ holder # NoOne => submitted > 0
    /\ \A i, j \in DOMAIN queue :
          i < j /\ queue[i] # Sentinel /\ queue[j] # Sentinel => queue[i] < queue[j]
    /\ \A i \in DOMAIN log, j \in DOMAIN queue : queue[j] # Sentinel => log[i] < queue[j]
    /\ DeliveredInOrder

\* A producer that met a full queue finds at most one record gone.
StillFull ==
    /\ holder # NoOne => overflow = "drop_oldest" /\ Len(queue) >= maxPending - 1
    /\ holder # NoOne /\ worker = "idle" => Len(queue) = maxPending
    /\ NewestKept

Inv == TypeOK /\ OneCloser /\ QueueShape /\ Counted /\ Ordered /\ StillFull

-----------------------------------------------------------------------------
\* A record is put at the end of a queue, ...
LEMMA Appended ==
    ASSUME NEW S, NEW q \in Seq(S), NEW x \in S
    PROVE  /\ Append(q, x) \in Seq(S) /\ Len(q) \in Nat /\ Len(Append(q, x)) = Len(q) + 1
           /\ DOMAIN q = 1..Len(q) /\ DOMAIN Append(q, x) = 1..(Len(q) + 1)
           /\ \A i \in DOMAIN q : Append(q, x)[i] = q[i]
           /\ Append(q, x)[Len(q) + 1] = x
BY AppendProperties, LenProperties

\* ... taken from its head, ...
LEMMA Shortened ==
    ASSUME NEW S, NEW q \in Seq(S), q # <<>>
    PROVE  /\ Tail(q) \in Seq(S) /\ Len(q) \in Nat /\ Len(q) >= 1 /\ Len(Tail(q)) = Len(q) - 1
           /\ DOMAIN q = 1..Len(q) /\ DOMAIN Tail(q) = 1..(Len(q) - 1)
           /\ \A i \in DOMAIN Tail(q) : i \in Nat /\ i + 1 \in DOMAIN q /\ Tail(q)[i] = q[i + 1]
           /\ Head(q) = q[1] /\ 1 \in DOMAIN q /\ Head(q) \in S
<1>1. Len(q) \in Nat /\ Len(q) >= 1 /\ DOMAIN q = 1..Len(q)
  BY LenProperties, EmptySeq
<1>2. /\ Head(q) \in S /\ Tail(q) \in Seq(S) /\ Len(Tail(q)) = Len(q) - 1
      /\ \A i \in 1..Len(Tail(q)) : Tail(q)[i] = q[i + 1]
  BY HeadTailProperties
<1>3. DOMAIN Tail(q) = 1..(Len(q) - 1)
  BY <1>2, LenProperties
<1>4. Head(q) = q[1] /\ 1 \in DOMAIN q
  BY <1>1
<1> QED BY <1>1, <1>2, <1>3, <1>4

\* ... or both.
LEMMA Replaced ==
    ASSUME NEW S, NEW q \in Seq(S), q # <<>>, NEW x \in S
    PROVE  /\ Append(Tail(q), x) \in Seq(S) /\ Len(q) \in Nat /\ Len(q) >= 1 /\ Len(Append(Tail(q), x)) = Len(q)
           /\ DOMAIN q = 1..Len(q) /\ DOMAIN Append(Tail(q), x) = 1..Len(q)
           /\ \A i \in 1..(Len(q) - 1) : Append(Tail(q), x)[i] = q[i + 1]
           /\ Append(Tail(q), x)[Len(q)] = x
<1> DEFINE t == Tail(q)  n == Len(q)
<1>1. /\ t \in Seq(S) /\ n \in Nat /\ n >= 1 /\ Len(t) = n - 1 /\ DOMAIN q = 1..n /\ DOMAIN t = 1..(n - 1)
      /\ \A i \in DOMAIN t : t[i] = q[i + 1]
  BY Shortened
<1> HIDE DEF t, n
<1>2. /\ Append(t, x) \in Seq(S) /\ Len(Append(t, x)) = Len(t) + 1 /\ DOMAIN Append(t, x) = 1..(Len(t) + 1)
      /\ \A i \in DOMAIN t : Append(t, x)[i] = t[i]
      /\ Append(t, x)[Len(t) + 1] = x
  BY <1>1, Appended
<1>3. Len(t) + 1 = n
  BY <1>1
<1> QED BY <1>1, <1>2, <1>3 DEF t, n

\* The numbers are numbers, ...
LEMMA Numbers ==
    ASSUME Inv
    PROVE  /\ maxPending \in Nat /\ maxPending >= 1 /\ MaxRecords \in Nat
           /\ submitted \in Nat /\ submitted <= MaxRecords
           /\ enqueued \in Nat /\ delivered \in Nat /\ dropped \in Nat /\ failures \in Nat
           /\ pending \in Nat /\ refused \in Nat /\ raised \in Nat /\ lost \in Nat
<1>1. MaxRecords \in Nat
  BY BufferAssumption
<1>2. maxPending \in Nat /\ maxPending >= 1
  <2>1. maxPending \in Sizes
    BY DEF Inv, TypeOK
  <2>2. maxPending \in Nat \ {0}
    BY <2>1, BufferAssumption
  <2> QED BY <2>2
<1>3. submitted \in 0..MaxRecords /\ lost \in 0..1
  BY DEF Inv, TypeOK
<1>4. submitted \in Nat /\ submitted <= MaxRecords /\ lost \in Nat
  BY <1>1, <1>3
<1>5. /\ enqueued \in Nat /\ delivered \in Nat /\ dropped \in Nat /\ failures \in Nat
      /\ pending \in Nat /\ refused \in Nat /\ raised \in Nat
  BY DEF Inv, TypeOK
<1> QED BY <1>1, <1>2, <1>4, <1>5

\* ... and so are the records.
LEMMA Types ==
    ASSUME Inv
    PROVE  /\ queue \in Seq(0..MaxRecords) /\ Len(queue) \in Nat /\ DOMAIN queue = 1..Len(queue)
           /\ \A i \in DOMAIN queue : queue[i] \in Nat
           /\ log \in Seq(1..MaxRecords) /\ Len(log) \in Nat /\ DOMAIN log = 1..Len(log)
           /\ \A i \in DOMAIN log : log[i] \in Nat
<1>1. queue \in Seq(0..MaxRecords) /\ log \in Seq(1..MaxRecords)
  BY DEF Inv, TypeOK
<1>2. /\ Len(queue) \in Nat /\ DOMAIN queue = 1..Len(queue) /\ Len(log) \in Nat /\ DOMAIN log = 1..Len(log)
  BY <1>1, LenProperties
<1>3. (\A i \in DOMAIN queue : queue[i] \in 0..MaxRecords) /\ \A i \in DOMAIN log : log[i] \in 1..MaxRecords
  BY <1>1, <1>2, ElementOfSeq
<1>4. (\A i \in DOMAIN queue : queue[i] \in Nat) /\ \A i \in DOMAIN log : log[i] \in Nat
  BY <1>3, BufferAssumption
<1> QED BY <1>1, <1>2, <1>4

\* The invariant holds initially.
LEMMA InitInv == Init => Inv
<1> SUFFICES ASSUME Init PROVE Inv
  OBVIOUS
<1>1. /\ Len(queue) = 0 /\ queue \in Seq(0..MaxRecords) /\ log \in Seq(1..MaxRecords)
      /\ DOMAIN queue = {} /\ DOMAIN log = {}
  BY EmptySeq, LenProperties DEF Init
<1>2. maxPending \in Nat /\ MaxRecords \in Nat
  BY BufferAssumption DEF Init
<1>3. TypeOK
  <2>1. 0 \in 0..MaxRecords /\ 0 \in 0..1 /\ Len(queue) <= maxPending
    BY <1>1, <1>2
  <2> QED BY <1>1, <2>1 DEF Init, TypeOK
<1>4. ~Posted /\ ~Discarding
  BY DEF Init, Posted, Discarding
<1>5. OneCloser
  BY DEF Init, OneCloser
<1>6. QueueShape
  BY <1>1, <1>4 DEF Init, QueueShape
<1>7. Counted
  BY <1>1, <1>4 DEF Init, Counted, Queued, RecordsAccounted, One
<1>8. Ordered
  BY <1>1 DEF Init, Ordered, DeliveredInOrder
<1>9. StillFull
  BY DEF Init, StillFull, NewestKept
<1> QED BY <1>3, <1>5, <1>6, <1>7, <1>8, <1>9 DEF Inv

-----------------------------------------------------------------------------
\* A record finds room.
LEMMA SubmitKeeps == ASSUME Inv, NEW p \in Producers, Submit(p) PROVE Inv'
<1> USE DEF Inv
<1>1. /\ holder = NoOne /\ ~closed /\ Len(queue) < maxPending /\ submitted < MaxRecords
      /\ submitted' = submitted + 1 /\ queue' = Append(queue, submitted + 1)
      /\ enqueued' = enqueued + 1 /\ pending' = pending + 1
      /\ UNCHANGED <<overflow, maxPending, holder, worker, closed, first, closing, delivered, dropped, failures,
                     refused, raised, log, lost>>
  BY DEF Submit, Put, config, closers
<1>2. submitted + 1 \in 1..MaxRecords /\ submitted + 1 \in 0..MaxRecords
  <2>1. submitted < MaxRecords
    BY <1>1
  <2> QED BY <2>1, Numbers
<1>3. /\ queue' \in Seq(0..MaxRecords) /\ Len(queue') = Len(queue) + 1
      /\ DOMAIN queue' = 1..(Len(queue) + 1) /\ DOMAIN queue = 1..Len(queue)
      /\ \A i \in DOMAIN queue : queue'[i] = queue[i]
      /\ queue'[Len(queue) + 1] = submitted + 1
  BY <1>1, <1>2, Types, Appended
<1>4. first = NoOne /\ ~Posted /\ ~Posted' /\ ~Discarding /\ ~Discarding' /\ \A c \in Closers : closing[c] = "no"
  BY <1>1 DEF OneCloser, Posted, Discarding
<1>5. TypeOK'
  <2>1. /\ Len(queue') <= maxPending' /\ submitted' \in 0..MaxRecords
        /\ enqueued' \in Nat /\ pending' \in Nat
    <3>1. Len(queue) + 1 <= maxPending
      <4>1. Len(queue) < maxPending
        BY <1>1
      <4>2. Len(queue) \in Nat /\ maxPending \in Nat
        BY Numbers, Types
      <4> QED BY <4>1, <4>2
    <3>2. Len(queue') <= maxPending'
      BY <1>1, <1>3, <3>1
    <3>3. submitted' \in 0..MaxRecords
      BY <1>1, <1>2
    <3>4. enqueued' = enqueued + 1 /\ pending' = pending + 1
      BY <1>1
    <3> QED BY <3>2, <3>3, <3>4, Numbers
  <2> QED BY <1>1, <1>3, <2>1 DEF TypeOK
<1>6. OneCloser'
  BY <1>1 DEF OneCloser
<1>7. QueueShape'
  <2>1. \A i \in DOMAIN queue' : queue'[i] # Sentinel
    <3> SUFFICES ASSUME NEW i \in DOMAIN queue' PROVE queue'[i] # Sentinel
      OBVIOUS
    <3>1. CASE i \in DOMAIN queue
      BY <1>3, <1>4, <3>1 DEF QueueShape
    <3>2. CASE i = Len(queue) + 1
      BY <1>2, <1>3, <3>2 DEF Sentinel
    <3> QED BY <1>3, <3>1, <3>2, Types
  <2> QED BY <1>1, <1>4, <2>1 DEF QueueShape
<1>8. Counted'
  <2>1. pending' = (Queued + One(worker \in {"handling", "handled"}) + One(Discarding))'
    <3>1. Queued' = Queued + 1 /\ Queued \in Nat
      BY <1>3, <1>4, Types DEF Queued
    <3>2. worker' = worker /\ pending' = pending + 1 /\ ~Discarding /\ ~Discarding'
      BY <1>1, <1>4
    <3> QED BY <3>1, <3>2, Numbers DEF Counted, One
  <2>2. RecordsAccounted'
    <3>1. /\ submitted' = submitted + 1 /\ pending' = pending + 1
          /\ UNCHANGED <<holder, worker, delivered, dropped, failures, raised, lost>>
      BY <1>1
    <3> QED BY <3>1, Numbers DEF Counted, RecordsAccounted, One
  <2> QED BY <1>1, <2>1, <2>2 DEF Counted
<1>9. Ordered'
  <2>1. \A i \in DOMAIN queue : queue[i] # Sentinel /\ queue[i] <= submitted
    BY <1>4 DEF QueueShape, Ordered, Newest
  <2>2. \A i \in DOMAIN queue' : i \in DOMAIN queue \/ i = Len(queue) + 1
    BY <1>3, Types
  <2>3. \A i \in DOMAIN queue' : Newest(queue[i])'
    <3> SUFFICES ASSUME NEW i \in DOMAIN queue' PROVE queue'[i] <= submitted + 1
      BY <1>1 DEF Newest
    <3>1. CASE i \in DOMAIN queue
      BY <1>3, <2>1, <3>1, Numbers, Types
    <3>2. CASE i = Len(queue) + 1
      BY <1>3, <3>2, Numbers
    <3> QED BY <2>2, <3>1, <3>2
  <2>4. \A i \in DOMAIN log : Newest(log[i])'
    <3> SUFFICES ASSUME NEW i \in DOMAIN log PROVE log[i] <= submitted + 1
      BY <1>1 DEF Newest
    <3>1. log[i] <= submitted /\ log[i] \in Nat
      BY Types DEF Ordered, Newest
    <3> QED BY <3>1, Numbers
  <2>5. ASSUME NEW i \in DOMAIN queue', NEW j \in DOMAIN queue', i < j PROVE queue'[i] < queue'[j]
    <3>1. CASE j \in DOMAIN queue
      <4>1. i \in DOMAIN queue
        BY <1>3, <2>5, <3>1, Types
      <4> QED BY <1>3, <2>1, <2>5, <3>1, <4>1 DEF Ordered
    <3>2. CASE j = Len(queue) + 1
      <4>1. i \in DOMAIN queue
        BY <1>3, <2>5, <3>2, Types
      <4> QED BY <1>3, <2>1, <3>2, <4>1, Numbers, Types
    <3> QED BY <2>2, <3>1, <3>2
  <2>6. ASSUME NEW i \in DOMAIN log, NEW j \in DOMAIN queue' PROVE log[i] < queue'[j]
    <3>1. CASE j \in DOMAIN queue
      BY <1>3, <2>1, <3>1 DEF Ordered
    <3>2. CASE j = Len(queue) + 1
      BY <1>3, <3>2, Numbers, Types DEF Ordered, Newest
    <3> QED BY <2>2, <3>1, <3>2
  <2>7. DeliveredInOrder'
    BY <1>1 DEF Ordered, DeliveredInOrder
  <2> QED BY <1>1, <2>3, <2>4, <2>5, <2>6, <2>7 DEF Ordered
<1>10. StillFull'
  BY <1>1 DEF StillFull, NewestKept
<1> QED BY <1>5, <1>6, <1>7, <1>8, <1>9, <1>10

\* A record with a number of its own comes: all that were there are older.
LEMMA Older ==
    ASSUME Inv, holder = NoOne, submitted' = submitted + 1, UNCHANGED <<queue, log>>
    PROVE  /\ \A i \in DOMAIN queue : queue[i] # Sentinel => Newest(queue[i])'
           /\ \A i \in DOMAIN log : Newest(log[i])'
           /\ submitted' > 0
<1>1. ASSUME NEW r \in Nat, Newest(r) PROVE r < submitted' /\ r <= submitted'
  BY <1>1, Numbers DEF Newest
<1>2. ASSUME NEW i \in DOMAIN queue, queue[i] # Sentinel PROVE Newest(queue[i])'
  BY <1>1, <1>2, Types DEF Inv, Ordered, Newest
<1>3. ASSUME NEW i \in DOMAIN log PROVE Newest(log[i])'
  BY <1>1, <1>3, Types DEF Inv, Ordered, Newest
<1>4. submitted' > 0
  BY Numbers
<1> QED BY <1>2, <1>3, <1>4

\* A record finds the queue full and is dropped, or its caller is told.
LEMMA RefuseKeeps == ASSUME Inv, NEW p \in Producers, DropNewest(p) \/ RaiseFull(p) PROVE Inv'
<1> USE DEF Inv
<1>1. /\ holder = NoOne /\ ~closed /\ submitted < MaxRecords /\ submitted' = submitted + 1
      /\ overflow # "drop_oldest"
      /\ UNCHANGED <<overflow, maxPending, queue, holder, worker, closed, first, closing, enqueued, delivered,
                     failures, pending, log, lost>>
      /\ \/ refused' = refused + 1 /\ dropped' = dropped + 1 /\ raised' = raised
         \/ refused' = refused /\ dropped' = dropped /\ raised' = raised + 1
  BY DEF DropNewest, RaiseFull, config, closers, counters
<1>2. TypeOK'
  <2>1. submitted' \in 0..MaxRecords /\ refused' \in Nat /\ dropped' \in Nat /\ raised' \in Nat
    BY <1>1, Numbers
  <2> QED BY <1>1, <2>1 DEF TypeOK
<1>3. OneCloser' /\ QueueShape'
  BY <1>1 DEF OneCloser, QueueShape, Posted
<1>4. Counted'
  <2>1. pending' = (Queued + One(worker \in {"handling", "handled"}) + One(Discarding))'
    BY <1>1 DEF Counted, Queued, Posted, Discarding, One
  <2>2. RecordsAccounted'
    BY <1>1, Numbers DEF Counted, RecordsAccounted, One
  <2> QED BY <1>1, <2>1, <2>2 DEF Counted
<1>5. Ordered'
  BY <1>1, Older DEF Ordered, DeliveredInOrder
<1>6. StillFull'
  BY <1>1 DEF StillFull, NewestKept
<1> QED BY <1>2, <1>3, <1>4, <1>5, <1>6

\* A producer meets a full queue, ...
LEMMA MeetFullKeeps == ASSUME Inv, NEW p \in Producers, MeetFull(p) PROVE Inv'
<1> USE DEF Inv
<1>1. /\ holder = NoOne /\ ~closed /\ Len(queue) = maxPending /\ submitted < MaxRecords
      /\ overflow = "drop_oldest" /\ holder' = p /\ submitted' = submitted + 1
      /\ UNCHANGED <<overflow, maxPending, queue, worker, closed, first, closing, enqueued, delivered, dropped,
                     failures, pending, refused, raised, log, lost>>
  BY DEF MeetFull, config, closers, counters
<1>2. p # NoOne
  BY BufferAssumption
<1>3. TypeOK'
  <2>1. submitted' \in 0..MaxRecords
    BY <1>1, Numbers
  <2> QED BY <1>1, <2>1 DEF TypeOK
<1>4. OneCloser' /\ QueueShape'
  BY <1>1 DEF OneCloser, QueueShape, Posted
<1>5. Counted'
  <2>1. pending' = (Queued + One(worker \in {"handling", "handled"}) + One(Discarding))'
    BY <1>1 DEF Counted, Queued, Posted, Discarding, One
  <2>2. RecordsAccounted'
    <3>1. /\ submitted' = submitted + 1 /\ holder = NoOne /\ holder' # NoOne
          /\ UNCHANGED <<worker, delivered, dropped, failures, pending, raised, lost>>
      BY <1>1, <1>2
    <3> QED BY <3>1, Numbers DEF Counted, RecordsAccounted, One
  <2> QED BY <1>1, <2>1, <2>2 DEF Counted
<1>6. Ordered'
  BY <1>1, Older DEF Ordered, DeliveredInOrder
<1>7. StillFull'
  BY <1>1, Numbers DEF StillFull, NewestKept
<1> QED BY <1>3, <1>4, <1>5, <1>6, <1>7

\* ... and puts its record in the place of the oldest, unless the worker has emptied the queue
\* meanwhile: it cannot have, if there was room for two.
LEMMA DropOldestKeeps == ASSUME Inv, NEW p \in Producers, DropOldest(p) PROVE Inv'
<1> USE DEF Inv
<1>1. /\ holder = p /\ holder' = NoOne /\ dropped' = dropped + 1
      /\ UNCHANGED <<overflow, maxPending, worker, closed, first, closing, delivered, failures, pending,
                     submitted, raised, log, lost>>
  BY DEF DropOldest, config, closers
<1>2. holder # NoOne
  BY <1>1, BufferAssumption
<1>3. ~closed /\ first = NoOne /\ ~Posted /\ ~Posted' /\ ~Discarding /\ ~Discarding'
  BY <1>1, <1>2 DEF OneCloser, Posted, Discarding
<1>4. \A c \in Closers : closing[c] = "no"
  BY <1>3 DEF OneCloser
<1>5. OneCloser'
  BY <1>1, <1>3, <1>4 DEF OneCloser
<1>6. RecordsAccounted'
  <2>1. /\ holder # NoOne /\ holder' = NoOne /\ dropped' = dropped + 1
        /\ UNCHANGED <<worker, delivered, failures, pending, submitted, raised, lost>>
    BY <1>1, <1>2
  <2> QED BY <2>1, Numbers DEF Counted, RecordsAccounted, One
<1>7. dropped' \in Nat
  BY <1>1, Numbers
<1>8. CASE queue = <<>>
  <2>1. refused' = refused + 1 /\ queue' = queue /\ enqueued' = enqueued
    BY <1>8 DEF DropOldest
  <2>2. TypeOK'
    <3>1. refused' \in Nat
      BY <2>1, Numbers
    <3> QED BY <1>1, <1>7, <2>1, <3>1 DEF TypeOK
  <2>3. QueueShape'
    BY <1>1, <1>3, <1>4, <2>1 DEF QueueShape
  <2>4. Counted'
    <3>1. pending' = (Queued + One(worker \in {"handling", "handled"}) + One(Discarding))'
      BY <1>1, <1>3, <2>1 DEF Counted, Queued, One
    <3> QED BY <1>1, <1>6, <3>1 DEF Counted
  <2>5. Ordered'
    BY <1>1, <2>1 DEF Ordered, Newest, DeliveredInOrder
  <2>6. StillFull'
    <3>1. Len(queue) = 0 /\ Len(queue) >= maxPending - 1
      BY <1>2, <1>8, EmptySeq DEF StillFull
    <3>2. ~(maxPending > 1)
      BY <3>1, Numbers
    <3> QED BY <1>1, <3>2 DEF StillFull, NewestKept
  <2> QED BY <1>5, <2>2, <2>3, <2>4, <2>5, <2>6
<1>9. CASE queue # <<>>
  <2>1. refused' = refused /\ queue' = Append(Tail(queue), submitted) /\ enqueued' = enqueued + 1
    BY <1>9 DEF DropOldest
  <2> DEFINE n == Len(queue)
  <2>2. /\ queue' \in Seq(0..MaxRecords) /\ n \in Nat /\ n >= 1 /\ Len(queue') = n
        /\ DOMAIN queue = 1..n /\ DOMAIN queue' = 1..n
        /\ \A i \in 1..(n - 1) : queue'[i] = queue[i + 1]
        /\ queue'[n] = submitted
    <3>1. submitted \in 0..MaxRecords
      BY DEF TypeOK
    <3> QED BY <1>9, <2>1, <3>1, Types, Replaced
  <2> HIDE DEF n
  <2>3. \A i \in DOMAIN queue' : i = n \/ (i \in 1..(n - 1) /\ i + 1 \in DOMAIN queue)
    BY <2>2
  <2>4. submitted > 0 /\ submitted \in Nat
    BY <1>2, Numbers DEF Ordered
  <2>5. \A i \in DOMAIN queue : queue[i] # Sentinel /\ queue[i] < submitted /\ queue[i] \in Nat
    BY <1>2, <1>3, Types DEF QueueShape, Ordered, Newest
  <2>6. ASSUME NEW i \in DOMAIN queue' PROVE queue'[i] # Sentinel /\ queue'[i] <= submitted
    <3>1. CASE i = n
      BY <2>2, <2>4, <3>1 DEF Sentinel
    <3>2. CASE i \in 1..(n - 1) /\ i + 1 \in DOMAIN queue
      <4>1. queue'[i] = queue[i + 1] /\ queue[i + 1] # Sentinel /\ queue[i + 1] < submitted /\ queue[i + 1] \in Nat
        BY <2>2, <2>5, <3>2
      <4> QED BY <2>4, <4>1
    <3> QED BY <2>3, <3>1, <3>2
  <2>7. TypeOK'
    <3>1. Len(queue') <= maxPending' /\ enqueued' \in Nat
      <4>1. Len(queue) <= maxPending
        BY DEF TypeOK
      <4>2. Len(queue') <= maxPending'
        BY <1>1, <2>2, <4>1 DEF n
      <4>3. enqueued' \in Nat
        BY <2>1, Numbers
      <4> QED BY <4>2, <4>3
    <3> QED BY <1>1, <1>7, <2>1, <2>2, <3>1 DEF TypeOK
  <2>8. QueueShape'
    BY <1>1, <1>3, <1>4, <2>6 DEF QueueShape
  <2>9. Counted'
    <3>1. pending' = (Queued + One(worker \in {"handling", "handled"}) + One(Discarding))'
      BY <1>1, <1>3, <2>2 DEF Counted, Queued, One, n
    <3> QED BY <1>1, <1>6, <3>1 DEF Counted
  <2>10. Ordered'
    <3>1. \A i \in DOMAIN queue' : Newest(queue[i])'
      BY <1>1, <2>6 DEF Newest
    <3>2. \A i \in DOMAIN log' : Newest(log[i])'
      BY <1>1 DEF Ordered, Newest
    <3>3. ASSUME NEW i \in DOMAIN queue', NEW j \in DOMAIN queue', i < j PROVE queue'[i] < queue'[j]
      <4>1. i \in 1..(n - 1) /\ i + 1 \in DOMAIN queue /\ queue'[i] = queue[i + 1]
        BY <2>2, <2>3, <3>3
      <4>2. CASE j = n
        BY <2>2, <2>5, <4>1, <4>2
      <4>3. CASE j \in 1..(n - 1) /\ j + 1 \in DOMAIN queue
        <5>1. queue'[j] = queue[j + 1] /\ i + 1 < j + 1
          BY <2>2, <3>3, <4>1, <4>3
        <5> QED BY <2>5, <4>1, <4>3, <5>1 DEF Ordered
      <4> QED BY <2>3, <4>2, <4>3
    <3>4. ASSUME NEW i \in DOMAIN log, NEW j \in DOMAIN queue' PROVE log[i] < queue'[j]
      <4>1. CASE j = n
        BY <1>2, <2>2, <4>1 DEF Ordered, Newest
      <4>2. CASE j \in 1..(n - 1) /\ j + 1 \in DOMAIN queue
        BY <2>2, <2>5, <4>2 DEF Ordered
      <4> QED BY <2>3, <4>1, <4>2
    <3>5. DeliveredInOrder'
      BY <1>1 DEF Ordered, DeliveredInOrder
    <3> QED BY <1>1, <3>1, <3>2, <3>3, <3>4, <3>5 DEF Ordered
  <2>11. StillFull'
    BY <1>1, <2>1 DEF StillFull, NewestKept
  <2> QED BY <1>5, <2>7, <2>8, <2>9, <2>10, <2>11
<1> QED BY <1>8, <1>9

-----------------------------------------------------------------------------
\* The queue loses its head: what remains is still in order.
LEMMA TailOrdered ==
    ASSUME Inv, queue # <<>>, queue' = Tail(queue), UNCHANGED <<submitted, holder>>
    PROVE  /\ queue' \in Seq(0..MaxRecords) /\ Len(queue') = Len(queue) - 1 /\ Len(queue) >= 1
           /\ \A i \in DOMAIN queue' : i + 1 \in DOMAIN queue /\ queue'[i] = queue[i + 1] /\ i + 1 # 1
           /\ 1 \in DOMAIN queue /\ Head(queue) = queue[1]
           /\ \A i \in DOMAIN queue' : queue'[i] # Sentinel => Newest(queue[i])'
           /\ \A i, j \in DOMAIN queue' :
                 i < j /\ queue'[i] # Sentinel /\ queue'[j] # Sentinel => queue'[i] < queue'[j]
           /\ \A i \in DOMAIN queue' :
                 Head(queue) # Sentinel /\ queue'[i] # Sentinel => Head(queue) < queue'[i]
<1> USE DEF Inv
<1>1. /\ queue' \in Seq(0..MaxRecords) /\ Len(queue) \in Nat /\ Len(queue) >= 1 /\ Len(queue') = Len(queue) - 1
      /\ \A i \in DOMAIN queue' : i \in Nat /\ i + 1 \in DOMAIN queue /\ queue'[i] = queue[i + 1]
      /\ Head(queue) = queue[1] /\ 1 \in DOMAIN queue
  BY Types, Shortened
<1>2. DOMAIN queue' = 1..(Len(queue) - 1)
  BY Types, Shortened
<1>3. \A i \in DOMAIN queue' : i + 1 # 1 /\ 1 < i + 1
  BY <1>1, <1>2
<1>4. ASSUME NEW i \in DOMAIN queue', queue'[i] # Sentinel PROVE Newest(queue[i])'
  BY <1>1, <1>4 DEF Ordered, Newest
<1>5. ASSUME NEW i \in DOMAIN queue', NEW j \in DOMAIN queue', i < j, queue'[i] # Sentinel, queue'[j] # Sentinel
      PROVE  queue'[i] < queue'[j]
  <2>1. i + 1 < j + 1
    BY <1>1, <1>5
  <2> QED BY <1>1, <1>5, <2>1 DEF Ordered
<1>6. ASSUME NEW i \in DOMAIN queue', Head(queue) # Sentinel, queue'[i] # Sentinel PROVE Head(queue) < queue'[i]
  BY <1>1, <1>3, <1>6 DEF Ordered
<1> QED BY <1>1, <1>3, <1>4, <1>5, <1>6

\* The worker takes a record, or the sentinel, behind which there is nothing.
LEMMA TakeKeeps == ASSUME Inv, Take PROVE Inv'
<1> USE DEF Inv
<1>1. /\ worker = "idle" /\ queue # <<>> /\ queue' = Tail(queue)
      /\ UNCHANGED <<overflow, maxPending, holder, closed, first, closing, enqueued, delivered, dropped, failures,
                     pending, submitted, refused, raised, lost>>
  BY DEF Take, config, closers, counters
<1>2. /\ queue' \in Seq(0..MaxRecords) /\ Len(queue') = Len(queue) - 1 /\ Len(queue) >= 1
      /\ \A i \in DOMAIN queue' : i + 1 \in DOMAIN queue /\ queue'[i] = queue[i + 1] /\ i + 1 # 1
      /\ 1 \in DOMAIN queue /\ Head(queue) = queue[1]
      /\ \A i \in DOMAIN queue' : queue'[i] # Sentinel => Newest(queue[i])'
      /\ \A i, j \in DOMAIN queue' :
            i < j /\ queue'[i] # Sentinel /\ queue'[j] # Sentinel => queue'[i] < queue'[j]
      /\ \A i \in DOMAIN queue' :
            Head(queue) # Sentinel /\ queue'[i] # Sentinel => Head(queue) < queue'[i]
  BY <1>1, TailOrdered
<1>3. OneCloser' /\ (Posted' <=> Posted) /\ (Discarding' <=> Discarding)
  BY <1>1 DEF OneCloser, Posted, Discarding
<1>4. Len(queue') <= maxPending' /\ Len(queue') \in Nat /\ Len(queue) \in Nat
  <2>1. Len(queue) <= maxPending
    BY DEF TypeOK
  <2>2. Len(queue) \in Nat /\ maxPending \in Nat /\ maxPending' = maxPending
    BY <1>1, Numbers, Types
  <2>3. Len(queue') = Len(queue) - 1 /\ Len(queue) >= 1
    BY <1>2
  <2> QED BY <2>1, <2>2, <2>3
<1>5. StillFull'
  <2>1. worker' # "idle"
    BY DEF Take
  <2>2. holder # NoOne => Len(queue') >= maxPending - 1
    BY <1>1, <1>2, <1>4, Numbers DEF StillFull
  <2> QED BY <1>1, <2>1, <2>2 DEF StillFull, NewestKept
<1>6. \A c \in Closers : closing[c] # "sentinel"
  BY <1>1 DEF QueueShape
<1>7. CASE Head(queue) = Sentinel
  <2>1. worker' = "stopped" /\ log' = log
    BY <1>7 DEF Take
  <2>2. Posted
    BY <1>2, <1>7 DEF QueueShape
  <2>3. queue' = <<>>
    <3>1. Len(queue') = 0
      BY <1>2, <1>4, <2>2 DEF QueueShape
    <3> QED BY <1>2, <3>1, EmptySeq
  <2>4. TypeOK'
    BY <1>1, <1>2, <1>4, <2>1 DEF TypeOK
  <2>5. QueueShape'
    <3>1. Len(queue') = 0 /\ DOMAIN queue' = {}
      BY <2>3, EmptySeq
    <3> QED BY <1>1, <1>3, <1>6, <2>2, <2>3, <3>1 DEF QueueShape
  <2>6. Counted'
    <3>1. pending' = (Queued + One(worker \in {"handling", "handled"}) + One(Discarding))'
      BY <1>1, <1>3, <2>1, <2>2 DEF Counted, Queued, One
    <3>2. RecordsAccounted'
      BY <1>1, <2>1 DEF Counted, RecordsAccounted, One
    <3> QED BY <1>1, <2>1, <3>1, <3>2 DEF Counted
  <2>7. Ordered'
    <3>1. \A i \in DOMAIN log' : Newest(log[i])'
      BY <1>1, <2>1 DEF Ordered, Newest
    <3>2. \A i \in DOMAIN log', j \in DOMAIN queue' : queue'[j] # Sentinel => log'[i] < queue'[j]
      BY <1>2, <2>1 DEF Ordered
    <3> QED BY <1>1, <1>2, <2>1, <3>1, <3>2 DEF Ordered, DeliveredInOrder
  <2> QED BY <1>3, <1>5, <2>4, <2>5, <2>6, <2>7
<1>8. CASE Head(queue) # Sentinel
  <2>1. worker' = "handling" /\ log' = Append(log, Head(queue))
    BY <1>8 DEF Take
  <2>2. ~Posted
    BY <1>2, <1>8 DEF QueueShape
  <2>3. Head(queue) \in 1..MaxRecords /\ Head(queue) \in Nat
    <3>1. Head(queue) \in 0..MaxRecords /\ MaxRecords \in Nat
      BY <1>2, Types, ElementOfSeq, Numbers
    <3> QED BY <1>8, <3>1 DEF Sentinel
  <2>4. /\ log' \in Seq(1..MaxRecords) /\ DOMAIN log = 1..Len(log) /\ DOMAIN log' = 1..(Len(log) + 1)
        /\ (\A i \in DOMAIN log : log'[i] = log[i]) /\ log'[Len(log) + 1] = Head(queue) /\ Len(log) \in Nat
    BY <2>1, <2>3, Types, Appended
  <2>5. \A i \in DOMAIN log' : i \in DOMAIN log \/ i = Len(log) + 1
    BY <2>4
  <2>6. TypeOK'
    BY <1>1, <1>2, <1>4, <2>1, <2>4 DEF TypeOK
  <2>7. QueueShape'
    BY <1>1, <1>2, <1>3, <1>6, <2>1, <2>2 DEF QueueShape
  <2>8. Counted'
    <3>1. pending' = (Queued + One(worker \in {"handling", "handled"}) + One(Discarding))'
      <4>1. Queued' = Queued - 1 /\ Queued \in Nat /\ pending' = pending
        BY <1>1, <1>2, <1>3, <1>4, <2>2 DEF Queued
      <4> QED BY <1>1, <1>3, <2>1, <4>1 DEF Counted, One
    <3>2. RecordsAccounted'
      BY <1>1, <2>1 DEF Counted, RecordsAccounted, One
    <3> QED BY <1>1, <2>1, <3>1, <3>2 DEF Counted
  <2>9. Ordered'
    <3>1. \A i \in DOMAIN log : log[i] < Head(queue) /\ log[i] \in Nat
      BY <1>2, <1>8, Types DEF Ordered
    <3>2. ASSUME NEW i \in DOMAIN log' PROVE Newest(log[i])'
      <4>1. CASE i \in DOMAIN log
        BY <1>1, <2>4, <4>1 DEF Ordered, Newest
      <4>2. CASE i = Len(log) + 1
        BY <1>1, <1>2, <1>8, <2>4, <4>2 DEF Ordered, Newest
      <4> QED BY <2>5, <4>1, <4>2
    <3>3. ASSUME NEW i \in DOMAIN log', NEW j \in DOMAIN queue', queue'[j] # Sentinel PROVE log'[i] < queue'[j]
      <4>1. CASE i \in DOMAIN log
        BY <1>2, <2>4, <3>3, <4>1 DEF Ordered
      <4>2. CASE i = Len(log) + 1
        BY <1>2, <1>8, <2>4, <3>3, <4>2
      <4> QED BY <2>5, <4>1, <4>2
    <3>4. DeliveredInOrder'
      <4> SUFFICES ASSUME NEW i \in DOMAIN log', NEW j \in DOMAIN log', i < j PROVE log'[i] < log'[j]
        BY DEF DeliveredInOrder
      <4>1. i \in DOMAIN log
        BY <2>4
      <4>2. CASE j \in DOMAIN log
        BY <2>4, <4>1, <4>2 DEF Ordered, DeliveredInOrder
      <4>3. CASE j = Len(log) + 1
        BY <2>4, <3>1, <4>1, <4>3
      <4> QED BY <2>5, <4>2, <4>3
    <3> QED BY <1>1, <1>2, <3>2, <3>3, <3>4 DEF Ordered
  <2> QED BY <1>3, <1>5, <2>6, <2>7, <2>8, <2>9
<1> QED BY <1>7, <1>8

\* The order of the records, and what a producer finds, are about the queue, the log and the
\* producers only.
LEMMA OrderAlone ==
    ASSUME Inv, UNCHANGED <<overflow, maxPending, queue, holder, submitted, refused, log>>,
           worker = worker' \/ worker' # "idle" \/ holder = NoOne
    PROVE  Ordered' /\ StillFull'
<1>1. Ordered'
  BY DEF Inv, Ordered, Newest, DeliveredInOrder
<1>2. StillFull'
  BY DEF Inv, StillFull, NewestKept
<1> QED BY <1>1, <1>2

\* The worker counts a record, ...
LEMMA HandledKeeps == ASSUME Inv, Handled PROVE Inv'
<1> USE DEF Inv
<1>1. /\ worker = "handling" /\ worker' = "handled" /\ holder = NoOne
      /\ UNCHANGED <<overflow, maxPending, queue, holder, closed, first, closing, enqueued, dropped, pending,
                     submitted, refused, raised, log, lost>>
      /\ \/ delivered' = delivered + 1 /\ failures' = failures
         \/ failures' = failures + 1 /\ delivered' = delivered
  BY DEF Handled, config, closers
<1>2. TypeOK'
  <2>1. delivered' \in Nat /\ failures' \in Nat
    BY <1>1, Numbers
  <2> QED BY <1>1, <2>1 DEF TypeOK
<1>3. OneCloser' /\ QueueShape'
  BY <1>1 DEF OneCloser, QueueShape, Posted
<1>4. Counted'
  <2>1. pending' = (Queued + One(worker \in {"handling", "handled"}) + One(Discarding))'
    BY <1>1 DEF Counted, Queued, Posted, Discarding, One
  <2>2. RecordsAccounted'
    <3>1. /\ worker = "handling" /\ worker' = "handled"
          /\ UNCHANGED <<holder, dropped, pending, submitted, raised, lost>>
          /\ \/ delivered' = delivered + 1 /\ failures' = failures
             \/ failures' = failures + 1 /\ delivered' = delivered
      BY <1>1
    <3> QED BY <3>1, Numbers DEF Counted, RecordsAccounted, One
  <2> QED BY <1>1, <2>1, <2>2 DEF Counted
<1>5. Ordered' /\ StillFull'
  BY <1>1, OrderAlone
<1> QED BY <1>2, <1>3, <1>4, <1>5

\* ... then takes it off the pending ones, of which it is one, or dies with it.
LEMMA SettleKeeps == ASSUME Inv, Settle \/ HandlerDies PROVE Inv'
<1> USE DEF Inv
<1>1. /\ holder = NoOne
      /\ \/ worker = "handled" /\ worker' = "idle" /\ lost' = lost
         \/ worker = "handling" /\ worker' = "dead" /\ lost' = 1
      /\ pending' = IF pending > 0 THEN pending - 1 ELSE 0
      /\ UNCHANGED <<overflow, maxPending, queue, holder, closed, first, closing, enqueued, delivered, dropped,
                     failures, submitted, refused, raised, log>>
  BY DEF Settle, HandlerDies, config, closers
<1>2. (Posted' <=> Posted) /\ (Discarding' <=> Discarding) /\ Queued' = Queued /\ Queued \in Nat
  BY <1>1, Types DEF Posted, Discarding, Queued
<1>3. pending > 0 /\ pending' = pending - 1 /\ pending' \in Nat
  <2>1. pending > 0
    BY <1>1, <1>2 DEF Counted, One
  <2> QED BY <1>1, <2>1, Numbers
<1>4. TypeOK'
  <2>1. lost' \in 0..1
    <3>1. lost \in 0..1
      BY DEF TypeOK
    <3>2. 1 \in 0..1
      OBVIOUS
    <3> QED BY <1>1, <3>1, <3>2
  <2> QED BY <1>1, <1>3, <2>1 DEF TypeOK
<1>5. OneCloser' /\ QueueShape'
  BY <1>1, <1>2 DEF OneCloser, QueueShape
<1>6. Counted'
  <2>1. pending' = (Queued + One(worker \in {"handling", "handled"}) + One(Discarding))'
    BY <1>1, <1>2, <1>3 DEF Counted, One
  <2>2. RecordsAccounted'
    <3>1. /\ \/ worker = "handled" /\ worker' = "idle" /\ lost' = lost
             \/ worker = "handling" /\ worker' = "dead" /\ lost = 0 /\ lost' = 1
          /\ UNCHANGED <<holder, delivered, dropped, failures, submitted, raised>>
      BY <1>1 DEF Counted
    <3> QED BY <1>3, <3>1, Numbers DEF Counted, RecordsAccounted, One
  <2>3. worker' # "dead" => lost' = 0
    BY <1>1 DEF Counted
  <2> QED BY <2>1, <2>2, <2>3 DEF Counted
<1>7. Ordered' /\ StillFull'
  BY <1>1, OrderAlone
<1> QED BY <1>4, <1>5, <1>6, <1>7

-----------------------------------------------------------------------------
\* A step of close leaves the rest alone.
LEMMA ClosingFacts ==
    ASSUME Inv, NEW c \in Closers, NEW from, NEW to, ClosingStep(c, from, to),
           to \in {"no", "flush", "discard", "count", "sentinel", "join", "stopped", "timed out"}
    PROVE  /\ UNCHANGED <<overflow, maxPending, holder, worker, enqueued, delivered, failures, submitted,
                          refused, raised, log, lost>>
           /\ closing[c] = from /\ closing'[c] = to
           /\ closing' \in [Closers -> {"no", "flush", "discard", "count", "sentinel", "join", "stopped", "timed out"}]
           /\ \A d \in Closers : d # c => closing'[d] = closing[d]
BY DEF Inv, ClosingStep, TypeOK, config

\* A close begins.
LEMMA CloseKeeps == ASSUME Inv, NEW c \in Closers, Close(c) PROVE Inv'
<1> USE DEF Inv
<1> DEFINE to == CASE c \in Drains -> "flush" [] c \notin Drains /\ ~closed -> "discard" [] OTHER -> "join"
<1>1. /\ holder = NoOne /\ closed' = TRUE /\ first' = (IF closed THEN first ELSE c)
      /\ ClosingStep(c, "no", to) /\ UNCHANGED <<queue, dropped, pending>>
  BY DEF Close
<1>2. to \in {"flush", "discard", "join"} /\ (~closed => to # "join") /\ (closed => to # "discard")
  OBVIOUS
<1> HIDE DEF to
<1>3. /\ UNCHANGED <<overflow, maxPending, holder, worker, enqueued, delivered, failures, submitted,
                     refused, raised, log, lost>>
      /\ closing[c] = "no" /\ closing'[c] = to
      /\ closing' \in [Closers -> {"no", "flush", "discard", "count", "sentinel", "join", "stopped", "timed out"}]
      /\ \A d \in Closers : d # c => closing'[d] = closing[d]
  BY <1>1, <1>2, ClosingFacts
<1>4. TypeOK'
  BY <1>1, <1>3 DEF TypeOK
<1>5. NoOne # c
  BY BufferAssumption
<1>6. OneCloser' /\ (Posted' <=> Posted) /\ (Discarding' <=> Discarding)
  <2>1. CASE closed
    <3>1. first \in Closers /\ first # c /\ first' = first
      BY <1>1, <1>3, <2>1 DEF OneCloser
    <3> QED BY <1>1, <1>2, <1>3, <2>1, <3>1 DEF OneCloser, Posted, Discarding
  <2>2. CASE ~closed
    <3>1. first = NoOne /\ first' = c /\ to \in {"flush", "discard"}
      BY <1>1, <1>2, <2>2 DEF OneCloser
    <3> QED BY <1>1, <1>3, <1>5, <2>2, <3>1 DEF OneCloser, Posted, Discarding
  <2> QED BY <2>1, <2>2
<1>7. QueueShape'
  BY <1>1, <1>2, <1>3, <1>6 DEF QueueShape
<1>8. Counted'
  BY <1>1, <1>3, <1>6 DEF Counted, Queued, RecordsAccounted, One
<1>9. Ordered' /\ StillFull'
  BY <1>1, <1>3, OrderAlone
<1> QED BY <1>4, <1>6, <1>7, <1>8, <1>9

\* flush has nothing to wait for, or gives up.  The first close finds the queue empty in the
\* one case and discards it in the other.
LEMMA FlushKeeps == ASSUME Inv, NEW c \in Closers, Flushed(c) \/ FlushTimeout(c) PROVE Inv'
<1> USE DEF Inv
<1>1. PICK to \in {"sentinel", "discard", "join"} :
         /\ holder = NoOne /\ ClosingStep(c, "flush", to)
         /\ UNCHANGED <<queue, closed, first, dropped, pending>>
         /\ c = first <=> to # "join"
         /\ to = "sentinel" => pending = 0
  <2>1. CASE Flushed(c)
    <3>1. CASE c = first
      BY <2>1, <3>1 DEF Flushed
    <3>2. CASE c # first
      BY <2>1, <3>2 DEF Flushed
    <3> QED BY <3>1, <3>2
  <2>2. CASE FlushTimeout(c)
    <3>1. CASE c = first
      BY <2>2, <3>1 DEF FlushTimeout
    <3>2. CASE c # first
      BY <2>2, <3>2 DEF FlushTimeout
    <3> QED BY <3>1, <3>2
  <2> QED BY <2>1, <2>2
<1>2. /\ UNCHANGED <<overflow, maxPending, holder, worker, enqueued, delivered, failures, submitted,
                     refused, raised, log, lost>>
      /\ closing[c] = "flush" /\ closing'[c] = to
      /\ closing' \in [Closers -> {"no", "flush", "discard", "count", "sentinel", "join", "stopped", "timed out"}]
      /\ \A d \in Closers : d # c => closing'[d] = closing[d]
  BY <1>1, ClosingFacts
<1>3. TypeOK'
  BY <1>1, <1>2 DEF TypeOK
<1>4. closed /\ first \in Closers
  BY <1>2 DEF OneCloser
<1>5. OneCloser'
  BY <1>1, <1>2, <1>4 DEF OneCloser
<1>6. (Posted' <=> Posted) /\ (Discarding' <=> Discarding)
  <2>1. CASE c = first
    BY <1>1, <1>2, <2>1 DEF Posted, Discarding
  <2>2. CASE c # first
    BY <1>1, <1>2, <1>4, <2>2 DEF Posted, Discarding
  <2> QED BY <2>1, <2>2
<1>7. QueueShape'
  <2>1. ASSUME to = "sentinel" PROVE queue = <<>>
    <3>1. ~Posted
      BY <1>1, <1>2, <2>1 DEF Posted
    <3>2. pending = 0 /\ Len(queue) \in Nat
      BY <1>1, <2>1, Types
    <3>3. Len(queue) = 0
      <4>1. One(worker \in {"handling", "handled"}) \in Nat /\ One(Discarding) \in Nat
        BY DEF One
      <4>2. 0 = Len(queue) + One(worker \in {"handling", "handled"}) + One(Discarding)
        BY <3>1, <3>2 DEF Counted, Queued
      <4> QED BY <3>2, <4>1, <4>2
    <3> QED BY <3>3, Types, EmptySeq
  <2> QED BY <1>1, <1>2, <1>6, <2>1 DEF QueueShape
<1>8. Counted'
  BY <1>1, <1>2, <1>6 DEF Counted, Queued, RecordsAccounted, One
<1>9. Ordered' /\ StillFull'
  BY <1>1, <1>2, OrderAlone
<1> QED BY <1>3, <1>5, <1>7, <1>8, <1>9

\* A record is taken off the queue to be discarded, ...
LEMMA DiscardOneKeeps == ASSUME Inv, NEW c \in Closers, DiscardOne(c) PROVE Inv'
<1> USE DEF Inv
<1>1. /\ queue # <<>> /\ queue' = Tail(queue) /\ ClosingStep(c, "discard", "count")
      /\ UNCHANGED <<closed, first, dropped, pending>>
  BY DEF DiscardOne
<1>2. /\ UNCHANGED <<overflow, maxPending, holder, worker, enqueued, delivered, failures, submitted,
                     refused, raised, log, lost>>
      /\ closing[c] = "discard" /\ closing'[c] = "count"
      /\ closing' \in [Closers -> {"no", "flush", "discard", "count", "sentinel", "join", "stopped", "timed out"}]
      /\ \A d \in Closers : d # c => closing'[d] = closing[d]
  BY <1>1, ClosingFacts
<1>3. c = first /\ c # NoOne /\ holder = NoOne
  BY <1>2, BufferAssumption DEF OneCloser
<1>4. ~Posted /\ ~Posted' /\ ~Discarding /\ Discarding'
  BY <1>1, <1>2, <1>3 DEF Posted, Discarding
<1>5. /\ queue' \in Seq(0..MaxRecords) /\ Len(queue') = Len(queue) - 1 /\ Len(queue) >= 1
      /\ \A i \in DOMAIN queue' : i + 1 \in DOMAIN queue /\ queue'[i] = queue[i + 1]
      /\ \A i \in DOMAIN queue' : queue'[i] # Sentinel => Newest(queue[i])'
      /\ \A i, j \in DOMAIN queue' :
            i < j /\ queue'[i] # Sentinel /\ queue'[j] # Sentinel => queue'[i] < queue'[j]
  BY <1>1, <1>2, TailOrdered
<1>6. TypeOK'
  <2>1. Len(queue) <= maxPending
    BY DEF TypeOK
  <2>2. Len(queue) \in Nat /\ maxPending \in Nat /\ maxPending' = maxPending
    BY <1>2, Numbers, Types
  <2>3. Len(queue') <= maxPending'
    BY <1>5, <2>1, <2>2
  <2> QED BY <1>1, <1>2, <1>5, <2>3 DEF TypeOK
<1>7. OneCloser'
  BY <1>1, <1>2, <1>3 DEF OneCloser
<1>8. QueueShape'
  BY <1>1, <1>2, <1>4, <1>5 DEF QueueShape
<1>9. Counted'
  <2>1. pending' = (Queued + One(worker \in {"handling", "handled"}) + One(Discarding))'
    <3>1. Queued' = Queued - 1 /\ Queued \in Nat
      BY <1>4, <1>5, Types DEF Queued
    <3> DEFINE w == One(worker \in {"handling", "handled"})
    <3>2. w \in Nat /\ w' = w /\ pending' = pending
      BY <1>1, <1>2 DEF One
    <3>3. One(Discarding) = 0 /\ One(Discarding)' = 1
      BY <1>4 DEF One
    <3>4. pending = Queued + w + One(Discarding)
      BY DEF Counted
    <3> HIDE DEF w
    <3>5. pending' = Queued' + w' + One(Discarding)'
      BY <3>1, <3>2, <3>3, <3>4
    <3> QED BY <3>5 DEF w
  <2>2. RecordsAccounted'
    BY <1>1, <1>2 DEF Counted, RecordsAccounted, One
  <2> QED BY <1>2, <2>1, <2>2 DEF Counted
<1>10. Ordered'
  <2>1. \A i \in DOMAIN log' : Newest(log[i])'
    BY <1>2 DEF Ordered, Newest
  <2>2. \A i \in DOMAIN log', j \in DOMAIN queue' : queue'[j] # Sentinel => log'[i] < queue'[j]
    BY <1>2, <1>5 DEF Ordered
  <2>3. DeliveredInOrder'
    BY <1>2 DEF Ordered, DeliveredInOrder
  <2> QED BY <1>2, <1>5, <2>1, <2>2, <2>3 DEF Ordered
<1>11. StillFull'
  BY <1>2, <1>3 DEF StillFull, NewestKept
<1> QED BY <1>6, <1>7, <1>8, <1>9, <1>10, <1>11

\* ... and counted.
LEMMA CountDiscardedKeeps == ASSUME Inv, NEW c \in Closers, CountDiscarded(c) PROVE Inv'
<1> USE DEF Inv
<1>1. /\ dropped' = dropped + 1 /\ pending' = (IF pending > 0 THEN pending - 1 ELSE 0)
      /\ ClosingStep(c, "count", "discard") /\ UNCHANGED <<queue, closed, first>>
  BY DEF CountDiscarded
<1>2. /\ UNCHANGED <<overflow, maxPending, holder, worker, enqueued, delivered, failures, submitted,
                     refused, raised, log, lost>>
      /\ closing[c] = "count" /\ closing'[c] = "discard"
      /\ closing' \in [Closers -> {"no", "flush", "discard", "count", "sentinel", "join", "stopped", "timed out"}]
      /\ \A d \in Closers : d # c => closing'[d] = closing[d]
  BY <1>1, ClosingFacts
<1>3. c = first /\ c # NoOne
  BY <1>2, BufferAssumption DEF OneCloser
<1>4. ~Posted /\ ~Posted' /\ Discarding /\ ~Discarding'
  BY <1>1, <1>2, <1>3 DEF Posted, Discarding
<1>5. Queued' = Queued /\ Queued \in Nat
  BY <1>1, <1>4, Types DEF Queued
<1>6. pending > 0 /\ pending' = pending - 1 /\ pending' \in Nat
  <2>1. pending > 0
    BY <1>4, <1>5 DEF Counted, One
  <2> QED BY <1>1, <2>1, Numbers
<1>7. TypeOK'
  <2>1. dropped' \in Nat
    BY <1>1, Numbers
  <2> QED BY <1>1, <1>2, <1>6, <2>1 DEF TypeOK
<1>8. OneCloser'
  BY <1>1, <1>2, <1>3 DEF OneCloser
<1>9. QueueShape'
  BY <1>1, <1>2, <1>4 DEF QueueShape
<1>10. Counted'
  <2>1. pending' = (Queued + One(worker \in {"handling", "handled"}) + One(Discarding))'
    <3> DEFINE w == One(worker \in {"handling", "handled"})
    <3>1. w \in Nat /\ w' = w
      BY <1>2 DEF One
    <3>2. One(Discarding) = 1 /\ One(Discarding)' = 0
      BY <1>4 DEF One
    <3>3. pending = Queued + w + One(Discarding)
      BY DEF Counted
    <3> HIDE DEF w
    <3>4. pending' = Queued' + w' + One(Discarding)'
      BY <1>5, <1>6, <3>1, <3>2, <3>3
    <3> QED BY <3>4 DEF w
  <2>2. RecordsAccounted'
    <3>1. dropped' = dropped + 1 /\ UNCHANGED <<holder, worker, delivered, failures, submitted, raised, lost>>
      BY <1>1, <1>2
    <3> QED BY <1>6, <3>1, Numbers DEF Counted, RecordsAccounted, One
  <2> QED BY <1>2, <2>1, <2>2 DEF Counted
<1>11. Ordered' /\ StillFull'
  BY <1>1, <1>2, OrderAlone
<1> QED BY <1>7, <1>8, <1>9, <1>10, <1>11

\* The queue is empty and the sentinel can be posted.
LEMMA DiscardDoneKeeps == ASSUME Inv, NEW c \in Closers, DiscardDone(c) PROVE Inv'
<1> USE DEF Inv
<1>1. queue = <<>> /\ ClosingStep(c, "discard", "sentinel") /\ UNCHANGED <<queue, closed, first, dropped, pending>>
  BY DEF DiscardDone
<1>2. /\ UNCHANGED <<overflow, maxPending, holder, worker, enqueued, delivered, failures, submitted,
                     refused, raised, log, lost>>
      /\ closing[c] = "discard" /\ closing'[c] = "sentinel"
      /\ closing' \in [Closers -> {"no", "flush", "discard", "count", "sentinel", "join", "stopped", "timed out"}]
      /\ \A d \in Closers : d # c => closing'[d] = closing[d]
  BY <1>1, ClosingFacts
<1>3. c = first /\ c # NoOne
  BY <1>2, BufferAssumption DEF OneCloser
<1>4. ~Posted /\ ~Posted' /\ ~Discarding /\ ~Discarding'
  BY <1>1, <1>2, <1>3 DEF Posted, Discarding
<1>5. TypeOK'
  BY <1>1, <1>2 DEF TypeOK
<1>6. OneCloser'
  BY <1>1, <1>2, <1>3 DEF OneCloser
<1>7. QueueShape'
  BY <1>1, <1>2, <1>4 DEF QueueShape
<1>8. Counted'
  BY <1>1, <1>2, <1>4 DEF Counted, Queued, RecordsAccounted, One
<1>9. Ordered' /\ StillFull'
  BY <1>1, <1>2, OrderAlone
<1> QED BY <1>5, <1>6, <1>7, <1>8, <1>9

\* The sentinel is posted, alone in the queue.
LEMMA PutSentinelKeeps == ASSUME Inv, NEW c \in Closers, PutSentinel(c) PROVE Inv'
<1> USE DEF Inv
<1>1. /\ queue' = Append(queue, Sentinel) /\ ClosingStep(c, "sentinel", "join")
      /\ UNCHANGED <<closed, first, dropped, pending>>
  BY DEF PutSentinel, Put
<1>2. /\ UNCHANGED <<overflow, maxPending, holder, worker, enqueued, delivered, failures, submitted,
                     refused, raised, log, lost>>
      /\ closing[c] = "sentinel" /\ closing'[c] = "join"
      /\ closing' \in [Closers -> {"no", "flush", "discard", "count", "sentinel", "join", "stopped", "timed out"}]
      /\ \A d \in Closers : d # c => closing'[d] = closing[d]
  BY <1>1, ClosingFacts
<1>3. c = first /\ c # NoOne /\ holder = NoOne
  BY <1>2, BufferAssumption DEF OneCloser
<1>4. ~Posted /\ Posted' /\ ~Discarding /\ ~Discarding'
  BY <1>1, <1>2, <1>3 DEF Posted, Discarding
<1>5. queue = <<>> /\ Len(queue) = 0
  BY <1>2, EmptySeq DEF QueueShape
<1>6. /\ queue' \in Seq(0..MaxRecords) /\ Len(queue') = 1
      /\ \A i \in DOMAIN queue' : queue'[i] = Sentinel
  <2>1. Sentinel \in 0..MaxRecords
    BY BufferAssumption DEF Sentinel
  <2>2. /\ queue' \in Seq(0..MaxRecords) /\ Len(queue') = Len(queue) + 1
        /\ DOMAIN queue' = 1..(Len(queue) + 1) /\ queue'[Len(queue) + 1] = Sentinel
    BY <1>1, <2>1, Types, Appended
  <2>3. Len(queue') = 1 /\ DOMAIN queue' = 1..1 /\ queue'[1] = Sentinel
    BY <1>5, <2>2
  <2> QED BY <2>2, <2>3
<1>7. TypeOK'
  <2>1. Len(queue') <= maxPending'
    BY <1>2, <1>6, Numbers
  <2> QED BY <1>1, <1>2, <1>6, <2>1 DEF TypeOK
<1>8. OneCloser'
  BY <1>1, <1>2, <1>3 DEF OneCloser
<1>9. QueueShape'
  <2>1. worker # "stopped"
    BY <1>4 DEF QueueShape
  <2>2. \A d \in Closers : closing'[d] # "sentinel"
    BY <1>2, <1>3 DEF OneCloser
  <2>3. Len(queue') <= 1
    BY <1>6
  <2> QED BY <1>2, <1>4, <1>6, <2>1, <2>2, <2>3 DEF QueueShape
<1>10. Counted'
  <2>1. Queued' = Queued
    BY <1>4, <1>5 DEF Queued
  <2>2. RecordsAccounted'
    BY <1>1, <1>2 DEF Counted, RecordsAccounted, One
  <2> QED BY <1>1, <1>2, <1>4, <2>1, <2>2 DEF Counted, One
<1>11. Ordered'
  BY <1>2, <1>6 DEF Ordered, Newest, DeliveredInOrder
<1>12. StillFull'
  BY <1>2, <1>3 DEF StillFull, NewestKept
<1> QED BY <1>7, <1>8, <1>9, <1>10, <1>11, <1>12

\* The wait for the worker is over.
LEMMA JoinKeeps == ASSUME Inv, NEW c \in Closers, Joined(c) \/ JoinTimeout(c) PROVE Inv'
<1> USE DEF Inv
<1>1. PICK to \in {"stopped", "timed out"} :
         ClosingStep(c, "join", to) /\ UNCHANGED <<queue, closed, first, dropped, pending>>
  BY DEF Joined, JoinTimeout
<1>2. /\ UNCHANGED <<overflow, maxPending, holder, worker, enqueued, delivered, failures, submitted,
                     refused, raised, log, lost>>
      /\ closing[c] = "join" /\ closing'[c] = to
      /\ closing' \in [Closers -> {"no", "flush", "discard", "count", "sentinel", "join", "stopped", "timed out"}]
      /\ \A d \in Closers : d # c => closing'[d] = closing[d]
  BY <1>1, ClosingFacts
<1>3. closed /\ first \in Closers
  BY <1>2 DEF OneCloser
<1>4. (Posted' <=> Posted) /\ (Discarding' <=> Discarding)
  <2>1. CASE c = first
    BY <1>1, <1>2, <2>1 DEF Posted, Discarding
  <2>2. CASE c # first
    BY <1>1, <1>2, <1>3, <2>2 DEF Posted, Discarding
  <2> QED BY <2>1, <2>2
<1>5. TypeOK'
  BY <1>1, <1>2 DEF TypeOK
<1>6. OneCloser'
  BY <1>1, <1>2, <1>3 DEF OneCloser
<1>7. QueueShape'
  BY <1>1, <1>2, <1>4 DEF QueueShape
<1>8. Counted'
  BY <1>1, <1>2, <1>4 DEF Counted, Queued, RecordsAccounted, One
<1>9. Ordered' /\ StillFull'
  BY <1>1, <1>2, OrderAlone
<1> QED BY <1>5, <1>6, <1>7, <1>8, <1>9

-----------------------------------------------------------------------------
\* Every step keeps the invariant.
LEMMA StepInv == Inv /\ [Next]_vars => Inv'
<1> SUFFICES ASSUME Inv, [Next]_vars PROVE Inv'
  OBVIOUS
<1>1. ASSUME NEW p \in Producers, Produce(p) PROVE Inv'
  BY <1>1, SubmitKeeps, RefuseKeeps, MeetFullKeeps, DropOldestKeeps DEF Produce
<1>2. CASE Work \/ HandlerDies
  BY <1>2, TakeKeeps, HandledKeeps, SettleKeeps DEF Work
<1>3. ASSUME NEW c \in Closers, Close(c) \/ CloserSteps(c) \/ FlushTimeout(c) \/ JoinTimeout(c) PROVE Inv'
  BY <1>3, CloseKeeps, FlushKeeps, DiscardOneKeeps, CountDiscardedKeeps, DiscardDoneKeeps, PutSentinelKeeps,
     JoinKeeps DEF CloserSteps
<1>4. CASE UNCHANGED vars
  <2>1. TypeOK' /\ OneCloser' /\ QueueShape'
    BY <1>4 DEF vars, Inv, TypeOK, OneCloser, QueueShape, Posted
  <2>2. Counted'
    BY <1>4 DEF vars, Inv, Counted, Queued, Posted, Discarding, RecordsAccounted, One
  <2>3. Ordered' /\ StillFull'
    BY <1>4, OrderAlone DEF vars
  <2> QED BY <2>1, <2>2, <2>3 DEF Inv
<1> QED BY <1>1, <1>2, <1>3, <1>4 DEF Next

\* The invariant of the buffer.
THEOREM Invariance == Spec => []Inv
<1> QED BY InitInv, StepInv, PTL DEF Spec

-----------------------------------------------------------------------------
\* The records queued are those places of the queue, ...
LEMMA RecordsQueued == ASSUME Inv PROVE Cardinality(Records) = Queued
<1>1. CASE Posted
  <2>1. Records = {}
    BY <1>1 DEF Inv, QueueShape, Records
  <2> QED BY <1>1, <2>1, FS_EmptySet DEF Queued
<1>2. CASE ~Posted
  <2>1. Records = 1..Len(queue) /\ Len(queue) \in Nat
    BY <1>2, Types DEF Inv, QueueShape, Records
  <2>2. Cardinality(1..Len(queue)) = Len(queue)
    <3>1. Cardinality(1..Len(queue)) = IF 1 > Len(queue) THEN 0 ELSE Len(queue) - 1 + 1
      BY <2>1, FS_Interval
    <3> QED BY <2>1, <3>1
  <2> QED BY <1>2, <2>1, <2>2 DEF Queued
<1> QED BY <1>1, <1>2

\* ... and the thread that discards one of them, if there is one, is the first to have closed.
LEMMA DiscardingOne == ASSUME Inv PROVE Cardinality({c \in Closers : closing[c] = "count"}) = One(Discarding)
<1> DEFINE D == {c \in Closers : closing[c] = "count"}
<1>1. CASE Discarding
  <2>1. first \in Closers
    BY <1>1 DEF Inv, OneCloser, TypeOK, Discarding
  <2>2. D = {first}
    BY <1>1, <2>1 DEF Inv, OneCloser, Discarding
  <2> QED BY <1>1, <2>2, FS_Singleton DEF One
<1>2. CASE ~Discarding
  <2>1. D = {}
    <3> SUFFICES ASSUME NEW c \in Closers, closing[c] = "count" PROVE FALSE
      OBVIOUS
    <3>1. c = first /\ c # NoOne
      BY BufferAssumption DEF Inv, OneCloser
    <3> QED BY <1>2, <3>1 DEF Discarding
  <2> QED BY <1>2, <2>1, FS_EmptySet DEF One
<1> QED BY <1>1, <1>2

\* The counters are exact: pending, which flush waits on, counts the records that are queued,
\* handled or being discarded, and every submission is pending or counted once as delivered,
\* failed or dropped, whichever policy, race with the worker or discarding close it met.
THEOREM NoRecordUncounted == Spec => []CountersExact
<1>1. Inv => CountersExact
  <2> SUFFICES ASSUME Inv PROVE CountersExact
    OBVIOUS
  <2>1. PendingExact
    BY RecordsQueued, DiscardingOne DEF Inv, Counted, PendingExact
  <2> QED BY <2>1 DEF Inv, Counted, CountersExact
<1> QED BY <1>1, Invariance, PTL

\* The handler sees the records in the order of their submission, and DROP_OLDEST with room
\* for two keeps every new one.
THEOREM HandledInOrder == Spec => []DeliveryOrder
<1>1. Inv => DeliveryOrder
  BY DEF Inv, Ordered, StillFull, DeliveryOrder
<1> QED BY <1>1, Invariance, PTL

\* A worker that ended, or the first close that returned, leaves no record behind, and the
\* sentinel always finds room.
THEOREM ShutdownLeavesNothing == Spec => []ShutdownClean
<1>1. Inv => ShutdownClean
  <2> SUFFICES ASSUME Inv PROVE ShutdownClean
    OBVIOUS
  <2>1. worker = "stopped" => queue = <<>>
    BY DEF Inv, QueueShape
  <2>2. ASSUME first # NoOne, closing[first] = "stopped" PROVE Records = {}
    <3>1. Posted
      BY <2>2 DEF Posted
    <3> QED BY <3>1 DEF Inv, QueueShape, Records
  <2>3. ASSUME NEW c \in Closers, closing[c] = "sentinel" PROVE Len(queue) < maxPending
    <3>1. Len(queue) = 0
      BY <2>3, EmptySeq DEF Inv, QueueShape
    <3> QED BY <3>1, Numbers
  <2> QED BY <2>1, <2>2, <2>3 DEF ShutdownClean, NothingStranded, SentinelHasRoom
<1> QED BY <1>1, Invariance, PTL

-----------------------------------------------------------------------------
\* What assess makes of the buffer.

\* Whoever has joined the worker has seen it end.
JoinedEnded == \A c \in Closers : closing[c] = "stopped" => Ended

LEMMA JoinedStays == Inv /\ JoinedEnded /\ [Next]_vars => JoinedEnded'
<1> SUFFICES ASSUME Inv, JoinedEnded, [Next]_vars PROVE JoinedEnded'
  OBVIOUS
<1>1. closing \in [Closers -> {"no", "flush", "discard", "count", "sentinel", "join", "stopped",
                               "timed out"}]
  BY DEF Inv, TypeOK
<1>2. CASE UNCHANGED <<closing, worker>>
  BY <1>2 DEF JoinedEnded, Ended
<1>3. CASE (Work \/ HandlerDies) /\ UNCHANGED closing
  BY <1>3 DEF Work, Take, Handled, Settle, HandlerDies, JoinedEnded, Ended
<1>4. ASSUME NEW c \in Closers, NEW from, NEW to, ClosingStep(c, from, to), to # "stopped" \/ Ended
      PROVE  JoinedEnded'
  BY <1>1, <1>4 DEF ClosingStep, JoinedEnded, Ended
<1>5. ASSUME NEW c \in Closers, Close(c) \/ CloserSteps(c) \/ FlushTimeout(c) \/ JoinTimeout(c)
      PROVE  JoinedEnded'
  <2>1. CASE Close(c)
    <3> DEFINE to == CASE c \in Drains -> "flush"
                       [] c \notin Drains /\ ~closed -> "discard"
                       [] OTHER -> "join"
    <3>1. ClosingStep(c, "no", to) /\ to # "stopped"
      BY <2>1 DEF Close
    <3> QED BY <3>1, <1>4
  <2>2. CASE Flushed(c) \/ FlushTimeout(c)
    <3> DEFINE to == IF c = first THEN "sentinel" ELSE "join"
               or == IF c = first THEN "discard" ELSE "join"
    <3>1. (ClosingStep(c, "flush", to) \/ ClosingStep(c, "flush", or))
          /\ to # "stopped" /\ or # "stopped"
      BY <2>2 DEF Flushed, FlushTimeout
    <3> HIDE DEF to, or
    <3> QED BY <3>1, <1>4
  <2>3. CASE DiscardOne(c) \/ CountDiscarded(c) \/ DiscardDone(c) \/ PutSentinel(c)
    BY <2>3, <1>4 DEF DiscardOne, CountDiscarded, DiscardDone, PutSentinel
  <2>4. CASE Joined(c) \/ JoinTimeout(c)
    BY <2>4, <1>4 DEF Joined, JoinTimeout
  <2> QED BY <1>5, <2>1, <2>2, <2>3, <2>4 DEF CloserSteps
<1>6. ASSUME NEW p \in Producers, Produce(p) PROVE UNCHANGED <<closing, worker>>
  BY <1>6 DEF Produce, Submit, DropNewest, RaiseFull, MeetFull, DropOldest, closers
<1>7. ASSUME Work \/ HandlerDies PROVE UNCHANGED closing
  BY <1>7 DEF Work, Take, Handled, Settle, HandlerDies, closers
<1>8. ASSUME UNCHANGED vars PROVE UNCHANGED <<closing, worker>>
  BY <1>8 DEF vars
<1> QED BY <1>2, <1>3, <1>5, <1>6, <1>7, <1>8 DEF Next

\* Nobody waits for capacity where there is none.
LEMMA NobodyWaits == TotalWaiting(<<>>) = 0
<1>1. DOMAIN <<>> = {}
  OBVIOUS
<1>2. UNION {{n} \X (1..(<<>>)[n].waiting) : n \in DOMAIN <<>>} = {}
  BY <1>1
<1> QED BY <1>2, FS_EmptySet DEF TotalWaiting

\* What the snapshot holds.
LEMMA SnapshotHolds ==
    /\ HealthSnapshot.closed = FALSE /\ HealthSnapshot.unsafeSources = 0
    /\ HealthSnapshot.capacity = <<>> /\ HealthSnapshot.copies = <<>>
    /\ HealthSnapshot.submissions = [pending |-> 0, limit |-> 0]
    /\ HealthSnapshot.circuits = <<>> /\ HealthSnapshot.copyShutdownIncomplete = FALSE
    /\ HealthSnapshot.bufferShutdownIncomplete = (closed /\ ~Ended)
    /\ HealthSnapshot.buffers = [n \in {"events"} |->
                       [pending |-> pending, limit |-> maxPending, closed |-> closed,
                        alive |-> ~Ended]]
BY DEF HealthSnapshot, Untroubled

\* So all that assess can find is a backlog, a worker that has stopped, and a shutdown that is
\* not complete.
LEMMA BufferFindings ==
    Findings(HealthSnapshot, {}, DefaultPolicy) =
        If(Reaches(pending, maxPending, Ratio(1, 2)), "observability_backlog_high",
           Reaches(pending, maxPending, Ratio(9, 10)))
        \cup If(Ended /\ ~closed, "observability_worker_stopped", TRUE)
        \cup If(closed /\ ~Ended, "observability_shutdown_incomplete", TRUE)
<1> DEFINE h == HealthSnapshot  p == DefaultPolicy
<1>1. /\ p.capacityWaiting = 1 /\ p.copyWaiting = 1
      /\ p.bufferDegraded = Ratio(1, 2) /\ p.bufferCritical = Ratio(9, 10)
  BY DEF DefaultPolicy
<1>2. /\ WaitFinding(h.capacity, p.capacityWaiting, p.capacityCritical, "source_capacity_waiting") = {}
      /\ WaitFinding(h.copies, p.copyWaiting, p.copyCritical, "payload_copy_capacity_waiting") = {}
  BY <1>1, SnapshotHolds, NobodyWaits DEF WaitFinding, If
<1>3. If(Reaches(h.submissions.pending, h.submissions.limit, p.submissionDegraded),
         "submission_backlog_high",
         Reaches(h.submissions.pending, h.submissions.limit, p.submissionCritical)) = {}
  BY SnapshotHolds DEF If, Reaches
<1>4. /\ DOMAIN h.buffers = {"events"}
      /\ h.buffers["events"] = [pending |-> pending, limit |-> maxPending, closed |-> closed,
                                alive |-> ~Ended]
  BY SnapshotHolds
<1>5. \A r : AnyBacklog(h.buffers, r) <=> Reaches(pending, maxPending, r)
  BY <1>4 DEF AnyBacklog
<1>6. (\E n \in DOMAIN h.buffers : ~h.buffers[n].alive /\ ~h.buffers[n].closed)
        <=> (Ended /\ ~closed)
  <2>1. h.buffers["events"].alive = (~Ended) /\ h.buffers["events"].closed = closed
    BY <1>4
  <2> HIDE DEF h
  <2> QED BY <1>4, <2>1, Zenon
<1>7. \A s : ~(\E c \in DOMAIN h.circuits : h.circuits[c] = s)
  BY SnapshotHolds
<1>8. UNION {CounterFindings(h, before, p) : before \in {}} = {}
  OBVIOUS
<1>9. /\ If(h.closed, "builder_closed", TRUE) = {}
      /\ If(h.unsafeSources > 0, "unsafe_blocking_source", TRUE) = {}
      /\ If(h.copyShutdownIncomplete, "payload_copy_shutdown_incomplete", TRUE) = {}
      /\ If(\E c \in DOMAIN h.circuits : h.circuits[c] = "open", "circuit_open", FALSE) = {}
      /\ If(\E c \in DOMAIN h.circuits : h.circuits[c] = "half_open", "circuit_half_open", FALSE) = {}
  <2>1. ~h.closed /\ ~h.copyShutdownIncomplete
    BY SnapshotHolds, Zenon
  <2>2. ~(h.unsafeSources > 0)
    BY SnapshotHolds
  <2> HIDE DEF h
  <2> QED BY <2>1, <2>2, <1>7, Zenon DEF If
<1>10. If(AnyBacklog(h.buffers, p.bufferDegraded), "observability_backlog_high",
          AnyBacklog(h.buffers, p.bufferCritical))
       = If(Reaches(pending, maxPending, Ratio(1, 2)), "observability_backlog_high",
            Reaches(pending, maxPending, Ratio(9, 10)))
  BY <1>1, <1>5 DEF If, Finding
<1>11. If(\E n \in DOMAIN h.buffers : ~h.buffers[n].alive /\ ~h.buffers[n].closed,
          "observability_worker_stopped", TRUE)
       = If(Ended /\ ~closed, "observability_worker_stopped", TRUE)
  BY <1>6 DEF If
<1>12. If(h.bufferShutdownIncomplete, "observability_shutdown_incomplete", TRUE)
       = If(closed /\ ~Ended, "observability_shutdown_incomplete", TRUE)
  BY SnapshotHolds DEF If
<1> DEFINE backlog == If(AnyBacklog(h.buffers, p.bufferDegraded), "observability_backlog_high",
                         AnyBacklog(h.buffers, p.bufferCritical))
           stopped == If(\E n \in DOMAIN h.buffers : ~h.buffers[n].alive /\ ~h.buffers[n].closed,
                         "observability_worker_stopped", TRUE)
           incomplete == If(h.bufferShutdownIncomplete, "observability_shutdown_incomplete", TRUE)
<1> HIDE DEF h, p
<1>13. Findings(h, {}, p) =
           {} \cup {} \cup {} \cup {} \cup {} \cup backlog \cup stopped \cup {} \cup {} \cup {}
              \cup incomplete \cup {}
  BY <1>2, <1>3, <1>8, <1>9, Zenon DEF Findings
<1> HIDE DEF backlog, stopped, incomplete
<1>14. Findings(h, {}, p) = backlog \cup stopped \cup incomplete
  BY <1>13
<1> QED BY <1>10, <1>11, <1>12, <1>14, Zenon DEF h, p, backlog, stopped, incomplete

LEMMA AssessTruthful == Inv /\ JoinedEnded => BufferHealthTruthful
<1> SUFFICES ASSUME Inv, JoinedEnded PROVE BufferHealthTruthful
  OBVIOUS
<1> DEFINE findings == Findings(HealthSnapshot, {}, DefaultPolicy)
<1>1. pending \in Nat /\ maxPending \in Nat /\ maxPending >= 1
  BY Numbers
<1>2. \A n, d : Ratio(n, d).num = n /\ Ratio(n, d).den = d
  BY DEF Ratio
<1>3. "observability_worker_stopped" \in Reasons(findings) <=> worker = "dead" /\ ~closed
  <2>1. "observability_worker_stopped" \in Reasons(findings) <=> Ended /\ ~closed
    <3>1. \A f \in If(Reaches(pending, maxPending, Ratio(1, 2)), "observability_backlog_high",
                      Reaches(pending, maxPending, Ratio(9, 10))) :
            f.reason # "observability_worker_stopped"
      BY DEF If, Finding
    <3>2. \A f \in If(closed /\ ~Ended, "observability_shutdown_incomplete", TRUE) :
            f.reason # "observability_worker_stopped"
      BY DEF If, Finding
    <3>3. CASE Ended /\ ~closed
      <4>1. Finding("observability_worker_stopped", TRUE) \in findings
        BY <3>3, BufferFindings, Zenon DEF If
      <4>2. Finding("observability_worker_stopped", TRUE).reason = "observability_worker_stopped"
        BY DEF Finding
      <4> HIDE DEF findings
      <4> QED BY <3>3, <4>1, <4>2 DEF Reasons
    <3>4. CASE ~(Ended /\ ~closed)
      <4>1. \A f \in findings : f.reason # "observability_worker_stopped"
        BY <3>1, <3>2, <3>4, BufferFindings, Zenon DEF If
      <4> HIDE DEF findings
      <4> QED BY <3>4, <4>1 DEF Reasons
    <3> QED BY <3>3, <3>4
  <2>2. ~closed => worker # "stopped"
    BY DEF Inv, OneCloser, QueueShape, Posted
  <2> QED BY <2>1, <2>2 DEF Ended
<1>4. ASSUME Cardinality(Records) = maxPending
      PROVE  Finding("observability_backlog_high", TRUE) \in findings
  <2>1. Cardinality(Records) = Queued /\ Queued \in Nat
    BY RecordsQueued, <1>1, <1>4
  <2>2. pending >= maxPending
    BY <1>1, <1>4, <2>1 DEF Inv, Counted, One
  <2>3. Reaches(pending, maxPending, Ratio(1, 2)) /\ Reaches(pending, maxPending, Ratio(9, 10))
    BY <1>1, <1>2, <2>2 DEF Reaches
  <2> QED BY <2>3, BufferFindings DEF If, Finding
<1>5. ASSUME first # NoOne, closing[first] = "stopped" PROVE Severity(findings) = "healthy"
  <2>1. first \in Closers /\ closed
    BY <1>5 DEF Inv, TypeOK, OneCloser
  <2>2. Ended
    BY <1>5, <2>1 DEF JoinedEnded
  <2>3. pending = 0
    BY <1>5, <2>2 DEF Inv, Counted, Queued, Posted, Discarding, One, Ended
  <2>4. ~Reaches(pending, maxPending, Ratio(1, 2))
    BY <1>1, <1>2, <2>3 DEF Reaches
  <2>5. findings = {}
    BY <2>1, <2>2, <2>4, BufferFindings DEF If
  <2> QED BY <2>5 DEF Severity
<1> HIDE DEF findings
<1> QED BY <1>3, <1>4, <1>5 DEF BufferHealthTruthful, findings

\* What a monitor learns of the buffer from BuilderHealth.assess is true, in every state.
THEOREM BufferMonitored == Spec => []BufferHealthTruthful
<1>1. Init => JoinedEnded
  BY DEF Init, JoinedEnded
<1>2. Inv /\ JoinedEnded /\ [Next]_vars => JoinedEnded'
  BY JoinedStays
<1> QED BY <1>1, <1>2, Invariance, AssessTruthful, PTL DEF Spec
=============================================================================
