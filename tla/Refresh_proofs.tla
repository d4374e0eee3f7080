---------------------------- MODULE Refresh_proofs ----------------------------
(***************************************************************************)
(* For every set of keys and callers and every number of refreshes: no     *)
(* refresh escapes the table while it runs, none is left once a close has  *)
(* returned, and the counters account for every refresh.                   *)
(***************************************************************************)
EXTENDS Refresh, FiniteSetTheorems, TLAPS

\* Refreshes are numbered as they are scheduled, and the table names none that was not.
Numbered ==
    /\ refreshScheduled \in 0..MaxTasks /\ Created = 1..refreshScheduled
    /\ keyOf \in [Created -> Keys] /\ tasks \in [Keys -> Created \cup {None}]
    /\ state \in [Created -> {"created", "waiting", "done", "finished"}]
    /\ outcome \in [Created -> {"none", "fresh", "not fresh", "seen", "cancelled", "never run"}]

\* What TypeOK says of the rest, and what a cancelled or a waiting task can be.
Shaped ==
    /\ cancelled \subseteq Live /\ flight \subseteq Keys /\ closed \in BOOLEAN
    /\ caller \in [Callers -> {"no", "wait", "close", "stopping", "returned", "closed", "raised"}]
    /\ gathered \in [Callers -> SUBSET Created]
    /\ refreshCompleted \in Nat /\ refreshFailed \in Nat
    /\ \A t \in Live : outcome[t] # "never run"

\* A close in progress has gathered every refresh that still runs, since none begins any more.
CloseGathersAll ==
    \A c \in Callers :
        /\ caller[c] = "close" => closed /\ Live \subseteq gathered[c]
        /\ caller[c] = "closed" => closed /\ Live = {}

\* The refreshes that are in no counter but refresh_scheduled.
Uncounted == Live \cup {t \in Created : outcome[t] = "never run"}

\* The inductive invariant.
IInv == Numbered /\ Shaped /\ LiveRegistered /\ CloseGathersAll /\ RefreshesCounted

-----------------------------------------------------------------------------
\* Which refreshes still run.
LEMMA LiveIs == \A t : t \in Live <=> t \in Created /\ state[t] \in {"created", "waiting"}
BY DEF Live, In

\* Which ones no counter has.
LEMMA UncountedIs ==
    \A t : t \in Uncounted <=>
               t \in Created /\ (state[t] \in {"created", "waiting"} \/ outcome[t] = "never run")
BY DEF Live, In, Uncounted

\* There are finitely many refreshes, and adding or removing one counts.
LEMMA Counting ==
    ASSUME Numbered, NEW S \in SUBSET Created
    PROVE  /\ IsFiniteSet(S) /\ Cardinality(S) \in Nat
           /\ \A t : t \notin S => Cardinality(S \cup {t}) = Cardinality(S) + 1
           /\ \A t : t \in S => Cardinality(S \ {t}) = Cardinality(S) - 1
           /\ Cardinality(Created) = refreshScheduled
<1>1. refreshScheduled \in Nat /\ Created = 1..refreshScheduled
  <2>1. refreshScheduled \in 0..MaxTasks /\ Created = 1..refreshScheduled
    BY DEF Numbered
  <2> QED BY <2>1, RefreshAssumption
<1>2. /\ IsFiniteSet(1..refreshScheduled)
      /\ Cardinality(1..refreshScheduled) = IF 1 > refreshScheduled THEN 0 ELSE refreshScheduled - 1 + 1
  BY <1>1, FS_Interval
<1>3. IsFiniteSet(S)
  BY <1>1, <1>2, FS_Subset
<1>4. Cardinality(Created) = refreshScheduled
  BY <1>1, <1>2
<1> QED BY <1>3, <1>4, FS_CardinalityType, FS_AddElement, FS_RemoveElement

\* The invariant holds before the first refresh.
LEMMA InitEstablishes == Init => IInv
<1> SUFFICES ASSUME Init PROVE IInv
  OBVIOUS
<1>1. Created = {} /\ Live = {} /\ DOMAIN state = {} /\ DOMAIN outcome = {}
  BY DEF Init, Created, Live, In
<1>2. Numbered
  <2>1. {} = 1..0
    OBVIOUS
  <2>2. keyOf = [t \in {} |-> keyOf[t]] /\ state = [t \in {} |-> state[t]] /\ outcome = [t \in {} |-> outcome[t]]
    BY DEF Init
  <2> QED BY <1>1, <2>1, <2>2, RefreshAssumption DEF Init, Numbered
<1>3. Shaped
  BY <1>1 DEF Init, Shaped
<1>4. LiveRegistered /\ CloseGathersAll
  BY <1>1 DEF Init, LiveRegistered, CloseGathersAll
<1>5. RefreshesCounted
  <2>1. Uncounted = {}
    BY <1>1 DEF Uncounted
  <2>2. Cardinality(Uncounted) = 0
    BY <2>1, FS_EmptySet
  <2>3. refreshScheduled = 0 /\ refreshCompleted = 0 /\ refreshFailed = 0
    BY DEF Init
  <2>4. refreshScheduled = refreshCompleted + refreshFailed + Cardinality(Uncounted)
    BY <2>2, <2>3
  <2> QED BY <2>4 DEF RefreshesCounted, Uncounted
<1> QED BY <1>2, <1>3, <1>4, <1>5 DEF IInv

-----------------------------------------------------------------------------
\* schedule.
LEMMA ScheduleKeeps ==
    ASSUME IInv, NEW k \in Keys, Schedule(k)
    PROVE  IInv'
<1> DEFINE n == refreshScheduled  t == n + 1
<1>0. Numbered /\ Shaped /\ LiveRegistered /\ CloseGathersAll /\ RefreshesCounted
  BY DEF IInv
<1>1. n \in Nat /\ n < MaxTasks /\ Created = 1..n /\ Cardinality(Created) = n
  <2>1. Cardinality(Created) = n /\ n \in 0..MaxTasks /\ Created = 1..n
    BY <1>0, Counting DEF Numbered
  <2>2. Cardinality(Created) < MaxTasks
    BY DEF Schedule
  <2> QED BY <2>1, <2>2, RefreshAssumption
<1>2. /\ ~closed /\ tasks[k] \notin Live
      /\ tasks' = [tasks EXCEPT ![k] = t] /\ keyOf' = Extend(keyOf, t, k)
      /\ state' = Extend(state, t, "created") /\ outcome' = Extend(outcome, t, "none")
      /\ refreshScheduled' = n + 1
      /\ UNCHANGED <<cancelled, flight, closed, caller, gathered, refreshCompleted, refreshFailed>>
  BY <1>1 DEF Schedule, callers
<1>3. t \notin Created /\ 1..t = Created \cup {t}
  BY <1>1
<1>4. /\ DOMAIN keyOf = Created /\ DOMAIN state = Created /\ DOMAIN outcome = Created
  BY <1>0 DEF Numbered, Created
<1> HIDE DEF t
<1>5. /\ Created' = Created \cup {t}
      /\ \A u \in Created : keyOf'[u] = keyOf[u] /\ state'[u] = state[u] /\ outcome'[u] = outcome[u]
      /\ keyOf'[t] = k /\ state'[t] = "created" /\ outcome'[t] = "none"
  BY <1>2, <1>3, <1>4 DEF Extend, Created
<1>6. /\ Live' = Live \cup {t}
  <2>1. \A u : u \in Live' <=> u \in Created' /\ state'[u] \in {"created", "waiting"}
    BY DEF Live, In
  <2> QED BY <1>3, <1>5, <2>1, LiveIs
<1>7. Numbered'
  <2>1. /\ keyOf' \in [Created' -> Keys]
        /\ state' \in [Created' -> {"created", "waiting", "done", "finished"}]
        /\ outcome' \in [Created' -> {"none", "fresh", "not fresh", "seen", "cancelled", "never run"}]
    BY <1>0, <1>2, <1>4, <1>5 DEF Numbered, Extend
  <2>2. tasks' \in [Keys -> Created' \cup {None}]
    BY <1>0, <1>2, <1>5 DEF Numbered
  <2>3. refreshScheduled' \in 0..MaxTasks /\ Created' = 1..refreshScheduled'
    BY <1>1, <1>2, <1>3, <1>5, RefreshAssumption DEF t
  <2> QED BY <2>1, <2>2, <2>3 DEF Numbered
<1>8. Shaped'
  <2>1. cancelled' \subseteq Live' /\ gathered' \in [Callers -> SUBSET Created']
    BY <1>0, <1>2, <1>5, <1>6 DEF Shaped
  <2>2. \A u \in Live' : outcome'[u] # "never run"
    BY <1>0, <1>5, <1>6, LiveIs DEF Shaped
  <2> QED BY <1>0, <1>2, <2>1, <2>2 DEF Shaped
<1>9. LiveRegistered'
  <2>1. ASSUME NEW u \in Live PROVE tasks'[keyOf'[u]] = u
    <3>1. u \in Created /\ tasks[keyOf[u]] = u
      BY <1>0, LiveIs DEF LiveRegistered
    <3>2. keyOf[u] \in Keys /\ keyOf[u] # k
      BY <1>0, <1>2, <3>1 DEF Numbered
    <3>3. tasks'[keyOf[u]] = tasks[keyOf[u]]
      BY <1>0, <1>2, <3>2 DEF Numbered
    <3> QED BY <1>5, <3>1, <3>3
  <2>2. tasks'[keyOf'[t]] = t
    BY <1>0, <1>2, <1>5 DEF Numbered
  <2> QED BY <1>6, <2>1, <2>2 DEF LiveRegistered
<1>10. CloseGathersAll'
  BY <1>0, <1>2 DEF CloseGathersAll
<1>11. RefreshesCounted'
  <2>1. Uncounted' = Uncounted \cup {t} /\ t \notin Uncounted /\ Uncounted \in SUBSET Created
    <3>1. \A u : u \in Uncounted' <=>
             u \in Created' /\ (state'[u] \in {"created", "waiting"} \/ outcome'[u] = "never run")
      BY DEF Live, In, Uncounted
    <3> QED BY <1>3, <1>5, <3>1, UncountedIs
  <2>2. Cardinality(Uncounted') = Cardinality(Uncounted) + 1 /\ Cardinality(Uncounted) \in Nat
    BY <1>0, <2>1, Counting
  <2>3. n = refreshCompleted + refreshFailed + Cardinality(Uncounted)
    BY <1>0 DEF RefreshesCounted, Uncounted
  <2>4. refreshScheduled' = refreshCompleted' + refreshFailed' + Cardinality(Uncounted')
    <3>1. refreshCompleted \in Nat /\ refreshFailed \in Nat
      BY <1>0 DEF Shaped
    <3>2. refreshScheduled' = n + 1 /\ refreshCompleted' = refreshCompleted /\ refreshFailed' = refreshFailed
      BY <1>2
    <3> QED BY <2>2, <2>3, <3>1, <3>2
  <2> QED BY <2>4 DEF RefreshesCounted, Uncounted
<1> QED BY <1>7, <1>8, <1>9, <1>10, <1>11 DEF IInv

\* A step of one task t, which leaves its key alone: the table may lose an entry of a task that
\* is over, the task may end, and then it is counted unless it never ran.
TaskMoves(t, s, o) ==
    /\ t \in Created
    /\ o \in {"none", "fresh", "not fresh", "seen", "cancelled", "never run"}
    /\ keyOf' = keyOf /\ state' = [state EXCEPT ![t] = s] /\ outcome' = [outcome EXCEPT ![t] = o]
    /\ UNCHANGED <<closed, caller, gathered, refreshScheduled>>
    /\ flight' \subseteq Keys /\ cancelled' \subseteq cancelled
    /\ s # "waiting" => t \notin cancelled'
    /\ tasks' \in [Keys -> Created \cup {None}]
    /\ \A k \in Keys : tasks'[k] = tasks[k] \/ tasks[k] \notin Live
Counted(t, s, o) ==
    \/ /\ t \in Live /\ s = "waiting" /\ o # "never run"
       /\ UNCHANGED <<refreshCompleted, refreshFailed>>
    \/ /\ t \in Live /\ s = "done" /\ o = "never run"
       /\ UNCHANGED <<refreshCompleted, refreshFailed>>
    \/ /\ t \in Live /\ s = "done" /\ o # "never run"
       /\ \/ refreshCompleted' = refreshCompleted + 1 /\ refreshFailed' = refreshFailed
          \/ refreshCompleted' = refreshCompleted /\ refreshFailed' = refreshFailed + 1
    \/ /\ t \notin Live /\ s = "finished" /\ o = outcome[t]
       /\ UNCHANGED <<refreshCompleted, refreshFailed>>

\* A step of one refresh keeps the invariant.
LEMMA TaskKeeps ==
    ASSUME IInv, NEW t, NEW s, NEW o, TaskMoves(t, s, o), Counted(t, s, o)
    PROVE  IInv'
<1>0. Numbered /\ Shaped /\ LiveRegistered /\ CloseGathersAll /\ RefreshesCounted
  BY DEF IInv
<1>1. /\ Created' = Created /\ state'[t] = s /\ outcome'[t] = o
      /\ \A u \in Created : u # t => state'[u] = state[u] /\ outcome'[u] = outcome[u]
  BY <1>0 DEF Numbered, Created, TaskMoves
<1>m. /\ t \in Created /\ s \in {"waiting", "done", "finished"}
      /\ o \in {"none", "fresh", "not fresh", "seen", "cancelled", "never run"}
  BY DEF TaskMoves, Counted
<1>2. /\ \A u : u \in Live' <=> u \in Created' /\ state'[u] \in {"created", "waiting"}
      /\ \A u : u \in Uncounted' <=>
             u \in Created' /\ (state'[u] \in {"created", "waiting"} \/ outcome'[u] = "never run")
  BY DEF Live, In, Uncounted
<1>3. Live' = IF s = "waiting" THEN Live ELSE Live \ {t}
  <2>1. s = "waiting" => t \in Live
    BY DEF Counted
  <2>2. \A u \in Created : u # t => (u \in Live' <=> u \in Live)
    BY <1>1, <1>2, <1>m, LiveIs
  <2>3. t \in Live' <=> s = "waiting"
    BY <1>1, <1>2, <1>m
  <2>4. Live \subseteq Created /\ Live' \subseteq Created
    BY <1>1, <1>2, <1>m, LiveIs
  <2> QED BY <2>1, <2>2, <2>3, <2>4
<1>4. Numbered'
  BY <1>0, <1>1, <1>m DEF Numbered, TaskMoves
<1>5. Shaped'
  <2>1. cancelled' \subseteq Live'
    BY <1>0, <1>3 DEF Shaped, TaskMoves
  <2>2. refreshCompleted' \in Nat /\ refreshFailed' \in Nat
    <3>1. refreshCompleted \in Nat /\ refreshFailed \in Nat
      BY <1>0 DEF Shaped
    <3>2. /\ refreshCompleted' \in {refreshCompleted, refreshCompleted + 1}
          /\ refreshFailed' \in {refreshFailed, refreshFailed + 1}
      BY DEF Counted
    <3> QED BY <3>1, <3>2
  <2>3. \A u \in Live' : outcome'[u] # "never run"
    <3>1. \A u \in Live' : u \in Live /\ (u = t => s = "waiting")
      BY <1>3
    <3>2. s = "waiting" => o # "never run"
      BY DEF Counted
    <3> QED BY <1>0, <1>1, <3>1, <3>2, LiveIs DEF Shaped
  <2>4. gathered' \in [Callers -> SUBSET Created']
    BY <1>0, <1>1 DEF Shaped, TaskMoves
  <2> QED BY <1>0, <2>1, <2>2, <2>3, <2>4 DEF Shaped, TaskMoves
<1>6. LiveRegistered'
  <2> SUFFICES ASSUME NEW u \in Live' PROVE tasks'[keyOf'[u]] = u
    BY DEF LiveRegistered
  <2>1. u \in Live /\ u \in Created /\ keyOf[u] \in Keys /\ tasks[keyOf[u]] = u
    BY <1>0, <1>3, LiveIs DEF Numbered, LiveRegistered
  <2> QED BY <2>1 DEF TaskMoves
<1>7. CloseGathersAll'
  BY <1>0, <1>3 DEF CloseGathersAll, TaskMoves
<1>8. RefreshesCounted'
  <2>1. /\ Uncounted \in SUBSET Created /\ (t \in Live => t \in Uncounted)
        /\ Uncounted' = IF t \in Live /\ s = "done" /\ o # "never run"
                        THEN Uncounted \ {t} ELSE Uncounted
    <3>1. Uncounted \subseteq Created /\ Uncounted' \subseteq Created
      BY <1>1, <1>2, <1>m, UncountedIs
    <3>2. \A u \in Created : u # t => (u \in Uncounted' <=> u \in Uncounted)
      BY <1>1, <1>2, <1>m, UncountedIs
    <3>3. t \in Live => t \in Uncounted
      BY LiveIs, UncountedIs
    <3>4. t \in Uncounted' <=> t \in Uncounted /\ ~(t \in Live /\ s = "done" /\ o # "never run")
      BY <1>1, <1>2, <1>m, LiveIs, UncountedIs DEF Counted
    <3>5. CASE t \in Live /\ s = "done" /\ o # "never run"
      <4>1. \A u : u \in Uncounted' <=> u \in Uncounted /\ u # t
        BY <1>m, <3>1, <3>2, <3>4, <3>5
      <4> QED BY <3>1, <3>3, <3>5, <4>1
    <3>6. CASE ~(t \in Live /\ s = "done" /\ o # "never run")
      <4>1. \A u : u \in Uncounted' <=> u \in Uncounted
        BY <1>m, <3>1, <3>2, <3>4, <3>6
      <4>2. Uncounted' = Uncounted
        BY <4>1
      <4> QED BY <3>1, <3>3, <3>6, <4>2
    <3> QED BY <3>5, <3>6
  <2>2. Cardinality(Uncounted) \in Nat /\ (t \in Uncounted =>
            Cardinality(Uncounted \ {t}) = Cardinality(Uncounted) - 1)
    BY <1>0, <2>1, Counting
  <2>3. refreshScheduled = refreshCompleted + refreshFailed + Cardinality(Uncounted)
    BY <1>0 DEF RefreshesCounted, Uncounted
  <2>4. refreshCompleted \in Nat /\ refreshFailed \in Nat
    BY <1>0 DEF Shaped
  <2>5. refreshScheduled' = refreshCompleted' + refreshFailed' + Cardinality(Uncounted')
    <3>1. CASE t \in Live /\ s = "done" /\ o # "never run"
      <4>1. Cardinality(Uncounted') = Cardinality(Uncounted) - 1
        BY <2>1, <2>2, <3>1
      <4>2. \/ refreshCompleted' = refreshCompleted + 1 /\ refreshFailed' = refreshFailed
            \/ refreshCompleted' = refreshCompleted /\ refreshFailed' = refreshFailed + 1
        BY <3>1 DEF Counted
      <4>3. Cardinality(Uncounted) \in Nat /\ refreshScheduled' = refreshScheduled
        BY <2>2 DEF TaskMoves
      <4> QED BY <2>3, <2>4, <4>1, <4>2, <4>3
    <3>2. CASE ~(t \in Live /\ s = "done" /\ o # "never run")
      BY <2>1, <2>3, <3>2 DEF Counted, TaskMoves
    <3> QED BY <3>1, <3>2
  <2> QED BY <2>5 DEF RefreshesCounted, Uncounted
<1> QED BY <1>4, <1>5, <1>6, <1>7, <1>8 DEF IInv

\* A step that leaves the tasks themselves as they are: a flight that starts or ends, and what
\* a caller does.
LEMMA OthersKeep ==
    ASSUME Numbered, Shaped, LiveRegistered, RefreshesCounted, CloseGathersAll',
           UNCHANGED <<tasks, keyOf, state, refreshScheduled, refreshCompleted, refreshFailed>>,
           outcome' \in [Created -> {"none", "fresh", "not fresh", "seen", "cancelled", "never run"}],
           \A t \in Created : outcome'[t] = "never run" <=> outcome[t] = "never run",
           cancelled' \subseteq Live, flight' \subseteq Keys, closed' \in BOOLEAN,
           caller' \in [Callers -> {"no", "wait", "close", "stopping", "returned", "closed", "raised"}],
           gathered' \in [Callers -> SUBSET Created]
    PROVE  IInv'
<1>1. Created' = Created /\ Live' = Live
  BY DEF Created, Live, In
<1>2. Uncounted' = Uncounted
  <2>1. {t \in Created : outcome'[t] = "never run"} = {t \in Created : outcome[t] = "never run"}
    OBVIOUS
  <2> QED BY <1>1, <2>1 DEF Uncounted
<1>3. Numbered'
  BY <1>1 DEF Numbered
<1>4. Shaped'
  BY <1>1, LiveIs DEF Shaped
<1>5. LiveRegistered'
  BY <1>1 DEF LiveRegistered
<1>6. RefreshesCounted'
  <2>1. refreshScheduled = refreshCompleted + refreshFailed + Cardinality(Uncounted)
    BY DEF RefreshesCounted, Uncounted
  <2>2. refreshScheduled' = refreshCompleted' + refreshFailed' + Cardinality(Uncounted')
    BY <1>2, <2>1
  <2> QED BY <2>2 DEF RefreshesCounted, Uncounted
<1> QED BY <1>3, <1>4, <1>5, <1>6 DEF IInv

\* Every step keeps it.
LEMMA NextPreserves == IInv /\ [Next]_vars => IInv'
<1> SUFFICES ASSUME IInv, [Next]_vars PROVE IInv'
  OBVIOUS
<1>0. Numbered /\ Shaped /\ LiveRegistered /\ CloseGathersAll /\ RefreshesCounted
  BY DEF IInv
<1>1. /\ \A t \in Live : t \in Created /\ keyOf[t] \in Keys /\ tasks[keyOf[t]] = t
      /\ Live \subseteq Registered /\ Registered \subseteq Created
  <2>1. \A t \in Live : t \in Created /\ keyOf[t] \in Keys /\ tasks[keyOf[t]] = t
    BY <1>0, LiveIs DEF Numbered, LiveRegistered
  <2>2. None \notin Created
    <3>1. refreshScheduled \in 0..MaxTasks /\ Created = 1..refreshScheduled
      BY <1>0 DEF Numbered
    <3> QED BY <3>1, RefreshAssumption DEF None
  <2>3. Live \subseteq Registered
    BY <2>1, <2>2 DEF Registered
  <2>4. Registered \subseteq Created
    <3>1. \A k \in Keys : tasks[k] \in Created \cup {None}
      BY <1>0 DEF Numbered
    <3> QED BY <3>1 DEF Registered
  <2> QED BY <2>1, <2>3, <2>4
<1>2. ASSUME NEW k \in Keys, Schedule(k) PROVE IInv'
  BY <1>2, ScheduleKeeps
<1>3. ASSUME NEW t \in Created, Run(t) PROVE IInv'
  <2>1. t \in Live /\ outcome' = [outcome EXCEPT ![t] = outcome[t]] /\ outcome[t] # "never run"
    BY <1>0, <1>3, LiveIs DEF Run, Numbered, Shaped
  <2>2. TaskMoves(t, "waiting", outcome[t])
    BY <1>0, <1>3, <2>1 DEF Run, TaskMoves, callers, counters, Numbered, Shaped
  <2>3. Counted(t, "waiting", outcome[t])
    BY <1>3, <2>1 DEF Run, Counted, counters
  <2> QED BY <2>2, <2>3, TaskKeeps
<1>4. ASSUME NEW t \in Created, Resume(t) PROVE IInv'
  <2>1. t \in Live
    BY <1>4, LiveIs DEF Resume
  <2>2. TaskMoves(t, "done", "seen")
    BY <1>0, <1>4 DEF Resume, TaskMoves, callers, Numbered, Shaped
  <2>3. Counted(t, "done", "seen")
    BY <1>4, <2>1 DEF Resume, Counted
  <2> QED BY <2>2, <2>3, TaskKeeps
<1>5. ASSUME NEW t \in Created, Stop(t) PROVE IInv'
  <2> DEFINE o == IF state[t] = "created" THEN "never run" ELSE "cancelled"
  <2>1. t \in Live
    BY <1>0, <1>5 DEF Stop, Shaped
  <2>2. TaskMoves(t, "done", o)
    BY <1>0, <1>5 DEF Stop, TaskMoves, callers, Numbered, Shaped
  <2>3. Counted(t, "done", o)
    BY <1>5, <2>1 DEF Stop, Counted
  <2> QED BY <2>2, <2>3, TaskKeeps
<1>6. ASSUME NEW t \in Created, Finish(t) PROVE IInv'
  <2>1. t \notin Live /\ t \notin cancelled /\ outcome' = [outcome EXCEPT ![t] = outcome[t]]
    BY <1>0, <1>6, LiveIs DEF Finish, Numbered, Shaped
  <2>2. TaskMoves(t, "finished", outcome[t])
    <3>1. /\ tasks' \in [Keys -> Created \cup {None}]
          /\ \A k \in Keys : tasks'[k] = tasks[k] \/ tasks[k] = t
      BY <1>0, <1>6 DEF Finish, Numbered
    <3> QED BY <1>0, <1>6, <2>1, <3>1 DEF Finish, TaskMoves, callers, counters, Numbered, Shaped
  <2>3. Counted(t, "finished", outcome[t])
    BY <1>6, <2>1 DEF Finish, Counted, counters
  <2> QED BY <2>2, <2>3, TaskKeeps
<1>7. ASSUME NEW k \in Keys, ForegroundFlight(k) PROVE IInv'
  <2>1. Live' = Live
    BY <1>7 DEF ForegroundFlight, Live, In, Created
  <2>2. CloseGathersAll'
    BY <1>0, <1>7, <2>1 DEF CloseGathersAll, ForegroundFlight, callers
  <2> QED BY <1>0, <1>7, <2>2, OthersKeep DEF ForegroundFlight, callers, counters, Numbered, Shaped
<1>8. ASSUME NEW k \in Keys, FlightEnds(k) PROVE IInv'
  <2>1. Live' = Live
    BY <1>8 DEF FlightEnds, Live, In, Created
  <2>2. CloseGathersAll'
    BY <1>0, <1>8, <2>1 DEF CloseGathersAll, FlightEnds, callers
  <2>3. PICK o \in {"fresh", "not fresh"} :
           outcome' = [t \in Created |->
                         IF keyOf[t] = k /\ state[t] = "waiting" /\ outcome[t] = "none"
                         THEN o ELSE outcome[t]]
    BY <1>8 DEF FlightEnds
  <2>4. /\ outcome' \in [Created -> {"none", "fresh", "not fresh", "seen", "cancelled", "never run"}]
        /\ \A t \in Created : outcome'[t] = "never run" <=> outcome[t] = "never run"
    BY <1>0, <2>3 DEF Numbered
  <2> QED BY <1>0, <1>8, <2>2, <2>4, OthersKeep DEF FlightEnds, callers, counters, Shaped
<1>9. ASSUME NEW c \in Callers, NEW b \in BOOLEAN,
             Wait(c) \/ Close(c, b) \/ CloseReturns(c) \/ CancelCaller(c) \/ CallerRaises(c)
      PROVE  IInv'
  <2>1. Live' = Live
    BY <1>9 DEF Wait, Close, CloseReturns, CancelCaller, CallerRaises, Live, In, Created
  <2>2. CloseGathersAll'
    <3>1. CASE Wait(c)
      BY <1>0, <2>1, <3>1 DEF Wait, CloseGathersAll, Shaped
    <3>2. CASE Close(c, b)
      BY <1>0, <1>1, <2>1, <3>2 DEF Close, CloseGathersAll, Shaped
    <3>3. CASE CloseReturns(c)
      <4>1. Live = {}
        BY <1>0, <3>3, LiveIs DEF CloseReturns, CloseGathersAll, Gathered
      <4> QED BY <1>0, <2>1, <3>3, <4>1 DEF CloseReturns, CloseGathersAll, Shaped
    <3>4. CASE CancelCaller(c)
      BY <1>0, <2>1, <3>4 DEF CancelCaller, CloseGathersAll, Shaped
    <3>5. CASE CallerRaises(c)
      BY <1>0, <2>1, <3>5 DEF CallerRaises, CloseGathersAll, Shaped
    <3> QED BY <1>9, <3>1, <3>2, <3>3, <3>4, <3>5
  <2>3. /\ UNCHANGED <<tasks, keyOf, state, outcome, flight>>
        /\ UNCHANGED <<refreshScheduled, refreshCompleted, refreshFailed>>
    BY <1>9 DEF Wait, Close, CloseReturns, CancelCaller, CallerRaises, counters
  <2>4. /\ cancelled' \subseteq Live /\ closed' \in BOOLEAN
        /\ caller' \in [Callers -> {"no", "wait", "close", "stopping", "returned", "closed", "raised"}]
        /\ gathered' \in [Callers -> SUBSET Created]
    BY <1>0, <1>1, <1>9 DEF Wait, Close, CloseReturns, CancelCaller, CallerRaises, Shaped
  <2> QED BY <1>0, <2>2, <2>3, <2>4, OthersKeep DEF Numbered, Shaped
<1>10. CASE UNCHANGED vars
  <2>1. Live' = Live
    BY <1>10 DEF vars, Live, In, Created
  <2>2. CloseGathersAll'
    BY <1>0, <1>10, <2>1 DEF CloseGathersAll, vars
  <2> QED BY <1>0, <1>10, <2>2, OthersKeep DEF vars, Numbered, Shaped
<1> QED BY <1>2, <1>3, <1>4, <1>5, <1>6, <1>7, <1>8, <1>9, <1>10 DEF Next, TaskStep, CallerStep

\* The inductive invariant is one.
THEOREM Invariance == Spec => []IInv
BY InitEstablishes, NextPreserves, PTL DEF Spec

\* Every refresh that still runs is the one registered for its key, so that schedule never
\* starts a second one, though _finish of its predecessor may run after it was scheduled; and
\* once a close has returned no refresh is left and none begins.
THEOREM NoRefreshEscapes == Spec => []NoneLeftBehind
<1>1. IInv => NoneLeftBehind
  <2> SUFFICES ASSUME IInv PROVE NoneLeftBehind
    OBVIOUS
  <2>1. TypeOK
    <3>1. refreshScheduled \in 0..MaxTasks /\ Created = 1..refreshScheduled
      BY DEF IInv, Numbered
    <3>2. Created \in SUBSET Tasks
      BY <3>1, RefreshAssumption DEF Tasks
    <3>3. /\ refreshCompleted \in Nat /\ refreshFailed \in Nat /\ Cardinality(Uncounted) \in Nat
          /\ refreshScheduled = refreshCompleted + refreshFailed + Cardinality(Uncounted)
      <4>1. Uncounted \in SUBSET Created
        BY UncountedIs
      <4> QED BY <4>1, Counting DEF IInv, Shaped, RefreshesCounted, Uncounted
    <3>4. refreshCompleted \in 0..MaxTasks /\ refreshFailed \in 0..MaxTasks
      BY <3>1, <3>3, RefreshAssumption
    <3>5. tasks \in [Keys -> Tasks \cup {None}]
      BY <3>2 DEF IInv, Numbered
    <3> QED BY <3>1, <3>2, <3>4, <3>5 DEF IInv, Numbered, Shaped, TypeOK
  <2>2. LiveRegistered /\ ClosedMeansSettled
    BY DEF IInv, CloseGathersAll, ClosedMeansSettled
  <2> QED BY <2>1, <2>2 DEF NoneLeftBehind
<1> QED BY <1>1, Invariance, PTL

\* Every refresh scheduled is counted once, as completed or failed, when its task ends; only
\* those cancelled before their first step are not.
THEOREM EveryRefreshCounted == Spec => []RefreshesCounted
<1>1. IInv => RefreshesCounted
  BY DEF IInv
<1> QED BY <1>1, Invariance, PTL
=============================================================================
