----------------------- MODULE SessionAndCache_proofs -----------------------
(***************************************************************************)
(* The two holders of values that callers read, the shared cache and the   *)
(* sessions' memos, which have no variable in common.                      *)
(* Part 1, Session, for every set of keys, dependencies and requests, and  *)
(* whatever is published, built elsewhere or forgotten meanwhile: the      *)
(* values a session shows and the values it pins stay together, but for    *)
(* the two ways out that VisiblePinned names, and a forced revalidation    *)
(* refreshes whatever depends on what it was asked for.                    *)
(* Part 2, CachePublication, for every set of keys, calls, batches and     *)
(* stripes: what readers of the cache get is consistent, an entry is only  *)
(* replaced by one that may replace it, and the publisher's stripes never  *)
(* deadlock.                                                               *)
(***************************************************************************)
EXTENDS Session, CachePublication, FiniteSetTheorems, WellFoundedInduction, TLAPS

-----------------------------------------------------------------------------
\* Part 1: Session.

-----------------------------------------------------------------------------
\* What depends on what.

\* Affected is closed: it has S, and the dependents of its members.
LEMMA AffectedClosed ==
    ASSUME NEW S, S \subseteq Keys, NEW m
    PROVE  /\ S \subseteq Affected(S, m) /\ Affected(S, m) \subseteq Keys
           /\ Dependents(Affected(S, m), m) \subseteq Affected(S, m)
<1>1. S \subseteq Affected(S, m) /\ Affected(S, m) \subseteq Keys
  BY DEF Affected
<1>2. ASSUME NEW k \in Dependents(Affected(S, m), m) PROVE k \in Affected(S, m)
  <2>1. PICK d \in DOMAIN m[k].deps : d \in Affected(S, m) /\ k \in Keys /\ k \in Held(m)
    BY <1>2 DEF Dependents, Held
  <2>2. ASSUME NEW T \in SUBSET Keys, S \subseteq T, Dependents(T, m) \subseteq T PROVE k \in T
    <3>1. d \in T
      BY <2>1, <2>2 DEF Affected
    <3> QED BY <2>1, <2>2, <3>1 DEF Dependents
  <2> QED BY <2>1, <2>2 DEF Affected
<1> QED BY <1>1, <1>2

\* Affected has nothing else.
LEMMA AffectedLeast ==
    ASSUME NEW S, NEW m, NEW T \in SUBSET Keys, S \subseteq T, Dependents(T, m) \subseteq T
    PROVE  Affected(S, m) \subseteq T
BY DEF Affected

\* The keys a key depends on are closed under dependencies, and nothing else.
LEMMA AllDepsClosed ==
    ASSUME NEW k \in Keys
    PROVE  /\ DepsOf[k] \subseteq AllDepsOf[k] /\ AllDepsOf[k] \subseteq Keys
           /\ \A d \in AllDepsOf[k] : DepsOf[d] \subseteq AllDepsOf[k]
<1>1. \A j \in Keys : DepsOf[j] \subseteq Keys
  BY SessionAssumption
<1>2. DepsOf[k] \subseteq AllDepsOf[k] /\ AllDepsOf[k] \subseteq Keys
  BY <1>1 DEF AllDepsOf
<1>3. ASSUME NEW d \in AllDepsOf[k], NEW j \in DepsOf[d] PROVE j \in AllDepsOf[k]
  <2>1. j \in Keys
    BY <1>1, <1>2, <1>3
  <2>2. ASSUME NEW T \in SUBSET Keys, DepsOf[k] \subseteq T, \A l \in T : DepsOf[l] \subseteq T
        PROVE  j \in T
    BY <1>3, <2>2 DEF AllDepsOf
  <2> QED BY <2>1, <2>2 DEF AllDepsOf
<1> QED BY <1>2, <1>3

LEMMA AllDepsLeast ==
    ASSUME NEW k \in Keys, NEW T \in SUBSET Keys, DepsOf[k] \subseteq T,
           \A d \in T : DepsOf[d] \subseteq T
    PROVE  AllDepsOf[k] \subseteq T
BY DEF AllDepsOf

\* A dependency's dependencies are the key's.
LEMMA AllDepsTransitive ==
    ASSUME NEW k \in Keys, NEW d \in DepsOf[k]
    PROVE  d \in Keys /\ d \in AllDepsOf[k] /\ AllDepsOf[d] \subseteq AllDepsOf[k]
<1>1. d \in Keys /\ d \in AllDepsOf[k]
  BY AllDepsClosed, SessionAssumption
<1> QED BY <1>1, AllDepsClosed, AllDepsLeast

\* A memo that records each value's dependencies records no other.
Records(m) == \A k \in Held(m) : DOMAIN m[k].deps = DepsOf[k]

\* What is affected was asked for or depends on what was asked for.
LEMMA AffectedDepends ==
    ASSUME NEW S, S \subseteq Keys, NEW m, Records(m), NEW k \in Affected(S, m)
    PROVE  k \in S \/ AllDepsOf[k] \cap S # {}
<1> DEFINE T == {j \in Keys : j \in S \/ AllDepsOf[j] \cap S # {}}
<1>1. S \subseteq T /\ T \subseteq Keys
  OBVIOUS
<1>2. ASSUME NEW j \in Dependents(T, m) PROVE j \in T
  <2>1. PICK d \in DepsOf[j] : d \in T /\ j \in Keys
    BY <1>2 DEF Dependents, Records, Held
  <2> QED BY <2>1, AllDepsTransitive
<1> HIDE DEF T
<1>3. k \in T
  BY <1>1, <1>2, AffectedLeast
<1> QED BY <1>3 DEF T

\* What depends on what was asked for is affected, when it is in the memo with all it depends on.
LEMMA DependsAffected ==
    ASSUME NEW S, S \subseteq Keys, NEW m, Records(m), NEW k \in Held(m),
           AllDepsOf[k] \subseteq Held(m), AllDepsOf[k] \cap S # {}
    PROVE  k \in Affected(S, m)
<1> DEFINE A == Affected(S, m)
           T == AllDepsOf[k] \ A
<1>1. S \subseteq A /\ Dependents(A, m) \subseteq A /\ k \in Keys
  BY AffectedClosed DEF Held
<1> HIDE DEF A
<1>2. SUFFICES ASSUME k \notin A PROVE FALSE
  BY DEF A
<1>3. \A j \in Held(m) \ A : DepsOf[j] \cap A = {}
  BY <1>1 DEF Dependents, Records
<1>4. DepsOf[k] \subseteq T
  BY <1>1, <1>2, <1>3, AllDepsClosed
<1>5. \A d \in T : DepsOf[d] \subseteq T
  BY <1>1, <1>3, AllDepsClosed
<1>6. T \subseteq Keys
  BY <1>1, AllDepsClosed
<1> HIDE DEF T
<1>7. AllDepsOf[k] \subseteq T
  BY <1>1, <1>4, <1>5, <1>6, AllDepsLeast
<1> QED BY <1>1, <1>7 DEF T

-----------------------------------------------------------------------------
\* Values and versions.

\* A value of k, a memo, and a set of values for each key, when ver are the last versions given
\* out.
Fine(v, k, ver) == /\ v.ver \in 1..ver[k]
                   /\ DOMAIN v.deps = DepsOf[k] /\ \A d \in DepsOf[k] : v.deps[d] \in 1..ver[d]
MemoOf(m, ver) == DOMAIN m = Keys /\ \A k \in Keys : m[k] = None \/ Fine(m[k], k, ver)
ValuesOf(f, ver) == DOMAIN f = Keys /\ \A k \in Keys : \A v \in f[k] : Fine(v, k, ver)

\* Versions are only ever given out.
Later(ver, next) == \A k \in Keys : ver[k] \in Nat /\ next[k] \in Nat /\ ver[k] <= next[k]
Numbered(ver) == DOMAIN ver = Keys /\ \A k \in Keys : ver[k] \in 0..MaxVersion[k]

LEMMA NumberedNat ==
    ASSUME NEW ver, Numbered(ver)
    PROVE  \A k \in Keys : ver[k] \in Nat
BY SessionAssumption DEF Numbered

LEMMA FineIsSome ==
    ASSUME NEW k \in Keys, NEW v, NEW ver, Fine(v, k, ver), ver[k] \in Nat
    PROVE  v # None
BY DEF Fine, None

LEMMA FineLater ==
    ASSUME NEW k \in Keys, NEW v, NEW ver, NEW next, Fine(v, k, ver), Later(ver, next)
    PROVE  Fine(v, k, next)
<1>1. DepsOf[k] \subseteq Keys
  BY SessionAssumption
<1> QED BY <1>1 DEF Fine, Later

LEMMA MemoLater ==
    ASSUME NEW m, NEW ver, NEW next, MemoOf(m, ver), Later(ver, next)
    PROVE  MemoOf(m, next)
BY FineLater DEF MemoOf

LEMMA ValuesLater ==
    ASSUME NEW f, NEW ver, NEW next, ValuesOf(f, ver), Later(ver, next)
    PROVE  ValuesOf(f, next)
BY FineLater DEF ValuesOf

LEMMA MemoStores ==
    ASSUME NEW m, NEW ver, MemoOf(m, ver), NEW k \in Keys, NEW v, v = None \/ Fine(v, k, ver)
    PROVE  MemoOf([m EXCEPT ![k] = v], ver)
BY DEF MemoOf

LEMMA ValuesAdd ==
    ASSUME NEW f, NEW ver, ValuesOf(f, ver), NEW k \in Keys, NEW v, Fine(v, k, ver)
    PROVE  ValuesOf([f EXCEPT ![k] = @ \cup {v}], ver)
BY DEF ValuesOf

LEMMA WithoutValues ==
    ASSUME NEW m, NEW ver, MemoOf(m, ver), NEW S
    PROVE  ValuesOf(Without(m, S), ver)
BY DEF MemoOf, ValuesOf, Without

LEMMA MemoRecords ==
    ASSUME NEW m, NEW ver, MemoOf(m, ver)
    PROVE  Records(m)
BY DEF MemoOf, Records, Held, Fine

\* What the memo of a call may hold: one of the values it has held, if there is one.
LEMMA MemosTyped ==
    ASSUME NEW ver, ValuesOf(obtained, ver), NEW S \in SUBSET Keys, NEW m \in MemosOf(S)
    PROVE  /\ DOMAIN m = S
           /\ \A k \in S : m[k] = None \/ Fine(m[k], k, ver)
           /\ \A k \in S : obtained[k] # {} => m[k] \in obtained[k]
BY DEF MemosOf, ValuesOf

LEMMA MemosAreMemos ==
    ASSUME NEW ver, ValuesOf(obtained, ver), NEW m \in Memos
    PROVE  MemoOf(m, ver) /\ \A k \in Keys : obtained[k] # {} => m[k] \in obtained[k]
BY MemosTyped DEF Memos, MemoOf

\* The next value of a key is one, when it is derived from versions given out.
LEMMA NextFine ==
    ASSUME Numbered(version), NEW k \in Keys, NEW vs,
           \A d \in DepsOf[k] : vs[d] \subseteq 1..version[d],
           NEW v \in NextValues(k, vs), version[k] < MaxVersion[k],
           version' = [version EXCEPT ![k] = @ + 1]
    PROVE  Numbered(version') /\ Later(version, version') /\ Fine(v, k, version')
<1>1. /\ version'[k] = version[k] + 1 /\ \A j \in Keys \ {k} : version'[j] = version[j]
      /\ DOMAIN version' = Keys
  BY DEF Numbered
<1>2. \A j \in Keys : MaxVersion[j] \in Nat /\ version[j] \in Nat
  BY SessionAssumption, NumberedNat
<1>3. version[k] + 1 \in 1..version'[k] /\ version'[k] \in 0..MaxVersion[k] /\ version'[k] >= version[k]
  BY <1>1, <1>2
<1>4. Numbered(version') /\ Later(version, version')
  BY <1>1, <1>2, <1>3 DEF Later, Numbered
<1>5. PICK ds : v = Value(k, version[k] + 1, ds) /\ \A d \in DepsOf[k] : ds[d] \in vs[d]
  BY DEF NextValues
<1>6. \A d \in DepsOf[k] : d \in Keys /\ ds[d] \in 1..version[d]
  BY <1>5, SessionAssumption
<1>7. \A d \in DepsOf[k] : ds[d] \in 1..version'[d]
  BY <1>4, <1>6 DEF Later
<1>8. v.ver = version[k] + 1 /\ v.deps = [d \in DepsOf[k] |-> ds[d]]
  BY <1>5 DEF Value
<1> QED BY <1>3, <1>4, <1>7, <1>8 DEF Fine

-----------------------------------------------------------------------------
\* The types.
ValuesOK ==
    /\ Numbered(version)
    /\ MemoOf(memo, version) /\ MemoOf(resources, version)
    /\ ValuesOf(obtained, version) /\ ValuesOf(given, version)
CallOK ==
    /\ errors \subseteq Keys
    /\ closed \in BOOLEAN /\ forcing \in BOOLEAN
    /\ call \in {"none", "resolve", "revalidate"}
    /\ requested \subseteq Keys /\ targets \subseteq Keys /\ retried \subseteq Keys
    /\ force \subseteq Keys /\ needed \subseteq Keys
    /\ fellBack \subseteq Keys /\ adrift \subseteq Keys
    /\ pinned \subseteq Keys /\ calls \in 0..MaxCalls

TInv == ValuesOK /\ CallOK

LEMMA TInvTypes == TInv => TypeOK
BY DEF TInv, ValuesOK, CallOK, TypeOK, IsMemo, IsValue, MemoOf, ValuesOf, Numbered, Fine

\* The versions a call has obtained were given out.
LEMMA ObtainedGiven ==
    ASSUME ValuesOK, NEW d \in Keys
    PROVE  Obtained[d] \subseteq 1..version[d]
BY DEF ValuesOK, ValuesOf, Fine, Obtained

\* A key gets a value that was given out before, or a new one.
Gets(k, v) ==
    /\ Numbered(version') /\ Later(version, version') /\ Fine(v, k, version')
    /\ ValuesOf(given', version')

LEMMA GetsGiven ==
    ASSUME ValuesOK, NEW k \in Keys, NEW v \in given[k], UNCHANGED <<version, given>>
    PROVE  Gets(k, v)
<1>1. Later(version, version)
  BY NumberedNat DEF ValuesOK, Later
<1> QED BY <1>1 DEF ValuesOK, ValuesOf, Gets

LEMMA GetsNew ==
    ASSUME ValuesOK, NEW k \in Keys, NEW vs, \A d \in DepsOf[k] : vs[d] \subseteq 1..version[d],
           NEW v \in NextValues(k, vs), Give(k, v)
    PROVE  Gets(k, v)
<1>1. Numbered(version') /\ Later(version, version') /\ Fine(v, k, version')
  BY NextFine DEF ValuesOK, Give
<1>2. given' = [given EXCEPT ![k] = @ \cup {v}]
  BY DEF Give
<1>3. ValuesOf(given', version')
  BY <1>1, <1>2, ValuesLater, ValuesAdd DEF ValuesOK
<1> QED BY <1>1, <1>3 DEF Gets

\* How the builder's steps get what they pin.
LEMMA PinGets ==
    ASSUME ValuesOK, NEW k \in Keys, LookupHit(k) \/ Answer(k) \/ Superseded(k)
    PROVE  /\ Resolving(k)
           /\ \E v : /\ Pin(k, v) /\ Gets(k, v)
                     /\ \/ k \notin force \/ DepsOf[k] = {}
                        \/ \A d \in DepsOf[k] : v.deps[d] \in Obtained[d]
<1>1. \A d \in DepsOf[k] : d \in Keys
  BY SessionAssumption
<1>2. \A d \in DepsOf[k] : Given[d] \subseteq 1..version[d] /\ Obtained[d] \subseteq 1..version[d]
  BY <1>1, ObtainedGiven DEF Given
<1>3. CASE LookupHit(k)
  <2>1. Resolving(k) /\ k \notin force
    BY <1>3 DEF LookupHit
  <2>2. CASE \E v \in given[k] : Pin(k, v) /\ UNCHANGED <<version, given>>
    BY <2>1, <2>2, GetsGiven
  <2>3. CASE \E v \in NextValues(k, Given) : Pin(k, v) /\ Give(k, v)
    BY <1>2, <2>1, <2>3, GetsNew
  <2> QED BY <1>3, <2>2, <2>3 DEF LookupHit
<1>4. CASE Superseded(k)
  <2>1. Resolving(k) /\ k \in Base
    BY <1>4 DEF Superseded
  <2>2. DepsOf[k] = {}
    BY <2>1, SessionAssumption
  <2>3. PICK v \in given[k] : Pin(k, v) /\ UNCHANGED <<version, given>>
    BY <1>4 DEF Superseded
  <2> QED BY <2>1, <2>2, <2>3, GetsGiven
<1>5. CASE Answer(k)
  <2>1. PICK v \in NextValues(k, Obtained) : Resolving(k) /\ Pin(k, v) /\ Give(k, v)
    BY <1>5 DEF Answer
  <2>2. Gets(k, v)
    BY <1>2, <2>1, GetsNew
  <2>3. PICK ds : v = Value(k, version[k] + 1, ds) /\ \A d \in DepsOf[k] : ds[d] \in Obtained[d]
    BY <2>1 DEF NextValues
  <2>4. \A d \in DepsOf[k] : v.deps[d] \in Obtained[d]
    BY <2>3 DEF Value
  <2> QED BY <2>1, <2>2, <2>4
<1> QED BY <1>3, <1>4, <1>5

\* A producer that is adrift gets its value likewise.
LEMMA LateGets ==
    ASSUME ValuesOK, NEW k \in Keys, LateAnswer(k)
    PROVE  /\ k \in adrift
           /\ \E v : /\ Gets(k, v)
                     /\ IF call = "resolve"
                        THEN obtained' = [obtained EXCEPT ![k] = @ \cup {v}] /\ memo' = memo
                        ELSE memo' = [memo EXCEPT ![k] = v] /\ obtained' = obtained
<1>1. \A d \in DepsOf[k] : Given[d] \subseteq 1..version[d]
  BY SessionAssumption DEF Given
<1>2. PICK v \in given[k] \cup NextValues(k, Given) :
          /\ IF v \in given[k] THEN UNCHANGED <<version, given>> ELSE Give(k, v)
          /\ IF call = "resolve"
             THEN obtained' = [obtained EXCEPT ![k] = @ \cup {v}] /\ memo' = memo
             ELSE memo' = [memo EXCEPT ![k] = v] /\ obtained' = obtained
  BY DEF LateAnswer
<1>3. Gets(k, v)
  <2>1. CASE v \in given[k]
    BY <1>2, <2>1, GetsGiven
  <2>2. CASE v \notin given[k]
    BY <1>1, <1>2, <2>2, GetsNew
  <2> QED BY <2>1, <2>2
<1> QED BY <1>2, <1>3 DEF LateAnswer

\* A value is pinned, or written by a producer that is adrift.
LEMMA WritesType ==
    ASSUME TInv, NEW k \in Keys,
           LookupHit(k) \/ Answer(k) \/ Superseded(k) \/ LateAnswer(k)
    PROVE  TInv'
<1>1. PICK v : /\ Gets(k, v)
               /\ obtained' = obtained \/ obtained' = [obtained EXCEPT ![k] = @ \cup {v}]
               /\ memo' = memo \/ memo' = [memo EXCEPT ![k] = v]
  <2>1. CASE LookupHit(k) \/ Answer(k) \/ Superseded(k)
    BY <2>1, PinGets DEF TInv, Pin, session
  <2>2. CASE LateAnswer(k)
    BY <2>2, LateGets DEF TInv
  <2> QED BY <2>1, <2>2
<1>2. CallOK'
  <2>1. /\ errors' = errors /\ closed' = closed /\ call' = call /\ requested' = requested
        /\ forcing' = forcing /\ targets' = targets /\ retried' = retried /\ pinned' = pinned
        /\ force' = force /\ needed' = needed /\ fellBack' = fellBack /\ adrift' = adrift
        /\ calls' = calls
    BY DEF LookupHit, Answer, Superseded, LateAnswer, Pin, session, request
  <2> QED BY <2>1 DEF TInv, CallOK
<1>3. resources' = resources
  BY DEF LookupHit, Answer, Superseded, LateAnswer, Pin, session
<1>4. /\ MemoOf(memo, version') /\ MemoOf(resources, version') /\ ValuesOf(obtained, version')
  BY <1>1, MemoLater, ValuesLater DEF TInv, ValuesOK, Gets
<1>5. MemoOf(memo', version')
  BY <1>1, <1>4, MemoStores DEF Gets
<1>6. ValuesOf(obtained', version')
  BY <1>1, <1>4, ValuesAdd DEF Gets
<1> QED BY <1>1, <1>2, <1>3, <1>4, <1>5, <1>6 DEF TInv, ValuesOK, Gets

\* A call begins, or a revalidation tries again.
LEMMA CallsType ==
    ASSUME TInv, \/ \E S \in Requests, b \in BOOLEAN : Resolve(S, b) \/ Revalidate(S, b)
                 \/ \E k \in Keys : Fallback(k)
    PROVE  TInv'
<1>1. /\ version' = version /\ given' = given /\ memo' = memo /\ resources' = resources
      /\ errors' = errors /\ closed' = closed /\ adrift' = adrift
  BY DEF Resolve, Revalidate, Fallback, session
<1>2. calls' \in 0..MaxCalls
  <2>1. MaxCalls \in Nat /\ calls \in 0..MaxCalls
    BY SessionAssumption DEF TInv, CallOK
  <2>2. calls' = calls \/ (calls < MaxCalls /\ calls' = calls + 1)
    BY DEF Resolve, Revalidate, Fallback
  <2> QED BY <2>1, <2>2
<1>3. needed' \subseteq Keys
  BY DEF Resolve, Revalidate, Fallback, Needed
<1>4. pinned' \subseteq Keys
  BY DEF Resolve, Revalidate, Fallback, Held, request, TInv, CallOK
<1>5. ASSUME NEW S \in Requests, NEW b \in BOOLEAN, Resolve(S, b) PROVE TInv'
  <2>1. /\ call' = "resolve" /\ requested' = S /\ forcing' = FALSE
        /\ retried' \subseteq S /\ targets' \subseteq S /\ obtained' = Without(memo, {})
        /\ force' = {} /\ fellBack' = {}
    BY <1>5 DEF Resolve
  <2>2. S \subseteq Keys
    BY SessionAssumption
  <2>3. ValuesOK'
    BY <1>1, <2>1, WithoutValues DEF TInv, ValuesOK
  <2>4. CallOK'
    BY <1>1, <1>2, <1>3, <1>4, <2>1, <2>2 DEF TInv, CallOK
  <2> QED BY <2>3, <2>4 DEF TInv
<1>6. ASSUME NEW S \in Requests, NEW b \in BOOLEAN, Revalidate(S, b) PROVE TInv'
  <2> DEFINE A == Affected(S, memo)
  <2>1. /\ call' = "revalidate" /\ requested' = S /\ forcing' = b /\ retried' = {}
        /\ targets' = S \cup (A \cap Held(resources)) /\ obtained' = Without(memo, A)
        /\ force' \subseteq A /\ fellBack' = {}
    BY <1>6 DEF Revalidate
  <2>2. S \subseteq Keys
    BY SessionAssumption
  <2>3. S \subseteq A /\ A \subseteq Keys
    BY <2>2, AffectedClosed
  <2> HIDE DEF A
  <2>4. ValuesOK'
    BY <1>1, <2>1, WithoutValues DEF TInv, ValuesOK
  <2>5. CallOK'
    BY <1>1, <1>2, <1>3, <1>4, <2>1, <2>2, <2>3 DEF TInv, CallOK
  <2> QED BY <2>4, <2>5 DEF TInv
<1>7. ASSUME NEW k \in Keys, Fallback(k) PROVE TInv'
  <2>1. PICK A : /\ obtained' = [j \in Keys |-> IF j \in A THEN {} ELSE obtained[j]]
                 /\ force' = A /\ A \subseteq Keys
    BY <1>7 DEF Fallback, Affected
  <2>2. /\ call' = call /\ requested' = requested /\ forcing' = forcing /\ retried' = retried
        /\ targets' = targets /\ fellBack' = fellBack \cup {k}
    BY <1>7 DEF Fallback, request
  <2>3. ValuesOK'
    BY <1>1, <2>1 DEF TInv, ValuesOK, ValuesOf
  <2>4. CallOK'
    BY <1>1, <1>2, <1>3, <1>4, <2>1, <2>2 DEF TInv, CallOK
  <2> QED BY <2>3, <2>4 DEF TInv
<1> QED BY <1>5, <1>6, <1>7

\* What resolve keeps in the memo, and what it shows.
LEMMA KeepsMemo ==
    ASSUME TInv, NEW m \in Memos, Keep(m)
    PROVE  MemoOf(memo', version) /\ \A k \in Keys \ adrift : memo'[k] = m[k]
<1>1. PICK late \in MemosOf(adrift) : memo' = [k \in Keys |-> IF k \in adrift THEN late[k] ELSE m[k]]
  BY DEF Keep
<1>2. MemoOf(m, version)
  BY MemosAreMemos DEF TInv, ValuesOK
<1>3. \A k \in adrift : late[k] = None \/ Fine(late[k], k, version)
  BY <1>1, MemosTyped DEF TInv, ValuesOK, CallOK
<1> QED BY <1>1, <1>2, <1>3 DEF MemoOf

LEMMA CandidatesMemo ==
    ASSUME TInv, NEW m \in Memos, NEW F
    PROVE  MemoOf(Candidates(m, F), version)
<1>1. MemoOf(m, version) /\ MemoOf(resources, version)
  BY MemosAreMemos DEF TInv, ValuesOK
<1> QED BY <1>1 DEF Candidates, MemoOf

\* How the two kinds of call end.
LEMMA ResolveEnding ==
    ASSUME ResolveEnds \/ ResolveDeadline
    PROVE  /\ call = "resolve" /\ End
           /\ \E m \in Memos :
                 /\ Keep(m)
                 /\ resources' = resources \/ \E F \in Failures : resources' = Candidates(m, F)
BY DEF ResolveEnds, ResolveDeadline

LEMMA EndingsType ==
    ASSUME TInv, ResolveEnds \/ ResolveDeadline \/ RevalidateCommits \/ RevalidateFails
    PROVE  TInv'
<1>1. MemoOf(memo', version) /\ MemoOf(resources', version)
  <2>1. CASE ResolveEnds \/ ResolveDeadline
    BY <2>1, ResolveEnding, KeepsMemo, CandidatesMemo DEF TInv, ValuesOK
  <2>2. CASE RevalidateCommits
    <3>1. PICK m \in Memos :
              /\ memo' = m
              /\ resources' = [k \in Keys |-> IF k \in targets \cap Held(resources) THEN m[k]
                                              ELSE resources[k]]
      BY <2>2 DEF RevalidateCommits
    <3>2. MemoOf(m, version) /\ MemoOf(resources, version)
      BY MemosAreMemos DEF TInv, ValuesOK
    <3> QED BY <3>1, <3>2 DEF MemoOf
  <2>3. CASE RevalidateFails
    BY <2>3 DEF RevalidateFails, TInv, ValuesOK
  <2> QED BY <2>1, <2>2, <2>3
<1>2. End /\ errors' \subseteq Keys /\ adrift' \subseteq Keys
  BY DEF ResolveEnds, ResolveDeadline, RevalidateCommits, RevalidateFails, TInv, CallOK, Failures
<1>3. /\ call' = "none" /\ requested' = {} /\ forcing' = FALSE /\ targets' = {} /\ retried' = {}
      /\ pinned' = {} /\ obtained' = NoValues /\ force' = {} /\ needed' = {} /\ fellBack' = {}
      /\ version' = version /\ given' = given /\ closed' = closed /\ calls' = calls
  BY <1>2 DEF End
<1>4. ValuesOf(NoValues, version)
  BY DEF ValuesOf, NoValues
<1>5. ValuesOK'
  BY <1>1, <1>3, <1>4 DEF TInv, ValuesOK
<1>6. CallOK'
  BY <1>2, <1>3 DEF TInv, CallOK
<1> QED BY <1>5, <1>6 DEF TInv

LEMMA InitTypes == Init => TInv
<1> SUFFICES ASSUME Init PROVE TInv
  OBVIOUS
<1>1. MemoOf(Nothing, version) /\ ValuesOf(NoValues, version)
  BY DEF MemoOf, Nothing, ValuesOf, NoValues
<1>2. ValuesOK
  BY <1>1, SessionAssumption DEF Init, ValuesOK, Numbered
<1>3. 0 \in 0..MaxCalls
  BY SessionAssumption
<1>4. CallOK
  BY <1>3 DEF Init, CallOK
<1> QED BY <1>2, <1>4 DEF TInv

LEMMA StepTypes ==
    ASSUME TInv, [Next]_vars
    PROVE  TInv'
<1>1. CASE Close
  BY <1>1 DEF Close, request, build, TInv, ValuesOK, CallOK
<1>2. CASE UNCHANGED vars
  BY <1>2 DEF vars, TInv, ValuesOK, CallOK
<1> QED BY <1>1, <1>2, WritesType, CallsType, EndingsType DEF Next

-----------------------------------------------------------------------------
\* What is seen and what is pinned.

\* A resolve leaves the memo's values alone, but for those a producer that is adrift may write.
ResolveShares ==
    call = "resolve" =>
        \A k \in Keys \ adrift : memo[k] # None => obtained[k] = {memo[k]} /\ k \notin needed

\* The values k has on both sides: seen, and pinned.
Agree(k) == resources[k] # None /\ memo[k] = resources[k]

\* A revalidation that has not fallen back leaves alone what is seen and is no target.
Untouched ==
    call = "revalidate" /\ fellBack = {} =>
        \A k \in Keys \ (targets \cup adrift) : Agree(k) => obtained[k] = {memo[k]} /\ k \notin needed

\* The inductive invariant.
IInv == TInv /\ ResolveShares /\ Untouched

\* What a step does to the agreement of memo and resources.
KeepsAgreement ==
    \A k \in Keys \ adrift :
        (resources[k] = None \/ memo[k] = resources[k]) =>
            \/ resources'[k] = None \/ memo'[k] = resources'[k]
            \/ call = "revalidate" /\ fellBack # {} /\ k \notin targets

\* Every step keeps the invariant, and the agreement as far as it is kept.
LEMMA StepKeeps ==
    ASSUME IInv, [Next]_vars
    PROVE  IInv' /\ KeepsAgreement
<1>0. TInv /\ TInv'
  BY StepTypes DEF IInv
<1>1. CASE Close \/ UNCHANGED vars
  <2>1. /\ memo' = memo /\ resources' = resources /\ call' = call /\ targets' = targets
        /\ obtained' = obtained /\ needed' = needed /\ fellBack' = fellBack /\ adrift' = adrift
    BY <1>1 DEF Close, vars, request, build
  <2>2. ResolveShares' /\ Untouched'
    BY <2>1 DEF IInv, ResolveShares, Untouched, Agree
  <2> QED BY <1>0, <2>1, <2>2 DEF IInv, KeepsAgreement
<1>2. ASSUME NEW k \in Keys, LookupHit(k) \/ Answer(k) \/ Superseded(k) PROVE IInv' /\ KeepsAgreement
  <2>1. k \in needed
    BY <1>2 DEF LookupHit, Answer, Superseded, Resolving
  <2>2. PICK v : Pin(k, v)
    BY <1>2 DEF LookupHit, Answer, Superseded
  <2>3. /\ memo' = memo /\ resources' = resources /\ call' = call /\ targets' = targets
        /\ needed' = needed /\ fellBack' = fellBack /\ adrift' = adrift
    BY <2>2 DEF Pin, session, request
  <2>4. \A j \in Keys \ {k} : obtained'[j] = obtained[j]
    BY <2>2 DEF Pin, IInv, TInv, ValuesOK, ValuesOf
  <2>5. ResolveShares' /\ Untouched'
    BY <2>1, <2>3, <2>4 DEF IInv, ResolveShares, Untouched, Agree
  <2> QED BY <1>0, <2>3, <2>5 DEF IInv, KeepsAgreement
<1>3. ASSUME NEW k \in Keys, LateAnswer(k) PROVE IInv' /\ KeepsAgreement
  <2>1. /\ resources' = resources /\ call' = call /\ targets' = targets /\ k \in adrift
        /\ needed' = needed /\ fellBack' = fellBack /\ adrift' = adrift
    BY <1>3 DEF LateAnswer, request
  <2>2. \A j \in Keys \ {k} : obtained'[j] = obtained[j] /\ memo'[j] = memo[j]
    BY <1>3, <1>0, LateGets DEF TInv, ValuesOK, ValuesOf, MemoOf
  <2>3. ResolveShares' /\ Untouched'
    BY <2>1, <2>2 DEF IInv, ResolveShares, Untouched, Agree
  <2> QED BY <1>0, <2>1, <2>2, <2>3 DEF IInv, KeepsAgreement
<1>4. ASSUME NEW k \in Keys, Fallback(k) PROVE IInv' /\ KeepsAgreement
  <2>1. /\ call = "revalidate" /\ memo' = memo /\ resources' = resources /\ call' = call
        /\ fellBack' # {}
    BY <1>4 DEF Fallback, session
  <2> QED BY <1>0, <2>1 DEF IInv, ResolveShares, Untouched, KeepsAgreement
<1>5. ASSUME NEW S \in Requests, NEW b \in BOOLEAN, Resolve(S, b) PROVE IInv' /\ KeepsAgreement
  <2>1. /\ call' = "resolve" /\ memo' = memo /\ resources' = resources
        /\ obtained' = Without(memo, {}) /\ needed' = Needed(targets', obtained')
    BY <1>5 DEF Resolve, session
  <2>2. ResolveShares'
    BY <2>1 DEF ResolveShares, Without, Needed
  <2> QED BY <1>0, <2>1, <2>2 DEF IInv, Untouched, KeepsAgreement
<1>6. ASSUME NEW S \in Requests, NEW b \in BOOLEAN, Revalidate(S, b) PROVE IInv' /\ KeepsAgreement
  <2> DEFINE A == Affected(S, memo)
  <2>1. /\ call' = "revalidate" /\ memo' = memo /\ resources' = resources
        /\ targets' = S \cup (A \cap Held(resources)) /\ obtained' = Without(memo, A)
        /\ needed' = Needed(targets', obtained')
    BY <1>6 DEF Revalidate, session
  <2> HIDE DEF A
  <2>2. Untouched'
    BY <2>1 DEF Untouched, Agree, Without, Needed, Held
  <2> QED BY <1>0, <2>1, <2>2 DEF IInv, ResolveShares, KeepsAgreement
<1>7. CASE ResolveEnds \/ ResolveDeadline
  <2>1. PICK m \in Memos :
            /\ call = "resolve" /\ End /\ Keep(m)
            /\ resources' = resources \/ \E F \in Failures : resources' = Candidates(m, F)
    BY <1>7, ResolveEnding
  <2>2. \A k \in Keys \ adrift : memo'[k] = m[k]
    BY <1>0, <2>1, KeepsMemo
  <2>3. \A k \in Keys : obtained[k] # {} => m[k] \in obtained[k]
    BY <1>0, MemosAreMemos DEF TInv, ValuesOK
  <2>4. \A k \in Keys \ adrift : memo[k] # None => memo'[k] = memo[k]
    BY <2>1, <2>2, <2>3 DEF IInv, ResolveShares
  <2>5. \A k \in Keys : resources'[k] = resources[k] \/ resources'[k] = m[k]
    BY <2>1 DEF Candidates
  <2>6. KeepsAgreement
    BY <2>2, <2>4, <2>5 DEF KeepsAgreement
  <2>7. call' = "none"
    BY <2>1 DEF End
  <2> QED BY <1>0, <2>6, <2>7 DEF IInv, ResolveShares, Untouched
<1>8. CASE RevalidateCommits
  <2>1. PICK m \in Memos :
            /\ call = "revalidate" /\ End /\ memo' = m
            /\ resources' = [k \in Keys |-> IF k \in targets \cap Held(resources) THEN m[k]
                                            ELSE resources[k]]
    BY <1>8 DEF RevalidateCommits
  <2>2. \A k \in Keys : obtained[k] # {} => m[k] \in obtained[k]
    BY <1>0, MemosAreMemos DEF TInv, ValuesOK
  <2>3. KeepsAgreement
    <3> SUFFICES ASSUME NEW k \in Keys \ adrift, resources[k] = None \/ memo[k] = resources[k]
                 PROVE  \/ resources'[k] = None \/ memo'[k] = resources'[k]
                        \/ call = "revalidate" /\ fellBack # {} /\ k \notin targets
      BY DEF KeepsAgreement
    <3>1. CASE k \in targets \/ resources[k] = None
      BY <2>1, <3>1 DEF Held
    <3>2. CASE k \notin targets /\ resources[k] # None /\ fellBack = {}
      BY <2>1, <2>2, <3>2 DEF IInv, Untouched, Agree
    <3> QED BY <2>1, <3>1, <3>2
  <2>4. call' = "none"
    BY <2>1 DEF End
  <2> QED BY <1>0, <2>3, <2>4 DEF IInv, ResolveShares, Untouched
<1>9. CASE RevalidateFails
  <2>1. call' = "none" /\ memo' = memo /\ resources' = resources
    BY <1>9 DEF RevalidateFails, End
  <2> QED BY <1>0, <2>1 DEF IInv, ResolveShares, Untouched, KeepsAgreement
<1> QED BY <1>1, <1>2, <1>3, <1>4, <1>5, <1>6, <1>7, <1>8, <1>9 DEF Next

\* The inductive invariant holds in every state of a session: its values are values that were
\* given out, and the call that holds the lock leaves alone what it is not to resolve, though
\* producers that outlived a stage write to the memo meanwhile.
THEOREM Invariance == Spec => []IInv
<1>1. Init => IInv
  BY InitTypes DEF Init, IInv, ResolveShares, Untouched
<1>2. IInv /\ [Next]_vars => IInv'
  BY StepKeeps
<1> QED BY <1>1, <1>2, PTL DEF Spec

\* A session shows and pins the same values: no stage, publication, failure, deadline or
\* cancellation parts them, but for the keys which a stage that was cut off has left to a
\* producer (builder.py writes runtime.memo whoever holds the session's lock), and but for a
\* committed revalidation that retried a key without its source, for a value it did not
\* resolve again.
THEOREM SeenIsPinned == Spec => VisiblePinned
<1>1. IInv /\ [Next]_vars => [KeepsAgreement]_vars
  BY StepKeeps
<1> QED BY <1>1, Invariance, PTL DEF Spec, VisiblePinned, KeepsAgreement

-----------------------------------------------------------------------------
\* Revalidation.

\* resolve asks for nothing that is shown; a revalidation for nothing but what was requested
\* and what depends on it.
TargetsOK ==
    /\ call = "resolve" => targets \cap Held(resources) = {}
    /\ call = "revalidate" => \A k \in targets : k \in requested \/ AllDepsOf[k] \cap requested # {}

\* A value of k with versions of its dependencies that the call has obtained.
Fresh(k, v) == \A d \in DepsOf[k] : v.deps[d] \in Obtained[d]

\* A forced revalidation: the shown values that depend on what was requested, and were pinned
\* with all they depend on, are targets; none of these is looked up elsewhere while it is being
\* resolved, and every value obtained of them is fresh.
ForcedOK ==
    call = "revalidate" /\ forcing =>
        /\ \A k \in Held(resources) \cap pinned :
              AllDepsOf[k] \subseteq pinned /\ AllDepsOf[k] \cap requested # {} => k \in targets
        /\ targets \cap needed \subseteq force
        /\ \A k \in targets : \A v \in obtained[k] : Fresh(k, v)

RInv == TInv /\ TargetsOK /\ ForcedOK

\* What is shown changes only in a revalidation that commits, for what it was to refresh; a
\* forced one leaves the values it refreshed derived from what it obtained.
ShownStays ==
    \A k \in Held(resources) :
        resources'[k] # resources[k] =>
            /\ call = "revalidate" /\ Resolved
            /\ k \in requested \/ AllDepsOf[k] \cap requested # {}
ForcedFreshens ==
    forcing /\ RevalidateCommits =>
        \A k \in Held(resources) \cap pinned :
            AllDepsOf[k] \subseteq pinned /\ AllDepsOf[k] \cap requested # {} =>
                \A d \in DepsOf[k] : resources'[k].deps[d] \in Obtained[d]

\* A step that leaves the call alone, and what it has obtained when it revalidates.
LEMMA IdleKeeps ==
    ASSUME RInv, UNCHANGED <<resources, call, requested, forcing, targets, pinned, force, needed>>,
           call = "revalidate" => obtained' = obtained
    PROVE  TargetsOK' /\ ForcedOK' /\ ShownStays
<1>1. /\ resources' = resources /\ call' = call /\ requested' = requested
      /\ forcing' = forcing /\ targets' = targets /\ pinned' = pinned /\ force' = force
      /\ needed' = needed
  OBVIOUS
<1>2. TargetsOK'
  BY <1>1 DEF RInv, TargetsOK, Held, AllDepsOf
<1>3. ForcedOK'
  <2>1. SUFFICES ASSUME call = "revalidate", forcing PROVE ForcedOK'
    BY <1>1 DEF ForcedOK
  <2>2. obtained' = obtained
    BY <2>1
  <2>3. Held(resources)' = Held(resources) /\ Obtained' = Obtained
    BY <1>1, <2>2 DEF Held, Obtained
  <2> QED BY <1>1, <2>1, <2>2, <2>3 DEF RInv, ForcedOK, Fresh, AllDepsOf
<1> QED BY <1>1, <1>2, <1>3 DEF ShownStays

\* A value is pinned: to a target of a forced revalidation, a fresh one.
LEMMA PinRefreshes ==
    ASSUME RInv, NEW k \in Keys, LookupHit(k) \/ Answer(k) \/ Superseded(k)
    PROVE  TargetsOK' /\ ForcedOK' /\ ShownStays
<1>1. PICK v : /\ Resolving(k) /\ Pin(k, v)
               /\ \/ k \notin force \/ DepsOf[k] = {}
                  \/ \A d \in DepsOf[k] : v.deps[d] \in Obtained[d]
  BY PinGets DEF RInv, TInv
<1>2. /\ obtained' = [obtained EXCEPT ![k] = @ \cup {v}] /\ k \in needed
      /\ resources' = resources /\ call' = call /\ requested' = requested
      /\ forcing' = forcing /\ targets' = targets /\ pinned' = pinned /\ force' = force
      /\ needed' = needed
  BY <1>1 DEF Pin, Resolving, session, request
<1>3. TargetsOK'
  BY <1>2 DEF RInv, TargetsOK, Held, AllDepsOf
<1>4. ForcedOK'
  <2>1. SUFFICES ASSUME call = "revalidate", forcing PROVE ForcedOK'
    BY <1>2 DEF ForcedOK
  <2>2. /\ \A j \in Held(resources) \cap pinned :
              AllDepsOf[j] \subseteq pinned /\ AllDepsOf[j] \cap requested # {} => j \in targets
        /\ targets \cap needed \subseteq force
        /\ \A j \in targets : \A w \in obtained[j] : Fresh(j, w)
    BY <2>1 DEF RInv, ForcedOK
  <2>3. DOMAIN obtained = Keys /\ targets \subseteq Keys
    BY DEF RInv, TInv, ValuesOK, ValuesOf, CallOK
  <2>4. \A j \in Keys : obtained[j] \subseteq obtained'[j]
    BY <1>2, <2>3
  <2>5. \A d \in Keys : Obtained[d] \subseteq Obtained[d]'
    BY <2>4 DEF Obtained
  <2>6. k \in targets => \A d \in DepsOf[k] : v.deps[d] \in Obtained[d]
    BY <1>1, <1>2, <2>2
  <2>7. \A j \in targets : \A w \in obtained'[j] : \A d \in DepsOf[j] : w.deps[d] \in Obtained[d]
    <3>1. \A j \in targets \ {k} : obtained'[j] = obtained[j]
      BY <1>2, <2>3
    <3>2. obtained'[k] = obtained[k] \cup {v}
      BY <1>2, <2>3
    <3> QED BY <2>2, <2>6, <3>1, <3>2 DEF Fresh
  <2>8. \A j \in targets' : \A w \in obtained'[j] : Fresh(j, w)'
    BY <1>2, <2>3, <2>5, <2>7, SessionAssumption DEF Fresh
  <2>9. Held(resources)' = Held(resources)
    BY <1>2 DEF Held
  <2> QED BY <1>2, <2>2, <2>8, <2>9 DEF ForcedOK, AllDepsOf
<1> QED BY <1>2, <1>3, <1>4 DEF ShownStays

LEMMA CallsRefresh ==
    ASSUME RInv, \/ \E S \in Requests, b \in BOOLEAN : Resolve(S, b) \/ Revalidate(S, b)
                 \/ \E k \in Keys : Fallback(k)
    PROVE  TargetsOK' /\ ForcedOK' /\ ShownStays
<1>1. memo' = memo /\ resources' = resources
  BY DEF Resolve, Revalidate, Fallback, session
<1>2. Held(resources)' = Held(resources)
  BY <1>1 DEF Held
<1>3. ASSUME NEW S \in Requests, NEW b \in BOOLEAN, Resolve(S, b) PROVE TargetsOK' /\ ForcedOK'
  <2>1. call' = "resolve" /\ targets' \cap Held(resources) = {}
    BY <1>3 DEF Resolve
  <2> QED BY <1>2, <2>1 DEF TargetsOK, ForcedOK
<1>4. ASSUME NEW S \in Requests, NEW b \in BOOLEAN, Revalidate(S, b) PROVE TargetsOK' /\ ForcedOK'
  <2> DEFINE A == Affected(S, memo)
  <2>1. /\ call' = "revalidate" /\ requested' = S /\ forcing' = b /\ pinned' = Held(memo)
        /\ targets' = S \cup (A \cap Held(resources)) /\ obtained' = Without(memo, A)
        /\ force' = (IF b THEN A ELSE {})
    BY <1>4 DEF Revalidate
  <2>2. S \subseteq Keys /\ Records(memo)
    BY SessionAssumption, MemoRecords DEF RInv, TInv, ValuesOK
  <2>3. S \subseteq A /\ A \subseteq Keys
    BY <2>2, AffectedClosed
  <2>4. \A k \in A : k \in S \/ AllDepsOf[k] \cap S # {}
    BY <2>2, AffectedDepends
  <2>5. \A k \in Held(memo) : AllDepsOf[k] \subseteq Held(memo) /\ AllDepsOf[k] \cap S # {} => k \in A
    BY <2>2, DependsAffected
  <2> HIDE DEF A
  <2>6. TargetsOK'
    <3>1. \A k \in targets' : k \in S \/ AllDepsOf[k] \cap S # {}
      BY <2>1, <2>4
    <3> QED BY <2>1, <3>1 DEF TargetsOK, AllDepsOf
  <2>7. ForcedOK'
    <3>1. SUFFICES ASSUME b PROVE ForcedOK'
      BY <2>1 DEF ForcedOK
    <3>2. targets' \cap needed' \subseteq force'
      BY <2>1, <2>3, <3>1
    <3>3. \A k \in Held(resources)' \cap pinned' :
              AllDepsOf[k] \subseteq pinned' /\ AllDepsOf[k] \cap requested' # {} => k \in targets'
      BY <1>2, <2>1, <2>5
    <3>4. \A k \in targets' : obtained'[k] = {}
      BY <2>1, <2>3 DEF Without
    <3> QED BY <3>2, <3>3, <3>4 DEF ForcedOK, AllDepsOf
  <2> QED BY <2>6, <2>7
<1>5. ASSUME NEW k \in Keys, Fallback(k) PROVE TargetsOK' /\ ForcedOK'
  <2>1. PICK m \in Memos :
            LET A == Affected({k}, m)
            IN  /\ obtained' = [j \in Keys |-> IF j \in A THEN {} ELSE obtained[j]]
                /\ force' = A
                /\ needed' = Needed((targets \cap A) \cup {k}, obtained')
    BY <1>5 DEF Fallback
  <2> DEFINE A == Affected({k}, m)
  <2>2. /\ call = "revalidate" /\ forcing /\ Resolved
        /\ call' = call /\ requested' = requested /\ forcing' = forcing /\ targets' = targets
        /\ pinned' = pinned
    BY <1>5 DEF Fallback, request
  <2>3. k \in A /\ A \subseteq Keys /\ Dependents(A, m) \subseteq A
    BY AffectedClosed
  <2>4. /\ obtained' = [j \in Keys |-> IF j \in A THEN {} ELSE obtained[j]] /\ force' = A
        /\ needed' \subseteq {j \in Keys : obtained'[j] = {}}
    BY <2>1 DEF Needed
  <2> HIDE DEF A
  <2>5. MemoOf(m, version) /\ \A j \in Keys : obtained[j] # {} => m[j] \in obtained[j]
    BY MemosAreMemos DEF RInv, TInv, ValuesOK
  <2>6. Records(m)
    BY <2>5, MemoRecords
  <2>7. \A j \in targets : obtained[j] # {} /\ j \in Keys
    BY <2>2 DEF Resolved, Failures, RInv, TInv, CallOK
  <2>8. TargetsOK'
    BY <1>2, <2>2 DEF RInv, TargetsOK, AllDepsOf
  <2>9. ASSUME NEW j \in targets, NEW v \in obtained'[j] PROVE Fresh(j, v)'
    <3>1. j \notin A /\ j \in Keys /\ v \in obtained[j]
      BY <2>4, <2>7, <2>9
    <3>2. m[j] # None
      <4>1. Fine(m[j], j, version) /\ version[j] \in Nat
        BY <2>5, <3>1, NumberedNat DEF RInv, TInv, ValuesOK, ValuesOf
      <4> QED BY <3>1, <4>1, FineIsSome
    <3>3. \A d \in DepsOf[j] : d \notin A
      BY <2>3, <2>6, <3>1, <3>2 DEF Dependents, Records, Held
    <3>4. \A d \in DepsOf[j] : d \in Keys /\ v.deps[d] \in Obtained[d]
      BY <2>2, <3>1, SessionAssumption DEF RInv, ForcedOK, Fresh
    <3>5. \A d \in DepsOf[j] : obtained'[d] = obtained[d]
      BY <2>4, <3>3, <3>4
    <3>6. \A d \in DepsOf[j] : Obtained[d]' = Obtained[d]
      BY <3>4, <3>5 DEF Obtained
    <3> QED BY <3>4, <3>6 DEF Fresh
  <2>10. targets' \cap needed' \subseteq force'
    BY <2>2, <2>4, <2>7
  <2>11. \A j \in Held(resources)' \cap pinned' :
            AllDepsOf[j] \subseteq pinned' /\ AllDepsOf[j] \cap requested' # {} => j \in targets'
    BY <1>2, <2>2 DEF RInv, ForcedOK
  <2> QED BY <2>2, <2>8, <2>9, <2>10, <2>11 DEF ForcedOK, AllDepsOf
<1> QED BY <1>1, <1>3, <1>4, <1>5 DEF ShownStays

LEMMA EndingsRefresh ==
    ASSUME RInv, ResolveEnds \/ ResolveDeadline \/ RevalidateCommits \/ RevalidateFails
    PROVE  TargetsOK' /\ ForcedOK' /\ ShownStays
<1>1. call' = "none"
  BY DEF ResolveEnds, ResolveDeadline, RevalidateCommits, RevalidateFails, End
<1>2. CASE ResolveEnds \/ ResolveDeadline
  <2>1. targets \cap Held(resources) = {}
    BY <1>2 DEF ResolveEnds, ResolveDeadline, RInv, TargetsOK
  <2>2. \A m \in Memos : \A F \in Failures : \A k \in Held(resources) :
            k \in Keys /\ Candidates(m, F)[k] = resources[k]
    BY <2>1 DEF Candidates, Held
  <2>3. ShownStays
    BY <1>2, <2>2, ResolveEnding DEF ShownStays
  <2> QED BY <1>1, <2>3 DEF TargetsOK, ForcedOK
<1>3. CASE RevalidateCommits
  <2>1. /\ call = "revalidate" /\ Resolved
        /\ \A k \in Keys \ targets : resources'[k] = resources[k]
    BY <1>3 DEF RevalidateCommits
  <2>2. ShownStays
    <3>1. ASSUME NEW k \in Held(resources), resources'[k] # resources[k] PROVE k \in targets
      BY <2>1, <3>1 DEF Held
    <3> QED BY <2>1, <3>1 DEF ShownStays, RInv, TargetsOK
  <2> QED BY <1>1, <2>2 DEF TargetsOK, ForcedOK
<1>4. CASE RevalidateFails
  BY <1>1, <1>4 DEF RevalidateFails, TargetsOK, ForcedOK, ShownStays
<1> QED BY <1>2, <1>3, <1>4

\* When a forced revalidation commits, every target has been obtained, and is fresh.
LEMMA CommitFreshens == RInv => ForcedFreshens
<1> SUFFICES ASSUME RInv, forcing, RevalidateCommits, NEW k \in Held(resources) \cap pinned,
                    AllDepsOf[k] \subseteq pinned, AllDepsOf[k] \cap requested # {},
                    NEW d \in DepsOf[k]
             PROVE  resources'[k].deps[d] \in Obtained[d]
  BY DEF ForcedFreshens
<1>1. PICK m \in Memos :
          resources' = [j \in Keys |-> IF j \in targets \cap Held(resources) THEN m[j]
                                       ELSE resources[j]]
  BY DEF RevalidateCommits
<1>2. call = "revalidate" /\ Resolved
  BY DEF RevalidateCommits
<1>3. k \in targets /\ k \in Keys
  BY <1>2 DEF RInv, ForcedOK, Held
<1>4. m[k] \in obtained[k]
  BY <1>2, <1>3, MemosAreMemos DEF Resolved, Failures, RInv, TInv, ValuesOK
<1>5. Fresh(k, m[k])
  BY <1>2, <1>3, <1>4 DEF RInv, ForcedOK
<1> QED BY <1>1, <1>3, <1>5 DEF Fresh

LEMMA RefreshStep ==
    ASSUME RInv, [Next]_vars
    PROVE  RInv' /\ ShownStays
<1>1. TInv'
  BY StepTypes DEF RInv
<1>2. ASSUME NEW k \in Keys, LateAnswer(k) PROVE TargetsOK' /\ ForcedOK' /\ ShownStays
  <2>1. UNCHANGED <<resources, call, requested, forcing, targets, pinned, force, needed>>
    BY <1>2 DEF LateAnswer, request
  <2>2. call = "revalidate" => obtained' = obtained
    BY <1>2 DEF LateAnswer
  <2> QED BY <2>1, <2>2, IdleKeeps
<1>3. ASSUME Close \/ UNCHANGED vars PROVE TargetsOK' /\ ForcedOK' /\ ShownStays
  <2>1. UNCHANGED <<resources, call, requested, forcing, targets, pinned, force, needed, obtained>>
    BY <1>3 DEF Close, vars, request, build
  <2> QED BY <2>1, IdleKeeps
<1>4. TargetsOK' /\ ForcedOK' /\ ShownStays
  <2>1. CASE \E k \in Keys : LookupHit(k) \/ Answer(k) \/ Superseded(k)
    BY <2>1, PinRefreshes, Zenon
  <2>2. CASE \/ \E S \in Requests, b \in BOOLEAN : Resolve(S, b) \/ Revalidate(S, b)
             \/ \E k \in Keys : Fallback(k)
    BY <2>2, CallsRefresh, Zenon
  <2>3. CASE ResolveEnds \/ ResolveDeadline \/ RevalidateCommits \/ RevalidateFails
    BY <2>3, EndingsRefresh, Zenon
  <2> QED BY <1>2, <1>3, <2>1, <2>2, <2>3, Zenon DEF Next
<1> QED BY <1>1, <1>4 DEF RInv

\* The types, and what a revalidation has to refresh, in every state.
THEOREM RefreshInvariance == Spec => []RInv
<1>1. Init => RInv
  BY InitTypes DEF Init, RInv, TargetsOK, ForcedOK
<1>2. RInv /\ [Next]_vars => RInv'
  BY RefreshStep
<1> QED BY <1>1, <1>2, PTL DEF Spec

\* A session's memos hold values of versions given out, derived from versions given out.
THEOREM SessionTyped == Spec => []TypeOK
<1>1. RInv => TypeOK
  BY TInvTypes DEF RInv
<1> QED BY <1>1, RefreshInvariance, PTL

\* What is shown stays until a revalidation commits that was asked for it or for something it
\* depends on (resolve keeps what is there, revalidate stages what it resolves).
THEOREM PinsStayStable == Spec => PinsStable
<1>1. RInv /\ [Next]_vars => [ShownStays]_vars
  BY RefreshStep
<1> QED BY <1>1, RefreshInvariance, PTL DEF Spec, PinsStable, ShownStays

\* A forced revalidation that commits leaves no visible value which it had to refresh, and
\* which was pinned with all its dependencies, on a version of a dependency that the call set
\* out to replace, in whichever order and however often the builder derives the keys.
THEOREM ForcedStaysFresh == Spec => ForcedIsFresh
<1>1. RInv /\ [Next]_vars => [ForcedFreshens]_vars
  BY CommitFreshens
<1> QED BY <1>1, RefreshInvariance, PTL DEF Spec, ForcedIsFresh, ForcedFreshens

-----------------------------------------------------------------------------
\* Part 2: CachePublication.

-----------------------------------------------------------------------------
\* Numbers.

\* The numbers that are less than another.
Less == {p \in Nat \X Nat : p[1] < p[2]}

\* A set of natural numbers that is not empty has a least one.
LEMMA LeastNumber ==
    ASSUME NEW S, S \subseteq Nat, S # {}
    PROVE  \E m \in S : \A n \in S : m <= n
<1>1. IsWellFoundedOn(Less, Nat)
  BY NatLessThanWellFounded, Zenon DEF OpToRel, Less
<1>2. PICK m \in S : \A n \in S : ~(<<n, m>> \in Less)
  BY <1>1, WFMin, Zenon
<1>3. ASSUME NEW n \in S PROVE m <= n
  <2>1. <<n, m>> \in Nat \X Nat /\ <<n, m>>[1] = n /\ <<n, m>>[2] = m
    OBVIOUS
  <2>2. ~(n < m)
    BY <1>2, <2>1 DEF Less
  <2> QED BY <2>2
<1> QED BY <1>3

\* Numbers that stay below a bound have a greatest one.
LEMMA GreatestNumber ==
    ASSUME NEW S, S # {}, NEW b \in Nat, S \subseteq 0..b
    PROVE  \E m \in S : \A n \in S : n <= m
<1> DEFINE R == {n \in 0..b : b - n \in S}
<1>1. R \subseteq Nat /\ R # {}
  <2>1. PICK n \in S : TRUE
    OBVIOUS
  <2>2. n \in 0..b /\ b - n \in 0..b /\ b - (b - n) = n
    BY <2>1
  <2>3. b - n \in R
    BY <2>1, <2>2
  <2>4. R \subseteq Nat
    OBVIOUS
  <2> HIDE DEF R
  <2> QED BY <2>3, <2>4
<1>2. PICK m \in R : \A n \in R : m <= n
  <2> HIDE DEF R
  <2> QED BY <1>1, LeastNumber
<1>3. ASSUME NEW n \in S PROVE n <= b - m
  <2>1. n \in 0..b /\ b - n \in 0..b /\ b - (b - n) = n
    OBVIOUS
  <2>2. b - n \in R
    BY <2>1
  <2>3. m <= b - n /\ m \in 0..b
    BY <1>2, <2>2
  <2> QED BY <2>1, <2>3
<1> QED BY <1>2, <1>3

-----------------------------------------------------------------------------
\* The batches.

\* The batch of a call is a sequence of updates.
LEMMA BatchTyped ==
    ASSUME NEW c \in Calls
    PROVE  /\ Batch[c] \in Seq([key : CacheKeys, rank : Nat, observed : Nat \cup {Unset}])
           /\ Len(Batch[c]) \in Nat /\ DOMAIN Batch[c] = 1..Len(Batch[c])
           /\ \A i \in DOMAIN Batch[c] :
                  /\ Batch[c][i].key \in CacheKeys /\ Batch[c][i].rank \in Nat
                  /\ Batch[c][i].observed \in Nat \cup {Unset}
<1> DEFINE T == [key : CacheKeys, rank : Nat, observed : Nat \cup {Unset}]
<1>1. Batch[c] \in Seq(T)
  BY PublicationAssumption
<1>2. \A u \in T : u.key \in CacheKeys /\ u.rank \in Nat /\ u.observed \in Nat \cup {Unset}
  OBVIOUS
<1>3. /\ Len(Batch[c]) \in Nat /\ DOMAIN Batch[c] = 1..Len(Batch[c])
      /\ \A i \in DOMAIN Batch[c] : Batch[c][i] \in T
  <2> HIDE DEF T
  <2> QED BY <1>1
<1> QED BY <1>1, <1>2, <1>3

\* The keys of a batch are finitely many.
LEMMA KeysFinite ==
    ASSUME NEW c \in Calls
    PROVE  KeysOf(c) \subseteq CacheKeys /\ IsFiniteSet(KeysOf(c))
<1> DEFINE D == 1..Len(Batch[c])
           f == [i \in D |-> Batch[c][i].key]
<1>1. IsFiniteSet(D)
  BY BatchTyped, FS_Interval
<1>2. f \in Surjection(D, KeysOf(c))
  BY BatchTyped DEF Surjection, KeysOf
<1>3. IsFiniteSet(KeysOf(c))
  BY <1>1, <1>2, FS_Surjection
<1> QED BY <1>3, BatchTyped DEF KeysOf

\* The observation times that updates are compared by.
LEMMA ObservedTyped ==
    ASSUME NEW c \in Calls, NEW i \in DOMAIN Batch[c], NEW t \in Nat
    PROVE  Observed(Batch[c][i], t) \in Nat
BY BatchTyped DEF Observed

\* Among the updates of a key one stands for all.
LEMMA ChosenStands ==
    ASSUME NEW c \in Calls, NEW k \in KeysOf(c), NEW t \in Nat
    PROVE  /\ Chosen(c, k, t) \in DOMAIN Batch[c]
           /\ Batch[c][Chosen(c, k, t)].key = k
<1> DEFINE U == Updates(c, k)
           n == Len(Batch[c])
           In(m) == U \cap 1..m
           Stands(i, m) == i \in In(m) /\ \A j \in In(m) \ {i} : Outranks(c, i, j, t)
           Lacking == {m \in 0..n : In(m) # {} /\ \A i \in In(m) : ~Stands(i, m)}
<1>1. /\ n \in Nat /\ U \subseteq 1..n /\ U # {}
      /\ \A i \in U : /\ Batch[c][i].rank \in Nat /\ Observed(Batch[c][i], t) \in Nat
                      /\ i \in DOMAIN Batch[c] /\ Batch[c][i].key = k
  BY BatchTyped, ObservedTyped DEF Updates, KeysOf
<1> HIDE DEF U, n
<1>2. In(n) = U /\ In(0) = {}
  <2>1. 1..0 = {}
    OBVIOUS
  <2>2. U \cap 1..n = U
    BY <1>1
  <2> QED BY <2>1, <2>2
<1>3. Lacking = {}
  <2>1. SUFFICES ASSUME Lacking # {} PROVE FALSE
    OBVIOUS
  <2>2. Lacking \subseteq Nat
    BY <1>1
  <2>3. PICK m \in Lacking : \A l \in Lacking : m <= l
    <3> HIDE DEF Lacking
    <3> QED BY <2>1, <2>2, LeastNumber
  <2>4. m \in 0..n /\ m # 0 /\ In(m) # {}
    <3>1. m \in 0..n /\ In(m) # {}
      BY <2>3
    <3> QED BY <1>2, <3>1
  <2>5. m - 1 \in 0..n /\ m - 1 \notin Lacking
    <3>1. m - 1 \in 0..n /\ ~(m <= m - 1)
      BY <1>1, <2>4
    <3> HIDE DEF Lacking
    <3> QED BY <2>3, <3>1
  <2>6. In(m) = In(m - 1) \cup (U \cap {m})
    <3>1. 1..m = 1..(m - 1) \cup {m}
      BY <1>1, <2>4
    <3> QED BY <3>1
  <2>7. CASE In(m - 1) = {}
    <3>1. m \in U /\ In(m) = {m}
      BY <2>4, <2>6, <2>7
    <3>2. Stands(m, m)
      BY <3>1
    <3> QED BY <2>3, <3>1, <3>2
  <2>8. CASE In(m - 1) # {}
    <3>1. PICK i \in In(m - 1) : Stands(i, m - 1)
      BY <2>5, <2>8
    <3>2. i \in U /\ i < m /\ i \in In(m)
      BY <1>1, <2>4, <2>6, <3>1
    <3>3. CASE m \notin U
      <4>1. In(m) = In(m - 1)
        BY <2>6, <3>3
      <4>2. Stands(i, m)
        BY <3>1, <4>1
      <4> QED BY <2>3, <3>2, <4>2
    <3>4. CASE m \in U /\ Outranks(c, i, m, t)
      <4>1. Stands(i, m)
        BY <2>6, <3>1, <3>2, <3>4
      <4> QED BY <2>3, <3>2, <4>1
    <3>5. CASE m \in U /\ ~Outranks(c, i, m, t)
      <4>1. Outranks(c, m, i, t)
        <5> HIDE DEF In, Stands, Lacking
        <5>1. m \in Nat /\ i \in Nat
          BY <1>1, <3>2, <2>4
        <5> QED BY <1>1, <3>2, <3>5, <5>1 DEF Outranks
      <4>2. \A j \in In(m - 1) \ {i} : Outranks(c, m, j, t)
        <5>1. TAKE j \in In(m - 1) \ {i}
        <5>2. j \in U /\ Outranks(c, i, j, t) /\ j < m
          BY <1>1, <2>4, <3>1
        <5> HIDE DEF U, In, Stands, Lacking
        <5> QED BY <1>1, <3>2, <3>5, <4>1, <5>2 DEF Outranks
      <4>3. Stands(m, m)
        BY <2>6, <3>5, <4>1, <4>2
      <4> QED BY <2>3, <2>6, <3>5, <4>3
    <3> QED BY <3>3, <3>4, <3>5
  <2> QED BY <2>7, <2>8
<1>4. \E i \in U : \A j \in U \ {i} : Outranks(c, i, j, t)
  <2>1. n \in 0..n /\ n \notin Lacking
    <3> HIDE DEF Lacking
    <3> QED BY <1>1, <1>3
  <2> QED BY <1>1, <1>2, <2>1
<1>5. Chosen(c, k, t) \in U
  BY <1>4 DEF Chosen, U
<1> QED BY <1>1, <1>5

\* The candidate of a call for one of its keys is an entry of its own.
LEMMA CandidateTyped ==
    ASSUME NEW c \in Calls, NEW k \in KeysOf(c), NEW t \in Nat, NEW ds, DOMAIN ds \subseteq CacheKeys
    PROVE  IsEntry(Candidate(c, k, t, ds)) /\ Candidate(c, k, t, ds).version = c
<1>1. Chosen(c, k, t) \in DOMAIN Batch[c]
  BY ChosenStands
<1>2. /\ Batch[c][Chosen(c, k, t)].rank \in Nat
      /\ Observed(Batch[c][Chosen(c, k, t)], t) \in Nat
  BY <1>1, BatchTyped, ObservedTyped
<1> QED BY <1>2 DEF Candidate, IsEntry

-----------------------------------------------------------------------------
\* The order of the entries.

\* The keys a sequence mentions.
Mentioned(keys) == {keys[i] : i \in DOMAIN keys}

\* The order of first mention is an order of the keys mentioned.
LEMMA MentionOrders ==
    ASSUME NEW n \in Nat, NEW keys, DOMAIN keys = 1..n, NEW T, T \subseteq Mentioned(keys)
    PROVE  /\ \A x \in T : ~Before(keys, x, x)
           /\ \A x, y \in T : x # y => Before(keys, x, y) \/ Before(keys, y, x)
           /\ \A x, y, z \in T : Before(keys, x, y) /\ Before(keys, y, z) => Before(keys, x, z)
<1>1. \A x \in T : ~Before(keys, x, x)
  BY DEF Before
<1>2. ASSUME NEW x \in T, NEW y \in T, x # y PROVE Before(keys, x, y) \/ Before(keys, y, x)
  <2> DEFINE At == {i \in 1..n : keys[i] = x \/ keys[i] = y}
  <2>1. At \subseteq Nat /\ At # {}
    BY DEF Mentioned
  <2>2. PICK i \in At : \A j \in At : i <= j
    <3> HIDE DEF At
    <3> QED BY <2>1, LeastNumber
  <2>3. i \in DOMAIN keys /\ \A j \in 1..i : j # i => keys[j] # x /\ keys[j] # y
    BY <2>2
  <2> QED BY <1>2, <2>2, <2>3 DEF Before
<1>3. ASSUME NEW x \in T, NEW y \in T, NEW z \in T, Before(keys, x, y), Before(keys, y, z)
      PROVE  Before(keys, x, z)
  <2>1. PICK i \in 1..n : keys[i] = x /\ \A j \in 1..i : keys[j] # y
    BY <1>3 DEF Before
  <2>2. PICK l \in 1..n : keys[l] = y /\ \A j \in 1..l : keys[j] # z
    BY <1>3 DEF Before
  <2>3. i <= l
    BY <2>1, <2>2
  <2>4. \A j \in 1..i : j \in 1..l
    BY <2>3
  <2> QED BY <2>1, <2>2, <2>4 DEF Before
<1> QED BY <1>1, <1>2, <1>3

\* Keys that are used come to the end.
LEMMA MovedOrders ==
    ASSUME IsOrderOf(older, Cached), NEW S, S \subseteq Cached, NEW T, S \cap T = {},
           NEW n \in Nat, NEW keys, DOMAIN keys = 1..n, T \subseteq Mentioned(keys)
    PROVE  IsOrderOf(MovedToEnd(keys, T, S), S \cup T)
<1> DEFINE o == MovedToEnd(keys, T, S)
<1>1. \A x, y \in S \cup T :
          <<x, y>> \in o <=> \/ x \in S /\ y \in S /\ <<x, y>> \in older
                             \/ x \in S /\ y \in T
                             \/ x \in T /\ y \in T /\ Before(keys, x, y)
  BY DEF MovedToEnd
<1>2. o \subseteq (S \cup T) \X (S \cup T)
  BY DEF MovedToEnd
<1> HIDE DEF o
<1>3. \A x \in S \cup T : <<x, x>> \notin o
  BY <1>1, MentionOrders DEF IsOrderOf
<1>4. \A x, y \in S \cup T : x # y => <<x, y>> \in o \/ <<y, x>> \in o
  BY <1>1, MentionOrders DEF IsOrderOf
<1>5. ASSUME NEW x \in S \cup T, NEW y \in S \cup T, NEW z \in S \cup T, <<x, y>> \in o, <<y, z>> \in o
      PROVE  <<x, z>> \in o
  BY <1>1, <1>5, MentionOrders DEF IsOrderOf
<1> QED BY <1>2, <1>3, <1>4, <1>5 DEF IsOrderOf, o

\* An order of some keys orders any of them.
LEMMA RestrictedOrders ==
    ASSUME NEW o, NEW S, IsOrderOf(o, S), NEW K, K \subseteq S
    PROVE  IsOrderOf(o \cap (K \X K), K)
<1>1. \A x, y \in K : <<x, y>> \in o \cap (K \X K) <=> <<x, y>> \in o
  OBVIOUS
<1> QED BY <1>1 DEF IsOrderOf

\* Enforcing the limit leaves no more keys than it allows.
LEMMA KeptWithinLimit ==
    ASSUME NEW o, NEW C, IsOrderOf(o, C), IsFiniteSet(C)
    PROVE  /\ Kept(C, o) \subseteq C /\ IsFiniteSet(Kept(C, o))
           /\ Cardinality(Kept(C, o)) <= MaxEntries
<1> DEFINE K == Kept(C, o)
           After(k) == {x \in C : <<k, x>> \in o}
<1>1. K \subseteq C /\ IsFiniteSet(K)
  BY FS_Subset DEF Kept
<1>2. \A k \in C : /\ IsFiniteSet(After(k)) /\ Cardinality(After(k)) \in Nat
                   /\ \A S \in SUBSET After(k) : IsFiniteSet(S) /\ Cardinality(S) \in Nat /\ Cardinality(S) <= Cardinality(After(k))
  <2>1. TAKE k \in C
  <2>2. After(k) \subseteq C
    OBVIOUS
  <2>3. IsFiniteSet(After(k)) /\ Cardinality(After(k)) \in Nat
    <3> HIDE DEF After
    <3> QED BY <2>2, FS_Subset, FS_CardinalityType
  <2> HIDE DEF After
  <2> QED BY <2>3, FS_Subset, FS_CardinalityType
<1>3. \A k \in K : Cardinality(After(k)) < MaxEntries
  BY DEF Kept
<1>4. MaxEntries \in Nat
  BY CacheAssumption
<1>5. CASE K = {}
  BY <1>1, <1>4, <1>5, FS_EmptySet
<1>6. CASE K # {}
  <2> DEFINE Sizes == {Cardinality(After(k)) : k \in K}
  <2>1. Sizes # {} /\ Sizes \subseteq 0..MaxEntries
    <3> HIDE DEF After, K
    <3> QED BY <1>1, <1>2, <1>3, <1>4, <1>6
  <2>2. PICK s \in Sizes : \A m \in Sizes : m <= s
    <3> HIDE DEF Sizes
    <3> QED BY <1>4, <2>1, GreatestNumber
  <2>3. PICK k \in K : s = Cardinality(After(k))
    BY <2>2
  <2>4. ASSUME NEW x \in K \ {k} PROVE x \in After(k)
    <3>1. SUFFICES ASSUME x \notin After(k) PROVE FALSE
      OBVIOUS
    <3>2. x \in C /\ k \in C /\ <<x, k>> \in o /\ <<k, k>> \notin o
      BY <1>1, <2>3, <2>4, <3>1 DEF IsOrderOf
    <3>3. After(k) \subseteq After(x) /\ k \in After(x) /\ k \notin After(k)
      BY <3>2 DEF IsOrderOf
    <3> HIDE DEF After, K
    <3>4. After(x) \ {k} \in SUBSET After(x) /\ After(k) \subseteq After(x) \ {k}
      BY <3>3
    <3>5. Cardinality(After(x) \ {k}) = Cardinality(After(x)) - 1
      BY <1>2, <3>2, <3>3, FS_RemoveElement
    <3>6. IsFiniteSet(After(x) \ {k})
      BY <1>2, <3>2, FS_RemoveElement
    <3>7. Cardinality(After(k)) <= Cardinality(After(x) \ {k})
      BY <3>4, <3>6, FS_Subset
    <3>8. Cardinality(After(x)) <= Cardinality(After(k))
      BY <2>2, <2>3, <2>4
    <3> QED BY <1>2, <3>2, <3>5, <3>7, <3>8
  <2> HIDE DEF After, K, Sizes
  <2>5. /\ Cardinality(K \ {k}) <= Cardinality(After(k)) /\ Cardinality(K \ {k}) = Cardinality(K) - 1
        /\ Cardinality(K) \in Nat
    BY <1>1, <1>2, <2>3, <2>4, FS_RemoveElement, FS_CardinalityType
  <2> QED BY <1>1, <1>2, <1>3, <1>4, <2>3, <2>5 DEF K
<1> QED BY <1>1, <1>5, <1>6

-----------------------------------------------------------------------------
\* The inductive invariant.

\* The cache: its entries, within the limit, and their order.
CacheOK ==
    /\ Cached \subseteq CacheKeys /\ \A k \in Cached : IsEntry(entries[k])
    /\ IsOrderOf(older, Cached)
    /\ IsFiniteSet(Cached) /\ Cardinality(Cached) <= MaxEntries

Phases == {"idle", "lock", "copy", "write", "report", "done"}

\* Where the calls are; in a deployment without the conditional write, none does one.
CallsOK ==
    /\ now \in 0..MaxTime /\ deployed \in Deployments
    /\ phase \in [Calls -> Phases]
    /\ \A c \in Calls : /\ phase[c] # "idle" => c \in deployed.calls
                        /\ phase[c] = "copy" => ~deployed.atomic
                        /\ phase[c] = "write" => deployed.atomic

\* Stripes are held by one call each, which takes those of its keys in ascending order.
LocksOK ==
    /\ held \in [Calls -> SUBSET (1..Stripes)]
    /\ \A c, d \in Calls : c # d => held[c] \cap held[d] = {}
    /\ \A c \in Calls :
          /\ held[c] \subseteq StripesOf(c)
          /\ held[c] # {} => phase[c] \in {"lock", "copy", "write", "report"}
          /\ phase[c] = "lock" => \A s \in held[c], t \in StripesOf(c) \ held[c] : s < t
          /\ phase[c] = "copy" => StripesOf(c) \subseteq held[c]

\* What a call keeps: its own candidates, what it found, and what it answers.
IsAnswer(f, c) == \A k \in DOMAIN f : k \in KeysOf(c) /\ IsEntry(f[k])
AreCandidates(f, c) == IsAnswer(f, c) /\ \A k \in DOMAIN f : f[k].version = c
AreStatuses(f) == \A k \in DOMAIN f : f[k] \in {"stored", "lower_authority", "older", "duplicate"}
DataOK ==
    /\ DOMAIN values = Calls /\ DOMAIN found = Calls /\ DOMAIN status = Calls
    /\ DOMAIN delivered = Calls
    /\ prepared \in [Calls -> SUBSET CacheKeys]
    /\ \A c \in Calls : /\ AreCandidates(values[c], c) /\ IsAnswer(found[c], c)
                        /\ AreStatuses(status[c]) /\ IsAnswer(delivered[c], c)

\* What the latest reader found fits together.
Fits(f) == \A k \in DOMAIN f : \A d \in DOMAIN f[k].deps \cap DOMAIN f : f[d].version = f[k].deps[d]
ReadOK == Fits(read)

\* Under its locks, a call that decides by what it read still decides by what is there.
UnderLock(c) == \A k \in KeysOf(c) \cap Cached : k \in DOMAIN found[c] /\ entries[k] = found[c][k]
LegacyOK == \A c \in Calls : phase[c] = "copy" => UnderLock(c)

CacheInv == CacheOK /\ CallsOK /\ LocksOK /\ DataOK /\ ReadOK /\ LegacyOK

-----------------------------------------------------------------------------
\* What the sections of the cache do.

\* Entries go, and nothing else changes.
OnlyDrops == Cached' \subseteq Cached /\ \A k \in Cached' : entries'[k] = entries[k]

\* The values vs of the keys in `stored' are written, and entries go.
Writes(stored, vs) ==
    /\ Cached' \subseteq Cached \cup stored
    /\ \A k \in Cached' : entries'[k] = IF k \in stored THEN vs[k] ELSE entries[k]

\* A cache with fewer entries is one.
LEMMA FewerEntries ==
    ASSUME CacheOK, OnlyDrops, IsOrderOf(older', Cached')
    PROVE  CacheOK'
<1>1. IsFiniteSet(Cached') /\ Cardinality(Cached') <= Cardinality(Cached)
  BY FS_Subset DEF CacheOK, OnlyDrops
<1>2. Cardinality(Cached) \in Nat /\ Cardinality(Cached') \in Nat /\ MaxEntries \in Nat
  BY <1>1, FS_CardinalityType, CacheAssumption DEF CacheOK
<1>3. Cardinality(Cached') <= MaxEntries
  BY <1>1, <1>2 DEF CacheOK
<1>4. Cached' \subseteq CacheKeys /\ \A k \in Cached' : IsEntry(entries'[k])
  BY DEF CacheOK, OnlyDrops
<1> QED BY <1>1, <1>3, <1>4 DEF CacheOK, IsEntry, IsOrderOf

\* Invalidation and pruning.
LEMMA DropDrops ==
    ASSUME CacheOK, NEW S, Drop(S)
    PROVE  CacheOK' /\ OnlyDrops
<1>1. Cached' = Cached \ S /\ OnlyDrops
  BY DEF Drop, Restricted, Cached, OnlyDrops, CacheOK
<1>2. IsOrderOf(older', Cached')
  BY <1>1, RestrictedOrders DEF Drop, CacheOK
<1> QED BY <1>1, <1>2, FewerEntries

\* Reading.
LEMMA ReadDrops ==
    ASSUME CacheOK, NEW n \in Nat, NEW keys, DOMAIN keys = 1..n, NEW ageless, NEW gone,
           gone \subseteq Asked(keys), ReadMany(keys, ageless, gone)
    PROVE  CacheOK' /\ OnlyDrops
<1>1. Asked(keys) \subseteq Cached /\ Asked(keys) \subseteq Mentioned(keys)
  BY DEF Asked, Mentioned
<1>2. Cached' = Cached \ gone /\ OnlyDrops
  BY DEF ReadMany, Restricted, Cached, OnlyDrops, CacheOK
<1>3. Cached' = (Cached \ Asked(keys)) \cup (Asked(keys) \ gone)
  BY <1>1, <1>2
<1>4. IsOrderOf(older', Cached')
  BY <1>1, <1>3, MovedOrders DEF ReadMany, CacheOK
<1> QED BY <1>2, <1>4, FewerEntries

\* What a read finds fits together: each value was found with the very versions it was derived
\* from in the cache, and a later drop takes none of those.
LEMMA FoundFits ==
    ASSUME CacheOK, NEW keys, NEW ageless, NEW gone, gone \subseteq Asked(keys),
           ReadMany(keys, ageless, gone)
    PROVE  Fits(Found(keys, gone))
<1> DEFINE F == Found(keys, gone)
<1>1. /\ DOMAIN F = Asked(keys) \ gone /\ \A k \in DOMAIN F : F[k] = entries[k]
      /\ Asked(keys) \subseteq Cached
  BY DEF Found, Asked
<1> HIDE DEF F
<1>2. ASSUME NEW k \in DOMAIN F, NEW d \in DOMAIN F[k].deps \cap DOMAIN F
      PROVE  F[d].version = F[k].deps[d]
  <2> DEFINE es == SeenAt(keys, k, gone)
  <2>1. DependenciesCurrent(es, k)
    BY <1>1 DEF ReadMany
  <2>2. \A x \in DOMAIN es : x \in Cached /\ es[x] = entries[x]
    BY DEF SeenAt, Restricted, Cached
  <2> HIDE DEF es
  <2>3. PICK S \in SUBSET DOMAIN es :
            /\ k \in S
            /\ \A x \in S : \A y \in DOMAIN es[x].deps : y \in S /\ es[y].version = es[x].deps[y]
    BY <2>1 DEF DependenciesCurrent
  <2>4. es[k] = entries[k] /\ F[k] = entries[k] /\ F[d] = entries[d]
    BY <1>1, <2>2, <2>3
  <2>5. d \in S /\ es[d].version = es[k].deps[d]
    BY <2>3, <2>4
  <2> QED BY <2>2, <2>3, <2>4, <2>5
<1>3. Fits(F)
  BY <1>2 DEF Fits
<1> QED BY <1>3 DEF F

\* Committing a batch.
LEMMA CommitWrites ==
    ASSUME CacheOK, NEW n \in Nat, NEW keys, DOMAIN keys = 1..n, NEW stored, NEW vs,
           stored \subseteq Mentioned(keys) \cap CacheKeys, IsFiniteSet(stored),
           \A k \in stored : IsEntry(vs[k]), Commit(keys, stored, vs)
    PROVE  CacheOK' /\ Writes(stored, vs)
<1> DEFINE C == Cached \cup stored
           o == MovedToEnd(keys, stored, Cached \ stored)
           K == Kept(C, o)
<1>1. C = (Cached \ stored) \cup stored
  OBVIOUS
<1>2. IsOrderOf(o, C)
  BY <1>1, MovedOrders DEF CacheOK
<1>3. IsFiniteSet(C)
  BY FS_Union DEF CacheOK
<1>4. /\ older' = o \cap (K \X K)
      /\ entries' = [k \in K |-> IF k \in stored THEN vs[k] ELSE entries[k]]
  BY DEF Commit
<1> HIDE DEF o, K
<1>5. K \subseteq C /\ IsFiniteSet(K) /\ Cardinality(K) <= MaxEntries
  BY <1>2, <1>3, KeptWithinLimit DEF K
<1>6. IsOrderOf(older', K)
  BY <1>2, <1>4, <1>5, RestrictedOrders
<1>7. Cached' = K /\ \A k \in K : entries'[k] = IF k \in stored THEN vs[k] ELSE entries[k]
  BY <1>4 DEF Cached
<1>8. Cached' \subseteq CacheKeys /\ \A k \in Cached' : IsEntry(entries'[k])
  BY <1>5, <1>7 DEF CacheOK
<1> QED BY <1>5, <1>6, <1>7, <1>8 DEF CacheOK, Writes, IsEntry, IsOrderOf

-----------------------------------------------------------------------------
\* The decisions.

\* A write is one of four things; it is stored when it may replace what is there.
LEMMA StatusRight ==
    ASSUME NEW u, NEW v, IsEntry(u), IsEntry(v), NEW forced, NEW equal
    PROVE  /\ WriteStatus(u, v, forced, equal) \in {"stored", "lower_authority", "older", "duplicate"}
           /\ WriteStatus(u, v, forced, equal) = "stored" => forced \/ Precedes(u, v)
BY DEF WriteStatus, Precedes, IsEntry

\* What a pass over the batch decides.
LEMMA PassDecides ==
    ASSUME CacheOK, DataOK, NEW c \in Calls, NEW k \in DOMAIN values[c]
    PROVE  /\ StatusNow(c, k) \in {"stored", "lower_authority", "older", "duplicate"}
           /\ StatusNow(c, k) = "lower_authority" => k \in Cached
           /\ StatusNow(c, k) = "stored" /\ k \in Cached =>
                  c \in Forced \/ Precedes(entries[k], values[c][k])
<1>1. IsEntry(values[c][k])
  BY DEF DataOK, AreCandidates, IsAnswer
<1>2. CASE k \in Cached
  <2>1. IsEntry(entries[k])
    BY <1>2 DEF CacheOK
  <2>2. StatusNow(c, k) = WriteStatus(entries[k], values[c][k], c \in Forced, c \in ReplaceEqual)
    BY <1>2, Zenon DEF StatusNow, StatusOf
  <2> QED BY <1>1, <1>2, <2>1, <2>2, StatusRight
<1>3. CASE k \notin Cached
  BY <1>3 DEF StatusNow, StatusOf
<1> QED BY <1>2, <1>3

\* What the publisher decides by itself.
LEMMA LegacyDecides ==
    ASSUME CacheOK, DataOK, NEW c \in Calls, NEW k \in DOMAIN values[c]
    PROVE  /\ LegacyStatus(c, k) \in {"stored", "lower_authority", "older", "duplicate"}
           /\ LegacyStatus(c, k) = "stored" /\ UnderLock(c) /\ k \in Cached =>
                  c \in Forced \/ Precedes(entries[k], values[c][k])
<1>1. IsEntry(values[c][k]) /\ k \in KeysOf(c)
  BY DEF DataOK, AreCandidates, IsAnswer
<1>2. CASE k \in DOMAIN found[c]
  <2>1. IsEntry(found[c][k])
    BY <1>2 DEF DataOK, AreCandidates, IsAnswer
  <2>2. LegacyStatus(c, k) = WriteStatus(found[c][k], values[c][k], c \in Forced, c \in ReplaceEqual)
    BY <1>2, Zenon DEF LegacyStatus
  <2>3. /\ LegacyStatus(c, k) \in {"stored", "lower_authority", "older", "duplicate"}
        /\ LegacyStatus(c, k) = "stored" => c \in Forced \/ Precedes(found[c][k], values[c][k])
    BY <1>1, <2>1, <2>2, StatusRight
  <2>4. UnderLock(c) /\ k \in Cached => entries[k] = found[c][k]
    BY <1>1 DEF UnderLock
  <2> QED BY <2>3, <2>4
<1>3. CASE k \notin DOMAIN found[c]
  BY <1>1, <1>3 DEF LegacyStatus, UnderLock
<1> QED BY <1>2, <1>3

-----------------------------------------------------------------------------
\* The steps.

\* An entry is only replaced by one that may replace it.
MayReplace ==
    \A k \in Cached \cap Cached' :
        \/ entries'[k] = entries[k]
        \/ Precedes(entries[k], entries'[k])
        \/ entries'[k].version \in Forced

\* The key sequences that are read and written.
LEMMA KeySeqTyped ==
    ASSUME NEW c \in Calls
    PROVE  /\ Len(Batch[c]) \in Nat /\ DOMAIN KeySeq(c) = 1..Len(Batch[c])
           /\ Mentioned(KeySeq(c)) = KeysOf(c)
BY BatchTyped DEF KeySeq, KeysOf, Mentioned

\* Stripes do not change hands with the phases of calls that keep them.
LEMMA Kept_Locks ==
    ASSUME LocksOK, held' = held, NEW c \in Calls, NEW ph,
           phase' = [phase EXCEPT ![c] = ph], phase \in [Calls -> Phases],
           ph = "lock" => held[c] = {},
           held[c] # {} => ph \in {"lock", "copy", "write", "report"},
           ph = "copy" => StripesOf(c) \subseteq held[c]
    PROVE  LocksOK'
<1>1. phase'[c] = ph /\ \A d \in Calls \ {c} : phase'[d] = phase[d]
  OBVIOUS
<1> QED BY <1>1 DEF LocksOK, StripesOf, KeysOf

LEMMA Released_Locks ==
    ASSUME LocksOK, NEW c \in Calls, ReleaseStripes(c), phase \in [Calls -> Phases],
           phase' = [phase EXCEPT ![c] = "done"]
    PROVE  LocksOK'
<1>1. phase'[c] = "done" /\ \A d \in Calls \ {c} : phase'[d] = phase[d]
  OBVIOUS
<1>2. held'[c] = {} /\ \A d \in Calls \ {c} : held'[d] = held[d]
  BY DEF ReleaseStripes, LocksOK
<1>3. held' \in [Calls -> SUBSET (1..Stripes)]
  BY DEF ReleaseStripes, LocksOK
<1> QED BY <1>1, <1>2, <1>3 DEF LocksOK, StripesOf, KeysOf

\* The phase of one call changes.
LEMMA PhaseMoves ==
    ASSUME CallsOK, now' = now, deployed' = deployed, NEW c \in Calls, NEW ph,
           phase' = [phase EXCEPT ![c] = ph],
           ph \in {"lock", "copy", "write", "report", "done"},
           c \in deployed.calls,
           ph = "copy" => ~deployed.atomic, ph = "write" => deployed.atomic
    PROVE  CallsOK' /\ phase'[c] = ph /\ \A d \in Calls \ {c} : phase'[d] = phase[d]
<1>1. phase'[c] = ph /\ \A d \in Calls \ {c} : phase'[d] = phase[d]
  BY DEF CallsOK
<1>2. phase' \in [Calls -> Phases]
  BY DEF CallsOK, Phases
<1> QED BY <1>1, <1>2 DEF CallsOK

\* Losing entries takes nothing from what is decided under locks.
LEMMA DropsKeepLegacy ==
    ASSUME LegacyOK, OnlyDrops, found' = found,
           \A c \in Calls : phase'[c] = "copy" => phase[c] = "copy"
    PROVE  LegacyOK' /\ MayReplace
<1>1. ASSUME NEW c \in Calls, phase'[c] = "copy" PROVE UnderLock(c)'
  BY <1>1 DEF LegacyOK, UnderLock, OnlyDrops, KeysOf
<1> QED BY <1>1 DEF LegacyOK, MayReplace, OnlyDrops

\* The data of the calls and of the reader stay.
DataStays == UNCHANGED <<values, prepared, found, status, delivered>>

LEMMA DataKept ==
    ASSUME DataOK, DataStays
    PROVE  DataOK'
BY DEF DataOK, DataStays

LEMMA ReadKept ==
    ASSUME ReadOK, read' = read
    PROVE  ReadOK'
BY DEF ReadOK, Fits

LEMMA CacheKept ==
    ASSUME CacheOK, entries' = entries, older' = older
    PROVE  CacheOK' /\ OnlyDrops
BY DEF CacheOK, OnlyDrops, Cached, IsEntry, IsOrderOf

LEMMA LocksKept ==
    ASSUME LocksOK, held' = held, phase' = phase
    PROVE  LocksOK'
BY DEF LocksOK, StripesOf, KeysOf

LEMMA CallsKept ==
    ASSUME CallsOK, deployed' = deployed, phase' = phase, now' \in 0..MaxTime
    PROVE  CallsOK'
BY DEF CallsOK

LEMMA BeginKeeps ==
    ASSUME CacheInv, NEW c \in Calls, Begin(c)
    PROVE  CacheInv' /\ MayReplace
<1>1. /\ c \in deployed.calls /\ phase[c] = "idle" /\ phase' = [phase EXCEPT ![c] = "lock"]
      /\ entries' = entries /\ older' = older /\ held' = held /\ now' = now /\ deployed' = deployed
      /\ read' = read /\ found' = found /\ DataStays
  BY DEF Begin, Rest, DataStays
<1>2. CallsOK' /\ phase'[c] = "lock" /\ \A d \in Calls \ {c} : phase'[d] = phase[d]
  BY <1>1, PhaseMoves DEF CacheInv
<1>3. LocksOK'
  <2>1. held[c] = {} /\ phase \in [Calls -> Phases]
    BY <1>1 DEF CacheInv, LocksOK, CallsOK
  <2> QED BY <1>1, <2>1, Kept_Locks DEF CacheInv
<1>4. CacheOK' /\ OnlyDrops /\ DataOK' /\ ReadOK'
  BY <1>1, CacheKept, DataKept, ReadKept DEF CacheInv
<1>5. LegacyOK' /\ MayReplace
  BY <1>1, <1>2, <1>4, DropsKeepLegacy DEF CacheInv
<1> QED BY <1>2, <1>3, <1>4, <1>5 DEF CacheInv

LEMMA LockKeeps ==
    ASSUME CacheInv, NEW c \in Calls, Lock(c)
    PROVE  CacheInv' /\ MayReplace
<1>1. /\ entries' = entries /\ older' = older /\ phase' = phase /\ now' = now /\ deployed' = deployed
      /\ read' = read /\ found' = found /\ DataStays /\ phase[c] = "lock"
  BY DEF Lock, Rest, DataStays
<1>2. PICK s \in NextStripe(c) : /\ \A d \in Calls : s \notin held[d]
                                 /\ held' = [held EXCEPT ![c] = @ \cup {s}]
  BY DEF Lock
<1>3. s \in StripesOf(c) /\ s \in 1..Stripes /\ \A t \in StripesOf(c) \ held[c] : s <= t
  <2>1. StripesOf(c) \subseteq 1..Stripes
    BY KeysFinite, PublicationAssumption DEF StripesOf
  <2> QED BY <2>1 DEF NextStripe
<1>4. held'[c] = held[c] \cup {s} /\ \A d \in Calls \ {c} : held'[d] = held[d]
  BY <1>2 DEF CacheInv, LocksOK
<1>5. held' \in [Calls -> SUBSET (1..Stripes)]
  BY <1>2, <1>3 DEF CacheInv, LocksOK
<1>6. LocksOK'
  <2>1. \A d, e \in Calls : d # e => held'[d] \cap held'[e] = {}
    BY <1>2, <1>4 DEF CacheInv, LocksOK
  <2>2. held'[c] \subseteq StripesOf(c)
    BY <1>3, <1>4 DEF CacheInv, LocksOK
  <2>3. \A q \in held'[c], t \in StripesOf(c) \ held'[c] : q < t
    <3>1. TAKE q \in held'[c], t \in StripesOf(c) \ held'[c]
    <3>2. t \in StripesOf(c) \ held[c] /\ t # s /\ t \in Int /\ s \in Int
      <4>1. StripesOf(c) \subseteq 1..Stripes
        BY KeysFinite, PublicationAssumption DEF StripesOf
      <4> QED BY <1>3, <1>4, <4>1
    <3>3. CASE q = s
      BY <1>3, <3>2, <3>3
    <3>4. CASE q \in held[c]
      BY <1>1, <3>2, <3>4 DEF CacheInv, LocksOK
    <3> QED BY <1>4, <3>3, <3>4
  <2>4. \A d \in Calls : StripesOf(d)' = StripesOf(d)
    BY DEF StripesOf, KeysOf
  <2> QED BY <1>1, <1>4, <1>5, <2>1, <2>2, <2>3, <2>4 DEF CacheInv, LocksOK
<1>7. CacheOK' /\ OnlyDrops /\ DataOK' /\ ReadOK' /\ CallsOK'
  BY <1>1, CacheKept, DataKept, ReadKept, CallsKept DEF CacheInv, CallsOK
<1>8. LegacyOK' /\ MayReplace
  BY <1>1, <1>7, DropsKeepLegacy DEF CacheInv
<1> QED BY <1>6, <1>7, <1>8 DEF CacheInv

\* A call that has begun is one of the deployment's.
LEMMA BegunDeployed ==
    ASSUME CacheInv, NEW c \in Calls, phase[c] # "idle"
    PROVE  c \in deployed.calls /\ phase \in [Calls -> Phases]
BY DEF CacheInv, CallsOK

\* A call ends: its stripes are free again, whatever went from the cache.
LEMMA EndKeepsCache ==
    ASSUME CacheInv, NEW c \in Calls, phase[c] # "idle", ReleaseStripes(c),
           phase' = [phase EXCEPT ![c] = "done"], UNCHANGED Rest, CacheOK', OnlyDrops
    PROVE  CacheInv' /\ MayReplace
<1>1. now' = now /\ deployed' = deployed /\ read' = read /\ found' = found /\ DataStays
  BY DEF Rest, DataStays
<1>2. CallsOK' /\ phase'[c] = "done" /\ \A d \in Calls \ {c} : phase'[d] = phase[d]
  BY <1>1, BegunDeployed, PhaseMoves DEF CacheInv
<1>3. LocksOK'
  BY BegunDeployed, Released_Locks DEF CacheInv
<1>4. DataOK' /\ ReadOK'
  BY <1>1, DataKept, ReadKept DEF CacheInv
<1>5. LegacyOK' /\ MayReplace
  BY <1>1, <1>2, DropsKeepLegacy DEF CacheInv
<1> QED BY <1>2, <1>3, <1>4, <1>5 DEF CacheInv

LEMMA EndingsKeep ==
    ASSUME CacheInv, NEW c \in Calls, Invalidate(c) \/ RejectFuture(c) \/ Report(c) \/ Cancel(c)
    PROVE  CacheInv' /\ MayReplace
<1>1. /\ phase[c] # "idle" /\ ReleaseStripes(c) /\ phase' = [phase EXCEPT ![c] = "done"]
      /\ UNCHANGED Rest
  BY DEF Invalidate, RejectFuture, Report, Cancel, Locked
<1>2. CacheOK' /\ OnlyDrops
  <2>1. CASE Invalidate(c)
    BY <2>1, DropDrops DEF Invalidate, CacheInv
  <2>2. CASE RejectFuture(c) \/ Report(c) \/ Cancel(c)
    BY <2>2, CacheKept DEF RejectFuture, Report, Cancel, CacheInv
  <2> QED BY <2>1, <2>2
<1> QED BY <1>1, <1>2, EndKeepsCache

\* The publisher reads what is there, which may drop entries.  In a deployment without the
\* conditional write, what it found is from here on all there is under its locks.
LEMMA ReadExistingKeeps ==
    ASSUME CacheInv, NEW c \in Calls, ReadExisting(c)
    PROVE  CacheInv' /\ MayReplace
<1> DEFINE ph == IF deployed.atomic THEN "write" ELSE "copy"
<1>1. /\ phase[c] = "lock" /\ StripesOf(c) \subseteq held[c] /\ phase' = [phase EXCEPT ![c] = ph]
      /\ values' = [values EXCEPT ![c] = [k \in KeysOf(c) |-> Candidate(c, k, now, <<>>)]]
      /\ now' = now /\ deployed' = deployed /\ held' = held /\ read' = read
      /\ prepared' = prepared /\ status' = status /\ delivered' = delivered
  BY DEF ReadExisting, Locked
<1>2. PICK gone \in SUBSET Asked(KeySeq(c)) :
          /\ ReadMany(KeySeq(c), TRUE, gone)
          /\ found' = [found EXCEPT ![c] = Found(KeySeq(c), gone)]
  BY DEF ReadExisting
<1> DEFINE F == Found(KeySeq(c), gone)
<1>3. CacheOK' /\ OnlyDrops
  BY <1>2, KeySeqTyped, ReadDrops DEF CacheInv
<1>4. /\ DOMAIN F = Asked(KeySeq(c)) \ gone /\ \A k \in DOMAIN F : F[k] = entries[k]
      /\ Asked(KeySeq(c)) = KeysOf(c) \cap Cached
      /\ Cached' = Cached \ gone
  <2>1. DOMAIN F = Asked(KeySeq(c)) \ gone /\ \A k \in DOMAIN F : F[k] = entries[k]
    BY DEF Found
  <2>2. Asked(KeySeq(c)) = KeysOf(c) \cap Cached
    <3>1. Mentioned(KeySeq(c)) = KeysOf(c)
      BY KeySeqTyped
    <3> QED BY <3>1 DEF Asked, Mentioned
  <2>3. Cached' = Cached \ gone
    BY <1>2 DEF ReadMany, Restricted, Cached, CacheInv, CacheOK
  <2> QED BY <2>1, <2>2, <2>3
<1> HIDE DEF F
<1>5. c \in deployed.calls /\ phase \in [Calls -> Phases]
  BY <1>1, BegunDeployed
<1>6. CallsOK' /\ phase'[c] = ph /\ \A d \in Calls \ {c} : phase'[d] = phase[d]
  <2>1. deployed.atomic \in BOOLEAN
    BY PublicationAssumption DEF CacheInv, CallsOK
  <2>2. /\ ph \in {"lock", "copy", "write", "report", "done"}
        /\ ph = "copy" => ~deployed.atomic
        /\ ph = "write" => deployed.atomic
    BY <2>1
  <2> HIDE DEF ph
  <2> QED BY <1>1, <1>5, <2>2, PhaseMoves DEF CacheInv
<1>7. LocksOK'
  <2>1. ph \in {"copy", "write"}
    OBVIOUS
  <2> HIDE DEF ph
  <2> QED BY <1>1, <1>5, <2>1, Kept_Locks DEF CacheInv
<1>8. /\ found'[c] = F /\ \A d \in Calls \ {c} : found'[d] = found[d]
      /\ DOMAIN found' = Calls /\ DOMAIN values' = Calls
      /\ values'[c] = [k \in KeysOf(c) |-> Candidate(c, k, now, <<>>)]
      /\ \A d \in Calls \ {c} : values'[d] = values[d]
  BY <1>1, <1>2 DEF CacheInv, DataOK, F
<1>9. DataOK'
  <2>1. IsAnswer(F, c)
    BY <1>4 DEF IsAnswer, CacheInv, CacheOK
  <2>2. \A k \in KeysOf(c) : IsEntry(Candidate(c, k, now, <<>>)) /\ Candidate(c, k, now, <<>>).version = c
    <3>1. now \in Nat
      BY PublicationAssumption DEF CacheInv, CallsOK
    <3>2. DOMAIN <<>> \subseteq CacheKeys
      OBVIOUS
    <3> QED BY <3>1, <3>2, CandidateTyped
  <2>3. AreCandidates(values'[c], c)
    BY <1>8, <2>2 DEF IsAnswer, AreCandidates
  <2> QED BY <1>1, <1>8, <2>1, <2>3 DEF CacheInv, DataOK
<1>10. ReadOK'
  BY <1>1, ReadKept DEF CacheInv
<1>11. LegacyOK'
  <2>1. ASSUME NEW d \in Calls, d # c, phase'[d] = "copy" PROVE UnderLock(d)'
    BY <1>3, <1>6, <1>8, <2>1 DEF CacheInv, LegacyOK, UnderLock, OnlyDrops, KeysOf
  <2>2. UnderLock(c)'
    BY <1>3, <1>4, <1>8 DEF UnderLock, OnlyDrops, KeysOf
  <2> QED BY <2>1, <2>2 DEF LegacyOK
<1>12. MayReplace
  BY <1>3 DEF MayReplace, OnlyDrops
<1> QED BY <1>3, <1>6, <1>7, <1>9, <1>10, <1>11, <1>12 DEF CacheInv

\* A source returns: its values carry the versions of what they were derived from.
LEMMA SourceReturnsKeeps ==
    ASSUME CacheInv, NEW c \in Calls, SourceReturns(c)
    PROVE  CacheInv' /\ MayReplace
<1>1. /\ c \in deployed.calls /\ phase[c] = "idle" /\ Kind[c] = "source"
      /\ phase' = [phase EXCEPT ![c] = "write"]
      /\ values' = [values EXCEPT ![c] = [k \in KeysOf(c) |->
                       Candidate(c, k, now, [d \in Deps[k] |-> entries[d].version])]]
      /\ now' = now /\ deployed' = deployed /\ held' = held /\ read' = read
      /\ entries' = entries /\ older' = older
      /\ found' = found /\ prepared' = prepared /\ status' = status /\ delivered' = delivered
  BY DEF SourceReturns
<1>2. phase \in [Calls -> Phases] /\ deployed \in Deployments /\ deployed.atomic
  BY <1>1, PublicationAssumption DEF CacheInv, CallsOK
<1>3. CallsOK' /\ phase'[c] = "write" /\ \A d \in Calls \ {c} : phase'[d] = phase[d]
  BY <1>1, <1>2, PhaseMoves DEF CacheInv
<1>4. LocksOK'
  BY <1>1, <1>2, Kept_Locks DEF CacheInv
<1>5. CacheOK' /\ OnlyDrops /\ ReadOK'
  BY <1>1, CacheKept, ReadKept DEF CacheInv
<1>6. LegacyOK' /\ MayReplace
  BY <1>1, <1>3, <1>5, DropsKeepLegacy DEF CacheInv
<1>7. DataOK'
  <2>1. ASSUME NEW k \in KeysOf(c)
        PROVE  LET v == Candidate(c, k, now, [d \in Deps[k] |-> entries[d].version])
               IN  IsEntry(v) /\ v.version = c
    <3>1. now \in Nat
      BY PublicationAssumption DEF CacheInv, CallsOK
    <3>2. Deps[k] \subseteq CacheKeys
      BY KeysFinite, PublicationAssumption
    <3> QED BY <3>1, <3>2, CandidateTyped
  <2>2. /\ values'[c] = [k \in KeysOf(c) |->
                            Candidate(c, k, now, [d \in Deps[k] |-> entries[d].version])]
        /\ DOMAIN values' = Calls /\ \A d \in Calls \ {c} : values'[d] = values[d]
    BY <1>1 DEF CacheInv, DataOK
  <2>3. AreCandidates(values'[c], c)
    BY <2>1, <2>2 DEF IsAnswer, AreCandidates
  <2> QED BY <1>1, <2>2, <2>3 DEF CacheInv, DataOK
<1> QED BY <1>3, <1>4, <1>5, <1>6, <1>7 DEF CacheInv

LEMMA PrepareMoreKeeps ==
    ASSUME CacheInv, NEW c \in Calls, PrepareMore(c)
    PROVE  CacheInv' /\ MayReplace
<1>1. /\ prepared' = [prepared EXCEPT ![c] = @ \cup Wanted(c)]
      /\ now' = now /\ deployed' = deployed /\ held' = held /\ read' = read /\ phase' = phase
      /\ entries' = entries /\ older' = older
      /\ found' = found /\ values' = values /\ status' = status /\ delivered' = delivered
  BY DEF PrepareMore
<1>2. CacheOK' /\ OnlyDrops /\ ReadOK' /\ LocksOK' /\ CallsOK'
  BY <1>1, CacheKept, ReadKept, LocksKept, CallsKept DEF CacheInv, CallsOK
<1>3. LegacyOK' /\ MayReplace
  BY <1>1, <1>2, DropsKeepLegacy DEF CacheInv
<1>4. Wanted(c) \subseteq CacheKeys
  BY KeysFinite DEF Wanted, CacheInv, DataOK, AreCandidates, IsAnswer
<1>5. prepared' \in [Calls -> SUBSET CacheKeys]
  BY <1>1, <1>4 DEF CacheInv, DataOK
<1>6. DataOK'
  BY <1>1, <1>5 DEF CacheInv, DataOK
<1> QED BY <1>2, <1>3, <1>6 DEF CacheInv

\* What a call commits are candidates of its own.
LEMMA OwnWrites ==
    ASSUME CacheInv, NEW c \in Calls, NEW stored, stored \subseteq DOMAIN values[c],
           Commit(KeySeq(c), stored, values[c])
    PROVE  CacheOK' /\ Writes(stored, values[c]) /\ stored \subseteq KeysOf(c)
<1>1. /\ \A k \in stored : IsEntry(values[c][k])
      /\ stored \subseteq KeysOf(c)
  BY DEF CacheInv, DataOK, AreCandidates, IsAnswer
<1>2. stored \subseteq Mentioned(KeySeq(c)) \cap CacheKeys /\ IsFiniteSet(stored)
  BY <1>1, KeySeqTyped, KeysFinite, FS_Subset
<1> QED BY <1>1, <1>2, KeySeqTyped, CommitWrites DEF CacheInv

\* A commit replaces only what the candidates may replace.
LEMMA WritesMayReplace ==
    ASSUME CacheInv, NEW c \in Calls, NEW stored, stored \subseteq DOMAIN values[c],
           Writes(stored, values[c]),
           \A k \in stored \cap Cached : c \in Forced \/ Precedes(entries[k], values[c][k])
    PROVE  MayReplace
<1>1. SUFFICES ASSUME NEW k \in Cached \cap Cached'
               PROVE  \/ entries'[k] = entries[k]
                      \/ Precedes(entries[k], entries'[k])
                      \/ entries'[k].version \in Forced
  BY DEF MayReplace
<1>2. CASE k \notin stored
  BY <1>2 DEF Writes
<1>3. CASE k \in stored
  BY <1>3 DEF Writes, CacheInv, DataOK, AreCandidates
<1> QED BY <1>2, <1>3

LEMMA CommitBatchKeeps ==
    ASSUME CacheInv, NEW c \in Calls, CommitBatch(c)
    PROVE  CacheInv' /\ MayReplace
<1> DEFINE S == [k \in DOMAIN values[c] |-> StatusNow(c, k)]
           A == [k \in DOMAIN values[c] |->
                    IF StatusNow(c, k) = "lower_authority" THEN entries[k] ELSE values[c][k]]
<1>1. /\ phase[c] = "write" /\ phase' = [phase EXCEPT ![c] = "report"]
      /\ Commit(KeySeq(c), Wanted(c), values[c])
      /\ status' = [status EXCEPT ![c] = S]
      /\ delivered' = delivered \/ delivered' = [delivered EXCEPT ![c] = A]
      /\ now' = now /\ deployed' = deployed /\ held' = held /\ read' = read
      /\ found' = found /\ values' = values /\ prepared' = prepared
  BY DEF CommitBatch
<1>2. c \in deployed.calls /\ phase \in [Calls -> Phases] /\ deployed.atomic
  BY <1>1, BegunDeployed DEF CacheInv, CallsOK
<1>3. CallsOK' /\ phase'[c] = "report" /\ \A d \in Calls \ {c} : phase'[d] = phase[d]
  BY <1>1, <1>2, PhaseMoves DEF CacheInv
<1>4. LocksOK'
  BY <1>1, <1>2, Kept_Locks DEF CacheInv
<1>5. Wanted(c) \subseteq DOMAIN values[c]
  BY DEF Wanted
<1>6. CacheOK' /\ Writes(Wanted(c), values[c])
  BY <1>1, <1>5, OwnWrites
<1>7. MayReplace
  <2>1. \A k \in Wanted(c) \cap Cached : c \in Forced \/ Precedes(entries[k], values[c][k])
    BY PassDecides DEF Wanted, CacheInv
  <2> QED BY <1>5, <1>6, <2>1, WritesMayReplace
<1>8. LegacyOK'
  BY <1>1, <1>2, <1>3 DEF LegacyOK, CallsOK
<1>9. AreStatuses(S)
  BY PassDecides DEF AreStatuses, CacheInv
<1>10. IsAnswer(A, c)
  <2>1. ASSUME NEW k \in DOMAIN values[c] PROVE k \in KeysOf(c) /\ IsEntry(A[k])
    <3>1. k \in KeysOf(c) /\ IsEntry(values[c][k])
      BY DEF CacheInv, DataOK, AreCandidates, IsAnswer
    <3>2. StatusNow(c, k) = "lower_authority" => IsEntry(entries[k])
      BY PassDecides DEF CacheInv, CacheOK
    <3> QED BY <3>1, <3>2
  <2> QED BY <2>1 DEF IsAnswer
<1> HIDE DEF S, A
<1>11. DataOK'
  <2>1. DOMAIN status' = Calls /\ \A d \in Calls : AreStatuses(status'[d])
    BY <1>1, <1>9 DEF CacheInv, DataOK
  <2>2. DOMAIN delivered' = Calls /\ \A d \in Calls : IsAnswer(delivered'[d], d)
    BY <1>1, <1>10 DEF CacheInv, DataOK
  <2> QED BY <1>1, <2>1, <2>2 DEF CacheInv, DataOK
<1>12. ReadOK'
  BY <1>1, ReadKept DEF CacheInv
<1> QED BY <1>3, <1>4, <1>6, <1>7, <1>8, <1>11, <1>12 DEF CacheInv

\* Two calls that hold all their stripes have no key in common.
LEMMA CopyingApart ==
    ASSUME CacheInv, NEW c \in Calls, NEW d \in Calls, c # d, phase[c] = "copy", phase[d] = "copy"
    PROVE  KeysOf(c) \cap KeysOf(d) = {}
<1>1. StripesOf(c) \cap StripesOf(d) = {}
  BY DEF CacheInv, LocksOK
<1> QED BY <1>1 DEF StripesOf

LEMMA LegacyWriteKeeps ==
    ASSUME CacheInv, NEW c \in Calls, LegacyWrite(c)
    PROVE  CacheInv' /\ MayReplace
<1> DEFINE S == [k \in DOMAIN values[c] |-> LegacyStatus(c, k)]
           W == {k \in DOMAIN values[c] : LegacyStatus(c, k) = "stored"}
<1>1. /\ phase[c] = "copy" /\ phase' = [phase EXCEPT ![c] = "report"]
      /\ Commit(KeySeq(c), W, values[c])
      /\ status' = [status EXCEPT ![c] = S]
      /\ now' = now /\ deployed' = deployed /\ held' = held /\ read' = read
      /\ found' = found /\ values' = values /\ prepared' = prepared /\ delivered' = delivered
  BY DEF LegacyWrite
<1>2. c \in deployed.calls /\ phase \in [Calls -> Phases]
  BY <1>1, BegunDeployed
<1>3. CallsOK' /\ phase'[c] = "report" /\ \A d \in Calls \ {c} : phase'[d] = phase[d]
  BY <1>1, <1>2, PhaseMoves DEF CacheInv
<1>4. LocksOK'
  BY <1>1, <1>2, Kept_Locks DEF CacheInv
<1>5. /\ W \subseteq DOMAIN values[c]
      /\ \A k \in W \cap Cached : c \in Forced \/ Precedes(entries[k], values[c][k])
  BY <1>1, LegacyDecides DEF CacheInv, LegacyOK
<1>6. AreStatuses(S)
  BY LegacyDecides DEF AreStatuses, CacheInv
<1> HIDE DEF S, W
<1>7. CacheOK' /\ Writes(W, values[c]) /\ W \subseteq KeysOf(c)
  BY <1>1, <1>5, OwnWrites
<1>8. MayReplace
  BY <1>5, <1>7, WritesMayReplace
<1>9. LegacyOK'
  <2>1. ASSUME NEW d \in Calls, phase'[d] = "copy" PROVE UnderLock(d)'
    <3>1. d # c /\ phase[d] = "copy"
      BY <1>3, <2>1
    <3>2. KeysOf(c) \cap KeysOf(d) = {}
      BY <1>1, <3>1, CopyingApart
    <3>3. UnderLock(d)
      BY <3>1 DEF CacheInv, LegacyOK
    <3> QED BY <1>1, <1>7, <3>2, <3>3 DEF UnderLock, Writes, KeysOf
  <2> QED BY <2>1 DEF LegacyOK
<1>10. DataOK'
  <2>1. DOMAIN status' = Calls /\ \A d \in Calls : AreStatuses(status'[d])
    BY <1>1, <1>6 DEF CacheInv, DataOK
  <2> QED BY <1>1, <2>1 DEF CacheInv, DataOK
<1>11. ReadOK'
  BY <1>1, ReadKept DEF CacheInv
<1> QED BY <1>3, <1>4, <1>7, <1>8, <1>9, <1>10, <1>11 DEF CacheInv

\* A reader, an operator who invalidates, pruning and the clock.
LEMMA OthersKeepCache ==
    ASSUME CacheInv, Read \/ InvalidateMatching \/ Prune \/ Tick
    PROVE  CacheInv' /\ MayReplace
<1>1. phase' = phase /\ held' = held /\ deployed' = deployed /\ found' = found /\ DataStays
  BY DEF Read, InvalidateMatching, Prune, Tick, Rest, DataStays
<1>2. CacheOK' /\ OnlyDrops
  <2>1. CASE Read
    <3>1. PICK keys \in ReadBatches : \E gone \in SUBSET Asked(keys) : ReadMany(keys, FALSE, gone)
      BY <2>1 DEF Read
    <3>2. Len(keys) \in Nat /\ DOMAIN keys = 1..Len(keys)
      BY PublicationAssumption
    <3> QED BY <3>1, <3>2, ReadDrops DEF CacheInv
  <2>2. CASE InvalidateMatching
    BY <2>2, DropDrops DEF InvalidateMatching, CacheInv
  <2>3. CASE Prune
    BY <2>3, DropDrops DEF Prune, CacheInv
  <2>4. CASE Tick
    BY <2>4, CacheKept DEF Tick, CacheInv
  <2> QED BY <2>1, <2>2, <2>3, <2>4
<1>3. ReadOK'
  <2>1. CASE Read
    <3>1. PICK keys \in ReadBatches : \E gone \in SUBSET Asked(keys) :
              ReadMany(keys, FALSE, gone) /\ read' = Found(keys, gone)
      BY <2>1 DEF Read
    <3>2. PICK gone \in SUBSET Asked(keys) :
              ReadMany(keys, FALSE, gone) /\ read' = Found(keys, gone)
      BY <3>1
    <3>3. Fits(Found(keys, gone))
      BY <3>2, FoundFits DEF CacheInv
    <3> QED BY <3>2, <3>3 DEF ReadOK
  <2>2. CASE InvalidateMatching \/ Prune \/ Tick
    BY <2>2, ReadKept DEF InvalidateMatching, Prune, Tick, Rest, CacheInv
  <2> QED BY <2>1, <2>2
<1>4. CallsOK'
  <2>1. now' \in 0..MaxTime
    <3>1. CASE now' = now
      BY <3>1 DEF CacheInv, CallsOK
    <3>2. CASE Tick
      BY <3>2, PublicationAssumption DEF Tick, CacheInv, CallsOK
    <3> QED BY <3>1, <3>2 DEF Read, InvalidateMatching, Prune, Rest
  <2> QED BY <1>1, <2>1, CallsKept DEF CacheInv
<1>5. LocksOK' /\ DataOK'
  BY <1>1, LocksKept, DataKept DEF CacheInv
<1>6. LegacyOK' /\ MayReplace
  BY <1>1, <1>2, DropsKeepLegacy DEF CacheInv
<1> QED BY <1>2, <1>3, <1>4, <1>5, <1>6 DEF CacheInv

\* The cache starts empty, and no call has begun.
LEMMA CacheInitEstablishes == CacheInit => CacheInv
<1> SUFFICES ASSUME CacheInit PROVE CacheInv
  OBVIOUS
<1>1. Cached = {}
  BY DEF CacheInit, Cached
<1>2. CacheOK
  BY <1>1, FS_EmptySet, CacheAssumption DEF CacheInit, CacheOK, IsOrderOf
<1>3. CallsOK /\ LocksOK /\ LegacyOK
  BY PublicationAssumption DEF CacheInit, CallsOK, LocksOK, LegacyOK, Phases
<1>4. ReadOK
  BY DEF CacheInit, ReadOK, Fits
<1>5. DataOK
  BY DEF CacheInit, DataOK, AreCandidates, AreStatuses, IsAnswer
<1> QED BY <1>2, <1>3, <1>4, <1>5 DEF CacheInv

\* Every step keeps the invariant and replaces only what may be replaced.
LEMMA CacheStep ==
    ASSUME CacheInv, CacheNext
    PROVE  CacheInv' /\ MayReplace
<1>1. CASE \E c \in Calls : Begin(c) \/ SourceReturns(c) \/ Step(c) \/ Cancel(c)
  <2>1. PICK c \in Calls : Begin(c) \/ SourceReturns(c) \/ Step(c) \/ Cancel(c)
    BY <1>1
  <2>2. CASE Step(c)
    BY <2>2, LockKeeps, EndingsKeep, ReadExistingKeeps, PrepareMoreKeeps, CommitBatchKeeps,
       LegacyWriteKeeps DEF Step
  <2> QED BY <2>1, <2>2, BeginKeeps, SourceReturnsKeeps, EndingsKeep
<1>2. CASE Read \/ InvalidateMatching \/ Prune \/ Tick
  BY <1>2, OthersKeepCache
<1> QED BY <1>1, <1>2 DEF CacheNext

LEMMA CacheStutter ==
    ASSUME CacheInv, UNCHANGED cacheVars
    PROVE  CacheInv'
<1>1. /\ entries' = entries /\ older' = older /\ now' = now /\ deployed' = deployed
      /\ phase' = phase /\ held' = held /\ read' = read /\ found' = found /\ DataStays
  BY DEF cacheVars, DataStays
<1>2. CacheOK' /\ OnlyDrops /\ ReadOK' /\ LocksOK' /\ CallsOK' /\ DataOK'
  BY <1>1, CacheKept, ReadKept, LocksKept, CallsKept, DataKept DEF CacheInv, CallsOK
<1>3. LegacyOK'
  BY <1>1, <1>2, DropsKeepLegacy DEF CacheInv
<1> QED BY <1>2, <1>3 DEF CacheInv

-----------------------------------------------------------------------------
\* The theorems.

\* The invariant holds throughout: the cache is within its limit and in one order, stripes are
\* held by one call each, and what a publisher without the conditional write read under its
\* locks is what is there.
THEOREM CacheInvariance == CacheSpec => []CacheInv
<1>1. CacheInv /\ [CacheNext]_cacheVars => CacheInv'
  BY CacheStep, CacheStutter
<1> QED BY <1>1, CacheInitEstablishes, PTL DEF CacheSpec

\* What one read returns is consistent, whatever is published, evicted or invalidated, and the
\* entries never exceed max_entries (get_many, set_many_if_newer).
THEOREM ReadsStayConsistent == CacheSpec => []ReadsAreConsistent
<1>1. CacheInv => ReadsAreConsistent
  BY DEF CacheInv, CacheOK, CallsOK, LocksOK, DataOK, ReadOK, ReadsAreConsistent, CacheTypeOK,
         Phases, Fits, IsAnswer, AreCandidates, AreStatuses
<1> QED BY <1>1, CacheInvariance, PTL

\* No entry is replaced by one of lower authority, or of the same authority and an older
\* observation, without force=True (set_many_if_newer, and publish_many over a cache without it).
THEOREM AuthorityNeverRegresses == CacheSpec => NoRegression
<1>1. CacheInv /\ [CacheNext]_cacheVars =>
          [\A k \in Cached \cap Cached' :
              \/ entries'[k] = entries[k]
              \/ Precedes(entries[k], entries'[k])
              \/ entries'[k].version \in Forced]_cacheVars
  BY CacheStep DEF MayReplace
<1> QED BY <1>1, CacheInvariance, PTL DEF CacheSpec, NoRegression

\* A call that waits for stripes waits for a least one.
LEMMA WaitsForOne ==
    ASSUME NEW c \in Calls, ~(StripesOf(c) \subseteq held[c])
    PROVE  \E s \in NextStripe(c) : s \in 1..Stripes
<1> DEFINE W == StripesOf(c) \ held[c]
<1>1. W # {} /\ W \subseteq 1..Stripes
  BY KeysFinite, PublicationAssumption DEF StripesOf
<1>2. W \subseteq Nat
  BY <1>1, PublicationAssumption
<1>3. PICK s \in W : \A t \in W : s <= t
  <2> HIDE DEF W
  <2> QED BY <1>1, <1>2, LeastNumber
<1> QED BY <1>1, <1>3 DEF NextStripe

\* The stripes never deadlock: of the calls that wait, the one that waits for the greatest
\* stripe waits for a call that does not (_locked_keys takes stripes in ascending order).
LEMMA SomeCallGoesOn == CacheInv => StripesNeverDeadlock
<1> SUFFICES ASSUME CacheInv, NEW b \in Calls, phase[b] = "lock"
             PROVE  \E c \in Calls :
                        \/ held[c] # {} /\ phase[c] \in {"copy", "write", "report"}
                        \/ Locked(c)
                        \/ phase[c] = "lock" /\ \E s \in NextStripe(c) : \A d \in Calls : s \notin held[d]
  BY DEF StripesNeverDeadlock
<1> DEFINE Waiting == {c \in Calls : phase[c] = "lock"}
           Awaited == {s \in 1..Stripes : \E c \in Waiting : s \in NextStripe(c)}
<1>1. CASE \E c \in Waiting : StripesOf(c) \subseteq held[c]
  BY <1>1 DEF Locked
<1>2. CASE \A c \in Waiting : ~(StripesOf(c) \subseteq held[c])
  <2>1. Awaited # {}
    BY <1>2, WaitsForOne
  <2>2. PICK s \in Awaited : \A t \in Awaited : t <= s
    <3>1. Stripes \in Nat /\ Awaited \subseteq 0..Stripes
      BY PublicationAssumption
    <3> HIDE DEF Awaited
    <3> QED BY <2>1, <3>1, GreatestNumber
  <2>3. PICK c \in Waiting : s \in NextStripe(c)
    BY <2>2
  <2>4. CASE \A d \in Calls : s \notin held[d]
    BY <2>3, <2>4
  <2>5. CASE \E d \in Calls : s \in held[d]
    <3>1. PICK d \in Calls : s \in held[d]
      BY <2>5
    <3>2. CASE phase[d] \in {"copy", "write", "report"}
      BY <3>1, <3>2
    <3>3. CASE phase[d] = "lock"
      <4>1. PICK t \in NextStripe(d) : t \in 1..Stripes
        BY <1>2, <3>3, WaitsForOne
      <4>2. t \in Awaited
        BY <3>3, <4>1
      <4>3. s < t
        BY <3>1, <3>3, <4>1 DEF NextStripe, CacheInv, LocksOK
      <4>4. t <= s /\ s \in Int /\ t \in Int
        BY <2>2, <4>1, <4>2, PublicationAssumption
      <4> QED BY <4>3, <4>4
    <3>4. phase[d] \in {"lock", "copy", "write", "report"}
      BY <3>1 DEF CacheInv, LocksOK
    <3> QED BY <3>2, <3>3, <3>4
  <2> QED BY <2>4, <2>5
<1> QED BY <1>1, <1>2

\* The stripes of ResourcePublisher never leave everybody waiting: they are taken in one order.
THEOREM StripesStayLive == CacheSpec => []StripesNeverDeadlock
BY SomeCallGoesOn, CacheInvariance, PTL
=============================================================================
