------------------------ MODULE ConnectionPoolProofs ------------------------
(***************************************************************************)
(* The bound and the counter of the connection pool, and the absence of lost *)
(* wake-ups, for every number of threads and every size of the pool.         *)
(***************************************************************************)
EXTENDS ConnectionPool, FiniteSetTheorems, TLAPS

\* Who holds the mutex between two steps is the thread about to sleep; who sleeps
\* is in waiting; without failures nobody notifies outside the mutex; and the
\* wake-ups are there from the moment a thread decides to sleep.
PoolWait ==
    /\ \A t \in PoolThreads : (ppc[t] = "sleep") <=> (mutex_ = t)
    /\ waiting = {t \in PoolThreads : ppc[t] = "waiting"}
    /\ sound => \A t \in PoolThreads : ppc[t] # "notify"
    /\ sound /\ (waiting # {} \/ mutex_ # "none") => MaxSize - active_ <= Cardinality(Awake)

PoolInv == PoolTypeOK /\ PoolExact /\ PoolWait

\* Counting the threads of a set, one more or one less.
LEMMA CountThreads ==
    ASSUME NEW S \in SUBSET PoolThreads, NEW t \in PoolThreads
    PROVE  /\ Cardinality(S) \in Nat
           /\ t \notin S => Cardinality(S \cup {t}) = Cardinality(S) + 1
           /\ t \in S => Cardinality(S \ {t}) = Cardinality(S) - 1
<1>1. IsFiniteSet(S)
  BY PoolAssumption, FS_Subset
<1> QED
  BY <1>1, FS_CardinalityType, FS_AddElement, FS_RemoveElement

LEMMA PoolInitInv == PoolInit => PoolInv
<1> SUFFICES ASSUME PoolInit PROVE PoolInv
  OBVIOUS
<1>1. Busy = {} /\ waiting = {} /\ mutex_ = "none"
  BY DEF PoolInit, Busy
<1>2. Cardinality(Busy) = 0
  BY <1>1, FS_EmptySet
<1> QED
  BY <1>1, <1>2, PoolAssumption DEF PoolInit, PoolInv, PoolTypeOK, PoolExact, PoolWait

\* A step of one thread t from place a to place b, and how it moves t between
\* the two sets that are counted.
LEMMA MoveSets ==
    ASSUME PoolTypeOK, NEW t \in PoolThreads, NEW b, PGoto(t, b)
    PROVE  /\ Busy' = IF b \in {"create", "holds"} THEN Busy \cup {t} ELSE Busy \ {t}
           /\ Awake' = IF b \in {"lock", "notify", "woken"} THEN Awake \cup {t} ELSE Awake \ {t}
           /\ ppc'[t] = b /\ \A u \in PoolThreads \ {t} : ppc'[u] = ppc[u]
<1>1. ppc'[t] = b /\ \A u \in PoolThreads \ {t} : ppc'[u] = ppc[u]
  BY DEF PoolTypeOK, PGoto
<1> QED
  BY <1>1 DEF Busy, Awake
\* What every step needs of the state it starts in.
LEMMA PoolFacts ==
    ASSUME PoolInv
    PROVE  /\ Busy \in SUBSET PoolThreads /\ Awake \in SUBSET PoolThreads
           /\ Cardinality(Busy) \in Nat /\ Cardinality(Awake) \in Nat
           /\ active_ \in 0..MaxSize /\ leaked \in 0..MaxSize /\ MaxSize \in Nat \ {0}
           /\ active_ = leaked + Cardinality(Busy)
<1>1. Busy \in SUBSET PoolThreads /\ Awake \in SUBSET PoolThreads
  BY DEF Busy, Awake
<1>2. Cardinality(Busy) \in Nat /\ Cardinality(Awake) \in Nat
  BY <1>1, PoolAssumption, FS_Subset, FS_CardinalityType
<1> QED
  BY <1>1, <1>2, PoolAssumption DEF PoolInv, PoolTypeOK, PoolExact

LEMMA AcquireInv ==
    ASSUME PoolInv, NEW t \in PoolThreads, acquire(t)
    PROVE  PoolInv'
<1>1. t \notin Busy /\ mutex_ = "none" /\ t \notin waiting
  BY DEF PoolInv, PoolWait, acquire, Busy
<1>2. CASE active_ < MaxSize
  <2>1. active_' = active_ + 1 /\ PGoto(t, "create") /\ mutex_' = mutex_
        /\ waiting' = waiting /\ sound' = sound /\ api' = api /\ leaked' = leaked
    BY <1>2 DEF acquire, poolSetup
  <2>2. Busy' = Busy \cup {t} /\ Awake' = Awake \ {t} /\ ppc'[t] = "create"
        /\ \A u \in PoolThreads \ {t} : ppc'[u] = ppc[u]
    BY <2>1, MoveSets DEF PoolInv
  <2>3. Cardinality(Busy') = Cardinality(Busy) + 1
    BY <1>1, <2>2, CountThreads, PoolFacts
  <2>4. Cardinality(Awake') \in Nat /\ Cardinality(Awake') >= Cardinality(Awake) - 1
    <3>1. CASE t \notin Awake
      <4>1. Awake' = Awake
        BY <2>2, <3>1
      <4> QED
        BY <4>1, PoolFacts
    <3>2. CASE t \in Awake
      <4>1. Cardinality(Awake') = Cardinality(Awake) - 1 /\ Cardinality(Awake \ {t}) \in Nat
        BY <2>2, <3>2, CountThreads, PoolFacts
      <4> QED
        BY <2>2, <4>1, PoolFacts
    <3> QED
      BY <3>1, <3>2
  <2>5. PoolTypeOK' /\ PoolExact'
    BY <1>2, <2>1, <2>3, PoolFacts DEF PoolInv, PoolTypeOK, PoolExact, PGoto
  <2>6. PoolWait'
    <3>1. sound' /\ (waiting' # {} \/ mutex_' # "none") => MaxSize - active_' <= Cardinality(Awake')
      BY <1>1, <2>1, <2>4, PoolFacts DEF PoolInv, PoolWait
    <3> QED
      BY <1>1, <2>1, <2>2, <3>1, PoolAssumption DEF PoolInv, PoolWait
  <2> QED
    BY <2>5, <2>6 DEF PoolInv
<1>3. CASE ~(active_ < MaxSize)
  <2>1. active_' = active_ /\ PGoto(t, "sleep") /\ mutex_' = t
        /\ waiting' = waiting /\ sound' = sound /\ api' = api /\ leaked' = leaked
    BY <1>3 DEF acquire, poolSetup
  <2>2. Busy' = Busy \ {t} /\ Awake' = Awake \ {t} /\ ppc'[t] = "sleep"
        /\ \A u \in PoolThreads \ {t} : ppc'[u] = ppc[u]
    BY <2>1, MoveSets DEF PoolInv
  <2>3. Busy' = Busy
    BY <1>1, <2>2
  <2>4. Cardinality(Awake') \in Nat
    BY <2>2, CountThreads, PoolFacts
  <2>5. PoolTypeOK' /\ PoolExact'
    BY <2>1, <2>3, PoolFacts DEF PoolInv, PoolTypeOK, PoolExact, PGoto
  <2>6. PoolWait'
    <3>1. MaxSize - active_' <= Cardinality(Awake')
      BY <1>3, <2>1, <2>4, PoolFacts
    <3> QED
      BY <1>1, <2>1, <2>2, <3>1, PoolAssumption DEF PoolInv, PoolWait
  <2> QED
    BY <2>5, <2>6 DEF PoolInv
<1> QED
  BY <1>2, <1>3

LEMMA SleepInv ==
    ASSUME PoolInv, NEW t \in PoolThreads, Sleep(t)
    PROVE  PoolInv'
<1>1. PGoto(t, "waiting") /\ mutex_' = "none" /\ waiting' = waiting \cup {t} /\ ppc[t] = "sleep"
      /\ active_' = active_ /\ sound' = sound /\ api' = api /\ leaked' = leaked
  BY DEF Sleep, poolSetup
<1>2. Busy' = Busy \ {t} /\ Awake' = Awake \ {t} /\ ppc'[t] = "waiting"
      /\ \A u \in PoolThreads \ {t} : ppc'[u] = ppc[u]
  BY <1>1, MoveSets DEF PoolInv
<1>3. Busy' = Busy /\ Awake' = Awake /\ mutex_ = t
  BY <1>1, <1>2 DEF Busy, Awake, PoolInv, PoolWait
<1>4. PoolTypeOK' /\ PoolExact'
  BY <1>1, <1>3, PoolFacts DEF PoolInv, PoolTypeOK, PoolExact, PGoto
<1>5. PoolWait'
  <2>1. sound' => MaxSize - active_' <= Cardinality(Awake')
    BY <1>1, <1>3, PoolAssumption DEF PoolInv, PoolWait
  <2> QED
    BY <1>1, <1>2, <1>3, <2>1, PoolAssumption DEF PoolInv, PoolWait
<1> QED
  BY <1>4, <1>5 DEF PoolInv

LEMMA SpuriousInv ==
    ASSUME PoolInv, NEW t \in PoolThreads, Spurious(t)
    PROVE  PoolInv'
<1>1. PGoto(t, "woken") /\ mutex_' = mutex_ /\ waiting' = waiting \ {t} /\ t \in waiting
      /\ active_' = active_ /\ sound' = sound /\ api' = api /\ leaked' = leaked
  BY DEF Spurious, poolSetup
<1>2. Busy' = Busy \ {t} /\ Awake' = Awake \cup {t} /\ ppc'[t] = "woken" /\ ppc[t] = "waiting"
      /\ \A u \in PoolThreads \ {t} : ppc'[u] = ppc[u]
  BY <1>1, MoveSets DEF PoolInv, PoolWait
<1>3. Busy' = Busy /\ t \notin Awake
  BY <1>2 DEF Busy, Awake
<1>4. Cardinality(Awake') = Cardinality(Awake) + 1
  BY <1>2, <1>3, CountThreads, PoolFacts
<1>5. PoolTypeOK' /\ PoolExact'
  BY <1>1, <1>3, PoolFacts DEF PoolInv, PoolTypeOK, PoolExact, PGoto
<1>6. PoolWait'
  <2>1. sound' /\ (waiting' # {} \/ mutex_' # "none") => MaxSize - active_' <= Cardinality(Awake')
    BY <1>1, <1>4, PoolFacts DEF PoolInv, PoolWait
  <2> QED
    BY <1>1, <1>2, <2>1, PoolAssumption DEF PoolInv, PoolWait
<1> QED
  BY <1>5, <1>6 DEF PoolInv
LEMMA CreateInv ==
    ASSUME PoolInv, NEW t \in PoolThreads, create_connection(t)
    PROVE  PoolInv'
<1>1. mutex_' = mutex_ /\ waiting' = waiting /\ sound' = sound /\ api' = api /\ ppc[t] = "create"
  BY DEF create_connection, poolSetup
<1>2. t \in Busy /\ t \notin Awake
  BY <1>1 DEF Busy, Awake
<1>3. CASE api = "c" /\ PGoto(t, "out") /\ leaked' = leaked + 1 /\ active_' = active_
  <2>1. Busy' = Busy \ {t} /\ Awake' = Awake \ {t} /\ ppc'[t] = "out"
        /\ \A u \in PoolThreads \ {t} : ppc'[u] = ppc[u]
    BY <1>3, MoveSets DEF PoolInv
  <2>2. Cardinality(Busy') = Cardinality(Busy) - 1 /\ Awake' = Awake
        /\ Cardinality(Busy \ {t}) \in Nat
    BY <1>2, <2>1, CountThreads, PoolFacts
  <2>3. Cardinality(Busy') \in Nat
    BY <2>1, <2>2
  <2>4. PoolTypeOK' /\ PoolExact'
    BY <1>1, <1>3, <2>2, <2>3, PoolFacts DEF PoolInv, PoolTypeOK, PoolExact, PGoto
  <2>5. PoolWait'
    BY <1>1, <1>3, <2>1, <2>2, PoolAssumption DEF PoolInv, PoolWait
  <2> QED
    BY <2>4, <2>5 DEF PoolInv
<1>4. CASE api # "c" /\ PGoto(t, "holds") /\ leaked' = leaked /\ active_' = active_
  <2>1. Busy' = Busy \cup {t} /\ Awake' = Awake \ {t} /\ ppc'[t] = "holds"
        /\ \A u \in PoolThreads \ {t} : ppc'[u] = ppc[u]
    BY <1>4, MoveSets DEF PoolInv
  <2>2. Busy' = Busy /\ Awake' = Awake
    BY <1>2, <2>1
  <2>3. PoolTypeOK' /\ PoolExact'
    BY <1>1, <1>4, <2>2, PoolFacts DEF PoolInv, PoolTypeOK, PoolExact, PGoto
  <2>4. PoolWait'
    BY <1>1, <1>4, <2>1, <2>2, PoolAssumption DEF PoolInv, PoolWait
  <2> QED
    BY <2>3, <2>4 DEF PoolInv
<1>5. CASE ~sound /\ PGoto(t, "notify") /\ leaked' = leaked /\ active_' = active_ - 1
  <2>1. Busy' = Busy \ {t} /\ ppc'[t] = "notify" /\ \A u \in PoolThreads \ {t} : ppc'[u] = ppc[u]
    BY <1>5, MoveSets DEF PoolInv
  <2>2. Cardinality(Busy') = Cardinality(Busy) - 1 /\ Cardinality(Busy \ {t}) \in Nat
    BY <1>2, <2>1, CountThreads, PoolFacts
  <2>3. PoolTypeOK' /\ PoolExact'
    <3>1. active_' \in 0..MaxSize
      BY <1>5, <2>1, <2>2, PoolFacts
    <3> QED
      BY <1>1, <1>5, <2>2, <3>1, PoolFacts DEF PoolInv, PoolTypeOK, PoolExact, PGoto
  <2>4. PoolWait'
    BY <1>1, <1>5, <2>1, PoolAssumption DEF PoolInv, PoolWait
  <2> QED
    BY <2>3, <2>4 DEF PoolInv
<1> QED
  BY <1>3, <1>4, <1>5 DEF create_connection

LEMMA ReleaseInv ==
    ASSUME PoolInv, NEW t \in PoolThreads, release(t)
    PROVE  PoolInv'
<1>1. mutex_' = mutex_ /\ waiting' = waiting /\ sound' = sound /\ api' = api /\ leaked' = leaked
      /\ ppc[t] = "holds" /\ active_' = active_ - 1
  BY DEF release, poolSetup
<1>2. t \in Busy /\ t \notin Awake
  BY <1>1 DEF Busy, Awake
<1>3. PICK b \in {"lock", "notify"} : PGoto(t, b) /\ (b = "notify" => ~sound)
  BY DEF release
<1>4. Busy' = Busy \ {t} /\ Awake' = Awake \cup {t} /\ ppc'[t] = b
      /\ \A u \in PoolThreads \ {t} : ppc'[u] = ppc[u]
  BY <1>3, MoveSets DEF PoolInv
<1>5. Cardinality(Busy') = Cardinality(Busy) - 1 /\ Cardinality(Busy \ {t}) \in Nat
      /\ Cardinality(Awake') = Cardinality(Awake) + 1
  BY <1>2, <1>4, CountThreads, PoolFacts
<1>6. active_' \in 0..MaxSize
  BY <1>1, <1>4, <1>5, PoolFacts
<1>7. PoolTypeOK' /\ PoolExact'
  BY <1>1, <1>3, <1>5, <1>6, PoolFacts DEF PoolInv, PoolTypeOK, PoolExact, PGoto
<1>8. PoolWait'
  <2>1. sound' /\ (waiting' # {} \/ mutex_' # "none") => MaxSize - active_' <= Cardinality(Awake')
    BY <1>1, <1>5, PoolFacts DEF PoolInv, PoolWait
  <2> QED
    BY <1>1, <1>3, <1>4, <2>1, PoolAssumption DEF PoolInv, PoolWait
<1> QED
  BY <1>7, <1>8 DEF PoolInv

\* Both forms of notify_one: t leaves, and a sleeper wakes if there is one. Where
\* nothing can fail it is called under the mutex, so that no thread is between
\* its decision to sleep and its sleep.
LEMMA NotifyInv ==
    ASSUME PoolInv, NEW t \in PoolThreads, NotifyOne(t), ppc[t] \in {"lock", "notify"},
           sound => mutex_ = "none",
           UNCHANGED <<active_, mutex_, poolSetup, leaked>>
    PROVE  PoolInv'
<1>1. mutex_' = mutex_ /\ active_' = active_ /\ sound' = sound /\ api' = api /\ leaked' = leaked
  BY DEF poolSetup
<1>2. t \notin Busy /\ t \in Awake /\ t \notin waiting /\ mutex_ # t
  BY DEF Busy, Awake, PoolInv, PoolWait
<1>3. CASE waiting = {}
  <2>1. PGoto(t, "out") /\ waiting' = waiting
    BY <1>3 DEF NotifyOne
  <2>2. Busy' = Busy \ {t} /\ ppc'[t] = "out" /\ \A u \in PoolThreads \ {t} : ppc'[u] = ppc[u]
    BY <2>1, MoveSets DEF PoolInv
  <2>3. Busy' = Busy
    BY <1>2, <2>2
  <2>4. PoolTypeOK' /\ PoolExact'
    BY <1>1, <2>1, <2>3, PoolFacts DEF PoolInv, PoolTypeOK, PoolExact, PGoto
  <2>5. PoolWait'
    BY <1>1, <1>2, <1>3, <2>1, <2>2, PoolAssumption DEF PoolInv, PoolWait
  <2> QED
    BY <2>4, <2>5 DEF PoolInv
<1>4. CASE waiting # {}
  <2>1. PICK w \in waiting : waiting' = waiting \ {w} /\ ppc' = [ppc EXCEPT ![t] = "out", ![w] = "woken"]
    BY <1>4 DEF NotifyOne
  <2>2. w \in PoolThreads /\ ppc[w] = "waiting" /\ w # t /\ w \notin Busy /\ w \notin Awake
    BY <1>2, <2>1 DEF PoolInv, PoolWait, Busy, Awake
  <2>3. ppc'[t] = "out" /\ ppc'[w] = "woken" /\ \A u \in PoolThreads \ {t, w} : ppc'[u] = ppc[u]
    BY <2>1, <2>2 DEF PoolInv, PoolTypeOK
  <2>4. Busy' = Busy /\ Awake' = (Awake \ {t}) \cup {w}
    BY <1>2, <2>2, <2>3 DEF Busy, Awake
  <2>5. Cardinality(Awake') = Cardinality(Awake)
    <3> DEFINE A == Awake \ {t}
    <3>1. A \in SUBSET PoolThreads /\ w \notin A
      BY <2>2, PoolFacts
    <3>2. Cardinality(A) = Cardinality(Awake) - 1
      BY <1>2, CountThreads, PoolFacts
    <3> HIDE DEF A
    <3>3. Cardinality(A \cup {w}) = Cardinality(A) + 1 /\ Cardinality(A) \in Nat
      BY <2>2, <3>1, CountThreads
    <3> QED
      BY <2>4, <3>2, <3>3, PoolFacts DEF A
  <2>6. PoolTypeOK' /\ PoolExact'
    BY <1>1, <2>1, <2>2, <2>4, PoolFacts DEF PoolInv, PoolTypeOK, PoolExact
  <2>7. PoolWait'
    <3>1. sound' /\ (waiting' # {} \/ mutex_' # "none") => MaxSize - active_' <= Cardinality(Awake')
      BY <1>1, <1>4, <2>5 DEF PoolInv, PoolWait
    <3> QED
      BY <1>1, <1>2, <2>1, <2>2, <2>3, <3>1, PoolAssumption DEF PoolInv, PoolWait
  <2> QED
    BY <2>6, <2>7 DEF PoolInv
<1> QED
  BY <1>3, <1>4

LEMMA CleanupInv ==
    ASSUME PoolInv, cleanup_idle
    PROVE  PoolInv'
<1>1. mutex_' = mutex_ /\ active_' = active_ /\ sound' = sound /\ api' = api /\ leaked' = leaked
      /\ mutex_ = "none" /\ waiting' = {}
      /\ ppc' = [t \in PoolThreads |-> IF t \in waiting THEN "woken" ELSE ppc[t]]
  BY DEF cleanup_idle, poolSetup
<1>2. Busy' = Busy
  BY <1>1 DEF Busy, PoolInv, PoolWait
<1>3. PoolTypeOK' /\ PoolExact'
  BY <1>1, <1>2, PoolFacts DEF PoolInv, PoolTypeOK, PoolExact
<1>4. PoolWait'
  BY <1>1, PoolAssumption DEF PoolInv, PoolWait
<1> QED
  BY <1>3, <1>4 DEF PoolInv

LEMMA PoolNextInv == PoolInv /\ [PoolNext]_poolVars => PoolInv'
<1> SUFFICES ASSUME PoolInv, [PoolNext]_poolVars PROVE PoolInv'
  OBVIOUS
<1>1. ASSUME NEW t \in PoolThreads, NotifyUnlocked(t)
      PROVE  PoolInv'
  <2>1. ~sound
    BY <1>1 DEF NotifyUnlocked, PoolInv, PoolWait
  <2> QED
    BY <1>1, <2>1, NotifyInv DEF NotifyUnlocked
<1>2. ASSUME NEW t \in PoolThreads, NotifyLocked(t)
      PROVE  PoolInv'
  BY <1>2, NotifyInv DEF NotifyLocked
<1>3. CASE UNCHANGED poolVars
  <2>1. Busy' = Busy /\ Awake' = Awake
    BY <1>3 DEF poolVars, Busy, Awake
  <2> QED
    BY <1>3, <2>1 DEF poolVars, PoolInv, PoolTypeOK, PoolExact, PoolWait
<1> QED
  BY <1>1, <1>2, <1>3, AcquireInv, SleepInv, SpuriousInv, CreateInv, ReleaseInv, CleanupInv
  DEF PoolNext

LEMMA PoolInvariant == PoolSpec => []PoolInv
  BY PoolInitInv, PoolNextInv, PTL DEF PoolSpec

\* The pool gives out no more than MaxSize connections and its counter never
\* drifts, although acquire, create_connection and release change it on paths
\* inside and outside the mutex.
THEOREM CounterExact == PoolSpec => [](PoolTypeOK /\ PoolExact)
<1>1. PoolInv => PoolTypeOK /\ PoolExact
  BY DEF PoolInv
<1> QED
  BY <1>1, PoolInvariant, PTL

\* While connections can be made and stay alive, no thread sleeps on cv_ beside a
\* free slot for which no wake-up is on its way.
THEOREM WakeupsKept == PoolSpec => []NoLostWakeup
<1>1. PoolInv => NoLostWakeup
  BY DEF PoolInv, PoolWait, NoLostWakeup
<1> QED
  BY <1>1, PoolInvariant, PTL
=============================================================================
