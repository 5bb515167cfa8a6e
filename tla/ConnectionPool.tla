--------------------------- MODULE ConnectionPool ---------------------------
(***************************************************************************)
(* The connection pool of core/connection_pool.cpp: threads that acquire    *)
(* and release connections under a bound, waiting on a condition variable   *)
(* when the bound is reached.                                               *)
(*                                                                         *)
(* idle_queue_ is never given a key: acquire looks its server up with find  *)
(* and release pushes only into queues that exist. Every loop over it sees  *)
(* an empty map, so that a released connection is always dropped and the    *)
(* loop of acquire over idle connections is never entered; the map has no   *)
(* variable here.                                                           *)
(***************************************************************************)
EXTENDS Naturals, FiniteSets

CONSTANTS PoolThreads, MaxSize

ASSUME PoolAssumption == IsFiniteSet(PoolThreads) /\ "none" \notin PoolThreads /\ MaxSize \in Nat \ {0}

VARIABLES
    active_,    \* the counter of connections given out
    mutex_,     \* who holds the mutex, or "none"
    ppc,        \* ppc[t]: where thread t is
    waiting,    \* the threads asleep on cv_
    sound,      \* every connection can be made and stays alive
    api,        \* "cpp": shared_ptr callers; "c": callers of acquire_connection
    leaked      \* connections acquire_connection closed as it returned

poolVars == <<active_, mutex_, ppc, waiting, sound, api, leaked>>
poolSetup == <<sound, api>>

PoolInit ==
    /\ active_ = 0 /\ mutex_ = "none" /\ waiting = {} /\ leaked = 0
    /\ ppc = [t \in PoolThreads |-> "out"]
    /\ sound \in BOOLEAN /\ api \in {"cpp", "c"}

PGoto(t, l) == ppc' = [ppc EXCEPT ![t] = l]

\* acquire under the mutex: the check of the bound, which is also what a woken
\* waiter does, and the increment. With no slot the thread goes to sleep still
\* holding the mutex.
acquire(t) ==
    /\ ppc[t] \in {"out", "woken"} /\ mutex_ = "none"
    /\ IF active_ < MaxSize
         THEN active_' = active_ + 1 /\ PGoto(t, "create") /\ UNCHANGED mutex_
         ELSE mutex_' = t /\ PGoto(t, "sleep") /\ UNCHANGED active_
    /\ UNCHANGED <<waiting, poolSetup, leaked>>

\* cv_.wait releases the mutex and sleeps in one step.
Sleep(t) ==
    /\ ppc[t] = "sleep"
    /\ mutex_' = "none" /\ waiting' = waiting \cup {t}
    /\ PGoto(t, "waiting")
    /\ UNCHANGED <<active_, poolSetup, leaked>>

\* A wake-up nobody asked for, which the standard allows.
Spurious(t) ==
    /\ t \in waiting
    /\ waiting' = waiting \ {t} /\ PGoto(t, "woken")
    /\ UNCHANGED <<active_, mutex_, poolSetup, leaked>>

\* create_connection, outside the lock: socket and connect may fail, and then
\* the slot is given back. acquire_connection returns the descriptor of a
\* shared_ptr that dies with its frame: the connection is closed, and no one is
\* left to release it.
create_connection(t) ==
    /\ ppc[t] = "create"
    /\ \/ /\ PGoto(t, IF api = "c" THEN "out" ELSE "holds")
          /\ leaked' = IF api = "c" THEN leaked + 1 ELSE leaked
          /\ UNCHANGED active_
       \/ /\ ~sound /\ active_' = active_ - 1 /\ PGoto(t, "notify")
          /\ UNCHANGED leaked
    /\ UNCHANGED <<mutex_, waiting, poolSetup>>

\* release: the decrement, without the mutex, and is_alive. A dead connection
\* goes on to notify at once, a live one takes the mutex first.
release(t) ==
    /\ ppc[t] = "holds"
    /\ active_' = active_ - 1
    /\ \/ PGoto(t, "lock")
       \/ ~sound /\ PGoto(t, "notify")
    /\ UNCHANGED <<mutex_, waiting, poolSetup, leaked>>

\* notify_one, and t is out of the pool.
NotifyOne(t) ==
    IF waiting = {}
      THEN PGoto(t, "out") /\ UNCHANGED waiting
      ELSE \E w \in waiting : /\ waiting' = waiting \ {w}
                              /\ ppc' = [ppc EXCEPT ![t] = "out", ![w] = "woken"]

NotifyUnlocked(t) ==
    /\ ppc[t] = "notify" /\ NotifyOne(t)
    /\ UNCHANGED <<active_, mutex_, poolSetup, leaked>>

\* Mutant: release notifies without waiting for the mutex.
NotifyEarly(t) ==
    /\ ppc[t] = "lock" /\ NotifyOne(t)
    /\ UNCHANGED <<active_, mutex_, poolSetup, leaked>>

\* The end of release for a live connection, under the mutex: no queue to push
\* it into, so it is dropped.
NotifyLocked(t) ==
    /\ ppc[t] = "lock" /\ mutex_ = "none" /\ NotifyOne(t)
    /\ UNCHANGED <<active_, mutex_, poolSetup, leaked>>

\* cleanup_idle, under the mutex: no idle connection to drop, and notify_all.
cleanup_idle ==
    /\ mutex_ = "none" /\ waiting # {}
    /\ waiting' = {}
    /\ ppc' = [t \in PoolThreads |-> IF t \in waiting THEN "woken" ELSE ppc[t]]
    /\ UNCHANGED <<active_, mutex_, poolSetup, leaked>>

PoolNext ==
    \/ \E t \in PoolThreads :
         \/ acquire(t) \/ Sleep(t) \/ Spurious(t) \/ create_connection(t)
         \/ release(t) \/ NotifyUnlocked(t) \/ NotifyLocked(t)
    \/ cleanup_idle

PoolSpec == PoolInit /\ [][PoolNext]_poolVars

\* The threads with a connection of their own, and those that will notify or
\* look at the bound again.
Busy == {t \in PoolThreads : ppc[t] \in {"create", "holds"}}
Awake == {t \in PoolThreads : ppc[t] \in {"lock", "notify", "woken"}}

-----------------------------------------------------------------------------
PoolTypeOK ==
    /\ active_ \in 0..MaxSize /\ leaked \in 0..MaxSize
    /\ mutex_ \in PoolThreads \cup {"none"} /\ waiting \subseteq PoolThreads
    /\ ppc \in [PoolThreads -> {"out", "sleep", "waiting", "woken", "create", "holds",
                                "lock", "notify"}]
    /\ sound \in BOOLEAN /\ api \in {"cpp", "c"}

\* The counter is exact: active_ is the number of connections that are being
\* made, are held, or were lost by acquire_connection. It is changed outside the
\* mutex on three paths and still never drifts.
PoolExact == active_ = leaked + Cardinality(Busy)

\* No lost wake-up while connections can be made and stay alive: for each free
\* slot that a sleeping thread could have, a notify is still to come or another
\* thread is awake and about to look. (Where a dead connection or a failed
\* connect notifies without the mutex, the wake-up can be lost.)
NoLostWakeup ==
    sound /\ waiting # {} => MaxSize - active_ <= Cardinality(Awake)
=============================================================================
