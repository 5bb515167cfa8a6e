----------------------------- MODULE MCProgress -----------------------------
(***************************************************************************)
(* The two components whose threads must get somewhere: the process that     *)
(* stops and the cache that makes room. They share no state: a behaviour is  *)
(* of one of them, and the other stays as it starts.                         *)
(***************************************************************************)
EXTENDS Cache, Lifecycle

VARIABLE part

CONSTANTS c1, c2

TwoThreads == {c1, c2}

\* One thread that stores and looks up everything, or two that store.
SomeJobs == {[t \in TwoThreads |-> IF t = c1 THEN {"store", "check"} \X Keys ELSE {}],
             [t \in TwoThreads |-> {<<"store", "a">>}]}

Init ==
    /\ part \in {"cache", "life"}
    /\ CacheInit /\ (part = "life" => jobs[c2] = {})
    /\ LifeInit

Next ==
    \/ part = "cache" /\ CacheNext /\ UNCHANGED <<part, lifeVars>>
    \/ part = "life" /\ LifeNext /\ UNCHANGED <<part, cacheVars>>

vars == <<part, cacheVars, lifeVars>>

\* Every thread is scheduled, and system calls return: the threads of the cache,
\* main, the workers and the handlers keep taking their steps. Nobody need ever
\* store a response, and no signal need ever come.
Fairness ==
    /\ \A t \in CacheThreads : WF_vars(part = "cache" /\ CacheStep(t) /\ UNCHANGED <<part, lifeVars>>)
    /\ WF_vars(part = "life" /\ Main /\ UNCHANGED <<part, cacheVars>>)
    /\ \A w \in W : WF_vars(part = "life" /\ WorkerTurn(w) /\ UNCHANGED <<part, cacheVars>>)
    /\ \A h \in Handlers : WF_vars(part = "life" /\ signal_handler(h) /\ UNCHANGED <<part, cacheVars>>)

Spec == Init /\ [][Next]_vars /\ Fairness
=============================================================================
