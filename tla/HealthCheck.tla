----------------------------- MODULE HealthCheck -----------------------------
(***************************************************************************)
(* The health of the backends: health_check_thread of src/health/health.c  *)
(* and the workers that count failed connects in the same counter.         *)
(*                                                                         *)
(* The thread goes through the backends one after the other, sends a       *)
(* request to each and moves the backend's state; every store and          *)
(* fetch_add on a backend is a step of its own, because the workers use    *)
(* failed_conns at the same time.  Whether a backend would answer is the   *)
(* environment's choice.  failed_conns is compared with the threshold and  *)
(* nothing else, so counting stops at MaxCount.                            *)
(***************************************************************************)
EXTENDS Integers

CONSTANTS
    Workers,
    None,                   \* NULL
    N,                      \* lb->backend_count
    Threshold,              \* config.health_check_fail_threshold
    health_check_enabled,   \* config.health_check_enabled
    Faults,                 \* what can be wrong with a backend
    MaxCount                \* where the counters stop

Backends == 0 .. N - 1

ASSUME HealthAssumption ==
    /\ N \in Nat \ {0}
    /\ None \notin Backends
    /\ Threshold \in Nat \ {0}
    /\ health_check_enabled \in BOOLEAN
    /\ Faults \subseteq {"broken", "noname"}
    /\ MaxCount \in Nat /\ MaxCount >= Threshold

VARIABLES
    health,        \* "ok", or why a request to the backend fails
    state,         \* backend->state
    failed_conns,  \* backend->failed_conns
    hpc,           \* where the thread is
    at,            \* the backend it is checking
    fails,         \* the local variable of that name
    dialling,      \* the backend each worker has selected and connects to
    streak,        \* history: failed checks since the last successful one
    blame          \* history: those and the failed connects since then

vars == <<health, state, failed_conns, hpc, at, fails, dialling, streak, blame>>

TypeOK ==
    /\ health \in [Backends -> {"ok"} \cup Faults]
    /\ state \in [Backends -> {"UP", "DOWN"}]
    /\ failed_conns \in [Backends -> 0 .. MaxCount]
    /\ hpc \in {"sleep", "check", "reset", "judge"}
    /\ at \in Backends
    /\ fails \in 0 .. MaxCount
    /\ dialling \in [Workers -> Backends \cup {None}]
    /\ streak \in [Backends -> 0 .. MaxCount]
    /\ blame \in [Backends -> 0 .. MaxCount]

\* main_lb_start marks every backend UP before it starts the threads.
Init ==
    /\ health \in [Backends -> {"ok"} \cup Faults]
    /\ state = [b \in Backends |-> "UP"]
    /\ failed_conns = [b \in Backends |-> 0]
    /\ hpc = "sleep"
    /\ at = 0
    /\ fails = 0
    /\ dialling = [w \in Workers |-> None]
    /\ streak = [b \in Backends |-> 0]
    /\ blame = [b \in Backends |-> 0]

Bump(n) == IF n < MaxCount THEN n + 1 ELSE n

-----------------------------------------------------------------------------
(* The thread.                                                             *)

\* The interval between two rounds is over.
StartRound ==
    /\ hpc = "sleep"
    /\ health_check_enabled
    /\ hpc' = "check"
    /\ at' = 0
    /\ UNCHANGED <<health, state, failed_conns, fails, dialling, streak, blame>>

\* On to the next backend, or to sleep.
NextBackend ==
    IF at < N - 1
    THEN hpc' = "check" /\ at' = at + 1
    ELSE hpc' = "sleep" /\ UNCHANGED at

\* socket() fails: the backend is skipped in this round.
Skip ==
    /\ hpc = "check"
    /\ NextBackend
    /\ UNCHANGED <<health, state, failed_conns, fails, dialling, streak, blame>>

\* Mutant: a backend that is DOWN stays DOWN.
SucceedUnlessDown ==
    /\ hpc = "check"
    /\ health[at] = "ok"
    /\ state[at] = "UP"
    /\ streak' = [streak EXCEPT ![at] = 0]
    /\ blame' = [blame EXCEPT ![at] = 0]
    /\ hpc' = "reset"
    /\ UNCHANGED <<health, state, failed_conns, at, fails, dialling>>

\* The backend answers with one of the accepted status codes.
Succeed ==
    /\ hpc = "check"
    /\ health[at] = "ok"
    /\ state' = [state EXCEPT ![at] = "UP"]
    /\ streak' = [streak EXCEPT ![at] = 0]
    /\ blame' = [blame EXCEPT ![at] = 0]
    /\ hpc' = "reset"
    /\ UNCHANGED <<health, failed_conns, at, fails, dialling>>

\* Mutant: a successful check does not clear the failures.
ResetNothing ==
    /\ hpc = "reset"
    /\ NextBackend
    /\ UNCHANGED <<health, state, failed_conns, fails, dialling, streak, blame>>

ResetFails ==
    /\ hpc = "reset"
    /\ failed_conns' = [failed_conns EXCEPT ![at] = 0]
    /\ NextBackend
    /\ UNCHANGED <<health, state, fails, dialling, streak, blame>>

\* Its name cannot be resolved.
FailName ==
    /\ hpc = "check"
    /\ health[at] = "noname"
    /\ state' = [state EXCEPT ![at] = "DOWN"]
    /\ streak' = [streak EXCEPT ![at] = Bump(@)]
    /\ blame' = [blame EXCEPT ![at] = MaxCount]
    /\ NextBackend
    /\ UNCHANGED <<health, failed_conns, fails, dialling>>

\* It cannot be connected to, does not answer within the timeouts, or
\* answers with another status.
Fail ==
    /\ hpc = "check"
    /\ health[at] = "broken"
    /\ failed_conns' = [failed_conns EXCEPT ![at] = Bump(@)]
    /\ fails' = Bump(failed_conns[at])
    /\ streak' = [streak EXCEPT ![at] = Bump(@)]
    /\ blame' = [blame EXCEPT ![at] = Bump(@)]
    /\ hpc' = "judge"
    /\ UNCHANGED <<health, state, at, dialling>>

\* Mutant: one failure too many is let pass.
JudgeLate ==
    /\ hpc = "judge"
    /\ state' = [state EXCEPT ![at] = IF fails > Threshold THEN "DOWN" ELSE @]
    /\ NextBackend
    /\ UNCHANGED <<health, failed_conns, fails, dialling, streak, blame>>

Judge ==
    /\ hpc = "judge"
    /\ state' = [state EXCEPT ![at] = IF fails >= Threshold THEN "DOWN" ELSE @]
    /\ NextBackend
    /\ UNCHANGED <<health, failed_conns, fails, dialling, streak, blame>>

Probe == Succeed \/ FailName \/ Fail

Thread == StartRound \/ Skip \/ Probe \/ ResetFails \/ Judge

-----------------------------------------------------------------------------
(* The workers, and the backends themselves.                               *)

\* lb_select_backend returns a backend that it finds UP.
Select(w) ==
    /\ dialling[w] = None
    /\ \E b \in Backends : state[b] = "UP" /\ dialling' = [dialling EXCEPT ![w] = b]
    /\ UNCHANGED <<health, state, failed_conns, hpc, at, fails, streak, blame>>

\* lb_net_connect_to_backend fails at once, and the worker counts that ...
Refused(w) ==
    /\ dialling[w] # None
    /\ dialling' = [dialling EXCEPT ![w] = None]
    /\ failed_conns' = [failed_conns EXCEPT ![dialling[w]] = Bump(@)]
    /\ blame' = [blame EXCEPT ![dialling[w]] = Bump(@)]
    /\ UNCHANGED <<health, state, hpc, at, fails, streak>>

\* ... or it does not.
Connected(w) ==
    /\ dialling[w] # None
    /\ dialling' = [dialling EXCEPT ![w] = None]
    /\ UNCHANGED <<health, state, failed_conns, hpc, at, fails, streak, blame>>

Worker(w) == Select(w) \/ Refused(w) \/ Connected(w)

\* A backend breaks or recovers.
Change(b) ==
    /\ \E h \in ({"ok"} \cup Faults) \ {health[b]} : health' = [health EXCEPT ![b] = h]
    /\ UNCHANGED <<state, failed_conns, hpc, at, fails, dialling, streak, blame>>

Next ==
    \/ Thread
    \/ \E w \in Workers : Worker(w)
    \/ \E b \in Backends : Change(b)

Spec == Init /\ [][Next]_vars

\* The thread keeps running, and socket() does not fail for ever for one of
\* the backends.
Fairness ==
    /\ WF_vars(Thread)
    /\ \A b \in Backends : SF_vars(at = b /\ Probe)

FairSpec == Spec /\ Fairness

-----------------------------------------------------------------------------
(* Properties.                                                             *)

(* A backend whose last Threshold checks failed is DOWN (health.c:112-142), *)
(* whatever the workers did to failed_conns meanwhile; the thread may be   *)
(* about to say so.                                                        *)
DownAfterThreshold ==
    \A b \in Backends :
        streak[b] >= Threshold => state[b] = "DOWN" \/ (hpc = "judge" /\ at = b)

(* A backend is DOWN only for failures since its last successful check:    *)
(* Threshold of them, failed connects of the workers included, or one      *)
(* failed name lookup (which blame counts as enough).  The success clears  *)
(* state and failed_conns in two steps, with the workers in between.       *)
DownForCause ==
    \A b \in Backends : state[b] = "DOWN" => blame[b] >= Threshold

(* README.md:200 "After N consecutive failures, marks backend as DOWN": a  *)
(* backend is not marked DOWN before that many checks have failed.  The    *)
(* code does not keep this: the failed connects of workers count as well,  *)
(* and a failed name lookup counts as enough.                              *)
DownOnlyAfterThreshold ==
    \A b \in Backends : state[b] = "DOWN" => streak[b] >= Threshold

(* A backend that stays broken ends up DOWN and one that stays healthy     *)
(* ends up UP, for good: the failures that workers count do not keep the   *)
(* thread from agreeing with the backend in the end.                       *)
StateFollowsHealth ==
    health_check_enabled =>
        \A b \in Backends :
            /\ <>[](health[b] # "ok") => <>[](state[b] = "DOWN")
            /\ <>[](health[b] = "ok") => <>[](state[b] = "UP")

==============================================================================
