------------------------------- MODULE Failover -------------------------------
(***************************************************************************)
(* Round robin and the health checks together: the workers select by the   *)
(* states that the health thread writes, and the health thread counts the  *)
(* connects that fail to the backends the workers selected.                *)
(*                                                                         *)
(* A worker that has selected a backend (pc = "done" in RoundRobin) is the *)
(* worker that connects to it in HealthCheck, so dialling is not a         *)
(* variable of its own; each component's steps are the environment's steps *)
(* of the other one.                                                       *)
(***************************************************************************)
EXTENDS Integers, FiniteSets

CONSTANTS Workers, None, N, IdxModulus, Threshold, health_check_enabled, Faults, MaxCount

VARIABLES
    state,
    round_robin_idx, pc, attempts, idx, result, steady, alone, lasting, picks,
    health, failed_conns, hpc, at, fails, streak, blame

dialling == [w \in Workers |-> IF pc[w] = "done" THEN result[w] ELSE None]

R == INSTANCE RoundRobin
H == INSTANCE HealthCheck

selectVars == <<round_robin_idx, pc, attempts, idx, result, steady, alone, lasting, picks>>
healthVars == <<health, failed_conns, hpc, at, fails, streak, blame>>
vars == <<state, selectVars, healthVars>>

TypeOK == R!TypeOK /\ H!TypeOK

Init == R!Init /\ H!Init

\* A step of a worker: selecting, or connecting to what was selected.
WorkerStep(w) ==
    /\ R!Select(w)
    /\ H!Worker(w) \/ UNCHANGED <<healthVars, dialling>>

\* A step of the health thread, which may store the state of a backend.
ThreadStep ==
    /\ \E s \in {"UP", "DOWN"} : R!SetState(at, s)
    /\ H!Thread

BackendStep ==
    /\ UNCHANGED selectVars
    /\ \E b \in H!Backends : H!Change(b)

Next ==
    \/ \E w \in Workers : WorkerStep(w)
    \/ ThreadStep
    \/ BackendStep

Spec == Init /\ [][Next]_vars

\* The workers and the thread keep running; socket() does not fail for ever.
Fairness ==
    /\ \A w \in Workers : WF_vars(WorkerStep(w))
    /\ WF_vars(ThreadStep)
    /\ \A b \in H!Backends : SF_vars(at = b /\ ThreadStep /\ H!Probe)

FairSpec == Spec /\ Fairness

-----------------------------------------------------------------------------
(* Properties.                                                             *)

(* Failover (README.md:78 "Failed backends are automatically removed from  *)
(* rotation"): a backend that breaks for good is eventually never selected *)
(* again, although its failed connects are counted all the time.           *)
BrokenAvoided ==
    \A b \in H!Backends :
        <>[](health[b] # "ok") => <>[](\A w \in Workers : dialling[w] # b)

(* While one backend stays healthy, from some time on every selection that *)
(* draws its indices undisturbed succeeds, whatever the other backends do. *)
(* With one worker that is every selection. With more, one whose turns     *)
(* another worker takes can find none, again and again (lb_core.c:166).    *)
HealthyServes ==
    (\E b \in H!Backends : <>[](health[b] = "ok"))
        => <>[](\A w \in Workers : pc[w] = "done" /\ alone[w] => result[w] # None)

(* A backend that has recovered for good, or never broke, is selected      *)
(* again and again while clients keep coming (health.c:101): the checks    *)
(* take it back and the counter passes it, whatever the others do.         *)
HealthyUsed ==
    \A b \in H!Backends :
        <>[](health[b] = "ok") => []<>(\E w \in Workers : dialling[w] = b)

===============================================================================
