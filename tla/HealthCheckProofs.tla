--------------------------- MODULE HealthCheckProofs ---------------------------
(***************************************************************************)
(* What DOWN means, for any number of backends and any threshold.          *)
(*                                                                         *)
(* The workers and the thread share failed_conns.  The thread's failed     *)
(* checks (streak) are a lower bound of it and all failures since the last *)
(* success (blame) an upper bound, except while a success has moved the    *)
(* state and has not yet cleared the counter; the thread alone moves the   *)
(* state, with a local copy of the counter that these bounds hold for too. *)
(***************************************************************************)
EXTENDS HealthCheck, TLAPS

\* The counter is not below the failed checks, nor is the thread's copy.
LowerInv ==
    /\ \A b \in Backends : state[b] = "DOWN" \/ streak[b] <= failed_conns[b]
    /\ hpc = "reset" => streak[at] = 0
    /\ hpc = "judge" => state[at] = "DOWN" \/ streak[at] <= fails

\* The counter is not above the failures, nor is the thread's copy.
UpperInv ==
    /\ \A b \in Backends : failed_conns[b] <= blame[b] \/ (hpc = "reset" /\ at = b)
    /\ hpc = "judge" => fails <= blame[at]

IInv == TypeOK /\ LowerInv /\ UpperInv /\ DownAfterThreshold /\ DownForCause

(* Counting one more stays within the bound and preserves order.           *)
LEMMA BumpFacts ==
    ASSUME NEW m \in 0 .. MaxCount, NEW n \in 0 .. MaxCount
    PROVE  /\ Bump(m) \in 0 .. MaxCount
           /\ m <= Bump(m)
           /\ m <= n => Bump(m) <= Bump(n)
BY HealthAssumption DEF Bump

(* Moving on ends the check of a backend.                                  *)
LEMMA NextBackendFacts ==
    ASSUME TypeOK, NextBackend
    PROVE  hpc' \in {"check", "sleep"} /\ at' \in Backends
BY HealthAssumption DEF TypeOK, NextBackend, Backends

(* The invariant holds when the threads are started.                       *)
LEMMA InvInit == Init => IInv
BY HealthAssumption
   DEF Init, IInv, TypeOK, LowerInv, UpperInv, DownAfterThreshold, DownForCause, Backends

(* Every step of the thread and of the workers preserves it.               *)
LEMMA InvStep == IInv /\ [Next]_vars => IInv'
<1> SUFFICES ASSUME IInv, [Next]_vars
             PROVE  IInv'
    OBVIOUS
<1> USE HealthAssumption
    DEF IInv, TypeOK, LowerInv, UpperInv, DownAfterThreshold, DownForCause
<1>1. CASE StartRound
  <2>1. 0 \in Backends
      BY HealthAssumption DEF Backends
  <2> QED
      BY <1>1, <2>1 DEF StartRound
<1>2. CASE Skip
    BY <1>2, NextBackendFacts DEF Skip
<1>3. CASE Succeed
    BY <1>3 DEF Succeed
<1>4. CASE FailName
    BY <1>4, NextBackendFacts, BumpFacts DEF FailName
<1>5. CASE Fail
    BY <1>5, BumpFacts DEF Fail
<1>6. CASE ResetFails
    BY <1>6, NextBackendFacts DEF ResetFails
<1>7. CASE Judge
    BY <1>7, NextBackendFacts DEF Judge
<1>8. ASSUME NEW w \in Workers, Select(w) \/ Connected(w)
      PROVE  IInv'
    BY <1>8 DEF Select, Connected
<1>9. ASSUME NEW w \in Workers, Refused(w)
      PROVE  IInv'
    BY <1>9, BumpFacts DEF Refused
<1>10. ASSUME NEW b \in Backends, Change(b)
      PROVE  IInv'
    BY <1>10 DEF Change
<1>11. CASE UNCHANGED vars
    BY <1>11 DEF vars
<1> QED
    BY <1>1, <1>2, <1>3, <1>4, <1>5, <1>6, <1>7, <1>8, <1>9, <1>11, <1>10
       DEF Next, Thread, Probe, Worker

(* A backend whose last Threshold checks failed is DOWN, or about to be    *)
(* marked DOWN (health.c:112-142).                                         *)
THEOREM FailuresMarkDown == Spec => []DownAfterThreshold
<1>1. IInv => DownAfterThreshold
    BY DEF IInv
<1> QED
    BY <1>1, InvInit, InvStep, PTL DEF Spec

(* A backend is DOWN only for a failed name lookup or for Threshold        *)
(* failures since its last successful check (health.c:96-118).             *)
THEOREM DownHasCause == Spec => []DownForCause
<1>1. IInv => DownForCause
    BY DEF IInv
<1> QED
    BY <1>1, InvInit, InvStep, PTL DEF Spec

(* The counters and the thread's state keep their types.                   *)
THEOREM TypeCorrect == Spec => []TypeOK
<1>1. IInv => TypeOK
    BY DEF IInv
<1> QED
    BY <1>1, InvInit, InvStep, PTL DEF Spec

================================================================================
