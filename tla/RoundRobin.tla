------------------------------ MODULE RoundRobin ------------------------------
(***************************************************************************)
(* The default algorithm: the LB_ALGO_ROUNDROBIN case of lb_select_backend *)
(* in src/core/lb_core.c.                                                  *)
(*                                                                         *)
(* The workers share one counter, which each of them advances with         *)
(* fetch_add up to backend_count times per selection, while the health     *)
(* thread moves the states of the backends.  The fetch_add and the load of *)
(* the state are steps of their own.                                       *)
(***************************************************************************)
EXTENDS Integers, FiniteSets

CONSTANTS
    Workers,
    N,            \* lb->backend_count
    IdxModulus,   \* 2^32, the range of round_robin_idx
    None          \* NULL

Backends == 0 .. N - 1

ASSUME RoundRobinAssumption ==
    /\ N \in Nat \ {0}
    /\ IdxModulus \in Nat \ {0}
    /\ None \notin Backends

VARIABLES
    state,            \* backend->state
    round_robin_idx,  \* lb->round_robin_idx
    pc,               \* where each worker is
    attempts,         \* the local variables of lb_select_backend
    idx,
    result,           \* what it returns
    steady,           \* history: the backends UP since the selection began
    alone,            \* history: no other worker has drawn an index since then
    lasting,          \* history: the backends UP since the start
    picks             \* history: how often each of the latter was selected,
                      \* less the least of these numbers

vars == <<state, round_robin_idx, pc, attempts, idx, result, steady, alone, lasting, picks>>

TypeOK ==
    /\ state \in [Backends -> {"UP", "DOWN"}]
    /\ round_robin_idx \in 0 .. IdxModulus - 1
    /\ pc \in [Workers -> {"idle", "loop", "load", "done"}]
    /\ attempts \in [Workers -> 0 .. N]
    /\ idx \in [Workers -> Backends]
    /\ result \in [Workers -> Backends \cup {None}]
    /\ steady \in [Workers -> SUBSET Backends]
    /\ alone \in [Workers -> BOOLEAN]
    /\ lasting \subseteq Backends
    /\ picks \in [Backends -> Nat]

\* main_lb_start marks every backend UP before it starts the threads.
Init ==
    /\ state = [b \in Backends |-> "UP"]
    /\ round_robin_idx = 0
    /\ pc = [w \in Workers |-> "idle"]
    /\ attempts = [w \in Workers |-> 0]
    /\ idx = [w \in Workers |-> 0]
    /\ result = [w \in Workers |-> None]
    /\ steady = [w \in Workers |-> {}]
    /\ alone = [w \in Workers |-> TRUE]
    /\ lasting = Backends
    /\ picks = [b \in Backends |-> 0]

Goto(w, l) == pc' = [pc EXCEPT ![w] = l]

\* picks after the selection of b.
Picked(b) ==
    LET p == [picks EXCEPT ![b] = @ + 1]
    IN  IF b \notin lasting
        THEN picks
        ELSE IF \A a \in lasting : p[a] > 0
             THEN [a \in Backends |-> IF a \in lasting THEN p[a] - 1 ELSE 0]
             ELSE p

\* A client has sent its first bytes.
Begin(w) ==
    /\ pc[w] = "idle"
    /\ attempts' = [attempts EXCEPT ![w] = 0]
    /\ result' = [result EXCEPT ![w] = None]
    /\ steady' = [steady EXCEPT ![w] = {b \in Backends : state[b] = "UP"}]
    /\ alone' = [alone EXCEPT ![w] = TRUE]
    /\ Goto(w, "loop")
    /\ UNCHANGED <<state, round_robin_idx, idx, lasting, picks>>

FetchAdd(w) ==
    /\ pc[w] = "loop"
    /\ attempts[w] < N
    /\ idx' = [idx EXCEPT ![w] = round_robin_idx % N]
    /\ round_robin_idx' = (round_robin_idx + 1) % IdxModulus
    /\ alone' = [v \in Workers |-> alone[v] /\ v = w]
    /\ Goto(w, "load")
    /\ UNCHANGED <<state, attempts, result, steady, lasting, picks>>

\* Mutant: the search starts at the first backend every time.
LoadFromZero(w) ==
    /\ pc[w] = "load"
    /\ IF state[idx[w]] = "UP"
       THEN /\ result' = [result EXCEPT ![w] = idx[w]]
            /\ picks' = Picked(idx[w])
            /\ round_robin_idx' = 0
            /\ Goto(w, "done")
            /\ UNCHANGED attempts
       ELSE /\ attempts' = [attempts EXCEPT ![w] = @ + 1]
            /\ Goto(w, "loop")
            /\ UNCHANGED <<result, picks, round_robin_idx>>
    /\ UNCHANGED <<state, idx, steady, alone, lasting>>

Load(w) ==
    /\ pc[w] = "load"
    /\ IF state[idx[w]] = "UP"
       THEN /\ result' = [result EXCEPT ![w] = idx[w]]
            /\ picks' = Picked(idx[w])
            /\ Goto(w, "done")
            /\ UNCHANGED attempts
       ELSE /\ attempts' = [attempts EXCEPT ![w] = @ + 1]
            /\ Goto(w, "loop")
            /\ UNCHANGED <<result, picks>>
    /\ UNCHANGED <<state, round_robin_idx, idx, steady, alone, lasting>>

\* Mutant: the last attempt is not made.
GiveUpEarly(w) ==
    /\ pc[w] = "loop"
    /\ attempts[w] >= N - 1
    /\ Goto(w, "done")
    /\ UNCHANGED <<state, round_robin_idx, attempts, idx, result, steady, alone, lasting, picks>>

GiveUp(w) ==
    /\ pc[w] = "loop"
    /\ attempts[w] = N
    /\ Goto(w, "done")
    /\ UNCHANGED <<state, round_robin_idx, attempts, idx, result, steady, alone, lasting, picks>>

\* The caller connects to the result, or closes the connection.
Finish(w) ==
    /\ pc[w] = "done"
    /\ Goto(w, "idle")
    /\ UNCHANGED <<state, round_robin_idx, attempts, idx, result, steady, alone, lasting, picks>>

\* The health thread stores a state.
SetState(b, s) ==
    /\ state' = [state EXCEPT ![b] = s]
    /\ IF s = "UP"
       THEN UNCHANGED <<steady, lasting, picks>>
       ELSE /\ steady' = [w \in Workers |-> steady[w] \ {b}]
            /\ lasting' = lasting \ {b}
            /\ picks' = [picks EXCEPT ![b] = 0]
    /\ UNCHANGED <<round_robin_idx, pc, attempts, idx, result, alone>>

Select(w) == Begin(w) \/ FetchAdd(w) \/ Load(w) \/ GiveUp(w) \/ Finish(w)

Next ==
    \/ \E w \in Workers : Select(w)
    \/ \E b \in Backends, s \in {"UP", "DOWN"} : SetState(b, s)

Spec == Init /\ [][Next]_vars

-----------------------------------------------------------------------------
(* Properties.                                                             *)

(* A backend that stays UP during a whole selection makes it succeed:      *)
(* lb_net.c:278 only finds "No backend available" when each of them was    *)
(* DOWN at some time of the search (BETA-LAUNCH.md:236 "DOWN backends are  *)
(* removed from load balancing rotation").                                 *)
FindsUp ==
    \A w \in Workers : pc[w] = "done" /\ steady[w] # {} => result[w] # None

(* The same for a search during which no other worker draws an index from  *)
(* the shared counter (lb_core.c:166): its indices are then consecutive.   *)
(* It holds when N divides the range of the counter.                       *)
AloneFindsUp ==
    \A w \in Workers :
        pc[w] = "done" /\ alone[w] /\ steady[w] # {} => result[w] # None

(* BETA-LAUNCH.md:160 "Distributes requests evenly across all healthy      *)
(* backends": two backends that were never DOWN have been selected equally *)
(* often, up to one, when each worker that has drawn an index is counted   *)
(* for the backend it is about to select.                                  *)
Turns(b) == picks[b] + Cardinality({w \in Workers : pc[w] = "load" /\ idx[w] = b})

Evenly ==
    \A a, b \in lasting : Turns(a) - Turns(b) <= 1

===============================================================================
