---------------------------- MODULE SelectBackend ----------------------------
(***************************************************************************)
(* The algorithms of lb_select_backend (src/core/lb_core.c) that scan the  *)
(* backends: LEASTCONN, SOURCE, STICKY and RANDOM, with what the caller in *)
(* src/network/lb_net.c does with the result.  RoundRobin models the       *)
(* remaining one.                                                          *)
(*                                                                         *)
(* The workers run it at the same time and without a lock, while the       *)
(* health thread moves the states of the backends; each visit of a backend *)
(* is a step, and the load of its counters another one.  The hash of a     *)
(* client address is represented by its residue, and response times by the *)
(* members of a small set.                                                 *)
(***************************************************************************)
EXTENDS Integers, FiniteSets, Folds

CONSTANTS
    Workers,
    N,            \* lb->backend_count
    Algorithms,   \* the algorithms the option -a may choose
    Weights,      \* weights a backend may have been given
    Infinity,     \* UINT32_MAX and UINT64_MAX, above every score
    Times,        \* response times a measurement may give
    MaxConns,     \* bound on the open connections of a backend
    None          \* NULL

Backends == 0 .. N - 1

ASSUME SelectAssumption ==
    /\ N \in Nat \ {0}
    /\ Algorithms \subseteq {"LEASTCONN", "SOURCE", "STICKY", "RANDOM"}
    /\ Weights \subseteq Nat \ {0}
    /\ MaxConns \in Nat
    /\ Times \subseteq Nat /\ 0 \in Times
    /\ Infinity \in Nat /\ \A t \in Times : (t + 1) * (MaxConns + 1) < Infinity
    /\ None \notin Backends

VARIABLES
    algorithm,         \* lb->algorithm, which does not change
    state,             \* backend->state
    weight,            \* backend->weight
    active_conns,      \* backend->active_conns
    response_time_ns,  \* backend->response_time_ns
    pc,                \* where each worker is
    i,                 \* its loop index
    start,             \* hash % backend_count
    rt,                \* the response time read
    acc,               \* total_weight, current_weight, or the least score
    random_weight,     \* 0 in the first pass
    best,              \* selected, or the backend returned
    steady,            \* history: the backends UP since the selection began
    calm               \* history: no state has changed since then

shared == <<algorithm, state, weight, active_conns, response_time_ns>>
history == <<steady, calm>>
vars == <<shared, pc, i, start, rt, acc, random_weight, best, history>>

TypeOK ==
    /\ algorithm \in Algorithms
    /\ state \in [Backends -> {"UP", "DOWN"}]
    /\ weight \in [Backends -> Weights]
    /\ active_conns \in [Backends -> 0 .. MaxConns]
    /\ response_time_ns \in [Backends -> Times]
    /\ pc \in [Workers -> {"idle", "visit", "time", "score", "done"}]
    /\ i \in [Workers -> 0 .. N]
    /\ start \in [Workers -> Backends]
    /\ rt \in [Workers -> Nat]
    /\ acc \in [Workers -> Nat]
    /\ random_weight \in [Workers -> Nat]
    /\ best \in [Workers -> Backends \cup {None}]
    /\ steady \in [Workers -> SUBSET Backends]
    /\ calm \in [Workers -> BOOLEAN]

\* main_lb_start marks every backend UP before it starts the threads.
Init ==
    /\ algorithm \in Algorithms
    /\ state = [b \in Backends |-> "UP"]
    /\ weight \in [Backends -> Weights]
    /\ active_conns = [b \in Backends |-> 0]
    /\ response_time_ns = [b \in Backends |-> 0]
    /\ pc = [w \in Workers |-> "idle"]
    /\ i = [w \in Workers |-> 0]
    /\ start = [w \in Workers |-> 0]
    /\ rt = [w \in Workers |-> 0]
    /\ acc = [w \in Workers |-> 0]
    /\ random_weight = [w \in Workers |-> 0]
    /\ best = [w \in Workers |-> None]
    /\ steady = [w \in Workers |-> {}]
    /\ calm = [w \in Workers |-> TRUE]

Goto(w, l) == pc' = [pc EXCEPT ![w] = l]

-----------------------------------------------------------------------------
(* lb_select_backend.                                                      *)

\* A client has sent its first bytes.  Only SOURCE looks at its address.
Begin(w) ==
    /\ pc[w] = "idle"
    /\ \E h \in IF algorithm = "SOURCE" THEN Backends ELSE {0} :
         start' = [start EXCEPT ![w] = h]
    /\ i' = [i EXCEPT ![w] = 0]
    /\ acc' = [acc EXCEPT ![w] = IF algorithm \in {"LEASTCONN", "RANDOM"} THEN Infinity ELSE 0]
    /\ random_weight' = [random_weight EXCEPT ![w] = 0]
    /\ best' = [best EXCEPT ![w] = None]
    /\ steady' = [steady EXCEPT ![w] = {b \in Backends : state[b] = "UP"}]
    /\ calm' = [calm EXCEPT ![w] = TRUE]
    /\ Goto(w, "visit")
    /\ UNCHANGED <<shared, rt>>

\* Mutant: the hash of the client is not used.
IndexFromZero(w) == i[w]

\* The backend that worker w looks at (start is 0 except for SOURCE).
Index(w) == (start[w] + i[w]) % N

Continue(w) == i' = [i EXCEPT ![w] = @ + 1] /\ Goto(w, "visit")

Return(w, b) == best' = [best EXCEPT ![w] = b] /\ Goto(w, "done")

\* The next backend is not UP.
PassOver(w) ==
    /\ pc[w] = "visit"
    /\ i[w] < N
    /\ state[Index(w)] # "UP"
    /\ Continue(w)
    /\ UNCHANGED <<shared, start, rt, acc, random_weight, best, history>>

\* SOURCE returns the first backend that is UP.
TakeFirst(w) ==
    /\ pc[w] = "visit"
    /\ i[w] < N
    /\ algorithm = "SOURCE"
    /\ state[Index(w)] = "UP"
    /\ Return(w, Index(w))
    /\ UNCHANGED <<shared, i, start, rt, acc, random_weight, history>>

\* Mutant: the second pass compares with the weights before this one.
WeighLate(w) ==
    /\ pc[w] = "visit"
    /\ i[w] < N
    /\ algorithm = "STICKY"
    /\ state[Index(w)] = "UP"
    /\ acc' = [acc EXCEPT ![w] = @ + weight[Index(w)]]
    /\ IF random_weight[w] > 0 /\ random_weight[w] <= acc[w]
       THEN Return(w, Index(w)) /\ UNCHANGED i
       ELSE Continue(w) /\ UNCHANGED best
    /\ UNCHANGED <<shared, start, rt, random_weight, history>>

\* STICKY adds up the weights, and in the second pass returns the backend at
\* which the sum reaches the number drawn.
Weigh(w) ==
    /\ pc[w] = "visit"
    /\ i[w] < N
    /\ algorithm = "STICKY"
    /\ state[Index(w)] = "UP"
    /\ acc' = [acc EXCEPT ![w] = @ + weight[Index(w)]]
    /\ IF random_weight[w] > 0 /\ random_weight[w] <= acc'[w]
       THEN Return(w, Index(w)) /\ UNCHANGED i
       ELSE Continue(w) /\ UNCHANGED best
    /\ UNCHANGED <<shared, start, rt, random_weight, history>>

\* LEASTCONN and RANDOM go on to read the counters of the backend ...
Candidate(w) ==
    /\ pc[w] = "visit"
    /\ i[w] < N
    /\ algorithm \in {"LEASTCONN", "RANDOM"}
    /\ state[Index(w)] = "UP"
    /\ Goto(w, IF algorithm = "RANDOM" THEN "time" ELSE "score")
    /\ UNCHANGED <<shared, i, start, rt, acc, random_weight, best, history>>

LoadTime(w) ==
    /\ pc[w] = "time"
    /\ rt' = [rt EXCEPT ![w] = response_time_ns[Index(w)]]
    /\ Goto(w, "score")
    /\ UNCHANGED <<shared, i, start, acc, random_weight, best, history>>

Score(w) ==
    IF algorithm = "LEASTCONN"
    THEN active_conns[Index(w)]
    ELSE rt[w] * (active_conns[Index(w)] + 1)

\* Mutant: the least score so far is not remembered.
CompareForgetful(w) ==
    /\ pc[w] = "score"
    /\ IF Score(w) < acc[w]
       THEN best' = [best EXCEPT ![w] = Index(w)]
       ELSE UNCHANGED best
    /\ Continue(w)
    /\ UNCHANGED <<shared, start, rt, acc, random_weight, history>>

\* ... and keep it if it is better than those before.
Compare(w) ==
    /\ pc[w] = "score"
    /\ IF Score(w) < acc[w]
       THEN /\ acc' = [acc EXCEPT ![w] = Score(w)]
            /\ best' = [best EXCEPT ![w] = Index(w)]
       ELSE UNCHANGED <<acc, best>>
    /\ Continue(w)
    /\ UNCHANGED <<shared, start, rt, random_weight, history>>

\* STICKY draws a number and starts the second pass.
Draw(w) ==
    /\ pc[w] = "visit"
    /\ i[w] = N
    /\ algorithm = "STICKY" /\ random_weight[w] = 0 /\ acc[w] > 0
    /\ \E r \in 1 .. acc[w] : random_weight' = [random_weight EXCEPT ![w] = r]
    /\ i' = [i EXCEPT ![w] = 0]
    /\ acc' = [acc EXCEPT ![w] = 0]
    /\ UNCHANGED <<shared, pc, start, rt, best, history>>

\* Mutant: the last backend is not visited.
EndScanEarly(w) ==
    /\ pc[w] = "visit"
    /\ i[w] >= N - 1
    /\ ~(algorithm = "STICKY" /\ random_weight[w] = 0 /\ acc[w] > 0)
    /\ Goto(w, "done")
    /\ UNCHANGED <<shared, i, start, rt, acc, random_weight, best, history>>

\* The loop ends; selected is returned.
EndScan(w) ==
    /\ pc[w] = "visit"
    /\ i[w] = N
    /\ ~(algorithm = "STICKY" /\ random_weight[w] = 0 /\ acc[w] > 0)
    /\ Goto(w, "done")
    /\ UNCHANGED <<shared, i, start, rt, acc, random_weight, best, history>>

-----------------------------------------------------------------------------
(* The caller and the health thread.                                       *)

\* No backend, or the connect fails.
Abandon(w) ==
    /\ pc[w] = "done"
    /\ Goto(w, "idle")
    /\ UNCHANGED <<shared, i, start, rt, acc, random_weight, best, history>>

Connect(w) ==
    /\ pc[w] = "done"
    /\ best[w] # None
    /\ active_conns[best[w]] < MaxConns
    /\ active_conns' = [active_conns EXCEPT ![best[w]] = @ + 1]
    /\ Goto(w, "idle")
    /\ UNCHANGED <<algorithm, state, weight, response_time_ns, i, start, rt, acc,
                   random_weight, best, history>>

\* A worker closes a connection and stores how long it lasted.
Close(w, b) ==
    /\ pc[w] = "idle"
    /\ active_conns[b] > 0
    /\ active_conns' = [active_conns EXCEPT ![b] = @ - 1]
    /\ \E t \in Times : response_time_ns' = [response_time_ns EXCEPT ![b] = t]
    /\ UNCHANGED <<algorithm, state, weight, pc, i, start, rt, acc,
                   random_weight, best, history>>

\* A check succeeds, and the time it took is stored (in a store of its own:
\* a step that leaves the time alone, and then one that leaves the state) ...
MarkUp(b) ==
    /\ state' = [state EXCEPT ![b] = "UP"]
    /\ \E t \in Times : response_time_ns' = [response_time_ns EXCEPT ![b] = t]
    /\ calm' = [w \in Workers |-> calm[w] /\ state' = state]
    /\ UNCHANGED <<algorithm, weight, active_conns, pc, i, start, rt, acc,
                   random_weight, best, steady>>

\* ... or enough of them have failed.
MarkDown(b) ==
    /\ state' = [state EXCEPT ![b] = "DOWN"]
    /\ calm' = [w \in Workers |-> calm[w] /\ state' = state]
    /\ steady' = [w \in Workers |-> steady[w] \ {b}]
    /\ UNCHANGED <<algorithm, weight, active_conns, response_time_ns, pc, i, start, rt, acc,
                   random_weight, best>>

Select(w) ==
    \/ Begin(w) \/ PassOver(w) \/ TakeFirst(w) \/ Weigh(w) \/ Candidate(w)
    \/ LoadTime(w) \/ Compare(w) \/ Draw(w) \/ EndScan(w) \/ Abandon(w) \/ Connect(w)

Next ==
    \/ \E w \in Workers : Select(w) \/ \E b \in Backends : Close(w, b)
    \/ \E b \in Backends : MarkUp(b) \/ MarkDown(b)

Spec == Init /\ [][Next]_vars

-----------------------------------------------------------------------------
(* Properties.                                                             *)

(* A backend that stays UP during a whole selection makes it succeed:      *)
(* lb_net.c:278 only finds "No backend available" when each of them was    *)
(* DOWN at some time of the search (BETA-LAUNCH.md:236 "DOWN backends are  *)
(* removed from load balancing rotation").                                 *)
FindsUp ==
    \A w \in Workers : pc[w] = "done" /\ steady[w] # {} => best[w] # None

(* The same for the algorithms that pass over the backends once, whatever  *)
(* the health thread does to the states behind and before the scan.        *)
OnePassFindsUp == algorithm # "STICKY" => FindsUp

(* LEASTCONN, BETA-LAUNCH.md:174: "Routes to the backend with the fewest   *)
(* active connections".  When the scan is over, no backend that was UP all *)
(* the time has fewer connections than the one selected.                   *)
Fewest ==
    algorithm = "LEASTCONN" =>
        \A w \in Workers : pc[w] = "done" /\ best[w] # None =>
            \A b \in steady[w] : active_conns[best[w]] <= active_conns[b]

(* SOURCE is persistent (lb_core.c:196-203): a client gets the first       *)
(* backend from its place on that is UP, so it only moves when that one    *)
(* goes DOWN; no backend that was UP all the time comes before the one     *)
(* returned.                                                               *)
NearestUp ==
    algorithm = "SOURCE" =>
        \A w \in Workers : pc[w] = "done" /\ best[w] # None =>
            \A j \in 0 .. i[w] - 1 : (start[w] + j) % N \notin steady[w]

(* STICKY gives each backend that is UP as many of the numbers that can be *)
(* drawn as it has weight (lb_core.c:207-231): when no state has changed,  *)
(* the number drawn is one of those of the backend returned.               *)
WeightUpTo(w, b) ==
    MapThenFoldSet(+, 0, LAMBDA a : weight[a], LAMBDA S : CHOOSE a \in S : TRUE,
                   {a \in steady[w] : a <= b})

Share ==
    algorithm = "STICKY" =>
        \A w \in Workers : pc[w] = "done" /\ calm[w] /\ steady[w] # {} =>
            /\ best[w] \in steady[w]
            /\ random_weight[w] \in
                 WeightUpTo(w, best[w]) - weight[best[w]] + 1 .. WeightUpTo(w, best[w])

==============================================================================
