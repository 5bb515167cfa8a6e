----------------------------- MODULE MCLibrary -----------------------------
(***************************************************************************)
(* The components that other code calls and that share no state: a behaviour *)
(* is of one of them, the part, and the others stay as they start.           *)
(***************************************************************************)
EXTENDS Acl, ConnectionPool, ConsistentHash, Forward, HttpMsg, MemoryPool, Metrics,
        RateLimit, RequestRouter

VARIABLE part

Names == [r1 |-> "n1", r2 |-> "n2", r3 |-> "n2"]
Priorities == [r1 |-> 2, r2 |-> 1, r3 |-> 2]
Matches == [r1 |-> {"x"}, r2 |-> {"x", "y"}, r3 |-> {"x", "y"}]

\* A part that is not the one in question has the first of its initial states.
Init ==
    /\ part \in {"acl", "pool", "hash", "forward", "http", "memory", "metrics", "rate",
               "router"}
    /\ AclInit /\ (part # "acl" => kw = "path_reg")
    /\ PoolInit /\ (part # "pool" => sound /\ api = "cpp")
    /\ IF part = "hash" THEN HashInit
       ELSE /\ vhash = [b \in HashBackends |-> [i \in 1..VNodes |-> 0]] /\ hup = {}
            /\ ch_table = [i \in 0..(Buckets - 1) |-> <<>>]
            /\ owner = [h \in Hashes |-> NoBackend] /\ moved = NoBackend
    /\ HttpInit /\ (part # "http" => msg = NewMsg("RQBEFORE"))
    /\ RateInit /\ (part # "rate" => max_tokens = 1)
    /\ FwdInit /\ MemInit /\ MetricsInit /\ RouterInit

Next ==
    \/ /\ part = "acl" /\ AclNext
       /\ UNCHANGED <<part, poolVars, hashVars, fwdVars, httpVars, memVars, metricVars, rateVars, routerVars>>
    \/ /\ part = "pool" /\ PoolNext
       /\ UNCHANGED <<part, aclVars, hashVars, fwdVars, httpVars, memVars, metricVars, rateVars, routerVars>>
    \/ /\ part = "hash" /\ HashNext
       /\ UNCHANGED <<part, aclVars, poolVars, fwdVars, httpVars, memVars, metricVars, rateVars, routerVars>>
    \/ /\ part = "forward" /\ FwdNext
       /\ UNCHANGED <<part, aclVars, poolVars, hashVars, httpVars, memVars, metricVars, rateVars, routerVars>>
    \/ /\ part = "http" /\ HttpNext
       /\ UNCHANGED <<part, aclVars, poolVars, hashVars, fwdVars, memVars, metricVars, rateVars, routerVars>>
    \/ /\ part = "memory" /\ MemNext
       /\ UNCHANGED <<part, aclVars, poolVars, hashVars, fwdVars, httpVars, metricVars, rateVars, routerVars>>
    \/ /\ part = "metrics" /\ MetricsNext
       /\ UNCHANGED <<part, aclVars, poolVars, hashVars, fwdVars, httpVars, memVars, rateVars, routerVars>>
    \/ /\ part = "rate" /\ RateNext
       /\ UNCHANGED <<part, aclVars, poolVars, hashVars, fwdVars, httpVars, memVars, metricVars, routerVars>>
    \/ /\ part = "router" /\ RouterNext
       /\ UNCHANGED <<part, aclVars, poolVars, hashVars, fwdVars, httpVars, memVars, metricVars, rateVars>>

vars == <<part, aclVars, poolVars, hashVars, fwdVars, httpVars, memVars, metricVars, rateVars, routerVars>>
Spec == Init /\ [][Next]_vars
=============================================================================
