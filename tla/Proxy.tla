-------------------------------- MODULE Proxy --------------------------------
(***************************************************************************)
(* The proxy layer: src/core/proxy.c with the servers and listeners of     *)
(* src/core/server.c and listener.c, on top of the checks of ServerCheck.  *)
(*                                                                         *)
(* Dispatchers run proxy_dispatch_session at the same time: each scans the *)
(* list of servers without a lock, one server per step, and then adds to   *)
(* cur_conns of the server it found.  The checks and one administrator     *)
(* (proxy_start, stop, pause, resume) change cur_state meanwhile, the      *)
(* administrator also one server per step.  Nothing in the repository      *)
(* subtracts from cur_conns.                                               *)
(***************************************************************************)
EXTENDS ServerCheck, FiniteSets

CONSTANTS
    Dispatchers,
    NL,            \* listeners, in the order of the list
    MaxConns,      \* srv->max_conns of each server
    Algos,         \* values of px->lb_algo to start from
    IdxModulus     \* 2^32, the range of rr_idx and of the hashes

Listeners == 1 .. NL
None == 0

ASSUME ProxyAssumption ==
    /\ IsFiniteSet(Dispatchers) /\ Dispatchers # {}
    /\ NL \in Nat
    /\ MaxConns \in [Servers -> Nat]
    /\ Algos \subseteq {"ROUNDROBIN", "LEASTCONN", "SOURCE"}
    /\ IdxModulus \in Nat \ {0}

VARIABLES
    lb_algo,     \* px->lb_algo
    pstate,      \* px->state, the set of its flags
    fd,          \* whether l->fd is an open socket
    li_state,    \* l->state
    admin,       \* what the administrator is in, and at which server
    cur_conns,   \* srv->cur_conns
    rr_idx,
    pc, pos,     \* where each dispatcher is, and at which server
    idx, count,  \* locals of the select functions
    best,        \* best of select_server_leastconn, then the server returned
    min_conns,
    usable,      \* history: the servers usable at every moment of the scan
    calm         \* history: nothing has changed since the scan began

proxyVars == <<lb_algo, pstate, fd, li_state, admin>>
scanVars == <<rr_idx, pc, pos, idx, count, best, min_conns>>
histVars == <<usable, calm>>
vars == <<checkVars, proxyVars, cur_conns, scanVars, histVars>>

Infinity == 2147483647

TypeOK ==
    /\ CheckTypeOK
    /\ lb_algo \in Algos
    /\ pstate \subseteq {"READY", "STOPPED", "PAUSED"}
    /\ fd \in [Listeners -> BOOLEAN]
    /\ li_state \in [Listeners -> {"ASSIGNED", "READY", "PAUSED"}]
    /\ admin \in {"idle", "start", "stop"} \X Servers
    /\ cur_conns \in [Servers -> Nat]
    /\ rr_idx \in 0 .. IdxModulus - 1
    /\ pc \in [Dispatchers -> {"idle", "count", "pick", "least", "load", "return"}]
    /\ pos \in [Dispatchers -> Servers]
    /\ idx \in [Dispatchers -> 0 .. IdxModulus - 1]
    /\ count \in [Dispatchers -> 0 .. NS]
    /\ best \in [Dispatchers -> Servers \cup {None}]
    /\ min_conns \in [Dispatchers -> Nat]
    /\ usable \in [Dispatchers -> SUBSET Servers]
    /\ calm \in [Dispatchers -> BOOLEAN]

\* proxy_new, listener_new and server_new.
Init ==
    /\ CheckInit
    /\ lb_algo \in Algos
    /\ pstate = {}
    /\ fd = [l \in Listeners |-> FALSE]
    /\ li_state = [l \in Listeners |-> "ASSIGNED"]
    /\ admin = <<"idle", 1>>
    /\ cur_conns = [s \in Servers |-> 0]
    /\ rr_idx = 0
    /\ pc = [d \in Dispatchers |-> "idle"]
    /\ pos = [d \in Dispatchers |-> 1]
    /\ idx = [d \in Dispatchers |-> 0]
    /\ count = [d \in Dispatchers |-> 0]
    /\ best = [d \in Dispatchers |-> None]
    /\ min_conns = [d \in Dispatchers |-> Infinity]
    /\ usable = [d \in Dispatchers |-> {}]
    /\ calm = [d \in Dispatchers |-> FALSE]

server_is_usable(s) == cur_state[s] = "RUNNING" /\ cur_conns[s] < MaxConns[s]

\* The histories of the scans after a step that changes cur_state.
Observe ==
    /\ usable' = [d \in Dispatchers |-> {s \in usable[d] : cur_state'[s] = "RUNNING"}]
    /\ calm' = [d \in Dispatchers |-> calm[d] /\ cur_state' = cur_state]
------------------------------------------------------------------------------
\* proxy_start binds the listeners in order and gives up at the first failure,
\* with those before it bound.
proxy_start ==
    /\ admin[1] = "idle"
    /\ \E bound \in 0 .. NL :
          /\ fd' = [l \in Listeners |-> l <= bound \/ fd[l]]
          /\ li_state' = [l \in Listeners |-> IF l <= bound THEN "READY" ELSE li_state[l]]
          /\ admin' = <<IF bound = NL THEN "start" ELSE "idle", 1>>
    /\ UNCHANGED <<checkVars, lb_algo, pstate, cur_conns, scanVars, histVars>>

\* The loop of proxy_start over the servers, start_health_check included.
StartServer ==
    /\ admin[1] = "start"
    /\ LET s == admin[2] IN
       /\ cur_state' = [cur_state EXCEPT ![s] = "RUNNING"]
       /\ task' = [task EXCEPT ![s] = IF s \in Checked /\ @ = "none" THEN "ready" ELSE @]
       /\ by' = [by EXCEPT ![s] = "start"]
       /\ admin' = IF s < NS THEN <<"start", s + 1>> ELSE <<"idle", 1>>
       /\ pstate' = IF s < NS THEN pstate ELSE {"READY"}
    /\ Observe
    /\ UNCHANGED <<consecutive_success, consecutive_errors, okRun, badRun>>
    /\ UNCHANGED <<lb_algo, fd, li_state, cur_conns, scanVars>>

\* Mutant: the state of the proxy stays.
StopKeepingState ==
    /\ admin[1] = "idle"
    /\ fd' = [l \in Listeners |-> FALSE]
    /\ li_state' = [l \in Listeners |-> "ASSIGNED"]
    /\ admin' = <<"stop", 1>>
    /\ UNCHANGED <<checkVars, lb_algo, pstate, cur_conns, scanVars, histVars>>

proxy_stop ==
    /\ admin[1] = "idle"
    /\ pstate' = {"STOPPED"}
    /\ fd' = [l \in Listeners |-> FALSE]
    /\ li_state' = [l \in Listeners |-> "ASSIGNED"]
    /\ admin' = <<"stop", 1>>
    /\ UNCHANGED <<checkVars, lb_algo, cur_conns, scanVars, histVars>>

StopServer ==
    /\ admin[1] = "stop"
    /\ LET s == admin[2] IN
       /\ cur_state' = [cur_state EXCEPT ![s] = "MAINTAIN"]
       /\ by' = [by EXCEPT ![s] = "stop"]
       /\ admin' = IF s < NS THEN <<"stop", s + 1>> ELSE <<"idle", 1>>
    /\ Observe
    /\ UNCHANGED <<consecutive_success, consecutive_errors, task, okRun, badRun>>
    /\ UNCHANGED <<lb_algo, pstate, fd, li_state, cur_conns, scanVars>>

proxy_pause ==
    /\ admin[1] = "idle"
    /\ pstate' = pstate \cup {"PAUSED"}
    /\ li_state' = [l \in Listeners |-> "PAUSED"]
    /\ UNCHANGED <<checkVars, lb_algo, fd, admin, cur_conns, scanVars, histVars>>

proxy_resume ==
    /\ admin[1] = "idle"
    /\ pstate' = pstate \ {"PAUSED"}
    /\ li_state' = [l \in Listeners |-> IF li_state[l] = "PAUSED" THEN "READY" ELSE li_state[l]]
    /\ UNCHANGED <<checkVars, lb_algo, fd, admin, cur_conns, scanVars, histVars>>
------------------------------------------------------------------------------
\* The locals of dispatcher d after a step of its scan.
Scan(d, l, p, c, b) ==
    /\ pc' = [pc EXCEPT ![d] = l]
    /\ pos' = [pos EXCEPT ![d] = p]
    /\ count' = [count EXCEPT ![d] = c]
    /\ best' = [best EXCEPT ![d] = b]

ScanOnly == UNCHANGED <<checkVars, proxyVars, cur_conns, histVars>>

\* proxy_dispatch_session calls proxy_select_server.  The hash of the source
\* algorithm (and of the uri and random ones, which share its scan) is any.
proxy_select_server(d) ==
    /\ pc[d] = "idle"
    /\ \/ /\ lb_algo = "ROUNDROBIN"
          /\ idx' = [idx EXCEPT ![d] = rr_idx]
          /\ rr_idx' = (rr_idx + 1) % IdxModulus
          /\ Scan(d, "count", 1, 0, None)
       \/ /\ lb_algo = "SOURCE"
          /\ \E hash \in 0 .. IdxModulus - 1 : idx' = [idx EXCEPT ![d] = hash]
          /\ Scan(d, "count", 1, 0, None)
          /\ UNCHANGED rr_idx
       \/ /\ lb_algo = "LEASTCONN"
          /\ Scan(d, "least", 1, 0, None)
          /\ UNCHANGED <<idx, rr_idx>>
    /\ usable' = [usable EXCEPT ![d] = {s \in Servers : server_is_usable(s)}]
    /\ calm' = [calm EXCEPT ![d] = TRUE]
    /\ UNCHANGED <<checkVars, proxyVars, cur_conns, min_conns>>

\* Mutant: the remainder is taken of the number of servers, usable or not.
CountAll(d) ==
    /\ pc[d] = "count"
    /\ LET c == count[d] + IF server_is_usable(pos[d]) THEN 1 ELSE 0 IN
       IF pos[d] < NS
       THEN Scan(d, "count", pos[d] + 1, c, None) /\ UNCHANGED idx
       ELSE /\ Scan(d, IF c = 0 THEN "return" ELSE "pick", 1, 0, None)
            /\ idx' = [idx EXCEPT ![d] = @ % NS]
    /\ ScanOnly /\ UNCHANGED <<rr_idx, min_conns>>

\* The first loop of select_server_roundrobin and select_server_source, and
\* the code between the loops.
CountUsable(d) ==
    /\ pc[d] = "count"
    /\ LET c == count[d] + IF server_is_usable(pos[d]) THEN 1 ELSE 0 IN
       IF pos[d] < NS
       THEN Scan(d, "count", pos[d] + 1, c, None) /\ UNCHANGED idx
       ELSE /\ Scan(d, IF c = 0 THEN "return" ELSE "pick", 1, 0, None)
            /\ idx' = [idx EXCEPT ![d] = IF c = 0 THEN @ ELSE @ % c]
    /\ ScanOnly /\ UNCHANGED <<rr_idx, min_conns>>

\* Mutant: the second loop looks at the state of a server only.
PickRunning(d) ==
    /\ pc[d] = "pick"
    /\ LET ok == cur_state[pos[d]] = "RUNNING" IN
       IF ok /\ count[d] = idx[d]
       THEN Scan(d, "return", 1, 0, pos[d])
       ELSE IF pos[d] < NS
            THEN Scan(d, "pick", pos[d] + 1, count[d] + IF ok THEN 1 ELSE 0, None)
            ELSE Scan(d, "return", 1, 0, None)
    /\ ScanOnly /\ UNCHANGED <<rr_idx, idx, min_conns>>

\* The second loop of both.
PickUsable(d) ==
    /\ pc[d] = "pick"
    /\ LET ok == server_is_usable(pos[d]) IN
       IF ok /\ count[d] = idx[d]
       THEN Scan(d, "return", 1, 0, pos[d])
       ELSE IF pos[d] < NS
            THEN Scan(d, "pick", pos[d] + 1, count[d] + IF ok THEN 1 ELSE 0, None)
            ELSE Scan(d, "return", 1, 0, None)
    /\ ScanOnly /\ UNCHANGED <<rr_idx, idx, min_conns>>

\* On to the next server, or out of the loop of select_server_leastconn.
LeastNext(d, b) ==
    IF pos[d] < NS THEN Scan(d, "least", pos[d] + 1, 0, b) ELSE Scan(d, "return", 1, 0, b)

\* The loop of select_server_leastconn: the test,
LeastUsable(d) ==
    /\ pc[d] = "least"
    /\ IF server_is_usable(pos[d])
       THEN Scan(d, "load", pos[d], 0, best[d])
       ELSE LeastNext(d, best[d])
    /\ ScanOnly /\ UNCHANGED <<rr_idx, idx, min_conns>>

\* and the second load of cur_conns.  cur_eweight is never set and stays 0.
LeastLoad(d) ==
    /\ pc[d] = "load"
    /\ LET c == cur_conns[pos[d]] IN
       /\ LeastNext(d, IF c < min_conns[d] THEN pos[d] ELSE best[d])
       /\ min_conns' = [min_conns EXCEPT ![d] = IF c < @ THEN c ELSE @]
    /\ ScanOnly /\ UNCHANGED <<rr_idx, idx>>

\* The rest of proxy_dispatch_session: the session fails, or the server gets
\* it.
proxy_dispatch_session(d) ==
    /\ pc[d] = "return"
    /\ cur_conns' = [s \in Servers |-> cur_conns[s] + IF s = best[d] THEN 1 ELSE 0]
    /\ Scan(d, "idle", 1, 0, None)
    /\ idx' = [idx EXCEPT ![d] = 0]
    /\ min_conns' = [min_conns EXCEPT ![d] = Infinity]
    /\ usable' = [e \in Dispatchers |->
                    {s \in usable[e] : e # d /\ cur_conns'[s] < MaxConns[s]}]
    /\ calm' = [e \in Dispatchers |-> calm[e] /\ e # d /\ best[d] = None]
    /\ UNCHANGED <<checkVars, proxyVars, rr_idx>>

Check == CheckNext /\ Observe /\ UNCHANGED <<proxyVars, cur_conns, scanVars>>

Admin == proxy_start \/ StartServer \/ proxy_stop \/ StopServer \/ proxy_pause \/ proxy_resume

Dispatch(d) ==
    \/ proxy_select_server(d) \/ CountUsable(d) \/ PickUsable(d)
    \/ LeastUsable(d) \/ LeastLoad(d) \/ proxy_dispatch_session(d)

Next == Check \/ Admin \/ \E d \in Dispatchers : Dispatch(d)

Spec == Init /\ [][Next]_vars
------------------------------------------------------------------------------
\* proxy_dispatch_session tests cur_conns and adds to it in separate steps: a
\* server can get more sessions than max_conns, but never as many as there are
\* dispatchers.
Overshoot ==
    \A s \in Servers : cur_conns[s] <= MaxConns[s] + Cardinality(Dispatchers) - 1

\* proxy_select_server returns NULL while a server was usable during the whole
\* scan only if the counting algorithms saw another server change between
\* their two loops; select_server_leastconn never does.
FindsUsable ==
    \A d \in Dispatchers :
        pc[d] = "return" /\ best[d] = None /\ usable[d] # {} => lb_algo # "LEASTCONN" /\ ~calm[d]

\* When nothing changed during its scan, select_server_leastconn returns a
\* usable server with the fewest connections, the first of these in the list.
LeastLoaded ==
    \A d \in Dispatchers :
        pc[d] = "return" /\ lb_algo = "LEASTCONN" /\ calm[d] /\ best[d] # None =>
            /\ best[d] \in usable[d]
            /\ \A s \in usable[d] :
                  IF s < best[d] THEN cur_conns[best[d]] < cur_conns[s]
                                 ELSE cur_conns[best[d]] <= cur_conns[s]

\* What the scans of proxy_select_server find while checks, the administrator and
\* other dispatchers change the servers.
ScanFinds == FindsUsable /\ LeastLoaded

\* A proxy that proxy_start made READY, whatever calls of start, stop, pause
\* and resume follow and wherever a bind fails, has a socket on every listener,
\* and unless it is PAUSED every listener is READY.
ReadyMeansBound ==
    "READY" \in pstate =>
        /\ \A l \in Listeners : fd[l]
        /\ "PAUSED" \notin pstate => \A l \in Listeners : li_state[l] = "READY"
==============================================================================
