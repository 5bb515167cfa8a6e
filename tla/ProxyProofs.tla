----------------------------- MODULE ProxyProofs -----------------------------
(***************************************************************************)
(* Theorems about the proxy layer for every number of servers, listeners,    *)
(* dispatchers and every rise and fall: how far a server's sessions exceed   *)
(* its limit, what its checks do to its state, and what a READY proxy has.   *)
(***************************************************************************)
EXTENDS Proxy, FiniteSetTheorems, TLAPS

\* The part of the state the theorems look at.
Typed ==
    /\ CheckTypeOK
    /\ pstate \subseteq {"READY", "STOPPED", "PAUSED"}
    /\ fd \in [Listeners -> BOOLEAN]
    /\ li_state \in [Listeners -> {"ASSIGNED", "READY", "PAUSED"}]
    /\ admin[1] \in {"idle", "start", "stop"} /\ admin[2] \in Servers
    /\ cur_conns \in [Servers -> Nat]
    /\ pc \in [Dispatchers -> {"idle", "count", "pick", "least", "load", "return"}]
    /\ pos \in [Dispatchers -> Servers]
    /\ best \in [Dispatchers -> Servers \cup {None}]

\* The histories of reports are what the counters of the check hold.
Counted == consecutive_success = okRun /\ consecutive_errors = badRun

\* A start that has come to the servers has bound every listener, and no listener
\* of a READY proxy is back to ASSIGNED.
Starting ==
    /\ admin[1] = "start" => \A l \in Listeners : fd[l] /\ li_state[l] = "READY"
    /\ "READY" \in pstate => \A l \in Listeners : li_state[l] # "ASSIGNED"

\* The dispatchers that saw server s usable and have not counted their session.
Pending(s) == {d \in Dispatchers : best[d] = s \/ (pc[d] = "load" /\ pos[d] = s)}

\* Every one of them may still add a session, and one of all dispatchers at
\* least has added its own before the limit is passed.
Committed ==
    \A s \in Servers :
        cur_conns[s] + Cardinality(Pending(s)) <= MaxConns[s] + Cardinality(Dispatchers) - 1

ProxyInv == Typed /\ Counted /\ Starting /\ ReadyMeansBound /\ DownWhenFailing /\ Committed
------------------------------------------------------------------------------
(* Sessions                                                                  *)

LEMMA PendingCount ==
    ASSUME NEW s \in Servers
    PROVE  /\ Pending(s) \subseteq Dispatchers /\ IsFiniteSet(Pending(s))
           /\ Cardinality(Pending(s)) \in Nat
           /\ Cardinality(Pending(s)) <= Cardinality(Dispatchers)
           /\ Cardinality(Dispatchers) \in Nat \ {0}
<1>1. Pending(s) \subseteq Dispatchers
  BY DEF Pending
<1>2. IsFiniteSet(Dispatchers) /\ Cardinality(Dispatchers) # 0
  BY ProxyAssumption, FS_EmptySet
<1> QED
  BY <1>1, <1>2, FS_Subset, FS_CardinalityType

\* A step that counts no session adds a dispatcher only to a server below its
\* limit.
LEMMA CommittedKept ==
    ASSUME Typed, Committed, cur_conns' = cur_conns,
           \A s \in Servers : Pending(s)' \subseteq Pending(s) \/ cur_conns[s] < MaxConns[s]
    PROVE  Committed'
<1> SUFFICES ASSUME NEW s \in Servers
             PROVE  cur_conns[s] + Cardinality(Pending(s)') <= MaxConns[s] + Cardinality(Dispatchers) - 1
  BY DEF Committed
<1>1. cur_conns[s] \in Nat /\ MaxConns[s] \in Nat
  BY ProxyAssumption DEF Typed
<1>2. Pending(s)' \subseteq Dispatchers
  BY DEF Pending
<1>3. Cardinality(Pending(s)') \in Nat /\ Cardinality(Pending(s)') <= Cardinality(Dispatchers)
  BY <1>2, ProxyAssumption, FS_Subset, FS_CardinalityType
<1>4. CASE Pending(s)' \subseteq Pending(s)
  <2>1. Cardinality(Pending(s)') <= Cardinality(Pending(s))
    BY <1>4, PendingCount, FS_Subset
  <2> QED
    BY <1>1, <1>3, <2>1, PendingCount DEF Committed
<1>5. CASE cur_conns[s] < MaxConns[s]
  BY <1>1, <1>3, <1>5, PendingCount
<1> QED
  BY <1>4, <1>5

\* A step of the scan of dispatcher d, as its program counter and best see it.
LEMMA ScanPending ==
    ASSUME Typed, Committed, NEW d \in Dispatchers, cur_conns' = cur_conns,
           \A e \in Dispatchers \ {d} : pc'[e] = pc[e] /\ pos'[e] = pos[e] /\ best'[e] = best[e],
           \A s \in Servers :
              best'[d] = s \/ (pc'[d] = "load" /\ pos'[d] = s) =>
                 d \in Pending(s) \/ cur_conns[s] < MaxConns[s]
    PROVE  Committed'
<1> SUFFICES ASSUME NEW s \in Servers
             PROVE  Pending(s)' \subseteq Pending(s) \/ cur_conns[s] < MaxConns[s]
  BY CommittedKept
<1> QED
  BY DEF Pending

\* The end of proxy_dispatch_session: d counts its session and is done.
LEMMA DispatchPending ==
    ASSUME Typed, Committed, NEW d \in Dispatchers, proxy_dispatch_session(d)
    PROVE  Committed'
<1> SUFFICES ASSUME NEW s \in Servers
             PROVE  cur_conns'[s] + Cardinality(Pending(s)') <= MaxConns[s] + Cardinality(Dispatchers) - 1
  BY DEF Committed
<1>1. cur_conns[s] \in Nat /\ MaxConns[s] \in Nat
      /\ cur_conns[s] + Cardinality(Pending(s)) <= MaxConns[s] + Cardinality(Dispatchers) - 1
  BY ProxyAssumption DEF Typed, Committed
<1>2. /\ cur_conns'[s] = cur_conns[s] + IF s = best[d] THEN 1 ELSE 0
      /\ pc[d] = "return" /\ pc'[d] = "idle" /\ best'[d] = None
      /\ \A e \in Dispatchers \ {d} : pc'[e] = pc[e] /\ pos'[e] = pos[e] /\ best'[e] = best[e]
  BY DEF proxy_dispatch_session, Scan, Typed
<1>3. s # None
  BY ServerCheckAssumption DEF Servers, None
<1>4. Pending(s)' = Pending(s) \ {d}
  BY <1>2, <1>3 DEF Pending
<1>5. CASE s = best[d]
  <2>1. d \in Pending(s)
    BY <1>5 DEF Pending
  <2>2. Cardinality(Pending(s)') = Cardinality(Pending(s)) - 1
    <3> DEFINE P == Pending(s)
    <3>1. IsFiniteSet(P) /\ d \in P /\ Pending(s)' = P \ {d}
      BY <1>4, <2>1, PendingCount
    <3> HIDE DEF P
    <3>2. Cardinality(P \ {d}) = Cardinality(P) - 1
      BY <3>1, FS_RemoveElement
    <3> QED
      BY <3>1, <3>2 DEF P
  <2> QED
    BY <1>1, <1>2, <1>5, <2>2, PendingCount
<1>6. CASE s # best[d]
  <2>1. d \notin Pending(s)
    BY <1>2, <1>6 DEF Pending
  <2>2. Pending(s)' = Pending(s)
    BY <1>4, <2>1
  <2> QED
    BY <1>1, <1>2, <1>6, <2>2, PendingCount
<1> QED
  BY <1>5, <1>6
------------------------------------------------------------------------------
(* Checks                                                                    *)

\* What one report does to the counters, the histories and the state.
LEMMA Report ==
    ASSUME CheckTypeOK, Counted, DownWhenFailing,
           NEW s \in Servers, NEW status, set_server_check_status(s, status)
    PROVE  /\ cur_state' \in [Servers -> {"RUNNING", "MAINTAIN"}]
           /\ consecutive_success' \in [Servers -> 0 .. Rise] /\ okRun' \in [Servers -> 0 .. Rise]
           /\ consecutive_errors' \in [Servers -> 0 .. Fall] /\ badRun' \in [Servers -> 0 .. Fall]
           /\ by' \in [Servers -> {"none", "start", "stop", "report"}]
           /\ Counted' /\ DownWhenFailing'
           /\ cur_state'[s] # cur_state[s] =>
                IF cur_state'[s] = "RUNNING" THEN okRun'[s] = Rise ELSE badRun'[s] = Fall
           /\ \A r \in Servers \ {s} : cur_state'[r] = cur_state[r]
<1> DEFINE ok   == status \in Passed
           good == IF ok THEN UpTo(consecutive_success[s], Rise) ELSE 0
           bad  == IF ok THEN 0 ELSE UpTo(consecutive_errors[s], Fall)
<1>1. /\ consecutive_success[s] \in 0 .. Rise /\ consecutive_errors[s] \in 0 .. Fall
      /\ okRun[s] = consecutive_success[s] /\ badRun[s] = consecutive_errors[s]
      /\ Rise \in Nat \ {0} /\ Fall \in Nat \ {0}
  BY ServerCheckAssumption DEF CheckTypeOK, Counted
<1>2. good \in 0 .. Rise /\ bad \in 0 .. Fall /\ (ok => bad = 0) /\ (~ok => good = 0)
  BY <1>1 DEF UpTo
<1>3. /\ consecutive_success' = [consecutive_success EXCEPT ![s] = good]
      /\ consecutive_errors' = [consecutive_errors EXCEPT ![s] = bad]
      /\ cur_state' = [cur_state EXCEPT ![s] = IF ok /\ good >= Rise THEN "RUNNING"
                                               ELSE IF ~ok /\ bad >= Fall THEN "MAINTAIN" ELSE cur_state[s]]
      /\ okRun' = [okRun EXCEPT ![s] = good]
      /\ badRun' = [badRun EXCEPT ![s] = bad]
      /\ by' = [by EXCEPT ![s] = "report"]
  BY <1>1 DEF set_server_check_status, CheckTypeOK
<1> HIDE DEF ok, good, bad
<1>4. /\ cur_state' \in [Servers -> {"RUNNING", "MAINTAIN"}]
      /\ consecutive_success' \in [Servers -> 0 .. Rise] /\ okRun' \in [Servers -> 0 .. Rise]
      /\ consecutive_errors' \in [Servers -> 0 .. Fall] /\ badRun' \in [Servers -> 0 .. Fall]
      /\ by' \in [Servers -> {"none", "start", "stop", "report"}]
      /\ Counted'
  BY <1>2, <1>3 DEF CheckTypeOK, Counted
<1>5. /\ badRun'[s] = bad /\ okRun'[s] = good
      /\ cur_state'[s] = IF ok /\ good >= Rise THEN "RUNNING"
                         ELSE IF ~ok /\ bad >= Fall THEN "MAINTAIN" ELSE cur_state[s]
      /\ \A r \in Servers \ {s} : /\ badRun'[r] = badRun[r] /\ by'[r] = by[r]
                                   /\ cur_state'[r] = cur_state[r]
  BY <1>3 DEF CheckTypeOK
<1>6. DownWhenFailing'
  BY <1>1, <1>2, <1>5 DEF DownWhenFailing
<1>7. cur_state'[s] # cur_state[s] =>
        IF cur_state'[s] = "RUNNING" THEN okRun'[s] = Rise ELSE badRun'[s] = Fall
  BY <1>1, <1>2, <1>5
<1> QED
  BY <1>4, <1>5, <1>6, <1>7

LEMMA CheckStep ==
    ASSUME CheckTypeOK, Counted, DownWhenFailing, CheckNext
    PROVE  /\ CheckTypeOK' /\ Counted' /\ DownWhenFailing'
           /\ \A s \in Servers : cur_state'[s] # cur_state[s] =>
                IF cur_state'[s] = "RUNNING" THEN okRun'[s] = Rise ELSE badRun'[s] = Fall
<1>1. PICK s \in Servers : process_check(s) \/ process_check_http(s)
  BY DEF CheckNext
<1>2. PICK status : set_server_check_status(s, status)
  BY <1>1 DEF process_check, process_check_http
<1>3. task' \in [Servers -> {"none", "ready", "http"}]
  BY <1>1 DEF process_check, process_check_http, CheckTypeOK
<1> QED
  BY <1>2, <1>3, Report DEF CheckTypeOK
------------------------------------------------------------------------------
(* The invariant                                                             *)

LEMMA ProxyInitInv == Init => ProxyInv
<1> SUFFICES ASSUME Init PROVE ProxyInv
  OBVIOUS
<1>1. Typed
  BY ServerCheckAssumption DEF Init, CheckInit, CheckTypeOK, Typed, Servers, None
<1>2. Counted /\ Starting /\ ReadyMeansBound /\ DownWhenFailing
  BY ServerCheckAssumption DEF Init, CheckInit, Counted, Starting, ReadyMeansBound, DownWhenFailing
<1>3. Committed
  <2> SUFFICES ASSUME NEW s \in Servers
               PROVE  cur_conns[s] + Cardinality(Pending(s)) <= MaxConns[s] + Cardinality(Dispatchers) - 1
    BY DEF Committed
  <2>1. Pending(s) = {} /\ cur_conns[s] = 0
    BY ServerCheckAssumption DEF Init, Pending, Servers, None
  <2> QED
    BY <2>1, FS_EmptySet, ProxyAssumption, PendingCount
<1> QED
  BY <1>1, <1>2, <1>3 DEF ProxyInv

\* The steps of the administrator and of the checks leave the scans alone.
LEMMA OutsideScan ==
    ASSUME Typed, Committed, UNCHANGED <<cur_conns, scanVars>>
    PROVE  Committed'
<1>1. \A s \in Servers : Pending(s)' = Pending(s)
  BY DEF scanVars, Pending
<1> QED
  BY <1>1, CommittedKept

LEMMA NextServer == 1 \in Servers /\ \A s \in Servers : s < NS => s + 1 \in Servers
  BY ServerCheckAssumption DEF Servers

LEMMA AdminInv ==
    ASSUME ProxyInv, Admin
    PROVE  ProxyInv'
<1> USE DEF ProxyInv
<1>1. CASE proxy_start
  <2>1. PICK bound \in 0 .. NL :
          /\ fd' = [l \in Listeners |-> l <= bound \/ fd[l]]
          /\ li_state' = [l \in Listeners |-> IF l <= bound THEN "READY" ELSE li_state[l]]
          /\ admin' = <<IF bound = NL THEN "start" ELSE "idle", 1>>
    BY <1>1 DEF proxy_start
  <2>2. UNCHANGED <<checkVars, pstate, cur_conns, scanVars>>
    BY <1>1 DEF proxy_start
  <2>3. admin'[1] \in {"idle", "start"} /\ admin'[2] = 1 /\ (admin'[1] = "start" => bound = NL)
    BY <2>1
  <2>4. \A l \in Listeners : l <= NL /\ (l <= bound \/ ~(l <= bound))
    BY ProxyAssumption DEF Listeners
  <2>5. fd' \in [Listeners -> BOOLEAN] /\ li_state' \in [Listeners -> {"ASSIGNED", "READY", "PAUSED"}]
    BY <2>1, <2>4 DEF Typed
  <2>6. 1 \in Servers
    BY NextServer
  <2>7. Typed'
    BY <2>2, <2>3, <2>5, <2>6 DEF Typed, checkVars, CheckTypeOK, scanVars
  <2>8. \A l \in Listeners : /\ fd[l] => fd'[l]
                             /\ bound = NL => fd'[l] /\ li_state'[l] = "READY"
                             /\ li_state'[l] \in {"READY", li_state[l]}
    BY <2>1, <2>4
  <2>9. Starting' /\ ReadyMeansBound'
    BY <2>2, <2>3, <2>8 DEF Starting, ReadyMeansBound
  <2>10. Counted' /\ DownWhenFailing'
    BY <2>2 DEF checkVars, Counted, DownWhenFailing
  <2> QED
    BY <2>2, <2>7, <2>9, <2>10, OutsideScan
<1>2. CASE StartServer
  <2>1. admin'[1] \in {"idle", "start"} /\ admin'[2] \in Servers
    <3>1. admin[2] \in Servers /\ admin' = IF admin[2] < NS THEN <<"start", admin[2] + 1>> ELSE <<"idle", 1>>
      BY <1>2 DEF StartServer, Typed
    <3>2. CASE admin[2] < NS
      BY <3>1, <3>2, NextServer
    <3>3. CASE ~(admin[2] < NS)
      BY <3>1, <3>3, NextServer
    <3> QED
      BY <3>2, <3>3
  <2>2. CheckTypeOK'
    BY <1>2 DEF StartServer, Typed, CheckTypeOK
  <2>3. Typed'
    BY <1>2, <2>1, <2>2 DEF StartServer, Typed, scanVars
  <2>4. Starting' /\ ReadyMeansBound'
    BY <1>2 DEF StartServer, Starting, ReadyMeansBound
  <2>5. Counted' /\ DownWhenFailing'
    BY <1>2 DEF StartServer, Counted, DownWhenFailing, Typed, CheckTypeOK
  <2> QED
    BY <1>2, <2>3, <2>4, <2>5, OutsideScan DEF StartServer
<1>3. CASE proxy_stop
  <2>1. admin'[1] = "stop" /\ admin'[2] = 1 /\ 1 \in Servers
    BY <1>3, NextServer DEF proxy_stop
  <2>2. Typed'
    BY <1>3, <2>1 DEF proxy_stop, Typed, checkVars, CheckTypeOK, scanVars
  <2>3. Starting' /\ ReadyMeansBound' /\ Counted' /\ DownWhenFailing'
    BY <1>3, <2>1 DEF proxy_stop, checkVars, Starting, ReadyMeansBound, Counted, DownWhenFailing
  <2> QED
    BY <1>3, <2>2, <2>3, OutsideScan DEF proxy_stop
<1>4. CASE StopServer
  <2>1. admin'[1] \in {"idle", "stop"} /\ admin'[2] \in Servers
    <3>1. admin[2] \in Servers /\ admin' = IF admin[2] < NS THEN <<"stop", admin[2] + 1>> ELSE <<"idle", 1>>
      BY <1>4 DEF StopServer, Typed
    <3>2. CASE admin[2] < NS
      BY <3>1, <3>2, NextServer
    <3>3. CASE ~(admin[2] < NS)
      BY <3>1, <3>3, NextServer
    <3> QED
      BY <3>2, <3>3
  <2>2. CheckTypeOK'
    BY <1>4 DEF StopServer, Typed, CheckTypeOK
  <2>3. Typed'
    BY <1>4, <2>1, <2>2 DEF StopServer, Typed, scanVars
  <2>4. Starting' /\ ReadyMeansBound'
    BY <1>4, <2>1 DEF StopServer, Starting, ReadyMeansBound
  <2>5. Counted' /\ DownWhenFailing'
    BY <1>4 DEF StopServer, Counted, DownWhenFailing, Typed, CheckTypeOK
  <2> QED
    BY <1>4, <2>3, <2>4, <2>5, OutsideScan DEF StopServer
<1>5. CASE proxy_pause
  <2>1. Typed'
    BY <1>5 DEF proxy_pause, Typed, checkVars, CheckTypeOK, scanVars
  <2>2. Starting' /\ ReadyMeansBound' /\ Counted' /\ DownWhenFailing'
    BY <1>5 DEF proxy_pause, checkVars, Starting, ReadyMeansBound, Counted, DownWhenFailing
  <2> QED
    BY <1>5, <2>1, <2>2, OutsideScan DEF proxy_pause
<1>6. CASE proxy_resume
  <2>1. Typed'
    BY <1>6 DEF proxy_resume, Typed, checkVars, CheckTypeOK, scanVars
  <2>2. Starting' /\ Counted' /\ DownWhenFailing'
    BY <1>6 DEF proxy_resume, checkVars, Starting, Counted, DownWhenFailing
  <2>3. "READY" \in pstate' => \A l \in Listeners : fd'[l] /\ li_state'[l] = "READY"
    BY <1>6 DEF proxy_resume, Starting, ReadyMeansBound, Typed
  <2>4. ReadyMeansBound'
    BY <2>3 DEF ReadyMeansBound
  <2> QED
    BY <1>6, <2>1, <2>2, <2>4, OutsideScan DEF proxy_resume
<1> QED
  BY <1>1, <1>2, <1>3, <1>4, <1>5, <1>6 DEF Admin
LEMMA CheckInv ==
    ASSUME ProxyInv, Check
    PROVE  ProxyInv'
<1>1. CheckTypeOK' /\ Counted' /\ DownWhenFailing'
  BY CheckStep DEF ProxyInv, Typed, Check
<1>2. UNCHANGED <<proxyVars, cur_conns, scanVars>>
  BY DEF Check
<1>3. Typed' /\ Starting' /\ ReadyMeansBound'
  BY <1>1, <1>2 DEF proxyVars, scanVars, ProxyInv, Typed, Starting, ReadyMeansBound
<1> QED
  BY <1>1, <1>2, <1>3, OutsideScan DEF ProxyInv

\* What the scan of d leaves alone, and where it may go.
LEMMA ScanInv ==
    ASSUME ProxyInv, NEW d \in Dispatchers,
           UNCHANGED <<checkVars, proxyVars, cur_conns>>,
           NEW l \in {"idle", "count", "pick", "least", "load", "return"}, NEW p \in Servers, NEW c,
           NEW b \in Servers \cup {None}, Scan(d, l, p, c, b),
           \A s \in Servers : b = s \/ (l = "load" /\ p = s) =>
              d \in Pending(s) \/ cur_conns[s] < MaxConns[s]
    PROVE  ProxyInv'
<1>1. /\ pc'[d] = l /\ pos'[d] = p /\ best'[d] = b
      /\ \A e \in Dispatchers \ {d} : pc'[e] = pc[e] /\ pos'[e] = pos[e] /\ best'[e] = best[e]
  BY DEF Scan, ProxyInv, Typed
<1>2. Typed'
  BY DEF Scan, ProxyInv, Typed, CheckTypeOK, checkVars, proxyVars
<1>3. Counted' /\ Starting' /\ ReadyMeansBound' /\ DownWhenFailing'
  BY DEF ProxyInv, checkVars, proxyVars, Counted, Starting, ReadyMeansBound, DownWhenFailing
<1>4. Committed'
  BY <1>1, ScanPending DEF ProxyInv
<1> QED
  BY <1>2, <1>3, <1>4 DEF ProxyInv

LEMMA DispatchInv ==
    ASSUME ProxyInv, NEW d \in Dispatchers, Dispatch(d)
    PROVE  ProxyInv'
<1>1. /\ pos[d] \in Servers /\ (pos[d] < NS => pos[d] + 1 \in Servers) /\ 1 \in Servers
      /\ best[d] \in Servers \cup {None} /\ None \notin Servers
  BY NextServer, ServerCheckAssumption DEF ProxyInv, Typed, Servers, None
<1>2. CASE proxy_select_server(d)
  <2>1. UNCHANGED <<checkVars, proxyVars, cur_conns>>
    BY <1>2 DEF proxy_select_server
  <2>2. PICK l \in {"count", "least"} : Scan(d, l, 1, 0, None)
    BY <1>2 DEF proxy_select_server
  <2> QED
    BY <1>1, <2>1, <2>2, ScanInv
<1>3. CASE CountUsable(d)
  <2>1. UNCHANGED <<checkVars, proxyVars, cur_conns>>
    BY <1>3 DEF CountUsable, ScanOnly
  <2>2. \E l \in {"count", "pick", "return"}, p \in Servers : \E c : Scan(d, l, p, c, None)
    BY <1>1, <1>3 DEF CountUsable
  <2> QED
    BY <1>1, <2>1, <2>2, ScanInv
<1>4. CASE PickUsable(d)
  <2>1. UNCHANGED <<checkVars, proxyVars, cur_conns>>
    BY <1>4 DEF PickUsable, ScanOnly
  <2>2. \/ Scan(d, "return", 1, 0, pos[d]) /\ cur_conns[pos[d]] < MaxConns[pos[d]]
        \/ \E l \in {"pick", "return"}, p \in Servers : \E c : Scan(d, l, p, c, None)
    BY <1>1, <1>4 DEF PickUsable, server_is_usable
  <2> QED
    BY <1>1, <2>1, <2>2, ScanInv
<1>5. ASSUME NEW b \in Servers \cup {None}, LeastNext(d, b),
             UNCHANGED <<checkVars, proxyVars, cur_conns>>, b # None => d \in Pending(b)
      PROVE  ProxyInv'
  <2>1. \E l \in {"least", "return"}, p \in Servers : Scan(d, l, p, 0, b)
    BY <1>1, <1>5 DEF LeastNext
  <2> QED
    BY <1>1, <1>5, <2>1, ScanInv
<1>6. best[d] # None => d \in Pending(best[d])
  BY DEF Pending
<1>7. CASE LeastUsable(d)
  <2>1. UNCHANGED <<checkVars, proxyVars, cur_conns>>
    BY <1>7 DEF LeastUsable, ScanOnly
  <2>2. CASE server_is_usable(pos[d])
    <3>1. Scan(d, "load", pos[d], 0, best[d]) /\ cur_conns[pos[d]] < MaxConns[pos[d]]
      BY <1>7, <2>2 DEF LeastUsable, server_is_usable
    <3> QED
      BY <1>1, <1>6, <2>1, <3>1, ScanInv
  <2>3. CASE ~server_is_usable(pos[d])
    <3>1. LeastNext(d, best[d])
      BY <1>7, <2>3 DEF LeastUsable
    <3> QED
      BY <1>1, <1>5, <1>6, <2>1, <3>1
  <2> QED
    BY <2>2, <2>3
<1>8. CASE LeastLoad(d)
  <2>1. UNCHANGED <<checkVars, proxyVars, cur_conns>>
    BY <1>8 DEF LeastLoad, ScanOnly
  <2>2. LeastNext(d, pos[d]) \/ LeastNext(d, best[d])
    BY <1>8 DEF LeastLoad
  <2>3. d \in Pending(pos[d])
    BY <1>8 DEF LeastLoad, Pending
  <2> QED
    BY <1>1, <1>5, <1>6, <2>1, <2>2, <2>3
<1>9. CASE proxy_dispatch_session(d)
  <2>1. UNCHANGED <<checkVars, proxyVars>>
    BY <1>9 DEF proxy_dispatch_session
  <2>2. Typed'
    BY <1>1, <1>9 DEF proxy_dispatch_session, Scan, ProxyInv, Typed, CheckTypeOK, checkVars, proxyVars
  <2>3. Counted' /\ Starting' /\ ReadyMeansBound' /\ DownWhenFailing'
    BY <2>1 DEF ProxyInv, checkVars, proxyVars, Counted, Starting, ReadyMeansBound, DownWhenFailing
  <2> QED
    BY <1>9, <2>2, <2>3, DispatchPending DEF ProxyInv
<1> QED
  BY <1>2, <1>3, <1>4, <1>7, <1>8, <1>9 DEF Dispatch

LEMMA ProxyNextInv == ProxyInv /\ [Next]_vars => ProxyInv'
<1> SUFFICES ASSUME ProxyInv, [Next]_vars PROVE ProxyInv'
  OBVIOUS
<1>1. CASE UNCHANGED vars
  <2>1. UNCHANGED <<checkVars, proxyVars, cur_conns, scanVars>>
    BY <1>1 DEF vars
  <2>2. Typed'
    BY <2>1 DEF checkVars, proxyVars, scanVars, ProxyInv, Typed, CheckTypeOK
  <2>3. Counted' /\ Starting' /\ ReadyMeansBound' /\ DownWhenFailing'
    BY <2>1 DEF checkVars, proxyVars, ProxyInv, Counted, Starting, ReadyMeansBound, DownWhenFailing
  <2> QED
    BY <2>1, <2>2, <2>3, OutsideScan DEF ProxyInv
<1> QED
  BY <1>1, CheckInv, AdminInv, DispatchInv DEF Next

LEMMA ProxyInvariant == Spec => []ProxyInv
  BY ProxyInitInv, ProxyNextInv, PTL DEF Spec
------------------------------------------------------------------------------
\* However many dispatchers test cur_conns before any of them adds to it, a
\* server gets fewer sessions above max_conns than there are dispatchers.
THEOREM SessionsBounded == Spec => []Overshoot
<1>1. ProxyInv => Overshoot
  <2> SUFFICES ASSUME ProxyInv, NEW s \in Servers
               PROVE  cur_conns[s] <= MaxConns[s] + Cardinality(Dispatchers) - 1
    BY DEF Overshoot
  <2>1. cur_conns[s] \in Nat /\ MaxConns[s] \in Nat
    BY ProxyAssumption DEF ProxyInv, Typed
  <2> QED
    BY <2>1, PendingCount DEF ProxyInv, Committed
<1> QED
  BY <1>1, ProxyInvariant, PTL

\* Fall bad reports in a row leave a server down until proxy_start.
THEOREM FailingServerDown == Spec => []DownWhenFailing
<1>1. ProxyInv => DownWhenFailing
  BY DEF ProxyInv
<1> QED
  BY <1>1, ProxyInvariant, PTL

\* A READY proxy has a socket on every listener, whatever bind failed before.
THEOREM ReadyProxyBound == Spec => []ReadyMeansBound
<1>1. ProxyInv => ReadyMeansBound
  BY DEF ProxyInv
<1> QED
  BY <1>1, ProxyInvariant, PTL

\* set_server_check_status moves a server only after Rise good or Fall bad reports
\* in a row, whatever the administrator did in between.
THEOREM MovesHaveCause == Spec => MovedForCause
<1> DEFINE Caused == \A s \in Servers : by'[s] = "report" /\ cur_state'[s] # cur_state[s] =>
                        IF cur_state'[s] = "RUNNING" THEN okRun'[s] = Rise ELSE badRun'[s] = Fall
<1>1. ProxyInv /\ [Next]_vars => [Caused]_checkVars
  <2> SUFFICES ASSUME ProxyInv, [Next]_vars PROVE [Caused]_checkVars
    OBVIOUS
  <2>1. CASE Check
    BY <2>1, CheckStep DEF ProxyInv, Typed, Check
  <2>2. CASE StartServer
    BY <2>2 DEF StartServer, ProxyInv, Typed, CheckTypeOK
  <2>3. CASE StopServer
    BY <2>3 DEF StopServer, ProxyInv, Typed, CheckTypeOK
  <2>4. CASE proxy_start \/ proxy_stop \/ proxy_pause \/ proxy_resume
    BY <2>4 DEF proxy_start, proxy_stop, proxy_pause, proxy_resume
  <2>5. ASSUME NEW d \in Dispatchers, Dispatch(d)
        PROVE  UNCHANGED checkVars
    BY <2>5 DEF Dispatch, proxy_select_server, CountUsable, PickUsable, LeastUsable, LeastLoad,
               proxy_dispatch_session, ScanOnly
  <2>6. CASE UNCHANGED vars
    BY <2>6 DEF vars
  <2> QED
    BY <2>1, <2>2, <2>3, <2>4, <2>5, <2>6 DEF Next, Admin
<1> QED
  BY <1>1, ProxyInvariant, PTL DEF Spec, MovedForCause
==============================================================================
