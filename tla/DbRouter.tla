------------------------------ MODULE DbRouter ------------------------------
(***************************************************************************)
(* The database router: the sessions of src/database/db_router.c on top of *)
(* DbPool and DbProtocol.  db_router_route_query and db_router_end_session *)
(* hold the router's mutex from end to end, db_pool_acquire included, so   *)
(* each of them is one step.  Time passes in seconds.                      *)
(***************************************************************************)
EXTENDS DbPool, DbProtocol

CONSTANTS
    Clients,       \* the client_session_ids
    Packets,       \* the packets the clients send
    max_sessions,
    MaxTime        \* bound: how many seconds pass

ASSUME DbRouterAssumption ==
    /\ Packets \subseteq Packet
    /\ max_sessions \in Nat
    /\ MaxTime \in Nat

VARIABLES
    sessions,  \* the first session_count entries of router->sessions
    now,       \* time(NULL)
    op         \* history: the call that was the last step, and its result

dbVars == <<poolVars, sessions, now, op>>

Session == [id: Clients, backend: {Null} \cup Backends, tx: BOOLEAN, last: 0 .. MaxTime]
NoOp == [call |-> "none"]

DbTypeOK ==
    /\ PoolTypeOK
    /\ sessions \in Seq(Session)
    /\ now \in 0 .. MaxTime

DbInit ==
    /\ PoolInit
    /\ sessions = <<>>
    /\ now = 0
    /\ op = NoOp

\* The index of the session of c in ss, 0 for NULL.
db_router_find_session(ss, c) ==
    LET found == {i \in 1 .. Len(ss) : ss[i].id = c}
    IN  IF found = {} THEN 0 ELSE Min(found)

\* Mutant: a session in a transaction can be evicted.
CreateEvictingAny(c) ==
    LET new == [id |-> c, backend |-> Null, tx |-> FALSE, last |-> now]
        oldest == CHOOSE i \in DOMAIN sessions : \A j \in DOMAIN sessions :
                     sessions[i].last < sessions[j].last \/ (sessions[i].last = sessions[j].last /\ i <= j)
    IN  IF Len(sessions) < max_sessions THEN Append(sessions, new)
        ELSE IF sessions = <<>> THEN sessions
        ELSE [sessions EXCEPT ![oldest] = new]

\* The sessions with one for c: a new entry, or that of the session without a
\* transaction that was active longest ago; no entry if there is none.
db_router_create_session(c) ==
    LET new  == [id |-> c, backend |-> Null, tx |-> FALSE, last |-> now]
        free == {i \in DOMAIN sessions : ~sessions[i].tx}
        oldest == CHOOSE i \in free : \A j \in free :
                     sessions[i].last < sessions[j].last \/ (sessions[i].last = sessions[j].last /\ i <= j)
    IN  IF Len(sessions) < max_sessions THEN Append(sessions, new)
        ELSE IF free = {} THEN sessions
        ELSE [sessions EXCEPT ![oldest] = new]

\* The effect of the query type on its session.
Begun(s, type) ==
    [s EXCEPT !.tx = (@ \/ type = "BEGIN") /\ type # "END",
              !.backend = IF type = "END" THEN Null ELSE @,
              !.last = now]

db_router_route_query(c, p) ==
    LET info  == QueryInfo(p)
        wants == info.sticky \/ info.type = "BEGIN"
        with  == IF db_router_find_session(sessions, c) = 0 /\ wants
                 THEN db_router_create_session(c) ELSE sessions
        i     == db_router_find_session(with, c)
        s     == Begun(with[i], info.type)
        bound == IF i # 0 /\ (s.tx \/ info.sticky) THEN s.backend ELSE Null
    IN  /\ up
        /\ db_protocol_detect(p) # "UNKNOWN"
        /\ \E r \in acquire(info.type, bound) :
              /\ Acquired(r)
              /\ sessions' = IF i = 0 THEN with
                             ELSE [with EXCEPT ![i] =
                                     IF r > 0 /\ s.backend = Null THEN [s EXCEPT !.backend = r] ELSE s]
              /\ op' = [call |-> info.type, client |-> c, bound |-> bound, result |-> r,
                        tx |-> i # 0 /\ s.tx]
        /\ UNCHANGED now

\* A packet of no known protocol gets no connection.
RouteUnknown(c, p) ==
    /\ up
    /\ db_protocol_detect(p) = "UNKNOWN"
    /\ op' = NoOp
    /\ UNCHANGED <<poolVars, sessions, now>>

db_router_end_session(c) ==
    LET i == db_router_find_session(sessions, c)
    IN  /\ up
        /\ sessions' = IF i = 0 THEN sessions
                       ELSE [j \in 1 .. Len(sessions) - 1 |->
                               IF j < i THEN sessions[j] ELSE sessions[j + 1]]
        /\ op' = [call |-> "end_session", client |-> c]
        /\ UNCHANGED <<poolVars, now>>

Pool == (add_backend \/ release) /\ op' = NoOp /\ UNCHANGED <<sessions, now>>

Tick == up /\ now < MaxTime /\ now' = now + 1 /\ op' = NoOp /\ UNCHANGED <<poolVars, sessions>>

DbNext ==
    \/ Pool
    \/ Tick
    \/ \E c \in Clients : db_router_end_session(c)
    \/ \E c \in Clients, p \in Packets : db_router_route_query(c, p) \/ RouteUnknown(c, p)

-----------------------------------------------------------------------------
SessionOf(c) == {sessions[i] : i \in {j \in DOMAIN sessions : sessions[j].id = c}}
InTransaction(c) == \E s \in SessionOf(c) : s.tx

\* What the other clients send never ends a transaction: a session leaves the
\* transaction only by the end of its own transaction or of its own session,
\* and keeps its backend meanwhile.
TransactionKept ==
    [][\A c \in Clients : InTransaction(c) =>
          IF InTransaction(c)'
          THEN \A s \in SessionOf(c), t \in SessionOf(c)' : s.backend # Null => t.backend = s.backend
          ELSE op'.call \in {"END", "end_session"} /\ op'.client = c]_dbVars

\* db_router_create_session takes the entry of the session that was active
\* longest ago among those without a transaction.
EvictsOldest ==
    [][\A i \in DOMAIN sessions :
          i \in DOMAIN sessions' /\ op'.call = "BEGIN" /\ sessions'[i].id # sessions[i].id =>
             \A j \in DOMAIN sessions : sessions[j].tx \/ sessions[j].last >= sessions[i].last]_dbVars

\* A client in a transaction is only given connections to a primary.
PrimaryInTransaction ==
    op.call \in {"READ", "WRITE", "BEGIN", "UNKNOWN"} /\ op.tx /\ op.result > 0
        => Role[op.result] = "primary"

\* A transaction is safe from the other clients: they do not end it, move it or
\* take its session, even when the table is full, and it stays on a primary.
TransactionSafe == TransactionKept /\ EvictsOldest /\ []PrimaryInTransaction

\* A query of a transaction that has a backend goes to that backend, or gets no
\* connection when the pool is exhausted.
TransactionServed ==
    op.call \in {"READ", "WRITE", "BEGIN", "UNKNOWN"} /\ op.tx /\ op.bound # Null
        => op.result \in {op.bound, Null}
=============================================================================
