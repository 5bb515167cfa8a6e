------------------------------- MODULE DbPool -------------------------------
(***************************************************************************)
(* The connection pool of the databases: src/database/db_pool.cpp.         *)
(*                                                                         *)
(* Every method holds mutex_, so each is one step.  get_backend_by_id,     *)
(* which is noexcept, locks mutex_ again: called by acquire or release,    *)
(* which hold it, the lock throws and the process terminates.  release     *)
(* therefore never comes to put a connection back, idle_connections_ stays *)
(* empty and the counters never go down.  No code changes is_healthy_ or   *)
(* the lag of a backend.                                                   *)
(***************************************************************************)
EXTENDS Integers, Sequences, FiniteSets, FiniteSetsExt

CONSTANTS
    Role,              \* the backends in the order they are added
    max_connections

Backends == DOMAIN Role
Null == 0
Abort == -1

ASSUME DbPoolAssumption ==
    /\ Role \in Seq({"primary", "replica"})
    /\ max_connections \in Nat

VARIABLES
    added,   \* how many backends the pool has
    active,  \* backend->active_connections_
    total,   \* total_connections_
    up       \* the process runs

poolVars == <<added, active, total, up>>

PoolTypeOK ==
    /\ added \in 0 .. Cardinality(Backends)
    /\ active \in [Backends -> Nat]
    /\ total \in Nat
    /\ up \in BOOLEAN

\* db_pool_create.
PoolInit ==
    /\ added = 0
    /\ active = [b \in Backends |-> 0]
    /\ total = 0
    /\ up = TRUE

Having(role) == {b \in Backends : b <= added /\ Role[b] = role}

select_primary == IF Having("primary") = {} THEN Null ELSE Min(Having("primary"))

select_replica ==
    IF Having("replica") = {}
    THEN select_primary
    ELSE CHOOSE b \in Having("replica") :
            \A c \in Having("replica") : active[b] < active[c] \/ (active[b] = active[c] /\ b <= c)

select_backend(type) == IF type = "READ" THEN select_replica ELSE select_primary

\* What db_pool_acquire can return.  It ends the process for a session that
\* has a backend (get_backend_by_id), with no backend to select (a null
\* pointer is an optional with a value) and when the connection fails (the
\* null unique_ptr is a value too): both are dereferenced.
acquire(type, session_backend) ==
    IF session_backend > 0 \/ select_backend(type) = Null THEN {Abort}
    ELSE IF total >= max_connections THEN {Null}
    ELSE {Abort, select_backend(type)}

\* The counters after db_pool_acquire returned r.
Acquired(r) ==
    /\ active' = IF r > 0 THEN [active EXCEPT ![r] = @ + 1] ELSE active
    /\ total' = IF r > 0 THEN total + 1 ELSE total
    /\ up' = (r # Abort)
    /\ UNCHANGED added

add_backend ==
    /\ up
    /\ added < Cardinality(Backends)
    /\ added' = added + 1
    /\ UNCHANGED <<active, total, up>>

\* db_pool_release of a connection, up to the lock in get_backend_by_id.
release ==
    /\ up
    /\ total > 0
    /\ up' = FALSE
    /\ UNCHANGED <<added, active, total>>
=============================================================================
