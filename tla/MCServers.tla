----------------------------- MODULE MCServers -----------------------------
(***************************************************************************)
(* Small instances of the two ways to servers beside the relay: the proxy    *)
(* with its checked servers and the database router with its pool. They      *)
(* share no state: a behaviour is of one of them, and the other stays as it  *)
(* starts.                                                                   *)
(***************************************************************************)
EXTENDS Proxy, DbRouter, TLC

CONSTANTS Parts, d1, d2, c1, c2, c3

VARIABLE part

TwoDispatchers == {d1, d2}
Types == <<"TCP", "HTTP">>
Expect == <<FALSE, FALSE>>
Conns == <<1, 2>>
AllAlgos == {"ROUNDROBIN", "LEASTCONN", "SOURCE"}

ThreeClients == {c1, c2, c3}
Roles == <<"replica", "primary", "replica">>

Resp(word) == [len |-> 5, lead |-> "*", fifth |-> 0, whole |-> TRUE, word |-> word]
Sql(lead, fifth) == [len |-> 5, lead |-> lead, fifth |-> fifth, whole |-> TRUE, word |-> "SELECT"]

\* RESP commands, a start-up packet of PostgreSQL, a greeting of MySQL, and a
\* query of each, which the detection does not know.
SomePackets ==
    {Resp("GET"), Resp("SET"), Resp("MULTI"), Resp("EXEC"),
     Sql("000", 0), Sql("ctl", 10), Sql("Q", 0), Sql("ctl", 3)}

Symmetry == Permutations(TwoDispatchers)

AnyInit == part \in Parts /\ Init /\ DbInit /\ (part = "db" => lb_algo = "ROUNDROBIN")

\* The database side ends with its process.
AnyNext ==
    \/ part = "proxy" /\ Next /\ UNCHANGED <<part, dbVars>>
    \/ part = "db" /\ DbNext /\ UNCHANGED <<part, vars>>
    \/ part = "db" /\ ~up /\ UNCHANGED <<part, vars, dbVars>>

AnySpec == AnyInit /\ [][AnyNext]_<<part, vars, dbVars>>
=============================================================================
