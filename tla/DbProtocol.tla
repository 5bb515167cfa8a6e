----------------------------- MODULE DbProtocol -----------------------------
(***************************************************************************)
(* What the database router makes of the bytes of a client:                *)
(* src/database/db_protocol.c.                                             *)
(*                                                                         *)
(* A packet is what the code tells apart of one: its length (5 stands for  *)
(* five bytes or more), its leading bytes ("000" three zero bytes, "ctl"   *)
(* another byte below 0x20, "*" and "sig" the marks of RESP), its fifth    *)
(* byte, whether all of the announced length is there, and the first word  *)
(* of the statement or the RESP command.                                   *)
(***************************************************************************)
EXTENDS Naturals

Packet == [len: 0 .. 5, lead: {"000", "ctl", "Q", "*", "sig", "other"},
           fifth: {0, 3, 9, 10}, whole: BOOLEAN, word: STRING]

db_protocol_detect(p) ==
    CASE p.len < 4 -> "UNKNOWN"
      [] p.len >= 4 /\ p.lead = "000" -> "POSTGRESQL"
      [] p.len >= 5 /\ p.lead = "ctl" /\ p.fifth \in {9, 10} -> "MYSQL"
      [] p.len >= 4 /\ p.lead \in {"*", "sig"} -> "REDIS"
      [] OTHER -> "UNKNOWN"

\* By the first word: none of those the code compares with begins another.
db_protocol_classify_query(word) ==
    CASE word \in {"BEGIN", "START"} -> "BEGIN"
      [] word \in {"COMMIT", "ROLLBACK"} -> "END"
      [] word = "SET" -> "SESSION_VAR"
      [] word \in {"SELECT", "SHOW"} -> "READ"
      [] word \in {"INSERT", "UPDATE", "DELETE"} -> "WRITE"
      [] OTHER -> "UNKNOWN"

\* query_type and requires_sticky of the db_query_info_t filled in.
Statement(word) ==
    LET t == db_protocol_classify_query(word)
    IN  [type |-> t, sticky |-> t \in {"BEGIN", "SESSION_VAR"}]

NoStatement == [type |-> "UNKNOWN", sticky |-> FALSE]

db_protocol_parse_postgresql(p) ==
    IF p.len >= 5 /\ p.lead = "Q" /\ p.whole THEN Statement(p.word) ELSE NoStatement

db_protocol_parse_mysql(p) ==
    IF p.len >= 5 /\ p.fifth = 3 /\ p.whole THEN Statement(p.word) ELSE NoStatement

\* Every command of four letters or more that starts with M and has a T in the
\* fourth place counts as MULTI.
db_protocol_parse_redis(p) ==
    CASE p.lead = "*" /\ p.word \in {"SET", "SETEX", "SETNX"} -> [type |-> "WRITE", sticky |-> FALSE]
      [] p.lead = "*" /\ p.word \in {"MULTI", "MGET", "MSET"} -> [type |-> "BEGIN", sticky |-> TRUE]
      [] p.lead = "*" /\ p.word = "EXEC" -> [type |-> "END", sticky |-> FALSE]
      [] OTHER -> [type |-> "READ", sticky |-> FALSE]

\* The switch of db_router_route_query.
QueryInfo(p) ==
    CASE db_protocol_detect(p) = "POSTGRESQL" -> db_protocol_parse_postgresql(p)
      [] db_protocol_detect(p) = "MYSQL" -> db_protocol_parse_mysql(p)
      [] db_protocol_detect(p) = "REDIS" -> db_protocol_parse_redis(p)
=============================================================================
