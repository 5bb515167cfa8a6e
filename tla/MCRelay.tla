------------------------------- MODULE MCRelay -------------------------------
(***************************************************************************)
(* Small instances of the relay.                                           *)
(***************************************************************************)
EXTENDS Relay

CONSTANTS w1, w2, c1, c2, b1

OneWorker == {w1}
TwoWorkers == {w1, w2}
OneConn == {c1}
TwoConns == {c1, c2}
OneBackend == {b1}

==============================================================================
