--------------------------- MODULE MCCleanupQueue ---------------------------
(***************************************************************************)
(* The ring with four slots and three connections: head and tail wrap      *)
(* independently of each other, the ring fills up, and stale slots of      *)
(* every content lie behind head.                                          *)
(***************************************************************************)
EXTENDS CleanupQueue

CONSTANTS c1, c2, c3

MCConns == {c1, c2, c3}

=============================================================================
