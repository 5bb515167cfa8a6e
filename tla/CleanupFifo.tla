----------------------------- MODULE CleanupFifo -----------------------------
(***************************************************************************)
(* What the cleanup queue promises its callers: a bounded first-in         *)
(* first-out queue of connections.  An enqueue on a full queue is refused  *)
(* and changes nothing; a dequeue returns the oldest connection, or no     *)
(* connection exactly when the queue is empty.  CleanupQueue, the ring     *)
(* buffer of lb_net.c, is shown to implement this specification, and Relay *)
(* uses the queue at this level.                                           *)
(***************************************************************************)
EXTENDS Naturals, Sequences

CONSTANTS
    Conns,      \* the connections that may be queued
    Capacity,   \* how many connections fit
    NULL        \* the value a dequeue of an empty queue returns

VARIABLES
    fifo,       \* the queued connections, oldest first
    ret         \* what the last call returned

vars == <<fifo, ret>>

Init ==
    /\ fifo = << >>
    /\ ret = NULL

Enqueue(c) ==
    /\ Len(fifo) < Capacity
    /\ fifo' = Append(fifo, c)
    /\ ret' = TRUE

Refuse ==
    /\ Len(fifo) = Capacity
    /\ ret' = FALSE
    /\ UNCHANGED fifo

Dequeue ==
    /\ fifo # << >>
    /\ ret' = Head(fifo)
    /\ fifo' = Tail(fifo)

Nothing ==
    /\ fifo = << >>
    /\ ret' = NULL
    /\ UNCHANGED fifo

Next ==
    \/ \E c \in Conns : Enqueue(c)
    \/ Refuse
    \/ Dequeue
    \/ Nothing

Spec == Init /\ [][Next]_vars

==============================================================================
