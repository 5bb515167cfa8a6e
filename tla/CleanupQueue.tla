---------------------------- MODULE CleanupQueue ----------------------------
(***************************************************************************)
(* The cleanup queue of src/network/lb_net.c: a ring of                    *)
(* CLEANUP_QUEUE_SIZE slots in which one slot always stays empty, so that  *)
(* head = tail means "empty" and never "full".  Both operations run under  *)
(* queue->lock from the first load to the last store, so each is one       *)
(* atomic step whichever worker calls it.  A dequeue does not clear the    *)
(* slot it reads: the stale pointer stays behind until it is overwritten.  *)
(***************************************************************************)
EXTENDS Integers, Sequences

CONSTANTS
    Conns,                \* the connections that may be queued
    CLEANUP_QUEUE_SIZE,   \* number of slots (1024 in the code)
    NULL                  \* the null connection pointer

ASSUME QueueSizeAssumption == CLEANUP_QUEUE_SIZE \in Nat \ {0, 1}

ASSUME NullAssumption == NULL \notin Conns

VARIABLES
    head,     \* index of the oldest queued connection
    tail,     \* index of the next slot to write
    queue,    \* the slots
    ret       \* what the last call returned

vars == <<head, tail, queue, ret>>

Slots == 0 .. CLEANUP_QUEUE_SIZE - 1

TypeOK ==
    /\ head \in Slots
    /\ tail \in Slots
    /\ queue \in [Slots -> Conns \cup {NULL}]
    /\ ret \in Conns \cup {NULL, TRUE, FALSE}

\* The queue is calloc'ed and its indices are stored as 0.
Init ==
    /\ head = 0
    /\ tail = 0
    /\ queue = [i \in Slots |-> NULL]
    /\ ret = NULL

Succ(i) == (i + 1) % CLEANUP_QUEUE_SIZE

\* Mutant: the test for a full queue is dropped.
EnqueueNoFullTest(c) ==
    /\ queue' = [queue EXCEPT ![tail] = c]
    /\ tail' = Succ(tail)
    /\ ret' = TRUE
    /\ UNCHANGED head

Enqueue(c) ==
    \/ /\ Succ(tail) # head
       /\ queue' = [queue EXCEPT ![tail] = c]
       /\ tail' = Succ(tail)
       /\ ret' = TRUE
       /\ UNCHANGED head
    \/ /\ Succ(tail) = head
       /\ ret' = FALSE
       /\ UNCHANGED <<head, tail, queue>>

Dequeue ==
    \/ /\ head # tail
       /\ ret' = queue[head]
       /\ head' = Succ(head)
       /\ UNCHANGED <<tail, queue>>
    \/ /\ head = tail
       /\ ret' = NULL
       /\ UNCHANGED <<head, tail, queue>>

Next ==
    \/ \E c \in Conns : Enqueue(c)
    \/ Dequeue

Spec == Init /\ [][Next]_vars

-----------------------------------------------------------------------------
\* The number of queued connections, and the slot of the i-th oldest.
Count == IF head <= tail THEN tail - head ELSE tail - head + CLEANUP_QUEUE_SIZE

SlotOf(i) ==
    IF head + i - 1 < CLEANUP_QUEUE_SIZE
    THEN head + i - 1
    ELSE head + i - 1 - CLEANUP_QUEUE_SIZE

Contents == [i \in 1 .. Count |-> queue[SlotOf(i)]]

Fifo == INSTANCE CleanupFifo
            WITH fifo <- Contents, Capacity <- CLEANUP_QUEUE_SIZE - 1

(* The ring buffer (lb_net.c:19-62) behaves as a first-in first-out queue  *)
(* that holds CLEANUP_QUEUE_SIZE - 1 connections: no wrap-around of head   *)
(* or tail ever loses, reorders, repeats or overwrites a queued            *)
(* connection, an enqueue fails only on a full queue, and a dequeue        *)
(* returns NULL only on an empty one.                                      *)
ImplementsFifo == Fifo!Spec

(* Every slot between head and tail holds a connection: a dequeue hands    *)
(* process_cleanup_queue (lb_net.c:70) NULL only to say that the queue is  *)
(* empty, so draining never stops early on a hole in the ring.             *)
NoHole == \A i \in 1 .. Count : Contents[i] \in Conns

=============================================================================
