-------------------------------- MODULE Relay --------------------------------
(***************************************************************************)
(* The TCP relay of src/network/lb_net.c: worker_thread_v2 and everything  *)
(* it does to a connection, from accept4 to the last free.                 *)
(*                                                                         *)
(* All workers wait on one epoll instance.  The client socket and the      *)
(* backend socket of a connection are registered separately, each with     *)
(* EPOLLONESHOT and a wrapper of its own that points back to the           *)
(* connection; no lock protects a connection.  A worker that decides to    *)
(* close a connection closes both sockets, clears the wrappers' back       *)
(* pointers and puts the connection on the cleanup queue; whichever worker *)
(* next starts an iteration frees what is on the queue.                    *)
(*                                                                         *)
(* One step of the model is one system call, one atomic counter update or  *)
(* one group of plain field accesses of the code.  Accept and Connect are  *)
(* one step each: until its last system call registers the new socket, no  *)
(* other worker gets an event of it.  Bytes are abstracted to "something   *)
(* is buffered for this side"; what recv, send, connect and epoll report   *)
(* is chosen freely among the outcomes the code tells apart.               *)
(* A connection stands for one allocation: its identity is not reused      *)
(* after the free, and neither are its descriptors.                        *)
(***************************************************************************)
EXTENDS Integers, Sequences, FiniteSets

CONSTANTS
    Workers,       \* the worker threads (option -w)
    Conns,         \* the connections accepted in a behaviour
    Backends,      \* what lb_select_backend may return
    NoBackend,     \* conn->backend = NULL
    QueueSize,     \* CLEANUP_QUEUE_SIZE
    MaxEvents      \* MAX_EVENTS, the size of a worker's event array

ASSUME SizesAssumption ==
    /\ QueueSize \in Nat \ {0, 1}
    /\ MaxEvents \in Nat \ {0}
    /\ IsFiniteSet(Conns) /\ Conns # {}

ASSUME NoBackendAssumption == NoBackend \notin Backends

VARIABLES
    running,             \* lb->running
    heap,                \* has the connection been allocated, or freed
    open,                \* the sides whose descriptor is >= 0
    backend,             \* conn->backend
    pending,             \* the sides for which bytes are buffered
    valid,               \* the wrappers' conn pointers are not NULL
    interest,            \* what epoll is asked to report for each side
    queue,               \* the cleanup queue, oldest first (see CleanupFifo)
    active_connections,  \* lb->global_stats.active_connections
    active_conns,        \* backend->active_conns
    pc,                  \* where each worker is
    batch,               \* events of the last epoll_wait not yet handled
    accepting,           \* the listen socket is among those events
    cur,                 \* the event the worker is handling
    mask                 \* the interest it is about to re-arm with

connVars == <<heap, open, backend, pending, valid, interest>>
countVars == <<active_connections, active_conns>>
workerVars == <<pc, batch, accepting, cur, mask>>
vars == <<running, connVars, queue, countVars, workerVars>>

Sides == {"client", "backend"}

\* How epoll watches a descriptor: not registered, registered but disabled
\* by EPOLLONESHOT, for EPOLLIN, for EPOLLIN | EPOLLOUT.
Interests == {"none", "off", "in", "inout"}

\* Which branch of worker_thread_v2 an event takes: HUP or ERR before OUT
\* before IN.
Kinds == {"err", "out", "in"}

Events == [conn : Conns, side : Sides, kind : Kinds]

Labels == {"loop", "drain", "wait", "event", "flush", "recv", "connect",
           "send", "rearm", "modify", "close", "uncount", "invalidate",
           "enqueue", "leave", "exit"}

\* Where a worker is about to use the connection of its current event.
Using == Labels \ {"loop", "drain", "wait", "event", "leave", "exit"}

Other(s) == IF s = "client" THEN "backend" ELSE "client"

\* The side that the handler called for event e writes to: a readable socket
\* is forwarded to the other one, a writable socket is written to.
Dest(e) == IF e.kind = "out" THEN e.side ELSE Other(e.side)

TypeOK ==
    /\ running \in BOOLEAN
    /\ heap \in [Conns -> {"unused", "live", "freed"}]
    /\ open \in [Conns -> SUBSET Sides]
    /\ backend \in [Conns -> Backends \cup {NoBackend}]
    /\ pending \in [Conns -> SUBSET Sides]
    /\ valid \in [Conns -> BOOLEAN]
    /\ interest \in [Conns -> [Sides -> Interests]]
    /\ queue \in Seq(Conns)
    /\ active_connections \in Int
    /\ active_conns \in [Backends -> Int]
    /\ pc \in [Workers -> Labels]
    /\ batch \in [Workers -> SUBSET Events]
    /\ accepting \in [Workers -> BOOLEAN]
    /\ cur \in [Workers -> Events]
    /\ mask \in [Workers -> Interests]

Init ==
    /\ running = TRUE
    /\ heap = [c \in Conns |-> "unused"]
    /\ open = [c \in Conns |-> {}]
    /\ backend = [c \in Conns |-> NoBackend]
    /\ pending = [c \in Conns |-> {}]
    /\ valid = [c \in Conns |-> FALSE]
    /\ interest = [c \in Conns |-> [s \in Sides |-> "none"]]
    /\ queue = << >>
    /\ active_connections = 0
    /\ active_conns = [b \in Backends |-> 0]
    /\ pc = [w \in Workers |-> "loop"]
    /\ batch = [w \in Workers |-> {}]
    /\ accepting = [w \in Workers |-> FALSE]
    /\ cur = [w \in Workers |-> CHOOSE e \in Events : TRUE]
    /\ mask = [w \in Workers |-> "none"]

Goto(w, l) == pc' = [pc EXCEPT ![w] = l]

\* EPOLL_CTL_MOD: re-arms a registered descriptor; on a descriptor that is
\* closed or unknown to epoll the call fails and its result is not looked at.
Mod(c, s, m) ==
    interest' = IF interest[c][s] = "none"
                THEN interest
                ELSE [interest EXCEPT ![c][s] = m]

-----------------------------------------------------------------------------
(* The worker's loop.                                                      *)

\* Mutant: the iteration does not begin with process_cleanup_queue.
LoopNoCleanup(w) ==
    /\ pc[w] = "loop"
    /\ Goto(w, IF running THEN "wait" ELSE "exit")
    /\ UNCHANGED <<running, connVars, queue, countVars, batch, accepting, cur, mask>>

Loop(w) ==
    /\ pc[w] = "loop"
    /\ Goto(w, IF running THEN "drain" ELSE "exit")
    /\ UNCHANGED <<running, connVars, queue, countVars, batch, accepting, cur, mask>>

\* process_cleanup_queue, one dequeued connection at a time.
Drain(w) ==
    /\ pc[w] = "drain"
    /\ IF queue = << >>
       THEN /\ Goto(w, "wait")
            /\ UNCHANGED <<heap, queue>>
       ELSE /\ heap' = [heap EXCEPT ![Head(queue)] = "freed"]
            /\ queue' = Tail(queue)
            /\ UNCHANGED pc
    /\ UNCHANGED <<running, open, backend, pending, valid, interest, countVars,
                   batch, accepting, cur, mask>>

\* The sockets epoll may report now, as <<connection, side>>.
Armed == {x \in Conns \X Sides : interest[x[1]][x[2]] \in {"in", "inout"}}

\* epoll_wait: up to MaxEvents events, one per socket, or none on a timeout.
\* EPOLLONESHOT disables every socket that is reported; the listen socket is
\* not registered that way.
EpollWait(w) ==
    /\ pc[w] = "wait"
    /\ \E ready \in SUBSET Armed, listen \in BOOLEAN :
         /\ Cardinality(ready) + (IF listen THEN 1 ELSE 0) <= MaxEvents
         /\ \E kind \in [ready -> Kinds] :
              /\ \A x \in ready : kind[x] = "out" => interest[x[1]][x[2]] = "inout"
              /\ batch' = [batch EXCEPT ![w] =
                    {[conn |-> x[1], side |-> x[2], kind |-> kind[x]] : x \in ready}]
         /\ interest' = [c \in Conns |-> [s \in Sides |->
                IF <<c, s>> \in ready THEN "off" ELSE interest[c][s]]]
         /\ accepting' = [accepting EXCEPT ![w] = listen]
    /\ Goto(w, "event")
    /\ UNCHANGED <<running, heap, open, backend, pending, valid, queue, countVars, cur, mask>>

BatchDone(w) ==
    /\ pc[w] = "event"
    /\ batch[w] = {}
    /\ ~accepting[w]
    /\ Goto(w, "loop")
    /\ UNCHANGED <<running, connVars, queue, countVars, batch, accepting, cur, mask>>

-----------------------------------------------------------------------------
(* The listen socket.                                                      *)

\* accept4 finds nothing, or lb_net_conn_create fails: the counter goes up
\* and down again and no connection remains.
AcceptNothing(w) ==
    /\ pc[w] = "event"
    /\ accepting[w]
    /\ accepting' = [accepting EXCEPT ![w] = FALSE]
    /\ UNCHANGED <<running, connVars, queue, countVars, pc, batch, cur, mask>>

\* A connection is created and its client socket registered.  When the
\* registration fails, lb_net_conn_destroy frees it on the spot.
Accept(w, c) ==
    /\ pc[w] = "event"
    /\ accepting[w]
    /\ heap[c] = "unused"
    /\ \/ /\ heap' = [heap EXCEPT ![c] = "live"]
          /\ open' = [open EXCEPT ![c] = {"client"}]
          /\ valid' = [valid EXCEPT ![c] = TRUE]
          /\ interest' = [interest EXCEPT ![c]["client"] = "in"]
          /\ active_connections' = active_connections + 1
       \/ /\ heap' = [heap EXCEPT ![c] = "freed"]
          /\ UNCHANGED <<open, valid, interest, active_connections>>
    /\ accepting' = [accepting EXCEPT ![w] = FALSE]
    /\ UNCHANGED <<running, backend, pending, queue, active_conns, pc, batch, cur, mask>>

-----------------------------------------------------------------------------
(* One event of a client or backend socket.                                *)

\* Mutant: an event is dispatched without the tests for a closed connection.
DispatchUnchecked(w, e) ==
    /\ pc[w] = "event"
    /\ e \in batch[w]
    /\ batch' = [batch EXCEPT ![w] = @ \ {e}]
    /\ cur' = [cur EXCEPT ![w] = e]
    /\ Goto(w, IF e.kind = "err" THEN "close" ELSE "flush")
    /\ UNCHANGED <<running, connVars, queue, countVars, accepting, mask>>

\* A worker drops the event when the wrapper no longer points to a
\* connection, or the descriptor it is for is closed; HUP and ERR close the
\* connection, anything else calls a handler.
Dispatch(w, e) ==
    /\ pc[w] = "event"
    /\ e \in batch[w]
    /\ batch' = [batch EXCEPT ![w] = @ \ {e}]
    /\ IF valid[e.conn] /\ e.side \in open[e.conn]
       THEN /\ cur' = [cur EXCEPT ![w] = e]
            /\ Goto(w, IF e.kind = "err" THEN "close" ELSE "flush")
       ELSE UNCHANGED <<cur, pc>>
    /\ UNCHANGED <<running, connVars, queue, countVars, accepting, mask>>

\* The first part of both handlers: one send of the bytes buffered for the
\* destination.  Only the handler towards the backend looks at the
\* descriptor first; a send on a closed descriptor is an error.
Flush(w) ==
    LET c == cur[w].conn
        d == Dest(cur[w])
    IN
    /\ pc[w] = "flush"
    /\ IF d \in pending[c] /\ (d = "backend" => d \in open[c])
       THEN \/ /\ d \in open[c]                        \* all of it is sent
               /\ pending' = [pending EXCEPT ![c] = @ \ {d}]
               /\ Mod(c, d, "in")
               /\ Goto(w, "recv")
            \/ /\ d \in open[c]                        \* some of it, or EAGAIN
               /\ Goto(w, "recv")
               /\ UNCHANGED <<pending, interest>>
            \/ /\ Goto(w, "close")                     \* a hard error
               /\ UNCHANGED <<pending, interest>>
       ELSE /\ Goto(w, "recv")
            /\ UNCHANGED <<pending, interest>>
    /\ UNCHANGED <<running, heap, open, backend, valid, queue, countVars,
                   batch, accepting, cur, mask>>

\* The head of the read loop: data to forward,
RecvData(w) ==
    LET c == cur[w].conn
        d == Dest(cur[w])
    IN
    /\ pc[w] = "recv"
    /\ Other(d) \in open[c]
    /\ Goto(w, IF d = "backend" THEN "connect" ELSE "send")
    /\ UNCHANGED <<running, connVars, queue, countVars, batch, accepting, cur, mask>>

\* or EAGAIN, after which the handler succeeds, or end of stream or an error.
RecvDone(w) ==
    /\ pc[w] = "recv"
    /\ \/ /\ Other(Dest(cur[w])) \in open[cur[w].conn]
          /\ Goto(w, "rearm")
       \/ Goto(w, "close")
    /\ UNCHANGED <<running, connVars, queue, countVars, batch, accepting, cur, mask>>

\* The first bytes of a client: a backend is selected, connected to and
\* registered.  No backend and a failed connect leave conn->backend alone; a
\* failed registration does not.
Connect(w) ==
    LET c == cur[w].conn IN
    /\ pc[w] = "connect"
    /\ \/ /\ "backend" \in open[c]
          /\ Goto(w, "send")
          /\ UNCHANGED <<open, backend, interest, active_conns>>
       \/ /\ "backend" \notin open[c]
          /\ \/ /\ Goto(w, "close")
                /\ UNCHANGED <<open, backend, interest, active_conns>>
             \/ \E b \in Backends :
                  /\ open' = [open EXCEPT ![c] = @ \cup {"backend"}]
                  /\ backend' = [backend EXCEPT ![c] = b]
                  /\ active_conns' = [active_conns EXCEPT ![b] = @ + 1]
                  /\ \/ /\ interest' = [interest EXCEPT ![c]["backend"] = "in"]
                        /\ Goto(w, "send")
                     \/ /\ UNCHANGED interest
                        /\ Goto(w, "close")
    /\ UNCHANGED <<running, heap, pending, valid, queue, active_connections,
                   batch, accepting, cur, mask>>

\* The rest of the read loop's body: what the destination does not take is
\* buffered and its EPOLLOUT requested.
Send(w) ==
    LET c == cur[w].conn
        d == Dest(cur[w])
    IN
    /\ pc[w] = "send"
    /\ \/ /\ d \in open[c]                             \* all of it is sent
          /\ Goto(w, "recv")
          /\ UNCHANGED <<pending, interest>>
       \/ /\ d \in open[c]                             \* EAGAIN, the rest is kept
          /\ pending' = [pending EXCEPT ![c] = @ \cup {d}]
          /\ Mod(c, d, "inout")
          /\ Goto(w, "recv")
       \/ /\ Goto(w, "close")                          \* an error, or no memory
          /\ UNCHANGED <<pending, interest>>
    /\ UNCHANGED <<running, heap, open, backend, valid, queue, countVars,
                   batch, accepting, cur, mask>>

\* handle_backend_to_client consists of these steps; handle_client_to_backend
\* is its mirror image with Connect in the loop.  Dest gives the direction,
\* and the two differ where Flush and RecvData ask for "backend".
Forward(w) == Flush(w) \/ RecvData(w) \/ RecvDone(w) \/ Send(w)

-----------------------------------------------------------------------------
(* After the handler: the connection stays open.                           *)

\* Mutant: the buffered bytes are not looked at.
RearmReadOnly(w) ==
    LET c == cur[w].conn
        s == cur[w].side
    IN
    /\ pc[w] = "rearm"
    /\ IF s \in open[c]
       THEN /\ mask' = [mask EXCEPT ![w] = "in"]
            /\ Goto(w, "modify")
       ELSE /\ Goto(w, "event")
            /\ UNCHANGED mask
    /\ UNCHANGED <<running, connVars, queue, countVars, batch, accepting, cur>>

\* Mutant: a socket that has bytes buffered is only watched for writing.
RearmWriteOnly(w) ==
    LET c == cur[w].conn
        s == cur[w].side
    IN
    /\ pc[w] = "rearm"
    /\ IF s \in open[c]
       THEN /\ mask' = [mask EXCEPT ![w] = IF s \in pending[c] THEN "out" ELSE "in"]
            /\ Goto(w, "modify")
       ELSE /\ Goto(w, "event")
            /\ UNCHANGED mask
    /\ UNCHANGED <<running, connVars, queue, countVars, batch, accepting, cur>>

\* The worker decides what to re-arm the event's socket with ...
Rearm(w) ==
    LET c == cur[w].conn
        s == cur[w].side
    IN
    /\ pc[w] = "rearm"
    /\ IF s \in open[c]
       THEN /\ mask' = [mask EXCEPT ![w] = IF s \in pending[c] THEN "inout" ELSE "in"]
            /\ Goto(w, "modify")
       ELSE /\ Goto(w, "event")
            /\ UNCHANGED mask
    /\ UNCHANGED <<running, connVars, queue, countVars, batch, accepting, cur>>

\* ... and then tells epoll.
Modify(w) ==
    /\ pc[w] = "modify"
    /\ Mod(cur[w].conn, cur[w].side, mask[w])
    /\ Goto(w, "event")
    /\ UNCHANGED <<running, heap, open, backend, pending, valid, queue, countVars,
                   batch, accepting, cur, mask>>

-----------------------------------------------------------------------------
(* After the handler: the connection is closed.                            *)

CloseFds(w) ==
    LET c == cur[w].conn IN
    /\ pc[w] = "close"
    /\ open' = [open EXCEPT ![c] = {}]
    /\ interest' = [interest EXCEPT ![c] =
            [s \in Sides |-> IF s \in open[c] THEN "none" ELSE @[s]]]
    /\ Goto(w, "uncount")
    /\ UNCHANGED <<running, heap, backend, pending, valid, queue, countVars,
                   batch, accepting, cur, mask>>

\* Mutant: only connections without buffered bytes leave the count.
UncountIfFlushed(w) ==
    LET c == cur[w].conn IN
    /\ pc[w] = "uncount"
    /\ active_conns' = [b \in Backends |->
            active_conns[b] - (IF b = backend[c] /\ pending[c] = {} THEN 1 ELSE 0)]
    /\ Goto(w, "invalidate")
    /\ UNCHANGED <<running, connVars, queue, active_connections,
                   batch, accepting, cur, mask>>

\* conn->backend is tested but not cleared.
Uncount(w) ==
    LET c == cur[w].conn IN
    /\ pc[w] = "uncount"
    /\ active_conns' = [b \in Backends |->
            active_conns[b] - (IF b = backend[c] THEN 1 ELSE 0)]
    /\ Goto(w, "invalidate")
    /\ UNCHANGED <<running, connVars, queue, active_connections,
                   batch, accepting, cur, mask>>

Invalidate(w) ==
    /\ pc[w] = "invalidate"
    /\ valid' = [valid EXCEPT ![cur[w].conn] = FALSE]
    /\ Goto(w, "enqueue")
    /\ UNCHANGED <<running, heap, open, backend, pending, interest, queue, countVars,
                   batch, accepting, cur, mask>>

\* Mutant: the free is not deferred.
EnqueueFree(w) ==
    /\ pc[w] = "enqueue"
    /\ heap' = [heap EXCEPT ![cur[w].conn] = "freed"]
    /\ Goto(w, "leave")
    /\ UNCHANGED <<running, open, backend, pending, valid, interest, queue, countVars,
                   batch, accepting, cur, mask>>

\* cleanup_queue_enqueue; when it refuses, the connection is freed at once.
Enqueue(w) ==
    LET c == cur[w].conn IN
    /\ pc[w] = "enqueue"
    /\ IF Len(queue) < QueueSize - 1
       THEN /\ queue' = Append(queue, c)
            /\ UNCHANGED heap
       ELSE /\ heap' = [heap EXCEPT ![c] = "freed"]
            /\ UNCHANGED queue
    /\ Goto(w, "leave")
    /\ UNCHANGED <<running, open, backend, pending, valid, interest, countVars,
                   batch, accepting, cur, mask>>

Leave(w) ==
    /\ pc[w] = "leave"
    /\ active_connections' = active_connections - 1
    /\ Goto(w, "event")
    /\ UNCHANGED <<running, connVars, queue, active_conns, batch, accepting, cur, mask>>

-----------------------------------------------------------------------------
\* lb->running is cleared by main_lb_stop.
Stop ==
    /\ running
    /\ running' = FALSE
    /\ UNCHANGED <<connVars, queue, countVars, workerVars>>

Step(w) ==
    \/ Loop(w)
    \/ Drain(w)
    \/ EpollWait(w)
    \/ BatchDone(w)
    \/ AcceptNothing(w)
    \/ \E c \in Conns : Accept(w, c)
    \/ \E e \in Events : Dispatch(w, e)
    \/ Forward(w)
    \/ Connect(w)
    \/ Rearm(w)
    \/ Modify(w)
    \/ CloseFds(w)
    \/ Uncount(w)
    \/ Invalidate(w)
    \/ Enqueue(w)
    \/ Leave(w)

Next == Stop \/ \E w \in Workers : Step(w)

Spec == Init /\ [][Next]_vars

\* A worker keeps running, and a socket it reads from in a loop is found
\* empty, at end of stream or broken sooner or later.
Fairness == \A w \in Workers : WF_vars(Step(w)) /\ SF_vars(RecvDone(w))

FairSpec == Spec /\ Fairness

-----------------------------------------------------------------------------
(* Properties.                                                             *)

(* No use after free: a worker never uses a connection that was freed,     *)
(* never holds an event whose wrapper was freed, and the cleanup queue     *)
(* never holds a freed connection (it would be freed twice).  This is what *)
(* the deferred free of lb_net.c:811-848 is for.                           *)
NoUseAfterFree ==
    /\ \A w \in Workers :
         /\ pc[w] \in Using => heap[cur[w].conn] = "live"
         /\ \A e \in batch[w] : heap[e.conn] = "live"
    /\ \A i \in 1 .. Len(queue) : heap[queue[i]] = "live"

(* Each connection is released once: while a closed connection is not yet  *)
(* freed, it is held by exactly one of the worker that is closing it and   *)
(* one place of the cleanup queue; nobody else will free it.               *)
Holders(c) ==
    Cardinality({w \in Workers : cur[w].conn = c /\ pc[w] = "enqueue"})
    + Cardinality({i \in 1 .. Len(queue) : queue[i] = c})

ReleasedOnce ==
    \A c \in Conns : heap[c] = "live" /\ ~valid[c] => Holders(c) = 1

(* The statistics are exact: whenever no worker is in the middle of        *)
(* closing a connection, active_connections (lb_net.c:650, 848) is the     *)
(* number of open client sockets, and a backend's active_conns             *)
(* (lb_net.c:294, 808), by which least-conn chooses, is the number of open *)
(* sockets to it.                                                          *)
Closing == {w \in Workers : pc[w] \in {"close", "uncount", "invalidate", "enqueue", "leave"}}

CountsExact ==
    Closing = {} =>
        /\ active_connections = Cardinality({c \in Conns : "client" \in open[c]})
        /\ \A b \in Backends :
             active_conns[b] =
                Cardinality({c \in Conns : "backend" \in open[c] /\ backend[c] = b})

(* No open socket is forgotten: one that no worker has an event of is      *)
(* armed, and it is armed for writing when bytes are buffered for it       *)
(* (lb_net.c:853 "Keep EPOLLOUT if there's buffered data to send to        *)
(* client").  Otherwise the connection would hang with data undelivered.   *)
Attended(c, s) ==
    \E w \in Workers :
        \/ \E e \in batch[w] : e.conn = c /\ e.side = s
        \/ pc[w] \in Using /\ cur[w].conn = c

InterestKept ==
    \A c \in Conns : \A s \in open[c] :
        Attended(c, s) \/ interest[c][s] = (IF s \in pending[c] THEN "inout" ELSE "in")

(* Every closed connection is freed in the end, unless the program is      *)
(* stopped first (the workers then leave without draining the queue).      *)
EventuallyFreed ==
    \A c \in Conns :
        heap[c] = "live" /\ ~valid[c] ~> heap[c] = "freed" \/ ~running

==============================================================================
