------------------------- MODULE RelayOneWorkerProofs -------------------------
(***************************************************************************)
(* With one worker (option -w 1) and batches smaller than the cleanup      *)
(* queue, the deferred free of lb_net.c is correct: nothing is used after  *)
(* it was freed, and nothing is freed twice.                               *)
(*                                                                         *)
(* The argument.  The sole worker empties the queue before it waits for    *)
(* events, so a batch starts with an empty queue, and each of its at most  *)
(* MaxEvents events closes at most one connection: the queue never refuses *)
(* a connection (RoomInv).  Therefore a connection is only freed between   *)
(* two batches, when the worker holds no event at all (WorkerInv); and     *)
(* since closing removes both sockets from epoll before the connection is  *)
(* queued (ConnInv), a later epoll_wait does not report it.                *)
(***************************************************************************)
EXTENDS RelayProofs

SingleWorker == \E v : Workers = {v}

\* No batch has as many events as the cleanup queue has places.  The array
\* of the code has room for 10000 events and the queue for 1023 connections,
\* so this holds while at most 1023 sockets are registered with epoll.
QueueOutlastsBatch == MaxEvents < QueueSize

\* A connection with an open socket is valid, a valid one is allocated, and
\* epoll only knows open sockets.
ConnInv ==
    \A c \in Conns :
        /\ valid[c] => heap[c] = "live"
        /\ open[c] # {} => valid[c]
        /\ \A s \in Sides : interest[c][s] # "none" => s \in open[c]

\* The queue holds closed connections that are still allocated, each once.
QueueInv ==
    /\ \A i \in 1 .. Len(queue) : heap[queue[i]] = "live" /\ ~valid[queue[i]]
    /\ \A i, j \in 1 .. Len(queue) : queue[i] = queue[j] => i = j

\* What the worker holds.
WorkerInv ==
    \A w \in Workers :
        /\ pc[w] \in Using \ {"enqueue"} => valid[cur[w].conn]
        /\ pc[w] \in {"uncount", "invalidate"} => open[cur[w].conn] = {}
        /\ pc[w] = "enqueue" =>
             /\ heap[cur[w].conn] = "live"
             /\ ~valid[cur[w].conn]
             /\ \A i \in 1 .. Len(queue) : queue[i] # cur[w].conn
        /\ \A e \in batch[w] : heap[e.conn] = "live"
        /\ pc[w] \in {"loop", "drain", "wait", "exit"} => batch[w] = {}
        /\ pc[w] = "wait" => queue = << >>

\* The events still to be handled fit into the queue.
RoomInv ==
    \A w \in Workers :
        /\ IsFiniteSet(batch[w])
        /\ Len(queue) + Cardinality(batch[w]) + (IF pc[w] \in Using THEN 1 ELSE 0)
             <= MaxEvents

\* A closed connection that is not freed is queued or about to be queued.
HeldInv ==
    \A c \in Conns : heap[c] = "live" /\ ~valid[c] =>
        \/ \E i \in 1 .. Len(queue) : queue[i] = c
        \/ \E w \in Workers : pc[w] = "enqueue" /\ cur[w].conn = c

IInv == TypeOK /\ ConnInv /\ QueueInv /\ WorkerInv /\ RoomInv /\ HeldInv

-----------------------------------------------------------------------------
(* Facts used below.                                                       *)

(* The sizes that RoomInv adds up are natural numbers.                     *)
LEMMA Counts ==
    ASSUME IInv, NEW w \in Workers
    PROVE  Cardinality(batch[w]) \in Nat /\ Len(queue) \in Nat
BY FS_CardinalityType DEF IInv, RoomInv, TypeOK

(* There stays room in the queue when neither the queue nor the batch      *)
(* grows and no event is taken up.                                         *)
LEMMA RoomKept ==
    ASSUME NEW w, Workers = {w}, IInv, batch' = batch,
           Len(queue') \in Nat, Len(queue') <= Len(queue),
           pc'[w] \in Using => pc[w] \in Using
    PROVE  RoomInv'
<1>1. /\ IsFiniteSet(batch[w])
      /\ Len(queue) + Cardinality(batch[w]) + (IF pc[w] \in Using THEN 1 ELSE 0) <= MaxEvents
    BY DEF IInv, RoomInv
<1>2. Cardinality(batch[w]) \in Nat /\ Len(queue) \in Nat
    BY Counts
<1>3. Len(queue') + Cardinality(batch[w]) + (IF pc'[w] \in Using THEN 1 ELSE 0) <= MaxEvents
    BY <1>1, <1>2, SizesAssumption
<1> QED
    BY <1>1, <1>3 DEF RoomInv

(* EPOLL_CTL_MOD registers nothing.                                        *)
LEMMA ModKeeps ==
    ASSUME TypeOK, NEW c \in Conns, NEW s \in Sides, NEW m \in Interests, Mod(c, s, m),
           NEW d \in Conns, NEW t \in Sides, interest'[d][t] # "none"
    PROVE  interest[d][t] # "none"
<1>1. CASE interest' = interest
    BY <1>1
<1>2. CASE interest[c][s] # "none" /\ interest' = [interest EXCEPT ![c][s] = m]
    BY <1>2 DEF TypeOK
<1> QED
    BY <1>1, <1>2 DEF Mod

(* A batch has at most as many events as epoll_wait reported sockets.      *)
LEMMA BatchSize ==
    ASSUME NEW ready \in SUBSET Armed, NEW kind \in [ready -> Kinds]
    PROVE  LET B == {[conn |-> x[1], side |-> x[2], kind |-> kind[x]] : x \in ready}
           IN  /\ IsFiniteSet(B)
               /\ Cardinality(B) \in Nat
               /\ Cardinality(ready) \in Nat
               /\ Cardinality(B) <= Cardinality(ready)
<1> DEFINE B == {[conn |-> x[1], side |-> x[2], kind |-> kind[x]] : x \in ready}
           f == [x \in ready |-> [conn |-> x[1], side |-> x[2], kind |-> kind[x]]]
<1>1. IsFiniteSet(Sides)
  <2>1. Sides = {"client"} \cup {"backend"}
      BY DEF Sides
  <2>2. IsFiniteSet({"client"})
      BY FS_Singleton
  <2> QED
      BY <2>1, <2>2, FS_AddElement
<1>2. IsFiniteSet(Conns \X Sides)
    BY <1>1, FS_Product, SizesAssumption
<1>3. IsFiniteSet(ready)
    BY <1>2, FS_Subset DEF Armed
<1>4. f \in Surjection(ready, B)
    BY DEF Surjection
<1>5. IsFiniteSet(B) /\ Cardinality(B) <= Cardinality(ready)
    BY <1>3, <1>4, FS_Surjection
<1> QED
    BY <1>3, <1>5, FS_CardinalityType

-----------------------------------------------------------------------------
(* Each action preserves the invariant.                                    *)

(* The test of lb->running.                                                *)
LEMMA LoopInv ==
    ASSUME NEW w, Workers = {w}, QueueOutlastsBatch, IInv, Loop(w)
    PROVE  ConnInv' /\ QueueInv' /\ WorkerInv' /\ RoomInv' /\ HeldInv'
BY Counts, DestType
   DEF IInv, TypeOK, Loop, Goto, connVars, countVars, Using, Labels,
       ConnInv, QueueInv, WorkerInv, RoomInv, HeldInv

(* The end of a batch.                                                     *)
LEMMA BatchDoneInv ==
    ASSUME NEW w, Workers = {w}, QueueOutlastsBatch, IInv, BatchDone(w)
    PROVE  ConnInv' /\ QueueInv' /\ WorkerInv' /\ RoomInv' /\ HeldInv'
BY Counts, DestType
   DEF IInv, TypeOK, BatchDone, Goto, connVars, countVars, Using, Labels,
       ConnInv, QueueInv, WorkerInv, RoomInv, HeldInv

(* accept4 without a new connection.                                       *)
LEMMA AcceptNothingInv ==
    ASSUME NEW w, Workers = {w}, QueueOutlastsBatch, IInv, AcceptNothing(w)
    PROVE  ConnInv' /\ QueueInv' /\ WorkerInv' /\ RoomInv' /\ HeldInv'
BY Counts, DestType
   DEF IInv, TypeOK, AcceptNothing, Goto, connVars, countVars, Using, Labels,
       ConnInv, QueueInv, WorkerInv, RoomInv, HeldInv

(* Data read from a socket.                                                *)
LEMMA RecvDataInv ==
    ASSUME NEW w, Workers = {w}, QueueOutlastsBatch, IInv, RecvData(w)
    PROVE  ConnInv' /\ QueueInv' /\ WorkerInv' /\ RoomInv' /\ HeldInv'
BY Counts, DestType
   DEF IInv, TypeOK, RecvData, Goto, connVars, countVars, Using, Labels,
       ConnInv, QueueInv, WorkerInv, RoomInv, HeldInv

(* The end of a read loop.                                                 *)
LEMMA RecvDoneInv ==
    ASSUME NEW w, Workers = {w}, QueueOutlastsBatch, IInv, RecvDone(w)
    PROVE  ConnInv' /\ QueueInv' /\ WorkerInv' /\ RoomInv' /\ HeldInv'
BY Counts, DestType
   DEF IInv, TypeOK, RecvDone, Goto, connVars, countVars, Using, Labels,
       ConnInv, QueueInv, WorkerInv, RoomInv, HeldInv

(* The decrement of active_conns.                                          *)
LEMMA UncountInv ==
    ASSUME NEW w, Workers = {w}, QueueOutlastsBatch, IInv, Uncount(w)
    PROVE  ConnInv' /\ QueueInv' /\ WorkerInv' /\ RoomInv' /\ HeldInv'
BY Counts, DestType
   DEF IInv, TypeOK, Uncount, Goto, connVars, countVars, Using, Labels,
       ConnInv, QueueInv, WorkerInv, RoomInv, HeldInv

(* The decrement of active_connections.                                    *)
LEMMA LeaveInv ==
    ASSUME NEW w, Workers = {w}, QueueOutlastsBatch, IInv, Leave(w)
    PROVE  ConnInv' /\ QueueInv' /\ WorkerInv' /\ RoomInv' /\ HeldInv'
BY Counts, DestType
   DEF IInv, TypeOK, Leave, Goto, connVars, countVars, Using, Labels,
       ConnInv, QueueInv, WorkerInv, RoomInv, HeldInv

(* An event leaves the batch; it may need a place in the queue later.      *)
LEMMA DispatchInv ==
    ASSUME NEW w, Workers = {w}, QueueOutlastsBatch, IInv, NEW e \in Events, Dispatch(w, e)
    PROVE  ConnInv' /\ QueueInv' /\ WorkerInv' /\ RoomInv' /\ HeldInv'
<1> USE DEF IInv, TypeOK, Dispatch, Goto, connVars, countVars, Using, Labels
<1>1. ConnInv'
    BY DestType DEF ConnInv, WorkerInv
<1>2. QueueInv'
    BY DEF QueueInv
<1>3. WorkerInv'
    BY DestType DEF WorkerInv, ConnInv
<1>4. RoomInv'
  <2>1. e \in batch[w] /\ batch'[w] = batch[w] \ {e} /\ queue' = queue /\ pc[w] = "event"
      OBVIOUS
  <2>2. IsFiniteSet(batch[w]) /\ Len(queue) + Cardinality(batch[w]) + 0 <= MaxEvents
      BY <2>1 DEF RoomInv
  <2>3. /\ IsFiniteSet(batch'[w])
        /\ Cardinality(batch'[w]) = Cardinality(batch[w]) - 1
      BY <2>1, <2>2, FS_RemoveElement
  <2>4. Len(queue') + Cardinality(batch'[w]) + (IF pc'[w] \in Using THEN 1 ELSE 0) <= MaxEvents
    <3> HIDE DEF Using, Dispatch, TypeOK, IInv
    <3> QED
        BY <2>1, <2>2, <2>3, Counts, SizesAssumption
  <2> QED
      BY <2>3, <2>4 DEF RoomInv
<1>5. HeldInv'
    BY DEF HeldInv
<1> QED
    BY <1>1, <1>2, <1>3, <1>4, <1>5

(* One connection freed: the worker holds no event that could mention it.  *)
LEMMA DrainInv ==
    ASSUME NEW w, Workers = {w}, QueueOutlastsBatch, IInv, Drain(w)
    PROVE  ConnInv' /\ QueueInv' /\ WorkerInv' /\ RoomInv' /\ HeldInv'
<1> USE DEF IInv, TypeOK, Drain, Goto, connVars, countVars, Using, Labels
<1>1. ConnInv'
    BY HeadTailProperties DEF ConnInv, QueueInv
<1>2. QueueInv'
  <2>1. CASE queue = << >>
      BY <2>1 DEF QueueInv
  <2>2. CASE queue # << >>
    <3>1. /\ queue' = Tail(queue)
          /\ heap' = [heap EXCEPT ![queue[1]] = "freed"]
          /\ valid' = valid
        BY <2>2
    <3>2. /\ Len(queue) \in Nat \ {0}
          /\ queue' \in Seq(Conns)
          /\ Len(queue') = Len(queue) - 1
          /\ \A i \in 1 .. Len(queue') : queue'[i] = queue[i + 1]
        BY <2>2, <3>1, HeadTailProperties, EmptySeq, LenProperties
    <3>3. \A i \in 1 .. Len(queue') : queue[i + 1] # queue[1] /\ queue[i + 1] \in Conns
        BY <3>2, ElementOfSeq DEF QueueInv
    <3>4. \A i \in 1 .. Len(queue') : heap'[queue'[i]] = "live" /\ ~valid'[queue'[i]]
        BY <3>1, <3>2, <3>3 DEF QueueInv
    <3>5. \A i, j \in 1 .. Len(queue') : queue'[i] = queue'[j] => i = j
      <4> TAKE i, j \in 1 .. Len(queue')
      <4>1. i + 1 \in 1 .. Len(queue) /\ j + 1 \in 1 .. Len(queue)
          BY <3>2
      <4>2. queue'[i] = queue[i + 1] /\ queue'[j] = queue[j + 1]
          BY <3>2
      <4>3. queue[i + 1] = queue[j + 1] => i + 1 = j + 1
          BY <4>1 DEF QueueInv
      <4> QED
          BY <4>2, <4>3
    <3> QED
        BY <3>4, <3>5 DEF QueueInv
  <2> QED
      BY <2>1, <2>2
<1>3. WorkerInv'
    BY DestType DEF WorkerInv, ConnInv
<1>4. RoomInv'
  <2>1. Len(queue') <= Len(queue) /\ Len(queue') \in Nat
      BY HeadTailProperties, EmptySeq, LenProperties
  <2>2. batch' = batch /\ pc'[w] \notin Using
      OBVIOUS
  <2> QED
      BY <2>1, <2>2, RoomKept
<1>5. HeldInv'
  <2>1. CASE queue = << >>
      BY <2>1 DEF HeldInv
  <2>2. CASE queue # << >>
    <3>1. /\ queue' = Tail(queue)
          /\ heap' = [heap EXCEPT ![queue[1]] = "freed"]
          /\ valid' = valid
          /\ pc[w] = "drain"
        BY <2>2
    <3>2. /\ Len(queue) \in Nat \ {0}
          /\ Len(queue') = Len(queue) - 1
          /\ \A i \in 1 .. Len(queue') : queue'[i] = queue[i + 1]
          /\ queue[1] \in Conns
        BY <2>2, <3>1, HeadTailProperties, EmptySeq, LenProperties, ElementOfSeq
    <3>3. ASSUME NEW c \in Conns, heap'[c] = "live", ~valid'[c]
          PROVE  \E i \in 1 .. Len(queue') : queue'[i] = c
      <4>1. heap[c] = "live" /\ ~valid[c] /\ c # queue[1]
          BY <3>1, <3>2, <3>3
      <4>2. PICK i \in 1 .. Len(queue) : queue[i] = c
          BY <3>1, <4>1 DEF HeldInv
      <4>3. i - 1 \in 1 .. Len(queue') /\ queue'[i - 1] = c
          BY <3>2, <4>1, <4>2
      <4> QED
          BY <4>3
    <3> QED
        BY <3>3 DEF HeldInv
  <2> QED
      BY <2>1, <2>2
<1> QED
    BY <1>1, <1>2, <1>3, <1>4, <1>5

(* The choice of the mask to re-arm with.                                  *)
LEMMA RearmInv ==
    ASSUME NEW w, Workers = {w}, QueueOutlastsBatch, IInv, Rearm(w)
    PROVE  ConnInv' /\ QueueInv' /\ WorkerInv' /\ RoomInv' /\ HeldInv'
<1> USE DEF IInv, TypeOK, Rearm, Goto, connVars, countVars, Using, Labels
<1>1. ConnInv'
    BY DestType DEF ConnInv, WorkerInv
<1>2. QueueInv'
    BY DEF QueueInv
<1>3. WorkerInv'
    BY DestType DEF WorkerInv, ConnInv
<1>4. RoomInv'
  <2>1. batch' = batch /\ queue' = queue /\ (pc'[w] \in Using => pc[w] \in Using)
      OBVIOUS
  <2>2. Len(queue') \in Nat /\ Len(queue') <= Len(queue)
      BY <2>1, Counts
  <2> QED
      BY <2>1, <2>2, RoomKept
<1>5. HeldInv'
    BY DEF HeldInv
<1> QED
    BY <1>1, <1>2, <1>3, <1>4, <1>5

(* The buffered bytes sent.                                                *)
LEMMA FlushInv ==
    ASSUME NEW w, Workers = {w}, QueueOutlastsBatch, IInv, Flush(w)
    PROVE  ConnInv' /\ QueueInv' /\ WorkerInv' /\ RoomInv' /\ HeldInv'
<1> USE DEF IInv, TypeOK, Flush, Goto, connVars, countVars, Using, Labels
<1>1. ConnInv'
  <2>1. cur[w].conn \in Conns /\ cur[w].side \in Sides /\ Dest(cur[w]) \in Sides
      BY DestType
  <2>2. \A c \in Conns, s \in Sides : interest'[c][s] # "none" => interest[c][s] # "none"
      BY <2>1, ModKeeps DEF Interests
  <2>3. heap' = heap /\ open' = open /\ valid' = valid
      OBVIOUS
  <2> QED
      BY <2>2, <2>3 DEF ConnInv
<1>2. QueueInv'
    BY DEF QueueInv
<1>3. WorkerInv'
    BY DestType DEF WorkerInv, ConnInv
<1>4. RoomInv'
  <2>1. batch' = batch /\ queue' = queue /\ (pc'[w] \in Using => pc[w] \in Using)
      OBVIOUS
  <2>2. Len(queue') \in Nat /\ Len(queue') <= Len(queue)
      BY <2>1, Counts
  <2> QED
      BY <2>1, <2>2, RoomKept
<1>5. HeldInv'
    BY DEF HeldInv
<1> QED
    BY <1>1, <1>2, <1>3, <1>4, <1>5

(* The bytes read forwarded or buffered.                                   *)
LEMMA SendInv ==
    ASSUME NEW w, Workers = {w}, QueueOutlastsBatch, IInv, Send(w)
    PROVE  ConnInv' /\ QueueInv' /\ WorkerInv' /\ RoomInv' /\ HeldInv'
<1> USE DEF IInv, TypeOK, Send, Goto, connVars, countVars, Using, Labels
<1>1. ConnInv'
  <2>1. cur[w].conn \in Conns /\ cur[w].side \in Sides /\ Dest(cur[w]) \in Sides
      BY DestType
  <2>2. \A c \in Conns, s \in Sides : interest'[c][s] # "none" => interest[c][s] # "none"
      BY <2>1, ModKeeps DEF Interests
  <2>3. heap' = heap /\ open' = open /\ valid' = valid
      OBVIOUS
  <2> QED
      BY <2>2, <2>3 DEF ConnInv
<1>2. QueueInv'
    BY DEF QueueInv
<1>3. WorkerInv'
    BY DestType DEF WorkerInv, ConnInv
<1>4. RoomInv'
  <2>1. batch' = batch /\ queue' = queue /\ (pc'[w] \in Using => pc[w] \in Using)
      OBVIOUS
  <2>2. Len(queue') \in Nat /\ Len(queue') <= Len(queue)
      BY <2>1, Counts
  <2> QED
      BY <2>1, <2>2, RoomKept
<1>5. HeldInv'
    BY DEF HeldInv
<1> QED
    BY <1>1, <1>2, <1>3, <1>4, <1>5

(* The socket re-armed.                                                    *)
LEMMA ModifyInv ==
    ASSUME NEW w, Workers = {w}, QueueOutlastsBatch, IInv, Modify(w)
    PROVE  ConnInv' /\ QueueInv' /\ WorkerInv' /\ RoomInv' /\ HeldInv'
<1> USE DEF IInv, TypeOK, Modify, Goto, connVars, countVars, Using, Labels
<1>1. ConnInv'
  <2>1. cur[w].conn \in Conns /\ cur[w].side \in Sides /\ Dest(cur[w]) \in Sides
      BY DestType
  <2>2. \A c \in Conns, s \in Sides : interest'[c][s] # "none" => interest[c][s] # "none"
      BY <2>1, ModKeeps DEF Interests
  <2>3. heap' = heap /\ open' = open /\ valid' = valid
      OBVIOUS
  <2> QED
      BY <2>2, <2>3 DEF ConnInv
<1>2. QueueInv'
    BY DEF QueueInv
<1>3. WorkerInv'
    BY DestType DEF WorkerInv, ConnInv
<1>4. RoomInv'
  <2>1. batch' = batch /\ queue' = queue /\ (pc'[w] \in Using => pc[w] \in Using)
      OBVIOUS
  <2>2. Len(queue') \in Nat /\ Len(queue') <= Len(queue)
      BY <2>1, Counts
  <2> QED
      BY <2>1, <2>2, RoomKept
<1>5. HeldInv'
    BY DEF HeldInv
<1> QED
    BY <1>1, <1>2, <1>3, <1>4, <1>5

(* The backend socket opened and registered.                               *)
LEMMA ConnectInv ==
    ASSUME NEW w, Workers = {w}, QueueOutlastsBatch, IInv, Connect(w)
    PROVE  ConnInv' /\ QueueInv' /\ WorkerInv' /\ RoomInv' /\ HeldInv'
<1> USE DEF IInv, TypeOK, Connect, Goto, connVars, countVars, Using, Labels
<1>1. ConnInv'
  <2> DEFINE c == cur[w].conn
  <2>1. c \in Conns /\ valid[c]
      BY DestType DEF WorkerInv
  <2>2. heap' = heap /\ valid' = valid
      OBVIOUS
  <2>3. \A d \in Conns : open'[d] # {} => open[d] # {} \/ d = c
      BY <2>1
  <2>4. \A d \in Conns : \A s \in Sides : interest'[d][s] # "none" => s \in open'[d]
    <3>1. CASE UNCHANGED <<open, interest>>
        BY <3>1 DEF ConnInv
    <3>2. CASE open' = [open EXCEPT ![c] = @ \cup {"backend"}] /\ interest' = interest
        BY <2>1, <3>2 DEF ConnInv
    <3>3. CASE /\ open' = [open EXCEPT ![c] = @ \cup {"backend"}]
               /\ interest' = [interest EXCEPT ![c]["backend"] = "in"]
        BY <2>1, <3>3 DEF ConnInv, Sides
    <3> QED
        BY <3>1, <3>2, <3>3
  <2>5. ConnInv
      OBVIOUS
  <2> HIDE DEF c, IInv, TypeOK, Connect
  <2> QED
      BY <2>1, <2>2, <2>3, <2>4, <2>5 DEF ConnInv
<1>2. QueueInv'
    BY DEF QueueInv
<1>3. WorkerInv'
    BY DestType DEF WorkerInv, ConnInv
<1>4. RoomInv'
  <2>1. batch' = batch /\ queue' = queue /\ (pc'[w] \in Using => pc[w] \in Using)
      OBVIOUS
  <2>2. Len(queue') \in Nat /\ Len(queue') <= Len(queue)
      BY <2>1, Counts
  <2> QED
      BY <2>1, <2>2, RoomKept
<1>5. HeldInv'
    BY DEF HeldInv
<1> QED
    BY <1>1, <1>2, <1>3, <1>4, <1>5

(* Both sockets closed and removed from epoll.                             *)
LEMMA CloseFdsInv ==
    ASSUME NEW w, Workers = {w}, QueueOutlastsBatch, IInv, CloseFds(w)
    PROVE  ConnInv' /\ QueueInv' /\ WorkerInv' /\ RoomInv' /\ HeldInv'
<1> USE DEF IInv, TypeOK, CloseFds, Goto, connVars, countVars, Using, Labels
<1>1. ConnInv'
    BY DestType DEF ConnInv, WorkerInv
<1>2. QueueInv'
    BY DEF QueueInv
<1>3. WorkerInv'
    BY DestType DEF WorkerInv, ConnInv
<1>4. RoomInv'
  <2>1. batch' = batch /\ queue' = queue /\ (pc'[w] \in Using => pc[w] \in Using)
      OBVIOUS
  <2>2. Len(queue') \in Nat /\ Len(queue') <= Len(queue)
      BY <2>1, Counts
  <2> QED
      BY <2>1, <2>2, RoomKept
<1>5. HeldInv'
    BY DEF HeldInv
<1> QED
    BY <1>1, <1>2, <1>3, <1>4, <1>5

(* The wrappers' back pointers cleared.                                    *)
LEMMA InvalidateInv ==
    ASSUME NEW w, Workers = {w}, QueueOutlastsBatch, IInv, Invalidate(w)
    PROVE  ConnInv' /\ QueueInv' /\ WorkerInv' /\ RoomInv' /\ HeldInv'
<1> USE DEF IInv, TypeOK, Invalidate, Goto, connVars, countVars, Using, Labels
<1>1. ConnInv'
    BY DestType DEF ConnInv, WorkerInv
<1>2. QueueInv'
    BY DEF QueueInv
<1>3. WorkerInv'
    BY DestType DEF WorkerInv, ConnInv, QueueInv
<1>4. RoomInv'
  <2>1. batch' = batch /\ queue' = queue /\ (pc'[w] \in Using => pc[w] \in Using)
      OBVIOUS
  <2>2. Len(queue') \in Nat /\ Len(queue') <= Len(queue)
      BY <2>1, Counts
  <2> QED
      BY <2>1, <2>2, RoomKept
<1>5. HeldInv'
    BY DEF HeldInv
<1> QED
    BY <1>1, <1>2, <1>3, <1>4, <1>5

(* A new batch: only registered sockets, hence allocated connections.      *)
LEMMA EpollWaitInv ==
    ASSUME NEW w, Workers = {w}, QueueOutlastsBatch, IInv, EpollWait(w)
    PROVE  ConnInv' /\ QueueInv' /\ WorkerInv' /\ RoomInv' /\ HeldInv'
<1> USE DEF IInv, TypeOK, EpollWait, Goto, connVars, countVars, Using, Labels
<1>1. ConnInv'
  <2>1. \A c \in Conns, s \in Sides : interest'[c][s] # "none" => interest[c][s] # "none"
    <3>1. PICK ready \in SUBSET Armed : interest' = [c \in Conns |-> [s \in Sides |->
                IF <<c, s>> \in ready THEN "off" ELSE interest[c][s]]]
        OBVIOUS
    <3>2. \A c \in Conns, s \in Sides : <<c, s>> \in ready => interest[c][s] # "none"
        BY DEF Armed
    <3> QED
        BY <3>1, <3>2
  <2>2. heap' = heap /\ open' = open /\ valid' = valid
      OBVIOUS
  <2> QED
      BY <2>1, <2>2 DEF ConnInv
<1>2. QueueInv'
    BY DEF QueueInv
<1>3. WorkerInv'
  <2>1. PICK ready \in SUBSET Armed : \E kind \in [ready -> Kinds] :
            batch' = [batch EXCEPT ![w] =
                {[conn |-> x[1], side |-> x[2], kind |-> kind[x]] : x \in ready}]
      OBVIOUS
  <2>2. /\ heap' = heap
        /\ \A d \in Conns, s \in Sides : interest[d][s] # "none" => heap[d] = "live"
      BY DEF ConnInv
  <2>3. \A e \in batch'[w] : \E x \in ready : e.conn = x[1]
    <3>1. PICK kind \in [ready -> Kinds] :
            batch'[w] = {[conn |-> x[1], side |-> x[2], kind |-> kind[x]] : x \in ready}
        BY <2>1
    <3> HIDE DEF IInv, TypeOK, EpollWait
    <3> TAKE e \in batch'[w]
    <3>2. PICK x \in ready : e = [conn |-> x[1], side |-> x[2], kind |-> kind[x]]
        BY <3>1
    <3>3. e.conn = x[1]
        BY <3>2
    <3> QED
        BY <3>3
  <2>4. \A x \in ready : x[1] \in Conns /\ x[2] \in Sides /\ interest[x[1]][x[2]] # "none"
      BY DEF Armed
  <2>5. \A e \in batch'[w] : heap'[e.conn] = "live"
    <3> HIDE DEF IInv, TypeOK, EpollWait
    <3> QED
        BY <2>2, <2>3, <2>4
  <2>6. pc'[w] = "event"
      OBVIOUS
  <2> QED
      BY <2>5, <2>6 DEF WorkerInv
<1>4. RoomInv'
  <2>1. /\ batch \in [Workers -> SUBSET Events] /\ pc \in [Workers -> Labels]
        /\ WorkerInv /\ pc[w] = "wait" /\ queue' = queue
        /\ pc' = [pc EXCEPT ![w] = "event"]
      OBVIOUS
  <2> HIDE DEF IInv, TypeOK
  <2>2. PICK ready \in SUBSET Armed, listen \in BOOLEAN :
            /\ Cardinality(ready) + (IF listen THEN 1 ELSE 0) <= MaxEvents
            /\ \E kind \in [ready -> Kinds] :
                 batch' = [batch EXCEPT ![w] =
                    {[conn |-> x[1], side |-> x[2], kind |-> kind[x]] : x \in ready}]
      OBVIOUS
  <2> HIDE DEF EpollWait
  <2>3. /\ IsFiniteSet(batch'[w])
        /\ Cardinality(batch'[w]) \in Nat
        /\ Cardinality(ready) \in Nat
        /\ Cardinality(batch'[w]) <= Cardinality(ready)
    <3>1. PICK kind \in [ready -> Kinds] :
            batch'[w] = {[conn |-> x[1], side |-> x[2], kind |-> kind[x]] : x \in ready}
        BY <2>1, <2>2
    <3> QED
        BY <3>1, BatchSize
  <2>4. Len(queue') = 0
      BY <2>1 DEF WorkerInv
  <2>5. pc'[w] \notin Using
      BY <2>1
  <2>6. Cardinality(ready) <= MaxEvents
    <3>1. Cardinality(ready) + (IF listen THEN 1 ELSE 0) <= MaxEvents
        BY <2>2
    <3> QED
        BY <2>3, <3>1, SizesAssumption
  <2>7. Len(queue') + Cardinality(batch'[w]) + 0 <= MaxEvents
      BY <2>3, <2>4, <2>6, SizesAssumption
  <2> QED
      BY <2>3, <2>5, <2>7 DEF RoomInv
<1>5. HeldInv'
    BY DEF HeldInv
<1> QED
    BY <1>1, <1>2, <1>3, <1>4, <1>5

(* A new connection: nothing refers to it yet.                             *)
LEMMA AcceptInv ==
    ASSUME NEW w, Workers = {w}, QueueOutlastsBatch, IInv, NEW c \in Conns, Accept(w, c)
    PROVE  ConnInv' /\ QueueInv' /\ WorkerInv' /\ RoomInv' /\ HeldInv'
<1> USE DEF IInv, TypeOK, Accept
<1>1. /\ heap[c] = "unused" /\ pc[w] = "event" /\ pc' = pc /\ batch' = batch /\ queue' = queue
      /\ cur' = cur
    OBVIOUS
<1>2. ~valid[c] /\ open[c] = {}
    BY <1>1 DEF ConnInv
<1>3. \A i \in 1 .. Len(queue) : queue[i] # c
    BY <1>1 DEF QueueInv
<1>4. \A d \in Conns \ {c} : heap'[d] = heap[d] /\ valid'[d] = valid[d] /\ open'[d] = open[d]
    OBVIOUS
<1>5. heap'[c] # "live" \/ valid'[c]
    OBVIOUS
<1>6. ConnInv'
    BY <1>2, <1>4 DEF ConnInv, Sides
<1>7. QueueInv'
    BY <1>1, <1>3, <1>4, ElementOfSeq DEF QueueInv
<1>8. WorkerInv'
  <2>1. \A e \in batch'[w] : heap'[e.conn] = "live"
      BY <1>1, <1>4 DEF WorkerInv, Events
  <2> QED
      BY <1>1, <2>1 DEF WorkerInv, Using
<1>9. RoomInv'
    BY <1>1 DEF RoomInv
<1>10. HeldInv'
    BY <1>1, <1>4, <1>5 DEF HeldInv
<1> QED
    BY <1>6, <1>7, <1>8, <1>9, <1>10

(* The queue takes the connection: room is left for it (RoomInv).          *)
LEMMA EnqueueInv ==
    ASSUME NEW w, Workers = {w}, QueueOutlastsBatch, IInv, Enqueue(w)
    PROVE  ConnInv' /\ QueueInv' /\ WorkerInv' /\ RoomInv' /\ HeldInv'
<1> DEFINE c == cur[w].conn
<1>1. pc[w] = "enqueue" /\ pc'[w] = "leave"
    BY DEF Enqueue, Goto, IInv, TypeOK
<1>2. /\ IsFiniteSet(batch[w])
      /\ Len(queue) + Cardinality(batch[w]) + 1 <= MaxEvents
    BY <1>1 DEF IInv, RoomInv, Using, Labels
<1>3. Cardinality(batch[w]) \in Nat /\ Len(queue) \in Nat
    BY Counts
<1>4. Len(queue) < QueueSize - 1
    BY <1>2, <1>3, SizesAssumption DEF QueueOutlastsBatch
<1>5. /\ queue' = Append(queue, c)
      /\ UNCHANGED <<heap, open, valid, interest, batch, cur>>
    BY <1>4 DEF Enqueue
<1>6. c \in Conns /\ queue \in Seq(Conns)
    BY DEF IInv, TypeOK, Events
<1>7. /\ Len(queue') = Len(queue) + 1
      /\ \A i \in 1 .. Len(queue) : queue'[i] = queue[i]
      /\ queue'[Len(queue) + 1] = c
    BY <1>5, <1>6, AppendProperties
<1>8. /\ heap[c] = "live"
      /\ ~valid[c]
      /\ \A i \in 1 .. Len(queue) : queue[i] # c
    BY <1>1 DEF IInv, WorkerInv
<1>9. ConnInv'
    BY <1>5 DEF IInv, ConnInv
<1>10. QueueInv'
  <2>1. \A i \in 1 .. Len(queue) : heap[queue[i]] = "live" /\ ~valid[queue[i]]
      BY DEF IInv, QueueInv
  <2>2. \A i, j \in 1 .. Len(queue) : queue[i] = queue[j] => i = j
      BY DEF IInv, QueueInv
  <2>3. \A i \in 1 .. Len(queue') : i \in 1 .. Len(queue) \/ i = Len(queue) + 1
      BY <1>3, <1>7
  <2>4. \A i \in 1 .. Len(queue') : heap'[queue'[i]] = "live" /\ ~valid'[queue'[i]]
      BY <1>5, <1>7, <1>8, <2>1, <2>3
  <2>5. \A i, j \in 1 .. Len(queue') : queue'[i] = queue'[j] => i = j
      BY <1>7, <1>8, <2>2, <2>3
  <2> QED
      BY <2>4, <2>5 DEF QueueInv
<1>11. WorkerInv'
    BY <1>1, <1>5 DEF IInv, WorkerInv, Using
<1>12. RoomInv'
  <2>1. pc'[w] \notin Using
      BY <1>1 DEF Using
  <2>2. Len(queue') + Cardinality(batch[w]) + 0 <= MaxEvents
      BY <1>2, <1>3, <1>7
  <2> QED
      BY <1>2, <1>5, <2>1, <2>2 DEF RoomInv
<1>13. HeldInv'
  <2> SUFFICES ASSUME NEW d \in Conns, heap'[d] = "live", ~valid'[d]
               PROVE  \E i \in 1 .. Len(queue') : queue'[i] = d
      BY DEF HeldInv
  <2>1. CASE d = c
      BY <1>3, <1>7, <2>1
  <2>2. CASE d # c
    <3>1. \E i \in 1 .. Len(queue) : queue[i] = d
        BY <1>5, <2>2 DEF IInv, HeldInv
    <3> QED
        BY <1>3, <1>7, <3>1
  <2> QED
      BY <2>1, <2>2
<1> QED
    BY <1>9, <1>10, <1>11, <1>12, <1>13

-----------------------------------------------------------------------------
(* The invariant is inductive.                                             *)

(* The invariant holds when the workers are started.                       *)
LEMMA InvInit == Init => IInv
<1> SUFFICES ASSUME Init PROVE IInv
    OBVIOUS
<1>1. TypeOK
    BY TypeInit
<1>2. ConnInv /\ QueueInv /\ WorkerInv /\ HeldInv
    BY DEF Init, ConnInv, QueueInv, WorkerInv, HeldInv, Using, Labels
<1>3. RoomInv
    BY FS_EmptySet, SizesAssumption DEF Init, RoomInv, Using
<1> QED
    BY <1>1, <1>2, <1>3 DEF IInv

(* Every step of the one worker, and a stop, preserves the invariant.      *)
LEMMA InvStep ==
    ASSUME SingleWorker, QueueOutlastsBatch, IInv, [Next]_vars
    PROVE  IInv'
<1>1. TypeOK'
    BY TypeStep DEF IInv
<1>2. PICK w : Workers = {w}
    BY DEF SingleWorker
<1>3. ConnInv' /\ QueueInv' /\ WorkerInv' /\ RoomInv' /\ HeldInv'
  <2>1. CASE Step(w)
      BY <1>2, <2>1, LoopInv, DrainInv, EpollWaitInv, BatchDoneInv, AcceptNothingInv,
         AcceptInv, DispatchInv, FlushInv, RecvDataInv, RecvDoneInv, ConnectInv, SendInv,
         RearmInv, ModifyInv, CloseFdsInv, UncountInv, InvalidateInv, EnqueueInv, LeaveInv
         DEF Step, Forward
  <2>2. CASE Stop \/ UNCHANGED vars
    <3>1. UNCHANGED <<heap, open, valid, interest, queue, pc, batch, cur>>
        BY <2>2 DEF Stop, vars, connVars, workerVars
    <3>2. ConnInv'
        BY <3>1 DEF IInv, ConnInv
    <3>3. QueueInv'
        BY <3>1 DEF IInv, QueueInv
    <3>4. WorkerInv'
        BY <3>1 DEF IInv, WorkerInv
    <3>5. RoomInv'
        BY <3>1 DEF IInv, RoomInv
    <3>6. HeldInv'
        BY <3>1 DEF IInv, HeldInv
    <3> QED
        BY <3>2, <3>3, <3>4, <3>5, <3>6
  <2> QED
      BY <1>2, <2>1, <2>2 DEF Next
<1> QED
    BY <1>1, <1>3 DEF IInv

(* With one worker and a queue longer than a batch, no connection is used, *)
(* reported or queued after process_cleanup_queue freed it: the deferral   *)
(* of lb_net.c:811-848 works.                                              *)
THEOREM OneWorkerSafe ==
    ASSUME SingleWorker, QueueOutlastsBatch
    PROVE  Spec => []NoUseAfterFree
<1>1. IInv => NoUseAfterFree
    BY DEF IInv, TypeOK, ConnInv, QueueInv, WorkerInv, NoUseAfterFree, Using, Labels, Events
<1>2. IInv /\ [Next]_vars => IInv'
    BY InvStep
<1> QED
    BY <1>1, <1>2, InvInit, PTL DEF Spec

(* Under the same assumptions a closed connection is held by exactly one   *)
(* of the worker closing it and one place of the cleanup queue, so it is   *)
(* freed neither twice nor never.                                          *)
THEOREM OneWorkerReleasesOnce ==
    ASSUME SingleWorker, QueueOutlastsBatch
    PROVE  Spec => []ReleasedOnce
<1>1. IInv => ReleasedOnce
  <2> SUFFICES ASSUME IInv, NEW c \in Conns, heap[c] = "live", ~valid[c]
               PROVE  Holders(c) = 1
      BY DEF ReleasedOnce
  <2> DEFINE W == {w \in Workers : cur[w].conn = c /\ pc[w] = "enqueue"}
             Q == {i \in 1 .. Len(queue) : queue[i] = c}
  <2>1. PICK w : Workers = {w}
      BY DEF SingleWorker
  <2>2. CASE pc[w] = "enqueue" /\ cur[w].conn = c
    <3>1. W = {w}
        BY <2>1, <2>2
    <3>2. Q = {}
        BY <2>1, <2>2 DEF IInv, WorkerInv
    <3>3. Cardinality(W) = 1 /\ Cardinality(Q) = 0
        BY <3>1, <3>2, FS_Singleton, FS_EmptySet
    <3> QED
        BY <3>3 DEF Holders
  <2>3. CASE ~(pc[w] = "enqueue" /\ cur[w].conn = c)
    <3>1. W = {}
        BY <2>1, <2>3
    <3>2. PICK i \in 1 .. Len(queue) : queue[i] = c
        BY <2>1, <2>3 DEF IInv, HeldInv
    <3>3. Q = {i}
        BY <3>2 DEF IInv, QueueInv
    <3>4. Cardinality(W) = 0 /\ Cardinality(Q) = 1
        BY <3>1, <3>3, FS_Singleton, FS_EmptySet
    <3> QED
        BY <3>4 DEF Holders
  <2> QED
      BY <2>2, <2>3
<1>2. IInv /\ [Next]_vars => IInv'
    BY InvStep
<1> QED
    BY <1>1, <1>2, InvInit, PTL DEF Spec

===============================================================================
