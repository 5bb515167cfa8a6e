-------------------------- MODULE CleanupQueueProofs --------------------------
(***************************************************************************)
(* Proofs, for every ring size above 1 and every set of connections, that  *)
(* the ring buffer of lb_net.c is type correct, has no hole, and           *)
(* implements the bounded first-in first-out queue.                        *)
(***************************************************************************)
EXTENDS CleanupQueue, SequenceTheorems, TLAPS

(* The remainder in Succ is the usual wrap: the slot after the last one is *)
(* slot 0.                                                                 *)
LEMMA SuccWraps ==
    ASSUME NEW i \in Slots
    PROVE  /\ Succ(i) \in Slots
           /\ i + 1 < CLEANUP_QUEUE_SIZE => Succ(i) = i + 1
           /\ i + 1 = CLEANUP_QUEUE_SIZE => Succ(i) = 0
<1>1. CASE i + 1 < CLEANUP_QUEUE_SIZE
    BY <1>1, QueueSizeAssumption DEF Slots, Succ
<1>2. CASE i + 1 = CLEANUP_QUEUE_SIZE
    BY <1>2, QueueSizeAssumption DEF Slots, Succ
<1> QED
    BY <1>1, <1>2, QueueSizeAssumption DEF Slots

(* Count and SlotOf read the ring as the code does: the ring is empty when *)
(* head = tail, full when the slot after tail is head, and the first free  *)
(* slot is the one tail points to.                                         *)
LEMMA RingFacts ==
    ASSUME TypeOK
    PROVE  /\ Count \in Nat
           /\ Count <= CLEANUP_QUEUE_SIZE - 1
           /\ Count = 0 <=> head = tail
           /\ Count = CLEANUP_QUEUE_SIZE - 1 <=> Succ(tail) = head
           /\ \A i \in 1 .. Count : SlotOf(i) \in Slots /\ SlotOf(i) # tail
           /\ SlotOf(1) = head
           /\ SlotOf(Count + 1) = tail
<1>1. head \in Slots /\ tail \in Slots
    BY DEF TypeOK
<1>2. /\ Count \in Nat
      /\ Count <= CLEANUP_QUEUE_SIZE - 1
      /\ Count = 0 <=> head = tail
    BY <1>1, QueueSizeAssumption DEF Count, Slots
<1>3. Count = CLEANUP_QUEUE_SIZE - 1 <=> Succ(tail) = head
    BY <1>1, SuccWraps, QueueSizeAssumption DEF Count, Slots
<1>4. \A i \in 1 .. Count : SlotOf(i) \in Slots /\ SlotOf(i) # tail
    BY <1>1, <1>2, QueueSizeAssumption DEF Count, Slots, SlotOf
<1>5. SlotOf(1) = head /\ SlotOf(Count + 1) = tail
    BY <1>1, QueueSizeAssumption DEF Count, Slots, SlotOf
<1> QED
    BY <1>2, <1>3, <1>4, <1>5

(* The contents of the ring are a sequence.                                *)
LEMMA ContentsSeq ==
    ASSUME TypeOK
    PROVE  /\ Contents \in Seq(Conns \cup {NULL})
           /\ Len(Contents) = Count
           /\ \A i \in 1 .. Count : Contents[i] = queue[SlotOf(i)]
<1>1. Count \in Nat /\ \A i \in 1 .. Count : SlotOf(i) \in Slots
    BY RingFacts
<1>2. Contents \in [1 .. Count -> Conns \cup {NULL}]
    BY <1>1 DEF Contents, TypeOK
<1>3. Contents \in Seq(Conns \cup {NULL})
    BY <1>1, <1>2, SeqDef
<1> QED
    BY <1>1, <1>2, <1>3 DEF Contents

(* A successful enqueue adds the connection behind the others and leaves   *)
(* theirs in place.                                                        *)
LEMMA EnqueueContents ==
    ASSUME TypeOK, NEW c \in Conns, Enqueue(c), Succ(tail) # head
    PROVE  /\ Count < CLEANUP_QUEUE_SIZE - 1
           /\ Count' = Count + 1
           /\ Contents' = Append(Contents, c)
<1>1. /\ head' = head
      /\ tail' = Succ(tail)
      /\ queue' = [queue EXCEPT ![tail] = c]
      /\ head \in Slots
      /\ tail \in Slots
      /\ queue \in [Slots -> Conns \cup {NULL}]
    BY DEF Enqueue, TypeOK
<1>2. Count \in Nat /\ Count < CLEANUP_QUEUE_SIZE - 1
    BY RingFacts, QueueSizeAssumption
<1>3. Count' = Count + 1
  <2>1. head' = head /\ tail' = Succ(tail) /\ Succ(tail) # head
      BY <1>1
  <2>2. head \in Slots /\ tail \in Slots
      BY <1>1
  <2>3. CASE tail + 1 < CLEANUP_QUEUE_SIZE
    <3>1. Succ(tail) = tail + 1
        BY <2>2, <2>3, SuccWraps
    <3> QED
        BY <2>1, <2>2, <3>1, QueueSizeAssumption DEF Count, Slots
  <2>4. CASE tail + 1 = CLEANUP_QUEUE_SIZE
    <3>1. Succ(tail) = 0
        BY <2>2, <2>4, SuccWraps
    <3> QED
        BY <2>1, <2>2, <2>4, <3>1, QueueSizeAssumption DEF Count, Slots
  <2> QED
      BY <2>2, <2>3, <2>4, QueueSizeAssumption DEF Slots
<1>4. \A i : SlotOf(i)' = SlotOf(i)
    BY <1>1 DEF SlotOf
<1>5. \A i \in 1 .. Count : queue'[SlotOf(i)] = queue[SlotOf(i)]
    BY <1>1, RingFacts
<1>6. queue'[SlotOf(Count + 1)] = c
    BY <1>1, RingFacts
<1>7. Contents' = [i \in 1 .. Count + 1 |-> queue'[SlotOf(i)]]
    BY <1>3, <1>4 DEF Contents
<1>8. Append(Contents, c)
        = [i \in 1 .. Count + 1 |-> IF i \in 1 .. Count THEN queue[SlotOf(i)] ELSE c]
    BY <1>2 DEF Contents
<1>9. \A i \in 1 .. Count + 1 :
         queue'[SlotOf(i)] = IF i \in 1 .. Count THEN queue[SlotOf(i)] ELSE c
  <2> SUFFICES ASSUME NEW i \in 1 .. Count + 1
               PROVE  queue'[SlotOf(i)] = IF i \in 1 .. Count THEN queue[SlotOf(i)] ELSE c
      OBVIOUS
  <2>1. CASE i \in 1 .. Count
      BY <2>1, <1>5
  <2>2. CASE i = Count + 1
      BY <2>2, <1>2, <1>6
  <2> QED
      BY <2>1, <2>2, <1>2
<1> QED
    BY <1>2, <1>3, <1>7, <1>8, <1>9

(* A dequeue of a non-empty ring takes the oldest connection off the front. *)
LEMMA DequeueContents ==
    ASSUME TypeOK, Dequeue, head # tail
    PROVE  /\ Count > 0
           /\ Count' = Count - 1
           /\ ret' = Contents[1]
           /\ Contents' = Tail(Contents)
<1>1. /\ head' = Succ(head)
      /\ tail' = tail
      /\ queue' = queue
      /\ ret' = queue[head]
      /\ head \in Slots
      /\ tail \in Slots
    BY DEF Dequeue, TypeOK
<1>2. Count \in Nat /\ Count > 0
    BY RingFacts
<1>3. Count' = Count - 1
    BY <1>1, SuccWraps, QueueSizeAssumption DEF Count, Slots
<1>4. ret' = Contents[1]
    BY <1>1, <1>2, RingFacts DEF Contents
<1>5. \A i \in 1 .. Count - 1 : SlotOf(i)' = SlotOf(i + 1)
    BY <1>1, <1>2, SuccWraps, QueueSizeAssumption DEF SlotOf, Slots, Count
<1>6. /\ Contents \in Seq(Conns \cup {NULL})
      /\ Len(Contents) = Count
      /\ \A i \in 1 .. Count : Contents[i] = queue[SlotOf(i)]
    BY ContentsSeq
<1>7. /\ Tail(Contents) \in Seq(Conns \cup {NULL})
      /\ Len(Tail(Contents)) = Count - 1
      /\ \A i \in 1 .. Count - 1 : Tail(Contents)[i] = Contents[i + 1]
    BY <1>2, <1>6, HeadTailProperties
<1>8. Tail(Contents) = [i \in 1 .. Count - 1 |-> queue[SlotOf(i + 1)]]
  <2>1. DOMAIN Tail(Contents) = 1 .. Count - 1
      BY <1>7, LenProperties
  <2>2. \A i \in 1 .. Count - 1 : Tail(Contents)[i] = queue[SlotOf(i + 1)]
      BY <1>2, <1>6, <1>7
  <2>3. Tail(Contents) \in [1 .. Count - 1 -> Conns \cup {NULL}]
      BY <1>7, LenProperties
  <2> QED
      BY <2>1, <2>2, <2>3
<1>9. Contents' = [i \in 1 .. Count - 1 |-> queue[SlotOf(i + 1)]]
    BY <1>1, <1>3, <1>5 DEF Contents
<1> QED
    BY <1>2, <1>3, <1>4, <1>8, <1>9

(* The ring always satisfies its type, whatever its size: the indices      *)
(* never leave the array (lb_net.c:25 and 58 reduce them).                 *)
THEOREM TypeCorrect == Spec => []TypeOK
<1>1. Init => TypeOK
    BY QueueSizeAssumption DEF Init, TypeOK, Slots
<1>2. TypeOK /\ [Next]_vars => TypeOK'
  <2> SUFFICES ASSUME TypeOK, [Next]_vars
               PROVE  TypeOK'
      OBVIOUS
  <2>1. ASSUME NEW c \in Conns, Enqueue(c)
        PROVE  TypeOK'
      BY <2>1, SuccWraps DEF TypeOK, Enqueue
  <2>2. CASE Dequeue
      BY <2>2, SuccWraps DEF TypeOK, Dequeue
  <2>3. CASE UNCHANGED vars
      BY <2>3 DEF TypeOK, vars
  <2> QED
      BY <2>1, <2>2, <2>3 DEF Next
<1> QED
    BY <1>1, <1>2, PTL DEF Spec

(* No hole: the slots between head and tail all hold connections, so that  *)
(* process_cleanup_queue drains the ring completely.                       *)
THEOREM Holeless == Spec => []NoHole
<1>1. Init => NoHole
    BY QueueSizeAssumption DEF Init, NoHole, Count
<1>2. TypeOK /\ NoHole /\ [Next]_vars => NoHole'
  <2> SUFFICES ASSUME TypeOK, NoHole, [Next]_vars
               PROVE  NoHole'
      OBVIOUS
  <2>1. ASSUME NEW c \in Conns, Enqueue(c), Succ(tail) # head
        PROVE  NoHole'
    <3>1. Contents' = Append(Contents, c) /\ Count' = Count + 1
        BY <2>1, EnqueueContents
    <3>2. /\ Contents \in Seq(Conns \cup {NULL})
          /\ Len(Contents) = Count
          /\ Count \in Nat
        BY ContentsSeq, RingFacts
    <3> QED
        BY <3>1, <3>2 DEF NoHole
  <2>2. CASE Dequeue /\ head # tail
    <3>1. /\ Contents' = Tail(Contents)
          /\ Count' = Count - 1
          /\ Count > 0
          /\ Count \in Nat
        BY <2>2, DequeueContents, RingFacts
    <3>2. /\ Contents \in Seq(Conns \cup {NULL})
          /\ Len(Contents) = Count
        BY ContentsSeq
    <3>3. \A i \in 1 .. Count - 1 : Tail(Contents)[i] = Contents[i + 1]
        BY <3>1, <3>2, HeadTailProperties
    <3>4. \A i \in 1 .. Count - 1 : Contents[i + 1] \in Conns
        BY <3>1 DEF NoHole
    <3> QED
        BY <3>1, <3>3, <3>4 DEF NoHole
  <2>3. CASE UNCHANGED <<head, tail, queue>>
      BY <2>3 DEF NoHole, Contents, Count, SlotOf
  <2> QED
      BY <2>1, <2>2, <2>3 DEF Next, Enqueue, Dequeue, vars
<1> QED
    BY <1>1, <1>2, TypeCorrect, PTL DEF Spec

(* The ring buffer implements the bounded first-in first-out queue: every  *)
(* behaviour of lb_net.c:19-62 is, seen through Contents, one of           *)
(* CleanupFifo.                                                            *)
THEOREM RingImplementsFifo == Spec => ImplementsFifo
<1>1. Init => Fifo!Init
  <2> SUFFICES ASSUME Init
               PROVE  Fifo!Init
      OBVIOUS
  <2>1. Count = 0
      BY DEF Init, Count
  <2>2. Contents = << >>
      BY <2>1 DEF Contents
  <2> QED
      BY <2>2 DEF Init, Fifo!Init
<1>2. TypeOK /\ [Next]_vars => [Fifo!Next]_(Fifo!vars)
  <2> SUFFICES ASSUME TypeOK, [Next]_vars
               PROVE  [Fifo!Next]_(Fifo!vars)
      OBVIOUS
  <2>1. /\ Contents \in Seq(Conns \cup {NULL})
        /\ Len(Contents) = Count
        /\ Count \in Nat
        /\ Count <= CLEANUP_QUEUE_SIZE - 1
      BY ContentsSeq, RingFacts
  <2>2. UNCHANGED <<head, tail, queue>> => Contents' = Contents
      BY DEF Contents, Count, SlotOf
  <2>3. ASSUME NEW c \in Conns, Enqueue(c), Succ(tail) # head
        PROVE  Fifo!Enqueue(c)
    <3>1. Contents' = Append(Contents, c) /\ Count < CLEANUP_QUEUE_SIZE - 1
        BY <2>3, EnqueueContents
    <3>2. ret' = TRUE
        BY <2>3 DEF Enqueue
    <3> QED
        BY <2>1, <3>1, <3>2 DEF Fifo!Enqueue
  <2>4. ASSUME NEW c \in Conns, Enqueue(c), Succ(tail) = head
        PROVE  Fifo!Refuse
    <3>1. Count = CLEANUP_QUEUE_SIZE - 1
        BY <2>4, RingFacts
    <3>2. ret' = FALSE /\ Contents' = Contents
        BY <2>2, <2>4 DEF Enqueue
    <3> QED
        BY <2>1, <3>1, <3>2 DEF Fifo!Refuse
  <2>5. CASE Dequeue /\ head # tail
    <3>1. Count > 0 /\ ret' = Contents[1] /\ Contents' = Tail(Contents)
        BY <2>5, DequeueContents
    <3>2. Contents # << >> /\ Head(Contents) = Contents[1]
        BY <2>1, <3>1
    <3> QED
        BY <3>1, <3>2 DEF Fifo!Next, Fifo!Dequeue
  <2>6. CASE Dequeue /\ head = tail
    <3>1. Contents = << >>
        BY <2>1, <2>6, RingFacts
    <3>2. ret' = NULL /\ Contents' = Contents
        BY <2>2, <2>6 DEF Dequeue
    <3> QED
        BY <3>1, <3>2 DEF Fifo!Next, Fifo!Nothing
  <2>7. CASE UNCHANGED vars
      BY <2>2, <2>7 DEF vars, Fifo!vars
  <2> QED
      BY <2>3, <2>4, <2>5, <2>6, <2>7 DEF Next, Fifo!Next
<1> QED
    BY <1>1, <1>2, TypeCorrect, PTL DEF Spec, ImplementsFifo, Fifo!Spec

===============================================================================
