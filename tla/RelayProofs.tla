----------------------------- MODULE RelayProofs -----------------------------
(***************************************************************************)
(* The relay is type correct.  TypeOK is inductive as it stands; the work  *)
(* is in interest, a function of functions that Mod and Accept update in   *)
(* one place, and in the choice of the side a handler writes to.           *)
(***************************************************************************)
EXTENDS Relay, FiniteSetTheorems, SequenceTheorems, TLAPS

-----------------------------------------------------------------------------
(* Type correctness.                                                       *)

(* The handler of an event reads from one side and writes to the other.    *)
LEMMA DestType ==
    ASSUME NEW e \in Events
    PROVE  e.conn \in Conns /\ e.side \in Sides /\ Dest(e) \in Sides
BY DEF Events, Dest, Other, Sides

(* Arming one socket keeps the type of interest.                           *)
LEMMA ArmType ==
    ASSUME interest \in [Conns -> [Sides -> Interests]],
           NEW c \in Conns, NEW s \in Sides, NEW m \in Interests
    PROVE  [interest EXCEPT ![c][s] = m] \in [Conns -> [Sides -> Interests]]
<1>1. [interest[c] EXCEPT ![s] = m] \in [Sides -> Interests]
    OBVIOUS
<1> QED
    BY <1>1

(* So does EPOLL_CTL_MOD, whether it fails or not.                         *)
LEMMA ModType ==
    ASSUME interest \in [Conns -> [Sides -> Interests]],
           NEW c \in Conns, NEW s \in Sides, NEW m \in Interests,
           Mod(c, s, m)
    PROVE  interest' \in [Conns -> [Sides -> Interests]]
BY ArmType DEF Mod

(* A jump stays within the labels.                                         *)
LEMMA GotoType ==
    ASSUME pc \in [Workers -> Labels], NEW w \in Workers, NEW l \in Labels, Goto(w, l)
    PROVE  pc' \in [Workers -> Labels]
BY DEF Goto

(* The first connections, events and labels are of the right type.         *)
LEMMA TypeInit == Init => TypeOK
<1> SUFFICES ASSUME Init
             PROVE  TypeOK
    OBVIOUS
<1>1. PICK c \in Conns : TRUE
    BY SizesAssumption
<1>2. [conn |-> c, side |-> "client", kind |-> "in"] \in Events
    BY DEF Events, Sides, Kinds
<1>3. cur \in [Workers -> Events]
    BY <1>2 DEF Init
<1> QED
    BY <1>3 DEF Init, TypeOK, Interests, Labels

(* Every step of worker_thread_v2 keeps the types.                         *)
LEMMA TypeStep == TypeOK /\ [Next]_vars => TypeOK'
<1> SUFFICES ASSUME TypeOK, [Next]_vars
             PROVE  TypeOK'
    OBVIOUS
<1> USE DEF TypeOK
<1>1. CASE Stop
    BY <1>1 DEF Stop, connVars, countVars, workerVars
<1>2. ASSUME NEW w \in Workers, Loop(w)
      PROVE  TypeOK'
    BY <1>2 DEF Loop, Goto, connVars, countVars, Labels, Interests, Sides
<1>3. ASSUME NEW w \in Workers, BatchDone(w)
      PROVE  TypeOK'
    BY <1>3 DEF BatchDone, Goto, connVars, countVars, Labels, Interests, Sides
<1>4. ASSUME NEW w \in Workers, AcceptNothing(w)
      PROVE  TypeOK'
    BY <1>4 DEF AcceptNothing, Goto, connVars, countVars, Labels, Interests, Sides
<1>5. ASSUME NEW w \in Workers, RecvData(w)
      PROVE  TypeOK'
    BY <1>5 DEF RecvData, Goto, connVars, countVars, Labels, Interests, Sides
<1>6. ASSUME NEW w \in Workers, RecvDone(w)
      PROVE  TypeOK'
    BY <1>6 DEF RecvDone, Goto, connVars, countVars, Labels, Interests, Sides
<1>7. ASSUME NEW w \in Workers, Rearm(w)
      PROVE  TypeOK'
  <2>1. pc' \in [Workers -> Labels]
      BY <1>7 DEF Rearm, Goto, Labels
  <2>2. mask' \in [Workers -> Interests]
      BY <1>7 DEF Rearm, Interests
  <2> QED
      BY <1>7, <2>1, <2>2 DEF Rearm, connVars, countVars
<1>8. ASSUME NEW w \in Workers, Uncount(w)
      PROVE  TypeOK'
    BY <1>8 DEF Uncount, Goto, connVars, countVars, Labels, Interests, Sides
<1>9. ASSUME NEW w \in Workers, Invalidate(w)
      PROVE  TypeOK'
    BY <1>9 DEF Invalidate, Goto, connVars, countVars, Labels, Interests, Sides
<1>10. ASSUME NEW w \in Workers, Leave(w)
      PROVE  TypeOK'
    BY <1>10 DEF Leave, Goto, connVars, countVars, Labels, Interests, Sides
<1>11. ASSUME NEW w \in Workers, Drain(w)
      PROVE  TypeOK'
  <2>1. CASE queue = << >>
      BY <1>11, <2>1 DEF Drain, Goto, countVars, Labels
  <2>2. CASE queue # << >>
    <3>1. Head(queue) \in Conns /\ Tail(queue) \in Seq(Conns)
        BY <2>2, HeadTailProperties
    <3> QED
        BY <1>11, <2>2, <3>1 DEF Drain, countVars
  <2> QED
      BY <2>1, <2>2
<1>12. ASSUME NEW w \in Workers, EpollWait(w)
      PROVE  TypeOK'
  <2>1. PICK ready \in SUBSET Armed, listen \in BOOLEAN :
          /\ \E kind \in [ready -> Kinds] :
               batch' = [batch EXCEPT ![w] =
                 {[conn |-> x[1], side |-> x[2], kind |-> kind[x]] : x \in ready}]
          /\ interest' = [c \in Conns |-> [s \in Sides |->
                IF <<c, s>> \in ready THEN "off" ELSE interest[c][s]]]
          /\ accepting' = [accepting EXCEPT ![w] = listen]
      BY <1>12 DEF EpollWait
  <2>2. PICK kind \in [ready -> Kinds] :
          batch' = [batch EXCEPT ![w] =
            {[conn |-> x[1], side |-> x[2], kind |-> kind[x]] : x \in ready}]
      BY <2>1
  <2>3. \A x \in ready : [conn |-> x[1], side |-> x[2], kind |-> kind[x]] \in Events
      BY DEF Armed, Events
  <2>4. batch' \in [Workers -> SUBSET Events]
      BY <2>2, <2>3
  <2>5. interest' \in [Conns -> [Sides -> Interests]]
      BY <2>1 DEF Interests
  <2>6. pc' \in [Workers -> Labels]
      BY <1>12 DEF EpollWait, Goto, Labels
  <2> QED
      BY <1>12, <2>1, <2>4, <2>5, <2>6 DEF EpollWait, countVars
<1>13. ASSUME NEW w \in Workers, NEW c \in Conns, Accept(w, c)
      PROVE  TypeOK'
  <2>1. [interest EXCEPT ![c]["client"] = "in"] \in [Conns -> [Sides -> Interests]]
      BY ArmType DEF Sides, Interests
  <2>2. /\ heap' \in [Conns -> {"unused", "live", "freed"}]
        /\ open' \in [Conns -> SUBSET Sides]
        /\ valid' \in [Conns -> BOOLEAN]
        /\ interest' \in [Conns -> [Sides -> Interests]]
        /\ active_connections' \in Int
    <3>1. CASE heap' = [heap EXCEPT ![c] = "freed"] /\ UNCHANGED <<open, valid, interest, active_connections>>
        BY <3>1
    <3>2. CASE /\ heap' = [heap EXCEPT ![c] = "live"]
               /\ open' = [open EXCEPT ![c] = {"client"}]
               /\ valid' = [valid EXCEPT ![c] = TRUE]
               /\ interest' = [interest EXCEPT ![c]["client"] = "in"]
               /\ active_connections' = active_connections + 1
        BY <2>1, <3>2 DEF Sides
    <3> QED
        BY <1>13, <3>1, <3>2 DEF Accept
  <2> QED
      BY <1>13, <2>2 DEF Accept
<1>14. ASSUME NEW w \in Workers, NEW e \in Events, Dispatch(w, e)
      PROVE  TypeOK'
    BY <1>14 DEF Dispatch, Goto, connVars, countVars, Labels
<1>15. ASSUME NEW w \in Workers, Flush(w)
      PROVE  TypeOK'
  <2>1. cur[w].conn \in Conns /\ Dest(cur[w]) \in Sides
      BY DestType
  <2>2. pending' \in [Conns -> SUBSET Sides]
    <3>1. \/ pending' = pending
          \/ pending' = [pending EXCEPT ![cur[w].conn] = @ \ {Dest(cur[w])}]
        BY <1>15 DEF Flush
    <3> QED
        BY <2>1, <3>1
  <2>3. interest' \in [Conns -> [Sides -> Interests]]
      BY <1>15, <2>1, ModType DEF Flush, Interests
  <2>4. pc' \in [Workers -> Labels]
      BY <1>15 DEF Flush, Goto, Labels
  <2> QED
      BY <1>15, <2>2, <2>3, <2>4 DEF Flush, countVars
<1>16. ASSUME NEW w \in Workers, Send(w)
      PROVE  TypeOK'
  <2>1. cur[w].conn \in Conns /\ Dest(cur[w]) \in Sides
      BY DestType
  <2>2. pending' \in [Conns -> SUBSET Sides]
    <3>1. \/ pending' = pending
          \/ pending' = [pending EXCEPT ![cur[w].conn] = @ \cup {Dest(cur[w])}]
        BY <1>16 DEF Send
    <3> QED
        BY <2>1, <3>1
  <2>3. interest' \in [Conns -> [Sides -> Interests]]
      BY <1>16, <2>1, ModType DEF Send, Interests
  <2>4. pc' \in [Workers -> Labels]
      BY <1>16 DEF Send, Goto, Labels
  <2> QED
      BY <1>16, <2>2, <2>3, <2>4 DEF Send, countVars
<1>17. ASSUME NEW w \in Workers, Connect(w)
      PROVE  TypeOK'
  <2>1. cur[w].conn \in Conns
      BY DestType
  <2>2. [interest EXCEPT ![cur[w].conn]["backend"] = "in"] \in [Conns -> [Sides -> Interests]]
      BY <2>1, ArmType DEF Sides, Interests
  <2>3. interest' \in [Conns -> [Sides -> Interests]]
      BY <1>17, <2>2 DEF Connect
  <2>4. open' \in [Conns -> SUBSET Sides] /\ backend' \in [Conns -> Backends \cup {NoBackend}]
    <3>1. \/ open' = open /\ backend' = backend
          \/ /\ open' = [open EXCEPT ![cur[w].conn] = @ \cup {"backend"}]
             /\ \E b \in Backends : backend' = [backend EXCEPT ![cur[w].conn] = b]
        BY <1>17 DEF Connect
    <3>2. open[cur[w].conn] \cup {"backend"} \in SUBSET Sides
        BY <2>1 DEF Sides
    <3>3. open' \in [Conns -> SUBSET Sides]
        BY <3>1, <3>2
    <3>4. backend' \in [Conns -> Backends \cup {NoBackend}]
        BY <3>1
    <3> QED
        BY <3>3, <3>4
  <2>5. active_conns' \in [Backends -> Int]
      BY <1>17 DEF Connect
  <2>6. pc' \in [Workers -> Labels]
    <3>1. Goto(w, "send") \/ Goto(w, "close")
        BY <1>17 DEF Connect
    <3> QED
        BY <3>1, GotoType DEF Labels
  <2> QED
      BY <1>17, <2>3, <2>4, <2>5, <2>6 DEF Connect
<1>18. ASSUME NEW w \in Workers, Modify(w)
      PROVE  TypeOK'
  <2>1. interest' \in [Conns -> [Sides -> Interests]]
      BY <1>18, DestType, ModType DEF Modify
  <2> QED
      BY <1>18, <2>1 DEF Modify, Goto, countVars, Labels
<1>19. ASSUME NEW w \in Workers, CloseFds(w)
      PROVE  TypeOK'
  <2>1. cur[w].conn \in Conns
      BY DestType
  <2>2. [s \in Sides |-> IF s \in open[cur[w].conn] THEN "none" ELSE interest[cur[w].conn][s]]
          \in [Sides -> Interests]
      BY <2>1 DEF Interests
  <2>3. interest' \in [Conns -> [Sides -> Interests]]
      BY <1>19, <2>2 DEF CloseFds
  <2>4. open' \in [Conns -> SUBSET Sides]
      BY <1>19 DEF CloseFds
  <2> QED
      BY <1>19, <2>3, <2>4 DEF CloseFds, Goto, countVars, Labels
<1>20. ASSUME NEW w \in Workers, Enqueue(w)
      PROVE  TypeOK'
  <2>1. cur[w].conn \in Conns
      BY DestType
  <2>2. Append(queue, cur[w].conn) \in Seq(Conns)
      BY <2>1
  <2>3. queue' \in Seq(Conns) /\ heap' \in [Conns -> {"unused", "live", "freed"}]
      BY <1>20, <2>2 DEF Enqueue
  <2> QED
      BY <1>20, <2>3 DEF Enqueue, Goto, countVars, Labels
<1>21. CASE UNCHANGED vars
    BY <1>21 DEF vars, connVars, countVars, workerVars
<1> QED
    BY <1>1, <1>2, <1>3, <1>4, <1>5, <1>6, <1>7, <1>8, <1>9, <1>10, <1>11,
       <1>12, <1>13, <1>14, <1>15, <1>16, <1>17, <1>18, <1>19, <1>20, <1>21
       DEF Next, Step, Forward

(* The relay is type correct for any number of workers, connections and    *)
(* backends, whatever the sizes of the queue and the event array.          *)
THEOREM TypeCorrect == Spec => []TypeOK
BY TypeInit, TypeStep, PTL DEF Spec

===============================================================================
