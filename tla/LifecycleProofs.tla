--------------------------- MODULE LifecycleProofs ---------------------------
(***************************************************************************)
(* The two ways the process may end without a trace, for every number of     *)
(* workers and of signals: a start that fails, and one signal to a balancer  *)
(* that has started.                                                         *)
(***************************************************************************)
EXTENDS Lifecycle, FiniteSetTheorems, TLAPS

Started == {"spawn", "unwind", "loop"}
Bound == {"wrapper", "epoll", "calloc"} \cup Started

\* What main_lb_create holds after n of its steps.
Created == <<{}, {"lb"}, {"lb", "epfd"}, {"lb", "epfd", "pool"}, {"lb", "epfd", "pool", "queue"}>>

Typed ==
    /\ mpc \in {"options", "create", "add", "listen", "destroy", "exit"} \cup Bound
    /\ made \in 0..NW /\ held \subseteq Owned
    /\ wpc \in [W -> {"none", "loop", "done"}]
    /\ hpc \in [Handlers -> {"unsent", "returned", "stop", "join", "close", "destroy", "exit"}]
    /\ on \in [Handlers -> MainThread..Nowhere]

\* While no handler acts, what is held and which workers run follow from where
\* main is.
Quiet ==
    /\ ~twice /\ ~stale
    /\ "listen" \in held <=> mpc \in Bound
    /\ mpc \in {"add", "listen", "destroy"} \cup Bound => "lb" \in held /\ exited = "no"
    /\ mpc \in {"options", "exit"} \/ exited # "no" => held = {}
    /\ mpc = "create" /\ exited = "no" => \E n \in 1..5 : held = Created[n]
    /\ mpc \in {"calloc", "spawn", "loop"} => running
    /\ mpc = "unwind" => ~running
    /\ mpc = "loop" => made = NW
    /\ mpc \in Started => "workers" \in held
    /\ \A w \in W : wpc[w] = "loop" => mpc \in Started /\ w <= made

\* While h is the only handler and found main in its loop: it runs on the main
\* thread, and frees the load balancer after the last worker has left it.
Stopping(h) ==
    /\ ~twice /\ ~stale /\ made = NW /\ on[h] = MainThread
    /\ hpc[h] \in {"stop", "join"} => "workers" \in held
    /\ hpc[h] = "stop" => running
    /\ hpc[h] \in {"stop", "join", "close", "destroy"} => "lb" \in held /\ exited = "no"
    /\ hpc[h] \in {"close", "destroy", "exit"} => \A w \in W : wpc[w] # "loop"
    /\ hpc[h] = "destroy" => "listen" \notin held
    /\ hpc[h] = "exit" => held = {} /\ exited \in {"no", "0"}

LifeInv ==
    /\ Typed
    /\ Acting = {} => Quiet
    /\ \A h \in Handlers : Acting = {h} /\ mpc = "loop" => Stopping(h)

LEMMA LifeInitInv == LifeInit => LifeInv
  BY LifecycleAssumption
  DEF LifeInit, LifeInv, Typed, Quiet, Acting, MainThread, Nowhere, Bound, Started, Owned
------------------------------------------------------------------------------
(* main()                                                                    *)

\* A step of main finds no handler and leaves none.
LEMMA MainQuiet ==
    ASSUME LifeInv, MainRuns, hpc' = hpc, Typed', Quiet'
    PROVE  LifeInv'
<1>1. Acting' = {} /\ \A h \in Handlers : Acting' # {h}
  BY DEF MainRuns, Acting
<1> QED
  BY <1>1 DEF LifeInv

\* How many things are held after n steps of main_lb_create.
LEMMA CreatedCount ==
    ASSUME NEW n \in 1..5
    PROVE  Cardinality(Created[n]) + 1 = n
<1> DEFINE c2 == {"lb", "epfd"}
           c3 == {"lb", "epfd", "pool"}
           c4 == {"lb", "epfd", "pool", "queue"}
<1>1. c2 = {"lb"} \cup {"epfd"} /\ c3 = c2 \cup {"pool"} /\ c4 = c3 \cup {"queue"}
      /\ "epfd" \notin {"lb"} /\ "pool" \notin c2 /\ "queue" \notin c3
  OBVIOUS
<1>2. /\ Created[1] = {} /\ Created[2] = {"lb"} /\ Created[3] = c2
      /\ Created[4] = c3 /\ Created[5] = c4
  BY DEF Created
<1> HIDE DEF c2, c3, c4
<1>3. Cardinality({}) = 0 /\ Cardinality({"lb"}) = 1 /\ IsFiniteSet({"lb"})
  BY FS_EmptySet, FS_Singleton
<1>4. Cardinality(c2) = 2 /\ IsFiniteSet(c2)
  BY <1>1, <1>3, FS_AddElement
<1>5. Cardinality(c3) = 3 /\ IsFiniteSet(c3)
  BY <1>1, <1>4, FS_AddElement
<1>6. Cardinality(c4) = 4
  BY <1>1, <1>5, FS_AddElement
<1>7. n = 1 \/ n = 2 \/ n = 3 \/ n = 4 \/ n = 5
  OBVIOUS
<1> QED
  BY <1>2, <1>3, <1>4, <1>5, <1>6, <1>7

LEMMA CreateStep ==
    ASSUME LifeInv, main_lb_create
    PROVE  LifeInv'
<1>1. Quiet /\ Typed /\ mpc = "create" /\ exited = "no"
  BY DEF LifeInv, main_lb_create, MainRuns
<1>2. PICK n \in 1..5 : held = Created[n]
  BY <1>1 DEF Quiet
<1>3. Cardinality(held) + 1 = n
  BY <1>2, CreatedCount
<1>4. /\ UNCHANGED <<made, running, wpc, hpc, on, twice, stale>> /\ MainRuns
      /\ \/ /\ held' = held \cup {CreateOrder[n]}
            /\ mpc' = IF n = Len(CreateOrder) THEN "add" ELSE "create"
            /\ exited' = "no"
         \/ held' = held \ CreateUndo[n] /\ exited' = "1" /\ mpc' = "create"
  BY <1>1, <1>3 DEF main_lb_create, history
<1>5. \/ /\ held' \subseteq Owned /\ "listen" \notin held'
         /\ \/ mpc' = "create" /\ exited' = "no" /\ \E m \in 1..5 : held' = Created[m]
            \/ mpc' = "add" /\ exited' = "no" /\ "lb" \in held'
      \/ mpc' = "create" /\ exited' = "1" /\ held' = {}
  <2>1. Len(CreateOrder) = 5
    BY DEF CreateOrder
  <2>2. CASE n = 1
    BY <1>2, <1>4, <2>1, <2>2 DEF Created, CreateOrder, CreateUndo, Owned
  <2>3. CASE n = 2
    BY <1>2, <1>4, <2>1, <2>3 DEF Created, CreateOrder, CreateUndo, Owned
  <2>4. CASE n = 3
    BY <1>2, <1>4, <2>1, <2>4 DEF Created, CreateOrder, CreateUndo, Owned
  <2>5. CASE n = 4
    BY <1>2, <1>4, <2>1, <2>5 DEF Created, CreateOrder, CreateUndo, Owned
  <2>6. CASE n = 5
    BY <1>2, <1>4, <2>1, <2>6 DEF Created, CreateOrder, CreateUndo, Owned
  <2> QED
    BY <2>2, <2>3, <2>4, <2>5, <2>6
<1>6. Typed'
  BY <1>1, <1>4, <1>5 DEF Typed
<1>7. Quiet'
  BY <1>1, <1>4, <1>5 DEF Quiet, Bound, Started
<1> QED
  BY <1>4, <1>6, <1>7, MainQuiet

\* The other steps of main(), each with what it leaves for the next.
LEMMA MainStep ==
    ASSUME LifeInv, Main \/ \E opt \in {"config", "backend", "value", "help", "bad"} : Option(opt)
    PROVE  LifeInv'
<1>1. CASE main_lb_create
  BY <1>1, CreateStep
<1>2. ASSUME MainRuns PROVE Typed /\ Quiet /\ exited = "no"
  BY <1>2 DEF LifeInv, MainRuns
<1>3. ASSUME NEW opt, Option(opt) PROVE LifeInv'
  BY <1>2, <1>3, MainQuiet DEF Option, history, Typed, Quiet, Bound, Started
<1>4. CASE OptionsEnd
  BY <1>2, <1>4, MainQuiet DEF OptionsEnd, history, Typed, Quiet, Bound, Started, Created
<1>5. CASE AddBackends
  <2>1. held' \in {held, held \cup {"backends"}} /\ mpc = "add" /\ mpc' = "listen" /\ MainRuns
        /\ UNCHANGED <<made, running, wpc, hpc, on, exited, twice, stale>>
    BY <1>5 DEF AddBackends, history
  <2> QED
    BY <1>2, <2>1, MainQuiet DEF Typed, Quiet, Bound, Started, Owned
<1>6. CASE Listen
  BY <1>2, <1>6, MainQuiet DEF Listen, history, Typed, Quiet, Bound, Started, Owned
<1>7. CASE Wrapper
  BY <1>2, <1>7, MainQuiet DEF Wrapper, history, Typed, Quiet, Bound, Started, Owned
<1>8. CASE EpollAdd
  BY <1>2, <1>8, MainQuiet DEF EpollAdd, history, Typed, Quiet, Bound, Started, Owned
<1>9. CASE CallocWorkers
  BY <1>2, <1>9, MainQuiet DEF CallocWorkers, history, Typed, Quiet, Bound, Started, Owned
<1>10. CASE Spawn
  <2>1. MainRuns /\ mpc = "spawn" /\ UNCHANGED <<held, hpc, on, exited, twice, stale>>
    BY <1>10 DEF Spawn, history
  <2>2. made \in 0..NW /\ NW \in Nat
    BY <1>2, <2>1, LifecycleAssumption DEF Typed
  <2>3. CASE made < NW /\ made' = made + 1 /\ wpc' = [wpc EXCEPT ![made + 1] = "loop"]
             /\ UNCHANGED <<mpc, running>>
    <3>1. made' \in 0..NW /\ made + 1 \in W
      BY <2>2, <2>3 DEF W
    <3>2. \A w \in W : wpc'[w] = "loop" => w <= made'
      BY <1>2, <2>1, <2>2, <2>3, <3>1 DEF Typed, Quiet, W
    <3>3. Typed' /\ Quiet'
      BY <1>2, <2>1, <2>3, <3>1, <3>2 DEF Typed, Quiet, Bound, Started
    <3> QED
      BY <2>1, <3>3, MainQuiet
  <2>4. CASE running' = FALSE /\ mpc' = "unwind" /\ UNCHANGED <<made, wpc>>
    BY <1>2, <2>1, <2>4, MainQuiet DEF Typed, Quiet, Bound, Started
  <2>5. CASE made = NW /\ mpc' = "loop" /\ UNCHANGED <<made, running, wpc>>
    BY <1>2, <2>1, <2>5, MainQuiet DEF Typed, Quiet, Bound, Started
  <2> QED
    BY <1>10, <2>3, <2>4, <2>5 DEF Spawn
<1>11. CASE Unwind
  <2>1. \A w \in W : wpc[w] # "loop"
    BY <1>2, <1>11, LifecycleAssumption DEF Unwind, Typed, Quiet, W
  <2> QED
    BY <1>2, <1>11, <2>1, MainQuiet DEF Unwind, history, Typed, Quiet, Bound, Started
<1>12. CASE MainDestroy
  <2>1. MainRuns /\ mpc = "destroy" /\ "lb" \in held /\ "listen" \notin held
    BY <1>2, <1>12 DEF MainDestroy, Quiet, Bound, Started
  <2>2. held' = {} /\ ~twice' /\ mpc' = "exit" /\ UNCHANGED <<made, running, wpc, hpc, on, exited, stale>>
    BY <1>2, <1>12, <2>1 DEF MainDestroy, main_lb_destroy, Destroyed, Typed, Quiet
  <2> QED
    BY <1>2, <2>1, <2>2, MainQuiet DEF Typed, Quiet, Bound, Started
<1>13. CASE MainExit
  BY <1>2, <1>13, MainQuiet DEF MainExit, history, Typed, Quiet, Bound, Started
<1> QED
  BY <1>1, <1>3, <1>4, <1>5, <1>6, <1>7, <1>8, <1>9, <1>10, <1>11, <1>12, <1>13 DEF Main
------------------------------------------------------------------------------
(* The other threads and the handler                                         *)

LEMMA WorkerStep ==
    ASSUME LifeInv, NEW w \in W, WorkerTurn(w)
    PROVE  LifeInv'
<1>1. UNCHANGED <<mpc, made, running, held, hpc, on, exited, twice>>
      /\ wpc[w] = "loop" /\ wpc' = [wpc EXCEPT ![w] = IF running THEN "loop" ELSE "done"]
      /\ stale' = (stale \/ "lb" \notin held)
  BY DEF WorkerTurn
<1>2. Acting' = Acting
  BY <1>1 DEF Acting
<1>3. Typed' /\ \A v \in W : wpc'[v] = "loop" => wpc[v] = "loop"
  BY <1>1 DEF LifeInv, Typed
<1>4. Acting = {} => Quiet'
  <2> SUFFICES ASSUME Quiet PROVE Quiet'
    BY DEF LifeInv
  <2>1. "lb" \in held
    BY <1>1 DEF Quiet, Bound, Started
  <2> QED
    BY <1>1, <1>3, <2>1 DEF Quiet
<1>5. ASSUME NEW h \in Handlers, Acting = {h}, mpc = "loop" PROVE Stopping(h)'
  <2>1. Stopping(h) /\ hpc[h] \in {"stop", "join", "close", "destroy", "exit"}
    BY <1>5 DEF LifeInv, Typed, Acting
  <2>2. "lb" \in held
    BY <1>1, <2>1 DEF Stopping
  <2> QED
    BY <1>1, <1>3, <2>1, <2>2 DEF Stopping
<1> QED
  BY <1>1, <1>2, <1>3, <1>4, <1>5 DEF LifeInv

\* A step that changes nothing the invariant reads.
LEMMA Elsewhere ==
    ASSUME LifeInv, UNCHANGED <<mpc, made, running, held, wpc, hpc, on, exited, twice, stale>>
    PROVE  LifeInv'
<1>1. Acting' = Acting /\ Typed' /\ (Quiet => Quiet') /\ \A h \in Handlers : Stopping(h) => Stopping(h)'
  BY DEF Acting, LifeInv, Typed, Quiet, Stopping
<1> QED
  BY <1>1 DEF LifeInv

LEMMA DeliverStep ==
    ASSUME LifeInv, NEW h \in Handlers, Deliver(h)
    PROVE  LifeInv'
<1>1. UNCHANGED <<mpc, made, running, held, wpc, exited, twice, stale>>
      /\ exited = "no" /\ mpc # "options" /\ hpc[h] = "unsent"
      /\ hpc' = [hpc EXCEPT ![h] = IF mpc = "create" THEN "returned" ELSE "stop"]
  BY DEF Deliver, history
<1>2. PICK t \in {MainThread} \cup (IF MainRuns THEN {} ELSE W \cup Detached) : on' = [on EXCEPT ![h] = t]
  BY DEF Deliver
<1>3. t \in MainThread..Nowhere /\ (Acting = {} => t = MainThread)
  BY <1>1, <1>2, LifecycleAssumption DEF MainRuns, MainThread, Nowhere, W, Detached
<1>4. Typed'
  BY <1>1, <1>2, <1>3 DEF LifeInv, Typed
<1>5. CASE mpc = "create"
  <2>1. Acting' = Acting
    BY <1>1, <1>5 DEF LifeInv, Typed, Acting
  <2> QED
    BY <1>1, <1>4, <1>5, <2>1 DEF LifeInv, Quiet
<1>6. CASE mpc # "create"
  <2>1. Acting' = Acting \cup {h} /\ h \notin Acting /\ hpc'[h] = "stop" /\ on'[h] = t
    BY <1>1, <1>2, <1>6 DEF LifeInv, Typed, Acting
  <2>2. ASSUME NEW g \in Handlers, Acting' = {g}, mpc = "loop" PROVE Stopping(g)'
    <3>1. g = h /\ Acting = {}
      BY <2>1, <2>2
    <3> QED
      BY <1>1, <1>3, <2>1, <2>2, <3>1 DEF LifeInv, Quiet, Stopping, Bound, Started
  <2> QED
    BY <1>1, <1>4, <2>1, <2>2 DEF LifeInv
<1> QED
  BY <1>5, <1>6

LEMMA HandlerStep ==
    ASSUME LifeInv, NEW h \in Handlers, signal_handler(h)
    PROVE  LifeInv'
<1>1. h \in Acting /\ Typed /\ exited = "no"
  BY DEF LifeInv, signal_handler, StopBegin, StopJoin, StopClose, HandlerDestroy, HandlerExit,
         Acting, Runs
<1>2. UNCHANGED <<mpc, made, wpc, on, stale>> /\ held' \subseteq held
      /\ \/ hpc' = hpc
         \/ \E l \in {"join", "close", "destroy", "exit"} : hpc' = [hpc EXCEPT ![h] = l]
  BY DEF signal_handler, StopBegin, StopJoin, StopClose, HandlerDestroy, HandlerExit,
         main_lb_destroy, history
<1>3. Typed' /\ Acting' = Acting
  BY <1>1, <1>2 DEF Typed, Acting
<1>4. ASSUME NEW g \in Handlers, Acting = {g}, mpc = "loop" PROVE Stopping(g)'
  <2>1. g = h /\ Stopping(h)
    BY <1>1, <1>4 DEF LifeInv
  <2>2. CASE StopBegin(h)
    BY <1>1, <2>1, <2>2 DEF StopBegin, Stopping, Typed, history
  <2>3. CASE StopJoin(h)
    <3>1. \A w \in W : wpc[w] # "loop"
      <4> SUFFICES ASSUME NEW w \in W, wpc[w] = "loop" PROVE FALSE
        OBVIOUS
      <4>1. on[h] # w
        BY <2>1, LifecycleAssumption DEF Stopping, MainThread, W
      <4>2. \A k \in Handlers \ {h} : hpc[k] \notin {"join", "close", "destroy"}
        BY <1>4, <2>1 DEF Acting
      <4> QED
        BY <2>3, <4>1, <4>2 DEF StopJoin
    <3>2. ~(made < NW)
      BY <2>1, LifecycleAssumption DEF Stopping
    <3>3. hpc' = [hpc EXCEPT ![h] = "close"] /\ UNCHANGED <<running, held, exited, twice>> /\ hpc[h] = "join"
      BY <2>3, <3>2 DEF StopJoin, history
    <3> QED
      BY <1>1, <1>2, <2>1, <3>1, <3>3 DEF Stopping, Typed
  <2>4. CASE StopClose(h)
    BY <1>1, <2>1, <2>4 DEF StopClose, Stopping, Typed, history
  <2>5. CASE HandlerDestroy(h)
    <3>1. held' = {} /\ ~twice' /\ hpc[h] = "destroy" /\ UNCHANGED <<running, exited>>
          /\ hpc' = [hpc EXCEPT ![h] = "exit"]
      BY <1>1, <2>1, <2>5 DEF HandlerDestroy, main_lb_destroy, Destroyed, Stopping, Typed
    <3> QED
      BY <1>1, <1>2, <2>1, <3>1 DEF Stopping, Typed
  <2>6. CASE HandlerExit(h)
    BY <1>1, <2>1, <2>6 DEF HandlerExit, Stopping, history
  <2> QED
    BY <2>1, <2>2, <2>3, <2>4, <2>5, <2>6 DEF signal_handler
<1> QED
  BY <1>1, <1>2, <1>3, <1>4 DEF LifeInv

LEMMA LifeNextInv == LifeInv /\ [LifeNext]_lifeVars => LifeInv'
<1> SUFFICES ASSUME LifeInv, [LifeNext]_lifeVars PROVE LifeInv'
  OBVIOUS
<1>1. ASSUME NEW d \in Detached, DetachedTurn(d) PROVE LifeInv'
  BY <1>1, Elsewhere DEF DetachedTurn
<1>2. CASE UNCHANGED lifeVars
  BY <1>2, Elsewhere DEF lifeVars, history
<1> QED
  BY <1>1, <1>2, MainStep, WorkerStep, DeliverStep, HandlerStep DEF LifeNext

LEMMA LifeInvariant == LifeSpec => []LifeInv
  BY LifeInitInv, LifeNextInv, PTL DEF LifeSpec
------------------------------------------------------------------------------
\* Every failure of main_lb_create and main_lb_start undoes what came before it:
\* the process ends owning nothing, with nothing freed twice and no worker left.
THEOREM FailuresUndone == LifeSpec => []FailedStartUndone
<1>1. LifeInv => FailedStartUndone
  BY DEF LifeInv, Quiet, FailedStartUndone, Bound, Started
<1> QED
  BY <1>1, LifeInvariant, PTL

\* One signal to a balancer in its loop: main_lb_stop has joined every worker
\* before main_lb_destroy frees what they read, and exit finds nothing held.
THEOREM OneSignalStops == LifeSpec => []OneSignalClean
<1>1. LifeInv => OneSignalClean
  <2> SUFFICES ASSUME LifeInv, mpc = "loop", Cardinality(Acting) = 1
               PROVE  ~twice /\ ~stale /\ (exited # "no" => exited = "0" /\ held = {})
    BY DEF OneSignalClean
  <2>1. Acting \subseteq Handlers /\ IsFiniteSet(Handlers)
    BY FS_Interval, LifecycleAssumption DEF Acting, Handlers
  <2>2. IsFiniteSet(Acting)
    BY <2>1, FS_Subset
  <2>3. PICK h : Acting = {h}
    BY <2>2, FS_Singleton
  <2>4. h \in Handlers /\ Stopping(h) /\ hpc[h] \in {"stop", "join", "close", "destroy", "exit"}
    BY <2>1, <2>3 DEF LifeInv, Typed, Acting
  <2> QED
    BY <2>4 DEF Stopping
<1> QED
  BY <1>1, LifeInvariant, PTL
==============================================================================
