------------------------------ MODULE Lifecycle ------------------------------
(***************************************************************************)
(* The life of the process: main() of main.c, main_lb_create,              *)
(* main_lb_start with each of its failures, the loops of the threads it    *)
(* creates, and the SIGINT/SIGTERM handler, which stops, frees and exits   *)
(* from inside whatever the interrupted thread was doing.                  *)
(*                                                                         *)
(* What the process owns is the set held; releasing something that is not  *)
(* held is remembered in twice, reading the load balancer after it was     *)
(* freed in stale (workers) and late (the detached threads).               *)
(***************************************************************************)
EXTENDS Naturals, Sequences, FiniteSets

CONSTANTS
    NW,         \* worker_threads
    MaxBackends, \* MAX_BACKENDS
    MaxSignals  \* how many signals are sent, at most

ASSUME LifecycleAssumption == NW \in Nat \ {0} /\ MaxSignals \in Nat /\ MaxBackends \in Nat \ 0..2

\* Threads: main, the workers, the health and the statistics thread.
MainThread == 0
W == 1..NW
Detached == {NW + 1, NW + 2}
Nowhere == NW + 3
Handlers == 1..MaxSignals

\* What main_lb_create acquires, in its order, and what it gives back when the
\* i-th of them fails.
CreateOrder == <<"lb", "epfd", "pool", "queue", "mutex">>
CreateUndo == <<{}, {"lb"}, {"epfd", "lb"}, {"pool", "epfd", "lb"},
                {"queue", "pool", "epfd", "lb"}>>
Owned == {"lb", "epfd", "pool", "queue", "mutex", "backends", "listen", "wrapper", "workers"}
\* What main_lb_destroy releases: everything but the listening socket.
Destroyed == Owned \ {"listen"}

VARIABLES
    config_file, \* -c was given
    backend_count, \* backends on the command line, then lb->backend_count
    mpc,        \* where main() is
    made,       \* workers created so far by main_lb_start
    running,    \* lb->running
    held,       \* what the process owns
    wpc,        \* wpc[w]: a worker thread is "none", "loop" or "done"
    dpc,        \* dpc[d]: the same of the detached threads
    hpc,        \* hpc[h]: where the h-th signal's handler is
    on,         \* on[h]: the thread it interrupted
    exited,     \* "no", or how the process ended: 0, 1 or a crash
    twice,      \* history: something was released that was not held
    stale,      \* history: a worker read lb after it was freed
    late        \* history: a detached thread did

history == <<twice, stale, late>>
options == <<config_file, backend_count>>
lifeVars == <<options, mpc, made, running, held, wpc, dpc, hpc, on, exited, history>>

LifeInit ==
    /\ config_file = FALSE /\ backend_count = 0
    /\ mpc = "options" /\ made = 0 /\ running = FALSE /\ held = {}
    /\ wpc = [w \in W |-> "none"] /\ dpc = [d \in Detached |-> "none"]
    /\ hpc = [h \in Handlers |-> "unsent"] /\ on = [h \in Handlers |-> Nowhere]
    /\ exited = "no"
    /\ twice = FALSE /\ stale = FALSE /\ late = FALSE

\* The handlers that found a load balancer; one that did not has no effect.
Acting == {h \in Handlers : hpc[h] \notin {"unsent", "returned"}}

\* main() runs unless a handler that has not returned interrupts it.
MainRuns == exited = "no" /\ Acting = {}

\* main_lb_destroy frees what lb points to; fields that are NULL are skipped,
\* and freeing through a freed lb releases everything a second time.
main_lb_destroy ==
    /\ held' = held \ Destroyed
    /\ twice' = (twice \/ "lb" \notin held)

-----------------------------------------------------------------------------
(* main()                                                                  *)

\* One turn of the getopt_long loop. Ports, weights and health settings only
\* set values that are data here; help, an unknown option or algorithm, an
\* address without a colon and one backend too many end the process.
Option(opt) ==
    /\ MainRuns /\ mpc = "options"
    /\ config_file' = (config_file \/ opt = "config")
    /\ IF opt = "backend" /\ backend_count < MaxBackends
         THEN backend_count' = backend_count + 1
         ELSE UNCHANGED backend_count
    /\ exited' = CASE opt = "help" -> "0"
                   [] opt = "bad" \/ (opt = "backend" /\ backend_count = MaxBackends) -> "1"
                   [] OTHER -> exited
    /\ UNCHANGED <<mpc, made, running, held, wpc, dpc, hpc, on, history>>

\* After the options: a configuration file is parsed and checked, and whatever
\* comes of it (config_parse, config_check) the process ends; without backends
\* there are the three default ones.
OptionsEnd ==
    /\ MainRuns /\ mpc = "options"
    /\ IF config_file
         THEN exited' \in {"0", "1"} /\ UNCHANGED <<mpc, backend_count>>
         ELSE /\ mpc' = "create" /\ UNCHANGED exited
              /\ backend_count' = IF backend_count = 0 THEN 3 ELSE backend_count
    /\ UNCHANGED <<config_file, made, running, held, wpc, dpc, hpc, on, history>>

\* main_lb_create acquires one thing after another; the one that cannot be had
\* makes it release those its own branch names, and main exits.
main_lb_create ==
    /\ MainRuns /\ mpc = "create"
    /\ LET got == Cardinality(held)
       IN \/ /\ held' = held \cup {CreateOrder[got + 1]}
             /\ mpc' = IF got + 1 = Len(CreateOrder) THEN "add" ELSE "create"
             /\ UNCHANGED exited
          \/ held' = held \ CreateUndo[got + 1] /\ exited' = "1" /\ UNCHANGED mpc
    /\ UNCHANGED <<options, made, running, wpc, dpc, hpc, on, history>>

\* The loop over main_lb_add_backend; a backend that cannot be allocated is
\* reported and skipped, so that there may be fewer, or none.
AddBackends ==
    /\ MainRuns /\ mpc = "add" /\ mpc' = "listen"
    /\ backend_count' \in 0..backend_count
    /\ held' = held \cup (IF backend_count' > 0 THEN {"backends"} ELSE {})
    /\ UNCHANGED <<config_file, made, running, wpc, dpc, hpc, on, exited, history>>

\* main_lb_start up to running = true: the socket, its wrapper, epoll_ctl. The
\* return of -1 leads main to main_lb_destroy.
Listen ==
    /\ MainRuns /\ mpc = "listen"
    /\ \/ held' = held \cup {"listen"} /\ mpc' = "wrapper"
       \/ mpc' = "destroy" /\ UNCHANGED held
    /\ UNCHANGED <<options, made, running, wpc, dpc, hpc, on, exited, history>>

Wrapper ==
    /\ MainRuns /\ mpc = "wrapper"
    /\ \/ held' = held \cup {"wrapper"} /\ mpc' = "epoll"
       \/ held' = held \ {"listen"} /\ mpc' = "destroy"
    /\ UNCHANGED <<options, made, running, wpc, dpc, hpc, on, exited, history>>

EpollAdd ==
    /\ MainRuns /\ mpc = "epoll"
    /\ \/ running' = TRUE /\ mpc' = "calloc" /\ UNCHANGED held
       \/ held' = held \ {"wrapper", "listen"} /\ mpc' = "destroy" /\ UNCHANGED running
    /\ UNCHANGED <<options, made, wpc, dpc, hpc, on, exited, history>>

\* Mutant: the failed start leaves the socket open.
CallocLeaking ==
    /\ MainRuns /\ mpc = "calloc"
    /\ \/ held' = held \cup {"workers"} /\ mpc' = "spawn"
       \/ UNCHANGED held /\ mpc' = "destroy"
    /\ UNCHANGED <<options, made, running, wpc, dpc, hpc, on, exited, history>>

\* The array of workers; when it cannot be allocated running stays true.
CallocWorkers ==
    /\ MainRuns /\ mpc = "calloc"
    /\ \/ held' = held \cup {"workers"} /\ mpc' = "spawn"
       \/ held' = held \ {"listen"} /\ mpc' = "destroy"
    /\ UNCHANGED <<options, made, running, wpc, dpc, hpc, on, exited, history>>

\* pthread_create of the next worker; a failure stops the ones created.
Spawn ==
    /\ MainRuns /\ mpc = "spawn"
    /\ \/ /\ made < NW
          /\ made' = made + 1 /\ wpc' = [wpc EXCEPT ![made + 1] = "loop"]
          /\ UNCHANGED <<mpc, running, dpc>>
       \/ /\ made < NW
          /\ running' = FALSE /\ mpc' = "unwind"
          /\ UNCHANGED <<made, wpc, dpc>>
       \/ \* all created: the two detached threads, each if it can be created
          /\ made = NW /\ mpc' = "loop"
          /\ dpc' \in [Detached -> {"none", "loop"}]
          /\ UNCHANGED <<made, running, wpc>>
    /\ UNCHANGED <<options, held, hpc, on, exited, history>>

\* The failed start joins the workers it had created and gives back the rest.
Unwind ==
    /\ MainRuns /\ mpc = "unwind"
    /\ \A w \in 1..made : wpc[w] = "done"
    /\ held' = held \ {"workers", "listen"} /\ mpc' = "destroy"
    /\ UNCHANGED <<options, made, running, wpc, dpc, hpc, on, exited, history>>

\* A start that failed is followed by main_lb_destroy and exit(1); the loop
\* while (global_lb->running) sleep(1) ends in the same way, with 0, should
\* running be cleared while main itself still runs.
MainDestroy ==
    /\ MainRuns
    /\ mpc \in {"destroy"} \cup (IF running THEN {} ELSE {"loop"})
    /\ mpc' = "exit"
    /\ main_lb_destroy
    /\ UNCHANGED <<options, made, running, wpc, dpc, hpc, on, exited, stale, late>>

MainExit ==
    /\ MainRuns /\ mpc = "exit"
    /\ exited' = IF made = NW THEN "0" ELSE "1"
    /\ UNCHANGED <<options, mpc, made, running, held, wpc, dpc, hpc, on, history>>

Main == OptionsEnd \/ main_lb_create \/ AddBackends \/ Listen \/ Wrapper \/ EpollAdd
          \/ CallocWorkers \/ Spawn \/ Unwind \/ MainDestroy \/ MainExit

-----------------------------------------------------------------------------
(* The other threads                                                       *)

\* A thread runs its own code unless a signal handler runs on it.
Free(t) == exited = "no" /\ \A h \in Acting : on[h] # t

\* One turn of a worker's loop: it reads lb->running and either goes round
\* again or returns. Module Relay is what happens inside a turn.
WorkerTurn(w) ==
    /\ Free(w) /\ wpc[w] = "loop"
    /\ wpc' = [wpc EXCEPT ![w] = IF running THEN "loop" ELSE "done"]
    /\ stale' = (stale \/ "lb" \notin held)
    /\ UNCHANGED <<options, mpc, made, running, held, dpc, hpc, on, exited, twice, late>>

\* The same of health_check_thread and stats_thread, which sleep between turns.
DetachedTurn(d) ==
    /\ Free(d) /\ dpc[d] = "loop"
    /\ dpc' = [dpc EXCEPT ![d] = IF running THEN "loop" ELSE "done"]
    /\ late' = (late \/ "lb" \notin held)
    /\ UNCHANGED <<options, mpc, made, running, held, wpc, hpc, on, exited, twice, stale>>

-----------------------------------------------------------------------------
(* signal_handler                                                          *)

\* The kernel (external) gives a signal to the main thread unless main is in a
\* handler for the same signal, and then to some other thread; another signal
\* number interrupts the handler on main.
Deliver(h) ==
    /\ exited = "no" /\ mpc # "options"
    /\ hpc[h] = "unsent" /\ \A g \in 1..(h - 1) : hpc[g] # "unsent"
    /\ LET live == {w \in W : wpc[w] = "loop"} \cup {d \in Detached : dpc[d] = "loop"}
       IN on' \in {[on EXCEPT ![h] = t] :
                      t \in {MainThread} \cup (IF MainRuns THEN {} ELSE live)}
    \* if (global_lb): not set before main_lb_create has returned
    /\ hpc' = [hpc EXCEPT ![h] = IF mpc = "create" THEN "returned" ELSE "stop"]
    /\ UNCHANGED <<options, mpc, made, running, held, wpc, dpc, exited, history>>

\* A handler runs unless a later one interrupts it.
Runs(h) == exited = "no" /\ \A g \in Acting : g > h => on[g] # on[h]

\* Mutant: main_lb_stop goes straight to the socket, joining nobody.
StopUnjoined(h) ==
    /\ Runs(h) /\ hpc[h] = "stop"
    /\ running' = FALSE
    /\ hpc' = [hpc EXCEPT ![h] = IF running THEN "close" ELSE "destroy"]
    /\ UNCHANGED <<options, mpc, made, held, wpc, dpc, on, exited, history>>

\* Mutant: running is left as it is, for the workers to go on.
StopRunning(h) ==
    /\ Runs(h) /\ hpc[h] = "stop"
    /\ hpc' = [hpc EXCEPT ![h] = IF "workers" \in held THEN "join" ELSE "close"]
    /\ UNCHANGED <<options, mpc, made, running, held, wpc, dpc, on, exited, history>>

\* main_lb_stop: nothing if lb is not running; it does not look whether lb is
\* still allocated.
StopBegin(h) ==
    /\ Runs(h) /\ hpc[h] = "stop"
    /\ running' = FALSE
    /\ hpc' = [hpc EXCEPT ![h] = IF ~running THEN "destroy"
                                 ELSE IF "workers" \in held THEN "join" ELSE "close"]
    /\ UNCHANGED <<options, mpc, made, held, wpc, dpc, on, exited, history>>

\* pthread_join of every worker, and close(listen_fd). A worker cannot join
\* itself and a thread has one joiner (both return at once). An id that
\* pthread_create has not filled in yet crashes the process.
StopJoin(h) ==
    /\ Runs(h) /\ hpc[h] = "join"
    /\ \A w \in W : \/ wpc[w] # "loop"
                     \/ on[h] = w
                     \/ \E g \in Handlers \ {h} : hpc[g] \in {"join", "close", "destroy"}
    /\ IF made < NW
         THEN exited' = "crash" /\ UNCHANGED hpc
         ELSE hpc' = [hpc EXCEPT ![h] = "close"] /\ UNCHANGED exited
    /\ UNCHANGED <<options, mpc, made, running, held, wpc, dpc, on, history>>

StopClose(h) ==
    /\ Runs(h) /\ hpc[h] = "close"
    /\ hpc' = [hpc EXCEPT ![h] = "destroy"]
    /\ held' = held \ {"listen"}
    /\ UNCHANGED <<options, mpc, made, running, wpc, dpc, on, exited, history>>

HandlerDestroy(h) ==
    /\ Runs(h) /\ hpc[h] = "destroy"
    /\ hpc' = [hpc EXCEPT ![h] = "exit"]
    /\ main_lb_destroy
    /\ UNCHANGED <<options, mpc, made, running, wpc, dpc, on, exited, stale, late>>

HandlerExit(h) ==
    /\ Runs(h) /\ hpc[h] = "exit"
    /\ exited' = "0"
    /\ UNCHANGED <<options, mpc, made, running, held, wpc, dpc, hpc, on, history>>

signal_handler(h) ==
    StopBegin(h) \/ StopJoin(h) \/ StopClose(h) \/ HandlerDestroy(h) \/ HandlerExit(h)

LifeNext ==
    \/ Main
    \/ \E opt \in {"config", "backend", "value", "help", "bad"} : Option(opt)
    \/ \E w \in W : WorkerTurn(w)
    \/ \E d \in Detached : DetachedTurn(d)
    \/ \E h \in Handlers : Deliver(h) \/ signal_handler(h)

LifeSpec == LifeInit /\ [][LifeNext]_lifeVars

-----------------------------------------------------------------------------
LifeTypeOK ==
    /\ config_file \in BOOLEAN /\ backend_count \in 0..MaxBackends
    /\ mpc \in {"options", "create", "add", "listen", "wrapper", "epoll", "calloc",
                "spawn", "unwind", "loop", "destroy", "exit"}
    /\ made \in 0..NW /\ running \in BOOLEAN /\ held \subseteq Owned
    /\ wpc \in [W -> {"none", "loop", "done"}]
    /\ dpc \in [Detached -> {"none", "loop", "done"}]
    /\ hpc \in [Handlers -> {"unsent", "returned", "stop", "join", "close", "destroy", "exit"}]
    /\ on \in [Handlers -> MainThread..Nowhere]
    /\ exited \in {"no", "0", "1", "crash"}
    /\ {twice, stale, late} \subseteq BOOLEAN

\* A process that no handler stopped gave back all it took, each once, and no
\* thread of it was left behind: every failure path of main_lb_create and of
\* main_lb_start undoes exactly what came before it.
FailedStartUndone ==
    (exited # "no" /\ Acting = {})
        => held = {} /\ ~twice /\ ~stale /\ \A w \in W : wpc[w] # "loop"

\* One signal to a balancer that has started: the workers are out of lb before it
\* is freed, nothing is freed twice, and the process ends owning nothing.
OneSignalClean ==
    (mpc = "loop" /\ Cardinality(Acting) = 1)
        => ~twice /\ ~stale /\ (exited # "no" => exited = "0" /\ held = {})

\* A signal that finds a started balancer ends the process: main_lb_stop, called
\* on the main thread, cannot wait for a worker for ever.
SignalEnds == (mpc = "loop" /\ Acting # {}) ~> (exited # "no")
=============================================================================
