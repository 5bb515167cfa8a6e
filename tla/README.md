# Verification of ultrabalancer

TLA+ models of the load balancer in `src/`, the TLC configurations that check
them, and TLAPS proofs of the properties that matter most. `PROJECT.json` is the
index: which definition models which lines, which run checks which property, and
the hazards of the code that the properties are about.

## The system

`main.c` parses the options, creates a `loadbalancer_t`, adds the backends, marks
them UP and starts the threads. What runs then:

| part | code | what it does |
| --- | --- | --- |
| workers (`-w`, default twice the CPUs) | `network/lb_net.c`, `worker_thread_v2` | wait on one shared epoll instance, accept clients, forward bytes in both directions, close and free connections |
| cleanup queue | `network/lb_net.c:18-104` | closed connections wait here until some worker starts its next iteration and frees them |
| backend selection | `core/lb_core.c`, `lb_select_backend` | called by a worker at a client's first bytes: round robin, least connections, source hash, weights, response time |
| health thread | `health/health.c`, `health_check_thread` | sends a request to each backend in turn and moves its state between UP and DOWN |
| statistics thread | `health/health.c`, `stats_thread` | prints counters |

The workers read the states the health thread writes and both change
`failed_conns`; the workers change `active_conns` and `response_time_ns`, which
the selection reads. No lock protects a connection or a backend; only the cleanup
queue has a mutex.

Around this core, `main.c` creates, starts, stops and destroys the balancer, the
last two from its signal handler.

Beside it the repository holds components that the relay does not call: the
proxy/server/listener layer with its own checks; the database router with its
pool and protocol parsers; the C++ connection pool and request router; the HTTP
cache and parser; ACLs; the metrics aggregator; the memory pool and consistent
hashing; and others that are not modelled (see the end). `PROJECT.json` lists each
with its status.

## Modules

| module | models | state | actions |
| --- | --- | --- | --- |
| `CleanupFifo` | what the cleanup queue promises | a sequence | enqueue, refuse, dequeue |
| `CleanupQueue` | the ring buffer | array, `head`, `tail`, the last return value | `Enqueue`, `Dequeue` (each under the mutex, so one step) |
| `Relay` | `worker_thread_v2` and the two handlers | per connection: allocation, open sockets, buffered bytes, wrapper validity, epoll interest; the queue; the counters; per worker: program counter, batch, current event | one per system call, counter update or group of plain field accesses |
| `HealthCheck` | `health_check_thread` and the failed connects | states, `failed_conns`, the thread's position and its local `fails`, what each worker dials | one per store or `fetch_add` |
| `RoundRobin` | `LB_ALGO_ROUNDROBIN` | states, the counter, the locals of each worker | the `fetch_add` and the load of the state are separate |
| `SelectBackend` | `LB_ALGO_LEASTCONN`, `SOURCE`, `STICKY`, `RANDOM` | states, weights, counters, times, the locals of each worker | one visit of a backend, one load of a counter |
| `Failover` | `RoundRobin` and `HealthCheck` together | the union; `dialling` is derived | each component's steps are environment steps of the other |
| `Forward` | the bytes of one direction in the two handlers | the bytes by number: arrived, read, held, taken; the byte counter | flush, `recv`, `send`, and the peers |
| `Lifecycle` | `main`, create, start, stop, destroy, `signal_handler` | what the process owns, where main, the workers, the detached threads and the handlers are | one per acquisition or release, each with its failure |
| `ServerCheck` | `health/checks.c` | server states, the counters of a check, where its task is | one per report of a status |
| `Proxy` | `core/proxy.c` with servers and listeners, over `ServerCheck` | flags, sockets, sessions per server, the locals of each dispatcher | one visit of a server, one store of the administrator |
| `DbProtocol` | `database/db_protocol.c` | none: operators on packets | |
| `DbPool` | `database/db_pool.cpp` | backends, connections, whether the process lives | one per method (each holds the mutex) |
| `DbRouter` | `database/db_router.c`, over `DbPool` and `DbProtocol` | the session table, the time | one per call (each holds the mutex) |
| `Cache` | the cache half of `cache/cache.c` | chain, LRU list, size, allocated entries, each thread's place | one per critical section, one per access of the unguarded size |
| `ConnectionPool` | `core/connection_pool.cpp` | the counter, the mutex, who sleeps | one per stretch between lock, wait, notify and counter update |
| `RequestRouter` | routes, targets, circuit breaker | the routes in order, weights with their cached total | one per method |
| `RateLimit` | the token bucket of a route | tokens, the last refill, the clock | a check; time |
| `HttpMsg` | `http/http_parser.c` | the buffer by lines, the message | bytes arrive; a call of the parser |
| `Acl` | `acl/acl.c` | expression, request, parsed network, sample | parse, fetch, walk; the match of an address is an operator |
| `ConsistentHash` | the second half of `utils/memory.c` | the table, who is up | add; a state changes |
| `MemoryPool` | the first half of `utils/memory.c` | `used`, the free list, the blocks held | alloc, free (each under the spin lock) |
| `Metrics` | a timer of the metrics aggregator | count, sum, maximum, the ring | one per atomic operation |

`MC*` modules name the model values; `*Proofs` modules hold the theorems.
`MCLibrary`, `MCProgress` and `MCServers` each hold several components that share
no state: a behaviour is of one of them, its `part`, and the others keep their
initial state, so one run covers them without multiplying their states.

What is abstracted: bytes (something is buffered for a side, or nothing is), the
outcome of a system call (any outcome the code tells apart), the exchange of a
health check (its result), the hash of a client address (its residue), a packet, a
header line or a request (what the code tells apart of it), the text of a log. A
connection identity stands for one allocation and is not reused, nor are its
descriptors. History variables (`streak`, `blame`, `steady`, `calm`, `alone`,
`lasting`, `picks`, `behind`, `twice`, `stale`, `late`, `usable`, `op`, `latest`,
`freedUse`, `owner`, `moved`, `reach`, `pushed`, `admitted`, `looked` and others marked so)
record what properties speak about; none guards an action, but for the bounds
`MaxRecords` and `MaxWindow` on their length.

`CleanupFifo` is the level at which `Relay` uses the queue: `Relay!Enqueue` tests
`Len(queue) < QueueSize - 1`, which is the capacity the ring buffer is shown to
have.

## Runs

Passing runs:

| run | shows |
| --- | --- |
| `CleanupQueue` | the ring implements the FIFO through every wrap |
| `RelayOne` | one worker, two connections: no use after free, one release per connection, exact counters, no unwatched open socket, and every closed connection is freed |
| `HealthCheck` | two backends, one worker: DOWN after the threshold, DOWN only with cause, and the state agrees with a backend that stops changing |
| `RoundRobin` | two workers on one counter: backends that are never DOWN get equal turns, and a search that no other worker disturbs finds a backend that stays UP |
| `Select` | the other four algorithms, with states that move during the scan: one pass finds a backend that stays UP, LEASTCONN one with the fewest connections, SOURCE the nearest one, STICKY gives each its share of the draws |
| `Failover` | the selection of one worker and the health thread together: broken backends are eventually avoided, every request is served while a backend stays healthy, and each backend that stays healthy is used again and again |
| `Library` | nine components that other code calls. `Forward`: bytes are neither lost nor repeated while the connection is open, and are counted. `ConnectionPool`: the counter is exact and no wake-up is lost. `ConsistentHash`: a change of one backend moves only its keys. `HttpMsg`: how a message was cut does not show in what the parser has looked at. `MemoryPool`: blocks never overlap. `Metrics`: maximum, sum and window survive lost exchanges and wraps. `RateLimit`: no window admits more than its rate. `RequestRouter`: the cached total is fresh, the highest priority serves. `Acl`: the walk over a query and the masks of networks, through two byte orders, are what definitions without loops and bits say |
| `Progress` | the process and the cache: every failed start undoes what came before it, one signal ends the process cleanly, and an insert into the cache of what it can hold makes room and returns |
| `Servers` | the proxy with two dispatchers, an administrator and checks: servers move only for the configured run of reports, limits are overshot by fewer sessions than there are dispatchers, a calm scan finds a server, READY means bound. The database router over its pool: other clients never end or move a transaction, the longest idle session is evicted |

Runs that TLC refutes, each a disagreement between the code and what its comments
or documents say (`findings` in `PROJECT.json` quotes the lines):

| run | what happens |
| --- | --- |
| `RelayTwoFree` | with two workers, one frees a connection that the other has an event of |
| `RoundRobinRace` | "No backend available" while a backend is UP: two workers take each other's turns |
| `DbTransaction` | the second query of a transaction does not reach its backend: the pool locks its mutex twice in one thread and the process ends |

Four more counterexamples are a change of constants away; no configuration is kept
for them:

- Interest lost. `MCRelay` with `TwoWorkers`, `OneConn`, `QueueSize = 3`,
  `MaxEvents = 2`: `InterestKept` fails, since a re-arm overwrites the EPOLLOUT that
  another worker just asked for (`lb_net.c:854`).
- Full queue. `MCRelay` with `OneWorker`, `TwoConns`, `QueueSize = 2`,
  `MaxEvents = 3`: `NoUseAfterFree` fails, since a connection that the queue has no
  room for is freed while its second event is still in the batch (`lb_net.c:817`).
- Weighted choice. `MCSelectBackend` with `N = 2`, `Algorithms = {"STICKY"}`,
  `Weights = {1}`, `Times = {0}`, `MaxConns = 0`: `FindsUp` fails, since a backend
  goes DOWN between the two passes and none is returned.
- Early DOWN. `MCHealthCheck` with `N = 1`, `Threshold = 2`, `MaxCount = 3`,
  `Faults = {"broken"}`: `DownOnlyAfterThreshold` fails, since failed connects of a
  worker count like failed checks.

Relatives of these: with two workers `CountsExact` and `ReleasedOnce` fail in `Relay` (both workers
close the connection, and `conn->backend` is not cleared), and `Fewest` fails in
`SelectBackend` (both choose before either has counted its connection); with
`N = 3` and `IdxModulus = 8`, `AloneFindsUp` fails at the wrap of the counter,
because 3 does not divide it, nor does it divide 2^32; with `"noname"` in
`Faults`, `DownOnlyAfterThreshold` fails at the first failed name lookup
(`health.c:53`), which marks the backend DOWN without counting.

A property with several parts (`StreamKept`, `AclExact`, `ServedRight`, `TransactionSafe`
and the like) is the conjunction of named ones, each with its own comment, which
the text below names. Most modules state a type invariant. Those of `Relay`,
`CleanupQueue`, `HealthCheck`, `ConnectionPool` and `RateLimit` are proved; the others
are there for the reader and for a run that names them in its configuration.
`DownWhenFailing`, `PoolExact` and `NoHole` are proved and in no run.

### What the models say beside the properties

Some properties carry a condition, and what happens without it is worth knowing:

- `OrderKept` has `~behind`: the read loop does not ask whether bytes are held, so
  new bytes overtake held ones. At the end of the stream held bytes are dropped.
- `OneSignalClean` is about one signal. A second one frees the balancer under the
  workers; one during `main_lb_create` is lost; one while threads are created joins
  ids that are not set. The detached threads (`late`) may read the freed balancer.
- `HealthyServes` is about selections during which no other worker draws from the
  counter. With one worker, as in the run, that is every selection; with more, a
  disturbed one can find no backend as often as it is disturbed (`RoundRobinRace`).
  `HealthyUsed` needs clients that keep coming, which is part of the fairness.
- `InsertReturns` is about entries up to `max_size`. `cache_create` takes any two
  limits, and an entry above `max_size` that `max_object_size` admits keeps
  `cache_insert` evicting from an empty list for ever (`cache.c:156`). The run has such
  entries.
- The cache properties but `ListInChain` have one thread (`CacheAlone`). With two
  that store, `NoFreedEntry`, `SizeExact` and `InsertReturns` fail; with two that
  store and look up, `ListInChain` and `FreshHit` fail as well.
- `NoLostWakeup` has `sound`: a failed connect and a dead connection notify without
  the mutex, and a thread between its test and its sleep misses that. The C
  interface gives no slot back, so that its callers use the pool up.
- `RateBound` bounds from above. Checks that come faster than tokens drop the
  fraction each time, so that tokens need not come at all.
- `SplitUnseen` compares the message with what one call makes of the bytes the
  analyzer was last given. It excludes a request line of which two words have not
  come yet, which is refused at once or loses the end of its URI. After an error the
  place is that of the last call without one. A chunked body that is not all there
  when the headers end is never looked at again: the next call reports the message as
  ready (`http_parser.c:320`), which `ReadyIsWhole` allows for chunked bodies only. The
  request line is not skipped before the headers, a size that is not hexadecimal
  is 0, and a Content-Length above 0 makes the analyzer loop for ever.
- `Partitioned` is about blocks of more than 8 bytes (`MemAssumption`). `memory_pool_alloc`
  also gives out smaller ones, and `memory_pool_free` then writes its header of 16
  bytes over what comes after them.
- `SumCovered` relates sum and count at one moment. `get_mean` loads one after the
  other, and what is recorded in between can lift the mean above every duration.
- `PercentilesOrdered` has rings that are not full: `get_all` of a full ring is
  empty. `reset_stats` locks its mutex twice.
- `MovedForCause` counts reports. `check_http` reports the success of its TCP
  connection first, which clears the errors, so that with `fall` above 1 failed
  HTTP exchanges never take a server down. `proxy_stop` leaves the checks running,
  and a good report sets the server RUNNING again.
- `ReadyMeansBound` is about the flag of the proxy: after stop, pause and resume its
  listeners are READY without a socket; a failed bind leaves the earlier ones bound.
- `Overshoot` bounds `cur_conns`, which nothing in the repository lowers.
- `TransactionSafe` is about a pool whose connections never come back, since every
  `release` ends the process. So does an acquire that finds no primary or fails
  to connect. Queries in SQL are never detected; MGET and MSET count as MULTI.
- `NetExact` at a prefix of 0 bits, which shifts by the width of the word, says that
  the network is every address or the one address; which of the two is up to the build
  (on x86 the one). The parser of text patterns goes on until memory runs out.
- `RequestRouter`: nothing counts the errors the circuit breaker compares, and the
  default target gets a second owner when it is returned.

### Bounds

- `RelayOne`: two connections give a batch with events of both sockets of one and
  of another connection, closes in either order, and a queue holding both.
  With `QueueSize` 2 the second close finds it full; in the code this takes 1024
  closes in one batch of up to 10000 events.
- `RelayTwoFree` uses two workers and one connection, which is enough for both
  workers to hold one of its sockets each.
- `HealthCheck`: counters stop at `MaxCount = 3`, above the threshold of 2; the
  code only compares them with the threshold.
- `RoundRobin`: `IdxModulus` stands for 2^32. What matters is whether
  `backend_count` divides it; here it does (four backends, like any power of two).
- `Select`: three backends, so that a scan has a first, a middle and a last one;
  weights 1 and 2, at most one connection per backend, response times that
  include 0 (the value before the first check).
- `Library`: the bounds are those at which the interesting cases happen. Four threads on
  a pool of 2 give two that wait for one slot; five bytes through a socket and a
  chunk of 2 give a partial send, a held rest and a read after it; `IntMax = 7` with
  a rate of 5 makes the refill overflow; a ring of 3 wraps with four records; nine
  units of memory hold three or four blocks, so that chunks are reused; three
  backends on a ring of four hashes give collisions and ties in each of 2 buckets;
  four lines give a start line, a header, the blank line and one of a body, each cut
  between any two words; six tokens give a URI with a query of two fields with the
  name, and the name inside a field; words of two bytes of 2 bits are checked for
  every address, network and prefix.
- `Progress`: responses of 1 and 2 in a cache of 2 make one insert evict two
  entries, and one of 3 is larger than the cache; 2 workers and 2 signals; 3 backends are the table's size.
- `Servers`: limits 1 and 2 for two servers, `fall` 2; two listeners, so that a bind
  fails with another one bound; three clients for two sessions,
  so that one is evicted.
- `-w 1` is an option of the program, so the runs with one worker are runs of a
  real configuration. The default has more workers; the refuted runs say what
  changes then.

### Fairness

Liveness is checked under weak fairness of each thread (a thread that can run
does), and strong fairness of two outcomes. `RecvDone`: a read loop that always
finds more data would never end; every peer pauses, closes or fails eventually.
`Probe` for each backend: `socket()` does not fail for ever for the same backend.
In `Failover` a worker is also fair in that clients keep coming. The thread and the
workers are independent of each other, so nothing else is assumed of their order. `EventuallyFreed` excludes a stopped program: the workers
then leave without draining the queue. Deadlock is not checked in the relay runs,
since a stopped program has no further step, nor in `Library` and `Progress`, whose
parts end: a closed connection, a parsed message, an exited process, a bound on
time or records. In the others it is.

In `Progress` each cache thread, `main`, each worker and each handler is weakly
fair: threads are scheduled and system calls return. Nobody need ever store a
response, and no signal need ever come.

## Proofs

`tlapm` checks these for every value of the constants that satisfies the named
assumptions (`QueueSizeAssumption`, `NullAssumption`, `SizesAssumption`,
`NoBackendAssumption`, `HealthAssumption`, `RateAssumption`, `PoolAssumption`,
`ServerCheckAssumption`, `ProxyAssumption`, `LifecycleAssumption`), which say that
sizes are positive numbers and sets of threads finite:

- **`CleanupQueueProofs`**: `TypeCorrect`; `Holeless`; `RingImplementsFifo`, the
  refinement. The mapping reads the queued sequence off the array; the work is
  arithmetic of the wrap: what `Count` and `SlotOf` become when `head` or `tail`
  moves. The refinement needs `NoHole`, so that a dequeue returns a connection.
- **`RelayProofs`**: `TypeCorrect`, one step per action.
- **`RelayOneWorkerProofs`**: `OneWorkerSafe` (`NoUseAfterFree`) and
  `OneWorkerReleasesOnce` (`ReleasedOnce`), assuming one worker and
  `MaxEvents < QueueSize`. `NoUseAfterFree` is not inductive. The invariant adds:
  epoll only knows open sockets of valid connections (`ConnInv`); the queue holds
  closed connections, each once (`QueueInv`); between batches the worker holds no
  event, and the queue is empty when it waits (`WorkerInv`); the events still to
  be handled fit into the queue (`RoomInv`), so that no connection is freed
  inside a batch; and a closed connection is queued or about to be (`HeldInv`).
  The second assumption is about the number of sockets: the code's array is
  larger than its queue, so it holds while at most 1023 sockets are registered.
  Both assumptions are needed: `RelayTwoFree` drops the first, the full queue
  described above the second.
- **`HealthCheckProofs`**: `TypeCorrect`, `FailuresMarkDown`
  (`DownAfterThreshold`), `DownHasCause` (`DownForCause`). The thread's failed
  checks bound `failed_conns` from below and all failures since the last success
  bound it from above, except in the window of a success between its two stores.
- **`RateLimitProofs`**: `RateBounded` (`RateBound`), over every window of time, with
  the multiplication cut to an int. `RateBound` is not inductive: `RatePaid` adds that
  what a window admitted and what is left in the bucket are paid for by a full
  bucket and the time up to the last refill. The arithmetic is that an overflow
  only ever takes tokens away (`Int32Down`, `RefillEarned`).
- **`ConnectionPoolProofs`**: `CounterExact` (`PoolExact`) and `WakeupsKept`
  (`NoLostWakeup`), for any number of threads. The second needs `PoolWait`: only a
  thread about to sleep holds the mutex between two steps, and the wake-ups are
  there from the moment it has decided to.
- **`ProxyProofs`**: `SessionsBounded` (`Overshoot`), `FailingServerDown`
  (`DownWhenFailing`), `ReadyProxyBound` (`ReadyMeansBound`) and `MovesHaveCause`
  (`MovedForCause`). `Committed` is what the first needs: the sessions of a server and
  the dispatchers that may still add one stay below the limit plus the number of
  dispatchers. `Counted` ties the history of reports to the counters, `Starting` the
  listeners to where a start is.
- **`LifecycleProofs`**: `FailuresUndone` (`FailedStartUndone`) and `OneSignalStops`
  (`OneSignalClean`). While no handler acts, what is held follows from where `main` is
  (`Quiet`); while one does, from where it is (`Stopping`).

Only model-checked: the liveness properties and ENABLED, which are beyond the prover; in `Relay`, `CountsExact` and `InterestKept`; the properties of
`RoundRobin`, `SelectBackend` and `Failover`; `FindsUsable` and `LeastLoaded` of
`Proxy`; and all of `Forward`, `Acl`, `ConsistentHash`, `HttpMsg`, `MemoryPool`,
`Metrics`, `RequestRouter`, `Cache` and the database modules. What their loops and
folds compute for inputs of any length needs induction over data, which the
installed provers cannot instantiate.

Worth proving next: `CountsExact` and `InterestKept` for one worker; `AloneFindsUp` of
`RoundRobin` when N divides the modulus; `ListInChain` of `Cache`; `TransactionKept`
of `DbRouter`.

## Not modelled

- `stick_tables.c`: the Makefile does not build it, and it does not compile against
  its header, so it has no behaviour to be faithful to.
- `network/lb_network.c`: an earlier version of `lb_net.c` that the Makefile leaves
  out.
- `config/config.c`: text parsing before any thread starts; it does not compile
  against the headers it includes (`struct config_section` is defined twice).
- `database/db_health.c`: it reads the C++ pool through a C struct of another layout,
  which is undefined from the first access on.
- `core/session.c`: `session_new`, `session_free` and the stream functions, which
  allocate and free. The setters of `core/server.c` that nothing calls.
- `stats/stats.c`, logging and the buffers: formatting and small sequential helpers.
- `ssl/ssl_sock.c` and the compression half of `cache/cache.c`: thin layers over
  OpenSSL and zlib, which are not part of the repository.
- `acl_cond_parse`, `acl_find`, `acl_exec_cond` and the comparisons of texts of the ACLs, and
  regular expressions.
- `check_https`, which `process_check` calls: it is declared and defined nowhere.

Descriptor reuse by the kernel, memory exhaustion inside the C library and the
ordering of non-atomic memory accesses are not modelled: each group of plain
field accesses is one step. Where the code is undefined (a freed entry of the cache,
an id that is not set, a mutex locked twice), the model takes any outcome the build
can produce, or ends the process where that is the one outcome.
