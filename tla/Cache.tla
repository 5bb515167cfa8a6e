-------------------------------- MODULE Cache --------------------------------
(***************************************************************************)
(* The response cache: src/cache/cache.c.                                  *)
(*                                                                         *)
(* The chain of a bucket, the LRU list and the size are guarded by a lock  *)
(* per bucket, a lock of the list and nothing, so every critical section   *)
(* and every load and store of current_size is a step of its own.  A       *)
(* lookup takes the first entry of its key, so one chain stands for all    *)
(* buckets.  An entry is fresh until time passes its expires, at any       *)
(* moment.  What a thread reads of a freed entry is any size.              *)
(***************************************************************************)
EXTENDS Integers, Sequences, FiniteSets, FiniteSetsExt

CONSTANTS
    CacheThreads,
    Jobs,             \* the assignments of work to choose from
    Keys,             \* what cache_build_key makes of the requests
    Sizes,            \* of the responses
    Entries,          \* memory for entries, numbered
    max_size, max_object_size,
    SizeModulus       \* 2^32

ASSUME CacheAssumption ==
    /\ IsFiniteSet(Entries) /\ Entries \subseteq Nat \ {0}
    /\ Jobs \subseteq [CacheThreads -> SUBSET ({"store", "check"} \X Keys)]
    /\ Sizes \subseteq Nat \ {0}
    /\ {max_size, max_object_size, SizeModulus} \subseteq Nat
    /\ max_size + max_object_size < SizeModulus

VARIABLES
    jobs,          \* which threads store and check which keys
    live,          \* the entries allocated
    entry,         \* their key, size and whether they are fresh
    latest,        \* history: the entry last stored for its key
    table, lru,    \* the chain and the LRU list, heads first
    current_size,
    cpc,           \* where each thread is
    mine, victim,  \* its entry, and the one it evicts
    loaded,        \* the current_size it has loaded
    freedUse       \* history: a thread has used or freed a freed entry

cacheVars == <<jobs, live, entry, latest, table, lru, current_size, cpc, mine, victim, loaded, freedUse>>

NoEntry == 0
Blank == [key |-> CHOOSE k \in Keys : TRUE, size |-> 0, fresh |-> FALSE]
Entry == [key: Keys, size: Sizes \cup {0}, fresh: BOOLEAN]

CacheTypeOK ==
    /\ jobs \in Jobs
    /\ live \subseteq Entries
    /\ entry \in [Entries -> Entry]
    /\ latest \subseteq Entries
    /\ table \in Seq(Entries) /\ lru \in Seq(Entries)
    /\ current_size \in 0 .. SizeModulus - 1
    /\ cpc \in [CacheThreads -> {"idle", "room", "unlink", "sub", "free", "chain", "head",
                                 "add", "added", "hit", "serve"}]
    /\ mine \in [CacheThreads -> Entries \cup {NoEntry}]
    /\ victim \in [CacheThreads -> Entries \cup {NoEntry}]
    /\ loaded \in [CacheThreads -> 0 .. SizeModulus - 1]
    /\ freedUse \in BOOLEAN

\* cache_create.
CacheInit ==
    /\ jobs \in Jobs
    /\ live = {}
    /\ entry = [e \in Entries |-> Blank]
    /\ latest = {}
    /\ table = <<>> /\ lru = <<>>
    /\ current_size = 0
    /\ cpc = [t \in CacheThreads |-> "idle"]
    /\ mine = [t \in CacheThreads |-> NoEntry]
    /\ victim = [t \in CacheThreads |-> NoEntry]
    /\ loaded = [t \in CacheThreads |-> 0]
    /\ freedUse = FALSE

Go(t, l) == cpc' = [cpc EXCEPT ![t] = l]
Without(s, e) == SelectSeq(s, LAMBDA x : x # e)
Uses(e) == freedUse' = (freedUse \/ e \notin live)

\* The entries of key k in its chain: cache_lookup stops at the first.
Matching(k) == SelectSeq(table, LAMBDA e : entry[e].key = k)

\* cache_check_request up to the end of the critical section of cache_lookup.
cache_lookup(t) ==
    /\ cpc[t] = "idle"
    /\ \E k \in Keys :
          /\ <<"check", k>> \in jobs[t]
          /\ Matching(k) # <<>>
          /\ entry[Head(Matching(k))].fresh
          /\ mine' = [mine EXCEPT ![t] = Head(Matching(k))]
    /\ Go(t, "hit")
    /\ UNCHANGED <<jobs, live, entry, latest, table, lru, current_size, victim, loaded, freedUse>>

\* cache_update_lru.
cache_update_lru(t) ==
    /\ cpc[t] = "hit"
    /\ lru' = <<mine[t]>> \o Without(lru, mine[t])
    /\ Uses(mine[t])
    /\ Go(t, "serve")
    /\ UNCHANGED <<jobs, live, entry, latest, table, current_size, mine, victim, loaded>>

\* The rest of cache_check_request copies the response.
cache_serve(t) ==
    /\ cpc[t] = "serve"
    /\ Uses(mine[t])
    /\ mine' = [mine EXCEPT ![t] = NoEntry]
    /\ Go(t, "idle")
    /\ UNCHANGED <<jobs, live, entry, latest, table, lru, current_size, victim, loaded>>
------------------------------------------------------------------------------
\* cache_store_response up to the call of cache_insert; a response that is too
\* large is freed at once.
cache_store_response(t) ==
    /\ cpc[t] = "idle"
    /\ Entries # live
    /\ \E k \in Keys, size \in Sizes :
          LET e == Min(Entries \ live) IN
          /\ <<"store", k>> \in jobs[t]
          /\ size <= max_object_size
          /\ entry' = [entry EXCEPT ![e] = [key |-> k, size |-> size, fresh |-> TRUE]]
          /\ live' = live \cup {e}
          /\ mine' = [mine EXCEPT ![t] = e]
    /\ Go(t, "room")
    /\ UNCHANGED <<jobs, latest, table, lru, current_size, victim, loaded, freedUse>>

\* The loop of cache_insert, and the first critical section of cache_evict_lru.
\* Nothing bounds the loop: an entry larger than max_size, which cache_create lets
\* max_object_size admit, finds the list empty for ever.
cache_evict_lru(t) ==
    /\ cpc[t] = "room"
    /\ IF (current_size + entry[mine[t]].size) % SizeModulus > max_size
       THEN IF lru = <<>>
            THEN UNCHANGED <<cpc, victim, lru>>
            ELSE /\ victim' = [victim EXCEPT ![t] = lru[Len(lru)]]
                 /\ lru' = SubSeq(lru, 1, Len(lru) - 1)
                 /\ Go(t, "unlink")
       ELSE Go(t, "chain") /\ UNCHANGED <<victim, lru>>
    /\ UNCHANGED <<jobs, live, entry, latest, table, current_size, mine, loaded, freedUse>>

\* Its second critical section.
cache_evict_unlink(t) ==
    /\ cpc[t] = "unlink"
    /\ Uses(victim[t])
    /\ table' = Without(table, victim[t])
    /\ Go(t, "sub")
    /\ UNCHANGED <<jobs, live, entry, latest, lru, current_size, mine, victim, loaded>>

cache_evict_load(t) ==
    /\ cpc[t] = "sub"
    /\ loaded' = [loaded EXCEPT ![t] = current_size]
    /\ Go(t, "free")
    /\ UNCHANGED <<jobs, live, entry, latest, table, lru, current_size, mine, victim, freedUse>>

\* Mutant: the size of the victim is not subtracted.
FreeOnly(t) ==
    /\ cpc[t] = "free"
    /\ Uses(victim[t])
    /\ live' = live \ {victim[t]}
    /\ entry' = [entry EXCEPT ![victim[t]] = Blank]
    /\ latest' = latest \ {victim[t]}
    /\ victim' = [victim EXCEPT ![t] = NoEntry]
    /\ loaded' = [loaded EXCEPT ![t] = 0]
    /\ Go(t, "room")
    /\ UNCHANGED <<jobs, table, lru, mine, current_size>>

cache_evict_free(t) ==
    /\ cpc[t] = "free"
    /\ Uses(victim[t])
    /\ current_size' = (loaded[t] - entry[victim[t]].size) % SizeModulus
    /\ live' = live \ {victim[t]}
    /\ entry' = [entry EXCEPT ![victim[t]] = Blank]
    /\ latest' = latest \ {victim[t]}
    /\ victim' = [victim EXCEPT ![t] = NoEntry]
    /\ loaded' = [loaded EXCEPT ![t] = 0]
    /\ Go(t, "room")
    /\ UNCHANGED <<jobs, table, lru, mine>>

\* Mutant: the entry goes to the end of the chain.
ChainAtEnd(t) ==
    /\ cpc[t] = "chain"
    /\ table' = Append(table, mine[t])
    /\ latest' = {e \in latest : entry[e].key # entry[mine[t]].key} \cup {mine[t]}
    /\ Go(t, "head")
    /\ UNCHANGED <<jobs, live, entry, lru, current_size, mine, victim, loaded, freedUse>>

\* Mutant: the entry goes to the list before the chain.
ListFirst(t) ==
    /\ cpc[t] = "chain"
    /\ lru' = <<mine[t]>> \o lru
    /\ latest' = {e \in latest : entry[e].key # entry[mine[t]].key} \cup {mine[t]}
    /\ Go(t, "head")
    /\ UNCHANGED <<jobs, live, entry, table, current_size, mine, victim, loaded, freedUse>>

\* cache_insert: into the chain,
cache_insert(t) ==
    /\ cpc[t] = "chain"
    /\ table' = <<mine[t]>> \o table
    /\ latest' = {e \in latest : entry[e].key # entry[mine[t]].key} \cup {mine[t]}
    /\ Go(t, "head")
    /\ UNCHANGED <<jobs, live, entry, lru, current_size, mine, victim, loaded, freedUse>>

\* into the list,
cache_insert_head(t) ==
    /\ cpc[t] = "head"
    /\ lru' = <<mine[t]>> \o lru
    /\ Go(t, "add")
    /\ UNCHANGED <<jobs, live, entry, latest, table, current_size, mine, victim, loaded, freedUse>>

\* and the size, whose entry another thread may have evicted by now.
cache_insert_load(t) ==
    /\ cpc[t] = "add"
    /\ loaded' = [loaded EXCEPT ![t] = current_size]
    /\ Go(t, "added")
    /\ UNCHANGED <<jobs, live, entry, latest, table, lru, current_size, mine, victim, freedUse>>

cache_insert_add(t) ==
    /\ cpc[t] = "added"
    /\ Uses(mine[t])
    /\ \E size \in IF mine[t] \in live THEN {entry[mine[t]].size} ELSE Sizes \cup {0} :
          current_size' = (loaded[t] + size) % SizeModulus
    /\ mine' = [mine EXCEPT ![t] = NoEntry]
    /\ loaded' = [loaded EXCEPT ![t] = 0]
    /\ Go(t, "idle")
    /\ UNCHANGED <<jobs, live, entry, latest, table, lru, victim>>

\* Time passes the expires of an entry that is looked up.
CacheExpires(e) ==
    /\ e \in live /\ entry[e].fresh
    /\ \E t \in CacheThreads : <<"check", entry[e].key>> \in jobs[t]
    /\ entry' = [entry EXCEPT ![e].fresh = FALSE]
    /\ UNCHANGED <<jobs, live, latest, table, lru, current_size, cpc, mine, victim, loaded, freedUse>>

CacheStep(t) ==
    \/ cache_update_lru(t) \/ cache_serve(t)
    \/ cache_evict_lru(t) \/ cache_evict_unlink(t) \/ cache_evict_load(t) \/ cache_evict_free(t)
    \/ cache_insert(t) \/ cache_insert_head(t) \/ cache_insert_load(t) \/ cache_insert_add(t)

CacheNext ==
    \/ \E t \in CacheThreads : CacheStep(t) \/ cache_lookup(t) \/ cache_store_response(t)
    \/ \E e \in Entries : CacheExpires(e)
------------------------------------------------------------------------------
CacheAlone == Cardinality({t \in CacheThreads : jobs[t] # {}}) = 1

\* With one thread, a hit is the response stored last for its key, although
\* storing again leaves the older entries in the chain.
FreshHit ==
    CacheAlone => \A t \in CacheThreads : cpc[t] \in {"hit", "serve"} => mine[t] \in latest

\* With one thread, no freed entry is ever used.
NoFreedEntry == CacheAlone => ~freedUse

\* With one thread, current_size is the size of the entries in the list once
\* cache_insert has returned, and never more than max_size.
SizeExact ==
    CacheAlone /\ (\A t \in CacheThreads : cpc[t] = "idle") =>
        /\ current_size = MapThenSumSet(LAMBDA i : entry[lru[i]].size, DOMAIN lru)
        /\ current_size <= max_size

\* Storing threads take an entry from the list before the chain and put it into
\* the chain before the list: an entry of the list is in the chain, once, and
\* nobody is about to free it.
ListInChain ==
    \A i \in DOMAIN lru :
        /\ lru[i] \in live
        /\ Cardinality({j \in DOMAIN table : table[j] = lru[i]}) = 1
        /\ \A j \in DOMAIN lru : lru[j] = lru[i] => i = j
        /\ \A t \in CacheThreads : victim[t] # lru[i]

\* What the cache promises its only thread: a hit is live and is what was stored
\* last, and the size is that of the entries.
AloneExact == FreshHit /\ NoFreedEntry /\ SizeExact

\* With one thread, cache_insert of an entry that max_size can hold makes room and
\* returns. One that is larger never does (cache.c:156).
InsertReturns ==
    \A t \in CacheThreads :
        (CacheAlone /\ cpc[t] = "room" /\ entry[mine[t]].size <= max_size) ~> (cpc[t] = "idle")
==============================================================================
