--------------------------- MODULE ConsistentHash ---------------------------
(***************************************************************************)
(* The consistent hash of utils/memory.c: nodes chained in buckets by       *)
(* hash % size, a lookup that takes the nearest node of the key's bucket    *)
(* whose backend is up, and a scan of the whole table when there is none.   *)
(* Hash values are 0..HashMax (UINT64_MAX in the code), and what murmur3_64 *)
(* gives the virtual nodes is any choice of them.                           *)
(***************************************************************************)
EXTENDS Naturals, Sequences, SequencesExt

CONSTANTS HashMax, Buckets, HashBackends, VNodes

ASSUME HashAssumption ==
    HashMax \in Nat \ {0} /\ Buckets \in Nat \ {0} /\ VNodes \in Nat \ {0}

Hashes == 0..HashMax
NoBackend == "none"

VARIABLES
    vhash,      \* vhash[b][i]: the hash of backend b's i-th virtual node
    ch_table,   \* ch_table[idx]: the chain of a bucket, newest node first
    hup,        \* the backends whose state is BACKEND_UP
    owner,      \* history: what each key mapped to before the last change
    moved       \* history: the backend that was added or changed state

hashVars == <<vhash, ch_table, hup, owner, moved>>

\* The distance from a key up to a node, around the ring; a node at the key
\* itself is at the full turn, HashMax.
Distance(node, hash) == IF node > hash THEN node - hash ELSE HashMax - hash + node

Up(chain, up) == SelectSeq(chain, LAMBDA n : n.backend \in up)

\* The fallback: the first node that is up, in table order.
Scan(t, up) ==
    LET all == FlattenSeq([i \in 1..Buckets |-> Up(t[i - 1], up)])
    IN IF all = <<>> THEN NoBackend ELSE Head(all).backend

\* Mutant: the key's node is picked by its number in the chain.
GetByNumber(t, up, hash) ==
    LET chain == Up(t[hash % Buckets], up)
    IN IF chain = <<>> THEN Scan(t, up) ELSE chain[((hash \div Buckets) % Len(chain)) + 1].backend

\* consistent_hash_get: the first of the nearest nodes of the bucket, if it is
\* nearer than HashMax, the initial min_distance.
consistent_hash_get(t, up, hash) ==
    LET chain == Up(t[hash % Buckets], up)
        d(i) == Distance(chain[i].hash, hash)
        near == {i \in DOMAIN chain : /\ d(i) < HashMax
                                      /\ \A j \in DOMAIN chain : d(i) <= d(j)}
    IN IF near = {} THEN Scan(t, up)
       ELSE chain[CHOOSE i \in near : \A j \in near : i <= j].backend

Owners(t, up) == [h \in Hashes |-> consistent_hash_get(t, up, h)]

\* consistent_hash_create: an empty table; and whatever hashes come out.
HashInit ==
    /\ vhash \in [HashBackends -> [1..VNodes -> Hashes]]
    /\ ch_table = [i \in 0..(Buckets - 1) |-> <<>>]
    /\ hup \in SUBSET HashBackends
    /\ owner = [h \in Hashes |-> NoBackend] /\ moved = NoBackend

\* The backends with a node in the table.
Present == {b \in HashBackends : \E i \in 0..(Buckets - 1) :
                                   \E j \in DOMAIN ch_table[i] : ch_table[i][j].backend = b}

\* consistent_hash_add: the virtual nodes, each at the front of its chain.
consistent_hash_add(b) ==
    /\ b \notin Present
    /\ ch_table' = [i \in 0..(Buckets - 1) |->
                   Reverse(SelectSeq([v \in 1..VNodes |-> [hash |-> vhash[b][v], backend |-> b]],
                                     LAMBDA n : n.hash % Buckets = i)) \o ch_table[i]]
    /\ owner' = Owners(ch_table, hup) /\ moved' = b
    /\ UNCHANGED <<vhash, hup>>

\* Health checks move a backend's state meanwhile.
HashState(b) ==
    /\ hup' = IF b \in hup THEN hup \ {b} ELSE hup \cup {b}
    /\ owner' = Owners(ch_table, hup) /\ moved' = b
    /\ UNCHANGED <<vhash, ch_table>>

HashNext == \E b \in HashBackends : consistent_hash_add(b) \/ HashState(b)

-----------------------------------------------------------------------------
HashTypeOK ==
    /\ vhash \in [HashBackends -> [1..VNodes -> Hashes]] /\ hup \subseteq HashBackends
    /\ \A i \in 0..(Buckets - 1) : \A j \in DOMAIN ch_table[i] :
         ch_table[i][j].hash % Buckets = i /\ ch_table[i][j].backend \in HashBackends

\* A lookup finds a backend that is up whenever one is in the table, whichever
\* bucket the key falls into.
HashFindsUp ==
    \A h \in Hashes : LET b == consistent_hash_get(ch_table, hup, h)
                      IN IF hup \cap Present = {} THEN b = NoBackend ELSE b \in hup \cap Present

\* What makes it a consistent hash: adding a backend, or a backend going down or
\* up, moves only keys that go to that backend or come from it.
HashMinimalMove ==
    moved # NoBackend =>
        \A h \in Hashes : LET b == consistent_hash_get(ch_table, hup, h)
                          IN b = owner[h] \/ b = moved \/ owner[h] = moved

\* What consistent_hash_get promises: each key has a backend that is up while one
\* is in the table, and a change of one backend moves no key between others.
Consistent == HashFindsUp /\ HashMinimalMove
=============================================================================
