----------------------------- MODULE MemoryPool -----------------------------
(***************************************************************************)
(* The memory pool of utils/memory.c: a bump allocator with a first-fit     *)
(* list of freed chunks. Both functions hold the pool's spin lock, so that  *)
(* a call is one step. Sizes and addresses are in units of 8 bytes, what    *)
(* ALIGN_SIZE rounds to; freeing writes a header of two units (size, next)  *)
(* into the block. The sizes asked for are such that it fits: the code does *)
(* not see to that, and of a block of at most 8 bytes the header overwrites *)
(* what comes after it.                                                     *)
(***************************************************************************)
EXTENDS Naturals, Sequences, SequencesExt, FiniteSets

CONSTANTS
    PoolSize,   \* pool->size
    BlockSizes  \* the sizes asked for, each large enough for a chunk's header

ASSUME MemAssumption == PoolSize \in Nat /\ BlockSizes \subseteq Nat \ 0..1

VARIABLES
    used,       \* pool->used
    free_list,  \* the chunks from free_list on: their address and size
    blocks,     \* what the callers hold: address, size asked for
    reach       \* history: reach[a] is the size the block at a was first given

memVars == <<used, free_list, blocks, reach>>

MemInit == used = 0 /\ free_list = <<>> /\ blocks = {} /\ reach = <<>>

Span(b) == b.at..(b.at + b.size - 1)

\* Mutant: first fit takes a chunk one unit too small.
FitsLoosely(size) == {i \in DOMAIN free_list : free_list[i].size + 1 >= size}

\* The first chunk that is large enough, as the loop over the list finds it.
Fits(size) == {i \in DOMAIN free_list : free_list[i].size >= size}

Room(size) == used + size <= PoolSize

\* memory_pool_alloc: the first chunk that is large enough, whole; else from the
\* end of the used part; else NULL.
memory_pool_alloc(size) ==
    IF Fits(size) # {}
      THEN LET i == CHOOSE i \in Fits(size) : \A j \in Fits(size) : i <= j
           IN /\ blocks' = blocks \cup {[at |-> free_list[i].at, size |-> size]}
              /\ free_list' = RemoveAt(free_list, i)
              /\ UNCHANGED <<used, reach>>
      ELSE /\ Room(size)
           /\ blocks' = blocks \cup {[at |-> used, size |-> size]}
           /\ used' = used + size
           /\ reach' = [a \in DOMAIN reach \cup {used} |-> IF a = used THEN size ELSE reach[a]]
           /\ UNCHANGED free_list

\* memory_pool_free: the caller gives the size it asked for, which is what the
\* list remembers; the chunk goes to the front.
memory_pool_free(b) ==
    /\ blocks' = blocks \ {b}
    /\ free_list' = <<b>> \o free_list
    /\ UNCHANGED <<used, reach>>

MemNext ==
    \/ \E size \in BlockSizes : memory_pool_alloc(size)
    \/ \E b \in blocks : memory_pool_free(b)

-----------------------------------------------------------------------------
MemTypeOK ==
    /\ used \in 0..PoolSize
    /\ \A b \in blocks \cup ToSet(free_list) :
         b.at \in 0..PoolSize /\ b.size \in BlockSizes

\* No two blocks overlap, held or on the list, and all lie in the used part: what
\* one caller writes no other caller reads, and no freed chunk's header lies in
\* someone's block, however chunks of one size are reused for another.
BlocksApart ==
    LET all == [i \in DOMAIN free_list |-> free_list[i]] \o SetToSeq(blocks)
    IN /\ \A i \in DOMAIN all : all[i].at + all[i].size <= used
       /\ \A i, j \in DOMAIN all : i # j => Span(all[i]) \cap Span(all[j]) = {}

\* Every block the pool ever carved out is still accounted for, held or free, at
\* its own address and within the size it was carved with: reuse may waste the
\* end of a chunk but never loses the chunk.
BlocksKept ==
    /\ DOMAIN reach = {b.at : b \in blocks \cup ToSet(free_list)}
    /\ \A b \in blocks \cup ToSet(free_list) : b.size <= reach[b.at]

\* The used part of the pool is divided into blocks, held or free: none overlap
\* and none is lost, however memory_pool_alloc reuses what was freed.
Partitioned == BlocksApart /\ BlocksKept
=============================================================================
