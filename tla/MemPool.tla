-------------------------------- MODULE MemPool --------------------------------
(***************************************************************************)
(* Fixed-size block pools: os_mem_pool_* of memory/src/os_mem.c.  Every    *)
(* operation runs with interrupts disabled, so it is one step.  The free   *)
(* list is threaded through the blocks: the first word of a block belongs  *)
(* to the pool while the block is free and to its holder while it is not.  *)
(***************************************************************************)
EXTENDS Integers, FiniteSets

CONSTANTS
  Client,       \* the callers: tasks and interrupt handlers
  BlockSize,    \* pool->block_size, a multiple of the pointer size
  BlockCount,   \* pool->block_count
  NULL, Junk    \* the null pointer, and a word that is no block's address

ASSUME PoolAssumption ==
  /\ BlockSize \in Nat \ {0} /\ BlockCount \in Nat \ {0}
  /\ NULL \notin Int /\ Junk \notin Int /\ NULL # Junk

VARIABLES
  free_list,    \* the first free block
  free_count,
  word,         \* the first word of each block
  held          \* the blocks each client was given and has not freed

poolvars == <<free_list, free_count, word, held>>

\* Addresses are relative to pool->start.
Address(i) == (i - 1) * BlockSize
Block == { Address(i) : i \in 1 .. BlockCount }
Word == Block \cup {NULL, Junk}
AllHeld == UNION { held[c] : c \in Client }

\* Pointers a caller may pass to os_mem_pool_free: any address in the pool or
\* next to it.
Pointer == -1 .. BlockSize * BlockCount

\* os_mem_pool_init
PoolInit ==
  /\ free_list = Address(1)
  /\ free_count = BlockCount
  /\ word = [b \in Block |-> IF b = Address(BlockCount) THEN NULL ELSE b + BlockSize]
  /\ held = [c \in Client |-> {}]

\* os_mem_pool_alloc (when the list is empty the answer is NULL)
PoolAlloc(c) ==
  /\ free_list # NULL
  /\ held' = [held EXCEPT ![c] = @ \cup {free_list}]
  /\ free_list' = word[free_list]
  /\ free_count' = free_count - 1
  /\ UNCHANGED word

\* os_mem_pool_ptr_valid
Valid(p) == 0 <= p /\ p < BlockSize * BlockCount /\ p % BlockSize = 0

\* os_mem_pool_free_list_contains: p is met by following the links from the
\* first free block, that is, it is in every set that is closed under them.
Closed(S) == free_list \in S /\ \A b \in S \cap Block : word[b] \in S
OnFreeList(p) == p \in Block /\ \A S \in SUBSET Word : Closed(S) => p \in S

\* The checks of os_mem_pool_free
Accepted(p) == Valid(p) /\ free_count < BlockCount /\ ~OnFreeList(p)

\* Mutation: the block is not linked to the rest of the free list.
MutReleased(p) == [word EXCEPT ![p] = NULL]

\* The word written into a block that is freed.
Released(p) == [word EXCEPT ![p] = free_list]

\* os_mem_pool_free of a block the client holds, or of a pointer nobody holds (a
\* block freed before, the middle of a block, an address outside the pool).
PoolFree(c, p) ==
  /\ p \in held[c] \/ p \notin AllHeld
  /\ Accepted(p)
  /\ word' = Released(p)
  /\ free_list' = p
  /\ free_count' = free_count + 1
  /\ held' = [held EXCEPT ![c] = @ \ {p}]

\* A client uses the memory it was given.
Use(c, b, w) ==
  /\ b \in held[c]
  /\ word' = [word EXCEPT ![b] = w]
  /\ UNCHANGED <<free_list, free_count, held>>

PoolNext ==
  \E c \in Client :
    \/ PoolAlloc(c)
    \/ \E p \in Pointer : PoolFree(c, p)
    \/ \E b \in Block, w \in Word : Use(c, b, w)

PoolSpec == PoolInit /\ [][PoolNext]_poolvars
-----------------------------------------------------------------------------
(* Properties.                                                             *)

PoolTypeOK ==
  /\ free_list \in Block \cup {NULL}
  /\ free_count \in 0 .. BlockCount
  /\ word \in [Block -> Word]
  /\ held \in [Client -> SUBSET Block]

\* s is the free list: free_count different blocks, linked from the first to the
\* one whose word is NULL.
IsFreeList(s) ==
  /\ free_list = IF free_count = 0 THEN NULL ELSE s[1]
  /\ \A i \in 1 .. free_count : word[s[i]] = IF i = free_count THEN NULL ELSE s[i + 1]
  /\ \A i, j \in 1 .. free_count : s[i] = s[j] => i = j

\* The free list holds exactly the blocks nobody holds, and free_count is their
\* number, whatever holders write into their blocks and whatever pointers are
\* freed twice or by mistake.
PoolExact ==
  \E s \in [1 .. free_count -> Block] :
    IsFreeList(s) /\ { s[i] : i \in 1 .. free_count } = Block \ AllHeld

\* No block is given to two clients.
HeldByOne == \A c, d \in Client : c # d => held[c] \cap held[d] = {}

\* os_mem_pool_free accepts exactly the pointers somebody holds: a double free, a
\* pointer into a block and one outside the pool are all refused, and no block
\* is refused by mistake.
AcceptsExactlyWhatIsHeld == { p \in Pointer : Accepted(p) } = AllHeld

\* Every block is free or held by one client, never both and never lost, and who
\* holds it, and nobody else, can free it.
PoolSound == PoolExact /\ HeldByOne /\ AcceptsExactlyWhatIsHeld
=============================================================================
