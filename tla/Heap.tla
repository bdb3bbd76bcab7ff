---------------------------------- MODULE Heap ----------------------------------
(***************************************************************************)
(* The heap of memory/src/os_mem.c: os_malloc, os_calloc, os_realloc and   *)
(* os_free over one arena.  Every block starts with a header, and the      *)
(* headers form a doubly linked list of all blocks, free and used.  A      *)
(* critical section is one step; os_realloc is two of them, with the copy  *)
(* in between.  Addresses are relative to the aligned start of the arena.  *)
(***************************************************************************)
EXTENDS Integers, FiniteSetsExt

CONSTANTS
  User,         \* the callers
  Align,        \* the alignment of sizes, 8 in the code
  Header,       \* sizeof(heap_block_t)
  ArenaSize,    \* from the aligned start to _heap_end
  SizeMod,      \* os_size_t counts modulo SizeMod
  Request,      \* sizes asked for
  Count,        \* counts passed to os_calloc
  NoBlock       \* the null pointer

ASSUME HeapAssumption ==
  /\ Align \in Nat \ {0} /\ Header \in Nat \ {0}
  /\ ArenaSize \in Nat /\ ArenaSize > Header /\ SizeMod \in Nat /\ SizeMod > ArenaSize
  /\ Request \subseteq Nat /\ Count \subseteq Nat
  /\ NoBlock \notin Int

VARIABLES
  hdr,          \* the headers: a function on the addresses of the blocks
  used_bytes, peak_bytes,   \* g_heap_stats
  live,         \* what callers were given: who holds a block and what was asked
  moving        \* callers inside os_realloc, between its allocation and its free

heapvars == <<hdr, used_bytes, peak_bytes, live, moving>>

HeapBlock == DOMAIN hdr
Idle(u) == moving[u] = NoBlock
Holds(u, b) == b \in DOMAIN live /\ live[b].by = u

\* os_heap_init
HeapInit ==
  /\ hdr = [b \in {0} |-> [size |-> ArenaSize - Header, used |-> FALSE,
                           next |-> NoBlock, prev |-> NoBlock]]
  /\ used_bytes = 0 /\ peak_bytes = 0
  /\ live = [b \in {} |-> NoBlock]
  /\ moving = [u \in User |-> NoBlock]

\* OS_ALIGN_UP
AlignUp(n) ==
  LET m == (n + Align - 1) % SizeMod IN m - (m % Align)

\* The free blocks that are large enough, and among them the one the search
\* ends with: the first of the smallest.  (The list is in the order of addresses.)
Fits(n) == { b \in HeapBlock : ~hdr[b].used /\ hdr[b].size >= n }
Best(n) ==
  { b \in Fits(n) : \A c \in Fits(n) :
      hdr[b].size < hdr[c].size \/ (hdr[b].size = hdr[c].size /\ b <= c) }

\* Mutation: the block after the new one keeps its back link.
MutSplit(b, n) ==
  LET new == b + Header + n IN
  [x \in HeapBlock \cup {new} |->
    IF x = b THEN [hdr[b] EXCEPT !.size = n, !.next = new]
    ELSE IF x = new THEN [size |-> hdr[b].size - n - Header, used |-> FALSE,
                          next |-> hdr[b].next, prev |-> b]
    ELSE hdr[x]]

\* The headers once the rest of block b is cut off behind its first n bytes.
Split(b, n) ==
  LET new == b + Header + n IN
  [x \in HeapBlock \cup {new} |->
    IF x = b THEN [hdr[b] EXCEPT !.size = n, !.next = new]
    ELSE IF x = new THEN [size |-> hdr[b].size - n - Header, used |-> FALSE,
                          next |-> hdr[b].next, prev |-> b]
    ELSE IF x = hdr[b].next THEN [hdr[x] EXCEPT !.prev = new]
    ELSE hdr[x]]

\* The part of os_malloc_with_caller that cuts block b to n bytes and marks it.
Cut(b, n) == IF hdr[b].size > n + Header + Align THEN Split(b, n) ELSE hdr
Marked(b, n) == [Cut(b, n) EXCEPT ![b].used = TRUE]

\* os_malloc_with_caller(n) hands block b to u, who asked for so many bytes.
Allocate(u, b, n, asked) ==
  LET now == used_bytes + Marked(b, AlignUp(n))[b].size IN
  /\ n # 0 /\ b \in Best(AlignUp(n))
  /\ hdr' = Marked(b, AlignUp(n))
  /\ used_bytes' = now
  /\ peak_bytes' = IF now > peak_bytes THEN now ELSE peak_bytes
  /\ live' = [x \in DOMAIN live \cup {b} |->
                IF x = b THEN [by |-> u, asked |-> asked] ELSE live[x]]

\* os_malloc (without a fitting block the answer is NULL)
Malloc(u, n) ==
  /\ Idle(u)
  /\ \E b \in HeapBlock : Allocate(u, b, n, n)
  /\ UNCHANGED moving

\* os_calloc: a product that does not fit its type is refused.
Calloc(u, c, n) ==
  /\ Idle(u)
  /\ ~(c # 0 /\ n > (SizeMod - 1) \div c)
  /\ \E b \in HeapBlock : Allocate(u, b, (c * n) % SizeMod, c * n)
  /\ UNCHANGED moving

\* Mutation: the block behind the pair keeps its link to the one that is gone.
MutAbsorb(h, a, b) ==
  [x \in DOMAIN h \ {b} |->
    IF x = a THEN [h[a] EXCEPT !.size = @ + Header + h[b].size, !.next = h[b].next]
    ELSE h[x]]

\* Block b becomes part of its neighbour a.
Absorb(h, a, b) ==
  [x \in DOMAIN h \ {b} |->
    IF x = a THEN [h[a] EXCEPT !.size = @ + Header + h[b].size, !.next = h[b].next]
    ELSE IF x = h[b].next THEN [h[x] EXCEPT !.prev = a]
    ELSE h[x]]

FreeIn(h, b) == b # NoBlock /\ ~h[b].used
WithNext(h, b) == IF FreeIn(h, h[b].next) THEN Absorb(h, b, h[b].next) ELSE h

\* Mutation: only one of the neighbours is joined.
MutWithPrev(h, b) == IF DOMAIN h = HeapBlock /\ FreeIn(h, h[b].prev) THEN Absorb(h, h[b].prev, b) ELSE h

WithPrev(h, b) == IF FreeIn(h, h[b].prev) THEN Absorb(h, h[b].prev, b) ELSE h

\* Mutation: the size is taken off after the joining.
MutReleaseSize(b) == WithNext([hdr EXCEPT ![b].used = FALSE], b)[b].size

\* The number of bytes a free takes off the statistics.
ReleaseSize(b) == hdr[b].size

\* os_free: block b is free, and one with its free neighbours.
Release(b) ==
  /\ hdr[b].used
  /\ hdr' = WithPrev(WithNext([hdr EXCEPT ![b].used = FALSE], b), b)
  /\ used_bytes' = IF used_bytes >= ReleaseSize(b) THEN used_bytes - ReleaseSize(b) ELSE 0
  /\ live' = [x \in DOMAIN live \ {b} |-> live[x]]
  /\ UNCHANGED peak_bytes

HeapFree(u, b) ==
  /\ Idle(u) /\ Holds(u, b)
  /\ Release(b)
  /\ UNCHANGED moving

\* os_realloc of block b to n bytes: a block that is large enough is kept;
\* otherwise a new one is allocated and, after the copy, b is freed.
ReallocMoves(u, b, n) ==
  /\ Idle(u) /\ Holds(u, b)
  /\ hdr[b].size < n
  /\ \E c \in HeapBlock : Allocate(u, c, n, n)
  /\ moving' = [moving EXCEPT ![u] = b]

ReallocKeeps(u, b, n) ==
  /\ Idle(u) /\ Holds(u, b)
  /\ n # 0 /\ hdr[b].size >= n
  /\ live' = [live EXCEPT ![b].asked = n]
  /\ UNCHANGED <<hdr, used_bytes, peak_bytes, moving>>

ReallocFrees(u) ==
  /\ ~Idle(u)
  /\ Release(moving[u])
  /\ moving' = [moving EXCEPT ![u] = NoBlock]

\* os_heap_stats_reset_peak
ResetPeak ==
  /\ peak_bytes' = used_bytes
  /\ UNCHANGED <<hdr, used_bytes, live, moving>>

HeapNext ==
  \/ \E u \in User :
       \/ \E n \in Request : Malloc(u, n)
       \/ \E c \in Count, n \in Request : Calloc(u, c, n)
       \/ \E b \in HeapBlock : HeapFree(u, b)
       \/ \E b \in HeapBlock, n \in Request : ReallocMoves(u, b, n) \/ ReallocKeeps(u, b, n)
       \/ ReallocFrees(u)
  \/ ResetPeak

HeapSpec == HeapInit /\ [][HeapNext]_heapvars
-----------------------------------------------------------------------------
(* Properties.                                                             *)

HeapTypeOK ==
  /\ HeapBlock \subseteq 0 .. ArenaSize - Header
  /\ hdr \in [HeapBlock -> [size : 0 .. ArenaSize - Header, used : BOOLEAN,
                            next : HeapBlock \cup {NoBlock}, prev : HeapBlock \cup {NoBlock}]]
  /\ DOMAIN live \subseteq HeapBlock
  /\ moving \in [User -> HeapBlock \cup {NoBlock}]

\* Where block b ends.
EndOf(b) == b + Header + hdr[b].size

\* The blocks tile the arena: each one's next is the block that begins where it
\* ends, only the last one ends with the arena, and prev is the inverse of next.
HeapTiles ==
  /\ 0 \in HeapBlock /\ hdr[0].prev = NoBlock
  /\ \A b \in HeapBlock :
       /\ IF hdr[b].next = NoBlock THEN EndOf(b) = ArenaSize
          ELSE hdr[b].next = EndOf(b) /\ hdr[hdr[b].next].prev = b
       /\ b # 0 => hdr[b].prev \in HeapBlock /\ hdr[hdr[b].prev].next = b

\* os_free leaves no two free blocks side by side: free memory is never split up
\* further than the used blocks split it.
NoFreeNeighbours ==
  \A b \in HeapBlock : ~hdr[b].used /\ hdr[b].next # NoBlock => hdr[hdr[b].next].used

\* The used blocks are those that callers hold, each as large as its caller asked
\* for, and current_used_bytes is their size.
HeapAccounts ==
  /\ { b \in HeapBlock : hdr[b].used } = DOMAIN live
  /\ \A b \in DOMAIN live : hdr[b].size >= live[b].asked
  /\ used_bytes = MapThenSumSet(LAMBDA b : hdr[b].size, DOMAIN live)
  /\ peak_bytes >= used_bytes

\* A block that is held stays where it is and as large as it is until its holder
\* frees it, whatever the others allocate, free and move.
HeldBlocksStay ==
  [][\A b \in DOMAIN live \cap DOMAIN live' :
       hdr'[b].size = hdr[b].size /\ live'[b].by = live[b].by]_heapvars
=============================================================================
