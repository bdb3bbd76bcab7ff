----------------------------- MODULE MemoryProofs -----------------------------
(***************************************************************************)
(* Proofs about the memory pools of module MemPool, the heap of module     *)
(* Heap, and the protection of memory of module Pmp.                       *)
(***************************************************************************)
EXTENDS MemPool, Heap, Pmp, WellFoundedInduction, FiniteSetTheorems, TLAPS

\* A set of naturals that is not empty has a least element: induction, in the
\* form the provers can use.
LEMMA LeastNatural ==
  ASSUME NEW S \in SUBSET Nat, S # {}
  PROVE  \E m \in S : \A n \in S : m <= n
<1> DEFINE R == { p \in Nat \X Nat : p[1] < p[2] }
<1>1. IsWellFoundedOn(R, Nat)
  BY NatLessThanWellFounded DEF OpToRel
<1> HIDE DEF R
<1>2. PICK m \in S : \A n \in S : <<n, m>> \notin R
  BY <1>1, WFMin
<1>3. \A n \in S : ~(n < m)
  BY <1>2 DEF R
<1> QED
  BY <1>3

(* MemPool, for every number of clients and every number and size of       *)
(* blocks.                                                                 *)

\* The inductive invariant.
PoolInv == PoolTypeOK /\ HeldByOne /\ PoolExact

-----------------------------------------------------------------------------
(* Arithmetic of addresses.                                                *)

\* The address of a block is an integer that os_mem_pool_ptr_valid accepts.
LEMMA BlocksAreValid ==
  ASSUME NEW p \in Block
  PROVE  p \in Pointer /\ Valid(p)
<1>1. PICK i \in 1 .. BlockCount : p = (i - 1) * BlockSize
  BY DEF Block, Address
<1>2. p \in Int /\ 0 <= p
  BY <1>1, PoolAssumption
<1>3. p < BlockSize * BlockCount
  BY <1>1, PoolAssumption
<1>4. p % BlockSize = 0
  BY <1>1, PoolAssumption, Z3
<1> QED
  BY <1>2, <1>3, <1>4, PoolAssumption DEF Valid, Pointer

\* ... and every pointer it accepts is the address of a block.
LEMMA ValidAreBlocks ==
  ASSUME NEW p \in Pointer, Valid(p)
  PROVE  p \in Block
<1> DEFINE d == p \div BlockSize
           r == p % BlockSize
<1>1. p \in Int /\ r = 0
  BY PoolAssumption DEF Valid, Pointer
<1>2. d \in Int /\ r \in Int /\ p = BlockSize * d + r /\ BlockSize \in Nat \ {0}
  BY <1>1, PoolAssumption
<1> HIDE DEF d, r
<1>3. p = BlockSize * d
  BY <1>1, <1>2
<1>4. 0 <= d /\ d < BlockCount
  BY <1>2, <1>3, PoolAssumption DEF Valid
<1>5. d + 1 \in 1 .. BlockCount /\ p = Address(d + 1)
  BY <1>2, <1>3, <1>4, PoolAssumption DEF Address
<1> QED
  BY <1>5 DEF Block

\* Different indices are different addresses.
LEMMA AddressesDiffer ==
  ASSUME NEW i \in 1 .. BlockCount, NEW j \in 1 .. BlockCount, Address(i) = Address(j)
  PROVE  i = j
<1>1. BlockSize \in Nat \ {0} /\ i \in Int /\ j \in Int
  BY PoolAssumption
<1>2. BlockSize * (i - j) = 0
  BY <1>1 DEF Address
<1>3. i - j = 0
  BY <1>1, <1>2
<1> QED
  BY <1>1, <1>3

\* There are BlockCount blocks.
LEMMA BlocksAreFinite == IsFiniteSet(Block) /\ Cardinality(Block) = BlockCount
<1> DEFINE f == [i \in 1 .. BlockCount |-> Address(i)]
<1>1. f \in Bijection(1 .. BlockCount, Block)
  <2>1. f \in [1 .. BlockCount -> Block] /\ \A b \in Block : \E i \in 1 .. BlockCount : f[i] = b
    BY DEF Block
  <2>2. \A i, j \in 1 .. BlockCount : f[i] = f[j] => i = j
    BY AddressesDiffer
  <2> QED
    BY <2>1, <2>2 DEF Bijection, Injection, Surjection, IsInjective
<1>2. IsFiniteSet(1 .. BlockCount) /\ Cardinality(1 .. BlockCount) = BlockCount
  BY FS_Interval, PoolAssumption
<1>3. ExistsBijection(1 .. BlockCount, Block)
  BY <1>1 DEF ExistsBijection
<1> QED
  BY <1>2, <1>3, FS_Bijection

\* NULL and Junk are not blocks.
LEMMA NullIsNoBlock == NULL \notin Block /\ Junk \notin Block
  BY BlocksAreValid, PoolAssumption DEF Pointer

-----------------------------------------------------------------------------
(* The free list.                                                          *)

\* The walk of os_mem_pool_free_list_contains meets the elements of the list and
\* nothing else.
LEMMA WalkMeetsTheList ==
  ASSUME PoolTypeOK, NEW s \in [1 .. free_count -> Block], IsFreeList(s), NEW p \in Block
  PROVE  OnFreeList(p) <=> \E i \in 1 .. free_count : p = s[i]
<1> USE NullIsNoBlock
<1> DEFINE Elements == { s[i] : i \in 1 .. free_count }
<1>1. ASSUME OnFreeList(p) PROVE p \in Elements
  <2>1. Elements \cup {NULL} \in SUBSET Word
    BY DEF Word
  <2>2. Closed(Elements \cup {NULL})
    BY DEF Closed, IsFreeList, PoolTypeOK
  <2> QED
    BY <1>1, <2>1, <2>2 DEF OnFreeList
<1>2. ASSUME NEW i \in 1 .. free_count, NEW S \in SUBSET Word, Closed(S)
      PROVE  s[i] \in S
  <2> DEFINE Missed == { j \in 1 .. free_count : s[j] \notin S }
  <2>1. SUFFICES ASSUME Missed # {} PROVE FALSE
    OBVIOUS
  <2>2. Missed \in SUBSET Nat
    OBVIOUS
  <2>3. PICK j \in Missed : \A l \in Missed : j <= l
    BY <2>1, <2>2, LeastNatural
  <2>4. j \in 1 .. free_count /\ s[j] \notin S /\ free_count \in Nat /\ free_count # 0
    BY <2>3, PoolAssumption DEF PoolTypeOK
  <2>5. free_list \in S /\ \A b \in S \cap Block : word[b] \in S
    BY <1>2 DEF Closed
  <2>6. free_list = s[1]
    BY <2>4 DEF IsFreeList
  <2>7. j # 1
    BY <2>4, <2>5, <2>6
  <2>8. j - 1 \in 1 .. free_count /\ j - 1 # free_count /\ j - 1 < j
    BY <2>4, <2>7
  <2>9. s[j - 1] \in S
    BY <2>3, <2>8
  <2>10. word[s[j - 1]] = s[j]
    <3>1. word[s[j - 1]] = s[(j - 1) + 1]
      BY <2>8 DEF IsFreeList
    <3>2. (j - 1) + 1 = j
      BY <2>4
    <3> QED
      BY <3>1, <3>2
  <2> QED
    BY <2>4, <2>5, <2>8, <2>9, <2>10
<1>3. QED
  BY <1>1, <1>2 DEF OnFreeList

\* The list cannot hold every block while one of them is held.
LEMMA RoomForWhatIsHeld ==
  ASSUME PoolTypeOK, NEW s \in [1 .. free_count -> Block], IsFreeList(s),
         NEW p \in Block, \A i \in 1 .. free_count : s[i] # p
  PROVE  free_count < BlockCount
<1>1. s \in Injection(1 .. free_count, Block)
  BY DEF IsFreeList, Injection, IsInjective
<1>2. s \notin Surjection(1 .. free_count, Block)
  BY DEF Surjection
<1>3. free_count \in Int /\ 0 <= free_count /\ Cardinality(1 .. free_count) = free_count
  BY FS_Interval, PoolAssumption DEF PoolTypeOK
<1> QED
  BY <1>1, <1>2, <1>3, BlocksAreFinite, FS_Injection, PoolAssumption

\* Under the invariant os_mem_pool_free accepts exactly what is held.
LEMMA ExactImpliesAccepts == PoolInv => AcceptsExactlyWhatIsHeld
<1> SUFFICES ASSUME PoolInv PROVE { p \in Pointer : Accepted(p) } = AllHeld
  BY DEF AcceptsExactlyWhatIsHeld
<1>1. PICK s \in [1 .. free_count -> Block] :
        IsFreeList(s) /\ { s[i] : i \in 1 .. free_count } = Block \ AllHeld
  BY DEF PoolInv, PoolExact
<1>2. AllHeld \subseteq Block
  BY DEF PoolInv, PoolTypeOK, AllHeld
<1>3. ASSUME NEW p \in Pointer, Accepted(p) PROVE p \in AllHeld
  <2>1. p \in Block /\ ~OnFreeList(p)
    BY <1>3, ValidAreBlocks DEF Accepted
  <2> QED
    BY <1>1, <2>1, WalkMeetsTheList DEF PoolInv
<1>4. ASSUME NEW p \in AllHeld PROVE p \in Pointer /\ Accepted(p)
  <2>1. p \in Block /\ \A i \in 1 .. free_count : s[i] # p
    BY <1>1, <1>2
  <2>2. ~OnFreeList(p)
    BY <1>1, <2>1, WalkMeetsTheList DEF PoolInv
  <2>3. free_count < BlockCount
    BY <1>1, <2>1, RoomForWhatIsHeld DEF PoolInv
  <2> QED
    BY <2>1, <2>2, <2>3, BlocksAreValid DEF Accepted
<1> QED
  BY <1>3, <1>4

-----------------------------------------------------------------------------
(* The invariant is inductive.                                             *)

\* What it takes to be the free list after a step.
LEMMA ListWitness ==
  ASSUME NEW r \in [1 .. free_count' -> Block],
         free_list' = IF free_count' = 0 THEN NULL ELSE r[1],
         \A i \in 1 .. free_count' : word'[r[i]] = IF i = free_count' THEN NULL ELSE r[i + 1],
         \A i, j \in 1 .. free_count' : r[i] = r[j] => i = j,
         \A i \in 1 .. free_count' : r[i] \in Block \ AllHeld',
         \A b \in Block \ AllHeld' : \E i \in 1 .. free_count' : r[i] = b
  PROVE  PoolExact'
<1>1. { r[i] : i \in 1 .. free_count' } = Block \ AllHeld'
  OBVIOUS
<1>2. \E s \in [1 .. free_count' -> Block] :
        /\ free_list' = IF free_count' = 0 THEN NULL ELSE s[1]
        /\ \A i \in 1 .. free_count' : word'[s[i]] = IF i = free_count' THEN NULL ELSE s[i + 1]
        /\ \A i, j \in 1 .. free_count' : s[i] = s[j] => i = j
        /\ { s[i] : i \in 1 .. free_count' } = Block \ AllHeld'
  BY <1>1
<1> QED
  BY <1>2 DEF PoolExact, IsFreeList

LEMMA InitEstablishesInv == PoolInit => PoolInv
<1> SUFFICES ASSUME PoolInit PROVE PoolInv
  OBVIOUS
<1> USE PoolAssumption DEF PoolInit
<1>1. \A i \in 1 .. BlockCount : Address(i) \in Block
  BY DEF Block
<1>2. \A i \in 1 .. BlockCount : i # BlockCount => Address(i) + BlockSize = Address(i + 1)
  BY DEF Address
<1>3. \A i \in 1 .. BlockCount :
        word[Address(i)] = IF i = BlockCount THEN NULL ELSE Address(i + 1)
  BY <1>1, <1>2, AddressesDiffer
<1>4. \A b \in Block : word[b] \in Word
  <2> SUFFICES ASSUME NEW b \in Block PROVE word[b] \in Word
    OBVIOUS
  <2>1. PICK i \in 1 .. BlockCount : b = Address(i)
    BY DEF Block
  <2>2. i # BlockCount => i + 1 \in 1 .. BlockCount
    OBVIOUS
  <2> QED
    BY <2>1, <2>2, <1>1, <1>3 DEF Word
<1>5. PoolTypeOK
  BY <1>1, <1>4 DEF PoolTypeOK
<1>6. HeldByOne
  BY DEF HeldByOne
<1>7. PoolExact
  <2> DEFINE s == [i \in 1 .. BlockCount |-> Address(i)]
  <2>1. s \in [1 .. free_count -> Block]
    BY <1>1
  <2>2. IsFreeList(s)
    BY <1>3, AddressesDiffer DEF IsFreeList
  <2>3. { s[i] : i \in 1 .. free_count } = Block \ AllHeld
    BY DEF AllHeld, Block
  <2> QED
    BY <2>1, <2>2, <2>3 DEF PoolExact
<1> QED
  BY <1>5, <1>6, <1>7 DEF PoolInv

\* os_mem_pool_alloc takes the first block off the list.
LEMMA AllocKeepsInv ==
  ASSUME PoolInv, NEW c \in Client, PoolAlloc(c)
  PROVE  PoolInv'
<1> USE PoolAssumption, NullIsNoBlock
<1>1. PICK s \in [1 .. free_count -> Block] :
        IsFreeList(s) /\ { s[i] : i \in 1 .. free_count } = Block \ AllHeld
  BY DEF PoolInv, PoolExact
<1>2. free_count \in 1 .. BlockCount /\ free_list = s[1]
  BY <1>1 DEF PoolInv, PoolTypeOK, PoolAlloc, IsFreeList
<1>3. free_list \in Block \ AllHeld
  BY <1>1, <1>2
<1>4. free_list' = IF free_count = 1 THEN NULL ELSE s[2]
  BY <1>1, <1>2 DEF PoolAlloc, IsFreeList
<1>5. AllHeld' = AllHeld \cup {free_list}
  BY <1>3 DEF PoolInv, PoolTypeOK, PoolAlloc, AllHeld
<1>6. PoolTypeOK'
  BY <1>2, <1>3, <1>4 DEF PoolInv, PoolTypeOK, PoolAlloc
<1>7. HeldByOne'
  BY <1>3 DEF PoolInv, PoolTypeOK, HeldByOne, PoolAlloc, AllHeld
<1>8. PoolExact'
  <2>1. free_count' = free_count - 1 /\ word' = word /\ free_count' \in Nat
    BY <1>2 DEF PoolAlloc
  <2>2. \A i \in 1 .. free_count' : i \in 1 .. free_count /\ i + 1 \in 1 .. free_count
    BY <1>2, <2>1
  <2>3. PICK r \in [1 .. free_count' -> Block] : \A i \in 1 .. free_count' : r[i] = s[i + 1]
    <3>1. [i \in 1 .. free_count' |-> s[i + 1]] \in [1 .. free_count' -> Block]
      BY <2>2
    <3> QED
      BY <3>1
  <2>4. free_list' = IF free_count' = 0 THEN NULL ELSE r[1]
    BY <1>2, <1>4, <2>1, <2>3
  <2>5. \A i \in 1 .. free_count' : word'[r[i]] = IF i = free_count' THEN NULL ELSE r[i + 1]
    BY <1>1, <1>2, <2>1, <2>2, <2>3 DEF IsFreeList
  <2>6. \A i, j \in 1 .. free_count' : r[i] = r[j] => i = j
    BY <1>1, <1>2, <2>1, <2>2, <2>3 DEF IsFreeList
  <2>7. \A i \in 1 .. free_count' : r[i] \in Block \ AllHeld'
    <3> SUFFICES ASSUME NEW i \in 1 .. free_count' PROVE r[i] \in Block \ AllHeld'
      OBVIOUS
    <3>1. r[i] = s[i + 1] /\ i + 1 \in 1 .. free_count /\ i + 1 # 1 /\ 1 \in 1 .. free_count
      BY <1>2, <2>2, <2>3
    <3>2. s[i + 1] # s[1]
      BY <1>1, <3>1 DEF IsFreeList
    <3> QED
      BY <1>1, <1>2, <1>5, <3>1, <3>2
  <2>8. \A b \in Block \ AllHeld' : \E i \in 1 .. free_count' : r[i] = b
    <3> SUFFICES ASSUME NEW b \in Block \ AllHeld' PROVE \E i \in 1 .. free_count' : r[i] = b
      OBVIOUS
    <3>1. PICK j \in 1 .. free_count : s[j] = b
      BY <1>1, <1>5
    <3>2. j # 1
      BY <1>2, <1>5, <3>1
    <3>3. j - 1 \in 1 .. free_count' /\ (j - 1) + 1 = j
      BY <1>2, <2>1, <3>2
    <3>4. r[j - 1] = b
      BY <2>3, <3>1, <3>3
    <3> QED
      BY <3>3, <3>4
  <2> QED
    BY <2>3, <2>4, <2>5, <2>6, <2>7, <2>8, ListWitness
<1> QED
  BY <1>6, <1>7, <1>8 DEF PoolInv

\* os_mem_pool_free puts a block that was held in front of the list.
LEMMA FreeKeepsInv ==
  ASSUME PoolInv, NEW c \in Client, NEW p \in Pointer, PoolFree(c, p)
  PROVE  PoolInv'
<1> USE PoolAssumption, NullIsNoBlock
<1>1. PICK s \in [1 .. free_count -> Block] :
        IsFreeList(s) /\ { s[i] : i \in 1 .. free_count } = Block \ AllHeld
  BY DEF PoolInv, PoolExact
<1>2. p \in held[c] /\ p \in AllHeld
  BY ExactImpliesAccepts DEF AcceptsExactlyWhatIsHeld, PoolFree, AllHeld
<1>3. p \in Block /\ free_count \in 0 .. BlockCount - 1
  BY <1>2 DEF PoolInv, PoolTypeOK, PoolFree, Accepted
<1>4. \A i \in 1 .. free_count : s[i] # p
  BY <1>1, <1>2
<1>5. AllHeld' = AllHeld \ {p}
  BY <1>2 DEF PoolInv, PoolTypeOK, HeldByOne, PoolFree, AllHeld
<1>6. word' = [word EXCEPT ![p] = free_list] /\ free_list' = p /\ free_count' = free_count + 1
  BY DEF PoolFree, Released
<1>7. PoolTypeOK'
  BY <1>3, <1>6 DEF PoolInv, PoolTypeOK, PoolFree, Word
<1>8. HeldByOne'
  BY DEF PoolInv, PoolTypeOK, HeldByOne, PoolFree
<1>9. PoolExact'
  <2>1. free_count' \in Nat /\ 1 \in 1 .. free_count' /\ free_count \in Nat
    BY <1>3, <1>6
  <2>2. PICK r \in [1 .. free_count' -> Block] :
          \A i \in 1 .. free_count' : r[i] = IF i = 1 THEN p ELSE s[i - 1]
    <3>1. [i \in 1 .. free_count' |-> IF i = 1 THEN p ELSE s[i - 1]] \in [1 .. free_count' -> Block]
      BY <1>3, <1>6
    <3> QED
      BY <3>1
  <2>3. \A i \in 1 .. free_count : r[i + 1] = s[i] /\ i + 1 \in 1 .. free_count' /\ i + 1 # 1
    BY <1>6, <2>1, <2>2
  <2>4. r[1] = p
    BY <2>1, <2>2
  <2>5. \A i \in 1 .. free_count' : i # 1 => i - 1 \in 1 .. free_count /\ r[i] = s[i - 1]
    BY <1>6, <2>1, <2>2
  <2>6. free_list' = IF free_count' = 0 THEN NULL ELSE r[1]
    BY <1>6, <2>1, <2>4
  <2>7. \A i \in 1 .. free_count' : word'[r[i]] = IF i = free_count' THEN NULL ELSE r[i + 1]
    <3> SUFFICES ASSUME NEW i \in 1 .. free_count'
                 PROVE word'[r[i]] = IF i = free_count' THEN NULL ELSE r[i + 1]
      OBVIOUS
    <3>1. word \in [Block -> Word]
      BY DEF PoolInv, PoolTypeOK
    <3>2. CASE i = 1
      <4>1. word'[r[i]] = free_list
        BY <1>3, <1>6, <2>4, <3>1, <3>2
      <4>2. free_count # 0 => r[i + 1] = s[1]
        BY <2>1, <2>3, <3>2
      <4>3. free_list = IF free_count = 0 THEN NULL ELSE s[1]
        BY <1>1 DEF IsFreeList
      <4> QED
        BY <1>6, <2>1, <3>2, <4>1, <4>2, <4>3
    <3>3. CASE i # 1
      <4>1. i - 1 \in 1 .. free_count /\ r[i] = s[i - 1]
        BY <2>5, <3>3
      <4>2. word'[r[i]] = word[s[i - 1]]
        BY <1>4, <1>6, <3>1, <4>1
      <4>3. word[s[i - 1]] = IF i - 1 = free_count THEN NULL ELSE s[(i - 1) + 1]
        BY <1>1, <4>1 DEF IsFreeList
      <4>4. i # free_count' => r[i + 1] = s[i] /\ (i - 1) + 1 = i
        BY <1>6, <2>1, <2>3
      <4> QED
        BY <1>6, <2>1, <4>2, <4>3, <4>4
    <3> QED
      BY <3>2, <3>3
  <2>8. \A i, j \in 1 .. free_count' : r[i] = r[j] => i = j
    <3> SUFFICES ASSUME NEW i \in 1 .. free_count', NEW j \in 1 .. free_count', r[i] = r[j]
                 PROVE i = j
      OBVIOUS
    <3>1. CASE i # 1 /\ j # 1
      <4>1. i - 1 = j - 1
        BY <1>1, <2>5, <3>1 DEF IsFreeList
      <4> QED
        BY <4>1
    <3>2. CASE i = 1 \/ j = 1
      BY <1>4, <2>4, <2>5, <3>2
    <3> QED
      BY <3>1, <3>2
  <2>9. \A i \in 1 .. free_count' : r[i] \in Block \ AllHeld'
    <3> SUFFICES ASSUME NEW i \in 1 .. free_count' PROVE r[i] \in Block \ AllHeld'
      OBVIOUS
    <3>1. CASE i = 1
      BY <1>3, <1>5, <2>4, <3>1
    <3>2. CASE i # 1
      BY <1>1, <1>5, <2>5, <3>2
    <3> QED
      BY <3>1, <3>2
  <2>10. \A b \in Block \ AllHeld' : \E i \in 1 .. free_count' : r[i] = b
    <3> SUFFICES ASSUME NEW b \in Block \ AllHeld' PROVE \E i \in 1 .. free_count' : r[i] = b
      OBVIOUS
    <3>1. CASE b = p
      BY <2>1, <2>4, <3>1
    <3>2. CASE b # p
      <4>1. PICK i \in 1 .. free_count : s[i] = b
        BY <1>1, <1>5, <3>2
      <4> QED
        BY <2>3, <4>1
    <3> QED
      BY <3>1, <3>2
  <2> QED
    BY <2>2, <2>6, <2>7, <2>8, <2>9, <2>10, ListWitness
<1> QED
  BY <1>7, <1>8, <1>9 DEF PoolInv

\* What a holder writes into its block is not read by the pool.
LEMMA UseKeepsInv ==
  ASSUME PoolInv, NEW c \in Client, NEW b \in Block, NEW w \in Word, Use(c, b, w)
  PROVE  PoolInv'
<1>1. PICK s \in [1 .. free_count -> Block] :
        IsFreeList(s) /\ { s[i] : i \in 1 .. free_count } = Block \ AllHeld
  BY DEF PoolInv, PoolExact
<1>2. b \in AllHeld /\ AllHeld' = AllHeld
  BY DEF Use, AllHeld
<1>3. \A i \in 1 .. free_count : word'[s[i]] = word[s[i]]
  BY <1>1, <1>2 DEF Use, PoolInv, PoolTypeOK
<1>4. PoolTypeOK' /\ HeldByOne'
  BY DEF PoolInv, PoolTypeOK, HeldByOne, Use
<1>5. IsFreeList(s)'
  BY <1>1, <1>3 DEF IsFreeList, Use
<1>6. PoolExact'
  BY <1>1, <1>2, <1>5 DEF PoolExact, Use
<1> QED
  BY <1>4, <1>6 DEF PoolInv

\* The invariant holds in every reachable state.
LEMMA PoolInvariant == PoolSpec => []PoolInv
<1>1. PoolInit => PoolInv
  BY InitEstablishesInv
<1>2. PoolInv /\ [PoolNext]_poolvars => PoolInv'
  <2> SUFFICES ASSUME PoolInv, [PoolNext]_poolvars PROVE PoolInv'
    OBVIOUS
  <2>1. ASSUME NEW c \in Client, PoolAlloc(c) PROVE PoolInv'
    BY <2>1, AllocKeepsInv
  <2>2. ASSUME NEW c \in Client, NEW p \in Pointer, PoolFree(c, p) PROVE PoolInv'
    BY <2>2, FreeKeepsInv
  <2>3. ASSUME NEW c \in Client, NEW b \in Block, NEW w \in Word, Use(c, b, w) PROVE PoolInv'
    BY <2>3, UseKeepsInv
  <2>4. CASE UNCHANGED poolvars
    BY <2>4 DEF poolvars, PoolInv, PoolTypeOK, HeldByOne, PoolExact, IsFreeList, AllHeld
  <2> QED
    BY <2>1, <2>2, <2>3, <2>4 DEF PoolNext
<1> QED
  BY <1>1, <1>2, PTL DEF PoolSpec

\* The free list holds exactly what nobody holds, free_count is its length, no
\* block is given to two clients, and only what is held can be freed: for every pool,
\* whatever its clients do.
THEOREM PoolStaysSound == PoolSpec => []PoolSound
<1>1. PoolInv => PoolSound
  BY ExactImpliesAccepts DEF PoolInv, PoolSound
<1> QED
  BY <1>1, PoolInvariant, PTL

\* os_mem_pool_free refuses every double free, misaligned or foreign pointer and
\* accepts every block that is held.
THEOREM FreeAcceptsExactlyWhatIsHeld == PoolSpec => []AcceptsExactlyWhatIsHeld
  BY ExactImpliesAccepts, PoolInvariant, PTL

-----------------------------------------------------------------------------

(* Heap, for every arena, alignment and number of callers: the blocks tile *)
(* the arena, no two free ones lie side by side, and what is held stays.   *)
(* They are made from facts about header functions h: what cutting a block *)
(* and joining two leave of the structure.                                 *)

BlockType == [size : Nat, used : BOOLEAN, next : Int \cup {NoBlock}, prev : Int \cup {NoBlock}]

\* A header function.
Headers(h) == h \in [DOMAIN h -> BlockType] /\ DOMAIN h \subseteq Nat

EndIn(h, b) == b + Header + h[b].size

\* HeapTiles of h, and that no block begins inside another one.
Tiles(h) ==
  /\ Headers(h)
  /\ 0 \in DOMAIN h /\ h[0].prev = NoBlock
  /\ \A b \in DOMAIN h : h[b].next = NoBlock => EndIn(h, b) = ArenaSize
  /\ \A b \in DOMAIN h : h[b].next # NoBlock =>
       h[b].next \in DOMAIN h /\ h[b].next = EndIn(h, b) /\ h[h[b].next].prev = b
  /\ \A b \in DOMAIN h : b # 0 => h[b].prev \in DOMAIN h /\ h[h[b].prev].next = b
  /\ \A b, c \in DOMAIN h : b < c => EndIn(h, b) <= c

\* NoFreeNeighbours of h, but for the neighbours of the blocks in E.
Parted(h, E) ==
  \A b \in DOMAIN h : ~h[b].used /\ h[b].next # NoBlock /\ b \notin E /\ h[b].next \notin E
                        => h[h[b].next].used

\* The used blocks, and that two header functions agree on them.
Used(h) == { b \in DOMAIN h : h[b].used }
SameUsed(g, h) == Used(g) = Used(h) /\ \A b \in Used(h) : g[b].size = h[b].size

\* Who holds what.
HoldersExact ==
  /\ live \in [DOMAIN live -> [by : User, asked : Nat]]
  /\ Used(hdr) = DOMAIN live
  /\ moving \in [User -> Int \cup {NoBlock}]
  /\ \A u \in User : ~Idle(u) => Holds(u, moving[u])

HeapInv == Tiles(hdr) /\ Parted(hdr, {}) /\ HoldersExact

-----------------------------------------------------------------------------
(* Sizes.                                                                  *)

\* OS_ALIGN_UP yields a size.
LEMMA AlignedIsNatural ==
  ASSUME NEW n \in Nat
  PROVE  AlignUp(n) \in Nat
<1> DEFINE m == (n + Align - 1) % SizeMod
<1>1. SizeMod \in Nat \ {0} /\ Align \in Nat \ {0} /\ n + Align - 1 \in Int
  BY HeapAssumption
<1>2. m \in Nat
  BY <1>1
<1> HIDE DEF m
<1> DEFINE d == m \div Align
           r == m % Align
<1>3. d \in Int /\ r \in Nat /\ r < Align /\ m = Align * d + r
  BY <1>1, <1>2
<1> HIDE DEF d, r
<1>4. d >= 0
  BY <1>1, <1>2, <1>3
<1>5. Align * d \in Nat
  BY <1>1, <1>3, <1>4
<1>6. m - r \in Nat
  BY <1>2, <1>3, <1>5
<1> QED BY <1>6 DEF AlignUp, m, r

-----------------------------------------------------------------------------
(* Headers.                                                                *)

\* A block that is not the last one is followed by one that knows it.
LEMMA NextIsBehind ==
  ASSUME NEW h, Tiles(h)
  PROVE  \A x \in DOMAIN h :
           /\ x \in Nat /\ h[x].size \in Nat
           /\ h[x].next # NoBlock => h[x].next \in DOMAIN h /\ h[x].next > x /\ h[h[x].next].prev = x
<1>1. Headers(h)
  BY DEF Tiles
<1>2. h \in [DOMAIN h -> BlockType] /\ DOMAIN h \subseteq Nat
  BY <1>1 DEF Headers
<1>3. \A x \in DOMAIN h : x \in Nat /\ h[x].size \in Nat
  BY <1>2 DEF BlockType
<1>4. \A x \in DOMAIN h : h[x].next # NoBlock =>
        h[x].next \in DOMAIN h /\ h[x].next = EndIn(h, x) /\ h[h[x].next].prev = x
  BY DEF Tiles
<1> QED BY <1>3, <1>4, HeapAssumption DEF EndIn

\* Header function g is h with block b marked as used or as free.
Flagged(g, h, b, v) ==
  /\ DOMAIN g = DOMAIN h
  /\ \A x \in DOMAIN h :
       /\ g[x].size = h[x].size /\ g[x].next = h[x].next /\ g[x].prev = h[x].prev
       /\ x # b => g[x].used = h[x].used
  /\ v => g[b].used
  /\ ~v => ~g[b].used

\* Marking a block changes nothing of the tiling.
LEMMA MarkKeepsTiles ==
  ASSUME NEW h, Tiles(h), NEW b \in DOMAIN h, NEW v \in BOOLEAN
  PROVE  Flagged([h EXCEPT ![b].used = v], h, b, v) /\ Tiles([h EXCEPT ![b].used = v])
<1> DEFINE g == [h EXCEPT ![b].used = v]
<1>1. DOMAIN g = DOMAIN h
  OBVIOUS
<1>2. h \in [DOMAIN h -> BlockType] /\ DOMAIN h \subseteq Nat
  BY DEF Tiles, Headers
<1>3. Headers(g)
  BY <1>1, <1>2 DEF BlockType, Headers
<1>4. Flagged(g, h, b, v)
  BY <1>2 DEF BlockType, Flagged
<1> HIDE DEF g
<1>5. Tiles(g)
  BY <1>1, <1>3, <1>4 DEF Tiles, EndIn, Flagged
<1> QED BY <1>4, <1>5 DEF g

\* Header function g is h after block a absorbed b, field by field.
Joined(g, h, a, b) ==
  /\ DOMAIN g = DOMAIN h \ {b} /\ Headers(g)
  /\ \A x \in DOMAIN g :
       /\ g[x].used = h[x].used
       /\ g[x].size = IF x = a THEN h[a].size + Header + h[b].size ELSE h[x].size
       /\ g[x].next = IF x = a THEN h[b].next ELSE h[x].next
       /\ g[x].prev = IF x = h[b].next THEN a ELSE h[x].prev

\* What Absorb makes of every field of every header.
LEMMA AbsorbJoins ==
  ASSUME NEW h, Headers(h), NEW a \in DOMAIN h, NEW b \in DOMAIN h, a # b, a # h[b].next
  PROVE  Joined(Absorb(h, a, b), h, a, b)
<1> DEFINE D == DOMAIN h
<1>1. \A x \in D : h[x] \in BlockType /\ x \in Nat
  BY DEF Headers
<1>2. DOMAIN Absorb(h, a, b) = D \ {b}
  BY DEF Absorb
<1>3. ASSUME NEW x \in D \ {b}
      PROVE  /\ Absorb(h, a, b)[x] \in BlockType
             /\ Absorb(h, a, b)[x].used = h[x].used
             /\ Absorb(h, a, b)[x].size = IF x = a THEN h[a].size + Header + h[b].size ELSE h[x].size
             /\ Absorb(h, a, b)[x].next = IF x = a THEN h[b].next ELSE h[x].next
             /\ Absorb(h, a, b)[x].prev = IF x = h[b].next THEN a ELSE h[x].prev
  <2>1. CASE x = a
    <3>1. h[a].size + Header + h[b].size \in Nat
      BY <1>1, HeapAssumption DEF BlockType
    <3>2. Absorb(h, a, b)[x] = [h[a] EXCEPT !.size = @ + Header + h[b].size, !.next = h[b].next]
      BY <2>1 DEF Absorb
    <3> QED BY <1>1, <2>1, <3>1, <3>2 DEF BlockType
  <2>2. CASE x # a /\ x = h[b].next
    <3>1. Absorb(h, a, b)[x] = [h[x] EXCEPT !.prev = a]
      BY <2>2 DEF Absorb
    <3> QED BY <1>1, <2>2, <3>1 DEF BlockType
  <2>3. CASE x # a /\ x # h[b].next
    <3>1. Absorb(h, a, b)[x] = h[x]
      BY <2>3 DEF Absorb
    <3> QED BY <1>1, <2>3, <3>1
  <2> QED BY <2>1, <2>2, <2>3
<1>4. Absorb(h, a, b) \in [D \ {b} -> BlockType]
  <2>1. Absorb(h, a, b) = [x \in D \ {b} |-> Absorb(h, a, b)[x]]
    BY DEF Absorb
  <2> HIDE DEF D
  <2> QED BY <1>3, <2>1
<1> QED BY <1>1, <1>2, <1>3, <1>4 DEF Headers, Joined

\* Joining a block and the next one keeps the tiling.
LEMMA AbsorbKeepsTiles ==
  ASSUME NEW h, Tiles(h), NEW a \in DOMAIN h, NEW b \in DOMAIN h, h[a].next = b
  PROVE  Tiles(Absorb(h, a, b))
<1> DEFINE g == Absorb(h, a, b)
           D == DOMAIN h \ {b}
<1>1. /\ Headers(h) /\ DOMAIN h \subseteq Nat /\ Header \in Nat \ {0} /\ NoBlock \notin Int
      /\ \A x \in DOMAIN h : h[x].size \in Nat
  <2>1. Headers(h)
    BY DEF Tiles
  <2>2. h \in [DOMAIN h -> BlockType] /\ DOMAIN h \subseteq Nat
    BY <2>1 DEF Headers
  <2> QED BY <2>1, <2>2, HeapAssumption DEF BlockType
<1>2. b = EndIn(h, a) /\ h[b].prev = a
  BY <1>1 DEF Tiles
<1>3. a < b
  BY <1>1, <1>2 DEF EndIn
<1>4. h[b].next # NoBlock => h[b].next \in DOMAIN h /\ h[b].next = EndIn(h, b) /\ h[b].next > b
                             /\ h[h[b].next].prev = b
  BY <1>1 DEF Tiles, EndIn
<1>5. a # b /\ a # h[b].next /\ b # 0
  BY <1>1, <1>3, <1>4
<1>6. Joined(g, h, a, b)
  BY <1>1, <1>5, AbsorbJoins
<1> HIDE DEF g
<1> USE <1>6 DEF Joined
<1>7. EndIn(g, a) = EndIn(h, b) /\ a \in D
  BY <1>1, <1>2, <1>5 DEF EndIn
<1>8. \A x \in D \ {a} : EndIn(g, x) = EndIn(h, x) /\ h[x].next # b
  <2> TAKE x \in D \ {a}
  <2>1. EndIn(g, x) = EndIn(h, x)
    BY DEF EndIn
  <2>2. h[x].next # b
    BY <1>1, <1>2 DEF Tiles
  <2> QED BY <2>1, <2>2
<1>9. \A x \in D : h[x].prev = b => x = h[b].next
  BY <1>1, <1>5 DEF Tiles
<1>10. 0 \in D /\ g[0].prev = NoBlock
  BY <1>1, <1>3, <1>4, <1>5 DEF Tiles
<1>11. \A x \in D : g[x].next = NoBlock => EndIn(g, x) = ArenaSize
  BY <1>7, <1>8 DEF Tiles
<1>12. ASSUME NEW x \in D, g[x].next # NoBlock
       PROVE  g[x].next \in D /\ g[x].next = EndIn(g, x) /\ g[g[x].next].prev = x
  <2>1. CASE x = a
    <3>1. g[x].next = h[b].next /\ h[b].next # NoBlock
      BY <2>1, <1>12
    <3>2. h[b].next \in D
      BY <3>1, <1>1, <1>4
    <3> QED BY <2>1, <3>1, <3>2, <1>4, <1>7
  <2>2. CASE x # a
    <3>1. g[x].next = h[x].next /\ h[x].next \in DOMAIN h /\ h[x].next = EndIn(h, x)
          /\ h[h[x].next].prev = x
      BY <2>2, <1>12 DEF Tiles
    <3>2. h[x].next \in D /\ h[x].next # h[b].next
      BY <2>2, <3>1, <1>4, <1>8, <1>12
    <3> QED BY <2>2, <3>1, <3>2, <1>8
  <2> QED BY <2>1, <2>2
<1>13. ASSUME NEW x \in D, x # 0
       PROVE  g[x].prev \in D /\ g[g[x].prev].next = x
  <2>1. h[x].prev \in DOMAIN h /\ h[h[x].prev].next = x
    BY <1>13 DEF Tiles
  <2>2. CASE x = h[b].next
    BY <2>2, <1>5, <1>7
  <2>3. CASE x # h[b].next
    <3>1. g[x].prev = h[x].prev /\ h[x].prev \in D
      BY <2>1, <2>3, <1>9
    <3>2. h[x].prev # a
      BY <2>1
    <3> QED BY <2>1, <3>1, <3>2
  <2> QED BY <2>2, <2>3
<1>14. ASSUME NEW x \in D, NEW c \in D, x < c
       PROVE  EndIn(g, x) <= c
  <2>1. CASE x = a
    <3>1. b <= c
      BY <2>1, <1>2, <1>14 DEF Tiles
    <3>2. b < c
      BY <3>1, <1>1
    <3> QED BY <3>2, <2>1, <1>7 DEF Tiles
  <2>2. CASE x # a
    BY <2>2, <1>8, <1>14 DEF Tiles
  <2> QED BY <2>1, <2>2
<1> QED BY <1>10, <1>11, <1>12, <1>13, <1>14 DEF Tiles, g

\* Joining two free blocks changes nothing of the used ones.
LEMMA AbsorbKeepsUsed ==
  ASSUME NEW h, Tiles(h), NEW a \in DOMAIN h, NEW b \in DOMAIN h, h[a].next = b,
         ~h[a].used, ~h[b].used, NEW g, Joined(g, h, a, b)
  PROVE  SameUsed(g, h)
<1>1. Used(g) = Used(h)
  BY DEF Joined, Used
<1>2. ASSUME NEW x \in Used(h) PROVE g[x].size = h[x].size
  BY <1>1, <1>2 DEF Joined, Used
<1> QED BY <1>1, <1>2 DEF SameUsed

\* Header function g is h after the rest of block b was cut off behind n bytes.
Divided(g, h, b, n) ==
  LET new == b + Header + n IN
  /\ DOMAIN g = DOMAIN h \cup {new} /\ Headers(g)
  /\ \A x \in DOMAIN g :
       /\ x # new => g[x].used = h[x].used
       /\ x = new => ~g[x].used
       /\ g[x].size = IF x = b THEN n ELSE IF x = new THEN h[b].size - n - Header ELSE h[x].size
       /\ g[x].next = IF x = b THEN new ELSE IF x = new THEN h[b].next ELSE h[x].next
       /\ g[x].prev = IF x = new THEN b ELSE IF x = h[b].next THEN new ELSE h[x].prev

\* What Split makes of every field of every header.
LEMMA SplitDivides ==
  ASSUME Headers(hdr), NEW b \in HeapBlock, NEW n \in Nat, hdr[b].size >= n + Header,
         b + Header + n \notin HeapBlock, hdr[b].next # b
  PROVE  Divided(Split(b, n), hdr, b, n)
<1> DEFINE new == b + Header + n
           g == Split(b, n)
<1>1. /\ \A x \in HeapBlock : hdr[x] \in BlockType /\ x \in Nat
      /\ Header \in Nat \ {0} /\ new \in Nat /\ new # b
  BY HeapAssumption DEF Headers, HeapBlock
<1>2. DOMAIN g = HeapBlock \cup {new}
  BY DEF Split
<1>3. ASSUME NEW x \in HeapBlock \cup {new}
      PROVE  /\ g[x] \in BlockType
             /\ x # new => g[x].used = hdr[x].used
             /\ x = new => ~g[x].used
             /\ g[x].size = IF x = b THEN n ELSE IF x = new THEN hdr[b].size - n - Header ELSE hdr[x].size
             /\ g[x].next = IF x = b THEN new ELSE IF x = new THEN hdr[b].next ELSE hdr[x].next
             /\ g[x].prev = IF x = new THEN b ELSE IF x = hdr[b].next THEN new ELSE hdr[x].prev
  <2>1. CASE x = b
    <3>1. g[x] = [hdr[b] EXCEPT !.size = n, !.next = new]
      BY <2>1 DEF Split
    <3>2. hdr[b] \in BlockType /\ b # new /\ b # hdr[b].next /\ new \in Nat
      BY <1>1
    <3> HIDE DEF new, g
    <3>3. [hdr[b] EXCEPT !.size = n, !.next = new] \in BlockType
      BY <3>2, new \in Int \cup {NoBlock} DEF BlockType
    <3>4. g[x].used = hdr[b].used /\ g[x].size = n /\ g[x].next = new /\ g[x].prev = hdr[b].prev
      BY <3>1, <3>2 DEF BlockType
    <3> QED BY <2>1, <3>1, <3>2, <3>3, <3>4
  <2>2. CASE x = new
    <3>1. g[x] = [size |-> hdr[b].size - n - Header, used |-> FALSE, next |-> hdr[b].next, prev |-> b]
      BY <1>1, <2>2 DEF Split
    <3>2. hdr[b].size - n - Header \in Nat
      BY <1>1 DEF BlockType
    <3> QED BY <1>1, <2>2, <3>1, <3>2 DEF BlockType
  <2>3. CASE x # b /\ x # new /\ x = hdr[b].next
    <3>1. g[x] = [hdr[x] EXCEPT !.prev = new]
      BY <2>3 DEF Split
    <3> QED BY <1>1, <2>3, <3>1 DEF BlockType
  <2>4. CASE x # b /\ x # new /\ x # hdr[b].next
    <3>1. g[x] = hdr[x]
      BY <2>4 DEF Split
    <3> QED BY <1>1, <2>4, <3>1
  <2> QED BY <2>1, <2>2, <2>3, <2>4
<1>4. g \in [HeapBlock \cup {new} -> BlockType]
  <2>1. g = [x \in HeapBlock \cup {new} |-> g[x]]
    BY DEF Split
  <2> HIDE DEF g
  <2> QED BY <1>3, <2>1
<1> HIDE DEF g
<1>5. Headers(g)
  BY <1>1, <1>2, <1>4 DEF Headers
<1> QED BY <1>2, <1>3, <1>5 DEF Divided, HeapBlock, g

\* Cutting a free block keeps the tiling.
LEMMA SplitKeepsTiles ==
  ASSUME Tiles(hdr), NEW b \in HeapBlock, NEW n \in Nat, hdr[b].size >= n + Header
  PROVE  Divided(Split(b, n), hdr, b, n) /\ b + Header + n \notin HeapBlock /\ Tiles(Split(b, n))
<1> DEFINE new == b + Header + n
           g == Split(b, n)
           h == hdr
<1>1. /\ Headers(h) /\ DOMAIN h \subseteq Nat /\ Header \in Nat \ {0} /\ NoBlock \notin Int
      /\ \A x \in DOMAIN h : h[x].size \in Nat
  <2>1. Headers(h)
    BY DEF Tiles
  <2>2. h \in [DOMAIN h -> BlockType] /\ DOMAIN h \subseteq Nat
    BY <2>1 DEF Headers
  <2> QED BY <2>1, <2>2, HeapAssumption DEF BlockType
<1>2. b \in DOMAIN h /\ b < new /\ new + Header <= EndIn(h, b) + Header /\ new \in Nat
  BY <1>1 DEF HeapBlock, EndIn
<1>3. \A c \in DOMAIN h : c <= b \/ c >= EndIn(h, b)
  BY <1>1, <1>2 DEF Tiles
<1>4. EndIn(h, b) > new /\ EndIn(h, b) \in Nat
  BY <1>1, <1>2, HeapAssumption DEF EndIn
<1>5. new \notin DOMAIN h
  BY <1>1, <1>2, <1>3, <1>4 DEF EndIn
<1>6. h[b].next # NoBlock => /\ h[b].next \in DOMAIN h /\ h[b].next = EndIn(h, b)
                             /\ h[b].next > new /\ h[h[b].next].prev = b
  BY <1>1, <1>2, <1>4 DEF Tiles, EndIn
<1>7. b # h[b].next /\ new # h[b].next
  BY <1>1, <1>2, <1>6
<1>8. Divided(g, h, b, n)
  BY <1>1, <1>5, <1>7, SplitDivides DEF HeapBlock
<1> HIDE DEF g, h
<1>9. /\ DOMAIN g = DOMAIN h \cup {new} /\ Headers(g)
      /\ \A x \in DOMAIN g :
          /\ g[x].size = IF x = b THEN n ELSE IF x = new THEN h[b].size - n - Header ELSE h[x].size
          /\ g[x].next = IF x = b THEN new ELSE IF x = new THEN h[b].next ELSE h[x].next
          /\ g[x].prev = IF x = new THEN b ELSE IF x = h[b].next THEN new ELSE h[x].prev
  BY <1>8 DEF Divided
<1> USE <1>9
<1>10. EndIn(g, b) = new /\ EndIn(g, new) = EndIn(h, b)
  BY <1>1, <1>2 DEF EndIn
<1>11. \A x \in DOMAIN h \ {b} : EndIn(g, x) = EndIn(h, x)
  BY <1>5 DEF EndIn
<1>12. Tiles(h)
  BY DEF h
<1>13. 0 \in DOMAIN g /\ g[0].prev = NoBlock
  BY <1>2, <1>1, <1>6, <1>12 DEF Tiles
<1>14. \A x \in DOMAIN g : g[x].next = NoBlock => EndIn(g, x) = ArenaSize
  BY <1>1, <1>2, <1>10, <1>11, <1>12 DEF Tiles
<1>15. ASSUME NEW x \in DOMAIN g, g[x].next # NoBlock
       PROVE  g[x].next \in DOMAIN g /\ g[x].next = EndIn(g, x) /\ g[g[x].next].prev = x
  <2>1. CASE x = b
    BY <2>1, <1>2, <1>10
  <2>2. CASE x = new
    BY <2>2, <1>2, <1>6, <1>7, <1>10, <1>15
  <2>3. CASE x # b /\ x # new
    <3>1. x \in DOMAIN h /\ g[x].next = h[x].next /\ h[x].next \in DOMAIN h
          /\ h[x].next = EndIn(h, x) /\ h[h[x].next].prev = x
      BY <2>3, <1>12, <1>15 DEF Tiles
    <3>2. h[x].next # h[b].next
      BY <2>3, <3>1, <1>1, <1>6
    <3> QED BY <2>3, <3>1, <3>2, <1>5, <1>11
  <2> QED BY <2>1, <2>2, <2>3
<1>16. ASSUME NEW x \in DOMAIN g, x # 0
       PROVE  g[x].prev \in DOMAIN g /\ g[g[x].prev].next = x
  <2>1. CASE x = new
    BY <2>1, <1>2
  <2>2. CASE x # new /\ x = h[b].next
    BY <2>2, <1>2, <1>6
  <2>3. CASE x # new /\ x # h[b].next
    <3>1. x \in DOMAIN h /\ h[x].prev \in DOMAIN h /\ h[h[x].prev].next = x /\ g[x].prev = h[x].prev
      BY <2>3, <1>12, <1>16 DEF Tiles
    <3>2. h[x].prev # b /\ h[x].prev # new
      BY <2>3, <3>1, <1>5
    <3> QED BY <3>1, <3>2
  <2> QED BY <2>1, <2>2, <2>3
<1>17. ASSUME NEW x \in DOMAIN g, NEW c \in DOMAIN g, x < c
       PROVE  EndIn(g, x) <= c
  <2>1. CASE x = b
    <3>1. CASE c = new
      BY <2>1, <3>1, <1>2, <1>10
    <3>2. CASE c # new
      <4>1. c \in DOMAIN h /\ c \in Nat /\ b < c
        BY <2>1, <3>2, <1>1, <1>17
      <4>2. c >= EndIn(h, b)
        BY <4>1, <1>2, <1>3, <1>1
      <4> QED BY <2>1, <4>1, <4>2, <1>2, <1>4, <1>10
    <3> QED BY <3>1, <3>2
  <2>2. CASE x = new
    <3>1. c \in DOMAIN h /\ b < c
      BY <2>2, <1>1, <1>2, <1>17
    <3> QED BY <2>2, <3>1, <1>2, <1>10, <1>12 DEF Tiles
  <2>3. CASE x # b /\ x # new /\ c = new
    <3>1. x \in DOMAIN h /\ EndIn(g, x) = EndIn(h, x) /\ x \in Nat /\ b \in Nat
      BY <2>3, <1>1, <1>2, <1>11
    <3>2. x < b
      <4>1. x < new /\ x # b
        BY <2>3, <1>17
      <4>2. ~(x >= EndIn(h, b))
        BY <4>1, <3>1, <1>2, <1>4
      <4> QED BY <4>1, <4>2, <3>1, <1>3
    <3>3. EndIn(h, x) <= b
      BY <3>1, <3>2, <1>2, <1>12 DEF Tiles
    <3>4. EndIn(h, x) \in Int
      BY <3>1, <1>1 DEF EndIn
    <3> QED BY <3>1, <3>3, <3>4, <2>3, <1>2
  <2>4. CASE x # b /\ x # new /\ c # new
    BY <2>4, <1>11, <1>12, <1>17 DEF Tiles
  <2> QED BY <2>1, <2>2, <2>3, <2>4
<1>18. Tiles(g)
  BY <1>13, <1>14, <1>15, <1>16, <1>17 DEF Tiles
<1> QED BY <1>5, <1>8, <1>18 DEF g, h, HeapBlock

-----------------------------------------------------------------------------
(* Allocating and releasing.                                               *)

\* Cutting a free block, or leaving it whole, makes no other one free.
LEMMA CutKeeps ==
  ASSUME Tiles(hdr), Parted(hdr, {}), NEW b \in HeapBlock, ~hdr[b].used, NEW n \in Nat
  PROVE  /\ Tiles(Cut(b, n)) /\ Parted(Cut(b, n), {b}) /\ SameUsed(Cut(b, n), hdr)
         /\ b \in DOMAIN Cut(b, n)
<1> DEFINE new == b + Header + n
           h == hdr
<1>1. CASE ~(hdr[b].size > n + Header + Align)
  <2>1. Cut(b, n) = hdr
    BY <1>1 DEF Cut
  <2> QED BY <2>1 DEF Parted, SameUsed, HeapBlock
<1>2. CASE hdr[b].size > n + Header + Align
  <2> DEFINE g == Split(b, n)
  <2>1. Cut(b, n) = g
    BY <1>2 DEF Cut
  <2>2. hdr[b].size >= n + Header
    <3>1. hdr[b].size \in Nat
      BY DEF Tiles, Headers, BlockType, HeapBlock
    <3> QED BY <1>2, <3>1, HeapAssumption
  <2>3. Divided(g, h, b, n) /\ new \notin DOMAIN h /\ Tiles(g)
    BY <2>2, SplitKeepsTiles DEF HeapBlock
  <2> HIDE DEF g
  <2>4. b \in DOMAIN h /\ b # new
    BY <2>3 DEF HeapBlock
  <2> HIDE DEF h, new
  <2>5. /\ DOMAIN g = DOMAIN h \cup {new} /\ ~g[new].used
        /\ \A x \in DOMAIN h : g[x].used = h[x].used
        /\ \A x \in DOMAIN h \ {b} : g[x].next = h[x].next /\ g[x].size = h[x].size
        /\ g[new].next = h[b].next
    BY <2>3, <2>4 DEF Divided, new
  <2>6. Used(g) = Used(h)
    BY <2>5 DEF Used
  <2>7. ASSUME NEW x \in Used(h) PROVE g[x].size = h[x].size
    <3>1. x # b
      BY <2>7 DEF Used, h
    <3> QED BY <2>5, <2>7, <3>1 DEF Used
  <2>8. ASSUME NEW x \in DOMAIN g, ~g[x].used, g[x].next # NoBlock, x # b, g[x].next # b
        PROVE  g[g[x].next].used
    <3>1. \A y \in DOMAIN h : h[y].next # NoBlock => h[y].next \in DOMAIN h
      BY DEF Tiles, h
    <3>2. \A y \in DOMAIN h : ~h[y].used /\ h[y].next # NoBlock => h[h[y].next].used
      BY DEF Parted, h
    <3>3. CASE x = new
      BY <3>1, <3>2, <3>3, <2>4, <2>5, <2>8 DEF h
    <3>4. CASE x # new
      BY <3>1, <3>2, <3>4, <2>5, <2>8
    <3> QED BY <3>3, <3>4
  <2>9. Parted(g, {b})
    BY <2>8 DEF Parted
  <2> QED BY <2>1, <2>3, <2>4, <2>5, <2>6, <2>7, <2>9 DEF SameUsed, h
<1> QED BY <1>1, <1>2

\* What os_malloc leaves of the headers.
LEMMA MarkedKeeps ==
  ASSUME Tiles(hdr), Parted(hdr, {}), NEW b \in HeapBlock, ~hdr[b].used, NEW n \in Nat
  PROVE  /\ Tiles(Marked(b, n)) /\ Parted(Marked(b, n), {})
         /\ Used(Marked(b, n)) = Used(hdr) \cup {b}
         /\ \A x \in Used(hdr) : Marked(b, n)[x].size = hdr[x].size
<1> DEFINE c == Cut(b, n)
           g == Marked(b, n)
<1>1. Tiles(c) /\ Parted(c, {b}) /\ SameUsed(c, hdr) /\ b \in DOMAIN c
  BY CutKeeps
<1>2. g = [c EXCEPT ![b].used = TRUE]
  BY DEF Marked
<1> HIDE DEF c, g
<1>3. Flagged(g, c, b, TRUE) /\ Tiles(g)
  BY <1>1, <1>2, MarkKeepsTiles
<1>4. ASSUME NEW x \in DOMAIN g, ~g[x].used, g[x].next # NoBlock PROVE g[g[x].next].used
  <2>1. x \in DOMAIN c /\ x # b /\ ~c[x].used /\ g[x].next = c[x].next
    BY <1>3, <1>4 DEF Flagged
  <2>2. c[x].next \in DOMAIN c
    BY <2>1, <1>1, <1>4 DEF Tiles
  <2>3. c[x].next # b => c[c[x].next].used
    BY <2>1, <1>1, <1>4 DEF Parted
  <2> QED BY <2>1, <2>2, <2>3, <1>3 DEF Flagged
<1>5. Used(g) = Used(hdr) \cup {b}
  BY <1>1, <1>3 DEF Used, Flagged, SameUsed
<1>6. ASSUME NEW x \in Used(hdr) PROVE g[x].size = hdr[x].size
  BY <1>1, <1>3, <1>6 DEF Used, Flagged, SameUsed
<1> QED BY <1>3, <1>4, <1>5, <1>6 DEF g, Parted

\* h is the heap with block b marked as free.
IsFreed(h, b) == h = [hdr EXCEPT ![b].used = FALSE]

\* What os_free leaves of the headers: first the block is marked as free ...
LEMMA FreedKeeps ==
  ASSUME Tiles(hdr), Parted(hdr, {}), NEW b \in HeapBlock, NEW h, IsFreed(h, b)
  PROVE  /\ Tiles(h) /\ b \in DOMAIN h /\ ~h[b].used /\ Parted(h, {b})
         /\ Used(h) = Used(hdr) \ {b} /\ \A x \in Used(h) : h[x].size = hdr[x].size
         /\ \A n \in DOMAIN h : n > b /\ ~h[n].used /\ h[n].next # NoBlock => h[h[n].next].used
<1>1. b \in DOMAIN hdr
  BY DEF HeapBlock
<1>2. Flagged(h, hdr, b, FALSE) /\ Tiles(h)
  BY <1>1, MarkKeepsTiles DEF IsFreed
<1>3. \A x \in DOMAIN hdr : /\ x \in Nat /\ hdr[x].size \in Nat
                            /\ hdr[x].next # NoBlock => hdr[x].next \in DOMAIN hdr /\ hdr[x].next > x
  BY NextIsBehind
<1>4. Parted(h, {b})
  BY <1>2, <1>3 DEF Parted, Flagged
<1>5. Used(h) = Used(hdr) \ {b} /\ \A x \in Used(h) : h[x].size = hdr[x].size
  BY <1>2 DEF Used, Flagged
<1>6. ASSUME NEW n \in DOMAIN h, n > b, ~h[n].used, h[n].next # NoBlock
      PROVE  h[h[n].next].used
  <2>1. n \in DOMAIN hdr /\ n # b /\ ~hdr[n].used /\ h[n].next = hdr[n].next
    BY <1>1, <1>2, <1>3, <1>6 DEF Flagged
  <2>2. hdr[n].next \in DOMAIN hdr /\ hdr[n].next # b /\ hdr[hdr[n].next].used
    BY <2>1, <1>1, <1>3, <1>6 DEF Parted
  <2> QED BY <2>1, <2>2, <1>2 DEF Flagged
<1> QED BY <1>1, <1>2, <1>4, <1>5, <1>6 DEF Flagged

\* ... then the next block is joined to it if it is free ...
LEMMA WithNextKeeps ==
  ASSUME NEW h, Tiles(h), NEW b \in DOMAIN h, ~h[b].used, Parted(h, {b}),
         \A n \in DOMAIN h : n > b /\ ~h[n].used /\ h[n].next # NoBlock => h[h[n].next].used,
         NEW g, g = WithNext(h, b)
  PROVE  /\ Tiles(g) /\ b \in DOMAIN g /\ ~g[b].used /\ Parted(g, {b}) /\ SameUsed(g, h)
         /\ g[b].next # NoBlock => g[g[b].next].used
<1>1. CASE ~FreeIn(h, h[b].next)
  <2>1. g = h
    BY <1>1 DEF WithNext
  <2>2. h[b].next # NoBlock => h[h[b].next].used
    BY <1>1 DEF FreeIn
  <2> QED BY <2>1, <2>2 DEF SameUsed
<1>2. CASE FreeIn(h, h[b].next)
  <2> DEFINE n == h[b].next
  <2>1. g = Absorb(h, b, n) /\ n # NoBlock /\ ~h[n].used
    BY <1>2 DEF WithNext, FreeIn
  <2>2. \A x \in DOMAIN h : /\ x \in Nat /\ h[x].size \in Nat
                            /\ h[x].next # NoBlock => /\ h[x].next \in DOMAIN h /\ h[x].next > x
                                                      /\ h[h[x].next].prev = x
    BY NextIsBehind
  <2>3. n \in DOMAIN h /\ n > b /\ (h[n].next # NoBlock => h[n].next \in DOMAIN h /\ h[n].next > n)
    BY <2>1, <2>2
  <2>4. b # n /\ b # h[n].next
    <3>1. b \in Int /\ n \in Int /\ NoBlock \notin Int
      BY <2>2, <2>3, HeapAssumption
    <3> QED BY <2>2, <2>3, <3>1
  <2>5. Headers(h)
    BY DEF Tiles
  <2>6. Joined(g, h, b, n)
    BY <2>1, <2>3, <2>4, <2>5, AbsorbJoins
  <2>7. Tiles(g) /\ SameUsed(g, h)
    BY <2>1, <2>3, <2>6, AbsorbKeepsTiles, AbsorbKeepsUsed
  <2>8. b \in DOMAIN g /\ ~g[b].used
    BY <2>4, <2>6 DEF Joined
  <2>9. g[b].next # NoBlock => g[g[b].next].used
    <3>1. g[b].next = h[n].next
      BY <2>8, <2>6 DEF Joined
    <3>2. h[n].next # NoBlock => h[h[n].next].used /\ h[n].next \in DOMAIN h /\ h[n].next # n
      BY <2>1, <2>2, <2>3
    <3> QED BY <3>1, <3>2, <2>6 DEF Joined
  <2>10. ASSUME NEW x \in DOMAIN g, ~g[x].used, g[x].next # NoBlock, x # b, g[x].next # b
         PROVE  g[g[x].next].used
    <3>1. x \in DOMAIN h /\ x # n /\ ~h[x].used /\ g[x].next = h[x].next
      BY <2>6, <2>10 DEF Joined
    <3>2. h[x].next \in DOMAIN h /\ h[h[x].next].used
      BY <3>1, <2>2, <2>10 DEF Parted
    <3>3. h[x].next # n
      BY <3>2, <2>1
    <3> QED BY <3>1, <3>2, <3>3, <2>6 DEF Joined
  <2> QED BY <2>7, <2>8, <2>9, <2>10 DEF Parted
<1> QED BY <1>1, <1>2

\* ... and at last it is joined to the block before it if that one is free.
LEMMA WithPrevKeeps ==
  ASSUME NEW h, Tiles(h), NEW b \in DOMAIN h, ~h[b].used, Parted(h, {b}),
         h[b].next # NoBlock => h[h[b].next].used,
         NEW g, g = WithPrev(h, b)
  PROVE  Tiles(g) /\ Parted(g, {}) /\ SameUsed(g, h)
<1> DEFINE p == h[b].prev
<1>1. \A x \in DOMAIN h : /\ x \in Nat /\ h[x].size \in Nat
                          /\ h[x].next # NoBlock => /\ h[x].next \in DOMAIN h /\ h[x].next > x
                                                    /\ h[h[x].next].prev = x
  BY NextIsBehind
<1>2. CASE ~FreeIn(h, p)
  <2>1. g = h
    BY <1>2 DEF WithPrev
  <2>2. ASSUME NEW x \in DOMAIN h, ~h[x].used, h[x].next # NoBlock PROVE h[h[x].next].used
    <3>1. CASE x = b
      BY <3>1, <2>2
    <3>2. CASE h[x].next = b
      <4>1. p = x
        BY <3>2, <2>2, <1>1
      <4>2. NoBlock \notin Int /\ x \in Nat
        BY HeapAssumption, <1>1
      <4> QED BY <4>1, <4>2, <1>2, <2>2 DEF FreeIn
    <3>3. CASE x # b /\ h[x].next # b
      BY <3>3, <2>2 DEF Parted
    <3> QED BY <3>1, <3>2, <3>3
  <2> QED BY <2>1, <2>2 DEF SameUsed, Parted
<1>3. CASE FreeIn(h, p)
  <2>1. g = Absorb(h, p, b) /\ p # NoBlock /\ ~h[p].used
    BY <1>3 DEF WithPrev, FreeIn
  <2>2. p \in DOMAIN h /\ h[p].next = b
    BY <2>1 DEF Tiles
  <2>3. p # b /\ p # h[b].next
    <3>1. b \in Int /\ p \in Int /\ NoBlock \notin Int /\ p < b
      BY <1>1, <2>2, HeapAssumption
    <3> QED BY <1>1, <3>1
  <2>4. Headers(h)
    BY DEF Tiles
  <2>5. Joined(g, h, p, b)
    BY <2>1, <2>2, <2>3, <2>4, AbsorbJoins
  <2>6. Tiles(g) /\ SameUsed(g, h)
    BY <2>1, <2>2, <2>5, AbsorbKeepsTiles, AbsorbKeepsUsed
  <2>7. ASSUME NEW x \in DOMAIN g, ~g[x].used, g[x].next # NoBlock PROVE g[g[x].next].used
    <3>1. x \in DOMAIN h /\ x # b /\ ~h[x].used
      BY <2>5, <2>7 DEF Joined
    <3>2. CASE x = p
      <4>1. g[x].next = h[b].next
        BY <3>1, <3>2, <2>5 DEF Joined
      <4>2. h[b].next \in DOMAIN h /\ h[b].next # b /\ h[h[b].next].used
        BY <4>1, <1>1, <2>7
      <4> QED BY <4>1, <4>2, <2>5 DEF Joined
    <3>3. CASE x # p
      <4>1. g[x].next = h[x].next
        BY <3>1, <3>3, <2>5 DEF Joined
      <4>2. h[x].next \in DOMAIN h /\ h[x].next # b
        BY <4>1, <3>3, <1>1, <2>7, <3>1
      <4>3. h[h[x].next].used
        BY <4>1, <4>2, <3>1, <2>7 DEF Parted
      <4> QED BY <4>1, <4>2, <4>3, <2>5 DEF Joined
    <3> QED BY <3>2, <3>3
  <2> QED BY <2>6, <2>7 DEF Parted
<1> QED BY <1>2, <1>3
-----------------------------------------------------------------------------
(* The steps of the heap.                                                  *)

\* What is held before and after a step is the same block, of the same holder.
HeldStay == \A b \in DOMAIN live \cap DOMAIN live' :
              hdr'[b].size = hdr[b].size /\ live'[b].by = live[b].by

\* The invariant holds when the arena is one free block.
LEMMA HeapInvInit == HeapInit => HeapInv
<1> SUFFICES ASSUME HeapInit PROVE HeapInv
  OBVIOUS
<1>1. DOMAIN hdr = {0} /\ hdr[0].size = ArenaSize - Header /\ ~hdr[0].used
      /\ hdr[0].next = NoBlock /\ hdr[0].prev = NoBlock
  BY DEF HeapInit
<1>2. Headers(hdr)
  <2>1. hdr = [b \in {0} |-> [size |-> ArenaSize - Header, used |-> FALSE,
                              next |-> NoBlock, prev |-> NoBlock]]
    BY DEF HeapInit
  <2>2. ArenaSize - Header \in Nat
    BY HeapAssumption
  <2>3. [size |-> ArenaSize - Header, used |-> FALSE, next |-> NoBlock, prev |-> NoBlock] \in BlockType
    BY <2>2 DEF BlockType
  <2>4. hdr \in [{0} -> BlockType]
    BY <2>1, <2>3
  <2> QED BY <2>4, <1>1 DEF Headers
<1>3. Tiles(hdr)
  BY <1>1, <1>2, HeapAssumption DEF Tiles, EndIn
<1>4. Parted(hdr, {})
  BY <1>1 DEF Parted
<1>5. HoldersExact
  <2>1. Used(hdr) = {}
    BY <1>1 DEF Used
  <2>2. DOMAIN live = {} /\ live \in [{} -> [by : User, asked : Nat]]
    BY DEF HeapInit
  <2>3. moving \in [User -> Int \cup {NoBlock}] /\ \A u \in User : Idle(u)
    BY DEF HeapInit, Idle
  <2> QED BY <2>1, <2>2, <2>3 DEF HoldersExact
<1> QED BY <1>3, <1>4, <1>5 DEF HeapInv

\* os_malloc hands out a block that nobody holds, and touches no held one.
LEMMA AllocateKeeps ==
  ASSUME HeapInv, NEW u \in User, NEW b \in HeapBlock, NEW n \in Nat, NEW asked \in Nat,
         Allocate(u, b, n, asked)
  PROVE  /\ Tiles(hdr') /\ Parted(hdr', {}) /\ Used(hdr') = DOMAIN live'
         /\ live' \in [DOMAIN live' -> [by : User, asked : Nat]]
         /\ \A x \in DOMAIN live : x \in DOMAIN live' /\ live'[x] = live[x] /\ hdr'[x].size = hdr[x].size
<1> DEFINE m == AlignUp(n)
<1>1. ~hdr[b].used /\ m \in Nat /\ hdr' = Marked(b, m)
  BY AlignedIsNatural DEF Allocate, Best, Fits
<1> HIDE DEF m
<1>2. Tiles(hdr) /\ Parted(hdr, {}) /\ Used(hdr) = DOMAIN live
      /\ live \in [DOMAIN live -> [by : User, asked : Nat]]
  BY DEF HeapInv, HoldersExact
<1>3. /\ Tiles(hdr') /\ Parted(hdr', {}) /\ Used(hdr') = DOMAIN live \cup {b}
      /\ \A x \in DOMAIN live : hdr'[x].size = hdr[x].size
  BY <1>1, <1>2, MarkedKeeps
<1>4. b \notin DOMAIN live
  BY <1>1, <1>2 DEF Used
<1>5. live' = [x \in DOMAIN live \cup {b} |-> IF x = b THEN [by |-> u, asked |-> asked] ELSE live[x]]
  BY DEF Allocate
<1>6. \A x \in DOMAIN live : live[x] \in [by : User, asked : Nat]
  BY <1>2
<1>7. live' \in [DOMAIN live \cup {b} -> [by : User, asked : Nat]]
  BY <1>5, <1>6
<1>8. \A x \in DOMAIN live : x \in DOMAIN live' /\ live'[x] = live[x]
  BY <1>4, <1>5
<1> QED BY <1>3, <1>5, <1>7, <1>8

\* os_free takes its block, and no other, from who held it.
LEMMA ReleaseKeeps ==
  ASSUME HeapInv, NEW b \in DOMAIN live, Release(b)
  PROVE  /\ Tiles(hdr') /\ Parted(hdr', {}) /\ Used(hdr') = DOMAIN live'
         /\ live' \in [DOMAIN live' -> [by : User, asked : Nat]]
         /\ DOMAIN live' = DOMAIN live \ {b}
         /\ \A x \in DOMAIN live' : live'[x] = live[x] /\ hdr'[x].size = hdr[x].size
<1> DEFINE f == [hdr EXCEPT ![b].used = FALSE]
           g == WithNext(f, b)
<1>1. Tiles(hdr) /\ Parted(hdr, {}) /\ Used(hdr) = DOMAIN live
      /\ live \in [DOMAIN live -> [by : User, asked : Nat]]
  BY DEF HeapInv, HoldersExact
<1>2. b \in HeapBlock
  BY <1>1 DEF Used, HeapBlock
<1>3. IsFreed(f, b) /\ hdr' = WithPrev(g, b)
      /\ live' = [x \in DOMAIN live \ {b} |-> live[x]]
  BY DEF Release, IsFreed
<1> HIDE DEF f
<1>4. /\ Tiles(f) /\ b \in DOMAIN f /\ ~f[b].used /\ Parted(f, {b})
      /\ Used(f) = Used(hdr) \ {b} /\ \A x \in Used(f) : f[x].size = hdr[x].size
      /\ \A n \in DOMAIN f : n > b /\ ~f[n].used /\ f[n].next # NoBlock => f[f[n].next].used
  BY <1>1, <1>2, <1>3, FreedKeeps
<1>5. /\ Tiles(g) /\ b \in DOMAIN g /\ ~g[b].used /\ Parted(g, {b}) /\ SameUsed(g, f)
      /\ g[b].next # NoBlock => g[g[b].next].used
  BY <1>4, WithNextKeeps
<1> HIDE DEF g
<1>6. Tiles(hdr') /\ Parted(hdr', {}) /\ SameUsed(hdr', g)
  BY <1>3, <1>5, WithPrevKeeps
<1>7. Used(hdr') = DOMAIN live \ {b} /\ \A x \in Used(hdr') : hdr'[x].size = hdr[x].size
  BY <1>1, <1>4, <1>5, <1>6 DEF SameUsed
<1>8. DOMAIN live' = DOMAIN live \ {b} /\ \A x \in DOMAIN live' : live'[x] = live[x]
  BY <1>3
<1>9. live' \in [DOMAIN live \ {b} -> [by : User, asked : Nat]]
  BY <1>1, <1>3
<1> QED BY <1>6, <1>7, <1>8, <1>9

\* A step of os_malloc or os_calloc, whatever was asked.
LEMMA MallocKeeps ==
  ASSUME HeapInv, NEW u \in User, NEW b \in HeapBlock, NEW n \in Nat, NEW asked \in Nat,
         Allocate(u, b, n, asked), UNCHANGED moving
  PROVE  HeapInv' /\ HeldStay
<1>1. /\ Tiles(hdr') /\ Parted(hdr', {}) /\ Used(hdr') = DOMAIN live'
      /\ live' \in [DOMAIN live' -> [by : User, asked : Nat]]
      /\ \A x \in DOMAIN live : x \in DOMAIN live' /\ live'[x] = live[x] /\ hdr'[x].size = hdr[x].size
  BY AllocateKeeps
<1>2. moving' = moving /\ moving \in [User -> Int \cup {NoBlock}]
      /\ \A v \in User : ~Idle(v) => Holds(v, moving[v])
  BY DEF HeapInv, HoldersExact
<1>3. HoldersExact'
  BY <1>1, <1>2 DEF HoldersExact, Idle, Holds
<1> QED BY <1>1, <1>3 DEF HeapInv, HeldStay

\* The first half of an os_realloc that moves its block.
LEMMA ReallocMovesKeeps ==
  ASSUME HeapInv, NEW u \in User, NEW b \in HeapBlock, NEW n \in Nat, ReallocMoves(u, b, n)
  PROVE  HeapInv' /\ HeldStay
<1>1. PICK c \in HeapBlock : Allocate(u, c, n, n)
  BY DEF ReallocMoves
<1>2. /\ Tiles(hdr') /\ Parted(hdr', {}) /\ Used(hdr') = DOMAIN live'
      /\ live' \in [DOMAIN live' -> [by : User, asked : Nat]]
      /\ \A x \in DOMAIN live : x \in DOMAIN live' /\ live'[x] = live[x] /\ hdr'[x].size = hdr[x].size
  BY <1>1, AllocateKeeps
<1>3. b \in Int /\ moving' = [moving EXCEPT ![u] = b] /\ Holds(u, b)
  BY DEF ReallocMoves, HeapInv, Tiles, Headers, HeapBlock
<1>4. moving \in [User -> Int \cup {NoBlock}] /\ \A v \in User : ~Idle(v) => Holds(v, moving[v])
  BY DEF HeapInv, HoldersExact
<1>5. moving' \in [User -> Int \cup {NoBlock}]
  BY <1>3, <1>4
<1>6. \A v \in User : moving'[v] # NoBlock => moving'[v] \in DOMAIN live' /\ live'[moving'[v]].by = v
  BY <1>2, <1>3, <1>4 DEF Idle, Holds
<1>7. HoldersExact'
  BY <1>2, <1>5, <1>6 DEF HoldersExact, Idle, Holds
<1> QED BY <1>2, <1>7 DEF HeapInv, HeldStay

\* An os_realloc that keeps its block.
LEMMA ReallocKeepsKeeps ==
  ASSUME HeapInv, NEW u \in User, NEW b \in HeapBlock, NEW n \in Nat, ReallocKeeps(u, b, n)
  PROVE  HeapInv' /\ HeldStay
<1>1. /\ hdr' = hdr /\ moving' = moving /\ live' = [live EXCEPT ![b].asked = n] /\ b \in DOMAIN live
  BY DEF ReallocKeeps, Holds
<1>2. /\ live \in [DOMAIN live -> [by : User, asked : Nat]] /\ Used(hdr) = DOMAIN live
      /\ moving \in [User -> Int \cup {NoBlock}] /\ \A v \in User : ~Idle(v) => Holds(v, moving[v])
  BY DEF HeapInv, HoldersExact
<1>3. DOMAIN live' = DOMAIN live /\ live' \in [DOMAIN live -> [by : User, asked : Nat]]
      /\ \A x \in DOMAIN live : live'[x].by = live[x].by
  BY <1>1, <1>2
<1>4. HoldersExact'
  BY <1>1, <1>2, <1>3 DEF HoldersExact, Idle, Holds
<1>5. Tiles(hdr') /\ Parted(hdr', {})
  BY <1>1 DEF HeapInv
<1> QED BY <1>1, <1>3, <1>4, <1>5 DEF HeapInv, HeldStay

\* os_free by the one who holds the block: nobody else is moving it.
LEMMA HeapFreeKeeps ==
  ASSUME HeapInv, NEW u \in User, NEW b \in HeapBlock, HeapFree(u, b)
  PROVE  HeapInv' /\ HeldStay
<1>1. Idle(u) /\ b \in DOMAIN live /\ live[b].by = u /\ Release(b) /\ moving' = moving
  BY DEF HeapFree, Holds
<1>2. /\ Tiles(hdr') /\ Parted(hdr', {}) /\ Used(hdr') = DOMAIN live'
      /\ live' \in [DOMAIN live' -> [by : User, asked : Nat]]
      /\ DOMAIN live' = DOMAIN live \ {b}
      /\ \A x \in DOMAIN live' : live'[x] = live[x] /\ hdr'[x].size = hdr[x].size
  BY <1>1, ReleaseKeeps
<1>3. moving \in [User -> Int \cup {NoBlock}] /\ \A v \in User : ~Idle(v) => Holds(v, moving[v])
  BY DEF HeapInv, HoldersExact
<1>4. \A v \in User : moving[v] # NoBlock => moving[v] \in DOMAIN live' /\ live'[moving[v]].by = v
  BY <1>1, <1>2, <1>3 DEF Idle, Holds
<1>5. HoldersExact'
  BY <1>1, <1>2, <1>3, <1>4 DEF HoldersExact, Idle, Holds
<1> QED BY <1>2, <1>5 DEF HeapInv, HeldStay

\* The second half of an os_realloc that moves its block.
LEMMA ReallocFreesKeeps ==
  ASSUME HeapInv, NEW u \in User, ReallocFrees(u)
  PROVE  HeapInv' /\ HeldStay
<1> DEFINE b == moving[u]
<1>1. ~Idle(u) /\ Release(b) /\ moving' = [moving EXCEPT ![u] = NoBlock]
  BY DEF ReallocFrees
<1>2. moving \in [User -> Int \cup {NoBlock}] /\ \A v \in User : ~Idle(v) => Holds(v, moving[v])
  BY DEF HeapInv, HoldersExact
<1>3. b \in DOMAIN live /\ live[b].by = u
  BY <1>1, <1>2 DEF Holds
<1>4. /\ Tiles(hdr') /\ Parted(hdr', {}) /\ Used(hdr') = DOMAIN live'
      /\ live' \in [DOMAIN live' -> [by : User, asked : Nat]]
      /\ DOMAIN live' = DOMAIN live \ {b}
      /\ \A x \in DOMAIN live' : live'[x] = live[x] /\ hdr'[x].size = hdr[x].size
  BY <1>1, <1>3, ReleaseKeeps
<1>5. moving' \in [User -> Int \cup {NoBlock}]
  BY <1>1, <1>2
<1>6. \A v \in User : moving'[v] # NoBlock => moving'[v] \in DOMAIN live' /\ live'[moving'[v]].by = v
  BY <1>1, <1>2, <1>3, <1>4 DEF Idle, Holds
<1>7. HoldersExact'
  BY <1>4, <1>5, <1>6 DEF HoldersExact, Idle, Holds
<1> QED BY <1>4, <1>7 DEF HeapInv, HeldStay

\* The invariant is inductive, and no step disturbs what is held.
LEMMA HeapInvStep ==
  ASSUME HeapInv, [HeapNext]_heapvars
  PROVE  HeapInv' /\ HeldStay
<1>1. /\ \A n \in Request : n \in Nat
      /\ \A c \in Count, n \in Request : (c * n) % SizeMod \in Nat /\ c * n \in Nat
  BY HeapAssumption
<1>2. ASSUME NEW u \in User, NEW n \in Request, Malloc(u, n) PROVE HeapInv' /\ HeldStay
  BY <1>1, <1>2, MallocKeeps DEF Malloc
<1>3. ASSUME NEW u \in User, NEW c \in Count, NEW n \in Request, Calloc(u, c, n)
      PROVE  HeapInv' /\ HeldStay
  BY <1>1, <1>3, MallocKeeps DEF Calloc
<1>4. ASSUME NEW u \in User, NEW b \in HeapBlock, HeapFree(u, b) PROVE HeapInv' /\ HeldStay
  BY <1>4, HeapFreeKeeps
<1>5. ASSUME NEW u \in User, NEW b \in HeapBlock, NEW n \in Request, ReallocMoves(u, b, n)
      PROVE  HeapInv' /\ HeldStay
  BY <1>1, <1>5, ReallocMovesKeeps
<1>6. ASSUME NEW u \in User, NEW b \in HeapBlock, NEW n \in Request, ReallocKeeps(u, b, n)
      PROVE  HeapInv' /\ HeldStay
  BY <1>1, <1>6, ReallocKeepsKeeps
<1>7. ASSUME NEW u \in User, ReallocFrees(u) PROVE HeapInv' /\ HeldStay
  BY <1>7, ReallocFreesKeeps
<1>8. ASSUME UNCHANGED <<hdr, live, moving>> PROVE HeapInv' /\ HeldStay
  BY <1>8 DEF HeapInv, HoldersExact, Idle, Holds, HeldStay
<1>9. CASE ResetPeak
  BY <1>8, <1>9 DEF ResetPeak
<1>10. CASE UNCHANGED heapvars
  BY <1>8, <1>10 DEF heapvars
<1> QED BY <1>2, <1>3, <1>4, <1>5, <1>6, <1>7, <1>9, <1>10 DEF HeapNext

\* HeapInv holds in every state of the heap.
LEMMA HeapInvHolds == HeapSpec => []HeapInv
<1>1. HeapInv /\ [HeapNext]_heapvars => HeapInv'
  BY HeapInvStep
<1> QED BY <1>1, HeapInvInit, PTL DEF HeapSpec

-----------------------------------------------------------------------------
(* The theorems.                                                           *)

\* Whatever is allocated, moved and freed, in whatever order, the blocks of
\* os_mem.c tile the arena: none overlaps another and no byte is lost.
THEOREM BlocksTileTheArena == HeapSpec => []HeapTiles
<1>1. HeapInv => HeapTiles
  BY DEF HeapInv, Tiles, HeapTiles, HeapBlock, EndIn, EndOf
<1> QED BY <1>1, HeapInvHolds, PTL

\* os_free joins a block with both its neighbours: no two free blocks of the
\* heap ever lie side by side.
THEOREM FreeBlocksAreParted == HeapSpec => []NoFreeNeighbours
<1>1. HeapInv => NoFreeNeighbours
  BY DEF HeapInv, Parted, NoFreeNeighbours, HeapBlock
<1> QED BY <1>1, HeapInvHolds, PTL

\* No call of one user of the heap moves, resizes or hands out again a block that
\* another one holds.
THEOREM HeldBlocksKeepTheirPlace == HeapSpec => HeldBlocksStay
<1>1. HeapInv /\ [HeapNext]_heapvars => [HeldStay]_heapvars
  BY HeapInvStep
<1> QED BY <1>1, HeapInvHolds, PTL DEF HeapSpec, HeldBlocksStay, HeldStay
-----------------------------------------------------------------------------
(* The statistics.  They add up sizes one block after the other: the sum   *)
(* of HeapAccounts is a fold, about which the following facts tell.        *)

\* The sum of the sizes that some headers say.
SizeSum(h, S) == MapThenSumSet(LAMBDA b : h[b].size, S)

Chosen(S) == CHOOSE x \in S : TRUE
\* A table of the sums of all subsets of S, as the fold computes them.
SumTable(h, S, g) ==
  g = [s \in SUBSET S |-> IF s = {} THEN 0 ELSE h[Chosen(s)].size + g[s \ {Chosen(s)}]]

LEMMA SumIsOfATable == 
  ASSUME NEW h, NEW S
  PROVE  SizeSum(h, S) = (CHOOSE g : SumTable(h, S, g))[S]
BY DEF SizeSum, MapThenSumSet, MapThenFoldSet, SumTable, Chosen

\* A set of sets has one that contains no other of them.
LEMMA SmallestSet ==
  ASSUME NEW S, IsFiniteSet(S), NEW B \in SUBSET (SUBSET S), B # {}
  PROVE  \E T \in B : \A U \in SUBSET T : U # T => U \notin B
<1> DEFINE N == { Cardinality(T) : T \in B }
<1>1. \A T \in B : IsFiniteSet(T) /\ Cardinality(T) \in Nat
  BY FS_Subset, FS_CardinalityType
<1>2. N \in SUBSET Nat /\ N # {}
  BY <1>1
<1>3. PICK m \in N : \A n \in N : m <= n
  BY <1>2, LeastNatural
<1>4. PICK T \in B : Cardinality(T) = m
  BY <1>3
<1>5. ASSUME NEW U \in SUBSET T, U # T PROVE U \notin B
  <2>1. Cardinality(U) < Cardinality(T) /\ Cardinality(U) \in Nat /\ Cardinality(T) \in Nat
    BY <1>1, <1>5, FS_Subset, FS_CardinalityType
  <2>2. U \in B => m <= Cardinality(U)
    BY <1>3
  <2> HIDE DEF N
  <2> QED
    BY <1>4, <2>1, <2>2
<1> QED
  BY <1>5

LEMMA ChosenIsIn == ASSUME NEW S, S # {} PROVE Chosen(S) \in S
BY DEF Chosen

LEMMA TableSays ==
  ASSUME NEW h, NEW S, NEW g, SumTable(h, S, g), NEW U \in SUBSET S
  PROVE  /\ U = {} => g[U] = 0
         /\ U # {} => g[U] = h[Chosen(U)].size + g[U \ {Chosen(U)}]
<1> DEFINE t == [s \in SUBSET S |-> IF s = {} THEN 0 ELSE h[Chosen(s)].size + g[s \ {Chosen(s)}]]
<1>1. t[U] = IF U = {} THEN 0 ELSE h[Chosen(U)].size + g[U \ {Chosen(U)}]
  OBVIOUS
<1>2. g = t
  BY DEF SumTable
<1> HIDE DEF t
<1> QED
  BY <1>1, <1>2

\* Tables of the same sizes agree.
LEMMA TablesAgree ==
  ASSUME NEW T, IsFiniteSet(T), NEW S1, NEW S2, T \subseteq S1, T \subseteq S2,
         NEW h1, NEW h2, \A x \in T : h1[x].size = h2[x].size,
         NEW g1, NEW g2, SumTable(h1, S1, g1), SumTable(h2, S2, g2)
  PROVE  g1[T] = g2[T]
<1> DEFINE B == { U \in SUBSET T : g1[U] # g2[U] }
<1>0. B \in SUBSET (SUBSET T)
  OBVIOUS
<1> HIDE DEF B
<1>1. ASSUME B # {} PROVE FALSE
  <2>1. PICK U \in B : \A V \in SUBSET U : V # U => V \notin B
    BY <1>0, <1>1, SmallestSet
  <2>2. /\ U = {} => g1[U] = 0 /\ g2[U] = 0
        /\ U # {} => /\ g1[U] = h1[Chosen(U)].size + g1[U \ {Chosen(U)}]
                     /\ g2[U] = h2[Chosen(U)].size + g2[U \ {Chosen(U)}]
    <3>1. U \in SUBSET S1 /\ U \in SUBSET S2
      BY <2>1 DEF B
    <3>2. (U = {} => g1[U] = 0) /\ (U # {} => g1[U] = h1[Chosen(U)].size + g1[U \ {Chosen(U)}])
      BY <3>1, TableSays
    <3>3. (U = {} => g2[U] = 0) /\ (U # {} => g2[U] = h2[Chosen(U)].size + g2[U \ {Chosen(U)}])
      BY <3>1, TableSays
    <3> QED
      BY <3>2, <3>3
  <2>3. U # {} /\ U \in SUBSET T /\ g1[U] # g2[U]
    BY <2>1, <2>2 DEF B
  <2>4. Chosen(U) \in U
    BY <2>3, ChosenIsIn
  <2>5. g1[U \ {Chosen(U)}] = g2[U \ {Chosen(U)}]
    BY <2>1, <2>3, <2>4 DEF B
  <2>6. h1[Chosen(U)].size = h2[Chosen(U)].size
    BY <2>3, <2>4
  <2> QED
    BY <2>2, <2>3, <2>5, <2>6
<1> QED
  BY <1>1 DEF B

\* Every finite set has a table.
LEMMA TableStands ==
  ASSUME NEW h, NEW S, SumTable(h, S, CHOOSE g : SumTable(h, S, g)), IsFiniteSet(S)
  PROVE  /\ S = {} => SizeSum(h, S) = 0
         /\ S # {} => SizeSum(h, S) = h[Chosen(S)].size + (CHOOSE g : SumTable(h, S, g))[S \ {Chosen(S)}]
<1> DEFINE t == CHOOSE g : SumTable(h, S, g)
<1>1. SumTable(h, S, t) /\ SizeSum(h, S) = t[S]
  BY SumIsOfATable
<1> HIDE DEF t
<1>2. (S = {} => t[S] = 0) /\ (S # {} => t[S] = h[Chosen(S)].size + t[S \ {Chosen(S)}])
  <2>1. S \in SUBSET S
    OBVIOUS
  <2> QED
    BY <1>1, <2>1, TableSays
<1>3. /\ S = {} => SizeSum(h, S) = 0
      /\ S # {} => SizeSum(h, S) = h[Chosen(S)].size + t[S \ {Chosen(S)}]
  BY <1>1, <1>2
<1> QED
  BY <1>3 DEF t

HasTable(h, S) == \E g : SumTable(h, S, g)

LEMMA ChosenTable ==
  ASSUME NEW h, NEW S, HasTable(h, S)
  PROVE  SumTable(h, S, CHOOSE g : SumTable(h, S, g))
BY DEF HasTable

\* The fold takes one element after the other.
LEMMA SumUnfoldsIf ==
  ASSUME NEW h, NEW S, IsFiniteSet(S), HasTable(h, S), \A x \in S : HasTable(h, S \ {x})
  PROVE  SizeSum(h, S) = IF S = {} THEN 0 ELSE h[Chosen(S)].size + SizeSum(h, S \ {Chosen(S)})
<1>1. CASE S = {}
  BY <1>1, ChosenTable, TableStands
<1>2. CASE S # {}
  <2> DEFINE c == Chosen(S)
             t == CHOOSE g : SumTable(h, S, g)
             u == CHOOSE g : SumTable(h, S \ {c}, g)
  <2>1. c \in S
    BY <1>2, ChosenIsIn
  <2>2. SumTable(h, S, t) /\ SumTable(h, S \ {c}, u)
    BY <2>1, ChosenTable
  <2>3. SizeSum(h, S) = h[c].size + t[S \ {c}]
    BY <1>2, <2>2, TableStands
  <2>4. SizeSum(h, S \ {c}) = u[S \ {c}]
    BY SumIsOfATable
  <2>5. IsFiniteSet(S \ {c})
    BY FS_Subset
  <2> HIDE DEF t, u, c
  <2>6. t[S \ {c}] = u[S \ {c}]
    BY <2>2, <2>5, TablesAgree
  <2>7. SizeSum(h, S) = h[c].size + SizeSum(h, S \ {c})
    BY <2>3, <2>4, <2>6
  <2> QED
    BY <1>2, <2>7 DEF c
<1> QED
  BY <1>1, <1>2

LEMMA TableExists ==
  ASSUME NEW h, NEW S, IsFiniteSet(S)
  PROVE  \A T \in SUBSET S : HasTable(h, T)
<1> DEFINE B == { T \in SUBSET S : ~HasTable(h, T) }
<1>0. B \in SUBSET (SUBSET S)
  OBVIOUS
<1> HIDE DEF B
<1>1. ASSUME B # {} PROVE FALSE
  <2>1. PICK T \in B : \A U \in SUBSET T : U # T => U \notin B
    BY <1>0, <1>1, SmallestSet
  <2>2. \A U \in SUBSET T : U # T => HasTable(h, U) /\ IsFiniteSet(U)
    BY <2>1, FS_Subset DEF B
  <2> DEFINE g == [s \in SUBSET T |-> IF s = {} THEN 0
                                      ELSE h[Chosen(s)].size + SizeSum(h, s \ {Chosen(s)})]
  <2>3. ASSUME NEW s \in SUBSET T, s # T PROVE g[s] = SizeSum(h, s)
    <3>1. \A x \in s : HasTable(h, s \ {x})
      BY <2>2, <2>3
    <3>2. SizeSum(h, s) = IF s = {} THEN 0 ELSE h[Chosen(s)].size + SizeSum(h, s \ {Chosen(s)})
      BY <2>2, <2>3, <3>1, SumUnfoldsIf
    <3> QED
      BY <3>2
  <2>4. ASSUME NEW s \in SUBSET T
        PROVE  g[s] = IF s = {} THEN 0 ELSE h[Chosen(s)].size + g[s \ {Chosen(s)}]
    <3>1. s # {} => Chosen(s) \in s
      BY ChosenIsIn
    <3>2. s # {} => s \ {Chosen(s)} \in SUBSET T /\ s \ {Chosen(s)} # T
      BY <3>1
    <3>3. s # {} => g[s \ {Chosen(s)}] = SizeSum(h, s \ {Chosen(s)})
      BY <2>3, <3>2
    <3>4. g[s] = IF s = {} THEN 0 ELSE h[Chosen(s)].size + SizeSum(h, s \ {Chosen(s)})
      OBVIOUS
    <3> HIDE DEF g
    <3> QED
      BY <3>3, <3>4
  <2>5. g = [s \in SUBSET T |-> g[s]]
    OBVIOUS
  <2> HIDE DEF g
  <2>6. SumTable(h, T, g)
    BY <2>4, <2>5 DEF SumTable
  <2> QED
    BY <2>1, <2>6 DEF HasTable, B
<1> QED
  BY <1>1 DEF B

\* The sum of a finite set, one element off.
LEMMA SumUnfolds ==
  ASSUME NEW h, NEW S, IsFiniteSet(S)
  PROVE  SizeSum(h, S) = IF S = {} THEN 0 ELSE h[Chosen(S)].size + SizeSum(h, S \ {Chosen(S)})
<1>1. HasTable(h, S) /\ \A x \in S : HasTable(h, S \ {x})
  BY TableExists
<1> QED
  BY <1>1, SumUnfoldsIf

\* Headers that say the same sizes have the same sum.
LEMMA SumsAgree ==
  ASSUME NEW h, NEW k, NEW S, IsFiniteSet(S), \A x \in S : h[x].size = k[x].size
  PROVE  SizeSum(h, S) = SizeSum(k, S)
<1> DEFINE t == CHOOSE g : SumTable(h, S, g)
           u == CHOOSE g : SumTable(k, S, g)
<1>1. SumTable(h, S, t) /\ SumTable(k, S, u)
  BY TableExists, ChosenTable
<1>2. SizeSum(h, S) = t[S] /\ SizeSum(k, S) = u[S]
  BY SumIsOfATable
<1> HIDE DEF t, u
<1>3. t[S] = u[S]
  BY <1>1, TablesAgree
<1> QED
  BY <1>2, <1>3

LEMMA SumIsNatural ==
  ASSUME NEW h, NEW S, IsFiniteSet(S), \A x \in S : h[x].size \in Nat
  PROVE  SizeSum(h, S) \in Nat
<1> DEFINE B == { T \in SUBSET S : SizeSum(h, T) \notin Nat }
<1>0. B \in SUBSET (SUBSET S)
  OBVIOUS
<1> HIDE DEF B
<1>1. ASSUME B # {} PROVE FALSE
  <2>1. PICK T \in B : \A U \in SUBSET T : U # T => U \notin B
    BY <1>0, <1>1, SmallestSet
  <2>2. SizeSum(h, T) = IF T = {} THEN 0 ELSE h[Chosen(T)].size + SizeSum(h, T \ {Chosen(T)})
    BY <2>1, SumUnfolds, FS_Subset DEF B
  <2>3. T # {} => Chosen(T) \in T /\ h[Chosen(T)].size \in Nat
    BY <2>1, ChosenIsIn DEF B
  <2>4. T # {} => SizeSum(h, T \ {Chosen(T)}) \in Nat
    BY <2>1, <2>3 DEF B
  <2>5. SizeSum(h, T) \in Nat
    BY <2>2, <2>3, <2>4
  <2> QED
    BY <2>1, <2>5 DEF B
<1> QED
  BY <1>1 DEF B

\* An element more adds its size.
LEMMA SumAdds ==
  ASSUME NEW h, NEW S, IsFiniteSet(S), \A x \in S : h[x].size \in Nat,
         NEW c \in S
  PROVE  SizeSum(h, S) = SizeSum(h, S \ {c}) + h[c].size
<1> DEFINE Adds(T) == \A x \in T : SizeSum(h, T) = SizeSum(h, T \ {x}) + h[x].size
           B == { T \in SUBSET S : ~Adds(T) }
<1>0. B \in SUBSET (SUBSET S)
  OBVIOUS
<1> HIDE DEF B
<1>1. ASSUME B # {} PROVE FALSE
  <2>1. PICK T \in B : \A U \in SUBSET T : U # T => U \notin B
    BY <1>0, <1>1, SmallestSet
  <2>2. PICK x \in T : SizeSum(h, T) # SizeSum(h, T \ {x}) + h[x].size
    BY <2>1 DEF B
  <2>11. T \in SUBSET S /\ IsFiniteSet(T)
    BY <2>1, FS_Subset DEF B
  <2> DEFINE y == Chosen(T)
  <2>3. y \in T
    BY <2>2, ChosenIsIn
  <2>4. SizeSum(h, T) = h[y].size + SizeSum(h, T \ {y})
    BY <2>11, <2>2, SumUnfolds
  <2>5. \A U \in SUBSET S : SizeSum(h, U) \in Nat
    BY SumIsNatural, FS_Subset
  <2> HIDE DEF y
  <2>6. y # x
    <3>1. SizeSum(h, T \ {x}) \in Nat /\ h[x].size \in Nat
      BY <2>11, <2>2, <2>5
    <3> DEFINE m == SizeSum(h, T \ {x})
    <3>2. h[x].size + m = m + h[x].size
      BY <3>1
    <3>3. y = x => SizeSum(h, T) = h[x].size + m
      BY <2>4
    <3>4. SizeSum(h, T) # m + h[x].size
      BY <2>2
    <3> HIDE DEF m
    <3> QED
      BY <3>2, <3>3, <3>4
  <2>7. Adds(T \ {y}) /\ Adds(T \ {x})
    BY <2>11, <2>1, <2>2, <2>3 DEF B
  <2>8. (T \ {y}) \ {x} = (T \ {x}) \ {y}
    OBVIOUS
  <2> DEFINE n == SizeSum(h, (T \ {x}) \ {y})
  <2>9. SizeSum(h, T \ {y}) = n + h[x].size /\ SizeSum(h, T \ {x}) = n + h[y].size
    BY <2>2, <2>3, <2>6, <2>7, <2>8
  <2>10. n \in Nat /\ h[x].size \in Nat /\ h[y].size \in Nat
    BY <2>11, <2>2, <2>3, <2>5
  <2> HIDE DEF n
  <2> QED
    BY <2>2, <2>4, <2>9, <2>10
<1> QED
  BY <1>1 DEF B

\* Requests are so far from the largest size that aligning them does not wrap around.
RequestsFit ==
  /\ \A n \in Request : n + Align - 1 < SizeMod
  /\ \A c \in Count, n \in Request : c * n < SizeMod => c * n + Align - 1 < SizeMod

HeapStats ==
  /\ IsFiniteSet(DOMAIN live)
  /\ used_bytes \in Nat /\ peak_bytes \in Nat /\ peak_bytes >= used_bytes
  /\ used_bytes = SizeSum(hdr, DOMAIN live)
  /\ \A b \in DOMAIN live : hdr[b].size >= live[b].asked

LEMMA SizesAreNatural ==
  ASSUME NEW h, Tiles(h)
  PROVE  \A b \in Used(h) : h[b].size \in Nat
BY DEF Tiles, Headers, BlockType, Used

\* OS_ALIGN_UP does not cut a size off, as long as it does not wrap around.
LEMMA AlignedIsEnough ==
  ASSUME NEW n \in Nat, n + Align - 1 < SizeMod
  PROVE  AlignUp(n) >= n
<1> DEFINE x == n + Align - 1
<1>1. x \in Nat /\ SizeMod \in Nat \ {0} /\ Align \in Nat \ {0} /\ x < SizeMod
  BY HeapAssumption
<1>2. x % SizeMod = x
  BY <1>1
<1>3. x % Align \in 0 .. Align - 1
  BY <1>1
<1>4. x - (x % Align) >= n
  BY <1>1, <1>3
<1> HIDE DEF x
<1>5. (n + Align - 1) % SizeMod = x
  BY <1>2 DEF x
<1> QED
  BY <1>4, <1>5 DEF AlignUp

\* The block that os_malloc hands out is as large as was asked.
LEMMA MarkedIsEnough ==
  ASSUME Tiles(hdr), NEW b \in HeapBlock, NEW m \in Nat, hdr[b].size >= m
  PROVE  Marked(b, m)[b].size >= m
<1>1. hdr[b] \in BlockType /\ b \in Nat
  BY DEF Tiles, Headers, HeapBlock
<1>2. hdr[b].size \in Nat /\ Header \in Nat
  BY <1>1, HeapAssumption DEF BlockType
<1>3. b \in DOMAIN Cut(b, m) /\ Cut(b, m)[b].size >= m
  <2>1. CASE hdr[b].size > m + Header + Align
    <3>1. Cut(b, m) = Split(b, m)
      BY <2>1 DEF Cut
    <3>2. b \in DOMAIN Split(b, m) /\ Split(b, m)[b] = [hdr[b] EXCEPT !.size = m, !.next = b + Header + m]
      BY DEF Split
    <3>3. [hdr[b] EXCEPT !.size = m, !.next = b + Header + m].size = m
      BY <1>1 DEF BlockType
    <3> QED
      BY <3>1, <3>2, <3>3
  <2>2. CASE ~(hdr[b].size > m + Header + Align)
    BY <1>2, <2>2 DEF Cut, HeapBlock
  <2> QED
    BY <2>1, <2>2
<1>4. Marked(b, m)[b] = [Cut(b, m)[b] EXCEPT !.used = TRUE]
  BY <1>3 DEF Marked
<1> QED
  BY <1>3, <1>4

LEMMA AllocateCounts ==
  ASSUME HeapInv, HeapStats, NEW u \in User, NEW b \in HeapBlock, NEW n \in Nat, NEW asked \in Nat,
         Allocate(u, b, n, asked), AlignUp(n) >= asked
  PROVE  HeapStats'
<1> DEFINE m == AlignUp(n)
<1>1. /\ Tiles(hdr') /\ Used(hdr') = DOMAIN live'
      /\ \A x \in DOMAIN live : x \in DOMAIN live' /\ live'[x] = live[x] /\ hdr'[x].size = hdr[x].size
  BY AllocateKeeps
<1>2. /\ hdr' = Marked(b, m) /\ ~hdr[b].used /\ hdr[b].size >= m /\ m \in Nat
      /\ used_bytes' = used_bytes + Marked(b, m)[b].size
      /\ peak_bytes' = IF used_bytes' > peak_bytes THEN used_bytes' ELSE peak_bytes
      /\ live' = [x \in DOMAIN live \cup {b} |-> IF x = b THEN [by |-> u, asked |-> asked] ELSE live[x]]
  BY AlignedIsNatural DEF Allocate, Best, Fits
<1>3. Marked(b, m)[b].size >= m
  BY <1>2, MarkedIsEnough DEF HeapInv
<1> HIDE DEF m
<1>4. b \notin DOMAIN live
  BY <1>2 DEF HeapInv, HoldersExact, Used
<1>5. /\ DOMAIN live' = DOMAIN live \cup {b} /\ DOMAIN live' \ {b} = DOMAIN live
      /\ live'[b].asked = asked
  BY <1>2, <1>4
<1>6. \A x \in DOMAIN live' : hdr'[x].size \in Nat
  BY <1>1, SizesAreNatural
<1>7. IsFiniteSet(DOMAIN live) /\ IsFiniteSet(DOMAIN live')
  BY <1>5, FS_AddElement DEF HeapStats
<1>8. SizeSum(hdr', DOMAIN live') = SizeSum(hdr', DOMAIN live) + hdr'[b].size
  <2>1. b \in DOMAIN live'
    BY <1>5
  <2>2. SizeSum(hdr', DOMAIN live') = SizeSum(hdr', DOMAIN live' \ {b}) + hdr'[b].size
    BY <1>6, <1>7, <2>1, SumAdds
  <2> QED
    BY <1>5, <2>2
<1>9. SizeSum(hdr', DOMAIN live) = SizeSum(hdr, DOMAIN live)
  BY <1>1, <1>7, SumsAgree
<1>10. used_bytes' = SizeSum(hdr', DOMAIN live')
  BY <1>2, <1>8, <1>9 DEF HeapStats
<1>11. /\ used_bytes' \in Nat /\ peak_bytes' \in Nat /\ peak_bytes' >= used_bytes'
  <2>1. hdr'[b].size \in Nat
    BY <1>5, <1>6
  <2> QED
    BY <1>2, <2>1 DEF HeapStats
<1>12. \A x \in DOMAIN live' : hdr'[x].size >= live'[x].asked
  <2>1. hdr'[b].size >= live'[b].asked
    <3>1. hdr'[b].size >= m /\ m >= asked /\ hdr'[b].size \in Nat
      BY <1>2, <1>3, <1>5, <1>6 DEF m
    <3> QED
      BY <1>2, <1>5, <3>1
  <2>2. \A x \in DOMAIN live : hdr'[x].size >= live'[x].asked
    BY <1>1 DEF HeapStats
  <2> QED
    BY <1>5, <2>1, <2>2
<1> QED
  BY <1>7, <1>10, <1>11, <1>12 DEF HeapStats

LEMMA ReleaseCounts ==
  ASSUME HeapInv, HeapStats, NEW b \in DOMAIN live, Release(b)
  PROVE  HeapStats'
<1>1. /\ DOMAIN live' = DOMAIN live \ {b}
      /\ \A x \in DOMAIN live' : live'[x] = live[x] /\ hdr'[x].size = hdr[x].size
  BY ReleaseKeeps
<1>2. \A x \in DOMAIN live : hdr[x].size \in Nat
  BY SizesAreNatural DEF HeapInv, HoldersExact
<1>3. IsFiniteSet(DOMAIN live) /\ IsFiniteSet(DOMAIN live')
  BY <1>1, FS_Subset DEF HeapStats
<1>4. SizeSum(hdr, DOMAIN live) = SizeSum(hdr, DOMAIN live') + hdr[b].size
  BY <1>1, <1>2, <1>3, SumAdds
<1>5. SizeSum(hdr', DOMAIN live') = SizeSum(hdr, DOMAIN live')
  BY <1>1, <1>3, SumsAgree
<1>6. SizeSum(hdr, DOMAIN live') \in Nat /\ hdr[b].size \in Nat
  BY <1>1, <1>2, <1>3, SumIsNatural
<1>7. used_bytes' = (IF used_bytes >= hdr[b].size THEN used_bytes - hdr[b].size ELSE 0)
      /\ peak_bytes' = peak_bytes
  BY DEF Release, ReleaseSize
<1>8. used_bytes = SizeSum(hdr, DOMAIN live') + hdr[b].size
  BY <1>4 DEF HeapStats
<1>9. used_bytes' = SizeSum(hdr', DOMAIN live') /\ used_bytes' \in Nat /\ used_bytes' <= used_bytes
  BY <1>5, <1>6, <1>7, <1>8
<1>10. peak_bytes' \in Nat /\ peak_bytes' >= used_bytes'
  BY <1>7, <1>9 DEF HeapStats
<1> QED
  BY <1>1, <1>3, <1>9, <1>10 DEF HeapStats

\* A product that os_calloc does not refuse does not wrap around.
LEMMA ProductFits ==
  ASSUME NEW c \in Nat, NEW n \in Nat, NEW m \in Nat \ {0},
         ~(c # 0 /\ n > (m - 1) \div c)
  PROVE  c * n < m
<1>1. CASE c = 0
  BY <1>1
<1>2. CASE c # 0
  <2> DEFINE q == (m - 1) \div c
  <2>1. q \in Nat /\ c * q <= m - 1
    BY <1>2
  <2>2. n <= q
    BY <1>2, <2>1
  <2> HIDE DEF q
  <2>3. n * c <= q * c /\ c * n = n * c /\ c * q = q * c
    BY <2>1, <2>2
  <2>4. c * n \in Nat /\ c * q \in Nat
    BY <2>1
  <2> QED
    BY <2>1, <2>3, <2>4
<1> QED
  BY <1>1, <1>2

LEMMA HeapStatsInit == HeapInit => HeapStats
<1> SUFFICES ASSUME HeapInit PROVE HeapStats
  OBVIOUS
<1>1. DOMAIN live = {} /\ used_bytes = 0 /\ peak_bytes = 0
  BY DEF HeapInit
<1>2. IsFiniteSet(DOMAIN live)
  BY <1>1, FS_EmptySet
<1>3. SizeSum(hdr, {}) = 0
  BY SumUnfolds, FS_EmptySet
<1> QED
  BY <1>1, <1>2, <1>3 DEF HeapStats

LEMMA HeapStatsStep ==
  ASSUME RequestsFit, HeapInv, HeapStats, [HeapNext]_heapvars
  PROVE  HeapStats'
<1>1. ASSUME NEW u \in User, NEW n \in Request, Malloc(u, n) PROVE HeapStats'
  <2>1. n \in Nat /\ AlignUp(n) >= n
    BY AlignedIsEnough, HeapAssumption DEF RequestsFit
  <2> QED
    BY <1>1, <2>1, AllocateCounts DEF Malloc
<1>2. ASSUME NEW u \in User, NEW c \in Count, NEW n \in Request, Calloc(u, c, n) PROVE HeapStats'
  <2>1. c \in Nat /\ n \in Nat /\ SizeMod \in Nat \ {0}
    BY HeapAssumption
  <2>2. c * n < SizeMod /\ c * n \in Nat
    BY <1>2, <2>1, ProductFits DEF Calloc
  <2>3. (c * n) % SizeMod = c * n
    BY <2>1, <2>2
  <2>4. AlignUp(c * n) >= c * n
    BY <2>2, AlignedIsEnough DEF RequestsFit
  <2> QED
    BY <1>2, <2>2, <2>3, <2>4, AllocateCounts DEF Calloc
<1>3. ASSUME NEW u \in User, NEW b \in HeapBlock, HeapFree(u, b) PROVE HeapStats'
  BY <1>3, ReleaseCounts DEF HeapFree, Holds
<1>4. ASSUME NEW u \in User, NEW b \in HeapBlock, NEW n \in Request, ReallocMoves(u, b, n)
      PROVE  HeapStats'
  <2>1. n \in Nat /\ AlignUp(n) >= n
    BY AlignedIsEnough, HeapAssumption DEF RequestsFit
  <2> QED
    BY <1>4, <2>1, AllocateCounts DEF ReallocMoves
<1>5. ASSUME NEW u \in User, NEW b \in HeapBlock, NEW n \in Request, ReallocKeeps(u, b, n)
      PROVE  HeapStats'
  <2>1. /\ hdr' = hdr /\ used_bytes' = used_bytes /\ peak_bytes' = peak_bytes
        /\ live' = [live EXCEPT ![b].asked = n] /\ b \in DOMAIN live /\ hdr[b].size >= n
    BY <1>5 DEF ReallocKeeps, Holds
  <2>2. live \in [DOMAIN live -> [by : User, asked : Nat]]
    BY DEF HeapInv, HoldersExact
  <2>3. /\ DOMAIN live' = DOMAIN live /\ live'[b].asked = n
        /\ \A x \in DOMAIN live : x # b => live'[x] = live[x]
    BY <2>1, <2>2
  <2> QED
    BY <2>1, <2>3 DEF HeapStats
<1>6. ASSUME NEW u \in User, ReallocFrees(u) PROVE HeapStats'
  <2>1. moving[u] \in DOMAIN live
    BY <1>6 DEF ReallocFrees, HeapInv, HoldersExact, Holds
  <2> QED
    BY <1>6, <2>1, ReleaseCounts DEF ReallocFrees
<1>7. CASE ResetPeak
  BY <1>7 DEF ResetPeak, HeapStats
<1>8. CASE UNCHANGED heapvars
  BY <1>8 DEF heapvars, HeapStats
<1> QED
  BY <1>1, <1>2, <1>3, <1>4, <1>5, <1>6, <1>7, <1>8 DEF HeapNext

\* The used blocks of os_mem.c are those callers hold, each large enough for what was
\* asked, and current_used_bytes is the sum of their sizes: as long as no request
\* wraps around when it is aligned.
THEOREM HeapAccountsAddUp == ASSUME RequestsFit PROVE HeapSpec => []HeapAccounts
<1>1. HeapStats /\ HeapInv /\ [HeapNext]_heapvars => HeapStats'
  BY HeapStatsStep
<1>2. HeapInit => HeapStats
  BY HeapStatsInit
<1>3. HeapInv /\ HeapStats => HeapAccounts
  BY DEF HeapInv, HoldersExact, HeapStats, HeapAccounts, Used, HeapBlock, SizeSum
<1> QED
  BY <1>1, <1>2, <1>3, HeapInvHolds, PTL DEF HeapSpec
-----------------------------------------------------------------------------
(* Pmp. What a locked entry says stays, in the registers of the processor  *)
(* and in the table beside them, whatever is set, loaded with a context,   *)
(* cleared, protected or taken for a secure region.                        *)

\* Registers and table have an entry each.
Register == [addr : Int, perms : SUBSET Access, mode : {"OFF", "TOR", "NA4", "NAPOT"}, locked : BOOLEAN]
Row == [region : RegionType, active : BOOLEAN]

PmpTypeOK ==
  /\ csr \in [Entry -> Register]
  /\ table \in [Entry -> Row]
  /\ context \in [Owner -> Seq(RegionType)]

LEMMA RegionTypes ==
  ASSUME NEW r \in RegionType
  PROVE  /\ Encoded(r) \in Int
         /\ r.base \in ByteAddress /\ r.perms \in SUBSET Access
         /\ r.mode \in {"OFF", "TOR", "NA4", "NAPOT"}
<1>1. /\ r.base \in ByteAddress /\ r.size \in 0 .. 4 * AddrMod /\ r.perms \in SUBSET Access
      /\ r.mode \in {"OFF", "TOR", "NA4", "NAPOT"}
  BY DEF RegionType
<1>2. AddrMod \in Nat \ {0} /\ r.base \in Int /\ r.size \in Nat
  BY <1>1, PmpAssumption DEF ByteAddress
<1> DEFINE start == r.base \div 4
           units == r.size \div 8
<1>3. /\ ((r.base + r.size) \div 4) % AddrMod \in Int /\ AddrMod - 1 \in Int
      /\ start \in Int /\ units \in Nat
  BY <1>2
<1>4. Encoded(r) \in Int
  <2> HIDE DEF start, units
  <2>1. units # 0 => (start \div units) * units + units - 1 \in Int
    <3>1. units # 0 => start \div units \in Int
      BY <1>3
    <3> DEFINE whole == start \div units
    <3> HIDE DEF whole
    <3>2. units # 0 => whole * units \in Int
      BY <1>3, <3>1 DEF whole
    <3> QED
      BY <1>3, <3>2 DEF whole
  <2> QED
    BY <1>1, <1>3, <2>1 DEF Encoded, start, units
<1> QED
  BY <1>1, <1>4

\* A write that the processor may ignore leaves a register.
LEMMA WrittenTypes ==
  ASSUME PmpTypeOK, NEW i \in Entry, NEW a \in Int, NEW perms \in SUBSET Access,
         NEW mode \in {"OFF", "TOR", "NA4", "NAPOT"}
  PROVE  Written(i, a, perms, mode) \in Register
<1>1. csr[i] \in Register
  BY DEF PmpTypeOK
<1> QED
  BY <1>1 DEF Written, Register

\* A list of regions that is loaded, entry by entry.
LEMMA LoadTypes ==
  ASSUME PmpTypeOK, NEW first \in Int, NEW list \in Seq(RegionType), Load(first, list)
  PROVE  PmpTypeOK'
<1>1. ASSUME NEW i \in Entry, Asked(i, first, list)
      PROVE  list[i - first + 1] \in RegionType
  BY <1>1 DEF Asked
<1>2. ASSUME NEW i \in Entry
      PROVE  csr'[i] \in Register /\ table'[i] \in Row
  <2>1. csr[i] \in Register /\ table[i] \in Row
    BY DEF PmpTypeOK
  <2>2. CASE Asked(i, first, list)
    <3> DEFINE r == list[i - first + 1]
    <3>1. r \in RegionType
      BY <1>1, <2>2
    <3>2. /\ csr'[i] = Written(i, Encoded(r), r.perms, r.mode)
          /\ table'[i] = [region |-> r, active |-> TRUE]
      BY <2>2 DEF Load
    <3> HIDE DEF r
    <3>3. Encoded(r) \in Int /\ r.perms \in SUBSET Access /\ r.mode \in {"OFF", "TOR", "NA4", "NAPOT"}
      BY <3>1, RegionTypes
    <3>4. csr'[i] \in Register
      BY <3>2, <3>3, WrittenTypes
    <3> QED
      BY <3>1, <3>2, <3>4 DEF Row
  <2>3. CASE ~Asked(i, first, list)
    BY <2>1, <2>3 DEF Load
  <2> QED
    BY <2>2, <2>3
<1>3. csr' = [i \in Entry |-> csr'[i]] /\ table' = [i \in Entry |-> table'[i]] /\ context' = context
  BY DEF Load
<1> QED
  BY <1>2, <1>3 DEF PmpTypeOK

LEMMA PmpInitTypes == PmpInit => PmpTypeOK
<1> SUFFICES ASSUME PmpInit PROVE PmpTypeOK
  OBVIOUS
<1>1. NoRegion \in RegionType
  BY PmpAssumption DEF NoRegion, RegionType, ByteAddress
<1>2. csr \in [Entry -> Register]
  BY DEF PmpInit, Register
<1>3. table \in [Entry -> Row]
  BY <1>1 DEF PmpInit, Row
<1>4. context \in [Owner -> Seq(RegionType)]
  BY DEF PmpInit
<1> QED
  BY <1>2, <1>3, <1>4 DEF PmpTypeOK

LEMMA PmpStepTypes == PmpTypeOK /\ [PmpNext]_pmpvars => PmpTypeOK'
<1> SUFFICES ASSUME PmpTypeOK, [PmpNext]_pmpvars PROVE PmpTypeOK'
  OBVIOUS
<1>1. csr \in [Entry -> Register] /\ table \in [Entry -> Row] /\ context \in [Owner -> Seq(RegionType)]
  BY DEF PmpTypeOK
<1>2. ASSUME NEW i \in Entry, NEW r \in Regions, SetRegion(i, r) PROVE PmpTypeOK'
  <2>1. i \in Int /\ <<r>> \in Seq(RegionType)
    BY PmpAssumption DEF Entry
  <2> QED
    BY <1>2, <2>1, LoadTypes DEF SetRegion
<1>3. ASSUME SetupKernel PROVE PmpTypeOK'
  BY <1>3, LoadTypes, PmpAssumption DEF SetupKernel
<1>4. ASSUME NEW set, Off(set) PROVE csr' \in [Entry -> Register]
  <2>1. ASSUME NEW i \in Entry PROVE csr'[i] \in Register
    <3>1. Written(i, 0, {}, "OFF") \in Register
      BY WrittenTypes
    <3> QED
      BY <1>1, <1>4, <3>1 DEF Off
  <2> QED
    BY <1>4, <2>1 DEF Off
<1>5. ASSUME NEW i \in Entry, ClearRegion(i) PROVE PmpTypeOK'
  <2> DEFINE g == [table[i].region EXCEPT !.base = 0, !.size = 0, !.perms = {}]
             r == [table[i] EXCEPT !.active = FALSE, !.region = g]
  <2>1. table[i] \in Row /\ 0 \in ByteAddress /\ 0 \in 0 .. 4 * AddrMod
    BY <1>1, PmpAssumption DEF ByteAddress
  <2>2. table[i].region \in RegionType
    BY <2>1 DEF Row
  <2>3. g \in RegionType
    BY <2>1, <2>2 DEF RegionType
  <2>4. table' = [table EXCEPT ![i] = r]
    BY <1>1, <1>5 DEF ClearRegion
  <2> HIDE DEF g
  <2>5. r \in Row
    BY <2>1, <2>3 DEF Row
  <2> HIDE DEF r
  <2>6. table' \in [Entry -> Row]
    BY <1>1, <2>4, <2>5
  <2>7. csr' \in [Entry -> Register]
    BY <1>4, <1>5 DEF ClearRegion
  <2>8. context' = context
    BY <1>5 DEF ClearRegion
  <2> QED
    BY <1>1, <2>6, <2>7, <2>8 DEF PmpTypeOK
<1>6. ASSUME ClearAll PROVE PmpTypeOK'
  <2>1. table' \in [Entry -> Row]
    <3>1. \A i \in Entry : table'[i] \in Row
      BY <1>1, <1>6 DEF ClearAll, Row
    <3> QED
      BY <1>6, <3>1 DEF ClearAll
  <2> QED
    BY <1>1, <1>4, <1>6, <2>1 DEF ClearAll, PmpTypeOK
<1>7. ASSUME NEW i \in Entry, LockRegion(i) PROVE PmpTypeOK'
  <2>1. csr' \in [Entry -> Register]
    BY <1>1, <1>7 DEF LockRegion, Register
  <2> QED
    BY <1>1, <1>7, <2>1 DEF LockRegion, PmpTypeOK
<1>8. ASSUME NEW t \in Owner, NEW r \in Regions, AddRegion(t, r) PROVE PmpTypeOK'
  <2>1. r \in RegionType
    BY PmpAssumption
  <2>2. [r EXCEPT !.mode = "NAPOT"] \in RegionType
    BY <2>1 DEF RegionType
  <2>3. Append(context[t], [r EXCEPT !.mode = "NAPOT"]) \in Seq(RegionType)
    BY <1>1, <2>2
  <2>4. context' = [context EXCEPT ![t] = Append(context[t], [r EXCEPT !.mode = "NAPOT"])]
    BY <1>8 DEF AddRegion
  <2>5. context' \in [Owner -> Seq(RegionType)]
    BY <1>1, <2>3, <2>4
  <2> QED
    BY <1>1, <1>8, <2>5 DEF AddRegion, PmpTypeOK
<1>9. ASSUME NEW t \in Owner, ContextSwitch(t) PROVE PmpTypeOK'
  <2>1. FirstUser \in Int /\ context[t] \in Seq(RegionType)
    BY <1>1, PmpAssumption
  <2> QED
    BY <1>9, <2>1, LoadTypes DEF ContextSwitch
<1>10. ASSUME NEW r \in Regions, ProtectStack(r) PROVE PmpTypeOK'
  <2>1. PICK i \in Entry : Load(i, <<[r EXCEPT !.perms = Access]>>)
    BY <1>10 DEF ProtectStack, FirstFree
  <2>2. r \in RegionType
    BY PmpAssumption
  <2>3. [r EXCEPT !.perms = Access] \in RegionType
    BY <2>2 DEF RegionType
  <2>4. i \in Int /\ <<[r EXCEPT !.perms = Access]>> \in Seq(RegionType)
    BY <2>3 DEF Entry
  <2> QED
    BY <2>1, <2>4, LoadTypes
<1>11. ASSUME NEW r \in Regions, NEW lock \in BOOLEAN, CreateSecureRegion(r, lock) PROVE PmpTypeOK'
  <2> DEFINE secure == [r EXCEPT !.perms = {}]
  <2>1. PICK i \in Entry :
          /\ csr' = [csr EXCEPT ![i] = [Written(i, Encoded(secure), {}, r.mode) EXCEPT !.locked = lock]]
          /\ table' = [table EXCEPT ![i] = [region |-> secure, active |-> TRUE]]
          /\ UNCHANGED context
    BY <1>11 DEF CreateSecureRegion, FirstFree
  <2>2. r \in RegionType
    BY PmpAssumption
  <2>3. secure \in RegionType /\ secure.mode = r.mode
    BY <2>2 DEF RegionType
  <2> HIDE DEF secure
  <2>4. Encoded(secure) \in Int /\ r.mode \in {"OFF", "TOR", "NA4", "NAPOT"}
    BY <2>3, RegionTypes
  <2> DEFINE new == Written(i, Encoded(secure), {}, r.mode)
  <2>7. new \in Register
    BY <2>4, WrittenTypes
  <2> HIDE DEF new
  <2>5. [new EXCEPT !.locked = lock] \in Register
    BY <2>7 DEF Register
  <2>6. [region |-> secure, active |-> TRUE] \in Row
    BY <2>3 DEF Row
  <2> QED
    BY <1>1, <2>1, <2>5, <2>6 DEF PmpTypeOK, new
<1>12. ASSUME UNCHANGED pmpvars PROVE PmpTypeOK'
  BY <1>12 DEF pmpvars, PmpTypeOK
<1> QED
  BY <1>2, <1>3, <1>5, <1>6, <1>7, <1>8, <1>9, <1>10, <1>11, <1>12 DEF PmpNext

\* A step leaves a locked entry as it is.
LockStays(i) == csr[i].locked => csr'[i] = csr[i] /\ table'[i] = table[i]

LEMMA LoadSparesLocked ==
  ASSUME NEW first, NEW list, Load(first, list), NEW i \in Entry PROVE LockStays(i)
BY DEF Load, Asked, Accepts, LockStays

LEMMA LockedStayLocked ==
  ASSUME PmpTypeOK, PmpNext, NEW i \in Entry PROVE LockStays(i)
<1> SUFFICES ASSUME csr[i].locked PROVE csr'[i] = csr[i] /\ table'[i] = table[i]
  BY DEF LockStays
<1>1. csr \in [Entry -> Register] /\ table \in [Entry -> Row]
  BY DEF PmpTypeOK
<1>2. ASSUME NEW set, Off(set) PROVE csr'[i] = csr[i]
  BY <1>1, <1>2 DEF Off, Written
<1>3. ASSUME NEW first, NEW list, Load(first, list) PROVE csr'[i] = csr[i] /\ table'[i] = table[i]
  BY <1>3, LoadSparesLocked DEF LockStays
<1>4. CASE SetupKernel \/ (\E j \in Entry, r \in Regions : SetRegion(j, r)) \/ (\E t \in Owner : ContextSwitch(t))
           \/ (\E r \in Regions : ProtectStack(r))
  BY <1>3, <1>4 DEF SetupKernel, SetRegion, ContextSwitch, ProtectStack
<1>5. CASE ClearAll
  BY <1>2, <1>5 DEF ClearAll, Clearable
<1>6. ASSUME NEW j \in Entry, ClearRegion(j) PROVE csr'[i] = csr[i] /\ table'[i] = table[i]
  <2>1. j # i
    BY <1>6 DEF ClearRegion, Clearable
  <2>2. table'[i] = table[i]
    BY <1>1, <1>6, <2>1 DEF ClearRegion
  <2> QED
    BY <1>2, <1>6, <2>2 DEF ClearRegion
<1>7. ASSUME NEW j \in Entry, LockRegion(j) PROVE csr'[i] = csr[i] /\ table'[i] = table[i]
  <2>1. csr'[i] = IF i = j THEN [csr[i] EXCEPT !.locked = TRUE] ELSE csr[i]
    BY <1>1, <1>7 DEF LockRegion
  <2>2. csr[i] \in Register /\ csr[i].locked = TRUE
    BY <1>1 DEF Register
  <2>3. [csr[i] EXCEPT !.locked = TRUE] = csr[i]
    BY <2>2 DEF Register
  <2> QED
    BY <1>7, <2>1, <2>3 DEF LockRegion
<1>8. ASSUME NEW r \in Regions, NEW lock \in BOOLEAN, CreateSecureRegion(r, lock)
      PROVE  csr'[i] = csr[i] /\ table'[i] = table[i]
  <2>1. PICK j \in FirstFree(0, r) :
          LET secure == [r EXCEPT !.perms = {}] IN
          /\ csr' = [csr EXCEPT ![j] = [Written(j, Encoded(secure), {}, r.mode) EXCEPT !.locked = lock]]
          /\ table' = [table EXCEPT ![j] = [region |-> secure, active |-> TRUE]]
    BY <1>8 DEF CreateSecureRegion
  <2>2. j # i
    BY <2>1 DEF FirstFree, Accepts
  <2> QED
    BY <1>1, <2>1, <2>2
<1>9. ASSUME NEW t \in Owner, NEW r \in Regions, AddRegion(t, r)
      PROVE  csr'[i] = csr[i] /\ table'[i] = table[i]
  BY <1>9 DEF AddRegion
<1> QED
  BY <1>4, <1>5, <1>6, <1>7, <1>8, <1>9 DEF PmpNext

\* A region that is locked stays as it is, in the registers and in the table.
THEOREM LockedStay == PmpSpec => LockedRegionsStay
<1>1. PmpInit => PmpTypeOK
  BY PmpInitTypes
<1>2. PmpTypeOK /\ [PmpNext]_pmpvars => PmpTypeOK'
  BY PmpStepTypes
<1>3. PmpTypeOK /\ [PmpNext]_pmpvars
      => [\A i \in Entry : csr[i].locked => csr'[i] = csr[i] /\ table'[i] = table[i]]_pmpvars
  BY LockedStayLocked DEF LockStays
<1> QED
  BY <1>1, <1>2, <1>3, PTL DEF PmpSpec, LockedRegionsStay
=============================================================================
