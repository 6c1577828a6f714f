--------------------------- MODULE HelloMemoryProofs ---------------------------
(***************************************************************************)
(* The allocators of HelloMemory for any number of threads, blocks, nodes  *)
(* and requests.  First MemoryMgr by itself: its free lists are sound.     *)
(* Then with the object pool as one of its callers: every step of PoolSpec *)
(* is a step of MemoryMgr, of any size, or leaves it alone, so MemInv      *)
(* holds of PoolSpec too; and over MemInv the object pool's own list, a    *)
(* separate mutex, and the account of all the memory given are invariant.  *)
(***************************************************************************)
EXTENDS CELLObjectPool, FiniteSetTheorems, TLAPS

\* Who holds which mutex, and what a thread knows while it holds it.
Holding ==
    /\ \A t \in Threads : pc[t] \in {"alloc", "take", "unlink"} => size[t] <= MAX_MEMORY_SZIE
    /\ \A t \in Threads : pc[t] \in {"take", "unlink"} =>
          mutex[szAlloc(size[t])] = t /\ szAlloc(size[t]) \in pBuf
    /\ \A t \in Threads : pc[t] = "unlink" =>
          block[t] = pHeader[szAlloc(size[t])] /\ block[t] # Null
    /\ \A t \in Threads : pc[t] = "link" =>
          mutex[pAlloc(block[t])] = t /\ pNext[block[t]] = pHeader[pAlloc(block[t])]

\* Where a block of a pool is, and its references there.
Placed ==
    /\ \A t \in Threads : pc[t] \in {"free", "link"} =>
          /\ block[t] \in Pooled /\ pAlloc(block[t]) \in pBuf
          /\ block[t] \notin inUse
          /\ nRef[block[t]] = IF pc[t] = "free" THEN 1 ELSE 0
    /\ \A t, u \in Threads :
          pc[t] \in {"free", "link"} /\ pc[u] \in {"free", "link"} /\ block[t] = block[u] => t = u
    /\ \A b \in inUse : nRef[b] = 1 /\ (b \in Pooled => pAlloc(b) \in pBuf)
    /\ \A b \in Pooled : b \notin inUse /\ b \notin Returning => nRef[b] = 0

MemInv == TypeOK /\ Holding /\ Placed /\ FreeListSound

------------------------------------------------------------------------------
\* The array _szAlloc has a pool for each size, whose blocks have room for it: for
\* every size the program may ask for up to the largest.
LEMMA SizesFit ==
    ASSUME NEW n \in Nat, n <= 1024
    PROVE  szAlloc(n) \in Classes /\ n <= BlockSize(szAlloc(n))
<1>1. \E c \in Classes : RangeBegin(c) <= n /\ n <= c
  <2>1. RangeBegin(64) = 0 /\ RangeBegin(128) = 65 /\ RangeBegin(256) = 129
        /\ RangeBegin(512) = 257 /\ RangeBegin(1024) = 513
    BY DEF RangeBegin
  <2>2. n <= 64 \/ (65 <= n /\ n <= 128) \/ (129 <= n /\ n <= 256)
        \/ (257 <= n /\ n <= 512) \/ (513 <= n /\ n <= 1024)
    OBVIOUS
  <2> QED BY <2>1, <2>2 DEF Classes
<1>2. szAlloc(n) \in Classes /\ n <= szAlloc(n)
  BY <1>1 DEF szAlloc
<1>3. \A c \in Classes : BlockSize(c) = c
  BY DEF Classes, BlockSize
<1> QED BY <1>2, <1>3

\* A block belongs to one pool.
LEMMA PoolOfBlock ==
    /\ \A c \in Classes : \A b \in PoolBlocks(c) : b \in Pooled /\ pAlloc(b) = c
    /\ \A b \in Pooled : pAlloc(b) \in Classes /\ b \in PoolBlocks(pAlloc(b))
    /\ \A b \in Pooled : b \in Blocks /\ b \notin Heap /\ b # Null
BY MemoryConstants DEF PoolBlocks, Pooled, Blocks, pAlloc

\* A step keeps the list of a pool when it keeps the header, the links of the free
\* blocks, and which blocks are free.
LEMMA ListKept ==
    ASSUME NEW c \in Classes, NEW n \in 0 .. BlockCount, NEW s \in [1 .. n -> PoolBlocks(c)],
           IsFreeList(c, s, n),
           pHeader'[c] = pHeader[c],
           \A b \in PoolBlocks(c) : b \notin inUse /\ b \notin Returning => pNext'[b] = pNext[b],
           PoolBlocks(c) \ (inUse' \cup Returning') = PoolBlocks(c) \ (inUse \cup Returning)
    PROVE  IsFreeList(c, s, n)'
<1>1. \A i \in 1 .. n : s[i] \in PoolBlocks(c) /\ s[i] \notin inUse /\ s[i] \notin Returning
  BY DEF IsFreeList
<1>2. \A i \in 1 .. n : pNext'[s[i]] = pNext[s[i]]
  BY <1>1
<1> QED BY <1>2 DEF IsFreeList

\* So there still is a list,
LEMMA ListStays ==
    ASSUME FreeListSound, pBuf \subseteq Classes, NEW c \in pBuf,
           pHeader'[c] = pHeader[c],
           \A b \in PoolBlocks(c) : b \notin inUse /\ b \notin Returning => pNext'[b] = pNext[b],
           \A b \in PoolBlocks(c) : b \in inUse' \cup Returning' <=> b \in inUse \cup Returning
    PROVE  \E n \in 0 .. BlockCount : \E s \in [1 .. n -> PoolBlocks(c)] : IsFreeList(c, s, n)'
<1>1. PICK n \in 0 .. BlockCount : \E s \in [1 .. n -> PoolBlocks(c)] : IsFreeList(c, s, n)
  BY DEF FreeListSound
<1>2. PICK s \in [1 .. n -> PoolBlocks(c)] : IsFreeList(c, s, n)
  BY <1>1
<1>3. PoolBlocks(c) \ (inUse' \cup Returning') = PoolBlocks(c) \ (inUse \cup Returning)
  OBVIOUS
<1>4. IsFreeList(c, s, n)'
  BY <1>2, <1>3, ListKept
<1> QED BY <1>4

\* and the same for every list at once.
LEMMA ListsKept ==
    ASSUME FreeListSound, pBuf \subseteq Classes,
           pBuf' = pBuf, pHeader' = pHeader,
           \A b \in Pooled : b \notin inUse /\ b \notin Returning => pNext'[b] = pNext[b],
           \A b \in Pooled : b \in inUse' \cup Returning' <=> b \in inUse \cup Returning
    PROVE  FreeListSound'
<1> SUFFICES ASSUME NEW c \in pBuf'
             PROVE  \E n \in 0 .. BlockCount : \E s \in [1 .. n -> PoolBlocks(c)] :
                        IsFreeList(c, s, n)'
  BY DEF FreeListSound
<1>1. c \in Classes /\ c \in pBuf
  OBVIOUS
<1> QED BY <1>1, PoolOfBlock, ListStays

\* The block a thread takes from the list is free.
LEMMA UnlinkFree ==
    ASSUME MemInv, NEW t \in Threads, pc[t] = "unlink"
    PROVE  /\ szAlloc(size[t]) \in Classes
           /\ block[t] \in PoolBlocks(szAlloc(size[t])) /\ block[t] \in Pooled
           /\ block[t] \notin inUse /\ block[t] \notin Returning
           /\ nRef[block[t]] = 0
<1> USE DEF MemInv
<1>1. szAlloc(size[t]) \in Classes
  BY SizesFit DEF Holding, TypeOK, MAX_MEMORY_SZIE
<1>2. PICK c \in Classes : c = szAlloc(size[t])
  BY <1>1
<1>3. block[t] = pHeader[c] /\ block[t] # Null /\ c \in pBuf
  BY <1>2 DEF Holding
<1>4. PICK n \in 0 .. BlockCount : \E s \in [1 .. n -> PoolBlocks(c)] : IsFreeList(c, s, n)
  BY <1>3 DEF FreeListSound
<1>5. PICK s \in [1 .. n -> PoolBlocks(c)] : IsFreeList(c, s, n)
  BY <1>4
<1>6. n \in Nat /\ n # 0 /\ block[t] = s[1]
  BY <1>3, <1>5, MemoryConstants DEF IsFreeList
<1>7. block[t] \in PoolBlocks(c) /\ block[t] \notin inUse /\ block[t] \notin Returning
  BY <1>5, <1>6 DEF IsFreeList
<1> QED BY <1>1, <1>2, <1>7, PoolOfBlock DEF Placed

LEMMA MemInit == Init => MemInv
<1> SUFFICES ASSUME Init PROVE MemInv
  OBVIOUS
<1> USE DEF Init
<1>1. TypeOK
  BY DEF TypeOK
<1>2. Holding
  BY DEF Holding
<1>3. Placed
  BY DEF Placed, Blocks
<1>4. FreeListSound
  BY DEF FreeListSound
<1> QED BY <1>1, <1>2, <1>3, <1>4 DEF MemInv

------------------------------------------------------------------------------
\* The steps, one lemma each.  A block from malloc concerns no list.
LEMMA MallocStep ==
    ASSUME MemInv, NEW t \in Threads, Malloc(t), pc[t] \in {"idle", "take"},
           UNCHANGED <<pBuf, pHeader>>,
           \/ UNCHANGED mutex /\ pc[t] = "idle"
           \/ pc[t] = "take" /\ mutex' = [mutex EXCEPT ![szAlloc(size[t])] = Null]
    PROVE  MemInv'
<1> USE DEF MemInv
<1>0. pBuf' = pBuf /\ pHeader' = pHeader
  OBVIOUS
<1>1. PICK h \in Heap \ malloced :
          /\ malloced' = malloced \cup {h}
          /\ nRef' = [nRef EXCEPT ![h] = 1]
          /\ pNext' = [pNext EXCEPT ![h] = Null]
          /\ block' = [block EXCEPT ![t] = h]
          /\ inUse' = inUse \cup {h}
          /\ pc' = [pc EXCEPT ![t] = "idle"]
          /\ size' = [size EXCEPT ![t] = 0]
  BY DEF Malloc, Return
<1>2. h \in Blocks /\ h \notin Pooled
  BY PoolOfBlock DEF Blocks
<1>3. TypeOK'
  BY <1>1, <1>2 DEF TypeOK, Blocks
<1>4. pc'[t] = "idle" /\ \A u \in Threads \ {t} :
          pc'[u] = pc[u] /\ block'[u] = block[u] /\ size'[u] = size[u]
  BY <1>1 DEF TypeOK
<1>5. Returning' = Returning
  BY <1>4 DEF Returning
<1>6. \A b \in Pooled : nRef'[b] = nRef[b] /\ pNext'[b] = pNext[b]
  BY <1>1, <1>2, PoolOfBlock DEF TypeOK
<1>7. Holding'
  <2>1. \A u \in Threads : \A c \in Classes : u # t /\ mutex[c] = u => mutex'[c] = u
    BY DEF TypeOK, Holding
  <2>2. \A u \in Threads : /\ pc[u] \in {"take", "unlink"} => szAlloc(size[u]) \in Classes
                           /\ pc[u] = "link" => pAlloc(block[u]) \in Classes
    BY SizesFit, PoolOfBlock DEF Holding, TypeOK, Placed, MAX_MEMORY_SZIE
  <2>3. \A u \in Threads : pc'[u] # "idle" => u # t
    BY <1>4
  <2>4. \A u \in Threads : pc'[u] \in {"take", "unlink"} =>
            mutex'[szAlloc(size'[u])] = u /\ szAlloc(size'[u]) \in pBuf'
    <3> SUFFICES ASSUME NEW u \in Threads, pc'[u] \in {"take", "unlink"}
                 PROVE  mutex'[szAlloc(size'[u])] = u /\ szAlloc(size'[u]) \in pBuf'
      OBVIOUS
    <3>1. u # t /\ size'[u] = size[u] /\ pc[u] \in {"take", "unlink"}
      BY <1>4, <2>3
    <3>2. mutex[szAlloc(size[u])] = u /\ szAlloc(size[u]) \in pBuf
      BY <3>1 DEF Holding
    <3>3. szAlloc(size'[u]) = szAlloc(size[u])
      BY <3>1
    <3>4. szAlloc(size[u]) \in Classes
      BY <2>2, <3>1
    <3>5. mutex'[szAlloc(size[u])] = u
      BY <2>1, <3>1, <3>2, <3>4
    <3> QED BY <1>0, <3>2, <3>3, <3>5
  <2>5. \A u \in Threads : pc'[u] = "link" =>
          mutex'[pAlloc(block'[u])] = u /\ pNext'[block'[u]] = pHeader'[pAlloc(block'[u])]
    <3> SUFFICES ASSUME NEW u \in Threads, pc'[u] = "link"
                 PROVE  mutex'[pAlloc(block'[u])] = u
                        /\ pNext'[block'[u]] = pHeader'[pAlloc(block'[u])]
      OBVIOUS
    <3>1. u # t /\ block'[u] = block[u] /\ pc[u] = "link"
      BY <1>4, <2>3
    <3>2. mutex[pAlloc(block[u])] = u /\ pNext[block[u]] = pHeader[pAlloc(block[u])]
      BY <3>1 DEF Holding
    <3>3. block[u] \in Pooled
      BY <3>1 DEF Placed
    <3>4. mutex'[pAlloc(block[u])] = u
      BY <2>1, <2>2, <3>1, <3>2
    <3>5. pNext'[block'[u]] = pHeader'[pAlloc(block'[u])]
      BY <1>0, <1>6, <3>1, <3>2, <3>3
    <3> QED BY <3>1, <3>4, <3>5
  <2>6. \A u \in Threads : pc'[u] \in {"alloc", "take", "unlink"} => size'[u] <= MAX_MEMORY_SZIE
    BY <1>4, <2>3 DEF Holding
  <2>7. \A u \in Threads : pc'[u] = "unlink" =>
            block'[u] = pHeader'[szAlloc(size'[u])] /\ block'[u] # Null
    BY <1>0, <1>4, <2>3 DEF Holding
  <2> QED BY <2>4, <2>5, <2>6, <2>7 DEF Holding
<1>8. Placed'
  <2>1. \A b \in inUse' : nRef'[b] = 1 /\ (b \in Pooled => pAlloc(b) \in pBuf')
    BY <1>1, <1>2 DEF Placed, TypeOK
  <2>2. \A u \in Threads : pc'[u] \in {"free", "link"} => u # t /\ pc[u] = pc'[u]
    BY <1>4
  <2>3. \A b \in Pooled : b \in inUse' <=> b \in inUse
    BY <1>1, <1>2
  <2> QED BY <1>4, <1>5, <1>6, <2>1, <2>2, <2>3 DEF Placed
<1>9. FreeListSound'
  <2>1. \A b \in Pooled : b \in inUse' \cup Returning' <=> b \in inUse \cup Returning
    BY <1>1, <1>2, <1>5
  <2> QED BY <1>6, <2>1, ListsKept DEF TypeOK
<1> QED BY <1>3, <1>7, <1>8, <1>9

LEMMA AllocMemStep ==
    ASSUME MemInv, NEW t \in Threads, NEW n \in Nat, allocMem(t, n)
    PROVE  MemInv'
<1> USE DEF MemInv
<1>1. CASE n <= MAX_MEMORY_SZIE
  <2>1. /\ pc[t] = "idle" /\ pc' = [pc EXCEPT ![t] = "alloc"]
        /\ size' = [size EXCEPT ![t] = n]
        /\ UNCHANGED <<pBuf, pHeader, pNext, nRef, mutex, block, inUse, malloced>>
    BY <1>1 DEF allocMem
  <2>3. TypeOK'
    BY <2>1 DEF TypeOK
  <2>4. pc'[t] = "alloc" /\ size'[t] = n /\ \A u \in Threads \ {t} :
            pc'[u] = pc[u] /\ size'[u] = size[u]
    BY <2>1 DEF TypeOK
  <2>5. Returning' = Returning
    BY <2>1, <2>4 DEF Returning
  <2>6. Holding'
    BY <1>1, <2>1, <2>4 DEF Holding
  <2>7. Placed'
    BY <2>1, <2>4, <2>5 DEF Placed
  <2>8. FreeListSound'
    BY <2>1, <2>5, ListsKept DEF TypeOK
  <2> QED BY <2>3, <2>6, <2>7, <2>8
<1>2. CASE ~(n <= MAX_MEMORY_SZIE)
  <2>1. pc[t] = "idle" /\ Malloc(t) /\ UNCHANGED <<pBuf, pHeader, mutex>>
    BY <1>2 DEF allocMem
  <2> QED BY <2>1, MallocStep
<1> QED BY <1>1, <1>2

LEMMA TakeMallocStep == ASSUME MemInv, NEW t \in Threads, TakeMalloc(t) PROVE MemInv'
BY MallocStep DEF TakeMalloc

\* Threads that hold a mutex do so for different pools.
LEMMA OtherPools ==
    ASSUME MemInv, NEW t \in Threads, NEW c \in Classes, mutex[c] \in {t, Null},
           NEW u \in Threads, u # t
    PROVE  /\ pc[u] \in {"take", "unlink"} =>
                 szAlloc(size[u]) # c /\ szAlloc(size[u]) \in Classes
           /\ pc[u] = "link" => pAlloc(block[u]) # c /\ pAlloc(block[u]) \in Classes
BY MemoryConstants, SizesFit, PoolOfBlock DEF MemInv, Holding, Placed, TypeOK, MAX_MEMORY_SZIE

LEMMA LockAllocStep == ASSUME MemInv, NEW t \in Threads, LockAlloc(t) PROVE MemInv'
<1> USE DEF MemInv
<1>0. szAlloc(size[t]) \in Classes
  BY SizesFit DEF LockAlloc, Holding, TypeOK, MAX_MEMORY_SZIE
<1>1. PICK c \in Classes : c = szAlloc(size[t])
  BY <1>0
<1>2. /\ pc[t] = "alloc" /\ mutex[c] = Null
      /\ mutex' = [mutex EXCEPT ![c] = t]
      /\ pc' = [pc EXCEPT ![t] = "take"]
      /\ size' = size /\ block' = block /\ inUse' = inUse /\ malloced' = malloced
      /\ IF c \in pBuf THEN UNCHANGED <<pBuf, pHeader, nRef, pNext>> ELSE initMemory(c)
  BY <1>1 DEF LockAlloc
<1>3. /\ pc'[t] = "take" /\ \A u \in Threads \ {t} : pc'[u] = pc[u]
      /\ mutex'[c] = t /\ \A d \in Classes \ {c} : mutex'[d] = mutex[d]
  BY <1>2, <1>1 DEF TypeOK
<1>4. Returning' = Returning
  BY <1>2, <1>3 DEF Returning
<1>5. /\ pBuf' = pBuf \cup {c}
      /\ \A d \in Classes \ {c} : pHeader'[d] = pHeader[d]
      /\ \A b \in Blocks : b \notin PoolBlocks(c) => nRef'[b] = nRef[b] /\ pNext'[b] = pNext[b]
      /\ pHeader' \in [Classes -> Pooled \cup {Null}]
      /\ pNext' \in [Blocks -> Pooled \cup {Null}]
      /\ nRef' \in [Blocks -> Int]
      /\ c \in pBuf => pHeader' = pHeader /\ nRef' = nRef /\ pNext' = pNext
  <2>1. CASE c \in pBuf
    BY <1>2, <2>1 DEF TypeOK
  <2>2. CASE c \notin pBuf
    <3>1. <<c, 0>> \in Pooled
      BY <1>1, MemoryConstants DEF Pooled
    <3>2. \A b \in PoolBlocks(c) : b[2] + 1 < BlockCount => <<c, b[2] + 1>> \in Pooled
      BY <1>1, MemoryConstants DEF PoolBlocks, Pooled
    <3> QED BY <1>2, <1>1, <2>2, <3>1, <3>2 DEF initMemory, TypeOK
  <2> QED BY <2>1, <2>2
<1>6. TypeOK'
  BY <1>2, <1>1, <1>5 DEF TypeOK
<1>7. \A b \in Pooled : pAlloc(b) # c => b \notin PoolBlocks(c) /\ b \in Blocks
  BY <1>1, PoolOfBlock
<1>8. Holding'
  <2>1. \A u \in Threads : pc'[u] \in {"alloc", "take", "unlink"} => size'[u] <= MAX_MEMORY_SZIE
    BY <1>2, <1>3 DEF Holding
  <2>2. \A u \in Threads : pc'[u] \in {"take", "unlink"} =>
            mutex'[szAlloc(size'[u])] = u /\ szAlloc(size'[u]) \in pBuf'
    BY <1>2, <1>1, <1>3, <1>5, OtherPools DEF Holding
  <2>3. \A u \in Threads : pc'[u] = "unlink" =>
            block'[u] = pHeader'[szAlloc(size'[u])] /\ block'[u] # Null
    BY <1>2, <1>1, <1>3, <1>5, OtherPools DEF Holding
  <2>4. \A u \in Threads : pc'[u] = "link" =>
            mutex'[pAlloc(block'[u])] = u /\ pNext'[block'[u]] = pHeader'[pAlloc(block'[u])]
    BY <1>2, <1>1, <1>3, <1>5, <1>7, OtherPools DEF Holding, Placed
  <2> QED BY <2>1, <2>2, <2>3, <2>4 DEF Holding
<1>9. c \notin pBuf => \A b \in PoolBlocks(c) : b \notin inUse /\ b \notin Returning /\ nRef'[b] = 0
  BY <1>2, <1>1, PoolOfBlock DEF Placed, Returning, initMemory
<1>10. Placed'
  <2>1. \A b \in inUse : nRef'[b] = nRef[b]
    BY <1>5, <1>9 DEF TypeOK
  <2>2. \A b \in Pooled : b \in Returning => nRef'[b] = nRef[b]
    BY <1>5, <1>9, PoolOfBlock
  <2>3. \A b \in Pooled : nRef[b] = 0 => nRef'[b] = 0
    BY <1>5, <1>9, PoolOfBlock
  <2>4. \A u \in Threads : pc'[u] \in {"free", "link"} =>
            pc[u] = pc'[u] /\ block[u] \in Pooled /\ block[u] \in Returning
    BY <1>3 DEF Placed, Returning
  <2>5. \A u \in Threads : pc'[u] \in {"free", "link"} =>
            /\ block'[u] \in Pooled /\ pAlloc(block'[u]) \in pBuf'
            /\ block'[u] \notin inUse'
            /\ nRef'[block'[u]] = IF pc'[u] = "free" THEN 1 ELSE 0
    BY <1>2, <1>5, <2>2, <2>4 DEF Placed
  <2>6. \A u, v \in Threads :
           pc'[u] \in {"free", "link"} /\ pc'[v] \in {"free", "link"} /\ block'[u] = block'[v] => u = v
    BY <1>2, <2>4 DEF Placed
  <2>7. \A b \in inUse' : nRef'[b] = 1 /\ (b \in Pooled => pAlloc(b) \in pBuf')
    BY <1>2, <1>5, <2>1 DEF Placed
  <2>8. \A b \in Pooled : b \notin inUse' /\ b \notin Returning' => nRef'[b] = 0
    BY <1>2, <1>4, <2>3 DEF Placed
  <2> QED BY <2>5, <2>6, <2>7, <2>8 DEF Placed
<1>11. FreeListSound'
  <2>1. CASE c \in pBuf
    BY <1>2, <1>4, <1>5, <2>1, ListsKept DEF TypeOK
  <2>2. CASE c \notin pBuf
    <3> SUFFICES ASSUME NEW d \in pBuf'
                 PROVE  \E n \in 0 .. BlockCount : \E s \in [1 .. n -> PoolBlocks(d)] :
                            IsFreeList(d, s, n)'
      BY DEF FreeListSound
    <3>1. CASE d = c
      <4> DEFINE s == [i \in 1 .. BlockCount |-> <<c, i - 1>>]
      <4>1. s \in [1 .. BlockCount -> PoolBlocks(c)]
        BY MemoryConstants DEF PoolBlocks
      <4>2. pHeader'[c] = s[1]
        BY <1>2, <1>1, <2>2, MemoryConstants DEF initMemory, TypeOK
      <4>3. \A i \in 1 .. BlockCount : pNext'[s[i]] = IF i = BlockCount THEN Null ELSE s[i + 1]
        <5> SUFFICES ASSUME NEW i \in 1 .. BlockCount
                     PROVE  pNext'[s[i]] = IF i = BlockCount THEN Null ELSE s[i + 1]
          OBVIOUS
        <5>1. s[i] \in PoolBlocks(c) /\ s[i] \in Blocks /\ s[i][2] = i - 1
          BY <1>1, <4>1, PoolOfBlock
        <5>2. pNext'[s[i]] = IF s[i][2] + 1 < BlockCount THEN <<c, s[i][2] + 1>> ELSE Null
          BY <1>2, <2>2, <5>1 DEF initMemory
        <5>3. i + 1 \in 1 .. BlockCount => s[i + 1] = <<c, i>>
          BY MemoryConstants
        <5>4. i # BlockCount <=> i + 1 \in 1 .. BlockCount
          BY MemoryConstants
        <5>5. s[i][2] + 1 = i
          BY <5>1
        <5> QED BY <5>2, <5>3, <5>4, <5>5, MemoryConstants
      <4>4. \A i, j \in 1 .. BlockCount : s[i] = s[j] => i = j
        OBVIOUS
      <4>5. {s[i] : i \in 1 .. BlockCount} = PoolBlocks(c)
        <5>1. ASSUME NEW b \in PoolBlocks(c) PROVE \E i \in 1 .. BlockCount : b = s[i]
          <6>1. b = <<c, b[2]>> /\ b[2] \in 0 .. BlockCount - 1
            BY DEF PoolBlocks
          <6>2. b[2] + 1 \in 1 .. BlockCount /\ s[b[2] + 1] = <<c, b[2]>>
            BY <6>1, MemoryConstants
          <6> QED BY <6>1, <6>2
        <5> QED BY <4>1, <5>1
      <4>6. PoolBlocks(c) \ (inUse' \cup Returning') = PoolBlocks(c)
        BY <1>2, <1>4, <1>9, <2>2
      <4> HIDE DEF s
      <4>7. IsFreeList(c, s, BlockCount)'
        BY <4>2, <4>3, <4>4, <4>5, <4>6, MemoryConstants DEF IsFreeList
      <4>8. BlockCount \in 0 .. BlockCount
        BY MemoryConstants
      <4> QED BY <3>1, <4>1, <4>7, <4>8
    <3>2. CASE d # c
      <4>1. d \in pBuf /\ d \in Classes
        BY <1>5, <3>2 DEF TypeOK
      <4>2. \A b \in PoolBlocks(d) : pNext'[b] = pNext[b]
        BY <1>5, <1>7, <3>2, <4>1, PoolOfBlock
      <4>3. pHeader'[d] = pHeader[d]
        BY <1>5, <3>2, <4>1
      <4> QED BY <1>2, <1>4, <4>1, <4>2, <4>3, ListStays DEF TypeOK
    <3> QED BY <3>1, <3>2
  <2> QED BY <2>1, <2>2
<1> QED BY <1>6, <1>8, <1>10, <1>11

LEMMA TakeStep == ASSUME MemInv, NEW t \in Threads, Take(t) PROVE MemInv'
<1> USE DEF MemInv
<1>0. szAlloc(size[t]) \in Classes
  BY SizesFit DEF Take, Holding, TypeOK, MAX_MEMORY_SZIE
<1>1. PICK c \in Classes : c = szAlloc(size[t])
  BY <1>0
<1>2. /\ pc[t] = "take" /\ pHeader[c] # Null
      /\ block' = [block EXCEPT ![t] = pHeader[c]]
      /\ pc' = [pc EXCEPT ![t] = "unlink"]
      /\ UNCHANGED <<pBuf, pHeader, pNext, nRef, mutex, size, inUse, malloced>>
  BY <1>1 DEF Take
<1>3. /\ pc'[t] = "unlink" /\ block'[t] = pHeader[c]
      /\ \A u \in Threads \ {t} : pc'[u] = pc[u] /\ block'[u] = block[u]
  BY <1>2 DEF TypeOK
<1>4. TypeOK'
  BY <1>2, PoolOfBlock DEF TypeOK
<1>5. Returning' = Returning
  BY <1>2, <1>3 DEF Returning
<1>6. Holding'
  BY <1>1, <1>2, <1>3 DEF Holding
<1>7. Placed'
  BY <1>2, <1>3, <1>5 DEF Placed
<1>8. FreeListSound'
  BY <1>2, <1>5, ListsKept DEF TypeOK
<1> QED BY <1>4, <1>6, <1>7, <1>8

LEMMA UnlinkStep == ASSUME MemInv, NEW t \in Threads, Unlink(t) PROVE MemInv'
<1> USE DEF MemInv
<1>0. szAlloc(size[t]) \in Classes
  BY SizesFit DEF Unlink, Holding, TypeOK, MAX_MEMORY_SZIE
<1>1. PICK c \in Classes : c = szAlloc(size[t])
  BY <1>0
<1>2. PICK b : b = block[t]
  OBVIOUS
<1>3. /\ pc[t] = "unlink"
      /\ pHeader' = [pHeader EXCEPT ![c] = pNext[b]]
      /\ nRef' = [nRef EXCEPT ![b] = 1]
      /\ inUse' = inUse \cup {b}
      /\ mutex' = [mutex EXCEPT ![c] = Null]
      /\ pc' = [pc EXCEPT ![t] = "idle"]
      /\ size' = [size EXCEPT ![t] = 0]
      /\ UNCHANGED <<pBuf, pNext, block, malloced>>
  BY <1>1, <1>2 DEF Unlink, Return
<1>4. b = pHeader[c] /\ b # Null /\ mutex[c] = t /\ c \in pBuf
  BY <1>1, <1>2, <1>3 DEF Holding
<1>5. PICK n \in 0 .. BlockCount : \E s \in [1 .. n -> PoolBlocks(c)] : IsFreeList(c, s, n)
  BY <1>4 DEF FreeListSound
<1>6. PICK s \in [1 .. n -> PoolBlocks(c)] : IsFreeList(c, s, n)
  BY <1>5
<1>7. n \in Nat /\ n # 0 /\ b = s[1] /\ n - 1 \in 0 .. BlockCount
  BY <1>4, <1>6, MemoryConstants DEF IsFreeList
<1>8. b \in PoolBlocks(c) /\ b \notin inUse /\ b \notin Returning /\ b \in Pooled /\ b \in Blocks
  BY <1>6, <1>7, PoolOfBlock DEF IsFreeList
<1>9. TypeOK'
  BY <1>3, <1>8 DEF TypeOK
<1>10. /\ pc'[t] = "idle" /\ \A u \in Threads \ {t} : pc'[u] = pc[u] /\ size'[u] = size[u]
       /\ \A d \in Classes \ {c} : mutex'[d] = mutex[d] /\ pHeader'[d] = pHeader[d]
       /\ pHeader'[c] = pNext[b]
       /\ nRef'[b] = 1 /\ \A x \in Blocks : x # b => nRef'[x] = nRef[x]
  BY <1>3, <1>8 DEF TypeOK
<1>11. Returning' = Returning
  BY <1>3, <1>10 DEF Returning
<1>12. Holding'
  <2>1. \A u \in Threads : pc'[u] # "idle" => u # t
    BY <1>10
  <2>2. \A u \in Threads : pc'[u] \in {"take", "unlink"} =>
            mutex'[szAlloc(size'[u])] = u /\ szAlloc(size'[u]) \in pBuf'
    BY <1>3, <1>4, <1>10, <2>1, OtherPools DEF Holding
  <2>3. \A u \in Threads : pc'[u] = "unlink" =>
            block'[u] = pHeader'[szAlloc(size'[u])] /\ block'[u] # Null
    BY <1>3, <1>4, <1>10, <2>1, OtherPools DEF Holding
  <2>4. \A u \in Threads : pc'[u] = "link" =>
            mutex'[pAlloc(block'[u])] = u /\ pNext'[block'[u]] = pHeader'[pAlloc(block'[u])]
    BY <1>3, <1>4, <1>10, <2>1, OtherPools DEF Holding
  <2>5. \A u \in Threads : pc'[u] \in {"alloc", "take", "unlink"} => size'[u] <= MAX_MEMORY_SZIE
    BY <1>10, <2>1 DEF Holding
  <2> QED BY <2>2, <2>3, <2>4, <2>5 DEF Holding
<1>13. Placed'
  <2>1. \A u \in Threads : pc'[u] \in {"free", "link"} =>
            u # t /\ pc[u] = pc'[u] /\ block[u] # b /\ block[u] \in Blocks
    BY <1>8, <1>10 DEF Returning, TypeOK, Placed, Blocks
  <2>2. \A u \in Threads : pc'[u] \in {"free", "link"} =>
            /\ block'[u] \in Pooled /\ pAlloc(block'[u]) \in pBuf'
            /\ block'[u] \notin inUse'
            /\ nRef'[block'[u]] = IF pc'[u] = "free" THEN 1 ELSE 0
    BY <1>3, <1>10, <2>1 DEF Placed
  <2>3. \A u, v \in Threads :
           pc'[u] \in {"free", "link"} /\ pc'[v] \in {"free", "link"} /\ block'[u] = block'[v] => u = v
    BY <1>3, <2>1 DEF Placed
  <2>4. \A x \in inUse' : nRef'[x] = 1 /\ (x \in Pooled => pAlloc(x) \in pBuf')
    BY <1>3, <1>4, <1>8, <1>10, PoolOfBlock DEF Placed, TypeOK
  <2>5. \A x \in Pooled : x \notin inUse' /\ x \notin Returning' => nRef'[x] = 0
    BY <1>3, <1>10, <1>11, PoolOfBlock DEF Placed
  <2> QED BY <2>2, <2>3, <2>4, <2>5 DEF Placed
<1>14. FreeListSound'
  <2> SUFFICES ASSUME NEW d \in pBuf'
               PROVE  \E m \in 0 .. BlockCount : \E r \in [1 .. m -> PoolBlocks(d)] :
                          IsFreeList(d, r, m)'
    BY DEF FreeListSound
  <2>1. CASE d = c
    <3> DEFINE r == [i \in 1 .. n - 1 |-> s[i + 1]]
    <3>1. \A i \in 1 .. n - 1 : i + 1 \in 1 .. n /\ r[i] = s[i + 1]
      BY <1>7
    <3>2. r \in [1 .. n - 1 -> PoolBlocks(c)]
      BY <3>1
    <3>3. pHeader'[c] = IF n - 1 = 0 THEN Null ELSE r[1]
      BY <1>6, <1>7, <1>10, <3>1 DEF IsFreeList
    <3>4. \A i \in 1 .. n - 1 : pNext[r[i]] = IF i = n - 1 THEN Null ELSE r[i + 1]
      BY <1>6, <1>7, <3>1 DEF IsFreeList
    <3>5. \A i, j \in 1 .. n - 1 : r[i] = r[j] => i = j
      BY <1>6, <1>7, <3>1 DEF IsFreeList
    <3>6. {r[i] : i \in 1 .. n - 1} = PoolBlocks(c) \ (inUse' \cup Returning')
      <4>1. ASSUME NEW x \in PoolBlocks(c) \ (inUse' \cup Returning')
            PROVE  \E i \in 1 .. n - 1 : x = r[i]
        <5>1. x # b /\ x \in PoolBlocks(c) \ (inUse \cup Returning)
          BY <1>3, <1>11
        <5>2. PICK j \in 1 .. n : x = s[j]
          BY <1>6, <5>1 DEF IsFreeList
        <5>3. j # 1 /\ j - 1 \in 1 .. n - 1 /\ j - 1 + 1 = j
          BY <1>7, <5>1, <5>2
        <5> QED BY <3>1, <5>2, <5>3
      <4>2. ASSUME NEW i \in 1 .. n - 1
            PROVE  r[i] \in PoolBlocks(c) \ (inUse' \cup Returning')
        <5>1. s[i + 1] \in PoolBlocks(c) \ (inUse \cup Returning)
          BY <1>6, <3>1 DEF IsFreeList
        <5>2. s[i + 1] # b
          BY <1>6, <1>7, <3>1 DEF IsFreeList
        <5> QED BY <1>3, <1>11, <3>1, <5>1, <5>2
      <4> QED BY <4>1, <4>2
    <3> HIDE DEF r
    <3>7. pNext' = pNext
      BY <1>3
    <3>8. PICK q \in [1 .. n - 1 -> PoolBlocks(c)] : q = r
      BY <3>2
    <3>9. IsFreeList(c, q, n - 1)'
      BY <3>3, <3>4, <3>5, <3>6, <3>7, <3>8 DEF IsFreeList
    <3> QED BY <1>7, <2>1, <3>9
  <2>2. CASE d # c
    <3>1. d \in pBuf /\ d \in Classes
      BY <1>3 DEF TypeOK
    <3>2. \A x \in PoolBlocks(d) : x # b
      BY <1>8, <2>2, <3>1, PoolOfBlock
    <3> QED BY <1>3, <1>10, <1>11, <2>2, <3>1, <3>2, ListStays DEF TypeOK
  <2> QED BY <2>1, <2>2
<1> QED BY <1>9, <1>12, <1>13, <1>14

LEMMA FreeMemStep ==
    ASSUME MemInv, NEW t \in Threads, NEW b \in Blocks, freeMem(t, b)
    PROVE  MemInv'
<1> USE DEF MemInv
<1>1. /\ pc[t] = "idle" /\ b \in inUse /\ nRef[b] = 1
      /\ inUse' = inUse \ {b}
      /\ UNCHANGED <<pBuf, pHeader, pNext, mutex, size>>
  BY DEF freeMem, Placed
<1>2. CASE bPool(b)
  <2>1. /\ pc' = [pc EXCEPT ![t] = "free"]
        /\ block' = [block EXCEPT ![t] = b]
        /\ UNCHANGED <<nRef, malloced>>
    BY <1>2 DEF freeMem
  <2>2. b \in Pooled
    BY <1>2 DEF bPool
  <2>3. /\ pc'[t] = "free" /\ block'[t] = b
        /\ \A u \in Threads \ {t} : pc'[u] = pc[u] /\ block'[u] = block[u]
    BY <2>1 DEF TypeOK
  <2>4. Returning' = Returning \cup {b}
    BY <1>1, <2>1, <2>3 DEF Returning
  <2>5. TypeOK'
    BY <1>1, <2>1 DEF TypeOK
  <2>6. Holding'
    BY <1>1, <2>3 DEF Holding
  <2>7. Placed'
    <3>1. \A u \in Threads \ {t} : pc[u] \in {"free", "link"} => block[u] # b
      BY <1>1 DEF Placed
    <3>2. \A u \in Threads : pc'[u] \in {"free", "link"} =>
              /\ block'[u] \in Pooled /\ pAlloc(block'[u]) \in pBuf'
              /\ block'[u] \notin inUse'
              /\ nRef'[block'[u]] = IF pc'[u] = "free" THEN 1 ELSE 0
      <4> SUFFICES ASSUME NEW u \in Threads, pc'[u] \in {"free", "link"}
                   PROVE  /\ block'[u] \in Pooled /\ pAlloc(block'[u]) \in pBuf'
                          /\ block'[u] \notin inUse'
                          /\ nRef'[block'[u]] = IF pc'[u] = "free" THEN 1 ELSE 0
        OBVIOUS
      <4>1. CASE u = t
        BY <1>1, <2>1, <2>2, <2>3, <4>1 DEF Placed
      <4>2. CASE u # t
        BY <1>1, <2>1, <2>3, <4>2 DEF Placed
      <4> QED BY <4>1, <4>2
    <3>3. \A u, v \in Threads :
             pc'[u] \in {"free", "link"} /\ pc'[v] \in {"free", "link"} /\ block'[u] = block'[v] => u = v
      BY <2>3, <3>1 DEF Placed
    <3>4. \A x \in inUse' : nRef'[x] = 1 /\ (x \in Pooled => pAlloc(x) \in pBuf')
      BY <1>1, <2>1 DEF Placed
    <3>5. \A x \in Pooled : x \notin inUse' /\ x \notin Returning' => nRef'[x] = 0
      BY <1>1, <2>1, <2>4 DEF Placed
    <3> QED BY <3>2, <3>3, <3>4, <3>5 DEF Placed
  <2>8. FreeListSound'
    <3>1. \A x \in Pooled : x \in inUse' \cup Returning' <=> x \in inUse \cup Returning
      BY <1>1, <2>4
    <3> QED BY <1>1, <3>1, ListsKept DEF TypeOK
  <2> QED BY <2>5, <2>6, <2>7, <2>8
<1>3. CASE ~bPool(b)
  <2>1. /\ nRef' = [nRef EXCEPT ![b] = @ - 1]
        /\ malloced' \in {malloced, malloced \ {b}}
        /\ UNCHANGED <<pc, block>>
    BY <1>3 DEF freeMem
  <2>2. b \notin Pooled
    BY <1>3 DEF bPool
  <2>3. \A x \in Blocks : x # b => nRef'[x] = nRef[x]
    BY <2>1 DEF TypeOK
  <2>4. Returning' = Returning
    BY <2>1 DEF Returning
  <2>5. TypeOK'
    BY <1>1, <2>1 DEF TypeOK
  <2>6. Holding'
    BY <1>1, <2>1 DEF Holding
  <2>7. Placed'
    <3>1. \A x \in Pooled : nRef'[x] = nRef[x]
      BY <2>2, <2>3, PoolOfBlock
    <3>2. \A x \in inUse' : nRef'[x] = nRef[x]
      BY <1>1, <2>3 DEF TypeOK
    <3> QED BY <1>1, <2>1, <2>2, <2>4, <3>1, <3>2 DEF Placed
  <2>8. FreeListSound'
    BY <1>1, <2>2, <2>4, ListsKept DEF TypeOK
  <2> QED BY <2>5, <2>6, <2>7, <2>8
<1> QED BY <1>2, <1>3

LEMMA LockFreeStep == ASSUME MemInv, NEW t \in Threads, LockFree(t) PROVE MemInv'
<1> USE DEF MemInv
<1>1. PICK b : b = block[t]
  OBVIOUS
<1>2. pc[t] = "free" /\ b \in Pooled /\ pAlloc(b) \in pBuf /\ b \notin inUse /\ nRef[b] = 1
  BY <1>1 DEF LockFree, Placed
<1>3. PICK c \in Classes : c = pAlloc(b)
  BY <1>2, PoolOfBlock
<1>4. b \in Blocks /\ b \in PoolBlocks(c)
  BY <1>2, <1>3, PoolOfBlock
<1>5. nRef' = [nRef EXCEPT ![b] = @ - 1] /\ nRef'[b] = 0
  BY <1>1, <1>2, <1>4 DEF LockFree, TypeOK
<1>6. /\ mutex[c] = Null
      /\ mutex' = [mutex EXCEPT ![c] = t]
      /\ pNext' = [pNext EXCEPT ![b] = pHeader[c]]
      /\ pc' = [pc EXCEPT ![t] = "link"]
      /\ UNCHANGED <<pBuf, pHeader, size, block, inUse, malloced>>
  BY <1>1, <1>3, <1>5 DEF LockFree
<1>7. TypeOK'
  BY <1>4, <1>5, <1>6 DEF TypeOK
<1>8. /\ pc'[t] = "link" /\ \A u \in Threads \ {t} : pc'[u] = pc[u]
      /\ mutex'[c] = t /\ \A d \in Classes \ {c} : mutex'[d] = mutex[d]
      /\ pNext'[b] = pHeader[c] /\ \A x \in Blocks : x # b => pNext'[x] = pNext[x]
      /\ \A x \in Blocks : x # b => nRef'[x] = nRef[x]
  BY <1>4, <1>5, <1>6 DEF TypeOK
<1>9. Returning' = Returning
  BY <1>2, <1>6, <1>8 DEF Returning
<1>10. \A u \in Threads \ {t} : pc[u] \in {"free", "link"} =>
           block[u] # b /\ block[u] \in Pooled /\ block[u] \in Blocks
  BY <1>1, <1>2, PoolOfBlock DEF Placed
<1>11. Holding'
  <2>1. \A u \in Threads : pc'[u] \in {"take", "unlink"} =>
            mutex'[szAlloc(size'[u])] = u /\ szAlloc(size'[u]) \in pBuf'
    BY <1>6, <1>8, OtherPools DEF Holding
  <2>2. \A u \in Threads : pc'[u] = "unlink" =>
            block'[u] = pHeader'[szAlloc(size'[u])] /\ block'[u] # Null
    BY <1>6, <1>8 DEF Holding
  <2>3. ASSUME NEW u \in Threads, pc'[u] = "link"
        PROVE  mutex'[pAlloc(block'[u])] = u /\ pNext'[block'[u]] = pHeader'[pAlloc(block'[u])]
    <3>1. CASE u = t
      BY <1>1, <1>3, <1>6, <1>8, <3>1
    <3>2. CASE u # t
      BY <1>6, <1>8, <1>10, <2>3, <3>2, OtherPools DEF Holding
    <3> QED BY <3>1, <3>2
  <2>4. \A u \in Threads : pc'[u] \in {"alloc", "take", "unlink"} => size'[u] <= MAX_MEMORY_SZIE
    BY <1>6, <1>8 DEF Holding
  <2> QED BY <2>1, <2>2, <2>3, <2>4 DEF Holding
<1>12. Placed'
  <2>1. ASSUME NEW u \in Threads, pc'[u] \in {"free", "link"}
        PROVE  /\ block'[u] \in Pooled /\ pAlloc(block'[u]) \in pBuf'
               /\ block'[u] \notin inUse'
               /\ nRef'[block'[u]] = IF pc'[u] = "free" THEN 1 ELSE 0
    <3>1. CASE u = t
      BY <1>1, <1>2, <1>5, <1>6, <1>8, <3>1
    <3>2. CASE u # t
      BY <1>6, <1>8, <1>10, <2>1, <3>2 DEF Placed
    <3> QED BY <3>1, <3>2
  <2>2. \A u, v \in Threads :
           pc'[u] \in {"free", "link"} /\ pc'[v] \in {"free", "link"} /\ block'[u] = block'[v] => u = v
    BY <1>1, <1>6, <1>8, <1>10 DEF Placed
  <2>3. \A x \in inUse' : nRef'[x] = 1 /\ (x \in Pooled => pAlloc(x) \in pBuf')
    BY <1>2, <1>6, <1>8 DEF Placed, TypeOK
  <2>4. \A x \in Pooled : x \notin inUse' /\ x \notin Returning' => nRef'[x] = 0
    BY <1>5, <1>6, <1>8, <1>9, PoolOfBlock DEF Placed
  <2> QED BY <2>1, <2>2, <2>3, <2>4 DEF Placed
<1>13. FreeListSound'
  <2>1. b \in Returning
    BY <1>1, <1>2 DEF Returning
  <2>2. \A x \in Pooled : x \notin inUse /\ x \notin Returning => pNext'[x] = pNext[x]
    BY <1>8, <2>1, PoolOfBlock
  <2> QED BY <1>6, <1>9, <2>2, ListsKept DEF TypeOK
<1> QED BY <1>7, <1>11, <1>12, <1>13

\* A list that lacks a block of its pool is shorter than the pool.
LEMMA ListShorter ==
    ASSUME NEW c \in Classes, NEW n \in 0 .. BlockCount, NEW s \in [1 .. n -> PoolBlocks(c)],
           \A i, j \in 1 .. n : s[i] = s[j] => i = j,
           NEW b \in PoolBlocks(c), \A i \in 1 .. n : s[i] # b
    PROVE  n < BlockCount
<1> DEFINE N == 0 .. BlockCount - 1
           f == [i \in 1 .. n |-> s[i][2]]
<1>1. BlockCount \in Nat \ {0} /\ n \in Nat /\ n <= BlockCount
  BY MemoryConstants
<1>2. \A x \in PoolBlocks(c) : x = <<c, x[2]>> /\ x[2] \in N
  BY DEF PoolBlocks
<1>3. f \in [1 .. n -> N \ {b[2]}]
  <2>1. \A i \in 1 .. n : s[i] = <<c, s[i][2]>> /\ s[i][2] \in N /\ b = <<c, b[2]>>
    BY <1>2
  <2>2. \A i \in 1 .. n : s[i][2] # b[2]
    BY <2>1
  <2> QED BY <2>1, <2>2
<1>4. IsFiniteSet(N) /\ Cardinality(N) = BlockCount
  BY <1>1, FS_Interval
<1>5. IsFiniteSet(N \ {b[2]}) /\ Cardinality(N \ {b[2]}) = BlockCount - 1
  BY <1>2, <1>4, FS_RemoveElement
<1>6. IsFiniteSet(1 .. n) /\ Cardinality(1 .. n) = n
  BY <1>1, FS_Interval
<1> SUFFICES ASSUME n = BlockCount PROVE FALSE
  BY <1>1
<1>7. Cardinality(N \ {b[2]}) < Cardinality(1 .. n)
  BY <1>1, <1>5, <1>6
<1>8. PICK i \in 1 .. n, j \in 1 .. n : i # j /\ f[i] = f[j]
  <2> HIDE DEF f, N
  <2> QED BY <1>3, <1>5, <1>6, <1>7, FS_PigeonHole
<1>9. s[i] = s[j]
  <2>1. s[i] \in PoolBlocks(c) /\ s[j] \in PoolBlocks(c) /\ s[i][2] = s[j][2]
    BY <1>8
  <2>2. s[i] = <<c, s[i][2]>> /\ s[j] = <<c, s[j][2]>>
    BY <1>2, <2>1
  <2> QED BY <2>1, <2>2
<1> QED BY <1>8, <1>9

LEMMA LinkStep == ASSUME MemInv, NEW t \in Threads, Link(t) PROVE MemInv'
<1> USE DEF MemInv
<1>1. PICK b : b = block[t]
  OBVIOUS
<1>2. /\ pc[t] = "link" /\ b \in Pooled /\ pAlloc(b) \in pBuf /\ b \notin inUse /\ nRef[b] = 0
      /\ mutex[pAlloc(b)] = t /\ pNext[b] = pHeader[pAlloc(b)]
  BY <1>1 DEF Link, Placed, Holding
<1>3. PICK c \in Classes : c = pAlloc(b)
  BY <1>2, PoolOfBlock
<1>4. b \in Blocks /\ b \in PoolBlocks(c) /\ c \in pBuf /\ b # Null
  BY <1>2, <1>3, PoolOfBlock
<1>5. /\ pHeader' = [pHeader EXCEPT ![c] = b]
      /\ mutex' = [mutex EXCEPT ![c] = Null]
      /\ pc' = [pc EXCEPT ![t] = "idle"]
      /\ block' = [block EXCEPT ![t] = Null]
      /\ UNCHANGED <<pBuf, pNext, nRef, size, inUse, malloced>>
  BY <1>1, <1>3 DEF Link
<1>6. TypeOK'
  BY <1>2, <1>5 DEF TypeOK
<1>7. /\ pc'[t] = "idle" /\ \A u \in Threads \ {t} : pc'[u] = pc[u] /\ block'[u] = block[u]
      /\ \A d \in Classes \ {c} : mutex'[d] = mutex[d] /\ pHeader'[d] = pHeader[d]
      /\ pHeader'[c] = b
  BY <1>5 DEF TypeOK
<1>8. \A u \in Threads \ {t} : pc[u] \in {"free", "link"} => block[u] # b
  BY <1>1, <1>2 DEF Placed
<1>9. Returning' = Returning \ {b} /\ b \in Returning
  BY <1>1, <1>2, <1>7, <1>8 DEF Returning
<1>10. Holding'
  <2>1. \A u \in Threads : pc'[u] # "idle" => u # t
    BY <1>7
  <2>2. \A u \in Threads : pc'[u] \in {"take", "unlink"} =>
            mutex'[szAlloc(size'[u])] = u /\ szAlloc(size'[u]) \in pBuf'
    BY <1>2, <1>3, <1>5, <1>7, <2>1, OtherPools DEF Holding
  <2>3. \A u \in Threads : pc'[u] = "unlink" =>
            block'[u] = pHeader'[szAlloc(size'[u])] /\ block'[u] # Null
    BY <1>2, <1>3, <1>5, <1>7, <2>1, OtherPools DEF Holding
  <2>4. \A u \in Threads : pc'[u] = "link" =>
            mutex'[pAlloc(block'[u])] = u /\ pNext'[block'[u]] = pHeader'[pAlloc(block'[u])]
    BY <1>2, <1>3, <1>5, <1>7, <2>1, OtherPools DEF Holding
  <2>5. \A u \in Threads : pc'[u] \in {"alloc", "take", "unlink"} => size'[u] <= MAX_MEMORY_SZIE
    BY <1>5, <1>7, <2>1 DEF Holding
  <2> QED BY <2>2, <2>3, <2>4, <2>5 DEF Holding
<1>11. Placed'
  <2>1. \A u \in Threads : pc'[u] \in {"free", "link"} => u # t /\ pc[u] = pc'[u]
    BY <1>7
  <2> QED BY <1>2, <1>5, <1>7, <1>9, <2>1 DEF Placed
<1>12. FreeListSound'
  <2> SUFFICES ASSUME NEW d \in pBuf'
               PROVE  \E m \in 0 .. BlockCount : \E r \in [1 .. m -> PoolBlocks(d)] :
                          IsFreeList(d, r, m)'
    BY DEF FreeListSound
  <2>1. CASE d = c
    <3>1. PICK n \in 0 .. BlockCount : \E s \in [1 .. n -> PoolBlocks(c)] : IsFreeList(c, s, n)
      BY <1>4 DEF FreeListSound
    <3>2. PICK s \in [1 .. n -> PoolBlocks(c)] : IsFreeList(c, s, n)
      BY <3>1
    <3>3. \A i \in 1 .. n : s[i] # b
      BY <1>9, <3>2 DEF IsFreeList
    <3>4. n \in Nat /\ n + 1 \in 0 .. BlockCount
      <4>1. \A i, j \in 1 .. n : s[i] = s[j] => i = j
        BY <3>2 DEF IsFreeList
      <4>2. n < BlockCount
        BY <1>4, <3>3, <4>1, ListShorter
      <4> QED BY <4>2, MemoryConstants
    <3> DEFINE r == [i \in 1 .. n + 1 |-> IF i = 1 THEN b ELSE s[i - 1]]
    <3>5. r[1] = b /\ \A i \in 1 .. n : i + 1 \in 1 .. n + 1 /\ r[i + 1] = s[i]
      BY <3>4
    <3>6. \A i \in 1 .. n + 1 : i = 1 \/ (i - 1 \in 1 .. n /\ r[i] = s[i - 1])
      BY <3>4
    <3>7. r \in [1 .. n + 1 -> PoolBlocks(c)]
      BY <1>4, <3>4, <3>6
    <3>8. \A i \in 1 .. n + 1 : pNext[r[i]] = IF i = n + 1 THEN Null ELSE r[i + 1]
      <4> SUFFICES ASSUME NEW i \in 1 .. n + 1
                   PROVE  pNext[r[i]] = IF i = n + 1 THEN Null ELSE r[i + 1]
        OBVIOUS
      <4>1. CASE i = 1
        <5>1. pNext[b] = IF n = 0 THEN Null ELSE s[1]
          BY <1>2, <1>3, <3>2 DEF IsFreeList
        <5>2. n # 0 => r[2] = s[1]
          BY <3>4
        <5> QED BY <3>4, <3>5, <4>1, <5>1, <5>2
      <4>2. CASE i # 1
        <5>1. i - 1 \in 1 .. n /\ r[i] = s[i - 1]
          BY <3>6, <4>2
        <5>2. pNext[s[i - 1]] = IF i - 1 = n THEN Null ELSE s[i - 1 + 1]
          BY <3>2, <5>1 DEF IsFreeList
        <5>3. i # n + 1 => r[i + 1] = s[i] /\ i - 1 + 1 = i
          BY <3>4, <3>5, <4>2
        <5> QED BY <3>4, <5>1, <5>2, <5>3
      <4> QED BY <4>1, <4>2
    <3>9. \A i, j \in 1 .. n + 1 : r[i] = r[j] => i = j
      BY <3>2, <3>3, <3>4, <3>5, <3>6 DEF IsFreeList
    <3>10. {r[i] : i \in 1 .. n + 1} = PoolBlocks(c) \ (inUse' \cup Returning')
      <4>1. ASSUME NEW x \in PoolBlocks(c) \ (inUse' \cup Returning')
            PROVE  \E i \in 1 .. n + 1 : x = r[i]
        <5>1. CASE x = b
          BY <3>4, <3>5, <5>1
        <5>2. CASE x # b
          <6>1. x \in PoolBlocks(c) \ (inUse \cup Returning)
            BY <1>5, <1>9, <5>2
          <6>2. PICK j \in 1 .. n : x = s[j]
            BY <3>2, <6>1 DEF IsFreeList
          <6> QED BY <3>5, <6>2
        <5> QED BY <5>1, <5>2
      <4>2. ASSUME NEW i \in 1 .. n + 1
            PROVE  r[i] \in PoolBlocks(c) \ (inUse' \cup Returning')
        <5>1. CASE i = 1
          BY <1>2, <1>4, <1>5, <1>9, <3>5, <5>1
        <5>2. CASE i # 1
          <6>1. i - 1 \in 1 .. n /\ r[i] = s[i - 1]
            BY <3>6, <5>2
          <6>2. s[i - 1] \in PoolBlocks(c) \ (inUse \cup Returning)
            BY <3>2, <6>1 DEF IsFreeList
          <6> QED BY <1>5, <1>9, <6>1, <6>2
        <5> QED BY <5>1, <5>2
      <4> QED BY <4>1, <4>2
    <3>11. pNext' = pNext /\ pHeader'[c] = r[1]
      BY <1>5, <1>7, <3>5
    <3> HIDE DEF r
    <3>12. PICK q \in [1 .. n + 1 -> PoolBlocks(c)] : q = r
      BY <3>7
    <3>13. IsFreeList(c, q, n + 1)'
      BY <3>4, <3>8, <3>9, <3>10, <3>11, <3>12 DEF IsFreeList
    <3> QED BY <2>1, <3>4, <3>13
  <2>2. CASE d # c
    <3>1. d \in pBuf /\ d \in Classes
      BY <1>5 DEF TypeOK
    <3>2. \A x \in PoolBlocks(d) : x # b
      BY <1>4, <2>2, <3>1, PoolOfBlock
    <3>3. \A x \in PoolBlocks(d) : x \in inUse' \cup Returning' <=> x \in inUse \cup Returning
      BY <1>5, <1>9, <3>2
    <3> QED BY <1>5, <1>7, <2>2, <3>1, <3>3, ListStays DEF TypeOK
  <2> QED BY <2>1, <2>2
<1> QED BY <1>6, <1>10, <1>11, <1>12

LEMMA MemStutter == ASSUME MemInv, UNCHANGED vars PROVE MemInv'
<1> USE DEF MemInv, vars
<1>1. TypeOK' /\ Holding' /\ Returning' = Returning
  BY DEF TypeOK, Holding, Returning
<1>2. Placed'
  BY <1>1 DEF Placed
<1>3. FreeListSound'
  BY <1>1, ListsKept DEF TypeOK
<1> QED BY <1>1, <1>2, <1>3

LEMMA MemStep == MemInv /\ [Next]_vars => MemInv'
<1> SUFFICES ASSUME MemInv, [Next]_vars PROVE MemInv'
  OBVIOUS
<1>1. CASE UNCHANGED vars
  BY <1>1, MemStutter
<1>2. ASSUME NEW t \in Threads, NEW n \in Requests, allocMem(t, n) PROVE MemInv'
  BY <1>2, AllocMemStep, MemoryConstants
<1>3. ASSUME NEW t \in Threads, NEW b \in Blocks, freeMem(t, b) PROVE MemInv'
  BY <1>3, FreeMemStep
<1>4. ASSUME NEW t \in Threads, Inside(t) PROVE MemInv'
  BY <1>4, LockAllocStep, TakeMallocStep, TakeStep, UnlinkStep, LockFreeStep, LinkStep DEF Inside
<1> QED BY <1>1, <1>2, <1>3, <1>4 DEF Next

\* So what each thread knows in its critical section, and where each block is, hold in
\* every reachable state (allocMemory, freeMemory).
THEOREM MemInvariant == Spec => []MemInv
<1>1. Init => MemInv
  BY MemInit
<1>2. MemInv /\ [Next]_vars => MemInv'
  BY MemStep
<1> QED BY <1>1, <1>2, PTL DEF Spec

\* The variables keep their types.
THEOREM MemType == Spec => []TypeOK
<1>1. MemInv => TypeOK
  BY DEF MemInv
<1> QED BY <1>1, MemInvariant, PTL

\* The free list of every pool is intact: for any number of threads and blocks, and
\* whatever sizes are asked for, allocMemory and freeMemory lose no block and never
\* have one twice.
THEOREM ListsSound == Spec => []FreeListSound
<1>1. MemInv => FreeListSound
  BY DEF MemInv
<1> QED BY <1>1, MemInvariant, PTL

\* No block is handed out while someone has it.
THEOREM HandedOut == Spec => []HandedOutOnce
<1>1. MemInv => HandedOutOnce
  <2> SUFFICES ASSUME MemInv PROVE HandedOutOnce
    OBVIOUS
  <2> USE DEF MemInv
  <2>1. ASSUME NEW t \in Threads, pc[t] = "unlink"
        PROVE  block[t] \notin inUse /\ block[t] \notin Returning
    BY <2>1, UnlinkFree
  <2>2. \A t, u \in Threads : pc[t] = "unlink" /\ pc[u] = "unlink" /\ block[t] = block[u] => t = u
    <3> SUFFICES ASSUME NEW t \in Threads, NEW u \in Threads,
                        pc[t] = "unlink", pc[u] = "unlink", block[t] = block[u]
                 PROVE  t = u
      OBVIOUS
    <3>1. PICK c \in Classes : c = szAlloc(size[t]) /\ mutex[c] = t /\ block[t] \in PoolBlocks(c)
      BY UnlinkFree DEF Holding
    <3>2. PICK d \in Classes : d = szAlloc(size[u]) /\ mutex[d] = u /\ block[u] \in PoolBlocks(d)
      BY UnlinkFree DEF Holding
    <3> QED BY <3>1, <3>2, PoolOfBlock
  <2> QED BY <2>1, <2>2 DEF HandedOutOnce, Placed, Returning
<1> QED BY <1>1, MemInvariant, PTL

\* The assertions of allocMemory and freeMemory on the reference count never fail.
THEOREM Assertions == Spec => []AssertionsHold
<1>1. MemInv => AssertionsHold
  BY UnlinkFree DEF MemInv, Placed, AssertionsHold
<1> QED BY <1>1, MemInvariant, PTL

\* In every reachable state: a block at the head of a list belongs to that list's
\* pool, which was chosen by the size asked for.
LEMMA HeadFits == ASSUME MemInv PROVE BlocksFit
<1> SUFFICES ASSUME NEW t \in Threads, pc[t] = "unlink"
             PROVE  block[t] \in Pooled /\ size[t] <= BlockSize(pAlloc(block[t]))
  BY DEF BlocksFit
<1>1. size[t] \in Nat /\ size[t] <= 1024
  BY DEF MemInv, TypeOK, Holding, MAX_MEMORY_SZIE
<1>2. szAlloc(size[t]) \in Classes /\ size[t] <= BlockSize(szAlloc(size[t]))
  BY <1>1, SizesFit
<1>3. block[t] \in Pooled /\ pAlloc(block[t]) = szAlloc(size[t])
  BY <1>2, UnlinkFree, PoolOfBlock
<1> QED BY <1>2, <1>3

\* A block from a list has room for what was asked for: with any threads, no block
\* ever comes into the list of another pool.
THEOREM Fits == Spec => []BlocksFit
<1>1. MemInv => BlocksFit
  BY HeadFits
<1> QED BY <1>1, MemInvariant, PTL

------------------------------------------------------------------------------
(***************************************************************************)
(* The allocator with the object pool as a caller.                         *)
(***************************************************************************)
\* A step of the allocator, for any caller.
MemoryStep ==
    \E t \in Threads :
        \/ \E n \in Nat : allocMem(t, n)
        \/ \E b \in Blocks : freeMem(t, b)
        \/ Inside(t)

LEMMA MemoryStepKeeps == MemInv /\ (MemoryStep \/ UNCHANGED vars) => MemInv'
<1>1. ASSUME MemInv, NEW t \in Threads, NEW n \in Nat, allocMem(t, n) PROVE MemInv'
  BY <1>1, AllocMemStep
<1>2. ASSUME MemInv, NEW t \in Threads, NEW b \in Blocks, freeMem(t, b) PROVE MemInv'
  BY <1>2, FreeMemStep
<1>3. ASSUME MemInv, NEW t \in Threads, Inside(t) PROVE MemInv'
  BY <1>3, LockAllocStep, TakeMallocStep, TakeStep, UnlinkStep, LockFreeStep, LinkStep DEF Inside
<1> QED BY <1>1, <1>2, <1>3, MemStutter DEF MemoryStep

\* The steps of the program and of the object pool are steps of the allocator.
LEMMA PoolStepIsMemoryStep ==
    ASSUME MemInv, [PoolNext]_allVars
    PROVE  MemoryStep \/ UNCHANGED vars
<1>1. CASE UNCHANGED allVars
  BY <1>1 DEF allVars, memoryVars
<1>2. ASSUME NEW t \in Threads, NEW n \in Requests, New(t, n) PROVE MemoryStep
  BY <1>2, MemoryConstants DEF New, MemoryStep
<1>3. ASSUME NEW t \in Threads, NEW b \in Blocks, Delete(t, b) PROVE MemoryStep
  BY <1>3 DEF Delete, MemoryStep
<1>4. ASSUME NEW t \in Threads, InsideMgr(t) PROVE MemoryStep
  BY <1>4 DEF InsideMgr, MemoryStep
<1>5. ASSUME NEW t \in Threads,
             createObject(t) \/ initPool(t) \/ TakeNode(t) \/ TakeNew(t)
             \/ LockFreeNode(t) \/ LinkNode(t)
      PROVE  UNCHANGED vars
  BY <1>5 DEF createObject, initPool, TakeNode, TakeNew, LockFreeNode, LinkNode, memoryVars
<1>6. ASSUME NEW t \in Threads, objectPool(t) PROVE MemoryStep \/ UNCHANGED vars
  <2>1. nPoolSzie * NodeSize \in Nat
    BY PoolConstants
  <2> QED BY <1>6, <2>1 DEF objectPool, MemoryStep, memoryVars
<1>7. ASSUME NEW t \in Threads, LockObj(t) PROVE MemoryStep \/ UNCHANGED vars
  BY <1>7, PoolConstants DEF LockObj, MemoryStep, memoryVars
<1>8. ASSUME NEW t \in Threads, NEW x \in Nodes, destroyObject(t, x)
      PROVE  MemoryStep \/ UNCHANGED vars
  <2>1. freeMem(t, x) => x \in Blocks
    BY DEF MemInv, TypeOK, freeMem
  <2> QED BY <1>8, <2>1 DEF destroyObject, MemoryStep, memoryVars
<1> QED BY <1>1, <1>2, <1>3, <1>4, <1>5, <1>6, <1>7, <1>8 DEF PoolNext

\* MemInv holds of the program with the object pool too: what MemoryMgr relies on holds
\* beneath it (operator new and delete as createObject and destroyObject call them).
THEOREM PoolMemInvariant == PoolSpec => []MemInv
<1>1. PoolInit => MemInv
  BY MemInit DEF PoolInit
<1>2. MemInv /\ [PoolNext]_allVars => MemInv'
  BY MemoryStepKeeps, PoolStepIsMemoryStep
<1> QED BY <1>1, <1>2, PTL DEF PoolSpec

\* With the object pool as a caller too, the free lists of MemoryMgr are intact.
THEOREM PoolListsSound == PoolSpec => []FreeListSound
<1>1. MemInv => FreeListSound
  BY DEF MemInv
<1> QED BY <1>1, PoolMemInvariant, PTL

\* and the assertions on the reference counts of its blocks hold.
THEOREM PoolAssertions == PoolSpec => []AssertionsHold
<1>1. MemInv => AssertionsHold
  BY UnlinkFree DEF MemInv, Placed, AssertionsHold
<1> QED BY <1>1, PoolMemInvariant, PTL

\* With the object pool as a caller too, the buffer and the nodes made when the pool
\* is used up lie in blocks with room for them.
THEOREM PoolFits == PoolSpec => []BlocksFit
<1>1. MemInv => BlocksFit
  BY HeadFits
<1> QED BY <1>1, PoolMemInvariant, PTL

------------------------------------------------------------------------------
(***************************************************************************)
(* Lists through links, whatever they are of.                              *)
(***************************************************************************)
IsList(h, next, S, n, s) ==
    /\ h = IF n = 0 THEN Null ELSE s[1]
    /\ \A i \in 1 .. n : next[s[i]] = IF i = n THEN Null ELSE s[i + 1]
    /\ \A i, j \in 1 .. n : s[i] = s[j] => i = j
    /\ {s[i] : i \in 1 .. n} = S

HasList(h, next, P, S) == \E n \in Nat : \E s \in [1 .. n -> P] : IsList(h, next, S, n, s)

\* Links of other nodes do not matter.
LEMMA ListRelinked ==
    ASSUME NEW h, NEW next, NEW next2, NEW P, NEW S,
           HasList(h, next, P, S), \A x \in S : next2[x] = next[x]
    PROVE  HasList(h, next2, P, S)
<1>0. PICK n \in Nat : \E s \in [1 .. n -> P] : IsList(h, next, S, n, s)
  BY DEF HasList
<1>1. PICK s \in [1 .. n -> P] : IsList(h, next, S, n, s)
  BY <1>0
<1>2. \A i \in 1 .. n : s[i] \in S
  BY <1>1 DEF IsList
<1>3. IsList(h, next2, S, n, s)
  BY <1>1, <1>2 DEF IsList
<1> QED BY <1>3 DEF HasList

\* The first node is taken from the list,
LEMMA ListUnlinked ==
    ASSUME NEW h, NEW next, NEW P, NEW S, HasList(h, next, P, S), h # Null
    PROVE  h \in S /\ HasList(next[h], next, P, S \ {h})
<1>0. PICK n \in Nat : \E s \in [1 .. n -> P] : IsList(h, next, S, n, s)
  BY DEF HasList
<1>1. PICK s \in [1 .. n -> P] : IsList(h, next, S, n, s)
  BY <1>0
<1>2. n # 0 /\ h = s[1] /\ n - 1 \in Nat /\ 1 \in 1 .. n
  BY <1>1 DEF IsList
<1> DEFINE r == [i \in 1 .. n - 1 |-> s[i + 1]]
<1>3. \A i \in 1 .. n - 1 : i + 1 \in 1 .. n /\ r[i] = s[i + 1]
  BY <1>2
<1>4. r \in [1 .. n - 1 -> P]
  BY <1>3
<1>5. next[h] = IF n - 1 = 0 THEN Null ELSE r[1]
  BY <1>1, <1>2, <1>3 DEF IsList
<1>6. \A i \in 1 .. n - 1 : next[r[i]] = IF i = n - 1 THEN Null ELSE r[i + 1]
  BY <1>1, <1>2, <1>3 DEF IsList
<1>7. \A i, j \in 1 .. n - 1 : r[i] = r[j] => i = j
  BY <1>1, <1>2, <1>3 DEF IsList
<1>8. {r[i] : i \in 1 .. n - 1} = S \ {h}
  <2>1. ASSUME NEW x \in S \ {h} PROVE \E i \in 1 .. n - 1 : x = r[i]
    <3>1. PICK j \in 1 .. n : x = s[j]
      BY <1>1 DEF IsList
    <3>2. j # 1 /\ j - 1 \in 1 .. n - 1 /\ j - 1 + 1 = j
      BY <1>2, <3>1
    <3> QED BY <1>3, <3>1, <3>2
  <2>2. ASSUME NEW i \in 1 .. n - 1 PROVE r[i] \in S \ {h}
    <3>1. s[i + 1] \in S
      BY <1>1, <1>3 DEF IsList
    <3>2. s[i + 1] # s[1]
      BY <1>1, <1>2, <1>3 DEF IsList
    <3> QED BY <1>2, <1>3, <3>1, <3>2
  <2> QED BY <2>1, <2>2
<1>9. h \in S
  BY <1>1, <1>2 DEF IsList
<1> HIDE DEF r
<1>10. IsList(next[h], next, S \ {h}, n - 1, r)
  BY <1>2, <1>4, <1>5, <1>6, <1>7, <1>8 DEF IsList
<1> QED BY <1>2, <1>4, <1>9, <1>10 DEF HasList

\* and a node whose link is set to the first one is put before it.
LEMMA ListLinked ==
    ASSUME NEW h, NEW next, NEW P, NEW S, HasList(h, next, P, S),
           NEW b \in P, b \notin S, next[b] = h
    PROVE  HasList(b, next, P, S \cup {b})
<1>0. PICK n \in Nat : \E s \in [1 .. n -> P] : IsList(h, next, S, n, s)
  BY DEF HasList
<1>1. PICK s \in [1 .. n -> P] : IsList(h, next, S, n, s)
  BY <1>0
<1> DEFINE r == [i \in 1 .. n + 1 |-> IF i = 1 THEN b ELSE s[i - 1]]
<1>2. r[1] = b /\ \A i \in 1 .. n : i + 1 \in 1 .. n + 1 /\ r[i + 1] = s[i]
  OBVIOUS
<1>3. \A i \in 1 .. n + 1 : i = 1 \/ (i - 1 \in 1 .. n /\ r[i] = s[i - 1])
  OBVIOUS
<1>4. r \in [1 .. n + 1 -> P]
  BY <1>3
<1>5. \A i \in 1 .. n + 1 : next[r[i]] = IF i = n + 1 THEN Null ELSE r[i + 1]
  <2> SUFFICES ASSUME NEW i \in 1 .. n + 1
               PROVE  next[r[i]] = IF i = n + 1 THEN Null ELSE r[i + 1]
    OBVIOUS
  <2>1. CASE i = 1
    <3>1. next[b] = IF n = 0 THEN Null ELSE s[1]
      BY <1>1 DEF IsList
    <3>2. n # 0 => r[2] = s[1]
      OBVIOUS
    <3> QED BY <1>2, <2>1, <3>1, <3>2
  <2>2. CASE i # 1
    <3>1. i - 1 \in 1 .. n /\ r[i] = s[i - 1]
      BY <1>3, <2>2
    <3>2. next[s[i - 1]] = IF i - 1 = n THEN Null ELSE s[i - 1 + 1]
      BY <1>1, <3>1 DEF IsList
    <3>3. i # n + 1 => r[i + 1] = s[i] /\ i - 1 + 1 = i
      BY <1>2, <2>2
    <3> QED BY <3>1, <3>2, <3>3
  <2> QED BY <2>1, <2>2
<1>6. \A i \in 1 .. n : s[i] \in S /\ s[i] # b
  BY <1>1 DEF IsList
<1>7. \A i, j \in 1 .. n + 1 : r[i] = r[j] => i = j
  BY <1>1, <1>2, <1>3, <1>6 DEF IsList
<1>8. {r[i] : i \in 1 .. n + 1} = S \cup {b}
  <2>1. ASSUME NEW x \in S PROVE \E i \in 1 .. n + 1 : x = r[i]
    <3>1. PICK j \in 1 .. n : x = s[j]
      BY <1>1 DEF IsList
    <3> QED BY <1>2, <3>1
  <2>2. \A i \in 1 .. n + 1 : r[i] \in S \cup {b}
    BY <1>2, <1>3, <1>6
  <2>3. b = r[1] /\ 1 \in 1 .. n + 1
    OBVIOUS
  <2> QED BY <2>1, <2>2, <2>3
<1> HIDE DEF r
<1>9. IsList(b, next, S \cup {b}, n + 1, r)
  BY <1>2, <1>4, <1>5, <1>7, <1>8 DEF IsList
<1> QED BY <1>4, <1>9 DEF HasList

\* A list of nodes of the pool is no longer than the pool.
LEMMA ListFits ==
    ASSUME NEW h, NEW next, NEW S, NEW n \in Nat, NEW s \in [1 .. n -> PoolNodes],
           IsList(h, next, S, n, s)
    PROVE  n \in 0 .. nPoolSzie
<1> DEFINE N == 0 .. nPoolSzie - 1
           f == [i \in 1 .. n |-> s[i][2]]
<1>1. nPoolSzie \in Nat \ {0}
  BY PoolConstants
<1>2. \A x \in PoolNodes : x = <<0, x[2]>> /\ x[2] \in N
  BY DEF PoolNodes
<1>3. f \in [1 .. n -> N]
  BY <1>2
<1>4. IsFiniteSet(N) /\ Cardinality(N) = nPoolSzie
  BY <1>1, FS_Interval
<1>5. IsFiniteSet(1 .. n) /\ Cardinality(1 .. n) = n
  BY FS_Interval
<1> SUFFICES ASSUME n > nPoolSzie PROVE FALSE
  BY <1>1
<1>6. PICK i \in 1 .. n, j \in 1 .. n : i # j /\ f[i] = f[j]
  <2>1. Cardinality(N) < Cardinality(1 .. n)
    BY <1>4, <1>5
  <2> HIDE DEF f, N
  <2> QED BY <1>3, <1>4, <1>5, <2>1, FS_PigeonHole
<1>7. s[i] = s[j]
  <2>1. s[i] = <<0, s[i][2]>> /\ s[j] = <<0, s[j][2]>> /\ s[i][2] = s[j][2]
    BY <1>2, <1>6
  <2> QED BY <2>1
<1> QED BY <1>6, <1>7 DEF IsList

------------------------------------------------------------------------------
\* What malloc has given.
HeapHeld == inUse \cap Heap \subseteq malloced

\* The variables of the object pool are well formed.
ObjTypes ==
    /\ sPool \in {"none", "making", "made"}
    /\ objBuf \in Blocks \cup {Null}
    /\ objHeader \in PoolNodes \cup {Null}
    /\ objNext \in [PoolNodes -> PoolNodes \cup {Null}]
    /\ objRef \in [Nodes -> Int]
    /\ objMutex \in Threads \cup {Null}
    /\ step \in [Threads -> {"idle", "static", "buffer", "lock", "take", "node", "free", "link"}]
    /\ node \in [Threads -> Nodes \cup {Null}]
    /\ objects \subseteq Nodes
    /\ plain \subseteq Blocks

\* What a thread knows that makes the pool, or holds its mutex, and which of them may be
\* inside MemoryMgr.
ObjHolding ==
    /\ \A t \in Threads : step[t] \in {"lock", "take", "node", "free", "link"} => sPool = "made"
    /\ \A t \in Threads : step[t] = "buffer" => sPool = "making"
    /\ \A t, u \in Threads : step[t] = "buffer" /\ step[u] = "buffer" => t = u
    /\ \A t \in Threads : step[t] \in {"take", "node", "link"} => objMutex = t
    /\ \A t \in Threads : step[t] = "take" => node[t] = objHeader /\ objHeader # Null
    /\ \A t \in Threads : step[t] = "link" => objNext[node[t]] = objHeader
    /\ \A t \in Threads : step[t] \in {"buffer", "node"} => pc[t] \notin {"free", "link"}
    /\ \A t \in Threads : step[t] \in {"static", "lock", "take", "free", "link"} => pc[t] = "idle"

\* Where a node is, and its references there.
ObjPlaced ==
    /\ \A t \in Threads : step[t] \in {"free", "link"} =>
          /\ node[t] \in PoolNodes /\ node[t] \notin objects
          /\ objRef[node[t]] = IF step[t] = "free" THEN 1 ELSE 0
    /\ \A t, u \in Threads :
          step[t] \in {"free", "link"} /\ step[u] \in {"free", "link"} /\ node[t] = node[u] => t = u
    /\ \A x \in objects : objRef[x] = 1 /\ (x \in PoolNodes => sPool = "made")

FreeNodes == PoolNodes \ (objects \cup BackNode)
ObjList == sPool = "made" => HasList(objHeader, objNext, PoolNodes, FreeNodes)

ObjInv == ObjTypes /\ ObjHolding /\ ObjPlaced /\ ObjList /\ MemoryAccounted

PoolInv == MemInv /\ HeapHeld /\ ObjInv

\* Nodes of the pool are no blocks.
LEMMA NodesAreNoBlocks ==
    /\ PoolNodes \cap Blocks = {} /\ Null \notin PoolNodes /\ Null \notin Blocks
    /\ PoolNodes \subseteq Nodes /\ Blocks \subseteq Nodes
<1>1. PoolNodes \subseteq {0} \X Nat
  BY PoolConstants DEF PoolNodes
<1>2. \A b \in Pooled : b \notin {0} \X Nat
  BY DEF Pooled, Classes
<1>3. Null \notin Blocks
  BY MemoryConstants, PoolOfBlock DEF Blocks
<1> QED BY <1>1, <1>2, <1>3, PoolConstants DEF Blocks, Nodes

------------------------------------------------------------------------------
\* What a step of the allocator does to its caller and to the memory in use: it goes on,
MemoryGoesOn(t) ==
    /\ inUse' = inUse
    /\ \/ pc[t] \in {"alloc", "take"} /\ pc'[t] \in {"take", "unlink"}
       \/ pc[t] \in {"free", "link"} /\ pc'[t] \in {"link", "idle"}

\* or gives the caller a block nobody has,
MemoryGives(t) ==
    /\ pc[t] \in {"idle", "take", "unlink"} /\ pc'[t] = "idle"
    /\ \E b \in Blocks : b \notin inUse /\ inUse' = inUse \cup {b} /\ block'[t] = b

\* and leaves the other threads alone.
OthersKept(t) == \A u \in Threads \ {t} : pc'[u] = pc[u] /\ block'[u] = block[u]

LEMMA MallocEffect ==
    ASSUME MemInv, HeapHeld, NEW t \in Threads, Malloc(t), pc[t] \in {"idle", "take"}
    PROVE  HeapHeld' /\ MemoryGives(t) /\ OthersKept(t)
<1>1. PICK h \in Heap \ malloced :
          /\ malloced' = malloced \cup {h}
          /\ block' = [block EXCEPT ![t] = h]
          /\ inUse' = inUse \cup {h}
          /\ pc' = [pc EXCEPT ![t] = "idle"]
  BY DEF Malloc, Return
<1>2. h \in Blocks /\ h \notin inUse
  BY DEF Blocks, HeapHeld
<1>3. HeapHeld'
  BY <1>1 DEF HeapHeld
<1>4. pc'[t] = "idle" /\ block'[t] = h /\ OthersKept(t)
  BY <1>1 DEF MemInv, TypeOK, OthersKept
<1> QED BY <1>1, <1>2, <1>3, <1>4 DEF MemoryGives

LEMMA AllocEffect ==
    ASSUME MemInv, HeapHeld, NEW t \in Threads, NEW n \in Nat, allocMem(t, n)
    PROVE  /\ HeapHeld' /\ OthersKept(t) /\ pc[t] = "idle"
           /\ (inUse' = inUse /\ pc'[t] = "alloc") \/ MemoryGives(t)
<1>1. CASE n <= MAX_MEMORY_SZIE
  <2>1. /\ pc[t] = "idle" /\ pc' = [pc EXCEPT ![t] = "alloc"]
        /\ UNCHANGED <<block, inUse, malloced>>
    BY <1>1 DEF allocMem
  <2> QED BY <2>1 DEF HeapHeld, OthersKept, MemInv, TypeOK
<1>2. CASE ~(n <= MAX_MEMORY_SZIE)
  <2>1. pc[t] = "idle" /\ Malloc(t)
    BY <1>2 DEF allocMem
  <2> QED BY <2>1, MallocEffect
<1> QED BY <1>1, <1>2

LEMMA InsideEffect ==
    ASSUME MemInv, HeapHeld, NEW t \in Threads, Inside(t)
    PROVE  /\ HeapHeld' /\ OthersKept(t) /\ pc[t] # "idle"
           /\ MemoryGoesOn(t) \/ MemoryGives(t)
<1> USE DEF MemInv
<1>1. CASE LockAlloc(t) \/ Take(t)
  <2>1. /\ pc[t] \in {"alloc", "take"} /\ pc' \in {[pc EXCEPT ![t] = "take"], [pc EXCEPT ![t] = "unlink"]}
        /\ inUse' = inUse /\ malloced' = malloced
        /\ \A u \in Threads \ {t} : block'[u] = block[u]
    BY <1>1 DEF LockAlloc, Take, TypeOK
  <2>2. pc'[t] \in {"take", "unlink"} /\ \A u \in Threads \ {t} : pc'[u] = pc[u]
    BY <2>1 DEF TypeOK
  <2>3. HeapHeld'
    BY <2>1 DEF HeapHeld
  <2>4. pc[t] # "idle"
    BY <2>1
  <2>5. OthersKept(t)
    BY <2>1, <2>2 DEF OthersKept
  <2>6. MemoryGoesOn(t)
    BY <2>1, <2>2 DEF MemoryGoesOn
  <2> QED BY <2>3, <2>4, <2>5, <2>6
<1>2. CASE TakeMalloc(t)
  BY <1>2, MallocEffect DEF TakeMalloc
<1>3. CASE Unlink(t)
  <2>1. /\ pc[t] = "unlink" /\ pc' = [pc EXCEPT ![t] = "idle"]
        /\ inUse' = inUse \cup {block[t]} /\ block' = block /\ malloced' = malloced
    BY <1>3 DEF Unlink, Return
  <2>2. block[t] \in Pooled /\ block[t] \notin inUse /\ block[t] \in Blocks /\ block[t] \notin Heap
    BY <2>1, UnlinkFree, PoolOfBlock
  <2>3. HeapHeld'
    BY <2>1, <2>2 DEF HeapHeld
  <2>4. pc'[t] = "idle" /\ OthersKept(t)
    BY <2>1 DEF OthersKept, TypeOK
  <2> QED BY <2>1, <2>2, <2>3, <2>4 DEF MemoryGives
<1>4. CASE LockFree(t) \/ Link(t)
  <2>1. /\ pc[t] \in {"free", "link"} /\ pc' \in {[pc EXCEPT ![t] = "link"], [pc EXCEPT ![t] = "idle"]}
        /\ inUse' = inUse /\ malloced' = malloced
        /\ \A u \in Threads \ {t} : block'[u] = block[u]
    BY <1>4 DEF LockFree, Link, TypeOK
  <2> QED BY <2>1 DEF HeapHeld, OthersKept, MemoryGoesOn, TypeOK
<1> QED BY <1>1, <1>2, <1>3, <1>4 DEF Inside

LEMMA FreeEffect ==
    ASSUME MemInv, HeapHeld, NEW t \in Threads, NEW b \in Blocks, freeMem(t, b)
    PROVE  /\ HeapHeld' /\ OthersKept(t) /\ pc[t] = "idle" /\ pc'[t] \in {"idle", "free"}
           /\ b \in inUse /\ inUse' = inUse \ {b}
<1>1. pc[t] = "idle" /\ b \in inUse /\ inUse' = inUse \ {b}
  BY DEF freeMem
<1>2. CASE bPool(b)
  <2>1. /\ pc' = [pc EXCEPT ![t] = "free"] /\ block' = [block EXCEPT ![t] = b]
        /\ malloced' = malloced
    BY <1>2 DEF freeMem
  <2> QED BY <1>1, <2>1 DEF HeapHeld, OthersKept, MemInv, TypeOK
<1>3. CASE ~bPool(b)
  <2>1. pc' = pc /\ block' = block /\ malloced' \in {malloced, malloced \ {b}}
    BY <1>3 DEF freeMem
  <2> QED BY <1>1, <2>1 DEF HeapHeld, OthersKept, MemInv, TypeOK
<1> QED BY <1>1, <1>2, <1>3

------------------------------------------------------------------------------
\* One thread at a time waits for memory for the object pool.
LEMMA OneAsks ==
    ASSUME ObjInv, NEW t \in Threads, NEW u \in Threads,
           step[t] \in {"buffer", "node"}, step[u] \in {"buffer", "node"}
    PROVE  t = u
BY DEF ObjInv, ObjHolding

\* The block of such a thread, once it has it, is all there is of Returned.
LEMMA ReturnedIs ==
    ASSUME ObjInv, NEW t \in Threads, step[t] \in {"buffer", "node"}
    PROVE  Returned = IF pc[t] = "idle" THEN {block[t]} ELSE {}
<1>1. \A u \in Threads : step[u] \in {"buffer", "node"} => u = t
  BY OneAsks
<1> QED BY <1>1 DEF Returned

\* A step of the allocator in which the object pool does nothing.
LEMMA ObjKept ==
    ASSUME ObjInv, NEW t \in Threads, UNCHANGED <<objectVars, objects>>, OthersKept(t),
           plain' \subseteq Blocks,
           step[t] \in {"buffer", "node"} => pc'[t] \notin {"free", "link"},
           step[t] \in {"static", "lock", "take", "free", "link"} => pc'[t] = "idle"
    PROVE  ObjTypes' /\ ObjHolding' /\ ObjPlaced' /\ ObjList'
<1> USE DEF ObjInv, objectVars
<1>1. ObjTypes'
  BY DEF ObjTypes
<1>2. \A u \in Threads : u # t => pc'[u] = pc[u]
  BY DEF OthersKept
<1>3. ObjHolding'
  BY <1>2 DEF ObjHolding
<1>4. ObjPlaced'
  BY DEF ObjPlaced
<1>5. ObjList'
  BY DEF ObjList, FreeNodes, BackNode
<1> QED BY <1>1, <1>3, <1>4, <1>5

LEMMA ReturnedKept ==
    ASSUME NEW t \in Threads, OthersKept(t), step[t] = "idle", step' = step
    PROVE  Returned' = Returned
<1>1. \A u \in Threads : step'[u] \in {"buffer", "node"} =>
          u # t /\ pc'[u] = pc[u] /\ block'[u] = block[u]
  BY DEF OthersKept
<1> QED BY <1>1 DEF Returned

LEMMA NewStep ==
    ASSUME PoolInv, NEW t \in Threads, NEW n \in Requests, New(t, n)
    PROVE  HeapHeld' /\ ObjInv'
<1> USE DEF PoolInv, ObjInv
<1>1. step[t] = "idle" /\ UNCHANGED <<objectVars, objects>> /\ plain' = plain \cup (inUse' \ inUse)
  BY DEF New, Idle
<1>2. /\ HeapHeld' /\ OthersKept(t)
      /\ inUse' = inUse \/ \E b \in Blocks : b \notin inUse /\ inUse' = inUse \cup {b}
  BY AllocEffect, MemoryConstants DEF New, MemoryGives
<1>3. plain' \subseteq Blocks
  BY <1>1, <1>2 DEF ObjTypes
<1>4. ObjTypes' /\ ObjHolding' /\ ObjPlaced' /\ ObjList'
  BY <1>1, <1>2, <1>3, ObjKept
<1>5. Returned' = Returned
  BY <1>1, <1>2, ReturnedKept DEF objectVars
<1>6. MemoryAccounted'
  BY <1>1, <1>2, <1>5 DEF MemoryAccounted, objectVars
<1> QED BY <1>2, <1>4, <1>6

LEMMA DeleteStep ==
    ASSUME PoolInv, NEW t \in Threads, NEW b \in Blocks, Delete(t, b)
    PROVE  HeapHeld' /\ ObjInv'
<1> USE DEF PoolInv, ObjInv
<1>1. step[t] = "idle" /\ UNCHANGED <<objectVars, objects>> /\ b \in plain /\ plain' = plain \ {b}
  BY DEF Delete, Idle
<1>2. HeapHeld' /\ OthersKept(t) /\ inUse' = inUse \ {b}
  BY FreeEffect DEF Delete
<1>3. plain' \subseteq Blocks
  BY <1>1 DEF ObjTypes
<1>4. ObjTypes' /\ ObjHolding' /\ ObjPlaced' /\ ObjList'
  BY <1>1, <1>2, <1>3, ObjKept
<1>5. Returned' = Returned
  BY <1>1, <1>2, ReturnedKept DEF objectVars
<1>6. MemoryAccounted'
  BY <1>1, <1>2, <1>5 DEF MemoryAccounted, objectVars
<1> QED BY <1>2, <1>4, <1>6

LEMMA InsideMgrStep ==
    ASSUME PoolInv, NEW t \in Threads, InsideMgr(t)
    PROVE  HeapHeld' /\ ObjInv'
<1> USE DEF PoolInv, ObjInv
<1>1. /\ UNCHANGED <<objectVars, objects>>
      /\ plain' = plain \cup (IF step[t] = "idle" THEN inUse' \ inUse ELSE {})
  BY DEF InsideMgr
<1>2. HeapHeld' /\ OthersKept(t) /\ pc[t] # "idle" /\ (MemoryGoesOn(t) \/ MemoryGives(t))
  BY InsideEffect DEF InsideMgr
<1>3. inUse' = inUse \/ \E b \in Blocks : b \notin inUse /\ inUse' = inUse \cup {b}
  BY <1>2 DEF MemoryGoesOn, MemoryGives
<1>4. plain' \subseteq Blocks
  BY <1>1, <1>3 DEF ObjTypes
<1>5. CASE step[t] = "idle"
  <2>1. ObjTypes' /\ ObjHolding' /\ ObjPlaced' /\ ObjList'
    BY <1>1, <1>2, <1>4, <1>5, ObjKept
  <2>2. Returned' = Returned
    BY <1>1, <1>2, <1>5, ReturnedKept DEF objectVars
  <2>3. MemoryAccounted'
    BY <1>1, <1>3, <1>5, <2>2 DEF MemoryAccounted, objectVars
  <2> QED BY <1>2, <2>1, <2>3
<1>6. CASE step[t] # "idle"
  <2>1. step[t] \in {"buffer", "node"} /\ pc[t] \notin {"free", "link"}
    BY <1>2, <1>6 DEF ObjTypes, ObjHolding
  <2>2. pc'[t] \notin {"free", "link"}
    BY <1>2, <2>1 DEF MemoryGoesOn, MemoryGives
  <2>3. ObjTypes' /\ ObjHolding' /\ ObjPlaced' /\ ObjList'
    BY <1>1, <1>2, <1>4, <2>1, <2>2, ObjKept
  <2>4. Returned = {} /\ plain' = plain
    BY <1>1, <1>2, <1>6, <2>1, ReturnedIs
  <2>5. \A u \in Threads : step'[u] \in {"buffer", "node"} <=> u = t
    BY <1>1, <2>1, OneAsks DEF objectVars
  <2>6. Returned' = IF pc'[t] = "idle" THEN {block'[t]} ELSE {}
    BY <2>5 DEF Returned
  <2>7. CASE MemoryGoesOn(t)
    <3>1. inUse' = inUse /\ Returned' = {}
      BY <2>1, <2>6, <2>7 DEF MemoryGoesOn
    <3> QED BY <1>1, <1>2, <2>3, <2>4, <3>1 DEF MemoryAccounted, objectVars
  <2>8. CASE MemoryGives(t)
    <3>1. PICK b \in Blocks : b \notin inUse /\ inUse' = inUse \cup {b} /\ Returned' = {b}
      BY <2>6, <2>8 DEF MemoryGives
    <3> QED BY <1>1, <1>2, <2>3, <2>4, <3>1 DEF MemoryAccounted, objectVars
  <2> QED BY <1>2, <2>7, <2>8
<1> QED BY <1>5, <1>6

LEMMA CreateObjectStep ==
    ASSUME PoolInv, NEW t \in Threads, createObject(t)
    PROVE  HeapHeld' /\ ObjInv'
<1> USE DEF PoolInv, ObjInv, memoryVars, vars
<1>1. /\ step[t] = "idle" /\ pc[t] = "idle" /\ step' = [step EXCEPT ![t] = "static"]
      /\ UNCHANGED <<vars, sPool, objBuf, objHeader, objNext, objRef, objMutex, node, objects, plain>>
  BY DEF createObject, Idle, Goto
<1>2. step'[t] = "static" /\ \A u \in Threads : u # t => step'[u] = step[u]
  BY <1>1 DEF ObjTypes
<1>3. ObjTypes'
  BY <1>1 DEF ObjTypes
<1>4. ObjHolding'
  BY <1>1, <1>2 DEF ObjHolding
<1>5. ObjPlaced'
  BY <1>1, <1>2 DEF ObjPlaced
<1>6. BackNode' = BackNode /\ Returned' = Returned
  BY <1>1, <1>2 DEF BackNode, Returned
<1>7. ObjList'
  BY <1>1, <1>6 DEF ObjList, FreeNodes
<1>8. MemoryAccounted'
  BY <1>1, <1>6 DEF MemoryAccounted
<1> QED BY <1>1, <1>3, <1>4, <1>5, <1>7, <1>8 DEF HeapHeld

LEMMA ObjectPoolStep ==
    ASSUME PoolInv, NEW t \in Threads, objectPool(t)
    PROVE  HeapHeld' /\ ObjInv'
<1> USE DEF PoolInv, ObjInv
<1>1. /\ step[t] = "static" /\ pc[t] = "idle"
      /\ UNCHANGED <<objBuf, objHeader, objNext, objRef, objMutex, node, objects, plain>>
  BY DEF objectPool, ObjHolding
<1>2. CASE sPool = "made" /\ step' = [step EXCEPT ![t] = "lock"] /\ UNCHANGED <<vars, sPool>>
  <2>0. UNCHANGED <<pc, block, inUse, malloced>>
    BY <1>2 DEF vars
  <2>1. step'[t] = "lock" /\ \A u \in Threads : u # t => step'[u] = step[u]
    BY <1>2 DEF ObjTypes
  <2>2. ObjTypes'
    BY <1>1, <1>2 DEF ObjTypes
  <2>3. ObjHolding'
    BY <1>1, <1>2, <2>0, <2>1 DEF ObjHolding
  <2>4. ObjPlaced'
    BY <1>1, <1>2, <2>1 DEF ObjPlaced
  <2>5. BackNode' = BackNode /\ Returned' = Returned
    BY <1>1, <2>0, <2>1 DEF BackNode, Returned
  <2>6. ObjList' /\ MemoryAccounted'
    BY <1>1, <1>2, <2>0, <2>5 DEF ObjList, FreeNodes, MemoryAccounted
  <2> QED BY <2>0, <2>2, <2>3, <2>4, <2>6 DEF HeapHeld
<1>3. CASE /\ sPool = "none" /\ sPool' = "making" /\ step' = [step EXCEPT ![t] = "buffer"]
           /\ allocMem(t, nPoolSzie * NodeSize)
  <2>1. step'[t] = "buffer" /\ \A u \in Threads : u # t => step'[u] = step[u]
    BY <1>3 DEF ObjTypes
  <2>2. /\ HeapHeld' /\ OthersKept(t)
        /\ (inUse' = inUse /\ pc'[t] = "alloc") \/ MemoryGives(t)
    <3>1. nPoolSzie * NodeSize \in Nat
      BY PoolConstants
    <3> QED BY <1>3, <3>1, AllocEffect
  <2>3. pc'[t] \notin {"free", "link"} /\ \A u \in Threads : u # t => pc'[u] = pc[u]
    BY <2>2 DEF MemoryGives, OthersKept
  <2>4. \A u \in Threads : step[u] \notin {"buffer", "node"}
    BY <1>3 DEF ObjHolding
  <2>5. ObjTypes'
    BY <1>1, <1>3 DEF ObjTypes
  <2>6. ObjHolding'
    BY <1>1, <1>3, <2>1, <2>3, <2>4 DEF ObjHolding
  <2>7. ObjPlaced'
    BY <1>1, <1>3, <2>1 DEF ObjPlaced, ObjHolding
  <2>8. ObjList'
    BY <1>3 DEF ObjList
  <2>9. Returned = {}
    BY <2>4 DEF Returned
  <2>10. Returned' = IF pc'[t] = "idle" THEN {block'[t]} ELSE {}
    <3>1. \A u \in Threads : step'[u] \in {"buffer", "node"} <=> u = t
      BY <2>1, <2>4
    <3> QED BY <3>1 DEF Returned
  <2>11. CASE inUse' = inUse /\ pc'[t] = "alloc"
    <3>1. Returned' = {}
      BY <2>10, <2>11
    <3>2. MemoryAccounted'
      BY <1>1, <1>3, <2>9, <2>11, <3>1 DEF MemoryAccounted
    <3> QED BY <2>2, <2>5, <2>6, <2>7, <2>8, <3>2
  <2>12. CASE MemoryGives(t)
    <3>1. PICK b \in Blocks : b \notin inUse /\ inUse' = inUse \cup {b} /\ Returned' = {b}
      BY <2>10, <2>12 DEF MemoryGives
    <3>2. MemoryAccounted'
      BY <1>1, <1>3, <2>9, <3>1 DEF MemoryAccounted
    <3> QED BY <2>2, <2>5, <2>6, <2>7, <2>8, <3>2
  <2> QED BY <2>2, <2>11, <2>12
<1> QED BY <1>2, <1>3 DEF objectPool, Goto, memoryVars

\* _pBuf is the list of all the nodes, in their order.
LEMMA InitPoolStep ==
    ASSUME PoolInv, NEW t \in Threads, initPool(t)
    PROVE  HeapHeld' /\ ObjInv'
<1> USE DEF PoolInv, ObjInv
<1>1. /\ step[t] = "buffer" /\ pc[t] = "idle" /\ sPool = "making"
      /\ objBuf' = block[t] /\ objHeader' = <<0, 0>> /\ sPool' = "made"
      /\ objNext' = [x \in PoolNodes |-> IF x[2] + 1 < nPoolSzie THEN <<0, x[2] + 1>> ELSE Null]
      /\ objRef' = [x \in Nodes |-> IF x \in PoolNodes THEN 0 ELSE objRef[x]]
      /\ step' = [step EXCEPT ![t] = "lock"]
      /\ UNCHANGED <<objMutex, node, objects, plain>>
  BY DEF initPool, Goto, ObjHolding
<1>2. UNCHANGED <<pc, block, inUse, malloced>>
  BY DEF initPool, memoryVars, vars
<1>3. step'[t] = "lock" /\ \A u \in Threads : u # t => step'[u] = step[u]
  BY <1>1 DEF ObjTypes
<1>4. Returned = {block[t]} /\ block[t] \in Blocks
  <2>1. Returned = {block[t]}
    BY <1>1, ReturnedIs
  <2> QED BY <2>1 DEF MemoryAccounted, MemInv, TypeOK
<1>5. \A u \in Threads : step'[u] \notin {"buffer", "node", "take", "free", "link"}
  BY <1>1, <1>3 DEF ObjHolding
<1>6. Returned' = {} /\ BackNode' = {}
  BY <1>5 DEF Returned, BackNode
<1>7. \A x \in objects : x \notin PoolNodes /\ objRef'[x] = 1
  BY <1>1 DEF ObjPlaced, ObjTypes
<1>8. ObjTypes'
  <2>1. <<0, 0>> \in PoolNodes
    BY PoolConstants DEF PoolNodes
  <2>2. \A x \in PoolNodes : x[2] + 1 < nPoolSzie => <<0, x[2] + 1>> \in PoolNodes
    BY PoolConstants DEF PoolNodes
  <2>3. objNext' \in [PoolNodes -> PoolNodes \cup {Null}]
    BY <1>1, <2>2
  <2>4. objRef' \in [Nodes -> Int]
    BY <1>1 DEF ObjTypes
  <2> QED BY <1>1, <1>4, <2>1, <2>3, <2>4 DEF ObjTypes
<1>9. ObjHolding'
  BY <1>1, <1>2, <1>3, <1>5 DEF ObjHolding
<1>10. ObjPlaced'
  BY <1>1, <1>5, <1>7 DEF ObjPlaced
<1>11. ObjList'
  <2> DEFINE s == [i \in 1 .. nPoolSzie |-> <<0, i - 1>>]
  <2>0. nPoolSzie \in Nat \ {0}
    BY PoolConstants
  <2>1. s \in [1 .. nPoolSzie -> PoolNodes]
    BY <2>0 DEF PoolNodes
  <2>2. objHeader' = s[1]
    BY <1>1, <2>0
  <2>3. \A i \in 1 .. nPoolSzie : objNext'[s[i]] = IF i = nPoolSzie THEN Null ELSE s[i + 1]
    <3> SUFFICES ASSUME NEW i \in 1 .. nPoolSzie
                 PROVE  objNext'[s[i]] = IF i = nPoolSzie THEN Null ELSE s[i + 1]
      OBVIOUS
    <3>1. s[i] \in PoolNodes /\ s[i][2] = i - 1
      BY <2>1
    <3>2. objNext'[s[i]] = IF s[i][2] + 1 < nPoolSzie THEN <<0, s[i][2] + 1>> ELSE Null
      BY <1>1, <3>1
    <3>3. i + 1 \in 1 .. nPoolSzie => s[i + 1] = <<0, i>>
      BY <2>0
    <3>4. i # nPoolSzie <=> i + 1 \in 1 .. nPoolSzie
      BY <2>0
    <3>5. s[i][2] + 1 = i
      BY <3>1
    <3> QED BY <2>0, <3>2, <3>3, <3>4, <3>5
  <2>4. \A i, j \in 1 .. nPoolSzie : s[i] = s[j] => i = j
    OBVIOUS
  <2>5. {s[i] : i \in 1 .. nPoolSzie} = PoolNodes
    <3>1. ASSUME NEW x \in PoolNodes PROVE \E i \in 1 .. nPoolSzie : x = s[i]
      <4>1. x = <<0, x[2]>> /\ x[2] \in 0 .. nPoolSzie - 1
        BY DEF PoolNodes
      <4>2. x[2] + 1 \in 1 .. nPoolSzie /\ s[x[2] + 1] = <<0, x[2]>>
        BY <2>0, <4>1
      <4> QED BY <4>1, <4>2
    <3> QED BY <2>1, <3>1
  <2>6. FreeNodes' = PoolNodes
    BY <1>1, <1>6, <1>7 DEF FreeNodes
  <2> HIDE DEF s
  <2>7. IsList(objHeader', objNext', PoolNodes, nPoolSzie, s)
    BY <2>0, <2>2, <2>3, <2>4, <2>5 DEF IsList
  <2>8. HasList(objHeader', objNext', PoolNodes, PoolNodes)
    BY <2>0, <2>1, <2>7 DEF HasList
  <2> QED BY <2>6, <2>8 DEF ObjList
<1>12. MemoryAccounted'
  BY <1>1, <1>2, <1>4, <1>6 DEF MemoryAccounted
<1> QED BY <1>2, <1>8, <1>9, <1>10, <1>11, <1>12 DEF HeapHeld

LEMMA LockObjStep ==
    ASSUME PoolInv, NEW t \in Threads, LockObj(t)
    PROVE  HeapHeld' /\ ObjInv'
<1> USE DEF PoolInv, ObjInv
<1>1. /\ step[t] = "lock" /\ pc[t] = "idle" /\ sPool = "made" /\ objMutex = Null
      /\ objMutex' = t /\ node' = [node EXCEPT ![t] = objHeader]
      /\ UNCHANGED <<sPool, objBuf, objHeader, objNext, objRef, objects, plain>>
  BY DEF LockObj, ObjHolding
<1>2. PICK s \in {"node", "take"} :
          /\ step' = [step EXCEPT ![t] = s]
          /\ s = IF objHeader = Null THEN "node" ELSE "take"
          /\ s = "node" => allocMem(t, NodeSize)
          /\ s = "take" => UNCHANGED vars
  BY DEF LockObj, Goto, memoryVars
<1>3. /\ step'[t] = s /\ node'[t] = objHeader
      /\ \A u \in Threads : u # t => step'[u] = step[u] /\ node'[u] = node[u]
  BY <1>1, <1>2 DEF ObjTypes
<1>4. \A u \in Threads : step[u] \notin {"take", "node", "link", "buffer"}
  BY <1>1, MemoryConstants DEF ObjHolding
<1>5. /\ HeapHeld' /\ OthersKept(t)
      /\ \/ inUse' = inUse /\ (s = "node" => pc'[t] = "alloc") /\ (s = "take" => pc'[t] = "idle")
         \/ s = "node" /\ MemoryGives(t)
  <2>1. CASE s = "node"
    BY <1>2, <2>1, AllocEffect, PoolConstants
  <2>2. CASE s = "take"
    BY <1>1, <1>2, <2>2 DEF vars, HeapHeld, OthersKept
  <2> QED BY <2>1, <2>2
<1>6. ObjTypes'
  <2>1. objHeader \in Nodes \cup {Null}
    BY NodesAreNoBlocks DEF ObjTypes
  <2>2. node' \in [Threads -> Nodes \cup {Null}]
    BY <1>1, <2>1 DEF ObjTypes
  <2>3. step' \in [Threads -> {"idle", "static", "buffer", "lock", "take", "node", "free", "link"}]
    BY <1>2 DEF ObjTypes
  <2> QED BY <1>1, <2>2, <2>3 DEF ObjTypes
<1>7. ObjHolding'
  <2>1. \A u \in Threads : u # t => pc'[u] = pc[u]
    BY <1>5 DEF OthersKept
  <2>2. s = "take" => pc'[t] = "idle"
    BY <1>5
  <2>3. s = "node" => pc'[t] \notin {"free", "link"}
    BY <1>5 DEF MemoryGives
  <2> QED BY <1>1, <1>2, <1>3, <1>4, <2>1, <2>2, <2>3 DEF ObjHolding
<1>8. ObjPlaced'
  BY <1>1, <1>2, <1>3 DEF ObjPlaced
<1>9. BackNode' = BackNode
  BY <1>1, <1>2, <1>3 DEF BackNode
<1>10. ObjList'
  BY <1>1, <1>9 DEF ObjList, FreeNodes
<1>11. Returned = {}
  BY <1>4 DEF Returned
<1>12. Returned' = IF s = "node" /\ pc'[t] = "idle" THEN {block'[t]} ELSE {}
  <2>1. \A u \in Threads : step'[u] \in {"buffer", "node"} <=> u = t /\ s = "node"
    BY <1>2, <1>3, <1>4
  <2> QED BY <2>1 DEF Returned
<1>13. MemoryAccounted'
  <2>1. CASE s = "node" /\ MemoryGives(t)
    <3>1. PICK b \in Blocks : b \notin inUse /\ inUse' = inUse \cup {b} /\ Returned' = {b}
      BY <1>12, <2>1 DEF MemoryGives
    <3> QED BY <1>1, <1>11, <3>1 DEF MemoryAccounted
  <2>2. CASE ~(s = "node" /\ MemoryGives(t))
    <3>1. inUse' = inUse /\ Returned' = {}
      BY <1>2, <1>5, <1>12, <2>2
    <3> QED BY <1>1, <1>11, <3>1 DEF MemoryAccounted
  <2> QED BY <2>1, <2>2
<1> QED BY <1>5, <1>6, <1>7, <1>8, <1>10, <1>13

\* Holding the mutex, a thread is alone with the list.
LEMMA HolderAlone ==
    ASSUME ObjInv, NEW t \in Threads, step[t] \in {"take", "node", "link"}
    PROVE  \A u \in Threads : u # t => step[u] \notin {"take", "node", "link", "buffer"}
BY DEF ObjInv, ObjHolding

LEMMA TakeNodeStep ==
    ASSUME PoolInv, NEW t \in Threads, TakeNode(t)
    PROVE  HeapHeld' /\ ObjInv'
<1> USE DEF PoolInv, ObjInv
<1>1. PICK x : x = objHeader
  OBVIOUS
<1>2. /\ step[t] = "take" /\ pc[t] = "idle" /\ sPool = "made" /\ node[t] = x /\ x # Null
      /\ objHeader' = objNext[x] /\ objRef' = [objRef EXCEPT ![x] = 1]
      /\ objects' = objects \cup {x} /\ objMutex' = Null
      /\ step' = [step EXCEPT ![t] = "idle"] /\ node' = [node EXCEPT ![t] = Null]
      /\ UNCHANGED <<sPool, objBuf, objNext, plain>>
  BY <1>1 DEF TakeNode, HandOut, Done, Goto, ObjHolding
<1>3. UNCHANGED <<pc, block, inUse, malloced>>
  BY DEF TakeNode, memoryVars, vars
<1>4. x \in FreeNodes /\ HasList(objNext[x], objNext, PoolNodes, FreeNodes \ {x})
  BY <1>1, <1>2, ListUnlinked DEF ObjList
<1>5. x \in PoolNodes /\ x \in Nodes /\ x \notin Blocks /\ x \notin objects /\ x \notin BackNode
  BY <1>4, NodesAreNoBlocks DEF FreeNodes
<1>6. /\ step'[t] = "idle"
      /\ \A u \in Threads : u # t => step'[u] = step[u] /\ node'[u] = node[u]
      /\ objRef'[x] = 1 /\ \A y \in Nodes : y # x => objRef'[y] = objRef[y]
  BY <1>2, <1>5 DEF ObjTypes
<1>7. ObjTypes'
  BY <1>2, <1>5 DEF ObjTypes
<1>8. ObjHolding'
  <2>1. \A u \in Threads : step'[u] \notin {"take", "node", "link", "buffer"}
    BY <1>2, <1>6, HolderAlone
  <2> QED BY <1>2, <1>3, <1>6, <2>1 DEF ObjHolding
<1>9. \A u \in Threads : step[u] \in {"free", "link"} => node[u] # x /\ node[u] \in Nodes
  BY <1>5, NodesAreNoBlocks DEF BackNode, ObjPlaced
<1>10. ObjPlaced'
  <2>1. \A y \in objects' : objRef'[y] = 1 /\ (y \in PoolNodes => sPool' = "made")
    BY <1>2, <1>6 DEF ObjPlaced, ObjTypes
  <2>2. \A u \in Threads : step'[u] \in {"free", "link"} =>
            u # t /\ step[u] = step'[u] /\ node'[u] = node[u]
    BY <1>6
  <2> QED BY <1>2, <1>6, <1>9, <2>1, <2>2 DEF ObjPlaced
<1>11. BackNode' = BackNode /\ Returned' = Returned
  BY <1>2, <1>3, <1>6 DEF BackNode, Returned
<1>12. ObjList'
  <2>1. FreeNodes' = FreeNodes \ {x}
    BY <1>2, <1>11 DEF FreeNodes
  <2> QED BY <1>2, <1>4, <2>1 DEF ObjList
<1>13. MemoryAccounted'
  BY <1>2, <1>3, <1>5, <1>11 DEF MemoryAccounted
<1> QED BY <1>3, <1>7, <1>8, <1>10, <1>12, <1>13 DEF HeapHeld

LEMMA TakeNewStep ==
    ASSUME PoolInv, NEW t \in Threads, TakeNew(t)
    PROVE  HeapHeld' /\ ObjInv'
<1> USE DEF PoolInv, ObjInv
<1>1. PICK x : x = block[t]
  OBVIOUS
<1>2. /\ step[t] = "node" /\ pc[t] = "idle" /\ sPool = "made"
      /\ objRef' = [objRef EXCEPT ![x] = 1]
      /\ objects' = objects \cup {x} /\ objMutex' = Null
      /\ step' = [step EXCEPT ![t] = "idle"] /\ node' = [node EXCEPT ![t] = Null]
      /\ UNCHANGED <<sPool, objBuf, objHeader, objNext, plain>>
  BY <1>1 DEF TakeNew, HandOut, Done, Goto, ObjHolding
<1>3. UNCHANGED <<pc, block, inUse, malloced>>
  BY DEF TakeNew, memoryVars, vars
<1>4. Returned = {x}
  BY <1>1, <1>2, ReturnedIs
<1>5. x \in Blocks /\ x \in Nodes /\ x \notin PoolNodes
  <2>1. x \in Blocks
    BY <1>4 DEF MemoryAccounted, MemInv, TypeOK
  <2> QED BY <2>1, NodesAreNoBlocks
<1>6. /\ step'[t] = "idle"
      /\ \A u \in Threads : u # t => step'[u] = step[u] /\ node'[u] = node[u]
      /\ objRef'[x] = 1 /\ \A y \in Nodes : y # x => objRef'[y] = objRef[y]
  BY <1>2, <1>5 DEF ObjTypes
<1>7. ObjTypes'
  BY <1>2, <1>5 DEF ObjTypes
<1>8. \A u \in Threads : step'[u] \notin {"take", "node", "link", "buffer"}
  BY <1>2, <1>6, HolderAlone
<1>9. ObjHolding'
  BY <1>2, <1>3, <1>6, <1>8 DEF ObjHolding
<1>10. ObjPlaced'
  <2>1. \A y \in objects' : objRef'[y] = 1 /\ (y \in PoolNodes => sPool' = "made")
    BY <1>2, <1>6 DEF ObjPlaced, ObjTypes
  <2>2. \A u \in Threads : step'[u] \in {"free", "link"} =>
            u # t /\ step[u] = step'[u] /\ node'[u] = node[u] /\ node[u] # x /\ node[u] \in Nodes
    BY <1>5, <1>6, NodesAreNoBlocks DEF ObjPlaced
  <2> QED BY <1>2, <1>6, <2>1, <2>2 DEF ObjPlaced
<1>11. BackNode' = BackNode /\ Returned' = {}
  BY <1>2, <1>6, <1>8 DEF BackNode, Returned
<1>12. ObjList'
  <2>1. FreeNodes' = FreeNodes
    BY <1>2, <1>5, <1>11 DEF FreeNodes
  <2> QED BY <1>2, <2>1 DEF ObjList
<1>13. MemoryAccounted'
  BY <1>2, <1>3, <1>4, <1>5, <1>11 DEF MemoryAccounted
<1> QED BY <1>3, <1>7, <1>9, <1>10, <1>12, <1>13 DEF HeapHeld

LEMMA DestroyObjectStep ==
    ASSUME PoolInv, NEW t \in Threads, NEW x \in Nodes, destroyObject(t, x)
    PROVE  HeapHeld' /\ ObjInv'
<1> USE DEF PoolInv, ObjInv
<1>1. /\ step[t] = "idle" /\ pc[t] = "idle" /\ x \in objects /\ objRef[x] = 1
      /\ objects' = objects \ {x}
      /\ UNCHANGED <<sPool, objBuf, objHeader, objNext, objMutex, plain>>
  BY DEF destroyObject, Idle, ObjPlaced
<1>2. \A u \in Threads : step[u] \in {"free", "link"} => node[u] # x
  BY <1>1 DEF ObjPlaced
<1>3. CASE x \in PoolNodes
  <2>1. /\ step' = [step EXCEPT ![t] = "free"] /\ node' = [node EXCEPT ![t] = x]
        /\ UNCHANGED <<pc, block, inUse, malloced, objRef>>
    BY <1>3 DEF destroyObject, Goto, memoryVars, vars
  <2>2. /\ step'[t] = "free" /\ node'[t] = x
        /\ \A u \in Threads : u # t => step'[u] = step[u] /\ node'[u] = node[u]
    BY <2>1 DEF ObjTypes
  <2>3. sPool = "made"
    BY <1>1, <1>3 DEF ObjPlaced
  <2>4. ObjTypes'
    BY <1>1, <2>1 DEF ObjTypes
  <2>5. ObjHolding'
    BY <1>1, <2>1, <2>2, <2>3 DEF ObjHolding
  <2>6. ObjPlaced'
    BY <1>1, <1>2, <1>3, <2>1, <2>2 DEF ObjPlaced
  <2>7. BackNode' = BackNode \cup {x} /\ Returned' = Returned
    BY <1>1, <2>1, <2>2 DEF BackNode, Returned
  <2>8. FreeNodes' = FreeNodes
    BY <1>1, <2>7 DEF FreeNodes
  <2>9. ObjList'
    BY <1>1, <2>8 DEF ObjList
  <2>10. MemoryAccounted'
    BY <1>1, <1>3, <2>1, <2>7, NodesAreNoBlocks DEF MemoryAccounted
  <2> QED BY <2>1, <2>4, <2>5, <2>6, <2>9, <2>10 DEF HeapHeld
<1>4. CASE x \notin PoolNodes
  <2>1. objRef' = [objRef EXCEPT ![x] = 0] /\ UNCHANGED <<step, node>>
    BY <1>1, <1>4 DEF destroyObject, ObjTypes
  <2>2. objRef'[x] = 0 /\ \A y \in Nodes : y # x => objRef'[y] = objRef[y]
    BY <2>1 DEF ObjTypes
  <2>3. freeMem(t, x) /\ x \in Blocks
    BY <1>4, <2>2 DEF destroyObject, Nodes
  <2>4. HeapHeld' /\ OthersKept(t) /\ inUse' = inUse \ {x}
    BY <2>3, FreeEffect
  <2>5. ObjTypes'
    BY <1>1, <2>1 DEF ObjTypes
  <2>6. ObjHolding'
    BY <1>1, <2>1, <2>4 DEF ObjHolding, OthersKept
  <2>7. ObjPlaced'
    <3>1. \A y \in objects' : objRef'[y] = 1 /\ (y \in PoolNodes => sPool' = "made")
      BY <1>1, <2>2 DEF ObjPlaced, ObjTypes
    <3>2. \A u \in Threads : step[u] \in {"free", "link"} =>
              node[u] # x /\ node[u] \in Nodes
      BY <1>2, NodesAreNoBlocks DEF ObjPlaced
    <3> QED BY <1>1, <2>1, <2>2, <3>1, <3>2 DEF ObjPlaced
  <2>8. BackNode' = BackNode /\ Returned' = Returned
    BY <1>1, <2>1, <2>4, ReturnedKept DEF BackNode
  <2>9. FreeNodes' = FreeNodes
    BY <1>1, <1>4, <2>8 DEF FreeNodes
  <2>10. ObjList'
    BY <1>1, <2>9 DEF ObjList
  <2>11. MemoryAccounted'
    BY <1>1, <2>3, <2>4, <2>8 DEF MemoryAccounted
  <2> QED BY <2>4, <2>5, <2>6, <2>7, <2>10, <2>11
<1> QED BY <1>3, <1>4

LEMMA LockFreeNodeStep ==
    ASSUME PoolInv, NEW t \in Threads, LockFreeNode(t)
    PROVE  HeapHeld' /\ ObjInv'
<1> USE DEF PoolInv, ObjInv
<1>1. PICK x : x = node[t]
  OBVIOUS
<1>2. /\ step[t] = "free" /\ pc[t] = "idle" /\ sPool = "made" /\ objMutex = Null
      /\ x \in PoolNodes /\ x \in Nodes /\ x \notin objects /\ objRef[x] = 1
  BY <1>1, NodesAreNoBlocks DEF LockFreeNode, ObjHolding, ObjPlaced
<1>3. objRef' = [objRef EXCEPT ![x] = 0]
  BY <1>1, <1>2 DEF LockFreeNode
<1>4. objRef'[x] = 0 /\ \A y \in Nodes : y # x => objRef'[y] = objRef[y]
  BY <1>2, <1>3 DEF ObjTypes
<1>5. /\ objMutex' = t /\ step' = [step EXCEPT ![t] = "link"]
      /\ objNext' = [objNext EXCEPT ![x] = objHeader]
      /\ UNCHANGED <<node, sPool, objBuf, objHeader, objects, plain>>
  BY <1>1, <1>4 DEF LockFreeNode, Goto
<1>6. UNCHANGED <<pc, block, inUse, malloced>>
  BY DEF LockFreeNode, memoryVars, vars
<1>7. step'[t] = "link" /\ \A u \in Threads : u # t => step'[u] = step[u]
  BY <1>5 DEF ObjTypes
<1>8. \A u \in Threads : step[u] \notin {"take", "node", "link"}
  BY <1>2, MemoryConstants DEF ObjHolding
<1>9. ObjTypes'
  BY <1>2, <1>3, <1>5 DEF ObjTypes
<1>10. objNext'[x] = objHeader /\ \A y \in PoolNodes : y # x => objNext'[y] = objNext[y]
  BY <1>2, <1>5 DEF ObjTypes
<1>11. ObjHolding'
  BY <1>1, <1>2, <1>5, <1>6, <1>7, <1>8, <1>10 DEF ObjHolding
<1>12. ObjPlaced'
  <2>1. \A u \in Threads \ {t} : step[u] \in {"free", "link"} => node[u] # x /\ node[u] \in Nodes
    BY <1>1, <1>2, NodesAreNoBlocks DEF ObjPlaced
  <2>2. \A y \in objects' : objRef'[y] = 1 /\ (y \in PoolNodes => sPool' = "made")
    BY <1>2, <1>4, <1>5 DEF ObjPlaced, ObjTypes
  <2> QED BY <1>1, <1>2, <1>4, <1>5, <1>7, <2>1, <2>2 DEF ObjPlaced
<1>13. BackNode' = BackNode /\ Returned' = Returned /\ x \in BackNode
  BY <1>1, <1>2, <1>5, <1>6, <1>7 DEF BackNode, Returned
<1>14. ObjList'
  <2>1. FreeNodes' = FreeNodes /\ x \notin FreeNodes /\ FreeNodes \subseteq PoolNodes
    BY <1>5, <1>13 DEF FreeNodes
  <2>2. \A y \in FreeNodes : objNext'[y] = objNext[y]
    BY <1>10, <2>1
  <2>3. HasList(objHeader, objNext, PoolNodes, FreeNodes)
    BY <1>2 DEF ObjList
  <2>4. HasList(objHeader, objNext', PoolNodes, FreeNodes)
    BY <2>2, <2>3, ListRelinked
  <2> QED BY <1>5, <2>1, <2>4 DEF ObjList
<1>15. MemoryAccounted'
  BY <1>5, <1>6, <1>13 DEF MemoryAccounted
<1> QED BY <1>6, <1>9, <1>11, <1>12, <1>14, <1>15 DEF HeapHeld

LEMMA LinkNodeStep ==
    ASSUME PoolInv, NEW t \in Threads, LinkNode(t)
    PROVE  HeapHeld' /\ ObjInv'
<1> USE DEF PoolInv, ObjInv
<1>1. PICK x : x = node[t]
  OBVIOUS
<1>2. /\ step[t] = "link" /\ pc[t] = "idle" /\ sPool = "made"
      /\ x \in PoolNodes /\ x \notin objects /\ objNext[x] = objHeader
      /\ objHeader' = x /\ objMutex' = Null
      /\ step' = [step EXCEPT ![t] = "idle"] /\ node' = [node EXCEPT ![t] = Null]
      /\ UNCHANGED <<sPool, objBuf, objNext, objRef, objects, plain>>
  BY <1>1 DEF LinkNode, Done, Goto, ObjHolding, ObjPlaced
<1>3. UNCHANGED <<pc, block, inUse, malloced>>
  BY DEF LinkNode, memoryVars, vars
<1>4. /\ step'[t] = "idle"
      /\ \A u \in Threads : u # t => step'[u] = step[u] /\ node'[u] = node[u]
  BY <1>2 DEF ObjTypes
<1>5. ObjTypes'
  BY <1>2 DEF ObjTypes
<1>6. \A u \in Threads : step'[u] \notin {"take", "node", "link", "buffer"}
  BY <1>2, <1>4, HolderAlone
<1>7. ObjHolding'
  BY <1>2, <1>3, <1>4, <1>6 DEF ObjHolding
<1>8. ObjPlaced'
  BY <1>2, <1>4 DEF ObjPlaced
<1>9. BackNode' = BackNode \ {x} /\ Returned' = Returned /\ x \in BackNode
  <2>1. \A u \in Threads \ {t} : step[u] \in {"free", "link"} => node[u] # x
    BY <1>1, <1>2 DEF ObjPlaced
  <2> QED BY <1>1, <1>2, <1>3, <1>4, <2>1 DEF BackNode, Returned
<1>10. ObjList'
  <2>1. FreeNodes' = FreeNodes \cup {x} /\ x \notin FreeNodes
    BY <1>2, <1>9 DEF FreeNodes
  <2>2. HasList(objHeader, objNext, PoolNodes, FreeNodes)
    BY <1>2 DEF ObjList
  <2>3. HasList(x, objNext, PoolNodes, FreeNodes \cup {x})
    BY <1>2, <2>1, <2>2, ListLinked
  <2> QED BY <1>2, <2>1, <2>3 DEF ObjList
<1>11. MemoryAccounted'
  BY <1>2, <1>3, <1>9 DEF MemoryAccounted
<1> QED BY <1>3, <1>5, <1>7, <1>8, <1>10, <1>11 DEF HeapHeld

LEMMA PoolStutter ==
    ASSUME PoolInv, UNCHANGED allVars
    PROVE  HeapHeld' /\ ObjInv'
<1> USE DEF PoolInv, ObjInv, allVars, memoryVars, vars, objectVars
<1>1. HeapHeld' /\ ObjTypes' /\ ObjHolding'
  BY DEF HeapHeld, ObjTypes, ObjHolding
<1>2. ObjPlaced' /\ ObjList' /\ MemoryAccounted'
  BY DEF ObjPlaced, ObjList, FreeNodes, BackNode, MemoryAccounted, Returned
<1> QED BY <1>1, <1>2

LEMMA PoolInitially == PoolInit => PoolInv
<1> SUFFICES ASSUME PoolInit PROVE PoolInv
  OBVIOUS
<1>1. MemInv
  BY MemInit DEF PoolInit
<1>2. inUse = {} /\ malloced = {} /\ \A t \in Threads : pc[t] = "idle"
  BY DEF PoolInit, Init
<1>3. \A t \in Threads : step[t] = "idle"
  BY DEF PoolInit
<1>4. ObjTypes
  BY DEF PoolInit, ObjTypes
<1>5. ObjHolding /\ ObjPlaced
  BY <1>3 DEF PoolInit, ObjHolding, ObjPlaced
<1>6. ObjList
  BY DEF PoolInit, ObjList
<1>7. Returned = {}
  BY <1>3 DEF Returned
<1>8. MemoryAccounted
  BY <1>2, <1>7 DEF PoolInit, MemoryAccounted
<1> QED BY <1>1, <1>2, <1>4, <1>5, <1>6, <1>8 DEF PoolInv, ObjInv, HeapHeld

LEMMA PoolStepKeeps == PoolInv /\ [PoolNext]_allVars => PoolInv'
<1> SUFFICES ASSUME PoolInv, [PoolNext]_allVars PROVE PoolInv'
  OBVIOUS
<1>1. MemInv'
  BY MemoryStepKeeps, PoolStepIsMemoryStep DEF PoolInv
<1>2. HeapHeld' /\ ObjInv'
  <2>1. CASE UNCHANGED allVars
    BY <2>1, PoolStutter
  <2>2. ASSUME NEW t \in Threads, NEW n \in Requests, New(t, n) PROVE HeapHeld' /\ ObjInv'
    BY <2>2, NewStep
  <2>3. ASSUME NEW t \in Threads, NEW b \in Blocks, Delete(t, b) PROVE HeapHeld' /\ ObjInv'
    BY <2>3, DeleteStep
  <2>4. ASSUME NEW t \in Threads, InsideMgr(t) PROVE HeapHeld' /\ ObjInv'
    BY <2>4, InsideMgrStep
  <2>5. ASSUME NEW t \in Threads, createObject(t) \/ objectPool(t) \/ initPool(t)
        PROVE  HeapHeld' /\ ObjInv'
    BY <2>5, CreateObjectStep, ObjectPoolStep, InitPoolStep
  <2>6. ASSUME NEW t \in Threads, LockObj(t) \/ TakeNode(t) \/ TakeNew(t)
        PROVE  HeapHeld' /\ ObjInv'
    BY <2>6, LockObjStep, TakeNodeStep, TakeNewStep
  <2>7. ASSUME NEW t \in Threads, NEW x \in Nodes, destroyObject(t, x)
        PROVE  HeapHeld' /\ ObjInv'
    BY <2>7, DestroyObjectStep
  <2>8. ASSUME NEW t \in Threads, LockFreeNode(t) \/ LinkNode(t) PROVE HeapHeld' /\ ObjInv'
    BY <2>8, LockFreeNodeStep, LinkNodeStep
  <2> QED BY <2>1, <2>2, <2>3, <2>4, <2>5, <2>6, <2>7, <2>8 DEF PoolNext
<1> QED BY <1>1, <1>2 DEF PoolInv

\* The inductive invariant of the object pool over its allocator: what the holder of
\* the pool's mutex knows, where every node is, and both accounts below.
THEOREM PoolInvariant == PoolSpec => []PoolInv
BY PoolInitially, PoolStepKeeps, PTL DEF PoolSpec

\* The list of the object pool is exactly its free nodes, whatever threads do between
\* the two steps of a release (initPool, allocObjMemory, freeObjMemory).
THEOREM PoolListSound == PoolSpec => []ObjectListSound
<1>1. PoolInv => ObjectListSound
  <2> SUFFICES ASSUME PoolInv, sPool = "made"
               PROVE  \E n \in 0 .. nPoolSzie : \E s \in [1 .. n -> PoolNodes] :
                          IsList(objHeader, objNext, FreeNodes, n, s)
    BY DEF ObjectListSound, IsList, FreeNodes
  <2>1. PICK n \in Nat : \E s \in [1 .. n -> PoolNodes] :
            IsList(objHeader, objNext, FreeNodes, n, s)
    BY DEF PoolInv, ObjInv, ObjList, HasList
  <2>2. PICK s \in [1 .. n -> PoolNodes] : IsList(objHeader, objNext, FreeNodes, n, s)
    BY <2>1
  <2>3. n \in 0 .. nPoolSzie
    BY <2>2, ListFits
  <2> QED BY <2>2, <2>3
<1> QED BY <1>1, PoolInvariant, PTL

\* No memory is lost between the two allocators: what MemoryMgr has given is the buffer,
\* an object that found the pool used up, or the program's own memory, and never two.
THEOREM PoolMemoryAccounted == PoolSpec => []MemoryAccounted
<1>1. PoolInv => MemoryAccounted
  BY DEF PoolInv, ObjInv
<1> QED BY <1>1, PoolInvariant, PTL
================================================================================
