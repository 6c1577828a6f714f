------------------------------ MODULE MemoryMgr ------------------------------
(***************************************************************************)
(* The pooled allocator of HelloMemory: MemoryMgr chooses a MemoryAlloc by *)
(* the size asked for, each MemoryAlloc keeps its free blocks in a list    *)
(* linked through the blocks themselves, under its mutex.  A pool that is  *)
(* used up, and a size beyond the largest pool, are served by malloc.      *)
(* Alloctor.cpp makes these the operators new and delete of the program.   *)
(*                                                                         *)
(* A critical section is two steps, what it reads and what it writes, so   *)
(* that the mutex is what keeps two threads apart.  The program may delete *)
(* a block in another thread than it was made in, once.                    *)
(***************************************************************************)
EXTENDS Integers, FiniteSets

CONSTANTS Threads,
          BlockCount,     \* nBlockSzie, blocks of a pool
          Requests,       \* the sizes the program asks for
          Heap,           \* where malloc may put a block
          Null            \* nullptr

Classes == {64, 128, 256, 512, 1024}
MAX_MEMORY_SZIE == 1024

ASSUME MemoryConstants ==
    /\ BlockCount \in Nat \ {0}
    /\ Requests \subseteq Nat
    /\ Heap \cap (Classes \X Nat) = {}
    /\ Null \notin Heap /\ Null \notin Classes \X Nat
    /\ Null \notin Threads

VARIABLES pBuf,      \* the pools whose buffer has been allocated
          pHeader,   \* the first free block of each pool
          pNext,     \* the free block after a block
          nRef,      \* references to a block
          mutex,     \* the thread that holds the mutex of a pool
          pc,        \* where a thread is in new or delete
          size,      \* what it asked for
          block,     \* the block it works on: pReturn, pBlock; what new returned
          inUse,     \* the blocks the program has
          malloced   \* the blocks malloc has given and free has not taken back

vars == <<pBuf, pHeader, pNext, nRef, mutex, pc, size, block, inUse, malloced>>

\* _szAlloc: the pool for each size up to the largest.
RangeBegin(c) == CASE c = 64 -> 0 [] c = 128 -> 65 [] c = 256 -> 129
                   [] c = 512 -> 257 [] c = 1024 -> 513
szAlloc(n) == CHOOSE c \in Classes : RangeBegin(c) <= n /\ n <= c

\* _nSzie: the room in a block of pool c, a multiple of the size of a pointer.
BlockSize(c) == (c \div 8) * 8 + (IF c % 8 = 0 THEN 0 ELSE 8)

\* A block of a pool is known by its pAlloc and its nID.
PoolBlocks(c) == {c} \X (0 .. BlockCount - 1)
Pooled == Classes \X (0 .. BlockCount - 1)
Blocks == Pooled \cup Heap
bPool(b) == b \in Pooled
pAlloc(b) == b[1]

Init ==
    /\ pBuf = {}
    /\ pHeader = [c \in Classes |-> Null]
    /\ pNext = [b \in Blocks |-> Null]
    /\ nRef = [b \in Blocks |-> 0]
    /\ mutex = [c \in Classes |-> Null]
    /\ pc = [t \in Threads |-> "idle"]
    /\ size = [t \in Threads |-> 0]
    /\ block = [t \in Threads |-> Null]
    /\ inUse = {}
    /\ malloced = {}

------------------------------------------------------------------------------
Return(t) ==
    /\ pc' = [pc EXCEPT ![t] = "idle"]
    /\ size' = [size EXCEPT ![t] = 0]

\* malloc gives a block that is not given already; new returns it with one
\* reference.
Malloc(t) ==
    \E h \in Heap \ malloced :
        /\ malloced' = malloced \cup {h}
        /\ nRef' = [nRef EXCEPT ![h] = 1]
        /\ pNext' = [pNext EXCEPT ![h] = Null]
        /\ block' = [block EXCEPT ![t] = h]
        /\ inUse' = inUse \cup {h}
        /\ Return(t)

\* The bound on memory: new is called only while malloc could serve every call.
Room == Cardinality({u \in Threads : pc[u] \in {"alloc", "take", "unlink"}})
            < Cardinality(Heap \ malloced)

allocMem(t, n) ==
    /\ pc[t] = "idle"
    /\ Room
    /\ IF n <= MAX_MEMORY_SZIE
       THEN /\ pc' = [pc EXCEPT ![t] = "alloc"]
            /\ size' = [size EXCEPT ![t] = n]
            /\ UNCHANGED <<pNext, nRef, block, inUse, malloced>>
       ELSE Malloc(t)
    /\ UNCHANGED <<pBuf, pHeader, mutex>>

\* The first block is the header and each links the next one.
initMemory(c) ==
    /\ pBuf' = pBuf \cup {c}
    /\ pHeader' = [pHeader EXCEPT ![c] = <<c, 0>>]
    /\ nRef' = [b \in Blocks |-> IF b \in PoolBlocks(c) THEN 0 ELSE nRef[b]]
    /\ pNext' = [b \in Blocks |->
                   IF b \notin PoolBlocks(c) THEN pNext[b]
                   ELSE IF b[2] + 1 < BlockCount THEN <<c, b[2] + 1>> ELSE Null]

\* Mutant: no lock_guard.
LockAllocUnlocked(t) ==
    LET c == szAlloc(size[t]) IN
    /\ pc[t] = "alloc"
    /\ mutex' = [mutex EXCEPT ![c] = t]
    /\ pc' = [pc EXCEPT ![t] = "take"]
    /\ IF c \in pBuf THEN UNCHANGED <<pBuf, pHeader, nRef, pNext>> ELSE initMemory(c)
    /\ UNCHANGED <<size, block, inUse, malloced>>

LockAlloc(t) ==
    LET c == szAlloc(size[t]) IN
    /\ pc[t] = "alloc"
    /\ mutex[c] = Null
    /\ mutex' = [mutex EXCEPT ![c] = t]
    /\ pc' = [pc EXCEPT ![t] = "take"]
    /\ IF c \in pBuf THEN UNCHANGED <<pBuf, pHeader, nRef, pNext>> ELSE initMemory(c)
    /\ UNCHANGED <<size, block, inUse, malloced>>

\* An empty list: the block comes from malloc.
TakeMalloc(t) ==
    LET c == szAlloc(size[t]) IN
    /\ pc[t] = "take"
    /\ pHeader[c] = Null
    /\ Malloc(t)
    /\ mutex' = [mutex EXCEPT ![c] = Null]
    /\ UNCHANGED <<pBuf, pHeader>>

Take(t) ==
    LET c == szAlloc(size[t]) IN
    /\ pc[t] = "take"
    /\ pHeader[c] # Null
    /\ block' = [block EXCEPT ![t] = pHeader[c]]
    /\ pc' = [pc EXCEPT ![t] = "unlink"]
    /\ UNCHANGED <<pBuf, pHeader, pNext, nRef, mutex, size, inUse, malloced>>

\* Mutant: the block from the list is given no reference.
UnlinkUncounted(t) ==
    LET c == szAlloc(size[t])
        b == block[t] IN
    /\ pc[t] = "unlink"
    /\ pHeader' = [pHeader EXCEPT ![c] = pNext[b]]
    /\ inUse' = inUse \cup {b}
    /\ mutex' = [mutex EXCEPT ![c] = Null]
    /\ Return(t)
    /\ UNCHANGED <<pBuf, pNext, nRef, block, malloced>>

Unlink(t) ==
    LET c == szAlloc(size[t])
        b == block[t] IN
    /\ pc[t] = "unlink"
    /\ pHeader' = [pHeader EXCEPT ![c] = pNext[b]]
    /\ nRef' = [nRef EXCEPT ![b] = 1]
    /\ inUse' = inUse \cup {b}
    /\ mutex' = [mutex EXCEPT ![c] = Null]
    /\ Return(t)
    /\ UNCHANGED <<pBuf, pNext, block, malloced>>

------------------------------------------------------------------------------
\* A block of no pool goes back to malloc, with its last reference.
freeMem(t, b) ==
    /\ pc[t] = "idle"
    /\ b \in inUse
    /\ inUse' = inUse \ {b}
    /\ IF bPool(b)
       THEN /\ pc' = [pc EXCEPT ![t] = "free"]
            /\ block' = [block EXCEPT ![t] = b]
            /\ UNCHANGED <<nRef, malloced>>
       ELSE /\ nRef' = [nRef EXCEPT ![b] = @ - 1]
            /\ malloced' = IF nRef'[b] = 0 THEN malloced \ {b} ELSE malloced
            /\ UNCHANGED <<pc, block>>
    /\ UNCHANGED <<pBuf, pHeader, pNext, mutex, size>>

\* freeMemory, up to pNext = _pHeader.
LockFree(t) ==
    LET b == block[t] IN
    /\ pc[t] = "free"
    /\ mutex[pAlloc(b)] = Null
    /\ nRef' = [nRef EXCEPT ![b] = @ - 1]
    /\ IF nRef'[b] # 0
       THEN /\ pc' = [pc EXCEPT ![t] = "idle"]
            /\ block' = [block EXCEPT ![t] = Null]
            /\ UNCHANGED <<mutex, pNext>>
       ELSE /\ mutex' = [mutex EXCEPT ![pAlloc(b)] = t]
            /\ pNext' = [pNext EXCEPT ![b] = pHeader[pAlloc(b)]]
            /\ pc' = [pc EXCEPT ![t] = "link"]
            /\ UNCHANGED block
    /\ UNCHANGED <<pBuf, pHeader, size, inUse, malloced>>

Link(t) ==
    LET b == block[t] IN
    /\ pc[t] = "link"
    /\ pHeader' = [pHeader EXCEPT ![pAlloc(b)] = b]
    /\ mutex' = [mutex EXCEPT ![pAlloc(b)] = Null]
    /\ pc' = [pc EXCEPT ![t] = "idle"]
    /\ block' = [block EXCEPT ![t] = Null]
    /\ UNCHANGED <<pBuf, pNext, nRef, size, inUse, malloced>>

Inside(t) == LockAlloc(t) \/ TakeMalloc(t) \/ Take(t) \/ Unlink(t) \/ LockFree(t) \/ Link(t)

Next ==
    \E t \in Threads :
        \/ \E n \in Requests : allocMem(t, n)
        \/ \E b \in Blocks : freeMem(t, b)
        \/ Inside(t)

Spec == Init /\ [][Next]_vars

------------------------------------------------------------------------------
TypeOK ==
    /\ pBuf \subseteq Classes
    /\ pHeader \in [Classes -> Pooled \cup {Null}]
    /\ pNext \in [Blocks -> Pooled \cup {Null}]
    /\ nRef \in [Blocks -> Int]
    /\ mutex \in [Classes -> Threads \cup {Null}]
    /\ pc \in [Threads -> {"idle", "alloc", "take", "unlink", "free", "link"}]
    /\ size \in [Threads -> Nat]
    /\ block \in [Threads -> Blocks \cup {Null}]
    /\ inUse \subseteq Blocks
    /\ malloced \subseteq Heap

\* The blocks on their way back into a list.
Returning == {block[t] : t \in {u \in Threads : pc[u] \in {"free", "link"}}}

\* s is the list of the free blocks of pool c.
IsFreeList(c, s, n) ==
    /\ pHeader[c] = IF n = 0 THEN Null ELSE s[1]
    /\ \A i \in 1 .. n : pNext[s[i]] = IF i = n THEN Null ELSE s[i + 1]
    /\ \A i, j \in 1 .. n : s[i] = s[j] => i = j
    /\ {s[i] : i \in 1 .. n} = PoolBlocks(c) \ (inUse \cup Returning)

\* The list of every pool in use holds, once, exactly those of its blocks that
\* are neither in use nor on their way back: no block is lost, and none is in the
\* list of another pool, whatever two threads do with the list (the links set in
\* initMemory, allocMemory and freeMemory).
FreeListSound ==
    \A c \in pBuf : \E n \in 0 .. BlockCount : \E s \in [1 .. n -> PoolBlocks(c)] :
        IsFreeList(c, s, n)

\* No block is handed out while the program, or another thread in new or delete,
\* has it.
HandedOutOnce ==
    /\ \A t \in Threads : pc[t] \in {"unlink", "free", "link"} => block[t] \notin inUse
    /\ \A t, u \in Threads :
          /\ pc[t] \in {"unlink", "free", "link"}
          /\ pc[u] \in {"unlink", "free", "link"}
          /\ block[t] = block[u]
          => t = u

\* The assertions of allocMemory (a block from the list has no reference) and of
\* freeMemory (a block has one reference when it is deleted).
AssertionsHold ==
    \A t \in Threads :
        /\ pc[t] = "unlink" => nRef[block[t]] = 0
        /\ pc[t] = "free" => nRef[block[t]] = 1

\* The block a thread has found in a list has room for what the thread asked for:
\* no block has come into the list of another pool, and the pool was chosen by the
\* size asked for (_szAlloc, allocMemory, freeMemory).
BlocksFit ==
    \A t \in Threads : pc[t] = "unlink" =>
        block[t] \in Pooled /\ size[t] <= BlockSize(pAlloc(block[t]))
==============================================================================
