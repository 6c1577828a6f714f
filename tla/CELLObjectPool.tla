---------------------------- MODULE CELLObjectPool ----------------------------
(***************************************************************************)
(* CELLObjectPool and ObjectPoolBase (HelloMemory): the pool of the        *)
(* objects of one class, with a list of free nodes and a mutex of its own. *)
(* Its buffer comes from operator new[], and so does every node when the   *)
(* pool is used up: from MemoryMgr, whose mutex is then taken with the     *)
(* mutex of the pool held.  Objects, and other memory of the program, are  *)
(* made and deleted by several threads.                                    *)
(***************************************************************************)
EXTENDS MemoryMgr

CONSTANTS nPoolSzie,      \* nodes of the pool
          NodeSize        \* sizeof(Type) + sizeof(NodeHeader)

ASSUME PoolConstants ==
    /\ nPoolSzie \in Nat \ {0} /\ NodeSize \in Nat
    /\ Heap \cap ({0} \X Nat) = {} /\ Null \notin {0} \X Nat

VARIABLES sPool,          \* the static pool: "none", "making" or "made"
          objBuf,         \* _pBuf
          objHeader,      \* _pHeader
          objNext,        \* pNext of a node
          objRef,         \* nRef of a node
          objMutex,       \* the thread that holds _mutex
          step,           \* where a thread is in new or delete of the class
          node,           \* the node it works on
          objects,        \* the objects the program has
          plain           \* history: other memory the program has asked for

memoryVars == vars
objectVars == <<sPool, objBuf, objHeader, objNext, objRef, objMutex, step, node>>
allVars == <<memoryVars, objectVars, objects, plain>>

\* The nodes of the buffer by nID, written as blocks of a pool 0; a node made when
\* the pool was used up is the block that holds it.
PoolNodes == {0} \X (0 .. nPoolSzie - 1)
Nodes == PoolNodes \cup Blocks

PoolInit ==
    /\ Init
    /\ sPool = "none"
    /\ objBuf = Null
    /\ objHeader = Null
    /\ objNext = [x \in PoolNodes |-> Null]
    /\ objRef = [x \in Nodes |-> 0]
    /\ objMutex = Null
    /\ step = [t \in Threads |-> "idle"]
    /\ node = [t \in Threads |-> Null]
    /\ objects = {}
    /\ plain = {}

Goto(t, s) == step' = [step EXCEPT ![t] = s]
Done(t) == Goto(t, "idle") /\ node' = [node EXCEPT ![t] = Null]
Idle(t) == step[t] = "idle" /\ pc[t] = "idle"

------------------------------------------------------------------------------
\* The program's own new and delete, and the steps inside MemoryMgr of any caller.
New(t, n) ==
    /\ Idle(t)
    /\ allocMem(t, n)
    /\ plain' = plain \cup (inUse' \ inUse)
    /\ UNCHANGED <<objectVars, objects>>

Delete(t, b) ==
    /\ Idle(t)
    /\ b \in plain
    /\ freeMem(t, b)
    /\ plain' = plain \ {b}
    /\ UNCHANGED <<objectVars, objects>>

InsideMgr(t) ==
    /\ Inside(t)
    /\ plain' = plain \cup (IF step[t] = "idle" THEN inUse' \ inUse ELSE {})
    /\ UNCHANGED <<objectVars, objects>>

------------------------------------------------------------------------------
\* createObject: operator new asks for the static pool first.
createObject(t) ==
    /\ Idle(t)
    /\ Room
    /\ Goto(t, "static")
    /\ UNCHANGED <<memoryVars, sPool, objBuf, objHeader, objNext, objRef, objMutex, node,
                   objects, plain>>

\* The first thread constructs the static, the others wait for it.
objectPool(t) ==
    /\ step[t] = "static"
    /\ \/ /\ sPool = "none"
          /\ sPool' = "making"
          /\ allocMem(t, nPoolSzie * NodeSize)
          /\ Goto(t, "buffer")
       \/ /\ sPool = "made"
          /\ Goto(t, "lock")
          /\ UNCHANGED <<memoryVars, sPool>>
    /\ UNCHANGED <<objBuf, objHeader, objNext, objRef, objMutex, node, objects, plain>>

initPool(t) ==
    /\ step[t] = "buffer"
    /\ pc[t] = "idle"
    /\ objBuf' = block[t]
    /\ objHeader' = <<0, 0>>
    /\ objNext' = [x \in PoolNodes |-> IF x[2] + 1 < nPoolSzie THEN <<0, x[2] + 1>> ELSE Null]
    /\ objRef' = [x \in Nodes |-> IF x \in PoolNodes THEN 0 ELSE objRef[x]]
    /\ sPool' = "made"
    /\ Goto(t, "lock")
    /\ UNCHANGED <<memoryVars, objMutex, node, objects, plain>>

LockObj(t) ==
    /\ step[t] = "lock"
    /\ objMutex = Null
    /\ objMutex' = t
    /\ node' = [node EXCEPT ![t] = objHeader]
    /\ IF objHeader = Null
       THEN Goto(t, "node") /\ allocMem(t, NodeSize)
       ELSE Goto(t, "take") /\ UNCHANGED memoryVars
    /\ UNCHANGED <<sPool, objBuf, objHeader, objNext, objRef, objects, plain>>

HandOut(t, x) ==
    /\ objRef' = [objRef EXCEPT ![x] = 1]
    /\ objects' = objects \cup {x}
    /\ objMutex' = Null
    /\ Done(t)

TakeNode(t) ==
    /\ step[t] = "take"
    /\ objHeader' = objNext[node[t]]
    /\ HandOut(t, node[t])
    /\ UNCHANGED <<memoryVars, sPool, objBuf, objNext, plain>>

\* The pool is used up: the block operator new[] has returned is the node.
TakeNew(t) ==
    /\ step[t] = "node"
    /\ pc[t] = "idle"
    /\ HandOut(t, block[t])
    /\ UNCHANGED <<memoryVars, sPool, objBuf, objHeader, objNext, plain>>

------------------------------------------------------------------------------
\* destroyObject and freeObjMemory: for a node of its own by delete[].
\* Mutant: a node of its own is not given back.
destroyObjectLeaks(t, x) ==
    /\ Idle(t)
    /\ x \in objects
    /\ objects' = objects \ {x}
    /\ IF x \in PoolNodes
       THEN /\ Goto(t, "free")
            /\ node' = [node EXCEPT ![t] = x]
            /\ UNCHANGED <<memoryVars, objRef>>
       ELSE /\ objRef' = [objRef EXCEPT ![x] = @ - 1]
            /\ UNCHANGED <<memoryVars, step, node>>
    /\ UNCHANGED <<sPool, objBuf, objHeader, objNext, objMutex, plain>>

destroyObject(t, x) ==
    /\ Idle(t)
    /\ x \in objects
    /\ objects' = objects \ {x}
    /\ IF x \in PoolNodes
       THEN /\ Goto(t, "free")
            /\ node' = [node EXCEPT ![t] = x]
            /\ UNCHANGED <<memoryVars, objRef>>
       ELSE /\ objRef' = [objRef EXCEPT ![x] = @ - 1]
            /\ IF objRef'[x] = 0 THEN freeMem(t, x) ELSE UNCHANGED memoryVars
            /\ UNCHANGED <<step, node>>
    /\ UNCHANGED <<sPool, objBuf, objHeader, objNext, objMutex, plain>>

\* Mutant: no lock_guard.
LockFreeNodeUnlocked(t) ==
    LET x == node[t] IN
    /\ step[t] = "free"
    /\ objRef' = [objRef EXCEPT ![x] = @ - 1]
    /\ IF objRef'[x] # 0
       THEN Done(t) /\ UNCHANGED <<objMutex, objNext>>
       ELSE /\ Goto(t, "link")
            /\ objMutex' = t
            /\ objNext' = [objNext EXCEPT ![x] = objHeader]
            /\ UNCHANGED node
    /\ UNCHANGED <<memoryVars, sPool, objBuf, objHeader, objects, plain>>

LockFreeNode(t) ==
    LET x == node[t] IN
    /\ step[t] = "free"
    /\ objMutex = Null
    /\ objRef' = [objRef EXCEPT ![x] = @ - 1]
    /\ IF objRef'[x] # 0
       THEN Done(t) /\ UNCHANGED <<objMutex, objNext>>
       ELSE /\ Goto(t, "link")
            /\ objMutex' = t
            /\ objNext' = [objNext EXCEPT ![x] = objHeader]
            /\ UNCHANGED node
    /\ UNCHANGED <<memoryVars, sPool, objBuf, objHeader, objects, plain>>

LinkNode(t) ==
    /\ step[t] = "link"
    /\ objHeader' = node[t]
    /\ objMutex' = Null
    /\ Done(t)
    /\ UNCHANGED <<memoryVars, sPool, objBuf, objNext, objRef, objects, plain>>

PoolNext ==
    \E t \in Threads :
        \/ \E n \in Requests : New(t, n)
        \/ \E b \in Blocks : Delete(t, b)
        \/ InsideMgr(t)
        \/ createObject(t) \/ objectPool(t) \/ initPool(t)
        \/ LockObj(t) \/ TakeNode(t) \/ TakeNew(t)
        \/ \E x \in Nodes : destroyObject(t, x)
        \/ LockFreeNode(t) \/ LinkNode(t)

PoolSpec == PoolInit /\ [][PoolNext]_allVars

------------------------------------------------------------------------------
\* The block operator new[] has returned to the object pool, not yet used.
Returned == {block[t] : t \in {u \in Threads : step[u] \in {"buffer", "node"} /\ pc[u] = "idle"}}
BackNode == {node[t] : t \in {u \in Threads : step[u] \in {"free", "link"}}}

\* The list of the object pool holds, once, exactly its nodes that are neither
\* objects nor on their way back (initPool, allocObjMemory, freeObjMemory).
ObjectListSound ==
    sPool = "made" =>
        \E n \in 0 .. nPoolSzie : \E s \in [1 .. n -> PoolNodes] :
            /\ objHeader = IF n = 0 THEN Null ELSE s[1]
            /\ \A i \in 1 .. n : objNext[s[i]] = IF i = n THEN Null ELSE s[i + 1]
            /\ \A i, j \in 1 .. n : s[i] = s[j] => i = j
            /\ {s[i] : i \in 1 .. n} = PoolNodes \ (objects \cup BackNode)

\* What MemoryMgr has given is the buffer, an object that found the pool used up or
\* memory the program asked for itself, and no block is two of these: nothing leaks
\* from one allocator to the other.
MemoryAccounted ==
    LET own == objects \cap Blocks
        buffer == IF sPool = "made" THEN {objBuf} ELSE {} IN
    /\ inUse = plain \cup own \cup buffer \cup Returned
    /\ plain \cap (own \cup buffer \cup Returned) = {}
    /\ own \cap (buffer \cup Returned) = {}
    /\ buffer \cap Returned = {}
===============================================================================
