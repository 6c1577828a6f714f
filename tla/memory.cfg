SPECIFICATION PoolSpec
CONSTANTS
    Threads = {t1, t2}
    BlockCount = 2
    Requests = {64, 1025}
    Heap = {h1, h2}
    Null = Null
    nPoolSzie = 2
    NodeSize = 40
SYMMETRY Symmetry
INVARIANTS FreeListSound AssertionsHold ObjectListSound MemoryAccounted
