SPECIFICATION StructuresSpec
CONSTANTS
    n1 = n1
    n2 = n2
    n3 = n3
    n4 = n4
    n5 = n5
    n6 = n6
    n7 = n7
    n8 = n8
    Nodes = {n1, n2, n3, n4, n5, n6, n7, n8}
    Sentinel = Sentinel
    Null = Null
    k1 = k1
    k2 = k2
    k3 = k3
    k4 = k4
    k5 = k5
    Keys = {k1, k2, k3, k4, k5}
    Texts = {v1, v2}
    l1 = l1
    l2 = l2
    l3 = l3
    l4 = l4
    Links = {l1, l2, l3, l4}
    Queue = Queue
    Clusters = {c1, c2}
    Larges = {b1, b2}
    PageSize = 8
    MinChunk = 2
    PagesPerCluster = 2
    PageAlignment = 4
    MaxLive = 6
    Requests <- PoolRequests
    Hole = Hole
    Garbage = Garbage
    Undefined = Undefined
    NoMemory = NoMemory
INVARIANTS AllocationsSound BooksBalance HeapOwned IsSearchTree HashIsMap ListsAsPutIn ArraysAsStandard
SYMMETRY Alike
