SPECIFICATION PartsSpec
CONSTANTS
    ListNodes = {l, m, n}
    Owner = o
    Reader = r
    Collector = c
    Null = Null
    Producers = {p, q}
    QueueNodes = {w, x, y, z}
    Allocators = {t1, t2}
    Heap = Heap
    Threads = {t1, t2, t3}
    None = None
    LOCKED = 4
    MaxDepth = 2
    MaxCalls = 5
    Sources = {A, B}
    Nobody = Nobody
    UGens = {u, v}
    Senders = {snd}
    Receivers = {rcv}
    ClientObjects = {c1, c2}
    Endpoints = {e}
SYMMETRY Symmetry
INVARIANTS
    NodesAlive
    TakenInOrder
    OneOwner
    HandoffIntact
    OneSourceShown
    UnitsSafe
    ObjectsSound
    ObjectKeepsUp
    LocksSound
CHECK_DEADLOCK FALSE
