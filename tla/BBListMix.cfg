SPECIFICATION Spec
CONSTANTS
    None = None  m1 = m1  m2 = m2  k1 = k1  k2 = k2  t1 = t1  t2 = t2
    x = x  y = y  b1 = b1  b2 = b2
    Binding = {b1}
    KMesh = {m1}
    Broker = {k1, k2}
    Trigger = {t1}
    Class = {x}
    Spec0 <- SpecsX
    ListOf <- MCListOf
    Threads = 1
    Brokers0 <- ReadyBrokers0
    Triggers0 <- TriggersNone
    KMeshes0 <- FreshKMeshes
    Bindings0 <- BindingsX
    Changes <- NoChange
    ClassesOf <- OnlyX
    BrokersOf <- OnlyK1
    MaxChanges = 0
    MaxUid = 1
    MaxRestarts = 0
    Resyncs = "settled"
INVARIANTS
    IngressesListedOnce
CHECK_DEADLOCK FALSE
