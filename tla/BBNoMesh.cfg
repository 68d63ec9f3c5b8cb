SPECIFICATION Spec
CONSTANTS
    None = None  m1 = m1  m2 = m2  k1 = k1  k2 = k2  t1 = t1  t2 = t2
    x = x  y = y  b1 = b1  b2 = b2
    Binding = {b1}
    KMesh = {m1}
    Broker = {k1}
    Trigger = {t1}
    Class = {x}
    Spec0 <- SpecsNone
    ListOf <- MCListOf
    Threads = 1
    Brokers0 <- BrokersNone
    Triggers0 <- TriggersNone
    KMeshes0 <- FreshKMeshes
    Bindings0 <- BindingsNoMesh
    Changes <- NoChange
    ClassesOf <- OnlyX
    BrokersOf <- OnlyK1
    MaxChanges = 0
    MaxUid = 1
    MaxRestarts = 0
    Resyncs = "never"
INVARIANTS
    NoPanic
CHECK_DEADLOCK FALSE
