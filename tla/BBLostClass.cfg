SPECIFICATION Spec
CONSTANTS
    None = None  m1 = m1  m2 = m2  k1 = k1  k2 = k2  t1 = t1  t2 = t2
    x = x  y = y  b1 = b1  b2 = b2
    Binding = {b1, b2}
    KMesh = {m1}
    Broker = {k1}
    Trigger = {t1}
    Class = {x, y}
    Spec0 <- SpecsXY
    ListOf <- MCListOf
    Threads = 2
    Brokers0 <- BrokersNone
    Triggers0 <- TriggersNone
    KMeshes0 <- FreshKMeshes
    Bindings0 <- BindingsXY
    Changes <- NoChange
    ClassesOf <- OnlyX
    BrokersOf <- OnlyK1
    MaxChanges = 0
    MaxUid = 1
    MaxRestarts = 0
    Resyncs = "never"
INVARIANTS
    BoundClassesListed
CHECK_DEADLOCK FALSE
