SPECIFICATION Spec
CONSTANTS
    None = None  m1 = m1  m2 = m2  k1 = k1  k2 = k2  t1 = t1  t2 = t2
    x = x  y = y  b1 = b1  b2 = b2
    Binding = {b1, b2}
    KMesh = {m1}
    Broker = {k1}
    Trigger = {t1}
    Class = {x, y}
    Spec0 <- SpecsXY
    ListOf <- MCListOf
    Threads = 2
    Brokers0 <- BrokersNone
    Triggers0 <- TriggersNone
    KMeshes0 <- FreshKMeshes
    Bindings0 <- BindingsX
    Changes <- BindingLife
    ClassesOf <- OnlyX
    BrokersOf <- OnlyK1
    MaxChanges = 1
    MaxUid = 1
    MaxRestarts = 1
    Resyncs = "never"
INVARIANTS
    ClassesKept
    ReadyMeansFollowed
CHECK_DEADLOCK FALSE
SYMMETRY BindingSymmetry
