SPECIFICATION Spec
CONSTANTS
    None = None
    t1 = t1  t2 = t2
    Terminal = {t1, t2}
    Chart <- Charts
    Binding <- Bindings
    ChartBinding <- Templates1
    MeshStatus <- MeshStatuses
    MaxCommands = 4
    MaxChanges = 3
    MaxFaults = 1
SYMMETRY Symmetry
CHECK_DEADLOCK FALSE
INVARIANTS
    TypeOK
    OperatorLast
    OnlyKnownPanics
    RowsComplete
    DrawingConnected
    BindingsShown
