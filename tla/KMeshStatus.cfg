SPECIFICATION FairSpec
CONSTANTS
    b1 = b1  b2 = b2  x = x  y = y
    Binding = {b1, b2}
    Class = {x, y}
    ClassesOf <- OneEach
    ListOf <- MCListOf
    Steps = 2
    MaxUpsets = 1
INVARIANTS
    TypeOK
PROPERTIES
    LossNeedsStaleCopy
    ClassesRepaired
    RegisterImplemented
CHECK_DEADLOCK FALSE
