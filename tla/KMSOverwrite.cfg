SPECIFICATION FairSpec
CONSTANTS
    b1 = b1  b2 = b2  x = x  y = y
    Binding = {b1}
    Class = {x}
    ClassesOf <- OneEach
    ListOf <- MCListOf
    Steps = 5
    MaxUpsets = 1
PROPERTIES
    NoUpdateOverwritten
CHECK_DEADLOCK FALSE
