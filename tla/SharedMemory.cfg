SPECIFICATION Spec
CONSTANTS
    b1 = b1  b2 = b2  k1 = k1
    Binder = {b1, b2}
    Mesher = {k1}
SYMMETRY Symmetry
INVARIANTS
    TypeOK
    StoreUntouched
    CopiesApart
    RacesKnown
