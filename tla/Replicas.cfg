SPECIFICATION FairSpec
CONSTANTS
    r1 = r1  r2 = r2  s1 = s1  s2 = s2  bad = bad
    Replica = {r1, r2}  Nobody = nobody
    First = r1  FirstSpec = s1
    Specs = {s1, s2, bad}
    Malformed = {bad}
    NoStatus <- NoStatusYet
    Steps = 2
    MaxChanges = 2
    MaxLag = 1
    MaxFaults = 1
INVARIANTS
    TypeOK
    NoKeyForgotten
    FakeAgrees
PROPERTIES
    StaleNeedsConflict
    StatusFollowsSpec
CHECK_DEADLOCK FALSE
