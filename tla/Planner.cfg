SPECIFICATION Spec
CONSTANTS
    Items = {s1}
    Users = {me, u1}
    Me = me
    Requests = {r1, r2}
    Loads = {l1}
    MaxVal = 1
    MaxSends = 3
    MaxInbox = 2
INVARIANTS TypeOK CacheAgrees OnlyCommitted
SYMMETRY Symmetry
