SPECIFICATION Spec
CONSTANTS
    u1 = u1
    u2 = u2
    x1 = x1
    x2 = x2
    Members = {u1, u2}
    Admins = {u1}
    Going = {}
    Devices = {x1, x2}
    OwnerOf <- Owner
    Requests = {w1, w2}
    Dispatches = {d1}
    Janitors = {j1}
    Free = Free
SYMMETRY Symmetry
INVARIANTS TypeOK AllTried FreshIsActive DefaultsSeeded
