SPECIFICATION Spec
CONSTANTS
    None = None
    Provider = Provider
    NoGroup = NoGroup
    Gone = Gone
    Keys = {k1, k2}
    Requests = {q1, q2}
    Janitors = {j1}
SYMMETRY Symmetry
INVARIANTS TypeOK ActiveStored SupersededIsOwed Tracked
