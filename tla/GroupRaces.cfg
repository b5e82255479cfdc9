SPECIFICATION Spec
CONSTANTS
    NoRequest = NoRequest
    NoUser = NoUser
    Users = {u1, u2, u3}
    Workers = {w1, w2}
    RequestIds = {q1, q2}
    Traffic = {"join", "transfer", "setRole", "remove", "delete", "requestById", "requestByCode", "resolve"}
    PendingIndex = FALSE
    Cascade = TRUE
CONSTRAINT FewRequests
SYMMETRY MCSymmetry
INVARIANTS OneOwnerUnlessRaced NoOrphanRows
PROPERTY ApprovedMeansMember
