SPECIFICATION Spec
CONSTANTS
    NoRequest = NoRequest
    NoUser = NoUser
    Users = {u1, u2, u3}
    Workers = {w1}
    RequestIds = {q1, q2}
    Traffic = {"settings", "delete", "join", "remove", "setRole", "transfer", "requestById", "requestByCode", "resolve"}
    PendingIndex = FALSE
    Cascade = TRUE
INVARIANTS TypeOK PendingAtMostOne
PROPERTIES AdminsRemovedByOwner OwnershipSpec
