SPECIFICATION Spec
CONSTANTS
    None = None
    Provider = Provider
    NoGroup = NoGroup
    Gone = Gone
    Keys = {k1, k2}
    Requests = {q1}
    Janitors = {j1}
INVARIANTS ShownAvatarStored
