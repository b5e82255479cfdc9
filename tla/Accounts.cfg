SPECIFICATION Spec
CONSTANTS
    Users = {u1, u2}
    NoUser = NoUser
    Steam = {s1, s2}
    Apple = {}
    Discord = {d1}
    Manual = {m1}
    Requests = {w1, w2}
CONSTRAINT Few
SYMMETRY Symmetry
INVARIANTS TypeOK LoginMethodKept CopiesAgree
PROPERTY DirectorySpec
