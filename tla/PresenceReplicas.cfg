SPECIFICATION Spec
CONSTANTS
    Replicas = {r1, r2}
    Sockets = {s1, s2}
    Groups = {g1}
INVARIANT OnlineUntilLastSocket
