SPECIFICATION FairSpec
CONSTANTS
    Replicas = {r1, r2}
    Sockets = {s1, s2}
    Groups = {g1}
INVARIANTS TypeOK PresenceExact LastToldExact
PROPERTIES EventsAreNews FarewellReachesAll
