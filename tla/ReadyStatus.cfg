SPECIFICATION ReadyFairSpec
CONSTANTS
    Togglers = {t1,t2}
    Sweepers = {w1}
    Connectors = {c1}
INVARIANT ReadyAnnounced
PROPERTIES SweepTellsTransition StaleEntriesGo ExpiryTold
