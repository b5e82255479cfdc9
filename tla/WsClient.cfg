SPECIFICATION FairSpec
CONSTANTS
    Channels = {c1, c2, c3}
    NoChannel = NoChannel
INVARIANTS TypeOK OneConnection NeverStranded
PROPERTIES LineSpec Reconnects
