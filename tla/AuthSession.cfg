SPECIFICATION FairSpec
CONSTANTS
    Accounts = {a, b}
    Requests = {q1}
    Sockets = {s1}
    NoAccount = NoAccount
    MaxTokens = 3
INVARIANTS TypeOK NeverForcedOut
PROPERTIES SessionSpec ReturnsToLogin
