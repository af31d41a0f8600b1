SPECIFICATION MCSpec
CONSTANTS
    Workers = {w1, w2}
    Passwords = {p1, p2}
    NoPassword = NoPassword
    Profiles = {n1, n2}
    MaxVersion = 4
    MaxLinks = 1
    DeviceUIDs = {d1, d2}
    MaxSessions = 2
    MaxTokens = 3
INVARIANTS AccountIsSound SessionsAreSound ActiveIsEarned
CHECK_DEADLOCK FALSE
SYMMETRY Symmetry
