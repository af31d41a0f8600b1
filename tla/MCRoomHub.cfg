SPECIFICATION MCSpec
CONSTANTS
    u1 = u1
    c1 = c1
    i1 = i1
    Conns = {c1, c2}
    ClientIDs = {i1, i2}
    Users = {u1}
    userOf <- MCuserOf
    Rooms = {r1}
    None = None
    Subs = {1, 2}
INVARIANTS HubIsSound SilenceIsExplained
PROPERTIES ClosedConnectionsLeave
CHECK_DEADLOCK FALSE
