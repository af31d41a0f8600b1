SPECIFICATION MCSpec
CONSTANTS
    alice = alice
    bob = bob
    sender = sender
    Accounts = {alice, bob, sender}
    c1 = c1
    c2 = c2
    c3 = c3
    Conns = {c1, c2, c3}
    Owners = {alice, bob}
    ownerOf <- MCOwnerOf
    ClientIDs = {i1, i2}
    Nobody = Nobody
    Events <- MCEvents
    Workers = {w1, w2}
    Milli = 4
    PageLimit = 1
    MaxAttempts = 2
    MaxRequests = 2
INVARIANTS NotificationIsSound NotificationHubIsSound
CHECK_DEADLOCK FALSE
SYMMETRY Symmetry
