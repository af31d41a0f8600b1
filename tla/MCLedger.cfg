SPECIFICATION MCSpec
CONSTANTS
    u1 = u1
    u2 = u2
    p1 = p1
    p2 = p2
    t1 = t1
    Users = {u1, u2}
    Clearing = clearing
    FeeAccount = feeAccount
    Ids = {p1, p2, t1}
    Requests <- MCRequests
    Workers = {w1, w2}
    NoWorker = noWorker
    SnapshotEvery = 2
    Projectors = {q1, q2}
    Outbox <- MCOutbox
    Before <- MCBefore
    IdOrder <- MCIdOrder
    MaxPage = 2
    MaxLost = 1
INVARIANTS
    NoOverdraft
    GaplessHistory
    ReadsAreReplays
    OutboxIsHistory PostedOnce DoubleEntry RequestsAreAtomic
PROPERTIES ExecutionsEnd
