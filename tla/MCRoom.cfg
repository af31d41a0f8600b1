SPECIFICATION MCSpec
CONSTANTS
    Accounts = {a1, a2, a3}
    a1 = a1
    a2 = a2
    a3 = a3
    n1 = n1
    Workers = {w1, w2}
    Names = {n1, n2}
    MaxCommands = 4
    PageSize = 4
    Ids = {1, 2, 3, 4}
    MaxTime = 5
    Tick = 2
    Expansion = 2
    MaxBatch = 3
    MaxLimit = 2
    DefaultLimit = 2
INVARIANTS RoomIsSound RoomReadsAreSound
CHECK_DEADLOCK FALSE
SYMMETRY Symmetry
