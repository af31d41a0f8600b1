SPECIFICATION ReadSpec
CONSTANTS
    Users = {a, b}
    Workers = {w1}
    NoWorker = NoWorker
    Commands = {"Send", "Cancel", "Accept", "Reject", "Follow", "Unfollow", "Unfriend", "Block", "Unblock"}
    MaxEvents = 3
    Ids = {1, 2, 3, 4, 5, 6}
    MaxLimit = 4
    DefaultLimit = 2
SYMMETRY Symmetry
INVARIANTS ReadModelIsSound RowCatchesUp
