SPECIFICATION Spec
CONSTANTS
    Users = {a, b}
    Workers = {w1, w2}
    NoWorker = NoWorker
    Commands = {"Send", "Cancel", "Accept", "Reject", "Follow", "Unfollow", "Unfriend", "Block", "Unblock"}
    MaxEvents = 6
SYMMETRY Symmetry
INVARIANTS PairIsSound BlockSevers CountersMatch
