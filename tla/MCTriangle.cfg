SPECIFICATION FairSpec
CONSTANTS
    Users = {a, b, c}
    Workers = {w1, w2, w3}
    NoWorker = NoWorker
    Commands = {"Follow"}
    MaxEvents = 1
PROPERTIES CommandsEnd
