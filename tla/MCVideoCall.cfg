SPECIFICATION Spec
CONSTANTS
    Members = {a, b}
    Workers = {w1, w2}
    None = None
    Dead = Dead
    NoCall = NoCall
    MaxSessions = 2
SYMMETRY Symmetry
INVARIANTS NewsIsExplained
PROPERTIES CallsAreAtomic
CHECK_DEADLOCK FALSE
