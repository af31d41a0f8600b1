SPECIFICATION Spec
CONSTANTS
    Members = {m1}
    NoMember = NoMember
    Last = 2
    MaxRebalances = 1
INVARIANTS DroppedIsNotCommitted
CHECK_DEADLOCK FALSE
