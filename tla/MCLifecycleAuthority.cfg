CONSTANTS
    Instances = {c1, c2, c3}
    Inodes = {n1, n2}
    RunnerIds = {r1}
    Wrappers = {w1}
    OtherUnits = {}
    None = None
SPECIFICATION Spec
SYMMETRY Symmetry
CHECK_DEADLOCK FALSE
INVARIANTS
    OneOpenCycle
    BoundToCycle
    AbortedOnlyAfterRemoved
PROPERTIES
    HistoryImmutable
    NewCycleNewDirectory
    ImplementsSlot
