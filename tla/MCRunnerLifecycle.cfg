CONSTANTS
    Instances = {c1, c2, c3}
    Inodes = {n1, n2}
    RunnerIds = {r1, r2, r3}
    Wrappers = {w1}
    OtherUnits = {official0664}
    None = None
SPECIFICATION LifecycleSpec
SYMMETRY Symmetry
CHECK_DEADLOCK FALSE
INVARIANTS
    NoOrphanRegistration
    DurableBeforeEffect
PROPERTIES
    RemoveCompleteProven
    NoDeletionWhileRegistered
    RemoveFreezesCreate
    CompletionChecked
