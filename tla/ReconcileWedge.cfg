CONSTANTS
    Instances = {c1}
    Inodes = {n1}
    RunnerIds = {r1}
    Wrappers = {w1}
    OtherUnits = {official0664}
    None = None
SPECIFICATION FairLifecycleSpec
CHECK_DEADLOCK FALSE
PROPERTIES
    ReconciledIsAborted
