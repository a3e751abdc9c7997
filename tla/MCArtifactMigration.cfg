SPECIFICATION MigrationSpec
CONSTANTS
    Artifacts = {a1, a2}
    Digested = {a1}
    Procs = {p1, p2}
    None = None
    MaxRuns = 4
SYMMETRY Symmetry
CHECK_DEADLOCK FALSE
INVARIANTS
    DeletedHasCopy
    ManifestTellsTruth
PROPERTIES
    ImplementsMove
