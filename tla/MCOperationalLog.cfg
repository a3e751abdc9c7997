SPECIFICATION LogSpec
CONSTANTS
    Scripts = {create, status}
    Mutating = {create}
    None = None
    MaxFile = 3
    MaxTotal = 6
    MaxRecord = 2
    Retention = 1
    MaxTime = 3
    MaxRecords = 5
INVARIANTS
    LogBounded
    LogIsSuffix
PROPERTIES
    DamagedLogUntouched
    ImplementsAhead
