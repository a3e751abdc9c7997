SPECIFICATION SessionSpec
CONSTANTS
    Requests = {r1, r2}
    Sids = {s1, s2}
    Nonces = {n1}
    Runners = {x1, x2}
    None = None
    Idle = 1
    Absolute = 2
    ConfirmTTL = 1
    Window = 1
    Attempts = 1
    MaxTime = 3
SYMMETRY Symmetry
INVARIANTS
    RemovalIsConfirmed
PROPERTIES
    ImplementsConsent
    NoFalseLockout
    SessionEnds
