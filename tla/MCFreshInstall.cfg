CONSTANTS
    Secrets = {k1, k2}
    Interruptions = 2
    None = None
SPECIFICATION InstallSpec
CHECK_DEADLOCK FALSE
INVARIANTS
    CredentialIsJournalled
PROPERTIES
    CompleteIsProven
    NothingOverwritten
    RetryCompletes
