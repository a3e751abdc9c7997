SPECIFICATION Spec
CONSTANTS
    Clients = {c1, c2}
    None = None
    Deadline = 2
    MutationPatience = 3
    StatusPatience = 1
    Backlog = 1
INVARIANT MatchingRemoveAdmitted
