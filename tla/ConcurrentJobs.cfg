CONSTANTS
    Hooks = {h1, h2}
    Jobs = {j1, j2}
    Suffixed = {s1}
    None = None
SPECIFICATION HookSpec
PROPERTY ConcurrentJobsArchive
