CONSTANTS
    Hooks = {h1, h2}
    Jobs = {j1}
    Suffixed = {s1}
    None = None
SPECIFICATION RetentionSpec
PROPERTIES
    RecentPassKept
