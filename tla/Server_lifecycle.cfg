CONSTANTS
    Servers = {s1, s2}
    Standalones = {a1}
    LastMigration = 2
    Refused = {}
    Calls = {c1}
    Managed = {a1}
    Faults = TRUE
    None = None
SPECIFICATION FairSpec
INVARIANTS
    MigrationsAreWhole
    HandlersHaveDatabase
PROPERTIES
    RestartsComeUp
    StopsEnd
