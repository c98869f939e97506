CONSTANTS
    Servers = {s1, s2}
    Standalones = {}
    LastMigration = 3
    Refused = {3}
    Calls = {c1}
    Managed = {}
    Faults = FALSE
    None = None
SPECIFICATION FairSpec
PROPERTIES
    ServersComeUp
