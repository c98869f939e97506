CONSTANTS
    LastPages = {0, 1, 2}
    Loads = {l1, l2}
    Edits = {e1}
    MaxStack = 3
    None = None
SPECIFICATION FairSpec
INVARIANTS
    ShowsCurrent
    StackIsPath
PROPERTIES
    SpinnerStops
