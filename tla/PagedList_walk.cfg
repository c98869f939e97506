CONSTANTS
    MaxRow = 5
    PageSizes = {0, 1, 3}
    DefaultSize = 2
SPECIFICATION FairSpec
INVARIANTS
    OmissionsExplained
    RepeatsExplained
PROPERTIES
    WalkEnds
