CONSTANTS
    Dims = {d1, d2, d3}
    Slugs = {s1, s2}
    Books = {b1}
    Calls = {c1, c2}
    TagLists <- MCTagLists
    Faults = TRUE
    None = None
SPECIFICATION Spec
SYMMETRY Symmetry
INVARIANTS
    TypeOK
    ReferencesHold
    TagsHaveBooks
    ErrorsLeaveNothing
PROPERTIES
    OnlyRacesOrphan
    ImplementsTaxonomy
