CONSTANTS
    Users = {u1}
    Books = {b1}
    Calls = {c1, c2}
    UsedKinds = {"difficulty_rating", "read_complete"}
    Ratings <- MCRatings
    MaxRows = 3
    Faults = TRUE
    None = None
SPECIFICATION Spec
SYMMETRY Symmetry
INVARIANTS
    TypeOK
    OneFavoriteUnlessRaced
    OneFeedbackUnlessRaced
    FavoriteAnswersHold
    FeedbackAnswersHold
    StatsMakeSense
    StatsAreCurrent
