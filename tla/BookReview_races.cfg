CONSTANTS
    Books = {b1}
    Users = {alice, bob, carol}
    Claims <- MCClaims
    Calls = {c1, c2}
    Contents = {v1, v2}
    Faults = TRUE
    NoUser = NoUser
    NoRequest = NoRequest
    alice = alice
    bob = bob
    carol = carol
SPECIFICATION Spec
SYMMETRY Symmetry
INVARIANTS
    TypeOK
    PublishedProvenance
    InFlightGuarantees
PROPERTIES
    OnlyRacesLeaveWorkflow
    ImplementsLifecycle
