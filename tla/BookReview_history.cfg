CONSTANTS
    Books = {b1}
    Users = {alice, bob}
    Claims <- TwoClaims
    Calls = {c1}
    Contents = {v1, v2}
    Faults = FALSE
    NoUser = NoUser
    NoRequest = NoRequest
    alice = alice
    bob = bob
    carol = carol
SPECIFICATION Spec
INVARIANT
    HistoryShowsEveryChange
