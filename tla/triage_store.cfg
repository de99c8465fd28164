SPECIFICATION Spec
CONSTANTS
    Ids = {1, 2}
    Paths = {1, 2}
    Hashes = {1, 2}
    None = None
    Keep = Keep
    Handlers = {h1, h2}
    Feeds <- MCFeeds
    MaxEvents = 3
SYMMETRY Symmetry
INVARIANTS
    TypeOK
    NoReciprocalMerge
    VerdictsKeepTheirSnapshot
PROPERTIES
    FrozenWhileClosed
    ImplementsCatalog
