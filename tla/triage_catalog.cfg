SPECIFICATION Spec
CONSTANTS
    Ids = {1, 2, 3}
    Paths = {1, 2}
    Hashes = {1, 2}
    None = None
INVARIANTS
    TypeOK
    PathsDistinct
    RefreshAsDocumented
    NoSourceLost
    RefreshSettles
