SPECIFICATION FairExportSpec
CONSTANTS
    Ids = {1, 2}
    Paths = {1}
    Hashes = {1}
    None = None
    Keep = Keep
    Handlers = {h1, h2}
    Feeds <- MCFeeds
    MaxEvents = 2
    Limit = 1
INVARIANTS
    CursorSkipsNothing
PROPERTIES
    ImplementsLog
    EveryRevisionIsExported
