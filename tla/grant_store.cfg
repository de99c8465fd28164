SPECIFICATION Spec
CONSTANTS
    Ids = {1, 2, 3, 4}
    Agents = {x, y}
    Handlers = {h1, h2, h3}
    None = None
    Envelopes <- MCEnvelopes
SYMMETRY Symmetry
INVARIANTS
    TypeOK
    FirstRevokeWins
    ConsumedOnce
    ClaimReplyNamesClaimer
    AcknowledgedIsStored
PROPERTIES
    ImplementsLedger
