SPECIFICATION Spec
CONSTANTS
    Asks = {n1}
    Waits = {w1, w2}
    Handlers = {h1, h2}
    Answers = {a1, a2}
    Grants = {g1, g2}
    None = None
    Dead = Dead
SYMMETRY Symmetry
INVARIANTS
    TypeOK
    SlotOwnerIsBlocked
    OneGrantPerApproval
    RepliesAreBacked
    RegisteredWaiterIsServed
    TimeoutClosesCard
PROPERTY ImplementsLedger
