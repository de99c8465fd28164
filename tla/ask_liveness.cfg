SPECIFICATION FairSpec
CONSTANTS
    Asks = {n1}
    Waits = {w1, w2}
    Handlers = {h1}
    Answers = {a1}
    Grants = {g1}
    None = None
    Dead = Dead
PROPERTY WaitReturns
