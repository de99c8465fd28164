SPECIFICATION IntakeSpec
CONSTANTS
    None = None
    k1 = k1
    Width = 8
    Groups <- MCGroups
    Durations <- MCDurations
    Requests = {r1, r2}
    Creations = {c1}
    Asks <- MCAsks
    RuleLines <- MCRuleLines
    RouterFilters <- MCRouterFilters
    Suggestions <- MCSuggestions
    Window = 1
    DefaultTtl = 3600
    MaxTime = 1
SYMMETRY Symmetry
PROPERTY HighestPriorityWins
CHECK_DEADLOCK FALSE
