SPECIFICATION ClientSpec
CONSTANTS
    None = None
    k1 = k1
    k2 = k2
    Clients = {k1, k2}
    MaxWait = 2
    Budget = 3
    Deadlines = {1, 3}
INVARIANTS
    TimesOutPastDeadline
CHECK_DEADLOCK FALSE
