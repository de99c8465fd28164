SPECIFICATION ClientSpec
CONSTANTS
    None = None
    k1 = k1
    k2 = k2
    Clients = {k1, k2}
    MaxWait = 1
    Budget = 2
    Deadlines = {2}
INVARIANTS
    EndsForAReason
PROPERTIES
    ClientEnds
CHECK_DEADLOCK FALSE
