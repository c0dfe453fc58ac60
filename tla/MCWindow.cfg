SPECIFICATION WSpec
CONSTANTS
    c1 = c1  c2 = c2
    r1 = r1  r2 = r2
    Clients <- MCClients
    Requests <- MCRequests
    Burst = 2
    Refill = 2
    MaxEntries = 1
    Second = 2
    MaxDelay = 1
    Horizon = 6
    MaxResets = 1
SYMMETRY Symmetry
INVARIANTS WindowBounded
PROPERTIES RetryAfterHonest
