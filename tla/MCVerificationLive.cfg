SPECIFICATION Spec
CONSTANTS
    c1 = c1  c2 = c2
    r1 = r1  r2 = r2
    Requests <- TwoRequests
    Clients <- OneClient
    NoAddr = NoAddr
    SecretOf <- OneSecret
    AllowFor = 4
    ReturnStateValidFor = 3
    CapTimeout = 1
    MaxDelay = 1
    MaxStates = 1
    MaxCookies = 1
    Horizon = 3
    Burst = 1
    Refill = 2
    MaxEntries = 1
    Second = 2
PROPERTIES PostsAnswered
