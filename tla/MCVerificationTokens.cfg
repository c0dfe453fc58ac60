SPECIFICATION Spec
CONSTANTS
    c1 = c1  c2 = c2
    r1 = r1  r2 = r2
    Requests <- OneRequest
    Clients <- OneClient
    NoAddr = NoAddr
    SecretOf <- OtherSecret
    AllowFor = 4
    ReturnStateValidFor = 3
    CapTimeout = 1
    MaxDelay = 1
    MaxStates = 2
    MaxCookies = 2
    Horizon = 6
    Burst = 1
    Refill = 2
    MaxEntries = 1
    Second = 2
INVARIANTS TypeOK OnlyEarnedCookiesOpen CookieLifetime GrantOpens PromptSolverAccepted
