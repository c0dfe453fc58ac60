SPECIFICATION Spec
CONSTANTS
    cap = cap  other = other
    localA = localA  localB = localB
    pub = pub  loop = loop  priv = priv
    Names = {cap, other}
    LocalNames = {localA, localB}
    Addresses = {pub, loop, priv}
    Public = {pub}
    Loopback = {loop}
    NoHost = NoHost
    Answers <- MCAnswers
    MaxBytes = 2
    MaxVerdict = 2
    MaxSize = 4
SYMMETRY Symmetry
INVARIANTS TypeOK RedirectLimitIsExact SiteverifyStaysAtOrigin OnlyCheckedAddresses PlaintextOnlyToOrigin ListIsWhole
CHECK_DEADLOCK FALSE
