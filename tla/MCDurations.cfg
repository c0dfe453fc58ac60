SPECIFICATION Spec
CONSTANTS
    cap = cap  local = local
    pub = pub  loop = loop  priv = priv
    Names = {cap}
    LocalNames = {local}
    Addresses = {pub, loop, priv}
    Public = {pub}
    Loopback = {loop}
    NoHost = NoHost
    Malformed = Malformed
    Half = 32
    Minute = 12
    DefaultAllowFor = 1
    Canonical <- MCCanonical
    CountryCodes = {"DE", "AT"}
    MinutesArgs <- DurationMinutes
    URLArgs <- DurationURLs
    TextArgs <- DurationTexts
    ListArgs = {}
    MaxDirectives = 6
INVARIANTS MinutesAreMinutes
CHECK_DEADLOCK FALSE
