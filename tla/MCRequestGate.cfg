SPECIFICATION Spec
CONSTANTS
    c1 = c1  r1 = r1
    de = de  nl = nl  ru = ru
    key = key  other = other
    Requests = {r1}
    Clients = {c1}
    NoAddr = NoAddr
    WhitelistCountries = {de}
    BlacklistCountries = {ru}
    Databases <- MCDatabases
    NoDB = NoDB
    NoCode = NoCode
    BypassAPIKey = key
    NoKey = NoKey
    ApiKeys <- MCApiKeys
    MaxChanges = 2
INVARIANTS TypeOK OutcomeExplained BlacklistedThroughoutIsDropped CountryWhitelistFailsClosed
