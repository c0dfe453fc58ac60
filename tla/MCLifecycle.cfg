SPECIFICATION Spec
CONSTANTS
    r1 = r1
    r2 = r2
    db1 = db1
    db2 = db2
    Nil = Nil
    Requests = {r1, r2}
    Readers = {db1, db2}
    SourcesOf <- CountryAndBlacklist
    Refreshing <- BlacklistAndCountry
    MaxVersion = 2
INVARIANTS TypeOK NoLookupOnClosedReader ReadersAccounted CleanupReleasesAll RunningInstanceIsComplete
CHECK_DEADLOCK FALSE
PROPERTIES ImplementsSnapshots
