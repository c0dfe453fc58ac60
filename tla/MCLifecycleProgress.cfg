SPECIFICATION Spec
CONSTANTS
    r1 = r1
    r2 = r2
    db1 = db1
    db2 = db2
    Nil = Nil
    Requests = {r1}
    Readers = {db1, db2}
    SourcesOf <- CountryAndFile
    Refreshing <- BlacklistAndCountry
    MaxVersion = 2
PROPERTIES CleanupTerminates LookupTerminates ChangesArrive
CHECK_DEADLOCK FALSE
