\* Two requests of two tenants and the master, every kind.
SPECIFICATION FairSpec
CONSTANTS
    Requests = {r1, r2}
    Paths = {master, default, acme}
    MasterPath = master
    Default = default
    Databases = {main, d1, d2}
    Master = main
    SeedRows <- MCRows
    Edits <- MCEdits
    NoDatabase = none
    Undefined = Undefined
    r1 = r1
    r2 = r2
    master = master
    default = default
    acme = acme
    d1 = d1
    d2 = d2
    main = main
    none = none
INVARIANTS
    TypeOK
    Isolation
PROPERTIES
    OneDatabasePerName
    Answered
