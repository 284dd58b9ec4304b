\* Two requests of each provider and route, two edits and one failure.
SPECIFICATION FairSpec
CONSTANTS
    Requests = {r1, r2}
    ClientIds = {p1, p2}
    NoId = NoId
    Profiles <- MCProfiles
    Emails = {e1, e2, e3, e4}
    Usernames = {n1, n2, n3, n4}
    ProfileEmail <- MCProfileEmail
    ProfileName <- MCProfileName
    Locals <- MCLocals
    MaxId = 4
    NamedIds = {1}
    MaxEdits = 2
    MaxFaults = 1
    Undefined = Undefined
    r1 = r1
    r2 = r2
    p1 = p1
    p2 = p2
    e1 = e1
    e2 = e2
    e3 = e3
    e4 = e4
    n1 = n1
    n2 = n2
    n3 = n3
    n4 = n4
INVARIANTS
    TypeOK
    DoneOnce
    OwnAccount
    OneTokenWhileNamed
    TokenUnlessFault
PROPERTY
    EveryRequestEnds
