\* Two requests of every kind, one failing query.
SPECIFICATION Spec
CONSTANTS
    Requests = {r1, r2}
    Kinds = {"create","update","delete","account","signIn","signUp"}
    Bodies <- MCBodies
    PathIds = {1, 3}
    MaxId = 4
    MaxFaults = 1
    Demo = FALSE
    Undefined = Undefined
    r1 = r1
    r2 = r2
    r3 = r3
    e1 = e1
    e2 = e2
    e3 = e3
    bad = bad
    n1 = n1
    n2 = n2
    n3 = n3
    p1 = p1
    p2 = p2
    g1 = g1
    g2 = g2
    Emails <- MCEmails
    Usernames <- MCUsernames
    Passwords <- MCPasswords
    InvalidEmails = {bad}
    FlagColumns = {"isSuperuser", "isStaff"}
    Groups <- MCGroups
    UserGroup = g2
    Seed <- MCSeed
    SeedSeq = 2
SYMMETRY Symmetry
INVARIANTS
    TypeOK
    Integrity
    Provenance
PROPERTIES
    UpdateCreatesNoUser
    ConflictIsAnother
    SignUpOnlyAdds
    OneSavePerRequest
