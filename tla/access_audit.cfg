\* Two concurrent requests: whoever is let in was entitled once.
CONSTANTS
    r1 = r1
    r2 = r2
    Requests = {r1, r2}
    Ids = {1, 2}
    GroupIds = {1}
    editor = editor
    Names = {editor, viewer}
    viewer = viewer
    Roles = {"isSuperuser"}
    Permissions = {"edit"}
    Endpoints = {"changeUser", "changeGroup", "deleteGroup", "tenant"}
    Targets = {2}
    Undefined = Undefined
    RolesOf <- MCRolesOf
    PermissionsOf <- MCPermissionsOf
    UserBodies <- MCUserBodies
    GroupBodies <- Group
    DefaultName = viewer
    Issues = 1
    SeedUsers <- MCSeedUsers
    SeedGroups <- MCSeedGroups
SPECIFICATION AuditSpec
INVARIANTS AuditTypeOK AdmittedWasEntitled
PROPERTY DemotionIsFinal
SYMMETRY Symmetry
